---------------------------- MODULE KvsToolProofs ----------------------------
(***************************************************************************)
(* Theorems about an application and kvs_tool on the same files, for any   *)
(* keys and values, any snapshot_max_count and any number of flushes.      *)
(***************************************************************************)
EXTENDS KvsTool, TLAPS

-----------------------------------------------------------------------------
(* The inductive invariant: what the stores leave in the files *)

Rotating == {"look_json", "look_hash", "rename_hash", "rename_json"}

\* In the rotation a slot is left; a flush has a document of its own, which no
\* flush has acknowledged.
PlaceInv ==
    \A p \in Stores :
        /\ pc[p] \in Rotating => idx[p] > 0
        /\ pc[p] \in Flushing => doc[p] \in 1 .. seq \ acked

\* A hash file that is whole is the last thing an acknowledged flush wrote.
HashInv == \A s \in Slots : hash[s] \in Docs => hash[s] \in acked

\* Documents are numbered by their flush; what a store has in memory was
\* acknowledged; no two stores flush the same document.
DocInv ==
    /\ acked \subseteq 1 .. seq
    /\ \A p \in Stores : base[p] \in acked \cup {0}
    /\ \A p, q \in Stores :
          p # q /\ pc[p] \in Flushing /\ pc[q] \in Flushing => doc[p] # doc[q]

FilesInv == TypeOK /\ PlaceInv /\ HashInv /\ DocInv

-----------------------------------------------------------------------------
(* The inductive invariant: how far the tool is *)

Changes == {"setkey", "removekey", "reset", "createtestdata"}

StartInv ==
    stage \in {"none", "build"} => pc[Tool] = "down" /\ base[Tool] = 0 /\ opened = 0

\* Until its operation is looked at, the tool has what it opened.
OpenInv ==
    stage = "open" =>
        /\ pc[Tool] \in {"down", "idle"} \cup Loading
        /\ base[Tool] = opened
        /\ pc[Tool] = "down" => result[Tool] # "Ok"
        /\ pc[Tool] = "idle" => map[Tool] = MapOf(opened)
        /\ pc[Tool] \in Loading => call[Tool].mode = "Optional"

RestoreInv ==
    stage = "restore" =>
        /\ pc[Tool] \in {"idle"} \cup Loading
        /\ pc[Tool] \in Loading => call[Tool].mode = "restore"
        /\ pc[Tool] \in Loading \/ result[Tool] # "Ok" => base[Tool] = opened
        /\ pc[Tool] = "idle" /\ result[Tool] = "Ok" =>
              base[Tool] \in acked /\ map[Tool] = content[base[Tool]]

\* d is the document that the operation promises.
Promised(d) ==
    IF inv.op = "snapshotrestore"
    THEN \E e \in acked \ {d} : content[d] = content[e]
    ELSE content[d] = Done(inv, MapOf(opened))

FlushInv ==
    stage = "flush" =>
        /\ inv.op \in Changes \cup {"snapshotrestore"}
        /\ pc[Tool] \in {"idle"} \cup Flushing
        /\ pc[Tool] \in Flushing => Promised(doc[Tool])
        /\ pc[Tool] = "idle" /\ result[Tool] = "Ok" =>
              base[Tool] \in acked \ {opened} /\ Promised(base[Tool])

\* The document the tool has generated is acknowledged when its flush returned
\* Ok, and only then: no other flush writes it.
FlushedInv ==
    IF stage = "flush"
    THEN /\ flushed \in 1 .. seq
         /\ pc[Tool] \in Flushing => flushed = doc[Tool]
         /\ pc[Tool] = "idle" /\ result[Tool] = "Ok" => flushed = base[Tool]
         /\ pc[Tool] = "idle" /\ result[Tool] # "Ok" => flushed \notin acked
         /\ pc[App] \in Flushing => doc[App] # flushed
    ELSE flushed = 0

ToolInv ==
    /\ ToolTypeOK
    /\ opened \in acked \cup {0}
    /\ StartInv /\ OpenInv /\ RestoreInv /\ FlushInv /\ FlushedInv

IInv == FilesInv /\ ToolInv

-----------------------------------------------------------------------------
(* What a step of one store leaves alone *)

\* A step of p is no step of another store, and history is only added to: by a
\* flush of p, the document it begins with and its acknowledgement.
Frame(p) ==
    /\ \A q \in Stores \ {p} :
          /\ pc'[q] = pc[q]
          /\ map'[q] = map[q]
          /\ base'[q] = base[q]
          /\ call'[q] = call[q]
          /\ doc'[q] = doc[q]
          /\ result'[q] = result[q]
    /\ acked' = acked \/ (pc[p] \in Flushing /\ acked' = acked \cup {doc[p]})
    /\ seq' = seq \/ seq' = seq + 1
    /\ pc'[p] \in Flushing => (pc[p] \in Flushing /\ doc'[p] = doc[p]) \/ doc'[p] = seq + 1
    /\ \A d \in 1 .. seq : content'[d] = content[d]

\* What a file holds in a slot is no document unless it is whole.
LEMMA Contents == Absent \notin Docs /\ Empty \notin Docs /\ Torn \notin Docs
  BY ContentAssumption, MaxFlushAssumption DEF Docs

\* p returns: whatever it did to the files before, if it wrote no hash.
LEMMA Stops ==
    ASSUME FilesInv, NEW p \in Stores,
           NEW place \in {"down", "idle"}, NEW code \in Results,
           Return(p, place, code),
           DOMAIN map' = Stores, \A q \in Stores \ {p} : map'[q] = map[q],
           NEW b \in acked \cup {0}, base' = [base EXCEPT ![p] = b],
           json' \in [Slots -> Content],
           hash' \in [Slots -> Content],
           \A s \in Slots : hash'[s] \in Docs => hash'[s] \in acked,
           turns' \in BOOLEAN,
           UNCHANGED history
    PROVE  FilesInv' /\ Frame(p)
<1> USE DEF FilesInv
<1>1. /\ 0 \in Slots /\ 0 \in 0 .. MaxCount - 1
      /\ Absent \in Content /\ place \notin Flushing \cup Rotating
      /\ b \in Docs \cup {0}
      BY MaxCountAssumption DEF Slots, Content, Flushing, Rotating, TypeOK
<1>2. TypeOK'
  <2>1. pc' \in [Stores -> {"down", "idle"} \cup Loading \cup Flushing]
        BY DEF TypeOK, Return, Goto
  <2>2. call' \in [Stores -> [slot : Slots, mode : Modes \cup {"restore"}]]
        BY <1>1 DEF TypeOK, Return, NoCall, Modes
  <2>3. /\ idx' \in [Stores -> 0 .. MaxCount - 1]
        /\ got' \in [Stores -> Content]
        /\ doc' \in [Stores -> Docs \cup {0}]
        /\ handle' \in [Stores -> Slots \cup {Missing}]
        /\ result' \in [Stores -> Results]
        BY <1>1 DEF TypeOK, Return
  <2>4. base' \in [Stores -> Docs \cup {0}] BY <1>1 DEF TypeOK
  <2>5. QED BY <2>1, <2>2, <2>3, <2>4 DEF TypeOK, history
<1>3. /\ \A q \in Stores \ {p} :
            pc'[q] = pc[q] /\ call'[q] = call[q] /\ idx'[q] = idx[q]
            /\ doc'[q] = doc[q] /\ result'[q] = result[q] /\ base'[q] = base[q]
      /\ pc'[p] = place /\ base'[p] = b
      BY DEF TypeOK, Return, Goto
<1>4. PlaceInv' BY <1>1, <1>3 DEF PlaceInv, history
<1>5. HashInv' BY DEF HashInv, history
<1>6. DocInv' BY <1>1, <1>3 DEF DocInv, history
<1>7. Frame(p) BY <1>1, <1>3 DEF Frame, history
<1>8. QED BY <1>2, <1>4, <1>5, <1>6, <1>7

\* p goes on in a flush, or in a load, without returning.
LEMMA Goes ==
    ASSUME FilesInv, NEW p \in Stores, NEW label \in Loading \cup Flushing,
           Goto(p, label),
           label \in Flushing => pc[p] \in Flushing,
           label \in Rotating => idx'[p] > 0,
           call' \in [Stores -> [slot : Slots, mode : Modes \cup {"restore"}]],
           idx' \in [Stores -> 0 .. MaxCount - 1],
           got' \in [Stores -> Content],
           handle' \in [Stores -> Slots \cup {Missing}],
           result' \in [Stores -> Results],
           \A q \in Stores \ {p} :
              idx'[q] = idx[q] /\ call'[q] = call[q] /\ result'[q] = result[q],
           json' \in [Slots -> Content],
           hash' \in [Slots -> Content],
           \A s \in Slots : hash'[s] \in Docs => hash'[s] \in acked,
           turns' \in BOOLEAN,
           UNCHANGED <<map, base, doc, history>>
    PROVE  FilesInv' /\ Frame(p)
<1> USE DEF FilesInv
<1>1. TypeOK' BY DEF TypeOK, Goto, history
<1>2. pc'[p] = label /\ \A q \in Stores \ {p} : pc'[q] = pc[q]
      BY DEF TypeOK, Goto
<1>3. PlaceInv' BY <1>2 DEF PlaceInv, history, Loading, Flushing, Rotating
<1>4. HashInv' BY DEF HashInv, history
<1>5. DocInv' BY <1>2 DEF DocInv, history, Loading, Flushing
<1>6. Frame(p) BY <1>2 DEF Frame, history, Loading, Flushing
<1>7. QED BY <1>1, <1>3, <1>4, <1>5, <1>6

\* No step at all.
LEMMA Rests ==
    ASSUME FilesInv, UNCHANGED vars
    PROVE  FilesInv' /\ \A p \in Stores : Frame(p)
<1> USE DEF FilesInv, vars, disk, history
<1>1. TypeOK' BY DEF TypeOK
<1>2. PlaceInv' BY DEF PlaceInv
<1>3. HashInv' BY DEF HashInv
<1>4. DocInv' BY DEF DocInv
<1>5. QED BY <1>1, <1>2, <1>3, <1>4 DEF Frame

-----------------------------------------------------------------------------
(* Loading *)

LEMMA OpenIgnoredFiles ==
    ASSUME FilesInv, NEW p \in Stores, OpenIgnored(p)
    PROVE  FilesInv' /\ Frame(p)
<1>1. /\ Return(p, "idle", "Ok")
      /\ base' = [base EXCEPT ![p] = 0]
      /\ DOMAIN map' = Stores
      /\ \A q \in Stores \ {p} : map'[q] = map[q]
      /\ json' \in [Slots -> Content] /\ hash' \in [Slots -> Content]
      /\ \A s \in Slots : hash'[s] \in Docs => hash'[s] \in acked
      /\ turns' \in BOOLEAN
      /\ UNCHANGED history
      BY DEF OpenIgnored, Remember, disk, FilesInv, TypeOK, HashInv
<1>2. "Ok" \in Results BY DEF Results
<1>3. QED BY <1>1, <1>2, Stops

LEMMA StartLoadFiles ==
    ASSUME FilesInv, NEW p \in Stores, NEW slot \in Slots,
           NEW mode \in Modes \cup {"restore"}, StartLoad(p, slot, mode)
    PROVE  FilesInv' /\ Frame(p)
<1> USE DEF FilesInv, StartLoad
<1>1. /\ "read_json" \in Loading \cup Flushing
      /\ "read_json" \notin Flushing /\ "read_json" \notin Rotating
      BY DEF Loading, Flushing, Rotating
<1>2. call' \in [Stores -> [slot : Slots, mode : Modes \cup {"restore"}]]
      BY DEF TypeOK
<1>3. result' \in [Stores -> Results] BY DEF TypeOK, Results
<1>4. \A q \in Stores \ {p} :
         idx'[q] = idx[q] /\ call'[q] = call[q] /\ result'[q] = result[q]
      BY DEF TypeOK
<1>5. /\ idx' \in [Stores -> 0 .. MaxCount - 1]
      /\ got' \in [Stores -> Content]
      /\ handle' \in [Stores -> Slots \cup {Missing}]
      /\ json' \in [Slots -> Content] /\ hash' \in [Slots -> Content]
      /\ \A s \in Slots : hash'[s] \in Docs => hash'[s] \in acked
      /\ turns' \in BOOLEAN
      BY DEF TypeOK, HashInv, disk
<1>6. QED BY <1>1, <1>2, <1>3, <1>4, <1>5, Goes

LEMMA OpenFiles ==
    ASSUME FilesInv, NEW p \in Stores, NEW mode \in Modes, Open(p, mode)
    PROVE  FilesInv' /\ Frame(p)
<1>1. 0 \in Slots BY MaxCountAssumption DEF Slots
<1>2. QED BY <1>1, StartLoadFiles DEF Open

LEMMA RestoreFiles ==
    ASSUME FilesInv, NEW p \in Stores, NEW id \in Slots, Restore(p, id)
    PROVE  FilesInv' /\ Frame(p)
<1>1. CASE StartLoad(p, id, "restore") BY <1>1, StartLoadFiles
<1>2. CASE /\ Return(p, "idle", "InvalidSnapshotId")
           /\ UNCHANGED <<disk, map, base, history, turns>>
  <2>1. /\ "InvalidSnapshotId" \in Results
        /\ base[p] \in acked \cup {0} /\ base' = [base EXCEPT ![p] = base[p]]
        /\ DOMAIN map' = Stores
        /\ json' \in [Slots -> Content] /\ hash' \in [Slots -> Content]
        /\ \A s \in Slots : hash'[s] \in Docs => hash'[s] \in acked
        /\ turns' \in BOOLEAN
        BY <1>2 DEF Results, FilesInv, TypeOK, HashInv, DocInv, disk
  <2>2. QED BY <1>2, <2>1, Stops
<1>3. QED BY <1>1, <1>2 DEF Restore

LEMMA LoadFailsFiles ==
    ASSUME FilesInv, NEW p \in Stores, NEW code \in Results, LoadFails(p, code)
    PROVE  FilesInv' /\ Frame(p)
<1>1. /\ json' \in [Slots -> Content] /\ hash' \in [Slots -> Content]
      /\ \A s \in Slots : hash'[s] \in Docs => hash'[s] \in acked
      /\ turns' \in BOOLEAN
      /\ UNCHANGED history
      BY DEF LoadFails, FilesInv, TypeOK, HashInv, disk
<1>2. PICK place \in {"down", "idle"}, answer \in Results, b \in acked \cup {0} :
         /\ Return(p, place, answer)
         /\ base' = [base EXCEPT ![p] = b]
         /\ DOMAIN map' = Stores
         /\ \A q \in Stores \ {p} : map'[q] = map[q]
  <2>1. CASE UNCHANGED <<map, base>> /\ \E place \in {"down", "idle"} : Return(p, place, code)
    <3>1. base[p] \in acked \cup {0} /\ base' = [base EXCEPT ![p] = base[p]]
          BY <2>1 DEF FilesInv, TypeOK, DocInv
    <3>2. DOMAIN map' = Stores /\ \A q \in Stores \ {p} : map'[q] = map[q]
          BY <2>1 DEF FilesInv, TypeOK
    <3>3. QED BY <2>1, <3>1, <3>2
  <2>2. CASE Return(p, "idle", "Ok") /\ Remember(p, EmptyMap, 0)
    <3>1. "Ok" \in Results BY DEF Results
    <3>2. /\ base' = [base EXCEPT ![p] = 0]
          /\ DOMAIN map' = Stores
          /\ \A q \in Stores \ {p} : map'[q] = map[q]
          BY <2>2 DEF Remember, FilesInv, TypeOK
    <3>3. QED BY <2>2, <3>1, <3>2
  <2>3. QED BY <2>1, <2>2 DEF LoadFails
<1>3. QED BY <1>1, <1>2, Stops

LEMMA ReadJsonFiles ==
    ASSUME FilesInv, NEW p \in Stores, ReadJson(p)
    PROVE  FilesInv' /\ Frame(p)
<1>1. {"FileNotFound", "UnmappedError"} \subseteq Results BY DEF Results
<1>2. CASE LoadFails(p, "FileNotFound") \/ LoadFails(p, "UnmappedError")
      BY <1>1, <1>2, LoadFailsFiles
<1>3. CASE /\ Goto(p, "read_hash")
           /\ got' = [got EXCEPT ![p] = json[call[p].slot]]
           /\ UNCHANGED <<disk, map, base, call, idx, doc, handle, result, history, turns>>
  <2>1. /\ "read_hash" \in Loading \cup Flushing
        /\ "read_hash" \notin Flushing /\ "read_hash" \notin Rotating
        BY DEF Loading, Flushing, Rotating
  <2>2. got' \in [Stores -> Content] BY <1>3 DEF FilesInv, TypeOK
  <2>3. /\ call' \in [Stores -> [slot : Slots, mode : Modes \cup {"restore"}]]
        /\ idx' \in [Stores -> 0 .. MaxCount - 1]
        /\ handle' \in [Stores -> Slots \cup {Missing}]
        /\ result' \in [Stores -> Results]
        /\ json' \in [Slots -> Content] /\ hash' \in [Slots -> Content]
        /\ \A s \in Slots : hash'[s] \in Docs => hash'[s] \in acked
        /\ turns' \in BOOLEAN
        BY <1>3 DEF FilesInv, TypeOK, HashInv, disk
  <2>4. QED BY <1>3, <2>1, <2>2, <2>3, Goes
<1>4. QED BY <1>2, <1>3 DEF ReadJson

LEMMA ReadHashFiles ==
    ASSUME FilesInv, NEW p \in Stores, ReadHash(p)
    PROVE  FilesInv' /\ Frame(p)
<1>1. {"FileNotFound", "ValidationFailed", "UnmappedError", "Ok"} \subseteq Results
      BY DEF Results
<1>2. CASE \/ LoadFails(p, "FileNotFound") \/ LoadFails(p, "ValidationFailed")
           \/ LoadFails(p, "UnmappedError")
      BY <1>1, <1>2, LoadFailsFiles
<1>3. CASE /\ Matches(got[p], hash[call[p].slot])
           /\ Return(p, "idle", "Ok")
           /\ Remember(p, content[got[p]], got[p])
           /\ UNCHANGED <<disk, history, turns>>
  <2>1. got[p] \in acked
        BY <1>3 DEF Matches, FilesInv, TypeOK, HashInv
  <2>2. /\ base' = [base EXCEPT ![p] = got[p]]
        /\ DOMAIN map' = Stores
        /\ \A q \in Stores \ {p} : map'[q] = map[q]
        /\ json' \in [Slots -> Content] /\ hash' \in [Slots -> Content]
        /\ \A s \in Slots : hash'[s] \in Docs => hash'[s] \in acked
        /\ turns' \in BOOLEAN
        BY <1>3 DEF Remember, FilesInv, TypeOK, HashInv, disk
  <2>3. QED BY <1>1, <1>3, <2>1, <2>2, Stops
<1>4. QED BY <1>2, <1>3 DEF ReadHash

-----------------------------------------------------------------------------
(* Flushing *)

LEMMA FlushMapFiles ==
    ASSUME FilesInv, NEW p \in Stores, pc[p] = "idle", NEW m, FlushMap(p, m)
    PROVE  FilesInv' /\ Frame(p)
<1> USE DEF FilesInv, FlushMap
<1>1. /\ seq \in Nat /\ seq' = seq + 1 /\ seq + 1 \in Docs /\ seq' \in 0 .. MaxFlush
      /\ seq + 1 \notin acked /\ seq + 1 \notin 1 .. seq
      /\ acked \subseteq 1 .. seq'
      BY MaxFlushAssumption DEF TypeOK, Docs, DocInv
<1> DEFINE label == IF MaxCount > 1 THEN "look_json" ELSE "open_json"
<1>2. /\ label \in Flushing
      /\ label \in Rotating => MaxCount - 1 > 0
      /\ MaxCount - 1 \in 0 .. MaxCount - 1
      BY MaxCountAssumption DEF Flushing, Rotating
<1>3. /\ pc' \in [Stores -> {"down", "idle"} \cup Loading \cup Flushing]
      /\ pc' = [pc EXCEPT ![p] = label]
      BY <1>2 DEF TypeOK, Goto
<1> HIDE DEF label
<1>4. TypeOK'
  <2>1. /\ idx' \in [Stores -> 0 .. MaxCount - 1]
        /\ doc' \in [Stores -> Docs \cup {0}]
        /\ result' \in [Stores -> Results]
        BY <1>1, <1>2 DEF TypeOK, Results
  <2>2. DOMAIN map' = Stores /\ DOMAIN content' = Docs BY DEF TypeOK
  <2>3. turns' \in BOOLEAN BY DEF TypeOK
  <2>4. QED BY <1>1, <1>3, <2>1, <2>2, <2>3 DEF TypeOK, disk
<1>5. /\ pc'[p] = label /\ idx'[p] = MaxCount - 1 /\ doc'[p] = seq + 1
      /\ \A q \in Stores \ {p} :
            /\ pc'[q] = pc[q] /\ idx'[q] = idx[q] /\ doc'[q] = doc[q]
            /\ map'[q] = map[q] /\ result'[q] = result[q]
      BY <1>3 DEF TypeOK
<1>6. PlaceInv' BY <1>1, <1>2, <1>5 DEF PlaceInv
<1>7. HashInv' BY DEF HashInv, disk
<1>8. DocInv' BY <1>1, <1>5 DEF DocInv, PlaceInv
<1>9. Frame(p)
  <2>1. \A d \in 1 .. seq : content'[d] = content[d] BY <1>1 DEF TypeOK
  <2>2. QED BY <1>5, <2>1 DEF Frame
<1>10. QED BY <1>4, <1>6, <1>7, <1>8, <1>9

\* A flush that returns early, and what a failed write may leave.
LEMMA FlushFailsFiles ==
    ASSUME FilesInv, NEW p \in Stores, NEW code \in Results, FlushFails(p, code),
           json' \in [Slots -> Content],
           hash' \in [Slots -> Content],
           \A s \in Slots : hash'[s] \in Docs => hash'[s] \in acked
    PROVE  FilesInv' /\ Frame(p)
<1>1. /\ Return(p, "idle", code)
      /\ base[p] \in acked \cup {0} /\ base' = [base EXCEPT ![p] = base[p]]
      /\ DOMAIN map' = Stores /\ \A q \in Stores \ {p} : map'[q] = map[q]
      /\ turns' \in BOOLEAN
      /\ UNCHANGED history
      BY DEF FlushFails, FilesInv, TypeOK, DocInv
<1>2. QED BY <1>1, Stops

LEMMA PutFile ==
    ASSUME FilesInv, NEW p \in Stores, NEW c \in Content, NEW file \in [Slots -> Content]
    PROVE  Put(file, p, c) \in [Slots -> Content]
  BY DEF FilesInv, TypeOK, Put

LEMMA RenamedFile ==
    ASSUME FilesInv, NEW i \in 1 .. MaxCount - 1, NEW kind, NEW file \in [Slots -> Content]
    PROVE  /\ Renamed(file, i) \in [Slots -> Content]
           /\ \A s \in Slots : \/ Renamed(file, i)[s] = Absent
                               \/ \E t \in Slots : Renamed(file, i)[s] = file[t]
           /\ Carried(i, kind) \in [Stores -> Slots \cup {Missing}]
<1>1. i \in Slots /\ i - 1 \in Slots BY MaxCountAssumption DEF Slots
<1>2. Renamed(file, i) \in [Slots -> Content] BY <1>1 DEF Renamed, Content
<1>3. \A s \in Slots : Renamed(file, i)[s] \in {Absent, file[i - 1], file[s]}
      BY <1>1 DEF Renamed
<1>4. Carried(i, kind) \in [Stores -> Slots \cup {Missing}]
      BY <1>1 DEF Carried, FilesInv, TypeOK
<1>5. QED BY <1>1, <1>2, <1>3, <1>4

LEMMA LookJsonFiles ==
    ASSUME FilesInv, NEW p \in Stores, LookJson(p)
    PROVE  FilesInv' /\ Frame(p)
<1>1. pc[p] \in Flushing /\ pc[p] \in Rotating /\ "look_hash" \in Loading \cup Flushing
      BY DEF LookJson, Flushing, Rotating
<1>2. idx[p] > 0 /\ idx[p] - 1 \in Slots /\ idx' = idx
      BY <1>1, MaxCountAssumption DEF FilesInv, TypeOK, PlaceInv, LookJson, Slots
<1>3. got' \in [Stores -> Content] BY <1>2 DEF LookJson, Looks, Content, FilesInv, TypeOK
<1>4. /\ Goto(p, "look_hash")
      /\ call' \in [Stores -> [slot : Slots, mode : Modes \cup {"restore"}]]
      /\ idx' \in [Stores -> 0 .. MaxCount - 1]
      /\ handle' \in [Stores -> Slots \cup {Missing}]
      /\ result' \in [Stores -> Results]
      /\ json' \in [Slots -> Content] /\ hash' \in [Slots -> Content]
      /\ \A s \in Slots : hash'[s] \in Docs => hash'[s] \in acked
      /\ turns' \in BOOLEAN
      /\ UNCHANGED <<map, base, call, doc, result, history>>
      BY DEF LookJson, FilesInv, TypeOK, HashInv, disk
<1>5. QED BY <1>1, <1>2, <1>3, <1>4, Goes

\* The slot below, or the files of slot 0 when the rotation is over.
LEMMA NextSlotPlace ==
    ASSUME FilesInv, NEW p \in Stores, pc[p] \in Rotating, NextSlot(p)
    PROVE  \E label \in {"open_json", "look_json"} :
              /\ Goto(p, label)
              /\ label = "look_json" => idx'[p] > 0
              /\ idx' \in [Stores -> 0 .. MaxCount - 1]
              /\ \A q \in Stores \ {p} : idx'[q] = idx[q]
<1>1. idx[p] \in 1 .. MaxCount - 1
      BY MaxCountAssumption DEF FilesInv, TypeOK, PlaceInv
<1>2. /\ idx'[p] = idx[p] - 1
      /\ idx' \in [Stores -> 0 .. MaxCount - 1]
      /\ \A q \in Stores \ {p} : idx'[q] = idx[q]
      BY <1>1, MaxCountAssumption DEF FilesInv, TypeOK, NextSlot
<1>3. CASE idx[p] = 1 BY <1>2, <1>3 DEF NextSlot
<1>4. CASE idx[p] # 1 BY <1>1, <1>2, <1>4 DEF NextSlot
<1>5. QED BY <1>3, <1>4

LEMMA LookHashFiles ==
    ASSUME FilesInv, NEW p \in Stores, LookHash(p)
    PROVE  FilesInv' /\ Frame(p)
<1>1. /\ json' \in [Slots -> Content] /\ hash' \in [Slots -> Content]
      /\ \A s \in Slots : hash'[s] \in Docs => hash'[s] \in acked
      /\ pc[p] \in Flushing /\ pc[p] \in Rotating
      BY DEF LookHash, FilesInv, TypeOK, HashInv, disk, Flushing, Rotating
<1>2. CASE FlushFails(p, "IntegrityCorrupted")
      BY <1>1, <1>2, FlushFailsFiles DEF Results
<1>3. ASSUME NEW label \in Flushing,
             Goto(p, label),
             label \in Rotating => idx'[p] > 0,
             idx' \in [Stores -> 0 .. MaxCount - 1],
             \A q \in Stores \ {p} : idx'[q] = idx[q],
             NEW c, LookedOn(p, c)
      PROVE  FilesInv' /\ Frame(p)
  <2>1. got' \in [Stores -> Content] BY <1>3 DEF LookedOn, FilesInv, TypeOK, Content
  <2>2. /\ call' \in [Stores -> [slot : Slots, mode : Modes \cup {"restore"}]]
        /\ handle' \in [Stores -> Slots \cup {Missing}]
        /\ result' \in [Stores -> Results]
        /\ turns' \in BOOLEAN
        /\ \A q \in Stores \ {p} : call'[q] = call[q] /\ result'[q] = result[q]
        /\ UNCHANGED <<map, base, doc, history>>
        BY <1>3 DEF LookedOn, FilesInv, TypeOK
  <2>3. QED BY <1>1, <1>3, <2>1, <2>2, Goes
<1>4. ASSUME NEW c, NextSlot(p), LookedOn(p, c) PROVE FilesInv' /\ Frame(p)
  <2>1. PICK label \in {"open_json", "look_json"} :
           /\ Goto(p, label)
           /\ label = "look_json" => idx'[p] > 0
           /\ idx' \in [Stores -> 0 .. MaxCount - 1]
           /\ \A q \in Stores \ {p} : idx'[q] = idx[q]
        BY <1>1, <1>4, NextSlotPlace
  <2>2. label \in Flushing /\ (label \in Rotating => label = "look_json")
        BY DEF Flushing, Rotating
  <2>3. QED BY <1>3, <1>4, <2>1, <2>2
<1>5. ASSUME NEW c, Goto(p, "rename_hash"), LookedOn(p, c), UNCHANGED idx
      PROVE  FilesInv' /\ Frame(p)
  <2>1. /\ "rename_hash" \in Flushing
        /\ idx'[p] > 0
        /\ idx' \in [Stores -> 0 .. MaxCount - 1]
        /\ \A q \in Stores \ {p} : idx'[q] = idx[q]
        BY <1>1, <1>5 DEF FilesInv, TypeOK, PlaceInv, Flushing
  <2>2. QED BY <1>3, <1>5, <2>1
<1>6. QED BY <1>2, <1>4, <1>5 DEF LookHash

\* p goes on in a flush, whose loop, answer and document stay what they are.
LEMMA FlushGoes ==
    ASSUME FilesInv, NEW p \in Stores, pc[p] \in Flushing,
           NEW label \in Flushing, Goto(p, label),
           label \in Rotating => idx'[p] > 0,
           idx' \in [Stores -> 0 .. MaxCount - 1],
           \A q \in Stores \ {p} : idx'[q] = idx[q],
           handle' \in [Stores -> Slots \cup {Missing}],
           json' \in [Slots -> Content],
           hash' \in [Slots -> Content],
           \A s \in Slots : hash'[s] \in Docs => hash'[s] \in acked,
           UNCHANGED <<map, base, call, got, doc, result, history, turns>>
    PROVE  FilesInv' /\ Frame(p)
<1>1. /\ call' \in [Stores -> [slot : Slots, mode : Modes \cup {"restore"}]]
      /\ got' \in [Stores -> Content]
      /\ result' \in [Stores -> Results]
      /\ turns' \in BOOLEAN
      BY DEF FilesInv, TypeOK
<1>2. QED BY <1>1, Goes

LEMMA RenameHashFiles ==
    ASSUME FilesInv, NEW p \in Stores, RenameHash(p)
    PROVE  FilesInv' /\ Frame(p)
<1>1. /\ pc[p] \in Flushing /\ idx[p] > 0 /\ idx[p] \in 1 .. MaxCount - 1
      /\ json' \in [Slots -> Content]
      /\ {"FileNotFound", "UnmappedError"} \subseteq Results
      BY MaxCountAssumption
      DEF RenameHash, FilesInv, TypeOK, PlaceInv, Flushing, Rotating, Results
<1>2. CASE (FlushFails(p, "FileNotFound") \/ IoError(p)) /\ UNCHANGED hash
  <2>1. hash' \in [Slots -> Content] /\ \A s \in Slots : hash'[s] \in Docs => hash'[s] \in acked
        BY <1>2 DEF FilesInv, TypeOK, HashInv
  <2>2. QED BY <1>1, <1>2, <2>1, FlushFailsFiles DEF IoError
<1>3. CASE /\ hash' = Renamed(hash, idx[p])
           /\ handle' = Carried(idx[p], "write_hash")
           /\ Goto(p, "rename_json")
           /\ UNCHANGED <<map, base, call, idx, got, doc, result, history, turns>>
  <2>1. /\ hash \in [Slots -> Content]
        /\ idx' \in [Stores -> 0 .. MaxCount - 1]
        /\ \A q \in Stores \ {p} : idx'[q] = idx[q]
        /\ idx'[p] > 0
        BY <1>1, <1>3 DEF FilesInv, TypeOK
  <2>2. /\ hash' \in [Slots -> Content]
        /\ \A s \in Slots : hash'[s] = Absent \/ \E t \in Slots : hash'[s] = hash[t]
        /\ handle' \in [Stores -> Slots \cup {Missing}]
        BY <1>1, <1>3, <2>1, RenamedFile
  <2>3. \A s \in Slots : hash'[s] \in Docs => hash'[s] \in acked
        BY <2>2, Contents DEF FilesInv, HashInv
  <2>4. "rename_json" \in Flushing BY DEF Flushing
  <2>5. QED BY <1>1, <1>3, <2>1, <2>2, <2>3, <2>4, FlushGoes
<1>4. QED BY <1>2, <1>3 DEF RenameHash

LEMMA RenameJsonFiles ==
    ASSUME FilesInv, NEW p \in Stores, RenameJson(p)
    PROVE  FilesInv' /\ Frame(p)
<1>1. /\ pc[p] \in Flushing /\ pc[p] \in Rotating /\ idx[p] \in 1 .. MaxCount - 1
      /\ hash' \in [Slots -> Content]
      /\ \A s \in Slots : hash'[s] \in Docs => hash'[s] \in acked
      /\ {"FileNotFound", "UnmappedError"} \subseteq Results
      BY MaxCountAssumption
      DEF RenameJson, FilesInv, TypeOK, PlaceInv, HashInv, Flushing, Rotating, Results
<1>2. CASE (FlushFails(p, "FileNotFound") \/ IoError(p)) /\ UNCHANGED json
  <2>1. json' \in [Slots -> Content] BY <1>2 DEF FilesInv, TypeOK
  <2>2. QED BY <1>1, <1>2, <2>1, FlushFailsFiles DEF IoError
<1>3. CASE /\ json' = Renamed(json, idx[p])
           /\ handle' = Carried(idx[p], "write_json")
           /\ NextSlot(p)
           /\ UNCHANGED <<map, base, call, got, doc, result, history, turns>>
  <2>1. json' \in [Slots -> Content] /\ handle' \in [Stores -> Slots \cup {Missing}]
    <3>1. json \in [Slots -> Content] BY DEF FilesInv, TypeOK
    <3>2. QED BY <1>1, <1>3, <3>1, RenamedFile
  <2>2. PICK label \in {"open_json", "look_json"} :
           /\ Goto(p, label)
           /\ label = "look_json" => idx'[p] > 0
           /\ idx' \in [Stores -> 0 .. MaxCount - 1]
           /\ \A q \in Stores \ {p} : idx'[q] = idx[q]
        BY <1>1, <1>3, NextSlotPlace
  <2>3. label \in Flushing /\ (label \in Rotating => label = "look_json")
        BY DEF Flushing, Rotating
  <2>4. QED BY <1>1, <1>3, <2>1, <2>2, <2>3, FlushGoes
<1>4. QED BY <1>2, <1>3 DEF RenameJson

\* The places after the rotation.
LEMMA LatePlaces ==
    ASSUME NEW label \in {"open_json", "write_json", "open_hash", "write_hash"}
    PROVE  label \in Flushing /\ label \notin Rotating
  BY DEF Flushing, Rotating

LEMMA OpenJsonFiles ==
    ASSUME FilesInv, NEW p \in Stores, OpenJson(p)
    PROVE  FilesInv' /\ Frame(p)
<1>1. /\ pc[p] \in Flushing /\ 0 \in Slots
      /\ hash' \in [Slots -> Content]
      /\ \A s \in Slots : hash'[s] \in Docs => hash'[s] \in acked
      BY MaxCountAssumption DEF OpenJson, FilesInv, TypeOK, HashInv, Flushing, Slots
<1>2. CASE (IoError(p) \/ FlushFails(p, "JsonGeneratorError")) /\ UNCHANGED json
  <2>1. /\ json' \in [Slots -> Content]
        /\ "UnmappedError" \in Results /\ "JsonGeneratorError" \in Results
        BY <1>2 DEF FilesInv, TypeOK, Results
  <2>2. QED BY <1>1, <1>2, <2>1, FlushFailsFiles DEF IoError
<1>3. CASE /\ json' = [json EXCEPT ![0] = Empty]
           /\ handle' = [handle EXCEPT ![p] = 0]
           /\ Goto(p, "write_json")
           /\ UNCHANGED <<map, base, call, idx, got, doc, result, history, turns>>
  <2>1. /\ json' \in [Slots -> Content]
        /\ handle' \in [Stores -> Slots \cup {Missing}]
        /\ idx' \in [Stores -> 0 .. MaxCount - 1]
        /\ \A q \in Stores \ {p} : idx'[q] = idx[q]
        BY <1>1, <1>3 DEF FilesInv, TypeOK, Content
  <2>2. QED BY <1>1, <1>3, <2>1, LatePlaces, FlushGoes
<1>4. QED BY <1>2, <1>3 DEF OpenJson

LEMMA OpenHashFiles ==
    ASSUME FilesInv, NEW p \in Stores, OpenHash(p)
    PROVE  FilesInv' /\ Frame(p)
<1>1. pc[p] \in Flushing /\ 0 \in Slots /\ json' \in [Slots -> Content]
      BY MaxCountAssumption DEF OpenHash, FilesInv, TypeOK, Flushing, Slots
<1>2. CASE IoError(p) /\ UNCHANGED hash
  <2>1. /\ hash' \in [Slots -> Content]
        /\ \A s \in Slots : hash'[s] \in Docs => hash'[s] \in acked
        /\ "UnmappedError" \in Results
        BY <1>2 DEF FilesInv, TypeOK, HashInv, Results
  <2>2. QED BY <1>1, <1>2, <2>1, FlushFailsFiles DEF IoError
<1>3. CASE /\ hash' = [hash EXCEPT ![0] = Empty]
           /\ handle' = [handle EXCEPT ![p] = 0]
           /\ Goto(p, "write_hash")
           /\ UNCHANGED <<map, base, call, idx, got, doc, result, history, turns>>
  <2>1. /\ hash' \in [Slots -> Content]
        /\ handle' \in [Stores -> Slots \cup {Missing}]
        /\ idx' \in [Stores -> 0 .. MaxCount - 1]
        /\ \A q \in Stores \ {p} : idx'[q] = idx[q]
        BY <1>1, <1>3 DEF FilesInv, TypeOK, Content
  <2>2. \A s \in Slots : hash'[s] \in Docs => hash'[s] \in acked
        BY <1>3, Contents DEF FilesInv, TypeOK, HashInv
  <2>3. QED BY <1>1, <1>3, <2>1, <2>2, LatePlaces, FlushGoes
<1>4. QED BY <1>2, <1>3 DEF OpenHash

LEMMA WriteJsonFiles ==
    ASSUME FilesInv, NEW p \in Stores, WriteJson(p)
    PROVE  FilesInv' /\ Frame(p)
<1>1. /\ pc[p] \in Flushing
      /\ json \in [Slots -> Content]
      /\ hash' \in [Slots -> Content]
      /\ \A s \in Slots : hash'[s] \in Docs => hash'[s] \in acked
      /\ Torn \in Content
      BY DEF WriteJson, FilesInv, TypeOK, HashInv, Flushing, Content
<1>2. CASE IoError(p) /\ json' \in {json, Put(json, p, Torn)}
  <2>1. json' \in [Slots -> Content] BY <1>1, <1>2, PutFile
  <2>2. "UnmappedError" \in Results BY DEF Results
  <2>3. QED BY <1>1, <1>2, <2>1, <2>2, FlushFailsFiles DEF IoError
<1>3. CASE /\ \E c \in Written(p) : json' = Put(json, p, c)
           /\ handle' = [handle EXCEPT ![p] = Missing]
           /\ Goto(p, "open_hash")
           /\ UNCHANGED <<map, base, call, idx, got, doc, result, history, turns>>
  <2>1. doc[p] \in Docs
        BY <1>1, MaxFlushAssumption DEF FilesInv, TypeOK, PlaceInv, Docs
  <2>2. Written(p) \subseteq Content BY <1>1, <2>1 DEF Written, Content
  <2>3. json' \in [Slots -> Content] BY <1>1, <1>3, <2>2, PutFile
  <2>4. /\ handle' \in [Stores -> Slots \cup {Missing}]
        /\ idx' \in [Stores -> 0 .. MaxCount - 1]
        /\ \A q \in Stores \ {p} : idx'[q] = idx[q]
        BY <1>3 DEF FilesInv, TypeOK
  <2>5. QED BY <1>1, <1>3, <2>3, <2>4, LatePlaces, FlushGoes
<1>4. QED BY <1>2, <1>3 DEF WriteJson

LEMMA WriteHashFiles ==
    ASSUME FilesInv, NEW p \in Stores, WriteHash(p)
    PROVE  FilesInv' /\ Frame(p)
<1>1. /\ pc[p] \in Flushing
      /\ hash \in [Slots -> Content]
      /\ json' \in [Slots -> Content]
      /\ Torn \in Content
      /\ doc[p] \in 1 .. seq \ acked
      /\ doc[p] \in Docs /\ doc[p] \in Content
      /\ {"Ok", "UnmappedError"} \subseteq Results
      BY MaxFlushAssumption
      DEF WriteHash, FilesInv, TypeOK, PlaceInv, Flushing, Content, Results, Docs
<1>2. CASE IoError(p) /\ hash' \in {hash, Put(hash, p, Torn)}
  <2>1. hash' \in [Slots -> Content] BY <1>1, <1>2, PutFile
  <2>2. \A s \in Slots : hash'[s] \in Docs => hash'[s] \in acked
        BY <1>1, <1>2, Contents DEF FilesInv, HashInv, Put
  <2>3. QED BY <1>1, <1>2, <2>1, <2>2, FlushFailsFiles DEF IoError
<1>3. CASE /\ hash' = Put(hash, p, doc[p])
           /\ acked' = acked \cup {doc[p]}
           /\ committed' = doc[p]
           /\ base' = [base EXCEPT ![p] = doc[p]]
           /\ Return(p, "idle", "Ok")
           /\ UNCHANGED <<map, content, seq, turns>>
  <2> USE DEF FilesInv
  <2>1. hash' \in [Slots -> Content] BY <1>1, <1>3, PutFile
  <2>2. /\ 0 \in Slots /\ 0 \in 0 .. MaxCount - 1 /\ Absent \in Content
        BY MaxCountAssumption DEF Slots, Content
  <2>3. TypeOK'
    <3>1. pc' \in [Stores -> {"down", "idle"} \cup Loading \cup Flushing]
          BY <1>3 DEF TypeOK, Return, Goto
    <3>2. call' \in [Stores -> [slot : Slots, mode : Modes \cup {"restore"}]]
          BY <1>3, <2>2 DEF TypeOK, Return, NoCall, Modes
    <3>3. /\ idx' \in [Stores -> 0 .. MaxCount - 1]
          /\ got' \in [Stores -> Content]
          /\ doc' \in [Stores -> Docs \cup {0}]
          /\ handle' \in [Stores -> Slots \cup {Missing}]
          /\ result' \in [Stores -> Results]
          BY <1>1, <1>3, <2>2 DEF TypeOK, Return
    <3>4. /\ base' \in [Stores -> Docs \cup {0}]
          /\ acked' \subseteq Docs /\ committed' \in Docs \cup {0}
          BY <1>1, <1>3 DEF TypeOK
    <3>5. QED BY <1>1, <1>3, <2>1, <3>1, <3>2, <3>3, <3>4 DEF TypeOK
  <2>4. /\ \A q \in Stores \ {p} :
              pc'[q] = pc[q] /\ call'[q] = call[q] /\ idx'[q] = idx[q]
              /\ doc'[q] = doc[q] /\ result'[q] = result[q] /\ base'[q] = base[q]
        /\ pc'[p] = "idle" /\ base'[p] = doc[p]
        BY <1>3 DEF TypeOK, Return, Goto
  <2>5. "idle" \notin Flushing \cup Rotating BY DEF Flushing, Rotating
  <2>6. PlaceInv' BY <1>1, <1>3, <2>4, <2>5 DEF PlaceInv, DocInv
  <2>7. HashInv'
    <3>1. \A s \in Slots : hash'[s] = hash[s] \/ hash'[s] = doc[p]
          BY <1>1, <1>3 DEF Put
    <3>2. doc[p] \in acked' /\ acked \subseteq acked' BY <1>3
    <3>3. QED BY <3>1, <3>2 DEF HashInv
  <2>8. DocInv'
    <3>1. acked' \subseteq 1 .. seq' BY <1>1, <1>3 DEF DocInv
    <3>2. \A q \in Stores : base'[q] \in acked' \cup {0} BY <1>3, <2>4 DEF DocInv
    <3>3. \A q \in Stores : pc'[q] \in Flushing => pc[q] \in Flushing /\ doc'[q] = doc[q]
          BY <2>4, <2>5
    <3>4. QED BY <3>1, <3>2, <3>3 DEF DocInv
  <2>9. Frame(p) BY <1>1, <1>3, <2>4, <2>5 DEF Frame
  <2>10. QED BY <2>3, <2>6, <2>7, <2>8, <2>9
<1>4. QED BY <1>2, <1>3 DEF WriteHash

LEMMA StepFiles ==
    ASSUME FilesInv, NEW p \in Stores, Step(p)
    PROVE  FilesInv' /\ Frame(p)
  BY ReadJsonFiles, ReadHashFiles, LookJsonFiles, LookHashFiles, RenameHashFiles,
     RenameJsonFiles, OpenJsonFiles, WriteJsonFiles, OpenHashFiles, WriteHashFiles
  DEF Step

\* A process that ends, with or without a crash.
LEMMA EndFiles ==
    ASSUME FilesInv, NEW p \in Stores, Return(p, "down", "Ok"),
           Remember(p, EmptyMap, 0), turns' \in BOOLEAN, UNCHANGED <<disk, history>>
    PROVE  FilesInv' /\ Frame(p)
<1>1. /\ base' = [base EXCEPT ![p] = 0]
      /\ DOMAIN map' = Stores
      /\ \A q \in Stores \ {p} : map'[q] = map[q]
      /\ json' \in [Slots -> Content] /\ hash' \in [Slots -> Content]
      /\ \A s \in Slots : hash'[s] \in Docs => hash'[s] \in acked
      /\ "Ok" \in Results
      BY DEF Remember, disk, FilesInv, TypeOK, HashInv, Results
<1>2. QED BY <1>1, Stops

LEMMA CrashFiles ==
    ASSUME FilesInv, NEW p \in Stores, Crash(p)
    PROVE  FilesInv' /\ Frame(p)
<1>1. turns' \in BOOLEAN BY DEF Crash, FilesInv, TypeOK
<1>2. QED BY <1>1, EndFiles DEF Crash

-----------------------------------------------------------------------------
(* The application *)

LEMMA StoresOf == App \in Stores /\ Tool \in Stores /\ App # Tool
  BY StoresAssumption

LEMMA AppStepFiles ==
    ASSUME FilesInv, AppStep
    PROVE  FilesInv' /\ Frame(App)
<1> USE StoresOf
<1>1. CASE OpenIgnored(App) BY <1>1, OpenIgnoredFiles
<1>2. CASE \E mode \in Modes : Open(App, mode) BY <1>2, OpenFiles
<1>3. CASE Step(App) BY <1>3, StepFiles
<1>4. CASE AppIdle /\ Flush(App) BY <1>4, FlushMapFiles DEF Flush
<1>5. CASE \E id \in Slots : Restore(App, id) BY <1>5, RestoreFiles
<1>6. CASE Crash(App) BY <1>6, CrashFiles
<1>7. QED BY <1>1, <1>2, <1>3, <1>4, <1>5, <1>6 DEF AppStep

LEMMA AppChangeFiles ==
    ASSUME FilesInv, NEW m, AppChange(m)
    PROVE  FilesInv' /\ Frame(App)
<1> USE StoresOf DEF FilesInv, AppChange, disk, history, InCall
<1>1. TypeOK' BY DEF TypeOK
<1>2. PlaceInv' BY DEF PlaceInv
<1>3. HashInv' BY DEF HashInv
<1>4. DocInv' BY DEF DocInv
<1>5. Frame(App) BY DEF Frame, TypeOK
<1>6. QED BY <1>1, <1>2, <1>3, <1>4, <1>5

\* What the application does, and that it does nothing to the tool.
AppNext ==
    \/ AppStep
    \/ \E k \in Keys, v \in AppValues : AppSet(k, v)
    \/ \E k \in Keys : AppRemove(k)
    \/ AppReset

LEMMA AppNextFiles ==
    ASSUME FilesInv, AppNext
    PROVE  FilesInv' /\ Frame(App) /\ UNCHANGED toolVars
<1>1. CASE AppStep BY <1>1, AppStepFiles DEF AppStep
<1>2. ASSUME NEW m, AppChange(m) PROVE FilesInv' /\ Frame(App) /\ UNCHANGED toolVars
      BY <1>2, AppChangeFiles DEF AppChange, toolVars
<1>3. QED BY <1>1, <1>2 DEF AppNext, AppSet, AppRemove, AppReset

-----------------------------------------------------------------------------
(* The outcomes of a load and of a flush *)

LEMMA LoadFailsOutcome ==
    ASSUME FilesInv, NEW p \in Stores, NEW code, code # "Ok", LoadFails(p, code)
    PROVE  \/ /\ call[p].mode = "restore"
              /\ pc'[p] = "idle" /\ result'[p] # "Ok" /\ base'[p] = base[p]
           \/ /\ call[p].mode = "Optional"
              /\ pc'[p] = "idle" /\ result'[p] = "Ok"
              /\ base'[p] = 0 /\ map'[p] = EmptyMap
           \/ /\ call[p].mode # "restore"
              /\ pc'[p] = "down" /\ result'[p] # "Ok" /\ base'[p] = base[p]
  BY DEF LoadFails, Return, Goto, Remember, FilesInv, TypeOK

\* A load goes on, has a document that was acknowledged, or fails as its mode
\* says.
LEMMA LoadOutcome ==
    ASSUME FilesInv, NEW p \in Stores, pc[p] \in Loading, Step(p)
    PROVE  /\ UNCHANGED history
           /\ \/ /\ pc'[p] \in Loading
                 /\ call'[p] = call[p] /\ base'[p] = base[p] /\ result'[p] = result[p]
              \/ /\ pc'[p] = "idle" /\ result'[p] = "Ok"
                 /\ base'[p] \in acked /\ map'[p] = content[base'[p]]
              \/ /\ call[p].mode = "restore"
                 /\ pc'[p] = "idle" /\ result'[p] # "Ok" /\ base'[p] = base[p]
              \/ /\ call[p].mode = "Optional"
                 /\ pc'[p] = "idle" /\ result'[p] = "Ok"
                 /\ base'[p] = 0 /\ map'[p] = EmptyMap
              \/ /\ call[p].mode # "restore"
                 /\ pc'[p] = "down" /\ result'[p] # "Ok" /\ base'[p] = base[p]
<1>1. ASSUME NEW code, code # "Ok", LoadFails(p, code)
      PROVE  /\ UNCHANGED history
             /\ \/ /\ call[p].mode = "restore"
                   /\ pc'[p] = "idle" /\ result'[p] # "Ok" /\ base'[p] = base[p]
                \/ /\ call[p].mode = "Optional"
                   /\ pc'[p] = "idle" /\ result'[p] = "Ok"
                   /\ base'[p] = 0 /\ map'[p] = EmptyMap
                \/ /\ call[p].mode # "restore"
                   /\ pc'[p] = "down" /\ result'[p] # "Ok" /\ base'[p] = base[p]
      BY <1>1, LoadFailsOutcome DEF LoadFails
<1>2. CASE ReadJson(p)
  <2>1. CASE LoadFails(p, "FileNotFound") \/ LoadFails(p, "UnmappedError")
        BY <1>1, <2>1
  <2>2. CASE /\ Goto(p, "read_hash")
             /\ UNCHANGED <<disk, map, base, call, idx, doc, handle, result, history, turns>>
        BY <2>2 DEF FilesInv, TypeOK, Goto, Loading
  <2>3. QED BY <1>2, <2>1, <2>2 DEF ReadJson
<1>3. CASE ReadHash(p)
  <2>1. CASE \/ LoadFails(p, "FileNotFound") \/ LoadFails(p, "ValidationFailed")
             \/ LoadFails(p, "UnmappedError")
        BY <1>1, <2>1
  <2>2. CASE /\ Matches(got[p], hash[call[p].slot])
             /\ Return(p, "idle", "Ok")
             /\ Remember(p, content[got[p]], got[p])
             /\ UNCHANGED <<disk, history, turns>>
    <3>1. got[p] \in acked BY <2>2 DEF Matches, FilesInv, TypeOK, HashInv
    <3>2. QED BY <2>2, <3>1 DEF FilesInv, TypeOK, Return, Goto, Remember
  <2>3. QED BY <1>3, <2>1, <2>2 DEF ReadHash
<1>4. pc[p] \in {"read_json", "read_hash"} BY DEF Loading
<1>5. QED
      BY <1>2, <1>3, <1>4
      DEF Step, LookJson, LookHash, RenameHash, RenameJson, OpenJson, WriteJson,
          OpenHash, WriteHash

LEMMA FlushFailsOutcome ==
    ASSUME FilesInv, NEW p \in Stores, NEW code, code # "Ok", FlushFails(p, code)
    PROVE  /\ UNCHANGED history
           /\ pc'[p] = "idle" /\ result'[p] # "Ok" /\ base'[p] = base[p]
  BY DEF FlushFails, Return, Goto, FilesInv, TypeOK

LEMMA IoErrorOutcome ==
    ASSUME FilesInv, NEW p \in Stores, IoError(p)
    PROVE  /\ UNCHANGED history
           /\ pc'[p] = "idle" /\ result'[p] # "Ok" /\ base'[p] = base[p]
  BY FlushFailsOutcome DEF IoError

\* A flush goes on, fails, or acknowledges its document.
LEMMA FlushOutcome ==
    ASSUME FilesInv, NEW p \in Stores, pc[p] \in Flushing, Step(p)
    PROVE  /\ UNCHANGED <<content, seq>>
           /\ \/ /\ pc'[p] \in Flushing /\ doc'[p] = doc[p]
                 /\ base'[p] = base[p] /\ result'[p] = result[p] /\ acked' = acked
              \/ /\ pc'[p] = "idle" /\ result'[p] # "Ok"
                 /\ base'[p] = base[p] /\ acked' = acked
              \/ /\ pc'[p] = "idle" /\ result'[p] = "Ok"
                 /\ base'[p] = doc[p] /\ acked' = acked \cup {doc[p]}
<1> DEFINE Fails == /\ UNCHANGED history
                    /\ pc'[p] = "idle" /\ result'[p] # "Ok" /\ base'[p] = base[p]
           GoesOn == /\ UNCHANGED history
                     /\ pc'[p] \in Flushing /\ doc'[p] = doc[p]
                     /\ base'[p] = base[p] /\ result'[p] = result[p]
<1> USE FlushFailsOutcome, IoErrorOutcome
<1>1. ASSUME NEW label \in Flushing, Goto(p, label),
             UNCHANGED <<base, doc, result, history>>
      PROVE  GoesOn
      BY <1>1 DEF FilesInv, TypeOK, Goto
<1>2. ASSUME NextSlot(p), UNCHANGED <<base, doc, result, history>>
      PROVE  GoesOn
  <2>1. {"open_json", "look_json"} \subseteq Flushing BY DEF Flushing
  <2>2. QED BY <1>1, <1>2, <2>1 DEF NextSlot
<1>3. /\ "look_hash" \in Flushing /\ "rename_hash" \in Flushing
      /\ "rename_json" \in Flushing /\ "write_json" \in Flushing
      /\ "open_hash" \in Flushing /\ "write_hash" \in Flushing
      BY DEF Flushing
<1>4. CASE LookJson(p)
  <2>1. GoesOn BY <1>1, <1>3, <1>4 DEF LookJson
  <2>2. QED BY <2>1 DEF history
<1>5. CASE LookHash(p)
  <2>1. GoesOn \/ Fails BY <1>1, <1>2, <1>3, <1>5 DEF LookHash, LookedOn
  <2>2. QED BY <2>1 DEF history
<1>6. CASE RenameHash(p)
  <2>1. GoesOn \/ Fails BY <1>1, <1>3, <1>6 DEF RenameHash
  <2>2. QED BY <2>1 DEF history
<1>7. CASE RenameJson(p)
  <2>1. GoesOn \/ Fails BY <1>2, <1>7 DEF RenameJson
  <2>2. QED BY <2>1 DEF history
<1>8. CASE OpenJson(p)
  <2>1. GoesOn \/ Fails BY <1>1, <1>3, <1>8 DEF OpenJson
  <2>2. QED BY <2>1 DEF history
<1>9. CASE WriteJson(p)
  <2>1. GoesOn \/ Fails BY <1>1, <1>3, <1>9 DEF WriteJson
  <2>2. QED BY <2>1 DEF history
<1>10. CASE OpenHash(p)
  <2>1. GoesOn \/ Fails BY <1>1, <1>3, <1>10 DEF OpenHash
  <2>2. QED BY <2>1 DEF history
<1>11. CASE WriteHash(p)
  <2>1. CASE IoError(p) BY <2>1 DEF history
  <2>2. CASE /\ acked' = acked \cup {doc[p]}
             /\ base' = [base EXCEPT ![p] = doc[p]]
             /\ Return(p, "idle", "Ok")
             /\ UNCHANGED <<map, content, seq, turns>>
        BY <2>2 DEF FilesInv, TypeOK, Return, Goto
  <2>3. QED BY <1>11, <2>1, <2>2 DEF WriteHash
<1>12. ~ReadJson(p) /\ ~ReadHash(p) BY DEF ReadJson, ReadHash, Flushing
<1>13. QED
       BY <1>4, <1>5, <1>6, <1>7, <1>8, <1>9, <1>10, <1>11, <1>12 DEF Step

-----------------------------------------------------------------------------
(* The tool while the application, or nobody, does something *)

\* What was acknowledged, and what is being flushed, keeps its map.
LEMMA PromiseKept ==
    ASSUME FilesInv, opened \in acked \cup {0},
           acked \subseteq acked', \A d \in 1 .. seq : content'[d] = content[d],
           UNCHANGED <<inv, opened>>
    PROVE  /\ MapOf(opened)' = MapOf(opened)
           /\ \A d \in 1 .. seq : Promised(d) => Promised(d)'
<1>1. acked \subseteq 1 .. seq BY DEF FilesInv, DocInv
<1>2. MapOf(opened)' = MapOf(opened) BY <1>1 DEF MapOf
<1>3. Done(inv, MapOf(opened))' = Done(inv, MapOf(opened)) BY <1>2 DEF Done
<1>4. ASSUME NEW d \in 1 .. seq, Promised(d) PROVE Promised(d)'
      BY <1>1, <1>3, <1>4 DEF Promised
<1>5. QED BY <1>2, <1>4

LEMMA ToolKept ==
    ASSUME FilesInv, ToolInv, FilesInv', Frame(App), UNCHANGED toolVars
    PROVE  ToolInv'
<1> USE StoresOf DEF ToolInv, toolVars
<1>1. /\ pc'[Tool] = pc[Tool] /\ map'[Tool] = map[Tool] /\ base'[Tool] = base[Tool]
      /\ call'[Tool] = call[Tool] /\ doc'[Tool] = doc[Tool] /\ result'[Tool] = result[Tool]
      /\ acked \subseteq acked' /\ acked \subseteq 1 .. seq
      /\ \A d \in 1 .. seq : content'[d] = content[d]
      BY DEF Frame, FilesInv, DocInv
<1>2. /\ MapOf(opened)' = MapOf(opened)
      /\ \A d \in 1 .. seq : Promised(d) => Promised(d)'
      BY <1>1, PromiseKept
<1>3. ToolTypeOK' BY DEF ToolTypeOK, FilesInv
<1>4. opened' \in acked' \cup {0} BY <1>1
<1>5. StartInv' BY <1>1 DEF StartInv
<1>6. OpenInv' BY <1>1, <1>2 DEF OpenInv
<1>7. RestoreInv' BY <1>1 DEF RestoreInv
<1>8. FlushInv'
  <2>1. SUFFICES ASSUME stage = "flush" PROVE FlushInv' BY DEF FlushInv
  <2>2. ASSUME pc[Tool] \in Flushing PROVE Promised(doc[Tool])'
    <3>1. PICK d \in 1 .. seq : d = doc[Tool] BY <2>2 DEF FilesInv, PlaceInv
    <3>2. Promised(d)' BY <1>2, <2>1, <2>2, <3>1 DEF FlushInv
    <3>3. QED BY <1>1, <3>1, <3>2 DEF Promised
  <2>3. ASSUME pc[Tool] = "idle", result[Tool] = "Ok"
        PROVE  base[Tool] \in acked \ {opened} /\ Promised(base[Tool])'
    <3>1. base[Tool] \in acked \ {opened} /\ Promised(base[Tool])
          BY <2>1, <2>3 DEF FlushInv
    <3>2. PICK d \in 1 .. seq : d = base[Tool] BY <1>1, <3>1
    <3>3. Promised(d)' BY <1>2, <3>1, <3>2
    <3>4. QED BY <1>1, <3>1, <3>2, <3>3 DEF Promised
  <2>4. QED BY <1>1, <2>1, <2>2, <2>3 DEF FlushInv
<1>9. FlushedInv'
  <2>1. CASE stage = "flush"
    <3>1. flushed \in 1 .. seq BY <2>1 DEF FlushedInv
    <3>2. seq \in Nat /\ flushed # seq + 1 /\ flushed \in 1 .. seq'
          BY <3>1 DEF FilesInv, TypeOK, Frame
    <3>3. pc'[App] \in Flushing => doc'[App] # flushed
          BY <2>1, <3>2 DEF FlushedInv, Frame
    <3>4. flushed \notin acked => flushed \notin acked' BY <2>1 DEF FlushedInv, Frame
    <3>5. QED BY <1>1, <2>1, <3>2, <3>3, <3>4 DEF FlushedInv
  <2>2. CASE stage # "flush" BY <2>2 DEF FlushedInv
  <2>3. QED BY <2>1, <2>2
<1>10. QED BY <1>3, <1>4, <1>5, <1>6, <1>7, <1>8, <1>9

-----------------------------------------------------------------------------
(* The steps of the tool *)

LEMMA ExitKeeps ==
    ASSUME FilesInv, ToolInv, NEW code \in Results \cup {"KeyNotFound"}, Exit(code)
    PROVE  FilesInv' /\ ToolInv'
<1> USE StoresOf
<1>1. FilesInv' BY EndFiles DEF Exit, FilesInv, TypeOK
<1>2. /\ pc'[Tool] = "down" /\ base'[Tool] = 0
      /\ stage' = "none" /\ inv'.op = "none" /\ exit' = code /\ opened' = 0
      /\ flushed' = 0
      BY DEF Exit, Return, Goto, Remember, FilesInv, TypeOK, NoInvocation
<1>3. ToolTypeOK' BY <1>1, <1>2 DEF ToolTypeOK, FilesInv
<1>4. StartInv' /\ OpenInv' /\ RestoreInv' /\ FlushInv' /\ FlushedInv'
      BY <1>2 DEF StartInv, OpenInv, RestoreInv, FlushInv, FlushedInv
<1>5. QED BY <1>1, <1>2, <1>3, <1>4 DEF ToolInv

LEMMA CrashKeeps ==
    ASSUME FilesInv, ToolInv, ToolCrash
    PROVE  FilesInv' /\ ToolInv'
<1> USE StoresOf
<1>1. FilesInv' BY CrashFiles DEF ToolCrash
<1>2. /\ pc'[Tool] = "down" /\ base'[Tool] = 0
      /\ stage' = "none" /\ inv'.op = "none" /\ exit' = "killed" /\ opened' = 0
      /\ flushed' = 0
      BY DEF ToolCrash, Crash, Return, Goto, Remember, FilesInv, TypeOK, NoInvocation
<1>3. ToolTypeOK' BY <1>1, <1>2 DEF ToolTypeOK, FilesInv
<1>4. StartInv' /\ OpenInv' /\ RestoreInv' /\ FlushInv' /\ FlushedInv'
      BY <1>2 DEF StartInv, OpenInv, RestoreInv, FlushInv, FlushedInv
<1>5. QED BY <1>1, <1>2, <1>3, <1>4 DEF ToolInv

LEMMA StartKeeps ==
    ASSUME FilesInv, ToolInv, Start
    PROVE  FilesInv' /\ ToolInv'
<1> USE DEF ToolInv
<1>1. FilesInv' BY Rests DEF Start
<1>2. /\ stage = "none" /\ stage' = "build" /\ exit' = "Ok"
      /\ UNCHANGED <<pc, base, acked, inv, opened, flushed>>
      BY DEF Start, vars, history
<1>3. ToolTypeOK' BY <1>1, <1>2 DEF ToolTypeOK, FilesInv, Results
<1>4. StartInv' /\ OpenInv' /\ RestoreInv' /\ FlushInv' /\ FlushedInv'
      BY <1>2 DEF StartInv, OpenInv, RestoreInv, FlushInv, FlushedInv
<1>5. QED BY <1>1, <1>2, <1>3, <1>4

LEMMA BuildKeeps ==
    ASSUME FilesInv, ToolInv, Build
    PROVE  FilesInv' /\ ToolInv'
<1> USE StoresOf DEF ToolInv
<1>1. FilesInv' BY OpenFiles DEF Build, Modes
<1>2. /\ stage = "build" /\ stage' = "open"
      /\ pc'[Tool] \in Loading /\ call'[Tool].mode = "Optional"
      /\ UNCHANGED <<base, acked, inv, exit, opened, flushed>>
      BY DEF Build, Open, StartLoad, Goto, history, FilesInv, TypeOK, Loading
<1>3. "down" \notin Loading /\ "idle" \notin Loading BY DEF Loading
<1>4. ToolTypeOK' BY <1>1, <1>2 DEF ToolTypeOK, FilesInv
<1>5. StartInv' /\ OpenInv' /\ RestoreInv' /\ FlushInv' /\ FlushedInv'
      BY <1>2, <1>3 DEF StartInv, OpenInv, RestoreInv, FlushInv, FlushedInv
<1>6. QED BY <1>1, <1>2, <1>4, <1>5

\* The map that is flushed is what the operation promises.
LEMMA ChangeKeeps ==
    ASSUME FilesInv, ToolInv, pc[Tool] = "idle",
           NEW m, NEW i, i.op \in Changes \cup {"snapshotrestore"}, ChangeTo(m, i),
           IF i.op = "snapshotrestore"
           THEN \E d \in acked : m = content[d]
           ELSE m = Done(i, MapOf(opened))
    PROVE  FilesInv' /\ ToolInv'
<1> USE StoresOf DEF ToolInv
<1>1. FilesInv' /\ Frame(Tool) BY FlushMapFiles DEF ChangeTo
<1>2. /\ seq + 1 \in Docs /\ seq + 1 \notin acked /\ seq + 1 \notin 1 .. seq
      /\ acked \subseteq 1 .. seq /\ 0 # seq + 1
      BY MaxFlushAssumption DEF ChangeTo, FlushMap, FilesInv, TypeOK, DocInv, Docs
<1>3. /\ pc'[Tool] \in Flushing /\ doc'[Tool] = seq + 1
      /\ content'[seq + 1] = m /\ \A d \in acked : content'[d] = content[d]
      /\ stage' = "flush" /\ inv' = i /\ flushed' = seq + 1 /\ seq' = seq + 1
      /\ UNCHANGED <<base, acked, exit, opened>>
      BY <1>2 DEF ChangeTo, FlushMap, Goto, FilesInv, TypeOK, Flushing
<1>4. "idle" \notin Flushing BY DEF Flushing
<1>5. MapOf(opened)' = MapOf(opened) BY <1>3 DEF MapOf
<1>6. Promised(doc[Tool])'
  <2>1. CASE i.op = "snapshotrestore"
    <3>1. PICK d \in acked : m = content[d] BY <2>1
    <3>2. d # seq + 1 /\ content'[seq + 1] = content'[d] BY <1>2, <1>3, <3>1
    <3>3. QED BY <1>3, <2>1, <3>2 DEF Promised
  <2>2. CASE i.op # "snapshotrestore"
    <3>1. m = Done(i, MapOf(opened)) BY <2>2
    <3>2. Done(i, MapOf(opened)) = Done(inv, MapOf(opened))' BY <1>3, <1>5 DEF Done
    <3>3. QED BY <1>3, <2>2, <3>1, <3>2 DEF Promised
  <2>3. QED BY <2>1, <2>2
<1>7. ToolTypeOK' BY <1>1, <1>2, <1>3 DEF ToolTypeOK, FilesInv, Changes
<1>8. FlushInv' BY <1>3, <1>4, <1>6 DEF FlushInv
<1>9. StartInv' /\ OpenInv' /\ RestoreInv' BY <1>3 DEF StartInv, OpenInv, RestoreInv
<1>10. FlushedInv'
  <2>1. flushed' \in 1 .. seq' BY <1>2, <1>3 DEF FilesInv, TypeOK
  <2>2. pc[App] \in Flushing => doc[App] # seq + 1 BY <1>2 DEF FilesInv, PlaceInv
  <2>3. pc'[App] = pc[App] /\ doc'[App] = doc[App] BY <1>1 DEF Frame
  <2>4. QED BY <1>3, <1>4, <2>1, <2>2, <2>3 DEF FlushedInv
<1>11. QED BY <1>1, <1>3, <1>7, <1>8, <1>9, <1>10

LEMMA SnapshotRestoreKeeps ==
    ASSUME FilesInv, ToolInv, NEW id \in Slots, SnapshotRestore(id)
    PROVE  FilesInv' /\ ToolInv'
<1> USE StoresOf DEF ToolInv
<1>1. FilesInv' BY RestoreFiles DEF SnapshotRestore
<1>2. /\ base[Tool] = opened /\ stage = "open" /\ stage' = "restore"
      /\ UNCHANGED <<acked, inv, exit, opened, flushed>>
      BY DEF SnapshotRestore, Ready, OpenInv, Restore, StartLoad, history
<1>3. \/ pc'[Tool] \in Loading /\ call'[Tool].mode = "restore" /\ base'[Tool] = base[Tool]
      \/ pc'[Tool] = "idle" /\ result'[Tool] # "Ok" /\ base'[Tool] = base[Tool]
      BY DEF SnapshotRestore, Restore, StartLoad, Return, Goto, FilesInv, TypeOK, Loading
<1>4. "idle" \notin Loading BY DEF Loading
<1>5. ToolTypeOK' BY <1>1, <1>2 DEF ToolTypeOK, FilesInv
<1>6. StartInv' /\ OpenInv' /\ RestoreInv' /\ FlushInv' /\ FlushedInv'
      BY <1>2, <1>3, <1>4 DEF StartInv, OpenInv, RestoreInv, FlushInv, FlushedInv
<1>7. QED BY <1>1, <1>2, <1>5, <1>6

LEMMA ToolCallKeeps ==
    ASSUME FilesInv, ToolInv, ToolCall
    PROVE  FilesInv' /\ ToolInv'
<1> USE StoresOf DEF ToolInv
<1>1. FilesInv' /\ Frame(Tool) BY StepFiles DEF ToolCall
<1>2. /\ Step(Tool)
      /\ opened' = IF stage = "open" THEN base'[Tool] ELSE opened
      /\ UNCHANGED <<stage, inv, exit, flushed>>
      BY DEF ToolCall
<1>3. /\ "down" \notin Loading \cup Flushing /\ "idle" \notin Loading \cup Flushing
      /\ Loading \cap Flushing = {}
      BY DEF Loading, Flushing
<1>4. pc[Tool] \in Loading \cup Flushing
      BY <1>2
      DEF Step, ReadJson, ReadHash, LookJson, LookHash, RenameHash, RenameJson,
          OpenJson, WriteJson, OpenHash, WriteHash, Loading, Flushing
<1>5. acked \subseteq acked' /\ base'[Tool] \in acked' \cup {0}
      BY <1>1 DEF Frame, FilesInv, DocInv
<1>6. ToolTypeOK' /\ opened' \in acked' \cup {0}
  <2>1. opened' \in acked' \cup {0} BY <1>2, <1>5
  <2>2. opened' \in Docs \cup {0} BY <1>1, <2>1 DEF FilesInv, TypeOK
  <2>3. QED BY <1>1, <1>2, <2>1, <2>2 DEF ToolTypeOK, FilesInv
<1>7. CASE stage = "open"
  <2>1. pc[Tool] \in Loading /\ call[Tool].mode = "Optional" /\ base[Tool] = opened
        BY <1>3, <1>4, <1>7 DEF OpenInv
  <2>2. 0 \notin acked BY DEF FilesInv, DocInv
  <2>3. /\ UNCHANGED history
        /\ \/ /\ pc'[Tool] \in Loading /\ call'[Tool] = call[Tool]
           \/ /\ pc'[Tool] = "idle" /\ base'[Tool] \in acked
              /\ map'[Tool] = content[base'[Tool]]
           \/ /\ pc'[Tool] = "idle" /\ base'[Tool] = 0 /\ map'[Tool] = EmptyMap
           \/ /\ pc'[Tool] = "down" /\ result'[Tool] # "Ok"
        BY <2>1, LoadOutcome, <1>2
  <2>4. pc'[Tool] = "idle" => map'[Tool] = MapOf(base'[Tool])
        BY <1>3, <2>2, <2>3 DEF MapOf
  <2>5. MapOf(base'[Tool]) = MapOf(opened)'
        BY <1>2, <1>7, <2>3 DEF MapOf, history
  <2>6. OpenInv' BY <1>2, <1>3, <1>7, <2>1, <2>3, <2>4, <2>5 DEF OpenInv
  <2>7. StartInv' /\ RestoreInv' /\ FlushInv' /\ FlushedInv'
        BY <1>2, <1>7 DEF StartInv, RestoreInv, FlushInv, FlushedInv
  <2>8. QED BY <1>1, <1>6, <2>6, <2>7
<1>8. CASE stage = "restore"
  <2>1. pc[Tool] \in Loading /\ call[Tool].mode = "restore" /\ base[Tool] = opened
        BY <1>3, <1>4, <1>8 DEF RestoreInv
  <2>2. /\ UNCHANGED history
        /\ \/ /\ pc'[Tool] \in Loading /\ call'[Tool] = call[Tool]
              /\ base'[Tool] = base[Tool]
           \/ /\ pc'[Tool] = "idle" /\ result'[Tool] = "Ok" /\ base'[Tool] \in acked
              /\ map'[Tool] = content[base'[Tool]]
           \/ /\ pc'[Tool] = "idle" /\ result'[Tool] # "Ok" /\ base'[Tool] = base[Tool]
        BY <2>1, LoadOutcome, <1>2
  <2>3. RestoreInv' BY <1>2, <1>3, <1>8, <2>1, <2>2 DEF RestoreInv, history
  <2>4. StartInv' /\ OpenInv' /\ FlushInv' /\ FlushedInv'
        BY <1>2, <1>8 DEF StartInv, OpenInv, FlushInv, FlushedInv
  <2>5. QED BY <1>1, <1>6, <2>3, <2>4
<1>9. CASE stage = "flush"
  <2>1. /\ pc[Tool] \in Flushing /\ Promised(doc[Tool])
        /\ inv.op \in Changes \cup {"snapshotrestore"}
        /\ flushed \in 1 .. seq /\ flushed = doc[Tool]
        /\ pc[App] \in Flushing => doc[App] # flushed
        BY <1>3, <1>4, <1>9 DEF FlushInv, FlushedInv
  <2>2. /\ UNCHANGED <<content, seq>>
        /\ \/ /\ pc'[Tool] \in Flushing /\ doc'[Tool] = doc[Tool]
           \/ /\ pc'[Tool] = "idle" /\ result'[Tool] # "Ok" /\ acked' = acked
           \/ /\ pc'[Tool] = "idle" /\ result'[Tool] = "Ok"
              /\ base'[Tool] = doc[Tool] /\ doc[Tool] \in acked'
        BY <2>1, FlushOutcome, <1>2
  <2>3. opened' = opened BY <1>2, <1>9
  <2>4. PICK d \in 1 .. seq : d = doc[Tool] BY <2>1 DEF FilesInv, PlaceInv
  <2>5. d # opened BY <2>1, <2>4 DEF FilesInv, PlaceInv
  <2>6. Promised(d)' BY <1>1, <1>2, <2>1, <2>3, <2>4, PromiseKept DEF Frame
  <2>7. doc'[Tool] = doc[Tool] => Promised(doc[Tool])' BY <2>4, <2>6 DEF Promised
  <2>8. base'[Tool] = doc[Tool] => Promised(base[Tool])' BY <2>4, <2>6 DEF Promised
  <2>9. FlushInv'
        BY <1>2, <1>3, <1>9, <2>1, <2>2, <2>3, <2>4, <2>5, <2>7, <2>8 DEF FlushInv
  <2>10. StartInv' /\ OpenInv' /\ RestoreInv'
         BY <1>2, <1>9 DEF StartInv, OpenInv, RestoreInv
  <2>11. FlushedInv'
    <3>1. pc'[App] = pc[App] /\ doc'[App] = doc[App] BY <1>1 DEF Frame
    <3>2. doc[Tool] \notin acked BY <2>1 DEF FilesInv, PlaceInv
    <3>3. QED BY <1>2, <1>3, <1>9, <2>1, <2>2, <3>1, <3>2 DEF FlushedInv
  <2>12. QED BY <1>1, <1>6, <2>9, <2>10, <2>11
<1>10. stage \in {"open", "restore", "flush"}
  <2>1. stage \in {"none", "build", "open", "restore", "flush"} BY DEF ToolTypeOK
  <2>2. stage \notin {"none", "build"} BY <1>3, <1>4 DEF StartInv
  <2>3. QED BY <2>1, <2>2
<1>11. QED BY <1>7, <1>8, <1>9, <1>10

LEMMA ToolRunKeeps ==
    ASSUME FilesInv, ToolInv, ToolRun
    PROVE  FilesInv' /\ ToolInv'
<1>1. ASSUME NEW code \in Results \cup {"KeyNotFound"}, Exit(code) PROVE FilesInv' /\ ToolInv'
      BY <1>1, ExitKeeps
<1>2. /\ "Ok" \in Results /\ "UnmappedError" \in Results
      /\ result[Tool] \in Results
      BY StoresOf DEF Results, FilesInv, TypeOK
<1>3. ASSUME Ready, NEW i, i.op \in Changes, ChangeTo(Done(i, map[Tool]), i)
      PROVE  FilesInv' /\ ToolInv'
  <2>1. pc[Tool] = "idle" /\ map[Tool] = MapOf(opened)
        BY <1>3 DEF Ready, OpenInv, ToolInv
  <2>2. i.op # "snapshotrestore" BY <1>3 DEF Changes
  <2>3. QED BY <1>3, <2>1, <2>2, ChangeKeeps
<1>4. CASE Help \/ BuildFailed \/ BadArguments \/ PrintOnly \/ Flushed
      BY <1>1, <1>2, <1>4
      DEF Help, BuildFailed, BadArguments, PrintOnly, ListKeys, PrintSnapshotCount,
          PrintSnapshotMaxCount, GetKvsFilename, GetHashFilename, Flushed
<1>5. CASE Build BY <1>5, BuildKeeps
<1>6. CASE \E k \in Keys : GetKey(k)
      BY <1>1, <1>2, <1>6 DEF GetKey
<1>7. CASE \E k \in Keys : RemoveKey(k)
  <2>1. PICK k \in Keys : RemoveKey(k) BY <1>7
  <2>2. CASE Exit("KeyNotFound") BY <1>1, <2>2
  <2> DEFINE i == [op |-> "removekey", key |-> k]
  <2>3. CASE Ready /\ ChangeTo([map[Tool] EXCEPT ![k] = Missing], i)
    <3>1. i.op \in Changes BY DEF Changes
    <3>2. [map[Tool] EXCEPT ![k] = Missing] = Done(i, map[Tool]) BY DEF Done
    <3>3. Ready /\ ChangeTo(Done(i, map[Tool]), i) BY <2>3, <3>2
    <3> HIDE DEF i
    <3>4. QED BY <1>3, <3>1, <3>3
  <2>4. QED BY <2>1, <2>2, <2>3 DEF RemoveKey
<1>8. CASE \E k \in Keys, v \in Payloads : SetKey(k, v)
  <2>1. PICK k \in Keys, v \in Payloads : SetKey(k, v) BY <1>8
  <2> DEFINE i == [op |-> "setkey", key |-> k, payload |-> v]
  <2>2. i.op \in Changes BY DEF Changes
  <2>3. [map[Tool] EXCEPT ![k] = Stored(v)] = Done(i, map[Tool]) BY DEF Done
  <2>4. Ready /\ ChangeTo(Done(i, map[Tool]), i) BY <2>1, <2>3 DEF SetKey
  <2> HIDE DEF i
  <2>5. QED BY <1>3, <2>2, <2>4
<1>9. CASE ResetStore
  <2> DEFINE i == [op |-> "reset"]
  <2>1. i.op \in Changes BY DEF Changes
  <2>2. EmptyMap = Done(i, map[Tool]) BY DEF Done
  <2>3. Ready /\ ChangeTo(Done(i, map[Tool]), i) BY <1>9, <2>2 DEF ResetStore
  <2> HIDE DEF i
  <2>4. QED BY <1>3, <2>1, <2>3
<1>10. CASE CreateTestData
  <2> DEFINE i == [op |-> "createtestdata"]
  <2>1. i.op \in Changes BY DEF Changes
  <2>2. Done(i, map[Tool]) =
           [k \in Keys |-> IF k \in DOMAIN TestData THEN TestData[k] ELSE map[Tool][k]]
        BY DEF Done
  <2>3. Ready /\ ChangeTo(Done(i, map[Tool]), i) BY <1>10, <2>2 DEF CreateTestData
  <2> HIDE DEF i
  <2>4. QED BY <1>3, <2>1, <2>3
<1>11. CASE \E id \in Slots : SnapshotRestore(id)
       BY <1>11, SnapshotRestoreKeeps
<1>12. CASE Restored
  <2>1. CASE result[Tool] # "Ok" /\ Exit(result[Tool]) BY <1>1, <1>2, <2>1
  <2> DEFINE i == [op |-> "snapshotrestore"]
  <2>2. CASE result[Tool] = "Ok" /\ ChangeTo(map[Tool], i)
    <3>1. pc[Tool] = "idle" /\ \E d \in acked : map[Tool] = content[d]
          BY <1>12, <2>2 DEF Restored, RestoreInv, ToolInv
    <3>2. i.op = "snapshotrestore" OBVIOUS
    <3> HIDE DEF i
    <3>3. QED BY <2>2, <3>1, <3>2, ChangeKeeps
  <2>3. QED BY <1>12, <2>1, <2>2 DEF Restored
<1>13. CASE ToolCall BY <1>13, ToolCallKeeps
<1>14. QED
       BY <1>4, <1>5, <1>6, <1>7, <1>8, <1>9, <1>10, <1>11, <1>12, <1>13 DEF ToolRun

LEMMA InitInv == ToolInit => IInv
<1> SUFFICES ASSUME ToolInit PROVE IInv OBVIOUS
<1> USE StoresOf DEF ToolInit, Init
<1>1. /\ 0 \in Slots /\ 0 \in 0 .. MaxCount - 1 /\ 0 \in 0 .. MaxFlush
      /\ Absent \in Content
      BY MaxCountAssumption, MaxFlushAssumption DEF Slots, Content
<1>2. TypeOK BY <1>1 DEF TypeOK, NoCall, Modes, Results
<1>3. PlaceInv BY DEF PlaceInv, Rotating, Flushing
<1>4. HashInv BY Contents DEF HashInv
<1>5. DocInv BY DEF DocInv, Flushing
<1>6. ToolTypeOK BY <1>2 DEF ToolTypeOK, NoInvocation, Results
<1>7. StartInv /\ OpenInv /\ RestoreInv /\ FlushInv /\ FlushedInv
      BY DEF StartInv, OpenInv, RestoreInv, FlushInv, FlushedInv
<1>8. QED BY <1>2, <1>3, <1>4, <1>5, <1>6, <1>7 DEF IInv, FilesInv, ToolInv

LEMMA NextInv == IInv /\ [Next]_allVars => IInv'
<1> SUFFICES ASSUME IInv, [Next]_allVars PROVE IInv' OBVIOUS
<1> USE DEF IInv
<1>1. CASE AppNext BY <1>1, AppNextFiles, ToolKept
<1>2. CASE Start BY <1>2, StartKeeps
<1>3. CASE ToolRun BY <1>3, ToolRunKeeps
<1>4. CASE ToolCrash BY <1>4, CrashKeeps
<1>5. CASE UNCHANGED allVars
  <2>1. UNCHANGED vars /\ UNCHANGED toolVars BY <1>5 DEF allVars
  <2>2. FilesInv' /\ Frame(App) BY <2>1, Rests, StoresOf
  <2>3. QED BY <2>1, <2>2, ToolKept
<1>6. QED BY <1>1, <1>2, <1>3, <1>4, <1>5 DEF Next, AppNext

-----------------------------------------------------------------------------
(* What a step may not do *)

\* A store that answers a load of its own is in that load.
LEMMA LoadStep ==
    ASSUME FilesInv, NEW p \in Stores, Step(p),
           pc[p] = "read_hash", pc'[p] = "idle", result'[p] = "Ok", base'[p] # 0
    PROVE  base'[p] \in acked /\ map'[p] = content[base'[p]]
<1>1. pc[p] \in Loading /\ "idle" \notin Loading BY DEF Loading
<1>2. QED BY <1>1, LoadOutcome

\* An application or a tool that is in a load does nothing else, but it may be
\* killed.
LEMMA LoadNext ==
    ASSUME IInv, Next, NEW p \in Stores,
           pc[p] = "read_hash", pc'[p] = "idle", result'[p] = "Ok", base'[p] # 0
    PROVE  base'[p] \in acked /\ map'[p] = content[base'[p]]
<1> USE StoresOf DEF IInv
<1>1. CASE Step(p) BY <1>1, LoadStep
<1>2. ASSUME NEW q \in Stores, q # p, Frame(q) PROVE FALSE
      BY <1>2 DEF Frame
<1>3. ASSUME Return(p, "down", "Ok") PROVE FALSE
      BY <1>3 DEF Return, Goto, FilesInv, TypeOK
<1>4. CASE p = App
  <2>1. CASE AppNext
    <3>1. ~AppIdle BY <1>4 DEF AppIdle
    <3>2. ~OpenIgnored(App) /\ (\A mode \in Modes : ~Open(App, mode))
          /\ (\A id \in Slots : ~Restore(App, id))
          BY <1>4 DEF OpenIgnored, Open, Restore
    <3>3. ~Crash(App) BY <1>3, <1>4 DEF Crash
    <3>4. Step(App)
          BY <2>1, <3>1, <3>2, <3>3
          DEF AppNext, AppStep, AppSet, AppRemove, AppReset, AppChange
    <3>5. QED BY <1>1, <1>4, <3>4
  <2>2. CASE Start BY <1>4, <2>2 DEF Start, vars
  <2>3. CASE ToolRun \/ ToolCrash
    <3>1. pc'[App] = pc[App]
      <4>1. CASE \E code : Exit(code)
            BY <4>1 DEF Exit, Return, Goto, FilesInv, TypeOK
      <4>2. CASE Build BY <4>2 DEF Build, Open, StartLoad, Goto, FilesInv, TypeOK
      <4>3. CASE \E m, i : ChangeTo(m, i)
            BY <4>3 DEF ChangeTo, FlushMap, Goto, FilesInv, TypeOK
      <4>4. CASE \E id \in Slots : SnapshotRestore(id)
            BY <4>4 DEF SnapshotRestore, Restore, StartLoad, Return, Goto, FilesInv, TypeOK
      <4>5. CASE ToolCall BY <4>5, StepFiles DEF ToolCall, Frame
      <4>6. CASE ToolCrash
            BY <4>6 DEF ToolCrash, Crash, Return, Goto, FilesInv, TypeOK
      <4>7. QED
            BY <2>3, <4>1, <4>2, <4>3, <4>4, <4>5, <4>6
            DEF ToolRun, Help, BuildFailed, BadArguments, PrintOnly, ListKeys,
                PrintSnapshotCount, PrintSnapshotMaxCount, GetKvsFilename,
                GetHashFilename, GetKey, RemoveKey, SetKey, ResetStore,
                CreateTestData, Restored, Flushed
    <3>2. QED BY <1>4, <3>1
  <2>4. QED BY <2>1, <2>2, <2>3 DEF Next, AppNext
<1>5. CASE p = Tool
  <2>1. CASE AppNext BY <1>2, <1>5, <2>1, AppNextFiles
  <2>2. CASE Start BY <1>5, <2>2 DEF Start, vars
  <2>3. CASE ToolCrash BY <1>3, <1>5, <2>3 DEF ToolCrash, Crash
  <2>4. CASE ToolRun
    <3>1. \A code : ~Exit(code) BY <1>3, <1>5 DEF Exit
    <3>2. ~Ready /\ ~Build /\ ~Restored
          BY <1>5 DEF Ready, Build, Open, Restored
    <3>3. ToolCall
          BY <2>4, <3>1, <3>2
          DEF ToolRun, Help, BuildFailed, BadArguments, PrintOnly, ListKeys,
              PrintSnapshotCount, PrintSnapshotMaxCount, GetKvsFilename,
              GetHashFilename, GetKey, RemoveKey, SetKey, ResetStore,
              CreateTestData, SnapshotRestore, Flushed
    <3>4. QED BY <1>1, <1>5, <3>3 DEF ToolCall
  <2>5. QED BY <2>1, <2>2, <2>3, <2>4 DEF Next, AppNext
<1>6. QED BY <1>4, <1>5, StoresAssumption

\* What ExitTellsOutcome says of a step.
Outcome ==
    IF exit' = "Ok" /\ ~Printed
    THEN /\ flushed \in acked \ {opened}
         /\ IF inv.op = "snapshotrestore"
            THEN \E d \in acked \ {flushed} : content[flushed] = content[d]
            ELSE content[flushed] = Done(inv, MapOf(opened))
    ELSE /\ flushed \notin acked
         /\ \A s \in Slots : hash[s] # flushed

\* A document that no flush has acknowledged, or none at all, has no hash.
LEMMA NoHash ==
    ASSUME FilesInv, flushed \in Docs \cup {0}, flushed \notin acked
    PROVE  \A s \in Slots : hash[s] # flushed
<1>1. 0 \notin Content
      BY ContentAssumption, MaxFlushAssumption DEF Content, Docs
<1>2. QED BY <1>1 DEF FilesInv, TypeOK, HashInv

LEMMA ExitStep ==
    ASSUME IInv, Next, ToolEnds
    PROVE  Outcome
<1> USE DEF IInv, ToolInv
<1>1. stage # "none" /\ stage' = "none" /\ exit' # "killed" BY DEF ToolEnds
\* main() returned without a flush.
<1>2. ASSUME stage # "flush", exit' = "Ok" => Printed PROVE Outcome
  <2>1. flushed = 0 BY <1>2 DEF FlushedInv
  <2>2. flushed \notin acked BY <2>1 DEF FilesInv, DocInv
  <2>3. QED BY <1>2, <2>1, <2>2, NoHash DEF Outcome
<1>3. CASE Help BY <1>2, <1>3 DEF Help, Printed
<1>4. CASE BuildFailed
  <2>1. stage = "open" /\ exit' # "Ok" BY <1>4 DEF BuildFailed, OpenInv, Exit
  <2>2. QED BY <1>2, <2>1
<1>5. CASE BadArguments BY <1>2, <1>5 DEF BadArguments, Ready, Exit
<1>6. CASE PrintOnly \/ \E k \in Keys : GetKey(k)
  <2>1. stage = "open"
        BY <1>6 DEF PrintOnly, ListKeys, PrintSnapshotCount, PrintSnapshotMaxCount,
                    GetKvsFilename, GetHashFilename, GetKey, Ready
  <2>2. QED BY <1>2, <1>6, <2>1 DEF Printed
<1>7. CASE \E k \in Keys : RemoveKey(k)
  <2>1. stage = "open" BY <1>7 DEF RemoveKey, Ready
  <2>2. exit' = "KeyNotFound" BY <1>1, <1>7 DEF RemoveKey, ChangeTo, Exit
  <2>3. QED BY <1>2, <2>1, <2>2
<1>8. CASE Restored
  <2>1. stage = "restore" /\ exit' # "Ok"
        BY <1>1, <1>8 DEF Restored, ChangeTo, Exit
  <2>2. QED BY <1>2, <2>1
<1>9. CASE Flushed
  <2>1. stage = "flush" /\ pc[Tool] = "idle" /\ exit' = result[Tool]
        BY <1>9 DEF Flushed, Exit
  <2>2. ~Printed
        BY <2>1 DEF Printed, Help, PrintOnly, ListKeys, PrintSnapshotCount,
                    PrintSnapshotMaxCount, GetKvsFilename, GetHashFilename, GetKey, Ready
  <2>3. CASE result[Tool] = "Ok"
    <3>1. flushed = base[Tool] BY <2>1, <2>3 DEF FlushedInv
    <3>2. flushed \in acked \ {opened} /\ Promised(flushed)
          BY <2>1, <2>3, <3>1 DEF FlushInv, Promised
    <3>3. QED BY <2>1, <2>2, <2>3, <3>2 DEF Promised, Outcome
  <2>4. CASE result[Tool] # "Ok"
    <3>1. flushed \notin acked /\ flushed \in Docs \cup {0}
          BY <2>1, <2>4 DEF FlushedInv, ToolTypeOK
    <3>2. QED BY <2>1, <2>4, <3>1, NoHash DEF Outcome
  <2>5. QED BY <2>3, <2>4
<1>10. ~ToolCrash BY <1>1 DEF ToolCrash
<1>11. ~AppNext BY <1>1, AppNextFiles DEF toolVars
<1>12. /\ ~Start /\ ~Build /\ ~ResetStore /\ ~CreateTestData /\ ~ToolCall
       /\ \A k \in Keys, v \in Payloads : ~SetKey(k, v)
       /\ \A id \in Slots : ~SnapshotRestore(id)
       BY <1>1 DEF Start, Build, ResetStore, CreateTestData, ToolCall, SetKey,
                   SnapshotRestore, ChangeTo
<1>13. QED
       BY <1>3, <1>4, <1>5, <1>6, <1>7, <1>8, <1>9, <1>10, <1>11, <1>12
       DEF Next, AppNext, ToolRun

-----------------------------------------------------------------------------
(* Theorems *)

LEMMA Invariance == Spec => []IInv
  BY InitInv, NextInv, PTL DEF Spec

\* Every variable of the files, of both stores and of the tool is well typed.
THEOREM TypeCorrect == Spec => []ToolTypeOK
<1>1. IInv => ToolTypeOK BY DEF IInv, ToolInv
<1>2. QED BY <1>1, Invariance, PTL

\* Without any lock between the processes, a load that succeeds has the whole
\* map of one flush that returned Ok, whatever the other store does meanwhile.
THEOREM NoMixedLoad == Spec => LoadsOnlyAcked
<1> DEFINE A == \A p \in Stores :
                   pc[p] = "read_hash" /\ pc'[p] = "idle" /\ result'[p] = "Ok" /\ base'[p] # 0
                   => base'[p] \in acked /\ map'[p] = content[base'[p]]
<1>1. IInv /\ [Next]_allVars => [A]_vars
  <2>1. IInv /\ Next => A BY LoadNext
  <2>2. UNCHANGED allVars => UNCHANGED vars BY DEF allVars
  <2>3. QED BY <2>1, <2>2
<1>2. QED BY <1>1, Invariance, PTL DEF Spec, LoadsOnlyAcked

\* The exit status of the tool tells whether a flush of its own returned Ok, and
\* of which map, whatever the application did to the files meanwhile, whatever
\* failed, and wherever the application was killed; without one nothing that the
\* tool has written can be loaded.
THEOREM HonestExit == Spec => ExitTellsOutcome
<1>1. IInv /\ [Next]_allVars => [ToolEnds => Outcome]_allVars
  <2>1. IInv /\ Next /\ ToolEnds => Outcome BY ExitStep
  <2>2. QED BY <2>1
<1>2. Spec => [][ToolEnds => Outcome]_allVars BY <1>1, Invariance, PTL DEF Spec
<1>3. QED BY <1>2 DEF ExitTellsOutcome, Outcome

-----------------------------------------------------------------------------
(* How long a run of the tool takes *)

LEMMA CallLeftIs ==
    ASSUME FilesInv
    PROVE  /\ CallLeft \in Nat
           /\ pc[Tool] \in Loading \cup Flushing => CallLeft > 0
<1>1. idx[Tool] \in Nat BY StoresOf, MaxCountAssumption DEF FilesInv, TypeOK
<1>2. QED BY <1>1 DEF CallLeft, Loading, Flushing

LEMMA ToolLeftIs ==
    ASSUME FilesInv
    PROVE  /\ ToolLeft \in Nat
           /\ stage \in {"build", "open", "restore", "flush"} => ToolLeft > 0
  BY CallLeftIs, MaxCountAssumption DEF ToolLeft

\* The tool returns from the load or the flush it is in.
LEMMA ToolReturns ==
    ASSUME FilesInv, pc[Tool] \in Loading \cup Flushing,
           NEW place \in {"down", "idle"}, NEW code, Return(Tool, place, code)
    PROVE  CallLeft' < CallLeft
<1>1. pc'[Tool] = place BY StoresOf DEF Return, Goto, FilesInv, TypeOK
<1>2. CallLeft' = 0 BY <1>1 DEF CallLeft
<1>3. QED BY <1>2, CallLeftIs

\* The next slot of the rotation, or the end of its loop.
LEMMA NextSlotLess ==
    ASSUME FilesInv, pc[Tool] \in {"look_hash", "rename_json"}, NextSlot(Tool)
    PROVE  CallLeft' < CallLeft
<1>1. idx[Tool] \in Nat /\ idx[Tool] > 0
      BY StoresOf, MaxCountAssumption DEF FilesInv, TypeOK, PlaceInv, Rotating
<1>2. /\ idx'[Tool] = idx[Tool] - 1
      /\ pc'[Tool] = IF idx[Tool] = 1 THEN "open_json" ELSE "look_json"
      BY StoresOf DEF NextSlot, Goto, FilesInv, TypeOK
<1>3. QED BY <1>1, <1>2 DEF CallLeft

\* Every system call brings the load or flush of the tool nearer to its end.
LEMMA ToolCallLess ==
    ASSUME FilesInv, Step(Tool)
    PROVE  pc[Tool] \in Loading \cup Flushing /\ CallLeft' < CallLeft
<1> USE StoresOf
<1>1. pc[Tool] \in Loading \cup Flushing
      BY DEF Step, ReadJson, ReadHash, LookJson, LookHash, RenameHash, RenameJson,
             OpenJson, WriteJson, OpenHash, WriteHash, Loading, Flushing
<1> SUFFICES CallLeft' < CallLeft BY <1>1
<1>2. idx[Tool] \in Nat BY MaxCountAssumption DEF FilesInv, TypeOK
<1>3. ASSUME NEW code, LoadFails(Tool, code) PROVE CallLeft' < CallLeft
      BY <1>1, <1>3, ToolReturns DEF LoadFails
<1>4. ASSUME NEW code, FlushFails(Tool, code) PROVE CallLeft' < CallLeft
      BY <1>1, <1>4, ToolReturns DEF FlushFails
<1>5. ASSUME NEW label, Goto(Tool, label) PROVE pc'[Tool] = label
      BY <1>5 DEF Goto, FilesInv, TypeOK
<1>6. CASE ReadJson(Tool)
  <2>1. pc[Tool] = "read_json" BY <1>6 DEF ReadJson
  <2>2. CASE Goto(Tool, "read_hash") BY <1>5, <2>1, <2>2 DEF CallLeft
  <2>3. QED BY <1>3, <1>6, <2>2 DEF ReadJson
<1>7. CASE ReadHash(Tool) BY <1>1, <1>3, <1>7, ToolReturns DEF ReadHash
<1>8. CASE LookJson(Tool)
  <2>1. /\ pc[Tool] = "look_json" /\ Goto(Tool, "look_hash") /\ idx' = idx
        BY <1>8 DEF LookJson
  <2>2. QED BY <1>2, <1>5, <2>1 DEF CallLeft
<1>9. CASE LookHash(Tool)
  <2>1. pc[Tool] = "look_hash" BY <1>9 DEF LookHash
  <2>2. CASE NextSlot(Tool) BY <2>1, <2>2, NextSlotLess
  <2>3. CASE Goto(Tool, "rename_hash") /\ idx' = idx
        BY <1>2, <1>5, <2>1, <2>3 DEF CallLeft
  <2>4. QED BY <1>4, <1>9, <2>2, <2>3 DEF LookHash
<1>10. CASE RenameHash(Tool)
  <2>1. pc[Tool] = "rename_hash" BY <1>10 DEF RenameHash
  <2>2. CASE Goto(Tool, "rename_json") /\ idx' = idx
        BY <1>2, <1>5, <2>1, <2>2 DEF CallLeft
  <2>3. QED BY <1>4, <1>10, <2>2 DEF RenameHash, IoError
<1>11. CASE RenameJson(Tool)
  <2>1. pc[Tool] = "rename_json" BY <1>11 DEF RenameJson
  <2>2. CASE NextSlot(Tool) BY <2>1, <2>2, NextSlotLess
  <2>3. QED BY <1>4, <1>11, <2>2 DEF RenameJson, IoError
<1>12. CASE OpenJson(Tool)
  <2>1. pc[Tool] = "open_json" BY <1>12 DEF OpenJson
  <2>2. CASE Goto(Tool, "write_json") BY <1>5, <2>1, <2>2 DEF CallLeft
  <2>3. QED BY <1>4, <1>12, <2>2 DEF OpenJson, IoError
<1>13. CASE WriteJson(Tool)
  <2>1. pc[Tool] = "write_json" BY <1>13 DEF WriteJson
  <2>2. CASE Goto(Tool, "open_hash") BY <1>5, <2>1, <2>2 DEF CallLeft
  <2>3. QED BY <1>4, <1>13, <2>2 DEF WriteJson, IoError
<1>14. CASE OpenHash(Tool)
  <2>1. pc[Tool] = "open_hash" BY <1>14 DEF OpenHash
  <2>2. CASE Goto(Tool, "write_hash") BY <1>5, <2>1, <2>2 DEF CallLeft
  <2>3. QED BY <1>4, <1>14, <2>2 DEF OpenHash, IoError
<1>15. CASE WriteHash(Tool)
       BY <1>1, <1>4, <1>15, ToolReturns DEF WriteHash, IoError
<1>16. Step(Tool) OBVIOUS
<1>17. QED
       BY <1>6, <1>7, <1>8, <1>9, <1>10, <1>11, <1>12, <1>13, <1>14, <1>15, <1>16
       DEF Step

\* A flush begins; there are at most 4 * MaxCount system calls in it.
LEMMA ChangeToLess ==
    ASSUME FilesInv, stage \in {"open", "restore"}, NEW m, NEW i, ChangeTo(m, i)
    PROVE  ToolLeft' < ToolLeft
<1>1. /\ idx'[Tool] = MaxCount - 1
      /\ pc'[Tool] = IF MaxCount > 1 THEN "look_json" ELSE "open_json"
      /\ stage' = "flush"
      BY StoresOf DEF ChangeTo, FlushMap, Goto, FilesInv, TypeOK
<1>2. MaxCount \in Nat /\ MaxCount > 0 BY MaxCountAssumption
<1>3. CallLeft' \in Nat /\ CallLeft' <= 4 * MaxCount
  <2>1. CASE MaxCount > 1 BY <1>1, <1>2, <2>1 DEF CallLeft
  <2>2. CASE ~(MaxCount > 1) BY <1>1, <1>2, <2>2 DEF CallLeft
  <2>3. QED BY <2>1, <2>2
<1>4. ToolLeft' \in Nat /\ ToolLeft' < 4 * MaxCount + 2
      BY <1>1, <1>2, <1>3 DEF ToolLeft
<1>5. CallLeft \in Nat BY CallLeftIs
<1>6. 4 * MaxCount + 2 <= ToolLeft BY <1>2, <1>5 DEF ToolLeft
<1>7. ToolLeft \in Nat BY ToolLeftIs
<1>8. QED BY <1>2, <1>4, <1>6, <1>7

LEMMA ToolRunLess ==
    ASSUME IInv, ToolRun
    PROVE  ToolLeft' < ToolLeft
<1> USE StoresOf DEF IInv
<1>1. MaxCount \in Nat /\ CallLeft \in Nat BY CallLeftIs, MaxCountAssumption
<1>2. ASSUME NEW code, Exit(code), stage # "none" PROVE ToolLeft' < ToolLeft
  <2>1. ToolLeft' = 0 BY <1>2 DEF Exit, ToolLeft
  <2>2. stage \in {"build", "open", "restore", "flush"}
        BY <1>2 DEF ToolInv, ToolTypeOK
  <2>3. QED BY <2>1, <2>2, ToolLeftIs
<1>3. CASE Build
  <2>1. stage = "build" /\ stage' = "open" /\ pc'[Tool] = "read_json"
        BY <1>3 DEF Build, Open, StartLoad, Goto, FilesInv, TypeOK
  <2>2. CallLeft' = 2 BY <2>1 DEF CallLeft
  <2>3. QED BY <1>1, <2>1, <2>2 DEF ToolLeft
<1>4. CASE Help \/ BuildFailed \/ BadArguments \/ PrintOnly \/ Flushed
      BY <1>2, <1>4
      DEF Help, BuildFailed, BadArguments, PrintOnly, ListKeys, PrintSnapshotCount,
          PrintSnapshotMaxCount, GetKvsFilename, GetHashFilename, Flushed, Ready
<1>5. CASE \E k \in Keys : GetKey(k) BY <1>2, <1>5 DEF GetKey, Ready
<1>6. CASE \E k \in Keys : RemoveKey(k)
      BY <1>2, <1>6, ChangeToLess DEF RemoveKey, Ready
<1>7. CASE \E k \in Keys, v \in Payloads : SetKey(k, v)
      BY <1>7, ChangeToLess DEF SetKey, Ready
<1>8. CASE ResetStore \/ CreateTestData
      BY <1>8, ChangeToLess DEF ResetStore, CreateTestData, Ready
<1>9. CASE \E id \in Slots : SnapshotRestore(id)
  <2>1. stage = "open" /\ stage' = "restore" BY <1>9 DEF SnapshotRestore, Ready
  <2>2. pc'[Tool] \in {"read_json", "idle"}
        BY <1>9 DEF SnapshotRestore, Restore, StartLoad, Return, Goto, FilesInv, TypeOK
  <2>3. CallLeft' \in {0, 2} BY <2>2 DEF CallLeft
  <2>4. QED BY <1>1, <2>1, <2>3 DEF ToolLeft
<1>10. CASE Restored BY <1>2, <1>10, ChangeToLess DEF Restored
<1>11. CASE ToolCall
  <2>1. Step(Tool) /\ stage' = stage BY <1>11 DEF ToolCall
  <2>2. pc[Tool] \in Loading \cup Flushing /\ CallLeft' < CallLeft BY <2>1, ToolCallLess
  <2>3. stage \in {"open", "restore", "flush"}
        BY <2>2 DEF ToolInv, ToolTypeOK, StartInv, Loading, Flushing
  <2>4. FilesInv' BY <2>1, StepFiles
  <2>5. CallLeft' \in Nat
    <3>1. idx'[Tool] \in Nat BY <2>4, MaxCountAssumption DEF FilesInv, TypeOK
    <3>2. QED BY <3>1 DEF CallLeft
  <2>6. QED BY <1>1, <2>1, <2>2, <2>3, <2>5 DEF ToolLeft
<1>12. ToolRun OBVIOUS
<1>13. QED
       BY <1>3, <1>4, <1>5, <1>6, <1>7, <1>8, <1>9, <1>10, <1>11, <1>12 DEF ToolRun

\* Whatever the application does, the tool stays where it is in its run.
LEMMA AppKeepsTool ==
    ASSUME FilesInv, AppNext
    PROVE  UNCHANGED <<stage, pc[Tool], idx[Tool]>>
<1> USE StoresOf
<1>1. pc'[Tool] = pc[Tool] /\ stage' = stage
      BY AppNextFiles DEF Frame, toolVars
<1> SUFFICES idx'[Tool] = idx[Tool] BY <1>1
<1>2. idx \in [Stores -> 0 .. MaxCount - 1] BY DEF FilesInv, TypeOK
<1>3. ASSUME NEW place, NEW code, Return(App, place, code) PROVE idx'[Tool] = idx[Tool]
      BY <1>2, <1>3 DEF Return
<1>4. ASSUME NEW code, LoadFails(App, code) PROVE idx'[Tool] = idx[Tool]
      BY <1>3, <1>4 DEF LoadFails
<1>5. ASSUME NEW code, FlushFails(App, code) PROVE idx'[Tool] = idx[Tool]
      BY <1>3, <1>5 DEF FlushFails
<1>6. CASE Step(App)
  <2>1. CASE ReadJson(App) \/ ReadHash(App)
        BY <1>3, <1>4, <2>1 DEF ReadJson, ReadHash
  <2>2. CASE LookJson(App) \/ LookHash(App) \/ RenameHash(App) \/ RenameJson(App)
        BY <1>2, <1>5, <2>2
        DEF LookJson, LookHash, RenameHash, RenameJson, NextSlot, IoError
  <2>3. CASE OpenJson(App) \/ OpenHash(App) \/ WriteJson(App) \/ WriteHash(App)
        BY <1>3, <1>5, <2>3 DEF OpenJson, OpenHash, WriteJson, WriteHash, IoError
  <2>4. QED BY <1>6, <2>1, <2>2, <2>3 DEF Step
<1>7. CASE \/ OpenIgnored(App)
           \/ \E mode \in Modes : Open(App, mode)
           \/ Flush(App)
           \/ \E id \in Slots : Restore(App, id)
           \/ Crash(App)
      BY <1>2, <1>3, <1>7
      DEF OpenIgnored, Open, StartLoad, Flush, FlushMap, Restore, Crash
<1>8. CASE UNCHANGED idx BY <1>8
<1>9. QED
      BY <1>6, <1>7, <1>8
      DEF AppNext, AppStep, AppSet, AppRemove, AppReset, AppChange, InCall

\* A run of the tool is as short as its operation, for any number of slots and
\* whatever the application does: every step of it counts down from at most
\* 4 * MaxCount + 8, and no step of the application counts up.
THEOREM RunsAreShort ==
    Spec => ToolIsBounded /\ [][ToolRun => ToolLeft' < ToolLeft]_allVars
<1> DEFINE Counts == ToolRun => ToolLeft' < ToolLeft
           A == stage # "none" =>
                   UNCHANGED <<stage, pc[Tool], idx[Tool]>> \/ ToolLeft' < ToolLeft
<1>1. IInv /\ [Next]_allVars => [Counts]_allVars BY ToolRunLess
<1>2. ASSUME IInv, [Next]_allVars PROVE [A]_allVars
  <2> SUFFICES ASSUME Next, stage # "none"
               PROVE  UNCHANGED <<stage, pc[Tool], idx[Tool]>> \/ ToolLeft' < ToolLeft
      BY <1>2
  <2>1. CASE AppNext BY <1>2, <2>1, AppKeepsTool DEF IInv
  <2>2. CASE ToolRun BY <1>2, <2>2, ToolRunLess
  <2>3. CASE ToolCrash
    <3>1. ToolLeft' = 0 BY <2>3 DEF ToolCrash, ToolLeft
    <3>2. stage \in {"build", "open", "restore", "flush"}
          BY <1>2 DEF IInv, ToolInv, ToolTypeOK
    <3>3. QED BY <1>2, <3>1, <3>2, ToolLeftIs DEF IInv
  <2>4. ~Start BY DEF Start
  <2>5. QED BY <2>1, <2>2, <2>3, <2>4 DEF Next, AppNext
<1>3. Spec => [][Counts]_allVars BY <1>1, Invariance, PTL DEF Spec
<1>4. Spec => [][A]_allVars BY <1>2, Invariance, PTL DEF Spec
<1>5. QED BY <1>3, <1>4 DEF ToolIsBounded

-----------------------------------------------------------------------------
(***************************************************************************)
(* An application and kvs_tool that take turns: their loads and flushes    *)
(* share the files as if they were of one store.                           *)
(***************************************************************************)

(* The inductive invariant *)

\* Slot s of file is what the n-th flush leaves there.
Aged(file, s, n) == file[s] = IF s < MaxCount /\ s < n THEN n - s ELSE Absent

\* A rotation that has come to slot i has moved what was in the slots from i
\* on, and has not touched the others.
Layout(file, i) ==
    \A s \in Slots :
        /\ s < i => Aged(file, s, committed)
        /\ s = i /\ committed < s => file[s] = Absent
        /\ s > i => Aged(file, s, committed + 1)

AtRest ==
    /\ committed = seq
    /\ \A s \in Slots : Aged(json, s, committed) /\ Aged(hash, s, committed)

\* What the flush of p has done to the files.
FlushingAt(p) ==
    /\ committed + 1 = seq /\ doc[p] = seq
    /\ pc[p] \in Rotating => Layout(json, idx[p])
    /\ pc[p] \in Rotating \ {"rename_json"} => Layout(hash, idx[p])
    /\ pc[p] = "rename_json" => Layout(hash, idx[p] - 1)
    /\ pc[p] = "look_hash" => got[p] = json[idx[p] - 1]
    /\ pc[p] \in {"rename_hash", "rename_json"} => idx[p] <= committed
    /\ pc[p] \in Flushing \ Rotating => Layout(json, 0) /\ Layout(hash, 0)
    /\ pc[p] = "write_json" => json[0] = Empty
    /\ pc[p] \in {"write_json", "write_hash"} => handle[p] = 0
    /\ pc[p] \in {"open_hash", "write_hash"} => json[0] = seq

LoadingAt(p) ==
    /\ call[p].mode # "restore" => call[p].slot = 0
    /\ pc[p] = "read_hash" => got[p] = json[call[p].slot]

Turns ==
    /\ (\A p \in Stores : pc[p] \notin Flushing) => AtRest
    /\ \A p, q \in Stores : p # q /\ pc[p] \in Flushing => pc[q] \in {"down", "idle"}
    /\ \A p \in Stores : pc[p] \in Flushing => FlushingAt(p)
    /\ \A p \in Stores : pc[p] \in Loading => LoadingAt(p)

TurnsInv == turns => Turns

-----------------------------------------------------------------------------
(* Slots *)

LEMMA Bounds ==
    /\ MaxCount \in Nat \ {0} /\ Slots = 0 .. MaxCount
    /\ Absent \notin Nat /\ Empty \notin Nat /\ Missing \notin Nat /\ Absent # Empty
BY MaxCountAssumption, ContentAssumption DEF Slots

\* Nothing is in the slot below, nor in this one.
LEMMA LayoutDown ==
    ASSUME committed \in Nat, NEW file, NEW i \in 1 .. MaxCount - 1,
           Layout(file, i), committed <= i - 1
    PROVE  Layout(file, i - 1)
<1>1. SUFFICES ASSUME NEW s \in Slots
               PROVE  /\ s < i - 1 => Aged(file, s, committed)
                      /\ s = i - 1 /\ committed < s => file[s] = Absent
                      /\ s > i - 1 => Aged(file, s, committed + 1)
    BY DEF Layout
<1>2. s \in Nat /\ i \in Nat /\ MaxCount \in Nat BY Bounds
<1>3. CASE s < i
    BY <1>2, <1>3 DEF Layout, Aged
<1>4. CASE s = i
    BY <1>2, <1>4 DEF Layout, Aged
<1>5. CASE s > i
    BY <1>2, <1>5 DEF Layout
<1> QED BY <1>2, <1>3, <1>4, <1>5

\* What was in the slot below is in this one now.
LEMMA LayoutMoved ==
    ASSUME committed \in Nat, NEW file \in [Slots -> Content], NEW i \in 1 .. MaxCount - 1,
           Layout(file, i), i <= committed
    PROVE  Layout(Renamed(file, i), i - 1)
<1> DEFINE f == Renamed(file, i)
<1>1. SUFFICES ASSUME NEW s \in Slots
               PROVE  /\ s < i - 1 => Aged(f, s, committed)
                      /\ s = i - 1 /\ committed < s => f[s] = Absent
                      /\ s > i - 1 => Aged(f, s, committed + 1)
    BY DEF Layout
<1>2. s \in Nat /\ i \in Nat /\ MaxCount \in Nat /\ i \in Slots /\ i - 1 \in Slots
    BY Bounds
<1>3. /\ f[i] = file[i - 1]
      /\ \A t \in Slots : t # i /\ t # i - 1 => f[t] = file[t]
    BY <1>2 DEF Renamed
<1> HIDE DEF f
<1>4. CASE s < i
    BY <1>2, <1>3, <1>4 DEF Layout, Aged
<1>5. CASE s = i
  <2>1. file[i - 1] = committed - (i - 1)
    BY <1>2 DEF Layout, Aged
  <2>2. f[s] = (committed + 1) - s
    BY <1>2, <1>3, <1>5, <2>1
  <2>3. s < MaxCount /\ s < committed + 1 /\ ~(s < i - 1) /\ s # i - 1
    BY <1>2, <1>5
  <2>4. Aged(f, s, committed + 1)
    BY <2>2, <2>3 DEF Aged
  <2> QED BY <2>3, <2>4
<1>6. CASE s > i
    BY <1>2, <1>3, <1>6 DEF Layout, Aged
<1> QED BY <1>2, <1>4, <1>5, <1>6

\* The layout before the rotation begins.
LEMMA LayoutStarts ==
    ASSUME committed \in Nat, NEW file, \A s \in Slots : Aged(file, s, committed)
    PROVE  Layout(file, MaxCount - 1)
<1>1. SUFFICES ASSUME NEW s \in Slots
               PROVE  /\ s = MaxCount - 1 /\ committed < s => file[s] = Absent
                      /\ s > MaxCount - 1 => Aged(file, s, committed + 1)
    BY DEF Layout
<1> QED BY Bounds DEF Aged

\* Slot 0 may hold anything once the rotation is done with it.
LEMMA LayoutWritten ==
    ASSUME committed \in Nat, NEW file \in [Slots -> Content], NEW c, Layout(file, 0)
    PROVE  Layout([file EXCEPT ![0] = c], 0)
<1> DEFINE f == [file EXCEPT ![0] = c]
<1>1. SUFFICES ASSUME NEW s \in Slots
               PROVE  /\ s < 0 => Aged(f, s, committed)
                      /\ s = 0 /\ committed < s => f[s] = Absent
                      /\ s > 0 => Aged(f, s, committed + 1)
    BY DEF Layout
<1>2. s \in Nat
    BY Bounds
<1>3. s > 0 => f[s] = file[s] /\ Aged(file, s, committed + 1)
    BY <1>2, Bounds DEF Layout
<1> QED BY <1>2, <1>3 DEF Aged

LEMMA LayoutEnds ==
    ASSUME committed \in Nat, NEW file, Layout(file, 0), file[0] = committed + 1
    PROVE  \A s \in Slots : Aged(file, s, committed + 1)
<1>1. SUFFICES ASSUME NEW s \in Slots PROVE Aged(file, s, committed + 1)
    OBVIOUS
<1>2. CASE s = 0
    BY <1>2, Bounds DEF Aged
<1>3. CASE s > 0
    BY <1>3, Bounds DEF Layout
<1> QED BY <1>2, <1>3, Bounds

-----------------------------------------------------------------------------
(* Steps that leave the files alone, and steps of a flush *)

SameStore(q) ==
    /\ pc'[q] = pc[q] /\ call'[q] = call[q] /\ idx'[q] = idx[q]
    /\ got'[q] = got[q] /\ doc'[q] = doc[q] /\ handle'[q] = handle[q]

\* p is in no flush, and is in a load only if no other store is in a flush.
LEMMA Quiet ==
    ASSUME Turns, NEW p \in Stores, pc[p] \notin Flushing,
           UNCHANGED <<disk, seq, committed>>,
           \A q \in Stores \ {p} : SameStore(q),
           pc'[p] \in {"down", "idle"} \cup Loading,
           pc'[p] \in Loading =>
               LoadingAt(p)' /\ \A q \in Stores \ {p} : pc[q] \notin Flushing
    PROVE  Turns'
<1>1. pc'[p] \notin Flushing
    BY DEF Flushing, Loading
<1>2. \A q \in Stores \ {p} : pc'[q] = pc[q]
    BY DEF SameStore
<1>3. (\A q \in Stores : pc'[q] \notin Flushing) => AtRest'
  <2>1. AtRest => AtRest'
    BY DEF AtRest, Aged, disk
  <2> QED BY <1>1, <1>2, <2>1 DEF Turns
<1>4. \A q, r \in Stores : q # r /\ pc'[q] \in Flushing => pc'[r] \in {"down", "idle"}
    BY <1>1, <1>2 DEF Turns, Loading
<1>5. ASSUME NEW q \in Stores, pc'[q] \in Flushing PROVE FlushingAt(q)'
  <2>1. q # p /\ FlushingAt(q) /\ SameStore(q)
    BY <1>1, <1>2, <1>5 DEF Turns
  <2>2. json' = json /\ hash' = hash /\ seq' = seq /\ committed' = committed
    BY DEF disk
  <2> QED BY <2>1, <2>2 DEF FlushingAt, SameStore, Layout, Aged
<1>6. ASSUME NEW q \in Stores, pc'[q] \in Loading PROVE LoadingAt(q)'
  <2>1. CASE q = p
    BY <1>6, <2>1
  <2>2. CASE q # p
    BY <1>2, <1>6, <2>2 DEF Turns, LoadingAt, SameStore, disk
  <2> QED BY <2>1, <2>2
<1> QED BY <1>3, <1>4, <1>5, <1>6 DEF Turns

\* p is in a flush, and the others have no part in it.
LEMMA FlushGoesOn ==
    ASSUME Turns, NEW p \in Stores,
           pc[p] \in Flushing \/ \A q \in Stores \ {p} : pc[q] \in {"down", "idle"},
           \A q \in Stores \ {p} : pc'[q] = pc[q],
           pc'[p] \in Flushing, FlushingAt(p)'
    PROVE  Turns'
<1>1. \A q \in Stores \ {p} : pc'[q] \in {"down", "idle"}
    BY DEF Turns
<1>2. \A q \in Stores \ {p} : pc'[q] \notin Flushing \cup Loading
    BY <1>1 DEF Flushing, Loading
<1>3. pc'[p] \notin Loading
    BY DEF Flushing, Loading
<1> QED BY <1>1, <1>2, <1>3 DEF Turns

-----------------------------------------------------------------------------
(* Loads *)

\* The call of p returns, and no other store takes notice.
LEMMA Returns ==
    ASSUME TypeOK, NEW p \in Stores, NEW place \in {"down", "idle"}, NEW code,
           Return(p, place, code)
    PROVE  pc'[p] = place /\ result'[p] = code /\ \A q \in Stores \ {p} : SameStore(q) /\ result'[q] = result[q]
BY DEF TypeOK, Return, Goto, SameStore

LEMMA ReturnTurns ==
    ASSUME TypeOK, Turns, NEW p \in Stores, NEW place \in {"down", "idle"}, NEW code,
           Return(p, place, code), pc[p] \notin Flushing, UNCHANGED <<disk, history>>
    PROVE  Turns'
<1>1. pc'[p] = place /\ \A q \in Stores \ {p} : SameStore(q)
    BY Returns
<1>2. UNCHANGED <<disk, seq, committed>>
    BY DEF history
<1>3. pc'[p] \notin Loading
    BY <1>1 DEF Loading
<1> QED BY <1>1, <1>2, <1>3, Quiet

LEMMA StartLoadTurns ==
    ASSUME TypeOK, Turns, NEW p \in Stores, NEW slot \in Slots, NEW mode,
           pc[p] \notin Flushing, mode # "restore" => slot = 0,
           StartLoad(p, slot, mode), turns'
    PROVE  Turns'
<1>1. /\ pc'[p] = "read_json" /\ call'[p] = [slot |-> slot, mode |-> mode]
      /\ \A q \in Stores \ {p} : SameStore(q)
    BY DEF TypeOK, StartLoad, Goto, SameStore
<1>2. \A q \in Stores \ {p} : pc[q] \notin Flushing
    BY DEF StartLoad, OtherAt
<1>3. LoadingAt(p)'
    BY <1>1 DEF LoadingAt
<1>4. UNCHANGED <<disk, seq, committed>>
    BY DEF StartLoad, history
<1>5. pc'[p] \in Loading
    BY <1>1 DEF Loading
<1> QED BY <1>1, <1>2, <1>3, <1>4, <1>5, Quiet

LEMMA LoadFailsTurns ==
    ASSUME TypeOK, Turns, NEW p \in Stores, NEW code, pc[p] \in Loading, LoadFails(p, code)
    PROVE  Turns'
<1>1. PICK place \in {"down", "idle"}, c \in {code, "Ok"} : Return(p, place, c)
    BY DEF LoadFails
<1>2. pc[p] \notin Flushing /\ UNCHANGED <<disk, history>>
    BY DEF Loading, Flushing, LoadFails
<1> QED BY <1>1, <1>2, ReturnTurns

LEMMA ReadJsonTurns ==
    ASSUME TypeOK, Turns, NEW p \in Stores, ReadJson(p)
    PROVE  Turns'
<1>1. pc[p] \in Loading
    BY DEF ReadJson, Loading
<1>2. CASE LoadFails(p, "FileNotFound") \/ LoadFails(p, "UnmappedError")
    BY <1>1, <1>2, LoadFailsTurns
<1>3. CASE /\ Goto(p, "read_hash")
           /\ got' = [got EXCEPT ![p] = json[call[p].slot]]
           /\ UNCHANGED <<disk, map, base, call, idx, doc, handle, result, history, turns>>
  <2>1. /\ pc'[p] = "read_hash" /\ got'[p] = json[call[p].slot] /\ call'[p] = call[p]
        /\ \A q \in Stores \ {p} : SameStore(q)
    BY <1>3 DEF TypeOK, Goto, SameStore
  <2>2. UNCHANGED <<disk, seq, committed>> /\ json' = json
    BY <1>3 DEF history, disk
  <2>3. \A q \in Stores \ {p} : pc[q] \notin Flushing
    BY <1>1 DEF Turns, Loading
  <2>4. LoadingAt(p)'
    BY <1>1, <2>1, <2>2 DEF Turns, LoadingAt
  <2>5. pc'[p] \in Loading /\ pc[p] \notin Flushing
    BY <1>1, <2>1 DEF Loading, Flushing
  <2> QED BY <2>1, <2>2, <2>3, <2>4, <2>5, Quiet
<1> QED BY <1>2, <1>3 DEF ReadJson

LEMMA ReadHashTurns ==
    ASSUME TypeOK, Turns, NEW p \in Stores, ReadHash(p)
    PROVE  Turns'
<1>1. pc[p] \in Loading /\ pc[p] \notin Flushing
    BY DEF ReadHash, Loading, Flushing
<1>2. CASE \E code \in {"FileNotFound", "ValidationFailed", "UnmappedError"} : LoadFails(p, code)
    BY <1>1, <1>2, LoadFailsTurns
<1>3. CASE Return(p, "idle", "Ok") /\ UNCHANGED <<disk, history>>
    BY <1>1, <1>3, ReturnTurns
<1> QED BY <1>2, <1>3 DEF ReadHash

LEMMA OpenTurns ==
    ASSUME TypeOK, Turns, NEW p \in Stores, NEW mode \in Modes, Open(p, mode), turns'
    PROVE  Turns'
<1>1. 0 \in Slots /\ pc[p] \notin Flushing
    BY Bounds DEF Open, Flushing
<1> QED BY <1>1, StartLoadTurns DEF Open

LEMMA OpenIgnoredTurns ==
    ASSUME TypeOK, Turns, NEW p \in Stores, OpenIgnored(p)
    PROVE  Turns'
<1>1. pc[p] \notin Flushing
    BY DEF OpenIgnored, Flushing
<1> QED BY <1>1, ReturnTurns DEF OpenIgnored

LEMMA RestoreTurns ==
    ASSUME TypeOK, Turns, NEW p \in Stores, NEW id \in Slots, Restore(p, id), turns'
    PROVE  Turns'
<1>1. pc[p] \notin Flushing
    BY DEF Restore, Flushing
<1>2. CASE StartLoad(p, id, "restore")
    BY <1>1, <1>2, StartLoadTurns
<1>3. CASE Return(p, "idle", "InvalidSnapshotId") /\ UNCHANGED <<disk, history>>
    BY <1>1, <1>3, ReturnTurns
<1> QED BY <1>2, <1>3 DEF Restore

LEMMA CrashTurns ==
    ASSUME TypeOK, Turns, NEW p \in Stores, Crash(p), turns'
    PROVE  Turns'
<1>1. pc[p] \notin Flushing
    BY DEF Crash
<1> QED BY <1>1, ReturnTurns DEF Crash

-----------------------------------------------------------------------------
(* A flush *)

LEMMA FlushMapTurns ==
    ASSUME FilesInv, Turns, NEW p \in Stores, NEW m, pc[p] = "idle", FlushMap(p, m), turns'
    PROVE  Turns'
<1>1. \A q \in Stores \ {p} : pc[q] \in {"down", "idle"}
    BY DEF FlushMap, OtherAt, FilesInv, TypeOK
<1>2. AtRest
    BY <1>1 DEF Turns, Flushing
<1>3. /\ committed \in Nat /\ seq \in Nat /\ MaxCount \in Nat \ {0}
      /\ json \in [Slots -> Content] /\ hash \in [Slots -> Content]
    BY Bounds, MaxFlushAssumption DEF FilesInv, TypeOK, Docs
<1>4. /\ \A q \in Stores \ {p} : pc'[q] = pc[q]
      /\ pc'[p] = IF MaxCount > 1 THEN "look_json" ELSE "open_json"
      /\ idx'[p] = MaxCount - 1 /\ doc'[p] = seq + 1
      /\ seq' = seq + 1 /\ committed' = committed /\ json' = json /\ hash' = hash
    BY DEF FilesInv, TypeOK, FlushMap, Goto, disk
<1>5. Layout(json, MaxCount - 1) /\ Layout(hash, MaxCount - 1)
    BY <1>2, <1>3, LayoutStarts DEF AtRest
<1>6. Layout(json, MaxCount - 1)' /\ Layout(hash, MaxCount - 1)'
    BY <1>4, <1>5 DEF Layout, Aged
<1>7. committed' + 1 = seq' /\ doc'[p] = seq'
    BY <1>2, <1>4 DEF AtRest
<1>8. FlushingAt(p)'
    BY <1>3, <1>4, <1>6, <1>7 DEF FlushingAt, Rotating, Flushing
<1>9. pc'[p] \in Flushing
    BY <1>4 DEF Flushing
<1> QED BY <1>1, <1>4, <1>8, <1>9, FlushGoesOn

\* An early return of flush ends the taking of turns.
LEMMA FailureEndsTurns ==
    ASSUME NEW p \in Stores
    PROVE  /\ \A code : FlushFails(p, code) => ~turns'
           /\ IoError(p) => ~turns'
BY DEF FlushFails, IoError

\* What holds of p inside the rotation.
LEMMA InRotation ==
    ASSUME FilesInv, Turns, NEW p \in Stores, pc[p] \in Rotating
    PROVE  /\ FlushingAt(p) /\ pc[p] \in Flushing
           /\ idx[p] \in 1 .. MaxCount - 1 /\ idx[p] \in Slots /\ idx[p] - 1 \in Slots
           /\ idx[p] \in Nat /\ idx[p] - 1 \in Nat /\ idx[p] - 1 < MaxCount
           /\ committed \in Nat
           /\ json \in [Slots -> Content] /\ hash \in [Slots -> Content]
<1>1. pc[p] \in Flushing /\ FlushingAt(p)
    BY DEF Turns, Flushing, Rotating
<1>2. idx[p] \in 1 .. MaxCount - 1
    BY Bounds DEF FilesInv, TypeOK, PlaceInv
<1>3. committed \in Nat /\ json \in [Slots -> Content] /\ hash \in [Slots -> Content]
    BY Bounds, MaxFlushAssumption DEF FilesInv, TypeOK, Docs
<1> QED BY <1>1, <1>2, <1>3, Bounds

\* Below the slot the rotation has come to, both files are there or none is.
LEMMA BothOrNone ==
    ASSUME FilesInv, Turns, NEW p \in Stores, pc[p] \in Rotating \ {"rename_json"}
    PROVE  /\ Exists(json, idx[p] - 1) <=> idx[p] <= committed
           /\ Exists(hash, idx[p] - 1) <=> idx[p] <= committed
<1> DEFINE i == idx[p]
<1>1. /\ i - 1 \in Slots /\ i \in Nat /\ i - 1 < MaxCount /\ i - 1 < i /\ committed \in Nat
      /\ Layout(json, i) /\ Layout(hash, i)
    BY InRotation DEF FlushingAt
<1> HIDE DEF i
<1>2. Aged(json, i - 1, committed) /\ Aged(hash, i - 1, committed)
    BY <1>1 DEF Layout
<1>3. i <= committed => committed - (i - 1) \in Nat
    BY <1>1
<1>4. /\ json[i - 1] = IF i - 1 < committed THEN committed - (i - 1) ELSE Absent
      /\ hash[i - 1] = IF i - 1 < committed THEN committed - (i - 1) ELSE Absent
    BY <1>1, <1>2 DEF Aged
<1>5. i - 1 < committed <=> i <= committed
    BY <1>1
<1> QED BY <1>3, <1>4, <1>5, Bounds DEF Exists, i

LEMMA LookJsonTurns ==
    ASSUME FilesInv, Turns, NEW p \in Stores, LookJson(p), turns'
    PROVE  Turns'
<1>1. pc[p] = "look_json" /\ pc[p] \in Rotating
    BY DEF LookJson, Rotating
<1>2. FlushingAt(p) /\ pc[p] \in Flushing
    BY <1>1, InRotation
<1>3. /\ \A q \in Stores \ {p} : pc'[q] = pc[q]
      /\ pc'[p] = "look_hash" /\ got'[p] = json[idx[p] - 1]
      /\ idx' = idx /\ doc' = doc /\ handle' = handle
      /\ seq' = seq /\ committed' = committed /\ json' = json /\ hash' = hash
    BY DEF FilesInv, TypeOK, LookJson, Goto, disk, history
<1>4. FlushingAt(p)'
  <2>1. Layout(json, idx[p]) /\ Layout(hash, idx[p]) /\ committed + 1 = seq /\ doc[p] = seq
    BY <1>1, <1>2 DEF FlushingAt, Rotating
  <2>2. Layout(json, idx[p])' /\ Layout(hash, idx[p])'
    BY <1>3, <2>1 DEF Layout, Aged
  <2> QED BY <1>3, <2>1, <2>2 DEF FlushingAt, Rotating, Flushing
<1>5. pc'[p] \in Flushing
    BY <1>3 DEF Flushing
<1> QED BY <1>2, <1>3, <1>4, <1>5, FlushGoesOn

\* The next slot of the rotation, or the end of it.
LEMMA NextSlotTurns ==
    ASSUME FilesInv, Turns, NEW p \in Stores, pc[p] \in Rotating, NextSlot(p),
           UNCHANGED <<doc, seq, committed>>,
           NEW i, i = idx[p], Layout(json, i - 1)', Layout(hash, i - 1)'
    PROVE  Turns'
<1>1. FlushingAt(p) /\ pc[p] \in Flushing /\ i \in 1 .. MaxCount - 1
    BY InRotation
<1>2. /\ \A q \in Stores \ {p} : pc'[q] = pc[q]
      /\ pc'[p] = (IF i = 1 THEN "open_json" ELSE "look_json")
      /\ idx'[p] = i - 1 /\ doc'[p] = doc[p]
    BY DEF FilesInv, TypeOK, NextSlot, Goto
<1>3. committed' + 1 = seq' /\ doc'[p] = seq'
    BY <1>1, <1>2 DEF FlushingAt
<1>4. FlushingAt(p)'
  <2>1. CASE i = 1
    <3>1. i - 1 = 0 /\ pc'[p] = "open_json"
      BY <1>2, <2>1
    <3> QED BY <1>3, <3>1 DEF FlushingAt, Rotating, Flushing
  <2>2. CASE i # 1
    <3>1. pc'[p] = "look_json"
      BY <1>2, <2>2
    <3> QED BY <1>2, <1>3, <3>1 DEF FlushingAt, Rotating, Flushing
  <2> QED BY <2>1, <2>2
<1>5. pc'[p] \in Flushing
    BY <1>2 DEF Flushing
<1> QED BY <1>1, <1>2, <1>4, <1>5, FlushGoesOn

LEMMA LookHashTurns ==
    ASSUME FilesInv, Turns, NEW p \in Stores, LookHash(p), turns'
    PROVE  Turns'
<1>1. pc[p] = "look_hash" /\ pc[p] \in Rotating
    BY DEF LookHash, Rotating
<1>2. FlushingAt(p) /\ pc[p] \in Flushing /\ idx[p] \in 1 .. MaxCount - 1 /\ committed \in Nat
    BY <1>1, InRotation
<1>3. PICK i \in 1 .. MaxCount - 1 : i = idx[p]
    BY <1>2
<1>4. i \in Nat /\ MaxCount \in Nat
    BY <1>3, Bounds
<1>5. /\ Layout(json, i) /\ Layout(hash, i) /\ got[p] = json[i - 1]
      /\ committed + 1 = seq /\ doc[p] = seq
    BY <1>1, <1>2, <1>3 DEF FlushingAt, Rotating
<1>6. /\ got[p] # Absent <=> i <= committed
      /\ Exists(hash, i - 1) <=> i <= committed
    BY <1>1, <1>3, <1>5, BothOrNone DEF Exists
<1>7. ~FlushFails(p, "IntegrityCorrupted")
    BY FailureEndsTurns
<1>8. UNCHANGED <<json, hash, seq, committed, doc>>
    BY <1>7 DEF LookHash, LookedOn, disk, history
<1>9. CASE got[p] = Absent /\ NextSlot(p)
  <2>1. committed <= i - 1
    BY <1>2, <1>4, <1>6, <1>9
  <2>2. Layout(json, i - 1) /\ Layout(hash, i - 1)
    BY <1>2, <1>5, <2>1, LayoutDown
  <2>3. Layout(json, i - 1)' /\ Layout(hash, i - 1)'
    BY <1>8, <2>2 DEF Layout, Aged
  <2> QED BY <1>1, <1>3, <1>8, <1>9, <2>3, NextSlotTurns
<1>10. CASE got[p] # Absent /\ Goto(p, "rename_hash") /\ UNCHANGED idx
  <2>1. /\ \A q \in Stores \ {p} : pc'[q] = pc[q]
        /\ pc'[p] = "rename_hash" /\ idx' = idx
    BY <1>10 DEF FilesInv, TypeOK, Goto
  <2>2. Layout(json, i)' /\ Layout(hash, i)'
    BY <1>5, <1>8 DEF Layout, Aged
  <2>3. i <= committed
    BY <1>6, <1>10
  <2>4. FlushingAt(p)'
    BY <1>3, <1>5, <1>8, <2>1, <2>2, <2>3 DEF FlushingAt, Rotating, Flushing
  <2>5. pc'[p] \in Flushing
    BY <2>1 DEF Flushing
  <2> QED BY <1>2, <2>1, <2>4, <2>5, FlushGoesOn
<1> QED BY <1>7, <1>9, <1>10 DEF LookHash

LEMMA RenameHashTurns ==
    ASSUME FilesInv, Turns, NEW p \in Stores, RenameHash(p), turns'
    PROVE  Turns'
<1>1. pc[p] = "rename_hash" /\ pc[p] \in Rotating
    BY DEF RenameHash, Rotating
<1>2. /\ FlushingAt(p) /\ pc[p] \in Flushing /\ idx[p] \in 1 .. MaxCount - 1
      /\ committed \in Nat /\ hash \in [Slots -> Content]
    BY <1>1, InRotation
<1>3. PICK i \in 1 .. MaxCount - 1 : i = idx[p]
    BY <1>2
<1>4. /\ Layout(json, i) /\ Layout(hash, i) /\ i <= committed
      /\ committed + 1 = seq /\ doc[p] = seq
    BY <1>1, <1>2, <1>3 DEF FlushingAt, Rotating
<1>5. /\ hash' = Renamed(hash, i) /\ json' = json
      /\ Goto(p, "rename_json")
      /\ UNCHANGED <<idx, doc, seq, committed>>
  <2>1. ~FlushFails(p, "FileNotFound") /\ ~IoError(p)
    BY FailureEndsTurns
  <2> QED BY <1>3, <2>1 DEF RenameHash, history
<1>6. /\ \A q \in Stores \ {p} : pc'[q] = pc[q]
      /\ pc'[p] = "rename_json"
    BY <1>5 DEF FilesInv, TypeOK, Goto
<1>7. Layout(hash', i - 1) /\ Layout(json', i)
    BY <1>2, <1>4, <1>5, LayoutMoved
<1>8. Layout(hash, i - 1)' /\ Layout(json, i)'
    BY <1>5, <1>7 DEF Layout, Aged
<1>9. FlushingAt(p)'
    BY <1>3, <1>4, <1>5, <1>6, <1>8 DEF FlushingAt, Rotating, Flushing
<1>10. pc'[p] \in Flushing
    BY <1>6 DEF Flushing
<1> QED BY <1>2, <1>6, <1>9, <1>10, FlushGoesOn

LEMMA RenameJsonTurns ==
    ASSUME FilesInv, Turns, NEW p \in Stores, RenameJson(p), turns'
    PROVE  Turns'
<1>1. pc[p] = "rename_json" /\ pc[p] \in Rotating
    BY DEF RenameJson, Rotating
<1>2. /\ FlushingAt(p) /\ idx[p] \in 1 .. MaxCount - 1
      /\ committed \in Nat /\ json \in [Slots -> Content]
    BY <1>1, InRotation
<1>3. PICK i \in 1 .. MaxCount - 1 : i = idx[p]
    BY <1>2
<1>4. Layout(json, i) /\ Layout(hash, i - 1) /\ i <= committed
    BY <1>1, <1>2, <1>3 DEF FlushingAt, Rotating
<1>5. /\ json' = Renamed(json, i) /\ hash' = hash /\ NextSlot(p)
      /\ UNCHANGED <<doc, seq, committed>>
  <2>1. ~FlushFails(p, "FileNotFound") /\ ~IoError(p)
    BY FailureEndsTurns
  <2> QED BY <1>3, <2>1 DEF RenameJson, history
<1>6. Layout(json', i - 1) /\ Layout(hash', i - 1)
    BY <1>2, <1>4, <1>5, LayoutMoved
<1>7. Layout(json, i - 1)' /\ Layout(hash, i - 1)'
    BY <1>5, <1>6 DEF Layout, Aged
<1> QED BY <1>1, <1>3, <1>5, <1>7, NextSlotTurns

\* What holds of p once the rotation is over.
LEMMA InWriting ==
    ASSUME FilesInv, Turns, NEW p \in Stores, pc[p] \in Flushing \ Rotating
    PROVE  /\ FlushingAt(p) /\ pc[p] \in Flushing
           /\ Layout(json, 0) /\ Layout(hash, 0)
           /\ committed + 1 = seq /\ doc[p] = seq
           /\ committed \in Nat /\ 0 \in Slots
           /\ json \in [Slots -> Content] /\ hash \in [Slots -> Content]
<1>1. FlushingAt(p)
    BY DEF Turns
<1>2. committed \in Nat /\ json \in [Slots -> Content] /\ hash \in [Slots -> Content]
    BY MaxFlushAssumption DEF FilesInv, TypeOK, Docs
<1> QED BY <1>1, <1>2, Bounds DEF FlushingAt

LEMMA OpenJsonTurns ==
    ASSUME FilesInv, Turns, NEW p \in Stores, OpenJson(p), turns'
    PROVE  Turns'
<1>1. pc[p] \in Flushing \ Rotating
    BY DEF OpenJson, Flushing, Rotating
<1>2. /\ json' = [json EXCEPT ![0] = Empty] /\ hash' = hash
      /\ handle' = [handle EXCEPT ![p] = 0] /\ Goto(p, "write_json")
      /\ UNCHANGED <<doc, seq, committed>>
  <2>1. ~IoError(p) /\ ~FlushFails(p, "JsonGeneratorError")
    BY FailureEndsTurns
  <2> QED BY <2>1 DEF OpenJson, history
<1>3. /\ \A q \in Stores \ {p} : pc'[q] = pc[q]
      /\ pc'[p] = "write_json" /\ handle'[p] = 0
    BY <1>2 DEF FilesInv, TypeOK, Goto
<1>4. Layout(json', 0) /\ Layout(hash', 0) /\ json'[0] = Empty
    BY <1>1, <1>2, InWriting, LayoutWritten
<1>5. Layout(json, 0)' /\ Layout(hash, 0)'
    BY <1>2, <1>4 DEF Layout, Aged
<1>6. FlushingAt(p)'
  <2>1. committed' + 1 = seq' /\ doc'[p] = seq'
    BY <1>1, <1>2, InWriting
  <2> QED BY <1>3, <1>4, <1>5, <2>1 DEF FlushingAt, Rotating
<1>7. pc[p] \in Flushing /\ pc'[p] \in Flushing
    BY <1>1, <1>3 DEF Flushing
<1> QED BY <1>3, <1>6, <1>7, FlushGoesOn

LEMMA WriteJsonTurns ==
    ASSUME FilesInv, Turns, NEW p \in Stores, WriteJson(p), turns'
    PROVE  Turns'
<1>1. pc[p] \in Flushing \ Rotating /\ pc[p] = "write_json"
    BY DEF WriteJson, Flushing, Rotating
<1>2. handle[p] = 0 /\ json[0] = Empty /\ doc[p] = seq
    BY <1>1, InWriting DEF FlushingAt
<1>3. Written(p) = {seq} /\ \A c : Put(json, p, c) = [json EXCEPT ![0] = c]
    BY <1>2, Bounds DEF Written, Put
<1>4. /\ json' = [json EXCEPT ![0] = seq] /\ hash' = hash
      /\ Goto(p, "open_hash") /\ UNCHANGED <<doc, seq, committed>>
  <2>1. ~IoError(p)
    BY FailureEndsTurns
  <2> QED BY <1>3, <2>1 DEF WriteJson, history
<1>5. (\A q \in Stores \ {p} : pc'[q] = pc[q]) /\ pc'[p] = "open_hash"
    BY <1>4 DEF FilesInv, TypeOK, Goto
<1>6. Layout(json', 0) /\ Layout(hash', 0) /\ json'[0] = seq
    BY <1>1, <1>4, InWriting, LayoutWritten
<1>7. Layout(json, 0)' /\ Layout(hash, 0)'
    BY <1>4, <1>6 DEF Layout, Aged
<1>8. FlushingAt(p)'
  <2>1. committed' + 1 = seq' /\ doc'[p] = seq' /\ json'[0] = seq'
    BY <1>1, <1>4, <1>6, InWriting
  <2> QED BY <1>5, <1>7, <2>1 DEF FlushingAt, Rotating
<1>9. pc[p] \in Flushing /\ pc'[p] \in Flushing
    BY <1>1, <1>5 DEF Flushing
<1> QED BY <1>5, <1>8, <1>9, FlushGoesOn

LEMMA OpenHashTurns ==
    ASSUME FilesInv, Turns, NEW p \in Stores, OpenHash(p), turns'
    PROVE  Turns'
<1>1. pc[p] \in Flushing \ Rotating /\ pc[p] = "open_hash"
    BY DEF OpenHash, Flushing, Rotating
<1>2. /\ hash' = [hash EXCEPT ![0] = Empty] /\ json' = json
      /\ handle' = [handle EXCEPT ![p] = 0] /\ Goto(p, "write_hash")
      /\ UNCHANGED <<doc, seq, committed>>
  <2>1. ~IoError(p)
    BY FailureEndsTurns
  <2> QED BY <2>1 DEF OpenHash, history
<1>3. /\ \A q \in Stores \ {p} : pc'[q] = pc[q]
      /\ pc'[p] = "write_hash" /\ handle'[p] = 0
    BY <1>2 DEF FilesInv, TypeOK, Goto
<1>4. Layout(json', 0) /\ Layout(hash', 0)
    BY <1>1, <1>2, InWriting, LayoutWritten
<1>5. Layout(json, 0)' /\ Layout(hash, 0)'
    BY <1>2, <1>4 DEF Layout, Aged
<1>6. FlushingAt(p)'
  <2>1. committed' + 1 = seq' /\ doc'[p] = seq' /\ json'[0] = seq'
    BY <1>1, <1>2, InWriting DEF FlushingAt
  <2> QED BY <1>3, <1>5, <2>1 DEF FlushingAt, Rotating
<1>7. pc[p] \in Flushing /\ pc'[p] \in Flushing
    BY <1>1, <1>3 DEF Flushing
<1> QED BY <1>3, <1>6, <1>7, FlushGoesOn

\* The flush returns Ok: its document is the newest.
LEMMA WriteHashTurns ==
    ASSUME FilesInv, Turns, NEW p \in Stores, WriteHash(p), turns'
    PROVE  Turns'
<1>1. pc[p] \in Flushing \ Rotating /\ pc[p] = "write_hash" /\ pc[p] \in Flushing
    BY DEF WriteHash, Flushing, Rotating
<1>2. /\ handle[p] = 0 /\ json[0] = seq /\ doc[p] = seq /\ committed + 1 = seq
      /\ Layout(json, 0) /\ Layout(hash, 0) /\ committed \in Nat /\ 0 \in Slots
      /\ hash \in [Slots -> Content]
    BY <1>1, InWriting DEF FlushingAt
<1>3. /\ hash' = [hash EXCEPT ![0] = seq] /\ json' = json
      /\ Return(p, "idle", "Ok")
      /\ seq' = seq /\ committed' = seq
  <2>1. ~IoError(p)
    BY FailureEndsTurns
  <2>2. Put(hash, p, doc[p]) = [hash EXCEPT ![0] = seq]
    BY <1>2, Bounds DEF Put
  <2> QED BY <1>2, <2>1, <2>2 DEF WriteHash
<1>4. pc'[p] = "idle" /\ \A q \in Stores \ {p} : pc'[q] = pc[q]
    BY <1>3, Returns DEF SameStore, FilesInv
<1>5. \A q \in Stores : pc'[q] \in {"down", "idle"}
    BY <1>1, <1>4 DEF Turns
<1>6. \A q \in Stores : pc'[q] \notin Flushing \cup Loading
    BY <1>5 DEF Flushing, Loading
<1>7. AtRest'
  <2>1. Layout(hash', 0) /\ hash'[0] = committed + 1 /\ Layout(json', 0) /\ json'[0] = committed + 1
    BY <1>2, <1>3, LayoutWritten
  <2>2. \A s \in Slots : Aged(json', s, committed + 1) /\ Aged(hash', s, committed + 1)
    BY <1>2, <2>1, LayoutEnds
  <2> QED BY <1>2, <1>3, <2>2 DEF AtRest, Aged
<1> QED BY <1>6, <1>7 DEF Turns

-----------------------------------------------------------------------------
(* A step of one of the two processes *)

\* Everything a process does to the files and to its store, but for a change
\* of its map.
StoreCall(p) ==
    \/ OpenIgnored(p)
    \/ \E mode \in Modes : Open(p, mode)
    \/ \E id \in Slots : Restore(p, id)
    \/ Step(p)
    \/ pc[p] = "idle" /\ \E m : FlushMap(p, m)
    \/ Crash(p)
    \/ pc[p] \in {"down", "idle"} /\ Return(p, "down", "Ok") /\ UNCHANGED <<disk, history, turns>>

LEMMA NextSplits ==
    ASSUME IInv, Next
    PROVE  \/ StoreCall(App) \/ StoreCall(Tool)
           \/ UNCHANGED <<disk, pc, base, InCall, history, turns>>
<1>1. CASE AppStep
    BY <1>1 DEF AppStep, StoreCall, AppIdle, Flush
<1>2. ASSUME NEW m, AppChange(m) PROVE UNCHANGED <<disk, pc, base, InCall, history, turns>>
    BY <1>2 DEF AppChange
<1>3. CASE Start
    BY <1>3 DEF Start, vars, InCall
<1>4. CASE ToolCrash
    BY <1>4 DEF ToolCrash, StoreCall
<1>5. CASE ToolRun
  <2>1. ASSUME NEW code, Exit(code), pc[Tool] \in {"down", "idle"} PROVE StoreCall(Tool)
    BY <2>1 DEF Exit, StoreCall
  <2>2. ASSUME NEW m, NEW i, ChangeTo(m, i), pc[Tool] = "idle" PROVE StoreCall(Tool)
    BY <2>2 DEF ChangeTo, StoreCall
  <2>3. stage \in {"none", "build"} => pc[Tool] = "down"
    BY DEF IInv, ToolInv, StartInv
  <2>4. CASE Help
    BY <2>1, <2>3, <2>4 DEF Help
  <2>5. CASE BuildFailed \/ BadArguments \/ PrintOnly \/ Flushed \/ \E k \in Keys : GetKey(k)
    BY <2>1, <2>5
    DEF BuildFailed, BadArguments, PrintOnly, ListKeys, PrintSnapshotCount,
        PrintSnapshotMaxCount, GetKvsFilename, GetHashFilename, Flushed, GetKey, Ready
  <2>6. CASE Build
    BY <2>6 DEF Build, StoreCall, Modes
  <2>7. CASE \/ \E k \in Keys : RemoveKey(k)
             \/ \E k \in Keys, v \in Payloads : SetKey(k, v)
             \/ ResetStore \/ CreateTestData \/ Restored
    BY <2>1, <2>2, <2>7 DEF RemoveKey, SetKey, ResetStore, CreateTestData, Restored, Ready
  <2>8. CASE \E id \in Slots : SnapshotRestore(id)
    BY <2>8 DEF SnapshotRestore, StoreCall
  <2>9. CASE ToolCall
    BY <2>9 DEF ToolCall, StoreCall
  <2> QED BY <1>5, <2>4, <2>5, <2>6, <2>7, <2>8, <2>9 DEF ToolRun
<1> QED BY <1>1, <1>2, <1>3, <1>4, <1>5 DEF Next, AppSet, AppRemove, AppReset

LEMMA StoreCallTurns ==
    ASSUME FilesInv, TurnsInv, NEW p \in Stores, StoreCall(p)
    PROVE  TurnsInv'
<1> SUFFICES ASSUME turns' PROVE Turns'
    BY DEF TurnsInv
<1>1. TypeOK
    BY DEF FilesInv
<1>2. turns
    BY DEF StoreCall, OpenIgnored, Open, Restore, StartLoad, Step, ReadJson, ReadHash, LoadFails,
           LookJson, LookHash, LookedOn, RenameHash, RenameJson, OpenJson, WriteJson, OpenHash, WriteHash,
           FlushFails, IoError, FlushMap, Crash
<1>3. Turns
    BY <1>2 DEF TurnsInv
<1>4. CASE OpenIgnored(p) \/ (\E mode \in Modes : Open(p, mode)) \/ \E id \in Slots : Restore(p, id)
    BY <1>1, <1>3, <1>4, OpenIgnoredTurns, OpenTurns, RestoreTurns
<1>5. CASE Step(p)
    BY <1>1, <1>3, <1>5, ReadJsonTurns, ReadHashTurns, LookJsonTurns, LookHashTurns,
       RenameHashTurns, RenameJsonTurns, OpenJsonTurns, WriteJsonTurns, OpenHashTurns,
       WriteHashTurns DEF Step
<1>6. CASE pc[p] = "idle" /\ \E m : FlushMap(p, m)
    BY <1>3, <1>6, FlushMapTurns
<1>7. CASE Crash(p)
    BY <1>1, <1>3, <1>7, CrashTurns
<1>8. CASE /\ pc[p] \in {"down", "idle"} /\ Return(p, "down", "Ok")
           /\ UNCHANGED <<disk, history, turns>>
  <2>1. pc[p] \notin Flushing
    BY <1>8 DEF Flushing
  <2> QED BY <1>1, <1>3, <1>8, <2>1, ReturnTurns
<1> QED BY <1>4, <1>5, <1>6, <1>7, <1>8 DEF StoreCall

LEMMA RestingTurns ==
    ASSUME TurnsInv, UNCHANGED <<disk, pc, base, InCall, history, turns>>
    PROVE  TurnsInv'
BY DEF TurnsInv, Turns, AtRest, FlushingAt, LoadingAt, Layout, Aged, disk, InCall, history

LEMMA TurnsInit == ToolInit => TurnsInv
<1> SUFFICES ASSUME ToolInit PROVE Turns
    BY DEF TurnsInv
<1>1. \A q \in Stores : pc[q] \notin Flushing \cup Loading
    BY DEF ToolInit, Init, Flushing, Loading
<1>2. AtRest
    BY Bounds DEF ToolInit, Init, AtRest, Aged
<1> QED BY <1>1, <1>2 DEF Turns

LEMMA TurnsInvariance == Spec => []TurnsInv
<1>1. IInv /\ TurnsInv /\ [Next]_allVars => TurnsInv'
  <2> SUFFICES ASSUME IInv, TurnsInv, [Next]_allVars PROVE TurnsInv'
    OBVIOUS
  <2>1. CASE UNCHANGED allVars
    BY <2>1, RestingTurns DEF allVars, vars, InCall
  <2>2. CASE Next
    BY <2>2, NextSplits, StoreCallTurns, RestingTurns, StoresOf DEF IInv
  <2> QED BY <2>1, <2>2
<1> QED BY <1>1, TurnsInit, Invariance, PTL DEF Spec

-----------------------------------------------------------------------------
(* What a store is told *)

AtOdds == {"IntegrityCorrupted", "ValidationFailed"}

\* What TurnsBuildOnEachOther says of p in a step.
ToldAt(p) ==
    /\ pc[p] \in Loading /\ call[p].mode # "restore" /\ pc'[p] = "idle" => base'[p] = committed
    /\ result'[p] # result[p] =>
          /\ result'[p] # "ValidationFailed"
          /\ result'[p] = "IntegrityCorrupted" => HashLookFails(p)

LEMMA LoadFailsTold ==
    ASSUME TypeOK, NEW p \in Stores, NEW code, LoadFails(p, code)
    PROVE  /\ result'[p] \in {code, "Ok"}
           /\ call[p].mode # "restore" /\ pc'[p] = "idle" => code = "FileNotFound" /\ base'[p] = 0
<1>1. CASE call[p].mode = "restore" /\ Return(p, "idle", code)
    BY <1>1 DEF TypeOK, Return
<1>2. CASE /\ code = "FileNotFound" /\ Return(p, "idle", "Ok") /\ Remember(p, EmptyMap, 0)
    BY <1>2 DEF TypeOK, Return, Remember
<1>3. CASE Return(p, "down", code)
    BY <1>3 DEF TypeOK, Return, Goto
<1> QED BY <1>1, <1>2, <1>3 DEF LoadFails

LEMMA LoadTold ==
    ASSUME FilesInv, Turns, NEW p \in Stores, pc[p] \in Loading, ReadJson(p) \/ ReadHash(p)
    PROVE  ToldAt(p)
<1>1. /\ TypeOK /\ committed \in Nat /\ committed \in Docs \cup {0}
      /\ call[p].slot \in Slots /\ Docs \subseteq Nat
    BY MaxFlushAssumption DEF FilesInv, TypeOK, Docs
<1>2. AtRest /\ LoadingAt(p)
  <2>1. pc[p] \notin Flushing \cup {"down", "idle"}
    BY DEF Loading, Flushing
  <2>2. \A q \in Stores : pc[q] \notin Flushing
    BY <2>1 DEF Turns
  <2> QED BY <2>2 DEF Turns
<1>3. PICK s \in Slots : s = call[p].slot
    BY <1>1
<1>4. /\ json[s] = IF s < MaxCount /\ s < committed THEN committed - s ELSE Absent
      /\ hash[s] = IF s < MaxCount /\ s < committed THEN committed - s ELSE Absent
    BY <1>2 DEF AtRest, Aged
<1>5. s \in Nat /\ (s < committed => committed - s \in Docs)
    BY <1>1, Bounds, MaxFlushAssumption DEF Docs
<1>6. (json[s] = Absent \/ hash[s] = Absent) /\ s = 0 => committed = 0
    BY <1>1, <1>4, <1>5, Bounds
<1>7. call[p].mode # "restore" => s = 0
    BY <1>2, <1>3 DEF LoadingAt
<1>8. ASSUME LoadFails(p, "FileNotFound"), json[s] = Absent \/ hash[s] = Absent PROVE ToldAt(p)
    BY <1>1, <1>6, <1>7, <1>8, LoadFailsTold DEF ToldAt, AtOdds
<1>9. ASSUME LoadFails(p, "UnmappedError") PROVE ToldAt(p)
    BY <1>1, <1>9, LoadFailsTold DEF ToldAt, AtOdds
<1>10. CASE ReadJson(p)
  <2>1. ASSUME Goto(p, "read_hash"), result' = result PROVE ToldAt(p)
    BY <1>1, <2>1 DEF ToldAt, TypeOK, Goto
  <2> QED BY <1>3, <1>8, <1>9, <1>10, <2>1 DEF ReadJson
<1>11. CASE ReadHash(p)
  <2>1. got[p] = json[s] /\ pc[p] = "read_hash"
    BY <1>2, <1>3, <1>11 DEF LoadingAt, ReadHash
  <2>2. hash[s] # Absent => Matches(got[p], hash[s])
    BY <1>4, <1>5, <2>1 DEF Matches
  <2>3. ASSUME Matches(got[p], hash[s]), Return(p, "idle", "Ok"),
               Remember(p, content[got[p]], got[p])
        PROVE  ToldAt(p)
    <3>1. s = 0 => got[p] = committed
      <4>1. json[s] \in Nat /\ json[s] # Absent
        BY <1>1, <2>1, <2>3, Bounds DEF Matches
      <4>2. json[s] = committed - s
        BY <1>4, <4>1
      <4> QED BY <1>1, <2>1, <4>2
    <3>2. base'[p] = got[p] /\ result'[p] = "Ok"
      BY <1>1, <2>3 DEF Return, Remember, TypeOK
    <3> QED BY <1>7, <3>1, <3>2 DEF ToldAt, AtOdds
  <2> QED BY <1>3, <1>8, <1>9, <1>11, <2>2, <2>3 DEF ReadHash
<1> QED BY <1>10, <1>11

LEMMA FlushTold ==
    ASSUME FilesInv, Turns, NEW p \in Stores, Step(p), pc[p] \in Flushing
    PROVE  ToldAt(p)
<1>1. TypeOK /\ pc[p] \notin Loading
    BY DEF FilesInv, Flushing, Loading
<1>2. SUFFICES ASSUME result'[p] # result[p] PROVE ToldAt(p)
    BY <1>1 DEF ToldAt
<1>3. ASSUME NEW code, FlushFails(p, code) PROVE result'[p] = code
    BY <1>1, <1>3 DEF FlushFails, Return, TypeOK
<1>4. CASE LookHash(p)
  <2>1. pc[p] = "look_hash" /\ pc[p] \in Rotating \ {"rename_json"} /\ pc[p] \in Rotating
    BY <1>4 DEF LookHash, Rotating
  <2>2. FlushingAt(p)
    BY <2>1, InRotation
  <2>3. got[p] # Absent <=> Exists(hash, idx[p] - 1)
    BY <2>1, <2>2, BothOrNone DEF FlushingAt, Exists
  <2>4. FlushFails(p, "IntegrityCorrupted")
    BY <1>2, <1>4 DEF LookHash, LookedOn
  <2>5. PICK c \in Looks(hash, idx[p] - 1) : (got[p] = Absent) # (c = Absent)
    BY <1>2, <1>4 DEF LookHash, LookedOn
  <2>6. "io" \in Faults /\ c = Absent /\ Exists(hash, idx[p] - 1)
    BY <2>3, <2>5 DEF Looks, Exists
  <2>7. HashLookFails(p)
    BY <2>1, <2>3, <2>6 DEF HashLookFails
  <2> QED BY <1>1, <1>3, <1>4, <2>4, <2>7 DEF ToldAt
<1>5. CASE LookJson(p)
    BY <1>2, <1>5 DEF LookJson
<1>6. ASSUME result'[p] \notin AtOdds PROVE ToldAt(p)
    BY <1>1, <1>6 DEF ToldAt, AtOdds
<1>7. CASE RenameHash(p) \/ RenameJson(p) \/ OpenJson(p) \/ WriteJson(p) \/ OpenHash(p)
  <2>1. PICK code \in {"FileNotFound", "UnmappedError", "JsonGeneratorError"} : FlushFails(p, code)
    BY <1>2, <1>7 DEF RenameHash, RenameJson, OpenJson, WriteJson, OpenHash, IoError
  <2> QED BY <1>3, <1>6, <2>1 DEF AtOdds
<1>8. CASE WriteHash(p)
  <2>1. CASE Return(p, "idle", "Ok")
    BY <1>1, <1>6, <2>1 DEF Return, TypeOK, AtOdds
  <2>2. CASE FlushFails(p, "UnmappedError")
    BY <1>3, <1>6, <2>2 DEF AtOdds
  <2> QED BY <1>8, <2>1, <2>2 DEF WriteHash, IoError
<1> QED
    BY <1>1, <1>4, <1>5, <1>7, <1>8 DEF Step, ReadJson, ReadHash, Loading

\* Nothing a process does is a step of the other one.
LEMMA StoreCallFrame ==
    ASSUME FilesInv, NEW p \in Stores, StoreCall(p), NEW q \in Stores \ {p}
    PROVE  pc'[q] = pc[q] /\ result'[q] = result[q]
<1>1. CASE Return(p, "down", "Ok")
    BY <1>1, Returns DEF SameStore, FilesInv
<1> QED
    BY <1>1, OpenIgnoredFiles, OpenFiles, RestoreFiles, StepFiles, FlushMapFiles, CrashFiles
    DEF StoreCall, Frame

LEMMA StoreCallTold ==
    ASSUME FilesInv, Turns, NEW p \in Stores, StoreCall(p)
    PROVE  ToldAt(p)
<1>1. TypeOK
    BY DEF FilesInv
<1>2. ASSUME NEW place \in {"down", "idle"}, NEW code \in {"Ok", "InvalidSnapshotId"},
             Return(p, place, code), place = "down" \/ pc[p] \notin Loading
      PROVE  ToldAt(p)
    BY <1>1, <1>2, Returns DEF ToldAt, AtOdds
<1>3. CASE OpenIgnored(p) \/ Crash(p) \/ (pc[p] \in {"down", "idle"} /\ Return(p, "down", "Ok"))
    BY <1>2, <1>3 DEF OpenIgnored, Crash, Loading
<1>4. ASSUME pc[p] \notin Loading, NEW slot, NEW mode, StartLoad(p, slot, mode) PROVE ToldAt(p)
    BY <1>1, <1>4 DEF StartLoad, ToldAt, AtOdds, TypeOK
<1>5. CASE (\E mode \in Modes : Open(p, mode)) \/ \E id \in Slots : Restore(p, id)
    BY <1>2, <1>4, <1>5 DEF Open, Restore, Loading
<1>6. CASE Step(p)
  <2>1. CASE pc[p] \in Flushing
    BY <1>6, <2>1, FlushTold
  <2>2. CASE pc[p] \notin Flushing
    <3>1. ReadJson(p) \/ ReadHash(p)
      BY <1>6, <2>2
      DEF Step, Flushing, LookJson, LookHash, RenameHash, RenameJson, OpenJson, WriteJson,
          OpenHash, WriteHash
    <3>2. pc[p] \in Loading
      BY <3>1 DEF ReadJson, ReadHash, Loading
    <3> QED BY <3>1, <3>2, LoadTold
  <2> QED BY <2>1, <2>2
<1>7. CASE pc[p] = "idle" /\ \E m : FlushMap(p, m)
    BY <1>1, <1>7 DEF FlushMap, ToldAt, AtOdds, TypeOK, Loading
<1> QED BY <1>3, <1>5, <1>6, <1>7 DEF StoreCall

-----------------------------------------------------------------------------
(* Theorems *)

\* Stores that take turns share one history, for every number of slots and of
\* flushes: the slots hold the documents by age, whoever flushed them.
THEOREM OneHistory == Spec => []TakingTurns
<1>1. IInv /\ TurnsInv => TakingTurns
  <2> SUFFICES ASSUME IInv, TurnsInv, turns, \A p \in Stores : pc[p] \notin Flushing,
                      NEW s \in Slots
               PROVE  IF s < MaxCount /\ s < committed
                      THEN json[s] = committed - s /\ hash[s] = committed - s
                      ELSE ~Exists(json, s) /\ ~Exists(hash, s)
    BY DEF TakingTurns
  <2>1. Aged(json, s, committed) /\ Aged(hash, s, committed)
    BY DEF TurnsInv, Turns, AtRest
  <2> QED BY <2>1 DEF Aged, Exists
<1> QED BY <1>1, Invariance, TurnsInvariance, PTL

\* Stores that take turns build on each other: build returns the newest document
\* any of them flushed, and none is told that the files are at odds but by a look
\* at a hash file that fails.
THEOREM OneAfterAnother == Spec => TurnsBuildOnEachOther
<1> DEFINE Told == \A p \in Stores :
                      /\ turns /\ pc[p] \in Loading /\ call[p].mode # "restore" /\ pc'[p] = "idle"
                            => base'[p] = committed
                      /\ turns /\ result'[p] # result[p]
                            => /\ result'[p] # "ValidationFailed"
                               /\ result'[p] = "IntegrityCorrupted" => HashLookFails(p)
<1>1. IInv /\ TurnsInv /\ [Next]_allVars => [Told]_vars
  <2> SUFFICES ASSUME IInv, TurnsInv, [Next]_allVars, turns, UNCHANGED vars => FALSE,
                      NEW p \in Stores
               PROVE  ToldAt(p)
    BY DEF ToldAt, AtOdds
  <2>1. FilesInv /\ Turns /\ Next
    BY DEF IInv, TurnsInv, allVars
  <2>2. ASSUME NEW q \in Stores, StoreCall(q) PROVE ToldAt(p)
    <3>1. CASE p = q
      BY <2>1, <2>2, <3>1, StoreCallTold
    <3>2. CASE p # q
      <4>1. pc'[p] = pc[p] /\ result'[p] = result[p]
        BY <2>1, <2>2, <3>2, StoreCallFrame
      <4> QED BY <4>1 DEF ToldAt, Loading
    <3> QED BY <3>1, <3>2
  <2>3. CASE UNCHANGED <<disk, pc, base, InCall, history, turns>>
    BY <2>3 DEF ToldAt, InCall, Loading
  <2> QED BY <2>1, <2>2, <2>3, NextSplits, StoresOf
<1>2. QED BY <1>1, Invariance, TurnsInvariance, PTL DEF Spec, TurnsBuildOnEachOther

=============================================================================
