----------------------------- MODULE SharedFiles -----------------------------
(***************************************************************************)
(* Several stores on the files of one instance: an application and         *)
(* kvs_tool, or the two KvsData that two racing builds leave.  The mutex   *)
(* of a store orders the calls of its own threads and nothing else, so a   *)
(* store is a sequential process here, and the system calls of different   *)
(* stores interleave (rust_kvs/json_backend.rs).                           *)
(*                                                                         *)
(* Documents, hashes and files are those of JsonBackend.  Here a load is   *)
(* two reads, the two exists() of the rotation are two looks, a rename can *)
(* find its file gone, and a file that is open is renamed or replaced      *)
(* under the hands of its writer.                                          *)
(***************************************************************************)
EXTENDS Naturals

CONSTANTS
    Stores,
    Keys,
    Missing,    \* a key that is not in a map, a file that is in no slot
    MaxCount,   \* snapshot_max_count, the same for all stores
    MaxFlush,   \* bound: number of flushes a behaviour may begin
    Faults,     \* which of "io", "string", "crash" may happen
    Absent,     \* the file does not exist
    Empty,      \* the file was truncated and not yet written
    Torn        \* the file holds something that is no document

ASSUME MaxCountAssumption == MaxCount \in Nat \ {0}
ASSUME MaxFlushAssumption == MaxFlush \in Nat
ASSUME ContentAssumption ==
    /\ {Absent, Empty, Torn} \cap Nat = {}
    /\ Empty # Absent /\ Torn # Absent /\ Torn # Empty
    /\ Missing \notin Nat

VARIABLES
    json, hash, \* the files of every slot
    pc,         \* where each store is
    map,        \* KvsData.kvs_map
    base,       \* the document that map was last loaded from or flushed to
    call,       \* the load in progress: its slot, and its mode or "restore"
    idx,        \* loop variable of snapshot_rotate
    got,        \* what the first of two reads or looks has found
    doc,        \* the document a flush is writing
    handle,     \* the slot of the file a flush has open
    result,     \* outcome of the last operation
    content,    \* the map each document was generated from
    seq,        \* number of flushes begun
    acked,      \* documents whose flush returned Ok
    committed,  \* the last of them, 0 when there is none
    turns       \* no flush so far overlapped another store's flush or load,
                \* was stopped half way, or did not see a file that was there

disk == <<json, hash>>
history == <<content, seq, acked, committed>>
vars == <<disk, pc, map, base, call, idx, got, doc, handle, result, history, turns>>

Slots == 0 .. MaxCount
Docs == 1 .. MaxFlush
Content == Docs \cup {Absent, Empty, Torn}
EmptyMap == [k \in Keys |-> Missing]
NoCall == [slot |-> 0, mode |-> "Ignored"]

Modes == {"Ignored", "Optional", "Required"}
Loading == {"read_json", "read_hash"}
Flushing == {"look_json", "look_hash", "rename_hash", "rename_json",
             "open_json", "write_json", "open_hash", "write_hash"}
Results == {"Ok", "FileNotFound", "ValidationFailed", "UnmappedError",
            "InvalidSnapshotId", "IntegrityCorrupted", "JsonGeneratorError"}

TypeOK ==
    /\ json \in [Slots -> Content] /\ hash \in [Slots -> Content]
    /\ pc \in [Stores -> {"down", "idle"} \cup Loading \cup Flushing]
    /\ DOMAIN map = Stores /\ DOMAIN content = Docs
    /\ base \in [Stores -> Docs \cup {0}]
    /\ call \in [Stores -> [slot : Slots, mode : Modes \cup {"restore"}]]
    /\ idx \in [Stores -> 0 .. MaxCount - 1]
    /\ got \in [Stores -> Content]
    /\ doc \in [Stores -> Docs \cup {0}]
    /\ handle \in [Stores -> Slots \cup {Missing}]
    /\ result \in [Stores -> Results]
    /\ seq \in 0 .. MaxFlush
    /\ acked \subseteq Docs
    /\ committed \in Docs \cup {0}
    /\ turns \in BOOLEAN

Init ==
    /\ json = [s \in Slots |-> Absent] /\ hash = [s \in Slots |-> Absent]
    /\ pc = [p \in Stores |-> "down"]
    /\ map = [p \in Stores |-> EmptyMap]
    /\ base = [p \in Stores |-> 0]
    /\ call = [p \in Stores |-> NoCall]
    /\ idx = [p \in Stores |-> 0]
    /\ got = [p \in Stores |-> Absent]
    /\ doc = [p \in Stores |-> 0]
    /\ handle = [p \in Stores |-> Missing]
    /\ result = [p \in Stores |-> "Ok"]
    /\ content = [d \in Docs |-> EmptyMap]
    /\ seq = 0 /\ acked = {} /\ committed = 0
    /\ turns = TRUE

-----------------------------------------------------------------------------

Exists(file, s) == file[s] # Absent

\* What a look at a file may find: Path::exists() takes a failed stat for "not
\* there".
Looks(file, s) == {file[s]} \cup (IF "io" \in Faults THEN {Absent} ELSE {})

Goto(p, label) == pc' = [pc EXCEPT ![p] = label]

\* A store other than p is in one of the places.
OtherAt(p, places) == \E q \in Stores \ {p} : pc[q] \in places

\* p returns from the call it is in.
Return(p, place, code) ==
    /\ Goto(p, place)
    /\ call' = [call EXCEPT ![p] = NoCall]
    /\ idx' = [idx EXCEPT ![p] = 0]
    /\ got' = [got EXCEPT ![p] = Absent]
    /\ doc' = [doc EXCEPT ![p] = 0]
    /\ handle' = [handle EXCEPT ![p] = Missing]
    /\ result' = [result EXCEPT ![p] = code]

InCall == <<call, idx, got, doc, handle, result>>

\* p has m, the map of document d, in memory.
Remember(p, m, d) ==
    /\ map' = [map EXCEPT ![p] = m]
    /\ base' = [base EXCEPT ![p] = d]

-----------------------------------------------------------------------------
(* Loading *)

\* build with mode Ignored reads nothing.
OpenIgnored(p) ==
    /\ pc[p] = "down"
    /\ Return(p, "idle", "Ok")
    /\ Remember(p, EmptyMap, 0)
    /\ UNCHANGED <<disk, history, turns>>

StartLoad(p, slot, mode) ==
    /\ Goto(p, "read_json")
    /\ call' = [call EXCEPT ![p] = [slot |-> slot, mode |-> mode]]
    /\ turns' = (turns /\ ~OtherAt(p, Flushing))
    /\ result' = [result EXCEPT ![p] = "Ok"]
    /\ UNCHANGED <<disk, map, base, idx, got, doc, handle, history>>

\* Faulty variant: the oldest slot is loaded.
OpenOldest(p, mode) == pc[p] = "down" /\ mode # "Ignored" /\ StartLoad(p, MaxCount - 1, mode)

Open(p, mode) == pc[p] = "down" /\ mode # "Ignored" /\ StartLoad(p, 0, mode)

\* JsonBackend::snapshot_count as long as the files rest.
SnapshotCount ==
    CHOOSE n \in 0 .. MaxCount :
        /\ \A s \in 0 .. n - 1 : Exists(json, s)
        /\ n < MaxCount => ~Exists(json, n)

\* The answer of snapshot_restore to the ID, before it loads.  While another
\* store moves the files, snapshot_count may come out as anything; a look of its
\* own that fails makes it too low.
Restore(p, id) ==
    /\ pc[p] = "idle"
    /\ \/ /\ id # 0 /\ (SnapshotCount >= id \/ OtherAt(p, Flushing))
          /\ StartLoad(p, id, "restore")
       \/ /\ id = 0 \/ SnapshotCount < id \/ OtherAt(p, Flushing) \/ "io" \in Faults
          /\ Return(p, "idle", "InvalidSnapshotId")
          /\ UNCHANGED <<disk, map, base, history, turns>>

\* A load fails; Optional takes a file that is not there for an empty store.
LoadFails(p, code) ==
    /\ \/ /\ call[p].mode = "restore"
          /\ Return(p, "idle", code)
          /\ UNCHANGED <<map, base>>
       \/ /\ call[p].mode = "Optional" /\ code = "FileNotFound"
          /\ Return(p, "idle", "Ok")
          /\ Remember(p, EmptyMap, 0)
       \/ /\ call[p].mode = "Required" \/ (call[p].mode = "Optional" /\ code # "FileNotFound")
          /\ Return(p, "down", code)
          /\ UNCHANGED <<map, base>>
    /\ UNCHANGED <<disk, history, turns>>

ReadJson(p) ==
    LET c == json[call[p].slot]
    IN  /\ pc[p] = "read_json"
        /\ \/ c = Absent /\ LoadFails(p, "FileNotFound")
           \/ /\ c # Absent
              /\ Goto(p, "read_hash")
              /\ got' = [got EXCEPT ![p] = c]
              /\ UNCHANGED <<disk, map, base, call, idx, doc, handle, result, history, turns>>
           \/ "io" \in Faults /\ LoadFails(p, "UnmappedError")

\* Faulty variant: the hash is read but not compared.
MatchesUnchecked(c, h) == c \in Docs /\ h # Absent

Matches(c, h) == c \in Docs /\ h = c

ReadHash(p) ==
    LET h == hash[call[p].slot]
    IN  /\ pc[p] = "read_hash"
        /\ \/ h = Absent /\ LoadFails(p, "FileNotFound")
           \/ h # Absent /\ ~Matches(got[p], h) /\ LoadFails(p, "ValidationFailed")
           \/ /\ Matches(got[p], h)
              /\ Return(p, "idle", "Ok")
              /\ Remember(p, content[got[p]], got[p])
              /\ UNCHANGED <<disk, history, turns>>
           \/ "io" \in Faults /\ LoadFails(p, "UnmappedError")

-----------------------------------------------------------------------------
(* Flushing *)

\* Faulty variant: the loop of the rotation starts one slot too high.
FlushMapLong(p, m) ==
    /\ seq < MaxFlush
    /\ Goto(p, IF MaxCount > 1 THEN "look_json" ELSE "open_json")
    /\ idx' = [idx EXCEPT ![p] = MaxCount]
    /\ map' = [map EXCEPT ![p] = m]
    /\ doc' = [doc EXCEPT ![p] = seq + 1]
    /\ content' = [content EXCEPT ![seq + 1] = m]
    /\ seq' = seq + 1
    /\ turns' = (turns /\ ~OtherAt(p, Flushing \cup Loading))
    /\ result' = [result EXCEPT ![p] = "Ok"]
    /\ UNCHANGED <<disk, base, call, got, handle, acked, committed>>

\* The map m becomes the map in memory and is flushed.
FlushMap(p, m) ==
    /\ seq < MaxFlush
    /\ Goto(p, IF MaxCount > 1 THEN "look_json" ELSE "open_json")
    /\ idx' = [idx EXCEPT ![p] = MaxCount - 1]
    /\ map' = [map EXCEPT ![p] = m]
    /\ doc' = [doc EXCEPT ![p] = seq + 1]
    /\ content' = [content EXCEPT ![seq + 1] = m]
    /\ seq' = seq + 1
    /\ turns' = (turns /\ ~OtherAt(p, Flushing \cup Loading))
    /\ result' = [result EXCEPT ![p] = "Ok"]
    /\ UNCHANGED <<disk, base, call, got, handle, acked, committed>>

Flush(p) == pc[p] = "idle" /\ FlushMap(p, map[p])

\* An early return of flush; what it did so far stays done.
FlushFails(p, code) ==
    /\ Return(p, "idle", code)
    /\ turns' = FALSE
    /\ UNCHANGED <<map, base, history>>

IoError(p) == "io" \in Faults /\ FlushFails(p, "UnmappedError")

LookJson(p) ==
    /\ pc[p] = "look_json"
    /\ Goto(p, "look_hash")
    /\ \E c \in Looks(json, idx[p] - 1) :
         /\ got' = [got EXCEPT ![p] = c]
         /\ turns' = (turns /\ c = json[idx[p] - 1])
    /\ UNCHANGED <<disk, map, base, call, idx, doc, handle, result, history>>

NextSlot(p) ==
    /\ idx' = [idx EXCEPT ![p] = @ - 1]
    /\ Goto(p, IF idx[p] = 1 THEN "open_json" ELSE "look_json")

\* The rotation goes on, having seen c of the hash file.
LookedOn(p, c) ==
    /\ got' = [got EXCEPT ![p] = Absent]
    /\ turns' = (turns /\ c = hash[idx[p] - 1])
    /\ UNCHANGED <<map, base, call, doc, handle, result, history>>

LookHash(p) ==
    /\ pc[p] = "look_hash"
    /\ \E c \in Looks(hash, idx[p] - 1) :
         \/ got[p] = Absent /\ c = Absent /\ NextSlot(p) /\ LookedOn(p, c)
         \/ /\ got[p] # Absent /\ c # Absent
            /\ Goto(p, "rename_hash")
            /\ LookedOn(p, c)
            /\ UNCHANGED idx
         \/ (got[p] = Absent) # (c = Absent) /\ FlushFails(p, "IntegrityCorrupted")
    /\ UNCHANGED disk

\* The file of the slot below i becomes the file of slot i.
Renamed(file, i) == [file EXCEPT ![i] = file[i - 1], ![i - 1] = Absent]

\* The files stores have open move along, or are in no slot any more.
Carried(i, kind) ==
    [q \in Stores |->
        IF pc[q] # kind \/ handle[q] \notin {i - 1, i} THEN handle[q]
        ELSE IF handle[q] = i THEN Missing ELSE i]

\* Faulty variant: the hash stays where it is.
RenameHashSkipped(p) ==
    /\ pc[p] = "rename_hash"
    /\ Goto(p, "rename_json")
    /\ UNCHANGED <<disk, map, base, call, idx, got, doc, handle, result, history, turns>>

RenameHash(p) ==
    /\ pc[p] = "rename_hash"
    /\ \/ /\ Exists(hash, idx[p] - 1)
          /\ hash' = Renamed(hash, idx[p])
          /\ handle' = Carried(idx[p], "write_hash")
          /\ Goto(p, "rename_json")
          /\ UNCHANGED <<map, base, call, idx, got, doc, result, history, turns>>
       \/ ~Exists(hash, idx[p] - 1) /\ FlushFails(p, "FileNotFound") /\ UNCHANGED hash
       \/ IoError(p) /\ UNCHANGED hash
    /\ UNCHANGED json

RenameJson(p) ==
    /\ pc[p] = "rename_json"
    /\ \/ /\ Exists(json, idx[p] - 1)
          /\ json' = Renamed(json, idx[p])
          /\ handle' = Carried(idx[p], "write_json")
          /\ NextSlot(p)
          /\ UNCHANGED <<map, base, call, got, doc, result, history, turns>>
       \/ ~Exists(json, idx[p] - 1) /\ FlushFails(p, "FileNotFound") /\ UNCHANGED json
       \/ IoError(p) /\ UNCHANGED json
    /\ UNCHANGED hash

\* A number JSON cannot express stops the flush before the first of the writes;
\* fs::write opens, creating or truncating the file of slot 0, and writes.
OpenJson(p) ==
    /\ pc[p] = "open_json"
    /\ \/ /\ json' = [json EXCEPT ![0] = Empty]
          /\ handle' = [handle EXCEPT ![p] = 0]
          /\ Goto(p, "write_json")
          /\ UNCHANGED <<map, base, call, idx, got, doc, result, history, turns>>
       \/ IoError(p) /\ UNCHANGED json
       \/ "string" \in Faults /\ FlushFails(p, "JsonGeneratorError") /\ UNCHANGED json
    /\ UNCHANGED hash

OpenHash(p) ==
    /\ pc[p] = "open_hash"
    /\ \/ /\ hash' = [hash EXCEPT ![0] = Empty]
          /\ handle' = [handle EXCEPT ![p] = 0]
          /\ Goto(p, "write_hash")
          /\ UNCHANGED <<map, base, call, idx, got, doc, result, history, turns>>
       \/ IoError(p) /\ UNCHANGED hash
    /\ UNCHANGED json

\* p puts c in the file it has open, which may be in no slot any more.
Put(file, p, c) ==
    IF handle[p] = Missing THEN file ELSE [file EXCEPT ![handle[p]] = c]

\* What a write of the whole document leaves: of what another store wrote
\* there since the file was opened the end may stick out.
Written(p) ==
    {doc[p]} \cup (IF handle[p] # Missing /\ json[handle[p]] # Empty THEN {Torn} ELSE {})

WriteJson(p) ==
    /\ pc[p] = "write_json"
    /\ \/ /\ \E c \in Written(p) : json' = Put(json, p, c)
          /\ handle' = [handle EXCEPT ![p] = Missing]
          /\ Goto(p, "open_hash")
          /\ UNCHANGED <<map, base, call, idx, got, doc, result, history, turns>>
       \/ IoError(p) /\ json' \in {json, Put(json, p, Torn)}
    /\ UNCHANGED hash

\* Four bytes, whatever another store wrote there.
WriteHash(p) ==
    /\ pc[p] = "write_hash"
    /\ \/ /\ hash' = Put(hash, p, doc[p])
          /\ acked' = acked \cup {doc[p]}
          /\ committed' = doc[p]
          /\ base' = [base EXCEPT ![p] = doc[p]]
          /\ Return(p, "idle", "Ok")
          /\ UNCHANGED <<map, content, seq, turns>>
       \/ IoError(p) /\ hash' \in {hash, Put(hash, p, Torn)}
    /\ UNCHANGED json

-----------------------------------------------------------------------------

\* p's process ends, also in the middle of a flush.
Crash(p) ==
    /\ "crash" \in Faults
    /\ pc[p] # "down"
    /\ Return(p, "down", "Ok")
    /\ Remember(p, EmptyMap, 0)
    /\ turns' = (turns /\ pc[p] \notin Flushing)
    /\ UNCHANGED <<disk, history>>

\* p runs on in the call it is in.
Step(p) ==
    \/ ReadJson(p) \/ ReadHash(p)
    \/ LookJson(p) \/ LookHash(p) \/ RenameHash(p) \/ RenameJson(p)
    \/ OpenJson(p) \/ WriteJson(p) \/ OpenHash(p) \/ WriteHash(p)

-----------------------------------------------------------------------------
(* Properties *)

\* Whatever other stores do to the files meanwhile, a load that succeeds puts
\* in memory the whole map of one flush that returned Ok, never a mixture of
\* two flushes and never one that is being written.
LoadsOnlyAcked ==
    [][\A p \in Stores :
          pc[p] = "read_hash" /\ pc'[p] = "idle" /\ result'[p] = "Ok" /\ base'[p] # 0 =>
              base'[p] \in acked /\ map'[p] = content[base'[p]]]_vars

\* Stores that take turns and see the files that are there share one history:
\* the slots hold the documents they flushed, whoever flushed them, newest first,
\* and no document leaves the disk before MaxCount newer ones are on it.
TakingTurns ==
    turns /\ (\A p \in Stores : pc[p] \notin Flushing) =>
        \A s \in Slots :
            IF s < MaxCount /\ s < committed
            THEN json[s] = committed - s /\ hash[s] = committed - s
            ELSE ~Exists(json, s) /\ ~Exists(hash, s)

\* The look of p's rotation at the hash file can fail here: the file is there.
HashLookFails(p) ==
    /\ "io" \in Faults /\ pc[p] = "look_hash"
    /\ got[p] # Absent /\ Exists(hash, idx[p] - 1)

\* Stores that take turns build on each other: build gives a store the newest
\* document any of them flushed, no load finds the files of a slot at odds, and
\* a rotation does only when it looks at a hash file that is there and the look
\* fails.
TurnsBuildOnEachOther ==
    [][\A p \in Stores :
          /\ turns /\ pc[p] \in Loading /\ call[p].mode # "restore" /\ pc'[p] = "idle"
                => base'[p] = committed
          /\ turns /\ result'[p] # result[p]
                => /\ result'[p] # "ValidationFailed"
                   /\ result'[p] = "IntegrityCorrupted" => HashLookFails(p)]_vars

=============================================================================
