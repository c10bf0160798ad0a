---------------------------- MODULE CppKvsProofs ----------------------------
(***************************************************************************)
(* Theorems about CppKvs for every set of threads, every number of slots   *)
(* and documents and every set of faults.  What they say of the files      *)
(* needs one thread at most to call flush: with two the files of slot 0    *)
(* may mix, as the run that looks for that shows.                          *)
(***************************************************************************)
EXTENDS CppKvs, TLAPS

OneFlusher == \A a, b \in Flushers : a = b

-----------------------------------------------------------------------------
(* The inductive invariant *)

Renaming == {"rename_hash", "rename_json"}
Putting == {"open_json", "write_json", "open_hash", "write_hash"}
Flushing == {"rotate"} \cup Renaming \cup Putting

\* Where a thread is and what it has: only a flush has a document, and the loop
\* of a rotation has a slot to move.
ThreadInv ==
    \A t \in Threads :
        /\ pc[t] \in Flushing \cup {"serialize"} => t \in Flushers
        /\ pc[t] = "serialize" => seq < MaxFlush
        /\ pc[t] \in Flushing => doc[t] \in Docs
        /\ pc[t] \in Renaming => idx > 0

BaseInv == TypeOK /\ ThreadInv

\* Acknowledged documents are numbered up to the newest one; the document of
\* the running flush is the newest of all, and a rotation has begun for it.
AckInv ==
    /\ \A d \in acked : d <= committed
    /\ committed \in acked \cup {0}
    /\ committed <= seq
    /\ \A t \in Threads :
         /\ pc[t] \in Flushing => doc[t] = seq /\ committed < seq
         /\ pc[t] \in Renaming \cup Putting => attempts > 0

\* The JSON files are in the order of their flushes, newest first.
OrderInv ==
    /\ \A s, u \in Slots :
         s < u /\ json[s] \in Docs /\ json[u] \in Docs => json[u] < json[s]
    /\ \A s \in Slots : json[s] \in Docs => json[s] <= seq

\* Until its JSON file is written the document of the running flush is not on
\* disk, from then on it is in slot 0; the file it writes is that of slot 0.
InFlightInv ==
    \A t \in Threads :
        /\ pc[t] \in {"rotate", "open_json", "write_json"} \cup Renaming =>
             \A s \in Slots : json[s] # seq
        /\ pc[t] = "write_json" => json[0] = Empty
        /\ pc[t] \in {"open_hash", "write_hash"} => json[0] = seq
        /\ pc[t] \in {"write_json", "write_hash"} => handle[t] = 0

\* The slot a rotation fills next is vacant unless it is the last one, and so
\* is slot 0 when the rotation has ended.
VacantInv ==
    \A t \in Threads :
        /\ pc[t] \in Renaming /\ idx < MaxCount => json[idx] = Absent
        /\ pc[t] = "open_json" => json[0] = Absent

\* Where the last acknowledged document is: it moves up by at most one slot in
\* each rotation.
SurviveInv ==
    committed > 0 /\ attempts <= MaxCount =>
        \E s \in 0 .. attempts :
            /\ json[s] = committed
            /\ \A t \in Threads : pc[t] \in Renaming /\ s <= idx => s < attempts

\* No file of a snapshot changes between the two reads of snapshot_restore.
ReadInv ==
    \A t \in Threads :
        pc[t] = "check_hash" => read.slot > 0 /\ json[read.slot] = read.json

DiskInv ==
    /\ AckInv
    /\ OrderInv
    /\ InFlightInv
    /\ VacantInv
    /\ SurviveInv
    /\ ReadInv
    /\ CommittedDurable

IInv == BaseInv /\ DiskInv

-----------------------------------------------------------------------------
(* The threads and the mutex *)

Labels == {"idle"} \cup Locked \cup Unlocked

ThreadTypes ==
    /\ owner \in Threads \cup {Nobody}
    /\ pc \in [Threads -> Labels]
    /\ \A t \in Threads : pc[t] \in Locked <=> owner = t
    /\ result \in [Threads -> Results]
    /\ doc \in [Threads -> Docs \cup {0}]
    /\ handle \in [Threads -> Slots \cup {Missing}]

DataTypes ==
    /\ json \in [Slots -> Content] /\ hash \in [Slots -> Content]
    /\ running \in BOOLEAN
    /\ map \in Maps /\ defaults \in Maps
    /\ idx \in Slots
    /\ read \in [slot : Slots, json : Content]
    /\ seq \in 0 .. MaxFlush
    /\ content \in [Docs -> Maps]
    /\ acked \subseteq Docs
    /\ committed \in Docs \cup {0}
    /\ attempts \in Nat

LEMMA TypeParts == TypeOK <=> ThreadTypes /\ DataTypes
  BY DEF TypeOK, ThreadTypes, DataTypes, Labels

LEMMA NextParts == ThreadTypes' /\ DataTypes' /\ ThreadInv' => BaseInv'
  BY DEF BaseInv, TypeOK, ThreadTypes, DataTypes, Labels

\* The numbers of slots and documents.
LEMMA Numbers ==
    /\ MaxCount \in Nat /\ MaxCount > 0 /\ MaxFlush \in Nat
    /\ 0 \in Slots /\ MaxCount \in Slots /\ Slots \subseteq Nat
    /\ Docs \subseteq Nat /\ 0 \notin Docs
    /\ \A n \in 0 .. MaxFlush : n < MaxFlush => n + 1 \in Docs /\ n + 1 \in 0 .. MaxFlush
    /\ \A n \in Slots : n > 0 => n - 1 \in Slots
    /\ EmptyMap \in Maps
    /\ NothingRead \in [slot : Slots, json : Content]
    /\ Absent \notin Docs /\ Empty \notin Docs /\ Torn \notin Docs
<1>1. MaxCount \in Nat /\ MaxCount > 0 /\ MaxFlush \in Nat
      BY MaxCountAssumption, MaxFlushAssumption
<1>2. EmptyMap \in Maps BY DEF EmptyMap, Maps
<1>3. 0 \in Slots BY <1>1 DEF Slots
<1>4. NothingRead \in [slot : Slots, json : Content]
      BY <1>3 DEF NothingRead, Content
<1>5. Absent \notin Docs /\ Empty \notin Docs /\ Torn \notin Docs
      BY <1>1, ContentAssumption DEF Docs
<1>6. QED BY <1>1, <1>2, <1>3, <1>4, <1>5 DEF Slots, Docs

\* A call returns and gives the mutex back when it has it.
LEMMA ReturnTypes ==
    ASSUME ThreadTypes, NEW t \in Threads, NEW code \in Results, Return(t, code),
           IF pc[t] \in Locked THEN owner' = Nobody ELSE UNCHANGED owner
    PROVE  ThreadTypes'
<1> USE DEF ThreadTypes, Return
<1>1. "idle" \in Labels /\ "idle" \notin Locked BY DEF Labels, Locked, Writing
<1>2. pc' \in [Threads -> Labels] BY <1>1
<1>3. \A u \in Threads : pc'[u] \in Locked <=> owner' = u
      BY <1>1, NobodyAssumption
<1>4. QED BY <1>2, <1>3

LEMMA ReturnInv ==
    ASSUME BaseInv, NEW t \in Threads, NEW code, Return(t, code), UNCHANGED <<seq, idx>>
    PROVE  ThreadInv'
<1>1. pc \in [Threads -> Labels] /\ doc \in [Threads -> Docs \cup {0}]
      BY TypeParts DEF BaseInv, ThreadTypes
<1>2. \A u \in Threads : pc'[u] = "idle" \/ (pc'[u] = pc[u] /\ doc'[u] = doc[u])
      BY <1>1 DEF Return
<1>3. "idle" \notin Flushing \cup {"serialize"} /\ "idle" \notin Renaming
      BY DEF Flushing, Renaming, Putting
<1>4. QED BY <1>2, <1>3 DEF BaseInv, ThreadInv

\* A thread goes on in its call; it takes, keeps or gives back the mutex.
LEMMA GotoTypes ==
    ASSUME ThreadTypes, NEW t \in Threads, NEW label \in Labels, Goto(t, label),
           \/ (pc[t] \in Locked <=> label \in Locked) /\ UNCHANGED owner
           \/ owner = Nobody /\ owner' = t /\ label \in Locked
           \/ pc[t] \in Locked /\ owner' = Nobody /\ label \notin Locked,
           doc' \in [Threads -> Docs \cup {0}],
           handle' \in [Threads -> Slots \cup {Missing}]
    PROVE  ThreadTypes'
<1> USE DEF ThreadTypes, Goto
<1>1. pc' \in [Threads -> Labels] OBVIOUS
<1>2. \A u \in Threads : pc'[u] \in Locked <=> owner' = u
      BY NobodyAssumption
<1>3. "Ok" \in Results BY DEF Results
<1>4. QED BY <1>1, <1>2, <1>3

LEMMA GotoInv ==
    ASSUME BaseInv, NEW t \in Threads, NEW label \in Labels, Goto(t, label),
           \A u \in Threads : u # t => doc'[u] = doc[u],
           \A u \in Threads : u # t /\ pc[u] = "serialize" => seq' = seq,
           \A u \in Threads : u # t /\ pc[u] \in Renaming => idx' = idx,
           label \in Flushing \cup {"serialize"} => t \in Flushers,
           label = "serialize" => seq' < MaxFlush,
           label \in Flushing => doc'[t] \in Docs,
           label \in Renaming => idx' > 0
    PROVE  ThreadInv'
<1>1. pc \in [Threads -> Labels] BY TypeParts DEF BaseInv, ThreadTypes
<1>2. \A u \in Threads : pc'[u] = IF u = t THEN label ELSE pc[u]
      BY <1>1 DEF Goto
<1>3. QED BY <1>2 DEF BaseInv, ThreadInv

LEMMA CallBase ==
    ASSUME BaseInv, NEW t \in Threads, NEW c \in Calls, Call(t, c)
    PROVE  BaseInv'
<1>1. ThreadTypes /\ DataTypes BY TypeParts DEF BaseInv
<1>2. /\ pc[t] \notin Locked /\ c \in Locked /\ c \in Labels /\ c \notin Flushing
      BY DEF Call, Calls, Locked, Writing, Labels, Flushing, Renaming, Putting
<1>3. DataTypes' BY <1>1 DEF Call, DataTypes, disk, memory, history
<1>4. CASE owner = Nobody /\ owner' = t /\ Goto(t, c) /\ UNCHANGED <<doc, handle>>
  <2>1. ThreadTypes' BY <1>1, <1>2, <1>4, GotoTypes DEF ThreadTypes
  <2>2. ThreadInv'
        BY <1>2, <1>4, GotoInv, Numbers DEF Call, history, Renaming, Flushing
  <2>3. QED BY <1>3, <2>1, <2>2, NextParts
<1>5. CASE owner # Nobody /\ Return(t, "MutexLockFailed") /\ UNCHANGED owner
  <2>1. "MutexLockFailed" \in Results BY DEF Results
  <2>2. ThreadTypes' BY <1>1, <1>2, <1>5, <2>1, ReturnTypes
  <2>3. ThreadInv' BY <1>5, ReturnInv DEF Call, history
  <2>4. QED BY <1>3, <2>2, <2>3, NextParts
<1>6. QED BY <1>4, <1>5 DEF Call, TryLock

\* The body of a call that holds the mutex.
LEMMA BodyBase ==
    ASSUME BaseInv, NEW t \in Threads, NEW label \in Locked, NEW m \in Maps,
           NEW code \in Results, Body(t, label, m, code)
    PROVE  BaseInv'
<1> USE DEF Body, Leave
<1>1. ThreadTypes /\ DataTypes BY TypeParts DEF BaseInv
<1>2. ThreadTypes' BY <1>1, ReturnTypes
<1>3. ThreadInv' BY ReturnInv DEF history
<1>4. DataTypes' BY <1>1, Numbers DEF DataTypes, disk, history
<1>5. QED BY <1>2, <1>3, <1>4, NextParts

\* What may come out of reading a file and its hash.
LEMMA OpenJsonFacts ==
    ASSUME NEW data, NEW sum, NEW need
    PROVE  /\ OpenJsonResults(data, sum, need) \subseteq Results \cup {"NoFile"}
           /\ need = "Required" => "NoFile" \notin OpenJsonResults(data, sum, need)
           /\ "Ok" \in OpenJsonResults(data, sum, need) =>
                data = sum /\ data \notin {Absent, Empty, Torn}
  BY DEF OpenJsonResults, Results, Whole

LEMMA DataCallBase ==
    ASSUME BaseInv, NEW t \in Threads,
           \/ \E k \in Keys : GetValue(t, k) \/ RemoveKey(t, k) \/ ResetKey(t, k)
           \/ \E k \in Keys, v \in Values : SetValue(t, k, v)
           \/ Reset(t)
           \/ CheckHash(t)
    PROVE  BaseInv'
<1>1. /\ map \in Maps /\ EmptyMap \in Maps /\ content \in [Docs -> Maps]
      /\ read.json \in Content
      BY Numbers, TypeParts DEF BaseInv, DataTypes
<1>2. \A k \in Keys, v \in Values \cup {Missing} : [map EXCEPT ![k] = v] \in Maps
      BY <1>1 DEF Maps
<1>3. /\ {"get", "set", "remove", "reset", "reset_key", "check_hash"} \subseteq Locked
      /\ {"Ok", "KeyNotFound", "KeyDefaultNotFound"} \subseteq Results
      BY DEF Locked, Writing, Results
<1>4. ASSUME NEW k \in Keys, GetValue(t, k) PROVE BaseInv'
      BY <1>1, <1>3, <1>4, BodyBase DEF GetValue
<1>5. ASSUME NEW k \in Keys, RemoveKey(t, k) PROVE BaseInv'
  <2> DEFINE m == [map EXCEPT ![k] = Missing]
             code == IF Has(map, k) THEN "Ok" ELSE "KeyNotFound"
  <2>1. m \in Maps /\ code \in Results BY <1>2, <1>3
  <2>2. Body(t, "remove", m, code) BY <1>5 DEF RemoveKey
  <2> HIDE DEF m, code
  <2>3. QED BY <1>3, <2>1, <2>2, BodyBase
<1>6. ASSUME NEW k \in Keys, ResetKey(t, k) PROVE BaseInv'
  <2> DEFINE m == [map EXCEPT ![k] = Missing]
  <2>1. m \in Maps BY <1>2
  <2>2. Body(t, "reset_key", m, "Ok") \/ Body(t, "reset_key", map, "KeyDefaultNotFound")
        BY <1>6 DEF ResetKey
  <2> HIDE DEF m
  <2>3. QED BY <1>1, <1>3, <2>1, <2>2, BodyBase
<1>7. ASSUME NEW k \in Keys, NEW v \in Values, SetValue(t, k, v) PROVE BaseInv'
  <2> DEFINE m == [map EXCEPT ![k] = v]
  <2>1. m \in Maps BY <1>2
  <2>2. Body(t, "set", m, "Ok") BY <1>7 DEF SetValue
  <2> HIDE DEF m
  <2>3. QED BY <1>3, <2>1, <2>2, BodyBase
<1>8. CASE Reset(t) BY <1>1, <1>3, <1>8, BodyBase DEF Reset
<1>9. CASE CheckHash(t)
  <2>1. PICK r \in OpenJsonResults(read.json, hash[read.slot], "Required") :
          Body(t, "check_hash", IF r = "Ok" THEN content[read.json] ELSE map, r)
        BY <1>9 DEF CheckHash
  <2>2. r \in Results /\ (r = "Ok" => read.json \in Docs)
        BY <1>1, <2>1, OpenJsonFacts DEF Content
  <2>3. (IF r = "Ok" THEN content[read.json] ELSE map) \in Maps BY <1>1, <2>2
  <2>4. QED BY <1>3, <2>1, <2>2, <2>3, BodyBase
<1>10. QED BY <1>4, <1>5, <1>6, <1>7, <1>8, <1>9

LEMMA IsValueDefaultBase ==
    ASSUME BaseInv, NEW t \in Threads, NEW k \in Keys, IsValueDefault(t, k)
    PROVE  BaseInv'
<1> USE DEF IsValueDefault
<1>1. ThreadTypes /\ DataTypes BY TypeParts DEF BaseInv
<1>2. PICK answer \in {"Default", "Changed", "KeyNotFound"} : Return(t, answer) OBVIOUS
<1>3. answer \in Results /\ pc[t] \notin Locked BY DEF Results, Locked, Writing
<1>4. ThreadTypes' BY <1>1, <1>2, <1>3, ReturnTypes
<1>5. ThreadInv' BY <1>2, ReturnInv DEF history
<1>6. DataTypes' BY <1>1 DEF DataTypes, disk, memory, history
<1>7. QED BY <1>4, <1>5, <1>6, NextParts

LEMMA OpenBase ==
    ASSUME BaseInv, NEW t \in Threads, NEW d \in Needs, NEW n \in Needs, Open(t, d, n)
    PROVE  BaseInv'
<1> USE DEF Open
<1>1. ThreadTypes /\ DataTypes BY TypeParts DEF BaseInv
<1>2. PICK e \in OpenJsonResults(DefaultsFile, DefaultsFile, d),
           r \in OpenJsonResults(json[0], hash[0], n) :
         IF {e, r} \subseteq {"Ok", "NoFile"}
         THEN /\ running' = TRUE
              /\ map' = IF r = "Ok" THEN content[json[0]] ELSE EmptyMap
              /\ defaults' = IF e = "Ok" THEN DefaultsFile ELSE EmptyMap
              /\ result' = [result EXCEPT ![t] = "Ok"]
         ELSE /\ result' = [result EXCEPT ![t] = IF e \in {"Ok", "NoFile"} THEN r ELSE e]
              /\ UNCHANGED <<running, memory>>
      OBVIOUS
<1>3. e \in Results \cup {"NoFile"} /\ r \in Results \cup {"NoFile"}
      BY <1>2, OpenJsonFacts
<1>4. (r = "Ok" => json[0] \in Docs) /\ (e = "Ok" => DefaultsFile \in Maps)
      BY <1>1, <1>2, OpenJsonFacts, DefaultsFileAssumption, Numbers
      DEF DataTypes, Content
<1>5. result' \in [Threads -> Results]
      BY <1>1, <1>2, <1>3 DEF ThreadTypes, Results
<1>6. running' \in BOOLEAN /\ map' \in Maps /\ defaults' \in Maps
  <2>1. /\ EmptyMap \in Maps /\ running \in BOOLEAN /\ map \in Maps /\ defaults \in Maps
        /\ r = "Ok" => content[json[0]] \in Maps
        BY <1>1, <1>4, Numbers DEF DataTypes
  <2>2. CASE /\ running' = TRUE
             /\ map' = IF r = "Ok" THEN content[json[0]] ELSE EmptyMap
             /\ defaults' = IF e = "Ok" THEN DefaultsFile ELSE EmptyMap
        BY <1>4, <2>1, <2>2
  <2>3. CASE UNCHANGED <<running, memory>> BY <2>1, <2>3 DEF memory
  <2>4. QED BY <1>2, <2>2, <2>3
<1>7. ThreadTypes' BY <1>1, <1>5 DEF ThreadTypes
<1>8. DataTypes' BY <1>1, <1>6 DEF DataTypes, disk, history
<1>9. ThreadInv' BY DEF BaseInv, ThreadInv, history
<1>10. QED BY <1>7, <1>8, <1>9, NextParts

LEMMA RestoreBase ==
    ASSUME BaseInv, NEW t \in Threads, NEW id \in Slots, Restore(t, id)
    PROVE  BaseInv'
<1> USE DEF Restore
<1>1. ThreadTypes /\ DataTypes BY TypeParts DEF BaseInv
<1>2. /\ pc[t] \in Locked /\ "check_hash" \in Locked /\ "check_hash" \in Labels
      /\ "check_hash" \notin Flushing \cup {"serialize"}
      /\ {"InvalidSnapshotId", "KvsFileReadError", "PhysicalStorageFailure"} \subseteq Results
      BY DEF Locked, Writing, Labels, Flushing, Renaming, Putting, Results
<1>3. CASE /\ \E code \in {"InvalidSnapshotId", "KvsFileReadError", "PhysicalStorageFailure"} :
                 Leave(t, code)
           /\ UNCHANGED read
  <2>1. PICK code \in Results : Leave(t, code) BY <1>2, <1>3
  <2>2. ThreadTypes' BY <1>1, <1>2, <2>1, ReturnTypes DEF Leave
  <2>3. ThreadInv' BY <2>1, ReturnInv DEF Leave, history
  <2>4. DataTypes' BY <1>1, <1>3 DEF DataTypes, disk, memory, history
  <2>5. QED BY <2>2, <2>3, <2>4, NextParts
<1>4. CASE /\ read' = [slot |-> id, json |-> json[id]]
           /\ Goto(t, "check_hash")
           /\ UNCHANGED <<owner, doc, handle>>
  <2>1. ThreadTypes' BY <1>1, <1>2, <1>4, GotoTypes DEF ThreadTypes
  <2>2. ThreadInv' BY <1>2, <1>4, GotoInv DEF history, Flushing
  <2>3. DataTypes' BY <1>1, <1>4 DEF DataTypes, disk, memory, history
  <2>4. QED BY <2>1, <2>2, <2>3, NextParts
<1>5. QED BY <1>3, <1>4

LEMMA CrashBase ==
    ASSUME BaseInv, Crash
    PROVE  BaseInv'
<1> USE DEF Crash
<1>1. ThreadTypes /\ DataTypes BY TypeParts DEF BaseInv
<1>2. /\ "idle" \in Labels /\ "idle" \notin Locked /\ "Ok" \in Results
      /\ "idle" \notin Flushing \cup {"serialize"}
      BY DEF Labels, Locked, Writing, Results, Flushing, Renaming, Putting
<1>3. ThreadTypes' BY <1>2, NobodyAssumption DEF ThreadTypes
<1>4. ThreadInv' BY <1>2 DEF ThreadInv, Flushing
<1>5. DataTypes' BY <1>1, Numbers DEF DataTypes, disk, history
<1>6. QED BY <1>3, <1>4, <1>5, NextParts

-----------------------------------------------------------------------------
(* The steps of flush *)

\* A flush that stops with an error, whatever it left in the files.
LEMMA FailBase ==
    ASSUME BaseInv, NEW t \in Threads, NEW code \in Results, Return(t, code),
           IF pc[t] \in Locked THEN owner' = Nobody ELSE UNCHANGED owner,
           UNCHANGED <<seq, idx>>, DataTypes'
    PROVE  BaseInv'
<1>1. ThreadTypes BY TypeParts DEF BaseInv
<1>2. ThreadTypes' BY <1>1, ReturnTypes
<1>3. ThreadInv' BY ReturnInv
<1>4. QED BY <1>2, <1>3, NextParts

\* Where the steps of flush are with respect to the mutex.
LEMMA LabelFacts ==
    /\ Renaming \cup {"serialize"} \subseteq Locked
    /\ \A p \in Putting \cup {"rotate"} : p \notin Locked
    /\ Flushing \cup {"serialize"} \subseteq Labels
    /\ {"PhysicalStorageFailure", "JsonGeneratorError", "MutexLockFailed", "Ok"} \subseteq Results
  BY DEF Renaming, Putting, Flushing, Locked, Unlocked, Writing, Labels, Results

LEMMA SerializeBase ==
    ASSUME BaseInv, NEW t \in Threads, Serialize(t)
    PROVE  BaseInv'
<1> USE DEF Serialize
<1>1. ThreadTypes /\ DataTypes BY TypeParts DEF BaseInv
<1>2. /\ pc[t] \in Locked /\ "rotate" \notin Locked /\ "rotate" \in Labels
      /\ "rotate" \notin Renaming /\ "JsonGeneratorError" \in Results
      BY LabelFacts DEF Renaming, Flushing
<1>3. CASE /\ seq' = seq + 1
           /\ doc' = [doc EXCEPT ![t] = seq + 1]
           /\ content' = [content EXCEPT ![seq + 1] = map]
           /\ Goto(t, "rotate")
           /\ owner' = Nobody
           /\ UNCHANGED <<handle, acked, committed, attempts>>
  <2>1. seq < MaxFlush /\ t \in Flushers BY DEF BaseInv, ThreadInv
  <2>2. seq + 1 \in Docs /\ seq + 1 \in 0 .. MaxFlush
        BY <1>1, <2>1, Numbers DEF DataTypes
  <2>3. doc' \in [Threads -> Docs \cup {0}] /\ doc'[t] \in Docs
        BY <1>1, <1>3, <2>2 DEF ThreadTypes
  <2>4. ThreadTypes' BY <1>1, <1>2, <1>3, <2>3, GotoTypes DEF ThreadTypes
  <2>5. \A u \in Threads : pc[u] = "serialize" => u = t
        BY <1>1, LabelFacts DEF ThreadTypes
  <2>6. \A u \in Threads : u # t => doc'[u] = doc[u]
        BY <1>1, <1>3 DEF ThreadTypes
  <2>7. ThreadInv' BY <1>2, <1>3, <2>1, <2>3, <2>5, <2>6, GotoInv
  <2>8. DataTypes' BY <1>1, <1>3, <2>2 DEF DataTypes, disk, memory
  <2>9. QED BY <2>4, <2>7, <2>8, NextParts
<1>4. CASE Leave(t, "JsonGeneratorError") /\ UNCHANGED history
  <2>1. DataTypes' BY <1>1, <1>4 DEF DataTypes, disk, memory, history
  <2>2. QED BY <1>2, <1>4, <2>1, FailBase DEF Leave, history
<1>5. QED BY <1>3, <1>4

LEMMA RotateBase ==
    ASSUME BaseInv, NEW t \in Threads, Rotate(t)
    PROVE  BaseInv'
<1> USE DEF Rotate
<1>1. ThreadTypes /\ DataTypes BY TypeParts DEF BaseInv
<1>2. /\ pc[t] \notin Locked /\ "rename_hash" \in Locked /\ "rename_hash" \in Labels
      /\ "rename_hash" \in Flushing /\ "MutexLockFailed" \in Results /\ pc[t] \in Flushing
      BY LabelFacts DEF Renaming, Flushing, Putting
<1>3. DataTypes' BY <1>1, Numbers DEF DataTypes, disk, memory
<1>4. CASE owner = Nobody /\ owner' = t /\ Goto(t, "rename_hash") /\ UNCHANGED <<doc, handle>>
  <2>1. ThreadTypes' BY <1>1, <1>2, <1>4, GotoTypes DEF ThreadTypes
  <2>2. \A u \in Threads : pc[u] \notin Renaming
        BY <1>1, <1>4, LabelFacts, NobodyAssumption DEF ThreadTypes
  <2>3. idx' > 0 /\ t \in Flushers /\ doc'[t] \in Docs
        BY <1>2, <1>4, Numbers DEF BaseInv, ThreadInv
  <2>4. ThreadInv' BY <1>2, <1>4, <2>2, <2>3, GotoInv
  <2>5. QED BY <1>3, <2>1, <2>4, NextParts
<1>5. CASE owner # Nobody /\ Return(t, "MutexLockFailed") /\ UNCHANGED owner
      BY <1>2, <1>3, <1>5, FailBase
<1>6. QED BY <1>4, <1>5 DEF TryLock

\* Renaming a slot up, as a function.
LEMMA RenamedIs ==
    ASSUME BaseInv, NEW file \in [Slots -> Content], idx > 0
    PROVE  /\ idx \in Slots /\ idx - 1 \in Slots
           /\ Renamed(file) \in [Slots -> Content]
           /\ IF file[idx - 1] = Absent THEN Renamed(file) = file
              ELSE \A s \in Slots :
                     Renamed(file)[s] = IF s = idx - 1 THEN Absent
                                        ELSE IF s = idx THEN file[idx - 1] ELSE file[s]
<1>1. idx \in Slots /\ idx - 1 \in Slots /\ idx - 1 # idx
  <2>1. idx \in Slots BY TypeParts DEF BaseInv, DataTypes
  <2>2. idx \in Nat /\ idx - 1 \in Slots BY <2>1, Numbers
  <2>3. QED BY <2>1, <2>2
<1>2. Absent \in Content BY DEF Content
<1>3. QED BY <1>1, <1>2 DEF Renamed

\* The open files of the other threads.
LEMMA CarriedIs ==
    ASSUME BaseInv, NEW file, NEW kind, idx > 0
    PROVE  /\ Carried(file, kind) \in [Threads -> Slots \cup {Missing}]
           /\ \A u \in Threads : pc[u] # kind => Carried(file, kind)[u] = handle[u]
<1>1. handle \in [Threads -> Slots \cup {Missing}] /\ idx \in Slots
      BY TypeParts DEF BaseInv, ThreadTypes, DataTypes
<1>2. QED BY <1>1 DEF Carried

LEMMA RenameHashBase ==
    ASSUME BaseInv, NEW t \in Threads, RenameHash(t)
    PROVE  BaseInv'
<1> USE DEF RenameHash
<1>1. ThreadTypes /\ DataTypes BY TypeParts DEF BaseInv
<1>2. /\ pc[t] \in Locked /\ pc[t] \in Renaming /\ pc[t] \in Flushing
      /\ "rename_json" \in Locked /\ "rename_json" \in Labels /\ "rename_json" \in Flushing
      BY LabelFacts DEF Renaming, Flushing
<1>3. idx > 0 /\ t \in Flushers /\ doc[t] \in Docs BY <1>2 DEF BaseInv, ThreadInv
<1>4. CASE /\ hash' = Renamed(hash)
           /\ handle' = Carried(hash, "write_hash")
           /\ Goto(t, "rename_json")
           /\ UNCHANGED <<owner, doc>>
  <2>1. hash' \in [Slots -> Content] /\ handle' \in [Threads -> Slots \cup {Missing}]
        BY <1>1, <1>3, <1>4, RenamedIs, CarriedIs DEF DataTypes
  <2>2. ThreadTypes' BY <1>1, <1>2, <1>4, <2>1, GotoTypes DEF ThreadTypes
  <2>3. ThreadInv' BY <1>2, <1>3, <1>4, GotoInv DEF history
  <2>4. DataTypes' BY <1>1, <2>1 DEF DataTypes, memory, history
  <2>5. QED BY <2>2, <2>3, <2>4, NextParts
<1>5. CASE IoError(t) /\ owner' = Nobody /\ UNCHANGED hash
  <2>1. DataTypes' BY <1>1, <1>5 DEF DataTypes, memory, history
  <2>2. QED BY <1>2, <1>5, <2>1, FailBase, LabelFacts DEF IoError, history
<1>6. QED BY <1>4, <1>5

LEMMA RenameJsonBase ==
    ASSUME BaseInv, NEW t \in Threads, RenameJson(t)
    PROVE  BaseInv'
<1> USE DEF RenameJson
<1>1. ThreadTypes /\ DataTypes BY TypeParts DEF BaseInv
<1>2. /\ pc[t] \in Locked /\ pc[t] \in Renaming /\ pc[t] \in Flushing
      /\ "rename_hash" \in Locked /\ "open_json" \notin Locked
      /\ {"rename_hash", "open_json"} \subseteq Labels
      /\ {"rename_hash", "open_json"} \subseteq Flushing
      /\ "open_json" \notin Renaming
      BY LabelFacts DEF Renaming, Flushing, Putting
<1>3. idx > 0 /\ t \in Flushers /\ doc[t] \in Docs BY <1>2 DEF BaseInv, ThreadInv
<1>4. CASE /\ json' = Renamed(json)
           /\ handle' = Carried(json, "write_json")
           /\ idx' = idx - 1
           /\ IF idx = 1
              THEN Goto(t, "open_json") /\ owner' = Nobody
              ELSE Goto(t, "rename_hash") /\ UNCHANGED owner
           /\ UNCHANGED doc
  <2>1. json' \in [Slots -> Content] /\ handle' \in [Threads -> Slots \cup {Missing}]
        BY <1>1, <1>3, <1>4, RenamedIs, CarriedIs DEF DataTypes
  <2>2. doc' \in [Threads -> Docs \cup {0}] BY <1>1, <1>4 DEF ThreadTypes
  <2>3. ThreadTypes'
    <3>1. CASE idx = 1 BY <1>1, <1>2, <1>4, <2>1, <2>2, <3>1, GotoTypes
    <3>2. CASE idx # 1 BY <1>1, <1>2, <1>4, <2>1, <2>2, <3>2, GotoTypes
    <3>3. QED BY <3>1, <3>2
  <2>4. \A u \in Threads : u # t => pc[u] \notin Renaming
        BY <1>1, <1>2, LabelFacts DEF ThreadTypes
  <2>5. idx \in Nat /\ idx' \in Slots
        BY <1>1, <1>3, <1>4, Numbers DEF DataTypes
  <2>6. ThreadInv'
    <3>1. CASE idx = 1 BY <1>2, <1>3, <1>4, <2>4, <3>1, GotoInv DEF history
    <3>2. CASE idx # 1
      <4>1. idx' > 0 BY <1>3, <1>4, <2>5, <3>2
      <4>2. QED BY <1>2, <1>3, <1>4, <2>4, <3>2, <4>1, GotoInv DEF history
    <3>3. QED BY <3>1, <3>2
  <2>7. DataTypes' BY <1>1, <2>1, <2>5 DEF DataTypes, memory, history
  <2>8. QED BY <2>3, <2>6, <2>7, NextParts
<1>5. CASE IoError(t) /\ owner' = Nobody /\ UNCHANGED <<json, idx>>
  <2>1. DataTypes' BY <1>1, <1>5 DEF DataTypes, memory, history
  <2>2. QED BY <1>2, <1>5, <2>1, FailBase, LabelFacts DEF IoError, history
<1>6. QED BY <1>4, <1>5

\* A step of the writing of slot 0 that goes well: the thread has no mutex.
LEMMA PutBase ==
    ASSUME BaseInv, NEW t \in Threads, pc[t] \in Putting, NEW label \in Putting,
           Goto(t, label), UNCHANGED <<doc, owner, seq, idx>>,
           handle' \in [Threads -> Slots \cup {Missing}], DataTypes'
    PROVE  BaseInv'
<1>1. ThreadTypes BY TypeParts DEF BaseInv
<1>2. /\ pc[t] \notin Locked /\ label \notin Locked /\ label \in Labels
      /\ label \in Flushing /\ pc[t] \in Flushing
      /\ label \notin Renaming \cup {"serialize"}
      BY LabelFacts DEF Flushing, Putting, Renaming
<1>3. ThreadTypes' BY <1>1, <1>2, GotoTypes DEF ThreadTypes
<1>4. t \in Flushers /\ doc'[t] \in Docs BY <1>2 DEF BaseInv, ThreadInv
<1>5. ThreadInv' BY <1>2, <1>4, GotoInv
<1>6. QED BY <1>3, <1>5, NextParts

LEMMA OpenJsonBase ==
    ASSUME BaseInv, NEW t \in Threads, OpenJson(t) \/ OpenHash(t)
    PROVE  BaseInv'
<1> USE DEF OpenJson, OpenHash
<1>1. ThreadTypes /\ DataTypes BY TypeParts DEF BaseInv
<1>2. pc[t] \in Putting /\ pc[t] \notin Locked /\ Empty \in Content
      /\ "write_json" \in Putting /\ "write_hash" \in Putting
      BY LabelFacts DEF Putting, Content
<1>3. json' \in [Slots -> Content] /\ hash' \in [Slots -> Content]
      BY <1>1, <1>2 DEF DataTypes
<1>4. DataTypes' BY <1>1, <1>3 DEF DataTypes, memory, history
<1>5. ASSUME NEW label \in Putting, OpenFor(t, label), UNCHANGED owner
      PROVE  BaseInv'
  <2>1. handle' \in [Threads -> Slots \cup {Missing}]
        BY <1>1, <1>5, Numbers DEF OpenFor, ThreadTypes
  <2>2. QED BY <1>2, <1>4, <1>5, <2>1, PutBase DEF OpenFor, history
<1>6. CASE IoError(t) BY <1>2, <1>4, <1>6, FailBase, LabelFacts DEF IoError, history
<1>7. QED BY <1>2, <1>5, <1>6

\* Whatever a thread puts in the file it has open, the file keeps its type.
LEMMA PutTypes ==
    ASSUME BaseInv, NEW t \in Threads, NEW file \in [Slots -> Content], NEW c \in Content
    PROVE  Put(file, t, c) \in [Slots -> Content]
<1>1. handle[t] \in Slots \cup {Missing} BY TypeParts DEF BaseInv, ThreadTypes
<1>2. QED BY <1>1 DEF Put

LEMMA WriteJsonBase ==
    ASSUME BaseInv, NEW t \in Threads, WriteJson(t)
    PROVE  BaseInv'
<1> USE DEF WriteJson
<1>1. ThreadTypes /\ DataTypes BY TypeParts DEF BaseInv
<1>2. /\ pc[t] \in Putting /\ pc[t] \notin Locked /\ pc[t] \in Flushing
      /\ "open_hash" \in Putting
      BY LabelFacts DEF Putting, Flushing
<1>3. doc[t] \in Docs BY <1>2 DEF BaseInv, ThreadInv
<1>4. Written(t) \subseteq Content /\ {doc[t], Torn} \subseteq Content
      BY <1>3 DEF Written, Content
<1>5. json' \in [Slots -> Content]
  <2>1. json \in [Slots -> Content] BY <1>1 DEF DataTypes
  <2>2. CASE \E c \in Written(t) : json' = Put(json, t, c)
        BY <1>4, <2>1, <2>2, PutTypes
  <2>3. CASE WriteError(t, json) BY <1>4, <2>1, <2>3, PutTypes DEF WriteError
  <2>4. QED BY <2>2, <2>3
<1>6. DataTypes' BY <1>1, <1>5 DEF DataTypes, memory, history
<1>7. CASE /\ handle' = [handle EXCEPT ![t] = Missing]
           /\ Goto(t, "open_hash")
           /\ UNCHANGED doc
  <2>1. handle' \in [Threads -> Slots \cup {Missing}] BY <1>1, <1>7 DEF ThreadTypes
  <2>2. QED BY <1>2, <1>6, <1>7, <2>1, PutBase DEF history
<1>8. CASE WriteError(t, json)
      BY <1>2, <1>6, <1>8, FailBase, LabelFacts DEF WriteError, IoError, history
<1>9. QED BY <1>7, <1>8

LEMMA WriteHashBase ==
    ASSUME BaseInv, NEW t \in Threads, WriteHash(t)
    PROVE  BaseInv'
<1> USE DEF WriteHash
<1>1. ThreadTypes /\ DataTypes BY TypeParts DEF BaseInv
<1>2. pc[t] \in Putting /\ pc[t] \notin Locked /\ pc[t] \in Flushing
      BY LabelFacts DEF Putting, Flushing
<1>3. doc[t] \in Docs BY <1>2 DEF BaseInv, ThreadInv
<1>4. {doc[t], Torn} \subseteq Content BY <1>3 DEF Content
<1>5. hash' \in [Slots -> Content]
  <2>1. hash \in [Slots -> Content] BY <1>1 DEF DataTypes
  <2>2. CASE hash' = Put(hash, t, doc[t]) BY <1>4, <2>1, <2>2, PutTypes
  <2>3. CASE WriteError(t, hash) BY <1>4, <2>1, <2>3, PutTypes DEF WriteError
  <2>4. QED BY <2>2, <2>3
<1>6. acked' \subseteq Docs /\ committed' \in Docs \cup {0} /\ attempts' \in Nat
      BY <1>1, <1>3 DEF DataTypes
<1>7. DataTypes' BY <1>1, <1>5, <1>6 DEF DataTypes, memory
<1>8. PICK code \in {"Ok", "PhysicalStorageFailure"} : Return(t, code)
      BY DEF WriteError, IoError
<1>9. QED BY <1>2, <1>7, <1>8, FailBase, LabelFacts

LEMMA StepBase == BaseInv /\ [Next]_vars => BaseInv'
<1> SUFFICES ASSUME BaseInv, [Next]_vars PROVE BaseInv' OBVIOUS
<1>1. CASE \E t \in Threads, d, r \in Needs : Open(t, d, r) BY <1>1, OpenBase
<1>2. CASE \E t \in Threads, c \in Calls : Call(t, c) BY <1>2, CallBase
<1>3. CASE \E t \in Threads, k \in Keys : IsValueDefault(t, k)
      BY <1>3, IsValueDefaultBase
<1>4. ASSUME NEW t \in Threads, Step(t) PROVE BaseInv'
      BY <1>4, DataCallBase, RestoreBase, SerializeBase, RotateBase, RenameHashBase,
         RenameJsonBase, OpenJsonBase, WriteJsonBase, WriteHashBase DEF Step
<1>5. CASE Crash BY <1>5, CrashBase
<1>6. CASE UNCHANGED vars
  <2> USE <1>6 DEF vars, disk, memory, history
  <2>1. ThreadTypes' BY TypeParts DEF BaseInv, ThreadTypes
  <2>2. DataTypes' BY TypeParts DEF BaseInv, DataTypes
  <2>3. ThreadInv' BY DEF BaseInv, ThreadInv
  <2>4. QED BY <2>1, <2>2, <2>3, NextParts
<1>7. QED BY <1>1, <1>2, <1>3, <1>4, <1>5, <1>6 DEF Next

LEMMA InitBase == Init => BaseInv
<1> SUFFICES ASSUME Init PROVE BaseInv OBVIOUS
<1>1. /\ "idle" \in Labels /\ "idle" \notin Locked /\ "Ok" \in Results
      /\ "idle" \notin Flushing \cup {"serialize"} /\ Absent \in Content
      BY DEF Labels, Locked, Writing, Results, Flushing, Renaming, Putting, Content
<1>2. ThreadTypes BY <1>1, NobodyAssumption DEF Init, ThreadTypes
<1>3. DataTypes
  <2>1. seq \in 0 .. MaxFlush /\ content \in [Docs -> Maps] /\ attempts \in Nat
        BY Numbers DEF Init
  <2>2. json \in [Slots -> Content] /\ hash \in [Slots -> Content]
        BY <1>1 DEF Init
  <2>3. /\ running \in BOOLEAN /\ map \in Maps /\ defaults \in Maps /\ idx \in Slots
        /\ read \in [slot : Slots, json : Content]
        /\ acked \subseteq Docs /\ committed \in Docs \cup {0}
        BY Numbers DEF Init
  <2>4. QED BY <2>1, <2>2, <2>3 DEF DataTypes
<1>4. ThreadInv BY <1>1 DEF Init, ThreadInv, Flushing
<1>5. QED BY <1>2, <1>3, <1>4, TypeParts DEF BaseInv

\* Whatever the threads do, the variables keep their types.
THEOREM TypeCorrect == Spec => []TypeOK
<1>1. Init => BaseInv BY InitBase
<1>2. BaseInv => TypeOK BY DEF BaseInv
<1>3. QED BY <1>1, <1>2, StepBase, PTL DEF Spec

-----------------------------------------------------------------------------
(* What is loaded, whatever the number of flushers *)

\* A hash file with a whole hash is that of an acknowledged document, unless a
\* write that failed got through.
HashInv == \A s \in Slots : hash[s] \in Docs => hash[s] \in acked

LEMMA HashStep ==
    ASSUME "io" \notin Faults, BaseInv, HashInv, [Next]_vars
    PROVE  HashInv'
<1>1. ThreadTypes /\ DataTypes BY TypeParts DEF BaseInv
<1>2. ASSUME NEW t \in Threads, RenameHash(t) PROVE HashInv'
  <2> USE <1>2 DEF RenameHash, IoError, history
  <2>1. idx > 0 BY DEF BaseInv, ThreadInv, Renaming
  <2>2. idx - 1 \in Slots /\ idx \in Slots
        BY <1>1, <2>1, RenamedIs DEF DataTypes
  <2>3. \A s \in Slots : hash'[s] \in {hash[s], hash[idx - 1], Absent}
        BY <1>1, <2>1, RenamedIs DEF DataTypes
  <2>4. QED BY <2>2, <2>3, Numbers DEF HashInv
<1>3. ASSUME NEW t \in Threads, OpenHash(t) PROVE HashInv'
  <2>1. \A s \in Slots : hash'[s] \in {hash[s], Empty}
        BY <1>1, <1>3 DEF OpenHash, IoError, DataTypes
  <2>2. QED BY <1>3, <2>1, Numbers DEF HashInv, OpenHash, history
<1>4. ASSUME NEW t \in Threads, WriteHash(t) PROVE HashInv'
  <2>1. /\ \A s \in Slots : hash'[s] \in {hash[s], doc[t]}
        /\ acked' = acked \cup {doc[t]}
        BY <1>1, <1>4 DEF WriteHash, WriteError, IoError, Put, DataTypes
  <2>2. QED BY <2>1 DEF HashInv
<1>5. CASE UNCHANGED <<hash, acked>> BY <1>5 DEF HashInv
<1>6. ASSUME NEW t \in Threads,
             \/ \E k \in Keys : GetValue(t, k) \/ RemoveKey(t, k) \/ ResetKey(t, k)
             \/ \E k \in Keys, v \in Values : SetValue(t, k, v)
             \/ Reset(t) \/ CheckHash(t)
      PROVE  UNCHANGED <<hash, acked>>
      BY <1>6 DEF GetValue, RemoveKey, ResetKey, SetValue, Reset, CheckHash, Body,
         disk, history
<1>7. ASSUME NEW t \in Threads,
             \/ \E id \in Slots : Restore(t, id)
             \/ Serialize(t) \/ Rotate(t) \/ RenameJson(t) \/ OpenJson(t) \/ WriteJson(t)
      PROVE  UNCHANGED <<hash, acked>>
      BY <1>7 DEF Restore, Serialize, Rotate, RenameJson, OpenJson, WriteJson, disk, history
<1>8. CASE \/ \E t \in Threads, d, r \in Needs : Open(t, d, r)
           \/ \E t \in Threads, c \in Calls : Call(t, c)
           \/ \E t \in Threads, k \in Keys : IsValueDefault(t, k)
           \/ Crash
           \/ UNCHANGED vars
      BY <1>5, <1>8 DEF Open, Call, IsValueDefault, Crash, vars, disk, history
<1>9. QED BY <1>2, <1>3, <1>4, <1>5, <1>6, <1>7, <1>8 DEF Next, Step

\* What a load accepts was acknowledged, when its hash was.
LEMMA LoadAcked ==
    ASSUME HashInv, NEW data \in Content, NEW s \in Slots, NEW need,
           "Ok" \in OpenJsonResults(data, hash[s], need)
    PROVE  data \in acked
<1>1. data = hash[s] /\ data \notin {Absent, Empty, Torn} BY OpenJsonFacts
<1>2. QED BY <1>1 DEF HashInv, Content

\* Unless a write that failed got through, open and snapshot_restore put only
\* acknowledged documents in memory, also when several threads flush.
THEOREM NoUnacknowledgedLoad == "io" \notin Faults /\ Spec => LoadsOnlyAcked
<1> DEFINE Restored ==
             \A t \in Threads :
               pc[t] = "check_hash" /\ pc'[t] = "idle" /\ result'[t] = "Ok" /\ running' =>
                  read.json \in acked /\ map' = content[read.json]
           Opened ==
             ~running /\ running' /\ map' # EmptyMap =>
               json[0] \in acked /\ map' = content[json[0]]
<1> SUFFICES ASSUME "io" \notin Faults PROVE Spec => LoadsOnlyAcked OBVIOUS
<1>1. ASSUME BaseInv, HashInv, [Next]_vars PROVE [Restored /\ Opened]_vars
  <2> SUFFICES ASSUME Next PROVE Restored /\ Opened BY <1>1
  <2>1. ThreadTypes /\ DataTypes BY <1>1, TypeParts DEF BaseInv
  <2>2. Restored
    <3> SUFFICES ASSUME NEW t \in Threads, pc[t] = "check_hash", pc'[t] = "idle",
                        result'[t] = "Ok", running'
                 PROVE  read.json \in acked /\ map' = content[read.json]
        OBVIOUS
    <3>1. ASSUME NEW u \in Threads, u # t PROVE ~Step(u) /\ \A c \in Calls : ~Call(u, c)
      <4>1. \A label : Goto(u, label) => pc'[t] = pc[t] BY <2>1, <3>1 DEF Goto, ThreadTypes
      <4>2. \A code : Return(u, code) => pc'[t] = pc[t] BY <2>1, <3>1 DEF Return, ThreadTypes
      <4>3. QED BY <4>1, <4>2
            DEF Step, Call, TryLock, GetValue, RemoveKey, ResetKey, SetValue, Reset, CheckHash,
                Body, Leave, Restore, Serialize, Rotate, RenameHash, RenameJson, OpenJson,
                WriteJson, OpenHash, WriteHash, OpenFor, IoError, WriteError
    <3>2. CheckHash(t)
      <4>1. \A u \in Threads, k \in Keys : ~IsValueDefault(u, k)
            BY <2>1 DEF IsValueDefault, Return, ThreadTypes
      <4>2. ~Crash BY DEF Crash
      <4>3. \A u \in Threads, d, r \in Needs : ~Open(u, d, r) BY DEF Open
      <4>4. Step(t)
            BY <3>1, <4>1, <4>2, <4>3 DEF Next, Call
      <4>5. QED BY <4>4
            DEF Step, GetValue, RemoveKey, ResetKey, SetValue, Reset, Body, Restore, Serialize,
                Rotate, RenameHash, RenameJson, OpenJson, WriteJson, OpenHash, WriteHash
    <3>3. PICK r \in OpenJsonResults(read.json, hash[read.slot], "Required") :
            Body(t, "check_hash", IF r = "Ok" THEN content[read.json] ELSE map, r)
          BY <3>2 DEF CheckHash
    <3>4. r = "Ok" /\ map' = content[read.json]
          BY <2>1, <3>3 DEF Body, Leave, Return, ThreadTypes
    <3>5. read.json \in Content /\ read.slot \in Slots BY <2>1 DEF DataTypes
    <3>6. QED BY <1>1, <3>3, <3>4, <3>5, LoadAcked
  <2>3. Opened
    <3> SUFFICES ASSUME ~running, running', map' # EmptyMap
                 PROVE  json[0] \in acked /\ map' = content[json[0]]
        OBVIOUS
    <3>1. PICK t \in Threads, d \in Needs, n \in Needs : Open(t, d, n)
      <4>1. \A t \in Threads : ~Step(t)
            BY DEF Step, GetValue, RemoveKey, ResetKey, SetValue, Reset, CheckHash, Body, Restore,
               Serialize, Rotate, RenameHash, RenameJson, OpenJson, WriteJson, OpenHash, WriteHash
      <4>2. QED BY <4>1 DEF Next, Call, IsValueDefault, Crash
    <3>2. "Ok" \in OpenJsonResults(json[0], hash[0], n) /\ map' = content[json[0]]
          BY <3>1 DEF Open
    <3>3. json[0] \in Content /\ 0 \in Slots BY <2>1, Numbers DEF DataTypes
    <3>4. QED BY <1>1, <3>2, <3>3, LoadAcked
  <2>4. QED BY <2>2, <2>3
<1>2. Init => HashInv
  <2>1. Init => \A s \in Slots : hash[s] = Absent BY DEF Init
  <2>2. QED BY <2>1, Numbers DEF HashInv
<1>3. HashInv /\ BaseInv /\ [Next]_vars => HashInv' BY HashStep
<1>4. QED BY <1>1, <1>2, <1>3, InitBase, StepBase, PTL DEF Spec, LoadsOnlyAcked

-----------------------------------------------------------------------------
(* The files, when one thread flushes *)

LEMMA InitDisk == Init => DiskInv
<1> SUFFICES ASSUME Init PROVE DiskInv OBVIOUS
<1>1. "idle" \notin Flushing \cup {"check_hash"} BY DEF Flushing, Renaming, Putting
<1>2. \A s \in Slots : json[s] = Absent BY DEF Init
<1>3. \A s \in Slots : json[s] \notin Docs BY <1>2, Numbers
<1>4. \A t \in Threads : pc[t] = "idle" BY DEF Init
<1>5. acked = {} /\ committed = 0 /\ seq = 0 BY DEF Init
<1>6. AckInv BY <1>1, <1>4, <1>5 DEF AckInv, Flushing
<1>7. OrderInv BY <1>3 DEF OrderInv
<1>8. InFlightInv BY <1>1, <1>4 DEF InFlightInv, Flushing, Putting
<1>9. VacantInv BY <1>1, <1>4 DEF VacantInv, Flushing, Putting
<1>10. SurviveInv /\ CommittedDurable BY <1>5 DEF SurviveInv, CommittedDurable
<1>11. ReadInv BY <1>1, <1>4 DEF ReadInv
<1>12. QED BY <1>6, <1>7, <1>8, <1>9, <1>10, <1>11 DEF DiskInv

\* While a thread is in flush no other one is.
LEMMA Alone ==
    ASSUME OneFlusher, BaseInv, NEW t \in Threads, pc[t] \in Flushing \cup {"serialize"},
           NEW u \in Threads, u # t
    PROVE  pc[u] \notin Flushing \cup {"serialize"}
  BY DEF OneFlusher, BaseInv, ThreadInv

\* Where the threads are after a step of thread t.
LEMMA GotoAfter ==
    ASSUME BaseInv, NEW t \in Threads, NEW label, Goto(t, label)
    PROVE  \A u \in Threads : pc'[u] = IF u = t THEN label ELSE pc[u]
  BY TypeParts DEF BaseInv, ThreadTypes, Goto

LEMMA ReturnAfter ==
    ASSUME BaseInv, NEW t \in Threads, NEW code, Return(t, code)
    PROVE  \A u \in Threads :
              IF u = t THEN pc'[u] = "idle"
              ELSE pc'[u] = pc[u] /\ doc'[u] = doc[u] /\ handle'[u] = handle[u]
  BY TypeParts DEF BaseInv, ThreadTypes, Return

\* A step that leaves the JSON files and the counters alone.
LEMMA KeepDisk ==
    ASSUME IInv, UNCHANGED <<json, seq, acked, committed, attempts>>,
           UNCHANGED hash \/ attempts # 0,
           \A u \in Threads : pc'[u] \in Flushing \cup {"check_hash"} =>
               /\ pc'[u] = pc[u] \/ (pc[u] \in Renaming /\ pc'[u] \in Renaming)
               /\ doc'[u] = doc[u]
               /\ pc'[u] \in Putting => handle'[u] = handle[u]
               /\ pc'[u] \in Renaming => idx' = idx
               /\ pc'[u] = "check_hash" => read' = read
    PROVE  DiskInv'
<1> USE DEF IInv, DiskInv
<1>1. AckInv' BY DEF AckInv, Flushing, Renaming
<1>2. OrderInv' BY DEF OrderInv
<1>3. InFlightInv' BY DEF InFlightInv, Flushing, Renaming, Putting
<1>4. VacantInv' BY DEF VacantInv, Flushing, Renaming, Putting
<1>5. SurviveInv'
  <2> SUFFICES ASSUME committed > 0, attempts <= MaxCount
               PROVE  \E s \in 0 .. attempts :
                         /\ json[s] = committed
                         /\ \A t \in Threads : pc'[t] \in Renaming /\ s <= idx' => s < attempts
      BY DEF SurviveInv
  <2>1. PICK s \in 0 .. attempts :
          /\ json[s] = committed
          /\ \A t \in Threads : pc[t] \in Renaming /\ s <= idx => s < attempts
        BY DEF SurviveInv
  <2>2. QED BY <2>1 DEF Flushing
<1>6. ReadInv' BY DEF ReadInv, Renaming
<1>7. CommittedDurable' BY DEF CommittedDurable, Whole
<1>8. QED BY <1>1, <1>2, <1>3, <1>4, <1>5, <1>6, <1>7

\* A call that returns without having changed a JSON file.
LEMMA ReturnDisk ==
    ASSUME IInv, NEW t \in Threads, NEW code, Return(t, code),
           UNCHANGED <<json, seq, acked, committed, attempts>>,
           UNCHANGED hash \/ attempts # 0, UNCHANGED idx,
           pc[t] \in Locked \/ UNCHANGED read
    PROVE  DiskInv'
<1>1. BaseInv /\ ThreadTypes BY TypeParts DEF IInv, BaseInv
<1>2. \A u \in Threads :
        IF u = t THEN pc'[u] = "idle"
        ELSE pc'[u] = pc[u] /\ doc'[u] = doc[u] /\ handle'[u] = handle[u]
      BY <1>1, ReturnAfter
<1>3. "idle" \notin Flushing \cup {"check_hash"} BY DEF Flushing, Renaming, Putting
<1>4. \A u \in Threads : u # t /\ pc[u] = "check_hash" => UNCHANGED read
  <2>1. "check_hash" \in Locked BY DEF Locked, Writing
  <2>2. QED BY <1>1, <2>1 DEF ThreadTypes
<1>5. QED BY <1>2, <1>3, <1>4, KeepDisk

\* The steps outside flush.
LEMMA CallDisk ==
    ASSUME IInv, NEW t \in Threads, NEW c \in Calls, Call(t, c)
    PROVE  DiskInv'
<1> USE DEF Call, disk, history
<1>1. CASE Goto(t, c) /\ UNCHANGED <<doc, handle>>
  <2>1. c \notin Flushing \cup {"check_hash"}
        BY DEF Calls, Flushing, Renaming, Putting
  <2>2. \A u \in Threads : pc'[u] = IF u = t THEN c ELSE pc[u]
        BY <1>1, GotoAfter DEF IInv
  <2>3. QED BY <1>1, <2>1, <2>2, KeepDisk
<1>2. CASE Return(t, "MutexLockFailed") BY <1>2, ReturnDisk
<1>3. QED BY <1>1, <1>2 DEF TryLock

LEMMA BodyDisk ==
    ASSUME IInv, NEW t \in Threads,
           \/ \E k \in Keys : GetValue(t, k) \/ RemoveKey(t, k) \/ ResetKey(t, k)
           \/ \E k \in Keys, v \in Values : SetValue(t, k, v)
           \/ Reset(t)
           \/ CheckHash(t)
    PROVE  DiskInv'
<1>1. ASSUME NEW label \in Locked, NEW m, NEW code, Body(t, label, m, code)
      PROVE  DiskInv'
      BY <1>1, ReturnDisk DEF Body, Leave, disk, history
<1>2. {"get", "set", "remove", "reset", "reset_key", "check_hash"} \subseteq Locked
      BY DEF Locked, Writing
<1>3. ASSUME CheckHash(t) PROVE DiskInv'
  <2>1. PICK r \in OpenJsonResults(read.json, hash[read.slot], "Required") :
          Body(t, "check_hash", IF r = "Ok" THEN content[read.json] ELSE map, r)
        BY <1>3 DEF CheckHash
  <2>2. QED BY <1>1, <1>2, <2>1
<1>4. ASSUME NEW k \in Keys, GetValue(t, k) \/ RemoveKey(t, k) \/ ResetKey(t, k)
      PROVE  DiskInv'
      BY <1>1, <1>2, <1>4 DEF GetValue, RemoveKey, ResetKey
<1>5. ASSUME NEW k \in Keys, NEW v \in Values, SetValue(t, k, v) PROVE DiskInv'
      BY <1>1, <1>2, <1>5 DEF SetValue
<1>6. CASE Reset(t) BY <1>1, <1>2, <1>6 DEF Reset
<1>7. QED BY <1>3, <1>4, <1>5, <1>6

LEMMA QuietDisk ==
    ASSUME IInv, NEW t \in Threads,
           \/ \E k \in Keys : IsValueDefault(t, k)
           \/ \E d, n \in Needs : Open(t, d, n)
    PROVE  DiskInv'
<1>1. CASE \E k \in Keys : IsValueDefault(t, k)
      BY <1>1, ReturnDisk DEF IsValueDefault, disk, history
<1>2. CASE \E d, n \in Needs : Open(t, d, n)
      BY <1>2, KeepDisk DEF Open, disk, history
<1>3. QED BY <1>1, <1>2

LEMMA RestoreDisk ==
    ASSUME IInv, NEW t \in Threads, NEW id \in Slots, Restore(t, id)
    PROVE  DiskInv'
<1> USE DEF Restore, disk, history
<1>1. CASE \E code \in {"InvalidSnapshotId", "KvsFileReadError", "PhysicalStorageFailure"} :
             Leave(t, code) /\ UNCHANGED read
      BY <1>1, ReturnDisk DEF Leave
<1>2. CASE /\ id > 0
           /\ read' = [slot |-> id, json |-> json[id]]
           /\ Goto(t, "check_hash")
           /\ UNCHANGED <<owner, doc, handle>>
  <2>1. \A u \in Threads : pc'[u] = IF u = t THEN "check_hash" ELSE pc[u]
        BY <1>2, GotoAfter DEF IInv
  <2> USE <1>2, <2>1 DEF IInv, DiskInv
  <2>2. "check_hash" \notin Flushing BY DEF Flushing, Renaming, Putting
  <2>3. AckInv' BY <2>2 DEF AckInv, Flushing
  <2>4. OrderInv' BY DEF OrderInv
  <2>5. InFlightInv' BY <2>2 DEF InFlightInv, Flushing, Putting
  <2>6. VacantInv' BY <2>2 DEF VacantInv, Flushing, Putting
  <2>7. SurviveInv'
    <3> SUFFICES ASSUME committed > 0, attempts <= MaxCount
                 PROVE  \E s \in 0 .. attempts :
                           /\ json[s] = committed
                           /\ \A u \in Threads : pc'[u] \in Renaming /\ s <= idx => s < attempts
        BY DEF SurviveInv
    <3>1. \A u \in Threads : pc'[u] \in Renaming => pc[u] \in Renaming
          BY <2>2 DEF Flushing
    <3>2. QED BY <3>1 DEF SurviveInv
  <2>8. ReadInv'
    <3>1. \A u \in Threads : pc[u] = "check_hash" => u = t
      <4>1. pc[t] \in Locked /\ "check_hash" \in Locked BY DEF Locked, Writing
      <4>2. QED BY <4>1, TypeParts DEF BaseInv, ThreadTypes
    <3>2. QED BY <3>1 DEF ReadInv
  <2>9. CommittedDurable' BY DEF CommittedDurable
  <2>10. QED BY <2>3, <2>4, <2>5, <2>6, <2>7, <2>8, <2>9
<1>3. QED BY <1>1, <1>2

\* The steps of flush.
LEMMA SerializeDisk ==
    ASSUME OneFlusher, IInv, NEW t \in Threads, Serialize(t)
    PROVE  DiskInv'
<1> USE DEF Serialize, disk, history
<1>1. ThreadTypes /\ DataTypes /\ BaseInv BY TypeParts DEF IInv, BaseInv
<1>2. CASE /\ seq' = seq + 1
           /\ doc' = [doc EXCEPT ![t] = seq + 1]
           /\ Goto(t, "rotate")
           /\ UNCHANGED <<handle, acked, committed, attempts>>
  <2>1. \A u \in Threads : pc'[u] = IF u = t THEN "rotate" ELSE pc[u]
        BY <1>1, <1>2, GotoAfter
  <2>2. \A u \in Threads : u # t => pc'[u] \notin Flushing
        BY <1>1, <2>1, Alone
  <2>3. \A u \in Threads : pc'[u] = "check_hash" => pc[u] = "check_hash" BY <2>1
  <2>4. \A u \in Threads : pc'[u] \notin Renaming \cup Putting
        BY <2>1, <2>2 DEF Flushing, Renaming, Putting
  <2>5. /\ seq \in Nat /\ seq' = seq + 1 /\ doc'[t] = seq + 1 /\ committed \in Nat
        /\ \A s \in Slots : json[s] \in Docs => json[s] \in Nat
    <3>1. seq \in Nat /\ committed \in Nat
      <4>1. seq \in 0 .. MaxFlush /\ committed \in Docs \cup {0} BY <1>1 DEF DataTypes
      <4>2. QED BY <4>1, Numbers
    <3>2. doc'[t] = seq + 1 BY <1>1, <1>2 DEF ThreadTypes
    <3>3. QED BY <1>2, <3>1, <3>2, Numbers
  <2> USE <1>2 DEF IInv, DiskInv
  <2>6. AckInv' BY <2>1, <2>2, <2>4, <2>5 DEF AckInv
  <2>7. OrderInv' BY <2>5 DEF OrderInv
  <2>8. InFlightInv'
    <3>1. \A s \in Slots : json[s] # seq + 1
      <4>1. seq + 1 \in Docs
            BY <1>1, Numbers DEF BaseInv, ThreadInv, DataTypes
      <4>2. QED BY <2>5, <4>1 DEF OrderInv
    <3>2. QED BY <2>2, <2>4, <2>5, <3>1 DEF InFlightInv, Flushing, Putting
  <2>9. VacantInv' BY <2>4 DEF VacantInv, Putting
  <2>10. SurviveInv' BY <2>4 DEF SurviveInv
  <2>11. ReadInv' BY <2>3 DEF ReadInv
  <2>12. CommittedDurable' BY DEF CommittedDurable
  <2>13. QED BY <2>6, <2>7, <2>8, <2>9, <2>10, <2>11, <2>12
<1>3. CASE Leave(t, "JsonGeneratorError") /\ UNCHANGED history
      BY <1>3, ReturnDisk DEF Leave
<1>4. QED BY <1>2, <1>3

LEMMA RotateDisk ==
    ASSUME OneFlusher, IInv, NEW t \in Threads, Rotate(t)
    PROVE  DiskInv'
<1> USE DEF Rotate, disk, history
<1>1. ThreadTypes /\ DataTypes /\ BaseInv BY TypeParts DEF IInv, BaseInv
<1>2. pc[t] \in Flushing BY DEF Flushing
<1>3. CASE owner = Nobody /\ Goto(t, "rename_hash") /\ UNCHANGED <<doc, handle>>
  <2>1. \A u \in Threads : pc'[u] = IF u = t THEN "rename_hash" ELSE pc[u]
        BY <1>1, <1>3, GotoAfter
  <2>2. \A u \in Threads : u # t => pc'[u] \notin Flushing
        BY <1>1, <1>2, <2>1, Alone
  <2>3. \A u \in Threads : pc'[u] \notin Putting
        BY <2>1, <2>2 DEF Flushing, Putting
  <2>4. attempts' = attempts + 1 /\ attempts \in Nat /\ idx' = MaxCount
        BY <1>1, <1>3 DEF DataTypes
  <2> USE <1>3 DEF IInv, DiskInv
  <2>5. AckInv' BY <1>2, <2>1, <2>2, <2>4 DEF AckInv, Flushing
  <2>6. OrderInv' BY DEF OrderInv
  <2>7. InFlightInv'
    <3>1. \A s \in Slots : json[s] # seq BY DEF InFlightInv
    <3>2. QED BY <2>3, <3>1 DEF InFlightInv, Putting
  <2>8. VacantInv' BY <2>3, <2>4, Numbers DEF VacantInv, Putting
  <2>9. SurviveInv'
    <3> SUFFICES ASSUME committed > 0, attempts + 1 <= MaxCount
                 PROVE  \E s \in 0 .. attempts + 1 : json[s] = committed /\ s < attempts + 1
        BY <2>4 DEF SurviveInv
    <3>1. attempts <= MaxCount BY <2>4, Numbers
    <3>2. PICK s \in 0 .. attempts : json[s] = committed BY <3>1 DEF SurviveInv
    <3>3. QED BY <2>4, <3>2
  <2>10. ReadInv' BY <2>1 DEF ReadInv
  <2>11. CommittedDurable' BY <2>4 DEF CommittedDurable
  <2>12. QED BY <2>5, <2>6, <2>7, <2>8, <2>9, <2>10, <2>11
<1>4. CASE owner # Nobody /\ Return(t, "MutexLockFailed") BY <1>4, ReturnDisk
<1>5. QED BY <1>3, <1>4 DEF TryLock

LEMMA RenameHashDisk ==
    ASSUME OneFlusher, IInv, NEW t \in Threads, RenameHash(t)
    PROVE  DiskInv'
<1> USE DEF RenameHash, history
<1>1. BaseInv BY DEF IInv
<1>2. /\ pc[t] \in Renaming /\ pc[t] \in Flushing /\ pc[t] \in Locked
      /\ "rename_json" \in Renaming /\ "rename_json" \notin Putting
      BY LabelFacts DEF Renaming, Flushing, Putting
<1>3. attempts # 0
  <2>1. attempts \in Nat BY <1>1, TypeParts DEF BaseInv, DataTypes
  <2>2. attempts > 0 BY <1>2 DEF IInv, DiskInv, AckInv
  <2>3. QED BY <2>1, <2>2
<1>4. CASE /\ handle' = Carried(hash, "write_hash")
           /\ Goto(t, "rename_json")
           /\ UNCHANGED <<owner, doc>>
  <2>1. \A u \in Threads : pc'[u] = IF u = t THEN "rename_json" ELSE pc[u]
        BY <1>1, <1>4, GotoAfter
  <2>2. \A u \in Threads : u # t => pc'[u] \notin Flushing
        BY <1>1, <1>2, <2>1, Alone
  <2>3. \A u \in Threads : pc'[u] \notin Putting
        BY <1>2, <2>1, <2>2 DEF Flushing
  <2>4. QED BY <1>2, <1>3, <1>4, <2>1, <2>3, KeepDisk
<1>5. CASE IoError(t) BY <1>2, <1>3, <1>5, ReturnDisk DEF IoError
<1>6. QED BY <1>4, <1>5

LEMMA RenameJsonDisk ==
    ASSUME OneFlusher, IInv, NEW t \in Threads, RenameJson(t)
    PROVE  DiskInv'
<1> USE DEF RenameJson, history
<1>1. ThreadTypes /\ DataTypes /\ BaseInv BY TypeParts DEF IInv, BaseInv
<1>2. /\ pc[t] \in Renaming /\ pc[t] \in Flushing /\ pc[t] \in Locked
      BY LabelFacts DEF Renaming, Flushing
<1>3. CASE /\ json' = Renamed(json)
           /\ idx' = idx - 1
           /\ IF idx = 1 THEN Goto(t, "open_json") ELSE Goto(t, "rename_hash")
           /\ UNCHANGED doc
  <2>1. /\ \A u \in Threads : u # t => pc'[u] = pc[u] /\ pc'[u] \notin Flushing
        /\ pc'[t] = IF idx = 1 THEN "open_json" ELSE "rename_hash"
        BY <1>1, <1>2, <1>3, GotoAfter, Alone
  <2>2. /\ \A u \in Threads : pc'[u] \notin {"write_json", "open_hash", "write_hash"}
        /\ \A u \in Threads : pc'[u] \in Renaming => u = t /\ idx # 1
        /\ \A u \in Threads : pc'[u] = "open_json" => u = t /\ idx = 1
        BY <2>1 DEF Flushing, Renaming, Putting
  <2>3. /\ idx > 0 /\ idx \in Slots /\ idx - 1 \in Slots /\ idx \in Nat
        /\ attempts \in Nat /\ attempts > 0 /\ committed \in Nat /\ seq \in Nat
        /\ idx <= MaxCount /\ MaxCount \in Nat
        BY <1>1, <1>2, Numbers, RenamedIs
        DEF BaseInv, ThreadInv, DataTypes, IInv, DiskInv, AckInv, Slots
  <2>4. \A s \in Slots :
          json'[s] = IF json[idx - 1] = Absent THEN json[s]
                     ELSE IF s = idx - 1 THEN Absent
                     ELSE IF s = idx THEN json[idx - 1] ELSE json[s]
        BY <1>1, <1>3, <2>3, RenamedIs DEF DataTypes
  <2>5. /\ json'[idx - 1] = Absent
        /\ \A s \in Slots : s # idx /\ s # idx - 1 => json'[s] = json[s]
        /\ json[idx - 1] # Absent => json'[idx] = json[idx - 1]
        /\ json[idx - 1] = Absent => json'[idx] = json[idx]
        BY <2>3, <2>4
  <2> USE <1>3 DEF IInv, DiskInv
  <2>6. AckInv' BY <1>2, <2>1, <2>3 DEF AckInv
  <2>7. OrderInv'
    <3>1. ASSUME NEW s \in Slots, NEW u \in Slots, s < u, json'[s] \in Docs, json'[u] \in Docs
          PROVE  json'[u] < json'[s]
      <4>1. s # idx - 1 /\ u # idx - 1 BY <2>5, <3>1, Numbers
      <4>2. CASE json[idx - 1] = Absent BY <2>4, <3>1, <4>2 DEF OrderInv
      <4>3. CASE json[idx - 1] # Absent /\ s = idx
        <5>1. json[idx - 1] \in Docs /\ json'[u] = json[u] /\ idx - 1 < u
              BY <2>3, <2>5, <3>1, <4>1, <4>3
        <5>2. QED BY <2>3, <2>5, <3>1, <4>3, <5>1 DEF OrderInv
      <4>4. CASE json[idx - 1] # Absent /\ u = idx
        <5>1. json[idx - 1] \in Docs /\ json'[s] = json[s] /\ s < idx - 1
              BY <2>3, <2>5, <3>1, <4>1, <4>4 DEF Slots
        <5>2. QED BY <2>3, <2>5, <3>1, <4>4, <5>1 DEF OrderInv
      <4>5. CASE s # idx /\ u # idx BY <2>5, <3>1, <4>1, <4>5 DEF OrderInv
      <4>6. QED BY <4>2, <4>3, <4>4, <4>5
    <3>2. ASSUME NEW s \in Slots, json'[s] \in Docs PROVE json'[s] <= seq
          BY <2>3, <2>4, <3>2, Numbers DEF OrderInv
    <3>3. QED BY <3>1, <3>2 DEF OrderInv
  <2>8. InFlightInv'
    <3>1. \A s \in Slots : json[s] # seq BY <1>2 DEF InFlightInv
    <3>2. Absent # seq BY <2>3, ContentAssumption
    <3>3. \A s \in Slots : json'[s] # seq BY <2>3, <2>4, <3>1, <3>2
    <3>4. QED BY <2>2, <3>3 DEF InFlightInv
  <2>9. VacantInv' BY <2>2, <2>3, <2>5 DEF VacantInv
  <2>10. SurviveInv'
    <3> SUFFICES ASSUME committed > 0, attempts <= MaxCount
                 PROVE  \E s \in 0 .. attempts :
                           json'[s] = committed /\ (s <= idx - 1 => s < attempts)
        BY DEF SurviveInv
    <3>1. PICK s \in 0 .. attempts : json[s] = committed /\ (s <= idx => s < attempts)
          BY <1>2 DEF SurviveInv
    <3>2. s \in Slots BY <2>3, <3>1 DEF Slots
    <3>3. committed # Absent BY <2>3, ContentAssumption
    <3>4. s # idx
      <4> SUFFICES ASSUME s = idx PROVE FALSE OBVIOUS
      <4>1. idx < MaxCount BY <2>3, <3>1
      <4>2. json[idx] = Absent BY <1>2, <4>1 DEF VacantInv
      <4>3. QED BY <3>1, <3>3, <4>2
    <3>5. CASE s = idx - 1
      <4>1. json'[idx] = committed BY <2>5, <3>1, <3>3, <3>5
      <4>2. idx \in 0 .. attempts /\ ~(idx <= idx - 1) BY <2>3, <3>1, <3>5
      <4>3. QED BY <4>1, <4>2
    <3>6. CASE s # idx - 1
      <4>1. json'[s] = committed BY <2>5, <3>1, <3>2, <3>4, <3>6
      <4>2. s <= idx - 1 => s < attempts BY <2>3, <3>1
      <4>3. QED BY <3>1, <4>1, <4>2
    <3>7. QED BY <3>5, <3>6
  <2>11. ReadInv'
    <3>1. \A u \in Threads : pc'[u] # "check_hash"
      <4>1. owner = t /\ "check_hash" \in Locked
            BY <1>1, <1>2 DEF ThreadTypes, Locked, Writing
      <4>2. QED BY <1>1, <2>1, <4>1 DEF ThreadTypes
    <3>2. QED BY <3>1 DEF ReadInv
  <2>12. CommittedDurable' BY <2>3 DEF CommittedDurable
  <2>13. QED BY <2>6, <2>7, <2>8, <2>9, <2>10, <2>11, <2>12
<1>4. CASE IoError(t) /\ UNCHANGED <<json, idx>>
      BY <1>2, <1>4, ReturnDisk DEF IoError
<1>5. QED BY <1>3, <1>4

\* What the threads know while one of them writes slot 0.
LEMMA PuttingFacts ==
    ASSUME OneFlusher, IInv, NEW t \in Threads, pc[t] \in Putting
    PROVE  /\ pc[t] \in Flushing /\ pc[t] \notin Renaming
           /\ doc[t] = seq /\ seq \in Docs /\ seq \in Nat /\ committed < seq
           /\ committed \in Nat /\ attempts \in Nat /\ attempts > 0
           /\ \A u \in Threads : u # t => pc[u] \notin Flushing
<1>1. pc[t] \in Flushing /\ pc[t] \notin Renaming BY DEF Flushing, Renaming, Putting
<1>2. doc[t] = seq /\ doc[t] \in Docs /\ committed < seq /\ attempts > 0
      BY <1>1 DEF IInv, DiskInv, AckInv, BaseInv, ThreadInv
<1>3. committed \in Nat /\ attempts \in Nat
      BY Numbers, TypeParts DEF IInv, BaseInv, DataTypes
<1>4. \A u \in Threads : u # t => pc[u] \notin Flushing BY <1>1, Alone DEF IInv
<1>5. QED BY <1>1, <1>2, <1>3, <1>4, Numbers

\* Slot 0 gets a content that is the document of the running flush, or none,
\* and was vacant, empty or torn before; the thread is then at label.
LEMMA PutDisk ==
    ASSUME OneFlusher, IInv, NEW t \in Threads, pc[t] \in {"open_json", "write_json"},
           NEW c \in {seq, Empty, Torn}, json' = [json EXCEPT ![0] = c],
           NEW label \in {"write_json", "open_hash", "idle"},
           \A u \in Threads : u # t => pc'[u] = pc[u] /\ doc'[u] = doc[u],
           pc'[t] = label,
           label # "idle" => doc'[t] = doc[t],
           label = "write_json" => c = Empty /\ handle'[t] = 0,
           label = "open_hash" => c = seq,
           UNCHANGED <<idx, read, seq, acked, committed, attempts>>
    PROVE  DiskInv'
<1>1. /\ pc[t] \in Flushing /\ pc[t] \notin Renaming
      /\ doc[t] = seq /\ seq \in Docs /\ seq \in Nat /\ committed < seq
      /\ committed \in Nat /\ attempts \in Nat /\ attempts > 0
      /\ \A u \in Threads : u # t => pc[u] \notin Flushing
      BY PuttingFacts DEF Putting
<1>2. 0 \in Slots /\ \A s \in Slots : json'[s] = IF s = 0 THEN c ELSE json[s]
      BY Numbers, TypeParts DEF IInv, BaseInv, DataTypes
<1>3. /\ \A s \in Slots : json[s] # seq
      /\ json[0] \in {Absent, Empty}
      /\ c # committed /\ Absent # committed /\ Empty # committed
      BY <1>1, ContentAssumption DEF IInv, DiskInv, InFlightInv, VacantInv
<1>4. /\ \A u \in Threads : pc'[u] \notin Renaming
      /\ \A u \in Threads : pc'[u] \in Flushing => u = t /\ label # "idle"
      /\ \A u \in Threads : pc'[u] = "check_hash" => pc[u] = "check_hash"
      BY <1>1 DEF Flushing, Renaming, Putting
<1> USE DEF IInv, DiskInv
<1>5. AckInv' BY <1>1, <1>4 DEF AckInv
<1>6. OrderInv'
  <2>1. \A s \in Slots : json[s] \in Docs => json[s] \in Nat /\ json[s] < seq
    <3>1. SUFFICES ASSUME NEW s \in Slots, json[s] \in Docs
                   PROVE  json[s] \in Nat /\ json[s] < seq
          OBVIOUS
    <3>2. json[s] \in Nat /\ json[s] <= seq /\ json[s] # seq
          BY <1>3, <3>1, Numbers DEF OrderInv
    <3>3. QED BY <1>1, <3>2
  <2>2. \A s, u \in Slots :
          s < u /\ json'[s] \in Docs /\ json'[u] \in Docs => json'[u] < json'[s]
        BY <1>2, <2>1, Numbers DEF OrderInv, Slots
  <2>3. \A s \in Slots : json'[s] \in Docs => json'[s] <= seq
        BY <1>1, <1>2, Numbers DEF OrderInv
  <2>4. QED BY <2>2, <2>3 DEF OrderInv
<1>7. InFlightInv'
  <2>1. c = Empty => \A s \in Slots : json'[s] # seq
        BY <1>1, <1>2, <1>3, ContentAssumption
  <2>2. QED BY <1>2, <1>4, <2>1 DEF InFlightInv, Flushing, Putting
<1>8. VacantInv' BY <1>4 DEF VacantInv, Flushing, Putting
<1>9. SurviveInv'
  <2> SUFFICES ASSUME committed > 0, attempts <= MaxCount
               PROVE  \E s \in 0 .. attempts : json'[s] = committed
      BY <1>4 DEF SurviveInv
  <2>1. PICK s \in 0 .. attempts : json[s] = committed BY DEF SurviveInv
  <2>2. s \in Slots BY <1>1, <2>1, Numbers DEF Slots
  <2>3. s # 0 BY <1>3, <2>1
  <2>4. QED BY <1>2, <2>1, <2>2, <2>3
<1>10. ReadInv'
  <2>1. read.slot \in Slots BY TypeParts DEF BaseInv, DataTypes
  <2>2. SUFFICES ASSUME NEW u \in Threads, pc'[u] = "check_hash"
                 PROVE  read.slot > 0 /\ json'[read.slot] = read.json
        BY DEF ReadInv
  <2>3. read.slot > 0 /\ json[read.slot] = read.json BY <1>4, <2>2 DEF ReadInv
  <2>4. read.slot # 0 BY <2>1, <2>3, Numbers
  <2>5. QED BY <1>2, <2>1, <2>3, <2>4
<1>11. CommittedDurable' BY <1>1 DEF CommittedDurable
<1>12. QED BY <1>5, <1>6, <1>7, <1>8, <1>9, <1>10, <1>11

LEMMA OpenJsonDisk ==
    ASSUME OneFlusher, IInv, NEW t \in Threads, OpenJson(t)
    PROVE  DiskInv'
<1> USE DEF OpenJson, history
<1>1. ThreadTypes /\ BaseInv BY TypeParts DEF IInv, BaseInv
<1>2. CASE json' = [json EXCEPT ![0] = Empty] /\ OpenFor(t, "write_json")
  <2>1. \A u \in Threads : pc'[u] = IF u = t THEN "write_json" ELSE pc[u]
        BY <1>1, <1>2, GotoAfter DEF OpenFor
  <2>2. handle'[t] = 0 /\ doc' = doc BY <1>1, <1>2 DEF OpenFor, ThreadTypes
  <2>3. QED BY <1>2, <2>1, <2>2, PutDisk
<1>3. CASE IoError(t) /\ UNCHANGED json BY <1>3, ReturnDisk DEF IoError
<1>4. QED BY <1>2, <1>3

LEMMA WriteJsonDisk ==
    ASSUME OneFlusher, IInv, NEW t \in Threads, WriteJson(t)
    PROVE  DiskInv'
<1> USE DEF WriteJson, history
<1>1. ThreadTypes /\ DataTypes /\ BaseInv BY TypeParts DEF IInv, BaseInv
<1>2. pc[t] = "write_json" /\ json[0] = Empty /\ handle[t] = 0 /\ doc[t] = seq
      BY PuttingFacts DEF IInv, DiskInv, InFlightInv, Putting
<1>3. \A c : Put(json, t, c) = [json EXCEPT ![0] = c]
      BY <1>2, MissingAssumption DEF Put
<1>4. Written(t) = {seq} BY <1>2, MissingAssumption DEF Written
<1>5. CASE /\ \E c \in Written(t) : json' = Put(json, t, c)
           /\ Goto(t, "open_hash")
           /\ UNCHANGED doc
  <2>1. \A u \in Threads : pc'[u] = IF u = t THEN "open_hash" ELSE pc[u]
        BY <1>1, <1>5, GotoAfter
  <2>2. json' = [json EXCEPT ![0] = seq] BY <1>3, <1>4, <1>5
  <2>3. QED BY <1>2, <1>5, <2>1, <2>2, PutDisk
<1>6. CASE WriteError(t, json)
  <2>1. PICK c \in {seq, Torn} : json' = json \/ json' = [json EXCEPT ![0] = c]
        BY <1>2, <1>3, <1>6 DEF WriteError
  <2>2. Return(t, "PhysicalStorageFailure") BY <1>6 DEF WriteError, IoError
  <2>3. CASE json' = json BY <2>2, <2>3, ReturnDisk
  <2>4. CASE json' = [json EXCEPT ![0] = c]
    <3>1. \A u \in Threads :
            IF u = t THEN pc'[u] = "idle" ELSE pc'[u] = pc[u] /\ doc'[u] = doc[u]
          BY <1>1, <2>2, ReturnAfter
    <3>2. QED BY <1>2, <2>4, <3>1, PutDisk
  <2>5. QED BY <2>1, <2>3, <2>4
<1>7. QED BY <1>5, <1>6

LEMMA OpenHashDisk ==
    ASSUME OneFlusher, IInv, NEW t \in Threads, OpenHash(t)
    PROVE  DiskInv'
<1> USE DEF OpenHash, history
<1>1. ThreadTypes /\ BaseInv BY TypeParts DEF IInv, BaseInv
<1>2. /\ doc[t] = seq /\ committed < seq /\ attempts \in Nat /\ attempts > 0
      /\ json[0] = seq /\ pc[t] \in Flushing
      /\ \A u \in Threads : u # t => pc[u] \notin Flushing
      BY PuttingFacts DEF IInv, DiskInv, InFlightInv, Putting
<1>3. CASE OpenFor(t, "write_hash")
  <2>1. \A u \in Threads : pc'[u] = IF u = t THEN "write_hash" ELSE pc[u]
        BY <1>1, <1>3, GotoAfter DEF OpenFor
  <2>2. handle'[t] = 0 /\ doc' = doc BY <1>1, <1>3 DEF OpenFor, ThreadTypes
  <2>3. \A u \in Threads : pc'[u] \in Flushing => u = t
        BY <1>2, <2>1
  <2>4. \A u \in Threads : pc'[u] \notin Renaming
        BY <2>1, <2>3 DEF Flushing, Renaming
  <2> USE DEF IInv, DiskInv
  <2>5. AckInv' BY <1>2, <2>2, <2>3, <2>4 DEF AckInv, Flushing
  <2>6. OrderInv' BY DEF OrderInv
  <2>7. InFlightInv' BY <1>2, <2>1, <2>2, <2>3 DEF InFlightInv, Flushing, Renaming, Putting
  <2>8. VacantInv' BY <2>1, <2>4, <2>3 DEF VacantInv, Flushing, Putting
  <2>9. SurviveInv' BY <2>4 DEF SurviveInv
  <2>10. ReadInv' BY <2>1 DEF ReadInv
  <2>11. CommittedDurable' BY <1>2 DEF CommittedDurable
  <2>12. QED BY <2>5, <2>6, <2>7, <2>8, <2>9, <2>10, <2>11
<1>4. CASE IoError(t) /\ UNCHANGED hash BY <1>4, ReturnDisk DEF IoError
<1>5. QED BY <1>3, <1>4

LEMMA WriteHashDisk ==
    ASSUME OneFlusher, IInv, NEW t \in Threads, WriteHash(t)
    PROVE  DiskInv'
<1> USE DEF WriteHash
<1>1. ThreadTypes /\ DataTypes /\ BaseInv BY TypeParts DEF IInv, BaseInv
<1>2. /\ doc[t] = seq /\ seq \in Docs /\ seq \in Nat /\ committed < seq
      /\ committed \in Nat /\ attempts \in Nat /\ attempts > 0
      /\ json[0] = seq /\ handle[t] = 0
      /\ \A u \in Threads : u # t => pc[u] \notin Flushing
      BY PuttingFacts DEF IInv, DiskInv, InFlightInv, Putting
<1>3. CASE /\ hash' = Put(hash, t, doc[t])
           /\ acked' = acked \cup {doc[t]}
           /\ committed' = doc[t]
           /\ attempts' = 0
           /\ Return(t, "Ok")
  <2>1. \A u \in Threads : pc'[u] = IF u = t THEN "idle" ELSE pc[u]
        BY <1>1, <1>3, ReturnAfter
  <2>2. \A u \in Threads : pc'[u] \notin Flushing /\ pc'[u] \notin Renaming \cup Putting
        BY <1>2, <2>1 DEF Flushing, Renaming, Putting
  <2>3. hash'[0] = seq
        BY <1>1, <1>2, <1>3, MissingAssumption, Numbers DEF Put, DataTypes
  <2> USE <1>3 DEF IInv, DiskInv
  <2>4. AckInv'
    <3>1. acked \subseteq Nat BY <1>1, Numbers DEF DataTypes
    <3>2. \A d \in acked' : d <= seq BY <1>2, <3>1 DEF AckInv
    <3>3. QED BY <1>2, <2>2, <3>2 DEF AckInv
  <2>5. OrderInv' BY DEF OrderInv
  <2>6. InFlightInv' BY <2>2 DEF InFlightInv, Flushing, Putting
  <2>7. VacantInv' BY <2>2 DEF VacantInv, Putting
  <2>8. SurviveInv' BY <1>2, <2>2 DEF SurviveInv
  <2>9. ReadInv' BY <2>1 DEF ReadInv
  <2>10. seq \notin {Absent, Empty, Torn} BY <1>2, ContentAssumption
  <2>11. CommittedDurable' BY <1>2, <2>3, <2>10 DEF CommittedDurable, Whole
  <2>12. QED BY <2>4, <2>5, <2>6, <2>7, <2>8, <2>9, <2>11
<1>4. CASE WriteError(t, hash) /\ UNCHANGED <<acked, committed, attempts>>
  <2>1. attempts # 0 BY <1>2
  <2>2. QED BY <1>4, <2>1, ReturnDisk DEF WriteError, IoError
<1>5. QED BY <1>3, <1>4

LEMMA StepInv == OneFlusher /\ IInv /\ [Next]_vars => IInv'
<1> SUFFICES ASSUME OneFlusher, IInv, [Next]_vars PROVE DiskInv'
    BY StepBase DEF IInv
<1>1. CASE \/ \E t \in Threads, d, r \in Needs : Open(t, d, r)
           \/ \E t \in Threads, k \in Keys : IsValueDefault(t, k)
      BY <1>1, QuietDisk
<1>2. CASE \E t \in Threads, c \in Calls : Call(t, c) BY <1>2, CallDisk
<1>3. ASSUME NEW t \in Threads, Step(t) PROVE DiskInv'
      BY <1>3, BodyDisk, RestoreDisk, SerializeDisk, RotateDisk, RenameHashDisk,
         RenameJsonDisk, OpenJsonDisk, WriteJsonDisk, OpenHashDisk, WriteHashDisk DEF Step
<1>4. CASE Crash
  <2>1. \A u \in Threads : pc'[u] \notin Flushing \cup {"check_hash"}
        BY <1>4 DEF Crash, Flushing, Renaming, Putting
  <2>2. QED BY <1>4, <2>1, KeepDisk DEF Crash, disk, history
<1>5. CASE UNCHANGED vars BY <1>5, KeepDisk DEF vars, disk, history
<1>6. QED BY <1>1, <1>2, <1>3, <1>4, <1>5 DEF Next

LEMMA Invariance == OneFlusher /\ Spec => []IInv
<1>1. Init => IInv
  <2>1. Init => DiskInv BY InitDisk
  <2>2. Init => BaseInv BY InitBase
  <2>3. QED BY <2>1, <2>2 DEF IInv
<1> SUFFICES ASSUME OneFlusher PROVE Spec => []IInv OBVIOUS
<1>2. IInv /\ [Next]_vars => IInv' BY StepInv
<1>3. QED BY <1>1, <1>2, PTL DEF Spec

\* With one flusher, the document whose flush returned Ok last is whole in slot
\* 0 until the next rotation, through every failure and crash.
THEOREM Durability == OneFlusher /\ Spec => []CommittedDurable
<1>1. IInv => CommittedDurable BY DEF IInv, DiskInv
<1>2. QED BY <1>1, Invariance, PTL

\* With one flusher, its JSON file outlives MaxCount more rotations.
THEOREM Survival == OneFlusher /\ Spec => []CommittedSurvives
<1>1. IInv => CommittedSurvives BY DEF IInv, DiskInv, SurviveInv, CommittedSurvives
<1>2. QED BY <1>1, Invariance, PTL

\* With one flusher, snapshot_restore compares the two files of one snapshot.
THEOREM OneSnapshotRead == OneFlusher /\ Spec => RestoreReadsOneSnapshot
<1> DEFINE A == \A t \in Threads :
                   pc[t] = "check_hash" /\ pc'[t] # "check_hash" /\ running' =>
                      json[read.slot] = read.json
<1>1. ASSUME IInv PROVE A BY <1>1 DEF IInv, DiskInv, ReadInv
<1>2. QED BY <1>1, Invariance, PTL DEF RestoreReadsOneSnapshot

-----------------------------------------------------------------------------
(* The files implement the queue of SnapshotStore *)

\* The documents the abstract queue holds.
Kept == {d \in acked : \E s \in Slots : json[s] = d}

\* A step that leaves the JSON files and the acknowledgements alone.
LEMMA KeptSame ==
    ASSUME UNCHANGED <<json, acked, committed>>
    PROVE  UNCHANGED <<Kept, committed>>
  BY DEF Kept

\* Moving a slot up evicts the oldest document or none.
LEMMA RenameJsonKept ==
    ASSUME IInv, NEW t \in Threads, RenameJson(t)
    PROVE  Store!Evict \/ UNCHANGED <<Kept, committed>>
<1> USE DEF RenameJson, history
<1>1. DataTypes /\ BaseInv BY TypeParts DEF IInv, BaseInv
<1>2. pc[t] \in Renaming BY DEF Renaming
<1>3. CASE json' = Renamed(json)
  <2>1. /\ idx > 0 /\ idx \in Slots /\ idx - 1 \in Slots /\ idx \in Nat
        /\ idx <= MaxCount /\ MaxCount \in Nat
        BY <1>1, <1>2, Numbers, RenamedIs
        DEF BaseInv, ThreadInv, DataTypes, Slots
  <2>2. acked \subseteq Docs /\ UNCHANGED <<acked, committed>> BY <1>1 DEF DataTypes
  <2>3. CASE json[idx - 1] = Absent
    <3>1. json' = json BY <1>1, <1>3, <2>1, <2>3, RenamedIs DEF DataTypes
    <3>2. QED BY <2>2, <3>1, KeptSame
  <2>4. CASE json[idx - 1] # Absent
    <3>1. \A s \in Slots :
            json'[s] = IF s = idx - 1 THEN Absent
                       ELSE IF s = idx THEN json[idx - 1] ELSE json[s]
          BY <1>1, <1>3, <2>1, <2>4, RenamedIs DEF DataTypes
    <3>2. ASSUME NEW d \in Docs
          PROVE  (\E s \in Slots : json'[s] = d) <=> (\E s \in Slots \ {idx} : json[s] = d)
      <4>1. d # Absent BY Numbers
      <4>2. idx - 1 # idx BY <2>1
      <4>3. ASSUME NEW s \in Slots, json'[s] = d
            PROVE  \E q \in Slots \ {idx} : json[q] = d
            BY <2>1, <3>1, <4>1, <4>2, <4>3
      <4>4. ASSUME NEW s \in Slots \ {idx}, json[s] = d
            PROVE  \E q \in Slots : json'[q] = d
            BY <2>1, <3>1, <4>1, <4>2, <4>4
      <4>5. QED BY <4>3, <4>4
    <3>3. \A d \in Docs, s \in Slots : json[idx] = d /\ json[s] = d => s = idx
          BY <2>1, Numbers DEF IInv, DiskInv, OrderInv, Slots
    <3>4. CASE json[idx] \notin acked BY <2>2, <3>2, <3>4 DEF Kept
    <3>5. CASE json[idx] \in acked
      <4>1. idx = MaxCount
        <5>1. json[idx] # Absent BY <2>2, <3>5, Numbers
        <5>2. ~(idx < MaxCount) BY <1>2, <5>1 DEF IInv, DiskInv, VacantInv
        <5>3. QED BY <2>1, <5>2
      <4>2. json[idx] \in Kept /\ Kept' = Kept \ {json[idx]}
            BY <2>1, <2>2, <3>2, <3>3, <3>5 DEF Kept
      <4>3. ASSUME NEW d \in Kept PROVE json[idx] <= d
        <5>1. PICK s \in Slots : json[s] = d BY DEF Kept
        <5>2. d \in Docs /\ json[idx] \in Docs BY <2>2, <3>5 DEF Kept
        <5>3. d \in Nat /\ json[idx] \in Nat BY <5>2, Numbers
        <5>4. CASE s = idx BY <5>1, <5>3, <5>4
        <5>5. CASE s # idx
          <6>1. s < idx BY <2>1, <4>1, <5>5 DEF Slots
          <6>2. QED BY <2>1, <5>1, <5>2, <5>3, <6>1 DEF IInv, DiskInv, OrderInv
        <5>6. QED BY <5>4, <5>5
      <4>4. QED BY <2>2, <4>2, <4>3 DEF Store!Evict, Kept
    <3>6. QED BY <3>4, <3>5
  <2>5. QED BY <2>3, <2>4
<1>4. CASE UNCHANGED json BY <1>4, KeptSame
<1>5. QED BY <1>3, <1>4

\* While slot 0 is written the running flush has no acknowledged document there.
LEMMA PutKept ==
    ASSUME OneFlusher, IInv, NEW t \in Threads, OpenJson(t) \/ WriteJson(t)
    PROVE  UNCHANGED <<Kept, committed>>
<1> USE DEF OpenJson, WriteJson, history
<1>1. DataTypes BY TypeParts DEF IInv, BaseInv
<1>2. /\ doc[t] = seq /\ seq \in Docs /\ seq \in Nat /\ committed < seq
      /\ committed \in Nat
      BY PuttingFacts DEF Putting
<1>3. seq \notin acked BY <1>2 DEF IInv, DiskInv, AckInv
<1>4. acked \subseteq Docs BY <1>1 DEF DataTypes
<1>5. json[0] \notin acked
  <2>1. json[0] \in {Absent, Empty} BY DEF IInv, DiskInv, InFlightInv, VacantInv
  <2>2. QED BY <1>4, <2>1, Numbers
<1>6. json' = json \/ \E c \in {seq, Empty, Torn} : json' = [json EXCEPT ![0] = c]
  <2>1. CASE OpenJson(t) BY <2>1
  <2>2. CASE WriteJson(t)
    <3>1. json[0] = Empty /\ handle[t] = 0 BY <2>2 DEF IInv, DiskInv, InFlightInv
    <3>2. \A c : Put(json, t, c) = [json EXCEPT ![0] = c]
          BY <3>1, MissingAssumption DEF Put
    <3>3. Written(t) = {seq} BY <1>2, <3>1 DEF Written
    <3>4. QED BY <1>2, <2>2, <3>2, <3>3 DEF WriteError
  <2>3. QED BY <2>1, <2>2
<1>7. CASE json' = json BY <1>7, KeptSame
<1>8. ASSUME NEW c \in {seq, Empty, Torn}, json' = [json EXCEPT ![0] = c]
      PROVE  UNCHANGED <<Kept, committed>>
  <2>1. \A s \in Slots : json'[s] = IF s = 0 THEN c ELSE json[s]
        BY <1>1, <1>8 DEF DataTypes
  <2>2. c \notin acked BY <1>3, <1>4, <1>8, Numbers
  <2>3. QED BY <1>5, <2>1, <2>2, Numbers DEF Kept
<1>9. QED BY <1>6, <1>7, <1>8

\* Writing the hash pushes the document.
LEMMA WriteHashKept ==
    ASSUME OneFlusher, IInv, NEW t \in Threads, WriteHash(t)
    PROVE  Store!Push \/ UNCHANGED <<Kept, committed>>
<1> USE DEF WriteHash
<1>1. doc[t] = seq /\ seq \in Nat /\ committed < seq /\ committed \in Nat /\ json[0] = seq
      BY PuttingFacts DEF IInv, DiskInv, InFlightInv, Putting
<1>2. CASE acked' = acked \cup {doc[t]} /\ committed' = doc[t]
  <2>1. committed' > committed /\ committed' \in Nat BY <1>1, <1>2
  <2>2. Kept' = Kept \cup {committed'} BY <1>1, <1>2, Numbers DEF Kept
  <2>3. QED BY <2>1, <2>2 DEF Store!Push, Kept
<1>3. CASE UNCHANGED <<acked, committed>> BY <1>3, KeptSame
<1>4. QED BY <1>2, <1>3

\* Every step of the store is a step of the queue or leaves it alone.
LEMMA StepKept == OneFlusher /\ IInv /\ [Next]_vars => [Store!Next]_<<Kept, committed>>
<1> SUFFICES ASSUME OneFlusher, IInv, [Next]_vars
             PROVE  Store!Next \/ UNCHANGED <<Kept, committed>>
    OBVIOUS
<1>1. ASSUME NEW t \in Threads, RenameJson(t)
      PROVE  Store!Next \/ UNCHANGED <<Kept, committed>>
      BY <1>1, RenameJsonKept DEF Store!Next
<1>2. ASSUME NEW t \in Threads, OpenJson(t) \/ WriteJson(t)
      PROVE  UNCHANGED <<Kept, committed>>
      BY <1>2, PutKept
<1>3. ASSUME NEW t \in Threads, WriteHash(t)
      PROVE  Store!Next \/ UNCHANGED <<Kept, committed>>
      BY <1>3, WriteHashKept DEF Store!Next
<1>4. ASSUME NEW t \in Threads,
             \/ \E k \in Keys : GetValue(t, k) \/ RemoveKey(t, k) \/ ResetKey(t, k)
             \/ \E k \in Keys, v \in Values : SetValue(t, k, v)
             \/ Reset(t) \/ CheckHash(t)
      PROVE  UNCHANGED <<json, acked, committed>>
      BY <1>4 DEF GetValue, RemoveKey, ResetKey, SetValue, Reset, CheckHash, Body,
         disk, history
<1>5. ASSUME NEW t \in Threads,
             \/ \E id \in Slots : Restore(t, id)
             \/ Serialize(t) \/ Rotate(t) \/ RenameHash(t) \/ OpenHash(t)
      PROVE  UNCHANGED <<json, acked, committed>>
      BY <1>5 DEF Restore, Serialize, Rotate, RenameHash, OpenHash, disk, history
<1>6. CASE \/ \E t \in Threads, d, r \in Needs : Open(t, d, r)
           \/ \E t \in Threads, c \in Calls : Call(t, c)
           \/ \E t \in Threads, k \in Keys : IsValueDefault(t, k)
           \/ Crash
           \/ UNCHANGED vars
  <2>1. UNCHANGED <<json, acked, committed>>
        BY <1>6 DEF Open, Call, IsValueDefault, Crash, vars, disk, history
  <2>2. QED BY <2>1, KeptSame
<1>7. QED BY <1>1, <1>2, <1>3, <1>4, <1>5, <1>6, KeptSame DEF Next, Step

\* With one flusher the C++ store implements the queue of acknowledged
\* documents: one leaves the disk only as the oldest.
THEOREM Implementation == OneFlusher /\ Spec => StoreSpec
<1>1. Init => Store!Init BY DEF Init, Store!Init
<1> SUFFICES ASSUME OneFlusher PROVE Spec => StoreSpec OBVIOUS
<1>2. IInv /\ [Next]_vars => [Store!Next]_<<Kept, committed>> BY StepKept
<1>3. Spec => []IInv BY Invariance
<1>4. QED BY <1>1, <1>2, <1>3, PTL DEF Spec, StoreSpec, Store!Spec, Kept

-----------------------------------------------------------------------------
(* How long a call takes, whatever the number of flushers *)

LEMMA StepsAre ==
    ASSUME BaseInv, NEW t \in Threads
    PROVE  /\ StepsLeft(t) \in Nat
           /\ pc[t] # "idle" => StepsLeft(t) > 0
<1>1. idx \in Nat /\ MaxCount \in Nat
      BY Numbers, TypeParts DEF BaseInv, DataTypes
<1>2. QED BY <1>1 DEF StepsLeft

\* The call of t has returned.
LEMMA ReturnLess ==
    ASSUME BaseInv, NEW t \in Threads, NEW code, Return(t, code), pc[t] # "idle"
    PROVE  /\ StepsLeft(t)' < StepsLeft(t)
           /\ \A u \in Threads : u # t => pc'[u] = pc[u]
<1>1. pc'[t] = "idle" BY ReturnAfter
<1>2. StepsLeft(t)' = 0 BY <1>1 DEF StepsLeft
<1>3. StepsLeft(t) \in Nat /\ StepsLeft(t) > 0 BY StepsAre
<1>4. QED BY <1>2, <1>3, ReturnAfter

\* A step of thread t brings its call nearer to its end.  It uses the loop
\* variable of the rotation only while it is the one to have the mutex.
LEMMA StepLess ==
    ASSUME BaseInv, NEW t \in Threads, Step(t)
    PROVE  /\ pc[t] # "idle"
           /\ StepsLeft(t)' < StepsLeft(t)
           /\ \A u \in Threads : u # t => pc'[u] = pc[u]
           /\ idx' = idx \/ owner \in {t, Nobody}
<1>1. /\ idx \in Nat /\ MaxCount \in Nat
      /\ pc[t] \in Renaming => idx > 0 /\ owner = t
      BY Numbers, TypeParts DEF BaseInv, ThreadInv, ThreadTypes, DataTypes, Renaming, Locked
<1>2. ASSUME NEW label \in Locked, NEW m, NEW code, Body(t, label, m, code)
      PROVE  /\ pc[t] # "idle"
             /\ StepsLeft(t)' < StepsLeft(t)
             /\ \A u \in Threads : u # t => pc'[u] = pc[u]
             /\ idx' = idx
  <2>1. pc[t] # "idle" /\ Return(t, code) /\ idx' = idx
        BY <1>2 DEF Body, Leave, Locked, Writing
  <2>2. QED BY <2>1, ReturnLess
<1>3. {"get", "set", "remove", "reset", "reset_key", "check_hash"} \subseteq Locked
      BY DEF Locked, Writing
<1>4. CASE \E k \in Keys : GetValue(t, k) \/ RemoveKey(t, k) \/ ResetKey(t, k)
      BY <1>2, <1>3, <1>4 DEF GetValue, RemoveKey, ResetKey
<1>5. CASE \E k \in Keys, v \in Values : SetValue(t, k, v)
      BY <1>2, <1>3, <1>5 DEF SetValue
<1>6. CASE Reset(t) BY <1>2, <1>3, <1>6 DEF Reset
<1>7. CASE CheckHash(t) BY <1>2, <1>3, <1>7 DEF CheckHash
<1>8. CASE \E id \in Slots : Restore(t, id)
  <2>1. pc[t] = "restore" /\ idx' = idx BY <1>8 DEF Restore
  <2>2. CASE \E code \in Results : Return(t, code) BY <2>1, <2>2, ReturnLess
  <2>3. CASE Goto(t, "check_hash")
        BY <2>1, <2>3, GotoAfter DEF StepsLeft
  <2>4. QED BY <1>8, <2>2, <2>3 DEF Restore, Leave, Results
<1>9. CASE Serialize(t)
  <2>1. pc[t] = "serialize" /\ idx' = idx BY <1>9 DEF Serialize
  <2>2. CASE Return(t, "JsonGeneratorError") BY <2>1, <2>2, ReturnLess
  <2>3. CASE Goto(t, "rotate") BY <1>1, <2>1, <2>3, GotoAfter DEF StepsLeft
  <2>4. QED BY <1>9, <2>2, <2>3 DEF Serialize, Leave
<1>10. CASE Rotate(t)
  <2>1. pc[t] = "rotate" BY <1>10 DEF Rotate
  <2>2. CASE owner = Nobody /\ Goto(t, "rename_hash") /\ idx' = MaxCount
        BY <1>1, <2>1, <2>2, GotoAfter DEF StepsLeft
  <2>3. CASE Return(t, "MutexLockFailed") /\ idx' = idx BY <2>1, <2>3, ReturnLess
  <2>4. QED BY <1>10, <2>2, <2>3 DEF Rotate, TryLock
<1>11. CASE RenameHash(t)
  <2>1. pc[t] = "rename_hash" /\ idx' = idx BY <1>11 DEF RenameHash
  <2>2. CASE Return(t, "PhysicalStorageFailure") BY <2>1, <2>2, ReturnLess
  <2>3. CASE Goto(t, "rename_json") BY <1>1, <2>1, <2>3, GotoAfter DEF StepsLeft
  <2>4. QED BY <1>11, <2>2, <2>3 DEF RenameHash, IoError
<1>12. CASE RenameJson(t)
  <2>1. pc[t] = "rename_json" /\ owner = t BY <1>1, <1>12 DEF RenameJson, Renaming
  <2>2. CASE Return(t, "PhysicalStorageFailure") BY <2>1, <2>2, ReturnLess
  <2>3. CASE idx = 1 /\ Goto(t, "open_json")
        BY <1>1, <2>1, <2>3, GotoAfter DEF StepsLeft
  <2>4. CASE idx' = idx - 1 /\ Goto(t, "rename_hash")
        BY <1>1, <2>1, <2>4, GotoAfter DEF StepsLeft
  <2>5. QED BY <1>12, <2>1, <2>2, <2>3, <2>4 DEF RenameJson, IoError
<1>13. CASE OpenJson(t)
  <2>1. pc[t] = "open_json" /\ idx' = idx BY <1>13 DEF OpenJson
  <2>2. CASE Return(t, "PhysicalStorageFailure") BY <2>1, <2>2, ReturnLess
  <2>3. CASE Goto(t, "write_json") BY <2>1, <2>3, GotoAfter DEF StepsLeft
  <2>4. QED BY <1>13, <2>2, <2>3, <2>1 DEF OpenJson, OpenFor, IoError
<1>14. CASE WriteJson(t)
  <2>1. pc[t] = "write_json" /\ idx' = idx BY <1>14 DEF WriteJson
  <2>2. CASE Return(t, "PhysicalStorageFailure") BY <2>1, <2>2, ReturnLess
  <2>3. CASE Goto(t, "open_hash") BY <2>1, <2>3, GotoAfter DEF StepsLeft
  <2>4. QED BY <1>14, <2>1, <2>2, <2>3 DEF WriteJson, WriteError, IoError
<1>15. CASE OpenHash(t)
  <2>1. pc[t] = "open_hash" /\ idx' = idx BY <1>15 DEF OpenHash
  <2>2. CASE Return(t, "PhysicalStorageFailure") BY <2>1, <2>2, ReturnLess
  <2>3. CASE Goto(t, "write_hash") BY <2>1, <2>3, GotoAfter DEF StepsLeft
  <2>4. QED BY <1>15, <2>1, <2>2, <2>3 DEF OpenHash, OpenFor, IoError
<1>16. CASE WriteHash(t)
  <2>1. pc[t] = "write_hash" /\ idx' = idx BY <1>16 DEF WriteHash
  <2>2. PICK code : Return(t, code) BY <1>16 DEF WriteHash, WriteError, IoError
  <2>3. QED BY <2>1, <2>2, ReturnLess
<1>17. Step(t) OBVIOUS
<1>18. QED
       BY <1>4, <1>5, <1>6, <1>7, <1>8, <1>9, <1>10, <1>11, <1>12, <1>13, <1>14, <1>15,
          <1>16, <1>17
       DEF Step

\* A step that is not of the call of t leaves it where it is.
LEMMA OthersStep ==
    ASSUME BaseInv, NEW t \in Threads, pc[t] # "idle", Next, ~Step(t), ~Crash
    PROVE  pc'[t] = pc[t] /\ (pc[t] \in Renaming => idx' = idx)
<1>1. CASE \E u \in Threads, d, r \in Needs : Open(u, d, r) BY <1>1 DEF Open
<1>2. CASE \E u \in Threads, c \in Calls : Call(u, c)
  <2>1. PICK u \in Threads, c \in Calls : Call(u, c) BY <1>2
  <2>2. u # t /\ idx' = idx BY <2>1 DEF Call
  <2>3. Goto(u, c) \/ Return(u, "MutexLockFailed") BY <2>1 DEF Call, TryLock
  <2>4. QED BY <2>2, <2>3, GotoAfter, ReturnAfter
<1>3. CASE \E u \in Threads, k \in Keys : IsValueDefault(u, k)
  <2>1. PICK u \in Threads, k \in Keys : IsValueDefault(u, k) BY <1>3
  <2>2. u # t /\ idx' = idx BY <2>1 DEF IsValueDefault
  <2>3. \E answer : Return(u, answer) BY <2>1 DEF IsValueDefault
  <2>4. QED BY <2>2, <2>3, ReturnAfter
<1>4. CASE \E u \in Threads : Step(u)
  <2>1. PICK u \in Threads : Step(u) /\ u # t BY <1>4
  <2>2. pc'[t] = pc[t] /\ (idx' = idx \/ owner \in {u, Nobody}) BY <2>1, StepLess
  <2>3. pc[t] \in Renaming => owner = t
        BY TypeParts DEF BaseInv, ThreadTypes, Renaming, Locked
  <2>4. QED BY <2>1, <2>2, <2>3, NobodyAssumption
<1>5. QED BY <1>1, <1>2, <1>3, <1>4 DEF Next

\* Every call is wait-free, for any number of threads, flushers and slots.
THEOREM WaitFree == Spec => CallsAreBounded
<1> DEFINE A == \A t \in Threads : pc[t] # "idle" =>
                   \/ StepsLeft(t)' < StepsLeft(t)
                   \/ StepsLeft(t)' = StepsLeft(t) /\ ~Step(t)
<1>1. ASSUME BaseInv, [Next]_vars PROVE [A]_vars
  <2> SUFFICES ASSUME NEW t \in Threads, Next, pc[t] # "idle"
               PROVE  \/ StepsLeft(t)' < StepsLeft(t)
                      \/ StepsLeft(t)' = StepsLeft(t) /\ ~Step(t)
      BY <1>1
  <2>1. CASE Step(t) BY <1>1, <2>1, StepLess
  <2>2. CASE Crash
    <3>1. StepsLeft(t)' = 0 BY <2>2 DEF Crash, StepsLeft
    <3>2. QED BY <1>1, <3>1, StepsAre
  <2>3. CASE ~Step(t) /\ ~Crash
    <3>1. pc'[t] = pc[t] /\ (pc[t] \in Renaming => idx' = idx)
          BY <1>1, <2>3, OthersStep
    <3>2. StepsLeft(t)' = StepsLeft(t) BY <3>1 DEF StepsLeft, Renaming
    <3>3. QED BY <2>3, <3>2
  <2>4. QED BY <2>1, <2>2, <2>3
<1>2. Init => BaseInv BY InitBase
<1>3. BaseInv /\ [Next]_vars => BaseInv' BY StepBase
<1>4. QED BY <1>1, <1>2, <1>3, PTL DEF Spec, CallsAreBounded

=============================================================================
