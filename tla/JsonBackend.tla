----------------------------- MODULE JsonBackend -----------------------------
(***************************************************************************)
(* The file backend of the Rust key-value store (rust_kvs/json_backend.rs) *)
(* at the granularity of its system calls, with the operations of kvs.rs   *)
(* and kvs_builder.rs that drive it under the data mutex.                  *)
(*                                                                         *)
(* Every slot of one instance has a JSON file and a hash file.  A document *)
(* is the content of the map at one flush and is named by the number of    *)
(* that flush; the hash of a document is named by the same number, so      *)
(* checking a file against its hash is comparing the two numbers.          *)
(*                                                                         *)
(* A crash is the end of the process: what was written stays written.      *)
(* A look at a file, Path::exists(), takes a failed stat for a file that   *)
(* is not there.                                                           *)
(***************************************************************************)
EXTENDS Naturals

CONSTANTS
    MaxCount,   \* JsonBackend.snapshot_max_count
    MaxFlush,   \* bound: number of flushes a behaviour may begin
    Faults,     \* which of "io", "string", "crash" may happen
    Absent,     \* the file does not exist
    Torn        \* the file was truncated and not, or only partly, written

ASSUME MaxCountAssumption == MaxCount \in Nat \ {0}
ASSUME MaxFlushAssumption == MaxFlush \in Nat
ASSUME FaultsAssumption == Faults \subseteq {"io", "string", "crash"}
ASSUME ContentAssumption ==
    /\ Absent \notin Nat
    /\ Torn \notin Nat
    /\ Absent # Torn

VARIABLES
    json,       \* content of kvs_<instance>_<slot>.json
    hash,       \* content of kvs_<instance>_<slot>.hash
    pc,         \* where the process is: "down", "idle" or inside flush
    idx,        \* loop variable of snapshot_rotate
    mem,        \* document held by the map in memory, 0 for the empty map
    result,     \* outcome of the last operation
    seq,        \* flushes begun so far: the number of the newest document
    acked,      \* documents whose flush has made its last write: it returns Ok
    committed,  \* the newest of them, 0 when there is none
    attempts,   \* flushes begun since then
    misled      \* the last flush whose rotation did not see a file that was
                \* there, 0 when there is none

disk == <<json, hash>>
history == <<seq, acked, committed, attempts, misled>>
vars == <<json, hash, pc, idx, mem, result, seq, acked, committed, attempts, misled>>

\* A slot past the last one the rotation may fill is kept, so that a rotation
\* or a restore that goes one slot too far is visible.
Slots == 0 .. MaxCount
Docs == Nat \ {0}
Content == Docs \cup {Absent, Torn}

Modes == {"Ignored", "Optional", "Required"}
Flushing == {"rotate", "rename_hash", "rename_json", "stringify",
             "open_json", "write_json", "open_hash", "write_hash"}
Results == {"Ok", "FileNotFound", "ValidationFailed", "UnmappedError",
            "InvalidSnapshotId", "IntegrityCorrupted", "JsonGeneratorError"}

TypeOK ==
    /\ json \in [Slots -> Content]
    /\ hash \in [Slots -> Content]
    /\ pc \in Flushing \cup {"down", "idle"}
    /\ idx \in 0 .. MaxCount - 1
    /\ mem \in Nat
    /\ result \in Results
    /\ seq \in Nat
    /\ acked \subseteq Docs
    /\ committed \in Nat
    /\ attempts \in Nat
    /\ misled \in 0 .. seq

Init ==
    /\ json = [s \in Slots |-> Absent]
    /\ hash = [s \in Slots |-> Absent]
    /\ pc = "down"
    /\ idx = 0
    /\ mem = 0
    /\ result = "Ok"
    /\ seq = 0
    /\ acked = {}
    /\ committed = 0
    /\ attempts = 0
    /\ misled = 0

-----------------------------------------------------------------------------
(* Loading a slot *)

Exists(file, s) == file[s] # Absent

\* What Path::exists() answers: a failed stat is an answer, "not there".
Looks(file, s) == {Exists(file, s)} \cup (IF "io" \in Faults THEN {FALSE} ELSE {})

\* Faulty variant: the hash is read but not compared.
LoadableUnchecked(s) == json[s] \in Docs /\ Exists(hash, s)

Loadable(s) == json[s] \in Docs /\ hash[s] = json[s]

\* The outcomes of JsonBackend::load.  A missing file is NotFound; a file that
\* does not match its hash, or a hash that is not four bytes long, is
\* ValidationFailed.  Any other read error, a torn file cut inside a UTF-8
\* sequence included, is UnmappedError.
LoadResults(s) ==
    LET outcome == IF ~Exists(json, s) \/ ~Exists(hash, s) THEN "FileNotFound"
                   ELSE IF Loadable(s) THEN "Ok" ELSE "ValidationFailed"
    IN  {outcome} \cup (IF "io" \in Faults THEN {"UnmappedError"} ELSE {})

\* KvsBuilder::build on a process that has no instance yet: slot 0 is loaded
\* in the mode the application asks for.
Open(mode) ==
    /\ pc = "down"
    /\ \E r \in IF mode = "Ignored" THEN {"Ok"} ELSE LoadResults(0) :
         LET opened == r = "Ok" \/ (mode = "Optional" /\ r = "FileNotFound")
         IN  /\ pc' = IF opened THEN "idle" ELSE "down"
             /\ mem' = IF r = "Ok" /\ mode # "Ignored" THEN json[0] ELSE 0
             /\ result' = IF opened THEN "Ok" ELSE r
    /\ UNCHANGED <<disk, idx, history>>

-----------------------------------------------------------------------------
(* Flushing *)

\* An early return of flush with an error.
Fail(code) ==
    /\ pc' = "idle"
    /\ result' = code
    /\ UNCHANGED <<disk, idx, mem, history>>

IoError == "io" \in Faults /\ Fail("UnmappedError")

\* Faulty variant: the loop runs over 1..MaxCount inclusive of its end.
FlushBeginLong ==
    /\ pc = "idle"
    /\ seq < MaxFlush
    /\ pc' = "rotate"
    /\ idx' = MaxCount
    /\ seq' = seq + 1
    /\ attempts' = attempts + 1
    /\ mem' = seq + 1
    /\ UNCHANGED <<disk, result, acked, committed, misled>>

\* Faulty variant: the loop runs over 1..MaxCount-1 exclusive of its end.
FlushBeginShort ==
    /\ pc = "idle"
    /\ seq < MaxFlush
    /\ pc' = "rotate"
    /\ idx' = IF MaxCount > 1 THEN MaxCount - 2 ELSE 0
    /\ seq' = seq + 1
    /\ attempts' = attempts + 1
    /\ mem' = seq + 1
    /\ UNCHANGED <<disk, result, acked, committed, misled>>

FlushBegin ==
    /\ pc = "idle"
    /\ seq < MaxFlush
    /\ pc' = "rotate"
    /\ idx' = MaxCount - 1
    /\ seq' = seq + 1
    /\ attempts' = attempts + 1
    /\ mem' = seq + 1
    /\ UNCHANGED <<disk, result, acked, committed, misled>>

\* j and h are what the rotation sees of the two files of slot idx-1.
Seen(j, h) ==
    /\ j \in Looks(json, idx - 1)
    /\ h \in Looks(hash, idx - 1)
    /\ misled' = IF j = Exists(json, idx - 1) /\ h = Exists(hash, idx - 1)
                 THEN misled ELSE seq

\* Faulty variant: a slot with one of its two files missing is passed over.
RotateCheckLenient ==
    /\ pc = "rotate"
    /\ idx > 0
    /\ \E j, h \in BOOLEAN :
         /\ Seen(j, h)
         /\ \/ ~(j /\ h) /\ idx' = idx - 1 /\ UNCHANGED <<pc, result>>
            \/ j /\ h /\ pc' = "rename_hash" /\ UNCHANGED <<idx, result>>
    /\ UNCHANGED <<disk, mem, seq, acked, committed, attempts>>

\* Faulty variant: an empty slot is passed over without counting down.
RotateCheckStuck ==
    /\ pc = "rotate"
    /\ idx > 0
    /\ \E j, h \in BOOLEAN :
         /\ Seen(j, h)
         /\ \/ ~j /\ ~h /\ UNCHANGED <<pc, idx, result>>
            \/ j /\ h /\ pc' = "rename_hash" /\ UNCHANGED <<idx, result>>
            \/ j # h /\ pc' = "idle" /\ result' = "IntegrityCorrupted" /\ UNCHANGED idx
    /\ UNCHANGED <<disk, mem, seq, acked, committed, attempts>>

\* The head of the loop of snapshot_rotate: moving slot idx-1 to slot idx.  A
\* slot in which no file is seen is passed over, one in which only one of the
\* two is seen stops the flush.
RotateCheck ==
    /\ pc = "rotate"
    /\ idx > 0
    /\ \E j, h \in BOOLEAN :
         /\ Seen(j, h)
         /\ \/ ~j /\ ~h /\ idx' = idx - 1 /\ UNCHANGED <<pc, result>>
            \/ j /\ h /\ pc' = "rename_hash" /\ UNCHANGED <<idx, result>>
            \/ j # h /\ pc' = "idle" /\ result' = "IntegrityCorrupted" /\ UNCHANGED idx
    /\ UNCHANGED <<disk, mem, seq, acked, committed, attempts>>

RotateDone ==
    /\ pc = "rotate"
    /\ idx = 0
    /\ pc' = "stringify"
    /\ UNCHANGED <<disk, idx, mem, result, history>>

Renamed(file) == [file EXCEPT ![idx] = file[idx - 1], ![idx - 1] = Absent]

\* Faulty variant: only the JSON file is renamed.
RenameHashSkipped ==
    /\ pc = "rename_hash"
    /\ pc' = "rename_json"
    /\ UNCHANGED <<disk, idx, mem, result, history>>

RenameHash ==
    /\ pc = "rename_hash"
    /\ \/ /\ hash' = Renamed(hash)
          /\ pc' = "rename_json"
          /\ UNCHANGED <<json, idx, mem, result, history>>
       \/ IoError

RenameJson ==
    /\ pc = "rename_json"
    /\ \/ /\ json' = Renamed(json)
          /\ idx' = idx - 1
          /\ pc' = "rotate"
          /\ UNCHANGED <<hash, mem, result, history>>
       \/ IoError

\* A number JSON cannot express (an infinity or NaN) stops the flush here.
Stringify ==
    /\ pc = "stringify"
    /\ \/ /\ pc' = "open_json"
          /\ UNCHANGED <<disk, idx, mem, result, history>>
       \/ "string" \in Faults /\ Fail("JsonGeneratorError")

\* fs::write is an open that creates or truncates the file, then a write.
OpenJson ==
    /\ pc = "open_json"
    /\ \/ /\ json' = [json EXCEPT ![0] = Torn]
          /\ pc' = "write_json"
          /\ UNCHANGED <<hash, idx, mem, result, history>>
       \/ IoError

WriteJson ==
    /\ pc = "write_json"
    /\ \/ /\ json' = [json EXCEPT ![0] = seq]
          /\ pc' = "open_hash"
          /\ UNCHANGED <<hash, idx, mem, result, history>>
       \/ IoError

OpenHash ==
    /\ pc = "open_hash"
    /\ \/ /\ hash' = [hash EXCEPT ![0] = Torn]
          /\ pc' = "write_hash"
          /\ UNCHANGED <<json, idx, mem, result, history>>
       \/ IoError

\* Faulty variant: an error of the last write is dropped.
WriteHashUnchecked ==
    /\ pc = "write_hash"
    /\ \/ hash' = [hash EXCEPT ![0] = seq]
       \/ "io" \in Faults /\ UNCHANGED hash
    /\ pc' = "idle"
    /\ result' = "Ok"
    /\ acked' = acked \cup {seq}
    /\ committed' = seq
    /\ attempts' = 0
    /\ UNCHANGED <<json, idx, mem, seq, misled>>

WriteHash ==
    /\ pc = "write_hash"
    /\ \/ /\ hash' = [hash EXCEPT ![0] = seq]
          /\ pc' = "idle"
          /\ result' = "Ok"
          /\ acked' = acked \cup {seq}
          /\ committed' = seq
          /\ attempts' = 0
          /\ UNCHANGED <<json, idx, mem, seq, misled>>
       \/ IoError

FlushStep ==
    \/ RotateCheck \/ RotateDone \/ RenameHash \/ RenameJson \/ Stringify
    \/ OpenJson \/ WriteJson \/ OpenHash \/ WriteHash

-----------------------------------------------------------------------------
(* Snapshots *)

\* The length of the gap-free run of JSON files that starts at slot 0.
SnapshotCount ==
    CHOOSE n \in 0 .. MaxCount :
        /\ \A s \in 0 .. n - 1 : Exists(json, s)
        /\ n < MaxCount => ~Exists(json, n)

\* What JsonBackend::snapshot_count returns when no flush is running: it ends
\* at the first file it does not see.
Counts == {SnapshotCount} \cup (IF "io" \in Faults THEN 0 .. SnapshotCount ELSE {})

\* Faulty variant: the newest n - 1 snapshots only.
RestoreResultsShort(id, n) ==
    IF id = 0 \/ n - 1 <= id THEN {"InvalidSnapshotId"} ELSE LoadResults(id)

RestoreResults(id, n) ==
    IF id = 0 \/ n < id THEN {"InvalidSnapshotId"} ELSE LoadResults(id)

\* snapshot_restore when snapshot_count has returned n.
RestoreOf(id, n) ==
    /\ pc = "idle"
    /\ \E r \in RestoreResults(id, n) :
         /\ result' = r
         /\ mem' = IF r = "Ok" THEN json[id] ELSE mem
    /\ UNCHANGED <<disk, pc, idx, history>>

Restore(id) == \E n \in Counts : RestoreOf(id, n)

Crash ==
    /\ "crash" \in Faults
    /\ pc # "down"
    /\ pc' = "down"
    /\ mem' = 0
    /\ UNCHANGED <<disk, idx, result, history>>

Next ==
    \/ \E mode \in Modes : Open(mode)
    \/ FlushBegin
    \/ FlushStep
    \/ \E id \in Slots : Restore(id)
    \/ Crash

Spec == Init /\ [][Next]_vars

-----------------------------------------------------------------------------
(* Properties *)

\* A document whose flush returned Ok is in slot 0, whole, until the next
\* flush begins, whatever crashes and reopenings happen in between.
CommittedDurable ==
    attempts = 0 /\ committed > 0 => Loadable(0) /\ json[0] = committed

\* The JSON file of the last document whose flush returned Ok is on disk as
\* long as fewer than MaxCount flushes have begun since, wherever those were
\* stopped by a failure or a crash, unless the rotation of one of them did not
\* see a file: two failed looks at one slot and the slot is written over.
CommittedSurvives ==
    committed > 0 /\ attempts < MaxCount /\ misled <= committed =>
        \E s \in 0 .. attempts : json[s] = committed

\* What build and snapshot_restore put in memory is a document whose flush
\* returned Ok: never a torn file, never one whose flush failed half way.
LoadsOnlyAcked ==
    [][mem' # mem /\ pc' = "idle" => mem' \in acked]_vars

\* A flush that saw the files it looked at returns Ok only when no slot is left
\* with one of its two files: a rotation that was cut short, or one that did not
\* see a file, is never papered over.
AckMeansWhole ==
    [][acked' # acked /\ misled # seq =>
          \A s \in Slots : Exists(json', s) <=> Exists(hash', s)]_vars

\* No flush so far was stopped by a failure or a crash, or did not see a file
\* it looked at.
Uninterrupted == acked = 1 .. seq /\ misled = 0

\* The same while a flush is running: the document of that flush is the only one
\* that is not acknowledged.
Steady ==
    /\ acked = 1 .. seq \/ (pc \in Flushing /\ acked = 1 .. seq - 1)
    /\ misled = 0

\* Rotation as a whole, when no flush was interrupted: slot s holds the document
\* flushed s flushes ago, up to MaxCount of them, and nothing else is on disk.
NewestFirst ==
    pc \in {"idle", "down"} /\ Uninterrupted =>
        \A s \in Slots :
            IF s < MaxCount /\ s < committed
            THEN Loadable(s) /\ json[s] = committed - s
            ELSE ~Exists(json, s) /\ ~Exists(hash, s)

\* When no flush was interrupted and the files can be seen and read,
\* snapshot_restore(id) gives the map flushed id flushes ago, for every id that
\* exists, and leaves the map alone for every other id.
RestoreExact ==
    [][\A id \in Slots :
          RestoreOf(id, SnapshotCount) /\ Uninterrupted /\ result' # "UnmappedError" =>
              IF id > 0 /\ id < MaxCount /\ id < committed
              THEN result' = "Ok" /\ mem' = committed - id
              ELSE result' # "Ok" /\ mem' = mem]_vars

\* IntegrityCorrupted is never the doing of flush itself: an earlier flush was
\* interrupted, or a rotation did not see a file that was there.
CorruptMeansInterrupted ==
    result = "IntegrityCorrupted" => acked # 1 .. seq - 1 \/ misled # 0

\* Restoring a snapshot that does not exist is InvalidSnapshotId.
MissingSnapshotIsInvalid ==
    [][\A id \in Slots : Restore(id) /\ ~Exists(json, id) =>
          result' = "InvalidSnapshotId"]_vars

\* Optional loads what is available: when the last acknowledged document is in
\* the JSON file of slot 0, build returns it or an error, not an empty map.
OptionalLoadsWhatIsThere ==
    [][Open("Optional") /\ pc' = "idle" /\ committed > 0 /\ json[0] = committed
          => mem' = committed]_vars

\* The files implement a queue of the acknowledged documents, through every
\* crash and every failure but one: a document leaves the disk only as the oldest
\* one, or by a flush whose rotation did not see a file.
onDisk == {d \in acked : \E s \in Slots : json[s] = d}
Store == INSTANCE SnapshotStore WITH store <- onDisk, newest <- committed
Overlooking == pc \in Flushing /\ misled = seq
StoreStep == Store!Next \/ (Overlooking /\ Store!Forget)
StoreSpec == Store!Init /\ [][StoreStep]_<<onDisk, committed>>

=============================================================================
