------------------------------- MODULE CppKvs -------------------------------
(***************************************************************************)
(* The C++ key-value store (cpp/src/kvs.cpp): threads of one process that  *)
(* share one Kvs object, and the files below it.                           *)
(*                                                                         *)
(* Every call tries the mutex and fails with MutexLockFailed when another  *)
(* thread has it.  flush takes it twice, to generate its string and to     *)
(* rotate, and writes the files of slot 0 without it.  A thread that has a *)
(* file open keeps writing to it when a rotation of another thread renames *)
(* it or renames another file over it.                                     *)
(*                                                                         *)
(* A document is the string one flush generated, and is named by its       *)
(* number; the hash of a document is named by the same number.             *)
(***************************************************************************)
EXTENDS Naturals

CONSTANTS
    Threads,
    Flushers,       \* bound: the threads that call flush
    Keys,
    Values,
    DefaultsFile,   \* the map in the defaults file, or Absent
    Missing,        \* a key that is not in a map
    MaxCount,       \* KVS_MAX_SNAPSHOTS
    MaxFlush,       \* bound: number of strings a behaviour may generate
    Faults,         \* which of "io", "json", "crash" may happen
    Absent,         \* the file does not exist
    Empty,          \* the file was opened for writing and is empty
    Torn,           \* the file is partly written, or written by two threads
    Nobody          \* no thread holds the mutex

ASSUME MaxCountAssumption == MaxCount \in Nat \ {0}
ASSUME MaxFlushAssumption == MaxFlush \in Nat
ASSUME FaultsAssumption == Faults \subseteq {"io", "json", "crash"}
ASSUME NobodyAssumption == Nobody \notin Threads
ASSUME FlushersAssumption == Flushers \subseteq Threads
ASSUME ContentAssumption ==
    /\ Absent \notin Nat /\ Empty \notin Nat /\ Torn \notin Nat
    /\ Absent # Empty /\ Absent # Torn /\ Empty # Torn
ASSUME MissingAssumption == Missing \notin Nat

VARIABLES
    json,       \* content of kvs_<instance>_<slot>.json
    hash,       \* content of kvs_<instance>_<slot>.hash
    running,    \* whether the process has opened the store
    map,        \* kvs
    defaults,   \* default_values
    owner,      \* the thread that holds kvs_mutex
    pc,         \* where each thread is
    result,     \* outcome of the last call of each thread, Ok during a call
    idx,        \* loop variable of the snapshot_rotate that holds the mutex
    read,       \* what the snapshot_restore that holds the mutex has read
    doc,        \* the document each thread is flushing
    handle,     \* the slot whose file each thread has open, or Missing
    seq,        \* documents generated so far
    content,    \* the map each of them was generated from
    acked,      \* documents whose flush returned Ok
    committed,  \* the last of them, 0 when there is none
    attempts    \* rotations begun since its flush returned

disk == <<json, hash>>
memory == <<map, defaults>>
history == <<seq, content, acked, committed, attempts>>
vars == <<disk, running, memory, owner, pc, result, idx, read, doc, handle, history>>

Slots == 0 .. MaxCount
Docs == 1 .. MaxFlush
Content == Docs \cup {Absent, Empty, Torn}
Maps == [Keys -> Values \cup {Missing}]
EmptyMap == [k \in Keys |-> Missing]
ASSUME DefaultsFileAssumption == DefaultsFile \in Maps \cup {Absent}

Writing == {"set", "remove", "reset", "reset_key", "check_hash"}
Locked == Writing \cup {"get", "restore", "serialize", "rename_hash", "rename_json"}
Unlocked == {"rotate", "open_json", "write_json", "open_hash", "write_hash"}
Results == {"Ok", "Default", "Changed", "KeyNotFound", "KeyDefaultNotFound", "MutexLockFailed",
            "KvsFileReadError", "KvsHashFileReadError", "ValidationFailed",
            "InvalidSnapshotId", "JsonGeneratorError", "PhysicalStorageFailure"}

TypeOK ==
    /\ json \in [Slots -> Content] /\ hash \in [Slots -> Content]
    /\ running \in BOOLEAN
    /\ map \in Maps /\ defaults \in Maps
    /\ owner \in Threads \cup {Nobody}
    /\ pc \in [Threads -> {"idle"} \cup Locked \cup Unlocked]
    /\ \A t \in Threads : pc[t] \in Locked <=> owner = t
    /\ result \in [Threads -> Results]
    /\ idx \in Slots
    /\ read \in [slot : Slots, json : Content]
    /\ doc \in [Threads -> Docs \cup {0}]
    /\ handle \in [Threads -> Slots \cup {Missing}]
    /\ seq \in 0 .. MaxFlush
    /\ content \in [Docs -> Maps]
    /\ acked \subseteq Docs
    /\ committed \in Docs \cup {0}
    /\ attempts \in Nat

NothingRead == [slot |-> 0, json |-> Absent]

Init ==
    /\ json = [s \in Slots |-> Absent] /\ hash = [s \in Slots |-> Absent]
    /\ running = FALSE
    /\ map = EmptyMap /\ defaults = EmptyMap
    /\ owner = Nobody
    /\ pc = [t \in Threads |-> "idle"]
    /\ result = [t \in Threads |-> "Ok"]
    /\ idx = 0
    /\ read = NothingRead
    /\ doc = [t \in Threads |-> 0]
    /\ handle = [t \in Threads |-> Missing]
    /\ seq = 0
    /\ content = [n \in Docs |-> EmptyMap]
    /\ acked = {} /\ committed = 0 /\ attempts = 0

-----------------------------------------------------------------------------
(* Calls and the mutex *)

Return(t, code) ==
    /\ pc' = [pc EXCEPT ![t] = "idle"]
    /\ result' = [result EXCEPT ![t] = code]
    /\ doc' = [doc EXCEPT ![t] = 0]
    /\ handle' = [handle EXCEPT ![t] = Missing]

\* Return from a call that holds the mutex.
Leave(t, code) == Return(t, code) /\ owner' = Nobody

Goto(t, label) ==
    /\ pc' = [pc EXCEPT ![t] = label]
    /\ result' = [result EXCEPT ![t] = "Ok"]

TryLock(t, label) ==
    \/ /\ owner = Nobody
       /\ owner' = t
       /\ Goto(t, label)
       /\ UNCHANGED <<doc, handle>>
    \/ /\ owner # Nobody
       /\ Return(t, "MutexLockFailed")
       /\ UNCHANGED owner

\* The calls that take the mutex first; "get" stands for get_all_keys,
\* key_exists and get_value, "serialize" for flush.
Calls == {"get", "set", "remove", "reset", "reset_key", "restore", "serialize"}

Call(t, c) ==
    /\ running
    /\ pc[t] = "idle"
    /\ c = "serialize" => t \in Flushers /\ seq < MaxFlush
    /\ TryLock(t, c)
    /\ UNCHANGED <<disk, running, memory, idx, read, history>>

\* The body of a call that holds the mutex and changes at most the map.
Body(t, label, newMap, code) ==
    /\ pc[t] = label
    /\ map' = newMap
    /\ Leave(t, code)
    /\ read' = NothingRead
    /\ UNCHANGED <<disk, running, defaults, idx, history>>

Has(m, k) == m[k] # Missing

GetValue(t, k) ==
    Body(t, "get", map, IF Has(map, k) \/ Has(defaults, k) THEN "Ok" ELSE "KeyNotFound")

SetValue(t, k, v) == Body(t, "set", [map EXCEPT ![k] = v], "Ok")

RemoveKey(t, k) ==
    Body(t, "remove", [map EXCEPT ![k] = Missing],
         IF Has(map, k) THEN "Ok" ELSE "KeyNotFound")

Reset(t) == Body(t, "reset", EmptyMap, "Ok")

ResetKey(t, k) ==
    IF Has(defaults, k)
    THEN Body(t, "reset_key", [map EXCEPT ![k] = Missing], "Ok")
    ELSE Body(t, "reset_key", map, "KeyDefaultNotFound")

\* is_value_default on the data as they are.
ValueDefault(k) ==
    IF Has(map, k) THEN "Changed" ELSE IF Has(defaults, k) THEN "Default" ELSE "KeyNotFound"

\* is_value_default takes no mutex.  While another thread changes the map the
\* read is a data race, and any answer may come back.
IsValueDefault(t, k) ==
    /\ running
    /\ pc[t] = "idle"
    /\ \E answer \in {"Default", "Changed", "KeyNotFound"} :
         /\ (\A u \in Threads : pc[u] \notin Writing) => answer = ValueDefault(k)
         /\ Return(t, answer)
    /\ UNCHANGED <<disk, running, memory, owner, idx, read, history>>

-----------------------------------------------------------------------------
(* Loading *)

\* Faulty variant: the hash is read but not compared.
WholeUnchecked(data, sum) == data \notin {Absent, Empty, Torn} /\ sum # Absent

Whole(data, sum) == data = sum /\ data \notin {Absent, Empty, Torn}

\* The outcomes of open_json on a file and its hash; NoFile is the empty map.
\* A file that cannot be opened is taken for one that is not there.
OpenJsonResults(data, sum, need) ==
    LET missing == IF need = "Required" THEN "KvsFileReadError" ELSE "NoFile"
        found == IF sum = Absent THEN "KvsHashFileReadError"
                 ELSE IF Whole(data, sum) THEN "Ok" ELSE "ValidationFailed"
    IN  IF data = Absent THEN {missing}
        ELSE {found} \cup (IF "io" \in Faults
                           THEN {missing, "KvsHashFileReadError", "ValidationFailed"}
                           ELSE {})

Open(t, needDefaults, needKvs) ==
    /\ ~running
    /\ \E d \in OpenJsonResults(DefaultsFile, DefaultsFile, needDefaults),
          r \in OpenJsonResults(json[0], hash[0], needKvs) :
         IF {d, r} \subseteq {"Ok", "NoFile"}
         THEN /\ running' = TRUE
              /\ map' = IF r = "Ok" THEN content[json[0]] ELSE EmptyMap
              /\ defaults' = IF d = "Ok" THEN DefaultsFile ELSE EmptyMap
              /\ result' = [result EXCEPT ![t] = "Ok"]
         ELSE /\ result' = [result EXCEPT ![t] = IF d \in {"Ok", "NoFile"} THEN r ELSE d]
              /\ UNCHANGED <<running, memory>>
    /\ UNCHANGED <<disk, owner, pc, idx, read, doc, handle, history>>

SnapshotCount ==
    CHOOSE n \in 0 .. MaxCount :
        /\ \A s \in 0 .. n - 1 : json[s] # Absent
        /\ n < MaxCount => json[n] = Absent

\* snapshot_restore up to the reading of the JSON file.
Restore(t, id) ==
    /\ pc[t] = "restore"
    /\ \/ /\ id = 0 \/ SnapshotCount < id
          /\ Leave(t, "InvalidSnapshotId")
          /\ UNCHANGED read
       \/ /\ id > 0 /\ id <= SnapshotCount
          /\ \/ json[id] = Absent /\ Leave(t, "KvsFileReadError") /\ UNCHANGED read
             \/ /\ json[id] # Absent
                /\ read' = [slot |-> id, json |-> json[id]]
                /\ Goto(t, "check_hash")
                /\ UNCHANGED <<owner, doc, handle>>
       \/ /\ "io" \in Faults
          /\ Leave(t, "PhysicalStorageFailure")
          /\ UNCHANGED read
    /\ UNCHANGED <<disk, running, memory, idx, history>>

\* The rest of it: the hash, and the assignment to the map.
CheckHash(t) ==
    \E r \in OpenJsonResults(read.json, hash[read.slot], "Required") :
        Body(t, "check_hash", IF r = "Ok" THEN content[read.json] ELSE map, r)

-----------------------------------------------------------------------------
(* Flushing *)

IoError(t) == "io" \in Faults /\ Return(t, "PhysicalStorageFailure")

\* Faulty variant: the mutex is kept after the string is generated.
SerializeKeepsLock(t) ==
    /\ pc[t] = "serialize"
    /\ seq' = seq + 1
    /\ doc' = [doc EXCEPT ![t] = seq + 1]
    /\ content' = [content EXCEPT ![seq + 1] = map]
    /\ Goto(t, "rotate")
    /\ UNCHANGED <<disk, running, memory, owner, idx, read, handle,
                   acked, committed, attempts>>

\* The string is generated before anything on disk changes.
Serialize(t) ==
    /\ pc[t] = "serialize"
    /\ \/ /\ seq' = seq + 1
          /\ doc' = [doc EXCEPT ![t] = seq + 1]
          /\ content' = [content EXCEPT ![seq + 1] = map]
          /\ Goto(t, "rotate")
          /\ owner' = Nobody
          /\ UNCHANGED <<handle, acked, committed, attempts>>
       \/ /\ "json" \in Faults
          /\ Leave(t, "JsonGeneratorError")
          /\ UNCHANGED history
    /\ UNCHANGED <<disk, running, memory, idx, read>>

\* Faulty variant: snapshot_rotate does not look at the mutex.
RotateUnlocked(t) ==
    /\ pc[t] = "rotate"
    /\ Goto(t, "rename_hash")
    /\ owner' = t
    /\ idx' = MaxCount
    /\ attempts' = attempts + 1
    /\ UNCHANGED <<disk, running, memory, read, doc, handle,
                   seq, content, acked, committed>>

\* The second time flush takes the mutex: the head of snapshot_rotate.
Rotate(t) ==
    /\ pc[t] = "rotate"
    /\ TryLock(t, "rename_hash")
    /\ idx' = IF owner = Nobody THEN MaxCount ELSE idx
    /\ attempts' = IF owner = Nobody THEN attempts + 1 ELSE attempts
    /\ UNCHANGED <<disk, running, memory, read, seq, content, acked, committed>>

\* Renaming slot idx-1 to slot idx; that there is no such file is no error.
Renamed(file) ==
    IF file[idx - 1] = Absent THEN file
    ELSE [file EXCEPT ![idx] = file[idx - 1], ![idx - 1] = Absent]

\* What becomes of the files of that kind that other threads have open: they
\* move along, or are in no slot any more.
Carried(file, kind) ==
    IF file[idx - 1] = Absent THEN handle
    ELSE [u \in Threads |->
             IF pc[u] # kind \/ handle[u] \notin {idx - 1, idx} THEN handle[u]
             ELSE IF handle[u] = idx THEN Missing ELSE idx]

RenameHash(t) ==
    /\ pc[t] = "rename_hash"
    /\ \/ /\ hash' = Renamed(hash)
          /\ handle' = Carried(hash, "write_hash")
          /\ Goto(t, "rename_json")
          /\ UNCHANGED <<owner, doc>>
       \/ IoError(t) /\ owner' = Nobody /\ UNCHANGED hash
    /\ UNCHANGED <<json, running, memory, idx, read, history>>

\* Faulty variant: the loop of snapshot_rotate does not count down.
RenameJsonStuck(t) ==
    /\ pc[t] = "rename_json"
    /\ json' = Renamed(json)
    /\ handle' = Carried(json, "write_json")
    /\ Goto(t, "rename_hash")
    /\ UNCHANGED <<hash, running, memory, owner, idx, read, doc, history>>

\* Faulty variant: an error of the rename is dropped.
RenameJsonUnchecked(t) ==
    /\ pc[t] = "rename_json"
    /\ \/ json' = Renamed(json) /\ handle' = Carried(json, "write_json")
       \/ "io" \in Faults /\ UNCHANGED <<json, handle>>
    /\ idx' = idx - 1
    /\ IF idx = 1
       THEN Goto(t, "open_json") /\ owner' = Nobody
       ELSE Goto(t, "rename_hash") /\ UNCHANGED owner
    /\ UNCHANGED <<hash, running, memory, read, doc, history>>

RenameJson(t) ==
    /\ pc[t] = "rename_json"
    /\ \/ /\ json' = Renamed(json)
          /\ handle' = Carried(json, "write_json")
          /\ idx' = idx - 1
          /\ IF idx = 1
             THEN Goto(t, "open_json") /\ owner' = Nobody
             ELSE Goto(t, "rename_hash") /\ UNCHANGED owner
          /\ UNCHANGED doc
       \/ IoError(t) /\ owner' = Nobody /\ UNCHANGED <<json, idx>>
    /\ UNCHANGED <<hash, running, memory, read, history>>

\* fopen creates or truncates the file of slot 0.
OpenFor(t, label) ==
    /\ Goto(t, label)
    /\ handle' = [handle EXCEPT ![t] = 0]
    /\ UNCHANGED doc

OpenJson(t) ==
    /\ pc[t] = "open_json"
    /\ \/ json' = [json EXCEPT ![0] = Empty] /\ OpenFor(t, "write_json")
       \/ IoError(t) /\ UNCHANGED json
    /\ UNCHANGED <<hash, running, memory, owner, idx, read, history>>

OpenHash(t) ==
    /\ pc[t] = "open_hash"
    /\ \/ hash' = [hash EXCEPT ![0] = Empty] /\ OpenFor(t, "write_hash")
       \/ IoError(t) /\ UNCHANGED hash
    /\ UNCHANGED <<json, running, memory, owner, idx, read, history>>

\* Thread t puts c in the file it has open.
Put(file, t, c) ==
    IF handle[t] = Missing THEN file ELSE [file EXCEPT ![handle[t]] = c]

\* What a write of the whole document leaves: on top of the bytes of another
\* thread the end of those may stick out.
Written(t) ==
    {doc[t]} \cup (IF handle[t] # Missing /\ json[handle[t]] # Empty THEN {Torn} ELSE {})

\* A write fails before, in the middle of, or, in fdatasync, after writing.
WriteError(t, file) ==
    /\ \E c \in {doc[t], Torn} : file' \in {file, Put(file, t, c)}
    /\ IoError(t)

WriteJson(t) ==
    /\ pc[t] = "write_json"
    /\ \/ /\ \E c \in Written(t) : json' = Put(json, t, c)
          /\ handle' = [handle EXCEPT ![t] = Missing]
          /\ Goto(t, "open_hash")
          /\ UNCHANGED doc
       \/ WriteError(t, json)
    /\ UNCHANGED <<hash, running, memory, owner, idx, read, history>>

\* Faulty variant: an error of the last write is dropped.
WriteHashUnchecked(t) ==
    /\ pc[t] = "write_hash"
    /\ hash' \in {Put(hash, t, doc[t])} \cup (IF "io" \in Faults THEN {hash} ELSE {})
    /\ acked' = acked \cup {doc[t]}
    /\ committed' = doc[t]
    /\ attempts' = 0
    /\ Return(t, "Ok")
    /\ UNCHANGED <<json, running, memory, owner, idx, read, seq, content>>

\* Four bytes, whatever another thread wrote there.
WriteHash(t) ==
    /\ pc[t] = "write_hash"
    /\ \/ /\ hash' = Put(hash, t, doc[t])
          /\ acked' = acked \cup {doc[t]}
          /\ committed' = doc[t]
          /\ attempts' = 0
          /\ Return(t, "Ok")
       \/ WriteError(t, hash) /\ UNCHANGED <<acked, committed, attempts>>
    /\ UNCHANGED <<json, running, memory, owner, idx, read, seq, content>>

-----------------------------------------------------------------------------

Crash ==
    /\ "crash" \in Faults
    /\ running
    /\ running' = FALSE
    /\ map' = EmptyMap /\ defaults' = EmptyMap
    /\ owner' = Nobody
    /\ pc' = [t \in Threads |-> "idle"]
    /\ result' = [t \in Threads |-> "Ok"]
    /\ idx' = 0
    /\ read' = NothingRead
    /\ doc' = [t \in Threads |-> 0]
    /\ handle' = [t \in Threads |-> Missing]
    /\ UNCHANGED <<disk, history>>

\* Thread t runs on in the call it is in.
Step(t) ==
    \/ \E k \in Keys : GetValue(t, k) \/ RemoveKey(t, k) \/ ResetKey(t, k)
    \/ \E k \in Keys, v \in Values : SetValue(t, k, v)
    \/ Reset(t)
    \/ \E id \in Slots : Restore(t, id)
    \/ CheckHash(t)
    \/ Serialize(t) \/ Rotate(t) \/ RenameHash(t) \/ RenameJson(t)
    \/ OpenJson(t) \/ WriteJson(t) \/ OpenHash(t) \/ WriteHash(t)

Needs == {"Optional", "Required"}

Next ==
    \/ \E t \in Threads, d, r \in Needs : Open(t, d, r)
    \/ \E t \in Threads, c \in Calls : Call(t, c)
    \/ \E t \in Threads, k \in Keys : IsValueDefault(t, k)
    \/ \E t \in Threads : Step(t)
    \/ Crash

Spec == Init /\ [][Next]_vars

\* A thread that is in a call is scheduled; whether it calls is its own choice.
FairSpec == Spec /\ \A t \in Threads : WF_vars(Step(t))

-----------------------------------------------------------------------------
(* Properties *)

\* The document whose flush returned Ok last is in slot 0, whole, until the
\* next rotation begins, whatever fails, crashes and reopens in between.
CommittedDurable ==
    attempts = 0 /\ committed > 0 => json[0] = committed /\ Whole(json[0], hash[0])

\* Its JSON file is on disk, in or below slot MaxCount, for MaxCount more
\* rotations, wherever those and their writes are stopped.
CommittedSurvives ==
    committed > 0 /\ attempts <= MaxCount =>
        \E s \in 0 .. attempts : json[s] = committed

\* The files implement a queue of the documents whose flush returned Ok: one
\* leaves the disk only as the oldest, also when rotation passes over a slot
\* that has lost one of its files.
Store == INSTANCE SnapshotStore WITH
            store <- {d \in acked : \E s \in Slots : json[s] = d},
            newest <- committed
StoreSpec == Store!Spec

\* Unless a write reported as failed went through, what open and
\* snapshot_restore put in memory is a document whose flush returned Ok, whoever
\* writes to the files while they are read.
LoadsOnlyAcked ==
    [][/\ \A t \in Threads :
             pc[t] = "check_hash" /\ pc'[t] = "idle" /\ result'[t] = "Ok" /\ running' =>
                 read.json \in acked /\ map' = content[read.json]
       /\ ~running /\ running' /\ map' # EmptyMap =>
             json[0] \in acked /\ map' = content[json[0]]]_vars

\* As long as one thread flushes, the JSON file and the hash that
\* snapshot_restore reads one after the other are of one snapshot: no rotation
\* moves the files in between.
RestoreReadsOneSnapshot ==
    [][\A t \in Threads :
          pc[t] = "check_hash" /\ pc'[t] # "check_hash" /\ running' =>
              json[read.slot] = read.json]_vars

\* The steps thread t has before it in the call it is in.
StepsLeft(t) ==
    CASE pc[t] = "idle" -> 0
      [] pc[t] = "serialize" -> 2 * MaxCount + 6
      [] pc[t] = "rotate" -> 2 * MaxCount + 5
      [] pc[t] = "rename_hash" -> 2 * idx + 4
      [] pc[t] = "rename_json" -> 2 * idx + 3
      [] pc[t] = "open_json" -> 4
      [] pc[t] = "write_json" -> 3
      [] pc[t] = "open_hash" -> 2
      [] pc[t] = "write_hash" -> 1
      [] pc[t] = "restore" -> 2
      [] OTHER -> 1

\* Every call is wait-free: each step of its thread brings it nearer to its end,
\* and no step of another thread, which may rotate the same files, puts it back.
\* A flush is the longest, 2 * MaxCount + 6.
CallsAreBounded ==
    [][\A t \in Threads : pc[t] # "idle" =>
          \/ StepsLeft(t)' < StepsLeft(t)
          \/ StepsLeft(t)' = StepsLeft(t) /\ ~Step(t)]_vars

\* Every call returns, though the mutex is never waited for.
CallsReturn == \A t \in Threads : pc[t] # "idle" ~> pc[t] = "idle"

\* When every call has returned and no write failed, the store that was flushed
\* can be loaded, however many threads flushed it.
FlushedIsLoadable ==
    (\A t \in Threads : pc[t] = "idle") /\ acked # {} => Whole(json[0], hash[0])

=============================================================================
