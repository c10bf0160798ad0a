--------------------------------- MODULE Kvs ---------------------------------
(***************************************************************************)
(* The Rust key-value store (rust_kvs/kvs.rs): threads of one process that *)
(* share one KvsData behind a blocking mutex, on top of the file backend   *)
(* of JsonBackend.                                                         *)
(*                                                                         *)
(* A call that holds the mutex from its first to its last line and touches *)
(* nothing but the data is one step.  flush holds the mutex over all the   *)
(* system calls of the backend; snapshot_count takes no lock at all.  The  *)
(* calls that only read the data are operators.                            *)
(***************************************************************************)
EXTENDS JsonBackend, FiniteSets

CONSTANTS
    Threads,
    Keys,
    Values,         \* the values the threads set
    DefaultValues,  \* the values in the defaults file
    Missing,        \* a key that is not in a map
    DefaultsFile,   \* the map in the defaults file, or Absent
    Nobody          \* no thread holds the mutex

ASSUME ValuesAssumption ==
    Values \cap DefaultValues = {} /\ Missing \notin Values \cup DefaultValues
ASSUME MissingAssumption == Missing \notin Nat
ASSUME NobodyAssumption == Nobody \notin Threads

VARIABLES
    map,        \* KvsData.kvs_map
    defaults,   \* KvsData.defaults_map
    owner,      \* the thread that holds the mutex across steps, in flush
    content,    \* the map each document was generated from
    saved,      \* the map in memory when the flush of a document returned Ok
    scan,       \* the slot a running snapshot_count looks at next, or Missing
    disturbed,  \* whether a flush ran while that snapshot_count did
    count       \* what the last snapshot_count of each thread returned

memory == <<map, defaults>>
ghosts == <<content, saved>>
counting == <<scan, disturbed, count>>
kvsVars == <<vars, memory, owner, ghosts, counting>>

Maps == [Keys -> Values \cup DefaultValues \cup {Missing}]
EmptyMap == [k \in Keys |-> Missing]
ASSUME DefaultsFileAssumption == DefaultsFile \in Maps \cup {Absent}

KvsTypeOK ==
    /\ TypeOK
    /\ map \in Maps
    /\ defaults \in Maps
    /\ owner \in Threads \cup {Nobody}
    /\ content \in [1 .. MaxFlush -> Maps]
    /\ saved \in [1 .. MaxFlush -> Maps]
    /\ scan \in [Threads -> Slots \cup {Missing}]
    /\ disturbed \in [Threads -> BOOLEAN]
    /\ count \in [Threads -> 0 .. MaxCount]

KvsInit ==
    /\ Init
    /\ map = EmptyMap
    /\ defaults = EmptyMap
    /\ owner = Nobody
    /\ content = [n \in 1 .. MaxFlush |-> EmptyMap]
    /\ saved = [n \in 1 .. MaxFlush |-> EmptyMap]
    /\ scan = [t \in Threads |-> Missing]
    /\ disturbed = [t \in Threads |-> FALSE]
    /\ count = [t \in Threads |-> 0]

-----------------------------------------------------------------------------
(* The calls that read the data *)

GetAllKeys == {k \in Keys : map[k] # Missing}

KeyExists(k) == map[k] # Missing

GetValue(k) == IF map[k] # Missing THEN map[k] ELSE defaults[k]

GetDefaultValue(k) == defaults[k]

\* is_value_default; Missing stands for KeyNotFound.
IsValueDefault(k) ==
    IF map[k] # Missing THEN FALSE
    ELSE IF defaults[k] # Missing THEN TRUE ELSE Missing

-----------------------------------------------------------------------------
(* The calls that change the data *)

\* Thread t can enter a call and get the mutex.
Free(t) == pc = "idle" /\ owner = Nobody /\ scan[t] = Missing

\* A call that only changes the map.
Update(newMap) ==
    /\ map' = newMap
    /\ UNCHANGED <<vars, defaults, owner, ghosts, counting>>

\* Faulty variant: the mutex is not taken.
SetValueUnlocked(t, k, v) ==
    /\ pc # "down"
    /\ owner # t
    /\ scan[t] = Missing
    /\ Update([map EXCEPT ![k] = v])

SetValue(t, k, v) == Free(t) /\ Update([map EXCEPT ![k] = v])

\* Without the key the map is unchanged and the error is KeyNotFound.
RemoveKey(t, k) == Free(t) /\ KeyExists(k) /\ Update([map EXCEPT ![k] = Missing])

Reset(t) == Free(t) /\ Update(EmptyMap)

\* Faulty variant: the default is copied into the map.
ResetKeyCopies(t, k) ==
    /\ Free(t)
    /\ defaults[k] # Missing
    /\ Update([map EXCEPT ![k] = defaults[k]])

\* Without a default the map is unchanged and the error is KeyDefaultNotFound.
ResetKey(t, k) ==
    /\ Free(t)
    /\ defaults[k] # Missing
    /\ Update([map EXCEPT ![k] = Missing])

\* The map that a load put in memory.
Loaded == IF mem' = 0 THEN EmptyMap ELSE content[mem']

RestoreSnapshot(t, id) ==
    /\ Free(t)
    /\ Restore(id)
    /\ map' = IF result' = "Ok" THEN Loaded ELSE map
    /\ UNCHANGED <<defaults, owner, ghosts, counting>>

FlushCall(t) ==
    /\ Free(t)
    /\ FlushBegin
    /\ owner' = t
    /\ disturbed' = [u \in Threads |-> TRUE]
    /\ UNCHANGED <<memory, ghosts, scan, count>>

\* The string is generated from the map, and the mutex released on return.
FlushRun(t) ==
    /\ owner = t
    /\ FlushStep
    /\ owner' = IF pc' = "idle" THEN Nobody ELSE t
    /\ content' = IF pc' = "open_json" THEN [content EXCEPT ![seq] = map] ELSE content
    /\ saved' = IF acked' # acked THEN [saved EXCEPT ![seq] = map] ELSE saved
    /\ UNCHANGED <<memory, counting>>

-----------------------------------------------------------------------------
(* snapshot_count, one look at the disk per step *)

CountCall(t) ==
    /\ pc # "down"
    /\ owner # t
    /\ scan[t] = Missing
    /\ scan' = [scan EXCEPT ![t] = 0]
    /\ disturbed' = [disturbed EXCEPT ![t] = owner # Nobody]
    /\ UNCHANGED <<vars, memory, owner, ghosts, count>>

\* Faulty variant: a gap in the slots is passed over.
CountStepGaps(t) ==
    /\ scan[t] # Missing
    /\ IF scan[t] < MaxCount
       THEN /\ scan' = [scan EXCEPT ![t] = @ + 1]
            /\ UNCHANGED count
       ELSE /\ scan' = [scan EXCEPT ![t] = Missing]
            /\ count' = [count EXCEPT ![t] = scan[t]]
    /\ UNCHANGED <<vars, memory, owner, ghosts, disturbed>>

CountStep(t) ==
    /\ scan[t] # Missing
    /\ \/ /\ scan[t] < MaxCount /\ TRUE \in Looks(json, scan[t])
          /\ scan' = [scan EXCEPT ![t] = @ + 1]
          /\ UNCHANGED count
       \/ /\ scan[t] = MaxCount \/ FALSE \in Looks(json, scan[t])
          /\ scan' = [scan EXCEPT ![t] = Missing]
          /\ count' = [count EXCEPT ![t] = scan[t]]
    /\ UNCHANGED <<vars, memory, owner, ghosts, disturbed>>

-----------------------------------------------------------------------------
(* The life of the process *)

\* build: the defaults are loaded first, then slot 0.
OpenStore(defaultsMode, loadMode) ==
    /\ defaultsMode = "Required" => DefaultsFile # Absent
    /\ Open(loadMode)
    /\ map' = IF pc' = "idle" THEN Loaded ELSE map
    /\ defaults' = IF pc' = "down" THEN defaults
                   ELSE IF defaultsMode = "Ignored" \/ DefaultsFile = Absent
                   THEN EmptyMap ELSE DefaultsFile
    /\ UNCHANGED <<owner, ghosts, counting>>

CrashStore ==
    /\ Crash
    /\ map' = EmptyMap
    /\ defaults' = EmptyMap
    /\ owner' = Nobody
    /\ scan' = [t \in Threads |-> Missing]
    /\ disturbed' = [t \in Threads |-> FALSE]
    /\ count' = [t \in Threads |-> 0]
    /\ UNCHANGED ghosts

Call(t) ==
    \/ \E k \in Keys, v \in Values : SetValue(t, k, v)
    \/ \E k \in Keys : RemoveKey(t, k)
    \/ \E k \in Keys : ResetKey(t, k)
    \/ Reset(t)
    \/ \E id \in Slots : RestoreSnapshot(t, id)
    \/ FlushCall(t)
    \/ CountCall(t)

Run(t) == FlushRun(t) \/ CountStep(t)

KvsNext ==
    \/ \E d, m \in Modes : OpenStore(d, m)
    \/ \E t \in Threads : Call(t) \/ Run(t)
    \/ CrashStore

KvsSpec == KvsInit /\ [][KvsNext]_kvsVars

\* A thread that is in a call is scheduled; whether it calls is its own choice.
KvsFairSpec == KvsSpec /\ \A t \in Threads : WF_kvsVars(Run(t))

-----------------------------------------------------------------------------
(* Properties *)

\* What build or snapshot_restore puts in memory is the map that was in memory
\* when some flush returned Ok: no call of another thread slips into a flush.
LoadReturnsSaved ==
    [][mem' # mem /\ pc' = "idle" => mem' \in acked /\ map' = saved[mem']]_kvsVars

\* After a flush returned Ok and before another began, build gives back the map
\* that was in memory then, whatever the other threads were doing meanwhile.
ReopenGivesLastFlush ==
    [][\A d, m \in Modes :
          OpenStore(d, m) /\ m # "Ignored" /\ pc' = "idle"
            /\ attempts = 0 /\ committed > 0
              => map' = saved[committed]]_kvsVars

\* Defaults stay out of the data: however often keys are reset, flushed and
\* loaded, neither the map nor a document holds a value from the defaults file.
DefaultsStayOut ==
    \A k \in Keys :
        /\ map[k] \notin DefaultValues
        /\ \A n \in acked : content[n][k] \notin DefaultValues

\* The running snapshot_count of t returns.
CountReturns(t) == scan[t] # Missing /\ scan'[t] = Missing /\ pc' # "down"

\* The look at which the running snapshot_count of t ends, failing: the file is
\* there.
LastLookFails(t) == "io" \in Faults /\ scan[t] < MaxCount /\ Exists(json, scan[t])

\* A snapshot_count that no flush overlaps is the number of snapshots, unless it
\* ends at a look that failed: then it is too low.
UndisturbedCount ==
    [][\A t \in Threads :
          CountReturns(t) /\ ~disturbed[t]
              => IF LastLookFails(t) THEN count'[t] < SnapshotCount
                 ELSE count'[t] = SnapshotCount]_kvsVars

\* As long as no flush is interrupted or misled, a snapshot_count that flushes
\* overlap counts a snapshot on the move twice at most.  (An interrupted flush can
\* lose the oldest snapshot, so a count that two of them overlap can be off by
\* more.)
CountAtMostOneHigh ==
    [][\A t \in Threads :
          Steady /\ CountReturns(t)
              => count'[t] <= 1 + Cardinality({s \in Slots : Exists(json, s)})]_kvsVars

\* Every flush and every snapshot_count that is called returns.
CallsReturn ==
    \A t \in Threads : (owner = t \/ scan[t] # Missing) ~>
                       (owner # t /\ scan[t] = Missing)

=============================================================================
