------------------------------ MODULE KvsProofs ------------------------------
(***************************************************************************)
(* Theorems about Kvs for every set of threads, keys, values and defaults, *)
(* every number of slots and every set of faults, from the invariant of    *)
(* the backend.                                                            *)
(***************************************************************************)
EXTENDS Kvs, JsonBackendProofs, FiniteSetTheorems

-----------------------------------------------------------------------------
(* The inductive invariant *)

\* Inside flush, and nowhere else, a thread holds the mutex across steps.
OwnerInv == owner # Nobody <=> pc \in Flushing

\* From the generation of the string to its return a flush writes the map that
\* is in memory; an acknowledged document holds the map it was saved from.
DataInv ==
    /\ pc \in {"open_json", "write_json", "open_hash", "write_hash"} => content[seq] = map
    /\ \A n \in acked : content[n] = saved[n]

\* Under a snapshot_count that no flush has overlapped the files rest.
ScanInv ==
    \A t \in Threads : scan[t] # Missing /\ ~disturbed[t] =>
        /\ pc = "idle"
        /\ \A s \in Slots : s < scan[t] => Exists(json, s)

KvsInv ==
    /\ IInv
    /\ seq <= MaxFlush
    /\ KvsTypeOK
    /\ OwnerInv
    /\ DataInv
    /\ ScanInv
    /\ DefaultsStayOut

-----------------------------------------------------------------------------
(* Lemmas *)

Writing == {"open_json", "write_json", "open_hash", "write_hash"}

\* Every acknowledged document has a place in content and saved, and so has the
\* document of a flush.
LEMMA DocFacts ==
    ASSUME KvsInv
    PROVE  /\ acked \subseteq 1 .. seq /\ 1 .. seq \subseteq 1 .. MaxFlush
           /\ pc \in Flushing => seq \in 1 .. MaxFlush /\ seq \notin acked
<1> USE DEF KvsInv, IInv
<1>1. seq \in Nat /\ committed \in Nat /\ acked \subseteq Docs /\ MaxFlush \in Nat
      BY MaxFlushAssumption DEF TypeOK
<1>2. acked \subseteq 1 .. seq BY <1>1 DEF AckInv, Docs
<1>3. 1 .. seq \subseteq 1 .. MaxFlush BY <1>1
<1>4. pc \in Flushing => seq \in 1 .. MaxFlush /\ seq \notin acked
      BY <1>1 DEF AckInv
<1>5. QED BY <1>2, <1>3, <1>4

\* The map of a document that was acknowledged, or the empty map.
LEMMA LoadedMap ==
    ASSUME KvsInv, mem' \in acked \cup {0}
    PROVE  /\ Loaded \in Maps
           /\ \A k \in Keys : Loaded[k] \notin DefaultValues
           /\ mem' \in acked => Loaded = saved[mem']
<1> USE DEF KvsInv
<1>1. EmptyMap \in Maps /\ \A k \in Keys : EmptyMap[k] \notin DefaultValues
      BY ValuesAssumption DEF EmptyMap, Maps
<1>2. 0 \notin acked /\ acked \subseteq 1 .. MaxFlush BY DocFacts
<1>3. \A n \in acked : content[n] \in Maps BY <1>2 DEF KvsTypeOK
<1>4. CASE mem' = 0 BY <1>1, <1>2, <1>4 DEF Loaded
<1>5. CASE mem' \in acked
  <2>1. Loaded = content[mem'] BY <1>2, <1>5 DEF Loaded
  <2>2. QED BY <1>3, <1>5, <2>1 DEF DataInv, DefaultsStayOut
<1>6. QED BY <1>4, <1>5

\* What a load leaves in mem.
LEMMA LoadMem ==
    ASSUME IInv
    PROVE  /\ \A mode \in Modes : Open(mode) =>
                 mem' \in acked \cup {0} /\ pc' \in {"idle", "down"}
           /\ \A id \in Slots : Restore(id) =>
                 IF result' = "Ok" THEN mem' \in acked ELSE mem' = mem
<1> USE DEF IInv
<1>1. ASSUME NEW mode \in Modes, Open(mode)
      PROVE  mem' \in acked \cup {0} /\ pc' \in {"idle", "down"}
  <2>1. pc' \in {"idle", "down"} BY <1>1 DEF Open
  <2>2. mem' = 0 \/ ("Ok" \in LoadResults(0) /\ mem' = json[0]) BY <1>1 DEF Open
  <2>3. "Ok" \in LoadResults(0) => json[0] \in acked BY LoadOk, LoadableAcked, SlotFacts
  <2>4. QED BY <2>1, <2>2, <2>3
<1>2. ASSUME NEW id \in Slots, Restore(id)
      PROVE  IF result' = "Ok" THEN mem' \in acked ELSE mem' = mem
  <2>1. PICK n \in Counts : RestoreOf(id, n) BY <1>2 DEF Restore
  <2>2. "Ok" \in RestoreResults(id, n) => json[id] \in acked BY RestoreOk, LoadableAcked
  <2>3. QED BY <2>1, <2>2 DEF RestoreOf
<1>3. QED BY <1>1, <1>2

LEMMA KvsInitInv == KvsInit => KvsInv
<1> SUFFICES ASSUME KvsInit PROVE KvsInv OBVIOUS
<1> USE DEF KvsInit
<1>1. IInv BY InitInv
<1>2. EmptyMap \in Maps /\ \A k \in Keys : EmptyMap[k] \notin DefaultValues
      BY ValuesAssumption DEF EmptyMap, Maps
<1>3. seq <= MaxFlush BY MaxFlushAssumption DEF Init
<1>4. 0 \in 0 .. MaxCount BY MaxCountAssumption
<1>5. KvsTypeOK BY <1>1, <1>2, <1>4 DEF KvsTypeOK, IInv
<1>6. OwnerInv BY DEF OwnerInv, Init, Flushing
<1>7. DataInv BY DEF DataInv, Init
<1>8. ScanInv BY DEF ScanInv
<1>9. DefaultsStayOut BY <1>2 DEF DefaultsStayOut, Init
<1>10. QED BY <1>1, <1>3, <1>5, <1>6, <1>7, <1>8, <1>9 DEF KvsInv

-----------------------------------------------------------------------------
(* Every step *)

\* A call that only changes the map, while no thread is in flush.
LEMMA UpdateInv ==
    ASSUME KvsInv, NEW t \in Threads, Free(t), NEW m \in Maps, Update(m),
           \A k \in Keys : m[k] \notin DefaultValues
    PROVE  KvsInv'
<1> USE DEF KvsInv, Update, Free, ghosts, counting
<1>1. IInv' /\ seq' <= MaxFlush BY StepInv DEF vars
<1>2. KvsTypeOK' BY <1>1 DEF KvsTypeOK, IInv
<1>3. OwnerInv' BY DEF OwnerInv, vars
<1>4. DataInv' BY DEF DataInv, vars
<1>5. ScanInv' BY DEF ScanInv, Exists, vars
<1>6. DefaultsStayOut' BY DEF DefaultsStayOut, vars
<1>7. QED BY <1>1, <1>2, <1>3, <1>4, <1>5, <1>6

LEMMA ChangeInv ==
    ASSUME KvsInv, NEW t \in Threads,
           \/ \E k \in Keys, v \in Values : SetValue(t, k, v)
           \/ \E k \in Keys : RemoveKey(t, k)
           \/ \E k \in Keys : ResetKey(t, k)
           \/ Reset(t)
    PROVE  KvsInv'
<1>1. /\ map \in Maps /\ \A k \in Keys : map[k] \notin DefaultValues
      /\ EmptyMap \in Maps /\ \A k \in Keys : EmptyMap[k] \notin DefaultValues
      BY ValuesAssumption
      DEF KvsInv, KvsTypeOK, DefaultsStayOut, EmptyMap, Maps
<1>2. ASSUME NEW k \in Keys, NEW v \in Values \cup {Missing},
             Free(t), Update([map EXCEPT ![k] = v])
      PROVE  KvsInv'
  <2> DEFINE m == [map EXCEPT ![k] = v]
  <2>1. m \in Maps /\ \A j \in Keys : m[j] \notin DefaultValues
        BY <1>1, ValuesAssumption DEF Maps
  <2> HIDE DEF m
  <2>2. QED BY <1>2, <2>1, UpdateInv DEF m
<1>3. CASE \E k \in Keys, v \in Values : SetValue(t, k, v)
      BY <1>2, <1>3 DEF SetValue
<1>4. CASE \E k \in Keys : RemoveKey(t, k) BY <1>2, <1>4 DEF RemoveKey
<1>5. CASE \E k \in Keys : ResetKey(t, k) BY <1>2, <1>5 DEF ResetKey
<1>6. CASE Reset(t) BY <1>1, <1>6, UpdateInv DEF Reset
<1>7. QED BY <1>3, <1>4, <1>5, <1>6

LEMMA RestoreSnapshotInv ==
    ASSUME KvsInv, NEW t \in Threads, NEW id \in Slots, RestoreSnapshot(t, id)
    PROVE  KvsInv'
<1> USE DEF KvsInv, RestoreSnapshot, Free, ghosts, counting
<1>1. pc' = "idle" /\ UNCHANGED <<json, hash, seq, acked>>
      BY DEF Restore, RestoreOf, disk, history
<1>2. IInv' BY StepInv DEF Next
<1>3. map' \in Maps /\ \A k \in Keys : map'[k] \notin DefaultValues
      BY LoadMem, LoadedMap DEF KvsTypeOK, DefaultsStayOut
<1>4. KvsTypeOK' BY <1>2, <1>3 DEF KvsTypeOK, IInv
<1>5. OwnerInv' BY <1>1 DEF OwnerInv
<1>6. DataInv' BY <1>1 DEF DataInv
<1>7. ScanInv' BY <1>1 DEF ScanInv, Exists
<1>8. DefaultsStayOut' BY <1>1, <1>3 DEF DefaultsStayOut
<1>9. QED BY <1>1, <1>2, <1>4, <1>5, <1>6, <1>7, <1>8

LEMMA FlushCallInv ==
    ASSUME KvsInv, NEW t \in Threads, FlushCall(t)
    PROVE  KvsInv'
<1> USE DEF KvsInv, FlushCall, Free, ghosts, memory
<1>1. pc' = "rotate" /\ seq' = seq + 1 /\ seq < MaxFlush /\ UNCHANGED acked
      BY DEF FlushBegin
<1>2. IInv' BY StepInv DEF Next
<1>3. seq' <= MaxFlush BY <1>1, MaxFlushAssumption DEF IInv, TypeOK
<1>4. KvsTypeOK' BY <1>2 DEF KvsTypeOK, IInv
<1>5. OwnerInv' BY <1>1, NobodyAssumption DEF OwnerInv, Flushing
<1>6. DataInv' BY <1>1 DEF DataInv
<1>7. ScanInv' BY DEF ScanInv
<1>8. DefaultsStayOut' BY <1>1 DEF DefaultsStayOut
<1>9. QED BY <1>2, <1>3, <1>4, <1>5, <1>6, <1>7, <1>8

\* A look of a count goes on to the next slot, or is the last one: the file is
\* not there, or the look has failed.
LEMMA Counting ==
    ASSUME NEW t \in Threads, CountStep(t), KvsTypeOK
    PROVE  /\ scan[t] \in Slots /\ UNCHANGED <<vars, memory, owner, ghosts, disturbed>>
           /\ \/ /\ scan[t] < MaxCount /\ Exists(json, scan[t])
                 /\ scan' = [scan EXCEPT ![t] = scan[t] + 1]
                 /\ UNCHANGED count
              \/ /\ scan' = [scan EXCEPT ![t] = Missing]
                 /\ count' = [count EXCEPT ![t] = scan[t]]
                 /\ scan[t] < MaxCount /\ Exists(json, scan[t]) => "io" \in Faults
<1>1. scan[t] \in Slots BY DEF CountStep, KvsTypeOK
<1>2. TRUE \in Looks(json, scan[t]) => Exists(json, scan[t]) BY DEF Looks, Exists
<1>3. FALSE \in Looks(json, scan[t]) => ~Exists(json, scan[t]) \/ "io" \in Faults
      BY DEF Looks, Exists
<1>4. scan[t] = MaxCount => ~(scan[t] < MaxCount) BY MaxCountAssumption
<1>5. QED BY <1>1, <1>2, <1>3, <1>4 DEF CountStep

\* The same, slot by slot and thread by thread.
LEMMA CountingMoves ==
    ASSUME NEW u \in Threads, CountStep(u), KvsTypeOK, NEW t \in Threads
    PROVE  /\ t # u => scan'[t] = scan[t]
           /\ t = u /\ scan'[t] # Missing =>
                 scan[t] \in Slots /\ scan[t] < MaxCount /\ Exists(json, scan[t])
                 /\ scan'[t] = scan[t] + 1
<1>1. scan \in [Threads -> Slots \cup {Missing}] /\ scan[u] \in Slots
      BY Counting DEF KvsTypeOK
<1>2. \/ /\ scan[u] < MaxCount /\ Exists(json, scan[u])
         /\ scan' = [scan EXCEPT ![u] = scan[u] + 1]
      \/ scan' = [scan EXCEPT ![u] = Missing]
      BY Counting
<1>3. CASE /\ scan[u] < MaxCount /\ Exists(json, scan[u])
           /\ scan' = [scan EXCEPT ![u] = scan[u] + 1]
      BY <1>1, <1>3
<1>4. CASE scan' = [scan EXCEPT ![u] = Missing] BY <1>1, <1>4
<1>5. QED BY <1>2, <1>3, <1>4

LEMMA CountInv ==
    ASSUME KvsInv, NEW t \in Threads, CountCall(t) \/ CountStep(t)
    PROVE  KvsInv'
<1> USE DEF KvsInv, memory, ghosts
<1>1. UNCHANGED <<vars, memory, owner, ghosts>> BY DEF CountCall, CountStep
<1>2. IInv' BY <1>1, StepInv
<1>3. 0 \in Slots BY MaxCountAssumption DEF Slots
<1>4. KvsTypeOK'
  <2>1. /\ scan' \in [Threads -> Slots \cup {Missing}]
        /\ disturbed' \in [Threads -> BOOLEAN]
        /\ count' \in [Threads -> 0 .. MaxCount]
    <3>1. CASE CountCall(t) BY <1>3, <3>1 DEF CountCall, KvsTypeOK
    <3>2. CASE CountStep(t)
      <4>1. scan[t] \in 0 .. MaxCount BY <3>2, Counting DEF Slots
      <4>2. scan[t] < MaxCount => scan[t] + 1 \in Slots
            BY <4>1, MaxCountAssumption DEF Slots
      <4>3. QED BY <3>2, <4>1, <4>2, Counting DEF KvsTypeOK
    <3>3. QED BY <3>1, <3>2
  <2>2. QED BY <1>1, <1>2, <2>1 DEF KvsTypeOK, IInv
<1>5. OwnerInv' BY <1>1 DEF OwnerInv, vars
<1>6. DataInv' BY <1>1 DEF DataInv, vars
<1>7. ScanInv'
  <2>1. SUFFICES ASSUME NEW u \in Threads, scan'[u] # Missing, ~disturbed'[u]
                 PROVE  pc = "idle" /\ \A s \in Slots : s < scan'[u] => Exists(json, s)
        BY <1>1 DEF ScanInv, Exists, vars
  <2>2. CASE CountCall(t)
    <3>1. CASE u = t
      <4>1. scan'[t] = 0 /\ owner = Nobody /\ pc # "down"
            BY <2>1, <2>2, <3>1 DEF CountCall, KvsTypeOK
      <4>2. pc = "idle" BY <4>1 DEF OwnerInv, IInv, TypeOK
      <4>3. QED BY <3>1, <4>1, <4>2 DEF Slots
    <3>2. CASE u # t
          BY <2>1, <2>2, <3>2 DEF CountCall, KvsTypeOK, ScanInv
    <3>3. QED BY <3>1, <3>2
  <2>3. CASE CountStep(t)
    <3>1. CASE u = t
      <4>1. /\ scan[t] # Missing /\ ~disturbed[t] /\ scan[t] \in Slots
            /\ Exists(json, scan[t]) /\ scan'[t] = scan[t] + 1
        <5>1. KvsTypeOK BY DEF KvsInv
        <5>2. UNCHANGED disturbed BY <2>3, <5>1, Counting
        <5>3. scan[t] # Missing BY <2>3 DEF CountStep
        <5>4. QED BY <2>1, <2>3, <3>1, <5>1, <5>2, <5>3, CountingMoves
      <4>2. pc = "idle" /\ \A s \in Slots : s < scan[t] => Exists(json, s)
            BY <4>1 DEF ScanInv
      <4>3. \A s \in Slots : s < scan[t] + 1 => s < scan[t] \/ s = scan[t]
            BY <4>1 DEF Slots
      <4>4. QED BY <3>1, <4>1, <4>2, <4>3
    <3>2. CASE u # t
      <4>1. KvsTypeOK BY DEF KvsInv
      <4>2. UNCHANGED disturbed /\ scan'[u] = scan[u]
            BY <2>3, <3>2, <4>1, Counting, CountingMoves
      <4>3. QED BY <2>1, <4>2 DEF ScanInv
    <3>3. QED BY <3>1, <3>2
  <2>4. QED BY <2>2, <2>3
<1>8. DefaultsStayOut' BY <1>1 DEF DefaultsStayOut, vars
<1>9. QED BY <1>1, <1>2, <1>4, <1>5, <1>6, <1>7, <1>8 DEF vars

\* What a step of flush does to its place, its number and the acknowledgements.
LEMMA FlushStepFacts ==
    ASSUME FlushStep
    PROVE  /\ pc \in Flushing
           /\ pc' \in Flushing \cup {"idle"}
           /\ seq' = seq
           /\ pc' = "open_json" => pc # "write_hash"
           /\ pc' \in Writing => pc' = "open_json" \/ pc \in Writing
           /\ acked' = acked \/ (pc = "write_hash" /\ acked' = acked \cup {seq})
<1> USE DEF Flushing, Writing, history, Fail, IoError
<1>1. CASE RotateCheck BY <1>1 DEF RotateCheck
<1>2. CASE RotateDone BY <1>2 DEF RotateDone
<1>3. CASE RenameHash BY <1>3 DEF RenameHash
<1>4. CASE RenameJson BY <1>4 DEF RenameJson
<1>5. CASE Stringify BY <1>5 DEF Stringify
<1>6. CASE OpenJson BY <1>6 DEF OpenJson
<1>7. CASE WriteJson BY <1>7 DEF WriteJson
<1>8. CASE OpenHash BY <1>8 DEF OpenHash
<1>9. CASE WriteHash BY <1>9 DEF WriteHash
<1>10. QED BY <1>1, <1>2, <1>3, <1>4, <1>5, <1>6, <1>7, <1>8, <1>9 DEF FlushStep

LEMMA FlushRunInv ==
    ASSUME KvsInv, NEW t \in Threads, FlushRun(t)
    PROVE  KvsInv'
<1> USE DEF KvsInv, FlushRun, memory, counting
<1>1. IInv' BY StepInv DEF Next
<1>2. /\ pc \in Flushing /\ pc' \in Flushing \cup {"idle"} /\ seq' = seq
      /\ pc' = "open_json" => pc # "write_hash"
      /\ pc' \in Writing => pc' = "open_json" \/ pc \in Writing
      /\ acked' = acked \/ (pc = "write_hash" /\ acked' = acked \cup {seq})
      BY FlushStepFacts
<1>3. /\ seq \in 1 .. MaxFlush /\ seq \notin acked /\ acked \subseteq 1 .. MaxFlush
      /\ map \in Maps
      BY <1>2, DocFacts DEF KvsTypeOK
<1>4. content' \in [1 .. MaxFlush -> Maps] /\ saved' \in [1 .. MaxFlush -> Maps]
      BY <1>3 DEF KvsTypeOK
<1>5. KvsTypeOK' BY <1>1, <1>4 DEF KvsTypeOK, IInv
<1>6. OwnerInv' BY <1>2, NobodyAssumption DEF OwnerInv, Flushing
<1>7. \A n \in acked : content'[n] = content[n] BY <1>3 DEF KvsTypeOK
<1>8. \A n \in acked : saved'[n] = saved[n] BY <1>3 DEF KvsTypeOK
<1>9. pc' \in Writing => content'[seq] = map
      BY <1>2, <1>3 DEF KvsTypeOK, DataInv, Writing
<1>10. acked' # acked => content'[seq] = map /\ saved'[seq] = map
       BY <1>2, <1>3 DEF KvsTypeOK, DataInv
<1>11. \A n \in acked' : content'[n] = saved'[n]
       BY <1>2, <1>7, <1>8, <1>10 DEF DataInv
<1>12. DataInv' BY <1>2, <1>9, <1>11 DEF DataInv, Writing
<1>13. ScanInv' BY <1>2 DEF ScanInv, Flushing
<1>14. DefaultsStayOut'
       BY <1>2, <1>7, <1>10 DEF DefaultsStayOut
<1>15. QED BY <1>1, <1>2, <1>5, <1>6, <1>12, <1>13, <1>14

LEMMA OpenStoreInv ==
    ASSUME KvsInv, NEW d \in Modes, NEW m \in Modes, OpenStore(d, m)
    PROVE  KvsInv'
<1> USE DEF KvsInv, OpenStore, ghosts, counting
<1>1. pc = "down" /\ pc' \in {"idle", "down"} /\ UNCHANGED <<json, hash, seq, acked>>
      BY DEF Open, disk, history
<1>2. IInv' BY StepInv DEF Next
<1>3. EmptyMap \in Maps BY DEF EmptyMap, Maps
<1>4. map' \in Maps /\ \A k \in Keys : map'[k] \notin DefaultValues
      BY LoadMem, LoadedMap DEF KvsTypeOK, DefaultsStayOut
<1>5. defaults' \in Maps BY <1>3, DefaultsFileAssumption DEF KvsTypeOK
<1>6. KvsTypeOK' BY <1>2, <1>4, <1>5 DEF KvsTypeOK, IInv
<1>7. OwnerInv' BY <1>1 DEF OwnerInv, Flushing
<1>8. DataInv' BY <1>1 DEF DataInv
<1>9. ScanInv' BY <1>1 DEF ScanInv
<1>10. DefaultsStayOut' BY <1>1, <1>4 DEF DefaultsStayOut
<1>11. QED BY <1>1, <1>2, <1>6, <1>7, <1>8, <1>9, <1>10

LEMMA CrashStoreInv ==
    ASSUME KvsInv, CrashStore
    PROVE  KvsInv'
<1> USE DEF KvsInv, CrashStore, ghosts
<1>1. pc' = "down" /\ UNCHANGED <<json, hash, seq, acked>>
      BY DEF Crash, disk, history
<1>2. IInv' BY StepInv DEF Next
<1>3. EmptyMap \in Maps /\ \A k \in Keys : EmptyMap[k] \notin DefaultValues
      BY ValuesAssumption DEF EmptyMap, Maps
<1>4. 0 \in 0 .. MaxCount BY MaxCountAssumption
<1>5. KvsTypeOK' BY <1>2, <1>3, <1>4 DEF KvsTypeOK, IInv
<1>6. OwnerInv' BY <1>1 DEF OwnerInv, Flushing
<1>7. DataInv' BY <1>1 DEF DataInv
<1>8. ScanInv' BY DEF ScanInv
<1>9. DefaultsStayOut' BY <1>1, <1>3 DEF DefaultsStayOut
<1>10. QED BY <1>1, <1>2, <1>5, <1>6, <1>7, <1>8, <1>9

LEMMA KvsNextInv == KvsInv /\ [KvsNext]_kvsVars => KvsInv'
<1> SUFFICES ASSUME KvsInv, [KvsNext]_kvsVars PROVE KvsInv' OBVIOUS
<1>1. CASE \E d, m \in Modes : OpenStore(d, m) BY <1>1, OpenStoreInv
<1>2. CASE \E t \in Threads : Call(t)
      BY <1>2, ChangeInv, RestoreSnapshotInv, FlushCallInv, CountInv DEF Call
<1>3. CASE \E t \in Threads : Run(t) BY <1>3, FlushRunInv, CountInv DEF Run
<1>4. CASE CrashStore BY <1>4, CrashStoreInv
<1>5. CASE UNCHANGED kvsVars
  <2> USE <1>5 DEF kvsVars, memory, ghosts, counting
  <2>1. IInv' BY StepInv DEF KvsInv
  <2>2. KvsTypeOK' BY <2>1 DEF KvsInv, KvsTypeOK, IInv
  <2>3. OwnerInv' /\ DataInv' BY DEF KvsInv, OwnerInv, DataInv, vars
  <2>4. ScanInv' /\ DefaultsStayOut'
        BY DEF KvsInv, ScanInv, DefaultsStayOut, Exists, vars
  <2>5. QED BY <2>1, <2>2, <2>3, <2>4 DEF KvsInv, vars
<1>6. QED BY <1>1, <1>2, <1>3, <1>4, <1>5 DEF KvsNext

LEMMA KvsInvariance == KvsSpec => []KvsInv
BY KvsInitInv, KvsNextInv, PTL DEF KvsSpec

-----------------------------------------------------------------------------
(* Theorems *)

\* The data, the mutex, the ghosts and the counters have their types.
THEOREM KvsTypeCorrect == KvsSpec => []KvsTypeOK
BY KvsInvariance, PTL DEF KvsInv

\* Neither reset nor load nor flush lets a default into the data or a document.
THEOREM NoDefaultStored == KvsSpec => []DefaultsStayOut
BY KvsInvariance, PTL DEF KvsInv

\* A load puts the whole map of one acknowledged flush in memory: the mutex
\* keeps every other call out of a flush.
THEOREM LoadsOneFlush == KvsSpec => LoadReturnsSaved
<1> DEFINE A == mem' # mem /\ pc' = "idle" => mem' \in acked /\ map' = saved[mem']
<1>1. ASSUME KvsInv, [KvsNext]_kvsVars PROVE [A]_kvsVars
  <2> SUFFICES ASSUME KvsNext, mem' # mem, pc' = "idle"
               PROVE  mem' \in acked /\ map' = saved[mem']
      BY <1>1
  <2>1. IInv BY <1>1 DEF KvsInv
  <2>2. CASE \E d, m \in Modes : OpenStore(d, m)
    <3>1. PICK d \in Modes, m \in Modes : OpenStore(d, m) BY <2>2
    <3>2. mem' \in acked \cup {0} /\ mem = 0 /\ map' = Loaded
          BY <2>1, <3>1, LoadMem DEF OpenStore, Open, IInv, ControlInv
    <3>3. QED BY <1>1, <3>2, LoadedMap
  <2>3. CASE \E t \in Threads, id \in Slots : RestoreSnapshot(t, id)
    <3>1. PICK t \in Threads, id \in Slots : RestoreSnapshot(t, id) BY <2>3
    <3>2. mem' \in acked /\ map' = Loaded
          BY <2>1, <3>1, LoadMem DEF RestoreSnapshot
    <3>3. QED BY <1>1, <3>2, LoadedMap
  <2>4. CASE \E t \in Threads : FlushCall(t)
        BY <2>4 DEF FlushCall, FlushBegin
  <2>5. CASE \E t \in Threads : FlushRun(t)
        BY <2>5 DEF FlushRun, FlushStep, RotateCheck, RotateDone, RenameHash,
           RenameJson, Stringify, OpenJson, WriteJson, OpenHash, WriteHash,
           IoError, Fail
  <2>6. CASE CrashStore BY <2>6 DEF CrashStore, Crash
  <2>7. CASE UNCHANGED vars BY <2>7 DEF vars
  <2>8. QED BY <2>2, <2>3, <2>4, <2>5, <2>6, <2>7
        DEF KvsNext, Call, Run, SetValue, RemoveKey, ResetKey, Reset, Update,
            CountCall, CountStep
<1>2. QED BY <1>1, KvsInvariance, PTL DEF KvsSpec, LoadReturnsSaved

\* Reopening after an acknowledged flush gives back the map of that flush.
THEOREM ReopenRecovers == KvsSpec => ReopenGivesLastFlush
<1> DEFINE A == \A d, m \in Modes :
                   OpenStore(d, m) /\ m # "Ignored" /\ pc' = "idle"
                     /\ attempts = 0 /\ committed > 0
                       => map' = saved[committed]
<1>1. ASSUME KvsInv PROVE A
  <2> SUFFICES ASSUME NEW d \in Modes, NEW m \in Modes, OpenStore(d, m),
                      m # "Ignored", pc' = "idle", attempts = 0, committed > 0
               PROVE  map' = saved[committed]
      OBVIOUS
  <2>1. Loadable(0) /\ json[0] = committed
        BY <1>1 DEF KvsInv, IInv, CommittedDurable
  <2>2. committed \in acked
        BY <1>1 DEF KvsInv, IInv, AckInv, TypeOK
  <2>3. "FileNotFound" \notin LoadResults(0)
        BY <2>1, ContentAssumption DEF LoadResults, Loadable, Exists, Docs
  <2>4. mem' = committed BY <2>1, <2>3 DEF OpenStore, Open
  <2>5. map' = Loaded BY DEF OpenStore
  <2>6. QED BY <1>1, <2>2, <2>4, <2>5, LoadedMap
<1>2. QED BY <1>1, KvsInvariance, PTL DEF ReopenGivesLastFlush

\* The number of snapshots is where the gap-free run of JSON files ends.
LEMMA CountIs ==
    ASSUME NEW n \in Slots, \A s \in Slots : s < n => Exists(json, s),
           n < MaxCount => ~Exists(json, n)
    PROVE  SnapshotCount = n
<1> DEFINE P(c) == /\ \A s \in 0 .. c - 1 : Exists(json, s)
                   /\ c < MaxCount => ~Exists(json, c)
<1>1. n \in 0 .. MaxCount /\ n \in Nat /\ MaxCount \in Nat
      BY MaxCountAssumption DEF Slots
<1>2. P(n)
  <2>1. \A s \in 0 .. n - 1 : s \in Slots /\ s < n BY <1>1 DEF Slots
  <2>2. QED BY <2>1
<1>3. ASSUME NEW c \in 0 .. MaxCount, P(c) PROVE c = n
  <2>1. CASE c < n
    <3>1. c \in Slots /\ c < MaxCount BY <1>1, <2>1 DEF Slots
    <3>2. QED BY <1>3, <2>1, <3>1
  <2>2. CASE n < c
    <3>1. n \in 0 .. c - 1 /\ n < MaxCount BY <1>1, <2>2
    <3>2. QED BY <1>3, <3>1
  <2>3. QED BY <1>1, <2>1, <2>2
<1> HIDE DEF P
<1>4. (CHOOSE c \in 0 .. MaxCount : P(c)) = n BY <1>1, <1>2, <1>3
<1>5. QED BY <1>4 DEF P, SnapshotCount

\* A snapshot_count that no flush overlapped returns the number of snapshots,
\* whatever the other threads did to the map meanwhile, or less when its last
\* look has failed.
THEOREM CountIsExact == KvsSpec => UndisturbedCount
<1> DEFINE A == \A t \in Threads :
                   CountReturns(t) /\ ~disturbed[t]
                     => IF LastLookFails(t) THEN count'[t] < SnapshotCount
                        ELSE count'[t] = SnapshotCount
<1>1. ASSUME KvsInv, [KvsNext]_kvsVars PROVE [A]_kvsVars
  <2> SUFFICES ASSUME NEW t \in Threads, KvsNext, scan[t] # Missing,
                      scan'[t] = Missing, pc' # "down", ~disturbed[t]
               PROVE  IF LastLookFails(t) THEN count'[t] < SnapshotCount
                      ELSE count'[t] = SnapshotCount
      BY <1>1 DEF CountReturns
  <2>1. scan \in [Threads -> Slots \cup {Missing}] /\ count \in [Threads -> 0 .. MaxCount]
        BY <1>1 DEF KvsInv, KvsTypeOK
  <2>2. PICK u \in Threads : CountCall(u) \/ CountStep(u)
    <3>1. ~CrashStore BY DEF CrashStore, Crash
    <3>2. scan' # scan OBVIOUS
    <3>3. QED BY <3>1, <3>2
          DEF KvsNext, Call, Run, OpenStore, SetValue, RemoveKey, ResetKey, Reset,
              Update, RestoreSnapshot, FlushCall, FlushRun, counting
  <2>3. 0 # Missing /\ \A s \in Slots : s # Missing /\ s + 1 # Missing
        BY MissingAssumption, MaxCountAssumption DEF Slots
  <2>4. ~CountCall(u) BY <2>1, <2>3 DEF CountCall
  <2>5. CountStep(u) /\ u = t BY <2>1, <2>2, <2>4 DEF CountStep
  <2>6. /\ scan[t] \in Slots
        /\ count'[t] = scan[t]
        /\ scan[t] < MaxCount /\ Exists(json, scan[t]) => "io" \in Faults
        BY <1>1, <2>1, <2>3, <2>5, Counting DEF KvsInv
  <2>7. \A s \in Slots : s < scan[t] => Exists(json, s)
        BY <1>1 DEF KvsInv, ScanInv
  <2>8. CASE LastLookFails(t)
    <3>1. scan[t] < MaxCount /\ Exists(json, scan[t]) BY <2>8 DEF LastLookFails
    <3>2. \A s \in Slots : s <= scan[t] => Exists(json, s)
          BY <2>6, <2>7, <3>1 DEF Slots
    <3>3. scan[t] < SnapshotCount
          BY <2>6, <3>1, <3>2, CountFound, MaxCountAssumption DEF Slots
    <3>4. QED BY <2>6, <2>8, <3>3
  <2>9. CASE ~LastLookFails(t)
    <3>1. scan[t] < MaxCount => ~Exists(json, scan[t]) BY <2>6, <2>9 DEF LastLookFails
    <3>2. SnapshotCount = scan[t] BY <2>6, <2>7, <3>1, CountIs
    <3>3. QED BY <2>6, <2>9, <3>2
  <2>10. QED BY <2>8, <2>9
<1>2. QED BY <1>1, KvsInvariance, PTL DEF KvsSpec, UndisturbedCount

-----------------------------------------------------------------------------
(* A snapshot_count that flushes overlap *)

\* As long as no flush is interrupted or misled a count has passed no more slots than
\* documents were flushed, wherever the flushes have moved them meanwhile.
ScanHighInv ==
    Steady => \A t \in Threads : scan[t] # Missing => scan[t] <= seq

CountingInv == KvsInv /\ RInv /\ ScanHighInv

LEMMA ScanHighStep ==
    ASSUME CountingInv, [KvsNext]_kvsVars
    PROVE  ScanHighInv'
<1> USE DEF CountingInv
<1>1. [Next]_vars
      BY DEF KvsNext, Call, Run, OpenStore, SetValue, RemoveKey, ResetKey, Reset, Update,
             RestoreSnapshot, FlushCall, FlushRun, CountCall, CountStep, CrashStore, Next,
             kvsVars
<1>2. SUFFICES ASSUME Steady', NEW t \in Threads, scan'[t] # Missing
               PROVE  scan'[t] <= seq'
      BY DEF ScanHighInv
<1>3. Steady /\ seq' >= seq /\ IInv' BY <1>1, <1>2, SteadyBack, StepInv DEF KvsInv
<1>4. /\ scan \in [Threads -> Slots \cup {Missing}] /\ seq \in Nat /\ seq' \in Nat
      /\ Slots \subseteq Nat
      BY <1>3 DEF KvsInv, KvsTypeOK, TypeOK, Slots, IInv
<1>5. scan[t] # Missing => scan[t] \in Nat /\ scan[t] <= seq /\ scan[t] <= seq'
  <2>1. SUFFICES ASSUME scan[t] # Missing
                 PROVE  scan[t] \in Nat /\ scan[t] <= seq /\ scan[t] <= seq'
        OBVIOUS
  <2>2. scan[t] \in Nat BY <1>4, <2>1
  <2>3. scan[t] <= seq BY <1>3, <2>1 DEF ScanHighInv
  <2>4. QED BY <1>3, <1>4, <2>2, <2>3
<1>6. CASE UNCHANGED scan BY <1>2, <1>5, <1>6
<1>7. CASE CrashStore BY <1>2, <1>7 DEF CrashStore
<1>8. ASSUME NEW u \in Threads, CountCall(u) PROVE scan'[t] <= seq'
  <2>1. scan'[t] = scan[t] \/ scan'[t] = 0 BY <1>4, <1>8 DEF CountCall
  <2>2. QED BY <1>2, <1>4, <1>5, <2>1
<1>9. ASSUME NEW u \in Threads, CountStep(u) PROVE scan'[t] <= seq'
  <2>1. CASE scan'[t] = scan[t] BY <1>2, <1>5, <2>1
  <2>2. CASE scan'[t] # scan[t]
    <3>1. /\ u = t /\ scan[t] # Missing /\ Exists(json, scan[t])
          /\ scan'[t] = scan[t] + 1 /\ seq' = seq
      <4>1. KvsTypeOK BY DEF KvsInv
      <4>2. u = t BY <1>9, <2>2, <4>1, CountingMoves
      <4>3. scan[t] # Missing BY <1>9, <4>2 DEF CountStep
      <4>4. Exists(json, scan[t]) /\ scan'[t] = scan[t] + 1
            BY <1>2, <1>9, <4>1, <4>2, CountingMoves
      <4>5. seq' = seq BY <1>9 DEF CountStep, vars
      <4>6. QED BY <4>2, <4>3, <4>4, <4>5
    <3>2. scan[t] \in Slots BY <1>4, <3>1
    <3>3. scan[t] < seq BY <1>3, <3>1, <3>2, FilesSteady
    <3>4. QED BY <1>4, <1>5, <3>1, <3>3
  <2>3. QED BY <2>1, <2>2
<1>10. QED BY <1>6, <1>7, <1>8, <1>9
       DEF KvsNext, Call, Run, OpenStore, SetValue, RemoveKey, ResetKey, Reset, Update,
           RestoreSnapshot, FlushCall, FlushRun, counting, kvsVars

LEMMA CountingInvariance == KvsSpec => []CountingInv
<1>1. KvsInit => CountingInv
      BY KvsInitInv, InitInv, InitR DEF KvsInit, CountingInv, RInv, ScanHighInv
<1>2. CountingInv /\ [KvsNext]_kvsVars => CountingInv'
  <2>1. [KvsNext]_kvsVars => [Next]_vars
        BY DEF KvsNext, Call, Run, OpenStore, SetValue, RemoveKey, ResetKey, Reset, Update,
               RestoreSnapshot, FlushCall, FlushRun, CountCall, CountStep, CrashStore, Next,
               kvsVars
  <2>2. QED BY <2>1, KvsNextInv, StepR, ScanHighStep DEF CountingInv
<1>3. QED BY <1>1, <1>2, PTL DEF KvsSpec

\* A set of slots with all but one of the first n has n - 1 elements or more.
LEMMA AllButOne ==
    ASSUME NEW n \in Nat, NEW E \in SUBSET Slots, NEW h,
           \A s \in Slots : s < n /\ s # h => s \in E, n <= MaxCount
    PROVE  n <= 1 + Cardinality(E)
<1>1. MaxCount \in Int /\ 0 \in Int /\ n - 1 \in Int BY MaxCountAssumption
<1>2. IsFiniteSet(Slots) BY <1>1, FS_Interval DEF Slots
<1>3. IsFiniteSet(E) BY <1>2, FS_Subset
<1>4. IsFiniteSet(0 .. n - 1) /\ Cardinality(0 .. n - 1) = n BY <1>1, FS_Interval
<1>5. /\ IsFiniteSet(E \cup {h}) /\ Cardinality(E \cup {h}) <= 1 + Cardinality(E)
      /\ Cardinality(E) \in Nat /\ Cardinality(E \cup {h}) \in Nat
  <2>1. Cardinality(E) \in Nat BY <1>3, FS_CardinalityType
  <2>2. /\ IsFiniteSet(E \cup {h})
        /\ Cardinality(E \cup {h}) = IF h \in E THEN Cardinality(E) ELSE Cardinality(E) + 1
        BY <1>3, FS_AddElement
  <2>3. QED BY <2>1, <2>2
<1>6. 0 .. n - 1 \in SUBSET (E \cup {h})
  <2>1. \A s \in 0 .. n - 1 : s \in Slots /\ s < n BY <1>1 DEF Slots
  <2>2. QED BY <2>1
<1>7. n <= Cardinality(E \cup {h}) BY <1>4, <1>5, <1>6, FS_Subset
<1>8. QED BY <1>5, <1>7

\* A snapshot_count that flushes overlap, as many as they are, is at most one
\* higher than the number of snapshots, as long as none is interrupted or misled.
THEOREM CountIsAlmostExact == KvsSpec => CountAtMostOneHigh
<1> DEFINE A == \A t \in Threads :
                   Steady /\ CountReturns(t)
                     => count'[t] <= 1 + Cardinality({s \in Slots : Exists(json, s)})
<1>1. ASSUME CountingInv, [KvsNext]_kvsVars PROVE [A]_kvsVars
  <2> SUFFICES ASSUME NEW t \in Threads, KvsNext, Steady, scan[t] # Missing,
                      scan'[t] = Missing, pc' # "down"
               PROVE  count'[t] <= 1 + Cardinality({s \in Slots : Exists(json, s)})
      BY <1>1 DEF CountReturns
  <2>1. /\ scan \in [Threads -> Slots \cup {Missing}] /\ count \in [Threads -> 0 .. MaxCount]
        /\ seq \in Nat
        BY <1>1 DEF CountingInv, KvsInv, KvsTypeOK, IInv, TypeOK
  <2>2. PICK u \in Threads : CountCall(u) \/ CountStep(u)
    <3>1. ~CrashStore BY DEF CrashStore, Crash
    <3>2. scan' # scan OBVIOUS
    <3>3. QED BY <3>1, <3>2
          DEF KvsNext, Call, Run, OpenStore, SetValue, RemoveKey, ResetKey, Reset,
              Update, RestoreSnapshot, FlushCall, FlushRun, counting
  <2>3. 0 # Missing /\ \A s \in Slots : s # Missing /\ s + 1 # Missing
        BY MissingAssumption, MaxCountAssumption DEF Slots
  <2>4. ~CountCall(u) BY <2>1, <2>3 DEF CountCall
  <2>5. CountStep(u) /\ u = t BY <2>1, <2>2, <2>4 DEF CountStep
  <2>6. scan[t] \in Slots /\ count'[t] = scan[t]
        BY <1>1, <2>1, <2>3, <2>5, Counting DEF CountingInv, KvsInv
  <2>7. scan[t] <= seq /\ scan[t] <= MaxCount /\ scan[t] \in Nat
        BY <1>1, <2>6, MaxCountAssumption DEF CountingInv, ScanHighInv, Slots
  <2>8. PICK h \in Slots : \A s \in Slots :
                s < MaxCount /\ s < seq /\ s # h => Exists(json, s)
        BY <1>1, FilesSteady DEF CountingInv
  <2> DEFINE E == {s \in Slots : Exists(json, s)}
  <2>9. \A s \in Slots : s < scan[t] /\ s # h => s \in E
        BY <2>1, <2>7, <2>8, MaxCountAssumption DEF Slots
  <2>10. E \in SUBSET Slots OBVIOUS
  <2> HIDE DEF E
  <2>11. scan[t] <= 1 + Cardinality(E) BY <2>7, <2>9, <2>10, AllButOne
  <2>12. QED BY <2>6, <2>11 DEF E
<1>2. QED BY <1>1, CountingInvariance, PTL DEF KvsSpec, CountAtMostOneHigh

-----------------------------------------------------------------------------
(* How long a call takes *)

\* The steps that the flush that holds the mutex has before it.
FlushLeft ==
    CASE pc = "rotate" -> 3 * idx + 6
      [] pc = "rename_hash" -> 3 * idx + 5
      [] pc = "rename_json" -> 3 * idx + 4
      [] pc = "stringify" -> 5
      [] pc = "open_json" -> 4
      [] pc = "write_json" -> 3
      [] pc = "open_hash" -> 2
      [] pc = "write_hash" -> 1
      [] OTHER -> 0

StepsLeft(t) ==
    IF owner = t THEN FlushLeft
    ELSE IF scan[t] # Missing THEN MaxCount + 1 - scan[t]
    ELSE 0

InCall(t) == owner = t \/ scan[t] # Missing

\* Each step of a flush or a snapshot_count brings it nearer to its return, and
\* nothing another thread does puts it back.  So the mutex is held for at most
\* 3 * MaxCount + 3 steps, and a count looks at most MaxCount + 1 times, though
\* flushes may be moving the files it looks at.
CallsAreBounded ==
    [][\A t \in Threads : InCall(t) =>
          \/ StepsLeft(t)' < StepsLeft(t)
          \/ StepsLeft(t)' = StepsLeft(t) /\ ~Run(t)]_kvsVars

\* A thread is in one call at a time.
OneCall == \A t \in Threads : owner = t => scan[t] = Missing

LEMMA OneCallInvariance == KvsSpec => [](KvsInv /\ OneCall)
<1>1. KvsInit => OneCall BY NobodyAssumption DEF KvsInit, OneCall
<1>2. ASSUME KvsInv, OneCall, [KvsNext]_kvsVars PROVE OneCall'
  <2> USE DEF OneCall
  <2>1. scan \in [Threads -> Slots \cup {Missing}] BY <1>2 DEF KvsInv, KvsTypeOK
  <2>2. CASE \E t \in Threads, k \in Keys, v \in Values : SetValue(t, k, v)
        BY <1>2, <2>2 DEF SetValue, Update, counting
  <2>3. CASE \E t \in Threads, k \in Keys : RemoveKey(t, k) \/ ResetKey(t, k)
        BY <1>2, <2>3 DEF RemoveKey, ResetKey, Update, counting
  <2>4. CASE \E t \in Threads : Reset(t) BY <1>2, <2>4 DEF Reset, Update, counting
  <2>5. CASE \E t \in Threads, id \in Slots : RestoreSnapshot(t, id)
        BY <1>2, <2>5 DEF RestoreSnapshot, counting
  <2>6. CASE \E t \in Threads : FlushCall(t) BY <1>2, <2>6 DEF FlushCall, Free
  <2>7. CASE \E t \in Threads : CountCall(t) BY <1>2, <2>1, <2>7 DEF CountCall
  <2>8. CASE \E t \in Threads : FlushRun(t)
        BY <1>2, <2>8, NobodyAssumption DEF FlushRun, counting
  <2>9. CASE \E t \in Threads : CountStep(t) BY <1>2, <2>1, <2>9 DEF CountStep
  <2>10. CASE \E d, m \in Modes : OpenStore(d, m)
         BY <1>2, <2>10 DEF OpenStore, counting
  <2>11. CASE CrashStore BY <2>11, NobodyAssumption DEF CrashStore
  <2>12. CASE UNCHANGED kvsVars BY <1>2, <2>12 DEF kvsVars, counting
  <2>13. QED
         BY <1>2, <2>2, <2>3, <2>4, <2>5, <2>6, <2>7, <2>8, <2>9, <2>10, <2>11, <2>12
         DEF KvsNext, Call, Run
<1>3. QED BY <1>1, <1>2, KvsInvariance, PTL DEF KvsSpec

\* A step of flush leaves fewer steps to its return.
LEMMA FlushGoesOn ==
    ASSUME TypeOK, FlushStep
    PROVE  FlushLeft \in Nat /\ FlushLeft' \in Nat /\ FlushLeft' < FlushLeft
<1> USE DEF FlushLeft, Fail, IoError
<1>1. idx \in Nat BY MaxCountAssumption DEF TypeOK
<1>2. CASE RotateCheck BY <1>1, <1>2 DEF RotateCheck
<1>3. CASE RotateDone BY <1>1, <1>3 DEF RotateDone
<1>4. CASE RenameHash BY <1>1, <1>4 DEF RenameHash
<1>5. CASE RenameJson BY <1>1, <1>5 DEF RenameJson
<1>6. CASE Stringify BY <1>1, <1>6 DEF Stringify
<1>7. CASE OpenJson BY <1>1, <1>7 DEF OpenJson
<1>8. CASE WriteJson BY <1>1, <1>8 DEF WriteJson
<1>9. CASE OpenHash BY <1>1, <1>9 DEF OpenHash
<1>10. CASE WriteHash BY <1>1, <1>10 DEF WriteHash
<1>11. QED BY <1>2, <1>3, <1>4, <1>5, <1>6, <1>7, <1>8, <1>9, <1>10 DEF FlushStep

\* What another thread does, or a call of this one that is refused, leaves the
\* call of a thread where it is.
LEMMA OthersWait ==
    ASSUME KvsInv, NEW t \in Threads, InCall(t), KvsNext, ~CrashStore, ~Run(t)
    PROVE  /\ owner' = t <=> owner = t
           /\ scan'[t] = scan[t]
           /\ owner = t => UNCHANGED <<pc, idx>>
<1> USE DEF InCall, Run
<1>1. /\ scan \in [Threads -> Slots \cup {Missing}]
      /\ owner # Nobody <=> pc \in Flushing
      /\ "idle" \notin Flushing /\ "down" \notin Flushing
      BY DEF KvsInv, KvsTypeOK, OwnerInv, Flushing
<1>2. CASE \E u \in Threads, k \in Keys, v \in Values : SetValue(u, k, v)
      BY <1>2 DEF SetValue, Update, vars, counting
<1>3. CASE \E u \in Threads, k \in Keys : RemoveKey(u, k) \/ ResetKey(u, k)
      BY <1>3 DEF RemoveKey, ResetKey, Update, vars, counting
<1>4. CASE \E u \in Threads : Reset(u) BY <1>4 DEF Reset, Update, vars, counting
<1>5. CASE \E u \in Threads, id \in Slots : RestoreSnapshot(u, id)
      BY <1>5 DEF RestoreSnapshot, Restore, RestoreOf, counting
<1>6. CASE \E u \in Threads : FlushCall(u)
      BY <1>6, NobodyAssumption DEF FlushCall, Free
<1>7. CASE \E u \in Threads : CountCall(u)
  <2>1. PICK u \in Threads : CountCall(u) BY <1>7
  <2>2. CASE u = t BY <2>1, <2>2 DEF CountCall
  <2>3. CASE u # t BY <1>1, <2>1, <2>3 DEF CountCall, vars
  <2>4. QED BY <2>2, <2>3
<1>8. CASE \E u \in Threads : FlushRun(u)
      BY <1>8, NobodyAssumption DEF FlushRun, counting
<1>9. CASE \E u \in Threads : CountStep(u)
  <2>1. PICK u \in Threads : CountStep(u) BY <1>9
  <2>2. KvsTypeOK BY DEF KvsInv
  <2>3. u # t BY <2>1
  <2>4. scan'[t] = scan[t] BY <2>1, <2>2, <2>3, CountingMoves
  <2>5. UNCHANGED <<pc, idx, owner>> BY <2>1 DEF CountStep, vars
  <2>6. QED BY <2>4, <2>5
<1>10. CASE \E d, m \in Modes : OpenStore(d, m)
       BY <1>1, <1>10, NobodyAssumption DEF OpenStore, Open, counting
<1>11. QED
       BY <1>2, <1>3, <1>4, <1>5, <1>6, <1>7, <1>8, <1>9, <1>10 DEF KvsNext, Call, Run

\* Each step of a flush or a snapshot_count brings it nearer to its return, for
\* any number of slots and threads; nothing else but a crash, which ends it,
\* has an effect on how far it is.
THEOREM CallsAreShort == KvsSpec => CallsAreBounded
<1> DEFINE A == \A t \in Threads : InCall(t) =>
                   \/ StepsLeft(t)' < StepsLeft(t)
                   \/ StepsLeft(t)' = StepsLeft(t) /\ ~Run(t)
<1>1. ASSUME KvsInv, OneCall, [KvsNext]_kvsVars PROVE [A]_kvsVars
  <2> SUFFICES ASSUME NEW t \in Threads, KvsNext, InCall(t)
               PROVE  \/ StepsLeft(t)' < StepsLeft(t)
                      \/ StepsLeft(t)' = StepsLeft(t) /\ ~Run(t)
      BY <1>1
  <2> USE DEF StepsLeft
  <2>1. /\ scan \in [Threads -> Slots \cup {Missing}]
        /\ MaxCount \in Nat /\ Slots = 0 .. MaxCount
        /\ TypeOK
        /\ owner # Nobody <=> pc \in Flushing
        /\ owner = t => scan[t] = Missing
        BY <1>1, MaxCountAssumption
        DEF KvsInv, KvsTypeOK, OwnerInv, OneCall, IInv, Slots
  <2>2. CASE FlushRun(t)
    <3>1. owner = t /\ owner' \in {t, Nobody} /\ scan' = scan /\ FlushStep
          BY <2>2 DEF FlushRun, counting
    <3>2. FlushLeft \in Nat /\ FlushLeft' \in Nat /\ FlushLeft' < FlushLeft
          BY <2>1, <3>1, FlushGoesOn
    <3>3. CASE owner' = t BY <3>1, <3>2, <3>3
    <3>4. CASE owner' # t
      <4>1. StepsLeft(t)' = 0 BY <2>1, <3>1, <3>4
      <4>2. StepsLeft(t) = FlushLeft BY <3>1
      <4>3. QED BY <3>2, <4>1, <4>2
    <3>5. QED BY <3>3, <3>4
  <2>3. CASE CountStep(t)
    <3>1. scan[t] \in Slots /\ owner # t /\ owner' = owner
          BY <2>1, <2>3 DEF CountStep
    <3>2. StepsLeft(t) = MaxCount + 1 - scan[t] BY <2>3, <3>1 DEF CountStep
    <3>3. \/ scan[t] < MaxCount /\ scan'[t] = scan[t] + 1
          \/ scan'[t] = Missing
          BY <1>1, <2>1, <2>3, Counting DEF KvsInv
    <3>4. CASE scan[t] < MaxCount /\ scan'[t] = scan[t] + 1
      <4>1. scan[t] + 1 # Missing
            BY <2>1, <3>1, <3>4, MissingAssumption
      <4>2. StepsLeft(t)' = MaxCount + 1 - (scan[t] + 1) BY <3>1, <3>4, <4>1
      <4>3. QED BY <2>1, <3>1, <3>2, <3>4, <4>2
    <3>5. CASE scan'[t] = Missing
      <4>1. StepsLeft(t)' = 0 BY <3>1, <3>5
      <4>2. QED BY <2>1, <3>1, <3>2, <4>1
    <3>6. QED BY <3>3, <3>4, <3>5
  <2>4. CASE CrashStore
    <3>1. StepsLeft(t)' = 0 BY <2>4, NobodyAssumption DEF CrashStore
    <3>2. CASE owner = t
      <4>1. pc \in Flushing /\ idx \in Nat
            BY <2>1, <3>2, NobodyAssumption, MaxCountAssumption DEF TypeOK
      <4>2. FlushLeft \in Nat /\ FlushLeft > 0 BY <4>1 DEF FlushLeft, Flushing
      <4>3. QED BY <3>1, <3>2, <4>2
    <3>3. CASE owner # t
      <4>1. scan[t] \in Slots /\ StepsLeft(t) = MaxCount + 1 - scan[t]
            BY <1>1, <2>1, <3>3 DEF InCall
      <4>2. QED BY <2>1, <3>1, <4>1
    <3>4. QED BY <3>2, <3>3
  <2>5. CASE ~Run(t) /\ ~CrashStore
    <3>1. /\ owner' = t <=> owner = t
          /\ scan'[t] = scan[t]
          /\ owner = t => UNCHANGED <<pc, idx>>
          BY <1>1, <2>5, OthersWait
    <3>2. owner = t => FlushLeft' = FlushLeft BY <3>1 DEF FlushLeft
    <3>3. QED BY <2>5, <3>1, <3>2
  <2>6. QED BY <2>2, <2>3, <2>4, <2>5 DEF Run
<1>2. QED BY <1>1, OneCallInvariance, PTL DEF KvsSpec, CallsAreBounded

=============================================================================
