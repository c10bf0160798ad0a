-------------------------- MODULE JsonBackendProofs --------------------------
(***************************************************************************)
(* Theorems about JsonBackend for every number of slots, every number of   *)
(* flushes and every set of faults.                                        *)
(***************************************************************************)
EXTENDS JsonBackend, TLAPS, WellFoundedInduction

-----------------------------------------------------------------------------
(* The inductive invariant *)

Rotating == {"rotate", "rename_hash", "rename_json"}
Renaming == {"rename_hash", "rename_json"}

\* Control: the loop variable while a slot is being renamed, and what a process
\* that is flushing, or is down, has done to the counters.
ControlInv ==
    /\ pc \in Renaming => idx > 0
    /\ pc \in Flushing => attempts > 0
    /\ pc = "down" => mem = 0

\* Acknowledged documents are numbered up to the newest one; the document of
\* the running flush is newer.
AckInv ==
    /\ \A d \in acked : d <= committed
    /\ committed \in acked \cup {0}
    /\ committed <= seq
    /\ pc \in Flushing => committed < seq

\* A hash file with a whole hash is that of an acknowledged document.
HashInv == \A s \in Slots : hash[s] \in Docs => hash[s] \in acked

\* The JSON files are in the order of their flushes, newest first, none is
\* newer than the last flush, and none lies beyond the last slot.
OrderInv ==
    /\ \A s, t \in Slots :
         s < t /\ json[s] \in Docs /\ json[t] \in Docs => json[t] < json[s]
    /\ \A s \in Slots : json[s] \in Docs => json[s] <= seq
    /\ json[MaxCount] = Absent

\* Until its JSON file is written, the document of the running flush is not on
\* disk; from then on it is in slot 0.
InFlightInv ==
    /\ pc \in Rotating \cup {"stringify", "open_json", "write_json"} =>
         \A s \in Slots : json[s] # seq
    /\ pc = "write_json" => json[0] = Torn
    /\ pc \in {"open_hash", "write_hash"} => json[0] = seq

\* The slot the rotation fills next is vacant unless it is the last one, and
\* so is slot 0 when the rotation has ended, if it saw the files.
VacantInv ==
    misled # seq =>
        /\ pc \in Rotating /\ idx < MaxCount - 1 => json[idx] = Absent
        /\ pc \in {"stringify", "open_json"} /\ MaxCount > 1 => json[0] = Absent

\* Where the last acknowledged document is: it moves up by at most one slot in
\* each flush that sees the files.
SurviveInv ==
    committed > 0 /\ attempts < MaxCount /\ misled <= committed =>
        \E s \in 0 .. attempts :
            /\ json[s] = committed
            /\ pc \in Rotating /\ s <= idx => s < attempts

IInv ==
    /\ TypeOK
    /\ ControlInv
    /\ AckInv
    /\ HashInv
    /\ OrderInv
    /\ InFlightInv
    /\ VacantInv
    /\ SurviveInv
    /\ CommittedDurable

-----------------------------------------------------------------------------
(* Lemmas *)

\* A load that succeeds found a document whole.
LEMMA LoadOk ==
    ASSUME NEW s, "Ok" \in LoadResults(s)
    PROVE  Loadable(s)
  BY DEF LoadResults

\* So did a restore that succeeds.
LEMMA RestoreOk ==
    ASSUME NEW id, NEW n, "Ok" \in RestoreResults(id, n)
    PROVE  Loadable(id)
  BY LoadOk DEF RestoreResults

\* The outcomes of both are error codes of the store.
LEMMA ResultTypes ==
    ASSUME NEW s, NEW n
    PROVE  /\ LoadResults(s) \subseteq Results
           /\ RestoreResults(s, n) \subseteq Results
  BY DEF LoadResults, RestoreResults, Results

\* What is loaded was acknowledged.
LEMMA LoadableAcked ==
    ASSUME HashInv, NEW s \in Slots, Loadable(s)
    PROVE  json[s] \in acked
  BY DEF HashInv, Loadable

\* Slots and the numbers that index them.
LEMMA SlotFacts ==
    /\ 0 \in Slots
    /\ MaxCount \in Slots
    /\ TypeOK => idx \in Slots
    /\ TypeOK /\ idx > 0 => idx - 1 \in Slots
  BY MaxCountAssumption DEF Slots, TypeOK

\* An early return of flush keeps the invariant.
LEMMA FailInv ==
    ASSUME IInv, NEW code \in Results, Fail(code)
    PROVE  IInv'
<1> USE DEF Fail, disk, history, IInv
<1>1. TypeOK' BY DEF TypeOK
<1>2. ControlInv' BY DEF ControlInv, Flushing, Renaming
<1>3. AckInv' BY DEF AckInv, Flushing
<1>4. HashInv' BY DEF HashInv
<1>5. OrderInv' BY DEF OrderInv
<1>6. InFlightInv' BY DEF InFlightInv, Rotating
<1>7. VacantInv' BY DEF VacantInv, Rotating
<1>8. SurviveInv' BY DEF SurviveInv, Rotating
<1>9. CommittedDurable' BY DEF CommittedDurable, Loadable
<1>10. QED BY <1>1, <1>2, <1>3, <1>4, <1>5, <1>6, <1>7, <1>8, <1>9

LEMMA IoErrorInv ==
    ASSUME IInv, IoError
    PROVE  IInv'
  BY FailInv DEF IoError, Results

LEMMA InitInv == Init => IInv
<1> SUFFICES ASSUME Init PROVE IInv OBVIOUS
<1> USE MaxCountAssumption, ContentAssumption DEF Init
<1>1. TypeOK BY DEF TypeOK, Content, Results, Slots
<1>2. ControlInv BY DEF ControlInv, Flushing, Renaming
<1>3. AckInv BY DEF AckInv, Flushing
<1>4. HashInv BY DEF HashInv, Docs
<1>5. OrderInv BY DEF OrderInv, Docs, Slots
<1>6. InFlightInv BY DEF InFlightInv, Rotating
<1>7. VacantInv BY DEF VacantInv, Rotating
<1>8. SurviveInv BY DEF SurviveInv
<1>9. CommittedDurable BY DEF CommittedDurable
<1>10. QED BY <1>1, <1>2, <1>3, <1>4, <1>5, <1>6, <1>7, <1>8, <1>9 DEF IInv

-----------------------------------------------------------------------------
(* The steps *)

\* Steps that leave the files and the counters alone.
LEMMA OpenInv ==
    ASSUME IInv, NEW mode \in Modes, Open(mode)
    PROVE  IInv'
<1> USE DEF Open, disk, history
<1>1. PICK r \in IF mode = "Ignored" THEN {"Ok"} ELSE LoadResults(0) :
        /\ pc' \in {"idle", "down"}
        /\ pc' = "down" => r # "Ok"
        /\ mem' = IF r = "Ok" /\ mode # "Ignored" THEN json[0] ELSE 0
        /\ result' \in {"Ok", r}
  OBVIOUS
<1>2. r \in Results BY <1>1, ResultTypes DEF Results
<1>3. r = "Ok" /\ mode # "Ignored" => json[0] \in Docs
  BY <1>1, LoadOk DEF Loadable
<1>4. TypeOK' BY <1>1, <1>2, <1>3 DEF IInv, TypeOK, Docs, Results
<1>5. ControlInv' BY <1>1 DEF ControlInv, Flushing, Renaming
<1>6. AckInv' BY <1>1 DEF IInv, AckInv, Flushing
<1>7. HashInv' BY DEF IInv, HashInv
<1>8. OrderInv' BY DEF IInv, OrderInv
<1>9. InFlightInv' BY <1>1 DEF InFlightInv, Rotating
<1>10. VacantInv' BY <1>1 DEF VacantInv, Rotating
<1>11. SurviveInv' BY <1>1 DEF IInv, SurviveInv, Rotating
<1>12. CommittedDurable' BY DEF IInv, CommittedDurable, Loadable
<1>13. QED
  BY <1>4, <1>5, <1>6, <1>7, <1>8, <1>9, <1>10, <1>11, <1>12 DEF IInv

LEMMA RestoreInv ==
    ASSUME IInv, NEW id \in Slots, Restore(id)
    PROVE  IInv'
<1>0. PICK n \in Counts : RestoreOf(id, n) BY DEF Restore
<1> USE <1>0 DEF RestoreOf, disk, history, IInv
<1>1. PICK r \in RestoreResults(id, n) :
        result' = r /\ mem' = IF r = "Ok" THEN json[id] ELSE mem
  OBVIOUS
<1>2. r \in Results BY ResultTypes
<1>3. r = "Ok" => json[id] \in Docs BY RestoreOk DEF Loadable
<1>4. TypeOK' BY <1>1, <1>2, <1>3 DEF TypeOK, Docs
<1>5. ControlInv' BY DEF ControlInv, Flushing, Renaming
<1>6. AckInv' BY DEF AckInv, Flushing
<1>7. HashInv' BY DEF HashInv
<1>8. OrderInv' BY DEF OrderInv
<1>9. InFlightInv' BY DEF InFlightInv, Rotating
<1>10. VacantInv' BY DEF VacantInv, Rotating
<1>11. SurviveInv' BY DEF SurviveInv, Rotating
<1>12. CommittedDurable' BY DEF CommittedDurable, Loadable
<1>13. QED
  BY <1>4, <1>5, <1>6, <1>7, <1>8, <1>9, <1>10, <1>11, <1>12

LEMMA CrashInv ==
    ASSUME IInv, Crash
    PROVE  IInv'
<1> USE DEF Crash, disk, history, IInv
<1>1. TypeOK' BY DEF TypeOK
<1>2. ControlInv' BY DEF ControlInv, Flushing, Renaming
<1>3. AckInv' BY DEF AckInv, Flushing
<1>4. HashInv' BY DEF HashInv
<1>5. OrderInv' BY DEF OrderInv
<1>6. InFlightInv' BY DEF InFlightInv, Rotating
<1>7. VacantInv' BY DEF VacantInv, Rotating
<1>8. SurviveInv' BY DEF SurviveInv, Rotating
<1>9. CommittedDurable' BY DEF CommittedDurable, Loadable
<1>10. QED BY <1>1, <1>2, <1>3, <1>4, <1>5, <1>6, <1>7, <1>8, <1>9

LEMMA FlushBeginInv ==
    ASSUME IInv, FlushBegin
    PROVE  IInv'
<1> USE DEF FlushBegin, disk, IInv
<1>1. TypeOK' BY MaxCountAssumption DEF TypeOK, Flushing
<1>2. ControlInv' BY DEF TypeOK, ControlInv, Flushing, Renaming
<1>3. AckInv' BY DEF TypeOK, AckInv, Flushing
<1>4. HashInv' BY DEF HashInv
<1>5. OrderInv' BY DEF TypeOK, OrderInv, Docs
<1>6. InFlightInv'
  BY ContentAssumption DEF TypeOK, InFlightInv, OrderInv, Rotating, Docs
<1>7. VacantInv' BY MaxCountAssumption DEF TypeOK, VacantInv, Rotating
<1>8. SurviveInv'
  <2> SUFFICES ASSUME committed > 0, attempts + 1 < MaxCount, misled <= committed
               PROVE  \E s \in 0 .. attempts + 1 :
                        json[s] = committed /\ s < attempts + 1
    BY DEF SurviveInv
  <2>1. attempts \in Nat /\ attempts < MaxCount
    BY MaxCountAssumption DEF TypeOK
  <2>2. PICK s \in 0 .. attempts : json[s] = committed BY <2>1 DEF SurviveInv
  <2>3. QED BY <2>1, <2>2
<1>9. CommittedDurable' BY DEF TypeOK, CommittedDurable
<1>10. QED BY <1>1, <1>2, <1>3, <1>4, <1>5, <1>6, <1>7, <1>8, <1>9

\* Steps of flush that touch no file.
\* What the head of the loop sees and does.
LEMMA RotateChecks ==
    ASSUME IInv, RotateCheck
    PROVE  /\ pc = "rotate" /\ pc \in Flushing /\ idx \in 1 .. MaxCount - 1
           /\ seq \in Nat \ {0} /\ committed < seq /\ misled \in 0 .. seq
           /\ UNCHANGED <<disk, mem, seq, acked, committed, attempts>>
           /\ misled' \in {misled, seq}
           /\ \/ idx' = idx - 1 /\ UNCHANGED <<pc, result>>
              \/ pc' = "rename_hash" /\ UNCHANGED <<idx, result>>
              \/ pc' = "idle" /\ result' = "IntegrityCorrupted" /\ UNCHANGED idx
           /\ \/ misled' = seq
              \/ ~Exists(json, idx - 1) /\ ~Exists(hash, idx - 1) /\ pc' = "rotate"
              \/ Exists(json, idx - 1) /\ Exists(hash, idx - 1) /\ pc' = "rename_hash"
              \/ Exists(json, idx - 1) # Exists(hash, idx - 1) /\ pc' = "idle"
           /\ pc' = "rename_hash" => Exists(json, idx - 1) /\ Exists(hash, idx - 1)
<1> USE DEF RotateCheck
<1>1. PICK j, h \in BOOLEAN :
        /\ Seen(j, h)
        /\ \/ ~j /\ ~h /\ idx' = idx - 1 /\ UNCHANGED <<pc, result>>
           \/ j /\ h /\ pc' = "rename_hash" /\ UNCHANGED <<idx, result>>
           \/ j # h /\ pc' = "idle" /\ result' = "IntegrityCorrupted" /\ UNCHANGED idx
  OBVIOUS
<1>2. /\ j => Exists(json, idx - 1)
      /\ h => Exists(hash, idx - 1)
  BY <1>1 DEF Seen, Looks, Exists
<1>3. /\ misled' \in {misled, seq}
      /\ misled' = seq \/ (j = Exists(json, idx - 1) /\ h = Exists(hash, idx - 1))
  BY <1>1 DEF Seen
<1>4. pc \in Flushing BY DEF Flushing
<1>5. /\ idx \in 1 .. MaxCount - 1
      /\ seq \in Nat \ {0} /\ committed < seq /\ misled \in 0 .. seq
  BY <1>4, MaxCountAssumption DEF IInv, TypeOK, AckInv
<1>6. QED BY <1>1, <1>2, <1>3, <1>4, <1>5

LEMMA RotateCheckInv ==
    ASSUME IInv, RotateCheck
    PROVE  IInv'
<1> USE RotateChecks DEF disk, IInv
<1>1. TypeOK' BY MaxCountAssumption DEF TypeOK, Flushing, Results
<1>2. ControlInv' BY DEF ControlInv, Flushing, Renaming
<1>3. AckInv' BY DEF AckInv
<1>4. HashInv' BY DEF HashInv
<1>5. OrderInv' BY DEF OrderInv
<1>6. InFlightInv' BY DEF InFlightInv, Rotating
<1>7. VacantInv' BY DEF VacantInv, Rotating, Exists
<1>8. SurviveInv'
  <2> SUFFICES ASSUME committed > 0, attempts < MaxCount, misled' <= committed
               PROVE  \E s \in 0 .. attempts :
                        json[s] = committed /\ (pc' \in Rotating /\ s <= idx' => s < attempts)
    BY DEF SurviveInv
  <2>1. misled' = misled BY DEF TypeOK
  <2>2. PICK s \in 0 .. attempts : json[s] = committed /\ (s <= idx => s < attempts)
    BY <2>1 DEF SurviveInv, Rotating
  <2>3. s <= idx' => s <= idx BY DEF TypeOK
  <2>4. QED BY <2>2, <2>3
<1>9. CommittedDurable' BY DEF CommittedDurable, Loadable
<1>10. QED BY <1>1, <1>2, <1>3, <1>4, <1>5, <1>6, <1>7, <1>8, <1>9

LEMMA RotateDoneInv ==
    ASSUME IInv, RotateDone
    PROVE  IInv'
<1> USE DEF RotateDone, disk, history, IInv
<1>1. TypeOK' BY DEF TypeOK, Flushing
<1>2. ControlInv' BY DEF ControlInv, Flushing, Renaming
<1>3. AckInv' BY DEF AckInv, Flushing
<1>4. HashInv' BY DEF HashInv
<1>5. OrderInv' BY DEF OrderInv
<1>6. InFlightInv' BY DEF InFlightInv, Rotating
<1>7. VacantInv' BY MaxCountAssumption DEF VacantInv, Rotating
<1>8. SurviveInv' BY DEF SurviveInv, Rotating
<1>9. CommittedDurable' BY DEF CommittedDurable, Loadable
<1>10. QED BY <1>1, <1>2, <1>3, <1>4, <1>5, <1>6, <1>7, <1>8, <1>9

LEMMA StringifyInv ==
    ASSUME IInv, Stringify
    PROVE  IInv'
<1>1. CASE pc' = "open_json" /\ UNCHANGED <<disk, idx, mem, result, history>>
  <2> USE <1>1 DEF Stringify, disk, history, IInv
  <2>1. TypeOK' BY DEF TypeOK, Flushing
  <2>2. ControlInv' BY DEF ControlInv, Flushing, Renaming
  <2>3. AckInv' BY DEF AckInv, Flushing
  <2>4. HashInv' BY DEF HashInv
  <2>5. OrderInv' BY DEF OrderInv
  <2>6. InFlightInv' BY DEF InFlightInv, Rotating
  <2>7. VacantInv' BY DEF VacantInv, Rotating
  <2>8. SurviveInv' BY DEF SurviveInv, Rotating
  <2>9. CommittedDurable' BY DEF CommittedDurable, Loadable
  <2>10. QED BY <2>1, <2>2, <2>3, <2>4, <2>5, <2>6, <2>7, <2>8, <2>9
<1>2. CASE Fail("JsonGeneratorError")
  BY <1>2, FailInv DEF Results
<1>3. QED BY <1>1, <1>2 DEF Stringify

\* The steps that change a file.
LEMMA RenameHashInv ==
    ASSUME IInv, RenameHash
    PROVE  IInv'
<1>1. CASE hash' = Renamed(hash) /\ pc' = "rename_json"
           /\ UNCHANGED <<json, idx, mem, result, history>>
  <2> USE <1>1 DEF RenameHash, history, IInv
  <2>1. idx > 0 /\ idx \in Slots /\ idx - 1 \in Slots
    BY SlotFacts DEF ControlInv, Renaming
  <2>2. \A s \in Slots : hash'[s] \in {hash[s], hash[idx - 1], Absent}
    BY <2>1 DEF Renamed, TypeOK
  <2>3. TypeOK' BY <2>1, <2>2 DEF TypeOK, Flushing, Renamed, Content
  <2>4. ControlInv' BY DEF ControlInv, Flushing, Renaming
  <2>5. AckInv' BY DEF AckInv, Flushing
  <2>6. HashInv' BY <2>1, <2>2, ContentAssumption DEF HashInv, Docs
  <2>7. OrderInv' BY DEF OrderInv
  <2>8. InFlightInv' BY DEF InFlightInv, Rotating
  <2>9. VacantInv' BY DEF VacantInv, Rotating
  <2>10. SurviveInv' BY DEF SurviveInv, Rotating
  <2>11. CommittedDurable'
    BY DEF CommittedDurable, ControlInv, Flushing, TypeOK
  <2>12. QED
    BY <2>3, <2>4, <2>5, <2>6, <2>7, <2>8, <2>9, <2>10, <2>11
<1>2. CASE IoError BY <1>2, IoErrorInv
<1>3. QED BY <1>1, <1>2 DEF RenameHash

LEMMA RenameJsonInv ==
    ASSUME IInv, RenameJson
    PROVE  IInv'
<1>1. CASE json' = Renamed(json) /\ idx' = idx - 1 /\ pc' = "rotate"
           /\ UNCHANGED <<hash, mem, result, history>>
  <2> USE <1>1 DEF RenameJson, history, IInv
  <2>1. /\ pc = "rename_json"
        /\ idx \in 1 .. MaxCount - 1 /\ idx \in Slots /\ idx - 1 \in Slots
    BY SlotFacts DEF ControlInv, Renaming, TypeOK
  <2>2. \A s \in Slots :
          json'[s] = IF s = idx - 1 THEN Absent
                     ELSE IF s = idx THEN json[idx - 1] ELSE json[s]
    BY <2>1 DEF Renamed, TypeOK, Slots
  <2>3. TypeOK'
    BY <2>1, <2>2, MaxCountAssumption DEF TypeOK, Flushing, Renamed, Content
  <2>4. ControlInv' BY <2>1 DEF ControlInv, Flushing, Renaming
  <2>5. AckInv' BY <2>1 DEF AckInv, Flushing
  <2>6. HashInv' BY DEF HashInv
  <2>7. OrderInv'
    <3>1. \A s, t \in Slots :
            s < t /\ json'[s] \in Docs /\ json'[t] \in Docs => json'[t] < json'[s]
      <4> TAKE s, t \in Slots
      <4> HAVE s < t /\ json'[s] \in Docs /\ json'[t] \in Docs
      <4>1. s # idx - 1 /\ t # idx - 1 BY <2>2, ContentAssumption DEF Docs
      <4>2. CASE s = idx
        BY <4>1, <4>2, <2>1, <2>2 DEF OrderInv, Slots
      <4>3. CASE t = idx
        BY <4>1, <4>3, <2>1, <2>2 DEF OrderInv, Slots
      <4>4. CASE s # idx /\ t # idx
        BY <4>1, <4>4, <2>2 DEF OrderInv
      <4>5. QED BY <4>2, <4>3, <4>4
    <3>2. \A s \in Slots : json'[s] \in Docs => json'[s] <= seq
      BY <2>1, <2>2, ContentAssumption DEF OrderInv, Docs
    <3>3. json'[MaxCount] = Absent
      BY <2>1, <2>2, SlotFacts, MaxCountAssumption DEF OrderInv
    <3>4. QED BY <3>1, <3>2, <3>3 DEF OrderInv
  <2>8. InFlightInv'
    BY <2>1, <2>2, ContentAssumption DEF InFlightInv, Rotating, TypeOK
  <2>9. VacantInv' BY <2>1, <2>2 DEF VacantInv, Rotating
  <2>10. SurviveInv'
    <3> SUFFICES ASSUME committed > 0, attempts < MaxCount, misled <= committed
                 PROVE  \E s \in 0 .. attempts :
                          /\ json'[s] = committed
                          /\ s <= idx - 1 => s < attempts
      BY DEF SurviveInv
    <3>0. committed \in Nat /\ attempts \in Nat /\ MaxCount \in Nat /\ misled # seq
      BY <2>1, MaxCountAssumption DEF TypeOK, AckInv, Flushing
    <3>1. PICK s \in 0 .. attempts :
            json[s] = committed /\ (s <= idx => s < attempts)
      BY <2>1 DEF SurviveInv, Rotating
    <3>2. s # idx
      <4> SUFFICES ASSUME s = idx PROVE FALSE OBVIOUS
      <4>1. idx < MaxCount - 1 BY <3>0, <3>1, <2>1
      <4>2. json[idx] = Absent BY <3>0, <4>1, <2>1 DEF VacantInv, Rotating
      <4>3. QED BY <4>2, <3>0, <3>1, ContentAssumption
    <3>3. s \in Slots BY <3>0 DEF Slots
    <3>4. CASE s = idx - 1
      <4>1. idx \in 0 .. attempts /\ json'[idx] = committed /\ ~(idx <= idx - 1)
        BY <3>0, <3>1, <3>4, <2>1, <2>2
      <4>2. QED BY <4>1
    <3>5. CASE s # idx - 1
      <4>1. json'[s] = committed BY <3>1, <3>2, <3>3, <3>5, <2>2
      <4>2. s <= idx - 1 => s < attempts BY <3>0, <3>1, <2>1
      <4>3. QED BY <4>1, <4>2
    <3>6. QED BY <3>4, <3>5
  <2>11. CommittedDurable'
    BY <2>1 DEF CommittedDurable, ControlInv, Flushing, TypeOK
  <2>12. QED
    BY <2>3, <2>4, <2>5, <2>6, <2>7, <2>8, <2>9, <2>10, <2>11
<1>2. CASE IoError BY <1>2, IoErrorInv
<1>3. QED BY <1>1, <1>2 DEF RenameJson

LEMMA OpenJsonInv ==
    ASSUME IInv, OpenJson
    PROVE  IInv'
<1>1. CASE json' = [json EXCEPT ![0] = Torn] /\ pc' = "write_json"
           /\ UNCHANGED <<hash, idx, mem, result, history>>
  <2> USE <1>1 DEF OpenJson, history, IInv
  <2>1. \A s \in Slots : json'[s] = IF s = 0 THEN Torn ELSE json[s]
    BY DEF TypeOK
  <2>2. TypeOK' BY DEF TypeOK, Flushing, Content
  <2>3. ControlInv' BY DEF ControlInv, Flushing, Renaming
  <2>4. AckInv' BY DEF AckInv, Flushing
  <2>5. HashInv' BY DEF HashInv
  <2>6. OrderInv'
    BY <2>1, SlotFacts, MaxCountAssumption, ContentAssumption DEF OrderInv, Docs
  <2>7. InFlightInv'
    BY <2>1, SlotFacts, ContentAssumption DEF InFlightInv, Rotating, TypeOK
  <2>8. VacantInv' BY DEF VacantInv, Rotating
  <2>9. SurviveInv'
    <3> SUFFICES ASSUME committed > 0, attempts < MaxCount, misled <= committed
                 PROVE  \E s \in 0 .. attempts : json'[s] = committed
      BY DEF SurviveInv, Rotating
    <3>1. /\ committed \in Nat /\ MaxCount \in Nat /\ misled # seq
          /\ attempts \in Nat /\ attempts > 0
      BY MaxCountAssumption DEF TypeOK, ControlInv, AckInv, Flushing
    <3>2. PICK s \in 0 .. attempts : json[s] = committed BY DEF SurviveInv
    <3>3. json[0] = Absent BY <3>1 DEF VacantInv
    <3>4. s # 0 BY <3>1, <3>2, <3>3, ContentAssumption
    <3>5. s \in Slots BY <3>1 DEF Slots
    <3>6. QED BY <3>2, <3>4, <3>5, <2>1
  <2>10. CommittedDurable'
    BY DEF CommittedDurable, ControlInv, Flushing, TypeOK
  <2>11. QED
    BY <2>2, <2>3, <2>4, <2>5, <2>6, <2>7, <2>8, <2>9, <2>10
<1>2. CASE IoError BY <1>2, IoErrorInv
<1>3. QED BY <1>1, <1>2 DEF OpenJson

LEMMA WriteJsonInv ==
    ASSUME IInv, WriteJson
    PROVE  IInv'
<1>1. CASE json' = [json EXCEPT ![0] = seq] /\ pc' = "open_hash"
           /\ UNCHANGED <<hash, idx, mem, result, history>>
  <2> USE <1>1 DEF WriteJson, history, IInv
  <2>1. \A s \in Slots : json'[s] = IF s = 0 THEN seq ELSE json[s]
    BY DEF TypeOK
  <2>2. seq \in Docs BY DEF TypeOK, AckInv, Flushing, Docs
  <2>3. TypeOK' BY <2>2 DEF TypeOK, Flushing, Content
  <2>4. ControlInv' BY DEF ControlInv, Flushing, Renaming
  <2>5. AckInv' BY DEF AckInv, Flushing
  <2>6. HashInv' BY DEF HashInv
  <2>7. OrderInv'
    <3>1. \A s \in Slots : json[s] \in Docs => json[s] < seq
      BY DEF OrderInv, InFlightInv, TypeOK, Docs
    <3>2. \A s, t \in Slots :
            s < t /\ json'[s] \in Docs /\ json'[t] \in Docs => json'[t] < json'[s]
      BY <2>1, <3>1 DEF OrderInv, Slots
    <3>3. \A s \in Slots : json'[s] \in Docs => json'[s] <= seq
      BY <2>1, <2>2 DEF OrderInv, Docs
    <3>4. json'[MaxCount] = Absent
      BY <2>1, SlotFacts, MaxCountAssumption DEF OrderInv
    <3>5. QED BY <3>2, <3>3, <3>4 DEF OrderInv
  <2>8. InFlightInv' BY <2>1, SlotFacts DEF InFlightInv, Rotating
  <2>9. VacantInv' BY DEF VacantInv, Rotating
  <2>10. SurviveInv'
    <3> SUFFICES ASSUME committed > 0, attempts < MaxCount, misled <= committed
                 PROVE  \E s \in 0 .. attempts : json'[s] = committed
      BY DEF SurviveInv, Rotating
    <3>1. committed \in Nat /\ MaxCount \in Nat /\ attempts \in Nat
      BY MaxCountAssumption DEF TypeOK
    <3>2. PICK s \in 0 .. attempts : json[s] = committed BY DEF SurviveInv
    <3>3. s # 0 BY <3>1, <3>2, ContentAssumption DEF InFlightInv
    <3>4. s \in Slots BY <3>1 DEF Slots
    <3>5. QED BY <3>2, <3>3, <3>4, <2>1
  <2>11. CommittedDurable'
    BY DEF CommittedDurable, ControlInv, Flushing, TypeOK
  <2>12. QED
    BY <2>3, <2>4, <2>5, <2>6, <2>7, <2>8, <2>9, <2>10, <2>11
<1>2. CASE IoError BY <1>2, IoErrorInv
<1>3. QED BY <1>1, <1>2 DEF WriteJson

LEMMA OpenHashInv ==
    ASSUME IInv, OpenHash
    PROVE  IInv'
<1>1. CASE hash' = [hash EXCEPT ![0] = Torn] /\ pc' = "write_hash"
           /\ UNCHANGED <<json, idx, mem, result, history>>
  <2> USE <1>1 DEF OpenHash, history, IInv
  <2>1. TypeOK' BY DEF TypeOK, Flushing, Content
  <2>2. ControlInv' BY DEF ControlInv, Flushing, Renaming
  <2>3. AckInv' BY DEF AckInv, Flushing
  <2>4. HashInv' BY ContentAssumption DEF HashInv, TypeOK, Docs
  <2>5. OrderInv' BY DEF OrderInv
  <2>6. InFlightInv' BY DEF InFlightInv, Rotating
  <2>7. VacantInv' BY DEF VacantInv, Rotating
  <2>8. SurviveInv' BY DEF SurviveInv, Rotating
  <2>9. CommittedDurable'
    BY DEF CommittedDurable, ControlInv, Flushing, TypeOK
  <2>10. QED BY <2>1, <2>2, <2>3, <2>4, <2>5, <2>6, <2>7, <2>8, <2>9
<1>2. CASE IoError BY <1>2, IoErrorInv
<1>3. QED BY <1>1, <1>2 DEF OpenHash

LEMMA WriteHashInv ==
    ASSUME IInv, WriteHash
    PROVE  IInv'
<1>1. CASE /\ hash' = [hash EXCEPT ![0] = seq]
           /\ pc' = "idle"
           /\ result' = "Ok"
           /\ acked' = acked \cup {seq}
           /\ committed' = seq
           /\ attempts' = 0
           /\ UNCHANGED <<json, idx, mem, seq, misled>>
  <2> USE <1>1 DEF WriteHash, IInv
  <2>1. seq \in Docs BY DEF TypeOK, AckInv, Flushing, Docs
  <2>2. json[0] = seq BY DEF InFlightInv
  <2>3. TypeOK' BY <2>1 DEF TypeOK, Flushing, Content, Docs, Results
  <2>4. ControlInv' BY DEF ControlInv, Flushing, Renaming
  <2>5. AckInv' BY DEF TypeOK, AckInv, Flushing, Docs
  <2>6. HashInv' BY DEF HashInv, TypeOK
  <2>7. OrderInv' BY DEF OrderInv
  <2>8. InFlightInv' BY DEF InFlightInv, Rotating
  <2>9. VacantInv' BY DEF VacantInv, Rotating
  <2>10. SurviveInv' BY <2>2 DEF SurviveInv, Rotating
  <2>11. CommittedDurable'
    BY <2>1, <2>2, SlotFacts DEF CommittedDurable, Loadable, TypeOK
  <2>12. QED
    BY <2>3, <2>4, <2>5, <2>6, <2>7, <2>8, <2>9, <2>10, <2>11
<1>2. CASE IoError BY <1>2, IoErrorInv
<1>3. QED BY <1>1, <1>2 DEF WriteHash

\* Every step keeps the invariant.
LEMMA StepInv == IInv /\ [Next]_vars => IInv'
<1> SUFFICES ASSUME IInv, [Next]_vars PROVE IInv' OBVIOUS
<1>1. ASSUME NEW mode \in Modes, Open(mode) PROVE IInv' BY <1>1, OpenInv
<1>2. CASE FlushBegin BY <1>2, FlushBeginInv
<1>3. CASE FlushStep
  BY <1>3, RotateCheckInv, RotateDoneInv, RenameHashInv, RenameJsonInv,
     StringifyInv, OpenJsonInv, WriteJsonInv, OpenHashInv, WriteHashInv
     DEF FlushStep
<1>4. ASSUME NEW id \in Slots, Restore(id) PROVE IInv' BY <1>4, RestoreInv
<1>5. CASE Crash BY <1>5, CrashInv
<1>6. CASE UNCHANGED vars
  <2> USE <1>6 DEF vars, IInv
  <2>1. TypeOK' BY DEF TypeOK
  <2>2. ControlInv' BY DEF ControlInv
  <2>3. AckInv' BY DEF AckInv
  <2>4. HashInv' BY DEF HashInv
  <2>5. OrderInv' BY DEF OrderInv
  <2>6. InFlightInv' BY DEF InFlightInv
  <2>7. VacantInv' BY DEF VacantInv
  <2>8. SurviveInv' BY DEF SurviveInv
  <2>9. CommittedDurable' BY DEF CommittedDurable, Loadable
  <2>10. QED BY <2>1, <2>2, <2>3, <2>4, <2>5, <2>6, <2>7, <2>8, <2>9
<1>7. QED BY <1>1, <1>2, <1>3, <1>4, <1>5, <1>6 DEF Next

LEMMA Invariance == Spec => []IInv
  BY InitInv, StepInv, PTL DEF Spec

-----------------------------------------------------------------------------
(* Theorems *)

\* The variables keep their types.
THEOREM TypeCorrect == Spec => []TypeOK
<1>1. IInv => TypeOK BY DEF IInv
<1>2. QED BY <1>1, Invariance, PTL

\* After flush returned Ok its document is whole in slot 0 until the next flush
\* begins, through crashes and restarts.
THEOREM Durability == Spec => []CommittedDurable
<1>1. IInv => CommittedDurable BY DEF IInv
<1>2. QED BY <1>1, Invariance, PTL

\* The JSON file of the last acknowledged document survives MaxCount - 1
\* flushes, whether they succeed, fail or are killed at any system call, if their
\* rotations saw the files that were there.
THEOREM Survival == Spec => []CommittedSurvives
<1>1. IInv => CommittedSurvives BY DEF IInv, SurviveInv, CommittedSurvives
<1>2. QED BY <1>1, Invariance, PTL

\* build and snapshot_restore only ever return documents whose flush succeeded.
THEOREM NoUnacknowledgedLoad == Spec => LoadsOnlyAcked
<1>1. IInv /\ [Next]_vars => [mem' # mem /\ pc' = "idle" => mem' \in acked]_vars
  <2> SUFFICES ASSUME IInv, Next, mem' # mem, pc' = "idle"
               PROVE  mem' \in acked
    OBVIOUS
  <2>1. ASSUME NEW mode \in Modes, Open(mode) PROVE mem' \in acked
    <3>1. mem = 0 BY <2>1 DEF Open, IInv, ControlInv
    <3>2. "Ok" \in LoadResults(0) /\ mem' = json[0] BY <2>1, <3>1 DEF Open
    <3>3. QED BY <3>2, LoadOk, LoadableAcked, SlotFacts DEF IInv
  <2>2. ASSUME NEW id \in Slots, Restore(id) PROVE mem' \in acked
    BY <2>2, RestoreOk, LoadableAcked DEF Restore, RestoreOf, IInv
  <2>3. FlushBegin => FALSE BY DEF FlushBegin
  <2>4. Crash => FALSE BY DEF Crash
  <2>5. FlushStep => FALSE
    BY DEF FlushStep, RotateCheck, RotateDone, RenameHash, RenameJson, Stringify,
           OpenJson, WriteJson, OpenHash, WriteHash, IoError, Fail
  <2>6. QED BY <2>1, <2>2, <2>3, <2>4, <2>5 DEF Next
<1>2. QED BY <1>1, Invariance, PTL DEF Spec, LoadsOnlyAcked

-----------------------------------------------------------------------------
(* The files implement the queue of SnapshotStore, and forget documents only
   when they are misled *)

LEMMA InitKept == Init => Store!Init
  BY DEF Init, Store!Init, onDisk

\* A step that leaves the JSON files and the acknowledgements alone.
LEMMA KeptSame ==
    ASSUME UNCHANGED <<json, acked, committed>>
    PROVE  UNCHANGED <<onDisk, committed>>
  BY DEF onDisk

\* Moving a slot up evicts the oldest document or none, if the rotation is not
\* misled.
LEMMA RenameJsonKept ==
    ASSUME IInv, RenameJson
    PROVE  StoreStep \/ UNCHANGED <<onDisk, committed>>
<1>1. CASE json' = Renamed(json) /\ idx' = idx - 1 /\ pc' = "rotate"
           /\ UNCHANGED <<hash, mem, result, history>>
  <2> USE <1>1 DEF RenameJson, history, IInv
  <2>1. /\ idx \in 1 .. MaxCount - 1 /\ idx \in Slots /\ idx - 1 \in Slots
        /\ acked \subseteq Docs
        /\ UNCHANGED <<acked, committed>>
    BY SlotFacts DEF ControlInv, Renaming, TypeOK
  <2>2. \A s \in Slots :
          json'[s] = IF s = idx - 1 THEN Absent
                     ELSE IF s = idx THEN json[idx - 1] ELSE json[s]
    BY <2>1 DEF Renamed, TypeOK, Slots
  <2>3. \A d \in Docs :
          (\E s \in Slots : json'[s] = d) <=> (\E s \in Slots \ {idx} : json[s] = d)
    BY <2>1, <2>2, ContentAssumption DEF Docs
  <2>4. \A d \in Docs, s \in Slots : json[idx] = d /\ json[s] = d => s = idx
    BY <2>1 DEF OrderInv, Docs, Slots
  <2>5. CASE json[idx] \notin acked
    BY <2>1, <2>3, <2>5, ContentAssumption DEF onDisk
  <2>8. CASE misled = seq
    <3>1. onDisk' \subseteq onDisk BY <2>1, <2>3 DEF onDisk
    <3>2. QED BY <2>1, <2>8, <3>1 DEF StoreStep, Overlooking, Flushing, Store!Forget
  <2>6. CASE json[idx] \in acked /\ misled # seq
    <3>0. json[idx] # Absent BY <2>1, <2>6, ContentAssumption DEF Docs
    <3>1. idx = MaxCount - 1
      BY <2>1, <2>6, <3>0, MaxCountAssumption DEF VacantInv, Rotating
    <3>2. json[idx] \in onDisk /\ onDisk' = onDisk \ {json[idx]}
      BY <2>1, <2>3, <2>4, <2>6 DEF onDisk
    <3>3. \A d \in onDisk : json[idx] <= d
      <4> TAKE d \in onDisk
      <4>1. PICK s \in Slots : json[s] = d BY DEF onDisk
      <4>2. d \in Docs /\ json[idx] \in Docs BY <2>1, <2>6 DEF onDisk
      <4>3. s # MaxCount BY <4>1, <4>2, ContentAssumption DEF OrderInv, Docs
      <4>4. s <= idx BY <4>3, <3>1, MaxCountAssumption DEF Slots
      <4>5. CASE s = idx BY <4>5, <4>1, <4>2 DEF Docs
      <4>6. CASE s < idx BY <4>6, <4>1, <4>2, <2>1 DEF OrderInv, Docs
      <4>7. QED BY <4>4, <4>5, <4>6, <2>1 DEF Slots
    <3>4. QED BY <3>2, <3>3, <2>1 DEF StoreStep, Store!Next, Store!Evict, onDisk
  <2>7. QED BY <2>5, <2>6, <2>8
<1>2. CASE IoError BY <1>2, KeptSame DEF IoError, Fail, disk, history
<1>3. QED BY <1>1, <1>2 DEF RenameJson

\* Truncating slot 0 evicts the only document of a store with one slot, if the
\* rotation is not misled.
LEMMA OpenJsonKept ==
    ASSUME IInv, OpenJson
    PROVE  StoreStep \/ UNCHANGED <<onDisk, committed>>
<1>1. CASE json' = [json EXCEPT ![0] = Torn] /\ pc' = "write_json"
           /\ UNCHANGED <<hash, idx, mem, result, history>>
  <2> USE <1>1 DEF OpenJson, history, IInv
  <2>1. /\ \A s \in Slots : json'[s] = IF s = 0 THEN Torn ELSE json[s]
        /\ acked \subseteq Docs
        /\ UNCHANGED <<acked, committed>>
        /\ 0 \in Slots
    BY SlotFacts DEF TypeOK
  <2>2. \A d \in Docs :
          (\E s \in Slots : json'[s] = d) <=> (\E s \in Slots \ {0} : json[s] = d)
    BY <2>1, ContentAssumption DEF Docs
  <2>3. CASE json[0] \notin acked
    BY <2>1, <2>2, <2>3 DEF onDisk
  <2>6. CASE misled = seq
    <3>1. onDisk' \subseteq onDisk BY <2>1, <2>2 DEF onDisk
    <3>2. QED BY <2>1, <2>6, <3>1 DEF StoreStep, Overlooking, Flushing, Store!Forget
  <2>4. CASE json[0] \in acked /\ misled # seq
    <3>0. json[0] \in Nat BY <2>1, <2>4 DEF Docs
    <3>1. MaxCount = 1
      BY <2>4, <3>0, ContentAssumption, MaxCountAssumption DEF VacantInv
    <3>2. \A s \in Slots : json[s] \in Docs => s = 0
      BY <3>1, ContentAssumption DEF OrderInv, Slots, Docs
    <3>3. onDisk = {json[0]} /\ onDisk' = {}
      BY <2>1, <2>2, <2>4, <3>2 DEF onDisk
    <3>4. json[0] <= json[0] BY <3>0
    <3>5. QED BY <3>3, <3>4, <2>1 DEF StoreStep, Store!Next, Store!Evict, onDisk
  <2>5. QED BY <2>3, <2>4, <2>6
<1>2. CASE IoError BY <1>2, KeptSame DEF IoError, Fail, disk, history
<1>3. QED BY <1>1, <1>2 DEF OpenJson

\* Writing the JSON file adds a document that is not acknowledged yet.
LEMMA WriteJsonKept ==
    ASSUME IInv, WriteJson
    PROVE  UNCHANGED <<onDisk, committed>>
<1>1. CASE json' = [json EXCEPT ![0] = seq] /\ UNCHANGED history
  <2> USE <1>1 DEF WriteJson, history, IInv
  <2>1. /\ \A s \in Slots : json'[s] = IF s = 0 THEN seq ELSE json[s]
        /\ acked \subseteq Docs
        /\ UNCHANGED <<acked, committed>>
        /\ 0 \in Slots
    BY SlotFacts DEF TypeOK
  <2>2. seq \notin acked BY DEF AckInv, Flushing, TypeOK, Docs
  <2>3. json[0] \notin acked BY <2>1, ContentAssumption DEF InFlightInv, Docs
  <2>4. QED BY <2>1, <2>2, <2>3 DEF onDisk
<1>2. CASE IoError BY <1>2, KeptSame DEF IoError, Fail, disk, history
<1>3. QED BY <1>1, <1>2 DEF WriteJson

\* Writing the hash pushes the document.
LEMMA WriteHashKept ==
    ASSUME IInv, WriteHash
    PROVE  Store!Push \/ UNCHANGED <<onDisk, committed>>
<1>1. CASE acked' = acked \cup {seq} /\ committed' = seq /\ UNCHANGED <<json, seq>>
  <2> USE <1>1 DEF WriteHash, IInv
  <2>1. json[0] = seq /\ 0 \in Slots BY SlotFacts DEF InFlightInv
  <2>2. committed' > committed /\ committed' \in Nat
    BY DEF AckInv, Flushing, TypeOK
  <2>3. onDisk' = onDisk \cup {committed'} BY <2>1 DEF onDisk
  <2>4. QED BY <2>2, <2>3 DEF Store!Push, onDisk
<1>2. CASE IoError BY <1>2, KeptSame DEF IoError, Fail, disk, history
<1>3. QED BY <1>1, <1>2 DEF WriteHash

\* Every step of the files is a step of the queue or leaves it alone.
LEMMA StepKept == IInv /\ [Next]_vars => [StoreStep]_<<onDisk, committed>>
<1> SUFFICES ASSUME IInv, [Next]_vars
             PROVE  StoreStep \/ UNCHANGED <<onDisk, committed>>
  OBVIOUS
<1>1. CASE RenameJson BY <1>1, RenameJsonKept
<1>2. CASE OpenJson BY <1>2, OpenJsonKept
<1>3. CASE WriteJson BY <1>3, WriteJsonKept
<1>4. CASE WriteHash BY <1>4, WriteHashKept DEF StoreStep, Store!Next
<1>5. CASE \/ \E mode \in Modes : Open(mode)
           \/ FlushBegin \/ RotateCheck \/ RotateDone \/ RenameHash \/ Stringify
           \/ OpenHash
           \/ \E id \in Slots : Restore(id)
           \/ Crash
           \/ UNCHANGED vars
  <2>1. UNCHANGED <<json, acked, committed>>
    BY <1>5 DEF Open, FlushBegin, RotateCheck, RotateDone, RenameHash, Stringify,
                OpenHash, Restore, RestoreOf, Crash, IoError, Fail, disk, history, vars
  <2>2. QED BY <2>1, KeptSame
<1>6. QED BY <1>1, <1>2, <1>3, <1>4, <1>5 DEF Next, FlushStep

\* The backend implements the queue of acknowledged documents: one leaves the
\* disk as the oldest, or by a flush whose rotation did not see a file.
THEOREM Implementation == Spec => StoreSpec
<1>1. Init => Store!Init BY InitKept
<1>2. IInv /\ [Next]_vars => [StoreStep]_<<onDisk, committed>> BY StepKept
<1>3. QED BY <1>1, <1>2, Invariance, PTL DEF Spec, StoreSpec

-----------------------------------------------------------------------------
(***************************************************************************)
(* The files of every slot: what the rotation makes of them, for every     *)
(* number of slots and of flushes.                                         *)
(***************************************************************************)

(* The files of a slot belong together, whatever was interrupted *)

Whole(s) == Exists(json, s) <=> Exists(hash, s)

\* A slot past the last is never used, and the last slot is half only as long as
\* the slot below it is not vacant: the rotation of the next flush will meet it.
LastInv ==
    /\ Whole(MaxCount)
    /\ MaxCount > 1 /\ ~Whole(MaxCount - 1) =>
          Exists(json, MaxCount - 2) \/ Exists(hash, MaxCount - 2)
    /\ pc = "rename_hash" => Exists(json, idx - 1) /\ Exists(hash, idx - 1)
    /\ pc = "rename_json" =>
          Exists(json, idx - 1) /\ Exists(hash, idx) /\ ~Exists(hash, idx - 1)
    /\ pc \in {"stringify", "open_json"} => idx = 0

\* The slots that a rotation which sees the files has left behind are whole.
WholeInv ==
    misled # seq =>
        /\ pc \in {"rotate", "rename_hash"} /\ idx < MaxCount - 1 =>
              \A s \in Slots : s >= idx => Whole(s)
        /\ pc = "rename_json" /\ idx < MaxCount - 1 =>
              \A s \in Slots : s > idx => Whole(s)
        /\ pc \in {"stringify", "open_json", "write_json", "open_hash", "write_hash"} =>
              \A s \in Slots : s > 0 => Whole(s)

-----------------------------------------------------------------------------
(* What the slots hold as long as no flush is interrupted or misled *)

\* What slot s holds when n documents were flushed.
Holds(n, s) == IF s < MaxCount /\ s < n THEN n - s ELSE Absent

\* What it holds in the rotation: a slot above idx has been filled, idx has been
\* vacated, unless it is the last one, and the slots below are as they were.
Rotated(s) ==
    IF s > idx THEN Holds(seq, s)
    ELSE IF s = idx /\ idx < MaxCount - 1 THEN Absent ELSE Holds(seq - 1, s)

LayoutInv ==
    Steady =>
        /\ pc \in {"idle", "down"} =>
              \A s \in Slots : json[s] = Holds(seq, s) /\ hash[s] = Holds(seq, s)
        /\ pc \in {"rotate", "rename_hash", "stringify", "open_json"} =>
              \A s \in Slots : json[s] = Rotated(s) /\ hash[s] = Rotated(s)
        /\ pc \in {"rename_hash", "rename_json"} => idx < seq
        /\ pc = "rename_json" =>
              \A s \in Slots :
                 /\ json[s] = Rotated(s)
                 /\ hash[s] = IF s = idx THEN Holds(seq, s)
                              ELSE IF s = idx - 1 THEN Absent ELSE Rotated(s)
        /\ pc \in {"write_json", "open_hash", "write_hash"} =>
              \A s \in Slots : s > 0 => json[s] = Holds(seq, s) /\ hash[s] = Holds(seq, s)

\* An IntegrityCorrupted that is still the last result.
CorruptInv ==
    result = "IntegrityCorrupted" =>
        (acked # 1 .. seq - 1 /\ acked # 1 .. seq) \/ misled # 0

RotationInv == LastInv /\ WholeInv /\ LayoutInv /\ CorruptInv

RInv == IInv /\ RotationInv

-----------------------------------------------------------------------------
(* Lemmas *)

\* The document of the running flush is not acknowledged yet.
LEMMA NotYet ==
    ASSUME IInv, pc \in Flushing
    PROVE  seq \in Nat \ {0} /\ seq \notin acked /\ acked # 1 .. seq
<1>1. seq \in Nat \ {0} /\ seq \notin acked BY DEF IInv, TypeOK, AckInv
<1>2. QED BY <1>1

\* The last slots when a step leaves the files alone.
LEMMA LastSame ==
    ASSUME RInv, UNCHANGED disk, pc' \in {"idle", "down", "rotate"}
    PROVE  LastInv'
  BY DEF RInv, RotationInv, LastInv, Whole, Exists, disk

\* An early return: the flush was interrupted.
LEMMA StopR ==
    ASSUME RInv, pc \in Flushing, pc' = "idle",
           UNCHANGED <<disk, idx, seq, acked>>, misled' \in {misled, seq},
           result' = "IntegrityCorrupted" => ~Steady \/ misled' = seq
    PROVE  RotationInv'
<1> USE DEF RInv, RotationInv, disk
<1>1. seq \in Nat \ {0} /\ seq \notin acked /\ acked # 1 .. seq BY NotYet
<1>2. "idle" \notin Flushing BY DEF Flushing
<1>3. LastInv' BY LastSame
<1>4. WholeInv' BY DEF WholeInv
<1>5. LayoutInv' BY <1>1, <1>2 DEF LayoutInv, Steady
<1>6. CorruptInv' BY <1>1 DEF CorruptInv, Steady, IInv, TypeOK
<1>7. QED BY <1>3, <1>4, <1>5, <1>6

LEMMA FailR ==
    ASSUME RInv, pc \in Flushing, NEW code, Fail(code), code # "IntegrityCorrupted"
    PROVE  RotationInv'
  BY StopR DEF Fail, history

LEMMA IoErrorR ==
    ASSUME RInv, pc \in Flushing, IoError
    PROVE  RotationInv'
  BY FailR DEF IoError

\* A step that changes neither the files nor the counters, outside a flush.
LEMMA QuietR ==
    ASSUME RInv, pc \in {"idle", "down"}, pc' \in {"idle", "down"},
           UNCHANGED <<disk, idx, history>>,
           result' = "IntegrityCorrupted" => result = "IntegrityCorrupted"
    PROVE  RotationInv'
<1> USE DEF RInv, RotationInv, disk, history
<1>1. pc \notin Flushing /\ pc' \notin Flushing BY DEF Flushing
<1>2. LastInv' BY LastSame
<1>3. WholeInv' BY DEF WholeInv
<1>4. LayoutInv' BY <1>1 DEF LayoutInv, Steady, Holds
<1>5. CorruptInv' BY DEF CorruptInv
<1>6. QED BY <1>2, <1>3, <1>4, <1>5 DEF RotationInv

-----------------------------------------------------------------------------
(* Every step *)

LEMMA InitR == Init => RotationInv
<1> SUFFICES ASSUME Init PROVE RotationInv OBVIOUS
<1> USE DEF Init
<1>1. LastInv BY MaxCountAssumption DEF LastInv, Whole, Exists, Slots
<1>2. WholeInv BY DEF WholeInv
<1>3. LayoutInv BY DEF LayoutInv, Holds, Slots
<1>4. CorruptInv BY DEF CorruptInv
<1>5. QED BY <1>1, <1>2, <1>3, <1>4 DEF RotationInv

LEMMA OpenR ==
    ASSUME RInv, NEW mode \in Modes, Open(mode)
    PROVE  RotationInv'
<1>1. result' # "IntegrityCorrupted" BY DEF Open, LoadResults
<1>2. pc = "down" /\ pc' \in {"idle", "down"} /\ UNCHANGED <<disk, idx, history>>
      BY DEF Open
<1>3. QED BY <1>1, <1>2, QuietR

LEMMA RestoreR ==
    ASSUME RInv, NEW id \in Slots, Restore(id)
    PROVE  RotationInv'
<1>1. result' # "IntegrityCorrupted"
      BY DEF Restore, RestoreOf, RestoreResults, LoadResults
<1>2. pc = "idle" /\ pc' = "idle" /\ UNCHANGED <<disk, idx, history>>
      BY DEF Restore, RestoreOf
<1>3. QED BY <1>1, <1>2, QuietR

LEMMA CrashR ==
    ASSUME RInv, Crash
    PROVE  RotationInv'
<1> USE DEF RInv, RotationInv, Crash, disk, history
<1>1. CASE pc = "idle" BY <1>1, QuietR
<1>2. CASE pc \in Flushing
  <2>1. seq \in Nat \ {0} /\ seq \notin acked /\ acked # 1 .. seq BY <1>2, NotYet
  <2>2. "down" \notin Flushing BY DEF Flushing
  <2>3. LastInv' BY LastSame
  <2>4. WholeInv' BY DEF WholeInv
  <2>5. LayoutInv' BY <2>1, <2>2 DEF LayoutInv, Steady
  <2>6. CorruptInv' BY DEF CorruptInv
  <2>7. QED BY <2>3, <2>4, <2>5, <2>6 DEF RotationInv
<1>3. QED BY <1>1, <1>2 DEF IInv, TypeOK

LEMMA FlushBeginR ==
    ASSUME RInv, FlushBegin
    PROVE  RotationInv'
<1> USE DEF RInv, RotationInv, FlushBegin, disk, history
<1>1. seq \in Nat /\ acked \subseteq 1 .. seq BY DEF IInv, TypeOK, AckInv, Docs
<1>0. LastInv' BY LastSame
<1>2. WholeInv' BY MaxCountAssumption DEF WholeInv
<1>3. LayoutInv'
  <2>1. SUFFICES ASSUME Steady' PROVE LayoutInv' BY DEF LayoutInv
  <2>2. Steady
    <3>1. acked # 1 .. seq + 1
      <4>1. seq + 1 \in 1 .. seq + 1 /\ seq + 1 \notin acked BY <1>1
      <4>2. QED BY <4>1
    <3>2. QED BY <1>1, <2>1, <3>1 DEF Steady, Uninterrupted
  <2>3. \A s \in Slots : json[s] = Holds(seq, s) /\ hash[s] = Holds(seq, s)
        BY <2>2 DEF LayoutInv
  <2>4. \A s \in Slots : Rotated(s)' = Holds(seq, s)
        BY <1>1, MaxCountAssumption DEF Rotated, Holds, Slots
  <2>5. QED BY <2>3, <2>4 DEF LayoutInv
<1>4. CorruptInv'
  <2>1. acked # 1 .. seq + 1
    <3>1. seq + 1 \in 1 .. seq + 1 /\ seq + 1 \notin acked BY <1>1
    <3>2. QED BY <3>1
  <2>2. QED BY <1>1, <2>1 DEF CorruptInv
<1>5. QED BY <1>0, <1>2, <1>3, <1>4 DEF RotationInv

\* A slot that holds a document exists.
LEMMA HoldsExists ==
    ASSUME NEW n \in Nat, NEW s \in Slots
    PROVE  Holds(n, s) # Absent <=> s < MaxCount /\ s < n
  BY ContentAssumption, MaxCountAssumption DEF Holds, Slots

LEMMA RotateCheckR ==
    ASSUME RInv, RotateCheck
    PROVE  RotationInv'
<1> USE DEF RInv, RotationInv, disk
<1>1. /\ pc = "rotate" /\ pc \in Flushing /\ seq \in Nat \ {0} /\ misled \in 0 .. seq
      /\ idx \in 1 .. MaxCount - 1 /\ idx \in Slots /\ idx - 1 \in Slots
      /\ UNCHANGED <<disk, mem, seq, acked, committed, attempts>>
      /\ misled' \in {misled, seq}
      BY RotateChecks, MaxCountAssumption DEF Slots
<1>2. seq - 1 \in Nat /\ acked # 1 .. seq BY <1>1, NotYet
<1>3. Steady => \A s \in Slots : json[s] = Rotated(s) /\ hash[s] = Rotated(s)
      BY <1>1 DEF LayoutInv
<1>4. CASE pc' = "idle" /\ result' = "IntegrityCorrupted" /\ UNCHANGED idx
  <2>1. ~Steady \/ misled' = seq BY <1>1, <1>3, <1>4, RotateChecks DEF Exists
  <2>2. QED BY <1>1, <1>4, <2>1, StopR
<1>5. CASE idx' = idx - 1 /\ UNCHANGED <<pc, result>>
  <2>1. LastInv' BY <1>1, <1>5, LastSame
  <2>2. CASE misled' = seq
    <3>1. WholeInv' BY <1>1, <2>2 DEF WholeInv
    <3>2. LayoutInv' BY <1>1, <2>2 DEF LayoutInv, Steady
    <3>3. CorruptInv' BY <1>1, <2>2 DEF CorruptInv
    <3>4. QED BY <2>1, <3>1, <3>2, <3>3
  <2>3. CASE misled' # seq
    <3>1. misled' = misled /\ ~Exists(json, idx - 1) /\ ~Exists(hash, idx - 1)
          BY <1>1, <1>5, <2>3, RotateChecks
    <3>2. WholeInv'
      <4>1. \A s \in Slots : s >= idx - 1 => Whole(s)
        <5>1. Whole(idx - 1) /\ Whole(MaxCount) BY <3>1 DEF Whole, LastInv
        <5>2. CASE idx < MaxCount - 1
          <6>1. \A s \in Slots : s >= idx => Whole(s) BY <1>1, <2>3, <3>1, <5>2 DEF WholeInv
          <6>2. QED BY <1>1, <5>1, <6>1 DEF Slots
        <5>3. CASE idx = MaxCount - 1
          <6>0. idx - 1 = MaxCount - 2 /\ MaxCount > 1 BY <1>1, <5>3, MaxCountAssumption
          <6>1. Whole(MaxCount - 1) BY <3>1, <6>0 DEF LastInv
          <6>2. \A s \in Slots : s >= idx - 1 => s \in {idx - 1, MaxCount - 1, MaxCount}
                BY <1>1, <5>3, MaxCountAssumption DEF Slots
          <6>3. QED BY <5>1, <6>1, <6>2
        <5>4. QED BY <1>1, <5>2, <5>3, MaxCountAssumption
      <4>2. \A s \in Slots : s >= idx - 1 => Whole(s)' BY <1>1, <4>1 DEF Whole, Exists
      <4>3. QED BY <1>1, <1>5, <4>2 DEF WholeInv
    <3>3. LayoutInv'
      <4>1. SUFFICES ASSUME Steady' PROVE LayoutInv' BY DEF LayoutInv
      <4>2. Steady BY <1>1, <1>5, <3>1, <4>1 DEF Steady
      <4>3. Rotated(idx - 1) = Holds(seq - 1, idx - 1) BY <1>1 DEF Rotated
      <4>4. idx >= seq
        <5>1. Holds(seq - 1, idx - 1) = Absent BY <1>1, <1>3, <3>1, <4>2, <4>3 DEF Exists
        <5>2. ~(idx - 1 < MaxCount /\ idx - 1 < seq - 1)
              BY <1>1, <1>2, <5>1, HoldsExists
        <5>3. QED BY <1>1, <1>2, <5>2, MaxCountAssumption
      <4>5. \A s \in Slots : Rotated(s)' = Rotated(s)
            BY <1>1, <1>2, <1>5, <4>4 DEF Rotated, Holds, Slots
      <4>6. QED BY <1>1, <1>3, <1>5, <4>2, <4>5 DEF LayoutInv
    <3>4. CorruptInv' BY <1>1, <1>5, <3>1 DEF CorruptInv
    <3>5. QED BY <2>1, <3>2, <3>3, <3>4
  <2>4. QED BY <2>2, <2>3
<1>6. CASE pc' = "rename_hash" /\ UNCHANGED <<idx, result>>
  <2>0. Exists(json, idx - 1) /\ Exists(hash, idx - 1) BY <1>6, RotateChecks
  <2>1. LastInv' BY <1>1, <1>6, <2>0 DEF LastInv, Whole, Exists
  <2>2. WholeInv' BY <1>1, <1>6 DEF WholeInv, Whole, Exists
  <2>3. LayoutInv'
    <3>1. SUFFICES ASSUME Steady' PROVE LayoutInv' BY DEF LayoutInv
    <3>2. Steady BY <1>1, <1>6, <3>1 DEF Steady
    <3>3. Rotated(idx - 1) = Holds(seq - 1, idx - 1) BY <1>1 DEF Rotated
    <3>4. idx < seq
          BY <1>1, <1>2, <1>3, <2>0, <3>2, <3>3, HoldsExists DEF Exists
    <3>5. \A s \in Slots : Rotated(s)' = Rotated(s) BY <1>1, <1>6 DEF Rotated, Holds
    <3>6. QED BY <1>1, <1>3, <1>6, <3>2, <3>4, <3>5 DEF LayoutInv
  <2>4. CorruptInv' BY <1>1, <1>6 DEF CorruptInv
  <2>5. QED BY <2>1, <2>2, <2>3, <2>4
<1>7. QED BY <1>4, <1>5, <1>6, RotateChecks

\* A step of a flush that moves no file and not the loop variable.
LEMMA GoesR ==
    ASSUME RInv,
           \/ pc = "rotate" /\ idx = 0 /\ pc' = "stringify"
           \/ pc = "stringify" /\ pc' = "open_json",
           UNCHANGED <<disk, idx, mem, result, history>>
    PROVE  RotationInv'
<1> USE DEF RInv, RotationInv, disk, history
<1>0. LastInv' BY DEF LastInv, Whole, Exists
<1>1. WholeInv'
  <2>1. \A s \in Slots : Whole(s)' <=> Whole(s) BY DEF Whole, Exists
  <2>2. CASE pc = "rotate"
    <3>1. misled # seq => \A s \in Slots : s > 0 => Whole(s)
      <4>1. MaxCount - 1 > 0 \/ MaxCount = 1 BY MaxCountAssumption
      <4>2. CASE MaxCount = 1 BY <4>2 DEF LastInv, Slots
      <4>3. CASE MaxCount - 1 > 0 BY <2>2, <4>3, MaxCountAssumption DEF WholeInv, Slots
      <4>4. QED BY <4>1, <4>2, <4>3
    <3>2. QED BY <2>1, <2>2, <3>1 DEF WholeInv
  <2>3. CASE pc = "stringify" BY <2>1, <2>3 DEF WholeInv
  <2>4. QED BY <2>2, <2>3
<1>2. LayoutInv'
  <2>1. SUFFICES ASSUME Steady' PROVE LayoutInv' BY DEF LayoutInv
  <2>2. Steady BY <2>1 DEF Steady, Uninterrupted, Flushing
  <2>3. \A s \in Slots : Rotated(s)' = Rotated(s) BY DEF Rotated, Holds
  <2>4. QED BY <2>2, <2>3 DEF LayoutInv
<1>3. CorruptInv' BY DEF CorruptInv
<1>4. QED BY <1>0, <1>1, <1>2, <1>3

LEMMA RotateDoneR ==
    ASSUME RInv, RotateDone
    PROVE  RotationInv'
<1>1. /\ pc = "rotate" /\ idx = 0 /\ pc' = "stringify"
      /\ UNCHANGED <<disk, idx, mem, result, history>>
      BY DEF RotateDone
<1>2. QED BY <1>1, GoesR

LEMMA StringifyR ==
    ASSUME RInv, Stringify
    PROVE  RotationInv'
<1>1. pc \in Flushing BY DEF Stringify, Flushing
<1>2. CASE Fail("JsonGeneratorError") BY <1>1, <1>2, FailR
<1>3. QED BY <1>2, GoesR DEF Stringify

\* What a rename makes of a file, slot by slot.
LEMMA RenamedSlots ==
    ASSUME IInv, pc \in Renaming, NEW file \in [Slots -> Content]
    PROVE  /\ idx \in 1 .. MaxCount - 1 /\ idx \in Slots /\ idx - 1 \in Slots
           /\ Renamed(file)[idx] = file[idx - 1]
           /\ Renamed(file)[idx - 1] = Absent
           /\ \A s \in Slots : s # idx /\ s # idx - 1 => Renamed(file)[s] = file[s]
<1>1. idx \in 1 .. MaxCount - 1 /\ idx \in Slots /\ idx - 1 \in Slots
      BY MaxCountAssumption DEF IInv, TypeOK, ControlInv, Slots
<1>2. QED BY <1>1 DEF Renamed

LEMMA RenameHashR ==
    ASSUME RInv, RenameHash
    PROVE  RotationInv'
<1> USE DEF RInv, RotationInv, RenameHash, disk, history
<1>1. pc \in Flushing BY DEF Flushing
<1>2. CASE IoError BY <1>1, <1>2, IoErrorR
<1>3. CASE /\ hash' = Renamed(hash)
           /\ pc' = "rename_json"
           /\ UNCHANGED <<json, idx, mem, result, history>>
  <2>1. /\ idx \in 1 .. MaxCount - 1 /\ idx \in Slots /\ idx - 1 \in Slots
        /\ hash'[idx] = hash[idx - 1]
        /\ hash'[idx - 1] = Absent
        /\ \A s \in Slots : s # idx /\ s # idx - 1 => hash'[s] = hash[s]
    <3>1. pc \in Renaming /\ hash \in [Slots -> Content] BY DEF Renaming, IInv, TypeOK
    <3>2. QED BY <1>3, <3>1, RenamedSlots
  <2>2. LastInv' /\ WholeInv'
    <3>1. /\ Exists(json, idx - 1) /\ Exists(hash, idx - 1)
          /\ Whole(MaxCount) /\ MaxCount \in Slots /\ MaxCount \in Nat
          BY MaxCountAssumption DEF LastInv, Slots
    <3>2. \A s \in Slots : s > idx \/ s < idx - 1 => (Whole(s)' <=> Whole(s))
          BY <1>3, <2>1 DEF Whole, Exists, Slots
    <3>3. hash'[idx] # Absent /\ hash'[idx - 1] = Absent
          BY <2>1, <3>1 DEF Exists
    <3>4. Whole(MaxCount)' BY <2>1, <3>1, <3>2
    <3>5. ~Whole(MaxCount - 1)' =>
             Exists(json, MaxCount - 2)' \/ Exists(hash, MaxCount - 2)'
      <4>1. CASE idx = MaxCount - 1
        <5>1. idx - 1 = MaxCount - 2 BY <3>1, <4>1
        <5>2. QED BY <1>3, <3>1, <5>1 DEF Exists
      <4>2. CASE idx = MaxCount - 2 BY <3>3, <4>2 DEF Exists
      <4>3. CASE idx < MaxCount - 2
        <5>1. MaxCount - 1 \in Slots /\ MaxCount - 2 \in Slots /\ MaxCount > 1
              BY <2>1, <3>1, <4>3 DEF Slots
        <5>2. /\ hash'[MaxCount - 1] = hash[MaxCount - 1]
              /\ hash'[MaxCount - 2] = hash[MaxCount - 2]
              BY <2>1, <3>1, <4>3, <5>1
        <5>3. QED BY <1>3, <5>1, <5>2 DEF LastInv, Whole, Exists
      <4>4. QED BY <2>1, <3>1, <4>1, <4>2, <4>3
    <3>6. LastInv' BY <1>3, <3>1, <3>3, <3>4, <3>5 DEF LastInv, Exists
    <3>7. WholeInv'
      <4>1. SUFFICES ASSUME misled # seq, idx < MaxCount - 1
                     PROVE  \A s \in Slots : s > idx => Whole(s)'
            BY <1>3 DEF WholeInv
      <4>2. \A s \in Slots : s >= idx => Whole(s) BY <4>1 DEF WholeInv
      <4>3. QED BY <2>1, <3>2, <4>2 DEF Slots
    <3>8. QED BY <3>6, <3>7
  <2>3. LayoutInv'
    <3>1. SUFFICES ASSUME Steady' PROVE LayoutInv' BY DEF LayoutInv
    <3>2. Steady BY <1>1, <1>3, <3>1 DEF Steady, Uninterrupted
    <3>3. /\ idx < seq
          /\ \A s \in Slots : json[s] = Rotated(s) /\ hash[s] = Rotated(s)
          BY <3>2 DEF LayoutInv
    <3>4. Rotated(idx - 1) = Holds(seq, idx)
      <4>1. seq \in Nat \ {0} BY <1>1, NotYet
      <4>2. Rotated(idx - 1) = Holds(seq - 1, idx - 1) BY <2>1 DEF Rotated
      <4>3. Holds(seq - 1, idx - 1) = Holds(seq, idx)
            BY <2>1, <3>3, <4>1, MaxCountAssumption DEF Holds
      <4>4. QED BY <4>2, <4>3
    <3>5. \A s \in Slots : hash'[s] = IF s = idx THEN Holds(seq, s)
                                      ELSE IF s = idx - 1 THEN Absent ELSE Rotated(s)
          BY <2>1, <3>3, <3>4
    <3>6. \A s \in Slots : Rotated(s)' = Rotated(s) BY <1>3 DEF Rotated, Holds
    <3>7. QED BY <1>3, <3>3, <3>5, <3>6 DEF LayoutInv, Holds
  <2>4. CorruptInv' BY <1>3 DEF CorruptInv
  <2>5. QED BY <2>2, <2>3, <2>4
<1>4. QED BY <1>2, <1>3

LEMMA RenameJsonR ==
    ASSUME RInv, RenameJson
    PROVE  RotationInv'
<1> USE DEF RInv, RotationInv, RenameJson, disk, history
<1>1. pc \in Flushing BY DEF Flushing
<1>2. CASE IoError BY <1>1, <1>2, IoErrorR
<1>3. CASE /\ json' = Renamed(json)
           /\ idx' = idx - 1
           /\ pc' = "rotate"
           /\ UNCHANGED <<hash, mem, result, history>>
  <2>1. /\ idx \in 1 .. MaxCount - 1 /\ idx \in Slots /\ idx - 1 \in Slots
        /\ json'[idx] = json[idx - 1]
        /\ json'[idx - 1] = Absent
        /\ \A s \in Slots : s # idx /\ s # idx - 1 => json'[s] = json[s]
    <3>1. pc \in Renaming /\ json \in [Slots -> Content] BY DEF Renaming, IInv, TypeOK
    <3>2. QED BY <1>3, <3>1, RenamedSlots
  <2>2. LastInv' /\ WholeInv'
    <3>1. /\ Exists(json, idx - 1) /\ Exists(hash, idx) /\ ~Exists(hash, idx - 1)
          /\ Whole(MaxCount) /\ MaxCount \in Slots /\ MaxCount \in Nat
          BY MaxCountAssumption DEF LastInv, Slots
    <3>2. \A s \in Slots : s = idx \/ s = idx - 1 => Whole(s)'
      <4>1. json'[idx] # Absent /\ hash'[idx] # Absent
            BY <1>3, <2>1, <3>1 DEF Exists
      <4>2. json'[idx - 1] = Absent /\ hash'[idx - 1] = Absent
            BY <1>3, <2>1, <3>1 DEF Exists
      <4>3. QED BY <4>1, <4>2 DEF Whole, Exists
    <3>3. \A s \in Slots : s > idx \/ s < idx - 1 => (Whole(s)' <=> Whole(s))
          BY <1>3, <2>1 DEF Whole, Exists, Slots
    <3>4. Whole(MaxCount)' BY <2>1, <3>1, <3>3
    <3>5. ~Whole(MaxCount - 1)' =>
             Exists(json, MaxCount - 2)' \/ Exists(hash, MaxCount - 2)'
      <4>1. CASE idx = MaxCount - 1 BY <2>1, <3>2, <4>1
      <4>2. CASE idx = MaxCount - 2 BY <2>1, <3>1, <4>2 DEF Exists
      <4>3. CASE idx < MaxCount - 2
        <5>1. MaxCount - 1 \in Slots /\ MaxCount - 2 \in Slots /\ MaxCount > 1
              BY <2>1, <3>1, <4>3 DEF Slots
        <5>2. /\ json'[MaxCount - 1] = json[MaxCount - 1]
              /\ json'[MaxCount - 2] = json[MaxCount - 2]
              BY <2>1, <3>1, <4>3, <5>1
        <5>3. QED BY <1>3, <5>1, <5>2 DEF LastInv, Whole, Exists
      <4>4. QED BY <2>1, <3>1, <4>1, <4>2, <4>3
    <3>6. LastInv' BY <1>3, <3>4, <3>5 DEF LastInv
    <3>7. WholeInv'
      <4>1. SUFFICES ASSUME misled # seq
                     PROVE  \A s \in Slots : s >= idx - 1 => Whole(s)'
            BY <1>3 DEF WholeInv
      <4>2. \A s \in Slots : s > idx => Whole(s)
        <5>1. CASE idx < MaxCount - 1 BY <4>1, <5>1 DEF WholeInv
        <5>2. CASE idx = MaxCount - 1
          <6>1. \A s \in Slots : s > idx => s = MaxCount BY <3>1, <5>2 DEF Slots
          <6>2. QED BY <3>1, <6>1
        <5>3. QED BY <2>1, <5>1, <5>2, MaxCountAssumption
      <4>3. \A s \in Slots : s > idx \/ s = idx \/ s = idx - 1 \/ s < idx - 1
            BY <2>1 DEF Slots
      <4>4. QED BY <2>1, <3>2, <3>3, <4>2, <4>3 DEF Slots
    <3>8. QED BY <3>6, <3>7
  <2>3. LayoutInv'
    <3>1. SUFFICES ASSUME Steady' PROVE LayoutInv' BY DEF LayoutInv
    <3>2. Steady BY <1>1, <1>3, <3>1 DEF Steady, Uninterrupted
    <3>3. /\ idx < seq
          /\ \A s \in Slots :
                /\ json[s] = Rotated(s)
                /\ hash[s] = IF s = idx THEN Holds(seq, s)
                             ELSE IF s = idx - 1 THEN Absent ELSE Rotated(s)
          BY <3>2 DEF LayoutInv
    <3>4. Rotated(idx - 1) = Holds(seq, idx)
      <4>1. seq \in Nat \ {0} BY <1>1, NotYet
      <4>2. Rotated(idx - 1) = Holds(seq - 1, idx - 1) BY <2>1 DEF Rotated
      <4>3. Holds(seq - 1, idx - 1) = Holds(seq, idx)
            BY <2>1, <3>3, <4>1, MaxCountAssumption DEF Holds
      <4>4. QED BY <4>2, <4>3
    <3>5. \A s \in Slots :
             Rotated(s)' = IF s = idx THEN Holds(seq, s)
                           ELSE IF s = idx - 1 THEN Absent ELSE Rotated(s)
      <4>1. SUFFICES ASSUME NEW s \in Slots
                     PROVE  Rotated(s)' = IF s = idx THEN Holds(seq, s)
                                          ELSE IF s = idx - 1 THEN Absent ELSE Rotated(s)
            OBVIOUS
      <4>2. Rotated(s)' = IF s > idx - 1 THEN Holds(seq, s)
                          ELSE IF s = idx - 1 /\ idx - 1 < MaxCount - 1 THEN Absent
                          ELSE Holds(seq - 1, s)
            BY <1>3 DEF Rotated, Holds
      <4>3. s \in Nat /\ MaxCount \in Nat /\ idx - 1 < MaxCount - 1 /\ idx \in Nat
            BY <2>1, MaxCountAssumption DEF Slots
      <4>4. CASE s > idx BY <4>2, <4>3, <4>4 DEF Rotated
      <4>5. CASE s = idx BY <4>2, <4>3, <4>5
      <4>6. CASE s = idx - 1 BY <4>2, <4>3, <4>6
      <4>7. CASE s < idx - 1 BY <4>2, <4>3, <4>7 DEF Rotated
      <4>8. QED BY <4>3, <4>4, <4>5, <4>6, <4>7
    <3>6. \A s \in Slots : json'[s] = Rotated(s)' /\ hash'[s] = Rotated(s)'
          BY <1>3, <2>1, <3>3, <3>4, <3>5
    <3>7. QED BY <1>3, <3>6 DEF LayoutInv
  <2>4. CorruptInv' BY <1>3 DEF CorruptInv
  <2>5. QED BY <2>2, <2>3, <2>4
<1>4. QED BY <1>2, <1>3

\* Writing slot 0, before the flush returns.
LEMMA WritesR ==
    ASSUME RInv,
           pc \in {"open_json", "write_json", "open_hash"},
           pc' \in {"write_json", "open_hash", "write_hash"},
           \A s \in Slots : s > 0 => json'[s] = json[s] /\ hash'[s] = hash[s],
           Exists(json, 0) \/ pc = "open_json", json'[0] # Absent,
           UNCHANGED <<idx, result, history>>
    PROVE  RotationInv'
<1> USE DEF RInv, RotationInv, history
<1>1. pc \in Flushing /\ pc' \in Flushing BY DEF Flushing
<1>2. \A s \in Slots : s > 0 => (Whole(s)' <=> Whole(s)) BY DEF Whole, Exists
<1>3. LastInv'
  <2>1. MaxCount \in Slots /\ MaxCount > 0 /\ MaxCount \in Nat
        BY MaxCountAssumption DEF Slots
  <2>2. Whole(MaxCount)' BY <1>2, <2>1 DEF LastInv
  <2>3. MaxCount > 1 /\ ~Whole(MaxCount - 1)' =>
           Exists(json, MaxCount - 2)' \/ Exists(hash, MaxCount - 2)'
    <3>1. SUFFICES ASSUME MaxCount > 1, ~Whole(MaxCount - 1)'
                   PROVE  Exists(json, MaxCount - 2)' \/ Exists(hash, MaxCount - 2)'
          OBVIOUS
    <3>2. MaxCount - 1 \in Slots /\ MaxCount - 1 > 0 /\ MaxCount - 2 \in Slots
          BY <2>1, <3>1 DEF Slots
    <3>3. Exists(json, MaxCount - 2) \/ Exists(hash, MaxCount - 2)
          BY <1>2, <3>1, <3>2 DEF LastInv
    <3>4. CASE MaxCount - 2 = 0 BY <3>4 DEF Exists
    <3>5. CASE MaxCount - 2 > 0 BY <3>2, <3>3, <3>5 DEF Exists
    <3>6. QED BY <2>1, <3>1, <3>4, <3>5
  <2>4. QED BY <2>2, <2>3 DEF LastInv
<1>7. WholeInv' BY <1>2 DEF WholeInv
<1>4. LayoutInv'
  <2>1. SUFFICES ASSUME Steady' PROVE LayoutInv' BY DEF LayoutInv
  <2>2. Steady BY <1>1, <2>1 DEF Steady, Uninterrupted
  <2>3. \A s \in Slots : s > 0 => json[s] = Holds(seq, s) /\ hash[s] = Holds(seq, s)
    <3>1. CASE pc = "open_json" BY <2>2, <3>1 DEF LayoutInv, LastInv, Rotated
    <3>2. CASE pc # "open_json" BY <2>2, <3>2 DEF LayoutInv
    <3>3. QED BY <3>1, <3>2
  <2>4. \A s \in Slots : s > 0 => json'[s] = Holds(seq, s)' /\ hash'[s] = Holds(seq, s)'
        BY <2>3 DEF Holds
  <2>5. QED BY <2>4 DEF LayoutInv
<1>5. CorruptInv' BY DEF CorruptInv
<1>6. QED BY <1>3, <1>4, <1>5, <1>7

LEMMA OpenJsonR ==
    ASSUME RInv, OpenJson
    PROVE  RotationInv'
<1>1. pc \in Flushing BY DEF OpenJson, Flushing
<1>2. CASE IoError BY <1>1, <1>2, IoErrorR
<1>3. CASE /\ json' = [json EXCEPT ![0] = Torn]
           /\ pc' = "write_json"
           /\ UNCHANGED <<hash, idx, mem, result, history>>
  <2>1. /\ \A s \in Slots : s > 0 => json'[s] = json[s] /\ hash'[s] = hash[s]
        /\ Exists(json, 0) \/ pc = "open_json"
        /\ json'[0] # Absent
        BY <1>3, SlotFacts, ContentAssumption
        DEF RInv, IInv, TypeOK, InFlightInv, Exists, OpenJson, WriteJson, OpenHash
  <2>2. QED BY <1>3, <2>1, WritesR DEF OpenJson
<1>4. QED BY <1>2, <1>3 DEF OpenJson

LEMMA WriteJsonR ==
    ASSUME RInv, WriteJson
    PROVE  RotationInv'
<1>1. pc \in Flushing BY DEF WriteJson, Flushing
<1>2. CASE IoError BY <1>1, <1>2, IoErrorR
<1>3. CASE /\ json' = [json EXCEPT ![0] = seq]
           /\ pc' = "open_hash"
           /\ UNCHANGED <<hash, idx, mem, result, history>>
  <2>1. /\ \A s \in Slots : s > 0 => json'[s] = json[s] /\ hash'[s] = hash[s]
        /\ Exists(json, 0) \/ pc = "open_json"
        /\ json'[0] # Absent
        BY <1>3, SlotFacts, ContentAssumption
        DEF RInv, IInv, TypeOK, InFlightInv, Exists, OpenJson, WriteJson, OpenHash
  <2>2. QED BY <1>3, <2>1, WritesR DEF WriteJson
<1>4. QED BY <1>2, <1>3 DEF WriteJson

LEMMA OpenHashR ==
    ASSUME RInv, OpenHash
    PROVE  RotationInv'
<1>1. pc \in Flushing BY DEF OpenHash, Flushing
<1>2. CASE IoError BY <1>1, <1>2, IoErrorR
<1>3. CASE /\ hash' = [hash EXCEPT ![0] = Torn]
           /\ pc' = "write_hash"
           /\ UNCHANGED <<json, idx, mem, result, history>>
  <2>1. /\ \A s \in Slots : s > 0 => json'[s] = json[s] /\ hash'[s] = hash[s]
        /\ Exists(json, 0) \/ pc = "open_json"
        /\ json'[0] # Absent
        BY <1>3, SlotFacts, ContentAssumption
        DEF RInv, IInv, TypeOK, InFlightInv, Exists, OpenJson, WriteJson, OpenHash
  <2>2. QED BY <1>3, <2>1, WritesR DEF OpenHash
<1>4. QED BY <1>2, <1>3 DEF OpenHash

\* The files of every slot belong together when flush returns Ok.
LEMMA WriteHashWhole ==
    ASSUME RInv, WriteHash, ~IoError
    PROVE  /\ misled # seq => \A s \in Slots : Whole(s)'
           /\ Steady' => \A s \in Slots : json'[s] = Holds(seq, s) /\ hash'[s] = Holds(seq, s)
<1> USE DEF RInv, RotationInv, WriteHash
<1>1. pc \in Flushing BY DEF Flushing
<1>2. /\ seq \in Nat \ {0} /\ seq \notin acked
      /\ 0 \in Slots /\ MaxCount > 0
      BY <1>1, NotYet, MaxCountAssumption DEF Slots
<1>3. /\ json' = json /\ json[0] = seq
      /\ hash'[0] = seq /\ \A s \in Slots : s > 0 => hash'[s] = hash[s]
      BY <1>2 DEF IInv, TypeOK, InFlightInv
<1>4. \A s \in Slots : s = 0 \/ s > 0 BY DEF Slots
<1>5. Whole(0)' BY <1>2, <1>3, ContentAssumption DEF Whole, Exists
<1>6. misled # seq => \A s \in Slots : s > 0 => Whole(s)'
      BY <1>3 DEF WholeInv, Whole, Exists
<1>7. Steady' => Steady
  <2>1. SUFFICES ASSUME acked \cup {seq} = 1 .. seq PROVE acked = 1 .. seq - 1
        BY <1>1 DEF Steady, Uninterrupted, Flushing
  <2>2. \A d : d \in acked <=> d \in 1 .. seq /\ d # seq BY <1>2, <2>1
  <2>3. \A d : d \in 1 .. seq - 1 <=> d \in 1 .. seq /\ d # seq BY <1>2
  <2>4. QED BY <2>2, <2>3
<1>8. Steady => \A s \in Slots : s > 0 => json[s] = Holds(seq, s) /\ hash[s] = Holds(seq, s)
      BY DEF LayoutInv
<1>9. Holds(seq, 0) = seq BY <1>2, MaxCountAssumption DEF Holds
<1>10. QED BY <1>3, <1>4, <1>5, <1>6, <1>7, <1>8, <1>9

LEMMA WriteHashR ==
    ASSUME RInv, WriteHash
    PROVE  RotationInv'
<1>1. pc \in Flushing BY DEF WriteHash, Flushing
<1>2. CASE IoError BY <1>1, <1>2, IoErrorR
<1>3. CASE ~IoError
  <2>1. Steady' => \A s \in Slots : json'[s] = Holds(seq, s) /\ hash'[s] = Holds(seq, s)
        BY <1>3, WriteHashWhole
  <2>2. /\ pc' = "idle" /\ result' = "Ok" /\ seq' = seq
        /\ json' = json /\ hash' = [hash EXCEPT ![0] = seq]
        BY <1>3 DEF WriteHash
  <2>3. LastInv'
    <3>1. /\ \A s \in Slots : s > 0 => hash'[s] = hash[s]
          /\ json[0] # Absent /\ hash'[0] = seq
          /\ MaxCount \in Slots /\ MaxCount \in Nat \ {0}
          BY <1>1, <2>2, NotYet, SlotFacts, MaxCountAssumption, ContentAssumption
          DEF RInv, IInv, TypeOK, InFlightInv, WriteHash, Slots
    <3>2. Whole(MaxCount)' BY <2>2, <3>1 DEF RInv, RotationInv, LastInv, Whole, Exists
    <3>3. MaxCount > 1 /\ ~Whole(MaxCount - 1)' =>
             Exists(json, MaxCount - 2)' \/ Exists(hash, MaxCount - 2)'
      <4>1. SUFFICES ASSUME MaxCount > 1, ~Whole(MaxCount - 1)'
                     PROVE  Exists(json, MaxCount - 2)' \/ Exists(hash, MaxCount - 2)'
            OBVIOUS
      <4>2. MaxCount - 1 \in Slots /\ MaxCount - 1 > 0 /\ MaxCount - 2 \in Slots
            BY <3>1, <4>1 DEF Slots
      <4>3. Exists(json, MaxCount - 2) \/ Exists(hash, MaxCount - 2)
            BY <2>2, <3>1, <4>1, <4>2 DEF RInv, RotationInv, LastInv, Whole, Exists
      <4>4. CASE MaxCount - 2 = 0 BY <2>2, <3>1, <4>4 DEF Exists
      <4>5. CASE MaxCount - 2 > 0 BY <2>2, <3>1, <4>2, <4>3, <4>5 DEF Exists
      <4>6. QED BY <3>1, <4>1, <4>4, <4>5
    <3>4. QED BY <2>2, <3>2, <3>3 DEF LastInv
  <2>4. WholeInv' BY <2>2 DEF WholeInv
  <2>5. LayoutInv' BY <2>1, <2>2 DEF LayoutInv, Holds
  <2>6. CorruptInv' BY <2>2 DEF CorruptInv
  <2>7. QED BY <2>3, <2>4, <2>5, <2>6 DEF RotationInv
<1>4. QED BY <1>2, <1>3

LEMMA StepR == RInv /\ [Next]_vars => RInv'
<1> SUFFICES ASSUME RInv, [Next]_vars PROVE RInv' OBVIOUS
<1>1. IInv' BY StepInv DEF RInv
<1>2. CASE UNCHANGED vars
  <2> USE <1>2 DEF vars, RInv, RotationInv
  <2>1. LastInv' BY DEF LastInv, Whole, Exists
  <2>2. WholeInv' BY DEF WholeInv, Whole, Exists
  <2>3. LayoutInv' BY DEF LayoutInv, Steady, Rotated, Holds
  <2>4. CorruptInv' BY DEF CorruptInv
  <2>5. QED BY <1>1, <2>1, <2>2, <2>3, <2>4
<1>3. ASSUME NEW mode \in Modes, Open(mode) PROVE RotationInv' BY <1>3, OpenR
<1>4. ASSUME NEW id \in Slots, Restore(id) PROVE RotationInv' BY <1>4, RestoreR
<1>5. ASSUME FlushStep PROVE RotationInv'
      BY <1>5, RotateCheckR, RotateDoneR, RenameHashR, RenameJsonR, StringifyR,
         OpenJsonR, WriteJsonR, OpenHashR, WriteHashR
      DEF FlushStep
<1>6. QED BY <1>1, <1>2, <1>3, <1>4, <1>5, FlushBeginR, CrashR DEF Next, RInv

-----------------------------------------------------------------------------
(* Theorems *)

LEMMA InvarianceR == Spec => []RInv
<1>1. Init => RInv BY InitInv, InitR DEF RInv
<1>2. QED BY <1>1, StepR, PTL DEF Spec

\* A steady state is laid out newest first.
LEMMA NewestFirstR == RInv => NewestFirst
<1>1. SUFFICES ASSUME RInv, pc \in {"idle", "down"}, Uninterrupted
               PROVE  \A s \in Slots :
                         IF s < MaxCount /\ s < committed
                         THEN Loadable(s) /\ json[s] = committed - s
                         ELSE ~Exists(json, s) /\ ~Exists(hash, s)
      BY DEF NewestFirst
<1>2. seq = committed
  <2>1. acked = 1 .. seq /\ seq \in Nat /\ committed \in Nat
        BY <1>1 DEF Uninterrupted, RInv, IInv, TypeOK
  <2>2. (\A d \in acked : d <= committed) /\ committed <= seq
        BY <1>1 DEF RInv, IInv, AckInv
  <2>3. QED BY <2>1, <2>2
<1>3. \A s \in Slots : json[s] = Holds(committed, s) /\ hash[s] = Holds(committed, s)
      BY <1>1, <1>2 DEF RInv, RotationInv, LayoutInv, Steady, Uninterrupted
<1>4. committed \in Nat BY <1>1 DEF RInv, IInv, TypeOK
<1>5. \A s \in Slots : s < MaxCount /\ s < committed => committed - s \in Docs
      BY <1>4, MaxCountAssumption DEF Slots, Docs
<1>6. QED BY <1>3, <1>5 DEF Holds, Loadable, Exists

\* Rotation as a whole: as long as no flush was interrupted or misled, slot s holds the
\* document flushed s flushes ago, for every number of slots.
THEOREM RotationExact == Spec => []NewestFirst
  BY NewestFirstR, InvarianceR, PTL

\* IntegrityCorrupted is the trace of an interrupted flush or of a look that did
\* not see a file that was there, never of flush alone.
THEOREM CorruptionHasCause == Spec => []CorruptMeansInterrupted
<1>1. RInv => CorruptMeansInterrupted
      BY DEF RInv, RotationInv, CorruptInv, CorruptMeansInterrupted
<1>2. QED BY <1>1, InvarianceR, PTL

\* A flush that sees the files and returns Ok leaves no slot with one of its two
\* files, whatever earlier flushes were interrupted or misled, and wherever.
THEOREM AcknowledgedIsWhole == Spec => AckMeansWhole
<1>1. RInv /\ [Next]_vars =>
         [acked' # acked /\ misled # seq =>
             \A s \in Slots : Exists(json', s) <=> Exists(hash', s)]_vars
  <2>1. SUFFICES ASSUME RInv, Next, acked' # acked, misled # seq
                 PROVE  \A s \in Slots : Exists(json', s) <=> Exists(hash', s)
        OBVIOUS
  <2>2. WriteHash /\ ~IoError
        BY <2>1 DEF Next, FlushStep, Open, FlushBegin, RotateCheck, RotateDone, RenameHash,
                    RenameJson, Stringify, OpenJson, WriteJson, OpenHash, WriteHash, IoError,
                    Fail, Restore, RestoreOf, Crash, history
  <2>3. \A s \in Slots : Whole(s)' BY <2>1, <2>2, WriteHashWhole
  <2>4. QED BY <2>3 DEF Whole, Exists
<1>2. QED BY <1>1, InvarianceR, PTL DEF Spec, AckMeansWhole

\* SnapshotCount is where the gap-free run of JSON files ends.
LEMMA CountFound ==
    /\ SnapshotCount \in 0 .. MaxCount
    /\ \A s \in 0 .. SnapshotCount - 1 : Exists(json, s)
    /\ SnapshotCount < MaxCount => ~Exists(json, SnapshotCount)
<1> DEFINE P(k) == /\ \A s \in 0 .. k - 1 : Exists(json, s)
                   /\ k < MaxCount => ~Exists(json, k)
           Ends == {k \in 0 .. MaxCount : k < MaxCount => ~Exists(json, k)}
           Below == {ss \in Nat \X Nat : ss[1] < ss[2]}
<1>1. IsWellFoundedOn(Below, Nat) BY NatLessThanWellFounded DEF OpToRel
<1>2. MaxCount \in Ends /\ Ends \subseteq Nat BY MaxCountAssumption
<1> HIDE DEF Below
<1>3. PICK m \in Ends : \A k \in Ends : <<k, m>> \notin Below
      BY <1>1, <1>2, WFMin
<1>4. \A k \in Nat : k < m => k \notin Ends BY <1>2, <1>3 DEF Below
<1>5. m \in 0 .. MaxCount /\ P(m) BY <1>3, <1>4, MaxCountAssumption
<1>6. SnapshotCount = CHOOSE k \in 0 .. MaxCount : P(k) BY DEF SnapshotCount
<1> HIDE DEF P
<1>7. SnapshotCount \in 0 .. MaxCount /\ P(SnapshotCount) BY <1>5, <1>6
<1>8. QED BY <1>7 DEF P

\* snapshot_restore(id) gives the map flushed id flushes ago, for every id that
\* exists and for every number of slots, and leaves the map alone for others.
THEOREM RestoresExactly == Spec => RestoreExact
<1>1. RInv /\ [Next]_vars =>
         [\A id \in Slots :
             RestoreOf(id, SnapshotCount) /\ Uninterrupted /\ result' # "UnmappedError" =>
                 IF id > 0 /\ id < MaxCount /\ id < committed
                 THEN result' = "Ok" /\ mem' = committed - id
                 ELSE result' # "Ok" /\ mem' = mem]_vars
  <2>1. SUFFICES ASSUME RInv, NEW id \in Slots, RestoreOf(id, SnapshotCount), Uninterrupted,
                        result' # "UnmappedError"
                 PROVE  IF id > 0 /\ id < MaxCount /\ id < committed
                        THEN result' = "Ok" /\ mem' = committed - id
                        ELSE result' # "Ok" /\ mem' = mem
        OBVIOUS
  <2>2. pc = "idle" /\ committed \in Nat /\ id \in Nat /\ id <= MaxCount /\ MaxCount \in Nat
        BY <2>1, MaxCountAssumption DEF RestoreOf, RInv, IInv, TypeOK, Slots
  <2>3. \A s \in Slots : IF s < MaxCount /\ s < committed
                         THEN Loadable(s) /\ json[s] = committed - s
                         ELSE ~Exists(json, s) /\ ~Exists(hash, s)
        BY <2>1, <2>2, NewestFirstR DEF NewestFirst
  <2>4. \A s \in Slots : Exists(json, s) <=> s < MaxCount /\ s < committed
        BY <2>3, ContentAssumption DEF Loadable, Exists, Docs
  <2>5. /\ SnapshotCount \in 0 .. MaxCount
        /\ SnapshotCount < MaxCount => ~Exists(json, SnapshotCount)
        BY CountFound
  <2>6. /\ result' \in RestoreResults(id, SnapshotCount)
        /\ mem' = IF result' = "Ok" THEN json[id] ELSE mem
        BY <2>1 DEF RestoreOf
  <2>7. CASE id > 0 /\ id < MaxCount /\ id < committed
    <3>1. SnapshotCount >= id
      <4>1. SUFFICES ASSUME SnapshotCount < id PROVE FALSE BY <2>2, <2>5
      <4>2. SnapshotCount \in Slots /\ SnapshotCount < MaxCount /\ SnapshotCount < committed
            BY <2>2, <2>5, <2>7, <4>1 DEF Slots
      <4>3. QED BY <2>4, <2>5, <4>2
    <3>2. Loadable(id) /\ json[id] = committed - id BY <2>1, <2>3, <2>7
    <3>3. Exists(json, id) /\ Exists(hash, id)
          BY <3>2, ContentAssumption DEF Loadable, Exists, Docs
    <3>4. RestoreResults(id, SnapshotCount) \subseteq {"Ok", "UnmappedError"}
          BY <2>2, <2>5, <2>7, <3>1, <3>2, <3>3 DEF RestoreResults, LoadResults
    <3>5. QED BY <2>1, <2>6, <2>7, <3>2, <3>4
  <2>8. CASE ~(id > 0 /\ id < MaxCount /\ id < committed)
    <3>1. id = 0 \/ ~Exists(json, id) BY <2>1, <2>2, <2>4, <2>8
    <3>2. "Ok" \notin RestoreResults(id, SnapshotCount)
          BY <3>1 DEF RestoreResults, LoadResults
    <3>3. QED BY <2>6, <2>8, <3>2
  <2>9. QED BY <2>7, <2>8
<1>2. QED BY <1>1, InvarianceR, PTL DEF Spec, RestoreExact

-----------------------------------------------------------------------------
(* How many files there are, as long as no flush is interrupted or misled *)

\* A store that was interrupted or misled once stays so.
LEMMA SteadyBack ==
    ASSUME IInv, [Next]_vars, Steady'
    PROVE  Steady /\ seq' >= seq
<1>1. seq \in Nat /\ acked \subseteq Docs /\ ("idle" \notin Flushing /\ "down" \notin Flushing)
      BY DEF IInv, TypeOK, Flushing
<1>2. pc \in Flushing => seq \in Nat \ {0} /\ seq \notin acked BY NotYet
<1>9. misled = 0
  <2>1. CASE RotateCheck BY <2>1, RotateChecks DEF Steady
  <2>2. CASE ~RotateCheck
    <3>1. misled' = misled
          BY <2>2 DEF Next, FlushStep, FlushBegin, Open, RotateDone, RenameHash, RenameJson,
                      Stringify, OpenJson, WriteJson, OpenHash, WriteHash, IoError, Fail,
                      Restore, RestoreOf, Crash, history, vars
    <3>2. QED BY <3>1 DEF Steady
  <2>3. QED BY <2>1, <2>2
<1> USE DEF Steady, Uninterrupted
<1>3. CASE FlushBegin
  <2>1. acked' = acked /\ seq' = seq + 1 /\ seq' - 1 = seq /\ seq' \in 1 .. seq' BY <1>1, <1>3 DEF FlushBegin
  <2>2. seq' \notin acked BY <1>1, <2>1 DEF IInv, AckInv, TypeOK
  <2>3. QED BY <1>1, <1>9, <2>1, <2>2
<1>4. CASE WriteHash /\ ~IoError
  <2>1. pc \in Flushing /\ seq' = seq /\ acked' = acked \cup {seq} /\ pc' = "idle"
        BY <1>4 DEF WriteHash, Flushing
  <2>2. acked \cup {seq} = 1 .. seq BY <1>1, <2>1
  <2>3. \A d : d \in acked <=> d \in 1 .. seq /\ d # seq BY <1>2, <2>1, <2>2
  <2>4. \A d : d \in 1 .. seq - 1 <=> d \in 1 .. seq /\ d # seq BY <1>2, <2>1
  <2>5. acked = 1 .. seq - 1 BY <2>3, <2>4
  <2>6. QED BY <1>1, <1>9, <2>1, <2>5
<1>5. ASSUME acked' = acked, seq' = seq, pc' \in Flushing => pc \in Flushing
      PROVE  Steady /\ seq' >= seq
      BY <1>1, <1>2, <1>5, <1>9
<1>6. CASE Next /\ ~FlushBegin /\ ~(WriteHash /\ ~IoError)
  <2>1. acked' = acked /\ seq' = seq
        BY <1>6 DEF Next, FlushStep, Open, RotateCheck, RotateDone, RenameHash,
                    RenameJson, Stringify, OpenJson, WriteJson, OpenHash, WriteHash, IoError,
                    Fail, Restore, RestoreOf, Crash, history
  <2>2. pc' \in Flushing => pc \in Flushing
        BY <1>1, <1>6 DEF Next, FlushStep, Open, RotateCheck, RotateDone, RenameHash,
                    RenameJson, Stringify, OpenJson, WriteJson, OpenHash, WriteHash, IoError,
                    Fail, Restore, RestoreOf, Crash, Flushing
  <2>3. QED BY <1>5, <2>1, <2>2
<1>7. CASE UNCHANGED vars BY <1>5, <1>7 DEF vars
<1>8. QED BY <1>3, <1>4, <1>6, <1>7

\* Then the JSON files are those of the slots below seq, but for one at most:
\* that of the slot that is being vacated or filled.
LEMMA FilesSteady ==
    ASSUME RInv, Steady
    PROVE  /\ \A s \in Slots : Exists(json, s) => s < seq
           /\ \E h \in Slots : \A s \in Slots :
                 s < MaxCount /\ s < seq /\ s # h => Exists(json, s)
<1> USE DEF Exists, Holds
<1>1. /\ seq \in Nat /\ idx \in 0 .. MaxCount - 1 /\ MaxCount \in Nat \ {0}
      /\ 0 \in Slots /\ idx \in Slots /\ Slots \subseteq Nat
      BY MaxCountAssumption DEF RInv, IInv, TypeOK, Slots
<1>2. \A n \in Nat : n # Absent BY ContentAssumption
<1>3. LayoutInv BY DEF RInv, RotationInv
<1>4. CASE pc \in {"idle", "down"}
  <2>1. \A s \in Slots : json[s] = Holds(seq, s) BY <1>3, <1>4 DEF LayoutInv
  <2>2. \A s \in Slots : s < seq => seq - s # Absent BY <1>1, <1>2
  <2>3. QED BY <1>1, <2>1, <2>2
<1>5. CASE pc \in {"rotate", "rename_hash", "rename_json", "stringify", "open_json"}
  <2>1. \A s \in Slots : json[s] = Rotated(s) BY <1>3, <1>5 DEF LayoutInv
  <2>2. pc \in Flushing BY <1>5 DEF Flushing
  <2>3. seq \in Nat \ {0} BY <2>2, NotYet DEF RInv
  <2>4. \A s \in Slots : /\ s < seq => seq - s # Absent
                         /\ s < seq - 1 => (seq - 1) - s # Absent
        BY <1>1, <1>2
  <2>5. \A s \in Slots : Rotated(s) # Absent => s < seq
        BY <1>1, <2>3, <2>4 DEF Rotated
  <2>6. ASSUME NEW s \in Slots, s < MaxCount, s < seq, s # idx, s # seq - 1
        PROVE  Rotated(s) # Absent
        BY <1>1, <2>3, <2>4, <2>6 DEF Rotated
  <2>7. CASE seq - 1 <= idx
    <3>1. seq - 1 \in Slots BY <1>1, <2>3, <2>7 DEF Slots
    <3>2. \A s \in Slots : s < seq /\ s # seq - 1 => s # idx BY <1>1, <2>3, <2>7
    <3>3. QED BY <2>1, <2>5, <2>6, <3>1, <3>2
  <2>8. CASE idx < seq - 1
    <3>1. ASSUME NEW s \in Slots, s = seq - 1, s < MaxCount
          PROVE  Rotated(s) # Absent
          BY <1>1, <2>3, <2>4, <2>8, <3>1 DEF Rotated
    <3>2. QED BY <1>1, <2>1, <2>5, <2>6, <3>1
  <2>9. QED BY <1>1, <2>3, <2>7, <2>8
<1>6. CASE pc \in {"write_json", "open_hash", "write_hash"}
  <2>1. \A s \in Slots : s > 0 => json[s] = Holds(seq, s) BY <1>3, <1>6 DEF LayoutInv
  <2>2. pc \in Flushing BY <1>6 DEF Flushing
  <2>3. seq \in Nat \ {0} BY <2>2, NotYet DEF RInv
  <2>4. \A s \in Slots : s < seq => seq - s # Absent BY <1>1, <1>2
  <2>5. QED BY <1>1, <2>1, <2>3, <2>4
<1>7. QED BY <1>4, <1>5, <1>6 DEF RInv, IInv, TypeOK, Flushing

=============================================================================
