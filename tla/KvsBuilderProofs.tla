--------------------------- MODULE KvsBuilderProofs ---------------------------
(***************************************************************************)
(* Theorems about KvsBuilder for every number of threads, every set of     *)
(* builders and every number of builds.                                    *)
(***************************************************************************)
EXTENDS KvsBuilder, TLAPS

-----------------------------------------------------------------------------
(* The inductive invariant *)

Making == {"defaults", "load", "insert"}

\* A thread in build works for a builder; once it is past the pool, for an
\* instance the pool has room for, with the parameters that builder gives.
MakingInv ==
    /\ \A t \in Threads : pc[t] # "idle" => current[t] \in Requests
    /\ \A t \in Threads : pc[t] \in Making =>
          /\ current[t].instance \in Instances
          /\ params[t] = NewParams(current[t])

\* A map that is about to be published comes from a file when one is required.
FromInv ==
    \A t \in Threads : pc[t] = "insert" =>
        /\ from[t] \in Origins
        /\ params[t].load = "Required" => from[t] = "file"

\* The KvsData objects are numbered without a gap.
CreatedInv == \E n \in 0 .. MaxData : Created = 1 .. n

\* An entry of the pool is for its instance, and has the data it promises.
PoolInv ==
    \A i \in Instances : pool[i] # None =>
        /\ pool[i].params.instance = i
        /\ pool[i].data \in Created
        /\ pool[i].params.load = "Required" => origin[pool[i].data] = "file"

HandleInv == \A h \in handles : h.data \in Created

IInv ==
    /\ TypeOK
    /\ MakingInv
    /\ FromInv
    /\ CreatedInv
    /\ PoolInv
    /\ HandleInv
    /\ RequestHonoured
    /\ RequiredIsLoaded

-----------------------------------------------------------------------------
(* Lemmas *)

\* The parameters a builder gives an instance are well typed.
LEMMA NewParamsType ==
    ASSUME NEW r \in Requests, r.instance \in Instances
    PROVE  NewParams(r) \in Params
  BY RequestsAssumption DEF NewParams, Params, Given, Modes, Backends, Builder

\* They are the options it was given.
LEMMA NewParamsHonour ==
    ASSUME NEW r \in Requests
    PROVE  /\ NewParams(r).instance = r.instance
           /\ \A option \in {"defaults", "load", "backend"} :
                r[option] \in {Unset, NewParams(r)[option]}
  BY RequestsAssumption DEF NewParams, Given, Builder

\* So are the parameters of an instance that compare_parameters accepts.
LEMMA CompareHonours ==
    ASSUME NEW r \in Requests, NEW p \in Params, CompareParameters(r, p)
    PROVE  /\ r.instance = p.instance
           /\ \A option \in {"defaults", "load", "backend"} :
                r[option] \in {Unset, p[option]}
  BY RequestsAssumption DEF CompareParameters, SameBackend, Builder

\* What a load mode accepts, it accepts with an origin that satisfies it.
LEMMA AcceptOrigin ==
    ASSUME NEW mode \in Modes, NEW outcome, Accept(mode, outcome) # None
    PROVE  /\ Accept(mode, outcome) \in Origins
           /\ mode = "Required" => Accept(mode, outcome) = "file"
  BY DEF Accept, Origins, Modes

LEMMA InitInv == Init => IInv
<1> SUFFICES ASSUME Init PROVE IInv OBVIOUS
<1> USE DEF Init
<1>1. TypeOK BY DEF TypeOK, Created
<1>2. MakingInv BY DEF MakingInv, Making
<1>3. FromInv BY DEF FromInv
<1>4. CreatedInv
  <2>1. Created = 1 .. 0 BY DEF Created
  <2>2. 0 \in 0 .. MaxData BY MaxDataAssumption
  <2>3. QED BY <2>1, <2>2 DEF CreatedInv
<1>5. PoolInv BY DEF PoolInv
<1>6. HandleInv BY DEF HandleInv
<1>7. RequestHonoured /\ RequiredIsLoaded BY DEF RequestHonoured, RequiredIsLoaded
<1>8. QED BY <1>1, <1>2, <1>3, <1>4, <1>5, <1>6, <1>7 DEF IInv

\* A build that returns without a new handle keeps the invariant.
LEMMA FailInv ==
    ASSUME IInv, NEW t \in Threads, Fail(t)
    PROVE  IInv'
<1> USE DEF IInv, Fail, Return
<1>1. TypeOK' BY DEF TypeOK, Created
<1>2. MakingInv' BY DEF MakingInv, Making, TypeOK
<1>3. FromInv' BY DEF FromInv, TypeOK
<1>4. CreatedInv' BY DEF CreatedInv, Created
<1>5. PoolInv' BY DEF PoolInv, Created
<1>6. HandleInv' BY DEF HandleInv, Created
<1>7. RequestHonoured' /\ RequiredIsLoaded' BY DEF RequestHonoured, RequiredIsLoaded
<1>8. QED BY <1>1, <1>2, <1>3, <1>4, <1>5, <1>6, <1>7

-----------------------------------------------------------------------------
(* Every step *)

LEMMA BuildInv ==
    ASSUME IInv, NEW t \in Threads, NEW r \in Requests, Build(t, r)
    PROVE  IInv'
<1> USE DEF IInv, Build
<1>1. TypeOK' BY DEF TypeOK, Created
<1>2. MakingInv' BY DEF MakingInv, Making, TypeOK
<1>3. FromInv' BY DEF FromInv, TypeOK
<1>4. CreatedInv' BY DEF CreatedInv, Created
<1>5. PoolInv' BY DEF PoolInv, Created
<1>6. HandleInv' BY DEF HandleInv, Created
<1>7. RequestHonoured' /\ RequiredIsLoaded' BY DEF RequestHonoured, RequiredIsLoaded
<1>8. QED BY <1>1, <1>2, <1>3, <1>4, <1>5, <1>6, <1>7

LEMMA CheckInv ==
    ASSUME IInv, NEW t \in Threads, Check(t)
    PROVE  IInv'
<1> DEFINE r == current[t]
<1> USE DEF IInv
<1>1. pc[t] = "check" /\ r \in Requests BY DEF Check, MakingInv
<1>2. CASE Fail(t) BY <1>2, FailInv
<1>3. CASE /\ r.instance \in Instances
           /\ pc' = [pc EXCEPT ![t] = "defaults"]
           /\ params' = [params EXCEPT ![t] = NewParams(r)]
           /\ UNCHANGED <<pool, current, origin, from, handles>>
  <2>1. TypeOK' BY <1>1, <1>3, NewParamsType DEF TypeOK, Created
  <2>2. MakingInv' BY <1>1, <1>3 DEF MakingInv, Making, TypeOK
  <2>3. FromInv' BY <1>3 DEF FromInv, TypeOK
  <2>4. CreatedInv' BY <1>3 DEF CreatedInv, Created
  <2>5. PoolInv' BY <1>3 DEF PoolInv, Created
  <2>6. HandleInv' BY <1>3 DEF HandleInv, Created
  <2>7. RequestHonoured' /\ RequiredIsLoaded'
        BY <1>3 DEF RequestHonoured, RequiredIsLoaded
  <2>8. QED BY <2>1, <2>2, <2>3, <2>4, <2>5, <2>6, <2>7
<1>4. CASE /\ r.instance \in Instances
           /\ pool[r.instance] # None
           /\ CompareParameters(r, pool[r.instance].params)
           /\ handles' = handles \cup {[request |-> r,
                                        params |-> pool[r.instance].params,
                                        data |-> pool[r.instance].data]}
           /\ Return(t)
           /\ UNCHANGED <<pool, origin>>
  <2> DEFINE e == pool[r.instance]
             g == [request |-> r, params |-> e.params, data |-> e.data]
  <2>1. e.params \in Params /\ e.data \in Data BY <1>4 DEF TypeOK
  <2>2. e.data \in Created /\ (e.params.load = "Required" => origin[e.data] = "file")
        BY <1>4 DEF PoolInv
  <2>3. TypeOK' BY <1>1, <1>4, <2>1 DEF TypeOK, Created, Return
  <2>4. MakingInv' BY <1>4 DEF MakingInv, Making, TypeOK, Return
  <2>5. FromInv' BY <1>4 DEF FromInv, TypeOK, Return
  <2>6. CreatedInv' BY <1>4 DEF CreatedInv, Created
  <2>7. PoolInv' BY <1>4 DEF PoolInv, Created
  <2>8. HandleInv' BY <1>4, <2>2 DEF HandleInv, Created
  <2>9. RequestHonoured' BY <1>1, <1>4, <2>1, CompareHonours DEF RequestHonoured
  <2>10. g.request.load = "Required" => origin[g.data] = "file"
         BY <1>1, <1>4, <2>1, <2>2, CompareHonours, RequestsAssumption DEF Modes
  <2>11. RequiredIsLoaded' BY <1>4, <2>10 DEF RequiredIsLoaded
  <2>12. QED BY <2>3, <2>4, <2>5, <2>6, <2>7, <2>8, <2>9, <2>11
<1>5. QED BY <1>2, <1>3, <1>4 DEF Check

LEMMA LoadDefaultsInv ==
    ASSUME IInv, NEW t \in Threads, LoadDefaults(t)
    PROVE  IInv'
<1> USE DEF IInv
<1>1. CASE Fail(t) BY <1>1, FailInv
<1>2. CASE /\ pc[t] = "defaults"
           /\ pc' = [pc EXCEPT ![t] = "load"]
           /\ UNCHANGED <<pool, params, current, origin, from, handles>>
  <2>1. TypeOK' BY <1>2 DEF TypeOK, Created
  <2>2. MakingInv' BY <1>2 DEF MakingInv, Making, TypeOK
  <2>3. FromInv' BY <1>2 DEF FromInv, TypeOK
  <2>4. CreatedInv' BY <1>2 DEF CreatedInv, Created
  <2>5. PoolInv' BY <1>2 DEF PoolInv, Created
  <2>6. HandleInv' BY <1>2 DEF HandleInv, Created
  <2>7. RequestHonoured' /\ RequiredIsLoaded'
        BY <1>2 DEF RequestHonoured, RequiredIsLoaded
  <2>8. QED BY <2>1, <2>2, <2>3, <2>4, <2>5, <2>6, <2>7
<1>3. QED BY <1>1, <1>2 DEF LoadDefaults

LEMMA LoadKvsInv ==
    ASSUME IInv, NEW t \in Threads, LoadKvs(t)
    PROVE  IInv'
<1> USE DEF IInv
<1>1. CASE Fail(t) BY <1>1, FailInv
<1>2. ASSUME NEW outcome \in LoadOutcomes,
             pc[t] = "load",
             Accept(params[t].load, outcome) # None,
             pc' = [pc EXCEPT ![t] = "insert"],
             from' = [from EXCEPT ![t] = Accept(params[t].load, outcome)],
             UNCHANGED <<pool, params, current, origin, handles>>
      PROVE  IInv'
  <2>1. params[t].load \in Modes
        BY <1>2, NewParamsType DEF MakingInv, Making, Params
  <2>2. /\ Accept(params[t].load, outcome) \in Origins
        /\ params[t].load = "Required" => Accept(params[t].load, outcome) = "file"
        BY <1>2, <2>1, AcceptOrigin
  <2>3. TypeOK' BY <1>2, <2>2 DEF TypeOK, Created
  <2>4. MakingInv' BY <1>2 DEF MakingInv, Making, TypeOK
  <2>5. FromInv' BY <1>2, <2>2 DEF FromInv, TypeOK
  <2>6. CreatedInv' BY <1>2 DEF CreatedInv, Created
  <2>7. PoolInv' BY <1>2 DEF PoolInv, Created
  <2>8. HandleInv' BY <1>2 DEF HandleInv, Created
  <2>9. RequestHonoured' /\ RequiredIsLoaded'
        BY <1>2 DEF RequestHonoured, RequiredIsLoaded
  <2>10. QED BY <2>3, <2>4, <2>5, <2>6, <2>7, <2>8, <2>9
<1>3. QED BY <1>1, <1>2 DEF LoadKvs

LEMMA InsertInv ==
    ASSUME IInv, NEW t \in Threads, Insert(t)
    PROVE  IInv'
<1> DEFINE n == CHOOSE m \in 0 .. MaxData : Created = 1 .. m
           d == 1 + n
           g == [request |-> current[t], params |-> params[t], data |-> d]
<1> USE DEF IInv
<1>1. /\ pc[t] = "insert"
      /\ d \in Data
      /\ origin' = [e \in 1 .. d |-> IF e = d THEN from[t] ELSE origin[e]]
      /\ pool' = [pool EXCEPT ![params[t].instance] = [params |-> params[t], data |-> d]]
      /\ handles' = handles \cup {g}
      /\ Return(t)
      BY DEF Insert
<1>2. n \in 0 .. MaxData /\ Created = 1 .. n BY DEF CreatedInv
<1> HIDE DEF n
<1>3. /\ d \in Nat
      /\ n \in Nat
      /\ Created' = 1 .. d
      /\ d \notin Created
      /\ Created \subseteq Created'
      /\ d \in 1 .. d
  <2>1. n \in Nat BY <1>2, MaxDataAssumption
  <2>2. d \in Nat BY <2>1
  <2> HIDE DEF d
  <2>3. Created' = 1 .. d BY <1>1 DEF Created
  <2>4. QED BY <1>2, <2>1, <2>2, <2>3 DEF d
<1>4. /\ current[t] \in Requests
      /\ current[t].instance \in Instances
      /\ params[t] = NewParams(current[t])
      /\ params[t] \in Params
      /\ params[t].instance = current[t].instance
  <2>1. /\ current[t] \in Requests
        /\ current[t].instance \in Instances
        /\ params[t] = NewParams(current[t])
        BY <1>1 DEF MakingInv, Making
  <2>2. QED BY <2>1, NewParamsType, NewParamsHonour
<1>5. /\ from[t] \in Origins
      /\ params[t].load = "Required" => from[t] = "file"
      BY <1>1 DEF FromInv
<1> HIDE DEF d
<1>6. \A e \in Created : e \in Created' /\ origin'[e] = origin[e] BY <1>1, <1>3
<1>7. origin'[d] = from[t] BY <1>1, <1>3
<1>8. TypeOK'
  <2>1. pool' \in [Instances -> [params : Params, data : Data] \cup {None}]
        BY <1>1, <1>4 DEF TypeOK
  <2>2. Created' \subseteq Data /\ \A e \in Created' : origin'[e] \in Origins
    <3>1. \A e \in 1 .. d : e = d \/ e \in Created BY <1>2, <1>3 DEF d
    <3>2. QED BY <1>1, <1>3, <1>5, <1>6, <1>7, <3>1 DEF TypeOK
  <2>3. handles' \subseteq [request : Requests, params : Params, data : Data]
        BY <1>1, <1>4 DEF TypeOK
  <2>4. /\ pc' \in [Threads -> {"idle", "check", "defaults", "load", "insert"}]
        /\ params' \in [Threads -> Params \cup {None}]
        /\ current' \in [Threads -> Requests \cup {None}]
        /\ from' \in [Threads -> Origins \cup {None}]
        BY <1>1 DEF TypeOK, Return
  <2>5. QED BY <2>1, <2>2, <2>3, <2>4 DEF TypeOK
<1>9. MakingInv' BY <1>1 DEF MakingInv, Making, TypeOK, Return
<1>10. FromInv' BY <1>1 DEF FromInv, TypeOK, Return
<1>11. CreatedInv'
  <2>1. d \in 0 .. MaxData BY <1>1, <1>3, MaxDataAssumption DEF Data
  <2>2. QED BY <1>3, <2>1 DEF CreatedInv
<1>12. PoolInv'
  <2>1. SUFFICES ASSUME NEW i \in Instances, pool'[i] # None
                 PROVE  /\ pool'[i].params.instance = i
                        /\ pool'[i].data \in Created'
                        /\ pool'[i].params.load = "Required"
                              => origin'[pool'[i].data] = "file"
        BY DEF PoolInv
  <2>2. CASE i = params[t].instance
        BY <1>1, <1>3, <1>4, <1>5, <1>7, <2>2 DEF TypeOK
  <2>3. CASE i # params[t].instance
    <3>1. pool'[i] = pool[i] BY <1>1, <2>3 DEF TypeOK
    <3>2. QED BY <1>6, <2>1, <3>1 DEF PoolInv
  <2>4. QED BY <2>2, <2>3
<1>13. HandleInv'
  <2>1. g.data \in Created' BY <1>3
  <2>2. \A h \in handles : h.data \in Created' BY <1>3 DEF HandleInv
  <2> HIDE DEF g
  <2>3. QED BY <1>1, <2>1, <2>2 DEF HandleInv
<1>14. RequestHonoured' BY <1>1, <1>4, NewParamsHonour DEF RequestHonoured
<1>15. RequiredIsLoaded'
  <2>1. g.request.load = "Required" => g.params.load = "Required"
        BY <1>4, NewParamsHonour, RequestsAssumption DEF Modes
  <2>2. \A h \in handles : h.request.load = "Required" => origin'[h.data] = "file"
        BY <1>6 DEF RequiredIsLoaded, HandleInv
  <2>3. QED BY <1>1, <1>5, <1>7, <2>1, <2>2 DEF RequiredIsLoaded
<1>16. QED BY <1>8, <1>9, <1>10, <1>11, <1>12, <1>13, <1>14, <1>15

LEMMA NextInv == IInv /\ [Next]_vars => IInv'
<1> SUFFICES ASSUME IInv, [Next]_vars PROVE IInv' OBVIOUS
<1>1. ASSUME NEW t \in Threads, NEW r \in Requests, Build(t, r) PROVE IInv'
      BY <1>1, BuildInv
<1>2. ASSUME NEW t \in Threads, Step(t) PROVE IInv'
      BY <1>2, CheckInv, LoadDefaultsInv, LoadKvsInv, InsertInv DEF Step
<1>3. CASE UNCHANGED vars
  <2> USE <1>3 DEF vars, IInv
  <2>1. TypeOK' BY DEF TypeOK, Created
  <2>2. MakingInv' BY DEF MakingInv
  <2>3. FromInv' BY DEF FromInv
  <2>4. CreatedInv' BY DEF CreatedInv, Created
  <2>5. PoolInv' BY DEF PoolInv, Created
  <2>6. HandleInv' BY DEF HandleInv, Created
  <2>7. RequestHonoured' /\ RequiredIsLoaded' BY DEF RequestHonoured, RequiredIsLoaded
  <2>8. QED BY <2>1, <2>2, <2>3, <2>4, <2>5, <2>6, <2>7
<1>4. QED BY <1>1, <1>2, <1>3 DEF Next

-----------------------------------------------------------------------------
(* Theorems *)

LEMMA Invariance == Spec => []IInv
  BY InitInv, NextInv, PTL DEF Spec

\* The pool, the threads in build and the handles are well typed.
THEOREM TypeCorrect == Spec => []TypeOK
<1>1. IInv => TypeOK BY DEF IInv
<1>2. QED BY <1>1, Invariance, PTL

\* However many threads build, in whatever order they check the pool and enter
\* their instances, no handle contradicts the builder it was made for.
THEOREM HonouredRequests == Spec => []RequestHonoured
<1>1. IInv => RequestHonoured BY DEF IInv
<1>2. QED BY <1>1, Invariance, PTL

\* A handle that was asked for with Required never shares data that stand for a
\* file that was not there, whichever thread loaded them.
THEOREM RequiredLoads == Spec => []RequiredIsLoaded
<1>1. IInv => RequiredIsLoaded BY DEF IInv
<1>2. QED BY <1>1, Invariance, PTL
=============================================================================
