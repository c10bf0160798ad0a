------------------------------ MODULE KvsBuilder ------------------------------
(***************************************************************************)
(* KvsBuilder::build (rust_kvs/kvs_builder.rs) called by several threads.  *)
(* The pool of instances is behind a mutex that build takes twice: to look *)
(* the instance up, and, after loading the files without the mutex, to     *)
(* enter the instance it made.                                             *)
(*                                                                         *)
(* A KvsData object is named by the order of its creation.                 *)
(***************************************************************************)
EXTENDS Naturals

CONSTANTS
    Threads,
    Instances,      \* the instance IDs below KVS_MAX_INSTANCES
    Requests,       \* builders the threads may call build on
    MaxData,        \* bound: number of KvsData objects a behaviour may create
    Unset,          \* an option the builder was not given
    None            \* an empty pool entry, a thread that is not in build

ASSUME MaxDataAssumption == MaxData \in Nat

VARIABLES
    pool,       \* KVS_POOL: the parameters and the data of each instance
    pc,         \* where each thread is in build
    params,     \* KvsParameters of the instance a thread is making
    current,    \* the builder a thread called build on
    origin,     \* where each KvsData got its map from: "file" or "empty"
    from,       \* the same for the map a thread has loaded and not published
    handles     \* every Kvs build has returned

vars == <<pool, pc, params, current, origin, from, handles>>

Modes == {"Ignored", "Optional", "Required"}
Origins == {"file", "empty"}
LoadOutcomes == {"Ok", "FileNotFound", "ValidationFailed"}
Data == 1 .. MaxData
Created == DOMAIN origin

\* KvsBuilder: an instance ID, and three options that may be left unset.
Builder(instance, defaults, load, backend) ==
    [instance |-> instance, defaults |-> defaults, load |-> load, backend |-> backend]

\* JsonBackendBuilder: a backend is its parameters.
JsonBackend(dir, count) ==
    [type |-> "JsonBackend", working_dir |-> dir, snapshot_max_count |-> count]
DefaultBackend == JsonBackend("", 3)

\* dyn_eq: the same type and the same parameters.
SameBackend(a, b) == a.type = b.type /\ a = b

\* A builder has the options it was given, of the types of its setters.
ASSUME RequestsAssumption ==
    /\ Unset \notin Modes
    /\ \A r \in Requests :
          /\ r = Builder(r.instance, r.defaults, r.load, r.backend)
          /\ {r.defaults, r.load} \subseteq Modes \cup {Unset}

Backends == {r.backend : r \in Requests} \cup {DefaultBackend}
Params == [instance : Instances, defaults : Modes, load : Modes, backend : Backends]

TypeOK ==
    /\ pool \in [Instances -> [params : Params, data : Data] \cup {None}]
    /\ pc \in [Threads -> {"idle", "check", "defaults", "load", "insert"}]
    /\ params \in [Threads -> Params \cup {None}]
    /\ current \in [Threads -> Requests \cup {None}]
    /\ Created \subseteq Data /\ \A d \in Created : origin[d] \in Origins
    /\ from \in [Threads -> Origins \cup {None}]
    /\ handles \subseteq [request : Requests, params : Params, data : Data]

Init ==
    /\ pool = [i \in Instances |-> None]
    /\ pc = [t \in Threads |-> "idle"]
    /\ params = [t \in Threads |-> None]
    /\ current = [t \in Threads |-> None]
    /\ origin = [d \in {} |-> "empty"]
    /\ from = [t \in Threads |-> None]
    /\ handles = {}

-----------------------------------------------------------------------------

\* Faulty variant: the load mode is not compared.
CompareWithoutLoad(r, p) ==
    /\ r.instance = p.instance
    /\ r.defaults \in {Unset, p.defaults}
    /\ r.backend # Unset => SameBackend(r.backend, p.backend)

\* compare_parameters: only the options the builder was given count.
CompareParameters(r, p) ==
    /\ r.instance = p.instance
    /\ r.defaults \in {Unset, p.defaults}
    /\ r.load \in {Unset, p.load}
    /\ r.backend # Unset => SameBackend(r.backend, p.backend)

Given(option, default) == IF option = Unset THEN default ELSE option

\* Faulty variant: the load mode is copied without its default.
NewParamsRaw(r) ==
    [instance |-> r.instance,
     defaults |-> Given(r.defaults, "Optional"),
     load |-> r.load,
     backend |-> Given(r.backend, DefaultBackend)]

NewParams(r) ==
    [instance |-> r.instance,
     defaults |-> Given(r.defaults, "Optional"),
     load |-> Given(r.load, "Optional"),
     backend |-> Given(r.backend, DefaultBackend)]

\* Faulty variant: every missing file is an empty map.
AcceptLenient(mode, outcome) ==
    IF mode = "Ignored" THEN "empty"
    ELSE IF outcome = "Ok" THEN "file"
    ELSE IF outcome = "FileNotFound" THEN "empty"
    ELSE None

\* What a load mode makes of the outcome of a load: the origin of the map, or
\* None when build returns the error.
Accept(mode, outcome) ==
    IF mode = "Ignored" THEN "empty"
    ELSE IF outcome = "Ok" THEN "file"
    ELSE IF mode = "Optional" /\ outcome = "FileNotFound" THEN "empty"
    ELSE None

\* build returns: an error, or a handle that was added to handles.
Return(t) ==
    /\ pc' = [pc EXCEPT ![t] = "idle"]
    /\ params' = [params EXCEPT ![t] = None]
    /\ current' = [current EXCEPT ![t] = None]
    /\ from' = [from EXCEPT ![t] = None]

Fail(t) == Return(t) /\ UNCHANGED <<pool, origin, handles>>

Build(t, r) ==
    /\ pc[t] = "idle"
    /\ pc' = [pc EXCEPT ![t] = "check"]
    /\ current' = [current EXCEPT ![t] = r]
    /\ UNCHANGED <<pool, params, origin, from, handles>>

\* The first critical section.
Check(t) ==
    LET r == current[t]
    IN  /\ pc[t] = "check"
        /\ \/ /\ r.instance \notin Instances
              /\ Fail(t)
           \/ /\ r.instance \in Instances
              /\ pool[r.instance] = None
              /\ pc' = [pc EXCEPT ![t] = "defaults"]
              /\ params' = [params EXCEPT ![t] = NewParams(r)]
              /\ UNCHANGED <<pool, current, origin, from, handles>>
           \/ /\ r.instance \in Instances
              /\ pool[r.instance] # None
              /\ ~CompareParameters(r, pool[r.instance].params)
              /\ Fail(t)
           \/ /\ r.instance \in Instances
              /\ pool[r.instance] # None
              /\ CompareParameters(r, pool[r.instance].params)
              /\ handles' = handles \cup {[request |-> r,
                                           params |-> pool[r.instance].params,
                                           data |-> pool[r.instance].data]}
              /\ Return(t)
              /\ UNCHANGED <<pool, origin>>

\* The files are read without the mutex, the defaults first.
LoadDefaults(t) ==
    /\ pc[t] = "defaults"
    /\ \E outcome \in LoadOutcomes :
         IF Accept(params[t].defaults, outcome) = None
         THEN Fail(t)
         ELSE /\ pc' = [pc EXCEPT ![t] = "load"]
              /\ UNCHANGED <<pool, params, current, origin, from, handles>>

LoadKvs(t) ==
    /\ pc[t] = "load"
    /\ \E outcome \in LoadOutcomes :
         IF Accept(params[t].load, outcome) = None
         THEN Fail(t)
         ELSE /\ pc' = [pc EXCEPT ![t] = "insert"]
              /\ from' = [from EXCEPT ![t] = Accept(params[t].load, outcome)]
              /\ UNCHANGED <<pool, params, current, origin, handles>>

\* The second critical section enters the new instance whatever is there.
Insert(t) ==
    LET d == 1 + (CHOOSE n \in 0 .. MaxData : Created = 1 .. n)
    IN  /\ pc[t] = "insert"
        /\ d \in Data
        /\ origin' = [e \in 1 .. d |-> IF e = d THEN from[t] ELSE origin[e]]
        /\ pool' = [pool EXCEPT ![params[t].instance] =
                        [params |-> params[t], data |-> d]]
        /\ handles' = handles \cup {[request |-> current[t], params |-> params[t],
                                     data |-> d]}
        /\ Return(t)

Step(t) == Check(t) \/ LoadDefaults(t) \/ LoadKvs(t) \/ Insert(t)

Next == \E t \in Threads : (\E r \in Requests : Build(t, r)) \/ Step(t)

Spec == Init /\ [][Next]_vars

-----------------------------------------------------------------------------
(* Properties *)

\* A Kvs that was asked for with a load mode, a defaults mode or a backend has
\* them, whichever thread made the instance it shares.
RequestHonoured ==
    \A h \in handles :
        /\ h.request.instance = h.params.instance
        /\ \A option \in {"defaults", "load", "backend"} :
             h.request[option] \in {Unset, h.params[option]}

\* A Kvs that was asked for with Required never holds an empty map that stands
\* for a file that was not there.
RequiredIsLoaded ==
    \A h \in handles : h.request.load = "Required" => origin[h.data] = "file"

\* Handles of one instance share one KvsData (the comment on KvsData).
DataShared ==
    \A g, h \in handles : g.params.instance = h.params.instance => g.data = h.data

=============================================================================
