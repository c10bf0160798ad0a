---------------------------- MODULE SnapshotStore ----------------------------
(***************************************************************************)
(* What the snapshot files of one instance promise: a queue of the         *)
(* documents whose flush was acknowledged.  A document enters as the       *)
(* newest one and leaves only as the oldest one.  Documents are named by   *)
(* the number of their flush.  Forget is no step of the queue: it is what  *)
(* an implementation that is misled about its files may do to it.          *)
(***************************************************************************)
EXTENDS Naturals

VARIABLES
    store,      \* acknowledged documents that are still on disk
    newest      \* the last document that was acknowledged, 0 for none

Init == store = {} /\ newest = 0

Push ==
    /\ newest' \in Nat
    /\ newest' > newest
    /\ store' = store \cup {newest'}

Evict ==
    \E d \in store :
        /\ \A e \in store : d <= e
        /\ store' = store \ {d}
        /\ UNCHANGED newest

Forget == store' \subseteq store /\ UNCHANGED newest

Next == Push \/ Evict

Spec == Init /\ [][Next]_<<store, newest>>

=============================================================================
