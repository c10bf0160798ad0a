---------------------------- MODULE MCKvsBuilder ----------------------------
(* KvsBuilder for TLC: a few builders that differ in one option each. *)
EXTENDS KvsBuilder

\* Instance 0 is in the pool's range, instance 10 is not.
MCInstances == {0, 1}
MCRequests ==
    {Builder(0, Unset, Unset, Unset),
     Builder(0, Unset, "Required", Unset),
     Builder(0, "Required", "Ignored", Unset),
     Builder(0, Unset, Unset, JsonBackend("elsewhere", 3)),
     Builder(1, "Ignored", "Optional", Unset),
     Builder(10, Unset, Unset, Unset)}
=============================================================================
