-------------------------------- MODULE MCKvs --------------------------------
(* Kvs for TLC. *)
EXTENDS Kvs

\* Every key has a default.
MCDefaultsFile == [k \in Keys |-> CHOOSE v \in DefaultValues : TRUE]
=============================================================================
