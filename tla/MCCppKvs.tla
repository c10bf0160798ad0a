------------------------------ MODULE MCCppKvs ------------------------------
(* CppKvs for TLC. *)
EXTENDS CppKvs

\* Every key has a default.
MCDefaultsFile == [k \in Keys |-> CHOOSE v \in Values : TRUE]
=============================================================================
