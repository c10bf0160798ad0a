------------------------------ MODULE MCAdler32 ------------------------------
(* Adler32 for TLC. *)
EXTENDS Adler32
=============================================================================
