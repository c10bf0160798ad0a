--------------------------- MODULE MCJsonBackend ---------------------------
(* JsonBackend on small instances; the configurations fix the constants. *)
EXTENDS JsonBackend

\* Everything that may go wrong.
AllFaults == {"io", "string", "crash"}
=============================================================================
