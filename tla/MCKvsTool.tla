------------------------------ MODULE MCKvsTool ------------------------------
(* KvsTool for TLC. *)
EXTENDS KvsTool

MCStores == {App, Tool}

\* The application sets what the tool sets without a payload: null.
MCAppValues == {<<"Null">>}
MCTestData == [k \in {"k1"} |-> <<"Null">>]

\* No action reads how the last run of the tool or the last call of the
\* application ended, and a call begins with result "Ok": states that differ in
\* exit and result[App] alone have the same steps and the same verdicts.
MCView ==
    <<disk, pc, map, base, call, idx, got, doc, handle, result[Tool], history, turns,
      stage, inv, opened, flushed>>
=============================================================================
