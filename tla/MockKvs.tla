------------------------------- MODULE MockKvs -------------------------------
(***************************************************************************)
(* MockKvs (rust_kvs/kvs_mock.rs), the stand-in applications test with: a  *)
(* map behind a mutex that is held by one call at a time, and a flag that  *)
(* makes every call fail.  The answer of a call is an operator on the map  *)
(* and the flag; `After' is the map it leaves.                             *)
(***************************************************************************)
EXTENDS CustomTypes

Empty == Object([k \in {} |-> None])
Answer(fail, ok) == IF fail THEN Err("UnmappedError") ELSE ok
After(fail, m, new) == IF fail THEN m ELSE new
Has(m, k) == m[k] # None
With(m, k, v) == [m EXCEPT ![k] = v]
Without(m, k) == [m EXCEPT ![k] = None]

MockGetAllKeys(m, fail) == Answer(fail, <<"Ok", KeysOf(m)>>)
MockKeyExists(m, fail, k) == Answer(fail, <<"Ok", Has(m, k)>>)
MockGetValue(m, fail, k) ==
    Answer(fail, IF Has(m, k) THEN <<"Ok", m[k]>> ELSE Err("KeyNotFound"))
MockGetValueAs(m, fail, k, T) ==
    LET r == MockGetValue(m, fail, k)
    IN  IF IsErr(r) THEN r ELSE TryFrom(T, r[2])
MockGetDefaultValue(fail) == Answer(fail, Err("KeyNotFound"))
MockIsValueDefault(fail) == Answer(fail, <<"Ok", FALSE>>)

MockReset(m, fail) == After(fail, m, Empty)

\* Faulty variant: a value that is there is kept.
MockSetValueOnce(m, fail, k, v) == After(fail, m, IF Has(m, k) THEN m ELSE With(m, k, v))

MockSetValue(m, fail, k, v) == After(fail, m, With(m, k, v))

\* A key that is not there is no error.
MockRemoveKey(m, fail, k) == After(fail, m, Without(m, k))

\* Any key can be reset, as if it had a default that is then forgotten.
MockResetKey(m, fail, k) == After(fail, m, Without(m, k))
MockResetKeyAnswer(m, fail, k) ==
    Answer(fail, IF Has(m, k) THEN <<"Ok", "unit">> ELSE Err("KeyDefaultNotFound"))

\* flush and snapshot_restore do nothing, and there are no snapshots.
MockFlush(fail) == Answer(fail, <<"Ok", "unit">>)
MockSnapshotRestore(fail) == Answer(fail, <<"Ok", "unit">>)
MockSnapshotCount(fail) == IF fail THEN 9999 ELSE 0
MockSnapshotMaxCount == 0
=============================================================================
