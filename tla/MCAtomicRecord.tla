----------------------------- MODULE MCAtomicRecord -----------------------------
(* TLC instances of AtomicRecord: tokens, values, and what the file may be at  *)
(* first.                                                                      *)
EXTENDS AtomicRecord

CONSTANTS t1, t2, v1

TwoTokens == {t1, t2}
OneValue == {v1}
AnyFile == {Absent, Unreadable, [token |-> t1, value |-> v1]}
===============================================================================
