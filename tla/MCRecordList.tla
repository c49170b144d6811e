---------------------------- MODULE MCRecordList ----------------------------
(* Model-checking instances of RecordList.                                 *)
EXTENDS RecordList, TLC

CONSTANTS r1, r2, r3, u1, u2

SomeRuns == [r \in Records |-> IF r = r1 THEN u1 ELSE u2]
OneUpload == <<u1>>
SomeQueries == {Records, {r2}}
=============================================================================
