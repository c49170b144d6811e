--------------------------- MODULE MCRecordEditing ---------------------------
(* Model-checking instances of RecordEditing.                              *)
EXTENDS RecordEditing, TLC

CONSTANTS r1, r2, q1, q2, odd, misread
=============================================================================
