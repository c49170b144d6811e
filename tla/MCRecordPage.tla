---------------------------- MODULE MCRecordPage ----------------------------
(* Model-checking instances of RecordPage.                                 *)
EXTENDS RecordPage, TLC

CONSTANTS a, b, date, amount, good, spaced, odd

\* A value that validation rewrites, and one that it flags.
Stored == good :> good @@ spaced :> good @@ odd :> odd

\* The first record is held for review, the second is clean.
SomeText == [r \in Records |-> [f \in Fields |-> IF r = a /\ f = amount THEN odd ELSE good]]
=============================================================================
