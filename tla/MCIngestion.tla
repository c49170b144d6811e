----------------------------- MODULE MCIngestion -----------------------------
(* Model-checking instances of Ingestion.                                  *)
EXTENDS Ingestion, TLC

CONSTANTS a, b, none

Clean(key) == [key |-> key, odd |-> FALSE]
Odd(key) == [key |-> key, odd |-> TRUE]

\* One row; a repeated key, odd the second time; two empty keys.
SomeFiles == {<<Clean(a)>>, <<Clean(a), Odd(a)>>, <<Odd(none), Clean(none)>>}

Symmetry == Permutations(Uploads)
=============================================================================
