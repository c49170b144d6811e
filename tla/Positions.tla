------------------------------ MODULE Positions ------------------------------
(***************************************************************************)
(* Members of a sequence chosen by their positions, in its order: what the *)
(* code builds by appending to a list or by filtering one.                 *)
(***************************************************************************)
EXTENDS Integers, Sequences, FiniteSets

Elements(s) == {s[i] : i \in DOMAIN s}

\* The k-th smallest of a set of numbers.
Nth(set, k) == CHOOSE i \in set : Cardinality({j \in set : j <= i}) = k

Picked(s, set) == [k \in 1..Cardinality(set) |-> s[Nth(set, k)]]
=============================================================================
