--------------------------- MODULE MCProvisioning ---------------------------
(* Model-checking instances of Provisioning.                               *)
EXTENDS Provisioning, TLC

CONSTANTS j1, w1, w2, q1
=============================================================================
