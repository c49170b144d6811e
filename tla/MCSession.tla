------------------------------ MODULE MCSession ------------------------------
(* Model-checking instances of Session.                                    *)
EXTENDS Session, TLC

CONSTANTS w1, w2, ana, bea
=============================================================================
