--------------------------- MODULE MCWebhookQueue ---------------------------
(* Model-checking instances of WebhookQueue.                               *)
EXTENDS WebhookQueue, TLC

\* Records and workers are interchangeable (safety runs only).
Symmetry == Permutations(Records) \cup Permutations(Workers)
=============================================================================
