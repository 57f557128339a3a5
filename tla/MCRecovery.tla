------------------------------ MODULE MCRecovery ------------------------------
(* What may happen to the operation on chain in the model-checked runs.    *)
EXTENDS Recovery

Cancelable == {"schedule", "canceled"}
=============================================================================
