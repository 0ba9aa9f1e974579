------------------------------- MODULE MCCost -------------------------------
(* Cost for TLC: one model name, token counts 0..1.  The results range    *)
(* over every provider shape the gateway can produce with n <= 2, so the  *)
(* repeated-prompt shape (two prompt executions) is covered.              *)
EXTENDS Cost, TLC

=============================================================================
