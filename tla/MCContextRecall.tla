------------------------- MODULE MCContextRecall ---------------------------
(* Model-checking instance of ContextRecall: the gateway's real six       *)
(* attempts, one repair in safe_load, classification lists of up to two   *)
(* items (a mixed list, an all-false list, one invalid item next to a     *)
(* valid one), bare or wrapped.                                           *)
EXTENDS ContextRecall, TLC
=============================================================================
