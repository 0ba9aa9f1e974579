----------------------------- MODULE MCEvalChain -----------------------------
(* EvalChain for TLC.  Batches of up to two rows make a bad row after a   *)
(* good one, and both count mismatches, possible; every key subset and   *)
(* both document kinds are enumerated.                                    *)
EXTENDS EvalChain, TLC

=============================================================================
