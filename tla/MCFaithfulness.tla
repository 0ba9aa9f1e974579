-------------------------- MODULE MCFaithfulness ---------------------------
(* Model-checking instance of Faithfulness.  The gateway keeps its real   *)
(* six attempts; safe_load gets one repair; completions hold up to two    *)
(* statements and up to two verdicts, enough for a mixed verdict list, a *)
(* list longer or shorter than the statements sent, and every kind of    *)
(* entry next to a good one.                                              *)
EXTENDS Faithfulness, TLC
=============================================================================
