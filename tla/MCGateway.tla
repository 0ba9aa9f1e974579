----------------------------- MODULE MCGateway -----------------------------
(* Model-checking instance of Gateway (MCGateway.cfg): two completion      *)
(* texts as model values, the real stop_after_attempt(6), and n up to 3 so *)
(* that both the native and the re-packed path return several completions.*)
EXTENDS Gateway, TLC

(* Completion texts are only compared for equality.                        *)
OutputSymmetry == Permutations(Outputs)
=============================================================================
