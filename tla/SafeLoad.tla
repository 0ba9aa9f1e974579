------------------------------ MODULE SafeLoad ------------------------------
(***************************************************************************)
(* The structured-output loader json_loader.safe_load(text, llm) that both *)
(* metrics call on a completion.  Its code (ragas.llms.json_load) is not   *)
(* part of src/, so this module follows spec 4.3: parse the text; when it  *)
(* holds no JSON and repair budget is left, ask the gateway to fix it and  *)
(* parse the answer; when the budget is spent, return the failure marker.  *)
(* The repair call goes through the same gateway (with its retries); an    *)
(* error of that call propagates out of safe_load.                         *)
(*                                                                         *)
(* A text is a member of Outputs; Malformed is the one holding no JSON,    *)
(* and every other member stands for the JSON value it parses to.          *)
(***************************************************************************)
EXTENDS Naturals, Sequences

CONSTANTS
    Outputs, MaxAttempts, MaxN,  \* of the gateway
    LoaderRetries,  \* the repair budget of one safe_load
    Malformed,      \* the text in which no JSON value can be found
    FailMarker      \* what safe_load returns when the budget is spent

(* The instantiating modules give LoaderRetries \in Nat, Malformed \in     *)
(* Outputs and MaxN = 1; their ASSUMEs state the first.                    *)

VARIABLES
    llmMulti, gwPhase, attempt, nReq, req, gens,  \* of the gateway
    ldPhase,   \* "idle", "parse", "fixing", "loaded" or "raised"
    ldText,    \* the text being parsed, then the value returned
    ldBudget,  \* repair calls still allowed
    ldFailed   \* the value returned is the failure marker

gwVars == <<llmMulti, gwPhase, attempt, nReq, req, gens>>
ldVars == <<ldPhase, ldText, ldBudget, ldFailed>>

GW == INSTANCE Gateway

LdPhases == {"idle", "parse", "fixing", "loaded", "raised"}

(* The caller hands a completion text to safe_load.                       *)
LoadStart(text) ==
    /\ ldPhase = "idle"
    /\ ldPhase' = "parse"
    /\ ldText' = text
    /\ ldBudget' = LoaderRetries
    /\ ldFailed' = FALSE

(* A JSON value was found in the text: it is returned.                    *)
ParseOk ==
    /\ ldPhase = "parse"
    /\ ldText # Malformed
    /\ ldPhase' = "loaded"
    /\ UNCHANGED <<ldText, ldBudget, ldFailed>>
    /\ UNCHANGED gwVars

(* Mutant of RequestFix: the repair budget is never decremented.          *)
RequestFixNoDecrement ==
    /\ ldPhase = "parse"
    /\ ldText = Malformed
    /\ ldBudget > 0
    /\ GW!Request(1)
    /\ ldPhase' = "fixing"
    /\ UNCHANGED <<ldText, ldBudget, ldFailed>>

(* No JSON, budget left: one repair round-trip through the gateway.       *)
RequestFix ==
    /\ ldPhase = "parse"
    /\ ldText = Malformed
    /\ ldBudget > 0
    /\ GW!Request(1)
    /\ ldPhase' = "fixing"
    /\ ldBudget' = ldBudget - 1
    /\ UNCHANGED <<ldText, ldFailed>>

(* No JSON and no budget: the failure marker, not an exception.           *)
GiveUpLoad ==
    /\ ldPhase = "parse"
    /\ ldText = Malformed
    /\ ldBudget = 0
    /\ ldPhase' = "loaded"
    /\ ldText' = FailMarker
    /\ ldFailed' = TRUE
    /\ UNCHANGED ldBudget
    /\ UNCHANGED gwVars

(* The repaired text comes back and is parsed again.                      *)
FixDone ==
    /\ ldPhase = "fixing"
    /\ gwPhase = "ok"
    /\ GW!Consume
    /\ ldText' = gens[1][1]
    /\ ldPhase' = "parse"
    /\ UNCHANGED <<ldBudget, ldFailed>>

(* The repair call exhausted its retries: the error leaves safe_load.     *)
FixRaised ==
    /\ ldPhase = "fixing"
    /\ gwPhase = "failed"
    /\ GW!Consume
    /\ ldPhase' = "raised"
    /\ UNCHANGED <<ldText, ldBudget, ldFailed>>

(* The caller takes the value or the exception.                           *)
LoadTake ==
    /\ ldPhase \in {"loaded", "raised"}
    /\ ldPhase' = "idle"
    /\ UNCHANGED <<ldText, ldBudget, ldFailed>>

(* The steps safe_load takes by itself, once called.                      *)
LdStep == ParseOk \/ RequestFix \/ GiveUpLoad \/ FixDone \/ FixRaised

LdTypeOK ==
    /\ ldPhase \in LdPhases
    /\ ldText \in Outputs \cup {FailMarker}
    /\ ldBudget \in 0..LoaderRetries
    /\ ldFailed \in BOOLEAN

=============================================================================
