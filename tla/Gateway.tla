------------------------------ MODULE Gateway ------------------------------
(***************************************************************************)
(* The language-model gateway of src/ragas/llms/base.py.                  *)
(*                                                                         *)
(* One call of LangchainLLMWrapper.generate_text (or agenerate_text, whose *)
(* control is identical, or BaseRagasLLM.generate, which only dispatches   *)
(* to one of them) runs under tenacity's                                   *)
(*   @retry(wait=wait_random_exponential(min=1, max=60),                   *)
(*          stop=stop_after_attempt(6))                                    *)
(* Every attempt builds the provider request from n (the temperature is    *)
(* forced by get_temperature), and on success the result of a provider     *)
(* without native n-completion is re-packed into one outer list.  Any      *)
(* exception of an attempt is retried; the sixth failure is surfaced to    *)
(* the caller.  The backoff delay is not modelled, only the attempts.      *)
(*                                                                         *)
(* A completion text is abstracted to a member of Outputs.  The caller     *)
(* (Request, Consume) is part of this module so that the gateway can be    *)
(* checked on its own; the metric modules conjoin these two actions with   *)
(* their own steps.                                                        *)
(***************************************************************************)
EXTENDS Naturals, Sequences

CONSTANTS
    Outputs,      \* the completion texts a provider can return
    MaxAttempts,  \* stop_after_attempt(6)
    MaxN          \* the largest n a caller asks for (a bound for TLC)

ASSUME GatewayAssumption ==
    /\ Outputs # {}
    /\ MaxAttempts \in Nat \ {0}
    /\ MaxN \in Nat

VARIABLES
    llmMulti,  \* is_multiple_completion_supported(self.langchain_llm)
    gwPhase,   \* "idle", "busy" (an attempt is in flight), "ok" or "failed"
    attempt,   \* tenacity's attempt number within the current call
    nReq,      \* the n the caller asked for
    req,       \* the arguments of the provider's generate_prompt
    gens       \* the LLMResult.generations handed back to the caller

gwVars == <<llmMulti, gwPhase, attempt, nReq, req, gens>>

GwPhases == {"idle", "busy", "ok", "failed"}

Temperatures == {"1e-8", "0.3"}

(* BaseRagasLLM.get_temperature: the caller's temperature is ignored.      *)
GetTemperature(n) == IF n > 1 THEN "0.3" ELSE "1e-8"

(* The generate_prompt call of one attempt: n completions of one prompt    *)
(* when the model supports it, else the prompt repeated n times.           *)
ProviderRequest(multi, n) ==
    IF multi THEN [prompts |-> 1, samples |-> n, temperature |-> GetTemperature(n)]
             ELSE [prompts |-> n, samples |-> 1, temperature |-> GetTemperature(n)]

NoRequest == [prompts |-> 0, samples |-> 0, temperature |-> "1e-8"]

Requests == [prompts : Nat, samples : Nat, temperature : Temperatures]

(* What the provider can answer: one list of r.samples generations for     *)
(* each of the r.prompts prompts.                                          *)
ProviderResults(r) == [1..r.prompts -> [1..r.samples -> Outputs]]

(* Mutant of Repack: the provider's result is returned without re-packing. *)
RepackNone(res) == res

(* generations = [[g[0] for g in result.generations]]                      *)
Repack(res) == << [i \in 1..Len(res) |-> res[i][1]] >>

-----------------------------------------------------------------------------

Init ==
    /\ llmMulti \in BOOLEAN
    /\ gwPhase = "idle"
    /\ attempt = 0
    /\ nReq = 0
    /\ req = NoRequest
    /\ gens = << >>

(* The caller invokes generate_text(prompt, n): tenacity starts attempt 1. *)
Request(n) ==
    /\ gwPhase = "idle"
    /\ gwPhase' = "busy"
    /\ attempt' = 1
    /\ nReq' = n
    /\ req' = ProviderRequest(llmMulti, n)
    /\ gens' = << >>
    /\ UNCHANGED llmMulti

(* Mutant of Retry: the stop condition is not consulted.                    *)
RetryUnbounded ==
    /\ gwPhase = "busy"
    /\ attempt' = attempt + 1
    /\ UNCHANGED <<llmMulti, gwPhase, nReq, req, gens>>

(* The attempt raised and the stop condition does not hold yet: tenacity   *)
(* waits and calls generate_text again with the same arguments.            *)
Retry ==
    /\ gwPhase = "busy"
    /\ attempt < MaxAttempts
    /\ attempt' = attempt + 1
    /\ UNCHANGED <<llmMulti, gwPhase, nReq, req, gens>>

(* The attempt raised and it was the last one: the error reaches the       *)
(* caller (as tenacity's RetryError).                                      *)
GiveUp ==
    /\ gwPhase = "busy"
    /\ attempt = MaxAttempts
    /\ gwPhase' = "failed"
    /\ UNCHANGED <<llmMulti, attempt, nReq, req, gens>>

(* The provider answered; the non-native path re-packs the result.         *)
Return ==
    /\ gwPhase = "busy"
    /\ \E res \in ProviderResults(req) :
          gens' = IF llmMulti THEN res ELSE Repack(res)
    /\ gwPhase' = "ok"
    /\ UNCHANGED <<llmMulti, attempt, nReq, req>>

(* The caller takes the result or the exception.                           *)
Consume ==
    /\ gwPhase \in {"ok", "failed"}
    /\ gwPhase' = "idle"
    /\ UNCHANGED <<llmMulti, attempt, nReq, req, gens>>

(* The steps the gateway takes by itself, once called.                     *)
GwStep == Retry \/ GiveUp \/ Return

Next ==
    \/ GwStep
    \/ \E n \in 0..MaxN : Request(n)
    \/ Consume

Spec == Init /\ [][Next]_gwVars

-----------------------------------------------------------------------------

GwTypeOK ==
    /\ llmMulti \in BOOLEAN
    /\ gwPhase \in GwPhases
    /\ attempt \in 0..MaxAttempts
    /\ nReq \in 0..MaxN
    /\ req \in Requests
    /\ gens \in Seq(Seq(Outputs))

(* Spec 8: whatever the provider's capability, a successful call returns   *)
(* exactly one outer list holding exactly n completions (the re-packing of *)
(* generate_text lines 131-141 against the native path of lines 122-129).  *)
ResultShape ==
    gwPhase = "ok" => /\ Len(gens) = 1
                      /\ Len(gens[1]) = nReq

=============================================================================
