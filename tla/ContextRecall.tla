--------------------------- MODULE ContextRecall ---------------------------
(***************************************************************************)
(* ContextRecall._ascore of src/ragas/metrics/_context_recall.py, scoring *)
(* one row after another: one llm.generate call on the classification     *)
(* prompt built from the ground truth (167-169), safe_load of its first   *)
(* completion (170-172), and _compute_score (135-162).                    *)
(*                                                                         *)
(* A completion is abstracted to the JSON value it parses to: no JSON,    *)
(* an object without "classification" (such as {}, also json_load's       *)
(* failure value), or a list of classification items, bare or wrapped in  *)
(* {"classification": [...]}.  An item is "true" or "false" (attributed   *)
(* is a bool, or a string pydantic coerces to one) or "invalid" (a field  *)
(* missing or not coercible): one invalid item fails parse_obj.           *)
(***************************************************************************)
EXTENDS Naturals, Sequences, FiniteSets

CONSTANTS
    MaxAttempts,    \* the gateway's stop_after_attempt
    LoaderRetries,  \* safe_load's repair budget
    MaxItems,       \* the longest classification list a completion holds
    NaN             \* np.nan, the undefined score

ASSUME ContextRecallAssumption ==
    /\ MaxAttempts \in Nat \ {0}
    /\ LoaderRetries \in Nat
    /\ MaxItems \in Nat

VARIABLES
    llmMulti, gwPhase, attempt, nReq, req, gens,  \* of the gateway
    ldPhase, ldText, ldBudget, ldFailed,          \* of safe_load
    phase,       \* where _ascore is
    response,    \* the value _compute_score was given
    loadFailed,  \* that value is safe_load's failure value
    score        \* the value _ascore returned

gwVars == <<llmMulti, gwPhase, attempt, nReq, req, gens>>
ldVars == <<ldPhase, ldText, ldBudget, ldFailed>>
rVars == <<phase, response, loadFailed, score>>
vars == <<gwVars, ldVars, rVars>>

Json(kind, wrapped, items) == [json |-> kind, wrapped |-> wrapped, items |-> items]

ItemKinds == {"true", "false", "invalid"}

ItemLists == UNION {[1..m -> ItemKinds] : m \in 0..MaxItems}

MalformedText == Json("none", FALSE, << >>)

EmptyObject == Json("object", FALSE, << >>)

LLMOutputs ==
    {MalformedText, EmptyObject}
    \cup {Json("list", w, v) : w \in BOOLEAN, v \in ItemLists}

GW == INSTANCE Gateway WITH Outputs <- LLMOutputs, MaxN <- 1

LD == INSTANCE SafeLoad
        WITH Outputs <- LLMOutputs, MaxN <- 1,
             Malformed <- MalformedText, FailMarker <- EmptyObject

Phases == {"idle", "generate", "load", "done", "failed"}

Scores == {NaN} \cup [num : Nat, den : Nat]

(* ContextRecallClassificationAnswers.parse_obj succeeds: a list (after   *)
(* unwrapping "classification", 136-137) whose every item validates.      *)
ParsesOk(r) == r.json = "list" /\ \A i \in DOMAIN r.items : r.items[i] # "invalid"

AttributedCount(r) == Cardinality({i \in DOMAIN r.items : r.items[i] = "true"})

(* Mutant of ComputeScore: items that fail validation counted as not      *)
(* attributed instead of failing the whole parse.                         *)
ComputeScoreSkipInvalid(r) ==
    IF r.json # "list" \/ Len(r.items) = 0 THEN NaN
    ELSE [num |-> AttributedCount(r), den |-> Len(r.items)]

(* Mutant of ComputeScore: no guard on denom > 0 (0/0 read as 0).         *)
ComputeScoreNoEmptyCheck(r) ==
    IF ~ParsesOk(r) THEN NaN
    ELSE [num |-> AttributedCount(r), den |-> Len(r.items)]

(* Mutant of ComputeScore: a non-attributed item scored -1 instead of 0.  *)
ComputeScoreSigned(r) ==
    IF ~ParsesOk(r) \/ Len(r.items) = 0 THEN NaN
    ELSE [num |-> AttributedCount(r)
                  - Cardinality({i \in DOMAIN r.items : r.items[i] = "false"}),
          den |-> Len(r.items)]

(* _compute_score: nan on a ValidationError, nan when nothing was         *)
(* classified, else attributed / total.                                   *)
ComputeScore(r) ==
    IF ~ParsesOk(r) \/ Len(r.items) = 0 THEN NaN
    ELSE [num |-> AttributedCount(r), den |-> Len(r.items)]

-----------------------------------------------------------------------------

Init ==
    /\ GW!Init
    /\ ldPhase = "idle" /\ ldText = MalformedText
    /\ ldBudget = 0 /\ ldFailed = FALSE
    /\ phase = "idle" /\ response = EmptyObject
    /\ loadFailed = FALSE /\ score = NaN

(* _ascore is called: the prompt is formatted and generate is awaited.    *)
Start ==
    /\ phase = "idle"
    /\ GW!Request(1)
    /\ phase' = "generate"
    /\ score' = NaN
    /\ UNCHANGED <<ldVars, response, loadFailed>>

(* The completion goes to safe_load.                                      *)
Generated ==
    /\ phase = "generate"
    /\ gwPhase = "ok"
    /\ GW!Consume
    /\ LD!LoadStart(gens[1][1])
    /\ phase' = "load"
    /\ UNCHANGED <<response, loadFailed, score>>

(* generate exhausted its retries: the error leaves _ascore.              *)
GenerationRaised ==
    /\ phase = "generate"
    /\ gwPhase = "failed"
    /\ GW!Consume
    /\ phase' = "failed"
    /\ UNCHANGED <<ldVars, response, loadFailed, score>>

(* A repair call inside safe_load did.                                    *)
LoaderRaised ==
    /\ phase = "load"
    /\ ldPhase = "raised"
    /\ LD!LoadTake
    /\ phase' = "failed"
    /\ UNCHANGED <<gwVars, response, loadFailed, score>>

(* The loaded value is scored and _ascore returns.                        *)
Scored ==
    /\ phase = "load"
    /\ ldPhase = "loaded"
    /\ LD!LoadTake
    /\ response' = ldText
    /\ loadFailed' = ldFailed
    /\ score' = ComputeScore(ldText)
    /\ phase' = "done"
    /\ UNCHANGED gwVars

(* The caller goes on with the next row.                                   *)
NextRow ==
    /\ phase \in {"done", "failed"}
    /\ phase' = "idle"
    /\ UNCHANGED <<gwVars, ldVars, response, loadFailed, score>>

Next ==
    \/ GW!GwStep /\ UNCHANGED <<ldVars, rVars>>
    \/ LD!LdStep /\ UNCHANGED rVars
    \/ Start \/ Generated \/ GenerationRaised \/ LoaderRaised \/ Scored
    \/ NextRow

Spec == Init /\ [][Next]_vars

-----------------------------------------------------------------------------

RecallTypeOK ==
    /\ GW!GwTypeOK
    /\ LD!LdTypeOK
    /\ phase \in Phases
    /\ response \in LLMOutputs
    /\ loadFailed \in BOOLEAN
    /\ score \in Scores

(* Spec 4.4 Context Recall step 3 and 8: a returned score is the number of *)
(* items classified attributed over the number classified, with at least  *)
(* one classified; zero classified gives nan, never a ZeroDivisionError.  *)
RecallScoreIsAttributedFraction ==
    phase = "done" =>
        /\ score # NaN => /\ Len(response.items) >= 1
                          /\ score.den = Len(response.items)
                          /\ score.num = AttributedCount(response)
        /\ Len(response.items) = 0 => score = NaN

(* Spec 4.4 step 2, 4.3 and 7: an output that does not validate (an item  *)
(* with a missing or non-boolean field, an object in place of the list,   *)
(* or safe_load's failure value after the repairs) degrades the score to  *)
(* nan instead of raising or scoring part of it.                          *)
RecallUndefinedOnBadOutput ==
    phase = "done" /\ (loadFailed \/ ~ParsesOk(response)) => score = NaN

=============================================================================
