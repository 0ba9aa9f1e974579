---------------------------- MODULE Faithfulness ----------------------------
(***************************************************************************)
(* Faithfulness.ascore of src/ragas/metrics/_faithfulness.py, scoring one *)
(* row after another through the gateway (Gateway) and the loader         *)
(* (SafeLoad):                                                             *)
(*   1. generate_text on the statement-extraction prompt (line 150);      *)
(*   2. safe_load of the first completion, .get("statements", []), and    *)
(*      the "Nil" sentinel when the list is empty (154-157);              *)
(*   3. generate_text on the verification prompt (167);                   *)
(*   4. safe_load of its first completion, kept only if it is a list, and *)
(*      the verdict map summed over it (170-184).                         *)
(* Completion texts are abstracted to the JSON value they parse to:       *)
(* no JSON at all, an object, or an array of verdict entries.  An object's *)
(* "statements" value is absent, a list of some length, another iterable  *)
(* of some length (a string or an object, which compare unequal to [] and  *)
(* enumerate to their characters or keys), or a scalar (null, a number or  *)
(* a boolean, on which enumerate raises TypeError).  An entry is "yes" or "no"     *)
(* (any letter case), "other" (a string outside the map, "null", or a     *)
(* dict without "verdict": all map to nan) or "bad" (not a dict, or a     *)
(* verdict that is not a string, such as JSON null: .get or .lower        *)
(* raises AttributeError).                                                *)
(***************************************************************************)
EXTENDS Naturals, Sequences, FiniteSets

CONSTANTS
    MaxAttempts,    \* the gateway's stop_after_attempt
    LoaderRetries,  \* safe_load's repair budget
    MaxStmts,       \* the longest "statements" list a completion holds
    MaxVerdicts,    \* the longest verdict array a completion holds
    NaN             \* np.nan, the undefined score

ASSUME FaithfulnessAssumption ==
    /\ MaxAttempts \in Nat \ {0}
    /\ LoaderRetries \in Nat
    /\ MaxStmts \in Nat
    /\ MaxVerdicts \in Nat

VARIABLES
    llmMulti, gwPhase, attempt, nReq, req, gens,  \* of the gateway
    ldPhase, ldText, ldBudget, ldFailed,          \* of safe_load
    phase,          \* where ascore is
    stmtsSent,      \* how many statements the verification prompt lists
    extractFailed,  \* the statements came from safe_load's failure marker
    verdicts,       \* the verdict list the score was computed from
    score           \* the value ascore returned

gwVars == <<llmMulti, gwPhase, attempt, nReq, req, gens>>
ldVars == <<ldPhase, ldText, ldBudget, ldFailed>>
fVars == <<phase, stmtsSent, extractFailed, verdicts, score>>
vars == <<gwVars, ldVars, fVars>>

(* The parsed value of a completion; stField is the kind of its           *)
(* "statements" value and k that value's length.                          *)
Json(kind, stField, k, v) ==
    [json |-> kind, stField |-> stField, statements |-> k, verdicts |-> v]

StatementsFields == {"absent", "list", "iterable", "scalar"}

VerdictKinds == {"yes", "no", "other", "bad"}

VerdictLists == UNION {[1..m -> VerdictKinds] : m \in 0..MaxVerdicts}

MalformedText == Json("none", "absent", 0, << >>)

(* {} : an object without "statements"; also what json_load returns on    *)
(* failure (the marker the spec asks for is not distinct from it).        *)
EmptyObject == Json("object", "absent", 0, << >>)

LLMOutputs ==
    {MalformedText, EmptyObject, Json("object", "scalar", 0, << >>)}
    \cup {Json("object", f, k, << >>) : f \in {"list", "iterable"}, k \in 0..MaxStmts}
    \cup {Json("array", "absent", 0, v) : v \in VerdictLists}

GW == INSTANCE Gateway WITH Outputs <- LLMOutputs, MaxN <- 1

LD == INSTANCE SafeLoad
        WITH Outputs <- LLMOutputs, MaxN <- 1,
             Malformed <- MalformedText, FailMarker <- EmptyObject

Phases == {"idle", "extract", "loadStmts", "verify", "loadVerdicts",
           "done", "failed", "crashed"}

Scores == {NaN} \cup [num : Nat, den : Nat]

(* .get("statements", []) on a parsed object: the kind of the value, a    *)
(* list when the key is absent.                                           *)
StatementsField(t) == IF t.stField = "absent" THEN "list" ELSE t.stField

(* enumerate(statements) (line 159) accepts any iterable.                 *)
Enumerable(t) == StatementsField(t) # "scalar"

(* statements if statements != [] else ["Nil"]: only an empty list equals *)
(* [], so an empty string or object is enumerated as zero statements.     *)
SentStatements(t) ==
    IF StatementsField(t) = "list" /\ t.statements = 0 THEN 1 ELSE t.statements

(* output if isinstance(output, list) else []                             *)
VerdictOutput(t) == IF t.json = "array" THEN t.verdicts ELSE << >>

Raises(v) == \E i \in DOMAIN v : v[i] = "bad"

(* Mutant of FaithScore: no guard on an empty verdict list (0/0 read as 0).*)
FaithScoreNoEmptyCheck(v) ==
    IF \E i \in DOMAIN v : v[i] = "other"
    THEN NaN
    ELSE [num |-> Cardinality({i \in DOMAIN v : v[i] = "yes"}), den |-> Len(v)]

(* Mutant of FaithScore: "no" mapped to -1 instead of 0.                  *)
FaithScoreSigned(v) ==
    IF Len(v) = 0 \/ \E i \in DOMAIN v : v[i] = "other"
    THEN NaN
    ELSE [num |-> Cardinality({i \in DOMAIN v : v[i] = "yes"})
                  - Cardinality({i \in DOMAIN v : v[i] = "no"}),
          den |-> Len(v)]

(* sum(verdict_score_map.get(...lower(), np.nan)) / len(output), or nan   *)
(* when output is empty: one nan term makes the whole sum nan.            *)
FaithScore(v) ==
    IF Len(v) = 0 \/ \E i \in DOMAIN v : v[i] = "other"
    THEN NaN
    ELSE [num |-> Cardinality({i \in DOMAIN v : v[i] = "yes"}), den |-> Len(v)]

-----------------------------------------------------------------------------

Init ==
    /\ GW!Init
    /\ ldPhase = "idle" /\ ldText = MalformedText
    /\ ldBudget = 0 /\ ldFailed = FALSE
    /\ phase = "idle" /\ stmtsSent = 0 /\ extractFailed = FALSE
    /\ verdicts = << >> /\ score = NaN

(* ascore is called on a row: the statement-extraction call (146-150).     *)
Start ==
    /\ phase = "idle"
    /\ GW!Request(1)
    /\ phase' = "extract"
    /\ stmtsSent' = 0 /\ extractFailed' = FALSE
    /\ verdicts' = << >> /\ score' = NaN
    /\ UNCHANGED ldVars

(* The extraction completion goes to safe_load (154).                     *)
ExtractReturned ==
    /\ phase = "extract"
    /\ gwPhase = "ok"
    /\ GW!Consume
    /\ LD!LoadStart(gens[1][1])
    /\ phase' = "loadStmts"
    /\ UNCHANGED <<stmtsSent, extractFailed, verdicts, score>>

(* A generate_text call exhausted its retries: the error leaves ascore.    *)
GenerationRaised ==
    /\ phase \in {"extract", "verify"}
    /\ gwPhase = "failed"
    /\ GW!Consume
    /\ phase' = "failed"
    /\ UNCHANGED <<ldVars, stmtsSent, extractFailed, verdicts, score>>

(* A repair call inside safe_load did: the error leaves ascore.            *)
LoaderRaised ==
    /\ phase \in {"loadStmts", "loadVerdicts"}
    /\ ldPhase = "raised"
    /\ LD!LoadTake
    /\ phase' = "failed"
    /\ UNCHANGED <<gwVars, stmtsSent, extractFailed, verdicts, score>>

(* The statements, or the Nil sentinel, go into the verification prompt   *)
(* and its call is made (154-167).                                        *)
StatementsLoaded ==
    /\ phase = "loadStmts"
    /\ ldPhase = "loaded"
    /\ ldText.json # "array"
    /\ Enumerable(ldText)
    /\ LD!LoadTake
    /\ GW!Request(1)
    /\ stmtsSent' = SentStatements(ldText)
    /\ extractFailed' = ldFailed
    /\ phase' = "verify"
    /\ UNCHANGED <<verdicts, score>>

(* A JSON array has no .get: AttributeError leaves ascore (154); a scalar  *)
(* "statements" value is not iterable: TypeError leaves it (159).          *)
StatementsCrash ==
    /\ phase = "loadStmts"
    /\ ldPhase = "loaded"
    /\ ldText.json = "array" \/ ~Enumerable(ldText)
    /\ LD!LoadTake
    /\ phase' = "crashed"
    /\ UNCHANGED <<gwVars, stmtsSent, extractFailed, verdicts, score>>

(* The verification completion goes to safe_load (170-172).               *)
VerifyReturned ==
    /\ phase = "verify"
    /\ gwPhase = "ok"
    /\ GW!Consume
    /\ LD!LoadStart(gens[1][1])
    /\ phase' = "loadVerdicts"
    /\ UNCHANGED <<stmtsSent, extractFailed, verdicts, score>>

(* The verdicts are scored and ascore returns (173-184).                   *)
VerdictsScored ==
    /\ phase = "loadVerdicts"
    /\ ldPhase = "loaded"
    /\ ~Raises(VerdictOutput(ldText))
    /\ LD!LoadTake
    /\ verdicts' = VerdictOutput(ldText)
    /\ score' = FaithScore(VerdictOutput(ldText))
    /\ phase' = "done"
    /\ UNCHANGED <<gwVars, stmtsSent, extractFailed>>

(* An entry that is not a dict, or a verdict that is not a string: the    *)
(* generator of line 174-177 raises AttributeError.                       *)
VerdictsCrash ==
    /\ phase = "loadVerdicts"
    /\ ldPhase = "loaded"
    /\ Raises(VerdictOutput(ldText))
    /\ LD!LoadTake
    /\ phase' = "crashed"
    /\ UNCHANGED <<gwVars, stmtsSent, extractFailed, verdicts, score>>

(* The caller goes on with the next row.                                   *)
NextRow ==
    /\ phase \in {"done", "failed", "crashed"}
    /\ phase' = "idle"
    /\ UNCHANGED <<gwVars, ldVars, stmtsSent, extractFailed, verdicts, score>>

Next ==
    \/ GW!GwStep /\ UNCHANGED <<ldVars, fVars>>
    \/ LD!LdStep /\ UNCHANGED fVars
    \/ Start \/ ExtractReturned \/ GenerationRaised \/ LoaderRaised
    \/ StatementsLoaded \/ StatementsCrash
    \/ VerifyReturned \/ VerdictsScored \/ VerdictsCrash
    \/ NextRow

Spec == Init /\ [][Next]_vars

(* One row is one coroutine that runs each step as soon as it can; the    *)
(* provider is assumed to answer or raise every request.                  *)
FairSpec == Spec /\ WF_vars(Next)

-----------------------------------------------------------------------------

FaithTypeOK ==
    /\ GW!GwTypeOK
    /\ LD!LdTypeOK
    /\ phase \in Phases
    /\ stmtsSent \in Nat
    /\ extractFailed \in BOOLEAN
    /\ verdicts \in Seq(VerdictKinds)
    /\ score \in Scores

(* Spec 4.4 step 1: the verification call always judges at least one      *)
(* statement; an extraction that yields zero statements is replaced by    *)
(* the "Nil" sentinel before the second generate_text.  The code tests    *)
(* statements != [] (line 157), which an empty string or object passes.   *)
VerificationNeverEmpty ==
    phase \in {"verify", "loadVerdicts", "done"} => stmtsSent >= 1

(* Spec 4.4 step 3 and 8: a returned score is the fraction of "yes" among *)
(* the verdicts the verification call returned, over their count, never  *)
(* over the statements sent; zero verdicts give nan, never 0 and never a  *)
(* ZeroDivisionError.                                                     *)
ScoreIsYesFraction ==
    phase = "done" =>
        /\ score # NaN => /\ score.den = Len(verdicts)
                          /\ score.num = Cardinality({i \in DOMAIN verdicts : verdicts[i] = "yes"})
        /\ verdicts = << >> => score = NaN

(* Every row that ascore starts ends: with a score, or with an exception; *)
(* the gateway's retries and safe_load's repairs are both bounded.        *)
RowTerminates ==
    phase = "extract" ~> phase \in {"done", "failed", "crashed"}

(* Spec 4.4 step 3: a verdict that maps to nothing contributes 0; only an *)
(* empty or unparseable verdict list makes the score undefined.           *)
UnrecognizedVerdictCountsZero ==
    phase = "done" /\ verdicts # << >> => score # NaN

(* Spec 4.3 and 7: when the statements could not be recovered from the    *)
(* model's output, the caller degrades the score to undefined instead of  *)
(* scoring an invented value.                                             *)
ExtractionFailureUndefined ==
    phase = "done" /\ extractFailed => score = NaN

(* Spec 7: malformed structured output is never an exception that aborts *)
(* the batch; only the gateway's exhausted retries may leave ascore.      *)
MalformedOutputNeverRaises ==
    phase # "crashed"

=============================================================================
