------------------------- MODULE FaithfulnessProofs -------------------------
(* Proofs about Faithfulness.ascore composed with the gateway and          *)
(* safe_load: the row keeps its type and a returned score is the          *)
(* yes-fraction of the verdicts, for every value of the constants.        *)
EXTENDS Faithfulness, FiniteSetTheorems, SequenceTheorems, TLAPS

(* The gateway the metric calls, with its proved inductive invariant.      *)
GWP == INSTANCE GatewayProofs WITH Outputs <- LLMOutputs, MaxN <- 1

(* The constants of this instance satisfy the gateway's assumption.        *)
LEMMA GatewayInstanceAssumption == GWP!GatewayAssumption
BY FaithfulnessAssumption DEF GWP!GatewayAssumption, LLMOutputs

(* Every step of the metric moves the gateway by one of its own steps:    *)
(* both generate_text calls and every repair call of safe_load are        *)
(* requests of n = 1 to the same gateway.                                 *)
LEMMA GatewayStep ==
    [Next]_vars => [GWP!Next]_GWP!gwVars
<1> SUFFICES ASSUME [Next]_vars PROVE [GWP!Next]_GWP!gwVars
    OBVIOUS
<1> USE DEF GWP!gwVars
<1>1. CASE GW!GwStep /\ UNCHANGED <<ldVars, fVars>>
    BY <1>1 DEF GWP!Next, GW!GwStep, GWP!GwStep, GW!Retry, GWP!Retry,
              GW!GiveUp, GWP!GiveUp, GW!Return, GWP!Return, GW!ProviderResults,
              GWP!ProviderResults, GW!Repack, GWP!Repack
<1>2. CASE LD!LdStep /\ UNCHANGED fVars
  <2>1. CASE LD!ParseOk \/ LD!GiveUpLoad
      BY <2>1 DEF LD!ParseOk, LD!GiveUpLoad, LD!gwVars
  <2>2. CASE LD!RequestFix
      BY <2>2 DEF LD!RequestFix, LD!GW!Request, GWP!Next, GWP!Request,
                LD!GW!ProviderRequest, GWP!ProviderRequest, LD!GW!GetTemperature,
                GWP!GetTemperature
  <2>3. CASE LD!FixDone \/ LD!FixRaised
      BY <2>3 DEF LD!FixDone, LD!FixRaised, LD!GW!Consume, GWP!Next, GWP!Consume
  <2>. QED  BY <1>2, <2>1, <2>2, <2>3 DEF LD!LdStep
<1>3. CASE Start \/ StatementsLoaded
    BY <1>3 DEF Start, StatementsLoaded, GW!Request, GWP!Next, GWP!Request,
              GW!ProviderRequest, GWP!ProviderRequest, GW!GetTemperature,
              GWP!GetTemperature
<1>4. CASE ExtractReturned \/ GenerationRaised \/ VerifyReturned
    BY <1>4 DEF ExtractReturned, GenerationRaised, VerifyReturned, GW!Consume,
              GWP!Next, GWP!Consume
<1>5. CASE LoaderRaised \/ StatementsCrash \/ VerdictsScored \/ VerdictsCrash \/ NextRow
    BY <1>5 DEF LoaderRaised, StatementsCrash, VerdictsScored, VerdictsCrash, NextRow,
              gwVars
<1>6. CASE UNCHANGED vars
    BY <1>6 DEF vars, gwVars
<1>. QED  BY <1>1, <1>2, <1>3, <1>4, <1>5, <1>6 DEF Next

-----------------------------------------------------------------------------

(* A completion text holds a statement count and a verdict list.          *)
LEMMA OutputShape ==
    ASSUME NEW t \in LLMOutputs
    PROVE  /\ t.statements \in Nat
           /\ \E m \in 0..MaxVerdicts : VerdictOutput(t) \in [1..m -> VerdictKinds]
<1>1. 0 \in 0..MaxVerdicts /\ << >> \in [1..0 -> VerdictKinds]
    BY FaithfulnessAssumption
<1>2. CASE t \in {MalformedText, EmptyObject, Json("object", "scalar", 0, << >>)}
  <2>1. t.statements = 0 /\ VerdictOutput(t) = << >>
      BY <1>2 DEF MalformedText, EmptyObject, Json, VerdictOutput
  <2>. QED  BY <1>1, <2>1
<1>3. CASE t \in {Json("object", f, k, << >>) : f \in {"list", "iterable"}, k \in 0..MaxStmts}
  <2>1. t.statements \in Nat /\ VerdictOutput(t) = << >>
      BY <1>3, FaithfulnessAssumption DEF Json, VerdictOutput
  <2>. QED  BY <1>1, <2>1
<1>4. CASE t \in {Json("array", "absent", 0, v) : v \in VerdictLists}
    BY <1>4 DEF Json, VerdictOutput, VerdictLists
<1>. QED  BY <1>2, <1>3, <1>4 DEF LLMOutputs

(* The verdict list of a completion is a sequence, and the score computed *)
(* from it is nan or yes/total with 1 <= total and yes <= total.          *)
LEMMA FaithScoreValid ==
    ASSUME NEW t \in LLMOutputs
    PROVE  /\ VerdictOutput(t) \in Seq(VerdictKinds)
           /\ FaithScore(VerdictOutput(t)) \in Scores
<1> DEFINE v == VerdictOutput(t)
<1>1. PICK m \in 0..MaxVerdicts : v \in [1..m -> VerdictKinds]
    BY OutputShape
<1>2. v \in Seq(VerdictKinds) /\ Len(v) = m
    BY <1>1, GWP!FunIsSeq, FaithfulnessAssumption
<1>3. /\ Cardinality({i \in DOMAIN v : v[i] = "yes"}) \in Nat
      /\ Cardinality({i \in DOMAIN v : v[i] = "yes"}) <= m
  <2>1. IsFiniteSet(1..m) /\ Cardinality(1..m) = m
      BY FS_Interval, FaithfulnessAssumption
  <2>2. {i \in DOMAIN v : v[i] = "yes"} \in SUBSET (1..m)
      BY <1>1
  <2>. QED  BY <2>1, <2>2, FS_Subset, FS_CardinalityType
<1>. QED  BY <1>2, <1>3 DEF FaithScore, Scores

-----------------------------------------------------------------------------

(* The inductive invariant.  Beyond the gateway's own, it records that    *)
(* both calls and every repair ask for n = 1 (so generations[0][0] is a   *)
(* completion text), that safe_load's value is one, and that a finished   *)
(* row's score was computed from the verdicts it holds.                   *)
(* The rest of FaithTypeOK rides along.                                   *)
FInv ==
    /\ GWP!GwInv
    /\ gwPhase # "idle" => nReq = 1
    /\ ldText \in LLMOutputs
    /\ ldPhase \in LD!LdPhases /\ ldBudget \in 0..LoaderRetries /\ ldFailed \in BOOLEAN
    /\ phase \in Phases
    /\ stmtsSent \in Nat /\ extractFailed \in BOOLEAN
    /\ verdicts \in Seq(VerdictKinds) /\ score \in Scores
    /\ phase = "done" => /\ verdicts \in Seq(VerdictKinds)
                         /\ score = FaithScore(verdicts)

(* The completion a successful n = 1 call hands back is a completion text. *)
LEMMA FirstCompletion ==
    ASSUME GWP!GwInv, gwPhase = "ok", nReq = 1
    PROVE  gens[1][1] \in LLMOutputs
<1>1. gens \in Seq(Seq(LLMOutputs)) /\ Len(gens) = 1 /\ Len(gens[1]) = 1
    BY DEF GWP!GwInv, GWP!GwTypeOK, GWP!ResultShape
<1>. QED  BY <1>1

THEOREM FInvInit == Init => FInv
<1> SUFFICES ASSUME Init PROVE FInv
    OBVIOUS
<1>1. GWP!GwInv
    BY GWP!GwInvInit, GatewayInstanceAssumption DEF Init, GW!Init, GWP!Init, GW!NoRequest,
                                                   GWP!NoRequest
<1>2. MalformedText \in LLMOutputs
    BY DEF LLMOutputs
<1>3. << >> \in Seq(VerdictKinds) /\ 0 \in 0..LoaderRetries /\ NaN \in Scores
    BY FaithfulnessAssumption, EmptySeq DEF Scores
<1>. QED  BY <1>1, <1>2, <1>3 DEF Init, GW!Init, FInv, Phases, LD!LdPhases

THEOREM FInvStep == FInv /\ [Next]_vars => FInv'
<1> SUFFICES ASSUME FInv, [Next]_vars PROVE FInv'
    OBVIOUS
<1>1. GWP!GwInv'
    BY GatewayStep, GWP!GwInvStep, GatewayInstanceAssumption DEF FInv
<1> USE FaithfulnessAssumption DEF FInv, LD!LdPhases
<1>2. CASE GW!GwStep /\ UNCHANGED <<ldVars, fVars>>
    BY <1>1, <1>2 DEF GW!GwStep, GW!Retry, GW!GiveUp, GW!Return, ldVars, fVars
<1>3. CASE LD!LdStep /\ UNCHANGED fVars
  <2> USE <1>3 DEF fVars
  <2>1. CASE LD!ParseOk
      BY <1>1, <2>1 DEF LD!ParseOk, LD!gwVars
  <2>5. CASE LD!GiveUpLoad
    <3>1. EmptyObject \in LLMOutputs
        BY DEF LLMOutputs
    <3>. QED  BY <1>1, <2>5, <3>1 DEF LD!GiveUpLoad, LD!gwVars
  <2>2. CASE LD!RequestFix
      BY <1>1, <2>2 DEF LD!RequestFix, LD!GW!Request
  <2>3. CASE LD!FixDone
      BY <1>1, <2>3, FirstCompletion DEF LD!FixDone, LD!GW!Consume
  <2>4. CASE LD!FixRaised
      BY <1>1, <2>4 DEF LD!FixRaised, LD!GW!Consume
  <2>. QED  BY <2>1, <2>2, <2>3, <2>4, <2>5 DEF LD!LdStep
<1>4. CASE Start
    BY <1>1, <1>4, EmptySeq DEF Start, GW!Request, ldVars, Phases, Scores
<1>5. CASE ExtractReturned \/ VerifyReturned
  <2>1. gens[1][1] \in LLMOutputs
      BY <1>5, FirstCompletion DEF ExtractReturned, VerifyReturned
  <2>2. LoaderRetries \in 0..LoaderRetries
      OBVIOUS
  <2>. QED  BY <1>1, <1>5, <2>1, <2>2
            DEF ExtractReturned, VerifyReturned, GW!Consume, LD!LoadStart, Phases
<1>6. CASE GenerationRaised \/ LoaderRaised \/ StatementsCrash \/ VerdictsCrash
    BY <1>1, <1>6 DEF GenerationRaised, LoaderRaised, StatementsCrash, VerdictsCrash,
                     GW!Consume, LD!LoadTake, gwVars, ldVars, Phases
<1>7. CASE StatementsLoaded
  <2>1. SentStatements(ldText) \in Nat
      BY OutputShape DEF SentStatements
  <2>. QED  BY <1>1, <1>7, <2>1 DEF StatementsLoaded, LD!LoadTake, GW!Request, Phases
<1>8. CASE VerdictsScored
    BY <1>1, <1>8, FaithScoreValid
       DEF VerdictsScored, LD!LoadTake, gwVars, Phases
<1>9. CASE NextRow
    BY <1>1, <1>9 DEF NextRow, gwVars, ldVars, Phases
<1>10. CASE UNCHANGED vars
    BY <1>1, <1>10 DEF vars, gwVars, ldVars, fVars
<1>. QED  BY <1>2, <1>3, <1>4, <1>5, <1>6, <1>7, <1>8, <1>9, <1>10 DEF Next

(* The gateway's type invariant, as the metric's instance of it states it. *)
LEMMA GatewayTypeOK == GWP!GwInv => GW!GwTypeOK
BY DEF GWP!GwInv, GWP!GwTypeOK, GW!GwTypeOK, GWP!GwPhases, GW!GwPhases, GWP!Requests,
       GW!Requests, GWP!Temperatures, GW!Temperatures

-----------------------------------------------------------------------------

(* Type correctness of the composed row, for every attempt count, repair *)
(* budget and list length: the gateway's and safe_load's state, the       *)
(* statements sent, the verdict list and the score keep their types.      *)
THEOREM FaithTyping == Spec => []FaithTypeOK
<1>1. FInv => FaithTypeOK
    BY GatewayTypeOK DEF FInv, FaithTypeOK, LD!LdTypeOK, LLMOutputs
<1>. QED  BY <1>1, FInvInit, FInvStep, PTL DEF Spec

(* A returned faithfulness score is the count of "yes" verdicts over the  *)
(* count of verdicts the second call returned (lines 173-182), nan when   *)
(* there are none, whatever happened in retries and repairs before.      *)
THEOREM FaithScoreYesFraction == Spec => []ScoreIsYesFraction
<1>1. FInv => ScoreIsYesFraction
  <2> SUFFICES ASSUME FInv, phase = "done"
               PROVE  /\ score # NaN =>
                           /\ score.den = Len(verdicts)
                           /\ score.num = Cardinality({i \in DOMAIN verdicts :
                                                          verdicts[i] = "yes"})
                      /\ verdicts = << >> => score = NaN
      BY DEF ScoreIsYesFraction
  <2>1. verdicts \in Seq(VerdictKinds) /\ score = FaithScore(verdicts)
      BY DEF FInv
  <2>. QED  BY <2>1 DEF FaithScore
<1>. QED  BY <1>1, FInvInit, FInvStep, PTL DEF Spec

=============================================================================
