------------------------ MODULE ContextRecallProofs ------------------------
(* Proofs about ContextRecall._ascore composed with the gateway and        *)
(* safe_load: its type and the two score invariants the runs check, for   *)
(* every value of the constants.                                          *)
EXTENDS ContextRecall, FiniteSetTheorems, SequenceTheorems, TLAPS

(* The gateway the metric calls, with its proved inductive invariant.      *)
GWP == INSTANCE GatewayProofs WITH Outputs <- LLMOutputs, MaxN <- 1

(* The constants of this instance satisfy the gateway's assumption.        *)
LEMMA GatewayInstanceAssumption == GWP!GatewayAssumption
BY ContextRecallAssumption DEF GWP!GatewayAssumption, LLMOutputs

(* Every step of the metric moves the gateway by one of its own steps.     *)
LEMMA GatewayStep ==
    [Next]_vars => [GWP!Next]_gwVars
<1> SUFFICES ASSUME [Next]_vars PROVE [GWP!Next]_gwVars
    OBVIOUS
<1>1. CASE GW!GwStep /\ UNCHANGED <<ldVars, rVars>>
    BY <1>1 DEF GWP!Next, GW!GwStep, GWP!GwStep, GW!Retry, GWP!Retry,
              GW!GiveUp, GWP!GiveUp, GW!Return, GWP!Return, GW!ProviderResults,
              GWP!ProviderResults, GW!Repack, GWP!Repack
<1>2. CASE LD!LdStep /\ UNCHANGED rVars
  <2>1. CASE LD!ParseOk \/ LD!GiveUpLoad
      BY <2>1 DEF LD!ParseOk, LD!GiveUpLoad, LD!gwVars, gwVars
  <2>2. CASE LD!RequestFix
      BY <2>2 DEF LD!RequestFix, LD!GW!Request, GWP!Next, GWP!Request,
                LD!GW!ProviderRequest, GWP!ProviderRequest, LD!GW!GetTemperature,
                GWP!GetTemperature
  <2>3. CASE LD!FixDone \/ LD!FixRaised
      BY <2>3 DEF LD!FixDone, LD!FixRaised, LD!GW!Consume, GWP!Next, GWP!Consume
  <2>. QED  BY <1>2, <2>1, <2>2, <2>3 DEF LD!LdStep
<1>3. CASE Start
    BY <1>3 DEF Start, GW!Request, GWP!Next, GWP!Request, GW!ProviderRequest,
              GWP!ProviderRequest, GW!GetTemperature, GWP!GetTemperature
<1>4. CASE Generated \/ GenerationRaised
    BY <1>4 DEF Generated, GenerationRaised, GW!Consume, GWP!Next, GWP!Consume
<1>5. CASE LoaderRaised \/ Scored \/ NextRow
    BY <1>5 DEF LoaderRaised, Scored, NextRow, gwVars
<1>6. CASE UNCHANGED vars
    BY <1>6 DEF vars, gwVars
<1>. QED  BY <1>1, <1>2, <1>3, <1>4, <1>5, <1>6 DEF Next

-----------------------------------------------------------------------------

(* Every completion text is a list of classification items.               *)
LEMMA OutputItems ==
    ASSUME NEW r \in LLMOutputs
    PROVE  \E m \in 0..MaxItems : r.items \in [1..m -> ItemKinds]
<1>1. 0 \in 0..MaxItems /\ << >> \in [1..0 -> ItemKinds]
    BY ContextRecallAssumption
<1>2. CASE r \in {MalformedText, EmptyObject}
  <2>1. r.items = << >>
      BY <1>2 DEF MalformedText, EmptyObject, Json
  <2>. QED  BY <1>1, <2>1
<1>3. CASE r \in {Json("list", w, v) : w \in BOOLEAN, v \in ItemLists}
    BY <1>3 DEF Json, ItemLists
<1>. QED  BY <1>2, <1>3 DEF LLMOutputs

(* _compute_score returns nan or attributed/total with 1 <= total, and    *)
(* attributed <= total.                                                   *)
LEMMA ComputeScoreValid ==
    ASSUME NEW r \in LLMOutputs
    PROVE  /\ r.items \in Seq(ItemKinds)
           /\ ComputeScore(r) \in Scores
           /\ ComputeScore(r) # NaN => ComputeScore(r).num <= ComputeScore(r).den
<1>1. PICK m \in 0..MaxItems : r.items \in [1..m -> ItemKinds]
    BY OutputItems
<1>2. r.items \in Seq(ItemKinds) /\ Len(r.items) = m
    BY <1>1, GWP!FunIsSeq, ContextRecallAssumption
<1>3. /\ AttributedCount(r) \in Nat
      /\ AttributedCount(r) <= m
  <2>1. IsFiniteSet(1..m) /\ Cardinality(1..m) = m
      BY FS_Interval, ContextRecallAssumption
  <2>2. {i \in DOMAIN r.items : r.items[i] = "true"} \in SUBSET (1..m)
      BY <1>1
  <2>. QED  BY <2>1, <2>2, FS_Subset, FS_CardinalityType DEF AttributedCount
<1>. QED  BY <1>2, <1>3 DEF ComputeScore, Scores

-----------------------------------------------------------------------------

(* The inductive invariant.  Beyond the gateway's own, it records that    *)
(* every call of the row asks for n = 1 (so a successful call holds one   *)
(* completion, the one safe_load is given), that safe_load's failure flag *)
(* goes with its failure value until the next load, and that a finished  *)
(* row's score is _compute_score of the value it was given.  The rest of  *)
(* RecallTypeOK rides along.                                               *)
CInv ==
    /\ GWP!GwInv
    /\ gwPhase # "idle" => nReq = 1
    /\ ldText \in LLMOutputs
    /\ ldPhase \in LD!LdPhases /\ ldBudget \in 0..LoaderRetries /\ ldFailed \in BOOLEAN
    /\ response \in LLMOutputs
    /\ loadFailed \in BOOLEAN /\ score \in Scores
    /\ ldFailed => ldText = EmptyObject /\ ldPhase \in {"loaded", "idle"}
    /\ loadFailed => response = EmptyObject
    /\ phase \in Phases
    /\ phase = "done" => score = ComputeScore(response)

(* The completion a successful n = 1 call hands back is a completion text. *)
LEMMA FirstCompletion ==
    ASSUME GWP!GwInv, gwPhase = "ok", nReq = 1
    PROVE  gens[1][1] \in LLMOutputs
<1>1. gens \in Seq(Seq(LLMOutputs)) /\ Len(gens) = 1 /\ Len(gens[1]) = 1
    BY DEF GWP!GwInv, GWP!GwTypeOK, GWP!ResultShape
<1>. QED  BY <1>1

THEOREM CInvInit == Init => CInv
<1> SUFFICES ASSUME Init PROVE CInv
    OBVIOUS
<1>1. GWP!GwInv
    BY GWP!GwInvInit, GatewayInstanceAssumption DEF Init, GW!Init, GWP!Init, GW!NoRequest,
                                                   GWP!NoRequest
<1>2. MalformedText \in LLMOutputs /\ EmptyObject \in LLMOutputs
    BY DEF LLMOutputs
<1>3. 0 \in 0..LoaderRetries /\ NaN \in Scores
    BY ContextRecallAssumption DEF Scores
<1>. QED  BY <1>1, <1>2, <1>3 DEF Init, GW!Init, CInv, Phases, LD!LdPhases

THEOREM CInvStep == CInv /\ [Next]_vars => CInv'
<1> SUFFICES ASSUME CInv, [Next]_vars PROVE CInv'
    OBVIOUS
<1>1. GWP!GwInv'
  <2>1. [GWP!Next]_GWP!gwVars
      BY GatewayStep DEF gwVars, GWP!gwVars
  <2>. QED  BY <2>1, GWP!GwInvStep, GatewayInstanceAssumption DEF CInv
<1> USE ContextRecallAssumption DEF CInv, LD!LdPhases
<1>2. CASE GW!GwStep /\ UNCHANGED <<ldVars, rVars>>
    BY <1>1, <1>2 DEF GW!GwStep, GW!Retry, GW!GiveUp, GW!Return, ldVars, rVars
<1>3. CASE LD!LdStep /\ UNCHANGED rVars
  <2> USE <1>3 DEF rVars
  <2>1. CASE LD!ParseOk
      BY <1>1, <2>1 DEF LD!ParseOk, LD!gwVars
  <2>5. CASE LD!GiveUpLoad
    <3>1. EmptyObject \in LLMOutputs
        BY DEF LLMOutputs
    <3>. QED  BY <1>1, <2>5, <3>1 DEF LD!GiveUpLoad, LD!gwVars
  <2>2. CASE LD!RequestFix
      BY <1>1, <2>2 DEF LD!RequestFix, LD!GW!Request
  <2>3. CASE LD!FixDone
      BY <1>1, <2>3, FirstCompletion DEF LD!FixDone, LD!GW!Consume
  <2>4. CASE LD!FixRaised
      BY <1>1, <2>4 DEF LD!FixRaised, LD!GW!Consume
  <2>. QED  BY <2>1, <2>2, <2>3, <2>4, <2>5 DEF LD!LdStep
<1>4. CASE Start
    BY <1>1, <1>4 DEF Start, GW!Request, ldVars, Phases, Scores
<1>5. CASE Generated
  <2>1. gens[1][1] \in LLMOutputs
      BY <1>5, FirstCompletion DEF Generated
  <2>2. LoaderRetries \in 0..LoaderRetries
      OBVIOUS
  <2>. QED  BY <1>1, <1>5, <2>1, <2>2 DEF Generated, GW!Consume, LD!LoadStart, Phases
<1>6. CASE GenerationRaised
    BY <1>1, <1>6 DEF GenerationRaised, GW!Consume, ldVars, Phases
<1>7. CASE LoaderRaised
    BY <1>1, <1>7 DEF LoaderRaised, LD!LoadTake, gwVars, Phases
<1>8. CASE Scored
    BY <1>1, <1>8, ComputeScoreValid
       DEF Scored, LD!LoadTake, gwVars, Phases
<1>9. CASE NextRow
    BY <1>1, <1>9 DEF NextRow, gwVars, ldVars, Phases
<1>10. CASE UNCHANGED vars
    BY <1>1, <1>10 DEF vars, gwVars, ldVars, rVars
<1>. QED  BY <1>2, <1>3, <1>4, <1>5, <1>6, <1>7, <1>8, <1>9, <1>10 DEF Next

-----------------------------------------------------------------------------

(* The gateway's type invariant, as the metric's instance of it states it. *)
LEMMA GatewayTypeOK == GWP!GwInv => GW!GwTypeOK
BY DEF GWP!GwInv, GWP!GwTypeOK, GW!GwTypeOK, GWP!GwPhases, GW!GwPhases, GWP!Requests,
       GW!Requests, GWP!Temperatures, GW!Temperatures

(* Type correctness of the composed row, for every attempt count, repair *)
(* budget and list length.                                                *)
THEOREM RecallTyping == Spec => []RecallTypeOK
<1>1. CInv => RecallTypeOK
    BY GatewayTypeOK DEF CInv, RecallTypeOK, LD!LdTypeOK, LLMOutputs
<1>. QED  BY <1>1, CInvInit, CInvStep, PTL DEF Spec

(* _ascore scores a finished row as attributed/total of the list it was  *)
(* given (lines 149-156), with at least one item, and as nan for an empty *)
(* list, for every repair budget, attempt count and list length.          *)
THEOREM RecallAttributedFraction == Spec => []RecallScoreIsAttributedFraction
<1>1. CInv => RecallScoreIsAttributedFraction
  <2> SUFFICES ASSUME CInv, phase = "done"
               PROVE  /\ score # NaN => /\ Len(response.items) >= 1
                                        /\ score.den = Len(response.items)
                                        /\ score.num = AttributedCount(response)
                      /\ Len(response.items) = 0 => score = NaN
      BY DEF RecallScoreIsAttributedFraction
  <2>1. score = ComputeScore(response) /\ response.items \in Seq(ItemKinds)
      BY ComputeScoreValid DEF CInv
  <2>. QED  BY <2>1 DEF ComputeScore
<1>. QED  BY <1>1, CInvInit, CInvStep, PTL DEF Spec

(* An output that fails validation, or safe_load's failure value after    *)
(* the repairs, is scored nan (lines 138-147) and never in part, for      *)
(* every repair budget, attempt count and list length.                    *)
THEOREM RecallSafety == Spec => []RecallUndefinedOnBadOutput
<1>1. CInv => RecallUndefinedOnBadOutput
  <2> SUFFICES ASSUME CInv, phase = "done", loadFailed \/ ~ParsesOk(response)
               PROVE  score = NaN
      BY DEF RecallUndefinedOnBadOutput
  <2>1. ~ParsesOk(response)
      BY DEF CInv, ParsesOk, EmptyObject, Json
  <2>. QED  BY <2>1 DEF CInv, ComputeScore
<1>. QED  BY <1>1, CInvInit, CInvStep, PTL DEF Spec

=============================================================================
