-------------------------- MODULE EvalChainProofs --------------------------
(* Proofs about the LangChain evaluator adapter: evaluate is fail-fast for *)
(* every mode and batch length, and __call__ / evaluate_run score a row   *)
(* exactly when it is complete, for the modes without ground_truth.       *)
EXTENDS EvalChain, SequenceTheorems, WellFoundedInduction, TLAPS

(* A non-empty set of row numbers has a least element.                    *)
LEMMA LeastRow ==
    ASSUME NEW T \in SUBSET Nat, T # {}
    PROVE  \E i \in T : \A j \in T : ~(j < i)
<1>1. \E i \in T : \A j \in T : ~(<<j, i>> \in OpToRel(<, Nat))
    BY NatLessThanWellFounded, WFMin
<1>. QED  BY <1>1 DEF OpToRel

(* FirstBadRow names a row whose iteration raises when there is one, and  *)
(* is 0 only when every iteration of evaluate's loop goes through.        *)
LEMMA FirstBadRowSpec ==
    ASSUME NEW m, NEW n \in Nat, NEW b, DOMAIN b = 1..n
    PROVE  /\ FirstBadRow(m, b) = 0 => \A i \in DOMAIN b : RowOutcome(m, b[i]) = "scored"
           /\ FirstBadRow(m, b) # 0 => RowOutcome(m, b[FirstBadRow(m, b)]) # "scored"
<1> DEFINE Bad == {i \in DOMAIN b : RowOutcome(m, b[i]) # "scored"}
<1>1. CASE Bad = {}
    BY <1>1 DEF FirstBadRow
<1>2. CASE Bad # {}
  <2>0. Bad \in SUBSET Nat
      BY DEF Bad
  <2>1. PICK i \in Bad : \A j \in Bad : ~(j < i)
      BY <1>2, <2>0, LeastRow
  <2>2. \A j \in 1..(i - 1) : RowOutcome(m, b[j]) = "scored"
    <3> TAKE j \in 1..(i - 1)
    <3>1. j \in DOMAIN b /\ j < i
        BY DEF Bad
    <3>. QED  BY <2>1, <3>1
  <2>3. \E k \in DOMAIN b : /\ RowOutcome(m, b[k]) # "scored"
                            /\ \A j \in 1..(k - 1) : RowOutcome(m, b[j]) = "scored"
      BY <2>1, <2>2
  <2>4. /\ FirstBadRow(m, b) \in DOMAIN b
        /\ RowOutcome(m, b[FirstBadRow(m, b)]) # "scored"
      BY <1>2, <2>3 DEF FirstBadRow
  <2>. QED  BY <2>4
<1>. QED  BY <1>1, <1>2

(* A function on 1..n is a sequence of length n: a batch is a list.       *)
LEMMA BatchIsSeq ==
    ASSUME NEW S, NEW n \in Nat, NEW f \in [1..n -> S]
    PROVE  f \in Seq(S) /\ Len(f) = n
<1>1. f \in Seq(S)
    BY SeqDef
<1>2. DOMAIN f = 1..Len(f) /\ Len(f) \in Nat
    BY <1>1, LenProperties
<1>. QED  BY <1>1, <1>2

(* A row that goes through evaluate's loop under a mode with contexts    *)
(* holds every key the metric and the chain read.                        *)
LEMMA RowScoredComplete ==
    ASSUME NEW m \in {"qac", "qc"}, NEW x, RowOutcome(m, x) = "scored"
    PROVE  Complete(m, x)
<1>1. CASE m = "qac"
    BY <1>1 DEF RowOutcome, Validate, Complete, EvalModeToColumns, KeyOf
<1>2. CASE m = "qc"
    BY <1>2 DEF RowOutcome, Validate, Complete, EvalModeToColumns, KeyOf
<1>. QED  BY <1>1, <1>2

(* An iteration of evaluate's loop that raises never reaches the metric.  *)
LEMMA RowOutcomeRange ==
    ASSUME NEW m, NEW x
    PROVE  RowOutcome(m, x) \in {"invalid", "keyError", "attrError", "scored"}
BY DEF RowOutcome

(* evaluate reaches the metric only with one prediction per row and every *)
(* row complete.                                                          *)
LEMMA EvaluateReachesMetric ==
    ASSUME NEW m, NEW b \in Batches, NEW nPred,
           ReachedMetric(EvaluateOutcome(m, b, nPred))
    PROVE  /\ nPred = Len(b)
           /\ \A i \in DOMAIN b : Complete(m, b[i])
<1>1. PICK n \in 0..MaxRows : b \in [1..n -> Inputs]
    BY DEF Batches
<1>2. n \in Nat /\ Len(b) = n /\ DOMAIN b = 1..n
    BY <1>1, BatchIsSeq, EvalChainAssumption
<1>3. /\ Len(b) = nPred
      /\ FirstBadRow(m, b) = 0
      /\ DatasetOk(m, b)
  <2>1. FirstBadRow(m, b) # 0 =>
            RowOutcome(m, b[FirstBadRow(m, b)]) \notin {"scored", "metricKeyError"}
      BY <1>2, FirstBadRowSpec, RowOutcomeRange
  <2>. QED  BY <2>1 DEF EvaluateOutcome, ReachedMetric
<1>5. \A i \in DOMAIN b : RowOutcome(m, b[i]) = "scored"
    BY <1>2, <1>3, FirstBadRowSpec
<1>6. CASE n = 0
  <2>1. DOMAIN b = {}
      BY <1>2, <1>6
  <2>. QED  BY <1>2, <1>3, <2>1
<1>7. CASE n # 0
  <2>1. m \in {"qac", "qc"}
      BY <1>2, <1>3, <1>7 DEF DatasetOk
  <2>. QED  BY <1>3, <1>5, <2>1, RowScoredComplete
<1>. QED  BY <1>6, <1>7

(* evaluate is fail-fast (evalchain.py evaluate, 94-133): whatever the    *)
(* mode, the batch and the number of predictions, the metric is reached   *)
(* only after the length check and every row's _validate / key / attribute *)
(* lookup went through, so it only ever scores complete rows.             *)
THEOREM EvalFailFast == Spec => []BatchFailFast
<1>1. Init => BatchFailFast
    BY DEF Init, NoOp, BatchFailFast
<1>2. BatchFailFast /\ [Next]_vars => BatchFailFast'
  <2>. SUFFICES ASSUME BatchFailFast, [Next]_vars PROVE BatchFailFast'
      OBVIOUS
  <2>1. CASE \E x \in Inputs : Call(x)
      BY <2>1 DEF Call, BatchFailFast
  <2>2. CASE \E b \in Batches, nPred \in 0..MaxRows : Evaluate(b, nPred)
    <3>1. PICK b \in Batches, nPred \in 0..MaxRows : Evaluate(b, nPred)
        BY <2>2
    <3>2. /\ op'.kind = "evaluate" /\ op'.batch = b /\ op'.nPred = nPred
          /\ op'.metric = ReachedMetric(EvaluateOutcome(mode, b, nPred))
          /\ mode' = mode
        BY <3>1 DEF Evaluate
    <3>3. op'.metric => /\ nPred = Len(b)
                        /\ \A i \in DOMAIN b : Complete(mode, b[i])
        BY <3>2, EvaluateReachesMetric
    <3>. QED  BY <3>2, <3>3 DEF BatchFailFast
  <2>3. CASE \E x \in Inputs, h \in BOOLEAN : EvaluateRun(x, h)
      BY <2>3 DEF EvaluateRun, BatchFailFast
  <2>4. CASE UNCHANGED vars
      BY <2>4 DEF vars, BatchFailFast
  <2>. QED  BY <2>1, <2>2, <2>3, <2>4 DEF Next
<1>. QED  BY <1>1, <1>2, PTL DEF Spec

(* For a metric without ground_truth, __call__'s input_keys and _validate *)
(* ask for exactly the keys the metric reads.                             *)
LEMMA CallScoredIffCompleteRow ==
    ASSUME NEW m \in {"qac", "qa", "qc"}, NEW x
    PROVE  (CallOutcome(m, x) = "scored") <=> Complete(m, x)
<1>1. CASE m = "qac"
    BY <1>1 DEF CallOutcome, InputKeysOf, Validate, MetricOutcome, CallRow,
                Complete, EvalModeToColumns, KeyOf
<1>2. CASE m = "qa"
    BY <1>2 DEF CallOutcome, InputKeysOf, Validate, MetricOutcome, CallRow,
                Complete, EvalModeToColumns, KeyOf
<1>3. CASE m = "qc"
    BY <1>3 DEF CallOutcome, InputKeysOf, Validate, MetricOutcome, CallRow,
                Complete, EvalModeToColumns, KeyOf
<1>. QED  BY <1>1, <1>2, <1>3

(* CallScoresIffComplete restricted to the modes it holds for: with qac, *)
(* qa or qc, _call (evalchain.py 37-66) and evaluate_run (135-149)        *)
(* score a row exactly when it holds every key the metric reads.  With    *)
(* ground_truth in the mode it fails (run eval_chain_qcg).                *)
CallInv == mode \in {"qac", "qa", "qc"} => CallScoresIffComplete

THEOREM CallScoresIffCompleteNoGroundTruth ==
    Spec => [](mode \in {"qac", "qa", "qc"} => CallScoresIffComplete)
<1>1. Init => CallInv
    BY DEF Init, NoOp, CallInv, CallScoresIffComplete
<1>2. CallInv /\ [Next]_vars => CallInv'
  <2>. SUFFICES ASSUME CallInv, [Next]_vars, mode' \in {"qac", "qa", "qc"}
                PROVE  CallScoresIffComplete'
      BY DEF CallInv
  <2>1. CASE \E x \in Inputs : Call(x)
    <3>1. PICK x \in Inputs : Call(x)
        BY <2>1
    <3>2. /\ op'.kind = "call" /\ op'.batch = <<x>>
          /\ op'.outcome = CallOutcome(mode, x) /\ mode' = mode
        BY <3>1 DEF Call
    <3>. QED  BY <3>2, CallScoredIffCompleteRow DEF CallScoresIffComplete
  <2>2. CASE \E b \in Batches, nPred \in 0..MaxRows : Evaluate(b, nPred)
      BY <2>2 DEF Evaluate, CallScoresIffComplete
  <2>3. CASE \E x \in Inputs, h \in BOOLEAN : EvaluateRun(x, h)
    <3>1. PICK x \in Inputs, h \in BOOLEAN : EvaluateRun(x, h)
        BY <2>3
    <3> DEFINE y == [x EXCEPT !.keys = @ \cup {"query"}]
    <3>2. CASE h
      <4>1. /\ op'.kind = "run" /\ op'.batch = <<y>>
            /\ op'.outcome = CallOutcome(mode, y) /\ mode' = mode
          BY <3>1, <3>2 DEF EvaluateRun
      <4>. QED  BY <4>1, CallScoredIffCompleteRow DEF CallScoresIffComplete
    <3>3. CASE ~h
      <4>1. op'.batch = << >>
          BY <3>1, <3>3 DEF EvaluateRun
      <4>. QED  BY <4>1 DEF CallScoresIffComplete
    <3>. QED  BY <3>2, <3>3
  <2>4. CASE UNCHANGED vars
      BY <2>4 DEF vars, CallInv, CallScoresIffComplete
  <2>. QED  BY <2>1, <2>2, <2>3, <2>4 DEF Next
<1>. QED  BY <1>1, <1>2, PTL DEF Spec, CallInv

=============================================================================
