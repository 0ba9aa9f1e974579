------------------------------ MODULE EvalChain ------------------------------
(***************************************************************************)
(* The LangChain evaluator adapter RagasEvaluatorChain of                  *)
(* src/ragas/langchain/evalchain.py: a single-row score through Chain's    *)
(* __call__ (input_keys, _validate, _call), a batch score through          *)
(* evaluate, and evaluate_run on a LangSmith run.                          *)
(*                                                                         *)
(* An input is abstracted to the keys it holds and to the kind of its      *)
(* source documents (Document objects or plain dicts).  The metric is     *)
(* abstracted to the row keys its _ascore reads: it returns a score when  *)
(* they are all present and raises KeyError otherwise (what the metric    *)
(* does with the row is the subject of Faithfulness and ContextRecall).   *)
(***************************************************************************)
EXTENDS Naturals, Sequences

CONSTANTS
    Modes,    \* the evaluation modes of the metric the chain wraps
    MaxRows   \* the longest batch given to evaluate

ASSUME EvalChainAssumption ==
    /\ Modes \subseteq {"qac", "qa", "qc", "gc", "ga", "qga", "qcg"}
    /\ MaxRows \in Nat

VARIABLES
    mode,  \* self.metric.evaluation_mode, fixed when the chain is built
    op     \* the last operation: its kind, inputs, outcome, metric reached

vars == <<mode, op>>

(* ragas.validation.EVALMODE_TO_COLUMNS (not under src/; spec 4.4).        *)
EvalModeToColumns(m) ==
    CASE m = "qac" -> {"question", "answer", "contexts"}
      [] m = "qa"  -> {"question", "answer"}
      [] m = "qc"  -> {"question", "contexts"}
      [] m = "gc"  -> {"ground_truth", "contexts"}
      [] m = "ga"  -> {"ground_truth", "answer"}
      [] m = "qga" -> {"question", "ground_truth", "answer"}
      [] m = "qcg" -> {"question", "contexts", "ground_truth"}

(* The adapter's default key for each column.                             *)
KeyOf(c) ==
    CASE c = "question" -> "query"
      [] c = "answer" -> "result"
      [] c = "contexts" -> "source_documents"
      [] c = "ground_truth" -> "ground_truth"

InputKeys == {"query", "result", "source_documents", "ground_truth"}

(* Document kinds matter only when source_documents is present.           *)
Inputs ==
    {[keys |-> k, docs |-> "object"] : k \in SUBSET InputKeys}
    \cup {[keys |-> k, docs |-> "dict"] : k \in {s \in SUBSET InputKeys : "source_documents" \in s}}

Batches == UNION {[1..n -> Inputs] : n \in 0..MaxRows}

Outcomes == {"scored", "metricKeyError", "invalid", "keyError", "attrError",
             "datasetError", "indexError"}

(* input_keys: query and result, and source_documents for qac and qc.      *)
InputKeysOf(m) ==
    {"query", "result"} \cup IF m \in {"qac", "qc"} THEN {"source_documents"} ELSE {}

(* _validate: question, answer and contexts are checked against the mode; *)
(* ground_truth is not.                                                   *)
Validate(m, keys) ==
    \A c \in EvalModeToColumns(m) \ {"ground_truth"} : KeyOf(c) \in keys

(* score_single / score: the metric reads the columns of its mode.        *)
MetricOutcome(m, rowKeys) ==
    IF EvalModeToColumns(m) \subseteq rowKeys THEN "scored" ELSE "metricKeyError"

(* The row _call builds: question, answer, and contexts (empty when no    *)
(* source_documents were given).                                          *)
CallRow == {"question", "answer", "contexts"}

(* Mutant of CallOutcome: only Document objects are read (the dict branch *)
(* of lines 51-52 missing).                                               *)
CallObjectDocsOnly(m, x) ==
    CASE ~(InputKeysOf(m) \subseteq x.keys) -> "invalid"
      [] ~Validate(m, x.keys) -> "invalid"
      [] "source_documents" \in x.keys /\ x.docs = "dict" -> "attrError"
      [] OTHER -> MetricOutcome(m, CallRow)

(* Chain.__call__: LangChain rejects missing input_keys with ValueError,   *)
(* then _call validates and hands the row to the metric; dict documents   *)
(* are read through ["page_content"], objects through .page_content.      *)
CallOutcome(m, x) ==
    CASE ~(InputKeysOf(m) \subseteq x.keys) -> "invalid"
      [] ~Validate(m, x.keys) -> "invalid"
      [] OTHER -> MetricOutcome(m, CallRow)

(* One iteration of evaluate's loop: _validate on the merged row, then    *)
(* example[question_key], predictions[i][prediction_key], and for qac/qc  *)
(* d.page_content on every document.                                      *)
RowOutcome(m, x) ==
    CASE ~Validate(m, x.keys) -> "invalid"
      [] "query" \notin x.keys \/ "result" \notin x.keys -> "keyError"
      [] m \in {"qac", "qc"} /\ x.docs = "dict" -> "attrError"
      [] OTHER -> "scored"

(* The index of the first row whose iteration raises, or 0.                *)
FirstBadRow(m, b) ==
    IF \E i \in DOMAIN b : RowOutcome(m, b[i]) # "scored"
    THEN CHOOSE i \in DOMAIN b : /\ RowOutcome(m, b[i]) # "scored"
                                 /\ \A j \in 1..(i - 1) : RowOutcome(m, b[j]) = "scored"
    ELSE 0

(* Dataset.from_dict: the contexts column is filled only for qac and qc;  *)
(* columns of unequal length are rejected.                                *)
DatasetOk(m, b) == m \in {"qac", "qc"} \/ Len(b) = 0

(* Mutant of EvaluateOutcome: the row-count check of lines 108-112 left   *)
(* out; predictions[i] past the end raises IndexError, extra ones are    *)
(* ignored.                                                               *)
EvaluateNoLengthCheck(m, b, nPred) ==
    CASE nPred < Len(b) -> "indexError"
      [] FirstBadRow(m, b) # 0 -> RowOutcome(m, b[FirstBadRow(m, b)])
      [] ~DatasetOk(m, b) -> "datasetError"
      [] OTHER -> MetricOutcome(m, CallRow)

(* evaluate: the row counts, then every row, then the Dataset, and only   *)
(* then metric.score on the whole batch.                                  *)
EvaluateOutcome(m, b, nPred) ==
    CASE Len(b) # nPred -> "invalid"
      [] FirstBadRow(m, b) # 0 -> RowOutcome(m, b[FirstBadRow(m, b)])
      [] ~DatasetOk(m, b) -> "datasetError"
      [] OTHER -> MetricOutcome(m, CallRow)

(* Did the operation get as far as the metric?                            *)
ReachedMetric(o) == o \in {"scored", "metricKeyError"}

NoOp == [kind |-> "none", batch |-> << >>, nPred |-> 0,
         outcome |-> "scored", metric |-> FALSE]

-----------------------------------------------------------------------------

Init ==
    /\ mode \in Modes
    /\ op = NoOp

(* A caller scores one row: chain(inputs).                                *)
Call(x) ==
    LET o == CallOutcome(mode, x)
    IN  /\ op' = [kind |-> "call", batch |-> <<x>>, nPred |-> 1, outcome |-> o,
                  metric |-> ReachedMetric(o)]
        /\ UNCHANGED mode

(* A caller scores a batch: chain.evaluate(examples, predictions), the     *)
(* merged example and prediction of row i being b[i].                      *)
Evaluate(b, nPred) ==
    LET o == EvaluateOutcome(mode, b, nPred)
    IN  /\ op' = [kind |-> "evaluate", batch |-> b, nPred |-> nPred, outcome |-> o,
                  metric |-> ReachedMetric(o)]
        /\ UNCHANGED mode

(* LangSmith calls evaluate_run: outputs None raises; otherwise the run's *)
(* query is copied into its outputs and the chain is called on them.      *)
EvaluateRun(x, hasOutputs) ==
    LET y == [x EXCEPT !.keys = @ \cup {"query"}]
        o == IF hasOutputs THEN CallOutcome(mode, y) ELSE "invalid"
    IN  /\ op' = [kind |-> "run", batch |-> IF hasOutputs THEN <<y>> ELSE << >>,
                  nPred |-> 1, outcome |-> o,
                  metric |-> ReachedMetric(o)]
        /\ UNCHANGED mode

Next ==
    \/ \E x \in Inputs : Call(x)
    \/ \E b \in Batches, nPred \in 0..MaxRows : Evaluate(b, nPred)
    \/ \E x \in Inputs, h \in BOOLEAN : EvaluateRun(x, h)

Spec == Init /\ [][Next]_vars

-----------------------------------------------------------------------------

(* A row holds what the adapter's interface (spec 5, query and result)    *)
(* and the metric's evaluation mode require.                              *)
Complete(m, x) ==
    {"query", "result"} \cup {KeyOf(c) : c \in EvalModeToColumns(m)} \subseteq x.keys

(* Spec 4.4 and 5: through __call__ or evaluate_run, a row is scored      *)
(* exactly when it holds every field the metric's evaluation mode needs;  *)
(* the fields _call forwards and the ones _validate checks must agree     *)
(* with the mode, for Document objects and dicts alike.                   *)
CallScoresIffComplete ==
    op.kind \in {"call", "run"} /\ op.batch # << >> =>
        ((op.outcome = "scored") <=> Complete(mode, op.batch[1]))

(* Spec 6 and 8: evaluate is fail-fast for the whole batch: the metric,   *)
(* and so any model call, is reached only when the example and           *)
(* prediction counts agree and every row is complete.                     *)
BatchFailFast ==
    op.kind = "evaluate" /\ op.metric =>
        /\ op.nPred = Len(op.batch)
        /\ \A i \in DOMAIN op.batch : Complete(mode, op.batch[i])

(* Spec 5: the batch entry point and the single-row one are two doors to  *)
(* the same scoring: a one-row batch is scored exactly when the same row  *)
(* is scored by __call__.                                                 *)
EvaluateAgreesWithCall ==
    \A x \in Inputs :
        (EvaluateOutcome(mode, <<x>>, 1) = "scored") <=> (CallOutcome(mode, x) = "scored")

=============================================================================
