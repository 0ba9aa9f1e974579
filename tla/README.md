# Formal models of the ragas evaluation core

This directory holds TLA+ models of the LLM invocation and structured-output
core of `src/src/ragas`. Each model is written from the code. TLC configurations check
the models on small instances. TLAPS proofs cover, for every value of the
constants, the gateway's typing and result shape, the two composed metrics'
typing and score invariants, and the evaluator adapter's fail-fast and
completeness properties.

## Inventory of the system

| Part (spec §2) | Source | What changes state |
|---|---|---|
| Language Model Gateway | `llms/base.py` | `generate` dispatches to `generate_text` / `agenerate_text`. Each runs under `@retry(stop=stop_after_attempt(6))`. It builds the provider request from `n` and `get_temperature(n)`. A provider without native n-completion gets `[prompt]*n`, and its result is re-packed into one outer list (lines 137-141). |
| Structured Output Loader | `json_loader.safe_load` (not under `src/`) | It parses JSON out of a completion. On failure it makes bounded repair calls back through the gateway, then returns a failure value (`{}`). |
| Metric Engine: Faithfulness | `metrics/_faithfulness.py` | Two chained gateway calls, each followed by `safe_load`. The step between them substitutes the `Nil` sentinel. The verdict map and the score end the row. |
| Metric Engine: Context Recall | `metrics/_context_recall.py` | One gateway call, then `safe_load`, then pydantic validation in `_compute_score`. |
| Token/Cost Accounting | `llms/cost.py` | `TokenUsage.__add__`, `parse_llm_result` and `CostCallbackHandler.on_llm_end`. |
| Evaluator adapter | `langchain/evalchain.py` | `_validate`, `_call` and `evaluate` map LangChain inputs to a metric row. |
| Metric registry | `metrics/__init__.py` | Import-time lists only. |
| Prompt Value, Run Configuration | not under `src/` | These are outside the repository's source. |

The parts interact like this. A metric calls the gateway. The gateway may retry
up to six times. The metric hands the first completion to `safe_load`. That
loader may call the gateway again to repair malformed JSON, and each repair call
has six attempts of its own. The metric then scores the loaded value. The
provider calls the cost handler back with every raw result.

The behaviours that are hard to test are these:

- the two bounded loops nest, retries inside repairs;
- a failure can surface at any of the four calls of a faithfulness row;
- JSON of an unexpected *shape* reaches code that calls `.get` and `.lower` on it;
- the loader's failure value `{}` is a legal JSON value;
- nan and an empty denominator are numeric edges of the scores.

## Modules

| Module | Models | State ↔ code |
|---|---|---|
| `Gateway` | `base.py` | `gwPhase` is idle, busy (an attempt in flight), ok or failed. `attempt` is tenacity's attempt number. `req` is the `generate_prompt` arguments. `gens` is `LLMResult.generations`. `llmMulti` is `is_multiple_completion_supported`, fixed at Init. Actions: `Request(n)` (the caller), `Retry`, `GiveUp`, `Return` (with `Repack` on the non-native path) and `Consume`. |
| `SafeLoad` | spec §4.3 (spec-modelled) | `ldPhase`, the text, the repair budget and a flag for "returned the failure value". `RequestFix` and `FixDone` go through `GW!Request` / `GW!Consume`. |
| `Faithfulness` | `Faithfulness.ascore` | `phase` follows lines 146-184. `stmtsSent` is the number of statements the verification prompt lists after the Nil substitution. `verdicts` and `score` record the result. Each metric step is conjoined with the gateway or loader step it triggers. `GW!GwStep` and `LD!LdStep` interleave freely with the metric's own steps. |
| `ContextRecall` | `ContextRecall._ascore`, `_compute_score` | The same composition. `response` is the value given to `_compute_score`. |
| `EvalChain` | `evalchain.py` | `mode` is the wrapped metric's evaluation mode, fixed at construction. `op` records the last operation: its kind (call, evaluate, run), its rows, the number of predictions, the outcome (scored, a ValueError, a KeyError, an AttributeError, a Dataset error, an IndexError, or a KeyError inside the metric) and whether the metric was reached. An input is abstracted to its set of keys and the kind of its documents (objects or dicts). Actions: `Call(x)` (LangChain's input-key check, `_validate`, `_call`), `Evaluate(b, nPred)`, `EvaluateRun(x, hasOutputs)`. |
| `Cost` | `cost.py` | `usageData` is the handler's list. `lastResult` and `lastParsed` are the last result called back and what `parse_llm_result` makes of it. `ParseLLMResult` is a fold (`FoldLeft`) of `TokenAdd` over the per-completion metadata. |
| `GatewayProofs` | — | TLAPS proofs about `Gateway`. |
| `ContextRecallProofs`, `FaithfulnessProofs` | — | TLAPS proofs about the composed metrics. |
| `EvalChainProofs` | — | TLAPS proofs about `EvalChain`. |
| `MC*` | — | TLC instances. |

Data is abstracted as follows:

- A completion is abstracted to the JSON value it parses to: no JSON, an object, a verdict array, or a classification list.
- An object's `statements` value is absent, a list of some length, another iterable of some length (a string or an object: it compares unequal to `[]` and `enumerate` walks its characters or keys), or a scalar (null, a number, a boolean: `enumerate` raises TypeError). The test `statements != []` (line 157) substitutes `Nil` only for the empty list.
- A verdict entry is `yes`, `no`, `other` (mapped to nan) or `bad` (a non-dict or a non-string verdict, so `.get` or `.lower` raises).
- A classification item is `true`, `false` or `invalid`.
- A score is `NaN` (a model value) or a record `[num, den]`, so no rounding enters.
- Prompts, wording and logging are left out.

## Runs

| Run | Checks | Shows |
|---|---|---|
| `gateway` (MCGateway.cfg, 258 states) | `GwTypeOK`, `ResultShape` | A successful call holds exactly one list of `n` completions whatever the provider's capability, for n in 0..3. The attempt count stays within `stop_after_attempt(6)`. |
| `faithfulness` (MCFaithfulness.cfg, `FairSpec`) | `FaithTypeOK`, `ScoreIsYesFraction`, `RowTerminates` | The score is the yes-fraction of the verdicts, and nan for none. Every row ends, under weak fairness. |
| `faithfulness_empty_statements` | `VerificationNeverEmpty` | Violation: an extraction whose `statements` value is `""` or `{}` passes `statements != []` (line 157), and the verification call is made on zero statements. Spec 4.4 step 1 says the Nil sentinel replaces zero statements. |
| `faithfulness_unrecognized_verdict` | `UnrecognizedVerdictCountsZero` | Violation: one unrecognized verdict makes the row nan (`_faithfulness.py:175`). The spec says it counts 0. |
| `faithfulness_extraction_failure` | `ExtractionFailureUndefined` | Violation: failed extraction becomes the verified `Nil` statement and gets a defined score. |
| `faithfulness_malformed_raises` | `MalformedOutputNeverRaises` | Violation: an array of statements, or a non-dict verdict entry, raises AttributeError; a null `statements` value raises TypeError at `enumerate` (line 159). |
| `context_recall` (MCContextRecall.cfg) | `RecallTypeOK`, `RecallScoreIsAttributedFraction`, `RecallUndefinedOnBadOutput` | The score is the attributed fraction of a validated list. It is nan on a validation failure, an empty list or the loader's failure value. |
| `eval_chain` (MCEvalChain.cfg, modes qac, qa, qc) | `CallScoresIffComplete`, `BatchFailFast` | Through `__call__` and `evaluate_run`, a row is scored exactly when it holds query, result and the mode's columns. `evaluate` reaches the metric only when the counts agree and every row is complete. |
| `eval_chain_qcg` (mode qcg) | `CallScoresIffComplete` | Violation: for a qcg metric (context recall) `ground_truth` is never forwarded by `_call` nor checked by `_validate` (`evalchain.py:29`, 58-65). Every input ends in a KeyError inside the metric. |
| `eval_chain_agree` | `EvaluateAgreesWithCall` | Violation: `evaluate` reads `d.page_content`, so dict documents that `_call` accepts raise AttributeError (`evalchain.py:122`). For qa it leaves the contexts column empty and `Dataset.from_dict` rejects the unequal columns. |
| `cost` (MCCost.cfg) | `CostTypeOK`, `ParseMatchesReference` | `parse_llm_result` equals the spec's sum over every completion of every prompt execution, for every result shape the gateway can produce with n ≤ 2. |
| `cost_same_model_sum` | `SameModelSumDefined` | Violation: `__add__` drops the model, so the third same-model addition raises. |

Each property of a passing run has a mutant listed in `PROJECT.json`. A mutant
is a plausible slip in the code, such as:

- an unbounded retry;
- a missing re-pack;
- a "no" verdict counted as -1;
- no empty check;
- a repair budget that is never decremented;
- scanning only the first prompt execution;
- a validation that skips invalid items instead of rejecting the list;
- `_call` reading only Document objects;
- `evaluate` without its row-count check.

TLC finds each one.

**Bounds.**

- `MaxAttempts = 6` is the code's own value, so the give-up edge is the real one.
- The gateway checks `n ∈ 0..3`, which covers the n = 0 edge and the native vs. re-packed paths.
- `LoaderRetries = 1` is enough for a repair to succeed, to fail, or to raise. The faithfulness and context-recall properties, `FInv` and `CInv` were also run with `LoaderRetries = 0` and `2`: the budget-0 case is where the loader gives up without any repair.
- Statement values (lists and other iterables) and verdict lists go up to length 2. That gives an empty list, a single item and a mix (yes plus other, yes plus bad).
- Classification lists go up to length 2 for the same reason.
- The cost results cover every shape of at most two completions.
- Verdict kinds and item kinds are symbolic, so no case is missing.
- `EvalChain` enumerates every subset of the four input keys, with both document kinds. Batches go up to 2 rows with 0..2 predictions, which covers a short, an equal and a long predictions list, and a bad second row after a good first one.

**Fairness.** `FairSpec` assumes `WF_vars(Next)`. A row is one coroutine that runs
each step as soon as it can. The assumption asks that the provider, eventually,
answers or raises every request. The code's only waits are the retry backoff
(bounded, at most 60 s) and the provider call. Nothing in the code waits on
another row.

## Proofs

`GatewayProofs` proves two theorems for every `Outputs`, `MaxAttempts ≥ 1`
and `MaxN ∈ Nat`:

- `GatewayTyping`: `Spec => []GwTypeOK`;
- `GatewayResultShape`: `Spec => []ResultShape`.

The invariants are not inductive on their own. `Return` builds `gens` from
`req`, so the step needs `req = ProviderRequest(llmMulti, nReq)` whenever a call
is in flight. `GwInv` adds this fact, and that an open call has made at least
one attempt (`attempt ∈ 1..MaxAttempts`), to the two invariants.
Each theorem is `GwInvInit`, `GwInvStep`, the fact that `GwInv` implies the
property, and PTL.

The step proof uses three lemmas:

- `FunIsSeq`: a function on `1..n` is a sequence of length `n`;
- `RequestType`: `ProviderRequest` is a well-formed request;
- `ReturnShape`: both the native result and the re-packed result have one outer list of `n` completions.

`GwInvStep` has one case per action.

`ContextRecallProofs` and `FaithfulnessProofs` prove, for every attempt cap,
repair budget and list length allowed by the modules' assumptions:

- `RecallTyping`: `Spec => []RecallTypeOK`;
- `RecallAttributedFraction`: `Spec => []RecallScoreIsAttributedFraction`;
- `RecallSafety`: `Spec => []RecallUndefinedOnBadOutput`;
- `FaithTyping`: `Spec => []FaithTypeOK`;
- `FaithScoreYesFraction`: `Spec => []ScoreIsYesFraction`.

Both modules instantiate `GatewayProofs` with the metric's outputs and `MaxN = 1`.
The lemma `GatewayStep` shows that every metric step is a gateway step or leaves
the gateway alone. So the gateway's own `GwInvInit` and `GwInvStep` carry over,
and `GatewayTypeOK` turns the instance's `GwInv` into the gateway typing the
metric's type invariant contains.

The invariants (`CInv`, `FInv`) add these facts to `GwInv`:

- every request of the row asks for n = 1, so a successful call holds one completion, and `generations[0][0]` is a completion text (`FirstCompletion`);
- the type of the loader's and the metric's own variables;
- safe_load's current value is a completion text;
- for context recall, the failure flag goes with the failure value `{}` until the next load;
- what a finished row has fixed: `score = ComputeScore(response)` or `score = FaithScore(verdicts)`.

The score properties need the last fact: without it, a step cannot tell where
the score came from. `CInv` and `FInv` were checked by TLC as invariants of the
instances of the `context_recall` and `faithfulness` runs before they were proved.

The lemmas `ComputeScoreValid` and `FaithScoreValid` give the type of a
computed score: the count of attributed items (or yes verdicts) is the size of a
subset of `1..m`, so it is a natural number at most `m`. This uses `FS_Subset`
and `FS_Interval`.

No theorem states `VerificationNeverEmpty`: the `faithfulness_empty_statements`
run shows it is false of the code.

`EvalChainProofs` proves, for every set of modes and every `MaxRows`:

- `EvalFailFast`: `Spec => []BatchFailFast`;
- `CallScoresIffCompleteNoGroundTruth`: `Spec => [](mode ∈ {"qac", "qa", "qc"} => CallScoresIffComplete)`.

`EvalChain` needs no strengthening: every step sets `op` completely and keeps
`mode`, so each property follows from the step that wrote `op`. The work is in
the lemmas. `FirstBadRowSpec` says that `FirstBadRow` is 0 exactly when every
row goes through the loop, and otherwise names a row that raises. It rests on
`LeastRow` (a non-empty set of naturals has a least element), taken from
`WFMin` and `NatLessThanWellFounded` of `WellFoundedInduction`.
`EvaluateReachesMetric` then shows that an outcome reaching the metric passed
the length check and every row check, and that a non-empty batch passed the
dataset check only for a mode with contexts. `EvaluateOutcome` is a `CASE`
whose guards can hold together, so the proof shows that none of the guards
holds; it does not depend on the order of the arms. `CallScoresIffComplete`
is proved only for the modes without ground_truth: for `qcg` it is false, and
the `eval_chain_qcg` run shows a counterexample.

TLC alone checks these:

- the liveness property `RowTerminates`: liveness and `ENABLED` are beyond the prover;
- the cost module (`CostTypeOK`, `ParseMatchesReference`): its fold is `FoldLeft`, a RECURSIVE operator of the community library, and a module that reaches a RECURSIVE operator loses the SMT backend;
- the violation runs (`eval_chain_qcg`, `eval_chain_agree`, `cost_same_model_sum` and the `faithfulness_*` violation runs): they exhibit behaviours of the code that break a stated property, which is what TLC's counterexamples are for.

Induction over data is also beyond the installed provers. No theorem here needs it.

## Not modelled

- Prompt rendering and adaptation caching: file I/O and text.
- The Run Configuration: it is not in `src/`, and its retry count is the constant `MaxAttempts`.
- The metric registry: it has no runtime state.
- `TokenUsage.cost` and `__eq__`: pure arithmetic.
- Backoff delays: they only delay steps.
- `CostCallbackHandler.on_llm_end` is a bare `pass` (`cost.py:95`), so `usage_data` stays empty; the model keeps it `UNCHANGED`, and the spec's running total (spec 4.5) does not exist in the code.
- The evaluator adapter's `output_keys` and the result dictionary: they only format names. `metric.score` over a Dataset is abstracted to the columns the mode reads.

## Plan

1. The `agenerate_text` / `generate(is_async=False)` paths as concurrent rows sharing the cost handler, once the handler records usage.
2. `EvalChain` composed with `ContextRecall`, so that the KeyError of a qcg row is a step of the metric rather than an outcome.
