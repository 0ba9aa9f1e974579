-------------------------------- MODULE Cost --------------------------------
(***************************************************************************)
(* Token accounting of src/ragas/llms/cost.py: TokenUsage.__add__ (14-21), *)
(* parse_llm_result (52-86) and the CostCallbackHandler (89-98) that the  *)
(* provider calls back with every LLMResult the gateway obtains.          *)
(*                                                                         *)
(* An LLMResult is abstracted to its llm_output (None, {}, or a block     *)
(* whose token_usage counts are read with get_from_dict and default 0)    *)
(* and its generations: one list per prompt execution, each completion    *)
(* being a ChatGeneration or not, with or without response_metadata, and  *)
(* carrying the usage that metadata reports.                              *)
(***************************************************************************)
EXTENDS Naturals, Sequences, SequencesExt

CONSTANTS
    Models,   \* model names a TokenUsage can carry
    NoModel,  \* model=None
    MaxTok    \* the largest token count one completion reports

ASSUME CostAssumption ==
    /\ NoModel \notin Models
    /\ MaxTok \in Nat

VARIABLES
    usageData,   \* CostCallbackHandler.usage_data
    lastResult,  \* the last LLMResult on_llm_end was called with
    lastParsed   \* parse_llm_result of it

vars == <<usageData, lastResult, lastParsed>>

Tok == 0..MaxTok

TokenUsage(i, o, m) == [input_tokens |-> i, output_tokens |-> o, model |-> m]

Usages == [input_tokens : Nat, output_tokens : Nat, model : Models \cup {NoModel}]

(* The ValueError of __add__, as a usage marked by its model field; it    *)
(* leaves sum() at once.                                                  *)
AddError == TokenUsage(0, 0, "ValueError")

(* TokenUsage.__add__: same model (or both None) adds the counts; the sum *)
(* is built without a model, so it is None whatever the operands carry.   *)
TokenAdd(x, y) ==
    IF x.model # "ValueError" /\ x.model = y.model
    THEN TokenUsage(x.input_tokens + y.input_tokens,
                    x.output_tokens + y.output_tokens, NoModel)
    ELSE AddError

Generations ==
    [chat : BOOLEAN, meta : BOOLEAN, input : Tok, output : Tok]

(* llm_output: None, {}, or a dict whose token_usage counts get_from_dict *)
(* reads (a missing key reads as 0).                                      *)
LLMOutput(kind, c, i) == [kind |-> kind, completion_tokens |-> c, input_tokens |-> i]

LLMOutputs ==
    {LLMOutput("none", 0, 0), LLMOutput("empty", 0, 0)}
    \cup {LLMOutput("block", c, i) : c, i \in Tok}

(* The shapes a provider answers with: one prompt with up to two samples  *)
(* (native n), or up to two prompts with one sample each.                 *)
LLMResults ==
    [llm_output : LLMOutputs,
     generations : {<< >>} \cup [1..1 -> [1..1 -> Generations]]
                           \cup [1..1 -> [1..2 -> Generations]]
                           \cup [1..2 -> [1..1 -> Generations]]]

NoResult == [llm_output |-> LLMOutput("none", 0, 0), generations |-> << >>]

(* The TokenUsage appended for each ChatGeneration whose metadata is not  *)
(* empty, in the order of the two loops of lines 63-64.                   *)
MetaUsages(gs) ==
    LET flat == SelectSeq(FlattenSeq(gs), LAMBDA g : g.chat /\ g.meta)
    IN [i \in DOMAIN flat |-> TokenUsage(flat[i].input, flat[i].output, NoModel)]

(* Mutant of ParseLLMResult: the list is returned without summing it.     *)
ParseNoSum(r) ==
    CASE r.llm_output.kind = "none" -> TokenUsage(0, 0, NoModel)
      [] r.llm_output.kind = "empty" -> MetaUsages(r.generations)
      [] OTHER ->
             TokenUsage(r.llm_output.input_tokens, r.llm_output.completion_tokens, NoModel)

(* Mutant of ParseLLMResult: only the first prompt execution is scanned.  *)
ParseFirstOnly(r) ==
    CASE r.llm_output.kind = "none" -> TokenUsage(0, 0, NoModel)
      [] r.llm_output.kind = "empty" ->
             FoldLeft(TokenAdd, TokenUsage(0, 0, NoModel),
                      MetaUsages([i \in 1..Len(r.generations) \cap {1} |-> r.generations[i]]))
      [] OTHER ->
             TokenUsage(r.llm_output.input_tokens, r.llm_output.completion_tokens, NoModel)

(* parse_llm_result: zero usage when llm_output is None; when it is {},   *)
(* sum(token_usages, TokenUsage(0, 0)) over the per-completion metadata;  *)
(* else the aggregate block's counts.                                     *)
ParseLLMResult(r) ==
    CASE r.llm_output.kind = "none" -> TokenUsage(0, 0, NoModel)
      [] r.llm_output.kind = "empty" ->
             FoldLeft(TokenAdd, TokenUsage(0, 0, NoModel), MetaUsages(r.generations))
      [] OTHER ->
             TokenUsage(r.llm_output.input_tokens, r.llm_output.completion_tokens, NoModel)

-----------------------------------------------------------------------------

Init ==
    /\ usageData = << >>
    /\ lastResult = NoResult
    /\ lastParsed = TokenUsage(0, 0, NoModel)

(* The provider reports a finished generate_prompt call to the handler:   *)
(* on_llm_end is `pass`, so usage_data is left as it is.  lastParsed is   *)
(* what llm_result_parser would make of the result.                       *)
OnLLMEnd(r) ==
    /\ lastResult' = r
    /\ lastParsed' = ParseLLMResult(r)
    /\ UNCHANGED usageData

Next == \E r \in LLMResults : OnLLMEnd(r)

Spec == Init /\ [][Next]_vars

-----------------------------------------------------------------------------

CostTypeOK ==
    /\ usageData \in Seq(Usages)
    /\ lastResult \in LLMResults \cup {NoResult}
    /\ lastParsed \in Usages

(* Spec 4.5 (b): without an aggregate block, the usage is the sum of the  *)
(* metadata of every completion of every prompt execution (the repeated   *)
(* prompts of a provider without native n included), computed with the   *)
(* model-less additions of line 84 that never raise.                      *)
ParseMatchesReference ==
    lastResult.llm_output.kind = "empty" =>
        LET flat == FlattenSeq(lastResult.generations)
            counted(i) == flat[i].chat /\ flat[i].meta
        IN  lastParsed =
              TokenUsage(SumFunction([i \in DOMAIN flat |->
                                        IF counted(i) THEN flat[i].input ELSE 0]),
                         SumFunction([i \in DOMAIN flat |->
                                        IF counted(i) THEN flat[i].output ELSE 0]),
                         NoModel)

(* Spec 3 and 8: TokenUsage addition is associative for usages of one     *)
(* model, so a running total of same-model usages can always be formed:   *)
(* the last parsed counts, tagged with a model, added three times.        *)
SameModelSumDefined ==
    \A m \in Models :
        LET u == TokenUsage(lastParsed.input_tokens, lastParsed.output_tokens, m)
        IN  TokenAdd(TokenAdd(u, u), u) # AddError

=============================================================================
