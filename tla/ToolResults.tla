---------------------------- MODULE ToolResults ----------------------------
(***************************************************************************)
(* What becomes of a tool's result before it enters the history            *)
(* (context/tool_result_handler.py over the decision of                    *)
(* context/compactor.py): it is kept whole, stored in a file and shown as  *)
(* a preview, or stored and summarised by a call of the model.  Pure       *)
(* operators, no state: Compaction keeps the results and the files.        *)
(*                                                                         *)
(* A result is [id, of, tool, marks, chars]: the call it answers, the call *)
(* whose output its text is (another one when a stored file is read back), *)
(* the tool, what the head of the text shows, and its length.              *)
(***************************************************************************)
EXTENDS Integers, Sequences, FiniteSets, SequencesExt

CONSTANT AggregateThreshold  \* characters of one batch

ASSUME AggregateAssumption == AggregateThreshold \in Nat

CharsPerToken == 4
SaveThreshold == 50000
PreviewChars == 2000
CompressMin == 8000
SaveThresholdTokens == SaveThreshold \div CharsPerToken
InstructionTokens == 500
SummaryMaxTokens == 2048
WindowSize == 200000
GrowthPerTurn == 2000
WrapperChars == 200  \* the lines around a preview or a summary

(* Prices, in tenths: input, output, input found in the provider's cache.  *)
CostParams == [c_in |-> 20, c_out |-> 80, c_hit |-> 2]

-----------------------------------------------------------------------------
Tokens(chars) == IF chars < CharsPerToken THEN 1 ELSE chars \div CharsPerToken

(* classify_content: the first kind that fits, in this order.              *)
ContentKinds == <<"stack", "test", "search", "web", "log", "code">>
FileTools == {"ReadFile", "WriteFile", "EditFile"}

Fits(r, kind) ==
  CASE kind = "search" -> r.tool \in {"Grep", "Glob"}
    [] kind = "code" -> r.tool \in FileTools /\ kind \in r.marks
    [] OTHER -> kind \in r.marks

ClassifyContent(r) ==
  LET fitting == {i \in DOMAIN ContentKinds : Fits(r, ContentKinds[i])}
  IN  IF fitting = {} THEN "other"
      ELSE ContentKinds[CHOOSE i \in fitting : \A j \in fitting : i <= j]

HighDensity(r) == r.tool = "TodoWrite" \/ ClassifyContent(r) \in {"code", "other"}

(* Per cent of the text a summary of it is expected to take.               *)
ExpectedRatio(kind) ==
  CASE kind = "stack" -> 20
    [] kind \in {"log", "web"} -> 30
    [] kind \in {"search", "test"} -> 40
    [] kind = "code" -> 90
    [] OTHER -> 50

RemainingTurns(p) ==
  IF WindowSize - p < GrowthPerTurn THEN 1 ELSE (WindowSize - p) \div GrowthPerTurn

(* The summary pays for itself within the turns that are left: what it     *)
(* costs once against what it saves in each, p being the context so far.   *)
Pays(x, s, p) ==
  /\ x > s
  /\ RemainingTurns(p) * CostParams.c_hit * (x - s)
       > CostParams.c_in * (InstructionTokens + s) + CostParams.c_out * s + CostParams.c_hit * p

(* evaluate_l2_decision, whose verdict decide only records.                *)
OnlineCompress(r, p) ==
  LET x == Tokens(r.chars)
      s == (x * ExpectedRatio(ClassifyContent(r))) \div 100
  IN  /\ x >= CompressMin /\ x < SaveThresholdTokens
      /\ ~HighDensity(r)
      /\ Pays(x, IF s < 1 THEN 1 ELSE s, p)

(* handle_single, before anything is awaited.                              *)
HandleSingle(r, exempt, p) ==
  CASE exempt -> "whole"
    [] ~exempt /\ r.chars > SaveThreshold -> "preview"
    [] ~exempt /\ OnlineCompress(r, p) -> "summary"
    [] OTHER -> "whole"

-----------------------------------------------------------------------------
(* What enters the history: the result and the form it is shown in.        *)
Processed(r, form) == [result |-> r, form |-> form]

Least(a, b) == IF a < b THEN a ELSE b

ShownChars(p) ==
  CASE p.form = "whole" -> p.result.chars
    [] p.form = "preview" -> Least(p.result.chars, PreviewChars) + WrapperChars
    [] OTHER -> Least(p.result.chars, SummaryMaxTokens * CharsPerToken) + WrapperChars

TotalChars(ps) == FoldLeft(LAMBDA sum, p : sum + ShownChars(p), 0, ps)

(* _aggregate: while the batch is too long, the longest result that is not *)
(* stored is, the first of equals.                                         *)
Aggregate(ps) ==
  LET Unstored(qs) == {i \in DOMAIN qs : qs[i].form = "whole"}
      Longest(qs) == CHOOSE i \in Unstored(qs) : \A j \in Unstored(qs) :
                       \/ ShownChars(qs[j]) < ShownChars(qs[i])
                       \/ ShownChars(qs[j]) = ShownChars(qs[i]) /\ i <= j
      after[n \in 0..Len(ps)] ==
        IF n = 0 THEN ps
        ELSE LET qs == after[n - 1]
             IN  IF TotalChars(qs) <= AggregateThreshold \/ Unstored(qs) = {} THEN qs
                 ELSE [qs EXCEPT ![Longest(qs)].form = "preview"]
  IN  after[Len(ps)]

=============================================================================
