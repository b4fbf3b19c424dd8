------------------------------ MODULE Adapters ------------------------------
(***************************************************************************)
(* The two provider adapters: what _OpenAIStreamParser                     *)
(* (engine/llm/openai.py) and _AnthropicStreamParser                       *)
(* (engine/llm/anthropic.py) make of the lines of a reply, and how each    *)
(* serialises the messages of a request.  Pure operators: a parser is a    *)
(* record, and feeding it a line gives the next parser and the events.     *)
(*                                                                         *)
(* The arguments of a call are a JSON object that comes in pieces.  The    *)
(* last piece of an object is "end", every other one "part": a prefix of   *)
(* an object is never JSON, nor are two objects in a row.                  *)
(***************************************************************************)
EXTENDS Conversation

Providers == {"openai", "anthropic"}
NoReason == "none"
Truncation == {"length"}

IsJson(pieces) == pieces # <<>> /\ \A k \in DOMAIN pieces : pieces[k] = "end" <=> k = Len(pieces)

TextDelta == [type |-> "text_delta"]
UsageEvent(spent) == [type |-> "usage", spent |-> spent]
ToolUse(id, input) == [type |-> "tool_use", id |-> id, input |-> input]
ToolTruncatedError(empty) == [type |-> "error", empty |-> empty]
StopEvent == [type |-> "stop"]
NotJson == [type |-> "raised"]

Fed(parser, events) == [parser |-> parser, events |-> events]

(* Mutant: arguments that are not JSON become {}, as they once did.        *)
CallWithWhatParses(id, pieces) ==
  ToolUse(id, IF IsJson(pieces) THEN pieces ELSE <<>>)

(* A call whose arguments are not JSON is an error; no argument at all     *)
(* stands for the empty object.                                            *)
CallOrError(id, pieces) ==
  IF pieces = <<>> \/ IsJson(pieces) THEN ToolUse(id, pieces) ELSE ToolTruncatedError(FALSE)

-----------------------------------------------------------------------------
(* The OpenAI parser keeps the calls by index until the reply stops.       *)

OpenAIParser == [calls |-> <<>>, reason |-> NoReason, stopped |-> FALSE, text |-> FALSE]

(* Calls with a name, the first of each id.                                *)
Passed(calls) ==
  Selected([i \in DOMAIN calls |-> i],
           {i \in DOMAIN calls :
              /\ calls[i].named
              /\ \/ calls[i].id = NoId
                 \/ ~\E j \in 1..(i - 1) : calls[j].named /\ calls[j].id = calls[i].id})

(* Mutant: an empty reply cut at its limit gives no event at all.          *)
FlushCallsOnly(p) ==
  LET order == Passed(p.calls)
  IN  [k \in DOMAIN order |-> CallOrError(p.calls[order[k]].id, p.calls[order[k]].arguments)]

FlushToolCalls(p) ==
  LET order == Passed(p.calls)
      events == [k \in DOMAIN order |->
                   CallOrError(p.calls[order[k]].id, p.calls[order[k]].arguments)]
  IN  IF p.reason \in Truncation /\ ~p.text /\ order = <<>>
      THEN <<ToolTruncatedError(TRUE)>> ELSE events

OpenAIStop(p) ==
  IF p.stopped THEN Fed(p, <<>>)
  ELSE Fed([p EXCEPT !.stopped = TRUE, !.calls = <<>>], FlushToolCalls(p) \o <<StopEvent>>)

FeedToolCall(calls, line) ==
  IF line.kind = "open"
  THEN Append(calls, [id |-> line.id, named |-> line.named, arguments |-> <<>>])
  ELSE [calls EXCEPT ![line.index].arguments = Append(@, line.piece)]

OpenAIFeed(p, line) ==
  CASE line.kind = "text" -> Fed([p EXCEPT !.text = TRUE], <<TextDelta>>)
    [] line.kind \in {"open", "piece"} -> Fed([p EXCEPT !.calls = FeedToolCall(@, line)], <<>>)
    [] line.kind = "reason" -> OpenAIStop([p EXCEPT !.reason = line.reason])
    [] line.kind = "usage" -> Fed(p, <<UsageEvent(line.spent)>>)
    [] line.kind = "done" -> OpenAIStop(p)
    [] OTHER -> Fed(p, <<>>)

-----------------------------------------------------------------------------
(* The Anthropic parser keeps one call, from the start of its block to the *)
(* end.  Nothing is kept of a block but whether there was one.             *)

NoBlock == 0
AnthropicParser == [block |-> NoBlock, buffer |-> <<>>, reason |-> NoReason, stopped |-> FALSE,
                    text |-> FALSE, tool |-> FALSE]

CloseBlock(p) ==
  LET event == CallOrError(p.block, p.buffer)
  IN  IF p.block = NoBlock THEN Fed(p, <<>>)
      ELSE Fed([p EXCEPT !.block = NoBlock, !.buffer = <<>>,
                         !.tool = @ \/ event.type = "tool_use"], << event >>)

AnthropicStop(p) ==
  IF p.stopped THEN Fed(p, <<>>)
  ELSE Fed([p EXCEPT !.stopped = TRUE, !.block = NoBlock, !.buffer = <<>>],
           (IF p.block # NoBlock THEN <<ToolTruncatedError(FALSE)>>
            ELSE IF p.reason \in Truncation /\ ~p.text /\ ~p.tool
            THEN <<ToolTruncatedError(TRUE)>> ELSE <<>>) \o <<StopEvent>>)

AnthropicFeed(p, line) ==
  CASE line.kind = "text" -> Fed([p EXCEPT !.text = TRUE], <<TextDelta>>)
    [] line.kind = "open" -> Fed([p EXCEPT !.block = line.id, !.buffer = <<>>], <<>>)
    [] line.kind = "piece" -> Fed([p EXCEPT !.buffer = Append(@, line.piece)], <<>>)
    [] line.kind = "close" -> CloseBlock(p)
    [] line.kind = "reason" -> Fed([p EXCEPT !.reason = line.reason], <<UsageEvent(line.spent)>>)
    [] line.kind = "done" -> AnthropicStop(p)
    [] line.kind = "noise" -> Fed(p, <<NotJson>>)
    [] OTHER -> Fed(p, <<>>)

-----------------------------------------------------------------------------
NewParser(provider) == IF provider = "openai" THEN OpenAIParser ELSE AnthropicParser

Feed(provider, parser, line) ==
  IF provider = "openai" THEN OpenAIFeed(parser, line) ELSE AnthropicFeed(parser, line)

Finished(provider, parser) ==
  IF provider = "openai" THEN OpenAIStop(parser).events ELSE AnthropicStop(parser).events

-----------------------------------------------------------------------------
(* Requests.  The OpenAI form makes a message of its own of every result,  *)
(* ahead of the text of its message, and leaves out a result it has given; *)
(* the Anthropic form keeps messages and blocks as they are.               *)

WireMessage(role, ids) == [role |-> role, ids |-> ids]

IdsOf(blocks) == [k \in DOMAIN blocks |-> blocks[k].id]
Uses(msg) == IdsOf(CallsOf(msg.content))

NewResults(msgs, i) ==
  LET blocks == msgs[i].content
      fresh == {p \in DOMAIN blocks : IsResult(blocks[p]) /\ ~SeenBefore(msgs, i, p)}
      ids == IdsOf(Selected(blocks, fresh))
  IN  [k \in DOMAIN ids |-> WireMessage("tool", << ids[k] >>)]

HasText(msg) == \E b \in ToSet(msg.content) : b.kind = "text"
UserText(msg) == IF HasText(msg) THEN <<WireMessage("user", <<>>)>> ELSE <<>>

(* Mutant: text and results in the order they stand in the message.        *)
SerializeTextFirst(msgs, i) ==
  IF msgs[i].role = "assistant" THEN <<WireMessage("assistant", Uses(msgs[i]))>>
  ELSE IF msgs[i].content[1].kind = "text" THEN UserText(msgs[i]) \o NewResults(msgs, i)
  ELSE NewResults(msgs, i) \o UserText(msgs[i])

SerializeMessage(msgs, i) ==
  IF msgs[i].role = "assistant" THEN <<WireMessage("assistant", Uses(msgs[i]))>>
  ELSE NewResults(msgs, i) \o UserText(msgs[i])

OpenAIMessages(msgs) == Concat([i \in DOMAIN msgs |-> SerializeMessage(msgs, i)])

AnthropicMessages(msgs) ==
  [i \in DOMAIN msgs |->
     IF msgs[i].role = "assistant" THEN WireMessage("assistant", Uses(msgs[i]))
     ELSE WireMessage("user", IdsOf(AnswersOf(msgs[i].content)))]

Serialize(provider, msgs) ==
  IF provider = "openai" THEN OpenAIMessages(msgs) ELSE AnthropicMessages(msgs)

(* The answers to the item at n are the next items, one each, or one item. *)
Answers(provider, request, n) ==
  (n + 1)..(n + (IF provider = "openai" THEN Len(request[n].ids) ELSE 1))

(* Every call is answered once, right after the message that makes it, and *)
(* nothing else is answered.                                               *)
CallsAnswered(provider, request) ==
  LET calls == {n \in DOMAIN request : request[n].role = "assistant" /\ request[n].ids # <<>>}
      answers == UNION {Answers(provider, request, n) : n \in calls}
      Ids(items) == UNION {ToSet(request[k].ids) : k \in items}
  IN  /\ answers \subseteq DOMAIN request
      /\ \A n \in calls : Ids(Answers(provider, request, n)) = ToSet(request[n].ids)
      /\ \A k \in DOMAIN request \ (calls \cup answers) : request[k].ids = <<>>
=============================================================================
