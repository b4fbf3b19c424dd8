------------------------------ MODULE Streams ------------------------------
(***************************************************************************)
(* A reply on its way from the provider to the conversation: the provider  *)
(* sends lines, the adapter's parser turns them into events, Agent.        *)
(* _stream_llm (engine/agent.py) gathers them, and what it gathered is     *)
(* recorded, told to the model as cut, or dropped; the next request shows  *)
(* what became of it.  The connection may close or break after any line,   *)
(* and the provider may stop anywhere because it has spent its tokens.     *)
(***************************************************************************)
EXTENDS Adapters

CONSTANTS MaxPieces,   \* bound: pieces of one call's arguments
          MaxIds,      \* bound: calls the provider makes in all
          MaxStreams   \* bound: requests sent in all

ASSUME StreamsAssumption == {MaxPieces, MaxIds, MaxStreams} \subseteq Nat

VARIABLES provider,  \* the adapter in use
          conv,      \* the messages of the conversation
          request,   \* the messages sent last
          reply,     \* what the provider has written of its reply
          parser,    \* the adapter's parser
          pending,   \* _pending_text and _pending_tool_uses
          spent,     \* the last usage reported is the whole of max_tokens
          pc,        \* where the run is
          tries,     \* replies found cut in this turn
          nextId, streams

vars == <<provider, conv, request, reply, parser, pending, spent, pc, tries, nextId, streams>>

NewReply == [text |-> FALSE, calls |-> <<>>, open |-> FALSE, reason |-> NoReason, done |-> FALSE]
NoPending == [text |-> FALSE, calls |-> <<>>]

Said == UserMessage(<<TextBlock(<<"said">>)>>)
Feedback == UserMessage(<<TextBlock(<<"cut">>)>>)
Assembled(gathered) ==
  (IF gathered.text THEN <<TextBlock(<<"reply">>)>> ELSE <<>>)
  \o [k \in DOMAIN gathered.calls |-> ToolUseBlock(gathered.calls[k].id)]
Results(calls) == UserMessage([k \in DOMAIN calls |-> ToolResultBlock(calls[k].id)])

Idle == pc \in {"idle", "silent"}
Gathering == pc = "stream"

-----------------------------------------------------------------------------
(* _assemble_payload and stream_chat: a new request, a new parser.         *)
Send(messages) ==
  /\ streams < MaxStreams
  /\ request' = Serialize(provider, messages)
  /\ conv' = messages
  /\ reply' = NewReply
  /\ parser' = NewParser(provider)
  /\ pending' = NoPending
  /\ pc' = "stream"
  /\ streams' = streams + 1

BeginTurn ==
  /\ pc = "ready"
  /\ Send(RepairChain(conv))
  /\ tries' = 0
  /\ UNCHANGED <<provider, spent, nextId>>

(* The loop gives the reply up; _flush_partial records what it had of it.  *)
FlushPartial(gathered) ==
  IF Assembled(gathered) = <<>> THEN conv ELSE AppendMessage(conv, AssistantMessage(Assembled(gathered)))

GiveUp(gathered) ==
  /\ conv' = FlushPartial(gathered)
  /\ pending' = NoPending
  /\ pc' = "idle"
  /\ UNCHANGED <<request, parser, streams, tries>>

(* A reply found cut: nothing of it is kept, and the model is told.  The   *)
(* second one in a turn ends the run.                                      *)
Truncated ==
  LET told == AppendMessage(conv, Feedback)
  IN  /\ tries' = tries + 1
      /\ \/ /\ tries = 0
            /\ Send(told)
         \/ /\ tries > 0
            /\ conv' = told
            /\ pending' = NoPending
            /\ pc' = "idle"
            /\ UNCHANGED <<request, parser, reply, streams>>

Has(events, type) == \E k \in DOMAIN events : events[k].type = type

Gathered(events) ==
  [text |-> pending.text \/ Has(events, "text_delta"),
   calls |-> pending.calls \o Selected(events, {k \in DOMAIN events : events[k].type = "tool_use"})]

Usage(events) == IF Has(events, "usage") THEN events[1].spent ELSE spent

-----------------------------------------------------------------------------
(* One line of the reply: what is written next, the line that says so, and *)
(* what _stream_llm does with the events it gives.                         *)
Line(written, line) ==
  LET fed == Feed(provider, parser, line)
  IN  /\ spent' = Usage(fed.events)
      /\ UNCHANGED provider
      /\ \/ /\ Has(fed.events, "error")
            /\ Truncated
         \/ /\ Has(fed.events, "raised")
            /\ reply' = written
            /\ GiveUp(Gathered(fed.events))
         \/ /\ ~Has(fed.events, "error") /\ ~Has(fed.events, "raised")
            /\ reply' = written
            /\ parser' = fed.parser
            /\ pending' = Gathered(fed.events)
            /\ UNCHANGED <<conv, request, pc, tries, streams>>

Writing == Gathering /\ reply.reason = NoReason
Complete(call) == call.sent = call.full

WriteText ==
  /\ Writing /\ ~reply.text /\ ~reply.open
  /\ Line([reply EXCEPT !.text = TRUE], [kind |-> "text"])
  /\ UNCHANGED nextId

(* A provider may repeat the id of a call, or leave a call without a name. *)
OpenCall ==
  /\ Writing /\ ~reply.open
  /\ \E full \in 0..MaxPieces, named \in BOOLEAN,
        id \in {nextId} \cup {reply.calls[c].id : c \in DOMAIN reply.calls} :
       /\ id <= MaxIds
       /\ provider = "anthropic" => named
       /\ Len(reply.calls) < MaxIds
       /\ Line([reply EXCEPT !.calls = Append(@, [id |-> id, named |-> named,
                                                  sent |-> 0, full |-> full]),
                             !.open = (provider = "anthropic")],
               [kind |-> "open", id |-> id, named |-> named])
       /\ nextId' = IF id = nextId THEN nextId + 1 ELSE nextId

SendPiece ==
  /\ Writing
  /\ \E c \in DOMAIN reply.calls :
       LET call == reply.calls[c]
       IN  /\ call.sent < call.full
           /\ provider = "anthropic" => reply.open /\ c = Len(reply.calls)
           /\ Line([reply EXCEPT !.calls[c].sent = @ + 1],
                   [kind |-> "piece", index |-> c,
                    piece |-> IF call.sent + 1 = call.full THEN "end" ELSE "part"])
  /\ UNCHANGED nextId

CloseCall ==
  /\ Writing /\ reply.open
  /\ Line([reply EXCEPT !.open = FALSE], [kind |-> "close"])
  /\ UNCHANGED nextId

(* The provider stops: it has said everything, or spent its tokens.        *)
StopReply ==
  /\ Writing
  /\ \E reason \in {"stop", "length"}, all \in BOOLEAN :
       /\ reason = "stop" => ~reply.open /\ \A c \in DOMAIN reply.calls : Complete(reply.calls[c])
       /\ reason = "length" => all
       /\ Line([reply EXCEPT !.reason = reason], [kind |-> "reason", reason |-> reason, spent |-> all])
  /\ UNCHANGED nextId

(* Only the OpenAI form tells the usage on a line of its own.              *)
SendUsage ==
  /\ Gathering /\ provider = "openai" /\ reply.reason # NoReason /\ ~reply.done
  /\ \E all \in BOOLEAN :
       /\ reply.reason = "length" => all
       /\ Line([reply EXCEPT !.done = TRUE], [kind |-> "usage", spent |-> all])
  /\ UNCHANGED nextId

SendDone ==
  /\ Gathering /\ reply.reason # NoReason
  /\ Line([reply EXCEPT !.done = TRUE], [kind |-> "done"])
  /\ UNCHANGED nextId

SendNoise ==
  /\ Writing
  /\ Line(reply, [kind |-> "noise"])
  /\ UNCHANGED nextId

-----------------------------------------------------------------------------
(* The stream is over: the rest of the parser's events, and the end of     *)
(* _stream_llm and of the turn.                                            *)
Close ==
  LET events == Finished(provider, parser)
      gathered == Gathered(events)
      blocks == Assembled(gathered)
  IN  /\ Gathering
      /\ UNCHANGED <<provider, spent, nextId>>
      /\ \/ /\ Has(events, "error") \/ (blocks = <<>> /\ spent)
            /\ Truncated
         \/ /\ ~Has(events, "error") /\ blocks = <<>> /\ ~spent
            /\ pc' = "silent"
            /\ UNCHANGED <<conv, request, reply, parser, pending, tries, streams>>
         \/ /\ ~Has(events, "error") /\ blocks # <<>>
            /\ conv' = AppendMessage(conv, AssistantMessage(blocks))
            /\ pc' = IF gathered.calls = <<>> THEN "idle" ELSE "tools"
            /\ pending' = [NoPending EXCEPT !.calls = gathered.calls]
            /\ UNCHANGED <<request, reply, parser, tries, streams>>

(* The connection breaks: sent again, or given up after the last retry.    *)
Break ==
  /\ Gathering
  /\ UNCHANGED <<provider, spent, nextId>>
  /\ \/ Send(conv) /\ UNCHANGED tries
     \/ GiveUp(pending) /\ UNCHANGED reply

-----------------------------------------------------------------------------
(* The calls return, all of them or, when the user cancels the run, those  *)
(* of the first batches.                                                   *)
CallsReturn ==
  /\ pc = "tools"
  /\ \E n \in 0..Len(pending.calls) :
       /\ conv' = IF n = 0 THEN conv ELSE AppendMessage(conv, Results(SubSeq(pending.calls, 1, n)))
       /\ pc' = IF n = Len(pending.calls) THEN "ready" ELSE "idle"
  /\ pending' = NoPending
  /\ UNCHANGED <<provider, request, reply, parser, spent, tries, nextId, streams>>

UserSays ==
  /\ Idle
  /\ conv' = AppendMessage(conv, Said)
  /\ pc' = "ready"
  /\ UNCHANGED <<provider, request, reply, parser, pending, spent, tries, nextId, streams>>

Init ==
  /\ provider \in Providers
  /\ conv = <<>> /\ request = <<>>
  /\ reply = NewReply
  /\ parser = NewParser(provider)
  /\ pending = NoPending
  /\ spent = FALSE
  /\ pc = "idle"
  /\ tries = 0 /\ nextId = 1 /\ streams = 0

Next ==
  \/ BeginTurn \/ WriteText \/ OpenCall \/ SendPiece \/ CloseCall
  \/ StopReply \/ SendUsage \/ SendDone \/ SendNoise
  \/ Close \/ Break \/ CallsReturn \/ UserSays

Spec == Init /\ [][Next]_vars

-----------------------------------------------------------------------------
(* A reply with calls is recorded only with every call the provider began  *)
(* and named, each with the arguments the provider wrote, whole, or with   *)
(* none of which a piece had come (_flush_tool_calls, content_block_stop). *)
RecordedWhole ==
  pc = "tools" =>
    LET named == {c \in DOMAIN reply.calls : reply.calls[c].named}
        Written(c) == [k \in 1..reply.calls[c].full |->
                         IF k = reply.calls[c].full THEN "end" ELSE "part"]
    IN  /\ \A c \in named : \E k \in DOMAIN pending.calls : pending.calls[k].id = reply.calls[c].id
        /\ \A k \in DOMAIN pending.calls : \E c \in named :
             /\ reply.calls[c].id = pending.calls[k].id
             /\ \/ pending.calls[k].input = Written(c)
                \/ pending.calls[k].input = <<>> /\ reply.calls[c].sent = 0

(* No run ends without a word on a reply cut at its token limit, or on one *)
(* with a call in it (the parsers' empty-reply errors, the end of          *)
(* _stream_llm, and the return for a reply without blocks).                *)
NeverSilent ==
  pc = "silent" =>
    /\ reply.reason \notin Truncation
    /\ \A c \in DOMAIN reply.calls : ~reply.calls[c].named

(* Whatever was cut, cancelled or repeated before, a request answers every *)
(* call once, right after it, in the form of the provider (repair_chain    *)
(* with _serialize_messages).                                              *)
RequestPaired == CallsAnswered(provider, request)
=============================================================================
