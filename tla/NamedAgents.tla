---------------------------- MODULE NamedAgents ----------------------------
(***************************************************************************)
(* Named agents (subagent/named.py, Agent._execute_named): the main agent  *)
(* starts them and sends them messages, each handles its own one after the *)
(* other as long as the process lives, and every message is a run over a   *)
(* conversation of its own.  That of a fork begins with the parent's as it *)
(* stands when the message is taken, in whatever the main run is doing:    *)
(* between two batches of calls, after a cancellation, under a notice.     *)
(* The parent is the conversation the tool was bound to at the start; a    *)
(* switch of sessions leaves it behind.                                    *)
(***************************************************************************)
EXTENDS Adapters

CONSTANTS AgentNames,   \* names the main agent gives
          MaxMessages,  \* bound: first tasks and messages accepted in all
          MaxIds,       \* bound: calls the main agent makes in all
          MaxTurns,     \* bound: requests of the main runs
          MaxNotices    \* bound: notices and hook prompts

ASSUME NamedAgentsAssumption == {MaxMessages, MaxIds, MaxTurns, MaxNotices} \subseteq Nat

VARIABLES conv,    \* the conversation that forks inherit
          away,    \* the main agent has gone to another session's
          main,    \* what the main agent is doing
          calls,   \* the calls of its reply that have not returned, by id
          agent,   \* the registry: what each name stands for
          sent,    \* per name, the messages accepted, in order
          nextId, turns, notices

mainVars == <<conv, away, main, calls, nextId, turns, notices>>
namedVars == <<conv, away, main, calls, agent, sent, nextId, turns, notices>>

NoMessage == 0
Unnamed == [alive |-> FALSE, fork |-> FALSE, queue |-> <<>>, at |-> NoMessage, history |-> <<>>]

Accepted == FoldSet(LAMBDA n, sum : sum + Len(sent[n]), 0, AgentNames)

-----------------------------------------------------------------------------
(* What a fork begins with: the parent's messages, the calls of a last     *)
(* reply turned into results where they stand, and the task; then the      *)
(* input of Agent.run, which is empty, and its repair.                     *)
CopiedParent(msgs) ==
  LET last == Last(msgs)
      Closed(b) == IF IsUse(b) THEN PlaceholderBlock(b.id) ELSE b
  IN  IF msgs = <<>> \/ last.role = "user" THEN msgs
      ELSE Append(Front(msgs), AssistantMessage([k \in DOMAIN last.content |->
                                                   Closed(last.content[k])]))

ForkTask == UserMessage(<<TextBlock(<<"boilerplate">>), TextBlock(<<"task">>)>>)
BuildForkedMessages(msgs) == Append(CopiedParent(msgs), ForkTask)

(* Mutant: the copy is sent as it is.                                      *)
ForkRequestAsCopied(msgs) == BuildForkedMessages(msgs)

ForkRequest(msgs) ==
  RepairChain(AppendMessage(BuildForkedMessages(msgs), UserMessage(<<TextBlock(<<>>)>>)))

-----------------------------------------------------------------------------
(* _message_loop.                                                          *)

Busy(n) == agent[n].at # NoMessage

(* Mutant: a message that raises is lost, and what waits with it.          *)
TakeOrDie(n) ==
  /\ agent[n].queue # <<>> /\ ~Busy(n)
  /\ LET message == Head(agent[n].queue)
         taken == [agent[n] EXCEPT !.queue = Tail(@)]
     IN  \/ agent' = [agent EXCEPT ![n] = [taken EXCEPT !.at = message]]
         \/ /\ ~agent[n].fork
            /\ agent' = [agent EXCEPT ![n] = [taken EXCEPT !.queue = <<>>]]
  /\ UNCHANGED <<mainVars, sent>>

(* The next message: a run begins, or cannot (the client of the model that *)
(* the agent was given cannot be made; a fork is given none).              *)
Take(n) ==
  /\ agent[n].queue # <<>> /\ ~Busy(n)
  /\ LET message == Head(agent[n].queue)
         taken == [agent[n] EXCEPT !.queue = Tail(@)]
     IN  \/ agent' = [agent EXCEPT ![n] = [taken EXCEPT !.at = message]]
         \/ /\ ~agent[n].fork
            /\ agent' = [agent EXCEPT ![n] = [taken EXCEPT !.history = Append(@, message)]]
  /\ UNCHANGED <<mainVars, sent>>

(* The run is over, well or with an error; its result joins the others.    *)
FinishMessage(n) ==
  /\ Busy(n)
  /\ agent' = [agent EXCEPT ![n].history = Append(@, agent[n].at), ![n].at = NoMessage]
  /\ UNCHANGED <<mainVars, sent>>

-----------------------------------------------------------------------------
(* The Agent tool with a name, and SendMessage.  Whatever is refused, for  *)
(* its name, its type, its worktree or by the user, is a call without      *)
(* effect on the agents.                                                   *)

Accept(n, message) == sent' = [sent EXCEPT ![n] = Append(@, message)]

Register(n) ==
  /\ ~agent[n].alive /\ Accepted < MaxMessages
  /\ \E fork \in BOOLEAN :
       agent' = [agent EXCEPT ![n] = [Unnamed EXCEPT !.alive = TRUE, !.fork = fork,
                                                     !.queue = <<Accepted + 1>>]]
  /\ Accept(n, Accepted + 1)

Send(n) ==
  /\ agent[n].alive /\ Accepted < MaxMessages
  /\ agent' = [agent EXCEPT ![n].queue = Append(@, Accepted + 1)]
  /\ Accept(n, Accepted + 1)

Deliver == \E n \in AgentNames : Register(n) \/ Send(n)

-----------------------------------------------------------------------------
(* The main agent.                                                         *)

Said == UserMessage(<<TextBlock(<<"said">>)>>)
Notified == UserMessage(<<TextBlock(<<"notice">>)>>)

ReplyMessage(text, n) ==
  AssistantMessage((IF text THEN <<TextBlock(<<"reply">>)>> ELSE <<>>)
                   \o [k \in 1..n |-> ToolUseBlock(nextId + k - 1)])

Results(n) == UserMessage([k \in 1..n |-> ToolResultBlock(calls[k])])

(* What the main run adds while it is still in this conversation.          *)
AddedHere(msg) == IF away THEN conv ELSE AppendMessage(conv, msg)

(* The chain is repaired in the same step in which the turn begins.        *)
SendTurn(msgs) ==
  /\ turns < MaxTurns /\ turns' = turns + 1
  /\ conv' = IF away THEN msgs ELSE RepairChain(msgs)
  /\ main' = "llm"

Say ==
  /\ main = "idle"
  /\ SendTurn(AddedHere(Said))
  /\ UNCHANGED <<away, calls, agent, sent, nextId, notices>>

(* A reply, or what had come of it when the run was cancelled.             *)
Reply ==
  /\ main = "llm"
  /\ \E text \in BOOLEAN, n \in 0..(MaxIds - nextId + 1) :
       /\ text \/ n > 0
       /\ conv' = AddedHere(ReplyMessage(text, n))
       /\ nextId' = nextId + n
       /\ \/ /\ main' = "idle" /\ UNCHANGED calls
          \/ /\ n > 0 /\ main' = "tools"
             /\ calls' = [k \in 1..n |-> nextId + k - 1]
  /\ UNCHANGED <<away, agent, sent, turns, notices>>

(* The next batch: calls of tools that may run side by side, or one call,  *)
(* which may be to the Agent tool or to SendMessage.  Nothing gives way    *)
(* between the effect of such a call and its result.                       *)
CallsReturn ==
  /\ main = "tools"
  /\ \E n \in DOMAIN calls :
       /\ \/ n = 1 /\ Deliver
          \/ UNCHANGED <<agent, sent>>
       /\ calls' = SubSeq(calls, n + 1, Len(calls))
       /\ \/ /\ n < Len(calls)
             /\ conv' = AddedHere(Results(n))
             /\ UNCHANGED <<main, turns>>
          \/ /\ n = Len(calls)
             /\ SendTurn(AddedHere(Results(n)))
          \/ /\ n = Len(calls)          \* the limit of turns
             /\ conv' = AddedHere(Results(n))
             /\ main' = "idle" /\ UNCHANGED turns
  /\ UNCHANGED <<away, nextId, notices>>

CancelRun ==
  /\ main # "idle"
  /\ main' = "idle" /\ calls' = <<>>
  /\ UNCHANGED <<conv, away, agent, sent, nextId, turns, notices>>

(* A background task ended, a hook of a subagent's run put its prompt, or   *)
(* the agent a reminder between two batches.                               *)
Notice ==
  /\ notices < MaxNotices /\ notices' = notices + 1
  /\ conv' = AppendMessage(conv, Notified)
  /\ UNCHANGED <<away, main, calls, agent, sent, nextId, turns>>

SwitchSession ==
  /\ ~away /\ away' = TRUE
  /\ UNCHANGED <<conv, main, calls, agent, sent, nextId, turns, notices>>

-----------------------------------------------------------------------------
NamedInit ==
  /\ conv = <<>> /\ away = FALSE /\ main = "idle" /\ calls = <<>>
  /\ agent = [n \in AgentNames |-> Unnamed] /\ sent = [n \in AgentNames |-> <<>>]
  /\ nextId = 1 /\ turns = 0 /\ notices = 0

NamedNext ==
  \/ \E n \in AgentNames : Take(n) \/ FinishMessage(n)
  \/ Say \/ Reply \/ CallsReturn \/ CancelRun \/ Notice \/ SwitchSession

(* A loop that can go on is resumed.  That the run of a message comes to   *)
(* an end is not assumed: one of its tools may never return.               *)
NamedFairness == \A n \in AgentNames : WF_namedVars(Take(n))

NamedSpec == NamedInit /\ [][NamedNext]_namedVars /\ NamedFairness

-----------------------------------------------------------------------------
(* Every message an agent was sent is handled, once and in the order of    *)
(* sending, also those sent while it works and those after one that raised *)
(* (_message_loop), as long as it does not work at one of them for ever.   *)
MessagesHandled ==
  \A n \in AgentNames : []<>~Busy(n) =>
    \A k \in 1..MaxMessages :
      k <= Len(sent[n]) ~> k <= Len(agent[n].history) /\ agent[n].history[k] = sent[n][k]

(* A text came after a reply with calls that are still open: a notice, the *)
(* prompt of a hook.                                                       *)
Interposed ==
  \E i \in DOMAIN conv :
    /\ UseIds(conv[i]) \ AllResultIds(conv) # {}
    /\ \E j \in (i + 1)..Len(conv) : HasText(conv[j])

(* No call is left open in a fork's first request, whatever the main run   *)
(* is doing when the message is taken (build_forked_messages: an OpenAI    *)
(* provider refuses such a request), unless a text was put between an open *)
(* call and its result.                                                    *)
ForkRequestPaired ==
  [][\A n \in AgentNames :
       Take(n) /\ agent[n].fork /\ ~Interposed =>
         CallsAnswered("openai", Serialize("openai", ForkRequest(conv)))]_namedVars
=============================================================================
