---------------------------- MODULE SessionStore ----------------------------
(***************************************************************************)
(* One agent, its conversation in memory and the session's JSONL file:     *)
(* what Agent.run (engine/agent.py) does to the conversation, what         *)
(* Session._flush_last writes, and what SessionManager.resume reads back   *)
(* after the process went down.                                            *)
(*                                                                         *)
(* Several runs may be active over one agent (ui/app.py starts run_agent   *)
(* as a non-exclusive worker): MaxConcurrent = 1 is the user who waits for *)
(* the answer, MaxConcurrent = 2 the one who does not.                     *)
(***************************************************************************)
EXTENDS Conversation

CONSTANTS Runs,           \* the user inputs, one Agent.run each
          MaxConcurrent,  \* runs active at once
          MaxIds,         \* bound: tool calls the model makes in all
          MaxBlocks,      \* bound: blocks of one streamed reply
          MaxNotices,     \* bound: finished-task notices
          MaxCrashes,     \* bound: times the process goes down
          TornWrites,     \* TRUE: a crash may also cut a write in half
          WithTodos       \* TRUE: the model may call TodoWrite

ASSUME SessionStoreAssumption ==
  /\ IsFiniteSet(Runs) /\ Runs # {}
  /\ {MaxConcurrent, MaxBlocks} \subseteq Nat \ {0}
  /\ {MaxIds, MaxNotices, MaxCrashes} \subseteq Nat
  /\ {TornWrites, WithTodos} \subseteq BOOLEAN

VARIABLES up,       \* the process is running
          conv,     \* Agent._conversation, as the list of messages
          file,     \* the physical lines of the session's .jsonl
          todos,    \* Session._todos is not empty
          pc,       \* where each run is
          calls,    \* per run, the tool calls of this round not yet answered
          pending,  \* Agent._pending_text and _pending_tool_uses
          nextId,   \* next tool call id the provider gives out
          notices, crashes,  \* counters of the bounded environment steps
          logged,   \* history: what was appended together with a flush
          cut,      \* history: a crash has cut a write in half
          beside    \* history: "runs" once two were active at once, "tools"
                    \* once one began a turn while another's tools were out

vars == <<up, conv, file, todos, pc, calls, pending, nextId, notices,
          crashes, logged, cut, beside>>

-----------------------------------------------------------------------------
(* The session file.                                                       *)

(* SessionRecord.from_message then to_message: texts are joined into one   *)
(* block, an empty one disappears, calls and results keep their order.     *)
JoinedText(m) == Concat([i \in DOMAIN m.content |-> m.content[i].text])

Reread(m) ==
  Message(m.role,
    (IF JoinedText(m) = <<>> THEN <<>> ELSE <<TextBlock(JoinedText(m))>>)
    \o CallsOf(m.content) \o AnswersOf(m.content))

NoMessage == Message("none", <<>>)
Line(m, td) == [state |-> "ok", msg |-> Reread(m), todos |-> td]
BadLine(state) == [state |-> state, msg |-> NoMessage, todos |-> FALSE]
TornLines == {BadLine("torn"), BadLine("undecodable")}

Lines(msgs, td) == [i \in DOMAIN msgs |-> Line(msgs[i], td)]

(* Text appended after a line without its newline joins that line, which   *)
(* then no longer parses.                                                  *)
AppendLines(f, lines) ==
  IF lines # <<>> /\ f # <<>> /\ Last(f).state = "torn"
  THEN Front(f) \o <<BadLine("bad")>> \o Tail(lines)
  ELSE f \o lines

NewMessages(f, c) == SubSeq(c, Len(f) + 1, Len(c))

(* Mutant: _flush_last as it was, the last message on every change.       *)
FlushAlwaysAppends(f, c, td) ==
  IF c = <<>> THEN f ELSE Append(f, Line(Last(c), td))

(* Mutant: no rewrite when the last message grew.                         *)
FlushNewOnly(f, c, td) ==
  IF Len(c) > Len(f) THEN AppendLines(f, Lines(NewMessages(f, c), td)) ELSE f

(* Mutant: the whole file is written anew.                                *)
FlushWholeFile(f, c, td) == Lines(c, td)

(* Session._flush_last: compare the messages in memory with the physical   *)
(* lines; append what is new, or rewrite the last line, or do nothing.     *)
FlushLast(f, c, td) ==
  IF c = <<>> \/ Len(c) < Len(f) THEN f
  ELSE IF Len(c) > Len(f) THEN AppendLines(f, Lines(NewMessages(f, c), td))
  ELSE Front(f) \o <<Line(Last(c), td)>>

(* What the file may hold if the process dies inside _flush_last: a prefix *)
(* of the new lines with the next one cut, or the last line truncated and  *)
(* not yet written again.  A line cut inside a character no longer decodes.*)
CutFlush(f, c, td) ==
  IF c = <<>> \/ Len(c) < Len(f) THEN {f}
  ELSE IF Len(c) > Len(f)
       THEN {AppendLines(f, SubSeq(Lines(NewMessages(f, c), td), 1, k) \o <<torn>>) :
               k \in 0..(Len(c) - Len(f) - 1), torn \in TornLines}
  ELSE {Front(f)} \cup {Front(f) \o <<torn>> : torn \in TornLines}

(* Reading skips the lines that do not parse; one that does not decode     *)
(* raises in the reading loop itself, outside its try.                     *)
Readable(f) == \A i \in DOMAIN f : f[i].state # "undecodable"

FromJson(line) == IF line.state = "ok" THEN <<line.msg>> ELSE <<>>
Parsed(f) == Concat([i \in DOMAIN f |-> FromJson(f[i])])

-----------------------------------------------------------------------------
(* What the properties count as recorded: user inputs, calls, results.     *)

NoInput == "-"
Item(kind, input, id) == [kind |-> kind, input |-> input, id |-> id]

Items(msgs) ==
  LET blocks == Blocks(msgs)
      texts == UNION {ToSet(b.text) : b \in blocks}
  IN  {Item("input", r, NoId) : r \in Runs \cap texts}
      \cup {Item(b.kind, NoInput, b.id) : b \in {x \in blocks : x.kind # "text"}}

Active == {r \in Runs : pc[r] \in {"turn", "llm", "retried", "tools"}}
Streaming(r) == pc[r] \in {"llm", "retried"}

(* A message added to the conversation and _notify_conversation_change(),  *)
(* which flushes the session.                                              *)
AddAndFlush(msg, td) ==
  /\ conv' = AppendMessage(conv, msg)
  /\ file' = FlushLast(file, conv', td)
  /\ logged' = logged \cup Items(<<msg>>)

Goto(r, label) == pc' = [pc EXCEPT ![r] = label]

InputMessage(r) == UserMessage(<<TextBlock(<<r>>)>>)
FeedbackMessage == UserMessage(<<TextBlock(<<"truncated">>)>>)
NoticeMessage == UserMessage(<<TextBlock(<<"task">>)>>)
SnapshotMessage == UserMessage(<<TextBlock(<<>>), TextBlock(<<"snapshot">>)>>)
StaleMessage == UserMessage(<<TextBlock(<<>>), TextBlock(<<"stale">>)>>)

(* _assemble_payload: the indexes of memories, deferred tools and skills,  *)
(* when there are any, go with the request as a last user message that is  *)
(* not part of the conversation.  Providers read adjacent messages of one  *)
(* role as one: this is the request as they read it.                       *)
ReminderMessage == UserMessage(<<TextBlock(<<"reminder">>)>>)
AssemblePayload(msgs) == {msgs, AppendMessage(msgs, ReminderMessage)}

(* _assemble_blocks: the text first, then the calls as they came.          *)
PendingMessage ==
  AssistantMessage(Selected(pending, {p \in DOMAIN pending : ~IsUse(pending[p])}) \o CallsOf(pending))
PendingCalls == [i \in DOMAIN CallsOf(pending) |-> CallsOf(pending)[i].id]

ResultsMessage(r, k) ==
  UserMessage([i \in 1..k |-> ToolResultBlock(calls[r][i])])

-----------------------------------------------------------------------------
(* Agent.run: the input enters the conversation.                           *)
StartRun(r) ==
  /\ up /\ pc[r] = "idle"
  /\ Cardinality(Active) < MaxConcurrent
  /\ AddAndFlush(InputMessage(r), todos)
  /\ Goto(r, "turn")
  /\ beside' = IF Active # {} /\ beside = "no" THEN "runs" ELSE beside
  /\ UNCHANGED <<up, todos, calls, pending, nextId, notices, crashes, cut>>

(* The head of a turn: the chain is repaired, unannounced, and the request *)
(* assembled from it; the buffers of the reply are emptied.                *)
BeginTurn(r) ==
  /\ up /\ pc[r] = "turn"
  /\ conv' = RepairChain(conv)
  /\ pending' = <<>>
  /\ Goto(r, "llm")
  /\ beside' = IF \E s \in Runs \ {r} : calls[s] # <<>> THEN "tools" ELSE beside
  /\ UNCHANGED <<up, file, todos, calls, nextId, notices, crashes, cut, logged>>

(* A text or a complete tool call arrives.                                 *)
StreamBlock(r) ==
  /\ up /\ Streaming(r) /\ Len(pending) < MaxBlocks
  /\ \/ /\ pending = <<>>
        /\ pending' = <<TextBlock(<<"reply">>)>>
        /\ UNCHANGED nextId
     \/ /\ nextId <= MaxIds
        /\ pending' = Append(pending, ToolUseBlock(nextId))
        /\ nextId' = nextId + 1
  /\ UNCHANGED <<up, conv, file, todos, pc, calls, notices, crashes, cut, logged, beside>>

(* A transient failure: the buffers are emptied and the call repeated.     *)
RetryTransient(r) ==
  /\ up /\ Streaming(r) /\ pending # <<>>
  /\ pending' = <<>>
  /\ UNCHANGED <<up, conv, file, todos, pc, calls, nextId, notices, crashes, cut, logged, beside>>

(* A truncated reply: dropped, the model is told; a second one in the same *)
(* turn ends the run.                                                      *)
RetryTruncated(r) ==
  /\ up /\ Streaming(r)
  /\ AddAndFlush(FeedbackMessage, todos)
  /\ pending' = <<>>
  /\ Goto(r, IF pc[r] = "llm" THEN "retried" ELSE "done")
  /\ UNCHANGED <<up, todos, calls, nextId, notices, crashes, cut, beside>>

(* The reply ends.  Nothing in it ends the run; so does a text alone.      *)
EndEmptyReply(r) ==
  /\ up /\ Streaming(r) /\ pending = <<>>
  /\ Goto(r, "done")
  /\ UNCHANGED <<up, conv, file, todos, calls, pending, nextId, notices, crashes, cut, logged, beside>>

EndReply(r) ==
  /\ up /\ Streaming(r) /\ pending # <<>>
  /\ AddAndFlush(PendingMessage, todos)
  /\ calls' = [calls EXCEPT ![r] = PendingCalls]
  /\ pending' = <<>>
  /\ Goto(r, IF PendingCalls = <<>> THEN "done" ELSE "tools")
  /\ UNCHANGED <<up, todos, nextId, notices, crashes, cut, beside>>

(* Mutant: the turn ends with its first batch.                            *)
FinishFirstBatch(r, k) ==
  /\ up /\ pc[r] = "tools" /\ k <= Len(calls[r])
  /\ AddAndFlush(ResultsMessage(r, k), todos)
  /\ calls' = [calls EXCEPT ![r] = SubSeq(@, k + 1, Len(@))]
  /\ Goto(r, "turn")
  /\ UNCHANGED <<up, todos, pending, nextId, notices, crashes, cut, beside>>

(* One batch of tools, the next k calls, returned: its results enter the   *)
(* conversation.  A TodoWrite among them set the session's todos before.   *)
(* After the last batch the next turn begins, or the limit was reached.    *)
FinishBatch(r, k) ==
  /\ up /\ pc[r] = "tools" /\ k <= Len(calls[r])
  /\ \E td \in {todos, todos \/ WithTodos} :
       /\ todos' = td
       /\ AddAndFlush(ResultsMessage(r, k), td)
  /\ calls' = [calls EXCEPT ![r] = SubSeq(@, k + 1, Len(@))]
  /\ IF k < Len(calls[r]) THEN UNCHANGED pc ELSE Goto(r, "turn") \/ Goto(r, "done")
  /\ UNCHANGED <<up, pending, nextId, notices, crashes, cut, beside>>

(* The user cancels, or the provider fails for good: _flush_partial keeps  *)
(* what had arrived as one assistant message.                              *)
StopRun(r) ==
  /\ up /\ r \in Active
  /\ IF pending = <<>> THEN UNCHANGED <<conv, file, logged>>
     ELSE AddAndFlush(PendingMessage, todos)
  /\ pending' = <<>>
  /\ calls' = [calls EXCEPT ![r] = <<>>]
  /\ Goto(r, "done")
  /\ UNCHANGED <<up, todos, nextId, notices, crashes, cut, beside>>

(* A background task finished: TaskManager adds a notice to the            *)
(* conversation itself, and nothing flushes it.                            *)
TaskNotice ==
  /\ up /\ notices < MaxNotices
  /\ conv' = AppendMessage(conv, NoticeMessage)
  /\ notices' = notices + 1
  /\ UNCHANGED <<up, file, todos, pc, calls, pending, nextId, crashes, cut, logged, beside>>

-----------------------------------------------------------------------------
(* The process goes down: what is in memory is gone.                       *)
GoDown ==
  /\ up /\ crashes < MaxCrashes
  /\ up' = FALSE
  /\ crashes' = crashes + 1
  /\ conv' = <<>> /\ pending' = <<>> /\ todos' = FALSE
  /\ pc' = [r \in Runs |-> IF r \in Active THEN "done" ELSE pc[r]]
  /\ calls' = [r \in Runs |-> <<>>]
  /\ UNCHANGED <<nextId, notices, logged, beside>>

Crash == GoDown /\ UNCHANGED <<file, cut>>

(* ... while _flush_last was writing one of these messages.                *)
MessagesInFlight ==
  {InputMessage(r) : r \in {x \in Runs : pc[x] = "idle" /\ Cardinality(Active) < MaxConcurrent}}
  \cup {PendingMessage : r \in {x \in Active : pending # <<>>}}
  \cup {ResultsMessage(r, Len(calls[r])) : r \in {x \in Runs : pc[x] = "tools"}}

CrashInFlush ==
  /\ TornWrites
  /\ GoDown
  /\ \E msg \in MessagesInFlight :
       file' \in CutFlush(file, AppendMessage(conv, msg), todos)
  /\ cut' = TRUE

(* SessionManager.resume: parse the lines, repair, add the todo snapshot   *)
(* to memory only unless one is there, add and flush the reminder that the *)
(* session is old.                                                         *)
IsSnapshot(m) ==
  \E b \in ToSet(m.content) : b.kind = "text" /\ b.text # <<>> /\ b.text[1] = "snapshot"

StoredTodos == \E i \in DOMAIN file : file[i].todos

Restored ==
  LET repaired == RepairChain(Parsed(file))
  IN  IF StoredTodos /\ ~\E m \in ToSet(repaired) : IsSnapshot(m)
      THEN AppendMessage(repaired, SnapshotMessage)
      ELSE repaired

Resume ==
  /\ ~up /\ Readable(file)
  /\ up' = TRUE
  /\ todos' = StoredTodos
  /\ \/ conv' = Restored /\ UNCHANGED file
     \/ /\ file # <<>>
        /\ conv' = AppendMessage(Restored, StaleMessage)
        /\ file' = FlushLast(file, conv', StoredTodos)
  /\ UNCHANGED <<pc, calls, pending, nextId, notices, crashes, cut, logged, beside>>

-----------------------------------------------------------------------------
Init ==
  /\ up = TRUE /\ conv = <<>> /\ file = <<>> /\ todos = FALSE
  /\ pc = [r \in Runs |-> "idle"]
  /\ calls = [r \in Runs |-> <<>>]
  /\ pending = <<>> /\ nextId = 1
  /\ notices = 0 /\ crashes = 0 /\ logged = {} /\ cut = FALSE /\ beside = "no"

Next ==
  \/ \E r \in Runs :
       \/ StartRun(r) \/ BeginTurn(r) \/ StreamBlock(r)
       \/ RetryTransient(r) \/ RetryTruncated(r)
       \/ EndEmptyReply(r) \/ EndReply(r)
       \/ \E k \in 1..MaxBlocks : FinishBatch(r, k)
       \/ StopRun(r)
  \/ TaskNotice \/ Crash \/ CrashInFlush \/ Resume

Spec == Init /\ [][Next]_vars

-----------------------------------------------------------------------------
(* Properties.                                                             *)

RequestSent(r) == \/ pc[r] = "turn" /\ pc'[r] = "llm"
                  \/ pc[r] = "llm" /\ pc'[r] = "retried"

(* What agent.py:415 promises of its one exit to the provider: every       *)
(* request, first or repeated after a truncation, alternates roles and     *)
(* pairs each call with its result, whatever was cancelled before and with *)
(* the reminders or without.  As long as the runs follow one another and   *)
(* the process stays up: after a resume, or a reply of another run, the    *)
(* placeholder at the end of the chain may not be next to its call.        *)
RequestWellFormed ==
  [][\A r \in Runs : RequestSent(r) /\ beside' = "no" /\ crashes' = 0 =>
       \A payload \in AssemblePayload(conv') : RequestOK(payload)]_vars

(* Write first, then memory (manager.py:3): an input, call or result that  *)
(* was appended with a flush can be read back from the file, now and after *)
(* the process went down.                                                  *)
Durable == Readable(file) /\ logged \subseteq Items(Parsed(file))

(* The same as long as crashes come between the writes, not inside one,    *)
(* and no turn begins while another run's tools are out: the repair puts   *)
(* a placeholder before the result, which it takes for a repetition then.  *)
DurableUncut == ~cut /\ beside # "tools" => Durable

(* _flush_last decides by counting lines: that is right only if line i is  *)
(* message i, complete or in an earlier version of it.                     *)
Extends(new, old) == /\ new.role = old.role
                     /\ Items(<<old>>) \subseteq Items(<<new>>)

FileFollowsMemory ==
  up /\ ~cut /\ beside # "tools" =>
    /\ Len(file) <= Len(conv)
    /\ \A i \in DOMAIN file : Extends(conv[i], file[i].msg)

(* The defect _flush_last was rewritten for (manager.py:115): the results  *)
(* of parallel batches merge into one message, and none of them may come   *)
(* to stand in the file twice.                                             *)
Occurrences(kindOf(_), id) ==
  {place \in UNION {{i} \X (DOMAIN file[i].msg.content) : i \in DOMAIN file} :
     LET b == file[place[1]].msg.content[place[2]] IN kindOf(b) /\ b.id = id}

StoredOnce ==
  beside # "tools" => \A id \in 1..(nextId - 1) :
    /\ Cardinality(Occurrences(IsUse, id)) <= 1
    /\ Cardinality(Occurrences(IsResult, id)) <= 1

(* However a crash cuts a write, it may hurt the last line only: what was  *)
(* complete before it is still there, byte for byte, ever after.           *)
OnlyLastLineChanges ==
  [][\A i \in 1..(Len(file) - 1) : i \in DOMAIN file' /\ file'[i] = file[i]]_vars

(* repair_chain runs before every request: while the process is up it must *)
(* never drop what a tool really returned, nor an input of the user.  It   *)
(* does once a turn has begun while another run's tools were out: the      *)
(* placeholder came first, and the result counts as its repetition.        *)
Precious(msgs) == {x \in Items(msgs) : x.kind \in {"input", "result"}}

NothingRepairedAway ==
  [][up /\ up' /\ beside # "tools" => Precious(conv) \subseteq Precious(conv')]_vars

(* "This tool call was interrupted in the last session and not executed"   *)
(* (conversation.py:113): a result that says so stands for no call that a  *)
(* run is executing at that moment.                                        *)
RunningUnmarked ==
  \A r \in Runs :
    ToSet(calls[r]) \cap {b.id : b \in {x \in Blocks(conv) : x.kind = "placeholder"}} = {}

(* However many runs there are beside each other, and whichever of them is *)
(* cancelled, fails or is told of a finished task: no placeholder lies as  *)
(* long as no turn has begun while another run's tools were out.           *)
PlaceholdersTellTruth == beside # "tools" => RunningUnmarked
=============================================================================
