----------------------------- MODULE Compaction -----------------------------
(***************************************************************************)
(* Summarising a conversation (context/compactor.py, and _compact in       *)
(* context/context_manager.py) while a run appends to it and the user      *)
(* switches sessions (ui/app.py).                                          *)
(* A compaction decides what it keeps, awaits the summary of the rest, and *)
(* then replaces the conversation and rewrites the file of the session     *)
(* that is current by then.                                                *)
(*                                                                         *)
(* Results of calls pass through ToolResults on their way into the         *)
(* conversation, and those stored are files of the session.                *)
(*                                                                         *)
(* Inputs and tool calls are numbered; a summary tells all that is said in *)
(* the messages it was made from.                                          *)
(***************************************************************************)
EXTENDS Conversation, ToolResults

CONSTANTS Sessions,       \* session ids
          KeepMin,        \* RECENT_KEEP_MIN_MESSAGES
          Outputs,        \* what tools return: [tool, marks, chars]
          Contexts,       \* estimates of the context, in tokens
          MaxItems,       \* bound: inputs and calls
          MaxBatch,       \* bound: calls of a reply
          MaxCompactions, \* bound: compactions
          MaxSwitches     \* bound: sessions opened or deleted

ASSUME CompactionAssumption ==
  /\ IsFiniteSet(Sessions) /\ Sessions # {}
  /\ KeepMin \in Nat \ {0}
  /\ {MaxItems, MaxBatch, MaxCompactions, MaxSwitches} \subseteq Nat /\ Contexts \subseteq Nat

VARIABLES objects,   \* conversations in memory, the agent's own last
          file,      \* per session, the messages in its .jsonl
          known,     \* sessions whose file exists
          pc, batch, \* where the run is, and the calls it executes
          handler,   \* the session the handler of results stores for, if built
          stored,    \* per session, the results in its tool-results
          shown,     \* per call, its result as the history shows it
          jobs,      \* compactions awaiting their summary
          next,      \* next number
          compactions, switches,  \* counters of the bounded steps
          given,     \* history: per session, what was appended to it
          dropped,   \* history: left out of a summary that was retried
          crossed    \* history: a session was opened or a compaction ended
                     \* when what it found was no longer its own

results == <<batch, handler, stored, shown>>
vars == <<objects, file, known, pc, results, jobs, next, compactions, switches,
          given, dropped, crossed>>

NoSession == "none"
NoBatch == [calls |-> <<>>, done |-> <<>>, dir |-> NoSession]
NotShown == [of |-> NoId, form |-> "none"]

-----------------------------------------------------------------------------
Item(kind, n) == <<kind, n>>

(* What a reader of these messages knows of: a fragment of text is the set *)
(* of the items it tells of; a placeholder tells nothing.                  *)
Told(msgs) ==
  (UNION {UNION ToSet(b.text) : b \in Blocks(msgs)})
  \cup {Item(b.kind, b.id) : b \in {x \in Blocks(msgs) : x.kind \in {"use", "result"}}}

SummaryMessage(src) == UserMessage(<<TextBlock(<<Told(src)>>)>>)

Current == objects[Len(objects)]
CurrentSession == Current.sid
Conv(s, msgs) == [sid |-> s, msgs |-> msgs]

(* Session._flush_last, on whole messages.                                 *)
Flush(f, c) ==
  IF c = <<>> \/ Len(c) < Len(f) THEN f
  ELSE IF Len(c) > Len(f) THEN f \o SubSeq(c, Len(f) + 1, Len(c))
  ELSE Front(f) \o <<Last(c)>>

AddAndFlush(msg) ==
  LET msgs == AppendMessage(Current.msgs, msg)
  IN  /\ objects' = [objects EXCEPT ![Len(objects)].msgs = msgs]
      /\ file' = [file EXCEPT ![CurrentSession] = Flush(@, msgs)]
      /\ given' = [given EXCEPT ![CurrentSession] = @ \cup Told(<<msg>>)]

-----------------------------------------------------------------------------
(* _recent_keep: a suffix of at least k messages that does not begin with  *)
(* a tool result, whose call would be left behind.                         *)
HasResult(msg) == msg.role = "user" /\ ResultIds(msg) # {}

(* Mutant: the suffix is cut wherever the budget ends.                    *)
KeepCutAnywhere(msgs, k) == IF k < Len(msgs) THEN Len(msgs) - k + 1 ELSE 1

KeepFrom(msgs, k) ==
  LET first == IF k < Len(msgs) THEN Len(msgs) - k + 1 ELSE 1
      starts == {i \in 1..first : i = 1 \/ ~HasResult(msgs[i])}
  IN  CHOOSE i \in starts : \A j \in starts : j <= i

Job(by, msgs, from) ==
  [by |-> by, object |-> Len(objects),
   src |-> SubSeq(msgs, 1, from - 1), kept |-> SubSeq(msgs, from, Len(msgs))]

(* The request for the summary: the early messages, then the instruction.  *)
SummaryRequest(job) == Append(job.src, UserMessage(<<TextBlock(<<{}>>)>>))

(* Mutant: the file keeps what it had.                                    *)
ReplacedInMemory(job, gist) ==
  /\ objects' = [objects EXCEPT ![job.object].msgs = <<gist>> \o job.kept]
  /\ UNCHANGED <<file, known>>

(* The conversation is replaced, and the file of the current session       *)
(* rewritten.                                                              *)
Replaced(job, gist) ==
  LET msgs == <<gist>> \o job.kept
  IN  /\ objects' = [objects EXCEPT ![job.object].msgs = msgs]
      /\ file' = [file EXCEPT ![CurrentSession] = msgs]
      /\ known' = known \cup {CurrentSession}

(* Compactor.compact on these messages: with nothing to summarise it is    *)
(* done at once, otherwise it awaits the summary.                          *)
BeginCompaction(by, msgs, waiting, done) ==
  /\ compactions < MaxCompactions /\ compactions' = compactions + 1
  /\ \E from \in {KeepFrom(msgs, k) : k \in KeepMin..(KeepMin + Len(msgs))} :
       LET job == Job(by, msgs, from)
       IN  IF job.src = <<>>
           THEN /\ Replaced(job, SummaryMessage(<<>>))
                /\ pc' = done /\ UNCHANGED jobs
           ELSE /\ objects' = [objects EXCEPT ![Len(objects)].msgs = msgs]
                /\ jobs' = jobs \cup {job}
                /\ pc' = waiting /\ UNCHANGED <<file, known>>

(* _call_summary: each failure of the call drops the oldest message, the   *)
(* third a fifth of what is left; the fourth fails the compaction.         *)
Fifth(n) == IF n < 10 THEN 1 ELSE n \div 5
DroppedAfter(n) == {0, 1, 2, 2 + Fifth(n - 2)}

(* The conversation is still the current one, and as the compaction read   *)
(* it.                                                                     *)
Fresh(job) == job.object = Len(objects) /\ Current.msgs = job.src \o job.kept

FinishCompaction(job, lost) ==
  LET told == SubSeq(job.src, lost + 1, Len(job.src))
  IN  /\ lost \in DroppedAfter(Len(job.src))
      /\ Replaced(job, SummaryMessage(told))
      /\ dropped' = [dropped EXCEPT ![objects[job.object].sid] = @ \cup Told(SubSeq(job.src, 1, lost))]
      /\ crossed' = (crossed \/ ~Fresh(job))
      /\ jobs' = jobs \ {job}
      /\ pc' = IF job.by = "run" THEN "llm" ELSE pc
      /\ UNCHANGED <<results, next, compactions, switches, given>>

(* It fails: an automatic one is passed over, a forced one ends the run.   *)
FailCompaction(job) ==
  /\ jobs' = jobs \ {job}
  /\ IF job.by = "run" THEN pc' \in {"llm", "idle"} ELSE UNCHANGED pc
  /\ UNCHANGED <<objects, file, known, results, next, compactions, switches, given, dropped, crossed>>

-----------------------------------------------------------------------------
(* The run.                                                                *)
Send ==
  /\ pc = "idle" /\ next <= MaxItems
  /\ AddAndFlush(UserMessage(<<TextBlock(<<{Item("input", next)}>>)>>))
  /\ next' = next + 1 /\ pc' = "turn"
  /\ UNCHANGED <<known, results, jobs, compactions, switches, dropped, crossed>>

(* The head of a turn: the chain is repaired, then compacted first if it   *)
(* has grown too long.                                                     *)
BeginTurn ==
  /\ pc = "turn"
  /\ LET msgs == RepairChain(Current.msgs)
     IN  \/ /\ objects' = [objects EXCEPT ![Len(objects)].msgs = msgs]
            /\ pc' = "llm"
            /\ UNCHANGED <<file, known, jobs, compactions>>
         \/ BeginCompaction("run", msgs, "compacting", "llm")
  /\ UNCHANGED <<results, next, switches, given, dropped, crossed>>

(* The provider finds the prompt too long.                                 *)
EmergencyCompact ==
  /\ pc = "llm"
  /\ BeginCompaction("run", Current.msgs, "compacting", "llm")
  /\ UNCHANGED <<results, next, switches, given, dropped, crossed>>

ReplyText ==
  /\ pc = "llm"
  /\ AddAndFlush(AssistantMessage(<<TextBlock(<<>>)>>))
  /\ pc' = "idle"
  /\ UNCHANGED <<known, results, jobs, next, compactions, switches, dropped, crossed>>

ReplyCalls(n) ==
  /\ pc = "llm" /\ next + n <= MaxItems + 1
  /\ LET calls == [i \in 1..n |-> next + i - 1]
     IN  /\ AddAndFlush(AssistantMessage([i \in 1..n |-> ToolUseBlock(calls[i])]))
         /\ batch' = [NoBatch EXCEPT !.calls = calls]
  /\ next' = next + n /\ pc' = "tools"
  /\ UNCHANGED <<handler, stored, shown, known, jobs, compactions, switches, dropped, crossed>>

(* The calls of the batch have returned: their results go to the handler,  *)
(* which is built for the current session when there is none.              *)
CallsReturn ==
  /\ pc = "tools"
  /\ handler' = IF handler = NoSession THEN CurrentSession ELSE handler
  /\ batch' = [batch EXCEPT !.dir = handler']
  /\ pc' = "results"
  /\ UNCHANGED <<objects, file, known, stored, shown, jobs, next, compactions,
                 switches, given, dropped, crossed>>

(* What the call may return: an output of its own, or the text of a stored *)
(* file whose path the conversation shows, read back whole.                *)
ResultsOf(id) ==
  {[id |-> id, of |-> id, tool |-> o.tool, marks |-> o.marks, chars |-> o.chars] : o \in Outputs}
  \cup {[r EXCEPT !.id = id, !.tool = "ReadFile"] :
          r \in {x \in stored[CurrentSession] : x.id \in AllResultIds(Current.msgs)}}

(* ReadFile exempts a text it read from the directory it is told results   *)
(* are stored in; Agent._exec_one tells it none.                           *)
PersistDirTold == FALSE
Exempt(r) == PersistDirTold /\ r.of # r.id

(* write_persisted: one file per call id.                                  *)
Store(rs) ==
  stored' = [stored EXCEPT ![batch.dir] =
               {x \in @ : \A r \in rs : x.id # r.id} \cup rs]

Add(r, form) == batch' = [batch EXCEPT !.done = Append(@, Processed(r, form))]

(* The summary of one result is asked for, and awaited.                    *)
AskForSummary == pc' = "digest"

(* handle_single on the next result: a summary is asked for once the text  *)
(* is stored.                                                              *)
HandleResult ==
  /\ pc = "results" /\ Len(batch.done) < Len(batch.calls)
  /\ \E r \in ResultsOf(batch.calls[Len(batch.done) + 1]), p \in Contexts :
       LET form == HandleSingle(r, Exempt(r), p)
       IN  /\ Add(r, form)
           /\ IF form = "whole" THEN UNCHANGED stored ELSE Store({r})
           /\ IF form = "summary" THEN AskForSummary ELSE UNCHANGED pc
  /\ UNCHANGED <<objects, file, known, handler, shown, jobs, next, compactions,
                 switches, given, dropped, crossed>>

SummaryArrives ==
  /\ pc = "digest" /\ pc' = "results"
  /\ UNCHANGED <<objects, file, known, results, jobs, next, compactions, switches,
                 given, dropped, crossed>>

(* The call for it fails: the text is shown, though it is stored.          *)
SummaryFails ==
  /\ pc = "digest" /\ pc' = "results"
  /\ batch' = [batch EXCEPT !.done[Len(batch.done)].form = "whole"]
  /\ UNCHANGED <<objects, file, known, handler, stored, shown, jobs, next,
                 compactions, switches, given, dropped, crossed>>

(* Writing a file fails: nothing catches it, and the run ends.             *)
StoreFails ==
  /\ pc = "results"
  /\ pc' = "idle" /\ batch' = NoBatch
  /\ UNCHANGED <<objects, file, known, handler, stored, shown, jobs, next,
                 compactions, switches, given, dropped, crossed>>

(* The batch is brought to its length and added to the conversation.       *)
RecordResults ==
  /\ pc = "results" /\ Len(batch.done) = Len(batch.calls)
  /\ LET ps == Aggregate(batch.done)
     IN  /\ Store({ps[i].result : i \in {j \in DOMAIN ps : ps[j].form # batch.done[j].form}})
         /\ shown' = [id \in DOMAIN shown |->
              IF \E i \in DOMAIN ps : ps[i].result.id = id
              THEN LET p == ps[CHOOSE i \in DOMAIN ps : ps[i].result.id = id]
                   IN  [of |-> p.result.of, form |-> p.form]
              ELSE shown[id]]
         /\ AddAndFlush(UserMessage([i \in DOMAIN ps |-> ToolResultBlock(ps[i].result.id)]))
  /\ batch' = NoBatch /\ pc' = "turn"
  /\ UNCHANGED <<known, handler, jobs, next, compactions, switches, dropped, crossed>>

(* The user cancels: the summary the run awaits is cancelled with it, and  *)
(* nothing has been replaced; results that wait for a summary are gone.    *)
Cancel ==
  /\ pc \in {"compacting", "llm", "tools", "digest"}
  /\ pc' = "idle" /\ batch' = NoBatch
  /\ jobs' = {j \in jobs : j.by # "run"}
  /\ UNCHANGED <<objects, file, known, handler, stored, shown, next, compactions,
                 switches, given, dropped, crossed>>

-----------------------------------------------------------------------------
(* The user: /compact, or the compaction of a resumed session, in a task   *)
(* of its own; /session new, resume and delete.  Nothing in the code makes *)
(* him wait for a run or for a compaction to end.                          *)
UICompact ==
  /\ BeginCompaction("ui", Current.msgs, pc, pc)
  /\ UNCHANGED <<results, next, switches, given, dropped, crossed>>

(* Mutant: the handler goes on storing for the session it was built for.  *)
OpenKeepingHandler(conversation) ==
  /\ objects' = (IF jobs = {} THEN <<>> ELSE objects) \o <<conversation>>
  /\ crossed' = (crossed \/ pc # "idle" \/ jobs # {})
  /\ UNCHANGED handler

(* Another conversation, and another session for the handler; the former   *)
(* conversation is gone unless a compaction still refers to it.            *)
Open(conversation) ==
  /\ objects' = (IF jobs = {} THEN <<>> ELSE objects) \o <<conversation>>
  /\ crossed' = (crossed \/ pc # "idle" \/ jobs # {})
  /\ handler' = NoSession

NewSession(s) ==
  /\ switches < MaxSwitches /\ s \notin known
  /\ Open(Conv(s, <<>>))
  /\ known' = known \cup {s} /\ switches' = switches + 1
  /\ UNCHANGED <<file, pc, batch, stored, shown, jobs, next, compactions, given, dropped>>

ResumeSession(s) ==
  /\ switches < MaxSwitches /\ s \in known
  /\ Open(Conv(s, RepairChain(file[s])))
  /\ switches' = switches + 1
  /\ UNCHANGED <<file, known, pc, batch, stored, shown, jobs, next, compactions, given, dropped>>

(* Mutant: the deleted session stays the current one.                     *)
DeleteKeepingCurrent(s) ==
  /\ switches < MaxSwitches /\ s \in known
  /\ switches' = switches + 1
  /\ known' = known \ {s} /\ UNCHANGED <<objects, handler, crossed>>
  /\ file' = [file EXCEPT ![s] = <<>>]
  /\ stored' = [stored EXCEPT ![s] = {}]
  /\ given' = [given EXCEPT ![s] = {}]
  /\ UNCHANGED <<pc, batch, shown, jobs, next, compactions, dropped>>

(* Deleting the current session opens a new one.                           *)
DeleteSession(s) ==
  /\ switches < MaxSwitches /\ s \in known
  /\ switches' = switches + 1
  /\ IF s # CurrentSession THEN known' = known \ {s} /\ UNCHANGED <<objects, handler, crossed>>
     ELSE \E fresh \in Sessions \ known :
            /\ Open(Conv(fresh, <<>>))
            /\ known' = (known \ {s}) \cup {fresh}
  /\ file' = [file EXCEPT ![s] = <<>>]
  /\ stored' = [stored EXCEPT ![s] = {}]
  /\ given' = [given EXCEPT ![s] = {}]
  /\ UNCHANGED <<pc, batch, shown, jobs, next, compactions, dropped>>

-----------------------------------------------------------------------------
Init ==
  \E s \in Sessions :
    /\ objects = <<Conv(s, <<>>)>>
    /\ file = [x \in Sessions |-> <<>>] /\ known = {s}
    /\ pc = "idle" /\ batch = NoBatch /\ jobs = {}
    /\ handler = NoSession /\ stored = [x \in Sessions |-> {}]
    /\ shown = [id \in 1..MaxItems |-> NotShown]
    /\ next = 1 /\ compactions = 0 /\ switches = 0
    /\ given = [x \in Sessions |-> {}] /\ dropped = [x \in Sessions |-> {}]
    /\ crossed = FALSE

Next ==
  \/ Send \/ BeginTurn \/ EmergencyCompact \/ ReplyText \/ Cancel \/ UICompact
  \/ \E n \in 1..MaxBatch : ReplyCalls(n)
  \/ CallsReturn \/ HandleResult \/ SummaryArrives \/ SummaryFails
  \/ StoreFails \/ RecordResults
  \/ \E job \in jobs : FailCompaction(job) \/ \E lost \in 0..Len(job.src) : FinishCompaction(job, lost)
  \/ \E s \in Sessions : NewSession(s) \/ ResumeSession(s) \/ DeleteSession(s)

Spec == Init /\ [][Next]_vars

-----------------------------------------------------------------------------
(* Properties.                                                             *)

(* Summarise the early part, keep the recent one as it is (compactor.py):  *)
(* whatever was said in a session is in its file and, in the current one,  *)
(* before the model, word for word or told by a summary; what a retried    *)
(* summary left out is the one exception.                                  *)
Remembered ==
  /\ \A s \in known : given[s] \subseteq Told(file[s]) \cup dropped[s]
  /\ given[CurrentSession] \subseteq Told(Current.msgs) \cup dropped[CurrentSession]

(* So it is with compactions beside a run and beside each other, as long   *)
(* as each that ends finds the conversation it read as it read it, and no  *)
(* session is opened in the middle of a run or of a compaction.            *)
NothingForgotten == ~crossed => Remembered

(* A session's file tells of nothing that was said in another.             *)
SaidHere == \A s \in Sessions : Told(file[s]) \subseteq given[s]

SessionsApart == ~crossed => SaidHere

(* After a compaction memory and file agree (context_manager.py:231).  It  *)
(* replaces the conversation it read, and writes the file of the session   *)
(* that is current when the summary arrives.                               *)
FileAgreesAfter ==
  [][\A job \in jobs :
       (\E lost \in 0..Len(job.src) : FinishCompaction(job, lost))
         => file'[CurrentSession] = Current'.msgs]_vars

(* What is summarised and what is kept: where every call stands before its *)
(* result, the cut does not part the two, so that neither the request for  *)
(* the summary nor the compacted chain is refused for it.                  *)
Paired(msgs) == AnsweredNext(msgs) /\ AnswersPrevious(msgs)

CutBetweenPairs ==
  \A j \in jobs : Paired(j.src \o j.kept) => Paired(SummaryRequest(j)) /\ Paired(j.kept)

(* The full text is stored where the history shows less (决策 D6): in every *)
(* session that can be resumed, a result that is not whole has its file in *)
(* that session's own directory, with the text of the call it is about.    *)
ResultsReadable ==
  ~crossed => \A s \in known : \A b \in Blocks(file[s]) :
    (b.kind = "result" /\ shown[b.id].form # "whole")
      => \E r \in stored[s] : r.id = b.id /\ r.of = shown[b.id].of
=============================================================================
