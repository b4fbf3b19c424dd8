------------------------------- MODULE Memory -------------------------------
(***************************************************************************)
(* Who writes notes, and when.  A run of the agent ends with the           *)
(* extraction (memory/extractor.py), awaited, and with the consolidation   *)
(* (memory/consolidator.py), started in the background behind a gate and a *)
(* lock file that all processes of the project share; both ask the model   *)
(* for operations (memory/ops.py) and apply them.  The user's /memory and  *)
(* a failed edit (_observe_error_patterns) write as well.  Processes are   *)
(* killed and started again, and the time between things is what the       *)
(* thresholds tell apart.                                                  *)
(***************************************************************************)
EXTENDS MemoryStore

CONSTANT MaxEvents   \* bound: runs of the agent, operations, faults and steps of
                     \* the clock together

ASSUME MaxEventsAssumption == MaxEvents \in Nat

VARIABLES ran,      \* MemoryExtractor: extracted within EXTRACT_MIN_INTERVAL
          scanned,  \* MemoryConsolidator: looked within CONSOLIDATE_SCAN_THROTTLE
          made,     \* the two directories exist
          ending,   \* the end of a run: extraction, then gate
          con,      \* the consolidation of each process
          lock,     \* .consolidate-lock: the process in it, and its age
          events,
          shared,   \* history: two processes were inside _acquire_lock at once
          done      \* history: a consolidation has ended well within the day

clock == <<ran, scanned>>
claims == <<con, lock, shared, done>>
vars == <<store, now, clock, claims, events, made, ending>>

Happens == events < MaxEvents /\ events' = events + 1

(* The pid of a process that is gone is in the lock as Gone.               *)
Gone == "gone"
NoLock == [by |-> Gone, age |-> "none"]

ASSUME ProcsAssumption == None \notin Procs /\ Gone \notin Procs

(* fresh: younger than _LOCK_STALE_SECONDS; due: CONSOLIDATE_MIN_INTERVAL. *)
Ages == {"none", "fresh", "old", "due"}

Consolidating(p) == con[p] = "asked"
Acquiring(p) == now[p].at \in {"looked", "claimed"}

-----------------------------------------------------------------------------
(* The end of a run: maybe_extract, then maybe_consolidate.                *)

(* Whether the conversation has grown by EXTRACT_MIN_DELTA since the last  *)
(* extraction is left open.                                                *)
ShouldExtract(p) == ~ran[p]

EndRun(p) ==
  /\ ending[p] = "no" /\ Happens
  /\ \E extract \in BOOLEAN :
       /\ extract => ShouldExtract(p)
       /\ ending' = [ending EXCEPT ![p] = IF extract THEN "asked" ELSE "gate"]
       /\ made' = (made \/ extract)
       /\ cache' = IF extract THEN [cache EXCEPT ![p] = Listed(p)] ELSE cache
  /\ UNCHANGED <<notes, index, author, excused, now, clock, claims>>

(* Operations are applied in one go: nothing else of the process runs      *)
(* meanwhile.                                                              *)
BeginJob(p, job) ==
  /\ now' = [now EXCEPT ![p] = Applying(job)]
  /\ UNCHANGED <<store, clock, claims, events, made, ending>>

(* The reply: collect_ops_json turns what it cannot read into no           *)
(* operations.                                                             *)
ReplyTo(p) ==
  \/ ending[p] = "asked" /\ BeginJob(p, "extract")
  \/ /\ Consolidating(p) /\ \A q \in Procs : con[q] # "due"
     /\ BeginJob(p, "consolidate")

(* The user's /memory, and a failed edit or write of a file in a batch     *)
(* that came back.                                                         *)
CmdMemory(p) == BeginJob(p, "command")
ObserveErrorPatterns(p) == BeginJob(p, "pattern")

(* What each may do: /memory adds with the default line, deletes, or       *)
(* deletes all there is; a failure becomes a note for all projects, with a *)
(* line of its own.  The model may ask for anything.                       *)
Creates == {op \in Entries : op.action = "create"}
AddedByHand == {op \in Creates : op.line = op.text}
PatternMemory == {op \in Creates : op.root = "user" /\ op.line = Own}

EntriesOf(job) == CASE job = "command" -> AddedByHand
                    [] job = "pattern" -> PatternMemory
                    [] OTHER -> Entries
DeletesOf(job) == IF job = "pattern" THEN {} ELSE Deletes

(* A gate that takes an hour for a day.                                    *)
HourPassed == lock.age # "fresh"

DayPassed == lock.age \in {"none", "due"}

(* gate_ok: the throttle is set by the look, whatever comes of it.  The    *)
(* number of sessions is left open.  A process with a consolidation under  *)
(* way is taken to find the lock young.                                    *)
Gate(p) ==
  /\ ending[p] = "gate"
  /\ ending' = [ending EXCEPT ![p] = "no"]
  /\ scanned' = [scanned EXCEPT ![p] = scanned[p] \/ made]
  /\ \E enough \in BOOLEAN :
       con' = [con EXCEPT ![p] =
                 IF /\ made /\ ~scanned[p] /\ enough /\ con[p] = "no"
                    /\ DayPassed
                 THEN "due" ELSE con[p]]
  /\ UNCHANGED <<store, now, ran, lock, shared, done, events, made>>

-----------------------------------------------------------------------------
(* The lock: seen to be absent or stale, removed and written, read back.   *)

Stale == lock.age # "fresh" \/ lock.by = Gone

(* A process that takes the lock whatever its age.                         *)
LookForDead(p) ==
  /\ con[p] = "due"
  /\ now' = [now EXCEPT ![p] = [at |-> "looked"]]
  /\ shared' = (shared \/ \E q \in Procs : Acquiring(q))
  /\ UNCHANGED <<store, clock, con, lock, done, events, made, ending>>

Look(p) ==
  /\ con[p] = "due"
  /\ IF Stale
     THEN /\ now' = [now EXCEPT ![p] = [at |-> "looked"]]
          /\ shared' = (shared \/ \E q \in Procs : Acquiring(q))
          /\ UNCHANGED con
     ELSE /\ con' = [con EXCEPT ![p] = "no"]
          /\ UNCHANGED <<now, shared>>
  /\ UNCHANGED <<store, clock, lock, done, events, made, ending>>

Claim(p) ==
  /\ now[p].at = "looked"
  /\ lock' = [by |-> p, age |-> "fresh"]
  /\ now' = [now EXCEPT ![p] = [at |-> "claimed"]]
  /\ UNCHANGED <<store, clock, con, shared, done, events, made, ending>>

(* With the lock its own the process lists the notes and asks the model.   *)
Confirm(p) ==
  /\ now[p].at = "claimed"
  /\ now' = [now EXCEPT ![p] = Free]
  /\ IF lock.by = p
     THEN /\ con' = [con EXCEPT ![p] = "asked"]
          /\ cache' = [cache EXCEPT ![p] = Listed(p)]
     ELSE /\ con' = [con EXCEPT ![p] = "no"]
          /\ UNCHANGED cache
  /\ UNCHANGED <<notes, index, author, excused, clock, lock, shared, done, events,
                 made, ending>>

-----------------------------------------------------------------------------
(* The operations, and how a job ends.                                     *)

Operate(p) ==
  /\ now[p].at = "apply" /\ Happens
  /\ \/ \E op \in EntriesOf(now[p].job) : Valid(op) /\ (Skip(p, op) \/ WriteEntry(p, op))
     \/ \E op \in DeletesOf(now[p].job) : Skip(p, op) \/ Delete(p, op)
  /\ made' = (made \/ now'[p].at = "wrote")
  /\ UNCHANGED <<clock, claims, ending>>

UpdateIndex(p) ==
  /\ ReadIndex(p) \/ WriteIndex(p)
  /\ UNCHANGED <<clock, claims, events, made, ending>>

(* The lock stays as the mark of the last consolidation: _release_lock     *)
(* touches it, _rollback_lock_mtime sets it back by a day.                 *)
EndJob(p, well) ==
  /\ now' = [now EXCEPT ![p] = Free]
  /\ CASE now[p].job = "extract" ->
            /\ ran' = [ran EXCEPT ![p] = TRUE]
            /\ ending' = [ending EXCEPT ![p] = "gate"]
            /\ UNCHANGED claims
       [] now[p].job = "consolidate" ->
            /\ con' = [con EXCEPT ![p] = "no"]
            /\ lock' = [lock EXCEPT !.age = IF well THEN "fresh" ELSE "due"]
            /\ done' = (done \/ well)
            /\ UNCHANGED <<shared, ran, ending>>
       [] now[p].job \in {"command", "pattern"} -> UNCHANGED <<ran, ending, claims>>

Finish(p) ==
  /\ now[p].at = "apply"
  /\ EndJob(p, TRUE)
  /\ UNCHANGED <<store, scanned, events, made>>

(* A write to the note's file, or to the index after it, raises: the list  *)
(* is kept.                                                                *)
Fail(p) ==
  /\ now[p].at = "apply" \/ Writing(p)
  /\ Happens
  /\ excused' = LeftHalfway(p)
  /\ author' = Disowned(p)
  /\ EndJob(p, FALSE)
  /\ UNCHANGED <<notes, index, cache, scanned, made>>

(* The user cancels while the model is asked for the extraction: the run   *)
(* is over, without marks and without the gate.                            *)
CancelExtraction(p) ==
  /\ ending[p] = "asked" /\ now[p] = Free
  /\ Happens
  /\ ending' = [ending EXCEPT ![p] = "no"]
  /\ UNCHANGED <<store, now, clock, claims, made>>

(* The process is gone, and started again.  A consolidation that is        *)
(* cancelled with its event loop leaves the same.                          *)
Crash(p) ==
  /\ Happens
  /\ excused' = LeftHalfway(p)
  /\ now' = [now EXCEPT ![p] = Free]
  /\ cache' = [cache EXCEPT ![p] = NoCache]
  /\ ran' = [ran EXCEPT ![p] = FALSE]
  /\ scanned' = [scanned EXCEPT ![p] = FALSE]
  /\ ending' = [ending EXCEPT ![p] = "no"]
  /\ con' = [con EXCEPT ![p] = "no"]
  /\ lock' = [lock EXCEPT !.by = IF @ = p THEN Gone ELSE @]
  /\ UNCHANGED <<notes, index, author, shared, done, made>>

(* More than EXTRACT_MIN_INTERVAL and CONSOLIDATE_SCAN_THROTTLE pass, and  *)
(* the lock comes to its next age.  No process stands still for so long    *)
(* inside a step, and no request to the model lasts for a day.             *)
Older(age) == CASE age = "fresh" -> "old"
                [] age = "old" -> "due"
                [] OTHER -> age

Tick ==
  /\ Happens
  /\ \A p \in Procs : now[p] = Free /\ con[p] # "due"
  /\ lock.age = "old" => \A p \in Procs : ~Consolidating(p)
  /\ ran' = [p \in Procs |-> FALSE]
  /\ scanned' = [p \in Procs |-> FALSE]
  /\ lock' = [lock EXCEPT !.age = Older(@)]
  /\ IF lock.age = "old" THEN shared' = FALSE /\ done' = FALSE
                         ELSE UNCHANGED <<shared, done>>
  /\ UNCHANGED <<store, now, con, made, ending>>

Init ==
  /\ InitStore
  /\ now = [p \in Procs |-> Free]
  /\ ran = [p \in Procs |-> FALSE] /\ scanned = [p \in Procs |-> FALSE]
  /\ made = FALSE
  /\ ending = [p \in Procs |-> "no"] /\ con = [p \in Procs |-> "no"]
  /\ lock = NoLock
  /\ events = 0
  /\ shared = FALSE /\ done = FALSE

Start(p) ==
  /\ now[p] = Free
  /\ \/ EndRun(p) \/ Gate(p) \/ Look(p)
     \/ ReplyTo(p) \/ CmdMemory(p) \/ ObserveErrorPatterns(p)

Next ==
  \/ \E p \in Procs : \/ Start(p) \/ Claim(p) \/ Confirm(p) \/ Operate(p)
                      \/ UpdateIndex(p) \/ Finish(p) \/ Fail(p)
                      \/ CancelExtraction(p) \/ Crash(p)
  \/ Tick

Spec == Init /\ [][Next]_vars

-----------------------------------------------------------------------------
(* Two processes consolidate at once only when both were inside            *)
(* _acquire_lock at once: between the look at the lock and the write.      *)
OneConsolidation ==
  \A p, q \in Procs : Consolidating(p) /\ Consolidating(q) /\ p # q => shared

(* After a consolidation that ended well the next one starts a day later,  *)
(* unless two overlapped: the mark in the lock survives the processes.     *)
DayApart ==
  [][\A p \in Procs : Confirm(p) /\ con'[p] = "asked" /\ done => shared]_vars
=============================================================================
