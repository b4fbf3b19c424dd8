---------------------------- MODULE MemoryStore ----------------------------
(***************************************************************************)
(* The notes the agent keeps across sessions (memory/store.py): a file per *)
(* note in a user-wide and in a project-wide directory, an index of one    *)
(* line per note in each, and in every process a list of the notes, read   *)
(* when first needed and dropped after a write of its own.  A write to a   *)
(* note is two writes to files, and the index is read before it is         *)
(* written: processes interleave between them, and each may fail.          *)
(***************************************************************************)
EXTENDS Integers, FiniteSets, Sequences, TLC

CONSTANTS Procs,     \* processes at work on one project
          Names,     \* names of notes
          Texts,     \* descriptions of notes
          MaxLines   \* INDEX_MAX_LINES and INDEX_MAX_BYTES: lines an index keeps

ASSUME MaxLinesAssumption == MaxLines \in Nat \ {0}

VARIABLES notes,     \* the files: root -> name -> description, None without one
          index,     \* the lines of MEMORY.md in each root
          cache,     \* MemoryStore._cache of each process
          now,       \* what a process does without giving up its thread
          author,    \* history: the process that wrote each note, with its line
          excused    \* history: notes whose line a failure, an overlap or the
                     \* limit has taken

store == <<notes, index, cache, author, excused>>

(* The four types of a note are two per root, see _scope_root.             *)
Roots == {"user", "project"}
None == "none"
NoCache == [unread |-> TRUE]

(* index_line is given by the model, or it is the default with the         *)
(* description in it.  A file has no place for it: what parse_memory       *)
(* returns has the default one.                                            *)
Own == "own"
Line(name, text) == [name |-> name, text |-> text]
Entries == [action : {"create", "update"}, root : Roots, name : Names, text : Texts,
            line : Texts \cup {Own}]
Valid(op) == op.line \in {op.text, Own}
Deletes == [action : {"delete"}, name : Names]

Empty == [root \in Roots |-> [name \in Names |-> None]]
NoteAt(root, name) == <<root, name>>

Free == [at |-> "free"]
Applying(job) == [at |-> "apply", job |-> job]
AtWork(p) == now[p] # Free
Writing(p) == now[p].at \in {"wrote", "read"}

-----------------------------------------------------------------------------
(* What a process sees: list_all and read.                                 *)

Listed(p) == IF cache[p] = NoCache THEN notes ELSE cache[p]

Holders(list, name) == {root \in Roots : list[root][name] # None}
Known(list, name) == Holders(list, name) # {}
FirstHolder(list, name) == IF "user" \in Holders(list, name) THEN "user" ELSE "project"

HasLine(lines, name) == \E i \in DOMAIN lines : lines[i].name = name

(* _append_index_line, _remove_index_line and the cut of _write_index.     *)
Without(lines, line) ==
  LET kept[i \in 0..Len(lines)] == IF i = 0 THEN <<>>
                                   ELSE IF lines[i] = line THEN kept[i - 1]
                                   ELSE Append(kept[i - 1], lines[i])
  IN  kept[Len(lines)]

(* A cut that keeps the oldest lines instead.                              *)
Oldest(lines) == IF Len(lines) <= MaxLines THEN lines ELSE SubSeq(lines, 1, MaxLines)

Newest(lines) ==
  IF Len(lines) <= MaxLines THEN lines
  ELSE SubSeq(lines, Len(lines) - MaxLines + 1, Len(lines))

Rewritten(lines, entry) ==
  LET others == Without(lines, entry.line)
  IN  Newest(IF entry.added THEN Append(others, entry.line) ELSE others)

-----------------------------------------------------------------------------
(* An operation: the check against the list and the write to the note's    *)
(* file, then the index read, then written, then the list dropped.         *)

Entry(p, added, root, line) ==
  [at |-> "wrote", job |-> now[p].job, added |-> added, root |-> root, line |-> line]

BeingRemoved(p, root, name) ==
  \E q \in Procs \ {p} : /\ Writing(q)
                         /\ now[q].root = root /\ now[q].line.name = name
                         /\ ~now[q].added

(* create leaves a known name alone, update and delete an unknown one.     *)
Skip(p, op) ==
  /\ (op.action = "create") = Known(Listed(p), op.name)
  /\ cache' = [cache EXCEPT ![p] = Listed(p)]
  /\ UNCHANGED <<notes, index, now, author, excused>>

Write(p, op) ==
  /\ (op.action = "create") # Known(Listed(p), op.name)
  /\ cache' = [cache EXCEPT ![p] = Listed(p)]
  /\ notes' = [notes EXCEPT ![op.root][op.name] = op.text]
  /\ author' = [author EXCEPT ![op.root][op.name] = p]
  /\ now' = [now EXCEPT ![p] = Entry(p, TRUE, op.root, Line(op.name, op.line))]
  /\ excused' = IF BeingRemoved(p, op.root, op.name)
                THEN excused \cup {NoteAt(op.root, op.name)} ELSE excused
  /\ UNCHANGED index

WriteEntry(p, op) == /\ op.action # "delete"
                     /\ Valid(op)
                     /\ Write(p, op)

Delete(p, op) ==
  LET root == FirstHolder(Listed(p), op.name)
  IN  /\ op.action = "delete"
      /\ Known(Listed(p), op.name)
      /\ cache' = [cache EXCEPT ![p] = Listed(p)]
      /\ notes' = [notes EXCEPT ![root][op.name] = None]
      /\ now' = [now EXCEPT ![p] = Entry(p, FALSE, root, Line(op.name, Listed(p)[root][op.name]))]
      /\ UNCHANGED <<index, author, excused>>

ReadIndex(p) ==
  /\ now[p].at = "wrote"
  /\ now' = [now EXCEPT ![p] = [at |-> "read", job |-> now[p].job, added |-> now[p].added,
                                root |-> now[p].root, line |-> now[p].line,
                                lines |-> index[now[p].root]]]
  /\ UNCHANGED store

(* The lines another process added meanwhile are overwritten; an index at  *)
(* its limit loses the oldest.                                             *)
LinesLost(p) ==
  LET root == now[p].root
      others == Without(now[p].lines, now[p].line)
      kept == Rewritten(now[p].lines, now[p])
      Missing(lines) == {NoteAt(root, name) :
                        name \in {n \in Names : HasLine(lines, n) /\ ~HasLine(kept, n)}}
  IN  (IF now[p].lines # index[root] THEN Missing(index[root]) ELSE {})
      \cup (IF now[p].added /\ Len(others) >= MaxLines THEN Missing(others) ELSE {})

Relisted(p) ==
  IF now[p].added /\ ~BeingRemoved(p, now[p].root, now[p].line.name)
  THEN {NoteAt(now[p].root, now[p].line.name)} ELSE {}

(* A write that keeps the list: a later create would not see the note.     *)
WriteIndexKeepingList(p) ==
  LET root == now[p].root
  IN  /\ now[p].at = "read"
      /\ index' = [index EXCEPT ![root] = Rewritten(now[p].lines, now[p])]
      /\ excused' = (excused \ Relisted(p)) \cup LinesLost(p)
      /\ now' = [now EXCEPT ![p] = Applying(now[p].job)]
      /\ UNCHANGED <<notes, cache, author>>

WriteIndex(p) ==
  LET root == now[p].root
  IN  /\ now[p].at = "read"
      /\ index' = [index EXCEPT ![root] = Rewritten(now[p].lines, now[p])]
      /\ cache' = [cache EXCEPT ![p] = NoCache]
      /\ excused' = (excused \ Relisted(p)) \cup LinesLost(p)
      /\ now' = [now EXCEPT ![p] = Applying(now[p].job)]
      /\ UNCHANGED <<notes, author>>

(* What a failure or a crash between the two writes leaves behind.         *)
LeftHalfway(p) ==
  IF Writing(p) /\ now[p].added
  THEN excused \cup {NoteAt(now[p].root, now[p].line.name)} ELSE excused

(* A failure keeps the list, without the note it was about: the write of   *)
(* that one counts as nobody's.                                            *)
Disowned(p) ==
  IF Writing(p) /\ now[p].added
  THEN [author EXCEPT ![now[p].root][now[p].line.name] = IF @ = p THEN None ELSE @]
  ELSE author

InitStore ==
  /\ notes = Empty
  /\ index = [root \in Roots |-> <<>>]
  /\ cache = [p \in Procs |-> NoCache]
  /\ author = Empty
  /\ excused = {}

-----------------------------------------------------------------------------
(* Every note has a line in the index of its root, which is what the model *)
(* is shown: one is missing only where a write failed halfway, another     *)
(* process wrote the index meanwhile, or the index is at its limit.        *)
NoteIndexed ==
  \A root \in Roots, name \in Names :
    notes[root][name] # None =>
      \/ HasLine(index[root], name)
      \/ NoteAt(root, name) \in excused
      \/ \E p \in Procs : /\ Writing(p) /\ now[p].added
                          /\ now[p].root = root /\ now[p].line.name = name

(* A create never replaces a note its own process has written, note and    *)
(* line: each write drops the list a later create is checked against, and  *)
(* nothing else hides the note from it.  One of another process it may     *)
(* replace.                                                                *)
CreateKeepsOwn ==
  [][\A op \in Entries, p \in Procs :
       /\ op.action = "create"
       /\ now[p].at = "apply"
       /\ WriteEntry(p, op)
       => notes[op.root][op.name] = None \/ author[op.root][op.name] # p]_<<store, now>>
=============================================================================
