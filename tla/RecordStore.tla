---------------------------- MODULE RecordStore ----------------------------
(***************************************************************************)
(* One task record shared by short-lived processes: the JSONL file, its    *)
(* quarantine directory and its advisory lock (persistence/jsonl_store.py, *)
(* atomic.py, quarantine.py, locks.py), under the reducer-checked          *)
(* repository of task_store.py.                                            *)
(*                                                                         *)
(* A process plays the part of one hook or CLI run: it takes a snapshot,   *)
(* numbers its events from it, and appends them one at a time; each append *)
(* replays the log first (taking and dropping the lock), then locks again  *)
(* to write.  Reads repair a torn tail too.                                *)
(*                                                                         *)
(* Faults come from a budget: a short write, a failed fsync, a failed      *)
(* rename or restore, a process killed at any step.  Damage (a complete    *)
(* line that no longer validates) has a budget of its own.                 *)
(***************************************************************************)
EXTENDS TaskState

CONSTANTS Procs,      \* processes that share the data root
          Kinds,      \* the events they append
          NoProc,     \* the lock's owner when it is free
          MaxEvents,  \* bound on the sequence an event is submitted with
          MaxFaults,  \* bound on crashes and failed system calls
          MaxDamage   \* bound on damaged records

ASSUME KindsAreEvents == Kinds \subseteq Events \ {Recovered}
ASSUME NoProcIsNotAProcess == NoProc \notin Procs
ASSUME BoundsAreNaturals == MaxEvents \in Nat /\ MaxFaults \in Nat /\ MaxDamage \in Nat

VARIABLES
  file,     \* the record: does it exist, its complete lines, a torn tail, damage
  vault,    \* the quarantine directory: reason and complete lines of each file
  lock,     \* the process holding the task's FileLock, or NoProc
  pc,       \* the next step of each process
  call,     \* what the process is in the middle of
  kept,     \* the prefix a recovering process holds in memory
  next,     \* the sequence the process gives its next event; 0 before a snapshot
  started,  \* has task_started been submitted?  (a begin uses a fresh task id)
  log,      \* every line that ever became durable, in order (history)
  acked,    \* lines whose append returned a receipt (history)
  faults, damage

vars == <<file, vault, lock, pc, call, kept, next, started, log, acked, faults, damage>>

-----------------------------------------------------------------------------
(***************************************************************************)
(* The record file, as its readers find it.                                *)
(***************************************************************************)
NoFile == [exists |-> FALSE, lines |-> <<>>, torn |-> FALSE, damaged |-> FALSE]
Intact(ls) == [exists |-> TRUE, lines |-> ls, torn |-> FALSE, damaged |-> FALSE]
Files == [exists : BOOLEAN, lines : Seq(Line), torn : BOOLEAN, damaged : BOOLEAN]
Reasons == {"torn_tail", "mid_file_corruption"}

\* _has_blocking_quarantine: any quarantined file but a torn tail's.
Blocked == \E v \in vault : v.reason # "torn_tail"

Idle == [op |-> "none", event |-> Recovered, seq |-> 0]
Calls == [op : {"none", "snapshot", "preflight", "append"}, event : Events, seq : Nat]
Steps == {"idle", "look", "lock", "held", "restore", "marker", "gate", "write"}
Locked == {"held", "restore", "marker", "write"}

Init ==
  /\ file = NoFile
  /\ vault = {}
  /\ lock = NoProc
  /\ pc = [p \in Procs |-> "idle"]
  /\ call = [p \in Procs |-> Idle]
  /\ kept = [p \in Procs |-> <<>>]
  /\ next = [p \in Procs |-> 0]
  /\ started = FALSE
  /\ log = <<>>
  /\ acked = {}
  /\ faults = 0
  /\ damage = 0

-----------------------------------------------------------------------------
(***************************************************************************)
(* Control flow of one process.                                            *)
(***************************************************************************)
Goto(p, step) == pc' = [pc EXCEPT ![p] = step]

\* Leave the call, dropping the lock if it is held; n is the next sequence.
Leave(p, n) ==
  /\ Goto(p, "idle")
  /\ lock' = IF lock = p THEN NoProc ELSE lock
  /\ call' = [call EXCEPT ![p] = Idle]
  /\ kept' = [kept EXCEPT ![p] = <<>>]
  /\ next' = [next EXCEPT ![p] = n]

\* Mutant: an error path that forgets to unlock.
RaiseHolding(p) ==
  /\ Goto(p, "idle")
  /\ call' = [call EXCEPT ![p] = Idle]
  /\ kept' = [kept EXCEPT ![p] = <<>>]
  /\ next' = [next EXCEPT ![p] = 0]
  /\ UNCHANGED lock

\* An exception ends the control: its events are numbered afresh next time.
Raise(p) == Leave(p, 0)

Fault == /\ faults < MaxFaults
         /\ faults' = faults + 1

\* reduce_events over the loaded events and the candidate.
Replayable(ls, c) == /\ c.seq = Len(ls) + 1
                     /\ Applicable(Projection(ls), c.event)

\* read_events returned ls, to a snapshot or to the preflight of an append.
Returned(p, ls) ==
  IF call[p].op = "snapshot"
  THEN Leave(p, IF ls = <<>> THEN 0 ELSE Len(ls) + 1)
  ELSE IF Replayable(ls, call[p])
       THEN /\ Goto(p, "gate")
            /\ lock' = IF lock = p THEN NoProc ELSE lock
            /\ call' = [call EXCEPT ![p].op = "append"]
            /\ kept' = [kept EXCEPT ![p] = <<>>]
            /\ UNCHANGED next
       ELSE Raise(p)

Begin(p, op, e, s) ==
  /\ pc[p] = "idle"
  /\ Goto(p, "look")
  /\ call' = [call EXCEPT ![p] = [op |-> op, event |-> e, seq |-> s]]
  /\ UNCHANGED <<file, vault, lock, kept, log, acked, faults, damage>>

\* TaskStore.snapshot.
Snapshot(p) == Begin(p, "snapshot", Recovered, 0) /\ UNCHANGED <<next, started>>

\* A begin appends task_started, sequence 1, to a task id nobody used before.
Start(p) ==
  /\ ~started
  /\ started' = TRUE
  /\ next' = [next EXCEPT ![p] = 1]
  /\ \E e \in Kinds : e.type = "task_started" /\ Begin(p, "preflight", e, 1)

\* TaskStore.append of a later event, numbered from the snapshot.
Submit(p) ==
  /\ next[p] \in 1..MaxEvents
  /\ \E e \in Kinds : e.type # "task_started" /\ Begin(p, "preflight", e, next[p])
  /\ UNCHANGED <<next, started>>

-----------------------------------------------------------------------------
(***************************************************************************)
(* read_events before the lock, and the gate of append: the existence test *)
(* and the scan of the quarantine directory take no lock.                  *)
(***************************************************************************)
Look(p) ==
  /\ pc[p] = "look"
  /\ IF file.exists
     THEN Goto(p, "lock") /\ UNCHANGED <<lock, call, kept, next>>
     ELSE IF Blocked THEN Raise(p) ELSE Returned(p, <<>>)
  /\ UNCHANGED <<file, vault, started, log, acked, faults, damage>>

Gate(p) ==
  /\ pc[p] = "gate"
  /\ IF Blocked /\ ~file.exists
     THEN Raise(p)
     ELSE Goto(p, "lock") /\ UNCHANGED <<lock, call, kept, next>>
  /\ UNCHANGED <<file, vault, started, log, acked, faults, damage>>

Acquire(p) ==
  /\ pc[p] = "lock"
  /\ lock = NoProc
  /\ lock' = p
  /\ Goto(p, "held")
  /\ UNCHANGED <<file, vault, call, kept, next, started, log, acked, faults, damage>>

\* Mutant: a lock without a deadline.
TimeoutNever(p) == FALSE /\ UNCHANGED vars

\* The deadline passes while another process holds the lock.
Timeout(p) ==
  /\ pc[p] = "lock"
  /\ lock # NoProc
  /\ Raise(p)
  /\ UNCHANGED <<file, vault, started, log, acked, faults, damage>>

-----------------------------------------------------------------------------
(***************************************************************************)
(* Under the lock: what the bytes turn out to be.                          *)
(***************************************************************************)
\* Mutant: the torn or damaged file is deleted, not moved.
MoveDeletes(reason) == file' = NoFile /\ UNCHANGED vault

Move(reason) ==
  /\ file' = NoFile
  /\ vault' = vault \cup {[reason |-> reason, lines |-> file.lines]}

\* _validate_lines refused a complete line: the whole file goes to quarantine.
QuarantineDamaged(p) ==
  /\ pc[p] = "held"
  /\ file.damaged
  /\ Move("mid_file_corruption")
  /\ Raise(p)
  /\ UNCHANGED <<started, log, acked, faults, damage>>

\* A torn first line leaves nothing to restore.
QuarantineTorn(p) ==
  /\ pc[p] = "held"
  /\ ~file.damaged /\ file.torn /\ file.lines = <<>>
  /\ Move("torn_tail")
  /\ Raise(p)
  /\ UNCHANGED <<started, log, acked, faults, damage>>

\* recover_prefix, first half: the torn file is renamed away.
SetAside(p) ==
  /\ pc[p] = "held"
  /\ ~file.damaged /\ file.torn /\ file.lines # <<>>
  /\ kept' = [kept EXCEPT ![p] = file.lines]
  /\ Move("torn_tail")
  /\ Goto(p, "restore")
  /\ UNCHANGED <<lock, call, next, started, log, acked, faults, damage>>

\* The rename of any of the three fails.
RenameFails(p) ==
  /\ pc[p] = "held"
  /\ file.damaged \/ file.torn
  /\ Raise(p)
  /\ Fault
  /\ UNCHANGED <<file, vault, started, log, acked, damage>>

\* Mutant: the prefix is cut one line short.
RestoreShort(p) ==
  /\ pc[p] = "restore"
  /\ file' = Intact(SubSeq(kept[p], 1, Len(kept[p]) - 1))
  /\ kept' = [kept EXCEPT ![p] = <<>>]
  /\ Goto(p, "marker")
  /\ UNCHANGED <<vault, lock, call, next, started, log, acked, faults, damage>>

\* recover_prefix, second half: the complete prefix replaces the file.
Restore(p) ==
  /\ pc[p] = "restore"
  /\ file' = Intact(kept[p])
  /\ kept' = [kept EXCEPT ![p] = <<>>]
  /\ Goto(p, "marker")
  /\ UNCHANGED <<vault, lock, call, next, started, log, acked, faults, damage>>

RestoreFails(p) ==
  /\ pc[p] = "restore"
  /\ Raise(p)
  /\ Fault
  /\ UNCHANGED <<file, vault, started, log, acked, damage>>

\* A reader finds nothing, or an intact log.
ReadIntact(p) ==
  /\ pc[p] = "held"
  /\ call[p].op \in {"snapshot", "preflight"}
  /\ ~file.damaged /\ ~file.torn
  /\ Returned(p, file.lines)
  /\ UNCHANGED <<file, vault, started, log, acked, faults, damage>>

\* Mutant: the preflight's word is taken for it that the sequence follows.
CheckSequenceTrusting(p) ==
  /\ pc[p] = "held"
  /\ call[p].op = "append"
  /\ ~file.damaged /\ ~file.torn
  /\ Goto(p, "write")
  /\ UNCHANGED <<file, vault, lock, call, kept, next, started, log, acked, faults, damage>>

\* Mutant: an empty log takes an event of any sequence.
CheckSequenceUnlessEmpty(p) ==
  /\ pc[p] = "held"
  /\ call[p].op = "append"
  /\ ~file.damaged /\ ~file.torn
  /\ IF file.lines = <<>> \/ call[p].seq = Len(file.lines) + 1
     THEN Goto(p, "write") /\ UNCHANGED <<lock, call, kept, next>>
     ELSE Raise(p)
  /\ UNCHANGED <<file, vault, started, log, acked, faults, damage>>

\* A writer finds an intact or empty log that its sequence follows, or not.
CheckSequence(p) ==
  /\ pc[p] = "held"
  /\ call[p].op = "append"
  /\ ~file.damaged /\ ~file.torn
  /\ IF call[p].seq = Len(file.lines) + 1
     THEN Goto(p, "write") /\ UNCHANGED <<lock, call, kept, next>>
     ELSE Raise(p)
  /\ UNCHANGED <<file, vault, started, log, acked, faults, damage>>

-----------------------------------------------------------------------------
(***************************************************************************)
(* append_fsync: the write a process is at, and the ways it can end.       *)
(***************************************************************************)
Writing(p) == pc[p] \in {"marker", "write"}

\* The line about to be written: the recovery event, or the caller's event.
Pending(p) == IF pc[p] = "marker" THEN LineFor(file.lines, Len(file.lines) + 1, Recovered)
                                  ELSE LineFor(file.lines, call[p].seq, call[p].event)

\* The whole line is in the file, for good unless the call discards the file.
Durable(p) == /\ file' = Intact(Append(file.lines, Pending(p)))
              /\ log' = Append(log, Pending(p))

\* Only a part of the line is.
Torn == /\ file' = [file EXCEPT !.exists = TRUE, !.torn = TRUE]
        /\ UNCHANGED log

\* The recovery event is written.  A reader returns it with the prefix.  A writer
\* goes on if its sequence was taken by the recovery event, whereupon its event
\* is renumbered, or follows it.
AppendRecovery(p) ==
  /\ pc[p] = "marker"
  /\ Durable(p)
  /\ LET n == Len(file.lines) + 1
     IN  IF call[p].op # "append" THEN Returned(p, file'.lines)
         ELSE IF call[p].seq \in {n, n + 1}
              THEN /\ Goto(p, "write")
                   /\ call' = [call EXCEPT ![p].seq = n + 1]
                   /\ UNCHANGED <<lock, kept, next>>
              ELSE Raise(p)
  /\ UNCHANGED <<vault, started, acked, faults, damage>>

\* The event is written and its receipt returned.  The rest of the caller's
\* batch was numbered before any of it was appended, renumbering or not.
AppendEvent(p) ==
  /\ pc[p] = "write"
  /\ Durable(p)
  /\ acked' = acked \cup {Pending(p)}
  /\ Leave(p, next[p] + 1)
  /\ UNCHANGED <<vault, started, faults, damage>>

\* The open fails, the write is short or the fsync fails; each raises.  A file
\* this very call created is discarded, so that no file is left.
AppendFails(p) ==
  /\ Writing(p)
  /\ \/ UNCHANGED <<file, log>>
     \/ file.exists /\ (Torn \/ Durable(p))
  /\ Raise(p)
  /\ Fault
  /\ UNCHANGED <<vault, started, acked, damage>>

-----------------------------------------------------------------------------
(***************************************************************************)
(* A killed process lets go of its lock.  Inside append_fsync the file may *)
(* have been created, partly written or wholly written, and stays so.      *)
(***************************************************************************)
Created == /\ file' = [file EXCEPT !.exists = TRUE]
           /\ UNCHANGED log

Crash(p) ==
  /\ pc[p] # "idle"
  /\ \/ UNCHANGED <<file, log>>
     \/ Writing(p) /\ (Created \/ Torn \/ Durable(p))
  /\ Raise(p)
  /\ Fault
  /\ UNCHANGED <<vault, started, acked, damage>>

\* A complete line stops validating, at a moment when nobody holds the lock.
Damage ==
  /\ damage < MaxDamage
  /\ lock = NoProc
  /\ file.lines # <<>>
  /\ file' = [file EXCEPT !.damaged = TRUE]
  /\ damage' = damage + 1
  /\ UNCHANGED <<vault, lock, pc, call, kept, next, started, log, acked, faults>>

Request(p) == Snapshot(p) \/ Start(p) \/ Submit(p)

Advance(p) ==
  \/ Look(p) \/ Gate(p) \/ Acquire(p) \/ Timeout(p)
  \/ QuarantineDamaged(p) \/ QuarantineTorn(p) \/ SetAside(p)
  \/ Restore(p) \/ ReadIntact(p) \/ CheckSequence(p)
  \/ AppendRecovery(p) \/ AppendEvent(p)

Fails(p) == RenameFails(p) \/ RestoreFails(p) \/ AppendFails(p) \/ Crash(p)

Next == \/ \E p \in Procs : Request(p) \/ Advance(p) \/ Fails(p)
        \/ Damage

Spec == Init /\ [][Next]_vars

\* A process the host has started keeps running its call; nothing obliges a
\* host to issue another one, and faults need not happen.
FairSpec == Spec /\ \A p \in Procs : WF_vars(Advance(p))

-----------------------------------------------------------------------------
(***************************************************************************)
(* Properties.                                                             *)
(***************************************************************************)
\* Wherever the lines of this task are: on disk, in quarantine, in memory.
Copies == {file.lines} \cup {v.lines : v \in vault} \cup {kept[p] : p \in Procs}

\* Types, and a record that is not there has no content.
TypeOK ==
  /\ file \in Files /\ (~file.exists => file = NoFile)
  /\ vault \subseteq [reason : Reasons, lines : Seq(Line)]
  /\ lock \in Procs \cup {NoProc}
  /\ pc \in [Procs -> Steps]
  /\ call \in [Procs -> Calls]
  /\ kept \in [Procs -> Seq(Line)]
  /\ next \in [Procs -> Nat]
  /\ started \in BOOLEAN
  /\ log \in Seq(Line)
  /\ acked \subseteq Line
  /\ faults \in 0..MaxFaults
  /\ damage \in 0..MaxDamage

\* The log up to line i replays to the projection line i records, legally.
Replays(ls) ==
  \A i \in 1..Len(ls) :
    /\ ls[i].seq = i
    /\ ls[i].after # Illegal
    /\ ls[i].after = Apply(IF i = 1 THEN NewTask ELSE ls[i - 1].after, ls[i].event)

\* However preflights and appends of several processes interleave, and whatever
\* fails, every surviving copy of the log replays: contiguous sequences and no
\* transition the reducer refuses (TaskStore.append replays before it locks).
LogReplayable == \A c \in Copies : Replays(c)

IsPrefixOf(c, d) == Len(c) <= Len(d) /\ \A i \in 1..Len(c) : c[i] = d[i]

\* There is one history: no copy, live or quarantined, ever contradicts it.
OneHistory == \A c \in Copies : IsPrefixOf(c, log)

\* A line whose receipt was returned is never destroyed: recovery may move it to
\* quarantine or hold it in memory, but some copy always has it in its place.
AckedPreserved ==
  \A a \in acked : \E c \in Copies : a.seq \in 1..Len(c) /\ c[a.seq] = a

\* Only recovery brings a record back: one that had lines and is gone, with no
\* process about to restore it, is gone for good ("a new task id is required").
Gone == /\ log # <<>>
        /\ file.lines = <<>>
        /\ \A p \in Procs : pc[p] # "restore"
GoneForever == [][Gone => Gone']_vars

\* The store keeps what TaskLog promises of a task, whatever interleaves or fails.
Promised == INSTANCE TaskLog WITH sealed <- Gone
Implements == Promised!Spec

\* Every holder drops the lock, on the error paths too.
LockReleased == \A p \in Procs : lock = p ~> lock # p

\* Every call returns, even if the lock is always busy when it is tried.
CallsReturn == \A p \in Procs : pc[p] # "idle" ~> pc[p] = "idle"

\* What "one authoritative append-only file" promises (the class comment of
\* JsonlRecordStore): acknowledged lines stay in the live record, or in the
\* hands of the process that is restoring it.
Live == IF file.exists THEN file.lines
        ELSE LET R == {p \in Procs : pc[p] = "restore"}
             IN  IF R = {} THEN <<>> ELSE kept[CHOOSE p \in R : TRUE]
AckedLive == \A a \in acked : a.seq \in 1..Len(Live) /\ Live[a.seq] = a
=============================================================================
