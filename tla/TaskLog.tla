------------------------------ MODULE TaskLog ------------------------------
(***************************************************************************)
(* What the record store promises of one task: a log that grows by one     *)
(* legal event at a time, receipts for lines that are in it, and, once the *)
(* record has been lost to the quarantine, nothing more.  RecordStore is   *)
(* shown to implement this specification; the modules above the store      *)
(* (ControlPlane) take a task's log to behave like it.                     *)
(***************************************************************************)
EXTENDS TaskState

VARIABLES
  log,     \* the lines, in order
  acked,   \* the lines a receipt was returned for
  sealed   \* no line can be appended any more

Init == log = <<>> /\ acked = {} /\ ~sealed

\* One append, with a receipt or (the fsync failed, the process died) without.
\* A torn tail brings the recovery event, which has no receipt of its own.
Record(e) ==
  LET line == LineFor(log, Len(log) + 1, e)
  IN  /\ ~sealed
      /\ Applicable(Projection(log), e)
      /\ log' = Append(log, line)
      /\ acked' \in {acked, acked \cup {line}}
      /\ UNCHANGED sealed

\* The record is quarantined and not restored.
Seal == sealed' = TRUE /\ UNCHANGED <<log, acked>>

Next == Seal \/ \E e \in Events : Record(e)

Spec == Init /\ [][Next]_<<log, acked, sealed>>
=============================================================================
