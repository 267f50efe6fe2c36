---------------------------- MODULE ManagedHosts ----------------------------
(***************************************************************************)
(* The managed hosts of the installer (runManagedHost): each has its own   *)
(* directory and its own lock, so an operation on one never meets an       *)
(* operation on the other, and a behaviour is that of either.              *)
(***************************************************************************)
EXTENDS Naturals

CONSTANTS Versions, Nothing, MaxOps, MaxFaults, MaxEdits

ASSUME ManagedAssumption ==
  /\ Nothing \notin Versions
  /\ {MaxOps, MaxFaults, MaxEdits} \subseteq Nat

VARIABLES
  host, \* "claude" or "antigravity"
  place, backup, lock, step, op, prior, before, tx, outcome, lost, ops, faults, edits, cli

N == INSTANCE NativeHost  \* Claude
M == INSTANCE ModularHost \* Antigravity

Init ==
  \/ host = "claude" /\ N!Init
  \/ host = "antigravity" /\ M!Init /\ cli = N!Unregistered

Next ==
  /\ \/ host = "claude" /\ N!Next
     \/ host = "antigravity" /\ M!Next /\ UNCHANGED cli
  /\ UNCHANGED host

Spec == Init /\ [][Next]_<<host, N!vars>>

-----------------------------------------------------------------------------
\* Until an operation has committed its change, what was in each target is there or in a
\* backup, as many of its files as there were, also when it fails or dies: no failure
\* between two renames destroys it, and no kill, in the middle of a removal or not.
PreimageHeld == IF host = "claude" THEN N!PreimageHeld ELSE M!PreimageHeld

\* A tree the user has edited is never deleted while a check could still find the edit:
\* not by an update, a removal or a rollback.  Nor is it overwritten, but for the file he
\* saves where a rule was moved away: the rollback puts the rule back over it, also when
\* the check that made it roll back had found that file.
EditsHeld == IF host = "claude" THEN N!EditsHeld ELSE M!EditsHeld

\* An operation that ends with an error, its own or that of a cleaning up in its place,
\* has left files, registration and enabled state as it found them, unless its rollback
\* was incomplete or its change already committed.
FailureRestores == IF host = "claude" THEN N!FailureRestores ELSE M!FailureRestores

\* One that succeeds has done what it was asked for in every place, and keeps the
\* enabled state through an update.
SuccessMeans == IF host = "claude" THEN N!SuccessMeans ELSE M!SuccessMeans
=============================================================================
