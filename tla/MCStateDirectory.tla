------------------------- MODULE MCStateDirectory -------------------------
(***************************************************************************)
(* StateDirectory for TLC.                                                 *)
(***************************************************************************)
EXTENDS StateDirectory

\* Once two installers have held the lock at once, the operations that are under way
\* are followed to their end, and no other begins.
FollowSharing == shared => \A p \in Procs : pc[p] = "create" => attempt[p] > 0
=============================================================================
