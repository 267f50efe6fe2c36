--------------------------- MODULE MCControlPlane ---------------------------
(***************************************************************************)
(* A small instance of ControlPlane for TLC.                               *)
(***************************************************************************)
EXTENDS ControlPlane, TLC

Symmetry == Permutations(Procs)

Control(id, type, payload, confirmed) ==
  [id |-> id, type |-> type, payload |-> payload, confirmed |-> confirmed]

\* A begin and what can follow it: a framing, confirmed or not; a claim of two
\* events, and its message id again with another payload; feedback; an end.
MCControls ==
  { Control("m1", "begin", "x", TRUE),
    Control("m2", "framing", "x", TRUE),
    Control("m2", "framing", "x", FALSE),
    Control("m3", "claim", "x", TRUE),
    Control("m3", "claim", "y", TRUE),
    Control("m4", "revise", "x", TRUE),
    Control("m5", "feedback", "x", TRUE),
    Control("m6", "cancel", "x", TRUE) }
=============================================================================
