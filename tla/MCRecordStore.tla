--------------------------- MODULE MCRecordStore ---------------------------
(***************************************************************************)
(* A small instance of RecordStore for TLC.                                *)
(***************************************************************************)
EXTENDS RecordStore

\* A start, two steps forward and an end: enough for a stale writer to be
\* refused by the transition rules as well as by its sequence.
MCKinds == {Event("task_started", "judgment"),
            Event("framing_published", "-"),
            Event("task_cancelled", "-")}
=============================================================================
