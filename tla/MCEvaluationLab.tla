-------------------------- MODULE MCEvaluationLab --------------------------
(* One group of two conditions, so that a group can be complete while one  *)
(* retry is pending, two labs, and answers and versions that differ.       *)
EXTENDS EvaluationLab, TLC

CONSTANTS l1, l2, t1, t2, v1, v2

Symmetry == Permutations({l1, l2}) \cup Permutations({t1, t2}) \cup Permutations({v1, v2})
=============================================================================
