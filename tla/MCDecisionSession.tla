------------------------- MODULE MCDecisionSession -------------------------
(* Four methods: a weighted primary (1) with its complement (2), and the   *)
(* pair of a fallback (3, 4).  Payloads for each way a request can go.     *)
EXTENDS DecisionSession, TLC

CONSTANTS c1, c2

Weights(f, w) == [k \in Features |-> IF k = f THEN w ELSE 0]
Method(family, weights, contra, preferred, cost) ==
  [family |-> family, sections |-> {family}, positive |-> weights,
   negative |-> Weights(Mechanical, 3), minimum |-> 3, contra |-> {Mechanical} \cup contra,
   preferred |-> preferred, shapes |-> {"memo"}, cost |-> cost]
MCCatalogue ==
  <<Method(1, Weights("cue", 3), {"bar"}, 2, 5), Method(2, Weights("cue", 3), {}, Absent, 6),
    Method(3, Weights("doubt", 1), {"bar"}, 4, 5), Method(4, Weights("doubt", 1), {}, 3, 5)>>
MCFallbacks ==
  [s \in Shapes |-> [primary |-> 3, secondary |-> IF s = "memo" THEN 4 ELSE Absent]]

Entry(k, n) == [key |-> k, strength |-> n]
Judgment(locale, participation, entries, explicit) ==
  [decision |-> 1, locale |-> locale, participation |-> participation,
   routing |-> [shape |-> "memo", entries |-> entries, explicit |-> explicit]]
Cue == <<Entry("cue", 3)>>
MCAsked ==
  <<Judgment("en", "judgment", Cue, Absent),                                 \* 1 with 2
   Judgment("ko", "mixed", <<Entry("doubt", 1)>>, Absent),                  \* the fallback, 3 with 4
   Judgment("en", "judgment", <<Entry("cue", 2), Entry("bar", 1)>>, Absent), \* 2 alone: not 1
   Judgment("en", "judgment", <<Entry("cue", 2), Entry("?", 1)>>, Absent),  \* rejected
   Judgment("en", "judgment", <<Entry("bar", 1)>>, 3),                      \* must not be used
   Judgment("en", "judgment", <<Entry("doubt", 1), Entry("bar", 1)>>, Absent), \* no fallback
   Judgment("en", "judgment", Cue, 9),                                      \* does not exist
   Judgment("en", "mechanical", Cue, Absent)>>
MCJudgments == DOMAIN MCAsked
MCProjected == ((1 .. 4) \X {"en"}) \cup ((1 .. 3) \X {"ko"})
MCMethods == 1 .. 4

Symmetry == Permutations(Contexts)
=============================================================================
