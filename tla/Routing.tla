------------------------------ MODULE Routing ------------------------------
(***************************************************************************)
(* How the methods for a judgment are chosen (domain/routing.py): a pure   *)
(* function of the participation, the routing features the agent submits   *)
(* and the catalogue.  Used by DecisionSession.                            *)
(*                                                                         *)
(* A method is a number, its place among the sorted identifiers, which is  *)
(* the last tie-break of the ranking.  incompatible_secondary, which every *)
(* catalogue must leave empty, and the explicit method of a                *)
(* ParticipationDecision, which a decision point never passes, are left    *)
(* out.                                                                    *)
(***************************************************************************)
EXTENDS Integers, FiniteSets, Sequences, FiniteSetsExt

CONSTANTS
  Methods,     \* the catalogue's methods, by their place in the order of identifiers
  Catalogue,   \* for each method, its RouteMethod
  Features,    \* the closed feature keys
  Mechanical,  \* the one that says there is nothing to judge
  Uncertainty, \* those that make an uncertainty explicit
  Shapes,      \* the closed answer shapes
  Memo,        \* decision_memo
  Fallbacks,   \* for each shape, the methods when no method is eligible
  MaxEntries,  \* entries a list of features may have (16)
  Absent       \* null

RouteMethods ==
  [family : Nat, sections : SUBSET Nat, positive : [Features -> 0 .. 3],
   negative : [Features -> 0 .. 3], minimum : 3 .. 9, contra : SUBSET Features,
   preferred : Nat \cup {Absent}, shapes : SUBSET Shapes, cost : Nat]

ASSUME RoutingAssumption ==
  /\ Methods \subseteq Nat \ {0} /\ Methods # {} /\ IsFiniteSet(Methods) /\ Absent \notin Nat
  /\ Mechanical \in Features /\ Uncertainty \subseteq Features /\ IsFiniteSet(Features)
  /\ Memo \in Shapes /\ MaxEntries \in Nat
  /\ Fallbacks \in [Shapes -> [primary : Nat, secondary : Nat \cup {Absent}]]
  /\ DOMAIN Catalogue = Methods
  /\ \A m \in Methods : Catalogue[m] \in RouteMethods /\ Mechanical \in Catalogue[m].contra

-----------------------------------------------------------------------------
(* The boundary: a payload is a shape, a list of entries and perhaps a     *)
(* method the user asked for.  One unknown, repeated or badly weighted     *)
(* entry spoils the whole list: it may conceal a contraindication.         *)

EntryValid(e) == e.key \in Features /\ e.strength \in 1 .. 3
PayloadValid(p) ==
  /\ p.shape \in Shapes
  /\ Len(p.entries) <= MaxEntries
  /\ \A i \in DOMAIN p.entries : EntryValid(p.entries[i])
  /\ \A i, j \in DOMAIN p.entries : p.entries[i].key = p.entries[j].key => i = j

Keys(p) == {p.entries[i].key : i \in DOMAIN p.entries}
Strength(p, k) == p.entries[CHOOSE i \in DOMAIN p.entries : p.entries[i].key = k].strength

-----------------------------------------------------------------------------
(* The score of one method. *)

Active(m, p) == Catalogue[m].contra \cap Keys(p)
Penalty(m, k) ==
  IF k = Mechanical /\ Catalogue[m].negative[k] = 0 THEN 3 ELSE Catalogue[m].negative[k]
Score(m, p) ==
  MapThenSumSet(LAMBDA k : (Catalogue[m].positive[k] - Penalty(m, k)) * Strength(p, k), Keys(p))
    - 12 * Cardinality(Active(m, p))
Exact(m, p) == p.shape \in Catalogue[m].shapes

Eligible(p) ==
  {m \in Methods : Active(m, p) = {} /\ Score(m, p) >= Catalogue[m].minimum}

\* The sort key: score, exact shape, cost, identifier.  (No eligible method has
\* an active contraindication to be compared by.)
Precedes(m, n, p) ==
  \/ Score(m, p) > Score(n, p)
  \/ /\ Score(m, p) = Score(n, p)
     /\ \/ Exact(m, p) /\ ~Exact(n, p)
        \/ /\ Exact(m, p) = Exact(n, p)
           /\ \/ Catalogue[m].cost < Catalogue[n].cost
              \/ Catalogue[m].cost = Catalogue[n].cost /\ m < n
First(S, p) == CHOOSE m \in S : \A n \in S \ {m} : Precedes(m, n, p)

Compatible(m, n) ==
  /\ Catalogue[m].family # Catalogue[n].family
  /\ Catalogue[m].preferred = n \/ Catalogue[n].preferred = m
Nonredundant(m, n) ==
  IF Catalogue[m].sections # {} /\ Catalogue[n].sections # {}
  THEN Catalogue[m].sections # Catalogue[n].sections
  ELSE Catalogue[m].family # Catalogue[n].family

Complements(m, p) ==
  {n \in Eligible(p) \ {m} : /\ Score(n, p) * 5 >= Score(m, p) * 4
                             /\ Compatible(m, n)
                             /\ Nonredundant(m, n)}

-----------------------------------------------------------------------------
(* The decision: at most one method and one that complements it. *)

NoRoute(reason) == [primary |-> Absent, secondary |-> Absent, reason |-> reason]
Alone(m, reason) == [primary |-> m, secondary |-> Absent, reason |-> reason]

Weighted(p) ==
  LET m == First(Eligible(p), p)
  IN  IF Complements(m, p) = {} THEN Alone(m, "weighted_primary")
      ELSE [primary |-> m, secondary |-> First(Complements(m, p), p),
            reason |-> "weighted_primary_with_complement"]

\* Mutant: the pair of a fallback is not looked at again.
SuitableIfKnown(m, p) == m \in Methods

Suitable(m, p) == m \in Methods /\ Active(m, p) = {}

Fallback(p) ==
  LET f == Fallbacks[p.shape]
      paired == /\ p.shape = Memo => Uncertainty \cap Keys(p) # {}
                /\ Suitable(f.secondary, p)
  IN  IF ~Suitable(f.primary, p) THEN NoRoute("no_eligible_method")
      ELSE [primary |-> f.primary, secondary |-> IF paired THEN f.secondary ELSE Absent,
            reason |-> "answer_shape_fallback"]

Explicit(m, p) ==
  IF m \notin Methods THEN NoRoute("no_eligible_method")
  ELSE IF Active(m, p) # {} THEN NoRoute("contraindicated_explicit_method")
  ELSE Alone(m, "explicit_method")

\* route_features
Route(participation, p) ==
  IF ~PayloadValid(p) \/ participation = "mechanical" THEN NoRoute("no_eligible_method")
  ELSE IF p.explicit # Absent THEN Explicit(p.explicit, p)
  ELSE IF Eligible(p) # {} THEN Weighted(p)
  ELSE Fallback(p)

Selected(route) == {route.primary, route.secondary} \ {Absent}
=============================================================================
