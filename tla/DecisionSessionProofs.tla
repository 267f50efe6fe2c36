----------------------- MODULE DecisionSessionProofs -----------------------
(***************************************************************************)
(* What is proved of the decision points, for any catalogue of methods,    *)
(* any judgments, contexts and bounds.                                     *)
(*                                                                         *)
(* Of routing: a score is a number and the ranking of methods by it is     *)
(* total, so that the first of a set of methods is one of the set; hence a *)
(* method is selected only if nothing speaks against it.  The score is a   *)
(* sum over the features submitted, a function defined by recursion on     *)
(* sets: what is shown of it is shown of the smallest set it would fail    *)
(* for (SmallestSet).                                                      *)
(*                                                                         *)
(* Of sessions: an agent reports what it holds, and until its context is   *)
(* compacted it holds it; a compaction makes an epoch that nothing sent    *)
(* before it speaks of (NotAhead), so whatever still speaks of the current *)
(* epoch was reported in it (Held).                                        *)
(***************************************************************************)
EXTENDS DecisionSession, FiniteSetTheorems, WellFoundedInduction, SequenceTheorems, TLAPS

-----------------------------------------------------------------------------
(***************************************************************************)
(* Routing.                                                                *)
(***************************************************************************)
\* Among some subsets of a finite set one has no other inside it.
LEMMA SmallestSet ==
  ASSUME NEW U, IsFiniteSet(U), NEW F \in SUBSET SUBSET U, F # {}
  PROVE  \E S \in F : \A R \in F : R \subseteq S => R = S
<1>1. IsWellFoundedOn(StrictSubsetOrdering(U), SUBSET U)
  BY FS_StrictSubsetOrderingWellFounded, FS_FiniteSubsetsOfFinite
<1>2. PICK S \in F : \A R \in F : <<R, S>> \notin StrictSubsetOrdering(U)
  BY <1>1, WFMin
<1>3. \A R \in F : R \subseteq S => R = S
  <2>. SUFFICES ASSUME NEW R \in F, R \subseteq S, R # S
                PROVE  <<R, S>> \in StrictSubsetOrdering(U)
    BY <1>2
  <2>1. <<R, S>> \in (SUBSET U) \X (SUBSET U)
    OBVIOUS
  <2>2. QED  BY <2>1 DEF StrictSubsetOrdering
<1>4. QED  BY <1>3

\* What a feature adds to the score of a method; the feature the sum takes next.
Term(m, p, k) == (Catalogue[m].positive[k] - Penalty(m, k)) * Strength(p, k)
Some(S) == CHOOSE x \in S : TRUE

\* total has the sum for each subset of T.
Adds(total, m, p, T) ==
  total = [S \in SUBSET T |-> IF S = {} THEN 0 ELSE Term(m, p, Some(S)) + total[S \ {Some(S)}]]

Total(m, p) == CHOOSE total : Adds(total, m, p, Keys(p))

\* The score is that sum, less what a contraindication takes off.
LEMMA ScoreIsTotal ==
  ASSUME NEW m, NEW p
  PROVE  Score(m, p) = Total(m, p)[Keys(p)] - 12 * Cardinality(Active(m, p))
BY DEF Score, MapThenSumSet, MapThenFoldSet, Total, Term, Some, Adds

\* There is one such sum at most.
LEMMA TotalUnique ==
  ASSUME NEW m, NEW p, NEW T, IsFiniteSet(T), NEW s, NEW t, Adds(s, m, p, T), Adds(t, m, p, T)
  PROVE  s = t
<1>1. /\ DOMAIN s = SUBSET T /\ DOMAIN t = SUBSET T
      /\ \A S \in SUBSET T : s[S] = IF S = {} THEN 0 ELSE Term(m, p, Some(S)) + s[S \ {Some(S)}]
      /\ \A S \in SUBSET T : t[S] = IF S = {} THEN 0 ELSE Term(m, p, Some(S)) + t[S \ {Some(S)}]
  BY DEF Adds
<1>2. PICK F : F = {S \in SUBSET T : s[S] # t[S]}
  OBVIOUS
<1>3. ASSUME F # {}
      PROVE  FALSE
  <2>1. PICK S \in F : \A R \in F : R \subseteq S => R = S
    <3>1. F \in SUBSET SUBSET T
      BY <1>2
    <3>2. QED  BY <1>3, <3>1, SmallestSet
  <2>2. S # {} /\ S \in SUBSET T /\ s[S] # t[S]
    BY <1>1, <1>2, <2>1
  <2>3. Some(S) \in S
    BY <2>2 DEF Some
  <2>4. S \ {Some(S)} \in SUBSET T /\ S \ {Some(S)} \notin F
    BY <2>1, <2>2, <2>3
  <2>5. s[S \ {Some(S)}] = t[S \ {Some(S)}]
    BY <1>2, <2>4
  <2>6. s[S] = t[S]
    BY <1>1, <2>2, <2>5
  <2>7. QED  BY <2>2, <2>6
<1>4. \A S \in SUBSET T : s[S] = t[S]
  BY <1>3, <1>2
<1>5. s = [S \in SUBSET T |-> s[S]] /\ t = [S \in SUBSET T |-> t[S]]
  BY DEF Adds
<1>6. QED  BY <1>4, <1>5

\* The sum for a set has the sums for its subsets.
LEMMA TotalWithin ==
  ASSUME NEW m, NEW p, NEW T, NEW s, Adds(s, m, p, T), NEW U \in SUBSET T
  PROVE  Adds([S \in SUBSET U |-> s[S]], m, p, U)
<1>1. \A S \in SUBSET T : s[S] = IF S = {} THEN 0 ELSE Term(m, p, Some(S)) + s[S \ {Some(S)}]
  BY DEF Adds
<1>2. PICK u : u = [S \in SUBSET U |-> s[S]]
  OBVIOUS
<1>3. \A S \in SUBSET U : u[S] = IF S = {} THEN 0 ELSE Term(m, p, Some(S)) + u[S \ {Some(S)}]
  <2>. SUFFICES ASSUME NEW S \in SUBSET U
                PROVE  u[S] = IF S = {} THEN 0 ELSE Term(m, p, Some(S)) + u[S \ {Some(S)}]
    OBVIOUS
  <2>1. S \in SUBSET T /\ S \ {Some(S)} \in SUBSET U
    OBVIOUS
  <2>2. u[S] = s[S] /\ u[S \ {Some(S)}] = s[S \ {Some(S)}]
    BY <1>2, <2>1
  <2>3. QED  BY <1>1, <2>1, <2>2
<1>4. u = [S \in SUBSET U |-> u[S]]
  BY <1>2
<1>5. u = [S \in SUBSET U |-> IF S = {} THEN 0 ELSE Term(m, p, Some(S)) + u[S \ {Some(S)}]]
  BY <1>3, <1>4
<1>6. QED  BY <1>2, <1>5 DEF Adds

\* There is one: the smallest set without it has it made of those of its subsets.
LEMMA TotalExists ==
  ASSUME NEW m, NEW p, NEW T, IsFiniteSet(T)
  PROVE  \E total : Adds(total, m, p, T)
<1>. DEFINE g(S) == CHOOSE total : Adds(total, m, p, S)
<1>1. PICK F : F = {S \in SUBSET T : ~ \E total : Adds(total, m, p, S)}
  OBVIOUS
<1>2. ASSUME F # {}
      PROVE  FALSE
  <2>1. PICK U \in F : \A R \in F : R \subseteq U => R = U
    <3>1. F \in SUBSET SUBSET T
      BY <1>1
    <3>2. QED  BY <1>2, <3>1, SmallestSet
  <2>2. U \in SUBSET T /\ IsFiniteSet(U)
    BY <1>1, <2>1, FS_Subset
  <2>3. \A S \in SUBSET U : S # U => Adds(g(S), m, p, S)
    BY <1>1, <2>1, <2>2
  <2>4. \A S \in SUBSET U : S # U /\ S # {} =>
          g(S)[S] = Term(m, p, Some(S)) + g(S \ {Some(S)})[S \ {Some(S)}]
    <3>. SUFFICES ASSUME NEW S \in SUBSET U, S # U, S # {}
                  PROVE  g(S)[S] = Term(m, p, Some(S)) + g(S \ {Some(S)})[S \ {Some(S)}]
      OBVIOUS
    <3>1. PICK s, R, r : s = g(S) /\ R = S \ {Some(S)} /\ r = g(R)
      OBVIOUS
    <3>2. Some(S) \in S
      BY DEF Some
    <3>3. R \in SUBSET S /\ R \in SUBSET U /\ R # U
      BY <3>1, <3>2
    <3>4. Adds(s, m, p, S) /\ Adds(r, m, p, R)
      BY <2>3, <3>1, <3>3
    <3>5. Adds([Q \in SUBSET R |-> s[Q]], m, p, R)
      BY <3>3, <3>4, TotalWithin
    <3>6. IsFiniteSet(R)
      BY <2>2, <3>3, FS_Subset
    <3>7. r = [Q \in SUBSET R |-> s[Q]]
      BY <3>4, <3>5, <3>6, TotalUnique
    <3>8. r[R] = s[R]
      BY <3>7
    <3>9. s[S] = Term(m, p, Some(S)) + s[S \ {Some(S)}]
      BY <3>4 DEF Adds
    <3>10. QED  BY <3>1, <3>8, <3>9
  <2>5. \A S \in SUBSET U : S # U /\ S = {} => g(S)[S] = 0
    BY <2>3 DEF Adds
  <2>6. PICK u : u = [S \in SUBSET U |-> IF S = {} THEN 0
                        ELSE Term(m, p, Some(S)) + g(S \ {Some(S)})[S \ {Some(S)}]]
    OBVIOUS
  <2>7. \A S \in SUBSET U : S # U => u[S] = g(S)[S]
    BY <2>4, <2>5, <2>6
  <2>8. \A S \in SUBSET U : u[S] = IF S = {} THEN 0 ELSE Term(m, p, Some(S)) + u[S \ {Some(S)}]
    <3>. SUFFICES ASSUME NEW S \in SUBSET U
                  PROVE  u[S] = IF S = {} THEN 0 ELSE Term(m, p, Some(S)) + u[S \ {Some(S)}]
      OBVIOUS
    <3>1. CASE S = {}
      BY <2>6, <3>1
    <3>2. CASE S # {}
      <4>1. Some(S) \in S
        BY <3>2 DEF Some
      <4>2. S \ {Some(S)} \in SUBSET U /\ S \ {Some(S)} # U
        BY <4>1
      <4>3. u[S \ {Some(S)}] = g(S \ {Some(S)})[S \ {Some(S)}]
        BY <2>7, <4>2
      <4>4. u[S] = Term(m, p, Some(S)) + g(S \ {Some(S)})[S \ {Some(S)}]
        BY <2>6, <3>2
      <4>5. QED  BY <3>2, <4>3, <4>4
    <3>3. QED  BY <3>1, <3>2
  <2>9. u = [S \in SUBSET U |-> u[S]]
    BY <2>6
  <2>10. u = [S \in SUBSET U |-> IF S = {} THEN 0 ELSE Term(m, p, Some(S)) + u[S \ {Some(S)}]]
    BY <2>8, <2>9
  <2>11. Adds(u, m, p, U)
    BY <2>10 DEF Adds
  <2>12. QED  BY <1>1, <2>1, <2>11
<1>3. QED  BY <1>1, <1>2

\* The features of a valid payload have strengths, and are finitely many.
LEMMA PayloadTyped ==
  ASSUME NEW p, PayloadValid(p)
  PROVE  /\ Keys(p) \subseteq Features
         /\ IsFiniteSet(Keys(p))
         /\ \A k \in Keys(p) : Strength(p, k) \in 1..3
<1>1. Keys(p) \subseteq Features
  BY DEF PayloadValid, EntryValid, Keys
<1>2. IsFiniteSet(Keys(p))
  BY <1>1, RoutingAssumption, FS_Subset
<1>3. ASSUME NEW k \in Keys(p)
      PROVE  Strength(p, k) \in 1..3
  <2>1. PICK i : i = CHOOSE j \in DOMAIN p.entries : p.entries[j].key = k
    OBVIOUS
  <2>2. i \in DOMAIN p.entries
    BY <2>1 DEF Keys
  <2>3. p.entries[i].strength \in 1..3
    BY <2>2 DEF PayloadValid, EntryValid
  <2>4. Strength(p, k) = p.entries[i].strength
    BY <2>1 DEF Strength
  <2>5. QED  BY <2>3, <2>4
<1>4. QED  BY <1>1, <1>2, <1>3

\* Each feature adds an integer.
LEMMA TermTyped ==
  ASSUME NEW m \in Methods, NEW p, PayloadValid(p), NEW k \in Keys(p)
  PROVE  Term(m, p, k) \in Int
<1>1. k \in Features /\ Strength(p, k) \in 1..3
  BY PayloadTyped
<1>2. Catalogue[m].positive[k] \in 0..3 /\ Catalogue[m].negative[k] \in 0..3
  BY <1>1, RoutingAssumption DEF RouteMethods
<1>3. Penalty(m, k) \in 0..3
  BY <1>2 DEF Penalty
<1>4. PICK x, y, z : x = Catalogue[m].positive[k] /\ y = Penalty(m, k) /\ z = Strength(p, k)
  OBVIOUS
<1>5. (x - y) * z \in Int
  BY <1>1, <1>2, <1>3, <1>4
<1>6. QED  BY <1>4, <1>5 DEF Term

\* The score of a method is an integer.
LEMMA ScoreTyped ==
  ASSUME NEW m \in Methods, NEW p, PayloadValid(p)
  PROVE  Score(m, p) \in Int
<1>1. PICK T : T = Keys(p)
  OBVIOUS
<1>2. IsFiniteSet(T) /\ \A k \in T : Term(m, p, k) \in Int
  BY <1>1, PayloadTyped, TermTyped
<1>3. PICK t : t = Total(m, p)
  OBVIOUS
<1>4. Adds(t, m, p, T)
  BY <1>1, <1>2, <1>3, TotalExists DEF Total
<1>5. \A S \in SUBSET T : t[S] = IF S = {} THEN 0 ELSE Term(m, p, Some(S)) + t[S \ {Some(S)}]
  BY <1>4 DEF Adds
<1>6. PICK F : F = {S \in SUBSET T : t[S] \notin Int}
  OBVIOUS
<1>7. ASSUME F # {}
      PROVE  FALSE
  <2>1. PICK S \in F : \A R \in F : R \subseteq S => R = S
    <3>1. F \in SUBSET SUBSET T
      BY <1>6
    <3>2. QED  BY <1>2, <1>7, <3>1, SmallestSet
  <2>2. S \in SUBSET T /\ t[S] \notin Int
    BY <1>6, <2>1
  <2>3. S # {}
    <3>1. S = {} => t[S] = 0
      BY <1>5, <2>2
    <3>2. QED  BY <2>2, <3>1
  <2>4. Some(S) \in S
    BY <2>3 DEF Some
  <2>5. S \ {Some(S)} \in SUBSET T /\ S \ {Some(S)} \notin F
    BY <2>1, <2>2, <2>4
  <2>6. t[S \ {Some(S)}] \in Int
    BY <1>6, <2>5
  <2>7. Term(m, p, Some(S)) \in Int
    BY <1>2, <2>2, <2>4
  <2>8. t[S] = Term(m, p, Some(S)) + t[S \ {Some(S)}]
    BY <1>5, <2>2, <2>3
  <2>9. QED  BY <2>2, <2>6, <2>7, <2>8
<1>8. t[T] \in Int
  BY <1>6, <1>7
<1>9. Cardinality(Active(m, p)) \in Nat
  <2>1. Active(m, p) \in SUBSET T
    BY <1>1 DEF Active
  <2>2. QED  BY <1>2, <2>1, FS_Subset, FS_CardinalityType
<1>10. QED  BY <1>1, <1>3, <1>8, <1>9, ScoreIsTotal

\* The sort key orders the methods.
LEMMA PrecedesOrders ==
  ASSUME NEW p, PayloadValid(p), NEW l \in Methods, NEW m \in Methods, NEW n \in Methods
  PROVE  /\ ~Precedes(m, m, p)
         /\ m # n => Precedes(m, n, p) \/ Precedes(n, m, p)
         /\ Precedes(l, m, p) /\ Precedes(m, n, p) => Precedes(l, n, p)
<1>1. Score(l, p) \in Int /\ Score(m, p) \in Int /\ Score(n, p) \in Int
  BY ScoreTyped
<1>2. Catalogue[l].cost \in Nat /\ Catalogue[m].cost \in Nat /\ Catalogue[n].cost \in Nat
  BY RoutingAssumption DEF RouteMethods
<1>3. l \in Nat /\ m \in Nat /\ n \in Nat
  BY RoutingAssumption
<1>4. Exact(l, p) \in BOOLEAN /\ Exact(m, p) \in BOOLEAN /\ Exact(n, p) \in BOOLEAN
  BY DEF Exact
<1>5. ~Precedes(m, m, p)
  BY <1>1, <1>2, <1>3, <1>4 DEF Precedes
<1>6. m # n => Precedes(m, n, p) \/ Precedes(n, m, p)
  BY <1>1, <1>2, <1>3, <1>4 DEF Precedes
<1>7. ASSUME Precedes(l, m, p), Precedes(m, n, p)
      PROVE  Precedes(l, n, p)
  <2>1. PICK x, y, z : x = Score(l, p) /\ y = Score(m, p) /\ z = Score(n, p)
    OBVIOUS
  <2>2. PICK c, d, e : c = Catalogue[l].cost /\ d = Catalogue[m].cost /\ e = Catalogue[n].cost
    OBVIOUS
  <2>3. x \in Int /\ y \in Int /\ z \in Int /\ c \in Nat /\ d \in Nat /\ e \in Nat
    BY <1>1, <1>2, <2>1, <2>2
  <2>4. /\ x >= y /\ (x = y => (Exact(m, p) => Exact(l, p)))
        /\ x = y /\ (Exact(l, p) <=> Exact(m, p)) => c < d \/ (c = d /\ l < m)
    BY <1>4, <1>7, <2>1, <2>2, <2>3 DEF Precedes
  <2>5. /\ y >= z /\ (y = z => (Exact(n, p) => Exact(m, p)))
        /\ y = z /\ (Exact(m, p) <=> Exact(n, p)) => d < e \/ (d = e /\ m < n)
    BY <1>4, <1>7, <2>1, <2>2, <2>3 DEF Precedes
  <2>6. CASE x > z
    BY <2>1, <2>6 DEF Precedes
  <2>7. CASE x = z
    <3>1. x = y /\ y = z
      BY <2>3, <2>4, <2>5, <2>7
    <3>2. CASE Exact(l, p) /\ ~Exact(n, p)
      BY <2>1, <2>7, <3>2 DEF Precedes
    <3>3. CASE ~(Exact(l, p) /\ ~Exact(n, p))
      <4>1. (Exact(l, p) <=> Exact(m, p)) /\ (Exact(m, p) <=> Exact(n, p))
        BY <2>4, <2>5, <3>1, <3>3
      <4>2. (c < d \/ (c = d /\ l < m)) /\ (d < e \/ (d = e /\ m < n))
        BY <2>4, <2>5, <3>1, <4>1
      <4>3. c < e \/ (c = e /\ l < n)
        BY <1>3, <2>3, <4>2
      <4>4. Exact(l, p) = Exact(n, p)
        BY <1>4, <4>1
      <4>5. QED  BY <2>1, <2>2, <2>7, <4>3, <4>4 DEF Precedes
    <3>4. QED  BY <3>2, <3>3
  <2>8. x > z \/ x = z
    BY <2>3, <2>4, <2>5
  <2>9. QED  BY <2>6, <2>7, <2>8
<1>8. QED  BY <1>5, <1>6, <1>7

\* The first of some methods is one of them, and comes before the others: the one that
\* has the smallest set of methods before it.
LEMMA FirstIsOne ==
  ASSUME NEW p, PayloadValid(p), NEW S \in SUBSET Methods, S # {}
  PROVE  First(S, p) \in S /\ \A n \in S \ {First(S, p)} : Precedes(First(S, p), n, p)
<1>. DEFINE B(m) == {n \in S : Precedes(n, m, p)}
<1>1. PICK F : F = {B(m) : m \in S}
  OBVIOUS
<1>2. F # {} /\ F \in SUBSET SUBSET S /\ IsFiniteSet(S)
  <2>1. \A m \in S : B(m) \in F
    BY <1>1
  <2>2. F # {}
    BY <2>1
  <2>3. F \in SUBSET SUBSET S
    BY <1>1
  <2>4. IsFiniteSet(S)
    BY RoutingAssumption, FS_Subset
  <2>5. QED  BY <2>2, <2>3, <2>4
<1>3. PICK X \in F : \A R \in F : R \subseteq X => R = X
  BY <1>2, SmallestSet
<1>4. PICK m \in S : X = {n \in S : Precedes(n, m, p)}
  BY <1>1, <1>3
<1>5. X = {}
  <2>. SUFFICES ASSUME NEW n \in X
                PROVE  FALSE
    OBVIOUS
  <2>1. n \in S /\ Precedes(n, m, p)
    BY <1>4
  <2>2. PICK R : R = {o \in S : Precedes(o, n, p)}
    OBVIOUS
  <2>3. R \in F
    BY <1>1, <2>1, <2>2
  <2>4. \A o \in S : Precedes(o, n, p) => Precedes(o, m, p)
    BY <2>1, PrecedesOrders
  <2>5. R \subseteq X
    BY <1>4, <2>2, <2>4
  <2>6. n \in R
    BY <1>3, <2>3, <2>5
  <2>7. ~Precedes(n, n, p)
    BY <2>1, PrecedesOrders
  <2>8. QED  BY <2>2, <2>6, <2>7
<1>6. \A n \in S \ {m} : Precedes(m, n, p)
  BY <1>4, <1>5, PrecedesOrders
<1>7. QED  BY <1>6 DEF First

\* No route has a method against a feature of the payload, or for mechanical work.
Suits(route, participation, p) ==
  \A m \in Selected(route) : m \in Methods /\ Active(m, p) = {} /\ participation # "mechanical"

\* To give no route is always suitable.
LEMMA NoRouteSuits ==
  ASSUME NEW reason \in Reasons, NEW participation, NEW p
  PROVE  Suits(NoRoute(reason), participation, p) /\ NoRoute(reason) \in Routes
BY DEF Suits, Selected, NoRoute, Routes

\* Nor has the route that is chosen.
LEMMA RouteSuits ==
  ASSUME NEW participation, NEW p, PayloadValid(p)
  PROVE  Suits(Route(participation, p), participation, p) /\ Route(participation, p) \in Routes
<1>1. PICK route : route = Route(participation, p)
  OBVIOUS
<1>2. CASE participation = "mechanical"
  <2>1. route = NoRoute("no_eligible_method")
    BY <1>1, <1>2 DEF Route
  <2>2. QED  BY <1>1, <2>1, NoRouteSuits DEF Reasons
<1>3. CASE participation # "mechanical" /\ p.explicit # Absent
  <2>1. route = Explicit(p.explicit, p)
    BY <1>1, <1>3 DEF Route
  <2>2. CASE p.explicit \notin Methods \/ Active(p.explicit, p) # {}
    <3>1. route \in {NoRoute("no_eligible_method"), NoRoute("contraindicated_explicit_method")}
      BY <2>1, <2>2 DEF Explicit
    <3>2. QED  BY <1>1, <3>1, NoRouteSuits DEF Reasons
  <2>3. CASE p.explicit \in Methods /\ Active(p.explicit, p) = {}
    <3>1. route = [primary |-> p.explicit, secondary |-> Absent, reason |-> "explicit_method"]
      BY <2>1, <2>3 DEF Explicit, Alone
    <3>2. "explicit_method" \in Reasons
      BY DEF Reasons
    <3>3. Suits(route, participation, p) /\ route \in Routes
      BY <1>3, <2>3, <3>1, <3>2 DEF Suits, Selected, Routes
    <3>4. QED  BY <1>1, <3>3
  <2>4. QED  BY <2>2, <2>3
<1>4. CASE participation # "mechanical" /\ p.explicit = Absent /\ Eligible(p) # {}
  <2>1. route = Weighted(p)
    BY <1>1, <1>4 DEF Route
  <2>2. Eligible(p) \in SUBSET Methods /\ \A m \in Eligible(p) : Active(m, p) = {}
    BY DEF Eligible
  <2>3. PICK m : m = First(Eligible(p), p)
    OBVIOUS
  <2>4. m \in Eligible(p)
    BY <1>4, <2>2, <2>3, FirstIsOne
  <2>5. CASE Complements(m, p) = {}
    <3>1. route = [primary |-> m, secondary |-> Absent, reason |-> "weighted_primary"]
      BY <2>1, <2>3, <2>5 DEF Weighted, Alone
    <3>2. "weighted_primary" \in Reasons
      BY DEF Reasons
    <3>3. Suits(route, participation, p) /\ route \in Routes
      BY <1>4, <2>2, <2>4, <3>1, <3>2 DEF Suits, Selected, Routes
    <3>4. QED  BY <1>1, <3>3
  <2>6. CASE Complements(m, p) # {}
    <3>1. PICK n : n = First(Complements(m, p), p)
      OBVIOUS
    <3>2. Complements(m, p) \subseteq Eligible(p)
      BY DEF Complements
    <3>3. n \in Eligible(p)
      BY <2>2, <2>6, <3>1, <3>2, FirstIsOne
    <3>4. route = [primary |-> m, secondary |-> n, reason |-> "weighted_primary_with_complement"]
      BY <2>1, <2>3, <2>6, <3>1 DEF Weighted
    <3>5. "weighted_primary_with_complement" \in Reasons
      BY DEF Reasons
    <3>6. Suits(route, participation, p) /\ route \in Routes
      BY <1>4, <2>2, <2>4, <3>3, <3>4, <3>5 DEF Suits, Selected, Routes
    <3>7. QED  BY <1>1, <3>6
  <2>7. QED  BY <2>5, <2>6
<1>5. CASE participation # "mechanical" /\ p.explicit = Absent /\ Eligible(p) = {}
  <2>1. route = Fallback(p)
    BY <1>1, <1>5 DEF Route
  <2>2. PICK f : f = Fallbacks[p.shape]
    OBVIOUS
  <2>3. CASE ~Suitable(f.primary, p)
    <3>1. route = NoRoute("no_eligible_method")
      BY <2>1, <2>2, <2>3 DEF Fallback
    <3>2. QED  BY <1>1, <3>1, NoRouteSuits DEF Reasons
  <2>4. CASE Suitable(f.primary, p)
    <3>1. PICK n : /\ route = [primary |-> f.primary, secondary |-> n, reason |-> "answer_shape_fallback"]
                   /\ n = Absent \/ Suitable(n, p)
      <4>1. \/ route = [primary |-> f.primary, secondary |-> Absent, reason |-> "answer_shape_fallback"]
            \/ /\ Suitable(f.secondary, p)
               /\ route = [primary |-> f.primary, secondary |-> f.secondary,
                           reason |-> "answer_shape_fallback"]
        BY <2>1, <2>2, <2>4 DEF Fallback
      <4>2. QED  BY <4>1
    <3>2. "answer_shape_fallback" \in Reasons
      BY DEF Reasons
    <3>3. Suits(route, participation, p) /\ route \in Routes
      BY <1>5, <2>4, <3>1, <3>2 DEF Suits, Selected, Routes, Suitable
    <3>4. QED  BY <1>1, <3>3
  <2>5. QED  BY <2>3, <2>4
<1>6. QED  BY <1>2, <1>3, <1>4, <1>5

-----------------------------------------------------------------------------
(***************************************************************************)
(* Sessions: what holds of the session, of a request on its way and of an  *)
(* answer nobody has read.                                                 *)
(***************************************************************************)
AnswerRecords == [to : Requests, kind : Kinds, route : Routes,
                  emitted : SUBSET Contents, withheld : SUBSET Contents]

Typed ==
  /\ session \in Sessions
  /\ inbox \in Seq(Requests)
  /\ outbox \in Seq(AnswerRecords)
  /\ epoch \in [Contexts -> 0 .. MaxEpoch]
  /\ held \in [Contexts -> SUBSET Contents]
  /\ sent \in 0 .. MaxRequests

\* The scope is of an epoch its context has begun.
NotAhead(scope) == scope[2] <= epoch[scope[1]]
SuitsRequest(route, r) == Suits(route, Asked[r.judgment].participation, Asked[r.judgment].routing)

\* What may be left out for the current epoch is held; the last route suits its request.
SessionOK(s) ==
  /\ s.scope # Unscoped => NotAhead(s.scope)
  /\ \A c \in Contexts : s.scope = Here(c) => s.available \subseteq held[c]
  /\ s.key \in Selects => SuitsRequest(s.route, s.key)

\* A report of the current epoch is of what is held.
RequestOK(r) ==
  /\ r.op \in {"select", "acknowledge"} => NotAhead(r.scope)
  /\ r.op = "acknowledge" => \A c \in Contexts : r.scope = Here(c) => r.digests \subseteq held[c]

\* What an answer for the current epoch leaves out is held, and its route suits.
AnswerOK(a) == a.kind = "selected" =>
  /\ a.to \in Selects
  /\ NotAhead(a.to.scope)
  /\ \A c \in Contexts : a.to.scope = Here(c) => a.withheld \subseteq held[c]
  /\ SuitsRequest(a.route, a.to)

InboxOK == \A i \in 1..Len(inbox) : RequestOK(inbox[i])
OutboxOK == \A i \in 1..Len(outbox) : AnswerOK(outbox[i])

IInv == Typed /\ SessionOK(session) /\ InboxOK /\ OutboxOK

\* What a request is, is told by its operation.
LEMMA RequestKinds ==
  ASSUME NEW r \in Requests
  PROVE  /\ r.op = "select" => r \in Selects
         /\ r.op = "acknowledge" => r \in Acknowledgments
BY DEF Requests, Selects, Acknowledgments, Others

\* A process that starts afresh, or turns to another scope, has nothing to leave out.
Afresh(scope) == [scope |-> scope, key |-> Unscoped, route |-> NoRoute("no_eligible_method"),
                  delivered |-> {}, available |-> {}]

\* A fresh session, in the form the proofs use.
LEMMA FreshIs ==
  ASSUME NEW scope
  PROVE  Fresh = Afresh(Unscoped) /\ [Fresh EXCEPT !.scope = scope] = Afresh(scope)
<1>1. PICK none : none = NoRoute("no_eligible_method")
  OBVIOUS
<1>2. PICK fresh : fresh = [scope |-> Unscoped, key |-> Unscoped, route |-> none, delivered |-> {},
                            available |-> {}]
  OBVIOUS
<1>3. fresh = Fresh
  BY <1>1, <1>2 DEF Fresh
<1>4. Fresh = Afresh(Unscoped)
  BY DEF Fresh, Afresh
<1>5. [fresh EXCEPT !.scope = scope] = [scope |-> scope, key |-> Unscoped, route |-> none,
                                        delivered |-> {}, available |-> {}]
  BY <1>2
<1>6. QED  BY <1>1, <1>3, <1>4, <1>5 DEF Afresh

\* A fresh session of an epoch nothing speaks of is sound.
LEMMA FreshOK ==
  ASSUME NEW scope \in Scopes \cup {Unscoped}, scope # Unscoped => NotAhead(scope),
         NEW s, s = Afresh(scope)
  PROVE  s \in Sessions /\ SessionOK(s) /\ s.scope = scope /\ s.available = {} /\ s.delivered = {}
<1>1. NoRoute("no_eligible_method") \in Routes
  BY NoRouteSuits DEF Reasons
<1>2. PICK none : none = NoRoute("no_eligible_method")
  OBVIOUS
<1>3. s = [scope |-> scope, key |-> Unscoped, route |-> none, delivered |-> {}, available |-> {}]
  BY <1>2 DEF Afresh
<1>4. s \in Sessions
  <2>1. none \in Routes /\ {} \in SUBSET Contents
    BY <1>1, <1>2
  <2>2. PICK P, Q, C : P = Scopes \cup {Unscoped} /\ Q = Selects \cup {Unscoped} /\ C = SUBSET Contents
    OBVIOUS
  <2>3. scope \in P /\ Unscoped \in Q /\ {} \in C
    BY <2>1, <2>2
  <2>4. s \in [scope : P, key : Q, route : Routes, delivered : C, available : C]
    BY <1>3, <2>1, <2>3
  <2>5. QED  BY <2>2, <2>4 DEF Sessions
<1>5. \A r : SuitsRequest(none, r)
  BY <1>2, NoRouteSuits DEF SuitsRequest, Reasons
<1>6. SessionOK(s)
  BY <1>3, <1>5 DEF SessionOK
<1>7. QED  BY <1>3, <1>4, <1>6

\* An answer without a selection promises nothing.
LEMMA PlainOK ==
  ASSUME IInv, inbox # <<>>, NEW kind \in Kinds, kind # "selected", NEW a, a = Plain(kind)
  PROVE  a \in AnswerRecords /\ AnswerOK(a)
<1>1. Head(inbox) \in Requests
  BY HeadTailProperties DEF IInv, Typed
<1>2. NoRoute("none") \in Routes
  BY NoRouteSuits DEF Reasons
<1>3. a \in AnswerRecords /\ a.kind = kind
  BY <1>1, <1>2 DEF Plain, Answer, AnswerRecords
<1>4. QED  BY <1>3 DEF AnswerOK

\* Where a context stays in its epoch it keeps what it holds.
OnlyGrows ==
  \A c \in Contexts :
    /\ epoch'[c] \in 0 .. MaxEpoch
    /\ \/ epoch'[c] = epoch[c] /\ held[c] \subseteq held'[c]
       \/ epoch'[c] = epoch[c] + 1

\* What was reported of an epoch stays true as long as it is the current one.
LEMMA Survives ==
  ASSUME epoch \in [Contexts -> 0 .. MaxEpoch], OnlyGrows,
         NEW scope \in Scopes, NotAhead(scope), NEW D,
         \A c \in Contexts : scope = Here(c) => D \subseteq held[c]
  PROVE  NotAhead(scope)' /\ \A c \in Contexts : scope = Here(c)' => D \subseteq held'[c]
<1>1. PICK c \in Contexts, e \in 0..MaxEpoch : scope = <<c, e>>
  BY DEF Scopes
<1>2. epoch[c] \in Nat /\ e \in Nat /\ e <= epoch[c]
  BY <1>1, SessionAssumption DEF NotAhead
<1>3. NotAhead(scope)'
  BY <1>1, <1>2 DEF OnlyGrows, NotAhead
<1>4. ASSUME NEW d \in Contexts, scope = Here(d)'
      PROVE  D \subseteq held'[d]
  <2>1. d = c /\ epoch'[c] = e
    BY <1>1, <1>4 DEF Here
  <2>2. epoch'[c] = epoch[c] /\ held[c] \subseteq held'[c]
    BY <1>2, <2>1 DEF OnlyGrows
  <2>3. scope = Here(c)
    BY <1>1, <2>1, <2>2 DEF Here
  <2>4. QED  BY <2>1, <2>2, <2>3
<1>5. QED  BY <1>3, <1>4

\* The same for a request.
LEMMA RequestSurvives ==
  ASSUME epoch \in [Contexts -> 0 .. MaxEpoch], OnlyGrows, NEW r \in Requests, RequestOK(r)
  PROVE  RequestOK(r)'
<1>1. CASE r.op = "acknowledge"
  <2>1. r.scope \in Scopes
    BY <1>1, RequestKinds DEF Acknowledgments
  <2>2. PICK scope, D : scope = r.scope /\ D = r.digests
    OBVIOUS
  <2>3. NotAhead(scope) /\ \A c \in Contexts : scope = Here(c) => D \subseteq held[c]
    BY <1>1, <2>2 DEF RequestOK
  <2>4. NotAhead(scope)' /\ \A c \in Contexts : scope = Here(c)' => D \subseteq held'[c]
    <3>1. scope \in Scopes
      BY <2>1, <2>2
    <3>2. QED  BY <2>3, <3>1, Survives, Zenon
  <2>5. QED  BY <2>2, <2>4 DEF RequestOK
<1>2. CASE r.op = "select"
  <2>1. r.scope \in Scopes
    BY <1>2, RequestKinds DEF Selects
  <2>2. PICK scope, D : scope = r.scope /\ D = {}
    OBVIOUS
  <2>3. NotAhead(scope) /\ \A c \in Contexts : scope = Here(c) => D \subseteq held[c]
    BY <1>2, <2>2 DEF RequestOK
  <2>4. NotAhead(scope)'
    BY <2>1, <2>2, <2>3, Survives
  <2>5. QED  BY <1>2, <2>2, <2>4 DEF RequestOK
<1>3. CASE r.op \notin {"select", "acknowledge"}
  BY <1>3 DEF RequestOK
<1>4. QED  BY <1>1, <1>2, <1>3

\* The same for an answer.
LEMMA AnswerSurvives ==
  ASSUME epoch \in [Contexts -> 0 .. MaxEpoch], OnlyGrows, NEW a, AnswerOK(a)
  PROVE  AnswerOK(a)'
<1>1. CASE a.kind = "selected"
  <2>1. a.to \in Selects /\ SuitsRequest(a.route, a.to)
    BY <1>1 DEF AnswerOK
  <2>2. a.to.scope \in Scopes
    BY <2>1 DEF Selects
  <2>3. NotAhead(a.to.scope) /\ \A c \in Contexts : a.to.scope = Here(c) => a.withheld \subseteq held[c]
    BY <1>1 DEF AnswerOK
  <2>4. NotAhead(a.to.scope)' /\ \A c \in Contexts : a.to.scope = Here(c)' => a.withheld \subseteq held'[c]
    BY <2>2, <2>3, Survives
  <2>5. QED  BY <2>1, <2>4 DEF AnswerOK
<1>2. CASE a.kind # "selected"
  BY <1>2 DEF AnswerOK
<1>3. QED  BY <1>1, <1>2

\* The same for the session.
LEMMA SessionSurvives ==
  ASSUME epoch \in [Contexts -> 0 .. MaxEpoch], OnlyGrows, NEW s \in Sessions, SessionOK(s)
  PROVE  SessionOK(s)'
<1>1. s.scope \in Scopes \cup {Unscoped}
  BY DEF Sessions
<1>2. s.key \in Selects => SuitsRequest(s.route, s.key)
  BY DEF SessionOK
<1>3. CASE s.scope = Unscoped
  <2>1. \A c \in Contexts : s.scope # Here(c)'
    <3>1. \A c \in Contexts : Here(c)' \in Scopes
      BY DEF OnlyGrows, Here, Scopes
    <3>2. QED  BY <1>3, <3>1, SessionAssumption
  <2>2. QED  BY <1>2, <1>3, <2>1 DEF SessionOK
<1>4. CASE s.scope # Unscoped
  <2>1. PICK scope, D : scope = s.scope /\ D = s.available
    OBVIOUS
  <2>2. scope \in Scopes /\ NotAhead(scope) /\ \A c \in Contexts : scope = Here(c) => D \subseteq held[c]
    BY <1>1, <1>4, <2>1 DEF SessionOK
  <2>3. NotAhead(scope)' /\ \A c \in Contexts : scope = Here(c)' => D \subseteq held'[c]
    BY <2>2, Survives
  <2>4. QED  BY <1>2, <2>1, <2>3 DEF SessionOK
<1>5. QED  BY <1>3, <1>4

\* What stays in the pipes is not spoilt, and what comes into them is right.
LEMMA InboxSurvives ==
  ASSUME IInv, OnlyGrows, NEW R, \A r \in R : r \in Requests /\ RequestOK(r),
         \A i \in 1..Len(inbox') : inbox'[i] \in R \/ \E j \in 1..Len(inbox) : inbox'[i] = inbox[j]
  PROVE  InboxOK'
<1>. SUFFICES ASSUME NEW i \in 1..Len(inbox')
              PROVE  RequestOK(inbox[i])'
  BY DEF InboxOK
<1>1. PICK r : r = inbox'[i]
  OBVIOUS
<1>2. inbox \in Seq(Requests) /\ epoch \in [Contexts -> 0 .. MaxEpoch]
  BY DEF IInv, Typed
<1>3. \A j \in 1..Len(inbox) : inbox[j] \in Requests /\ RequestOK(inbox[j])
  BY <1>2 DEF IInv, InboxOK
<1>4. r \in Requests /\ RequestOK(r)
  <2>1. CASE r \in R
    BY <2>1
  <2>2. CASE r \notin R
    <3>1. PICK j \in 1..Len(inbox) : r = inbox[j]
      BY <1>1, <2>2
    <3>2. QED  BY <1>3, <3>1
  <2>3. QED  BY <2>1, <2>2
<1>5. RequestOK(r)'
  BY <1>2, <1>4, RequestSurvives
<1>6. QED  BY <1>1, <1>5

\* Answers already given stay sound when the session only grows.
LEMMA OutboxSurvives ==
  ASSUME IInv, OnlyGrows, NEW b, AnswerOK(b),
         \A i \in 1..Len(outbox') : outbox'[i] = b \/ \E j \in 1..Len(outbox) : outbox'[i] = outbox[j]
  PROVE  OutboxOK'
<1>. SUFFICES ASSUME NEW i \in 1..Len(outbox')
              PROVE  AnswerOK(outbox[i])'
  BY DEF OutboxOK
<1>1. PICK a : a = outbox'[i]
  OBVIOUS
<1>2. epoch \in [Contexts -> 0 .. MaxEpoch]
  BY DEF IInv, Typed
<1>3. \A j \in 1..Len(outbox) : AnswerOK(outbox[j])
  BY DEF IInv, OutboxOK
<1>4. AnswerOK(a)
  <2>1. CASE a = b
    BY <2>1
  <2>2. CASE a # b
    <3>1. PICK j \in 1..Len(outbox) : a = outbox[j]
      BY <1>1, <2>2
    <3>2. QED  BY <1>3, <3>1
  <2>3. QED  BY <2>1, <2>2
<1>5. AnswerOK(a)'
  BY <1>2, <1>4, AnswerSurvives
<1>6. QED  BY <1>1, <1>5

\* The process answers the next request.
LEMMA ReplyInv ==
  ASSUME IInv, inbox # <<>>, NEW s \in Sessions, SessionOK(s),
         NEW a \in AnswerRecords, AnswerOK(a), Reply(s, a)
  PROVE  IInv'
<1>1. /\ session' = s /\ outbox' = Append(outbox, a) /\ inbox' = Tail(inbox)
      /\ epoch' = epoch /\ held' = held /\ sent' = sent
  BY DEF Reply, agents
<1>2. /\ inbox \in Seq(Requests) /\ outbox \in Seq(AnswerRecords)
      /\ epoch \in [Contexts -> 0 .. MaxEpoch] /\ held \in [Contexts -> SUBSET Contents]
      /\ sent \in 0 .. MaxRequests
  BY DEF IInv, Typed
<1>3. /\ Tail(inbox) \in Seq(Requests) /\ Len(Tail(inbox)) = Len(inbox) - 1 /\ Len(inbox) \in Nat
      /\ \A i \in 1..Len(Tail(inbox)) : Tail(inbox)[i] = inbox[i + 1]
  BY <1>2, HeadTailProperties, LenProperties
<1>4. /\ outbox' \in Seq(AnswerRecords)
      /\ \A i \in 1..Len(outbox') : outbox'[i] = a \/ \E j \in 1..Len(outbox) : outbox'[i] = outbox[j]
  BY <1>1, <1>2
<1>5. Typed'
  BY <1>1, <1>2, <1>3, <1>4 DEF Typed
<1>6. OnlyGrows
  BY <1>1, <1>2 DEF OnlyGrows
<1>7. SessionOK(session)'
  <2>1. SessionOK(s)'
    BY <1>2, <1>6, SessionSurvives
  <2>2. QED  BY <1>1, <2>1
<1>8. InboxOK'
  <2>1. \A i \in 1..Len(inbox') : \E j \in 1..Len(inbox) : inbox'[i] = inbox[j]
    <3>. SUFFICES ASSUME NEW i \in 1..Len(inbox')
                  PROVE  \E j \in 1..Len(inbox) : inbox'[i] = inbox[j]
      OBVIOUS
    <3>1. i + 1 \in 1..Len(inbox) /\ inbox'[i] = inbox[i + 1]
      BY <1>1, <1>3
    <3>2. QED  BY <3>1
  <2>2. \E R : R = {}
    OBVIOUS
  <2>3. PICK R : R = {}
    BY <2>2
  <2>4. /\ \A r \in R : r \in Requests /\ RequestOK(r)
        /\ \A i \in 1..Len(inbox') : inbox'[i] \in R \/ \E j \in 1..Len(inbox) : inbox'[i] = inbox[j]
    BY <2>1, <2>3
  <2>5. QED  BY <1>6, <2>4, InboxSurvives, Zenon
<1>9. OutboxOK'
  <2>1. \A i \in 1..Len(outbox') : outbox'[i] = a \/ \E j \in 1..Len(outbox) : outbox'[i] = outbox[j]
    BY <1>4
  <2>2. QED  BY <1>6, <2>1, OutboxSurvives, Zenon
<1>10. QED  BY <1>5, <1>7, <1>8, <1>9 DEF IInv

\* An answer without a selection, with the session left in order.
LEMMA PlainInv ==
  ASSUME IInv, inbox # <<>>, NEW s \in Sessions, SessionOK(s),
         NEW kind \in Kinds, kind # "selected", Reply(s, Plain(kind))
  PROVE  IInv'
<1>1. PICK a : a = Plain(kind)
  OBVIOUS
<1>2. a \in AnswerRecords /\ AnswerOK(a)
  BY <1>1, PlainOK
<1>3. Reply(s, a)
  BY <1>1
<1>4. QED  BY <1>2, <1>3, ReplyInv

\* The request that is taken.
LEMMA Taken ==
  ASSUME IInv, inbox # <<>>, NEW r, r = Head(inbox)
  PROVE  r \in Requests /\ RequestOK(r)
<1>1. inbox \in Seq(Requests)
  BY DEF IInv, Typed
<1>2. r = inbox[1] /\ 1 \in 1..Len(inbox) /\ r \in Requests
  BY <1>1, HeadTailProperties, LenProperties, EmptySeq
<1>3. QED  BY <1>2 DEF IInv, InboxOK

\* The session after _check_scope: the last one, or afresh.
LEMMA ScopedOK ==
  ASSUME IInv, NEW scope \in Scopes, NotAhead(scope), NEW s, s = Scoped(scope)
  PROVE  s \in Sessions /\ SessionOK(s) /\ s.scope = scope
<1>1. CASE session.scope = scope
  BY <1>1 DEF Scoped, IInv, Typed
<1>2. CASE session.scope # scope
  <2>1. s = Afresh(scope)
    BY <1>2, FreshIs DEF Scoped
  <2>2. QED  BY <2>1, FreshOK
<1>3. QED  BY <1>1, <1>2

\* One step for each action of the process.
LEMMA ResetInv ==
  ASSUME IInv, Reset
  PROVE  IInv'
<1>1. PICK s : s = Afresh(Unscoped)
  OBVIOUS
<1>2. s \in Sessions /\ SessionOK(s)
  BY <1>1, FreshOK
<1>3. inbox # <<>> /\ Reply(s, Plain("reset"))
  BY <1>1, FreshIs DEF Reset, Takes
<1>4. "reset" \in Kinds
  BY DEF Kinds
<1>5. QED  BY <1>2, <1>3, <1>4, PlainInv

\* Requests that are rejected or only read keep the invariant.
LEMMA KeepingInv ==
  ASSUME IInv, Malformed \/ Catalog \/ SelectRejected
  PROVE  IInv'
<1>1. session \in Sessions /\ SessionOK(session)
  BY DEF IInv, Typed
<1>2. inbox # <<>> /\ (Reply(session, Plain("fault")) \/ Reply(session, Plain("catalog")))
  BY DEF Malformed, Catalog, SelectRejected, Takes
<1>3. "fault" \in Kinds /\ "catalog" \in Kinds
  BY DEF Kinds
<1>4. PICK s : s = session
  OBVIOUS
<1>5. CASE Reply(s, Plain("fault"))
  BY <1>1, <1>2, <1>3, <1>4, <1>5, PlainInv
<1>6. CASE Reply(s, Plain("catalog"))
  BY <1>1, <1>2, <1>3, <1>4, <1>6, PlainInv
<1>7. QED  BY <1>2, <1>4, <1>5, <1>6

\* An acknowledgement keeps the invariant.
LEMMA AcknowledgeInv ==
  ASSUME IInv, Acknowledge
  PROVE  IInv'
<1>1. PICK r, t : r = Head(inbox) /\ t = session
  OBVIOUS
<1>2. t \in Sessions /\ SessionOK(t)
  BY <1>1 DEF IInv, Typed
<1>3. inbox # <<>> /\ r.op = "acknowledge"
  BY <1>1 DEF Acknowledge, Takes
<1>4. r \in Acknowledgments /\ RequestOK(r)
  BY <1>1, <1>3, Taken, RequestKinds
<1>5. "fault" \in Kinds /\ "acknowledged" \in Kinds
  BY DEF Kinds
<1>6. CASE r.scope = t.scope /\ r.digests \subseteq t.delivered
  <2>1. PICK s : s = [t EXCEPT !.available = @ \cup r.digests]
    OBVIOUS
  <2>2. Reply(s, Plain("acknowledged"))
    BY <1>1, <1>6, <2>1 DEF Acknowledge, Acknowledgeable
  <2>3. t = [scope |-> t.scope, key |-> t.key, route |-> t.route, delivered |-> t.delivered,
             available |-> t.available]
    BY <1>2 DEF Sessions
  <2>4. s = [scope |-> t.scope, key |-> t.key, route |-> t.route, delivered |-> t.delivered,
             available |-> t.available \cup r.digests]
    BY <2>1, <2>3
  <2>5. r.digests \subseteq Contents
    BY <1>4 DEF Acknowledgments
  <2>6. s \in Sessions
    BY <1>2, <2>4, <2>5 DEF Sessions
  <2>7. \A c \in Contexts : r.scope = Here(c) => r.digests \subseteq held[c]
    BY <1>3, <1>4 DEF RequestOK
  <2>8. \A c \in Contexts : t.scope = Here(c) => t.available \subseteq held[c]
    BY <1>2 DEF SessionOK
  <2>9. \A c \in Contexts : s.scope = Here(c) => s.available \subseteq held[c]
    BY <1>6, <2>4, <2>7, <2>8
  <2>10. SessionOK(s)
    BY <1>2, <2>4, <2>9 DEF SessionOK
  <2>11. QED  BY <1>3, <1>5, <2>2, <2>6, <2>10, PlainInv
<1>7. CASE ~(r.scope = t.scope /\ r.digests \subseteq t.delivered)
  <2>1. Reply(t, Plain("fault"))
    BY <1>1, <1>7 DEF Acknowledge, Acknowledgeable
  <2>2. QED  BY <1>2, <1>3, <1>5, <2>1, PlainInv
<1>8. QED  BY <1>6, <1>7

\* A selection that leaves the session unknown keeps the invariant.
LEMMA SelectUnknownInv ==
  ASSUME IInv, SelectUnknown
  PROVE  IInv'
<1>1. PICK r : r = Head(inbox)
  OBVIOUS
<1>2. inbox # <<>> /\ r.op = "select"
  BY <1>1 DEF SelectUnknown, Takes
<1>3. r \in Selects /\ RequestOK(r)
  BY <1>1, <1>2, Taken, RequestKinds
<1>4. PICK s : s = Scoped(r.scope)
  OBVIOUS
<1>5. r.scope \in Scopes /\ NotAhead(r.scope)
  BY <1>2, <1>3 DEF Selects, RequestOK
<1>6. s \in Sessions /\ SessionOK(s)
  BY <1>4, <1>5, ScopedOK
<1>7. Reply(s, Plain("unknown_method"))
  BY <1>1, <1>4 DEF SelectUnknown
<1>8. "unknown_method" \in Kinds
  BY DEF Kinds
<1>9. QED  BY <1>2, <1>6, <1>7, <1>8, PlainInv

\* The route of a request, fresh or the last one again, suits it.
LEMMA RouteOfSuits ==
  ASSUME NEW s \in Sessions, SessionOK(s), NEW r \in Selects, Acceptable(r)
  PROVE  RouteOf(s, r) \in Routes /\ SuitsRequest(RouteOf(s, r), r)
<1>1. CASE s.key = r
  <2>1. RouteOf(s, r) = s.route
    BY <1>1 DEF RouteOf
  <2>2. QED  BY <1>1, <2>1 DEF Sessions, SessionOK
<1>2. CASE s.key # r
  <2>1. PICK part, p : part = Asked[r.judgment].participation /\ p = Asked[r.judgment].routing
    OBVIOUS
  <2>2. RouteOf(s, r) = Route(part, p)
    BY <1>2, <2>1 DEF RouteOf, FreshRoute
  <2>3. PayloadValid(p)
    BY <2>1 DEF Acceptable
  <2>4. Suits(Route(part, p), part, p) /\ Route(part, p) \in Routes
    BY <2>3, RouteSuits
  <2>5. QED  BY <2>1, <2>2, <2>4 DEF SuitsRequest
<1>3. QED  BY <1>1, <1>2

\* What is picked for a route that suits, and what of it is reached, are contents.
LEMMA PickedTyped ==
  ASSUME NEW route, NEW r, SuitsRequest(route, r), NEW locale \in Locales
  PROVE  Picked(route, locale) \subseteq Contents /\ Reached(route, locale) \subseteq Contents
<1>1. Selected(route) \subseteq Methods
  BY DEF SuitsRequest, Suits
<1>2. Picked(route, locale) \subseteq Contents
  BY <1>1 DEF Picked, Contents
<1>3. Reached(route, locale) \subseteq Contents
  <2>1. \/ Reached(route, locale) = Picked(route, locale)
        \/ Reached(route, locale) \subseteq Projected
    BY DEF Reached
  <2>2. QED  BY <1>2, <2>1, SessionAssumption
<1>4. QED  BY <1>2, <1>3

\* A selection keeps the invariant.
LEMMA SelectInv ==
  ASSUME IInv, Select
  PROVE  IInv'
<1>1. PICK r : r = Head(inbox)
  OBVIOUS
<1>2. inbox # <<>> /\ r.op = "select" /\ Acceptable(r)
  BY <1>1 DEF Select, Takes
<1>3. r \in Selects /\ RequestOK(r)
  BY <1>1, <1>2, Taken, RequestKinds
<1>4. PICK s : s = Scoped(r.scope)
  OBVIOUS
<1>5. r.scope \in Scopes /\ NotAhead(r.scope) /\ r.judgment \in Judgments
  BY <1>2, <1>3 DEF Selects, RequestOK
<1>6. s \in Sessions /\ SessionOK(s) /\ s.scope = r.scope
  BY <1>4, <1>5, ScopedOK
<1>7. PICK route : route = RouteOf(s, r)
  OBVIOUS
<1>8. route \in Routes /\ SuitsRequest(route, r)
  BY <1>2, <1>3, <1>6, <1>7, RouteOfSuits
<1>9. PICK locale : locale = Asked[r.judgment].locale
  OBVIOUS
<1>10. locale \in Locales
  BY <1>5, <1>9, SessionAssumption
<1>11. PICK picked, reached : picked = Picked(route, locale) /\ reached = Reached(route, locale)
  OBVIOUS
<1>12. picked \in SUBSET Contents /\ reached \in SUBSET Contents
  BY <1>8, <1>10, <1>11, PickedTyped
<1>13. PICK told : told = [s EXCEPT !.delivered = @ \cup reached]
  OBVIOUS
<1>14. s = [scope |-> s.scope, key |-> s.key, route |-> s.route, delivered |-> s.delivered,
            available |-> s.available]
  BY <1>6 DEF Sessions
<1>15. told = [scope |-> s.scope, key |-> s.key, route |-> s.route, delivered |-> s.delivered \cup reached,
               available |-> s.available]
  BY <1>13, <1>14
<1>16. told \in Sessions
  BY <1>6, <1>12, <1>15 DEF Sessions
<1>17. SessionOK(told)
  BY <1>6, <1>15 DEF SessionOK
<1>18. CASE picked \subseteq Projected
  <2>1. PICK t, a : /\ t = [told EXCEPT !.key = r, !.route = route]
                    /\ a = Answer("selected", route, picked \ s.available, picked \cap s.available)
    OBVIOUS
  <2>2. Reply(t, a)
    BY <1>1, <1>4, <1>7, <1>9, <1>11, <1>13, <1>18, <2>1 DEF Select
  <2>3. t = [scope |-> s.scope, key |-> r, route |-> route, delivered |-> told.delivered,
             available |-> s.available]
    BY <1>15, <2>1
  <2>4. t \in Sessions
    BY <1>3, <1>8, <1>16, <1>6, <2>3 DEF Sessions
  <2>5. SessionOK(t)
    BY <1>6, <1>8, <2>3 DEF SessionOK
  <2>6. a = [to |-> r, kind |-> "selected", route |-> route, emitted |-> picked \ s.available,
             withheld |-> picked \cap s.available]
    BY <1>1, <2>1 DEF Answer
  <2>7. r \in Requests /\ "selected" \in Kinds
    BY <1>3 DEF Requests, Kinds
  <2>8. a \in AnswerRecords
    BY <1>8, <1>12, <2>6, <2>7 DEF AnswerRecords
  <2>9. \A c \in Contexts : r.scope = Here(c) => picked \cap s.available \subseteq held[c]
    BY <1>6 DEF SessionOK
  <2>10. AnswerOK(a)
    BY <1>3, <1>5, <1>8, <2>6, <2>9 DEF AnswerOK
  <2>11. QED  BY <1>2, <2>2, <2>4, <2>5, <2>8, <2>10, ReplyInv
<1>19. CASE ~(picked \subseteq Projected)
  <2>1. Reply(told, Plain("decision_unavailable"))
    BY <1>1, <1>4, <1>7, <1>9, <1>11, <1>13, <1>19 DEF Select
  <2>2. "decision_unavailable" \in Kinds
    BY DEF Kinds
  <2>3. QED  BY <1>2, <1>16, <1>17, <2>1, <2>2, PlainInv
<1>20. QED  BY <1>18, <1>19

\* The process is lost: its requests with it, its answers not.
LEMMA LoseInv ==
  ASSUME IInv, Lose
  PROVE  IInv'
<1>1. /\ session' = Fresh /\ inbox' = <<>> /\ outbox' = outbox
      /\ epoch' = epoch /\ held' = held /\ sent' = sent
  BY DEF Lose, agents
<1>2. /\ outbox \in Seq(AnswerRecords) /\ epoch \in [Contexts -> 0 .. MaxEpoch]
      /\ held \in [Contexts -> SUBSET Contents] /\ sent \in 0 .. MaxRequests
  BY DEF IInv, Typed
<1>3. PICK s : s = Afresh(Unscoped)
  OBVIOUS
<1>4. s \in Sessions /\ SessionOK(s)
  BY <1>3, FreshOK
<1>5. session' = s
  BY <1>1, <1>3, FreshIs
<1>6. OnlyGrows
  BY <1>1, <1>2 DEF OnlyGrows
<1>7. Typed'
  BY <1>1, <1>2, <1>4, <1>5 DEF Typed
<1>8. SessionOK(session)'
  <2>1. SessionOK(s)'
    BY <1>2, <1>4, <1>6, SessionSurvives
  <2>2. QED  BY <1>5, <2>1
<1>9. InboxOK'
  <2>1. Len(inbox') = 0
    BY <1>1
  <2>2. QED  BY <2>1 DEF InboxOK
<1>10. OutboxOK'
  <2>1. PICK b : b = Plain("fault")
    OBVIOUS
  <2>2. AnswerOK(b)
    BY <2>1 DEF AnswerOK, Plain, Answer
  <2>3. \A i \in 1..Len(outbox') : outbox'[i] = b \/ \E j \in 1..Len(outbox) : outbox'[i] = outbox[j]
    BY <1>1
  <2>4. QED  BY <1>6, <2>2, <2>3, OutboxSurvives
<1>11. QED  BY <1>7, <1>8, <1>9, <1>10 DEF IInv

\* A step of the agents that leaves the process and the outbox alone, or takes from it.
LEMMA AgentsInv ==
  ASSUME IInv, OnlyGrows, session' = session,
         epoch' \in [Contexts -> 0 .. MaxEpoch], held' \in [Contexts -> SUBSET Contents],
         sent' \in 0 .. MaxRequests,
         NEW R, \A r \in R : r \in Requests /\ RequestOK(r), inbox' \in Seq(Requests),
         \A i \in 1..Len(inbox') : inbox'[i] \in R \/ \E j \in 1..Len(inbox) : inbox'[i] = inbox[j],
         outbox' = outbox \/ (outbox # <<>> /\ outbox' = Tail(outbox))
  PROVE  IInv'
<1>1. session \in Sessions /\ outbox \in Seq(AnswerRecords) /\ epoch \in [Contexts -> 0 .. MaxEpoch]
  BY DEF IInv, Typed
<1>2. /\ outbox' \in Seq(AnswerRecords)
      /\ \A i \in 1..Len(outbox') : \E j \in 1..Len(outbox) : outbox'[i] = outbox[j]
  <2>1. CASE outbox' = outbox
    BY <1>1, <2>1
  <2>2. CASE outbox # <<>> /\ outbox' = Tail(outbox)
    <3>1. /\ outbox' \in Seq(AnswerRecords) /\ Len(outbox') = Len(outbox) - 1 /\ Len(outbox) \in Nat
          /\ \A i \in 1..Len(outbox') : outbox'[i] = outbox[i + 1]
      BY <1>1, <2>2, HeadTailProperties, LenProperties
    <3>2. \A i \in 1..Len(outbox') : i + 1 \in 1..Len(outbox)
      BY <3>1
    <3>3. QED  BY <3>1, <3>2
  <2>3. QED  BY <2>1, <2>2
<1>3. Typed'
  BY <1>1, <1>2 DEF Typed
<1>4. SessionOK(session)'
  <2>1. PICK s : s = session
    OBVIOUS
  <2>2. SessionOK(s)'
    BY <1>1, <2>1, SessionSurvives DEF IInv
  <2>3. QED  BY <2>1, <2>2
<1>5. InboxOK'
  BY InboxSurvives, Zenon
<1>6. OutboxOK'
  <2>1. PICK b : b = Plain("fault")
    OBVIOUS
  <2>2. AnswerOK(b)
    BY <2>1 DEF AnswerOK, Plain, Answer
  <2>3. \A i \in 1..Len(outbox') : outbox'[i] = b \/ \E j \in 1..Len(outbox) : outbox'[i] = outbox[j]
    BY <1>2
  <2>4. QED  BY <2>2, <2>3, OutboxSurvives, Zenon
<1>7. QED  BY <1>3, <1>4, <1>5, <1>6 DEF IInv

\* A request that is right is sent.
LEMMA SendInv ==
  ASSUME IInv, NEW r \in Requests, RequestOK(r), Send(r)
  PROVE  IInv'
<1>1. /\ inbox' = Append(inbox, r) /\ sent' = sent + 1 /\ sent < MaxRequests
      /\ session' = session /\ outbox' = outbox /\ epoch' = epoch /\ held' = held
  BY DEF Send
<1>2. /\ inbox \in Seq(Requests) /\ epoch \in [Contexts -> 0 .. MaxEpoch]
      /\ held \in [Contexts -> SUBSET Contents] /\ sent \in 0 .. MaxRequests
  BY DEF IInv, Typed
<1>3. OnlyGrows
  BY <1>1, <1>2 DEF OnlyGrows
<1>4. sent' \in 0 .. MaxRequests
  BY <1>1, <1>2, SessionAssumption
<1>5. PICK R : R = {r}
  OBVIOUS
<1>6. \A q \in R : q \in Requests /\ RequestOK(q)
  BY <1>5
<1>7. /\ inbox' \in Seq(Requests)
      /\ \A i \in 1..Len(inbox') : inbox'[i] \in R \/ \E j \in 1..Len(inbox) : inbox'[i] = inbox[j]
  BY <1>1, <1>2, <1>5
<1>8. epoch' \in [Contexts -> 0 .. MaxEpoch] /\ held' \in [Contexts -> SUBSET Contents]
  BY <1>1, <1>2
<1>9. QED  BY <1>1, <1>3, <1>4, <1>6, <1>7, <1>8, AgentsInv, Zenon

\* What the agents send is right: they are at the epoch they speak of, and report what
\* they hold.
LEMMA SendingInv ==
  ASSUME IInv, (\E c \in Contexts : Ask(c) \/ Report(c)) \/ Say
  PROVE  IInv'
<1>1. epoch \in [Contexts -> 0 .. MaxEpoch] /\ held \in [Contexts -> SUBSET Contents]
  BY DEF IInv, Typed
<1>2. \A c \in Contexts : epoch[c] \in 0 .. MaxEpoch /\ epoch[c] \in Nat
  BY <1>1, SessionAssumption
<1>3. \A c \in Contexts : Here(c) \in Scopes /\ NotAhead(Here(c))
  BY <1>2 DEF Here, Scopes, NotAhead
<1>4. ASSUME NEW c \in Contexts, Ask(c)
      PROVE  IInv'
  <2>1. PICK j \in Judgments : Send([op |-> "select", scope |-> Here(c), judgment |-> j])
    BY <1>4 DEF Ask
  <2>2. PICK r : r = [op |-> "select", scope |-> Here(c), judgment |-> j]
    OBVIOUS
  <2>3. r \in Requests
    BY <1>3, <2>2 DEF Requests, Selects
  <2>4. RequestOK(r)
    BY <1>3, <2>2 DEF RequestOK
  <2>5. QED  BY <2>1, <2>2, <2>3, <2>4, SendInv
<1>5. ASSUME NEW c \in Contexts, Report(c)
      PROVE  IInv'
  <2>1. PICK D \in SUBSET held[c] : Send([op |-> "acknowledge", scope |-> Here(c), digests |-> D])
    BY <1>5 DEF Report
  <2>2. PICK r : r = [op |-> "acknowledge", scope |-> Here(c), digests |-> D]
    OBVIOUS
  <2>3. D \in SUBSET Contents
    BY <1>1
  <2>4. r \in Requests
    BY <1>3, <2>2, <2>3 DEF Requests, Acknowledgments
  <2>5. \A d \in Contexts : Here(c) = Here(d) => d = c
    BY DEF Here
  <2>6. RequestOK(r)
    BY <1>3, <2>2, <2>5 DEF RequestOK
  <2>7. QED  BY <2>1, <2>2, <2>4, <2>6, SendInv
<1>6. ASSUME Say
      PROVE  IInv'
  <2>1. PICK r \in Others : Send(r)
    BY <1>6 DEF Say
  <2>2. r \in Requests /\ r.op \notin {"select", "acknowledge"}
    BY DEF Others, Requests
  <2>3. RequestOK(r)
    BY <2>2 DEF RequestOK
  <2>4. QED  BY <2>1, <2>2, <2>3, SendInv
<1>7. QED  BY <1>4, <1>5, <1>6

\* Some of the instructions of an answer are read.
ReadsOf(a) ==
  \E R \in SUBSET a.emitted :
    held' = [c \in Contexts |-> IF R # {} /\ c = a.to.scope[1] THEN held[c] \cup R ELSE held[c]]

\* Reading adds to what is held.
LEMMA ReadInv ==
  ASSUME IInv, Read
  PROVE  IInv'
<1>1. PICK a : a = Head(outbox)
  OBVIOUS
<1>2. PICK R \in SUBSET a.emitted :
        held' = [c \in Contexts |-> IF R # {} /\ c = a.to.scope[1] THEN held[c] \cup R ELSE held[c]]
  <2>1. ReadsOf(Head(outbox))
    BY Zenon DEF Read, ReadsOf
  <2>2. ReadsOf(a)
    BY <1>1, <2>1
  <2>3. QED  BY <2>2, Zenon DEF ReadsOf
<1>3. /\ outbox # <<>> /\ outbox' = Tail(outbox)
      /\ session' = session /\ inbox' = inbox /\ epoch' = epoch /\ sent' = sent
  BY DEF Read
<1>4. /\ inbox \in Seq(Requests) /\ outbox \in Seq(AnswerRecords)
      /\ epoch \in [Contexts -> 0 .. MaxEpoch]
      /\ held \in [Contexts -> SUBSET Contents] /\ sent \in 0 .. MaxRequests
  BY DEF IInv, Typed
<1>5. a \in AnswerRecords
  BY <1>1, <1>3, <1>4, HeadTailProperties
<1>6. R \subseteq Contents
  BY <1>5 DEF AnswerRecords
<1>7. held' \in [Contexts -> SUBSET Contents] /\ \A c \in Contexts : held[c] \subseteq held'[c]
  BY <1>2, <1>4, <1>6
<1>8. OnlyGrows
  BY <1>3, <1>4, <1>7 DEF OnlyGrows
<1>9. PICK Q : Q = {}
  OBVIOUS
<1>10. \A r \in Q : r \in Requests /\ RequestOK(r)
  BY <1>9
<1>11. /\ inbox' \in Seq(Requests) /\ sent' \in 0 .. MaxRequests
       /\ epoch' \in [Contexts -> 0 .. MaxEpoch]
       /\ \A i \in 1..Len(inbox') : inbox'[i] \in Q \/ \E j \in 1..Len(inbox) : inbox'[i] = inbox[j]
  BY <1>3, <1>4
<1>12. QED  BY <1>3, <1>7, <1>8, <1>10, <1>11, AgentsInv, Zenon

\* Compaction forgets, and makes an epoch nothing speaks of.
LEMMA CompactInv ==
  ASSUME IInv, NEW c \in Contexts, Compact(c)
  PROVE  IInv'
<1>1. /\ epoch[c] < MaxEpoch
      /\ epoch' = [epoch EXCEPT ![c] = @ + 1] /\ held' = [held EXCEPT ![c] = {}]
      /\ session' = session /\ inbox' = inbox /\ outbox' = outbox /\ sent' = sent
  BY DEF Compact
<1>2. /\ inbox \in Seq(Requests) /\ epoch \in [Contexts -> 0 .. MaxEpoch]
      /\ held \in [Contexts -> SUBSET Contents] /\ sent \in 0 .. MaxRequests
  BY DEF IInv, Typed
<1>3. epoch' \in [Contexts -> 0 .. MaxEpoch] /\ held' \in [Contexts -> SUBSET Contents]
  BY <1>1, <1>2, SessionAssumption
<1>4. OnlyGrows
  BY <1>1, <1>2, <1>3 DEF OnlyGrows
<1>5. PICK Q : Q = {}
  OBVIOUS
<1>6. \A r \in Q : r \in Requests /\ RequestOK(r)
  BY <1>5
<1>7. /\ inbox' \in Seq(Requests) /\ sent' \in 0 .. MaxRequests
      /\ \A i \in 1..Len(inbox') : inbox'[i] \in Q \/ \E j \in 1..Len(inbox) : inbox'[i] = inbox[j]
  BY <1>1, <1>2
<1>8. QED  BY <1>1, <1>3, <1>4, <1>6, <1>7, AgentsInv, Zenon

\* A step that changes nothing keeps the invariant.
LEMMA StutterInv ==
  ASSUME IInv, UNCHANGED vars
  PROVE  IInv'
BY DEF vars, IInv, Typed, SessionOK, InboxOK, OutboxOK, RequestOK, AnswerOK, NotAhead, Here

\* The invariant holds at first.
LEMMA InitInv ==
  ASSUME Init
  PROVE  IInv
<1>1. /\ session = Fresh /\ inbox = <<>> /\ outbox = <<>> /\ sent = 0
      /\ epoch = [c \in Contexts |-> 0] /\ held = [c \in Contexts |-> {}]
  BY DEF Init
<1>2. PICK s : s = Afresh(Unscoped)
  OBVIOUS
<1>3. session = s
  BY <1>1, <1>2, FreshIs
<1>4. s \in Sessions /\ SessionOK(s)
  BY <1>2, FreshOK
<1>5. Typed
  BY <1>1, <1>3, <1>4, SessionAssumption DEF Typed
<1>6. InboxOK /\ OutboxOK
  <2>1. Len(inbox) = 0 /\ Len(outbox) = 0
    BY <1>1
  <2>2. QED  BY <2>1 DEF InboxOK, OutboxOK
<1>7. QED  BY <1>3, <1>4, <1>5, <1>6 DEF IInv

\* The invariant holds throughout.
THEOREM Invariance == Spec => []IInv
<1>1. Init => IInv
  BY InitInv
<1>2. IInv /\ [Next]_vars => IInv'
  <2>. SUFFICES ASSUME IInv, [Next]_vars
                PROVE  IInv'
    OBVIOUS
  <2>1. CASE Malformed \/ Catalog \/ SelectRejected
    BY <2>1, KeepingInv
  <2>2. CASE Reset
    BY <2>2, ResetInv
  <2>3. CASE Acknowledge
    BY <2>3, AcknowledgeInv
  <2>4. CASE SelectUnknown
    BY <2>4, SelectUnknownInv
  <2>5. CASE Select
    BY <2>5, SelectInv
  <2>6. CASE Lose
    BY <2>6, LoseInv
  <2>7. CASE (\E c \in Contexts : Ask(c) \/ Report(c)) \/ Say
    BY <2>7, SendingInv
  <2>8. CASE \E c \in Contexts : Compact(c)
    BY <2>8, CompactInv
  <2>9. CASE Read
    BY <2>9, ReadInv
  <2>10. CASE UNCHANGED vars
    BY <2>10, StutterInv
  <2>11. QED  BY <2>1, <2>2, <2>3, <2>4, <2>5, <2>6, <2>7, <2>8, <2>9, <2>10, ZenonT(60) DEF Next
<1>3. QED  BY <1>1, <1>2, PTL DEF Spec

-----------------------------------------------------------------------------
\* The variables have their types.
THEOREM Types_OK == Spec => []TypeOK
<1>1. IInv => TypeOK
  BY DEF IInv, Typed, TypeOK, AnswerRecords
<1>2. QED  BY <1>1, Invariance, PTL

\* What an answer leaves out is held by the agent it is for, whatever was compacted,
\* handed off, reset or lost between the report and the answer.
THEOREM Withheld_Is_Held == Spec => []WithheldIsHeld
<1>1. IInv => WithheldIsHeld
  <2>. SUFFICES ASSUME IInv, NEW a \in Selections, NEW c \in Contexts, a.to.scope = Here(c)
                PROVE  a.withheld \subseteq held[c]
    BY DEF WithheldIsHeld
  <2>1. outbox \in Seq(AnswerRecords)
    BY DEF IInv, Typed
  <2>2. PICK i \in 1..Len(outbox) : a = outbox[i]
    BY <2>1 DEF Selections, Answers
  <2>3. AnswerOK(a) /\ a.kind = "selected"
    BY <2>2 DEF IInv, OutboxOK, Selections
  <2>4. QED  BY <2>3 DEF AnswerOK
<1>2. QED  BY <1>1, Invariance, PTL

\* No method is selected against a feature that was submitted, nor for mechanical work.
THEOREM Nothing_Contraindicated == Spec => []NothingContraindicated
<1>1. IInv => NothingContraindicated
  <2>. SUFFICES ASSUME IInv, NEW a \in Selections, NEW m \in Selected(a.route),
                       NEW j, j = Asked[a.to.judgment]
                PROVE  /\ Catalogue[m].contra \cap
                            {j.routing.entries[i].key : i \in DOMAIN j.routing.entries} = {}
                       /\ j.participation # "mechanical"
    BY DEF NothingContraindicated
  <2>1. outbox \in Seq(AnswerRecords)
    BY DEF IInv, Typed
  <2>2. PICK i \in 1..Len(outbox) : a = outbox[i]
    BY <2>1 DEF Selections, Answers
  <2>3. AnswerOK(a) /\ a.kind = "selected"
    BY <2>2 DEF IInv, OutboxOK, Selections
  <2>4. Suits(a.route, j.participation, j.routing)
    BY <2>3 DEF AnswerOK, SuitsRequest
  <2>5. Active(m, j.routing) = {} /\ j.participation # "mechanical"
    BY <2>4 DEF Suits
  <2>6. QED  BY <2>5 DEF Active, Keys
<1>2. QED  BY <1>1, Invariance, PTL

\* A request that is answered with a fault leaves the session as it was.
THEOREM Rejected_Changes_Nothing == Spec => RejectedChangesNothing
<1>1. IInv /\ [Next]_vars =>
        [(Len(outbox') > Len(outbox) /\ outbox'[Len(outbox')].kind = "fault") => session' = session]_vars
  <2>. SUFFICES ASSUME IInv, Next, Len(outbox') > Len(outbox), outbox'[Len(outbox')].kind = "fault"
                PROVE  session' = session
    OBVIOUS
  <2>1. outbox \in Seq(AnswerRecords) /\ Len(outbox) \in Nat
    BY LenProperties DEF IInv, Typed
  <2>2. ASSUME NEW s, NEW a, Reply(s, a)
        PROVE  session' = s /\ a.kind = "fault"
    <3>1. session' = s /\ outbox' = Append(outbox, a)
      BY <2>2 DEF Reply
    <3>2. outbox'[Len(outbox')] = a
      BY <2>1, <3>1
    <3>3. QED  BY <3>1, <3>2
  <2>3. ASSUME NEW s, NEW kind, Reply(s, Plain(kind))
        PROVE  session' = s /\ kind = "fault"
    <3>1. Plain(kind).kind = kind
      BY DEF Plain, Answer
    <3>2. QED  BY <2>2, <2>3, <3>1
  <2>4. CASE Malformed \/ SelectRejected \/ Catalog
    <3>1. Reply(session, Plain("fault")) \/ Reply(session, Plain("catalog"))
      BY <2>4 DEF Malformed, SelectRejected, Catalog
    <3>2. QED  BY <2>3, <3>1
  <2>5. CASE Reset
    BY <2>3, <2>5 DEF Reset
  <2>6. CASE Acknowledge
    <3>1. \/ Reply(session, Plain("fault"))
          \/ \E s : Reply(s, Plain("acknowledged"))
      BY <2>6 DEF Acknowledge
    <3>2. QED  BY <2>3, <3>1
  <2>7. CASE SelectUnknown
    BY <2>3, <2>7 DEF SelectUnknown
  <2>8. CASE Select
    <3>1. \/ \E s : Reply(s, Plain("decision_unavailable"))
          \/ \E s, route, D, E : Reply(s, Answer("selected", route, D, E))
      BY <2>8 DEF Select
    <3>2. ASSUME NEW s, NEW route, NEW D, NEW E, Reply(s, Answer("selected", route, D, E))
          PROVE  FALSE
      <4>1. Answer("selected", route, D, E).kind = "selected"
        BY DEF Answer
      <4>2. QED  BY <2>2, <3>2, <4>1
    <3>3. QED  BY <2>3, <3>1, <3>2
  <2>9. CASE Lose \/ Say \/ (\E c \in Contexts : Ask(c) \/ Report(c) \/ Compact(c))
    <3>1. outbox' = outbox
      BY <2>9 DEF Lose, Say, Ask, Report, Compact, Send
    <3>2. QED  BY <2>1, <3>1
  <2>10. CASE Read
    BY <2>10 DEF Read
  <2>11. QED  BY <2>4, <2>5, <2>6, <2>7, <2>8, <2>9, <2>10, ZenonT(60) DEF Next
<1>2. QED  BY <1>1, Invariance, PTL DEF Spec, RejectedChangesNothing

=============================================================================
