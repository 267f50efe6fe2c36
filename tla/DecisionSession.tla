-------------------------- MODULE DecisionSession --------------------------
(***************************************************************************)
(* The decision-point process (selector/decision.py, cli/decision.py): it  *)
(* reads one request after the other from a pipe, routes judgments to      *)
(* methods, and leaves out the instructions of a method the agent says it  *)
(* still holds.  Around it, from docs/decision-points.md, the agents that  *)
(* use it: one or several contexts on one stream, whose memory is          *)
(* compacted at any time, also between a request and its answer, and who   *)
(* do not always read all they are sent.  The process may be lost.         *)
(*                                                                         *)
(* A content is a method in a locale; the packaged content does not change *)
(* while a process runs, so that its digest and identity are the content   *)
(* itself.  Left out: the flag against recursive calls, which the CLI's    *)
(* loop cannot make, and the response policy, which adds text.             *)
(***************************************************************************)
EXTENDS Routing

CONSTANTS
  Contexts,    \* context handles of the agents
  Locales,     \* the locales requests are made in
  Judgments,   \* what the agents ask about, a decision and its revision each,
  Asked,       \* with its locale, participation and routing payload
  Projected,   \* the contents the package holds
  Unscoped,    \* no scope, no last request
  MaxEpoch,    \* bound on compactions of one context
  MaxRequests, \* bound on requests
  MaxInFlight  \* bound on requests and answers in the pipes

Contents == Methods \X Locales
Scopes == Contexts \X (0 .. MaxEpoch)

ASSUME SessionAssumption ==
  /\ MaxEpoch \in Nat /\ MaxRequests \in Nat /\ MaxInFlight \in Nat
  /\ Projected \subseteq Contents
  /\ Unscoped \notin Scopes
  /\ DOMAIN Asked = Judgments
  /\ \A j \in Judgments :
       /\ Asked[j].locale \in Locales
       /\ Asked[j].participation \in {"judgment", "mixed", "mechanical"}
       /\ Asked[j].routing.explicit \in Nat \cup {Absent}

VARIABLES
  session, \* what the process remembers
  inbox,   \* requests it has not read
  outbox,  \* answers nobody has read
  epoch,   \* of each context
  held,    \* the contents each context holds, completely read
  sent     \* number of requests

vars == <<session, inbox, outbox, epoch, held, sent>>
agents == <<epoch, held, sent>>

Selects == [op : {"select"}, scope : Scopes, judgment : Judgments]
Acknowledgments == [op : {"acknowledge"}, scope : Scopes, digests : SUBSET Contents]
Others == [op : {"reset", "catalog", "malformed"}]
Requests == Selects \cup Acknowledgments \cup Others

Reasons == {"none", "no_eligible_method", "contraindicated_explicit_method", "explicit_method",
            "weighted_primary", "weighted_primary_with_complement", "answer_shape_fallback"}
Routes == [primary : Methods \cup {Absent}, secondary : Methods \cup {Absent}, reason : Reasons]
Sessions == [scope : Scopes \cup {Unscoped}, key : Selects \cup {Unscoped}, route : Routes,
             delivered : SUBSET Contents, available : SUBSET Contents]

Fresh == [scope |-> Unscoped, key |-> Unscoped, route |-> NoRoute("no_eligible_method"),
          delivered |-> {}, available |-> {}]

Init ==
  /\ session = Fresh
  /\ inbox = <<>> /\ outbox = <<>>
  /\ epoch = [c \in Contexts |-> 0]
  /\ held = [c \in Contexts |-> {}]
  /\ sent = 0

-----------------------------------------------------------------------------
(* The process. *)

Answer(kind, route, emitted, withheld) ==
  [to |-> Head(inbox), kind |-> kind, route |-> route, emitted |-> emitted,
   withheld |-> withheld]
Plain(kind) == Answer(kind, NoRoute("none"), {}, {})

\* handle takes the next request, answers it and leaves the session as s.
Reply(s, answer) ==
  /\ session' = s
  /\ outbox' = Append(outbox, answer)
  /\ inbox' = Tail(inbox)
  /\ UNCHANGED agents

Takes(op) == inbox # <<>> /\ Head(inbox).op = op

Malformed == Takes("malformed") /\ Reply(session, Plain("fault"))
Catalog == Takes("catalog") /\ Reply(session, Plain("catalog"))
Reset == Takes("reset") /\ Reply(Fresh, Plain("reset"))

\* _acknowledge: of the current scope, and only of what was delivered in it.
Acknowledgeable(r) == r.scope = session.scope /\ r.digests \subseteq session.delivered
Acknowledge ==
  /\ Takes("acknowledge")
  /\ LET r == Head(inbox)
     IN  IF Acknowledgeable(r)
         THEN Reply([session EXCEPT !.available = @ \cup r.digests], Plain("acknowledged"))
         ELSE Reply(session, Plain("fault"))

\* _check_scope and the checks that follow: all of them before any change.
Stale(scope) ==
  /\ session.scope # Unscoped
  /\ session.scope[1] = scope[1]
  /\ scope[2] < session.scope[2]
Acceptable(r) == ~Stale(r.scope) /\ PayloadValid(Asked[r.judgment].routing)

\* Mutant: the epoch is not part of the scope.
ScopedByContext(scope) ==
  IF session.scope # Unscoped /\ session.scope[1] = scope[1]
  THEN [session EXCEPT !.scope = scope] ELSE [Fresh EXCEPT !.scope = scope]

\* _scope: another context or epoch retires what was known of the last one.
Scoped(scope) ==
  IF session.scope = scope THEN session ELSE [Fresh EXCEPT !.scope = scope]

\* _deliver: one method after the other; a content that is missing ends it.
Picked(route, locale) == {<<m, locale>> : m \in Selected(route)}
Reached(route, locale) ==
  IF Picked(route, locale) \subseteq Projected THEN Picked(route, locale)
  ELSE Picked(Alone(route.primary, route.reason), locale) \cap Projected

Unknown(r) == Asked[r.judgment].routing.explicit \notin Methods \cup {Absent}

\* Mutant: the scope is applied before the rest of the request is checked.
SelectRejectedLate ==
  /\ Takes("select")
  /\ ~Acceptable(Head(inbox))
  /\ Reply(IF Stale(Head(inbox).scope) THEN session ELSE Scoped(Head(inbox).scope),
           Plain("fault"))

SelectRejected ==
  /\ Takes("select")
  /\ ~Acceptable(Head(inbox))
  /\ Reply(session, Plain("fault"))

SelectUnknown ==
  /\ Takes("select")
  /\ Acceptable(Head(inbox)) /\ Unknown(Head(inbox))
  /\ Reply(Scoped(Head(inbox).scope), Plain("unknown_method"))

\* The route of a request: reused when the request is the last one again.
FreshRoute(r) == Route(Asked[r.judgment].participation, Asked[r.judgment].routing)

RouteOf(s, r) == IF s.key = r THEN s.route ELSE FreshRoute(r)

Select ==
  /\ Takes("select")
  /\ Acceptable(Head(inbox)) /\ ~Unknown(Head(inbox))
  /\ LET r == Head(inbox)
         s == Scoped(r.scope)
         route == RouteOf(s, r)
         picked == Picked(route, Asked[r.judgment].locale)
         told == [s EXCEPT !.delivered = @ \cup Reached(route, Asked[r.judgment].locale)]
     IN  IF picked \subseteq Projected
         THEN Reply([told EXCEPT !.key = r, !.route = route],
                    Answer("selected", route, picked \ s.available, picked \cap s.available))
         ELSE Reply(told, Plain("decision_unavailable"))

\* The process ends, or reads a line that is too long and ends: what it had not
\* read is lost, what it wrote can still be read.  The next one starts afresh.
Lose ==
  /\ session # Fresh \/ inbox # <<>>
  /\ session' = Fresh /\ inbox' = <<>>
  /\ UNCHANGED <<outbox, agents>>

-----------------------------------------------------------------------------
(* The agents. *)

Here(c) == <<c, epoch[c]>>

Send(r) ==
  /\ sent < MaxRequests /\ Len(inbox) + Len(outbox) < MaxInFlight
  /\ inbox' = Append(inbox, r)
  /\ sent' = sent + 1
  /\ UNCHANGED <<session, outbox, epoch, held>>

Ask(c) == \E j \in Judgments : Send([op |-> "select", scope |-> Here(c), judgment |-> j])

\* An agent reports only what it holds.
Report(c) ==
  \E D \in SUBSET held[c] \ {{}} :
    Send([op |-> "acknowledge", scope |-> Here(c), digests |-> D])

Say == \E r \in Others : Send(r)

\* The agent that asked reads the answer, and all, some or none of the instructions
\* in it to their end.
Read ==
  /\ outbox # <<>>
  /\ LET a == Head(outbox)
     IN  \E R \in SUBSET a.emitted :
           held' = [c \in Contexts |-> IF R # {} /\ c = a.to.scope[1] THEN held[c] \cup R
                                      ELSE held[c]]
  /\ outbox' = Tail(outbox)
  /\ UNCHANGED <<session, inbox, epoch, sent>>

\* Compaction: the context goes on, at its next epoch, without what it had read.
Compact(c) ==
  /\ epoch[c] < MaxEpoch
  /\ epoch' = [epoch EXCEPT ![c] = @ + 1]
  /\ held' = [held EXCEPT ![c] = {}]
  /\ UNCHANGED <<session, inbox, outbox, sent>>

Next ==
  \/ Malformed \/ Catalog \/ Reset \/ Acknowledge \/ SelectRejected \/ SelectUnknown \/ Select
  \/ Lose
  \/ \E c \in Contexts : Ask(c) \/ Report(c) \/ Compact(c)
  \/ Say \/ Read

Spec == Init /\ [][Next]_vars

-----------------------------------------------------------------------------
(* Properties. *)

Answers == {outbox[i] : i \in DOMAIN outbox}
Selections == {a \in Answers : a.kind = "selected"}

\* The types of the variables.
Kinds == {"selected", "decision_unavailable", "unknown_method", "acknowledged", "catalog",
          "reset", "fault"}
TypeOK ==
  /\ session \in Sessions
  /\ inbox \in Seq(Requests)
  /\ outbox \in Seq([to : Requests, kind : Kinds, route : Routes,
                      emitted : SUBSET Contents, withheld : SUBSET Contents])
  /\ epoch \in [Contexts -> 0 .. MaxEpoch]
  /\ held \in [Contexts -> SUBSET Contents]
  /\ sent \in 0 .. MaxRequests

\* An answer leaves out the instructions of a method only if the agent it is for, at
\* the epoch it is for, holds them: whatever was compacted, handed off to another
\* context, reset or lost between the report and the answer (_deliver, _scope).
WithheldIsHeld ==
  \A a \in Selections : \A c \in Contexts : a.to.scope = Here(c) => a.withheld \subseteq held[c]

\* No method is selected, first, as a complement, as a fallback or again, against a
\* feature that was submitted, nor for mechanical work.
NothingContraindicated ==
  \A a \in Selections : LET j == Asked[a.to.judgment] IN
    \A m \in Selected(a.route) :
      /\ Catalogue[m].contra \cap {j.routing.entries[i].key : i \in DOMAIN j.routing.entries} = {}
      /\ j.participation # "mechanical"

\* docs/decision-points.md:103: "a rejected request does not change session state".
RejectedChangesNothing ==
  [][(Len(outbox') > Len(outbox) /\ outbox'[Len(outbox')].kind = "fault") => session' = session]_vars
=============================================================================
