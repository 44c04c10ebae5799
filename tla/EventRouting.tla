----------------------------- MODULE EventRouting -----------------------------
(***************************************************************************)
(* Which queues an event type is delivered to: the routing table compiled  *)
(* from the modules' subscriptions, the lookup DispatchEngine makes in it, *)
(* and the registry's own notion of a subscriber, which the coverage check *)
(* of the bootstrap uses.                                                  *)
(*                                                                         *)
(* A dotted name is the sequence of its segments.  A pattern is a name     *)
(* whose last segment may be "*": <<"*">> is the global catch-all.         *)
(***************************************************************************)
EXTENDS Naturals, SequencesExt

CONSTANTS
  Subscriptions,  \* records: name, patterns, queues, priority
  EventTypes,     \* the catalog, AllEvents
  Stems           \* pairs <<s, t>> of segments: t is s with more characters

Wildcard == "*"

Queues == UNION {s.queues : s \in Subscriptions}

Priorities == {"none", "background", "standard", "critical"}

ASSUME SubscriptionsAssumption ==
  /\ IsFiniteSet(Subscriptions)
  /\ \A s \in Subscriptions : s.priority \in Priorities /\ s.patterns \subseteq Seq(STRING)

ASSUME EventTypesAssumption == EventTypes \subseteq Seq(STRING)

Rank == [p \in Priorities |-> CASE p = "critical" -> 3 [] p = "standard" -> 2
                                [] p = "background" -> 1 [] OTHER -> 0]

-----------------------------------------------------------------------------
(* RoutingCompiler.compile: fold the subscriptions into a table.           *)

\* Mutant: the priority of the last registered subscription wins.
LatestPriority(a, b) == IF b = "none" THEN a ELSE b

HigherPriority(a, b) == IF Rank[a] >= Rank[b] THEN a ELSE b

NoRoute == [queues |-> {}, priority |-> "none"]

RouteAt(table, p) == IF p \in DOMAIN table THEN table[p] ELSE NoRoute

\* Queues of subscriptions sharing a pattern are merged, their priority is the
\* highest one.
AddSubscription(table, s) ==
  [p \in DOMAIN table \union s.patterns |->
     IF p \in s.patterns
       THEN [queues   |-> RouteAt(table, p).queues \union s.queues,
             priority |-> HigherPriority(RouteAt(table, p).priority, s.priority)]
       ELSE table[p]]

\* The table after each subscription, in the order of their registration.
Tables(order) ==
  LET upTo[i \in 0..Len(order)] ==
        IF i = 0 THEN [p \in {} |-> NoRoute]
                 ELSE AddSubscription(upTo[i - 1], order[i])
  IN upTo

Compile(order) == Tables(order)[Len(order)]

\* The orders in which modules may register: duplicate names are refused.
RegistrationOrders(subs) ==
  {o \in SetToSeqs(subs) : \A i, j \in DOMAIN o : o[i].name = o[j].name => i = j}

\* A table that leads each pattern to the queues of all that claim it, with the
\* highest of their priorities.
IsTableOf(table, subs) ==
  LET claimants(p) == {s \in subs : p \in s.patterns}
  IN /\ DOMAIN table = UNION {s.patterns : s \in subs}
     /\ \A p \in DOMAIN table :
          /\ table[p].queues = UNION {s.queues : s \in claimants(p)}
          /\ table[p].priority \in {s.priority : s \in claimants(p)}
          /\ \A s \in claimants(p) : Rank[table[p].priority] >= Rank[s.priority]

-----------------------------------------------------------------------------
(* DispatchEngine.computeRoute.                                            *)

IsPrefixPattern(p) == Len(p) > 1 /\ Last(p) = Wildcard

\* 'a.b.*' covers what starts with 'a.b.'.
Covers(p, type) == IsPrefixPattern(p) /\ IsStrictPrefix(Front(p), type)

\* Mutant: the wildcard stands for a single segment.
RouteOneSegment(table, type) ==
  LET prefixes == {p \in DOMAIN table : Covers(p, type) /\ Len(p) = Len(type)}
      longest  == CHOOSE p \in prefixes : TRUE
  IN IF type \in DOMAIN table THEN table[type]
     ELSE IF prefixes # {} THEN table[longest]
     ELSE RouteAt(table, <<Wildcard>>)

\* An exact pattern, else the longest prefix, else the catch-all.
Route(table, type) ==
  LET prefixes == {p \in DOMAIN table : Covers(p, type)}
      longest  == CHOOSE p \in prefixes : \A q \in prefixes : Len(p) >= Len(q)
  IN IF type \in DOMAIN table THEN table[type]
     ELSE IF prefixes # {} THEN table[longest]
     ELSE RouteAt(table, <<Wildcard>>)

-----------------------------------------------------------------------------
(* EventSubscriptionRegistry.getSubscribersFor.                            *)

\* The registry cuts the dot as well, so 'a.b.*' also matches 'a.bc'.
LooselyCovers(p, type) ==
  LET n == Len(p) - 1
  IN /\ IsPrefixPattern(p)
     /\ Len(type) >= n
     /\ IsPrefix(SubSeq(p, 1, n - 1), type)
     /\ type[n] = p[n] \/ <<p[n], type[n]>> \in Stems

Subscribes(s, type) ==
  \E p \in s.patterns :
    p = <<Wildcard>> \/ p = type \/ LooselyCovers(p, type)

SubscribersFor(subs, type) == {s \in subs : Subscribes(s, type)}

\* EventCoverageValidator with throwOnMissing: otherwise the worker does not
\* start.
CoverageComplete(subs) == \A type \in EventTypes : SubscribersFor(subs, type) # {}

\* No event of the catalog has a subscriber in the eyes of the registry only,
\* and every subscription names a queue.
PlainCatalog ==
  \A s \in Subscriptions :
    /\ s.queues # {}
    /\ \A p \in s.patterns, type \in EventTypes : LooselyCovers(p, type) => Covers(p, type)
=============================================================================
