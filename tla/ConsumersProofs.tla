---------------------------- MODULE ConsumersProofs ----------------------------
(***************************************************************************)
(* The two handlers that are modelled call by call, the fan-out and the    *)
(* notifications, for every set of events, runners, subscriptions, routes, *)
(* inputs and devices.  Both open up the handler of JobProcessor, so all   *)
(* that is proved of that module holds of them; the rest is about what     *)
(* they do themselves.                                                     *)
(***************************************************************************)
EXTENDS EventMesh, Notifications, JobProcessorProofs, FiniteSetTheorems

-----------------------------------------------------------------------------
(* The fan-out is a way of handling a job.                                 *)

LEMMA DispatchCases ==
  ASSUME NEW r \in Runners, NEW e \in Events, Dispatch(r, e)
  PROVE  \/ \E q \in Targets(e) : AddTo(r, e, q) \/ AddToFails(r, e, q)
         \/ FanOutReturns(r, e) \/ FanOutThrows(r, e)
BY DEF Dispatch

LEMMA MeshStepIsStep == [MeshNext]_allVars => [Next]_vars
<1> SUFFICES ASSUME [MeshNext]_allVars PROVE [Next]_vars
  OBVIOUS
<1>1. CASE \E e \in Events : Queue(e) /\ UNCHANGED meshVars BY <1>1 DEF Next
<1>2. CASE \E r \in Runners, e \in Events :
             (Take(r, e) \/ Protocol(r, e)) /\ UNCHANGED meshVars
  BY <1>2 DEF Next, Step
<1>3. ASSUME NEW r \in Runners, NEW e \in Events, Dispatch(r, e) PROVE [Next]_vars
  <2>1. ASSUME NEW q, AddTo(r, e, q) \/ AddToFails(r, e, q) PROVE UNCHANGED vars
    BY <2>1 DEF AddTo, AddToFails
  <2>2. CASE FanOutReturns(r, e) \/ FanOutThrows(r, e)
    BY <2>2 DEF FanOutReturns, FanOutThrows, Next, Step, Handle
  <2> QED BY <1>3, <2>1, <2>2, DispatchCases
<1>4. CASE \E r \in Runners : CrashInFlight(r) BY <1>4 DEF CrashInFlight, Next
<1>5. CASE \E q \in Queues, e \in Events : Trim(q, e) BY <1>5 DEF Trim
<1>6. CASE UNCHANGED allVars BY <1>6 DEF allVars
<1> QED BY <1>1, <1>2, <1>3, <1>4, <1>5, <1>6 DEF MeshNext

\* The domain queue with its fan-out implements the queue with an opaque
\* handler: its idempotency keys, retries and verdicts are those of JobProcessor.
THEOREM MeshIsAJobProcessor == MeshSpec => Spec
<1>1. MeshInit => Init BY DEF MeshInit
<1>2. [MeshNext]_allVars => [Next]_vars BY MeshStepIsStep
<1> QED BY <1>1, <1>2, PTL DEF MeshSpec, Spec

\* So a fan-out is a task: its event is completed when a dispatch returned, and
\* failed after all its tries.
THEOREM FanOutsAreTasks == MeshSpec => RunsTasks
BY MeshIsAJobProcessor, TheQueueRunsTasks, PTL

LEMMA MeshTypeAlways == MeshSpec => []TypeInv
BY MeshIsAJobProcessor, TypeAlways, PTL

-----------------------------------------------------------------------------
(* The routing table: what the compiler makes of the subscriptions, in      *)
(* whatever order, and where its lookup leads a type of the catalog.  The   *)
(* loop of the compiler is followed by induction, in the form of the least  *)
(* number at which a claim fails.                                           *)

\* A set of numbers with an element has a least one.
LEMMA LeastNat ==
  ASSUME NEW S \in SUBSET Nat, S # {}
  PROVE  \E n \in S : \A m \in S : n <= m
<1> DEFINE R == OpToRel(<, Nat)
<1>1. IsWellFoundedOn(R, Nat) BY NatLessThanWellFounded
<1>2. R = {ss \in Nat \X Nat : ss[1] < ss[2]} BY DEF OpToRel
<1> HIDE DEF R
<1>5. PICK n \in S : \A m \in S : ~(<<m, n>> \in R)
  BY <1>1, WFMin
<1>6. ASSUME NEW m \in S PROVE n <= m
  <2>1. <<m, n>> \in Nat \X Nat OBVIOUS
  <2>2. ~(m < n)
    <3> SUFFICES ASSUME m < n PROVE FALSE OBVIOUS
    <3>1. <<m, n>> \in {ss \in Nat \X Nat : ss[1] < ss[2]} OBVIOUS
    <3> QED BY <1>2, <1>5, <3>1
  <2> QED BY <2>2
<1> QED BY <1>6

\* What holds of 0, and of n + 1 when of n, holds of every number.
LEMMA NatInductionBySet ==
  ASSUME NEW S, 0 \in S, \A n \in Nat : n \in S => n + 1 \in S
  PROVE  Nat \subseteq S
<1> SUFFICES ASSUME Nat \ S # {} PROVE FALSE
  OBVIOUS
<1>1. PICK n \in Nat \ S : \A m \in Nat \ S : n <= m BY LeastNat
<1>2. n - 1 \in Nat \ S
  <2>1. n # 0 OBVIOUS
  <2>2. n - 1 \in Nat /\ (n - 1) + 1 = n BY <2>1
  <2>3. n - 1 \in S => n \in S BY <2>2
  <2> QED BY <1>1, <2>2, <2>3
<1>3. n <= n - 1 BY <1>1, <1>2
<1> QED BY <1>3

\* The loop of the compiler is well defined.
LEMMA TablesStep ==
  ASSUME NEW order, Len(order) \in Nat
  PROVE  /\ Tables(order)[0] = [p \in {} |-> NoRoute]
         /\ \A i \in 1..Len(order) :
              Tables(order)[i] = AddSubscription(Tables(order)[i - 1], order[i])
<1> DEFINE none == [p \in {} |-> NoRoute]
           Loop(g, n) ==
             g = [i \in 0..n |-> IF i = 0 THEN none ELSE AddSubscription(g[i - 1], order[i])]
           done == {n \in Nat : \E g : Loop(g, n)}
<1>1. 0 \in done
  <2>1. Loop([i \in 0..0 |-> none], 0) OBVIOUS
  <2> QED BY <2>1
<1>2. ASSUME NEW n \in Nat, n \in done PROVE n + 1 \in done
  <2>1. PICK g : Loop(g, n) BY <1>2
  <2> DEFINE h == [i \in 0..(n + 1) |-> IF i <= n THEN g[i] ELSE AddSubscription(g[n], order[n + 1])]
  <2>2. \A i \in 0..(n + 1) :
          h[i] = IF i = 0 THEN none ELSE AddSubscription(h[i - 1], order[i])
    <3> TAKE i \in 0..(n + 1)
    <3>1. CASE i = n + 1
      <4>1. h[i] = AddSubscription(g[n], order[n + 1]) BY <3>1
      <4>2. h[i - 1] = g[n] BY <3>1
      <4> HIDE DEF h
      <4> QED BY <3>1, <4>1, <4>2
    <3>2. CASE i <= n
      <4>1. h[i] = g[i] /\ (i # 0 => h[i - 1] = g[i - 1]) BY <3>2
      <4>2. g[i] = IF i = 0 THEN none ELSE AddSubscription(g[i - 1], order[i])
        <5> HIDE DEF none
        <5> QED BY <2>1, <3>2
      <4> HIDE DEF h
      <4> QED BY <4>1, <4>2
    <3> QED BY <3>1, <3>2
  <2>3. h = [i \in 0..(n + 1) |-> h[i]] OBVIOUS
  <2> HIDE DEF h, none
  <2>4. h = [i \in 0..(n + 1) |-> IF i = 0 THEN none ELSE AddSubscription(h[i - 1], order[i])]
    BY <2>2, <2>3
  <2> QED BY <2>4
<1>3. Nat \subseteq done
  <2> HIDE DEF done
  <2> QED BY <1>1, <1>2, NatInductionBySet
<1>4. \E g : Loop(g, Len(order)) BY <1>3
<1>5. Tables(order) = CHOOSE g : Loop(g, Len(order)) BY DEF Tables
<1>6. Loop(Tables(order), Len(order))
  <2> HIDE DEF Loop
  <2> QED BY <1>4, <1>5
<1> DEFINE t == Tables(order)
<1>7. t = [i \in 0..Len(order) |-> IF i = 0 THEN none ELSE AddSubscription(t[i - 1], order[i])]
  BY <1>6
<1> HIDE DEF t, none
<1>8. t[0] = none /\ \A i \in 1..Len(order) : t[i] = AddSubscription(t[i - 1], order[i])
  BY <1>7
<1> QED BY <1>8 DEF t, none

\* A subscription added to a table is added to what the table declares.
LEMMA AddDeclares ==
  ASSUME NEW t, NEW S \in SUBSET Subscriptions, IsTableOf(t, S), NEW s \in Subscriptions
  PROVE  IsTableOf(AddSubscription(t, s), S \union {s})
<1> DEFINE u == AddSubscription(t, s)
           claim(p) == {c \in S : p \in c.patterns}
           claim2(p) == {c \in S \union {s} : p \in c.patterns}
<1>1. DOMAIN u = DOMAIN t \union s.patterns BY DEF AddSubscription
<1>2. DOMAIN u = UNION {c.patterns : c \in S \union {s}} BY <1>1 DEF IsTableOf
<1>3. ASSUME NEW p \in DOMAIN u
      PROVE  /\ u[p].queues = UNION {c.queues : c \in claim2(p)}
             /\ u[p].priority \in {c.priority : c \in claim2(p)}
             /\ \A c \in claim2(p) : Rank[u[p].priority] >= Rank[c.priority]
  <2>1. CASE p \notin s.patterns
    <3>1. p \in DOMAIN t /\ u[p] = t[p] BY <1>1, <2>1 DEF AddSubscription
    <3>2. claim2(p) = claim(p) BY <2>1
    <3> QED BY <3>1, <3>2 DEF IsTableOf
  <2>2. CASE p \in s.patterns
    <3>1. /\ u[p].queues = RouteAt(t, p).queues \union s.queues
          /\ u[p].priority = HigherPriority(RouteAt(t, p).priority, s.priority)
      BY <1>1, <2>2 DEF AddSubscription
    <3>2. claim2(p) = claim(p) \union {s} BY <2>2
    <3>3. s.priority \in Priorities BY SubscriptionsAssumption
    <3>4. \A q \in Priorities : Rank[q] \in Nat /\ (q # "none" => Rank[q] > Rank["none"])
      BY DEF Rank, Priorities
    <3>5. CASE p \in DOMAIN t
      <4>1. RouteAt(t, p) = t[p] BY <3>5 DEF RouteAt
      <4>2. /\ t[p].queues = UNION {c.queues : c \in claim(p)}
            /\ t[p].priority \in {c.priority : c \in claim(p)}
            /\ \A c \in claim(p) : Rank[t[p].priority] >= Rank[c.priority]
        BY <3>5 DEF IsTableOf
      <4>3. u[p].queues = UNION {c.queues : c \in claim2(p)} BY <3>1, <3>2, <4>1, <4>2
      <4>4. PICK c \in claim(p) : t[p].priority = c.priority BY <4>2
      <4>5. t[p].priority \in Priorities /\ \A d \in claim(p) : d.priority \in Priorities
        BY <4>4, SubscriptionsAssumption
      <4>6. u[p].priority = HigherPriority(t[p].priority, s.priority) BY <3>1, <4>1
      <4>7. CASE Rank[t[p].priority] >= Rank[s.priority]
        <5>1. u[p].priority = t[p].priority BY <4>6, <4>7 DEF HigherPriority
        <5> QED BY <3>2, <4>2, <4>3, <4>4, <4>7, <5>1
      <4>8. CASE ~(Rank[t[p].priority] >= Rank[s.priority])
        <5>1. u[p].priority = s.priority BY <4>6, <4>8 DEF HigherPriority
        <5>2. \A d \in claim(p) : Rank[s.priority] >= Rank[d.priority]
          <6> TAKE d \in claim(p)
          <6>1. Rank[t[p].priority] >= Rank[d.priority] BY <4>2
          <6>2. /\ Rank[t[p].priority] \in Nat /\ Rank[d.priority] \in Nat
                /\ Rank[s.priority] \in Nat
            BY <3>3, <3>4, <4>5
          <6> QED BY <4>8, <6>1, <6>2
        <5>3. Rank[s.priority] >= Rank[s.priority] BY <3>3, <3>4
        <5> QED BY <3>2, <4>3, <5>1, <5>2, <5>3
      <4> QED BY <4>7, <4>8
    <3>6. CASE p \notin DOMAIN t
      <4>1. RouteAt(t, p) = [queues |-> {}, priority |-> "none"] BY <3>6 DEF RouteAt, NoRoute
      <4>2. claim(p) = {} BY <3>6 DEF IsTableOf
      <4>3. claim2(p) = {s} BY <3>2, <4>2
      <4>4. u[p].priority = s.priority
        <5>1. u[p].priority = HigherPriority("none", s.priority) BY <3>1, <4>1
        <5>2. s.priority # "none" => ~(Rank["none"] >= Rank[s.priority])
          BY <3>3, <3>4 DEF Priorities
        <5> QED BY <5>1, <5>2 DEF HigherPriority
      <4>5. u[p].queues = s.queues BY <3>1, <4>1
      <4>6. Rank[s.priority] >= Rank[s.priority] BY <3>3, <3>4
      <4> QED BY <4>3, <4>4, <4>5, <4>6
    <3> QED BY <3>5, <3>6
  <2> QED BY <2>1, <2>2
<1> QED BY <1>2, <1>3 DEF IsTableOf

\* Whatever the order, the compiled table is the one its subscriptions declare.
LEMMA CompileDeclares ==
  ASSUME NEW order \in Seq(Subscriptions)
  PROVE  IsTableOf(Compile(order), {order[i] : i \in DOMAIN order})
<1> DEFINE first(i) == {order[j] : j \in 1..i}
           done == {i \in Nat : i <= Len(order) => IsTableOf(Tables(order)[i], first(i))}
<1>0. Len(order) \in Nat /\ DOMAIN order = 1..Len(order)
  OBVIOUS
<1>1. 0 \in done
  <2>1. Tables(order)[0] = [p \in {} |-> NoRoute] BY <1>0, TablesStep
  <2>2. first(0) = {} OBVIOUS
  <2>3. IsTableOf([p \in {} |-> NoRoute], {}) BY DEF IsTableOf
  <2> QED BY <2>1, <2>2, <2>3
<1>2. ASSUME NEW i \in Nat, i \in done PROVE i + 1 \in done
  <2> SUFFICES ASSUME i + 1 <= Len(order) PROVE IsTableOf(Tables(order)[i + 1], first(i + 1))
    OBVIOUS
  <2>1. i + 1 \in 1..Len(order) /\ i <= Len(order) /\ (i + 1) - 1 = i BY <1>0
  <2>2. Tables(order)[i + 1] = AddSubscription(Tables(order)[i], order[i + 1])
    BY <1>0, <2>1, TablesStep
  <2>3. first(i) \in SUBSET Subscriptions /\ order[i + 1] \in Subscriptions
    BY <1>0, <2>1
  <2>4. first(i + 1) = first(i) \union {order[i + 1]} BY <2>1
  <2>5. IsTableOf(Tables(order)[i], first(i)) BY <1>2, <2>1
  <2> HIDE DEF first
  <2> QED BY <2>2, <2>3, <2>4, <2>5, AddDeclares
<1>3. Nat \subseteq done
  <2> HIDE DEF done
  <2> QED BY <1>1, <1>2, NatInductionBySet
<1>4. Len(order) \in done /\ Len(order) <= Len(order)
  <2> HIDE DEF done
  <2> QED BY <1>0, <1>3
<1>5. IsTableOf(Tables(order)[Len(order)], first(Len(order)))
  <2> HIDE DEF first
  <2> QED BY <1>4
<1>6. first(Len(order)) = {order[i] : i \in DOMAIN order} BY <1>0
<1> HIDE DEF first
<1> QED BY <1>5, <1>6 DEF Compile

\* A registration order lists its subscriptions.
LEMMA OrdersList ==
  ASSUME NEW subs \in SUBSET Subscriptions, NEW order \in RegistrationOrders(subs)
  PROVE  order \in Seq(Subscriptions) /\ {order[i] : i \in DOMAIN order} = subs
<1> DEFINE D == 1..Cardinality(subs)
<1>1. order \in [D -> subs] /\ \A i, j \in D : i # j => order[i] # order[j]
  BY DEF RegistrationOrders, SetToSeqs
<1>2. IsFiniteSet(subs) /\ Cardinality(subs) \in Nat
  BY SubscriptionsAssumption, FS_Subset, FS_CardinalityType
<1>3. IsFiniteSet(D) /\ Cardinality(D) = Cardinality(subs)
  BY <1>2, FS_Interval
<1>4. order \in Injection(D, subs) BY <1>1 DEF Injection, IsInjective
<1>5. order \in Surjection(D, subs)
  <2> HIDE DEF D
  <2> QED BY <1>2, <1>3, <1>4, FS_Injection
<1>6. {order[i] : i \in D} = subs BY <1>1, <1>5 DEF Surjection
<1>7. DOMAIN order = D /\ order \in Seq(Subscriptions) BY <1>1, <1>2
<1> QED BY <1>6, <1>7

\* A pattern that covers a type is at most one segment longer, so the longest
\* of several exists.
LEMMA LongestCover ==
  ASSUME NEW P, P \subseteq Seq(STRING), NEW type \in Seq(STRING),
         NEW q \in P, Covers(q, type)
  PROVE  \E p \in {y \in P : Covers(y, type)} :
           \A x \in {y \in P : Covers(y, type)} : Len(p) >= Len(x)
<1> DEFINE prefixes == {p \in P : Covers(p, type)}
           gap(p) == Len(type) + 1 - Len(p)
           gaps == {gap(p) : p \in prefixes}
<1>1. \A p \in prefixes : Len(p) \in Nat /\ Len(p) <= Len(type) + 1
  <2> TAKE p \in prefixes
  <2>1. p \in Seq(STRING) /\ Len(p) \in Nat /\ Len(type) \in Nat /\ Len(p) > 1
    BY DEF Covers, IsPrefixPattern
  <2>2. Len(SubSeq(p, 1, Len(p) - 1)) = Len(p) - 1 BY <2>1
  <2>3. Len(SubSeq(p, 1, Len(p) - 1)) <= Len(type)
    BY DEF Covers, IsStrictPrefix, IsPrefix, Front
  <2> QED BY <2>1, <2>2, <2>3
<1>2. Len(type) \in Nat OBVIOUS
<1>3. gaps \in SUBSET Nat /\ gaps # {} BY <1>1, <1>2
<1>4. PICK n \in gaps : \A m \in gaps : n <= m
  <2> HIDE DEF gaps
  <2> QED BY <1>3, LeastNat
<1>5. PICK p \in prefixes : gap(p) = n OBVIOUS
<1>6. \A x \in prefixes : Len(p) >= Len(x)
  <2> TAKE x \in prefixes
  <2>1. gap(p) <= gap(x) BY <1>4, <1>5
  <2>2. Len(p) \in Nat /\ Len(x) \in Nat BY <1>1
  <2> QED BY <1>2, <2>1, <2>2
<1> QED BY <1>6

\* Under a plain catalog the table leads every covered type somewhere.
LEMMA CoveredIsRouted ==
  ASSUME PlainCatalog, NEW subs \in SUBSET Subscriptions, NEW t, IsTableOf(t, subs),
         NEW type \in EventTypes, SubscribersFor(subs, type) # {}
  PROVE  Route(t, type).queues # {} /\ Route(t, type).queues \subseteq Queues
<1>1. ASSUME NEW p \in DOMAIN t PROVE t[p].queues # {} /\ t[p].queues \subseteq Queues
  <2>1. PICK s \in subs : p \in s.patterns BY DEF IsTableOf
  <2>2. t[p].queues = UNION {c.queues : c \in {d \in subs : p \in d.patterns}}
    BY DEF IsTableOf
  <2>3. s.queues # {} /\ s.queues \subseteq t[p].queues BY <2>1, <2>2 DEF PlainCatalog
  <2> QED BY <2>2, <2>3 DEF Queues
<1> DEFINE prefixes == {p \in DOMAIN t : Covers(p, type)}
           longest == CHOOSE p \in prefixes : \A q \in prefixes : Len(p) >= Len(q)
<1>2. DOMAIN t \subseteq Seq(STRING) /\ type \in Seq(STRING)
  BY SubscriptionsAssumption, EventTypesAssumption DEF IsTableOf
<1>3. CASE type \in DOMAIN t BY <1>1, <1>3 DEF Route
<1>4. CASE type \notin DOMAIN t /\ prefixes # {}
  <2>0. \E p \in prefixes : \A q \in prefixes : Len(p) >= Len(q)
    <3>1. PICK p \in DOMAIN t : Covers(p, type) BY <1>4
    <3> QED BY <1>2, <3>1, LongestCover
  <2>1. longest \in DOMAIN t
    <3>1. longest \in prefixes
      <4> HIDE DEF prefixes
      <4> QED BY <2>0
    <3> QED BY <3>1
  <2>2. Route(t, type) = t[longest] BY <1>4 DEF Route
  <2> QED BY <1>1, <2>1, <2>2
<1>5. CASE type \notin DOMAIN t /\ prefixes = {}
  <2>0. PICK s \in subs : Subscribes(s, type) BY DEF SubscribersFor
  <2>1. PICK p \in s.patterns : p = <<Wildcard>> \/ p = type \/ LooselyCovers(p, type)
    BY <2>0 DEF Subscribes
  <2>2. p \in DOMAIN t BY <2>1 DEF IsTableOf
  <2>3. p = <<Wildcard>> BY <1>5, <2>1, <2>2 DEF PlainCatalog
  <2>4. Route(t, type) = t[<<Wildcard>>] BY <1>5, <2>2, <2>3 DEF Route, RouteAt
  <2> QED BY <1>1, <2>2, <2>3, <2>4
<1> QED BY <1>3, <1>4, <1>5

-----------------------------------------------------------------------------
(* What a fan-out leaves behind.                                           *)

LEMMA RouteIsFixed ==
  ASSUME UNCHANGED routeVars, NEW e \in Events
  PROVE  Targets(e)' = Targets(e)
BY DEF routeVars, Targets, Route, RouteAt, Covers

\* A job is never taken back from the history.
LEMMA GivenGrows == [MeshNext]_allVars => given \subseteq given' /\ UNCHANGED routeVars
<1> USE DEF GiveJobs, Create, meshVars, sinkVars, routeVars
<1> SUFFICES ASSUME MeshNext \/ UNCHANGED allVars
             PROVE  given \subseteq given' /\ UNCHANGED routeVars
  OBVIOUS
<1>1. ASSUME NEW r \in Runners, NEW e \in Events, Dispatch(r, e)
      PROVE  given \subseteq given' /\ UNCHANGED routeVars
  BY <1>1, DispatchCases DEF AddTo, AddToFails, FanOutReturns, FanOutThrows
<1>2. ASSUME NEW r \in Runners, CrashInFlight(r)
      PROVE  given \subseteq given' /\ UNCHANGED routeVars
  BY <1>2 DEF CrashInFlight
<1> QED BY <1>1, <1>2 DEF MeshNext, allVars, Trim

\* What BullMQ still holds was given, what it was given it holds or has
\* forgotten, and only what it has forgotten was given twice.
SinkInv ==
  /\ queued \subseteq given
  /\ given \subseteq queued \union trimmed
  /\ OneJobWhileRetained

LEMMA SinkStep == SinkInv /\ [MeshNext]_allVars => SinkInv'
<1> SUFFICES ASSUME SinkInv, [MeshNext]_allVars PROVE SinkInv'
  OBVIOUS
<1> USE DEF SinkInv, OneJobWhileRetained
<1>1. ASSUME NEW J, Create(J \ queued) PROVE SinkInv'
  BY <1>1 DEF Create
<1>2. ASSUME UNCHANGED sinkVars PROVE SinkInv'
  BY <1>2 DEF sinkVars
<1>3. ASSUME NEW S, NEW e, GiveJobs(S, e) PROVE SinkInv'
  BY <1>1, <1>3 DEF GiveJobs
<1> HIDE DEF SinkInv
<1>4. ASSUME NEW r \in Runners, NEW e \in Events, Dispatch(r, e) PROVE SinkInv'
  BY <1>2, <1>3, <1>4, DispatchCases DEF AddTo, AddToFails, FanOutReturns, FanOutThrows
<1>5. ASSUME NEW r \in Runners, CrashInFlight(r) PROVE SinkInv'
  BY <1>2, <1>3, <1>5 DEF CrashInFlight
<1>6. ASSUME NEW q \in Queues, NEW e \in Events, Trim(q, e) PROVE SinkInv'
  BY <1>6 DEF Trim, SinkInv
<1>7. CASE UNCHANGED meshVars \/ UNCHANGED allVars BY <1>2, <1>7 DEF meshVars, allVars
<1> QED BY <1>4, <1>5, <1>6, <1>7 DEF MeshNext

LEMMA SinkAlways == MeshSpec => []SinkInv
<1>1. MeshInit => SinkInv BY DEF MeshInit, SinkInv, OneJobWhileRetained
<1> QED BY <1>1, SinkStep, PTL DEF MeshSpec

\* However often a fan-out is repeated, a queue gets a second job of an event
\* only after BullMQ has forgotten the first.
THEOREM OneJobAtATime == MeshSpec => []OneJobWhileRetained
<1>1. SinkInv => OneJobWhileRetained BY DEF SinkInv
<1> QED BY <1>1, SinkAlways, PTL

FanInv ==
  /\ \A r \in Runners, e \in Events : \A q \in Targets(e) :
       <<r, e, q>> \in settled /\ <<r, e, q>> \notin refused => <<q, e>> \in given
  /\ \A r \in Runners, e \in Events : run[r][e] = "complete" =>
       \A q \in Targets(e) : <<q, e>> \in given
  /\ CompletedReachesTheRoute

\* The steps around the fan-out bring no run to "complete" and complete only
\* the keys of runs that are there.
LEMMA ProtocolKeepsReach ==
  ASSUME TypeInv, NEW f \in Events,
         NEW r \in Runners, NEW e \in Events, Protocol(r, e)
  PROVE  /\ \A p \in Runners : run'[p][f] = "complete" => run[p][f] = "complete"
         /\ key'[f] = "COMPLETED" =>
              key[f] = "COMPLETED" \/ \E p \in Runners : run[p][f] = "complete"
<1> USE DEF TypeInv, TypeOK, Goto, keyVars, StartKey, Record
<1>1. CASE FindKey(r, e) BY <1>1, FindOutcomeType DEF FindKey
<1>2. CASE CreateKey(r, e) BY <1>2 DEF CreateKey
<1>3. CASE ReclaimKey(r, e) BY <1>3 DEF ReclaimKey
<1>4. CASE BeginFails(r, e) BY <1>4 DEF BeginFails
<1>5. CASE CompleteKey(r, e) BY <1>5 DEF CompleteKey
<1>6. CASE CompleteKeyFails(r, e) BY <1>6 DEF CompleteKeyFails
<1>7. CASE FailKey(r, e) BY <1>7 DEF FailKey
<1>8. CASE FailKeyFails(r, e) BY <1>8 DEF FailKeyFails
<1>9. CASE ReportDone(r, e) BY <1>9 DEF ReportDone
<1>10. CASE ReportThrew(r, e) BY <1>10 DEF ReportThrew
<1> QED BY <1>1, <1>2, <1>3, <1>4, <1>5, <1>6, <1>7, <1>8, <1>9, <1>10 DEF Protocol

\* A step that leaves the fan-out alone, or only forgets about it, and creates
\* no completion keeps the invariant.
LEMMA ReachKept ==
  ASSUME FanInv, [MeshNext]_allVars,
         \A r \in Runners, e \in Events : \A q :
           /\ <<r, e, q>> \in settled' => <<r, e, q>> \in settled
           /\ <<r, e, q>> \in settled' /\ <<r, e, q>> \in refused => <<r, e, q>> \in refused',
         \A f \in Events :
           /\ \A p \in Runners : run'[p][f] = "complete" => run[p][f] = "complete"
           /\ key'[f] = "COMPLETED" =>
                key[f] = "COMPLETED" \/ \E p \in Runners : run[p][f] = "complete"
  PROVE  FanInv'
<1>1. given \subseteq given' BY GivenGrows
<1>2. \A e \in Events : Targets(e)' = Targets(e) BY GivenGrows, RouteIsFixed
<1>3. \A e \in Events : key'[e] = "COMPLETED" => \A q \in Targets(e) : <<q, e>> \in given
  BY DEF FanInv, CompletedReachesTheRoute
<1>4. CompletedReachesTheRoute'
  BY <1>1, <1>2, <1>3 DEF CompletedReachesTheRoute
<1>5. \A r \in Runners, e \in Events : run'[r][e] = "complete" =>
         \A q \in Targets(e) : <<q, e>> \in given
  BY DEF FanInv
<1>6. \A r \in Runners, e \in Events : \A q \in Targets(e) :
         <<r, e, q>> \in settled' /\ <<r, e, q>> \notin refused' => <<q, e>> \in given
  BY DEF FanInv
<1> QED BY <1>1, <1>2, <1>4, <1>5, <1>6 DEF FanInv

LEMMA FanStep == TypeInv /\ SinkInv /\ FanInv /\ [MeshNext]_allVars => FanInv'
<1> SUFFICES ASSUME TypeInv, SinkInv, FanInv, [MeshNext]_allVars PROVE FanInv'
  OBVIOUS
<1> USE DEF TypeInv, TypeOK
<1>1. ASSUME NEW e \in Events, Queue(e), UNCHANGED meshVars PROVE FanInv'
  BY <1>1, ReachKept
     DEF Queue, Add, Stalled, SlowRunStalls, KeyExpires, keyVars, meshVars, fanVars
<1>2. ASSUME NEW r \in Runners, NEW e \in Events, Take(r, e), UNCHANGED meshVars PROVE FanInv'
  BY <1>2, ReachKept DEF Take, Goto, keyVars, meshVars, fanVars
<1>3. ASSUME NEW r \in Runners, NEW e \in Events, Protocol(r, e), UNCHANGED meshVars
      PROVE  FanInv'
  BY <1>3, ProtocolKeepsReach, ReachKept DEF meshVars, fanVars
<1>4. ASSUME NEW r \in Runners, NEW e \in Events, Dispatch(r, e) PROVE FanInv'
  <2>0. given \subseteq given' /\ \A f \in Events : Targets(f)' = Targets(f)
    BY GivenGrows, RouteIsFixed
  <2>1. ASSUME NEW q \in Targets(e), AddTo(r, e, q) PROVE FanInv'
    <3>1. UNCHANGED <<run, key, refused>> BY <2>1 DEF AddTo, vars, keyVars
    <3>2. settled' = settled \union {<<r, e, q>>} BY <2>1 DEF AddTo
    <3>3. <<q, e>> \in given' BY <2>1 DEF AddTo, GiveJobs, Create, SinkInv
    <3>4. \A p \in Runners, f \in Events : \A x \in Targets(f) :
            <<p, f, x>> \in settled' => <<p, f, x>> \in settled \/ (f = e /\ x = q)
      BY <3>2
    <3> QED BY <2>0, <3>1, <3>3, <3>4 DEF FanInv, CompletedReachesTheRoute
  <2>2. ASSUME NEW q \in Targets(e), AddToFails(r, e, q) PROVE FanInv'
    <3>1. UNCHANGED <<run, key>> BY <2>2 DEF AddToFails, vars, keyVars
    <3>2. /\ settled' = settled \union {<<r, e, q>>}
          /\ refused' = refused \union {<<r, e, q>>}
      BY <2>2 DEF AddToFails
    <3> QED BY <2>0, <3>1, <3>2 DEF FanInv, CompletedReachesTheRoute
  <2>3. CASE FanOutReturns(r, e)
    <3>1. \A q \in Targets(e) : <<q, e>> \in given
      BY <2>3 DEF FanOutReturns, Pending, Refused, FanInv
    <3>2. UNCHANGED key BY <2>3 DEF FanOutReturns, HandlerReturns, keyVars
    <3>3. \A p \in Runners, f \in Events :
            run'[p][f] = "complete" => run[p][f] = "complete" \/ f = e
      BY <2>3 DEF FanOutReturns, HandlerReturns, Goto
    <3>4. \A p \in Runners, f \in Events : \A q :
            <<p, f, q>> \in settled' =>
              <<p, f, q>> \in settled /\ (<<p, f, q>> \in refused => <<p, f, q>> \in refused')
      BY <2>3 DEF FanOutReturns, Forget
    <3> QED BY <2>0, <3>1, <3>2, <3>3, <3>4 DEF FanInv, CompletedReachesTheRoute
  <2>4. CASE FanOutThrows(r, e)
    BY <2>4, ReachKept DEF FanOutThrows, HandlerThrows, Goto, Forget, keyVars
  <2> QED BY <1>4, <2>1, <2>2, <2>3, <2>4, DispatchCases
<1>5. ASSUME NEW r \in Runners, CrashInFlight(r) PROVE FanInv'
  BY <1>5, ReachKept DEF CrashInFlight, Crash, Forget, keyVars
<1>6. ASSUME NEW q \in Queues, NEW e \in Events, Trim(q, e) PROVE FanInv'
  BY <1>6, ReachKept DEF Trim, vars, keyVars, fanVars
<1>7. CASE UNCHANGED allVars
  BY <1>7, ReachKept DEF allVars, vars, keyVars, meshVars, fanVars
<1> QED BY <1>1, <1>2, <1>3, <1>4, <1>5, <1>6, <1>7 DEF MeshNext

LEMMA FanAlways == MeshSpec => []FanInv
<1>1. MeshInit => FanInv
  BY DEF MeshInit, Init, FanInv, CompletedReachesTheRoute
<1> QED BY <1>1, FanStep, SinkAlways, MeshTypeAlways, PTL DEF MeshSpec

\* A COMPLETED key of the domain queue means that every queue of the event's
\* route was given a job: a partial fan-out is never taken for a whole one.
THEOREM NoPartialFanOut == MeshSpec => []CompletedReachesTheRoute
<1>1. FanInv => CompletedReachesTheRoute BY DEF FanInv
<1> QED BY <1>1, FanAlways, PTL

-----------------------------------------------------------------------------
(* What the worker routes by.                                              *)

\* The worker routes by the table of its own subscriptions, which cover the
\* catalog: none of this changes while it runs.
RouteInv ==
  /\ registered \in SUBSET Subscriptions
  /\ TableIsAsDeclared
  /\ CoverageComplete(registered)
  /\ eventType \in [Events -> EventTypes]

LEMMA RouteAlways == MeshSpec => []RouteInv
<1>1. MeshInit => RouteInv
  <2> SUFFICES ASSUME MeshInit PROVE RouteInv OBVIOUS
  <2>1. /\ registered \in SUBSET Subscriptions /\ CoverageComplete(registered)
        /\ eventType \in [Events -> EventTypes]
        /\ \E o \in RegistrationOrders(registered) : table = Compile(o)
    BY DEF MeshInit, Booted
  <2>2. IsTableOf(table, registered) BY <2>1, OrdersList, CompileDeclares
  <2> QED BY <2>1, <2>2 DEF RouteInv, TableIsAsDeclared
<1>2. RouteInv /\ [MeshNext]_allVars => RouteInv'
  <2> SUFFICES ASSUME RouteInv, [MeshNext]_allVars PROVE RouteInv' OBVIOUS
  <2>1. UNCHANGED <<registered, table, eventType>> BY GivenGrows DEF routeVars
  <2> QED BY <2>1 DEF RouteInv, TableIsAsDeclared, IsTableOf, CoverageComplete, SubscribersFor
<1> QED BY <1>1, <1>2, PTL DEF MeshSpec

\* In whatever order any set of modules registered, the worker routes by the
\* table they declare.
THEOREM TheTableIsDeclared == MeshSpec => []TableIsAsDeclared
<1>1. RouteInv => TableIsAsDeclared BY DEF RouteInv
<1> QED BY <1>1, RouteAlways, PTL

-----------------------------------------------------------------------------
(* No event is dropped: only the return of a fan-out makes an event count  *)
(* as handled, and a plain catalog leads it somewhere.                      *)

LEMMA OnlyReturnsHandle ==
  [MeshNext]_allVars =>
    UNCHANGED handled \/ \E r \in Runners, e \in Events : FanOutReturns(r, e)
<1> SUFFICES ASSUME [MeshNext]_allVars
             PROVE  UNCHANGED handled \/ \E r \in Runners, e \in Events : FanOutReturns(r, e)
  OBVIOUS
<1>1. ASSUME NEW e \in Events, Queue(e) PROVE UNCHANGED handled
  BY <1>1 DEF Queue, Add, Stalled, SlowRunStalls, KeyExpires
<1>2. ASSUME NEW r \in Runners, NEW e \in Events, Take(r, e) PROVE UNCHANGED handled
  BY <1>2 DEF Take
<1>3. ASSUME NEW r \in Runners, NEW e \in Events, Protocol(r, e) PROVE UNCHANGED handled
  BY <1>3 DEF Protocol, FindKey, CreateKey, ReclaimKey, BeginFails, CompleteKey, CompleteKeyFails,
              FailKey, FailKeyFails, ReportDone, ReportThrew
<1>4. ASSUME NEW r \in Runners, NEW e \in Events, Dispatch(r, e)
      PROVE  UNCHANGED handled \/ FanOutReturns(r, e)
  BY <1>4, DispatchCases DEF AddTo, AddToFails, FanOutThrows, HandlerThrows, vars
<1>5. ASSUME NEW r \in Runners, CrashInFlight(r) PROVE UNCHANGED handled
  BY <1>5 DEF CrashInFlight, Crash
<1>6. CASE (\E q \in Queues, e \in Events : Trim(q, e)) \/ UNCHANGED allVars
  BY <1>6 DEF Trim, allVars, vars
<1> QED BY <1>1, <1>2, <1>3, <1>4, <1>5, <1>6 DEF MeshNext

LEMMA SomebodyStep ==
  ASSUME PlainCatalog, TypeInv, FanInv, RouteInv, DispatchedReachesSomebody,
         [MeshNext]_allVars
  PROVE  DispatchedReachesSomebody'
<1>1. given \subseteq given' BY GivenGrows
<1>2. CASE UNCHANGED handled BY <1>1, <1>2 DEF DispatchedReachesSomebody
<1>3. ASSUME NEW r \in Runners, NEW e \in Events, FanOutReturns(r, e)
      PROVE  DispatchedReachesSomebody'
  <2>1. \A q \in Targets(e) : <<q, e>> \in given
    BY <1>3 DEF FanOutReturns, Pending, Refused, FanInv
  <2>2. Targets(e) # {} /\ Targets(e) \subseteq Queues
    <3>1. eventType[e] \in EventTypes /\ SubscribersFor(registered, eventType[e]) # {}
      BY DEF RouteInv, CoverageComplete
    <3> QED BY <3>1, CoveredIsRouted DEF RouteInv, TableIsAsDeclared, Targets
  <2>3. \A f \in Events : f # e => handled'[f] = handled[f]
    BY <1>3 DEF FanOutReturns, HandlerReturns, TypeInv, TypeOK
  <2>4. \E q \in Queues : <<q, e>> \in given' BY <1>1, <2>1, <2>2
  <2> QED BY <1>1, <2>3, <2>4 DEF DispatchedReachesSomebody
<1> QED BY <1>2, <1>3, OnlyReturnsHandle

\* With such a catalog no event is dropped in silence: what the registry takes
\* for covered when the worker boots, the routing table leads to some queue.
THEOREM NoEventIsDropped ==
  ASSUME PlainCatalog
  PROVE  MeshSpec => []DispatchedReachesSomebody
<1>1. MeshInit => DispatchedReachesSomebody
  BY DEF MeshInit, Init, DispatchedReachesSomebody
<1>2. TypeInv /\ FanInv /\ RouteInv /\ DispatchedReachesSomebody /\ [MeshNext]_allVars
        => DispatchedReachesSomebody'
  BY SomebodyStep
<1> QED BY <1>1, <1>2, FanAlways, RouteAlways, MeshTypeAlways, PTL DEF MeshSpec

-----------------------------------------------------------------------------
(* Undisturbed events: what a queue was given belongs to the only fan-out.  *)

Even(e) == e \in Events /\ e \notin disturbed \union uneven

EvenInv ==
  \A e : Even(e) =>
    /\ \A r \in Runners : \A q : <<r, e, q>> \in settled => run[r][e] = "handle"
    /\ \A r \in Runners : \A q : <<r, e, q>> \notin refused
    /\ \A q : <<q, e>> \in given =>
         handled[e] > 0 \/ \E r \in Runners : run[r][e] = "handle" /\ <<r, e, q>> \in settled
    /\ \A q : <<q, e>> \notin regiven

\* Steps of other events, and steps that do not end a handler run, keep what
\* is known of an event.
LEMMA EvenKept ==
  ASSUME EvenInv, NEW f, Even(f), UNCHANGED <<given, regiven>>,
         \A p \in Runners : \A q :
           /\ <<p, f, q>> \in settled' <=> <<p, f, q>> \in settled /\ run[p][f] = "handle"
           /\ <<p, f, q>> \in refused' => <<p, f, q>> \in refused,
         \A p \in Runners : run[p][f] = "handle" => run'[p][f] = "handle",
         handled[f] > 0 => handled'[f] > 0
  PROVE  /\ \A p \in Runners : \A q : <<p, f, q>> \in settled' => run'[p][f] = "handle"
         /\ \A p \in Runners : \A q : <<p, f, q>> \notin refused'
         /\ \A q : <<q, f>> \in given' =>
              handled'[f] > 0
                \/ \E p \in Runners : run'[p][f] = "handle" /\ <<p, f, q>> \in settled'
         /\ \A q : <<q, f>> \notin regiven'
BY DEF EvenInv

LEMMA EvenStep == TypeInv /\ CalmInv /\ EvenInv /\ [MeshNext]_allVars => EvenInv'
<1> DEFINE Kept(f) ==
      /\ \A p \in Runners : \A q : <<p, f, q>> \in settled' => run'[p][f] = "handle"
      /\ \A p \in Runners : \A q : <<p, f, q>> \notin refused'
      /\ \A q : <<q, f>> \in given' =>
           handled'[f] > 0
             \/ \E p \in Runners : run'[p][f] = "handle" /\ <<p, f, q>> \in settled'
      /\ \A q : <<q, f>> \notin regiven'
<1> SUFFICES ASSUME TypeInv, CalmInv, EvenInv, [MeshNext]_allVars,
                    NEW f, Even(f)'
             PROVE  Kept(f)
  BY DEF EvenInv
<1> USE DEF TypeInv, TypeOK
<1>0. f \in Events /\ f \notin disturbed' /\ f \notin uneven' BY DEF Even
<1>1. ASSUME NEW e \in Events, Queue(e), UNCHANGED meshVars PROVE Kept(f)
  <2>1. UNCHANGED <<run, handled>> /\ disturbed \subseteq disturbed'
    BY <1>1 DEF Queue, Add, Stalled, SlowRunStalls, KeyExpires, Redeliver
  <2> QED BY <1>0, <1>1, <2>1, EvenKept DEF Even, EvenInv, meshVars, fanVars, sinkVars, upsetVars
<1>2. ASSUME NEW r \in Runners, NEW e \in Events, Take(r, e), UNCHANGED meshVars PROVE Kept(f)
  <2>1. UNCHANGED <<handled, disturbed>> BY <1>2 DEF Take
  <2>2. \A p \in Runners : run[p][f] = "handle" => run'[p][f] = "handle"
    BY <1>0, <1>2 DEF Take, Goto
  <2> QED BY <1>0, <1>2, <2>1, <2>2, EvenKept DEF Even, EvenInv, meshVars, fanVars, sinkVars, upsetVars
<1>3. ASSUME NEW r \in Runners, NEW e \in Events, Protocol(r, e), UNCHANGED meshVars
      PROVE  Kept(f)
  <2>1. UNCHANGED handled /\ disturbed \subseteq disturbed'
    BY <1>3 DEF Protocol, FindKey, CreateKey, ReclaimKey, BeginFails, CompleteKey, Fault,
                CompleteKeyFails, FailKey, FailKeyFails, ReportDone, ReportThrew
  <2>2. \A p \in Runners : run[p][f] = "handle" => run'[p][f] = "handle"
    <3>1. run[r][e] # "handle"
      BY <1>3 DEF Protocol, FindKey, CreateKey, ReclaimKey, BeginFails, CompleteKey,
                  CompleteKeyFails, FailKey, FailKeyFails, ReportDone, ReportThrew
    <3>2. \E s : Goto(r, e, s)
      BY <1>3 DEF Protocol, FindKey, CreateKey, ReclaimKey, BeginFails, CompleteKey,
                  CompleteKeyFails, FailKey, FailKeyFails, ReportDone, ReportThrew
    <3> QED BY <1>0, <3>1, <3>2 DEF Goto
  <2> QED BY <1>0, <1>3, <2>1, <2>2, EvenKept DEF Even, EvenInv, meshVars, fanVars, sinkVars, upsetVars
<1>4. ASSUME NEW r \in Runners, NEW e \in Events, Dispatch(r, e) PROVE Kept(f)
  <2>1. ASSUME NEW q, AddTo(r, e, q) PROVE Kept(f)
    <3>1. UNCHANGED <<run, handled, disturbed, uneven, refused>> BY <2>1 DEF AddTo, vars, upsetVars
    <3>2. Even(f) BY <1>0, <3>1 DEF Even
    <3>3. /\ run[r][e] = "handle" /\ <<r, e, q>> \notin settled
          /\ settled' = settled \union {<<r, e, q>>}
      BY <2>1 DEF AddTo, Pending
    <3>4. /\ given' = given \union ({<<q, e>>} \ queued)
          /\ regiven' = regiven \union (({<<q, e>>} \ queued) \intersect given)
      BY <2>1 DEF AddTo, GiveJobs, Create
    <3>5. CASE f = e
      <4>1. handled[e] = 0 /\ \A p \in Runners : run[p][e] = "handle" => p = r
        BY <1>0, <3>1, <3>3, <3>5 DEF CalmInv, OneRun, RunFacts
      <4>2. <<q, e>> \notin given
        <5>1. ~(handled[e] > 0) BY <4>1
        <5>2. ~\E p \in Runners : run[p][e] = "handle" /\ <<p, e, q>> \in settled
          BY <3>3, <4>1
        <5> QED BY <3>2, <3>5, <5>1, <5>2 DEF EvenInv
      <4> QED BY <3>1, <3>2, <3>3, <3>4, <3>5, <4>2 DEF EvenInv
    <3>6. CASE f # e BY <3>1, <3>2, <3>3, <3>4, <3>6 DEF EvenInv
    <3> QED BY <3>5, <3>6
  <2>2. ASSUME NEW q, AddToFails(r, e, q) PROVE Kept(f)
    <3>1. UNCHANGED <<run, handled, disturbed>> /\ uneven' = uneven \union {e}
      BY <2>2 DEF AddToFails, vars
    <3>2. Even(f) /\ f # e BY <1>0, <3>1 DEF Even
    <3>3. /\ settled' = settled \union {<<r, e, q>>}
          /\ refused' = refused \union {<<r, e, q>>}
      BY <2>2 DEF AddToFails
    <3>4. \A x : /\ <<x, f>> \in given' => <<x, f>> \in given
                 /\ <<x, f>> \in regiven' => <<x, f>> \in regiven
      BY <2>2, <3>2 DEF AddToFails, GiveJobs, Create, sinkVars
    <3> QED BY <3>1, <3>2, <3>3, <3>4 DEF EvenInv
  <2>3. ASSUME Forget(r, {e}), UNCHANGED <<disturbed, sinkVars, upsetVars>>,
               \E s : Goto(r, e, s),
               run[r][e] = "handle",
               f = e => handled'[f] > 0,
               handled[f] > 0 => handled'[f] > 0
        PROVE  Kept(f)
    <3>1. Even(f) BY <1>0, <2>3 DEF Even, upsetVars
    <3>2. \A p \in Runners : f # e \/ p # r => run'[p][f] = run[p][f]
      BY <1>0, <2>3 DEF Goto
    <3>3. \A p, x : /\ <<p, f, x>> \in settled' <=> <<p, f, x>> \in settled /\ (f # e \/ p # r)
                    /\ <<p, f, x>> \in refused' => <<p, f, x>> \in refused
      BY <2>3 DEF Forget
    <3>4. UNCHANGED <<given, regiven>> BY <2>3 DEF sinkVars
    <3> QED BY <2>3, <3>1, <3>2, <3>3, <3>4 DEF EvenInv
  <2>4. CASE FanOutReturns(r, e)
    <3>1. handled' = [handled EXCEPT ![e] = @ + 1]
      BY <2>4 DEF FanOutReturns, HandlerReturns
    <3>2. (f = e => handled'[f] > 0) /\ (handled[f] > 0 => handled'[f] > 0)
      <4>1. handled[f] \in Nat BY <1>0
      <4>2. f = e => handled'[f] = handled[f] + 1 BY <1>0, <3>1
      <4>3. f # e => handled'[f] = handled[f] BY <1>0, <3>1
      <4> QED BY <4>1, <4>2, <4>3
    <3> QED BY <2>3, <2>4, <3>2 DEF FanOutReturns, HandlerReturns
  <2>5. CASE FanOutThrows(r, e)
    <3>1. f # e
      BY <1>0, <2>5 DEF FanOutThrows, HandlerThrows, Refused, EvenInv, Even, upsetVars
    <3> QED BY <1>0, <2>3, <2>5, <3>1 DEF FanOutThrows, HandlerThrows
  <2> QED BY <1>4, <2>1, <2>2, <2>4, <2>5, DispatchCases
<1>5. ASSUME NEW r \in Runners, CrashInFlight(r) PROVE Kept(f)
  <2>1. UNCHANGED handled /\ run' = [run EXCEPT ![r] = [e \in Events |-> "idle"]]
    BY <1>5 DEF CrashInFlight, Crash
  <2>2. disturbed' = disturbed \union {e \in Events : run[r][e] # "idle"}
    BY <1>5 DEF CrashInFlight, Crash
  <2>3. Even(f) /\ run[r][f] = "idle"
    BY <1>0, <1>5, <2>2 DEF CrashInFlight, Even, upsetVars
  <2>4. \A p, x : /\ <<p, f, x>> \in settled' <=> <<p, f, x>> \in settled /\ p # r
                  /\ <<p, f, x>> \in refused' => <<p, f, x>> \in refused
    BY <1>0, <1>5 DEF CrashInFlight, Forget
  <2>5. \A x : /\ <<x, f>> \in given' <=> <<x, f>> \in given
               /\ <<x, f>> \in regiven' <=> <<x, f>> \in regiven
    BY <1>5, <2>3 DEF CrashInFlight, GiveJobs, Create, sinkVars
  <2> QED BY <1>0, <2>1, <2>3, <2>4, <2>5 DEF EvenInv
<1>6. ASSUME NEW q \in Queues, NEW e \in Events, Trim(q, e) PROVE Kept(f)
  <2>1. UNCHANGED <<run, handled, disturbed, uneven, given, regiven, settled, refused>>
    BY <1>6 DEF Trim, vars, fanVars, upsetVars
  <2> QED BY <1>0, <2>1, EvenKept DEF Even, EvenInv
<1>7. CASE UNCHANGED allVars
  <2>1. UNCHANGED <<run, handled, disturbed, uneven, given, regiven, settled, refused>>
    BY <1>7 DEF allVars, vars, meshVars, sinkVars, fanVars, upsetVars
  <2> QED BY <1>0, <2>1, EvenKept DEF Even, EvenInv
<1> HIDE DEF Kept
<1> QED BY <1>1, <1>2, <1>3, <1>4, <1>5, <1>6, <1>7 DEF MeshNext

\* Without a crash, a stall, a failed key call or a refused add every queue
\* gets one job of an event, however often the event is dispatched.
THEOREM OneJobEach == MeshSpec => []OneJobUndisturbed
<1>1. MeshInit => EvenInv BY DEF MeshInit, EvenInv, Even
<1>2. EvenInv => OneJobUndisturbed BY DEF EvenInv, Even, OneJobUndisturbed
<1>3. MeshSpec => []CalmInv BY MeshIsAJobProcessor, CalmAlways, PTL
<1> QED BY <1>1, <1>2, <1>3, EvenStep, MeshTypeAlways, PTL DEF MeshSpec

-----------------------------------------------------------------------------
(* Notifications: a dispatch is a way of handling a job.                   *)

LEMMA NoticeCases ==
  ASSUME NEW r \in Runners, NEW e \in Events, DispatchChannels(r, e)
  PROVE  \/ StartDispatch(r, e) \/ ReadOverride(r, e) \/ ReadPreference(r, e)
         \/ ListDevices(r, e) \/ CreateNote(r, e) \/ CreateTrail(r, e) \/ Send(r, e)
         \/ SendSwallowed(r, e) \/ ChannelFails(r, e) \/ DispatchReturns(r, e)
BY DEF DispatchChannels

LEMMA DispatchLeavesQueue ==
  ASSUME NEW r \in Runners, NEW e \in Events, DispatchChannels(r, e)
  PROVE  UNCHANGED vars \/ DispatchReturns(r, e)
<1>1. CASE StartDispatch(r, e) BY <1>1 DEF StartDispatch
<1>2. CASE ReadOverride(r, e) BY <1>2 DEF ReadOverride, quietVars
<1>3. CASE ReadPreference(r, e) BY <1>3 DEF ReadPreference, quietVars
<1>4. CASE ListDevices(r, e) BY <1>4 DEF ListDevices, quietVars
<1>5. CASE CreateNote(r, e) BY <1>5 DEF CreateNote, quietVars
<1>6. CASE CreateTrail(r, e) BY <1>6 DEF CreateTrail, quietVars
<1>7. CASE Send(r, e) BY <1>7 DEF Send, quietVars
<1>8. CASE SendSwallowed(r, e) BY <1>8 DEF SendSwallowed, quietVars
<1>9. CASE ChannelFails(r, e) BY <1>9 DEF ChannelFails, quietVars
<1> QED BY <1>1, <1>2, <1>3, <1>4, <1>5, <1>6, <1>7, <1>8, <1>9, NoticeCases

LEMMA NoticeStepIsStep == [NoticeNext]_allNoticeVars => [Next]_vars
<1> SUFFICES ASSUME [NoticeNext]_allNoticeVars PROVE [Next]_vars
  OBVIOUS
<1>1. CASE \E e \in Events : Queue(e) /\ UNCHANGED noticeVars BY <1>1 DEF Next
<1>2. CASE \E r \in Runners, e \in Events :
             (Take(r, e) \/ Protocol(r, e)) /\ UNCHANGED noticeVars
  BY <1>2 DEF Next, Step
<1>3. ASSUME NEW r \in Runners, NEW e \in Events, DispatchChannels(r, e) PROVE [Next]_vars
  BY <1>3, DispatchLeavesQueue DEF DispatchReturns, Next, Step, Handle
<1>4. CASE \E r \in Runners : CrashDispatching(r) BY <1>4 DEF CrashDispatching, Next
<1>5. CASE \E c \in Channels : SetPreference(c) BY <1>5 DEF SetPreference
<1>6. CASE OverrideExpires BY <1>6 DEF OverrideExpires
<1>7. CASE UNCHANGED allNoticeVars BY <1>7 DEF allNoticeVars
<1> QED BY <1>1, <1>2, <1>3, <1>4, <1>5, <1>6, <1>7 DEF NoticeNext

\* The dispatch of notifications refines the handler of JobProcessor: whatever
\* is proved of the deliveries of a job holds of its notifications.
THEOREM NoticesAreAJobProcessor == NoticeSpec => Spec
<1>1. NoticeInit => Init BY DEF NoticeInit
<1>2. [NoticeNext]_allNoticeVars => [Next]_vars BY NoticeStepIsStep
<1> QED BY <1>1, <1>2, PTL DEF NoticeSpec, Spec

\* So is a dispatch of notifications.
THEOREM NoticesAreTasks == NoticeSpec => RunsTasks
BY NoticesAreAJobProcessor, TheQueueRunsTasks, PTL

-----------------------------------------------------------------------------
(* Where a dispatch is.                                                    *)

AtSteps == CallSteps \union {"idle", "finished"}

NoticeTypeOK ==
  /\ input    \in [Events -> Inputs]
  /\ optedOut \subseteq Configurable
  /\ at       \in [Runners -> AtSteps]
  /\ chan     \in [Runners -> Channels \union {"none"}]
  /\ todo     \in [Runners -> SUBSET Channels]
  /\ phones   \in [Runners -> SUBSET Phones]
  /\ notes    \in [Events -> [Addresses -> Nat]]
  /\ trails   \in [Events -> [Addresses -> Nat]]
  /\ sends    \in [Events -> [Addresses -> Nat]]
  /\ on       \in [Runners -> SUBSET Channels]
  /\ off      \in [Events -> SUBSET Channels]

\* A run dispatches one event; it is within the channels of that event, asks
\* settings only of users and never about email, and has a device at hand when
\* it pushes.
Place(r) ==
  /\ \A e, f \in Events : run[r][e] # "idle" /\ run[r][f] # "idle" => e = f
  /\ at[r] # "idle" => \E e \in Events : run[r][e] = "handle"
  /\ at[r] \in CallSteps => chan[r] \in Channels
  /\ at[r] \in {"gate", "preference", "devices"} => chan[r] # "email"
  /\ at[r] = "devices" => chan[r] = "push"
  /\ at[r] \in {"note", "trail", "send"} /\ chan[r] = "push" => phones[r] # {}
  /\ \A e \in Events : run[r][e] = "handle" /\ at[r] # "idle" =>
       /\ todo[r] \subseteq Reachable(e)
       /\ at[r] \in CallSteps => chan[r] \in Reachable(e)
       /\ at[r] \in {"gate", "preference", "devices"} => input[e].known

PlaceInv == NoticeTypeOK /\ \A r \in Runners : Place(r)

LEMMA ReachableType ==
  ASSUME NoticeTypeOK, NEW e \in Events
  PROVE  /\ Reachable(e) \subseteq Channels
         /\ input[e].known \in BOOLEAN
         /\ "push" \in Reachable(e) => input[e].known
<1>1. input[e] \in [channels : SUBSET Channels, known : BOOLEAN]
  BY InputsAssumption DEF NoticeTypeOK
<1> QED BY <1>1 DEF Reachable

LEMMA FirstIn ==
  ASSUME NEW S \in SUBSET Channels, S # {}
  PROVE  First(S) \in S
<1>1. \E c \in S : \A d \in S : Turn[c] <= Turn[d]
  <2> DEFINE Least(c) == c \in S /\ \A d \in S : Turn[c] <= Turn[d]
  <2>0. /\ Turn["email"] = 1 /\ Turn["inApp"] = 2 /\ Turn["sms"] = 3
        /\ Turn["whatsapp"] = 4 /\ Turn["push"] = 5
    BY DEF Turn
  <2>1. CASE "email" \in S BY <2>0, <2>1 DEF Channels
  <2>2. CASE "email" \notin S /\ "inApp" \in S BY <2>0, <2>2 DEF Channels
  <2>3. CASE S \intersect {"email", "inApp"} = {} /\ "sms" \in S BY <2>0, <2>3 DEF Channels
  <2>4. CASE S \intersect {"email", "inApp", "sms"} = {} /\ "whatsapp" \in S
    BY <2>0, <2>4 DEF Channels
  <2>5. CASE S = {"push"} BY <2>0, <2>5
  <2>6. S \intersect {"email", "inApp", "sms", "whatsapp"} = {} => S = {"push"} BY DEF Channels
  <2> QED BY <2>1, <2>2, <2>3, <2>4, <2>5, <2>6
<1> QED BY <1>1 DEF First

LEMMA VisitFacts ==
  ASSUME NoticeTypeOK, NEW r \in Runners, NEW e \in Events,
         NEW S, S \subseteq Reachable(e), Visit(r, e, S)
  PROVE  /\ at' \in [Runners -> AtSteps]
         /\ chan' \in [Runners -> Channels \union {"none"}]
         /\ todo' \in [Runners -> SUBSET Channels]
         /\ \A q \in Runners : q # r =>
              at'[q] = at[q] /\ chan'[q] = chan[q] /\ todo'[q] = todo[q]
         /\ \/ S = {} /\ at'[r] = "finished" /\ chan'[r] = "none" /\ todo'[r] = {}
            \/ /\ chan'[r] \in S /\ todo'[r] = S \ {chan'[r]}
               /\ at'[r] = Entry(e, chan'[r])
<1>1. S \subseteq Channels BY ReachableType
<1>2. S # {} => First(S) \in S BY <1>1, FirstIn
<1>3. Entry(e, First(S)) \in AtSteps BY DEF Entry, AtSteps, CallSteps
<1> QED BY <1>1, <1>2, <1>3 DEF Visit, NoticeTypeOK, AtSteps

\* A visit begins in place.
LEMMA VisitPlace ==
  ASSUME NoticeTypeOK, NEW r \in Runners, NEW e \in Events, run[r][e] = "handle",
         Place(r), UNCHANGED <<run, input>>,
         NEW S, S \subseteq Reachable(e), Visit(r, e, S)
  PROVE  Place(r)'
<1>1. /\ \/ S = {} /\ at'[r] = "finished" /\ chan'[r] = "none" /\ todo'[r] = {}
         \/ /\ chan'[r] \in S /\ todo'[r] = S \ {chan'[r]}
            /\ at'[r] = Entry(e, chan'[r])
  BY VisitFacts
<1>2. \A f \in Events : Reachable(f)' = Reachable(f) BY DEF Reachable
<1>3. \A f \in Events : run[r][f] = "handle" => f = e BY DEF Place
<1>4. CASE at'[r] = "finished" /\ chan'[r] = "none" /\ todo'[r] = {}
  BY <1>2, <1>3, <1>4 DEF Place, CallSteps
<1>5. CASE chan'[r] \in S /\ todo'[r] = S \ {chan'[r]} /\ at'[r] = Entry(e, chan'[r])
  <2>1. \/ at'[r] = "note" /\ (chan'[r] = "email" \/ ~input[e].known)
        \/ at'[r] = "gate" /\ chan'[r] # "email" /\ input[e].known
    BY <1>5 DEF Entry
  <2>2. chan'[r] \in Reachable(e) /\ chan'[r] \in Channels /\ todo'[r] \subseteq Reachable(e)
    BY <1>5, ReachableType
  <2>3. chan'[r] = "push" => input[e].known BY <2>2, ReachableType
  <2> QED BY <1>2, <1>3, <2>1, <2>2, <2>3 DEF Place, CallSteps
<1> QED BY <1>1, <1>4, <1>5

\* A call within the channel, or none at all, stays in place.
LEMMA CallPlace ==
  ASSUME NoticeTypeOK, NEW r \in Runners, NEW e \in Events, run[r][e] = "handle",
         Place(r), UNCHANGED <<run, input>>, at[r] \in CallSteps,
         NEW s \in CallSteps, Call(r, s),
         s \in {"gate", "preference", "devices"} => chan[r] # "email" /\ input[e].known,
         s = "devices" => chan[r] = "push",
         s \in {"note", "trail", "send"} /\ chan[r] = "push" => phones'[r] # {}
  PROVE  /\ Place(r)'
         /\ at' \in [Runners -> AtSteps]
         /\ \A q \in Runners : q # r => at'[q] = at[q]
<1>1. at'[r] = s /\ at' \in [Runners -> AtSteps] /\ \A q \in Runners : q # r => at'[q] = at[q]
  BY DEF Call, NoticeTypeOK, AtSteps
<1>2. chan'[r] = chan[r] /\ todo'[r] = todo[r] BY DEF Call
<1>3. \A f \in Events : Reachable(f)' = Reachable(f) BY DEF Reachable
<1>4. \A f \in Events : run[r][f] = "handle" => f = e BY DEF Place
<1>5. at[r] # "idle" /\ s # "idle" BY DEF CallSteps
<1> QED BY <1>1, <1>2, <1>3, <1>4, <1>5 DEF Place

LEMMA ElsewherePlace ==
  ASSUME NEW q \in Runners, Place(q), UNCHANGED input, run'[q] = run[q],
         at'[q] = at[q], chan'[q] = chan[q], todo'[q] = todo[q], phones'[q] = phones[q]
  PROVE  Place(q)'
<1>1. \A f \in Events : Reachable(f)' = Reachable(f) BY DEF Reachable
<1> QED BY <1>1 DEF Place

\* What the queue does around the handler starts runs and ends none that is
\* dispatching.
LEMMA QuietRuns ==
  ASSUME TypeInv, PlaceInv,
         \/ \E e \in Events : Queue(e)
         \/ \E r \in Runners, e \in Events : Take(r, e) \/ Protocol(r, e)
  PROVE  /\ \A q \in Runners, f \in Events : run[q][f] = "handle" => run'[q][f] = "handle"
         /\ \A q \in Runners, f \in Events :
              run'[q][f] = "handle" /\ at[q] # "idle" => run[q][f] = "handle"
         /\ \A q \in Runners : \A e, f \in Events :
              run'[q][e] # "idle" /\ run'[q][f] # "idle" => e = f
<1> DEFINE Kept ==
      /\ \A q \in Runners, f \in Events : run[q][f] = "handle" => run'[q][f] = "handle"
      /\ \A q \in Runners, f \in Events :
           run'[q][f] = "handle" /\ at[q] # "idle" => run[q][f] = "handle"
      /\ \A q \in Runners : \A e, f \in Events :
           run'[q][e] # "idle" /\ run'[q][f] # "idle" => e = f
<1> USE DEF TypeInv, TypeOK, PlaceInv, Place
<1>1. ASSUME NEW e \in Events, Queue(e) PROVE run' = run
  BY <1>1 DEF Queue, Add, Stalled, SlowRunStalls, KeyExpires
<1>2. ASSUME NEW r \in Runners, NEW e \in Events, Take(r, e)
      PROVE  /\ run' = [run EXCEPT ![r][e] = "find"]
             /\ \A f \in Events : run[r][f] = "idle"
  BY <1>2 DEF Take, Goto
<1>3. ASSUME NEW r \in Runners, NEW e \in Events, Protocol(r, e)
      PROVE  /\ run[r][e] \notin {"idle", "handle"}
             /\ \E s \in RunSteps : run' = [run EXCEPT ![r][e] = s]
  <2> USE DEF Goto, RunSteps
  <2>1. CASE FindKey(r, e) BY <2>1, FindOutcomeType DEF FindKey
  <2>2. CASE CreateKey(r, e) BY <2>2 DEF CreateKey
  <2>3. CASE ReclaimKey(r, e) BY <2>3 DEF ReclaimKey
  <2>4. CASE BeginFails(r, e) BY <2>4 DEF BeginFails
  <2>5. CASE CompleteKey(r, e) BY <2>5 DEF CompleteKey
  <2>6. CASE CompleteKeyFails(r, e) BY <2>6 DEF CompleteKeyFails
  <2>7. CASE FailKey(r, e) BY <2>7 DEF FailKey
  <2>8. CASE FailKeyFails(r, e) BY <2>8 DEF FailKeyFails
  <2>9. CASE ReportDone(r, e) BY <2>9 DEF ReportDone
  <2>10. CASE ReportThrew(r, e) BY <2>10 DEF ReportThrew
  <2> QED BY <1>3, <2>1, <2>2, <2>3, <2>4, <2>5, <2>6, <2>7, <2>8, <2>9, <2>10 DEF Protocol
<1>4. CASE \E e \in Events : Queue(e) BY <1>1, <1>4
<1>5. ASSUME NEW r \in Runners, NEW e \in Events, Take(r, e) PROVE Kept
  <2>1. run' = [run EXCEPT ![r][e] = "find"] BY <1>2, <1>5
  <2>2. \A f \in Events : run[r][f] = "idle" BY <1>2, <1>5
  <2>3. \A q \in Runners, f \in Events : q # r \/ f # e => run'[q][f] = run[q][f]
    BY <2>1
  <2>4. run'[r][e] = "find" BY <2>1
  <2>5. \A q \in Runners, f \in Events :
          (run[q][f] = "handle" => run'[q][f] = "handle")
          /\ (run'[q][f] = "handle" => run[q][f] = "handle")
    BY <2>2, <2>3, <2>4
  <2>6. \A q \in Runners : \A g, f \in Events :
          run'[q][g] # "idle" /\ run'[q][f] # "idle" => g = f
    BY <2>2, <2>3
  <2> QED BY <2>5, <2>6
<1>6. ASSUME NEW r \in Runners, NEW e \in Events, Protocol(r, e) PROVE Kept
  <2>1. PICK s \in RunSteps : run' = [run EXCEPT ![r][e] = s] BY <1>3, <1>6
  <2>2. run[r][e] \notin {"idle", "handle"} BY <1>3, <1>6
  <2>3. \A q \in Runners, f \in Events : q # r \/ f # e => run'[q][f] = run[q][f]
    BY <2>1
  <2>4. \A f \in Events : run[r][f] # "idle" => f = e BY <2>2
  <2>5. at[r] # "idle" => FALSE BY <2>2, <2>4
  <2>6. \A q \in Runners, f \in Events : run[q][f] = "handle" => run'[q][f] = "handle"
    BY <2>2, <2>3
  <2>7. \A q \in Runners, f \in Events :
          run'[q][f] = "handle" /\ at[q] # "idle" => run[q][f] = "handle"
    BY <2>3, <2>5
  <2>8. \A q \in Runners : \A g, f \in Events :
          run'[q][g] # "idle" /\ run'[q][f] # "idle" => g = f
    BY <2>3, <2>4
  <2> QED BY <2>6, <2>7, <2>8
<1> QED BY <1>4, <1>5, <1>6

LEMMA AddressType ==
  ASSUME NoticeTypeOK, NEW r \in Runners, Place(r), at[r] \in {"note", "trail", "send"}
  PROVE  /\ Address(r) \in AddressesOf(chan[r])
         /\ chan[r] = "push" => Address(r) \in phones[r]
         /\ Address(r) \in Addresses
<1>1. chan[r] \in Channels /\ phones[r] \subseteq Phones
      /\ (chan[r] = "push" => phones[r] # {})
  BY DEF Place, CallSteps, NoticeTypeOK
<1>2. chan[r] = "push" => Address(r) \in phones[r] BY <1>1 DEF Address
<1> QED BY <1>1, <1>2 DEF Address, AddressesOf, Addresses

LEMMA EffectType ==
  ASSUME NoticeTypeOK, NEW r \in Runners, NEW e \in Events, Place(r),
         Effect(r, e) \/ UNCHANGED recordVars
  PROVE  /\ notes'  \in [Events -> [Addresses -> Nat]]
         /\ trails' \in [Events -> [Addresses -> Nat]]
         /\ sends'  \in [Events -> [Addresses -> Nat]]
<1>1. CASE at[r] \in {"note", "trail", "send"}
  <2>1. Address(r) \in Addresses BY <1>1, AddressType
  <2>2. ASSUME NEW rows \in [Events -> [Addresses -> Nat]], NEW s
        PROVE  Bump(rows, r, e, s) \in [Events -> [Addresses -> Nat]]
    <3>1. [rows EXCEPT ![e][Address(r)] = @ + 1] \in [Events -> [Addresses -> Nat]] BY <2>1
    <3> QED BY <3>1 DEF Bump
  <2> QED BY <2>2 DEF Effect, NoticeTypeOK, recordVars
<1>2. CASE at[r] \notin {"note", "trail", "send"}
  BY <1>2 DEF Effect, Bump, NoticeTypeOK, recordVars
<1> QED BY <1>1, <1>2

LEMMA ObserveType ==
  ASSUME NoticeTypeOK, NEW B, Observe(B)
  PROVE  /\ on'  \in [Runners -> SUBSET Channels]
         /\ off' \in [Events -> SUBSET Channels]
BY DEF Observe, NoticeTypeOK, ShownOn, Configurable

LEMMA PlaceStep == TypeInv /\ PlaceInv /\ [NoticeNext]_allNoticeVars => PlaceInv'
<1> SUFFICES ASSUME TypeInv, PlaceInv, [NoticeNext]_allNoticeVars PROVE PlaceInv'
  OBVIOUS
<1>0. NoticeTypeOK /\ \A q \in Runners : Place(q) BY DEF PlaceInv
<1>1. CASE /\ \/ \E e \in Events : Queue(e)
              \/ \E r \in Runners, e \in Events : Take(r, e) \/ Protocol(r, e)
           /\ UNCHANGED noticeVars
  <2> USE DEF noticeVars, settingVars, placeVars, recordVars, moodVars
  <2>1. NoticeTypeOK' BY <1>0, <1>1 DEF NoticeTypeOK
  <2>2. \A f \in Events : Reachable(f)' = Reachable(f) BY <1>1 DEF Reachable
  <2>3. \A q \in Runners : Place(q)' BY <1>0, <1>1, <2>2, QuietRuns DEF Place
  <2> QED BY <2>1, <2>3 DEF PlaceInv
<1>2. ASSUME NEW r \in Runners, NEW e \in Events, DispatchChannels(r, e), UNCHANGED run
      PROVE  PlaceInv'
  <2> DEFINE Mine == /\ Place(r)'
                     /\ at' \in [Runners -> AtSteps]
                     /\ chan' \in [Runners -> Channels \union {"none"}]
                     /\ todo' \in [Runners -> SUBSET Channels]
                     /\ phones' \in [Runners -> SUBSET Phones]
                     /\ \A q \in Runners : q # r =>
                          /\ at'[q] = at[q] /\ chan'[q] = chan[q]
                          /\ todo'[q] = todo[q] /\ phones'[q] = phones[q]
  <2>1. Reachable(e) \subseteq Channels /\ ("push" \in Reachable(e) => input[e].known)
    BY <1>0, ReachableType
  <2>2. ASSUME run[r][e] = "handle", UNCHANGED input,
               NEW S, S \subseteq Reachable(e), Visit(r, e, S),
               phones' \in [Runners -> SUBSET Phones],
               \A q \in Runners : q # r => phones'[q] = phones[q]
        PROVE  Mine
    BY <1>0, <1>2, <2>2, VisitFacts, VisitPlace
  <2>3. ASSUME run[r][e] = "handle", UNCHANGED input, at[r] # "idle", Leave(r, e) PROVE Mine
    <3>1. todo[r] \subseteq Reachable(e) BY <1>0, <2>3 DEF Place
    <3>2. phones' \in [Runners -> SUBSET Phones]
          /\ \A q \in Runners : q # r => phones'[q] = phones[q]
      BY <1>0, <2>3 DEF Leave, NoticeTypeOK
    <3> QED BY <2>2, <2>3, <3>1, <3>2 DEF Leave
  <2>4. ASSUME run[r][e] = "handle", UNCHANGED input, at[r] \in CallSteps,
               NEW s \in CallSteps, Call(r, s),
               s \in {"gate", "preference", "devices"} => chan[r] # "email" /\ input[e].known,
               s = "devices" => chan[r] = "push",
               s \in {"note", "trail", "send"} /\ chan[r] = "push" => phones'[r] # {},
               phones' \in [Runners -> SUBSET Phones],
               \A q \in Runners : q # r => phones'[q] = phones[q]
        PROVE  Mine
    <3>1. /\ Place(r)'
          /\ at' \in [Runners -> AtSteps]
          /\ \A q \in Runners : q # r => at'[q] = at[q]
      BY <1>0, <1>2, <2>4, CallPlace
    <3> QED BY <1>0, <2>4, <3>1 DEF Call, NoticeTypeOK
  <2>5. phones \in [Runners -> SUBSET Phones] BY <1>0 DEF NoticeTypeOK
  <2>6. ASSUME run[r][e] = "handle", UNCHANGED input, at[r] = "send", AfterSend(r, e) PROVE Mine
    <3> DEFINE rest == phones[r] \ {Address(r)}
    <3>1. CASE rest = {}
      <4>1. Leave(r, e) BY <2>6, <3>1 DEF AfterSend
      <4> QED BY <2>3, <2>6, <4>1
    <3>2. CASE rest # {}
      <4>1. Call(r, "note") /\ phones' = [phones EXCEPT ![r] = rest]
        BY <2>6, <3>2 DEF AfterSend
      <4>2. phones' \in [Runners -> SUBSET Phones] /\ phones'[r] # {}
            /\ \A q \in Runners : q # r => phones'[q] = phones[q]
        BY <2>5, <3>2, <4>1
      <4> QED BY <2>4, <2>6, <4>1, <4>2 DEF CallSteps
    <3> QED BY <3>1, <3>2
  <2>7. Mine \/ DispatchReturns(r, e)
    <3>1. CASE StartDispatch(r, e)
      <4>1. UNCHANGED <<input, phones>> /\ run[r][e] = "handle" /\ Visit(r, e, Reachable(e))
        BY <3>1 DEF StartDispatch, Calling
      <4> QED BY <2>2, <2>5, <4>1
    <3>2. CASE ReadOverride(r, e)
      <4>1. /\ run[r][e] = "handle" /\ at[r] = "gate" /\ UNCHANGED <<input, phones>>
            /\ Call(r, IF forced THEN Granted(r) ELSE "preference")
        BY <3>2 DEF ReadOverride, Calling, quietVars
      <4>2. chan[r] # "email" /\ input[e].known BY <1>0, <4>1 DEF Place
      <4> QED BY <2>4, <2>5, <4>1, <4>2 DEF Granted, CallSteps
    <3>3. CASE ReadPreference(r, e)
      <4>1. /\ run[r][e] = "handle" /\ at[r] = "preference" /\ UNCHANGED input
            /\ Leave(r, e) \/ (Call(r, Granted(r)) /\ UNCHANGED phones)
        BY <3>3 DEF ReadPreference, Calling, quietVars
      <4>2. chan[r] # "email" /\ input[e].known BY <1>0, <4>1 DEF Place
      <4>3. CASE Leave(r, e) BY <2>3, <4>1, <4>3
      <4>4. CASE Call(r, Granted(r)) /\ UNCHANGED phones
        BY <2>4, <2>5, <4>1, <4>2, <4>4 DEF Granted, CallSteps
      <4> QED BY <4>1, <4>3, <4>4
    <3>4. CASE ListDevices(r, e)
      <4>1. run[r][e] = "handle" /\ at[r] = "devices" /\ UNCHANGED input
        BY <3>4 DEF ListDevices, Calling, quietVars
      <4>2. CASE Phones = {}
        <5>1. Leave(r, e) BY <3>4, <4>2 DEF ListDevices
        <5> QED BY <2>3, <4>1, <5>1
      <4>3. CASE Phones # {}
        <5>1. Call(r, "note") /\ phones' = [phones EXCEPT ![r] = Phones]
          BY <3>4, <4>3 DEF ListDevices
        <5>2. phones' \in [Runners -> SUBSET Phones] /\ phones'[r] # {}
              /\ \A q \in Runners : q # r => phones'[q] = phones[q]
          BY <2>5, <4>3, <5>1
        <5> QED BY <2>4, <4>1, <5>1, <5>2 DEF CallSteps
      <4> QED BY <4>2, <4>3
    <3>5. CASE CreateNote(r, e)
      <4>1. /\ run[r][e] = "handle" /\ at[r] = "note" /\ UNCHANGED <<input, phones>>
            /\ Call(r, "trail")
        BY <3>5 DEF CreateNote, Calling, quietVars
      <4>2. chan[r] = "push" => phones[r] # {} BY <1>0, <4>1 DEF Place
      <4> QED BY <2>4, <2>5, <4>1, <4>2 DEF CallSteps
    <3>6. CASE CreateTrail(r, e)
      <4>1. /\ run[r][e] = "handle" /\ at[r] = "trail" /\ UNCHANGED input
            /\ Leave(r, e) \/ (Call(r, "send") /\ UNCHANGED phones)
        BY <3>6 DEF CreateTrail, Calling, quietVars
      <4>2. chan[r] = "push" => phones[r] # {} BY <1>0, <4>1 DEF Place
      <4>3. CASE Leave(r, e) BY <2>3, <4>1, <4>3
      <4>4. CASE Call(r, "send") /\ UNCHANGED phones
        BY <2>4, <2>5, <4>1, <4>2, <4>4 DEF CallSteps
      <4> QED BY <4>1, <4>3, <4>4
    <3>7. CASE Send(r, e)
      BY <2>6, <3>7 DEF Send, Calling, quietVars
    <3>8. CASE SendSwallowed(r, e)
      BY <2>6, <3>8 DEF SendSwallowed, Calling, quietVars
    <3>9. CASE ChannelFails(r, e)
      BY <2>3, <3>9 DEF ChannelFails, Throws, CallSteps, quietVars
    <3> QED BY <1>2, <3>1, <3>2, <3>3, <3>4, <3>5, <3>6, <3>7, <3>8, <3>9, NoticeCases
  <2>8. \/ /\ UNCHANGED <<run, input>> /\ optedOut' = optedOut
           /\ Effect(r, e) \/ UNCHANGED recordVars
           /\ UNCHANGED moodVars \/ Observe({r})
        \/ DispatchReturns(r, e)
    <3> USE DEF quietVars, settingVars, Failure
    <3>1. CASE StartDispatch(r, e) BY <1>2, <3>1 DEF StartDispatch
    <3>2. CASE ReadOverride(r, e) BY <1>2, <3>2 DEF ReadOverride
    <3>3. CASE ReadPreference(r, e) BY <1>2, <3>3 DEF ReadPreference
    <3>4. CASE ListDevices(r, e) BY <1>2, <3>4 DEF ListDevices
    <3>5. CASE CreateNote(r, e) BY <1>2, <3>5 DEF CreateNote
    <3>6. CASE CreateTrail(r, e) BY <1>2, <3>6 DEF CreateTrail
    <3>7. CASE Send(r, e) BY <1>2, <3>7 DEF Send
    <3>8. CASE SendSwallowed(r, e) BY <1>2, <3>8 DEF SendSwallowed
    <3>9. CASE ChannelFails(r, e) BY <1>2, <3>9 DEF ChannelFails, Throws
    <3> QED BY <1>2, <3>1, <3>2, <3>3, <3>4, <3>5, <3>6, <3>7, <3>8, <3>9, NoticeCases
  <2>9. ~DispatchReturns(r, e)
    BY <1>2 DEF DispatchReturns, HandlerReturns, Goto, TypeInv, TypeOK
  <2>10. /\ notes' \in [Events -> [Addresses -> Nat]]
         /\ trails' \in [Events -> [Addresses -> Nat]]
         /\ sends' \in [Events -> [Addresses -> Nat]]
    BY <1>0, <2>8, <2>9, EffectType
  <2>11. on' \in [Runners -> SUBSET Channels] /\ off' \in [Events -> SUBSET Channels]
    BY <1>0, <2>8, <2>9, ObserveType DEF moodVars, NoticeTypeOK
  <2>12. NoticeTypeOK' BY <1>0, <2>7, <2>8, <2>9, <2>10, <2>11 DEF NoticeTypeOK
  <2>13. \A q \in Runners : Place(q)'
    BY <1>0, <2>7, <2>8, <2>9, ElsewherePlace
  <2> QED BY <2>12, <2>13 DEF PlaceInv
<1>3. ASSUME NEW r \in Runners,
             \A q \in Runners : q # r => run'[q] = run[q],
             \A e, f \in Events : run'[r][e] # "idle" /\ run'[r][f] # "idle" => e = f,
             Reset(r), UNCHANGED <<input, optedOut>>,
             \/ UNCHANGED recordVars \/ \E e \in Events : Effect(r, e)
      PROVE  PlaceInv'
  <2>1. NoticeTypeOK'
    <3>1. /\ notes' \in [Events -> [Addresses -> Nat]]
          /\ trails' \in [Events -> [Addresses -> Nat]]
          /\ sends' \in [Events -> [Addresses -> Nat]]
      BY <1>0, <1>3, EffectType DEF NoticeTypeOK, recordVars
    <3> QED BY <1>0, <1>3, <3>1 DEF Reset, NoticeTypeOK, AtSteps
  <2>2. Place(r)'
    <3>1. at'[r] = "idle" BY <1>0, <1>3 DEF Reset, NoticeTypeOK
    <3> QED BY <1>3, <3>1 DEF Place, CallSteps
  <2>3. ASSUME NEW q \in Runners, q # r PROVE Place(q)'
    <3>1. at'[q] = at[q] /\ chan'[q] = chan[q] /\ todo'[q] = todo[q] /\ phones'[q] = phones[q]
      BY <1>0, <1>3, <2>3 DEF Reset, NoticeTypeOK
    <3> QED BY <1>0, <1>3, <2>3, <3>1, ElsewherePlace
  <2> QED BY <2>1, <2>2, <2>3 DEF PlaceInv
<1>4. ASSUME NEW r \in Runners, NEW e \in Events, DispatchReturns(r, e) PROVE PlaceInv'
  <2>1. run[r][e] = "handle" /\ run' = [run EXCEPT ![r][e] = "complete"]
    BY <1>4 DEF DispatchReturns, HandlerReturns, Goto
  <2>2. \A g, f \in Events : run'[r][g] # "idle" /\ run'[r][f] # "idle" => g = f
    BY <1>0, <2>1 DEF Place, TypeInv, TypeOK
  <2>3. \A q \in Runners : q # r => run'[q] = run[q] BY <2>1 DEF TypeInv, TypeOK
  <2> QED BY <1>3, <1>4, <2>2, <2>3 DEF DispatchReturns, settingVars
<1>5. ASSUME NEW r \in Runners, CrashDispatching(r) PROVE PlaceInv'
  <2>1. run' = [run EXCEPT ![r] = [f \in Events |-> "idle"]]
    BY <1>5 DEF CrashDispatching, Crash
  <2>2. \A g \in Events : run'[r][g] = "idle" BY <2>1 DEF TypeInv, TypeOK
  <2>3. \A q \in Runners : q # r => run'[q] = run[q] BY <2>1 DEF TypeInv, TypeOK
  <2> QED BY <1>3, <1>5, <2>2, <2>3 DEF CrashDispatching, settingVars
<1>6. CASE OverrideExpires \/ \E c \in Channels : SetPreference(c)
  <2>1. UNCHANGED <<run, input, at, chan, todo, phones, notes, trails, sends>>
        /\ Observe({}) /\ optedOut' \subseteq Configurable
    BY <1>0, <1>6
       DEF OverrideExpires, SetPreference, vars, placeVars, recordVars, NoticeTypeOK
  <2>2. NoticeTypeOK' BY <1>0, <2>1, ObserveType DEF NoticeTypeOK
  <2>3. \A q \in Runners : Place(q)' BY <1>0, <2>1, ElsewherePlace
  <2> QED BY <2>2, <2>3 DEF PlaceInv
<1>7. CASE UNCHANGED allNoticeVars
  <2>1. UNCHANGED <<run, input, optedOut, at, chan, todo, phones, notes, trails, sends, on, off>>
    BY <1>7 DEF allNoticeVars, noticeVars, vars, settingVars, placeVars, recordVars, moodVars
  <2>2. NoticeTypeOK' BY <1>0, <2>1 DEF NoticeTypeOK
  <2>3. \A q \in Runners : Place(q)' BY <1>0, <2>1, ElsewherePlace
  <2> QED BY <2>2, <2>3 DEF PlaceInv
<1>8. ASSUME NEW r \in Runners, NEW e \in Events, DispatchChannels(r, e) PROVE PlaceInv'
  BY <1>2, <1>4, <1>8, DispatchLeavesQueue DEF vars
<1> QED BY <1>1, <1>5, <1>6, <1>7, <1>8 DEF NoticeNext

LEMMA PlaceAlways == NoticeSpec => []PlaceInv
<1>1. NoticeInit => PlaceInv
  BY DEF NoticeInit, Init, PlaceInv, NoticeTypeOK, Place, AtSteps, CallSteps
<1> QED BY <1>1, PlaceStep, NoticesAreAJobProcessor, TypeAlways, PTL DEF NoticeSpec

-----------------------------------------------------------------------------
(* The settings page binds the dispatch.                                   *)

MoodOf(r) ==
  /\ at[r] # "idle" => ShownOn(optedOut, forced) \subseteq on[r]
  /\ at[r] = "preference" => ~forced
  /\ \A e \in Events : run[r][e] = "handle" /\ at[r] # "idle" =>
       /\ Configurable \ ShownOn(optedOut, forced) \subseteq off[e]
       /\ at[r] \in {"devices", "note", "trail", "send"} => ~Uninvited(r, e)

MoodInv == OffMeansOff /\ \A r \in Runners : MoodOf(r)

LEMMA ElsewhereMood ==
  ASSUME NEW q \in Runners, MoodOf(q), run'[q] = run[q], at'[q] = at[q], chan'[q] = chan[q],
         on'[q] = on[q], \A e \in Events : off[e] \subseteq off'[e],
         UNCHANGED <<input, optedOut, forced>>
  PROVE  MoodOf(q)'
BY DEF MoodOf, ShownOn, Uninvited

\* Wherever a visit begins, nothing has been granted without asking.
LEMMA VisitMood ==
  ASSUME NoticeTypeOK, NEW r \in Runners, NEW e \in Events, run[r][e] = "handle", Place(r),
         UNCHANGED <<run, input, optedOut, forced>>,
         NEW S, S \subseteq Reachable(e), Visit(r, e, S),
         ShownOn(optedOut, forced) \subseteq on'[r],
         Configurable \ ShownOn(optedOut, forced) \subseteq off'[e]
  PROVE  MoodOf(r)'
<1>1. \/ at'[r] = "finished"
      \/ at'[r] = Entry(e, chan'[r])
  BY VisitFacts
<1>2. at'[r] \in {"finished", "gate"} \/ (at'[r] = "note" /\ ~Uninvited(r, e)')
  BY <1>1 DEF Entry, Uninvited, Configurable
<1>3. \A f \in Events : run'[r][f] = "handle" => f = e BY DEF Place
<1> QED BY <1>2, <1>3 DEF MoodOf, ShownOn

LEMMA EffectKeepsOff ==
  ASSUME MoodInv, NEW r \in Runners, NEW e \in Events, run[r][e] = "handle",
         Effect(r, e) \/ UNCHANGED recordVars
  PROVE  OffMeansOff'
BY DEF MoodInv, MoodOf, OffMeansOff, Effect, recordVars

LEMMA MoodStep ==
  TypeInv /\ PlaceInv /\ MoodInv /\ [NoticeNext]_allNoticeVars => MoodInv'
<1> SUFFICES ASSUME TypeInv, PlaceInv, MoodInv, [NoticeNext]_allNoticeVars PROVE MoodInv'
  OBVIOUS
<1>0. /\ NoticeTypeOK /\ \A q \in Runners : Place(q)
      /\ OffMeansOff /\ \A q \in Runners : MoodOf(q)
  BY DEF PlaceInv, MoodInv
<1>1. CASE /\ \/ \E e \in Events : Queue(e)
              \/ \E r \in Runners, e \in Events : Take(r, e) \/ Protocol(r, e)
           /\ UNCHANGED noticeVars
  <2> USE DEF noticeVars, settingVars, placeVars, recordVars, moodVars
  <2>1. \A q \in Runners : MoodOf(q)'
    BY <1>0, <1>1, QuietRuns DEF MoodOf, ShownOn, Uninvited
  <2> QED BY <1>0, <1>1, <2>1 DEF MoodInv, OffMeansOff
<1>2. ASSUME NEW r \in Runners, NEW e \in Events, DispatchChannels(r, e), UNCHANGED run
      PROVE  MoodInv'
  <2>0. ~DispatchReturns(r, e)
    BY <1>2 DEF DispatchReturns, HandlerReturns, Goto, TypeInv, TypeOK
  <2>1. CASE StartDispatch(r, e)
    <3>1. /\ run[r][e] = "handle" /\ at[r] = "idle" /\ Visit(r, e, Reachable(e))
          /\ Observe({r}) /\ UNCHANGED <<input, optedOut, forced, intruded>>
      BY <2>1 DEF StartDispatch, Calling, settingVars, recordVars
    <3>2. ShownOn(optedOut, forced) \subseteq on'[r]
          /\ Configurable \ ShownOn(optedOut, forced) \subseteq off'[e]
      BY <3>1 DEF Observe
    <3>3. MoodOf(r)' BY <1>0, <1>2, <3>1, <3>2, VisitMood
    <3>4. ASSUME NEW q \in Runners, q # r PROVE MoodOf(q)'
      <4>1. at'[q] = at[q] /\ chan'[q] = chan[q] BY <1>0, <3>1, <3>4, VisitFacts
      <4>2. on[q] \subseteq on'[q] /\ \A f \in Events : off[f] \subseteq off'[f]
        BY <1>0, <3>1 DEF Observe
      <4> QED BY <1>0, <1>2, <3>1, <4>1, <4>2 DEF MoodOf, ShownOn, Uninvited
    <3> QED BY <1>0, <3>1, <3>3, <3>4 DEF MoodInv, OffMeansOff
  <2>2. CASE UNCHANGED quietVars /\ run[r][e] = "handle" /\ at[r] \in CallSteps
             /\ Leave(r, e) /\ (Effect(r, e) \/ UNCHANGED recordVars)
    <3> USE DEF quietVars, settingVars, moodVars
    <3>1. todo[r] \subseteq Reachable(e) /\ at[r] # "idle" BY <1>0, <2>2 DEF Place, CallSteps
    <3>2. ShownOn(optedOut, forced) \subseteq on'[r]
          /\ Configurable \ ShownOn(optedOut, forced) \subseteq off'[e]
      BY <1>0, <2>2, <3>1 DEF MoodOf
    <3>3. MoodOf(r)' BY <1>0, <1>2, <2>2, <3>1, <3>2, VisitMood DEF Leave
    <3>4. ASSUME NEW q \in Runners, q # r PROVE MoodOf(q)'
      <4>1. at'[q] = at[q] /\ chan'[q] = chan[q]
        BY <1>0, <2>2, <3>1, <3>4, VisitFacts DEF Leave
      <4> QED BY <1>0, <1>2, <2>2, <4>1, ElsewhereMood
    <3> QED BY <2>2, <3>3, <3>4, EffectKeepsOff DEF MoodInv
  <2>3. ASSUME UNCHANGED quietVars, run[r][e] = "handle", at[r] \in CallSteps,
               NEW s \in CallSteps, Call(r, s), Effect(r, e) \/ UNCHANGED recordVars,
               s = "preference" => ~forced,
               s \in {"devices", "note", "trail", "send"} => ~Uninvited(r, e)
        PROVE  MoodInv'
    <3> USE DEF quietVars, settingVars, moodVars
    <3>1. at'[r] = s /\ chan' = chan /\ at[r] # "idle"
      BY <1>0, <2>3 DEF Call, NoticeTypeOK, CallSteps
    <3>2. \A f \in Events : run[r][f] = "handle" => f = e BY <1>0, <2>3 DEF Place
    <3>3. MoodOf(r)' BY <1>0, <1>2, <2>3, <3>1, <3>2 DEF MoodOf, ShownOn, Uninvited
    <3>4. ASSUME NEW q \in Runners, q # r PROVE MoodOf(q)'
      <4>1. at'[q] = at[q] /\ chan'[q] = chan[q]
        BY <1>0, <2>3, <3>4 DEF Call, NoticeTypeOK
      <4> QED BY <1>0, <1>2, <2>3, <4>1, ElsewhereMood
    <3> QED BY <2>3, <3>3, <3>4, EffectKeepsOff DEF MoodInv
  <2>4. CASE ReadOverride(r, e)
    <3>1. /\ UNCHANGED quietVars /\ run[r][e] = "handle" /\ at[r] = "gate"
          /\ Call(r, IF forced THEN Granted(r) ELSE "preference") /\ UNCHANGED recordVars
      BY <2>4 DEF ReadOverride, Calling
    <3>2. forced => ~Uninvited(r, e) BY <1>0, <3>1 DEF MoodOf, ShownOn, Uninvited
    <3> QED BY <2>3, <3>1, <3>2 DEF Granted, CallSteps
  <2>5. CASE ReadPreference(r, e)
    <3>1. /\ UNCHANGED quietVars /\ run[r][e] = "handle" /\ at[r] = "preference"
          /\ IF chan[r] \in optedOut THEN Leave(r, e) ELSE Call(r, Granted(r))
          /\ UNCHANGED recordVars
      BY <2>5 DEF ReadPreference, Calling
    <3>2. chan[r] \notin optedOut => ~Uninvited(r, e)
      BY <1>0, <3>1 DEF MoodOf, ShownOn, Uninvited
    <3> QED BY <2>2, <2>3, <3>1, <3>2 DEF Granted, CallSteps
  <2>6. ASSUME at[r] \in {"devices", "note", "trail", "send"}, run[r][e] = "handle"
        PROVE  ~Uninvited(r, e)
    BY <1>0, <2>6 DEF MoodOf
  <2>7. CASE ListDevices(r, e)
    BY <2>2, <2>3, <2>6, <2>7 DEF ListDevices, Calling, CallSteps
  <2>8. CASE CreateNote(r, e)
    BY <2>3, <2>6, <2>8 DEF CreateNote, Calling, CallSteps
  <2>9. CASE CreateTrail(r, e)
    BY <2>2, <2>3, <2>6, <2>9 DEF CreateTrail, Calling, CallSteps
  <2>10. CASE Send(r, e)
    BY <2>2, <2>3, <2>6, <2>10 DEF Send, AfterSend, Calling, CallSteps
  <2>11. CASE SendSwallowed(r, e)
    BY <2>2, <2>3, <2>6, <2>11 DEF SendSwallowed, Failure, AfterSend, Calling, CallSteps
  <2>12. CASE ChannelFails(r, e)
    BY <2>2, <2>12 DEF ChannelFails, Throws, Failure
  <2> QED BY <1>2, <2>0, <2>1, <2>4, <2>5, <2>7, <2>8, <2>9, <2>10, <2>11, <2>12, NoticeCases
<1>3. ASSUME NEW r \in Runners, \A q \in Runners : q # r => run'[q] = run[q],
             Reset(r), UNCHANGED <<input, optedOut, forced>>, OffMeansOff'
      PROVE  MoodInv'
  <2>1. at'[r] = "idle" BY <1>0, <1>3 DEF Reset, NoticeTypeOK
  <2>2. MoodOf(r)' BY <2>1 DEF MoodOf
  <2>3. ASSUME NEW q \in Runners, q # r PROVE MoodOf(q)'
    <3>1. at'[q] = at[q] /\ chan'[q] = chan[q] /\ on'[q] = on[q] /\ off' = off
      BY <1>0, <1>3, <2>3 DEF Reset, NoticeTypeOK
    <3> QED BY <1>0, <1>3, <2>3, <3>1, ElsewhereMood
  <2> QED BY <1>3, <2>2, <2>3 DEF MoodInv
<1>4. ASSUME NEW r \in Runners, NEW e \in Events, DispatchReturns(r, e) PROVE MoodInv'
  <2>1. \A q \in Runners : q # r => run'[q] = run[q]
    BY <1>4 DEF DispatchReturns, HandlerReturns, Goto, TypeInv, TypeOK
  <2> QED BY <1>0, <1>3, <1>4, <2>1 DEF DispatchReturns, settingVars, recordVars, OffMeansOff
<1>5. ASSUME NEW r \in Runners, CrashDispatching(r) PROVE MoodInv'
  <2>1. \A q \in Runners : q # r => run'[q] = run[q]
    BY <1>5 DEF CrashDispatching, Crash, TypeInv, TypeOK
  <2>2. OffMeansOff'
    <3>1. CASE \E e \in Events : run[r][e] = "handle" /\ Effect(r, e) BY <3>1, EffectKeepsOff
    <3>2. CASE UNCHANGED recordVars BY <1>0, <3>2 DEF recordVars, OffMeansOff
    <3> QED BY <1>5, <3>1, <3>2 DEF CrashDispatching
  <2> QED BY <1>3, <1>5, <2>1, <2>2 DEF CrashDispatching, settingVars
<1>6. CASE OverrideExpires \/ \E c \in Channels : SetPreference(c)
  <2>1. UNCHANGED <<run, input, at, chan, intruded>> /\ Observe({}) /\ (forced' => forced)
    BY <1>6 DEF OverrideExpires, SetPreference, vars, placeVars, recordVars
  <2>2. ASSUME NEW q \in Runners PROVE MoodOf(q)'
    <3>1. at[q] # "idle" => ShownOn(optedOut, forced)' \subseteq on'[q]
      BY <2>1 DEF Observe, ShownOn
    <3>2. ASSUME NEW e \in Events, run[q][e] = "handle", at[q] # "idle"
          PROVE  Configurable \ ShownOn(optedOut, forced)' \subseteq off'[e]
      BY <2>1, <3>2 DEF Observe, ShownOn
    <3>3. on[q] \subseteq on'[q] BY <1>0, <2>1 DEF Observe
    <3> QED BY <1>0, <2>1, <3>1, <3>2, <3>3 DEF MoodOf, Uninvited
  <2> QED BY <1>0, <2>1, <2>2 DEF MoodInv, OffMeansOff
<1>7. CASE UNCHANGED allNoticeVars
  <2>1. UNCHANGED <<run, input, optedOut, forced, at, chan, on, off, intruded>>
    BY <1>7 DEF allNoticeVars, noticeVars, vars, settingVars, placeVars, recordVars, moodVars
  <2> QED BY <1>0, <2>1, ElsewhereMood DEF MoodInv, OffMeansOff
<1>8. ASSUME NEW r \in Runners, NEW e \in Events, DispatchChannels(r, e) PROVE MoodInv'
  BY <1>2, <1>4, <1>8, DispatchLeavesQueue DEF vars
<1> QED BY <1>1, <1>5, <1>6, <1>7, <1>8 DEF NoticeNext

LEMMA MoodAlways == NoticeSpec => []MoodInv
<1>1. NoticeInit => MoodInv
  BY DEF NoticeInit, MoodInv, MoodOf, OffMeansOff
<1> QED BY <1>1, MoodStep, PlaceAlways, NoticesAreAJobProcessor, TypeAlways, PTL DEF NoticeSpec

\* A channel the settings page showed as off from the start of a dispatch is not
\* used by it, whatever changes between the reads.
THEOREM OffIsRespected == NoticeSpec => []OffMeansOff
<1>1. MoodInv => OffMeansOff BY DEF MoodInv
<1> QED BY <1>1, MoodAlways, PTL

\* Around the handler nobody comes to its end, and no key is completed but by
\* one who has.
LEMMA QuietKeys ==
  ASSUME TypeInv, NEW f \in Events,
         \/ \E e \in Events : Queue(e)
         \/ \E r \in Runners, e \in Events : Take(r, e) \/ Protocol(r, e)
  PROVE  /\ \A p \in Runners : run'[p][f] = "complete" => run[p][f] = "complete"
         /\ key'[f] = "COMPLETED" =>
              key[f] = "COMPLETED" \/ \E p \in Runners : run[p][f] = "complete"
<1>1. CASE \E e \in Events : Queue(e)
  BY <1>1 DEF Queue, Add, Stalled, SlowRunStalls, KeyExpires, keyVars
<1>2. CASE \E r \in Runners, e \in Events : Take(r, e)
  BY <1>2 DEF Take, Goto, keyVars, TypeInv, TypeOK
<1>3. CASE \E r \in Runners, e \in Events : Protocol(r, e) BY <1>3, ProtocolKeepsReach
<1> QED BY <1>1, <1>2, <1>3

-----------------------------------------------------------------------------
(* Every channel answers for itself.                                       *)

AnswerOf(r) ==
  /\ chan[r] # "push" => phones[r] = {}
  /\ at[r] \in {"idle", "finished"} => chan[r] = "none" /\ todo[r] = {}
  /\ \A e \in Events : run[r][e] = "handle" /\ at[r] # "idle" =>
       /\ \A c \in Reachable(e) : c \in todo[r] \/ c = chan[r] \/ Answered(e, c)
       /\ at[r] \in {"note", "trail", "send"} /\ chan[r] = "push" =>
            <<e, "push">> \in failed \/ \A p \in Phones \ phones[r] : sends[e][p] > 0
       /\ at[r] = "send" /\ chan[r] = "inApp" => trails[e]["inApp"] > 0

AnswerInv ==
  /\ \A r \in Runners : AnswerOf(r)
  /\ \A r \in Runners, e \in Events : run[r][e] = "complete" =>
       \A c \in Reachable(e) : Answered(e, c)
  /\ EveryChannelAnswers

\* What has been sent, has failed or was off stays so.
Grows ==
  /\ \A e \in Events, a \in Addresses : trails[e][a] <= trails'[e][a] /\ sends[e][a] <= sends'[e][a]
  /\ failed \subseteq failed'
  /\ \A e \in Events : off[e] \subseteq off'[e]
  /\ UNCHANGED input

LEMMA AnsweredStays ==
  ASSUME NoticeTypeOK, NoticeTypeOK', Grows, NEW e \in Events, NEW c \in Channels, Answered(e, c)
  PROVE  Answered(e, c)'
<1>1. AddressesOf(c) \subseteq Addresses BY DEF AddressesOf, Addresses
<1>2. \A a \in Addresses : /\ trails[e][a] \in Nat /\ trails'[e][a] \in Nat
                           /\ sends[e][a] \in Nat /\ sends'[e][a] \in Nat
  BY DEF NoticeTypeOK
<1>3. \A a \in Addresses : /\ trails[e][a] > 0 => trails'[e][a] > 0
                           /\ sends[e][a] > 0 => sends'[e][a] > 0
  BY <1>2 DEF Grows
<1>4. CASE \A a \in AddressesOf(c) : (IF c = "inApp" THEN trails ELSE sends)[e][a] > 0
  BY <1>1, <1>3, <1>4 DEF Answered
<1> QED BY <1>4 DEF Answered, Grows

LEMMA EffectGrows ==
  ASSUME NoticeTypeOK, NEW r \in Runners, NEW e \in Events, Place(r),
         Effect(r, e) \/ UNCHANGED recordVars
  PROVE  \A f \in Events, a \in Addresses :
           trails[f][a] <= trails'[f][a] /\ sends[f][a] <= sends'[f][a]
<1>1. ASSUME NEW rows \in [Events -> [Addresses -> Nat]], NEW s,
             NEW f \in Events, NEW a \in Addresses
      PROVE  rows[f][a] <= Bump(rows, r, e, s)[f][a]
  <2>1. rows[f][a] \in Nat /\ rows[e] \in [Addresses -> Nat] OBVIOUS
  <2>2. CASE at[r] = s
    <3>1. Bump(rows, r, e, s) = [rows EXCEPT ![e][Address(r)] = @ + 1] BY <2>2 DEF Bump
    <3>2. Bump(rows, r, e, s)[f][a] \in {rows[f][a], rows[f][a] + 1} BY <3>1
    <3> QED BY <2>1, <3>2
  <2>3. CASE at[r] # s BY <2>1, <2>3 DEF Bump
  <2> QED BY <2>2, <2>3
<1>2. CASE Effect(r, e) BY <1>1, <1>2 DEF Effect, NoticeTypeOK
<1>3. CASE UNCHANGED recordVars BY <1>3 DEF recordVars, NoticeTypeOK
<1> QED BY <1>2, <1>3

LEMMA StepGrows == PlaceInv /\ [NoticeNext]_allNoticeVars => Grows
<1> SUFFICES ASSUME PlaceInv, [NoticeNext]_allNoticeVars PROVE Grows
  OBVIOUS
<1>0. NoticeTypeOK /\ \A q \in Runners : Place(q) BY DEF PlaceInv
<1> DEFINE Shape(r, e) ==
      /\ Effect(r, e) \/ UNCHANGED recordVars
      /\ failed \subseteq failed' /\ UNCHANGED input
      /\ UNCHANGED off \/ \E B : Observe(B)
<1>1. ASSUME NEW r \in Runners, NEW e \in Events, Shape(r, e) PROVE Grows
  <2>1. \A f \in Events : off[f] \subseteq off'[f] BY <1>0, <1>1 DEF Observe, NoticeTypeOK
  <2> QED BY <1>0, <1>1, <2>1, EffectGrows DEF Grows
<1>2. ASSUME NEW r \in Runners, NEW e \in Events, DispatchChannels(r, e) PROVE Grows
  <2> USE DEF quietVars, moodVars, Failure
  <2>1. CASE StartDispatch(r, e) BY <1>1, <2>1 DEF StartDispatch
  <2>2. CASE ReadOverride(r, e) BY <1>1, <2>2 DEF ReadOverride
  <2>3. CASE ReadPreference(r, e) BY <1>1, <2>3 DEF ReadPreference
  <2>4. CASE ListDevices(r, e) BY <1>1, <2>4 DEF ListDevices
  <2>5. CASE CreateNote(r, e) BY <1>1, <2>5 DEF CreateNote
  <2>6. CASE CreateTrail(r, e) BY <1>1, <2>6 DEF CreateTrail
  <2>7. CASE Send(r, e) BY <1>1, <2>7 DEF Send
  <2>8. CASE SendSwallowed(r, e) BY <1>1, <2>8 DEF SendSwallowed
  <2>9. CASE ChannelFails(r, e) BY <1>1, <2>9 DEF ChannelFails, Throws
  <2>10. CASE DispatchReturns(r, e) BY <1>1, <2>10 DEF DispatchReturns, Reset
  <2> QED BY <1>2, <2>1, <2>2, <2>3, <2>4, <2>5, <2>6, <2>7, <2>8, <2>9, <2>10, NoticeCases
<1>3. ASSUME UNCHANGED recordVars, failed' = failed, UNCHANGED input,
             UNCHANGED off \/ \E B : Observe(B)
      PROVE  Grows
  <2>1. \A f \in Events : off[f] \subseteq off'[f] BY <1>0, <1>3 DEF Observe, NoticeTypeOK
  <2>2. trails' = trails /\ sends' = sends BY <1>3 DEF recordVars
  <2>3. \A f \in Events, a \in Addresses : trails[f][a] \in Nat /\ sends[f][a] \in Nat
    BY <1>0 DEF NoticeTypeOK
  <2> QED BY <1>3, <2>1, <2>2, <2>3 DEF Grows
<1>4. CASE UNCHANGED noticeVars BY <1>3, <1>4 DEF noticeVars, moodVars
<1>5. ASSUME NEW r \in Runners, CrashDispatching(r) PROVE Grows
  <2>1. UNCHANGED <<input, failed, off>> BY <1>5 DEF CrashDispatching, Reset
  <2>2. CASE \E e \in Events : run[r][e] = "handle" /\ Effect(r, e) BY <1>1, <2>1, <2>2
  <2>3. CASE UNCHANGED recordVars BY <1>3, <2>1, <2>3
  <2> QED BY <1>5, <2>2, <2>3 DEF CrashDispatching
<1>6. CASE OverrideExpires \/ \E c \in Channels : SetPreference(c)
  BY <1>3, <1>6 DEF OverrideExpires, SetPreference
<1> QED BY <1>2, <1>4, <1>5, <1>6 DEF NoticeNext, allNoticeVars

LEMMA ElsewhereAnswers ==
  ASSUME NoticeTypeOK, NoticeTypeOK', Grows, NEW q \in Runners, AnswerOf(q), Place(q),
         \A f \in Events : run'[q][f] = "handle" /\ at[q] # "idle" => run[q][f] = "handle",
         at'[q] = at[q], chan'[q] = chan[q], todo'[q] = todo[q], phones'[q] = phones[q]
  PROVE  AnswerOf(q)'
<1>1. \A f \in Events : Reachable(f)' = Reachable(f) /\ Reachable(f) \subseteq Channels
  BY ReachableType DEF Reachable, Grows
<1> SUFFICES ASSUME NEW f \in Events, run[q][f] = "handle", at[q] # "idle"
             PROVE  /\ \A c \in Reachable(f) : c \in todo[q] \/ c = chan[q] \/ Answered(f, c)'
                    /\ at[q] \in {"note", "trail", "send"} /\ chan[q] = "push" =>
                         <<f, "push">> \in failed' \/ \A p \in Phones \ phones[q] : sends'[f][p] > 0
                    /\ at[q] = "send" /\ chan[q] = "inApp" => trails'[f]["inApp"] > 0
  BY <1>1 DEF AnswerOf
<1>2. \A c \in Reachable(f) : c \in todo[q] \/ c = chan[q] \/ Answered(f, c)'
  BY <1>1, AnsweredStays DEF AnswerOf
<1>3. \A a \in Addresses : (sends[f][a] > 0 => sends'[f][a] > 0)
                           /\ (trails[f][a] > 0 => trails'[f][a] > 0)
  <2>1. \A a \in Addresses : /\ sends[f][a] \in Nat /\ sends'[f][a] \in Nat
                             /\ trails[f][a] \in Nat /\ trails'[f][a] \in Nat
    BY DEF NoticeTypeOK
  <2> QED BY <2>1 DEF Grows
<1>4. Phones \subseteq Addresses /\ "inApp" \in Addresses BY DEF Addresses, Channels
<1> QED BY <1>2, <1>3, <1>4 DEF AnswerOf, Grows

\* A channel is left when it has answered.
LEMMA VisitAnswers ==
  ASSUME NoticeTypeOK, NoticeTypeOK', Grows, NEW r \in Runners, NEW e \in Events,
         run[r][e] = "handle", run' = run, Place(r), Place(r)',
         NEW S, S \subseteq Reachable(e), Visit(r, e, S), phones'[r] = {},
         \A c \in Reachable(e) : c \in S \/ Answered(e, c)'
  PROVE  AnswerOf(r)'
<1>1. \/ S = {} /\ at'[r] = "finished" /\ chan'[r] = "none" /\ todo'[r] = {}
      \/ /\ chan'[r] \in S /\ todo'[r] = S \ {chan'[r]}
         /\ at'[r] = Entry(e, chan'[r])
  BY VisitFacts
<1>2. Reachable(e)' = Reachable(e) BY DEF Reachable, Grows
<1>3. \A f \in Events : run'[r][f] = "handle" => f = e BY DEF Place
<1>4. at'[r] \in {"finished", "note", "gate"} /\ (at'[r] # "finished" => chan'[r] \in S)
  BY <1>1 DEF Entry
<1>5. ~(at'[r] = "note" /\ chan'[r] = "push") BY DEF Place
<1>6. at'[r] = "finished" => chan'[r] = "none" /\ todo'[r] = {} BY <1>1 DEF Entry
<1>7. \A c \in Reachable(e) : c \in todo'[r] \/ c = chan'[r] \/ Answered(e, c)' BY <1>1
<1> QED BY <1>2, <1>3, <1>4, <1>5, <1>6, <1>7 DEF AnswerOf

LEMMA CallAnswers ==
  ASSUME NoticeTypeOK, NoticeTypeOK', Grows, NEW r \in Runners, NEW e \in Events,
         run[r][e] = "handle", run' = run, Place(r), AnswerOf(r), at[r] \in CallSteps,
         NEW s \in CallSteps, Call(r, s), chan[r] # "push" => phones'[r] = {},
         s \in {"note", "trail", "send"} /\ chan[r] = "push" =>
           <<e, "push">> \in failed' \/ \A p \in Phones \ phones'[r] : sends'[e][p] > 0,
         s = "send" /\ chan[r] = "inApp" => trails'[e]["inApp"] > 0
  PROVE  AnswerOf(r)'
<1>1. at'[r] = s /\ chan'[r] = chan[r] /\ todo'[r] = todo[r] BY DEF Call, NoticeTypeOK
<1>2. Reachable(e)' = Reachable(e) /\ Reachable(e) \subseteq Channels
  BY ReachableType DEF Reachable, Grows
<1>3. \A f \in Events : run'[r][f] = "handle" => f = e BY DEF Place
<1>4. \A c \in Reachable(e) : c \in todo[r] \/ c = chan[r] \/ Answered(e, c)'
  BY <1>2, AnsweredStays DEF AnswerOf, CallSteps
<1>5. s \notin {"idle", "finished"} BY DEF CallSteps
<1> QED BY <1>1, <1>2, <1>3, <1>4, <1>5 DEF AnswerOf

LEMMA EffectCounts ==
  ASSUME NoticeTypeOK, NEW r \in Runners, NEW e \in Events, Place(r), Effect(r, e)
  PROVE  /\ at[r] = "send"  => sends'[e][Address(r)] > 0
         /\ at[r] = "trail" => trails'[e][Address(r)] > 0
<1>1. ASSUME NEW rows \in [Events -> [Addresses -> Nat]], NEW s \in {"trail", "send"}, at[r] = s
      PROVE  Bump(rows, r, e, s)[e][Address(r)] > 0
  <2>1. Address(r) \in Addresses BY <1>1, AddressType
  <2>2. rows[e][Address(r)] \in Nat BY <2>1
  <2>3. Bump(rows, r, e, s)[e][Address(r)] = rows[e][Address(r)] + 1 BY <1>1, <2>1 DEF Bump
  <2> QED BY <2>2, <2>3
<1> QED BY <1>1 DEF Effect, NoticeTypeOK

\* The channel at hand answers when its last message has left or has failed.
LEMMA LastSendAnswers ==
  ASSUME NoticeTypeOK, NoticeTypeOK', Grows, NEW r \in Runners, NEW e \in Events,
         run[r][e] = "handle", Place(r), AnswerOf(r), at[r] = "send",
         NEW c \in Channels, c = chan[r],
         \/ <<e, chan[r]>> \in failed' \/ chan[r] = "inApp"
         \/ sends'[e][Address(r)] > 0
  PROVE  /\ phones[r] \ {Address(r)} = {} => Answered(e, c)'
         /\ chan[r] = "push" =>
              \/ <<e, "push">> \in failed'
              \/ \A p \in Phones \ (phones[r] \ {Address(r)}) : sends'[e][p] > 0
<1>1. \A a \in Addresses : (sends[e][a] > 0 => sends'[e][a] > 0)
                           /\ (trails[e][a] > 0 => trails'[e][a] > 0)
  <2>1. \A a \in Addresses : /\ sends[e][a] \in Nat /\ sends'[e][a] \in Nat
                             /\ trails[e][a] \in Nat /\ trails'[e][a] \in Nat
    BY DEF NoticeTypeOK
  <2> QED BY <2>1 DEF Grows
<1>2. Phones \subseteq Addresses /\ "inApp" \in Addresses BY DEF Addresses, Channels
<1>3. CASE <<e, chan[r]>> \in failed' BY <1>3 DEF Answered
<1>4. CASE chan[r] = "inApp"
  <2>1. trails'[e]["inApp"] > 0 BY <1>1, <1>2, <1>4 DEF AnswerOf
  <2> QED BY <1>4, <2>1 DEF Answered, AddressesOf
<1>5. CASE sends'[e][Address(r)] > 0 /\ chan[r] = "push" /\ <<e, chan[r]>> \notin failed'
  <2>1. \A p \in Phones \ phones[r] : sends[e][p] > 0 BY <1>5 DEF AnswerOf, Grows
  <2>2. \A p \in Phones \ (phones[r] \ {Address(r)}) : sends'[e][p] > 0
    BY <1>1, <1>2, <1>5, <2>1
  <2>3. phones[r] \ {Address(r)} = {} => \A p \in Phones : sends'[e][p] > 0 BY <2>2
  <2> QED BY <1>5, <2>2, <2>3 DEF Answered, AddressesOf
<1>6. CASE sends'[e][Address(r)] > 0 /\ chan[r] \notin {"push", "inApp"}
  BY <1>6 DEF Answered, AddressesOf, Address
<1> QED BY <1>3, <1>4, <1>5, <1>6

LEMMA DispatchLeavesOthers ==
  ASSUME NoticeTypeOK, NEW r \in Runners, NEW e \in Events, DispatchChannels(r, e),
         NEW q \in Runners, q # r
  PROVE  at'[q] = at[q] /\ chan'[q] = chan[q] /\ todo'[q] = todo[q] /\ phones'[q] = phones[q]
<1> DEFINE Aside == at'[q] = at[q] /\ chan'[q] = chan[q] /\ todo'[q] = todo[q]
                    /\ phones'[q] = phones[q]
<1>1. ASSUME NEW S, Visit(r, e, S), phones' = phones \/ \E P : phones' = [phones EXCEPT ![r] = P]
      PROVE  Aside
  BY <1>1 DEF Visit, NoticeTypeOK
<1>2. ASSUME NEW s, Call(r, s), phones' = phones \/ \E P : phones' = [phones EXCEPT ![r] = P]
      PROVE  Aside
  BY <1>2 DEF Call, NoticeTypeOK
<1>3. ASSUME Leave(r, e) PROVE Aside BY <1>1, <1>3 DEF Leave
<1>4. ASSUME AfterSend(r, e) PROVE Aside BY <1>2, <1>3, <1>4 DEF AfterSend
<1>5. CASE StartDispatch(r, e) BY <1>1, <1>5 DEF StartDispatch
<1>6. CASE ReadOverride(r, e) BY <1>2, <1>6 DEF ReadOverride
<1>7. CASE ReadPreference(r, e) BY <1>2, <1>3, <1>7 DEF ReadPreference
<1>8. CASE ListDevices(r, e) BY <1>2, <1>3, <1>8 DEF ListDevices
<1>9. CASE CreateNote(r, e) BY <1>2, <1>9 DEF CreateNote
<1>10. CASE CreateTrail(r, e) BY <1>2, <1>3, <1>10 DEF CreateTrail
<1>11. CASE Send(r, e) BY <1>4, <1>11 DEF Send
<1>12. CASE SendSwallowed(r, e) BY <1>4, <1>12 DEF SendSwallowed
<1>13. CASE ChannelFails(r, e) BY <1>3, <1>13 DEF ChannelFails
<1>14. CASE DispatchReturns(r, e) BY <1>14 DEF DispatchReturns, Reset, NoticeTypeOK
<1> QED BY <1>5, <1>6, <1>7, <1>8, <1>9, <1>10, <1>11, <1>12, <1>13, <1>14, NoticeCases

LEMMA DispatchAnswers ==
  ASSUME TypeInv, PlaceInv, PlaceInv', MoodInv, AnswerInv, Grows,
         NEW r \in Runners, NEW e \in Events, DispatchChannels(r, e), UNCHANGED run
  PROVE  AnswerOf(r)'
<1>0. /\ NoticeTypeOK /\ NoticeTypeOK' /\ Place(r) /\ Place(r)' /\ MoodOf(r) /\ AnswerOf(r)
      /\ ~DispatchReturns(r, e)
  BY DEF PlaceInv, MoodInv, AnswerInv, DispatchReturns, HandlerReturns, Goto, TypeInv, TypeOK
<1>1. Reachable(e) \subseteq Channels BY <1>0, ReachableType
<1>2. \A c \in Reachable(e) : Answered(e, c) => Answered(e, c)' BY <1>0, <1>1, AnsweredStays
<1>3. CASE StartDispatch(r, e)
  <2>1. /\ run[r][e] = "handle" /\ at[r] = "idle" /\ phones' = phones
        /\ Visit(r, e, Reachable(e))
    BY <1>3 DEF StartDispatch, Calling
  <2>2. phones'[r] = {} BY <1>0, <2>1 DEF AnswerOf
  <2> QED BY <1>0, <2>1, <2>2, VisitAnswers
<1>4. ASSUME run[r][e] = "handle", at[r] \in CallSteps, Leave(r, e),
             \A c \in Channels : c = chan[r] => Answered(e, c)'
      PROVE  AnswerOf(r)'
  <2>1. /\ Visit(r, e, todo[r]) /\ phones'[r] = {} /\ at[r] # "idle"
        /\ todo[r] \subseteq Reachable(e)
    BY <1>0, <1>4 DEF Leave, NoticeTypeOK, CallSteps, Place
  <2>2. \A c \in Reachable(e) : c \in todo[r] \/ Answered(e, c)'
    BY <1>0, <1>1, <1>2, <1>4, <2>1 DEF AnswerOf
  <2> QED BY <1>0, <1>4, <2>1, <2>2, VisitAnswers
<1>5. CASE ReadOverride(r, e)
  <2>1. /\ run[r][e] = "handle" /\ at[r] = "gate" /\ phones' = phones
        /\ Call(r, IF forced THEN Granted(r) ELSE "preference")
    BY <1>5 DEF ReadOverride, Calling
  <2>2. chan[r] # "push" => phones'[r] = {} BY <1>0, <2>1 DEF AnswerOf
  <2>3. chan[r] = "push" => Granted(r) = "devices" BY DEF Granted
  <2> QED BY <1>0, <2>1, <2>2, <2>3, CallAnswers DEF CallSteps, Granted
<1>6. CASE ReadPreference(r, e)
  <2>1. /\ run[r][e] = "handle" /\ at[r] = "preference"
        /\ IF chan[r] \in optedOut THEN Leave(r, e) ELSE Call(r, Granted(r)) /\ UNCHANGED phones
    BY <1>6 DEF ReadPreference, Calling
  <2>2. CASE chan[r] \in optedOut
    <3>1. chan[r] \in Configurable \ ShownOn(optedOut, forced)
      BY <1>0, <2>1, <2>2 DEF MoodOf, ShownOn, Place, CallSteps, Configurable
    <3>2. chan[r] \in off'[e] /\ input'[e].known
      BY <1>0, <2>1, <3>1 DEF MoodOf, Grows, Place
    <3> QED BY <1>4, <2>1, <2>2, <3>2 DEF Answered, CallSteps
  <2>3. CASE chan[r] \notin optedOut
    <3>1. chan[r] # "push" => phones'[r] = {} BY <1>0, <2>1, <2>3 DEF AnswerOf
    <3> QED BY <1>0, <2>1, <2>3, <3>1, CallAnswers DEF CallSteps, Granted
  <2> QED BY <2>2, <2>3
<1>7. CASE ListDevices(r, e)
  <2>1. /\ run[r][e] = "handle" /\ at[r] = "devices" /\ chan[r] = "push"
        /\ IF Phones = {} THEN Leave(r, e)
           ELSE Call(r, "note") /\ phones' = [phones EXCEPT ![r] = Phones]
    BY <1>0, <1>7 DEF ListDevices, Calling, Place
  <2>2. CASE Phones = {}
    <3>1. \A c \in Channels : c = chan[r] => Answered(e, c)'
      BY <2>1, <2>2 DEF Answered, AddressesOf
    <3> QED BY <1>4, <2>1, <2>2, <3>1 DEF CallSteps
  <2>3. CASE Phones # {}
    <3>1. phones'[r] = Phones BY <1>0, <2>1, <2>3 DEF NoticeTypeOK
    <3> QED BY <1>0, <2>1, <2>3, <3>1, CallAnswers DEF CallSteps
  <2> QED BY <2>2, <2>3
\* The devices not at hand any more have been reached.
<1>8. /\ chan[r] # "push" => phones[r] = {}
      /\ run[r][e] = "handle" /\ at[r] \in {"note", "trail"} /\ chan[r] = "push" =>
           <<e, "push">> \in failed' \/ \A p \in Phones \ phones[r] : sends'[e][p] > 0
  <2>1. \A p \in Phones : sends[e][p] \in Nat /\ sends'[e][p] \in Nat /\ sends[e][p] <= sends'[e][p]
    BY <1>0 DEF NoticeTypeOK, Addresses, Grows
  <2> QED BY <1>0, <2>1 DEF AnswerOf, Grows
<1>9. CASE CreateNote(r, e)
  <2>1. run[r][e] = "handle" /\ at[r] = "note" /\ phones' = phones /\ Call(r, "trail")
    BY <1>9 DEF CreateNote, Calling
  <2> QED BY <1>0, <1>8, <2>1, CallAnswers DEF CallSteps
<1>10. CASE CreateTrail(r, e)
  <2>1. /\ run[r][e] = "handle" /\ at[r] = "trail" /\ Effect(r, e)
        /\ IF chan[r] = "inApp" /\ ~input[e].known THEN Leave(r, e)
           ELSE Call(r, "send") /\ UNCHANGED phones
    BY <1>10 DEF CreateTrail, Calling
  <2>2. trails'[e][Address(r)] > 0 BY <1>0, <2>1, EffectCounts
  <2>3. chan[r] = "inApp" => trails'[e]["inApp"] > 0 BY <2>2 DEF Address
  <2>4. CASE chan[r] = "inApp" /\ ~input[e].known
    <3>1. \A c \in Channels : c = chan[r] => Answered(e, c)'
      BY <2>3, <2>4 DEF Answered, AddressesOf
    <3> QED BY <1>4, <2>1, <2>4, <3>1 DEF CallSteps
  <2>5. CASE ~(chan[r] = "inApp" /\ ~input[e].known)
    BY <1>0, <1>8, <2>1, <2>3, <2>5, CallAnswers DEF CallSteps
  <2> QED BY <2>4, <2>5
<1>11. ASSUME run[r][e] = "handle", at[r] = "send", AfterSend(r, e),
              \/ <<e, chan[r]>> \in failed' \/ chan[r] = "inApp"
              \/ sends'[e][Address(r)] > 0
       PROVE  AnswerOf(r)'
  <2> DEFINE rest == phones[r] \ {Address(r)}
  <2>1. /\ rest = {} => \A c \in Channels : c = chan[r] => Answered(e, c)'
        /\ chan[r] = "push" =>
             <<e, "push">> \in failed' \/ \A p \in Phones \ rest : sends'[e][p] > 0
    <3>1. chan[r] \in Channels BY <1>0, <1>11 DEF Place, CallSteps
    <3> QED BY <1>0, <1>11, <3>1, LastSendAnswers
  <2>2. CASE rest = {}
    <3>1. Leave(r, e) BY <1>11, <2>2 DEF AfterSend
    <3> QED BY <1>4, <1>11, <2>1, <2>2, <3>1 DEF CallSteps
  <2>3. CASE rest # {}
    <3>1. Call(r, "note") /\ phones' = [phones EXCEPT ![r] = rest]
      BY <1>11, <2>3 DEF AfterSend
    <3>2. phones'[r] = rest BY <1>0, <3>1 DEF NoticeTypeOK
    <3>3. chan[r] = "push" BY <1>8, <2>3
    <3> HIDE DEF rest
    <3> QED BY <1>0, <1>11, <2>1, <3>1, <3>2, <3>3, CallAnswers DEF CallSteps
  <2> QED BY <2>2, <2>3
<1>12. CASE Send(r, e)
  <2>1. run[r][e] = "handle" /\ at[r] = "send" /\ Effect(r, e) /\ AfterSend(r, e)
    BY <1>12 DEF Send, Calling
  <2>2. sends'[e][Address(r)] > 0 BY <1>0, <2>1, EffectCounts
  <2> QED BY <1>11, <2>1, <2>2
<1>13. CASE SendSwallowed(r, e)
  <2>1. /\ run[r][e] = "handle" /\ at[r] = "send" /\ AfterSend(r, e)
        /\ <<e, chan[r]>> \in failed' \/ chan[r] = "inApp"
    BY <1>13 DEF SendSwallowed, Calling
  <2> QED BY <1>11, <2>1
<1>14. CASE ChannelFails(r, e)
  <2>1. /\ run[r][e] = "handle" /\ at[r] \in CallSteps /\ Leave(r, e)
        /\ <<e, chan[r]>> \in failed'
    BY <1>14 DEF ChannelFails, Throws
  <2>2. \A c \in Channels : c = chan[r] => Answered(e, c)' BY <2>1 DEF Answered
  <2> QED BY <1>4, <2>1, <2>2
<1> QED BY <1>0, <1>3, <1>5, <1>6, <1>7, <1>9, <1>10, <1>12, <1>13, <1>14, NoticeCases

LEMMA AnswerStep ==
  TypeInv /\ PlaceInv /\ PlaceInv' /\ MoodInv /\ AnswerInv /\ [NoticeNext]_allNoticeVars => AnswerInv'
<1> SUFFICES ASSUME TypeInv, PlaceInv, PlaceInv', MoodInv, AnswerInv, [NoticeNext]_allNoticeVars
             PROVE  AnswerInv'
  OBVIOUS
<1>0. /\ NoticeTypeOK /\ NoticeTypeOK' /\ Grows
      /\ \A q \in Runners : Place(q) /\ AnswerOf(q)
  BY StepGrows DEF PlaceInv, AnswerInv
<1>1. \A f \in Events : Reachable(f)' = Reachable(f) /\ Reachable(f) \subseteq Channels
  BY <1>0, ReachableType DEF Reachable, Grows
<1>2. \A f \in Events : \A c \in Reachable(f) : Answered(f, c) => Answered(f, c)'
  BY <1>0, <1>1, AnsweredStays
\* Who reaches the end of a dispatch, and which keys are completed.
<1>3. ASSUME \A q \in Runners, f \in Events :
               run'[q][f] = "complete" /\ run[q][f] # "complete" =>
                 \A c \in Reachable(f) : Answered(f, c)',
             \A f \in Events : key'[f] = "COMPLETED" =>
               key[f] = "COMPLETED" \/ \E q \in Runners : run[q][f] = "complete",
             \A q \in Runners : AnswerOf(q)'
      PROVE  AnswerInv'
  <2>1. \A q \in Runners, f \in Events : run'[q][f] = "complete" =>
          \A c \in Reachable(f)' : Answered(f, c)'
    BY <1>1, <1>2, <1>3 DEF AnswerInv
  <2>2. EveryChannelAnswers'
    BY <1>1, <1>2, <1>3 DEF AnswerInv, EveryChannelAnswers
  <2> QED BY <1>3, <2>1, <2>2 DEF AnswerInv
<1>4. CASE /\ \/ \E e \in Events : Queue(e)
              \/ \E r \in Runners, e \in Events : Take(r, e) \/ Protocol(r, e)
           /\ UNCHANGED noticeVars
  <2>1. \A q \in Runners : AnswerOf(q)'
    BY <1>0, <1>4, QuietRuns, ElsewhereAnswers DEF noticeVars, placeVars
  <2> QED BY <1>3, <1>4, <2>1, QuietKeys
<1>5. ASSUME NEW r \in Runners, NEW e \in Events, DispatchChannels(r, e) PROVE AnswerInv'
  <2>1. \A q \in Runners : q # r =>
          at'[q] = at[q] /\ chan'[q] = chan[q] /\ todo'[q] = todo[q] /\ phones'[q] = phones[q]
    BY <1>0, <1>5, DispatchLeavesOthers
  <2>2. CASE UNCHANGED vars
    <3>1. UNCHANGED <<run, key>> BY <2>2 DEF vars, keyVars
    <3>2. AnswerOf(r)' BY <1>0, <1>5, <3>1, DispatchAnswers
    <3>3. \A q \in Runners : q # r => AnswerOf(q)' BY <1>0, <2>1, <3>1, ElsewhereAnswers
    <3> QED BY <1>3, <3>1, <3>2, <3>3
  <2>3. CASE DispatchReturns(r, e)
    <3>1. /\ at[r] = "finished" /\ run[r][e] = "handle" /\ key' = key /\ Reset(r)
          /\ run' = [run EXCEPT ![r][e] = "complete"]
      BY <2>3 DEF DispatchReturns, HandlerReturns, Goto, keyVars
    <3>2. \A c \in Reachable(e) : Answered(e, c)'
      BY <1>0, <1>1, <1>2, <3>1 DEF AnswerOf, Channels
    <3>3. AnswerOf(r)'
      <4>1. at'[r] = "idle" /\ chan'[r] = "none" /\ todo'[r] = {} /\ phones'[r] = {}
        BY <1>0, <3>1 DEF Reset, NoticeTypeOK
      <4> QED BY <4>1 DEF AnswerOf
    <3>4. \A q \in Runners, f \in Events : q # r \/ f # e => run'[q][f] = run[q][f]
      BY <3>1 DEF TypeInv, TypeOK
    <3>5. \A q \in Runners : q # r => AnswerOf(q)' BY <1>0, <2>1, <3>4, ElsewhereAnswers
    <3> QED BY <1>3, <3>1, <3>2, <3>3, <3>4, <3>5
  <2> QED BY <1>5, <2>2, <2>3, DispatchLeavesQueue
<1>6. ASSUME NEW r \in Runners, CrashDispatching(r) PROVE AnswerInv'
  <2>1. /\ key' = key /\ Reset(r) /\ run' = [run EXCEPT ![r] = [f \in Events |-> "idle"]]
    BY <1>6 DEF CrashDispatching, Crash, keyVars
  <2>2. AnswerOf(r)'
    <3>1. at'[r] = "idle" /\ chan'[r] = "none" /\ todo'[r] = {} /\ phones'[r] = {}
      BY <1>0, <2>1 DEF Reset, NoticeTypeOK
    <3> QED BY <3>1 DEF AnswerOf
  <2>3. \A f \in Events : run'[r][f] = "idle" BY <2>1 DEF TypeInv, TypeOK
  <2>4. ASSUME NEW q \in Runners, q # r PROVE AnswerOf(q)' /\ run'[q] = run[q]
    <3>1. run'[q] = run[q] BY <2>1, <2>4 DEF TypeInv, TypeOK
    <3>2. at'[q] = at[q] /\ chan'[q] = chan[q] /\ todo'[q] = todo[q] /\ phones'[q] = phones[q]
      BY <1>0, <2>1, <2>4 DEF Reset, NoticeTypeOK
    <3> QED BY <1>0, <3>1, <3>2, ElsewhereAnswers
  <2> QED BY <1>3, <2>1, <2>2, <2>3, <2>4
<1>7. CASE UNCHANGED <<run, key, placeVars>>
  BY <1>0, <1>3, <1>7, ElsewhereAnswers DEF placeVars
<1>8. CASE OverrideExpires \/ \E c \in Channels : SetPreference(c)
  BY <1>7, <1>8 DEF OverrideExpires, SetPreference, vars, keyVars
<1>9. CASE UNCHANGED allNoticeVars
  BY <1>7, <1>9 DEF allNoticeVars, noticeVars, vars, keyVars
<1> QED BY <1>4, <1>5, <1>6, <1>8, <1>9 DEF NoticeNext

LEMMA AnswerAlways == NoticeSpec => []AnswerInv
<1>1. NoticeInit => AnswerInv
  BY DEF NoticeInit, Init, AnswerInv, AnswerOf, EveryChannelAnswers
<1> QED BY <1>1, AnswerStep, PlaceAlways, MoodAlways, NoticesAreAJobProcessor, TypeAlways, PTL
    DEF NoticeSpec

\* An event counts as processed only when each of its channels has answered for
\* itself.
THEOREM ChannelsAnswerForThemselves == NoticeSpec => []EveryChannelAnswers
<1>1. AnswerInv => EveryChannelAnswers BY DEF AnswerInv
<1> QED BY <1>1, AnswerAlways, PTL

-----------------------------------------------------------------------------
(* No notification is written twice without a disturbance.                 *)

\* The addresses a dispatch has still to write a notification for.
Ahead(r, a) ==
  \/ \E c \in todo[r] : a \in AddressesOf(c)
  \/ at[r] \in {"gate", "preference", "devices"} /\ a \in AddressesOf(chan[r])
  \/ at[r] = "note" /\ a \in (IF chan[r] = "push" THEN phones[r] ELSE {chan[r]})
  \/ at[r] \in {"trail", "send"} /\ chan[r] = "push" /\ a \in phones[r] \ {Address(r)}

Fresh(e) ==
  /\ handled[e] = 0 /\ (\A r \in Runners : run[r][e] = "handle" => at[r] = "idle") =>
       \A a \in Addresses : notes[e][a] = 0
  /\ \A r \in Runners : run[r][e] = "handle" =>
       \A a \in Addresses : Ahead(r, a) => notes[e][a] = 0
  /\ \A a \in Addresses : notes[e][a] <= 1

FreshInv ==
  /\ \A r \in Runners : chan[r] \notin todo[r]
  /\ \A e \in Events \ disturbed : Fresh(e)

LEMMA AddressesApart ==
  ASSUME NEW c \in Channels, NEW d \in Channels, c # d
  PROVE  AddressesOf(c) \intersect AddressesOf(d) = {}
BY PhonesAssumption DEF AddressesOf

LEMMA TodoShrinks ==
  ASSUME PlaceInv, AnswerInv, FreshInv, [NoticeNext]_allNoticeVars, NEW q \in Runners
  PROVE  chan'[q] \notin todo'[q]
<1>0. NoticeTypeOK /\ Place(q) /\ AnswerOf(q) /\ chan[q] \notin todo[q]
  BY DEF PlaceInv, AnswerInv, FreshInv
<1>1. ASSUME NEW r \in Runners, NEW e \in Events, DispatchChannels(r, e)
      PROVE  chan'[q] \notin todo'[q]
  <2>1. CASE q # r BY <1>0, <1>1, <2>1, DispatchLeavesOthers
  <2>2. CASE q = r
    <3>1. ASSUME NEW S \in SUBSET Channels, Visit(q, e, S) PROVE chan'[q] \notin todo'[q]
      BY <1>0, <3>1 DEF Visit, NoticeTypeOK
    <3>2. todo[q] \subseteq Channels /\ Reachable(e) \subseteq Channels
      BY <1>0, ReachableType DEF NoticeTypeOK
    <3>3. ASSUME Leave(q, e) PROVE chan'[q] \notin todo'[q] BY <3>1, <3>2, <3>3 DEF Leave
    <3>4. ASSUME NEW s, Call(q, s) PROVE chan'[q] \notin todo'[q] BY <1>0, <3>4 DEF Call
    <3>5. ASSUME AfterSend(q, e) PROVE chan'[q] \notin todo'[q]
      BY <3>3, <3>4, <3>5 DEF AfterSend
    <3>6. CASE StartDispatch(q, e) BY <3>1, <3>2, <3>6 DEF StartDispatch
    <3>7. CASE ReadOverride(q, e) BY <3>4, <3>7 DEF ReadOverride
    <3>8. CASE ReadPreference(q, e) BY <3>3, <3>4, <3>8 DEF ReadPreference
    <3>9. CASE ListDevices(q, e) BY <3>3, <3>4, <3>9 DEF ListDevices
    <3>10. CASE CreateNote(q, e) BY <3>4, <3>10 DEF CreateNote
    <3>11. CASE CreateTrail(q, e) BY <3>3, <3>4, <3>11 DEF CreateTrail
    <3>12. CASE Send(q, e) BY <3>5, <3>12 DEF Send
    <3>13. CASE SendSwallowed(q, e) BY <3>5, <3>13 DEF SendSwallowed
    <3>14. CASE ChannelFails(q, e) BY <3>3, <3>14 DEF ChannelFails
    <3>15. CASE DispatchReturns(q, e)
      BY <1>0, <3>15 DEF DispatchReturns, Reset, NoticeTypeOK
    <3> QED BY <1>1, <2>2, <3>6, <3>7, <3>8, <3>9, <3>10, <3>11, <3>12, <3>13, <3>14, <3>15,
               NoticeCases
  <2> QED BY <2>1, <2>2
<1>2. CASE UNCHANGED placeVars BY <1>0, <1>2 DEF placeVars
<1>3. ASSUME NEW r \in Runners, CrashDispatching(r) PROVE chan'[q] \notin todo'[q]
  BY <1>0, <1>3 DEF CrashDispatching, Reset, NoticeTypeOK
<1> QED BY <1>1, <1>2, <1>3
        DEF NoticeNext, noticeVars, allNoticeVars, OverrideExpires, SetPreference

\* What lies ahead of a dispatch shrinks, and by the address it writes for.
LEMMA AheadShrinks ==
  ASSUME PlaceInv, PlaceInv', AnswerInv, FreshInv,
         NEW r \in Runners, NEW e \in Events, DispatchChannels(r, e), UNCHANGED run,
         TypeInv, at[r] # "idle", NEW a \in Addresses, Ahead(r, a)'
  PROVE  Ahead(r, a) /\ (at[r] = "note" => a # Address(r))
<1> DEFINE Behind == Ahead(r, a) /\ (at[r] = "note" => a # Address(r))
<1>0. /\ NoticeTypeOK /\ NoticeTypeOK' /\ Place(r) /\ Place(r)' /\ AnswerOf(r)
      /\ chan[r] \notin todo[r] /\ ~DispatchReturns(r, e)
  BY DEF PlaceInv, AnswerInv, FreshInv, DispatchReturns, HandlerReturns, Goto, TypeInv, TypeOK
<1>1. at[r] = "note" => chan[r] \in Channels /\ Address(r) \in AddressesOf(chan[r])
  BY <1>0, AddressType DEF Place, CallSteps
<1>2. ASSUME NEW c \in todo[r], a \in AddressesOf(c) PROVE Behind
  <2>1. Ahead(r, a) BY <1>2 DEF Ahead
  <2>2. c \in Channels /\ c # chan[r] BY <1>0 DEF NoticeTypeOK
  <2> QED BY <1>1, <1>2, <2>1, <2>2, AddressesApart
<1>3. ASSUME run[r][e] = "handle", Leave(r, e) PROVE Behind
  <2>1. todo[r] \subseteq Reachable(e) BY <1>0, <1>3 DEF Place
  <2>2. \/ at'[r] = "finished" /\ chan'[r] = "none" /\ todo'[r] = {}
        \/ /\ chan'[r] \in todo[r] /\ todo'[r] \subseteq todo[r]
           /\ at'[r] \in {"note", "gate"} /\ ~(at'[r] = "note" /\ chan'[r] = "push")
    <3>1. phones'[r] = {} BY <1>0, <1>3 DEF Leave, NoticeTypeOK
    <3>2. ~(at'[r] = "note" /\ chan'[r] = "push") BY <1>0, <3>1 DEF Place
    <3> QED BY <1>0, <1>3, <2>1, <3>2, VisitFacts DEF Leave, Entry
  <2>3. \E c \in todo[r] : a \in AddressesOf(c) BY <2>2 DEF Ahead, AddressesOf
  <2> QED BY <1>2, <2>3
<1>4. ASSUME NEW s, Call(r, s) PROVE at'[r] = s /\ chan'[r] = chan[r] /\ todo'[r] = todo[r]
  BY <1>0, <1>4 DEF Call, NoticeTypeOK
<1>5. CASE ReadOverride(r, e)
  <2>1. /\ at[r] = "gate" /\ phones' = phones
        /\ at'[r] \in {"preference", "devices", "note"} /\ chan'[r] = chan[r] /\ todo'[r] = todo[r]
        /\ ~(at'[r] = "note" /\ chan[r] = "push")
    BY <1>4, <1>5 DEF ReadOverride, Calling, Granted
  <2> QED BY <2>1 DEF Ahead, AddressesOf
<1>6. CASE ReadPreference(r, e)
  <2>1. /\ run[r][e] = "handle" /\ at[r] = "preference"
        /\ Leave(r, e) \/ (Call(r, Granted(r)) /\ phones' = phones)
    BY <1>6 DEF ReadPreference, Calling
  <2>2. CASE Call(r, Granted(r)) /\ phones' = phones
    <3>1. /\ at'[r] \in {"devices", "note"} /\ chan'[r] = chan[r] /\ todo'[r] = todo[r]
          /\ ~(at'[r] = "note" /\ chan[r] = "push")
      BY <1>4, <2>2 DEF Granted
    <3> QED BY <2>1, <3>1 DEF Ahead, AddressesOf
  <2> QED BY <1>3, <2>1, <2>2
<1>7. CASE ListDevices(r, e)
  <2>1. /\ run[r][e] = "handle" /\ at[r] = "devices" /\ chan[r] = "push"
        /\ Leave(r, e) \/ (Call(r, "note") /\ phones' = [phones EXCEPT ![r] = Phones])
    BY <1>0, <1>7 DEF ListDevices, Calling, Place
  <2>2. CASE Call(r, "note") /\ phones' = [phones EXCEPT ![r] = Phones]
    <3>1. at'[r] = "note" /\ chan'[r] = "push" /\ todo'[r] = todo[r] /\ phones'[r] = Phones
      BY <1>0, <1>4, <2>1, <2>2 DEF NoticeTypeOK
    <3> QED BY <2>1, <3>1 DEF Ahead, AddressesOf
  <2> QED BY <1>3, <2>1, <2>2
<1>8. CASE CreateNote(r, e)
  <2>1. /\ at[r] = "note" /\ phones' = phones
        /\ at'[r] = "trail" /\ chan'[r] = chan[r] /\ todo'[r] = todo[r]
    BY <1>4, <1>8 DEF CreateNote, Calling
  <2>2. Address(r)' = Address(r) BY <2>1 DEF Address
  <2>3. (\E c \in todo[r] : a \in AddressesOf(c))
        \/ (chan[r] = "push" /\ a \in phones[r] \ {Address(r)})
    BY <2>1, <2>2 DEF Ahead
  <2> QED BY <1>2, <2>1, <2>3 DEF Ahead
<1>9. CASE CreateTrail(r, e)
  <2>1. /\ run[r][e] = "handle" /\ at[r] = "trail"
        /\ Leave(r, e) \/ (Call(r, "send") /\ phones' = phones)
    BY <1>9 DEF CreateTrail, Calling
  <2>2. CASE Call(r, "send") /\ phones' = phones
    <3>1. at'[r] = "send" /\ chan'[r] = chan[r] /\ todo'[r] = todo[r] BY <1>4, <2>2
    <3>2. Address(r)' = Address(r) BY <2>2, <3>1 DEF Address
    <3> QED BY <2>1, <2>2, <3>1, <3>2 DEF Ahead
  <2> QED BY <1>3, <2>1, <2>2
<1>10. ASSUME run[r][e] = "handle", at[r] = "send", AfterSend(r, e) PROVE Behind
  <2>1. Leave(r, e) \/ (/\ Call(r, "note") /\ phones[r] \ {Address(r)} # {}
                        /\ phones' = [phones EXCEPT ![r] = phones[r] \ {Address(r)}])
    BY <1>10 DEF AfterSend
  <2>2. CASE /\ Call(r, "note") /\ phones[r] \ {Address(r)} # {}
             /\ phones' = [phones EXCEPT ![r] = phones[r] \ {Address(r)}]
    <3>1. at'[r] = "note" /\ chan'[r] = chan[r] /\ todo'[r] = todo[r] BY <1>4, <2>2
    <3>2. phones'[r] = phones[r] \ {Address(r)} BY <1>0, <2>2 DEF NoticeTypeOK
    <3>3. chan[r] = "push" BY <1>0, <2>2 DEF AnswerOf
    <3> QED BY <1>10, <3>1, <3>2, <3>3 DEF Ahead
  <2> QED BY <1>3, <1>10, <2>1, <2>2
<1>11. CASE Send(r, e) BY <1>10, <1>11 DEF Send, Calling
<1>12. CASE SendSwallowed(r, e) BY <1>10, <1>12 DEF SendSwallowed, Calling
<1>13. CASE ChannelFails(r, e) BY <1>3, <1>13 DEF ChannelFails, Throws
<1>14. ~StartDispatch(r, e) BY DEF StartDispatch, Calling
<1> QED BY <1>0, <1>5, <1>6, <1>7, <1>8, <1>9, <1>11, <1>12, <1>13, <1>14, NoticeCases

\* A call writes at most one notification, to the address at hand.
LEMMA EffectWrites ==
  ASSUME NoticeTypeOK, NEW r \in Runners, NEW e \in Events, Place(r),
         Effect(r, e) \/ UNCHANGED recordVars
  PROVE  \A f \in Events, a \in Addresses :
           \/ notes'[f][a] = notes[f][a]
           \/ f = e /\ a = Address(r) /\ at[r] = "note" /\ notes'[f][a] = notes[f][a] + 1
<1>1. CASE Effect(r, e) /\ at[r] = "note"
  <2>1. notes' = [notes EXCEPT ![e][Address(r)] = @ + 1] BY <1>1 DEF Effect, Bump
  <2> QED BY <1>1, <2>1 DEF NoticeTypeOK
<1>2. CASE notes' = notes BY <1>2
<1> QED BY <1>1, <1>2 DEF Effect, Bump, recordVars

LEMMA FreshStep ==
  /\ TypeInv /\ CalmInv /\ PlaceInv /\ PlaceInv' /\ AnswerInv /\ FreshInv
  /\ [NoticeNext]_allNoticeVars
  => FreshInv'
<1> SUFFICES ASSUME TypeInv, CalmInv, PlaceInv, PlaceInv', AnswerInv, FreshInv,
                    [NoticeNext]_allNoticeVars
             PROVE  FreshInv'
  OBVIOUS
<1>0. /\ NoticeTypeOK /\ NoticeTypeOK'
      /\ \A q \in Runners : Place(q) /\ AnswerOf(q)
      /\ \A q \in Runners : chan'[q] \notin todo'[q]
  BY TodoShrinks DEF PlaceInv, AnswerInv
<1> SUFFICES ASSUME NEW f \in Events, f \notin disturbed' PROVE Fresh(f)'
  BY <1>0 DEF FreshInv
\* A step that does not write for f, and ends no dispatch of f, keeps it fresh.
<1>1. ASSUME f \notin disturbed, \A a \in Addresses : notes'[f][a] = notes[f][a],
             handled'[f] = handled[f],
             \A q \in Runners : run[q][f] = "handle" /\ at[q] # "idle" =>
               run'[q][f] = "handle" /\ at'[q] # "idle",
             \A q \in Runners, a \in Addresses : run'[q][f] = "handle" /\ Ahead(q, a)' =>
               run[q][f] = "handle" /\ Ahead(q, a)
      PROVE  Fresh(f)'
  BY <1>1 DEF FreshInv, Fresh
<1>2. \A q \in Runners, a \in Addresses : at[q] = "idle" => ~Ahead(q, a)
  BY <1>0 DEF AnswerOf, Ahead
\* A run whose place does not change has as much ahead as before.
<1>3. ASSUME NEW q \in Runners, at'[q] = at[q], chan'[q] = chan[q], todo'[q] = todo[q],
             phones'[q] = phones[q], NEW a \in Addresses, Ahead(q, a)'
      PROVE  Ahead(q, a)
  BY <1>3 DEF Ahead, Address
<1>4. CASE /\ \/ \E e \in Events : Queue(e)
              \/ \E r \in Runners, e \in Events : Take(r, e) \/ Protocol(r, e)
           /\ UNCHANGED noticeVars
  <2>1. UNCHANGED handled /\ disturbed \subseteq disturbed'
    <3>1. CASE \E e \in Events : Queue(e)
      BY <3>1 DEF Queue, Add, Stalled, SlowRunStalls, KeyExpires, Redeliver
    <3>2. CASE \E r \in Runners, e \in Events : Take(r, e) BY <3>2 DEF Take
    <3>3. CASE \E r \in Runners, e \in Events : Protocol(r, e)
      BY <3>3 DEF Protocol, FindKey, CreateKey, ReclaimKey, BeginFails, CompleteKey, Fault,
                  CompleteKeyFails, FailKey, FailKeyFails, ReportDone, ReportThrew
    <3> QED BY <1>4, <3>1, <3>2, <3>3
  <2>2. UNCHANGED <<notes, placeVars>> BY <1>4 DEF noticeVars, recordVars
  <2>3. \A q \in Runners, a \in Addresses : Ahead(q, a)' => Ahead(q, a) /\ at[q] # "idle"
    BY <1>2, <1>3, <2>2 DEF placeVars
  <2>4. \A q \in Runners : /\ run[q][f] = "handle" => run'[q][f] = "handle"
                           /\ run'[q][f] = "handle" /\ at[q] # "idle" => run[q][f] = "handle"
    BY <1>4, QuietRuns
  <2> QED BY <1>1, <2>1, <2>2, <2>3, <2>4 DEF placeVars
<1>5. ASSUME NEW r \in Runners, NEW e \in Events, DispatchChannels(r, e), UNCHANGED vars
      PROVE  Fresh(f)'
  <2>1. UNCHANGED <<run, handled, disturbed>> BY <1>5 DEF vars
  <2>2. Fresh(f) BY <2>1 DEF FreshInv
  <2>3. /\ run[r][e] = "handle" /\ ~DispatchReturns(r, e)
        /\ Effect(r, e) \/ UNCHANGED recordVars
    <3> USE DEF Calling, Failure, Throws
    <3>1. ~DispatchReturns(r, e)
      BY <2>1 DEF DispatchReturns, HandlerReturns, Goto, TypeInv, TypeOK
    <3>2. CASE StartDispatch(r, e) BY <3>1, <3>2 DEF StartDispatch
    <3>3. CASE ReadOverride(r, e) BY <3>1, <3>3 DEF ReadOverride
    <3>4. CASE ReadPreference(r, e) BY <3>1, <3>4 DEF ReadPreference
    <3>5. CASE ListDevices(r, e) BY <3>1, <3>5 DEF ListDevices
    <3>6. CASE CreateNote(r, e) BY <3>1, <3>6 DEF CreateNote
    <3>7. CASE CreateTrail(r, e) BY <3>1, <3>7 DEF CreateTrail
    <3>8. CASE Send(r, e) BY <3>1, <3>8 DEF Send
    <3>9. CASE SendSwallowed(r, e) BY <3>1, <3>9 DEF SendSwallowed
    <3>10. CASE ChannelFails(r, e) BY <3>1, <3>10 DEF ChannelFails
    <3> QED BY <1>5, <3>1, <3>2, <3>3, <3>4, <3>5, <3>6, <3>7, <3>8, <3>9, <3>10, NoticeCases
  <2>4. \A q \in Runners : q # r =>
          at'[q] = at[q] /\ chan'[q] = chan[q] /\ todo'[q] = todo[q] /\ phones'[q] = phones[q]
    BY <1>0, <1>5, DispatchLeavesOthers
  <2>5. \A a \in Addresses :
          \/ notes'[f][a] = notes[f][a]
          \/ f = e /\ a = Address(r) /\ at[r] = "note" /\ notes'[f][a] = notes[f][a] + 1
    BY <1>0, <2>3, EffectWrites
  <2>6. CASE f # e
    <3>1. run[r][f] # "handle" BY <1>0, <2>3, <2>6 DEF Place
    <3>2. \A q \in Runners, a \in Addresses : run[q][f] = "handle" /\ Ahead(q, a)' => Ahead(q, a)
      BY <1>3, <2>4, <3>1
    <3> QED BY <1>1, <2>1, <2>4, <2>5, <2>6, <3>1, <3>2
  <2>7. CASE f = e
    <3>1. handled[e] = 0 /\ \A q \in Runners : run[q][e] = "handle" => q = r
      BY <2>1, <2>3, <2>7 DEF CalmInv, OneRun, RunFacts
    <3>2. at'[r] # "idle"
      <4>1. CASE StartDispatch(r, e)
        <5>1. \A S \in SUBSET Channels : Visit(r, e, S) => at'[r] # "idle"
          BY <1>0 DEF Visit, Entry, NoticeTypeOK
        <5> QED BY <1>0, <4>1, <5>1, ReachableType DEF StartDispatch
      <4>2. CASE at[r] # "idle"
        <5>1. ASSUME Visit(r, e, todo[r]) PROVE at'[r] # "idle"
          BY <1>0, <5>1 DEF Visit, Entry, NoticeTypeOK
        <5>2. ASSUME NEW s \in CallSteps, Call(r, s) PROVE at'[r] # "idle"
          BY <1>0, <5>2 DEF Call, CallSteps, NoticeTypeOK
        <5>3. Granted(r) \in CallSteps /\ {"preference", "note", "trail", "send"} \subseteq CallSteps
          BY DEF Granted, CallSteps
        <5> USE DEF Leave, AfterSend
        <5>4. CASE ReadOverride(r, e) BY <5>2, <5>3, <5>4 DEF ReadOverride
        <5>5. CASE ReadPreference(r, e) BY <5>1, <5>2, <5>3, <5>5 DEF ReadPreference
        <5>6. CASE ListDevices(r, e) BY <5>1, <5>2, <5>3, <5>6 DEF ListDevices
        <5>7. CASE CreateNote(r, e) BY <5>2, <5>3, <5>7 DEF CreateNote
        <5>8. CASE CreateTrail(r, e) BY <5>1, <5>2, <5>3, <5>8 DEF CreateTrail
        <5>9. CASE Send(r, e) BY <5>1, <5>2, <5>3, <5>9 DEF Send
        <5>10. CASE SendSwallowed(r, e) BY <5>1, <5>2, <5>3, <5>10 DEF SendSwallowed
        <5>11. CASE ChannelFails(r, e) BY <5>1, <5>11 DEF ChannelFails
        <5> QED BY <1>5, <2>3, <4>1, <5>4, <5>5, <5>6, <5>7, <5>8, <5>9, <5>10, <5>11, NoticeCases
      <4>3. at[r] = "idle" => StartDispatch(r, e)
        BY <1>5, <2>3, NoticeCases
           DEF ReadOverride, ReadPreference, ListDevices, CreateNote, CreateTrail, Send,
               SendSwallowed, ChannelFails, Throws, Calling, CallSteps
      <4> QED BY <4>1, <4>2, <4>3
    <3>3. CASE at[r] = "idle"
      <4>1. \A a \in Addresses : notes[e][a] = 0
        BY <2>2, <2>7, <3>1, <3>3 DEF Fresh
      <4>2. \A a \in Addresses : notes'[e][a] = 0 BY <2>5, <2>7, <3>3, <4>1
      <4> QED BY <2>7, <4>2 DEF Fresh
    <3>4. CASE at[r] # "idle"
      <4>1. \A a \in Addresses : Ahead(r, a)' => Ahead(r, a) /\ (at[r] = "note" => a # Address(r))
        BY <1>5, <2>1, <3>4, AheadShrinks
      <4>2. \A a \in Addresses : Ahead(r, a)' => notes'[e][a] = 0
        BY <2>2, <2>3, <2>5, <2>7, <4>1 DEF Fresh
      <4>3. at[r] = "note" => Ahead(r, Address(r)) /\ Address(r) \in Addresses
        BY <1>0, AddressType DEF Ahead, Address
      <4>4. \A a \in Addresses : notes'[e][a] <= 1
        <5>1. at[r] = "note" => notes[e][Address(r)] = 0 BY <2>2, <2>3, <2>7, <4>3 DEF Fresh
        <5> QED BY <2>2, <2>5, <2>7, <5>1 DEF Fresh
      <4> QED BY <2>1, <2>3, <2>7, <3>1, <3>2, <4>2, <4>4 DEF Fresh
    <3> QED BY <3>3, <3>4
  <2> QED BY <2>6, <2>7
<1>6. ASSUME NEW r \in Runners, NEW e \in Events, DispatchReturns(r, e) PROVE Fresh(f)'
  <2>1. /\ UNCHANGED <<notes, disturbed>> /\ Reset(r) /\ run[r][e] = "handle"
        /\ handled' = [handled EXCEPT ![e] = @ + 1] /\ run' = [run EXCEPT ![r][e] = "complete"]
    BY <1>6 DEF DispatchReturns, HandlerReturns, Goto, recordVars
  <2>2. \A q \in Runners : q # r =>
          at'[q] = at[q] /\ chan'[q] = chan[q] /\ todo'[q] = todo[q] /\ phones'[q] = phones[q]
    BY <1>0, <2>1 DEF Reset, NoticeTypeOK
  <2>3. Fresh(f) BY <2>1 DEF FreshInv
  <2>4. \A q \in Runners, g \in Events : q # r \/ g # e => run'[q][g] = run[q][g]
    BY <2>1 DEF TypeInv, TypeOK
  <2>5. run'[r][f] # "handle" BY <1>0, <2>1, <2>4 DEF Place, TypeInv, TypeOK
  <2>6. \A q \in Runners, a \in Addresses : run'[q][f] = "handle" /\ Ahead(q, a)' =>
          run[q][f] = "handle" /\ Ahead(q, a)
    BY <1>3, <2>2, <2>4, <2>5
  <2>7. CASE f = e
    <3>1. handled'[e] # 0
      <4>1. handled[e] \in Nat BY DEF TypeInv, TypeOK
      <4>2. handled'[e] = handled[e] + 1 BY <2>1 DEF TypeInv, TypeOK
      <4> QED BY <4>1, <4>2
    <3> QED BY <2>1, <2>3, <2>6, <2>7, <3>1 DEF Fresh
  <2>8. CASE f # e
    <3>1. handled'[f] = handled[f] BY <2>1, <2>8 DEF TypeInv, TypeOK
    <3>2. run[r][f] # "handle" BY <1>0, <2>1, <2>8 DEF Place
    <3> QED BY <1>1, <2>1, <2>2, <2>4, <2>6, <3>1, <3>2
  <2> QED BY <2>7, <2>8
<1>7. ASSUME NEW r \in Runners, CrashDispatching(r) PROVE Fresh(f)'
  <2>1. /\ handled' = handled /\ Reset(r)
        /\ run' = [run EXCEPT ![r] = [e \in Events |-> "idle"]]
        /\ disturbed' = disturbed \union {e \in Events : run[r][e] # "idle"}
        /\ UNCHANGED recordVars \/ \E e \in Events : run[r][e] = "handle" /\ Effect(r, e)
    BY <1>7 DEF CrashDispatching, Crash
  <2>2. f \notin disturbed /\ run[r][f] = "idle" BY <2>1
  <2>3. \A a \in Addresses : notes'[f][a] = notes[f][a]
    <3>1. CASE UNCHANGED recordVars BY <3>1 DEF recordVars
    <3>2. ASSUME NEW e \in Events, run[r][e] = "handle", Effect(r, e)
          PROVE  \A a \in Addresses : notes'[f][a] = notes[f][a]
      BY <1>0, <2>2, <3>2, EffectWrites
    <3> QED BY <2>1, <3>1, <3>2
  <2>4. \A q \in Runners : q # r =>
          /\ at'[q] = at[q] /\ chan'[q] = chan[q] /\ todo'[q] = todo[q] /\ phones'[q] = phones[q]
          /\ run'[q] = run[q]
    BY <1>0, <2>1 DEF Reset, NoticeTypeOK, TypeInv, TypeOK
  <2>5. run'[r][f] = "idle" BY <2>1 DEF TypeInv, TypeOK
  <2> QED BY <1>1, <1>3, <2>1, <2>2, <2>3, <2>4, <2>5
<1>8. CASE UNCHANGED <<run, handled, disturbed, notes, placeVars>>
  BY <1>1, <1>3, <1>8 DEF placeVars
<1>9. CASE OverrideExpires \/ \E c \in Channels : SetPreference(c)
  BY <1>8, <1>9 DEF OverrideExpires, SetPreference, vars, recordVars
<1>10. CASE UNCHANGED allNoticeVars
  BY <1>8, <1>10 DEF allNoticeVars, noticeVars, vars, recordVars
<1>11. ASSUME NEW r \in Runners, NEW e \in Events, DispatchChannels(r, e) PROVE Fresh(f)'
  BY <1>5, <1>6, <1>11, DispatchLeavesQueue
<1> QED BY <1>4, <1>7, <1>9, <1>10, <1>11 DEF NoticeNext

\* A channel that fails never makes the others write again: without a crash, a
\* stall or a failed key call an event has one notification per address.
THEOREM OneNoticeEach == NoticeSpec => []OneNoticeUndisturbed
<1>1. NoticeInit => FreshInv
  BY DEF NoticeInit, Init, FreshInv, Fresh, Channels
<1>2. NoticeTypeOK /\ FreshInv => OneNoticeUndisturbed
  <2> SUFFICES ASSUME NoticeTypeOK, FreshInv, NEW e \in Events, NEW a \in Addresses,
                      e \notin disturbed
               PROVE  ~(notes[e][a] > 1)
    BY DEF OneNoticeUndisturbed
  <2>1. notes[e][a] \in Nat /\ notes[e][a] <= 1 BY DEF NoticeTypeOK, FreshInv, Fresh
  <2> QED BY <2>1
<1>3. PlaceInv => NoticeTypeOK BY DEF PlaceInv
<1> QED BY <1>1, <1>2, <1>3, FreshStep, PlaceAlways, AnswerAlways, NoticesAreAJobProcessor,
           TypeAlways, CalmAlways, PTL
    DEF NoticeSpec

-----------------------------------------------------------------------------
(* No message without its rows: every run between two writes is counted.    *)

\* The runs of an event that are about to write row or message s for a.
Waiting(s, e, a) == {r \in Runners : run[r][e] = "handle" /\ at[r] = s /\ Address(r) = a}

\* A row of records is owed to each delivery row written or about to be, a
\* delivery row to each message sent or about to be.
RecordInv ==
  \A e \in Events, a \in Addresses :
    /\ IsFiniteSet(Waiting("trail", e, a)) /\ IsFiniteSet(Waiting("send", e, a))
    /\ trails[e][a] + Cardinality(Waiting("trail", e, a)) <= notes[e][a]
    /\ sends[e][a] + Cardinality(Waiting("send", e, a)) <= trails[e][a]

\* Two sets that differ in one element at most.
LEMMA CountChanges ==
  ASSUME NEW S, NEW T, NEW x, IsFiniteSet(S), \A y : y # x => (y \in S <=> y \in T)
  PROVE  /\ IsFiniteSet(T) /\ Cardinality(S) \in Nat /\ Cardinality(T) \in Nat
         /\ Cardinality(T) <= Cardinality(S) + 1
         /\ x \notin T => Cardinality(T) <= Cardinality(S)
         /\ x \in S /\ x \notin T => Cardinality(T) + 1 = Cardinality(S)
<1>0. Cardinality(S) \in Nat BY FS_CardinalityType
<1>1. CASE x \in S /\ x \notin T
  <2>1. T = S \ {x} BY <1>1
  <2>2. IsFiniteSet(T) /\ Cardinality(T) = Cardinality(S) - 1 BY <1>1, <2>1, FS_RemoveElement
  <2>3. Cardinality(T) \in Nat BY <2>2, FS_CardinalityType
  <2> QED BY <1>0, <1>1, <2>2, <2>3
<1>2. CASE x \notin S /\ x \in T
  <2>1. T = S \union {x} BY <1>2
  <2>2. IsFiniteSet(T) /\ Cardinality(T) = Cardinality(S) + 1 BY <1>2, <2>1, FS_AddElement
  <2> QED BY <1>0, <1>2, <2>2
<1>3. CASE x \in S <=> x \in T
  <2>1. T = S BY <1>3
  <2> QED BY <1>0, <1>3, <2>1
<1> QED BY <1>1, <1>2, <1>3

\* What a call of a run does to a row of each kind.
LEMMA EffectRows ==
  ASSUME NoticeTypeOK, NEW r \in Runners, NEW e \in Events, Place(r),
         Effect(r, e), NEW f \in Events, NEW a \in Addresses
  PROVE  LET here(s) == f = e /\ a = Address(r) /\ at[r] = s
         IN /\ notes'[f][a]  = IF here("note")  THEN notes[f][a] + 1  ELSE notes[f][a]
            /\ trails'[f][a] = IF here("trail") THEN trails[f][a] + 1 ELSE trails[f][a]
            /\ sends'[f][a]  = IF here("send")  THEN sends[f][a] + 1  ELSE sends[f][a]
<1>1. ASSUME NEW rows \in [Events -> [Addresses -> Nat]], NEW s \in {"note", "trail", "send"}
      PROVE  Bump(rows, r, e, s)[f][a] =
               IF f = e /\ a = Address(r) /\ at[r] = s THEN rows[f][a] + 1 ELSE rows[f][a]
  <2>1. CASE at[r] = s
    <3>1. Address(r) \in Addresses BY <2>1, AddressType
    <3>2. Bump(rows, r, e, s) = [rows EXCEPT ![e][Address(r)] = @ + 1] BY <2>1 DEF Bump
    <3> QED BY <2>1, <3>1, <3>2
  <2>2. CASE at[r] # s BY <2>2 DEF Bump
  <2> QED BY <2>1, <2>2
<1> QED BY <1>1 DEF Effect, NoticeTypeOK

\* The call of one run keeps the account.
LEMMA CallKeepsRecords ==
  ASSUME NoticeTypeOK, NoticeTypeOK', RecordInv, NEW r \in Runners, NEW e \in Events, Place(r),
         \/ UNCHANGED recordVars
         \/ run[r][e] = "handle" /\ Effect(r, e),
         \A f \in Events, a \in Addresses, s \in {"trail", "send"} :
           \A q : q # r => (q \in Waiting(s, f, a) <=> q \in Waiting(s, f, a)'),
         \A f \in Events, a \in Addresses, s \in {"trail", "send"} :
           r \in Waiting(s, f, a)' =>
             /\ run[r][e] = "handle" /\ Effect(r, e) /\ f = e /\ a = Address(r)
             /\ at[r] = (IF s = "trail" THEN "note" ELSE "trail")
  PROVE  RecordInv'
<1> SUFFICES ASSUME NEW f \in Events, NEW a \in Addresses
             PROVE  /\ IsFiniteSet(Waiting("trail", f, a))' /\ IsFiniteSet(Waiting("send", f, a))'
                    /\ (trails[f][a] + Cardinality(Waiting("trail", f, a)) <= notes[f][a])'
                    /\ (sends[f][a] + Cardinality(Waiting("send", f, a)) <= trails[f][a])'
  BY DEF RecordInv
<1> DEFINE wt == Waiting("trail", f, a)
           ws == Waiting("send", f, a)
           wtn == Waiting("trail", f, a)'
           wsn == Waiting("send", f, a)'
<1>1. /\ IsFiniteSet(wt) /\ IsFiniteSet(ws)
      /\ trails[f][a] + Cardinality(wt) <= notes[f][a]
      /\ sends[f][a] + Cardinality(ws) <= trails[f][a]
  BY DEF RecordInv
<1>2. /\ notes[f][a] \in Nat /\ trails[f][a] \in Nat /\ sends[f][a] \in Nat
      /\ notes'[f][a] \in Nat /\ trails'[f][a] \in Nat /\ sends'[f][a] \in Nat
  BY DEF NoticeTypeOK
<1>3. /\ \A q : q # r => (q \in wt <=> q \in wtn)
      /\ \A q : q # r => (q \in ws <=> q \in wsn)
  OBVIOUS
<1>4. /\ IsFiniteSet(wtn) /\ Cardinality(wt) \in Nat /\ Cardinality(wtn) \in Nat
      /\ Cardinality(wtn) <= Cardinality(wt) + 1
      /\ r \notin wtn => Cardinality(wtn) <= Cardinality(wt)
      /\ r \in wt /\ r \notin wtn => Cardinality(wtn) + 1 = Cardinality(wt)
  <2> HIDE DEF wt, wtn
  <2> QED BY <1>1, <1>3, CountChanges
<1>5. /\ IsFiniteSet(wsn) /\ Cardinality(ws) \in Nat /\ Cardinality(wsn) \in Nat
      /\ Cardinality(wsn) <= Cardinality(ws) + 1
      /\ r \notin wsn => Cardinality(wsn) <= Cardinality(ws)
      /\ r \in ws /\ r \notin wsn => Cardinality(wsn) + 1 = Cardinality(ws)
  <2> HIDE DEF ws, wsn
  <2> QED BY <1>1, <1>3, CountChanges
<1>6. /\ r \in wtn => run[r][e] = "handle" /\ Effect(r, e) /\ f = e /\ a = Address(r) /\ at[r] = "note"
      /\ r \in wsn => run[r][e] = "handle" /\ Effect(r, e) /\ f = e /\ a = Address(r) /\ at[r] = "trail"
  OBVIOUS
<1>7. run[r][e] = "handle" /\ f = e /\ a = Address(r) =>
        (at[r] = "trail" => r \in wt) /\ (at[r] = "send" => r \in ws)
  BY DEF Waiting
<1> HIDE DEF wt, ws, wtn, wsn
<1>8. CASE run[r][e] = "handle" /\ Effect(r, e)
  <2>1. LET here(s) == f = e /\ a = Address(r) /\ at[r] = s
        IN /\ notes'[f][a]  = IF here("note")  THEN notes[f][a] + 1  ELSE notes[f][a]
           /\ trails'[f][a] = IF here("trail") THEN trails[f][a] + 1 ELSE trails[f][a]
           /\ sends'[f][a]  = IF here("send")  THEN sends[f][a] + 1  ELSE sends[f][a]
    BY <1>8, EffectRows
  <2>2. /\ trails'[f][a] + Cardinality(wtn) <= notes'[f][a]
        /\ sends'[f][a] + Cardinality(wsn) <= trails'[f][a]
    <3>1. CASE f = e /\ a = Address(r) /\ at[r] = "note"
      BY <1>1, <1>2, <1>4, <1>5, <1>6, <2>1, <3>1
    <3>2. CASE f = e /\ a = Address(r) /\ at[r] = "trail"
      BY <1>1, <1>2, <1>4, <1>5, <1>6, <1>7, <1>8, <2>1, <3>2
    <3>3. CASE f = e /\ a = Address(r) /\ at[r] = "send"
      BY <1>1, <1>2, <1>4, <1>5, <1>6, <1>7, <1>8, <2>1, <3>3
    <3>4. CASE ~(f = e /\ a = Address(r) /\ at[r] \in {"note", "trail", "send"})
      BY <1>1, <1>2, <1>4, <1>5, <1>6, <2>1, <3>4
    <3> QED BY <3>1, <3>2, <3>3, <3>4
  <2> QED BY <1>4, <1>5, <2>2 DEF wtn, wsn
<1>9. CASE UNCHANGED recordVars /\ r \notin wtn /\ r \notin wsn
  <2>1. /\ trails'[f][a] + Cardinality(wtn) <= notes'[f][a]
        /\ sends'[f][a] + Cardinality(wsn) <= trails'[f][a]
    BY <1>1, <1>2, <1>4, <1>5, <1>9 DEF recordVars
  <2> QED BY <1>4, <1>5, <2>1 DEF wtn, wsn
<1> QED BY <1>6, <1>8, <1>9

\* Only the writes of the rows lead a run to the next write.
LEMMA WaitsAfterWrite ==
  ASSUME PlaceInv, NEW r \in Runners, NEW e \in Events, DispatchChannels(r, e), UNCHANGED run
  PROVE  /\ run[r][e] = "handle"
         /\ Effect(r, e) \/ UNCHANGED recordVars
         /\ at'[r] = "trail" => at[r] = "note" /\ Effect(r, e) /\ Address(r)' = Address(r)
         /\ at'[r] = "send"  => at[r] = "trail" /\ Effect(r, e) /\ Address(r)' = Address(r)
<1>0. NoticeTypeOK BY DEF PlaceInv
<1>1. ASSUME NEW S \in SUBSET Channels, Visit(r, e, S) PROVE at'[r] \notin {"trail", "send"}
  BY <1>0, <1>1 DEF Visit, Entry, NoticeTypeOK
<1>2. Reachable(e) \subseteq Channels /\ todo[r] \subseteq Channels
  BY <1>0, ReachableType DEF NoticeTypeOK
<1>3. ASSUME Leave(r, e) PROVE at'[r] \notin {"trail", "send"} BY <1>1, <1>2, <1>3 DEF Leave
<1>4. ASSUME NEW s, Call(r, s) PROVE at'[r] = s /\ chan' = chan
  BY <1>0, <1>4 DEF Call, NoticeTypeOK
<1>5. ASSUME AfterSend(r, e) PROVE at'[r] \notin {"trail", "send"}
  BY <1>3, <1>4, <1>5 DEF AfterSend
<1>6. Granted(r) \notin {"trail", "send"} BY DEF Granted
<1> USE DEF Calling
<1>7. CASE StartDispatch(r, e) BY <1>1, <1>2, <1>7 DEF StartDispatch
<1>8. CASE ReadOverride(r, e) BY <1>4, <1>6, <1>8 DEF ReadOverride
<1>9. CASE ReadPreference(r, e) BY <1>3, <1>4, <1>6, <1>9 DEF ReadPreference
<1>10. CASE ListDevices(r, e) BY <1>3, <1>4, <1>10 DEF ListDevices
<1>11. CASE CreateNote(r, e) BY <1>4, <1>11 DEF CreateNote, Address
<1>12. CASE CreateTrail(r, e)
  <2>1. /\ run[r][e] = "handle" /\ at[r] = "trail" /\ Effect(r, e)
        /\ Leave(r, e) \/ (Call(r, "send") /\ phones' = phones)
    BY <1>12 DEF CreateTrail
  <2>2. CASE Leave(r, e) BY <1>3, <2>1, <2>2
  <2>3. CASE Call(r, "send") /\ phones' = phones
    <3>1. at'[r] = "send" /\ chan' = chan BY <1>4, <2>3
    <3>2. Address(r)' = Address(r) BY <2>3, <3>1 DEF Address
    <3> QED BY <2>1, <3>1, <3>2
  <2> QED BY <2>1, <2>2, <2>3
<1>13. CASE Send(r, e) BY <1>5, <1>13 DEF Send
<1>14. CASE SendSwallowed(r, e) BY <1>5, <1>14 DEF SendSwallowed, Failure
<1>15. CASE ChannelFails(r, e) BY <1>3, <1>15 DEF ChannelFails, Throws, Failure
<1>16. CASE DispatchReturns(r, e)
  BY <1>0, <1>16 DEF DispatchReturns, HandlerReturns, Reset, NoticeTypeOK
<1> QED BY <1>7, <1>8, <1>9, <1>10, <1>11, <1>12, <1>13, <1>14, <1>15, <1>16, NoticeCases

LEMMA RecordStep ==
  TypeInv /\ PlaceInv /\ PlaceInv' /\ RecordInv /\ [NoticeNext]_allNoticeVars => RecordInv'
<1> SUFFICES ASSUME TypeInv, PlaceInv, PlaceInv', RecordInv, [NoticeNext]_allNoticeVars
             PROVE  RecordInv'
  OBVIOUS
<1>0. NoticeTypeOK /\ NoticeTypeOK' /\ \A q \in Runners : Place(q) BY DEF PlaceInv
\* Nobody's place changes, and runs begin or end only where none is waiting.
<1>1. ASSUME UNCHANGED <<placeVars, recordVars>>,
             \A q \in Runners, f \in Events : run[q][f] = "handle" => run'[q][f] = "handle",
             \A q \in Runners, f \in Events :
               run'[q][f] = "handle" /\ at[q] # "idle" => run[q][f] = "handle"
      PROVE  RecordInv'
  <2>1. \A s \in {"trail", "send"}, f \in Events, a \in Addresses :
          Waiting(s, f, a)' = Waiting(s, f, a)
    BY <1>1 DEF Waiting, Address, placeVars
  <2> QED BY <1>1, <2>1 DEF RecordInv, recordVars
<1>2. CASE /\ \/ \E e \in Events : Queue(e)
              \/ \E r \in Runners, e \in Events : Take(r, e) \/ Protocol(r, e)
           /\ UNCHANGED noticeVars
  BY <1>1, <1>2, QuietRuns DEF noticeVars
<1>3. CASE OverrideExpires \/ (\E c \in Channels : SetPreference(c)) \/ UNCHANGED allNoticeVars
  BY <1>1, <1>3 DEF OverrideExpires, SetPreference, allNoticeVars, noticeVars, vars
<1>4. ASSUME NEW r \in Runners, NEW e \in Events, DispatchChannels(r, e), UNCHANGED vars
      PROVE  RecordInv'
  <2>1. UNCHANGED run BY <1>4 DEF vars
  <2>2. /\ run[r][e] = "handle"
        /\ Effect(r, e) \/ UNCHANGED recordVars
        /\ at'[r] = "trail" => at[r] = "note" /\ Effect(r, e) /\ Address(r)' = Address(r)
        /\ at'[r] = "send"  => at[r] = "trail" /\ Effect(r, e) /\ Address(r)' = Address(r)
    BY <1>4, <2>1, WaitsAfterWrite
  <2>3. \A q \in Runners : q # r =>
          at'[q] = at[q] /\ chan'[q] = chan[q] /\ todo'[q] = todo[q] /\ phones'[q] = phones[q]
    BY <1>0, <1>4, DispatchLeavesOthers
  <2>4. \A f \in Events, a \in Addresses, s \in {"trail", "send"} :
          \A q : q # r => (q \in Waiting(s, f, a) <=> q \in Waiting(s, f, a)')
    BY <2>1, <2>3 DEF Waiting, Address
  <2>5. \A f \in Events : run[r][f] = "handle" => f = e BY <1>0, <2>2 DEF Place
  <2>6. \A f \in Events, a \in Addresses, s \in {"trail", "send"} :
          r \in Waiting(s, f, a)' =>
            /\ run[r][e] = "handle" /\ Effect(r, e) /\ f = e /\ a = Address(r)
            /\ at[r] = (IF s = "trail" THEN "note" ELSE "trail")
    BY <2>1, <2>2, <2>5 DEF Waiting
  <2> QED BY <1>0, <2>2, <2>4, <2>6, CallKeepsRecords
\* A run that ends is not waiting any more.
<1>5. ASSUME NEW r \in Runners, NEW e \in Events, Reset(r),
             \A q \in Runners : q # r =>
               \A f \in Events : run'[q][f] = "handle" <=> run[q][f] = "handle",
             \/ UNCHANGED recordVars
             \/ run[r][e] = "handle" /\ Effect(r, e)
      PROVE  RecordInv'
  <2>1. \A q \in Runners : q # r => at'[q] = at[q] /\ chan'[q] = chan[q] /\ phones'[q] = phones[q]
    BY <1>0, <1>5 DEF Reset, NoticeTypeOK
  <2>2. at'[r] = "idle" BY <1>0, <1>5 DEF Reset, NoticeTypeOK
  <2>3. \A f \in Events, a \in Addresses, s \in {"trail", "send"} :
          \A q : q # r => (q \in Waiting(s, f, a) <=> q \in Waiting(s, f, a)')
    BY <1>5, <2>1 DEF Waiting, Address
  <2>4. \A f \in Events, a \in Addresses, s \in {"trail", "send"} : r \notin Waiting(s, f, a)'
    BY <2>2 DEF Waiting
  <2> QED BY <1>0, <1>5, <2>3, <2>4, CallKeepsRecords
<1>6. ASSUME NEW r \in Runners, NEW e \in Events, DispatchReturns(r, e) PROVE RecordInv'
  <2>1. \A q \in Runners : q # r =>
          \A f \in Events : run'[q][f] = "handle" <=> run[q][f] = "handle"
    BY <1>6 DEF DispatchReturns, HandlerReturns, Goto, TypeInv, TypeOK
  <2> QED BY <1>5, <1>6, <2>1 DEF DispatchReturns
<1>7. ASSUME NEW r \in Runners, CrashDispatching(r) PROVE RecordInv'
  <2>1. \A q \in Runners : q # r =>
          \A f \in Events : run'[q][f] = "handle" <=> run[q][f] = "handle"
    BY <1>7 DEF CrashDispatching, Crash, TypeInv, TypeOK
  <2>2. PICK e \in Events : run[r][e] # "idle" BY <1>7 DEF CrashDispatching, Crash
  <2>3. \/ UNCHANGED recordVars
        \/ \E f \in Events : run[r][f] = "handle" /\ Effect(r, f)
    BY <1>7 DEF CrashDispatching
  <2> QED BY <1>5, <1>7, <2>1, <2>2, <2>3 DEF CrashDispatching
<1>8. ASSUME NEW r \in Runners, NEW e \in Events, DispatchChannels(r, e) PROVE RecordInv'
  BY <1>4, <1>6, <1>8, DispatchLeavesQueue
<1> QED BY <1>2, <1>3, <1>7, <1>8 DEF NoticeNext

\* However many runs of an event overlap and wherever they die, no message is
\* out without the rows that record it.
THEOREM EveryMessageHasItsRows == NoticeSpec => []EverySendIsOnRecord
<1>1. NoticeInit => RecordInv
  <2> SUFFICES ASSUME NoticeInit, NEW e \in Events, NEW a \in Addresses
               PROVE  /\ IsFiniteSet(Waiting("trail", e, a)) /\ IsFiniteSet(Waiting("send", e, a))
                      /\ trails[e][a] + Cardinality(Waiting("trail", e, a)) <= notes[e][a]
                      /\ sends[e][a] + Cardinality(Waiting("send", e, a)) <= trails[e][a]
    BY DEF RecordInv
  <2>1. Waiting("trail", e, a) = {} /\ Waiting("send", e, a) = {} BY DEF NoticeInit, Waiting
  <2>2. notes[e][a] = 0 /\ trails[e][a] = 0 /\ sends[e][a] = 0 BY DEF NoticeInit
  <2> QED BY <2>1, <2>2, FS_EmptySet
<1>2. PlaceInv /\ RecordInv => EverySendIsOnRecord
  <2> SUFFICES ASSUME PlaceInv, RecordInv, NEW e \in Events, NEW a \in Addresses
               PROVE  sends[e][a] <= trails[e][a] /\ trails[e][a] <= notes[e][a]
    BY DEF EverySendIsOnRecord
  <2>1. notes[e][a] \in Nat /\ trails[e][a] \in Nat /\ sends[e][a] \in Nat
    BY DEF PlaceInv, NoticeTypeOK
  <2>2. /\ IsFiniteSet(Waiting("trail", e, a)) /\ IsFiniteSet(Waiting("send", e, a))
        /\ trails[e][a] + Cardinality(Waiting("trail", e, a)) <= notes[e][a]
        /\ sends[e][a] + Cardinality(Waiting("send", e, a)) <= trails[e][a]
    BY DEF RecordInv
  <2>3. Cardinality(Waiting("trail", e, a)) \in Nat /\ Cardinality(Waiting("send", e, a)) \in Nat
    BY <2>2, FS_CardinalityType
  <2> HIDE DEF PlaceInv, RecordInv
  <2> QED BY <2>1, <2>2, <2>3
<1> QED BY <1>1, <1>2, RecordStep, PlaceAlways, NoticesAreAJobProcessor, TypeAlways, PTL
    DEF NoticeSpec
=============================================================================
