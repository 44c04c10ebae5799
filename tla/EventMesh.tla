------------------------------ MODULE EventMesh ------------------------------
(***************************************************************************)
(* The fan-out of the DOMAIN_EVENTS queue: the handler of JobProcessor     *)
(* opened up into what DomainEventDispatchService does with an event.  It  *)
(* looks the event type up in the routing table and adds one job to every  *)
(* queue of the route, concurrently; each add may fail on its own, and if  *)
(* any did the dispatch throws and is retried as a whole.                  *)
(*                                                                         *)
(* The consumers behind those queues are instances of JobProcessor too;    *)
(* here a queue only counts the jobs it was given.  The realtime publish   *)
(* after the fan-out swallows its errors and changes nothing seen here.    *)
(***************************************************************************)
EXTENDS JobProcessor, EventRouting

CONSTANT MaxRefusals  \* bound: adds to a target queue that throw

ASSUME RefusalsAssumption == MaxRefusals \in Nat

VARIABLES
  registered, \* the subscriptions the worker process was built with
  table,      \* ROUTING_TABLE: compiled once, at bootstrap
  eventType,  \* the type of an event
  settled,    \* <<run, event, queue>>: the add has returned or thrown
  refused,    \* <<run, event, queue>>: the add has thrown
  queued,     \* BullMQ: <<queue, event>> ids of jobs still retained
  given,      \* history: <<queue, event>> with a job at some time
  regiven,    \* history: <<queue, event>> with a second job
  trimmed,    \* history: <<queue, event>> ids that BullMQ has forgotten
  refusals,   \* counter behind MaxRefusals
  uneven      \* history: events for which some add has thrown

routeVars == <<registered, table, eventType>>
fanVars   == <<settled, refused>>
sinkVars  == <<queued, given, regiven, trimmed>>
upsetVars == <<refusals, uneven>>
meshVars  == <<routeVars, fanVars, sinkVars, upsetVars>>
allVars   == <<vars, meshVars>>

\* A worker that started: some modules, registered in some order, with every
\* event type of the catalog covered.
Booted ==
  /\ registered \in SUBSET Subscriptions
  /\ CoverageComplete(registered)
  /\ table \in {Compile(o) : o \in RegistrationOrders(registered)}

MeshInit ==
  /\ Init
  /\ Booted
  /\ eventType \in [Events -> EventTypes]
  /\ settled  = {} /\ refused = {}
  /\ queued   = {} /\ given   = {} /\ regiven = {} /\ trimmed = {}
  /\ refusals = 0  /\ uneven  = {}

-----------------------------------------------------------------------------

\* The queues of the event's route, those still awaited by a run's
\* allSettled, and those it already knows to have thrown.
Targets(e) == Route(table, eventType[e]).queues

Pending(r, e) == {q \in Targets(e) : <<r, e, q>> \notin settled}

Refused(r, e) == {q \in Targets(e) : <<r, e, q>> \in refused}

Create(jobIds) ==
  /\ queued'  = queued \union jobIds
  /\ given'   = given \union jobIds
  /\ regiven' = regiven \union (jobIds \intersect given)
  /\ UNCHANGED trimmed

\* Mutant: the add carries no job id, so BullMQ makes a job of every add.
GiveJobsUnnamed(S, e) == Create({<<q, e>> : q \in S})

\* The job id is `queue-eventId': an add for a retained job changes nothing.
GiveJobs(S, e) == Create({<<q, e>> : q \in S} \ queued)

AddTo(r, e, q) ==
  /\ run[r][e] = "handle"
  /\ q \in Pending(r, e)
  /\ settled' = settled \union {<<r, e, q>>}
  /\ GiveJobs({q}, e)
  /\ UNCHANGED <<vars, routeVars, refused, upsetVars>>

\* The add throws, its job having been created or not.
AddToFails(r, e, q) ==
  /\ run[r][e] = "handle"
  /\ q \in Pending(r, e)
  /\ refusals < MaxRefusals
  /\ refusals' = refusals + 1
  /\ uneven'   = uneven \union {e}
  /\ settled'  = settled \union {<<r, e, q>>}
  /\ refused'  = refused \union {<<r, e, q>>}
  /\ GiveJobs({q}, e) \/ UNCHANGED sinkVars
  /\ UNCHANGED <<vars, routeVars>>

\* allSettled's results live as long as the attempt.
Forget(r, S) ==
  /\ settled' = {t \in settled : t[1] # r \/ t[2] \notin S}
  /\ refused' = {t \in refused : t[1] # r \/ t[2] \notin S}

\* Mutant: allSettled is awaited and its rejections are never looked at.
FanOutReturnsAnyway(r, e) ==
  /\ Pending(r, e) = {}
  /\ HandlerReturns(r, e)
  /\ Forget(r, {e})
  /\ UNCHANGED <<routeVars, sinkVars, upsetVars>>

FanOutReturns(r, e) ==
  /\ Pending(r, e) = {} /\ Refused(r, e) = {}
  /\ HandlerReturns(r, e)
  /\ Forget(r, {e})
  /\ UNCHANGED <<routeVars, sinkVars, upsetVars>>

\* The AggregateError: the queues that did get the event keep it.
FanOutThrows(r, e) ==
  /\ Pending(r, e) = {} /\ Refused(r, e) # {}
  /\ HandlerThrows(r, e)
  /\ Forget(r, {e})
  /\ UNCHANGED <<routeVars, sinkVars, upsetVars>>

\* Commands on their way to Redis when the process dies may still land.
CrashInFlight(r) ==
  /\ Crash(r)
  /\ \/ \E e \in Events :
          run[r][e] = "handle" /\ \E landed \in SUBSET Pending(r, e) : GiveJobs(landed, e)
     \/ (\A e \in Events : run[r][e] # "handle") /\ UNCHANGED sinkVars
  /\ Forget(r, Events)
  /\ UNCHANGED <<routeVars, upsetVars>>

\* A consumer finished the job and later jobs pushed it out of retention.
Trim(q, e) ==
  /\ <<q, e>> \in queued
  /\ queued'  = queued \ {<<q, e>>}
  /\ trimmed' = trimmed \union {<<q, e>>}
  /\ UNCHANGED <<vars, routeVars, fanVars, given, regiven, upsetVars>>

-----------------------------------------------------------------------------

Dispatch(r, e) ==
  \/ \E q \in Targets(e) : AddTo(r, e, q) \/ AddToFails(r, e, q)
  \/ FanOutReturns(r, e)
  \/ FanOutThrows(r, e)

MeshNext ==
  \/ \E e \in Events : Queue(e) /\ UNCHANGED meshVars
  \/ \E r \in Runners, e \in Events : (Take(r, e) \/ Protocol(r, e)) /\ UNCHANGED meshVars
  \/ \E r \in Runners, e \in Events : Dispatch(r, e)
  \/ \E r \in Runners : CrashInFlight(r)
  \/ \E q \in Queues, e \in Events : Trim(q, e)

MeshSpec == MeshInit /\ [][MeshNext]_allVars

-----------------------------------------------------------------------------
(* Properties.                                                             *)

\* The table is the one the subscriptions declare, in whatever order the
\* modules registered: a pattern leads to the queues of all that claim it,
\* with the highest of their priorities.
TableIsAsDeclared == IsTableOf(table, registered)

\* No event is dropped in silence: the coverage check of the bootstrap matches
\* names in its own way, yet a dispatch that returned gave the event to a queue.
DispatchedReachesSomebody ==
  \A e \in Events : handled[e] > 0 => \E q \in Queues : <<q, e>> \in given

\* A key says COMPLETED only when every queue of the route has been given the
\* event, although adds fail one by one, runs overlap and processes die.
CompletedReachesTheRoute ==
  \A e \in Events : key[e] = "COMPLETED" => \A q \in Targets(e) : <<q, e>> \in given

\* A whole fan-out is repeated because one add failed, and still no queue gets
\* a second job of an event before BullMQ has forgotten the first.
OneJobWhileRetained == regiven \subseteq trimmed

\* Without a crash, a failed call or a stall every queue gets one job of an
\* event, also when the event is dispatched again after the jobs were trimmed.
OneJobUndisturbed ==
  \A q \in Queues, e \in Events : <<q, e>> \in regiven => e \in disturbed \union uneven

\* What the registry and the audit handler say of a subscription: the events
\* its patterns match reach its queues.
EverySubscriberHears ==
  \A e \in Events :
    key[e] = "COMPLETED" =>
      \A s \in SubscribersFor(registered, eventType[e]) :
        \A q \in s.queues : <<q, e>> \in given
=============================================================================
