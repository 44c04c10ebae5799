------------------------------- MODULE Outbox -------------------------------
(***************************************************************************)
(* The transactional outbox of packages/server/events: producers insert    *)
(* rows in workspace_outbox.outbox_events, drain jobs claim batches of     *)
(* them, hand every claimed event to the DOMAIN_EVENTS queue and settle    *)
(* the row.  A row is worked on by several asynchronous steps (claim,      *)
(* enqueue, mark, reschedule, dead-letter), each of which may fail, may    *)
(* succeed although its reply is lost, or may never happen because the     *)
(* worker process died.                                                    *)
(*                                                                         *)
(* Time is abstracted to the two facts the code asks the clock for: a      *)
(* backoff has elapsed (`due'), and the timestamp a sweep compares with    *)
(* its threshold is old enough (`aged').  Both may become true at any      *)
(* moment, also under the feet of a worker that is slow but alive.         *)
(***************************************************************************)
EXTENDS Naturals, FiniteSets

CONSTANTS
  Events,         \* outbox row ids, which are also the BullMQ job ids
  Workers,        \* processes consuming the OUTBOX_PROCESSOR queue
  MaxAttempts,    \* the row's max_attempts (5 in the publisher)
  BatchSize,      \* BATCH_SIZE
  MaxIterations,  \* MAX_DRAIN_ITERATIONS
  MaxCrashes,     \* bound: worker processes killed
  MaxFaults       \* bound: Redis or Postgres calls that answer with an error

ASSUME EventsAssumption == IsFiniteSet(Events)
ASSUME MaxAttemptsAssumption == MaxAttempts \in Nat \ {0}
ASSUME BatchAssumption == BatchSize \in Nat \ {0} /\ MaxIterations \in Nat \ {0}
ASSUME BoundsAssumption == MaxCrashes \in Nat /\ MaxFaults \in Nat

VARIABLES
  status,     \* the row: its status column, or "absent" / "pruned"
  attempts,   \* the row: attempts
  due,        \* the row: next_retry_at is null or has passed
  aged,       \* the row: last_attempt_at (PROCESSING) or published_at
              \* (PROCESSED) is older than the sweep's threshold
  birth,      \* the row: created_at, as a rank
  phase,      \* a worker: waiting for a job, about to claim, or in a batch
  rounds,     \* a worker: completed iterations of the drain loop
  task,       \* a worker: the step each claimed event has reached
  seen,       \* a worker: the attempts value in its claimed copy of the row
  jobs,       \* Redis: ids of the jobs DOMAIN_EVENTS still holds
  handed,     \* history: times the event was added to DOMAIN_EVENTS
  buried,     \* history: times the event was added to DEAD_LETTER
  crashes, faults,  \* counters behind MaxCrashes and MaxFaults
  contested,  \* history: events reclaimed while a live worker held them
  faulted     \* history: events touched by a crash or a failed call

rowVars    == <<status, attempts, due, aged, birth>>
workerVars == <<phase, rounds, task, seen>>
queueVars  == <<jobs, handed, buried>>
faultVars  == <<crashes, faults, contested, faulted>>
vars       == <<rowVars, workerVars, queueVars, faultVars>>

Statuses == {"absent", "PENDING", "PROCESSING", "FAILED", "PROCESSED",
             "DEAD_LETTERED", "pruned"}
Phases   == {"idle", "claim", "batch"}
Steps    == {"none", "enqueue", "mark", "reschedule", "deadLetter", "bury", "done"}

NoTask == [e \in Events |-> "none"]
NoSeen == [e \in Events |-> 0]

Init ==
  /\ status    = [e \in Events |-> "absent"]
  /\ attempts  = [e \in Events |-> 0]
  /\ due       = [e \in Events |-> TRUE]
  /\ aged      = [e \in Events |-> FALSE]
  /\ birth     = [e \in Events |-> 0]
  /\ phase     = [w \in Workers |-> "idle"]
  /\ rounds    = [w \in Workers |-> 0]
  /\ task      = [w \in Workers |-> NoTask]
  /\ seen      = [w \in Workers |-> NoSeen]
  /\ jobs      = {}
  /\ handed    = [e \in Events |-> 0]
  /\ buried    = [e \in Events |-> 0]
  /\ crashes   = 0
  /\ faults    = 0
  /\ contested = {}
  /\ faulted   = {}

-----------------------------------------------------------------------------
(* Producers.                                                              *)

Unused(e) == status[e] = "absent" /\ handed[e] = 0

\* publish, publishBatch and publishWithTransaction all commit a set of
\* PENDING rows in one transaction; a rolled-back one leaves nothing.  Rows of
\* one transaction share created_at.
Publish(S) ==
  /\ \A e \in S : Unused(e)
  /\ status' = [e \in Events |-> IF e \in S THEN "PENDING" ELSE status[e]]
  /\ birth'  = [e \in Events |->
                  IF e \in S THEN Cardinality({f \in Events : birth[f] # 0}) + 1
                             ELSE birth[e]]
  /\ UNCHANGED <<attempts, due, aged, workerVars, queueVars, faultVars>>

\* publishDirect bypasses the outbox: the event only exists as a job.
PublishDirect(e) ==
  /\ Unused(e)
  /\ jobs'   = jobs \union {e}
  /\ handed' = [handed EXCEPT ![e] = 1]
  /\ UNCHANGED <<rowVars, workerVars, buried, faultVars>>

-----------------------------------------------------------------------------
(* The drain loop of a worker.                                             *)

\* Mutants: the claim forgets the status filter, or the FAILED rows in backoff.
ClaimableAny == {e \in Events : status[e] \in {"PENDING", "FAILED", "PROCESSING"} /\ due[e]}

ClaimablePendingOnly == {e \in Events : status[e] = "PENDING" /\ due[e]}

Claimable == {e \in Events : status[e] \in {"PENDING", "FAILED"} /\ due[e]}

\* The inner SELECT: ORDER BY created_at LIMIT BATCH_SIZE, ties in any order.
Batches ==
  {C \in SUBSET Claimable :
     /\ \/ Cardinality(C) = BatchSize
        \/ C = Claimable /\ Cardinality(C) <= BatchSize
     /\ \A e \in C, f \in Claimable \ C : birth[e] <= birth[f]}

\* A repeatable poll or a nudge reaches an idle worker.
StartDrain(w) ==
  /\ phase[w] = "idle"
  /\ phase'  = [phase EXCEPT ![w] = "claim"]
  /\ rounds' = [rounds EXCEPT ![w] = 0]
  /\ UNCHANGED <<rowVars, task, seen, queueVars, faultVars>>

\* Mutant: the row is settled when it is claimed, before the event is enqueued.
MarkClaimedSettles(C) ==
  /\ status' = [e \in Events |-> IF e \in C THEN "PROCESSED" ELSE status[e]]
  /\ aged'   = [e \in Events |-> IF e \in C THEN FALSE ELSE aged[e]]
  /\ UNCHANGED <<attempts, due, birth>>

\* The single UPDATE ... WHERE id IN (SELECT ... FOR UPDATE SKIP LOCKED).
MarkClaimed(C) ==
  /\ status' = [e \in Events |-> IF e \in C THEN "PROCESSING" ELSE status[e]]
  /\ aged'   = [e \in Events |-> IF e \in C THEN FALSE ELSE aged[e]]
  /\ UNCHANGED <<attempts, due, birth>>

Claim(w) ==
  /\ phase[w] = "claim"
  /\ \E C \in Batches :
       /\ MarkClaimed(C)
       /\ task' = [task EXCEPT ![w] =
                     [e \in Events |-> IF e \in C THEN "enqueue" ELSE "none"]]
       /\ seen' = [seen EXCEPT ![w] =
                     [e \in Events |-> IF e \in C THEN attempts[e] ELSE 0]]
       /\ phase' = [phase EXCEPT ![w] = IF C = {} THEN "idle" ELSE "batch"]
  /\ UNCHANGED <<rounds, queueVars, faultVars>>

Fault == faults < MaxFaults /\ faults' = faults + 1

\* The claim statement fails: the drain job ends, and if the statement had
\* committed its rows are PROCESSING with no worker to finish them.
ClaimFails(w) ==
  /\ phase[w] = "claim"
  /\ Fault
  /\ \E C \in Batches \union {{}} :
       /\ MarkClaimed(C)
       /\ faulted' = faulted \union C
  /\ phase' = [phase EXCEPT ![w] = "idle"]
  /\ UNCHANGED <<rounds, task, seen, queueVars, crashes, contested>>

\* Promise.allSettled resolved: a short batch, the iteration cap or the time
\* budget ends the job, a full batch within both claims again.
BatchSettled(w) ==
  LET drained == Cardinality({e \in Events : task[w][e] = "done"})
      more    == drained >= BatchSize /\ rounds[w] + 1 < MaxIterations
  IN /\ phase[w] = "batch"
     /\ \A e \in Events : task[w][e] \in {"none", "done"}
     /\ \E withinBudget \in BOOLEAN :
          phase' = [phase EXCEPT ![w] =
                      IF more /\ withinBudget THEN "claim" ELSE "idle"]
     /\ rounds' = [rounds EXCEPT ![w] = IF more THEN @ + 1 ELSE 0]
     /\ task'   = [task EXCEPT ![w] = NoTask]
     /\ seen'   = [seen EXCEPT ![w] = NoSeen]
     /\ UNCHANGED <<rowVars, queueVars, faultVars>>

-----------------------------------------------------------------------------
(* One claimed event: processOutboxEvent and handleFailure.                *)

HasRow(e) == status[e] \notin {"absent", "pruned"}

Goto(w, e, s) == task' = [task EXCEPT ![w][e] = s]

\* Mutants: the comparison with max_attempts is off by one either way.
FailureStepEarly(w, e) ==
  IF seen[w][e] + 2 >= MaxAttempts THEN "deadLetter" ELSE "reschedule"

FailureStepLate(w, e) ==
  IF seen[w][e] >= MaxAttempts THEN "deadLetter" ELSE "reschedule"

\* Where the catch block goes: the decision uses the worker's copy of the row.
FailureStep(w, e) ==
  IF seen[w][e] + 1 >= MaxAttempts THEN "deadLetter" ELSE "reschedule"

\* BullMQ ignores an add whose job id it still holds, in whatever state.
AddJob(e) ==
  /\ jobs'   = jobs \union {e}
  /\ handed' = IF e \in jobs THEN handed ELSE [handed EXCEPT ![e] = @ + 1]

Enqueue(w, e) ==
  /\ task[w][e] = "enqueue"
  /\ AddJob(e)
  /\ Goto(w, e, "mark")
  /\ UNCHANGED <<rowVars, phase, rounds, seen, buried, faultVars>>

\* Mutant: the error of the add is swallowed and the row marked PROCESSED.
EnqueueFailsSwallowed(w, e) ==
  /\ task[w][e] = "enqueue"
  /\ Fault
  /\ AddJob(e) \/ UNCHANGED <<jobs, handed>>
  /\ Goto(w, e, "mark")
  /\ faulted' = faulted \union {e}
  /\ UNCHANGED <<rowVars, phase, rounds, seen, buried, crashes, contested>>

EnqueueFails(w, e) ==
  /\ task[w][e] = "enqueue"
  /\ Fault
  /\ AddJob(e) \/ UNCHANGED <<jobs, handed>>
  /\ Goto(w, e, FailureStep(w, e))
  /\ faulted' = faulted \union {e}
  /\ UNCHANGED <<rowVars, phase, rounds, seen, buried, crashes, contested>>

SetProcessed(e) ==
  /\ status' = [status EXCEPT ![e] = "PROCESSED"]
  /\ aged'   = [aged EXCEPT ![e] = FALSE]
  /\ UNCHANGED <<attempts, due, birth>>

\* Mutant: the update of the row is forgotten.
MarkProcessedForgotten(w, e) ==
  /\ task[w][e] = "mark"
  /\ Goto(w, e, "done")
  /\ UNCHANGED <<rowVars, phase, rounds, seen, queueVars, faultVars>>

MarkProcessed(w, e) ==
  /\ task[w][e] = "mark"
  /\ IF HasRow(e)
       THEN SetProcessed(e) /\ Goto(w, e, "done")
       ELSE UNCHANGED rowVars /\ Goto(w, e, FailureStep(w, e))
  /\ UNCHANGED <<phase, rounds, seen, queueVars, faultVars>>

MarkProcessedFails(w, e) ==
  /\ task[w][e] = "mark"
  /\ Fault
  /\ (HasRow(e) /\ SetProcessed(e)) \/ UNCHANGED rowVars
  /\ Goto(w, e, FailureStep(w, e))
  /\ faulted' = faulted \union {e}
  /\ UNCHANGED <<phase, rounds, seen, queueVars, crashes, contested>>

\* markFailed with a retry time: backed off until next_retry_at.
SetFailed(e) ==
  /\ status'   = [status EXCEPT ![e] = "FAILED"]
  /\ attempts' = [attempts EXCEPT ![e] = @ + 1]
  /\ due'      = [due EXCEPT ![e] = FALSE]
  /\ aged'     = [aged EXCEPT ![e] = FALSE]
  /\ UNCHANGED birth

Reschedule(w, e) ==
  /\ task[w][e] = "reschedule"
  /\ IF HasRow(e) THEN SetFailed(e) ELSE UNCHANGED rowVars
  /\ Goto(w, e, "done")
  /\ UNCHANGED <<phase, rounds, seen, queueVars, faultVars>>

\* handleFailure itself throws: the row keeps whatever the update left.
RescheduleFails(w, e) ==
  /\ task[w][e] = "reschedule"
  /\ Fault
  /\ (HasRow(e) /\ SetFailed(e)) \/ UNCHANGED rowVars
  /\ Goto(w, e, "done")
  /\ faulted' = faulted \union {e}
  /\ UNCHANGED <<phase, rounds, seen, queueVars, crashes, contested>>

\* The DEAD_LETTER job carries no job id, so every add makes a new job.
DeadLetter(w, e) ==
  /\ task[w][e] = "deadLetter"
  /\ buried' = [buried EXCEPT ![e] = @ + 1]
  /\ Goto(w, e, "bury")
  /\ UNCHANGED <<rowVars, phase, rounds, seen, jobs, handed, faultVars>>

DeadLetterFails(w, e) ==
  /\ task[w][e] = "deadLetter"
  /\ Fault
  /\ buried' = [buried EXCEPT ![e] = @ + 1] \/ UNCHANGED buried
  /\ Goto(w, e, "done")
  /\ faulted' = faulted \union {e}
  /\ UNCHANGED <<rowVars, phase, rounds, seen, jobs, handed, crashes, contested>>

\* markFailed with a null retry time: the row becomes terminal.
SetDeadLettered(e) ==
  /\ status'   = [status EXCEPT ![e] = "DEAD_LETTERED"]
  /\ attempts' = [attempts EXCEPT ![e] = @ + 1]
  /\ due'      = [due EXCEPT ![e] = TRUE]
  /\ aged'     = [aged EXCEPT ![e] = FALSE]
  /\ UNCHANGED birth

Bury(w, e) ==
  /\ task[w][e] = "bury"
  /\ IF HasRow(e) THEN SetDeadLettered(e) ELSE UNCHANGED rowVars
  /\ Goto(w, e, "done")
  /\ UNCHANGED <<phase, rounds, seen, queueVars, faultVars>>

BuryFails(w, e) ==
  /\ task[w][e] = "bury"
  /\ Fault
  /\ (HasRow(e) /\ SetDeadLettered(e)) \/ UNCHANGED rowVars
  /\ Goto(w, e, "done")
  /\ faulted' = faulted \union {e}
  /\ UNCHANGED <<phase, rounds, seen, queueVars, crashes, contested>>

-----------------------------------------------------------------------------
(* Sweeps, process death, time, and the retention of DOMAIN_EVENTS jobs.   *)

Holds(w, e) == task[w][e] \notin {"none", "done"}

Held(e) == \E w \in Workers : Holds(w, e)

\* Mutant: the sweep tests the age of a row and not its status.
ReapAnyAged(w) ==
  LET stuck == {e \in Events : aged[e]}
  IN /\ phase[w] = "idle"
     /\ stuck # {}
     /\ status' = [e \in Events |-> IF e \in stuck THEN "PENDING" ELSE status[e]]
     /\ aged'   = [e \in Events |-> IF e \in stuck THEN FALSE ELSE aged[e]]
     /\ contested' = contested \union {e \in stuck : Held(e)}
     /\ UNCHANGED <<attempts, due, birth, workerVars, queueVars, crashes, faults, faulted>>

\* mode 'reap': attempts and next_retry_at stay as they are.
Reap(w) ==
  LET stuck == {e \in Events : status[e] = "PROCESSING" /\ aged[e]}
  IN /\ phase[w] = "idle"
     /\ stuck # {}
     /\ status' = [e \in Events |-> IF e \in stuck THEN "PENDING" ELSE status[e]]
     /\ aged'   = [e \in Events |-> IF e \in stuck THEN FALSE ELSE aged[e]]
     /\ contested' = contested \union {e \in stuck : Held(e)}
     /\ UNCHANGED <<attempts, due, birth, workerVars, queueVars, crashes, faults, faulted>>

\* Mutant: the retention sweep also deletes the dead-lettered rows.
PruneTerminal(w) ==
  LET old == {e \in Events : \/ status[e] = "DEAD_LETTERED"
                             \/ status[e] = "PROCESSED" /\ aged[e]}
  IN /\ phase[w] = "idle"
     /\ old # {}
     /\ status' = [e \in Events |-> IF e \in old THEN "pruned" ELSE status[e]]
     /\ UNCHANGED <<attempts, due, aged, birth, workerVars, queueVars, faultVars>>

\* mode 'prune': delete PROCESSED rows past their retention.
Prune(w) ==
  LET old == {e \in Events : status[e] = "PROCESSED" /\ aged[e]}
  IN /\ phase[w] = "idle"
     /\ old # {}
     /\ status' = [e \in Events |-> IF e \in old THEN "pruned" ELSE status[e]]
     /\ UNCHANGED <<attempts, due, aged, birth, workerVars, queueVars, faultVars>>

\* A worker process dies in the middle of a drain and restarts idle.
Crash(w) ==
  /\ phase[w] # "idle"
  /\ crashes < MaxCrashes
  /\ crashes' = crashes + 1
  /\ faulted' = faulted \union {e \in Events : Holds(w, e)}
  /\ phase'   = [phase EXCEPT ![w] = "idle"]
  /\ rounds'  = [rounds EXCEPT ![w] = 0]
  /\ task'    = [task EXCEPT ![w] = NoTask]
  /\ seen'    = [seen EXCEPT ![w] = NoSeen]
  /\ UNCHANGED <<rowVars, queueVars, faults, contested>>

BackoffElapses(e) ==
  /\ ~due[e]
  /\ due' = [due EXCEPT ![e] = TRUE]
  /\ UNCHANGED <<status, attempts, aged, birth, workerVars, queueVars, faultVars>>

RowAges(e) ==
  /\ status[e] \in {"PROCESSING", "PROCESSED"}
  /\ ~aged[e]
  /\ aged' = [aged EXCEPT ![e] = TRUE]
  /\ UNCHANGED <<status, attempts, due, birth, workerVars, queueVars, faultVars>>

\* A finished job is kept until later ones push it out of removeOnComplete or
\* removeOnFail; only then can its id be used again.
JobEvicted(e) ==
  /\ e \in jobs
  /\ jobs' = jobs \ {e}
  /\ UNCHANGED <<rowVars, workerVars, handed, buried, faultVars>>

-----------------------------------------------------------------------------

Produce == \/ \E S \in SUBSET Events \ {{}} : Publish(S)
           \/ \E e \in Events : PublishDirect(e)

Drain(w) == \/ StartDrain(w)
            \/ Claim(w)
            \/ ClaimFails(w)
            \/ BatchSettled(w)
            \/ Reap(w)
            \/ Prune(w)
            \/ Crash(w)

Process(w, e) == \/ Enqueue(w, e)    \/ EnqueueFails(w, e)
                 \/ MarkProcessed(w, e) \/ MarkProcessedFails(w, e)
                 \/ Reschedule(w, e) \/ RescheduleFails(w, e)
                 \/ DeadLetter(w, e) \/ DeadLetterFails(w, e)
                 \/ Bury(w, e)       \/ BuryFails(w, e)

Environment(e) == \/ BackoffElapses(e)
                  \/ RowAges(e)
                  \/ JobEvicted(e)

Next == \/ Produce
        \/ \E w \in Workers : Drain(w)
        \/ \E w \in Workers, e \in Events : Process(w, e)
        \/ \E e \in Events : Environment(e)

Spec == Init /\ [][Next]_vars

\* The 15 s poll wakes idle workers, a claim and a settled batch are followed
\* by the next statement of the loop, the clock moves, and the 5-minute reap
\* job waits in a FIFO queue for an idle worker (hence strong fairness: a
\* worker is idle again and again, not for ever).
Fairness ==
  /\ \A w \in Workers :
       /\ WF_vars(StartDrain(w))
       /\ WF_vars(Claim(w))
       /\ WF_vars(BatchSettled(w))
  /\ \A w \in Workers, e \in Events : WF_vars(Process(w, e))
  /\ \A e \in Events : WF_vars(BackoffElapses(e)) /\ WF_vars(RowAges(e))
  /\ SF_vars(\E w \in Workers : Reap(w))

FairSpec == Spec /\ Fairness
-----------------------------------------------------------------------------
(* Properties.                                                             *)

\* Every variable stays in its type.
TypeOK ==
  /\ status   \in [Events -> Statuses]
  /\ attempts \in [Events -> Nat]
  /\ due      \in [Events -> BOOLEAN]
  /\ aged     \in [Events -> BOOLEAN]
  /\ birth    \in [Events -> Nat]
  /\ phase    \in [Workers -> Phases]
  /\ rounds   \in [Workers -> Nat]
  /\ task     \in [Workers -> [Events -> Steps]]
  /\ seen     \in [Workers -> [Events -> Nat]]
  /\ jobs     \subseteq Events
  /\ handed   \in [Events -> Nat]
  /\ buried   \in [Events -> Nat]
  /\ crashes  \in Nat
  /\ faults   \in Nat
  /\ contested \subseteq Events
  /\ faulted   \subseteq Events

\* No event is lost on the way out: a row is PROCESSED, or deleted by the
\* retention sweep, only if its event reached the domain queue, and it is
\* DEAD_LETTERED only if the event reached the dead-letter queue (the order of
\* enqueue and update in processOutboxEvent and handleFailure).
SettledIsAccountedFor ==
  \A e \in Events :
    /\ status[e] \in {"PROCESSED", "pruned"} => handed[e] > 0
    /\ status[e] = "DEAD_LETTERED" => buried[e] > 0

\* An event is given up only after it used its whole retry budget, although
\* the decision is taken on a copy of the row that other workers may have
\* outdated since the claim.
GivenUpOnlyWhenExhausted ==
  \A e \in Events : status[e] = "DEAD_LETTERED" => attempts[e] >= MaxAttempts

\* SKIP LOCKED gives concurrent workers disjoint batches: two workers never
\* work on one event, unless the reaper took it from a live worker.
SoleHolder ==
  \A e \in Events \ contested :
    \A v, w \in Workers : Holds(v, e) /\ Holds(w, e) => v = w

\* The counter incremented in the database never passes the limit that is
\* checked on the worker's copy, unless two workers held the event.
WithinRetryBudget ==
  \A e \in Events \ contested :
    /\ attempts[e] <= MaxAttempts
    /\ status[e] = "FAILED" => attempts[e] < MaxAttempts

\* An event enters the domain queue twice only after a crash, a failed call or
\* a premature reclaim: the normal path is exactly once even when the job id
\* is no longer retained.
HandedOnceUndisturbed ==
  \A e \in Events \ (contested \union faulted) : handed[e] <= 1

\* A row is PROCESSING with nobody working on it only because a worker died or
\* a call failed: the drain loop itself strands nothing.
StrandedOnlyByFailure ==
  \A e \in Events :
    status[e] = "PROCESSING" /\ ~Held(e) => e \in contested \union faulted

\* A row that nobody works on stays settled: only the retention sweep may
\* still touch it.
SettledStaysSettled ==
  [][\A e \in Events :
       status[e] \in {"PROCESSED", "DEAD_LETTERED"} /\ ~Held(e)
         => \/ status'[e] = status[e]
            \/ status[e] = "PROCESSED" /\ aged[e] /\ status'[e] = "pruned"]_vars

Settled(e) == status[e] \in {"PROCESSED", "DEAD_LETTERED", "pruned"}

\* Every committed event is settled for good once failures cease: no row stays
\* in PENDING, in a backoff or stranded in PROCESSING.
EventuallySettled ==
  \A e \in Events : status[e] = "PENDING" ~> []Settled(e)

\* The outbox implements the at-least-once promise of EventDelivery.
Promise ==
  INSTANCE EventDelivery WITH
    stage  <- [e \in Events |-> IF status[e] = "absent" THEN "unknown"
                               ELSE IF Settled(e) THEN "settled" ELSE "owed"],
    handed <- {e \in Events : handed[e] > 0},
    buried <- {e \in Events : buried[e] > 0}

DeliversAtLeastOnce == Promise!Spec
=============================================================================
