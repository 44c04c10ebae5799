---------------------------- MODULE JobProcessor ----------------------------
(***************************************************************************)
(* A BullMQ queue whose consumer is a QueueProcessor with an idempotency   *)
(* key per event: DOMAIN_EVENTS, and every module queue built with         *)
(* createDomainEventConsumer.  A run of a job is a chain of asynchronous   *)
(* steps: find the key, create or reclaim it, run the handler, record the  *)
(* outcome on the key, report to BullMQ.  The chain may stop anywhere with *)
(* its process, and a run that outlived its lock goes on beside the        *)
(* redelivered one.                                                        *)
(*                                                                         *)
(* BullMQ is modelled as the repository uses it: a job id is not added     *)
(* twice while the job is retained, a job without a live lock is stalled   *)
(* and redelivered, and only the holder of the lock may finish it.         *)
(***************************************************************************)
EXTENDS Naturals

CONSTANTS
  Events,           \* event ids; with the scope of the queue, idempotency keys
  Runners,          \* concurrency slots of all worker processes
  NoRunner,         \* the lock of a job nobody holds
  Attempts,         \* DefaultJobOptions.*.attempts of the job
  MaxStalledCount,  \* BullMQ's default for workers that do not set it
  MaxAdds,          \* bound: times an event is added to this queue
  MaxCrashes,       \* bound: processes killed
  MaxFaults,        \* bound: failed calls of the idempotency repository
  MaxSlow           \* bound: locks that expire under a live run

ASSUME NoRunnerAssumption == NoRunner \notin Runners
ASSUME AttemptsAssumption == Attempts \in Nat \ {0} /\ MaxStalledCount \in Nat
ASSUME BoundsAssumption ==
  MaxAdds \in Nat /\ MaxCrashes \in Nat /\ MaxFaults \in Nat /\ MaxSlow \in Nat

VARIABLES
  job,      \* BullMQ: state of the job of an event
  made,     \* BullMQ: attemptsMade
  stalls,   \* BullMQ: stalledCounter
  lock,     \* BullMQ: the runner whose lock token is valid
  key,      \* Postgres: status of the idempotency key, "none" without a row
  expired,  \* Postgres: the key's expiresAt has passed
  run,      \* a runner: the step it has reached for an event
  handled,  \* history: completed executions of the handler
  adds, crashes, faults, slow,  \* counters behind the bounds
  disturbed \* history: events touched by a crash, a failed call or a stall

jobVars   == <<job, made, stalls, lock>>
keyVars   == <<key, expired>>
countVars == <<crashes, faults, slow>>
vars == <<jobVars, keyVars, run, handled, adds, countVars, disturbed>>

JobStates   == {"absent", "waiting", "active", "completed", "failed"}
KeyStatuses == {"none", "IN_PROGRESS", "COMPLETED", "FAILED"}
RunSteps    == {"idle", "find", "create", "reclaim", "handle", "complete",
                "fail", "done", "threw"}

Init ==
  /\ job       = [e \in Events |-> "absent"]
  /\ made      = [e \in Events |-> 0]
  /\ stalls    = [e \in Events |-> 0]
  /\ lock      = [e \in Events |-> NoRunner]
  /\ key       = [e \in Events |-> "none"]
  /\ expired   = [e \in Events |-> FALSE]
  /\ run       = [r \in Runners |-> [e \in Events |-> "idle"]]
  /\ handled   = [e \in Events |-> 0]
  /\ adds      = [e \in Events |-> 0]
  /\ crashes   = 0
  /\ faults    = 0
  /\ slow      = 0
  /\ disturbed = {}

Goto(r, e, s) == run' = [run EXCEPT ![r][e] = s]

-----------------------------------------------------------------------------
(* BullMQ around the processor.                                            *)

\* A producer adds the job: for the first time, or again once a finished job
\* with the same id has been trimmed.
Add(e) ==
  /\ job[e] \in {"absent", "completed", "failed"}
  /\ adds[e] < MaxAdds
  /\ job'    = [job EXCEPT ![e] = "waiting"]
  /\ made'   = [made EXCEPT ![e] = 0]
  /\ stalls' = [stalls EXCEPT ![e] = 0]
  /\ adds'   = [adds EXCEPT ![e] = @ + 1]
  /\ UNCHANGED <<lock, keyVars, run, handled, countVars, disturbed>>

\* A free slot takes the job and its lock.
Take(r, e) ==
  /\ job[e] = "waiting"
  /\ \A f \in Events : run[r][f] = "idle"
  /\ job'  = [job EXCEPT ![e] = "active"]
  /\ lock' = [lock EXCEPT ![e] = r]
  /\ Goto(r, e, "find")
  /\ UNCHANGED <<made, stalls, keyVars, handled, adds, countVars, disturbed>>

\* The stalled check finds an active job without a live lock.
Redeliver(e) ==
  /\ stalls' = [stalls EXCEPT ![e] = @ + 1]
  /\ job'    = [job EXCEPT ![e] = IF stalls[e] < MaxStalledCount THEN "waiting" ELSE "failed"]
  /\ lock'   = [lock EXCEPT ![e] = NoRunner]
  /\ disturbed' = disturbed \union {e}

Stalled(e) ==
  /\ job[e] = "active"
  /\ lock[e] = NoRunner
  /\ Redeliver(e)
  /\ UNCHANGED <<made, keyVars, run, handled, adds, countVars>>

\* A run that could not renew its lock in time is declared stalled while it is
\* still working.
SlowRunStalls(e) ==
  /\ job[e] = "active"
  /\ lock[e] # NoRunner
  /\ slow < MaxSlow
  /\ slow' = slow + 1
  /\ Redeliver(e)
  /\ UNCHANGED <<made, keyVars, run, handled, adds, crashes, faults>>

\* The process of a slot dies: nothing renews its locks any more.
Crash(r) ==
  /\ crashes < MaxCrashes
  /\ \E e \in Events : run[r][e] # "idle"
  /\ crashes' = crashes + 1
  /\ lock' = [e \in Events |-> IF lock[e] = r THEN NoRunner ELSE lock[e]]
  /\ disturbed' = disturbed \union {e \in Events : run[r][e] # "idle"}
  /\ run'  = [run EXCEPT ![r] = [e \in Events |-> "idle"]]
  /\ UNCHANGED <<job, made, stalls, keyVars, handled, adds, faults, slow>>

\* process() resolved: the holder of the lock completes the job, any other run
\* only gets an error for its missing lock.
ReportDone(r, e) ==
  /\ run[r][e] = "done"
  /\ IF lock[e] = r
       THEN /\ job'  = [job EXCEPT ![e] = "completed"]
            /\ lock' = [lock EXCEPT ![e] = NoRunner]
       ELSE UNCHANGED <<job, lock>>
  /\ Goto(r, e, "idle")
  /\ UNCHANGED <<made, stalls, keyVars, handled, adds, countVars, disturbed>>

\* Mutants: one attempt too many is made; attempts are never used up.
ReportThrewLate(r, e) ==
  /\ run[r][e] = "threw"
  /\ IF lock[e] = r
       THEN /\ made' = [made EXCEPT ![e] = @ + 1]
            /\ job'  = [job EXCEPT ![e] = IF made[e] < Attempts THEN "waiting" ELSE "failed"]
            /\ lock' = [lock EXCEPT ![e] = NoRunner]
       ELSE UNCHANGED <<job, made, lock>>
  /\ Goto(r, e, "idle")
  /\ UNCHANGED <<stalls, keyVars, handled, adds, countVars, disturbed>>

ReportThrewForever(r, e) ==
  /\ run[r][e] = "threw"
  /\ IF lock[e] = r
       THEN /\ job'  = [job EXCEPT ![e] = "waiting"]
            /\ lock' = [lock EXCEPT ![e] = NoRunner]
       ELSE UNCHANGED <<job, lock>>
  /\ Goto(r, e, "idle")
  /\ UNCHANGED <<made, stalls, keyVars, handled, adds, countVars, disturbed>>

\* process() rejected: retried after a backoff, or failed for good.
ReportThrew(r, e) ==
  /\ run[r][e] = "threw"
  /\ IF lock[e] = r
       THEN /\ made' = [made EXCEPT ![e] = @ + 1]
            /\ job'  = [job EXCEPT ![e] = IF made[e] + 1 < Attempts THEN "waiting" ELSE "failed"]
            /\ lock' = [lock EXCEPT ![e] = NoRunner]
       ELSE UNCHANGED <<job, made, lock>>
  /\ Goto(r, e, "idle")
  /\ UNCHANGED <<stalls, keyVars, handled, adds, countVars, disturbed>>

-----------------------------------------------------------------------------
(* PrismaIdempotencyKeyAdapter.begin: a read, then a write it decided on.   *)

\* Mutants: the status of a finished key is ignored, or ages with its TTL.
FindOutcomeForgetful(e) ==
  IF key[e] = "none" THEN "create"
  ELSE IF key[e] = "IN_PROGRESS" /\ ~expired[e] THEN "done"
  ELSE "reclaim"

FindOutcomeAgeing(e) ==
  IF key[e] = "none" THEN "create"
  ELSE IF key[e] \in {"COMPLETED", "IN_PROGRESS"} /\ ~expired[e] THEN "done"
  ELSE "reclaim"

\* No row: create one.  COMPLETED, or IN_PROGRESS within its TTL: SKIP.
FindOutcome(e) ==
  IF key[e] = "none" THEN "create"
  ELSE IF key[e] = "COMPLETED" \/ (key[e] = "IN_PROGRESS" /\ ~expired[e]) THEN "done"
  ELSE "reclaim"

FindKey(r, e) ==
  /\ run[r][e] = "find"
  /\ Goto(r, e, FindOutcome(e))
  /\ UNCHANGED <<jobVars, keyVars, handled, adds, countVars, disturbed>>

StartKey(e) ==
  /\ key'     = [key EXCEPT ![e] = "IN_PROGRESS"]
  /\ expired' = [expired EXCEPT ![e] = FALSE]

\* The insert meets the unique (scope, key): when another run was faster it
\* throws, and the processor fails open.
CreateKey(r, e) ==
  /\ run[r][e] = "create"
  /\ IF key[e] = "none" THEN StartKey(e) ELSE UNCHANGED keyVars
  /\ Goto(r, e, "handle")
  /\ UNCHANGED <<jobVars, handled, adds, countVars, disturbed>>

\* The update addresses the row by id, whatever its status is by now.
ReclaimKey(r, e) ==
  /\ run[r][e] = "reclaim"
  /\ StartKey(e)
  /\ Goto(r, e, "handle")
  /\ UNCHANGED <<jobVars, handled, adds, countVars, disturbed>>

Fault(e) ==
  /\ faults < MaxFaults
  /\ faults' = faults + 1
  /\ disturbed' = disturbed \union {e}

\* failOpenOnIdempotencyError: a failed call counts as EXECUTE, also when its
\* write was committed.
BeginFails(r, e) ==
  /\ run[r][e] \in {"find", "create", "reclaim"}
  /\ Fault(e)
  /\ \/ UNCHANGED keyVars
     \/ run[r][e] = "create" /\ key[e] = "none" /\ StartKey(e)
     \/ run[r][e] = "reclaim" /\ StartKey(e)
  /\ Goto(r, e, "handle")
  /\ UNCHANGED <<jobVars, handled, adds, crashes, slow>>

-----------------------------------------------------------------------------
(* The handler, and what is recorded about it.                             *)

HandlerReturns(r, e) ==
  /\ run[r][e] = "handle"
  /\ handled' = [handled EXCEPT ![e] = @ + 1]
  /\ Goto(r, e, "complete")
  /\ UNCHANGED <<jobVars, keyVars, adds, countVars, disturbed>>

\* Mutant: the error of the handler is logged and not rethrown.
HandlerThrowsSwallowed(r, e) ==
  /\ run[r][e] = "handle"
  /\ Goto(r, e, "complete")
  /\ UNCHANGED <<jobVars, keyVars, handled, adds, countVars, disturbed>>

HandlerThrows(r, e) ==
  /\ run[r][e] = "handle"
  /\ Goto(r, e, "fail")
  /\ UNCHANGED <<jobVars, keyVars, handled, adds, countVars, disturbed>>

\* complete() and fail() update the row if there is one; their errors are
\* logged and swallowed.
Record(e, s) ==
  /\ key' = IF key[e] = "none" THEN key ELSE [key EXCEPT ![e] = s]
  /\ UNCHANGED expired

CompleteKey(r, e) ==
  /\ run[r][e] = "complete"
  /\ Record(e, "COMPLETED")
  /\ Goto(r, e, "done")
  /\ UNCHANGED <<jobVars, handled, adds, countVars, disturbed>>

CompleteKeyFails(r, e) ==
  /\ run[r][e] = "complete"
  /\ Fault(e)
  /\ Record(e, "COMPLETED") \/ UNCHANGED keyVars
  /\ Goto(r, e, "done")
  /\ UNCHANGED <<jobVars, handled, adds, crashes, slow>>

\* Mutant: the key is left IN_PROGRESS when the handler fails.
FailKeyForgotten(r, e) ==
  /\ run[r][e] = "fail"
  /\ Goto(r, e, "threw")
  /\ UNCHANGED <<jobVars, keyVars, handled, adds, countVars, disturbed>>

FailKey(r, e) ==
  /\ run[r][e] = "fail"
  /\ Record(e, "FAILED")
  /\ Goto(r, e, "threw")
  /\ UNCHANGED <<jobVars, handled, adds, countVars, disturbed>>

FailKeyFails(r, e) ==
  /\ run[r][e] = "fail"
  /\ Fault(e)
  /\ Record(e, "FAILED") \/ UNCHANGED keyVars
  /\ Goto(r, e, "threw")
  /\ UNCHANGED <<jobVars, handled, adds, crashes, slow>>

\* The TTL (24 h) passes; no single run lasts that long.
KeyExpires(e) ==
  /\ key[e] # "none"
  /\ ~expired[e]
  /\ \A r \in Runners : run[r][e] = "idle"
  /\ expired' = [expired EXCEPT ![e] = TRUE]
  /\ UNCHANGED <<jobVars, key, run, handled, adds, countVars, disturbed>>

-----------------------------------------------------------------------------

\* What QueueProcessor and BullMQ do around the handler, and the handler.
Protocol(r, e) == \/ FindKey(r, e)     \/ CreateKey(r, e)   \/ ReclaimKey(r, e)
                  \/ BeginFails(r, e)
                  \/ CompleteKey(r, e) \/ CompleteKeyFails(r, e)
                  \/ FailKey(r, e)     \/ FailKeyFails(r, e)
                  \/ ReportDone(r, e)  \/ ReportThrew(r, e)

Handle(r, e) == HandlerReturns(r, e) \/ HandlerThrows(r, e)

Step(r, e) == Protocol(r, e) \/ Handle(r, e)

Queue(e) == Add(e) \/ Stalled(e) \/ SlowRunStalls(e) \/ KeyExpires(e)

Next == \/ \E e \in Events : Queue(e)
        \/ \E r \in Runners : Crash(r)
        \/ \E r \in Runners, e \in Events : Take(r, e) \/ Step(r, e)

Spec == Init /\ [][Next]_vars

\* Workers poll, a started run goes on, BullMQ's stalled check repeats and the
\* clock moves.
Fairness ==
  /\ \A r \in Runners, e \in Events : WF_vars(Step(r, e))
  /\ \A e \in Events :
       /\ SF_vars(\E r \in Runners : Take(r, e))
       /\ WF_vars(Stalled(e))
       /\ WF_vars(KeyExpires(e))

FairSpec == Spec /\ Fairness
-----------------------------------------------------------------------------
(* Properties.                                                             *)

\* Every variable stays in its type.
TypeOK ==
  /\ job     \in [Events -> JobStates]
  /\ made    \in [Events -> 0..Attempts]
  /\ stalls  \in [Events -> 0..(MaxStalledCount + 1)]
  /\ lock    \in [Events -> Runners \union {NoRunner}]
  /\ key     \in [Events -> KeyStatuses]
  /\ expired \in [Events -> BOOLEAN]
  /\ run     \in [Runners -> [Events -> RunSteps]]
  /\ handled \in [Events -> Nat]
  /\ adds    \in [Events -> Nat]
  /\ crashes \in Nat /\ faults \in Nat /\ slow \in Nat
  /\ disturbed \subseteq Events

\* A key says COMPLETED only about an event whose handler has returned, also
\* when several runs of one event, stale ones included, write the key.
CompletedKeyWasHandled ==
  \A e \in Events : key[e] = "COMPLETED" => handled[e] > 0

\* An event handed to the queue several times is handled once, unless a crash,
\* a failed repository call or a stall came between.
HandledOnceUndisturbed ==
  \A e \in Events \ disturbed : handled[e] <= 1

\* Without such a disturbance a retry is not mistaken for a duplicate: a job
\* completes only when its event has been handled, and it is failed only after
\* all its attempts, with the handler never having returned.
VerdictMatchesHandlerUndisturbed ==
  \A e \in Events \ disturbed :
    /\ job[e] = "completed" => handled[e] > 0
    /\ job[e] = "failed" => made[e] = Attempts /\ handled[e] = 0

\* The event is done and every run of it that may still exist is about to skip.
Closed(e) ==
  /\ key[e] = "COMPLETED"
  /\ \A r \in Runners : run[r][e] \in {"idle", "find", "done"}

\* A completed event never runs again whatever is re-added, redelivered or
\* crashes, and however old the key is: only a failing repository reopens it.
ClosedStaysClosed ==
  [][\A e \in Events : Closed(e) /\ faults' = faults => Closed(e)']_vars

\* The queue never blocks: every job is completed or failed in the end.
EventuallyReported ==
  \A e \in Events : job[e] = "waiting" ~> job[e] \in {"completed", "failed"}

\* What the adapter's comment promises of an IN_PROGRESS key left by a crashed
\* worker: past its TTL it is reclaimed, it does not block the job for ever.  So
\* a job whose handler would succeed is handled, or at least reported failed.
StuckKeyIsReclaimed ==
  \A e \in Events :
    job[e] = "waiting" ~> handled[e] > 0 \/ job[e] = "failed"

\* The task an event is to those who put it on the queue.
TaskOf(e) ==
  IF e \in disturbed THEN [verdict |-> "upset", tries |-> 0, work |-> "undone"]
  ELSE [verdict |-> IF job[e] \in {"waiting", "active"} THEN "pending" ELSE job[e],
        tries   |-> made[e],
        work    |-> IF handled[e] > 0 THEN "done" ELSE "undone"]

Tasks == INSTANCE TaskQueue WITH task <- [e \in Events |-> TaskOf(e)]

\* The chain of steps of a run, with its key in Postgres and its job in Redis,
\* amounts to the tasks of TaskQueue: no duplicate does the work again, none is
\* completed undone, and no try is lost or made too often.
RunsTasks == Tasks!Spec
=============================================================================
