-------------------------------- MODULE Saga --------------------------------
(***************************************************************************)
(* One saga, a pair (sagaType, correlationId), as SagaOrchestrator runs    *)
(* it.  An execution keeps the whole saga in one interactive transaction:  *)
(* it saves the row, runs each step, saves the row again, and commits.     *)
(* Compensation, though, saves the row through a connection of its own,    *)
(* which waits for the row lock of the very transaction it is called from. *)
(* Prisma closes that transaction when its time is up; the commit of the   *)
(* closed transaction then fails, and the outer handler compensates again. *)
(*                                                                         *)
(* Executions of the same saga (a caller that retries), a background       *)
(* compensation and the retention sweep meet on the row.  MetricsPort is   *)
(* present, as ObservabilityModule provides it everywhere.                 *)
(***************************************************************************)
EXTENDS Naturals

CONSTANTS
  Runs,         \* calls of execute() for this saga
  Nobody,       \* no execution holds the row lock
  NumSteps,     \* definition.steps.length
  MaxFaults,    \* bound on failed database calls and lost replies
  MaxCrashes    \* bound on processes that die

ASSUME RunsAssumption == Nobody \notin Runs
ASSUME StepsAssumption == NumSteps \in Nat
ASSUME BoundsAssumption == MaxFaults \in Nat /\ MaxCrashes \in Nat

VARIABLES
  row,      \* the committed row of saga_states
  lock,     \* the execution whose open transaction wrote the row
  run,      \* run[r]: the local state of the execution r
  sweep,    \* compensateByCorrelationId: its place and the steps it has left
  faults, crashes

vars == <<row, lock, run, sweep, faults, crashes>>

-----------------------------------------------------------------------------
Steps == 1 .. NumSteps

Statuses == {"NONE", "STARTED", "IN_PROGRESS", "COMPLETED", "FAILED", "COMPENSATING", "COMPENSATED"}

\* A row, or a draft of it inside a transaction: steps counts completedSteps.
Rows == [st : Statuses, steps : 0 .. NumSteps]

NoRow == [st |-> "NONE", steps |-> 0]

Places == {"idle", "begin", "step", "save", "catch", "mark", "undo", "commit",
           "returned", "threw", "dead"}

\* level is the handler an exception meets next, ran counts executedSteps, and
\* undone[k] how often the compensation of step k has been called.
Executions == [pc : Places, level : {"try", "catch", "outer"},
               tx : {"none", "open", "aborted", "closed", "committed"},
               draft : Rows, ran : 0 .. NumSteps, left : 0 .. NumSteps,
               undone : [Steps -> Nat]]

Fresh == [pc |-> "idle", level |-> "try", tx |-> "none", draft |-> NoRow,
          ran |-> 0, left |-> 0, undone |-> [k \in Steps |-> 0]]

Answered(r) == run[r].pc \in {"returned", "threw", "dead"}

Init ==
  /\ row = NoRow
  /\ lock = Nobody
  /\ run = [r \in Runs |-> Fresh]
  /\ sweep = [pc |-> "idle", left |-> 0]
  /\ faults = 0
  /\ crashes = 0

-----------------------------------------------------------------------------
(* The transaction and the calls on the row.                               *)

\* The lock goes with the transaction that holds it.
Unlocked(r) == IF lock = r THEN Nobody ELSE lock

\* Where an exception takes the execution s: from the try block to the inner
\* handler, from there out of the callback, which rolls the transaction back,
\* to the outer handler, and from there to the caller.
Thrown(s) ==
  CASE s.level = "try" -> [s EXCEPT !.pc = "catch", !.level = "catch"]
    [] s.level = "catch" -> [s EXCEPT !.pc = "mark", !.level = "outer", !.tx = "closed"]
    [] OTHER -> [s EXCEPT !.pc = "threw"]

\* An exception in the execution r, whose local state is s by then.
Throw(r, s) ==
  /\ run' = [run EXCEPT ![r] = Thrown(s)]
  /\ lock' = IF Thrown(s).tx = "closed" THEN Unlocked(r) ELSE lock

\* Fault: the upsert forgets the transaction it was given.
SaveTxBare(r, st, next) ==
  /\ lock = Nobody
  /\ row' = [st |-> st, steps |-> run[r].ran]
  /\ run' = [run EXCEPT ![r].pc = next]
  /\ UNCHANGED <<lock, sweep, faults, crashes>>

\* saveTx(tx, state): an upsert in the transaction.  It waits for the lock.
SaveTx(r, st, next) ==
  /\ run[r].tx = "open"
  /\ lock \in {Nobody, r}
  /\ lock' = r
  /\ run' = [run EXCEPT ![r] = [run[r] EXCEPT
       !.pc = next, !.draft = [st |-> st, steps |-> run[r].ran]]]
  /\ UNCHANGED <<row, sweep, faults, crashes>>

\* saveTx throws: the transaction is gone, or this statement aborts it.
SaveTxThrows(r) ==
  \/ /\ run[r].tx # "open"
     /\ Throw(r, run[r])
     /\ UNCHANGED <<row, sweep, faults, crashes>>
  \/ /\ run[r].tx = "open"
     /\ faults < MaxFaults
     /\ faults' = faults + 1
     /\ Throw(r, [run[r] EXCEPT !.tx = "aborted"])
     /\ UNCHANGED <<row, sweep, crashes>>

\* Fault: the lifecycle is saved in the transaction it is called from.
SaveLifecycleInTx(r, st) ==
  /\ lock \in {Nobody, r}
  /\ row' = IF lock = r THEN row ELSE [st |-> st, steps |-> run[r].ran]

\* saveLifecycle(state): an upsert that is a transaction of its own.  It waits
\* for every open transaction that wrote the row, the caller's own included.
SaveLifecycle(r, st) ==
  /\ lock = Nobody
  /\ row' = [st |-> st, steps |-> run[r].ran]

\* saveLifecycle throws: no connection became free, or the statement failed.
SaveLifecycleThrows(r) ==
  /\ faults < MaxFaults
  /\ faults' = faults + 1
  /\ Throw(r, run[r])
  /\ UNCHANGED <<row, sweep, crashes>>

\* Fault: a failed statement closes the transaction, time does not.
ExpireNever(r) ==
  /\ run[r].tx = "aborted"
  /\ run' = [run EXCEPT ![r].tx = "closed"]
  /\ lock' = Unlocked(r)
  /\ UNCHANGED <<row, sweep, faults, crashes>>

\* Prisma's timer closes an interactive transaction that has been open too long.
Expire(r) ==
  /\ run[r].tx \in {"open", "aborted"}
  /\ run' = [run EXCEPT ![r].tx = "closed"]
  /\ lock' = Unlocked(r)
  /\ UNCHANGED <<row, sweep, faults, crashes>>

-----------------------------------------------------------------------------
(* executeInternal.                                                        *)

\* The early validation throws, or passes and the transaction opens, or fails to.
Start(r) ==
  /\ run[r].pc = "idle"
  /\ \/ /\ run' = [run EXCEPT ![r].pc = "threw"]
        /\ UNCHANGED faults
     \/ /\ run' = [run EXCEPT ![r].pc = "begin", ![r].tx = "open"]
        /\ UNCHANGED faults
     \/ /\ faults < MaxFaults
        /\ faults' = faults + 1
        /\ run' = [run EXCEPT ![r].pc = "mark", ![r].level = "outer", ![r].tx = "closed"]
  /\ UNCHANGED <<row, lock, sweep, crashes>>

\* The row is saved as STARTED and then as IN_PROGRESS.
Begin(r) ==
  /\ run[r].pc = "begin"
  /\ SaveTx(r, "IN_PROGRESS", "step") \/ SaveTxThrows(r)

\* The next step runs.  One that makes no database call succeeds in a closed
\* transaction too.
StepRuns(r) ==
  /\ run[r].pc = "step"
  /\ run[r].ran < NumSteps
  /\ run' = [run EXCEPT ![r].pc = "save", ![r].ran = @ + 1]
  /\ UNCHANGED <<row, lock, sweep, faults, crashes>>

\* The step throws, and an SQL error of its own has aborted the transaction.
StepThrows(r) ==
  /\ run[r].pc = "step"
  /\ run[r].ran < NumSteps
  /\ \/ Throw(r, run[r])
     \/ run[r].tx = "open" /\ Throw(r, [run[r] EXCEPT !.tx = "aborted"])
  /\ UNCHANGED <<row, sweep, faults, crashes>>

\* The saga has timed out, or its data no longer validate, before a step: the
\* row is saved as FAILED and compensation starts, inside the try block.
GiveUp(r) ==
  /\ run[r].pc = "step"
  /\ run[r].ran < NumSteps
  /\ SaveTx(r, "FAILED", "mark") \/ SaveTxThrows(r)

SaveProgress(r) ==
  /\ run[r].pc = "save"
  /\ SaveTx(r, "IN_PROGRESS", "step") \/ SaveTxThrows(r)

Finish(r) ==
  /\ run[r].pc = "step"
  /\ run[r].ran = NumSteps
  /\ SaveTx(r, "COMPLETED", "commit") \/ SaveTxThrows(r)

\* The inner handler saves FAILED, in the transaction if there still is one.
Catch(r) ==
  /\ run[r].pc = "catch"
  /\ SaveTx(r, "FAILED", "mark") \/ SaveTxThrows(r)

\* The callback has returned and the transaction commits.
Commit(r) ==
  /\ run[r].pc = "commit"
  /\ run[r].tx = "open"
  /\ row' = run[r].draft
  /\ lock' = Unlocked(r)
  /\ \/ /\ run' = [run EXCEPT ![r].pc = "returned", ![r].tx = "committed"]
        /\ UNCHANGED faults
     \/ /\ faults < MaxFaults
        /\ faults' = faults + 1
        /\ run' = [run EXCEPT ![r].pc = "mark", ![r].level = "outer", ![r].tx = "committed"]
  /\ UNCHANGED <<sweep, crashes>>

\* The commit fails, as it always does once the transaction is closed.
CommitThrows(r) ==
  /\ run[r].pc = "commit"
  /\ \/ run[r].tx # "open" /\ UNCHANGED faults
     \/ run[r].tx = "open" /\ faults < MaxFaults /\ faults' = faults + 1
  /\ run' = [run EXCEPT ![r].pc = "mark", ![r].level = "outer", ![r].tx = "closed"]
  /\ lock' = Unlocked(r)
  /\ UNCHANGED <<row, sweep, crashes>>

-----------------------------------------------------------------------------
(* compensate.                                                             *)

\* Fault: compensation goes by the steps the row was last saved with.
MarkSavedSteps(r) ==
  /\ run[r].pc = "mark"
  /\ SaveLifecycle(r, "COMPENSATING")
  /\ run' = [run EXCEPT ![r].pc = "undo", ![r].left = run[r].draft.steps]
  /\ UNCHANGED <<lock, sweep, faults, crashes>>

Mark(r) ==
  /\ run[r].pc = "mark"
  /\ \/ /\ SaveLifecycle(r, "COMPENSATING")
        /\ run' = [run EXCEPT ![r].pc = "undo", ![r].left = run[r].ran]
        /\ UNCHANGED <<lock, sweep, faults, crashes>>
     \/ SaveLifecycleThrows(r)

\* The executed steps are compensated last to first.  An error of one is logged
\* and the next one follows.
Undo(r) ==
  /\ run[r].pc = "undo"
  /\ run[r].left > 0
  /\ run' = [run EXCEPT ![r].left = @ - 1, ![r].undone[run[r].left] = @ + 1]
  /\ UNCHANGED <<row, lock, sweep, faults, crashes>>

\* Fault: the steps are compensated again when saving COMPENSATED fails.
CloseRetried(r) ==
  /\ run[r].pc = "undo"
  /\ run[r].left = 0
  /\ \/ /\ SaveLifecycle(r, "COMPENSATED")
        /\ run' = [run EXCEPT ![r].pc = IF run[r].level = "outer" THEN "returned" ELSE "commit"]
        /\ UNCHANGED <<lock, sweep, faults, crashes>>
     \/ /\ faults < MaxFaults
        /\ faults' = faults + 1
        /\ run' = [run EXCEPT ![r].left = run[r].ran]
        /\ UNCHANGED <<row, lock, sweep, crashes>>

\* Back in the callback, which returns and lets the transaction commit, or in
\* the outer handler, which returns to the caller.
Close(r) ==
  /\ run[r].pc = "undo"
  /\ run[r].left = 0
  /\ \/ /\ SaveLifecycle(r, "COMPENSATED")
        /\ run' = [run EXCEPT ![r].pc = IF run[r].level = "outer" THEN "returned" ELSE "commit"]
        /\ UNCHANGED <<lock, sweep, faults, crashes>>
     \/ SaveLifecycleThrows(r)

\* The process of r dies; the database rolls its transaction back.
Crash(r) ==
  /\ crashes < MaxCrashes
  /\ run[r].pc # "idle" /\ ~Answered(r)
  /\ crashes' = crashes + 1
  /\ run' = [run EXCEPT ![r].pc = "dead",
       ![r].tx = IF @ = "committed" THEN @ ELSE "closed"]
  /\ lock' = Unlocked(r)
  /\ UNCHANGED <<row, sweep, faults>>

-----------------------------------------------------------------------------
(* compensateByCorrelationId and the retention sweep.                      *)

SweepFind ==
  /\ sweep.pc = "idle"
  /\ row.st # "NONE"
  /\ sweep' = [pc |-> "mark", left |-> row.steps]
  /\ UNCHANGED <<row, lock, run, faults, crashes>>

\* The status of the row is overwritten whatever it is by now, COMPLETED
\* included; without a row, deleted in the meantime, the call throws.
SweepSave(from, st, to) ==
  /\ sweep.pc = from
  /\ lock = Nobody
  /\ IF row.st = "NONE"
     THEN /\ sweep' = [sweep EXCEPT !.pc = "threw"]
          /\ UNCHANGED row
     ELSE /\ sweep' = [sweep EXCEPT !.pc = to]
          /\ row' = [row EXCEPT !.st = st]
  /\ UNCHANGED <<lock, run, faults, crashes>>

SweepUndo ==
  /\ sweep.pc = "undo"
  /\ sweep.left > 0
  /\ sweep' = [sweep EXCEPT !.left = @ - 1]
  /\ UNCHANGED <<row, lock, run, faults, crashes>>

SweepMark == SweepSave("mark", "COMPENSATING", "undo")

SweepClose == sweep.left = 0 /\ SweepSave("undo", "COMPENSATED", "done")

\* deleteOldSagas goes by the age of the row, never by its status.
Cleanup ==
  /\ row.st # "NONE"
  /\ lock = Nobody
  /\ row' = NoRow
  /\ UNCHANGED <<lock, run, sweep, faults, crashes>>

-----------------------------------------------------------------------------
\* What the program does by itself; the rest is chance.
Advance(r) ==
  \/ Begin(r) \/ StepRuns(r) \/ StepThrows(r) \/ GiveUp(r) \/ SaveProgress(r)
  \/ Finish(r) \/ Catch(r) \/ Commit(r) \/ CommitThrows(r)
  \/ Mark(r) \/ Undo(r) \/ Close(r)

Next ==
  \/ \E r \in Runs : Start(r) \/ Advance(r) \/ Expire(r) \/ Crash(r)
  \/ SweepFind \/ SweepMark \/ SweepUndo \/ SweepClose \/ Cleanup

Spec == Init /\ [][Next]_vars

Fairness == \A r \in Runs : WF_vars(Advance(r)) /\ WF_vars(Expire(r))

FairSpec == Spec /\ Fairness

-----------------------------------------------------------------------------
\* Type invariant.
TypeOK ==
  /\ row \in Rows
  /\ lock \in Runs \cup {Nobody}
  /\ run \in [Runs -> Executions]
  /\ sweep \in [pc : {"idle", "mark", "undo", "done", "threw"}, left : 0 .. NumSteps]
  /\ faults \in 0 .. MaxFaults
  /\ crashes \in 0 .. MaxCrashes

\* Nobody outside an execution ever sees a saga STARTED, IN_PROGRESS or FAILED:
\* one transaction carries it from its first save to COMPLETED, and what follows
\* a failure is written after that transaction is gone.  So a query for
\* IN_PROGRESS sagas past their timeout (findTimedOutSagas) finds none.
OnlyOutcomesVisible == row.st \in {"NONE", "COMPLETED", "COMPENSATING", "COMPENSATED"}

\* A transaction that commits holds every step of the saga, and its execution
\* compensates none of them unless the reply to the commit was lost.
CommittedIsWhole ==
  \A r \in Runs : run[r].tx = "committed" =>
    /\ run[r].ran = NumSteps
    /\ faults = 0 => \A k \in Steps : run[r].undone[k] = 0

\* An execution that returns has committed, or has called the compensation of
\* every step it executed, those whose progress was never saved included.
ReturnedIsSettled ==
  \A r \in Runs : run[r].pc = "returned" =>
    \/ run[r].tx = "committed"
    \/ \A k \in 1 .. run[r].ran : run[r].undone[k] > 0

\* A failed execution compensates a step twice, in the callback and in the outer
\* handler, but never more often, whatever fails in between.
CompensatedAtMostTwice == \A r \in Runs : \A k \in Steps : run[r].undone[k] <= 2

\* Compensation waits for its own transaction, and still every execution ends.
EventuallyAnswered == \A r \in Runs : run[r].pc # "idle" ~> Answered(r)

\* What the execution with the local state s is to AtomicSaga.
FateOf(s) ==
  CASE s.tx = "committed" -> "committed"
    [] s.tx = "closed" -> "failed"
    [] OTHER -> "running"

DoneBy(s) == {k \in 1 .. s.ran : s.undone[k] = 0}

ExecOf(s) == [fate |-> FateOf(s), done |-> DoneBy(s)]

Atomic == INSTANCE AtomicSaga WITH
  record   <- row.st,
  exec     <- [r \in Runs |-> ExecOf(run[r])],
  returned <- {r \in Runs : run[r].pc = "returned"}

\* With its timers, locks and two rounds of compensation the orchestrator keeps
\* the promise of AtomicSaga: all steps at once and COMPLETED, or a failure whose
\* steps are compensated, never while the transaction may still commit.
ActsAtomically == Atomic!Spec

=============================================================================
