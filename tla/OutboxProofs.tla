---------------------------- MODULE OutboxProofs ----------------------------
(***************************************************************************)
(* The safety properties of Outbox for every set of events and workers,    *)
(* every retry limit and batch size, and every number of crashes and       *)
(* failed calls.                                                           *)
(***************************************************************************)
EXTENDS Outbox, FiniteSetTheorems, TLAPS

-----------------------------------------------------------------------------
(* Types.                                                                  *)

\* The birth rank given by Publish is a number because Events is finite.
LEMMA BirthRank == Cardinality({f \in Events : birth[f] # 0}) \in Nat
<1> DEFINE B == {f \in Events : birth[f] # 0}
<1>1. B \subseteq Events OBVIOUS
<1>2. IsFiniteSet(B) BY <1>1, EventsAssumption, FS_Subset
<1>3. Cardinality(B) \in Nat BY <1>2, FS_CardinalityType
<1> QED BY <1>3

LEMMA FailureStepType ==
  ASSUME NEW w \in Workers, NEW e \in Events
  PROVE  FailureStep(w, e) \in {"deadLetter", "reschedule"}
BY DEF FailureStep

LEMMA GotoType ==
  ASSUME TypeOK, NEW w \in Workers, NEW e \in Events, NEW s \in Steps, Goto(w, e, s)
  PROVE  task' \in [Workers -> [Events -> Steps]]
BY DEF TypeOK, Goto

\* What one of the three row updates of processOutboxEvent may do to a row.
RowUpdate(e) ==
  SetProcessed(e) \/ SetFailed(e) \/ SetDeadLettered(e) \/ UNCHANGED rowVars

LEMMA RowUpdateType ==
  ASSUME TypeOK, NEW e \in Events, RowUpdate(e)
  PROVE  /\ status'   \in [Events -> Statuses]
         /\ attempts' \in [Events -> Nat]
         /\ due'      \in [Events -> BOOLEAN]
         /\ aged'     \in [Events -> BOOLEAN]
         /\ birth'    \in [Events -> Nat]
<1> USE DEF TypeOK, Statuses
<1>1. CASE SetProcessed(e) BY <1>1 DEF SetProcessed
<1>2. CASE SetFailed(e) BY <1>2 DEF SetFailed
<1>3. CASE SetDeadLettered(e) BY <1>3 DEF SetDeadLettered
<1>4. CASE UNCHANGED rowVars BY <1>4 DEF rowVars
<1> QED BY <1>1, <1>2, <1>3, <1>4 DEF RowUpdate

\* The steps that update one row and move one task, and touch nothing else of
\* the queues and workers.
LEMMA RowStepType ==
  ASSUME TypeOK, NEW w \in Workers, NEW e \in Events, NEW s \in Steps,
         RowUpdate(e), Goto(w, e, s), UNCHANGED <<phase, rounds, seen, queueVars, crashes, contested>>,
         faults' \in Nat, faulted' \subseteq Events
  PROVE  TypeOK'
<1>1. task' \in [Workers -> [Events -> Steps]] BY GotoType
<1> QED BY <1>1, RowUpdateType DEF TypeOK, queueVars

LEMMA TypeInit == Init => TypeOK
BY DEF Init, TypeOK, Statuses, Phases, Steps, NoTask, NoSeen

LEMMA TypeStep == TypeOK /\ [Next]_vars => TypeOK'
<1> USE DEF TypeOK, Statuses, Phases, Steps
<1> SUFFICES ASSUME TypeOK, [Next]_vars PROVE TypeOK'
  OBVIOUS
<1>1. CASE Produce
  <2>1. ASSUME NEW S \in SUBSET Events, Publish(S) PROVE TypeOK'
    <3>1. birth' \in [Events -> Nat] BY <2>1, BirthRank DEF Publish
    <3> QED BY <2>1, <3>1 DEF Publish, workerVars, queueVars, faultVars
  <2>2. ASSUME NEW e \in Events, PublishDirect(e) PROVE TypeOK'
    BY <2>2 DEF PublishDirect, rowVars, workerVars, faultVars
  <2> QED BY <1>1, <2>1, <2>2 DEF Produce
<1>2. ASSUME NEW w \in Workers, Drain(w) PROVE TypeOK'
  <2> USE DEF rowVars, queueVars, faultVars, MarkClaimed, NoTask, NoSeen, Fault
  <2>1. CASE StartDrain(w) BY <2>1 DEF StartDrain
  <2>2. CASE Claim(w)
    <3>1. PICK C \in Batches :
            /\ MarkClaimed(C)
            /\ task' = [task EXCEPT ![w] =
                          [e \in Events |-> IF e \in C THEN "enqueue" ELSE "none"]]
            /\ seen' = [seen EXCEPT ![w] =
                          [e \in Events |-> IF e \in C THEN attempts[e] ELSE 0]]
            /\ phase' = [phase EXCEPT ![w] = IF C = {} THEN "idle" ELSE "batch"]
      BY <2>2 DEF Claim
    <3>2. [e \in Events |-> IF e \in C THEN "enqueue" ELSE "none"] \in [Events -> Steps]
      OBVIOUS
    <3>3. [e \in Events |-> IF e \in C THEN attempts[e] ELSE 0] \in [Events -> Nat]
      OBVIOUS
    <3>4. task' \in [Workers -> [Events -> Steps]] BY <3>1, <3>2
    <3>5. seen' \in [Workers -> [Events -> Nat]] BY <3>1, <3>3
    <3> QED BY <2>2, <3>1, <3>4, <3>5 DEF Claim
  <2>3. CASE ClaimFails(w)
    <3>1. PICK C \in SUBSET Events : MarkClaimed(C) /\ faulted' = faulted \union C
      BY <2>3 DEF ClaimFails, Batches, Claimable
    <3>2. status' \in [Events -> Statuses] /\ aged' \in [Events -> BOOLEAN]
      BY <3>1
    <3>3. phase' \in [Workers -> Phases] /\ faults' \in Nat BY <2>3 DEF ClaimFails
    <3> QED BY <2>3, <3>1, <3>2, <3>3 DEF ClaimFails
  <2>4. CASE BatchSettled(w) BY <2>4 DEF BatchSettled
  <2>5. CASE Reap(w) BY <2>5 DEF Reap, workerVars
  <2>6. CASE Prune(w) BY <2>6 DEF Prune, workerVars
  <2>7. CASE Crash(w) BY <2>7 DEF Crash
  <2> QED BY <1>2, <2>1, <2>2, <2>3, <2>4, <2>5, <2>6, <2>7 DEF Drain
<1>3. ASSUME NEW w \in Workers, NEW e \in Events, Process(w, e) PROVE TypeOK'
  <2> USE DEF rowVars, queueVars, faultVars, AddJob
  <2>0. FailureStep(w, e) \in Steps BY FailureStepType
  <2>1. CASE Enqueue(w, e) BY <2>1, GotoType DEF Enqueue
  <2>2. CASE EnqueueFails(w, e)
    <3>1. task' \in [Workers -> [Events -> Steps]]
      BY <2>0, <2>2, GotoType DEF EnqueueFails
    <3> QED BY <2>2, <3>1 DEF EnqueueFails, Fault
  <2>3. CASE MarkProcessed(w, e)
    <3>1. RowUpdate(e) BY <2>3 DEF MarkProcessed, RowUpdate
    <3>2. \E s \in Steps : Goto(w, e, s) BY <2>0, <2>3 DEF MarkProcessed
    <3>3. UNCHANGED <<phase, rounds, seen, queueVars, faultVars>>
      BY <2>3 DEF MarkProcessed
    <3> QED BY <3>1, <3>2, <3>3, RowStepType
  <2>4. CASE MarkProcessedFails(w, e)
    <3>1. RowUpdate(e) BY <2>4 DEF MarkProcessedFails, RowUpdate
    <3>2. faults' \in Nat /\ faulted' \subseteq Events
      BY <2>4 DEF MarkProcessedFails, Fault
    <3> QED BY <2>0, <2>4, <3>1, <3>2, RowStepType DEF MarkProcessedFails
  <2>5. CASE Reschedule(w, e)
    <3>1. RowUpdate(e) BY <2>5 DEF Reschedule, RowUpdate
    <3>2. Goto(w, e, "done") /\ UNCHANGED <<phase, rounds, seen, queueVars, faultVars>>
      BY <2>5 DEF Reschedule
    <3> QED BY <3>1, <3>2, RowStepType
  <2>6. CASE RescheduleFails(w, e)
    <3>1. RowUpdate(e) BY <2>6 DEF RescheduleFails, RowUpdate
    <3>2. faults' \in Nat /\ faulted' \subseteq Events
      BY <2>6 DEF RescheduleFails, Fault
    <3> QED BY <2>6, <3>1, <3>2, RowStepType DEF RescheduleFails
  <2>7. CASE DeadLetter(w, e) BY <2>7, GotoType DEF DeadLetter
  <2>8. CASE DeadLetterFails(w, e)
    <3>1. task' \in [Workers -> [Events -> Steps]] BY <2>8, GotoType DEF DeadLetterFails
    <3>2. buried' \in [Events -> Nat] BY <2>8 DEF DeadLetterFails
    <3> QED BY <2>8, <3>1, <3>2 DEF DeadLetterFails, Fault
  <2>9. CASE Bury(w, e)
    <3>1. RowUpdate(e) BY <2>9 DEF Bury, RowUpdate
    <3>2. Goto(w, e, "done") /\ UNCHANGED <<phase, rounds, seen, queueVars, faultVars>>
      BY <2>9 DEF Bury
    <3> QED BY <3>1, <3>2, RowStepType
  <2>10. CASE BuryFails(w, e)
    <3>1. RowUpdate(e) BY <2>10 DEF BuryFails, RowUpdate
    <3>2. faults' \in Nat /\ faulted' \subseteq Events
      BY <2>10 DEF BuryFails, Fault
    <3> QED BY <2>10, <3>1, <3>2, RowStepType DEF BuryFails
  <2> QED BY <1>3, <2>1, <2>2, <2>3, <2>4, <2>5, <2>6, <2>7, <2>8, <2>9, <2>10
          DEF Process
<1>4. ASSUME NEW e \in Events, Environment(e) PROVE TypeOK'
  <2> USE DEF rowVars, workerVars, queueVars, faultVars
  <2>1. CASE BackoffElapses(e) BY <2>1 DEF BackoffElapses
  <2>2. CASE RowAges(e) BY <2>2 DEF RowAges
  <2>3. CASE JobEvicted(e) BY <2>3 DEF JobEvicted
  <2> QED BY <1>4, <2>1, <2>2, <2>3 DEF Environment
<1>5. CASE UNCHANGED vars
  BY <1>5 DEF vars, rowVars, workerVars, queueVars, faultVars
<1> QED BY <1>1, <1>2, <1>3, <1>4, <1>5 DEF Next

\* Every reachable state is well typed.
THEOREM TypeCorrect == Spec => []TypeOK
<1>1. Init => TypeOK BY TypeInit
<1>2. TypeOK /\ [Next]_vars => TypeOK' BY TypeStep
<1> QED BY <1>1, <1>2, PTL DEF Spec

-----------------------------------------------------------------------------
(* Accounting: what the steps of a worker know about the queues and the row. *)

JobsWereHanded == \A e \in jobs : handed[e] > 0

StepsKnow ==
  \A w \in Workers, e \in Events :
    /\ task[w][e] = "mark" => handed[e] > 0
    /\ task[w][e] = "bury" => buried[e] > 0
    /\ task[w][e] \in {"deadLetter", "bury"} => seen[w][e] + 1 >= MaxAttempts
    /\ task[w][e] # "none" => seen[w][e] <= attempts[e]

AccountInv ==
  TypeOK /\ JobsWereHanded /\ StepsKnow /\ SettledIsAccountedFor /\ GivenUpOnlyWhenExhausted

LEMMA HandedGrows ==
  ASSUME TypeOK, NEW e \in Events,
         handed' = handed \/ handed' = [handed EXCEPT ![e] = @ + 1]
  PROVE  \A f \in Events : handed'[f] >= handed[f]
<1> SUFFICES ASSUME NEW f \in Events PROVE handed'[f] >= handed[f]
  OBVIOUS
<1>1. handed[f] \in Nat BY DEF TypeOK
<1>2. handed'[f] = handed[f] \/ handed'[f] = handed[f] + 1 BY DEF TypeOK
<1> QED BY <1>1, <1>2

LEMMA AccountStep == AccountInv /\ [Next]_vars => AccountInv'
<1> SUFFICES ASSUME AccountInv, [Next]_vars PROVE AccountInv'
  OBVIOUS
<1>0. TypeOK /\ TypeOK' BY TypeStep DEF AccountInv
<1> DEFINE Goal == /\ JobsWereHanded' /\ StepsKnow'
                   /\ SettledIsAccountedFor' /\ GivenUpOnlyWhenExhausted'
<1> SUFFICES Goal
  BY <1>0 DEF AccountInv
<1> USE <1>0, MaxAttemptsAssumption
        DEF AccountInv, JobsWereHanded, StepsKnow, SettledIsAccountedFor, GivenUpOnlyWhenExhausted
<1>1. CASE Produce
  <2>1. ASSUME NEW S \in SUBSET Events, Publish(S) PROVE Goal
    BY <2>1 DEF Publish, Unused, workerVars, queueVars, TypeOK
  <2>2. ASSUME NEW e \in Events, PublishDirect(e) PROVE Goal
    BY <2>2 DEF PublishDirect, Unused, rowVars, workerVars, TypeOK
  <2> QED BY <1>1, <2>1, <2>2 DEF Produce
<1>2. ASSUME NEW w \in Workers, Drain(w) PROVE Goal
  <2> USE DEF rowVars, queueVars, MarkClaimed, NoTask, NoSeen, TypeOK
  <2>1. CASE StartDrain(w) BY <2>1 DEF StartDrain
  <2>2. CASE Claim(w) BY <2>2 DEF Claim, Batches, Claimable
  <2>3. CASE ClaimFails(w) BY <2>3 DEF ClaimFails
  <2>4. CASE BatchSettled(w) BY <2>4 DEF BatchSettled
  <2>5. CASE Reap(w) BY <2>5 DEF Reap, workerVars
  <2>6. CASE Prune(w) BY <2>6 DEF Prune, workerVars
  <2>7. CASE Crash(w) BY <2>7 DEF Crash
  <2> QED BY <1>2, <2>1, <2>2, <2>3, <2>4, <2>5, <2>6, <2>7 DEF Drain
<1>3. ASSUME NEW w \in Workers, NEW e \in Events, Process(w, e) PROVE Goal
  <2> USE DEF rowVars, queueVars, Goto, AddJob, FailureStep, HasRow, TypeOK
  <2>1. CASE Enqueue(w, e) BY <2>1 DEF Enqueue
  <2>2. CASE EnqueueFails(w, e)
    <3>0. handed' = handed \/ handed' = [handed EXCEPT ![e] = @ + 1]
      BY <2>2 DEF EnqueueFails
    <3>1. \A f \in Events : handed'[f] >= handed[f] BY <3>0, HandedGrows
    <3>2. JobsWereHanded' BY <2>2 DEF EnqueueFails
    <3>3. StepsKnow' BY <2>2, <3>1 DEF EnqueueFails
    <3> QED BY <2>2, <3>1, <3>2, <3>3 DEF EnqueueFails
  <2>3. CASE MarkProcessed(w, e) BY <2>3 DEF MarkProcessed, SetProcessed
  <2>4. CASE MarkProcessedFails(w, e) BY <2>4 DEF MarkProcessedFails, SetProcessed
  <2>5. CASE Reschedule(w, e) BY <2>5 DEF Reschedule, SetFailed
  <2>6. CASE RescheduleFails(w, e) BY <2>6 DEF RescheduleFails, SetFailed
  <2>7. CASE DeadLetter(w, e) BY <2>7 DEF DeadLetter
  <2>8. CASE DeadLetterFails(w, e) BY <2>8 DEF DeadLetterFails
  <2>9. CASE Bury(w, e)
    <3>1. StepsKnow' BY <2>9 DEF Bury, SetDeadLettered
    <3>2. SettledIsAccountedFor' BY <2>9 DEF Bury, SetDeadLettered
    <3>3. GivenUpOnlyWhenExhausted' BY <2>9 DEF Bury, SetDeadLettered
    <3> QED BY <2>9, <3>1, <3>2, <3>3 DEF Bury
  <2>10. CASE BuryFails(w, e)
    <3>1. StepsKnow' BY <2>10 DEF BuryFails, SetDeadLettered
    <3>2. SettledIsAccountedFor' BY <2>10 DEF BuryFails, SetDeadLettered
    <3>3. GivenUpOnlyWhenExhausted' BY <2>10 DEF BuryFails, SetDeadLettered
    <3> QED BY <2>10, <3>1, <3>2, <3>3 DEF BuryFails
  <2> QED BY <1>3, <2>1, <2>2, <2>3, <2>4, <2>5, <2>6, <2>7, <2>8, <2>9, <2>10
          DEF Process
<1>4. ASSUME NEW e \in Events, Environment(e) PROVE Goal
  BY <1>4 DEF Environment, BackoffElapses, RowAges, JobEvicted,
              rowVars, workerVars, queueVars, TypeOK
<1>5. CASE UNCHANGED vars
  BY <1>5 DEF vars, rowVars, workerVars, queueVars
<1> QED BY <1>1, <1>2, <1>3, <1>4, <1>5 DEF Next

LEMMA AccountInit == Init => AccountInv
<1> SUFFICES ASSUME Init PROVE AccountInv
  OBVIOUS
<1>1. TypeOK BY TypeInit
<1> QED BY <1>1 DEF Init, NoTask, AccountInv, JobsWereHanded, StepsKnow,
                    SettledIsAccountedFor, GivenUpOnlyWhenExhausted

LEMMA AccountAlways == Spec => []AccountInv
<1>1. Init => AccountInv BY AccountInit
<1>2. AccountInv /\ [Next]_vars => AccountInv' BY AccountStep
<1> QED BY <1>1, <1>2, PTL DEF Spec

\* No event is lost on the way out: a settled row has its event in one of the
\* two queues, whatever crashes, fails or is reclaimed in between.
THEOREM NothingLost == Spec => []SettledIsAccountedFor
<1>1. AccountInv => SettledIsAccountedFor BY DEF AccountInv
<1> QED BY <1>1, AccountAlways, PTL

\* No event is dead-lettered before its retry budget is used up, although the
\* worker decides on a copy of the row.
THEOREM BudgetUsedUp == Spec => []GivenUpOnlyWhenExhausted
<1>1. AccountInv => GivenUpOnlyWhenExhausted BY DEF AccountInv
<1> QED BY <1>1, AccountAlways, PTL

-----------------------------------------------------------------------------
(* Claims: who may hold an event that the reaper never took from a worker.  *)

OnlyBatchesHold ==
  \A w \in Workers : phase[w] # "batch" => \A e \in Events : task[w][e] \in {"none", "done"}

WaitingIsUnheld ==
  \A e \in Events \ contested :
    status[e] \in {"absent", "PENDING", "FAILED"} => ~Held(e)

ClaimInv ==
  TypeOK /\ OnlyBatchesHold /\ WaitingIsUnheld /\ SoleHolder

\* A step of a holder that moves its task on, and leaves the row waiting again
\* only when it lets go of it.
LEMMA MoveKeepsClaims ==
  ASSUME ClaimInv, NEW w \in Workers, NEW e \in Events, NEW s \in Steps,
         Holds(w, e), Goto(w, e, s), UNCHANGED <<phase, contested>>,
         \A f \in Events \ {e} : status'[f] = status[f],
         \/ s = "done"
         \/ status'[e] = status[e]
         \/ status'[e] \notin {"absent", "PENDING", "FAILED"}
  PROVE  OnlyBatchesHold' /\ WaitingIsUnheld' /\ SoleHolder'
<1> USE DEF ClaimInv, OnlyBatchesHold, WaitingIsUnheld, SoleHolder, Held, Holds
<1>1. task'[w][e] = s BY DEF Goto, TypeOK
<1>2. \A v \in Workers, f \in Events : v # w \/ f # e => task'[v][f] = task[v][f]
  BY DEF Goto, TypeOK
<1>3. OnlyBatchesHold' BY <1>2
<1>4. SoleHolder' BY <1>1, <1>2
<1>5. WaitingIsUnheld' BY <1>1, <1>2
<1> QED BY <1>3, <1>4, <1>5

LEMMA ClaimStep == ClaimInv /\ [Next]_vars => ClaimInv'
<1> SUFFICES ASSUME ClaimInv, [Next]_vars PROVE ClaimInv'
  OBVIOUS
<1>0. TypeOK /\ TypeOK' BY TypeStep DEF ClaimInv
<1> DEFINE Goal == OnlyBatchesHold' /\ WaitingIsUnheld' /\ SoleHolder'
<1> SUFFICES Goal
  BY <1>0 DEF ClaimInv
<1> USE <1>0 DEF ClaimInv, OnlyBatchesHold, WaitingIsUnheld, SoleHolder, Held, Holds
<1>1. CASE Produce
  <2>1. ASSUME NEW S \in SUBSET Events, Publish(S) PROVE Goal
    BY <2>1 DEF Publish, Unused, workerVars, faultVars, TypeOK
  <2>2. ASSUME NEW e \in Events, PublishDirect(e) PROVE Goal
    BY <2>2 DEF PublishDirect, rowVars, workerVars, faultVars
  <2> QED BY <1>1, <2>1, <2>2 DEF Produce
<1>2. ASSUME NEW w \in Workers, Drain(w) PROVE Goal
  <2> USE DEF rowVars, queueVars, faultVars, MarkClaimed, NoTask, NoSeen, TypeOK
  <2>1. CASE StartDrain(w) BY <2>1 DEF StartDrain
  <2>2. CASE Claim(w)
    <3>1. PICK C \in Batches :
            /\ MarkClaimed(C)
            /\ task' = [task EXCEPT ![w] =
                          [e \in Events |-> IF e \in C THEN "enqueue" ELSE "none"]]
            /\ phase' = [phase EXCEPT ![w] = IF C = {} THEN "idle" ELSE "batch"]
      BY <2>2 DEF Claim
    <3>2. \A e \in C : e \in Events /\ status[e] \in {"PENDING", "FAILED"}
      BY DEF Batches, Claimable
    <3>3. \A e \in Events : task'[w][e] = IF e \in C THEN "enqueue" ELSE "none"
      BY <3>1
    <3>4. \A v \in Workers \ {w} : task'[v] = task[v] /\ phase'[v] = phase[v]
      BY <3>1
    <3>5. contested' = contested BY <2>2 DEF Claim
    <3>6. OnlyBatchesHold'
      <4>1. phase'[w] # "batch" => C = {} BY <3>1
      <4> QED BY <3>3, <3>4, <4>1
    <3>7. \A e \in Events \ contested, v \in Workers :
            task'[v][e] \notin {"none", "done"}
              => status'[e] \notin {"absent", "PENDING", "FAILED"}
      BY <3>1, <3>2, <3>3, <3>4
    <3>8. SoleHolder'
      <4> SUFFICES ASSUME NEW f \in Events \ contested, NEW u \in Workers, NEW v \in Workers,
                          task'[u][f] \notin {"none", "done"},
                          task'[v][f] \notin {"none", "done"}
                   PROVE  u = v
        BY <3>5
      <4>1. CASE f \in C
        <5>1. \A x \in Workers : task[x][f] \in {"none", "done"} BY <3>2, <4>1
        <5> QED BY <3>4, <5>1
      <4>2. CASE f \notin C BY <3>3, <3>4, <4>2
      <4> QED BY <4>1, <4>2
    <3> QED BY <3>5, <3>6, <3>7, <3>8
  <2>3. CASE ClaimFails(w) BY <2>3 DEF ClaimFails
  <2>4. CASE BatchSettled(w) BY <2>4 DEF BatchSettled
  <2>5. CASE Reap(w) BY <2>5 DEF Reap, workerVars
  <2>6. CASE Prune(w) BY <2>6 DEF Prune, workerVars
  <2>7. CASE Crash(w) BY <2>7 DEF Crash
  <2> QED BY <1>2, <2>1, <2>2, <2>3, <2>4, <2>5, <2>6, <2>7 DEF Drain
<1>3. ASSUME NEW w \in Workers, NEW e \in Events, Process(w, e) PROVE Goal
  <2> USE MoveKeepsClaims
  <2>0. FailureStep(w, e) \in Steps BY FailureStepType DEF Steps
  <2> USE DEF rowVars, faultVars, Steps, Holds
  <2>1. CASE Enqueue(w, e) BY <2>1 DEF Enqueue
  <2>2. CASE EnqueueFails(w, e) BY <2>0, <2>2 DEF EnqueueFails
  <2>3. CASE MarkProcessed(w, e)
    <3>1. \A f \in Events \ {e} : status'[f] = status[f]
      BY <2>3 DEF MarkProcessed, SetProcessed, TypeOK
    <3>2. \/ status'[e] = "PROCESSED" /\ Goto(w, e, "done")
          \/ status'[e] = status[e] /\ Goto(w, e, FailureStep(w, e))
      BY <2>3 DEF MarkProcessed, SetProcessed, TypeOK
    <3>3. Holds(w, e) /\ UNCHANGED <<phase, contested>> BY <2>3 DEF MarkProcessed
    <3> QED BY <2>0, <3>1, <3>2, <3>3
  <2>4. CASE MarkProcessedFails(w, e)
    <3>1. \A f \in Events \ {e} : status'[f] = status[f]
      BY <2>4 DEF MarkProcessedFails, SetProcessed, TypeOK
    <3>2. status'[e] \in {"PROCESSED", status[e]}
      BY <2>4 DEF MarkProcessedFails, SetProcessed, TypeOK
    <3> QED BY <2>0, <2>4, <3>1, <3>2 DEF MarkProcessedFails
  <2>5. CASE Reschedule(w, e)
    <3>1. \A f \in Events \ {e} : status'[f] = status[f]
      BY <2>5 DEF Reschedule, SetFailed, TypeOK
    <3> QED BY <2>5, <3>1 DEF Reschedule
  <2>6. CASE RescheduleFails(w, e)
    <3>1. \A f \in Events \ {e} : status'[f] = status[f]
      BY <2>6 DEF RescheduleFails, SetFailed, TypeOK
    <3> QED BY <2>6, <3>1 DEF RescheduleFails
  <2>7. CASE DeadLetter(w, e) BY <2>7 DEF DeadLetter
  <2>8. CASE DeadLetterFails(w, e) BY <2>8 DEF DeadLetterFails
  <2>9. CASE Bury(w, e)
    <3>1. \A f \in Events \ {e} : status'[f] = status[f]
      BY <2>9 DEF Bury, SetDeadLettered, TypeOK
    <3> QED BY <2>9, <3>1 DEF Bury
  <2>10. CASE BuryFails(w, e)
    <3>1. \A f \in Events \ {e} : status'[f] = status[f]
      BY <2>10 DEF BuryFails, SetDeadLettered, TypeOK
    <3> QED BY <2>10, <3>1 DEF BuryFails
  <2> QED BY <1>3, <2>1, <2>2, <2>3, <2>4, <2>5, <2>6, <2>7, <2>8, <2>9, <2>10
          DEF Process
<1>4. ASSUME NEW e \in Events, Environment(e) PROVE Goal
  BY <1>4 DEF Environment, BackoffElapses, RowAges, JobEvicted,
              rowVars, workerVars, faultVars, TypeOK
<1>5. CASE UNCHANGED vars
  BY <1>5 DEF vars, rowVars, workerVars, faultVars
<1> QED BY <1>1, <1>2, <1>3, <1>4, <1>5 DEF Next

LEMMA ClaimInit == Init => ClaimInv
<1> SUFFICES ASSUME Init PROVE ClaimInv
  OBVIOUS
<1>1. TypeOK BY TypeInit
<1> QED BY <1>1 DEF Init, NoTask, ClaimInv, OnlyBatchesHold, WaitingIsUnheld,
                    SoleHolder, Held, Holds

LEMMA ClaimAlways == Spec => []ClaimInv
<1>1. Init => ClaimInv BY ClaimInit
<1>2. ClaimInv /\ [Next]_vars => ClaimInv' BY ClaimStep
<1> QED BY <1>1, <1>2, PTL DEF Spec

\* Concurrent drains never work on the same event, unless the reaper took it
\* from a worker that was still alive.
THEOREM ClaimsAreExclusive == Spec => []SoleHolder
<1>1. ClaimInv => SoleHolder BY DEF ClaimInv
<1> QED BY <1>1, ClaimAlways, PTL

-----------------------------------------------------------------------------
(* The retry budget: the copy of a sole holder is the row.                  *)

BudgetLeft ==
  \A e \in Events \ contested :
    /\ status[e] \in {"absent", "PENDING", "PROCESSING", "FAILED"}
         => attempts[e] < MaxAttempts
    /\ attempts[e] <= MaxAttempts
    /\ \A w \in Workers : Holds(w, e) =>
         /\ seen[w][e] = attempts[e]
         /\ attempts[e] < MaxAttempts
         /\ task[w][e] = "reschedule" => attempts[e] + 1 < MaxAttempts

LEMMA BudgetStep == ClaimInv /\ BudgetLeft /\ [Next]_vars => BudgetLeft'
<1> SUFFICES ASSUME ClaimInv, BudgetLeft, [Next]_vars PROVE BudgetLeft'
  OBVIOUS
<1>0. TypeOK /\ TypeOK' BY TypeStep DEF ClaimInv
<1> USE <1>0, MaxAttemptsAssumption DEF ClaimInv, BudgetLeft, SoleHolder, WaitingIsUnheld, Held, Holds
<1>1. CASE Produce
  <2>1. ASSUME NEW S \in SUBSET Events, Publish(S) PROVE BudgetLeft'
    BY <2>1 DEF Publish, Unused, workerVars, queueVars, faultVars, TypeOK
  <2>2. ASSUME NEW e \in Events, PublishDirect(e) PROVE BudgetLeft'
    BY <2>2 DEF PublishDirect, Unused, rowVars, workerVars, faultVars, TypeOK
  <2> QED BY <1>1, <2>1, <2>2 DEF Produce
<1>2. ASSUME NEW w \in Workers, Drain(w) PROVE BudgetLeft'
  <2> USE DEF rowVars, queueVars, faultVars, MarkClaimed, NoTask, NoSeen, TypeOK
  <2>1. CASE StartDrain(w) BY <2>1 DEF StartDrain
  <2>2. CASE Claim(w) BY <2>2 DEF Claim, Batches, Claimable
  <2>3. CASE ClaimFails(w) BY <2>3 DEF ClaimFails, Batches, Claimable
  <2>4. CASE BatchSettled(w) BY <2>4 DEF BatchSettled
  <2>5. CASE Reap(w) BY <2>5 DEF Reap, workerVars
  <2>6. CASE Prune(w) BY <2>6 DEF Prune, workerVars
  <2>7. CASE Crash(w) BY <2>7 DEF Crash
  <2> QED BY <1>2, <2>1, <2>2, <2>3, <2>4, <2>5, <2>6, <2>7 DEF Drain
<1>3. ASSUME NEW w \in Workers, NEW e \in Events, Process(w, e) PROVE BudgetLeft'
  <2> USE DEF rowVars, queueVars, faultVars, Goto, AddJob, FailureStep, HasRow, TypeOK
  <2>1. CASE Enqueue(w, e) BY <2>1 DEF Enqueue
  <2>2. CASE EnqueueFails(w, e) BY <2>2 DEF EnqueueFails
  <2>3. CASE MarkProcessed(w, e)
    <3>1. CASE HasRow(e)
      <4>1. /\ status' = [status EXCEPT ![e] = "PROCESSED"]
            /\ task' = [task EXCEPT ![w][e] = "done"]
        BY <2>3, <3>1 DEF MarkProcessed, SetProcessed
      <4> QED BY <2>3, <3>1, <4>1 DEF MarkProcessed, SetProcessed
    <3>2. CASE ~HasRow(e)
      <4>1. UNCHANGED rowVars /\ Goto(w, e, FailureStep(w, e))
        BY <2>3, <3>2 DEF MarkProcessed
      <4> QED BY <2>3, <3>2, <4>1 DEF MarkProcessed
    <3> QED BY <3>1, <3>2
  <2>4. CASE MarkProcessedFails(w, e) BY <2>4 DEF MarkProcessedFails, SetProcessed
  <2>5. CASE Reschedule(w, e) BY <2>5 DEF Reschedule, SetFailed
  <2>6. CASE RescheduleFails(w, e) BY <2>6 DEF RescheduleFails, SetFailed
  <2>7. CASE DeadLetter(w, e) BY <2>7 DEF DeadLetter
  <2>8. CASE DeadLetterFails(w, e) BY <2>8 DEF DeadLetterFails
  <2>9. CASE Bury(w, e) BY <2>9 DEF Bury, SetDeadLettered
  <2>10. CASE BuryFails(w, e) BY <2>10 DEF BuryFails, SetDeadLettered
  <2> QED BY <1>3, <2>1, <2>2, <2>3, <2>4, <2>5, <2>6, <2>7, <2>8, <2>9, <2>10
          DEF Process
<1>4. ASSUME NEW e \in Events, Environment(e) PROVE BudgetLeft'
  BY <1>4 DEF Environment, BackoffElapses, RowAges, JobEvicted,
              rowVars, workerVars, queueVars, faultVars, TypeOK
<1>5. CASE UNCHANGED vars
  BY <1>5 DEF vars, rowVars, workerVars, queueVars, faultVars
<1> QED BY <1>1, <1>2, <1>3, <1>4, <1>5 DEF Next

LEMMA BudgetAlways == Spec => [](ClaimInv /\ BudgetLeft)
<1>1. Init => BudgetLeft
  BY MaxAttemptsAssumption DEF Init, NoTask, BudgetLeft, Holds
<1>2. ClaimInv /\ BudgetLeft /\ [Next]_vars => BudgetLeft' BY BudgetStep
<1> QED BY <1>1, <1>2, ClaimAlways, PTL DEF Spec

\* The attempts counter of the row never passes max_attempts as long as no
\* live worker was undercut by the reaper.
THEOREM BudgetKept == Spec => []WithinRetryBudget
<1>1. BudgetLeft => WithinRetryBudget BY DEF BudgetLeft, WithinRetryBudget
<1> QED BY <1>1, BudgetAlways, PTL

-----------------------------------------------------------------------------
(* Stranded rows.                                                          *)

LEMMA StrandedStep == ClaimInv /\ StrandedOnlyByFailure /\ [Next]_vars => StrandedOnlyByFailure'
<1> SUFFICES ASSUME ClaimInv, StrandedOnlyByFailure, [Next]_vars PROVE StrandedOnlyByFailure'
  OBVIOUS
<1>0. TypeOK /\ TypeOK' BY TypeStep DEF ClaimInv
<1> USE <1>0 DEF ClaimInv, StrandedOnlyByFailure, SoleHolder, OnlyBatchesHold, Held, Holds
<1>1. CASE Produce
  <2>1. ASSUME NEW S \in SUBSET Events, Publish(S) PROVE StrandedOnlyByFailure'
    BY <2>1 DEF Publish, Unused, workerVars, queueVars, faultVars, TypeOK
  <2>2. ASSUME NEW e \in Events, PublishDirect(e) PROVE StrandedOnlyByFailure'
    BY <2>2 DEF PublishDirect, Unused, rowVars, workerVars, faultVars, TypeOK
  <2> QED BY <1>1, <2>1, <2>2 DEF Produce
<1>2. ASSUME NEW w \in Workers, Drain(w) PROVE StrandedOnlyByFailure'
  <2> USE DEF rowVars, queueVars, faultVars, MarkClaimed, NoTask, NoSeen, TypeOK
  <2>1. CASE StartDrain(w) BY <2>1 DEF StartDrain
  <2>2. CASE Claim(w) BY <2>2 DEF Claim, Batches, Claimable
  <2>3. CASE ClaimFails(w) BY <2>3 DEF ClaimFails, Batches, Claimable
  <2>4. CASE BatchSettled(w) BY <2>4 DEF BatchSettled
  <2>5. CASE Reap(w) BY <2>5 DEF Reap, workerVars
  <2>6. CASE Prune(w) BY <2>6 DEF Prune, workerVars
  <2>7. CASE Crash(w) BY <2>7 DEF Crash
  <2> QED BY <1>2, <2>1, <2>2, <2>3, <2>4, <2>5, <2>6, <2>7 DEF Drain
<1>3. ASSUME NEW w \in Workers, NEW e \in Events, Process(w, e) PROVE StrandedOnlyByFailure'
  <2> USE DEF rowVars, queueVars, faultVars, Goto, AddJob, FailureStep, HasRow, TypeOK
  <2>1. CASE Enqueue(w, e) BY <2>1 DEF Enqueue
  <2>2. CASE EnqueueFails(w, e) BY <2>2 DEF EnqueueFails
  <2>3. CASE MarkProcessed(w, e)
    <3>1. CASE HasRow(e)
      <4>1. /\ status' = [status EXCEPT ![e] = "PROCESSED"]
            /\ task' = [task EXCEPT ![w][e] = "done"]
        BY <2>3, <3>1 DEF MarkProcessed, SetProcessed
      <4> QED BY <2>3, <3>1, <4>1 DEF MarkProcessed, SetProcessed
    <3>2. CASE ~HasRow(e)
      <4>1. UNCHANGED rowVars /\ Goto(w, e, FailureStep(w, e))
        BY <2>3, <3>2 DEF MarkProcessed
      <4> QED BY <2>3, <3>2, <4>1 DEF MarkProcessed
    <3> QED BY <3>1, <3>2
  <2>4. CASE MarkProcessedFails(w, e) BY <2>4 DEF MarkProcessedFails, SetProcessed
  <2>5. CASE Reschedule(w, e)
    <3>1. CASE HasRow(e) BY <2>5, <3>1 DEF Reschedule, SetFailed
    <3>2. CASE ~HasRow(e)
      <4>1. UNCHANGED rowVars /\ Goto(w, e, "done") BY <2>5, <3>2 DEF Reschedule
      <4> QED BY <2>5, <3>2, <4>1 DEF Reschedule
    <3> QED BY <3>1, <3>2
  <2>6. CASE RescheduleFails(w, e) BY <2>6 DEF RescheduleFails, SetFailed
  <2>7. CASE DeadLetter(w, e) BY <2>7 DEF DeadLetter
  <2>8. CASE DeadLetterFails(w, e) BY <2>8 DEF DeadLetterFails
  <2>9. CASE Bury(w, e)
    <3>1. CASE HasRow(e) BY <2>9, <3>1 DEF Bury, SetDeadLettered
    <3>2. CASE ~HasRow(e)
      <4>1. UNCHANGED rowVars /\ Goto(w, e, "done") BY <2>9, <3>2 DEF Bury
      <4> QED BY <2>9, <3>2, <4>1 DEF Bury
    <3> QED BY <3>1, <3>2
  <2>10. CASE BuryFails(w, e) BY <2>10 DEF BuryFails, SetDeadLettered
  <2> QED BY <1>3, <2>1, <2>2, <2>3, <2>4, <2>5, <2>6, <2>7, <2>8, <2>9, <2>10
          DEF Process
<1>4. ASSUME NEW e \in Events, Environment(e) PROVE StrandedOnlyByFailure'
  BY <1>4 DEF Environment, BackoffElapses, RowAges, JobEvicted,
              rowVars, workerVars, queueVars, faultVars, TypeOK
<1>5. CASE UNCHANGED vars
  BY <1>5 DEF vars, rowVars, workerVars, queueVars, faultVars
<1> QED BY <1>1, <1>2, <1>3, <1>4, <1>5 DEF Next

LEMMA StrandedAlways == Spec => [](ClaimInv /\ StrandedOnlyByFailure)
<1>1. Init => StrandedOnlyByFailure BY DEF Init, StrandedOnlyByFailure
<1>2. ClaimInv /\ StrandedOnlyByFailure /\ [Next]_vars => StrandedOnlyByFailure'
  BY StrandedStep
<1> QED BY <1>1, <1>2, ClaimAlways, PTL DEF Spec

\* The drain loop itself leaves no row in PROCESSING: without a crash, a failed
\* call or a premature reclaim there is nothing for the reaper to do.
THEOREM NothingStranded == Spec => []StrandedOnlyByFailure
<1> QED BY StrandedAlways, PTL

-----------------------------------------------------------------------------
(* Undisturbed events: the normal path hands over exactly once.            *)

OnceInv ==
  \A e \in Events \ (contested \union faulted) :
    /\ handed[e] <= 1
    /\ status[e] \notin {"FAILED", "DEAD_LETTERED"}
    /\ status[e] = "PENDING" => handed[e] = 0
    /\ \A w \in Workers :
         /\ task[w][e] \in {"none", "enqueue", "mark", "done"}
         /\ task[w][e] \in {"enqueue", "mark"} => status[e] = "PROCESSING"
         /\ task[w][e] = "enqueue" => handed[e] = 0

LEMMA OnceStep == ClaimInv /\ StrandedOnlyByFailure /\ OnceInv /\ [Next]_vars => OnceInv'
<1> SUFFICES ASSUME ClaimInv, StrandedOnlyByFailure, OnceInv, [Next]_vars PROVE OnceInv'
  OBVIOUS
<1>0. TypeOK /\ TypeOK' BY TypeStep DEF ClaimInv
<1> USE <1>0, MaxAttemptsAssumption DEF ClaimInv, OnceInv, SoleHolder, WaitingIsUnheld, Held, Holds, StrandedOnlyByFailure
<1>1. CASE Produce
  <2>1. ASSUME NEW S \in SUBSET Events, Publish(S) PROVE OnceInv'
    BY <2>1 DEF Publish, Unused, workerVars, queueVars, faultVars, TypeOK
  <2>2. ASSUME NEW e \in Events, PublishDirect(e) PROVE OnceInv'
    BY <2>2 DEF PublishDirect, Unused, rowVars, workerVars, faultVars, TypeOK
  <2> QED BY <1>1, <2>1, <2>2 DEF Produce
<1>2. ASSUME NEW w \in Workers, Drain(w) PROVE OnceInv'
  <2> USE DEF rowVars, queueVars, faultVars, MarkClaimed, NoTask, NoSeen, TypeOK
  <2>1. CASE StartDrain(w) BY <2>1 DEF StartDrain
  <2>2. CASE Claim(w) BY <2>2 DEF Claim, Batches, Claimable
  <2>3. CASE ClaimFails(w) BY <2>3 DEF ClaimFails, Batches, Claimable
  <2>4. CASE BatchSettled(w) BY <2>4 DEF BatchSettled
  <2>5. CASE Reap(w) BY <2>5 DEF Reap, workerVars
  <2>6. CASE Prune(w) BY <2>6 DEF Prune, workerVars
  <2>7. CASE Crash(w) BY <2>7 DEF Crash
  <2> QED BY <1>2, <2>1, <2>2, <2>3, <2>4, <2>5, <2>6, <2>7 DEF Drain
<1>3. ASSUME NEW w \in Workers, NEW e \in Events, Process(w, e) PROVE OnceInv'
  <2> USE DEF rowVars, queueVars, faultVars, Goto, AddJob, FailureStep, HasRow, TypeOK
  <2>1. CASE Enqueue(w, e) BY <2>1 DEF Enqueue
  <2>2. CASE EnqueueFails(w, e) BY <2>2 DEF EnqueueFails
  <2>3. CASE MarkProcessed(w, e)
    <3>1. CASE HasRow(e)
      <4>1. /\ status' = [status EXCEPT ![e] = "PROCESSED"]
            /\ task' = [task EXCEPT ![w][e] = "done"]
        BY <2>3, <3>1 DEF MarkProcessed, SetProcessed
      <4> QED BY <2>3, <3>1, <4>1 DEF MarkProcessed, SetProcessed
    <3>2. CASE ~HasRow(e)
      <4>1. UNCHANGED rowVars /\ Goto(w, e, FailureStep(w, e))
        BY <2>3, <3>2 DEF MarkProcessed
      <4> QED BY <2>3, <3>2, <4>1 DEF MarkProcessed
    <3> QED BY <3>1, <3>2
  <2>4. CASE MarkProcessedFails(w, e) BY <2>4 DEF MarkProcessedFails, SetProcessed
  <2>5. CASE Reschedule(w, e) BY <2>5 DEF Reschedule, SetFailed
  <2>6. CASE RescheduleFails(w, e) BY <2>6 DEF RescheduleFails, SetFailed
  <2>7. CASE DeadLetter(w, e) BY <2>7 DEF DeadLetter
  <2>8. CASE DeadLetterFails(w, e) BY <2>8 DEF DeadLetterFails
  <2>9. CASE Bury(w, e) BY <2>9 DEF Bury, SetDeadLettered
  <2>10. CASE BuryFails(w, e) BY <2>10 DEF BuryFails, SetDeadLettered
  <2> QED BY <1>3, <2>1, <2>2, <2>3, <2>4, <2>5, <2>6, <2>7, <2>8, <2>9, <2>10
          DEF Process
<1>4. ASSUME NEW e \in Events, Environment(e) PROVE OnceInv'
  BY <1>4 DEF Environment, BackoffElapses, RowAges, JobEvicted,
              rowVars, workerVars, queueVars, faultVars, TypeOK
<1>5. CASE UNCHANGED vars
  BY <1>5 DEF vars, rowVars, workerVars, queueVars, faultVars
<1> QED BY <1>1, <1>2, <1>3, <1>4, <1>5 DEF Next

LEMMA OnceAlways == Spec => []OnceInv
<1>1. Init => OnceInv BY DEF Init, NoTask, OnceInv
<1>2. ClaimInv /\ StrandedOnlyByFailure /\ OnceInv /\ [Next]_vars => OnceInv'
  BY OnceStep
<1> QED BY <1>1, <1>2, StrandedAlways, PTL DEF Spec

\* Without a crash, a failed call or a premature reclaim an event reaches the
\* domain queue at most once, even when BullMQ no longer remembers its job id.
THEOREM HandedOnce == Spec => []HandedOnceUndisturbed
<1>1. OnceInv => HandedOnceUndisturbed BY DEF OnceInv, HandedOnceUndisturbed
<1> QED BY <1>1, OnceAlways, PTL

-----------------------------------------------------------------------------
(* Settled rows, and the refinement of EventDelivery.                      *)

\* A settled row that nobody works on is only ever touched by the retention
\* sweep.
THEOREM SettledStays == Spec => SettledStaysSettled
<1> DEFINE Stays ==
      \A e \in Events :
        status[e] \in {"PROCESSED", "DEAD_LETTERED"} /\ ~Held(e)
          => \/ status'[e] = status[e]
             \/ status[e] = "PROCESSED" /\ aged[e] /\ status'[e] = "pruned"
<1>1. TypeOK /\ [Next]_vars => [Stays]_vars
  <2> SUFFICES ASSUME TypeOK, Next, NEW e \in Events,
                      status[e] \in {"PROCESSED", "DEAD_LETTERED"}, ~Held(e)
               PROVE  \/ status'[e] = status[e]
                      \/ status[e] = "PROCESSED" /\ aged[e] /\ status'[e] = "pruned"
    OBVIOUS
  <2> USE DEF TypeOK, rowVars
  <2>1. CASE Produce BY <2>1 DEF Produce, Publish, Unused, PublishDirect
  <2>2. ASSUME NEW w \in Workers, Drain(w)
        PROVE  \/ status'[e] = status[e]
               \/ status[e] = "PROCESSED" /\ aged[e] /\ status'[e] = "pruned"
    <3>1. CASE StartDrain(w) BY <3>1 DEF StartDrain
    <3>2. CASE Claim(w) BY <3>2 DEF Claim, MarkClaimed, Batches, Claimable
    <3>3. CASE ClaimFails(w) BY <3>3 DEF ClaimFails, MarkClaimed, Batches, Claimable
    <3>4. CASE BatchSettled(w) BY <3>4 DEF BatchSettled
    <3>5. CASE Reap(w) BY <3>5 DEF Reap
    <3>6. CASE Prune(w) BY <3>6 DEF Prune
    <3>7. CASE Crash(w) BY <3>7 DEF Crash
    <3> QED BY <2>2, <3>1, <3>2, <3>3, <3>4, <3>5, <3>6, <3>7 DEF Drain
  <2>3. ASSUME NEW w \in Workers, NEW f \in Events, Process(w, f)
        PROVE  status'[e] = status[e]
    <3>1. Holds(w, f)
      BY <2>3 DEF Process, Holds, Enqueue, EnqueueFails, MarkProcessed, MarkProcessedFails,
                  Reschedule, RescheduleFails, DeadLetter, DeadLetterFails, Bury, BuryFails
    <3>2. f # e BY <3>1 DEF Held
    <3> QED BY <2>3, <3>2
            DEF Process, Enqueue, EnqueueFails, MarkProcessed, MarkProcessedFails,
                Reschedule, RescheduleFails, DeadLetter, DeadLetterFails, Bury, BuryFails,
                SetProcessed, SetFailed, SetDeadLettered
  <2>4. ASSUME NEW f \in Events, Environment(f) PROVE status'[e] = status[e]
    BY <2>4 DEF Environment, BackoffElapses, RowAges, JobEvicted
  <2> QED BY <2>1, <2>2, <2>3, <2>4 DEF Next
<1> QED BY <1>1, TypeCorrect, PTL DEF Spec, SettledStaysSettled

\* A worker only ever copies rows that exist.
TakenRowsExist ==
  \A w \in Workers, e \in Events : task[w][e] # "none" => status[e] # "absent"

LEMMA TakenStep == TypeOK /\ TakenRowsExist /\ [Next]_vars => TakenRowsExist'
<1> SUFFICES ASSUME TypeOK, TakenRowsExist, [Next]_vars PROVE TakenRowsExist'
  OBVIOUS
<1> USE DEF TakenRowsExist
<1>1. CASE Produce
  <2>1. ASSUME NEW S \in SUBSET Events, Publish(S) PROVE TakenRowsExist'
    BY <2>1 DEF Publish, Unused, workerVars, queueVars, faultVars, TypeOK
  <2>2. ASSUME NEW e \in Events, PublishDirect(e) PROVE TakenRowsExist'
    BY <2>2 DEF PublishDirect, Unused, rowVars, workerVars, faultVars, TypeOK
  <2> QED BY <1>1, <2>1, <2>2 DEF Produce
<1>2. ASSUME NEW w \in Workers, Drain(w) PROVE TakenRowsExist'
  <2> USE DEF rowVars, queueVars, faultVars, MarkClaimed, NoTask, NoSeen, TypeOK
  <2>1. CASE StartDrain(w) BY <2>1 DEF StartDrain
  <2>2. CASE Claim(w) BY <2>2 DEF Claim, Batches, Claimable
  <2>3. CASE ClaimFails(w) BY <2>3 DEF ClaimFails, Batches, Claimable
  <2>4. CASE BatchSettled(w) BY <2>4 DEF BatchSettled
  <2>5. CASE Reap(w) BY <2>5 DEF Reap, workerVars
  <2>6. CASE Prune(w) BY <2>6 DEF Prune, workerVars
  <2>7. CASE Crash(w) BY <2>7 DEF Crash
  <2> QED BY <1>2, <2>1, <2>2, <2>3, <2>4, <2>5, <2>6, <2>7 DEF Drain
<1>3. ASSUME NEW w \in Workers, NEW e \in Events, Process(w, e) PROVE TakenRowsExist'
  <2> USE DEF rowVars, queueVars, faultVars, Goto, AddJob, FailureStep, HasRow, TypeOK
  <2>1. CASE Enqueue(w, e) BY <2>1 DEF Enqueue
  <2>2. CASE EnqueueFails(w, e) BY <2>2 DEF EnqueueFails
  <2>3. CASE MarkProcessed(w, e)
    <3>1. CASE HasRow(e)
      <4>1. /\ status' = [status EXCEPT ![e] = "PROCESSED"]
            /\ task' = [task EXCEPT ![w][e] = "done"]
        BY <2>3, <3>1 DEF MarkProcessed, SetProcessed
      <4> QED BY <2>3, <3>1, <4>1 DEF MarkProcessed, SetProcessed
    <3>2. CASE ~HasRow(e)
      <4>1. UNCHANGED rowVars /\ Goto(w, e, FailureStep(w, e))
        BY <2>3, <3>2 DEF MarkProcessed
      <4> QED BY <2>3, <3>2, <4>1 DEF MarkProcessed
    <3> QED BY <3>1, <3>2
  <2>4. CASE MarkProcessedFails(w, e) BY <2>4 DEF MarkProcessedFails, SetProcessed
  <2>5. CASE Reschedule(w, e)
    <3>1. CASE HasRow(e) BY <2>5, <3>1 DEF Reschedule, SetFailed
    <3>2. CASE ~HasRow(e)
      <4>1. UNCHANGED rowVars /\ Goto(w, e, "done") BY <2>5, <3>2 DEF Reschedule
      <4> QED BY <2>5, <3>2, <4>1 DEF Reschedule
    <3> QED BY <3>1, <3>2
  <2>6. CASE RescheduleFails(w, e) BY <2>6 DEF RescheduleFails, SetFailed
  <2>7. CASE DeadLetter(w, e) BY <2>7 DEF DeadLetter
  <2>8. CASE DeadLetterFails(w, e) BY <2>8 DEF DeadLetterFails
  <2>9. CASE Bury(w, e)
    <3>1. CASE HasRow(e) BY <2>9, <3>1 DEF Bury, SetDeadLettered
    <3>2. CASE ~HasRow(e)
      <4>1. UNCHANGED rowVars /\ Goto(w, e, "done") BY <2>9, <3>2 DEF Bury
      <4> QED BY <2>9, <3>2, <4>1 DEF Bury
    <3> QED BY <3>1, <3>2
  <2>10. CASE BuryFails(w, e) BY <2>10 DEF BuryFails, SetDeadLettered
  <2> QED BY <1>3, <2>1, <2>2, <2>3, <2>4, <2>5, <2>6, <2>7, <2>8, <2>9, <2>10
          DEF Process
<1>4. ASSUME NEW e \in Events, Environment(e) PROVE TakenRowsExist'
  BY <1>4 DEF Environment, BackoffElapses, RowAges, JobEvicted,
              rowVars, workerVars, queueVars, faultVars, TypeOK
<1>5. CASE UNCHANGED vars
  BY <1>5 DEF vars, rowVars, workerVars, queueVars, faultVars
<1> QED BY <1>1, <1>2, <1>3, <1>4, <1>5 DEF Next


LEMMA TakenAlways == Spec => []TakenRowsExist
<1>1. Init => TakenRowsExist BY DEF Init, NoTask, TakenRowsExist
<1>2. TypeOK /\ TakenRowsExist /\ [Next]_vars => TakenRowsExist' BY TakenStep
<1> QED BY <1>1, <1>2, TypeCorrect, PTL DEF Spec

\* The abstract stage of a row.
Stage(e) == IF status[e] = "absent" THEN "unknown"
            ELSE IF Settled(e) THEN "settled" ELSE "owed"

\* A step of the row of one event that leaves the queues alone is a stutter,
\* or settles the event, or reopens it.
LEMMA RowStepRefines ==
  ASSUME AccountInv, TypeOK', NEW e \in Events, RowUpdate(e),
         UNCHANGED <<handed, buried>>, HasRow(e) \/ UNCHANGED rowVars,
         handed[e] > 0 \/ buried[e] > 0 \/ ~Settled(e)' \/ UNCHANGED rowVars
  PROVE  [Promise!Next]_(Promise!vars)
<1> USE DEF RowUpdate, Promise!vars
<1>1. CASE UNCHANGED rowVars BY <1>1 DEF rowVars, Settled
<1>2. CASE ~UNCHANGED rowVars
  <2>1. \A f \in Events \ {e} : Stage(f)' = Stage(f)
    BY <1>2 DEF SetProcessed, SetFailed, SetDeadLettered, Stage, Settled, AccountInv, TypeOK
  <2>2. Stage(e) \in {"owed", "settled"} /\ Stage(e)' \in {"owed", "settled"}
    BY <1>2 DEF SetProcessed, SetFailed, SetDeadLettered, Stage, Settled, HasRow, AccountInv, TypeOK
  <2>3. CASE Stage(e)' = Stage(e)
    BY <2>1, <2>3 DEF Stage
  <2>4. CASE Stage(e) = "owed" /\ Stage(e)' = "settled"
    <3>1. handed[e] > 0 \/ buried[e] > 0 BY <1>2, <2>4 DEF Stage
    <3>2. Promise!Settle(e) BY <2>1, <2>4, <3>1 DEF Promise!Settle, Stage
    <3> QED BY <3>2 DEF Promise!Next
  <2>5. CASE Stage(e) = "settled" /\ Stage(e)' = "owed"
    <3>1. Promise!Reopen(e) BY <2>1, <2>5 DEF Promise!Reopen, Stage
    <3> QED BY <3>1 DEF Promise!Next
  <2> QED BY <2>2, <2>3, <2>4, <2>5
<1> QED BY <1>1, <1>2

LEMMA InitRefines == Init => Promise!Init
BY DEF Init, Promise!Init

LEMMA StepRefines ==
  AccountInv /\ AccountInv' /\ TakenRowsExist /\ [Next]_vars => [Promise!Next]_(Promise!vars)
<1> SUFFICES ASSUME AccountInv, AccountInv', TakenRowsExist, [Next]_vars
             PROVE  [Promise!Next]_(Promise!vars)
  OBVIOUS
<1> USE DEF AccountInv
<1>a. ASSUME UNCHANGED <<handed, buried>>, \A f \in Events : Stage(f)' = Stage(f)
      PROVE  UNCHANGED Promise!vars
  BY <1>a DEF Promise!vars, Stage
<1>b. ASSUME NEW e \in Events, UNCHANGED <<status, buried>>, AddJob(e)
      PROVE  [Promise!Next]_(Promise!vars)
  <2>1. Promise!Hand(e)
    BY <1>b DEF Promise!Hand, AddJob, JobsWereHanded, TypeOK, Settled
  <2> QED BY <2>1 DEF Promise!Next
<1>c. ASSUME UNCHANGED <<status, handed, buried>>
      PROVE  [Promise!Next]_(Promise!vars)
  BY <1>c, <1>a DEF Stage, Settled
<1>1. CASE Produce
  <2>1. ASSUME NEW S \in SUBSET Events, Publish(S) PROVE [Promise!Next]_(Promise!vars)
    <3>1. Promise!Accept(S)
      BY <2>1 DEF Promise!Accept, Publish, Unused, Settled, queueVars, TypeOK
    <3> QED BY <3>1 DEF Promise!Next
  <2>2. ASSUME NEW e \in Events, PublishDirect(e) PROVE [Promise!Next]_(Promise!vars)
    <3>1. Promise!Hand(e)
      BY <2>2 DEF Promise!Hand, PublishDirect, Settled, rowVars, TypeOK
    <3> QED BY <3>1 DEF Promise!Next
  <2> QED BY <1>1, <2>1, <2>2 DEF Produce
<1>2. ASSUME NEW w \in Workers, Drain(w) PROVE [Promise!Next]_(Promise!vars)
  <2>0. UNCHANGED <<handed, buried>>
    BY <1>2 DEF Drain, StartDrain, Claim, ClaimFails, BatchSettled, Reap, Prune, Crash, queueVars
  <2>1. ASSUME NEW f \in Events PROVE Stage(f)' = Stage(f)
    <3> USE DEF Stage, Settled, TypeOK, rowVars
    <3>1. CASE StartDrain(w) BY <3>1 DEF StartDrain
    <3>2. CASE Claim(w)
      <4>1. PICK C \in Batches : MarkClaimed(C) BY <3>2 DEF Claim
      <4>2. \A e \in C : status[e] \in {"PENDING", "FAILED"} BY DEF Batches, Claimable
      <4> QED BY <4>1, <4>2 DEF MarkClaimed
    <3>3. CASE ClaimFails(w) BY <3>3 DEF ClaimFails, MarkClaimed, Batches, Claimable
    <3>4. CASE BatchSettled(w) BY <3>4 DEF BatchSettled
    <3>5. CASE Reap(w) BY <3>5 DEF Reap
    <3>6. CASE Prune(w) BY <3>6 DEF Prune
    <3>7. CASE Crash(w) BY <3>7 DEF Crash
    <3> QED BY <1>2, <3>1, <3>2, <3>3, <3>4, <3>5, <3>6, <3>7 DEF Drain
  <2> QED BY <2>0, <2>1, <1>a
<1>3. ASSUME NEW w \in Workers, NEW e \in Events, Process(w, e)
      PROVE  [Promise!Next]_(Promise!vars)
  <2>1. CASE Enqueue(w, e) BY <2>1, <1>b DEF Enqueue, rowVars
  <2>2. CASE EnqueueFails(w, e) BY <2>2, <1>b, <1>c DEF EnqueueFails, rowVars
  <2>3. CASE MarkProcessed(w, e) \/ MarkProcessedFails(w, e)
    <3>1. RowUpdate(e) /\ (HasRow(e) \/ UNCHANGED rowVars) /\ UNCHANGED <<handed, buried>>
      BY <2>3 DEF MarkProcessed, MarkProcessedFails, RowUpdate, queueVars
    <3>2. handed[e] > 0 BY <2>3 DEF MarkProcessed, MarkProcessedFails, StepsKnow
    <3> QED BY <3>1, <3>2, RowStepRefines
  <2>4. CASE Reschedule(w, e) \/ RescheduleFails(w, e)
    <3>1. (SetFailed(e) /\ HasRow(e)) \/ UNCHANGED rowVars
      BY <2>4 DEF Reschedule, RescheduleFails
    <3>2. UNCHANGED <<handed, buried>>
      BY <2>4 DEF Reschedule, RescheduleFails, queueVars
    <3>3. SetFailed(e) => ~Settled(e)' BY DEF SetFailed, Settled, TypeOK
    <3> QED BY <3>1, <3>2, <3>3, RowStepRefines DEF RowUpdate
  <2>5. CASE DeadLetter(w, e) \/ DeadLetterFails(w, e)
    <3>1. status[e] # "absent" /\ UNCHANGED <<status, handed>>
      BY <2>5 DEF DeadLetter, DeadLetterFails, TakenRowsExist, rowVars
    <3>2. CASE UNCHANGED buried BY <3>1, <3>2, <1>c
    <3>3. CASE buried' = [buried EXCEPT ![e] = @ + 1]
      <4>1. Promise!BuryEvent(e)
        BY <3>1, <3>3 DEF Promise!BuryEvent, Settled, TypeOK
      <4> QED BY <4>1 DEF Promise!Next
    <3> QED BY <2>5, <3>2, <3>3 DEF DeadLetter, DeadLetterFails
  <2>6. CASE Bury(w, e) \/ BuryFails(w, e)
    <3>1. RowUpdate(e) /\ (HasRow(e) \/ UNCHANGED rowVars) /\ UNCHANGED <<handed, buried>>
      BY <2>6 DEF Bury, BuryFails, RowUpdate, queueVars
    <3>2. buried[e] > 0 BY <2>6 DEF Bury, BuryFails, StepsKnow
    <3> QED BY <3>1, <3>2, RowStepRefines
  <2> QED BY <1>3, <2>1, <2>2, <2>3, <2>4, <2>5, <2>6 DEF Process
<1>4. ASSUME NEW e \in Events, Environment(e) PROVE [Promise!Next]_(Promise!vars)
  <2>1. UNCHANGED <<status, handed, buried>>
    BY <1>4 DEF Environment, BackoffElapses, RowAges, JobEvicted, rowVars, queueVars
  <2> QED BY <2>1, <1>c
<1>5. CASE UNCHANGED vars
  BY <1>5, <1>c DEF vars, rowVars, queueVars
<1> QED BY <1>1, <1>2, <1>3, <1>4, <1>5 DEF Next

\* The outbox keeps the at-least-once promise of EventDelivery: every step of
\* every drain is a step of the promise or leaves it alone.
THEOREM OutboxKeepsPromise == Spec => DeliversAtLeastOnce
<1>1. Init => Promise!Init BY InitRefines
<1>2. AccountInv /\ AccountInv' /\ TakenRowsExist /\ [Next]_vars
        => [Promise!Next]_(Promise!vars)
  BY StepRefines
<1> QED BY <1>1, <1>2, AccountAlways, TakenAlways, PTL
        DEF Spec, DeliversAtLeastOnce, Promise!Spec

\* What the promise gives to its users: an event that is settled has reached the
\* domain queue or the dead-letter queue.
THEOREM PromiseForgetsNothing == Promise!Spec => []Promise!NothingForgotten
<1> DEFINE F == [e \in Events |-> Stage(e)]
           H == {e \in Events : handed[e] > 0}
           B == {e \in Events : buried[e] > 0}
           Kept == \A e \in Events : F[e] = "settled" => e \in H \cup B
<1>1. Promise!Init => Kept
  <2>1. Promise!Init => F = [e \in Events |-> "unknown"] BY DEF Promise!Init, Stage
  <2> HIDE DEF F, H, B
  <2> QED BY <2>1
<1>2. Kept /\ [Promise!Next]_(Promise!vars) => Kept'
  <2>1. [Promise!Next]_(Promise!vars) =>
          \/ \E S \in SUBSET Events :
               F' = [e \in Events |-> IF e \in S THEN "owed" ELSE F[e]] /\ H' = H /\ B' = B
          \/ \E e \in Events : H' = H \cup {e} /\ F' = F /\ B' = B
          \/ \E e \in Events : B' = B \cup {e} /\ F' = F /\ H' = H
          \/ \E e \in Events : e \in H \cup B /\ F' = [F EXCEPT ![e] = "settled"] /\ H' = H /\ B' = B
          \/ \E e \in Events : F' = [F EXCEPT ![e] = "owed"] /\ H' = H /\ B' = B
          \/ F' = F /\ H' = H /\ B' = B
    BY DEF Promise!Next, Promise!vars, Promise!Accept, Promise!Hand, Promise!BuryEvent,
           Promise!Settle, Promise!Reopen, Stage
  <2>2. F = [e \in Events |-> F[e]] OBVIOUS
  <2> HIDE DEF F, H, B
  <2> QED BY <2>1, <2>2
<1>3. Kept => Promise!NothingForgotten BY DEF Promise!NothingForgotten, Stage
<1> QED BY <1>1, <1>2, <1>3, PTL DEF Promise!Spec
=============================================================================
