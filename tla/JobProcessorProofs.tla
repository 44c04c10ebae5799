------------------------- MODULE JobProcessorProofs -------------------------
(***************************************************************************)
(* The safety properties of JobProcessor for every number of events,       *)
(* runners, attempts, crashes, failed calls and expired locks.             *)
(***************************************************************************)
EXTENDS JobProcessor, TLAPS

-----------------------------------------------------------------------------
(* Types, and the state of the job as BullMQ keeps it.                     *)

JobInv ==
  \A e \in Events :
    /\ lock[e] # NoRunner => job[e] = "active"
    /\ job[e] \in {"waiting", "active"} => made[e] < Attempts /\ stalls[e] <= MaxStalledCount

TypeInv == TypeOK /\ JobInv

LEMMA GotoType ==
  ASSUME TypeOK, NEW r \in Runners, NEW e \in Events, NEW s \in RunSteps, Goto(r, e, s)
  PROVE  /\ run' \in [Runners -> [Events -> RunSteps]]
         /\ run'[r][e] = s
         /\ \A q \in Runners, f \in Events : q # r \/ f # e => run'[q][f] = run[q][f]
BY DEF TypeOK, Goto

LEMMA FindOutcomeType ==
  ASSUME NEW e \in Events
  PROVE  FindOutcome(e) \in {"create", "done", "reclaim"}
BY DEF FindOutcome

LEMMA TypeInit == Init => TypeInv
BY NoRunnerAssumption, AttemptsAssumption
   DEF Init, TypeInv, TypeOK, JobInv, JobStates, KeyStatuses, RunSteps

LEMMA TypeStep == TypeInv /\ [Next]_vars => TypeInv'
<1> SUFFICES ASSUME TypeInv, [Next]_vars PROVE TypeInv'
  OBVIOUS
<1> USE NoRunnerAssumption, AttemptsAssumption
        DEF TypeInv, TypeOK, JobInv, JobStates, KeyStatuses
<1>1. ASSUME NEW e \in Events, Queue(e) PROVE TypeInv'
  <2>1. CASE Add(e) BY <2>1 DEF Add, keyVars, countVars
  <2>2. CASE Stalled(e) BY <2>2 DEF Stalled, Redeliver, keyVars, countVars
  <2>3. CASE SlowRunStalls(e) BY <2>3 DEF SlowRunStalls, Redeliver, keyVars
  <2>4. CASE KeyExpires(e) BY <2>4 DEF KeyExpires, jobVars, countVars
  <2> QED BY <1>1, <2>1, <2>2, <2>3, <2>4 DEF Queue
<1>2. ASSUME NEW r \in Runners, Crash(r) PROVE TypeInv'
  BY <1>2 DEF Crash, RunSteps, keyVars
<1>3. ASSUME NEW r \in Runners, NEW e \in Events, Take(r, e) PROVE TypeInv'
  BY <1>3, GotoType DEF Take, RunSteps, keyVars, countVars
<1>4. ASSUME NEW r \in Runners, NEW e \in Events, Step(r, e) PROVE TypeInv'
  <2>0. run' \in [Runners -> [Events -> RunSteps]]
    <3>1. \E s \in RunSteps : Goto(r, e, s)
      BY <1>4, FindOutcomeType
         DEF Step, Protocol, Handle, FindKey, CreateKey, ReclaimKey, BeginFails, HandlerReturns, HandlerThrows,
             CompleteKey, CompleteKeyFails, FailKey, FailKeyFails, ReportDone, ReportThrew, RunSteps
    <3> QED BY <3>1, GotoType
  <2> USE <2>0 DEF jobVars, keyVars, countVars, StartKey, Record, Fault
  <2>1. CASE FindKey(r, e) BY <2>1 DEF FindKey
  <2>2. CASE CreateKey(r, e) BY <2>2 DEF CreateKey
  <2>3. CASE ReclaimKey(r, e) BY <2>3 DEF ReclaimKey
  <2>4. CASE BeginFails(r, e)
    <3>1. key' \in [Events -> KeyStatuses] /\ expired' \in [Events -> BOOLEAN]
      BY <2>4 DEF BeginFails
    <3> QED BY <2>4, <3>1 DEF BeginFails
  <2>5. CASE HandlerReturns(r, e) BY <2>5 DEF HandlerReturns
  <2>6. CASE HandlerThrows(r, e) BY <2>6 DEF HandlerThrows
  <2>7. CASE CompleteKey(r, e) BY <2>7 DEF CompleteKey
  <2>8. CASE CompleteKeyFails(r, e) BY <2>8 DEF CompleteKeyFails
  <2>9. CASE FailKey(r, e) BY <2>9 DEF FailKey
  <2>10. CASE FailKeyFails(r, e) BY <2>10 DEF FailKeyFails
  <2>11. CASE ReportDone(r, e) BY <2>11 DEF ReportDone
  <2>12. CASE ReportThrew(r, e)
    <3>1. CASE lock[e] = r
      <4>1. made[e] < Attempts /\ job[e] = "active" BY <3>1
      <4>2. made' \in [Events -> 0..Attempts] BY <2>12, <3>1, <4>1 DEF ReportThrew
      <4>3. JobInv' BY <2>12, <3>1, <4>1 DEF ReportThrew
      <4>4. job' \in [Events -> JobStates] BY <2>12, <3>1 DEF ReportThrew
      <4>5. lock' \in [Events -> Runners \union {NoRunner}] BY <2>12, <3>1 DEF ReportThrew
      <4>6. UNCHANGED <<stalls, keyVars, handled, adds, countVars, disturbed>>
        BY <2>12 DEF ReportThrew
      <4> HIDE DEF JobInv
      <4> QED BY <4>2, <4>3, <4>4, <4>5, <4>6
    <3>2. CASE lock[e] # r BY <2>12, <3>2 DEF ReportThrew
    <3> QED BY <3>1, <3>2
  <2> QED BY <1>4, <2>1, <2>2, <2>3, <2>4, <2>5, <2>6, <2>7, <2>8, <2>9, <2>10, <2>11, <2>12
          DEF Step, Protocol, Handle
<1>5. CASE UNCHANGED vars BY <1>5 DEF vars, jobVars, keyVars, countVars
<1> QED BY <1>1, <1>2, <1>3, <1>4, <1>5 DEF Next

LEMMA TypeAlways == Spec => []TypeInv
<1>1. Init => TypeInv BY TypeInit
<1>2. TypeInv /\ [Next]_vars => TypeInv' BY TypeStep
<1> QED BY <1>1, <1>2, PTL DEF Spec

\* Every reachable state is well typed; in particular no job makes more than
\* Attempts attempts or is redelivered more than MaxStalledCount times.
THEOREM TypeCorrect == Spec => []TypeOK
<1>1. TypeInv => TypeOK BY DEF TypeInv
<1> QED BY <1>1, TypeAlways, PTL

-----------------------------------------------------------------------------
(* Completed keys.                                                         *)

HandledInv ==
  /\ CompletedKeyWasHandled
  /\ \A r \in Runners, e \in Events : run[r][e] = "complete" => handled[e] > 0

LEMMA HandledStep == TypeInv /\ HandledInv /\ [Next]_vars => HandledInv'
<1> SUFFICES ASSUME TypeInv, HandledInv, [Next]_vars PROVE HandledInv'
  OBVIOUS
<1> USE DEF TypeInv, TypeOK, HandledInv, CompletedKeyWasHandled
<1>1. ASSUME NEW e \in Events, Queue(e) PROVE HandledInv'
  BY <1>1 DEF Queue, Add, Stalled, SlowRunStalls, KeyExpires, keyVars
<1>2. ASSUME NEW r \in Runners, Crash(r) PROVE HandledInv'
  BY <1>2 DEF Crash, keyVars
<1>3. ASSUME NEW r \in Runners, NEW e \in Events, Take(r, e) PROVE HandledInv'
  BY <1>3 DEF Take, Goto, keyVars
<1>4. ASSUME NEW r \in Runners, NEW e \in Events, Step(r, e) PROVE HandledInv'
  <2> USE DEF Goto, keyVars, StartKey, Record
  <2>1. CASE FindKey(r, e) BY <2>1, FindOutcomeType DEF FindKey
  <2>2. CASE CreateKey(r, e) BY <2>2 DEF CreateKey
  <2>3. CASE ReclaimKey(r, e) BY <2>3 DEF ReclaimKey
  <2>4. CASE BeginFails(r, e) BY <2>4 DEF BeginFails
  <2>5. CASE HandlerReturns(r, e) BY <2>5 DEF HandlerReturns
  <2>6. CASE HandlerThrows(r, e) BY <2>6 DEF HandlerThrows
  <2>7. CASE CompleteKey(r, e) BY <2>7 DEF CompleteKey
  <2>8. CASE CompleteKeyFails(r, e) BY <2>8 DEF CompleteKeyFails
  <2>9. CASE FailKey(r, e) BY <2>9 DEF FailKey
  <2>10. CASE FailKeyFails(r, e) BY <2>10 DEF FailKeyFails
  <2>11. CASE ReportDone(r, e) BY <2>11 DEF ReportDone
  <2>12. CASE ReportThrew(r, e) BY <2>12 DEF ReportThrew
  <2> QED BY <1>4, <2>1, <2>2, <2>3, <2>4, <2>5, <2>6, <2>7, <2>8, <2>9, <2>10, <2>11, <2>12
          DEF Step, Protocol, Handle
<1>5. CASE UNCHANGED vars BY <1>5 DEF vars, keyVars
<1> QED BY <1>1, <1>2, <1>3, <1>4, <1>5 DEF Next

\* A key never says COMPLETED about an event whose handler did not return,
\* however many stale runs write it.
THEOREM KeysTellTheTruth == Spec => []CompletedKeyWasHandled
<1>1. Init => HandledInv BY DEF Init, HandledInv, CompletedKeyWasHandled
<1>2. TypeInv /\ HandledInv /\ [Next]_vars => HandledInv' BY HandledStep
<1>3. HandledInv => CompletedKeyWasHandled BY DEF HandledInv
<1> QED BY <1>1, <1>2, <1>3, TypeAlways, PTL DEF Spec

\* A completed event stays closed to every further run, unless a call of the
\* repository fails.
THEOREM CompletedIsFinal == Spec => ClosedStaysClosed
<1> DEFINE Stays == \A e \in Events : Closed(e) /\ faults' = faults => Closed(e)'
<1>1. TypeInv /\ [Next]_vars => [Stays]_vars
  <2> SUFFICES ASSUME TypeInv, Next, NEW f \in Events, Closed(f), faults' = faults
               PROVE  Closed(f)'
    OBVIOUS
  <2> USE DEF TypeInv, TypeOK, Closed
  <2>1. ASSUME NEW e \in Events, Queue(e) PROVE Closed(f)'
    BY <2>1 DEF Queue, Add, Stalled, SlowRunStalls, KeyExpires, keyVars
  <2>2. ASSUME NEW r \in Runners, Crash(r) PROVE Closed(f)'
    BY <2>2 DEF Crash, keyVars
  <2>3. ASSUME NEW r \in Runners, NEW e \in Events, Take(r, e) PROVE Closed(f)'
    BY <2>3 DEF Take, Goto, keyVars
  <2>4. ASSUME NEW r \in Runners, NEW e \in Events, Step(r, e) PROVE Closed(f)'
    <3> USE DEF Goto, keyVars, StartKey, Record, Fault
    <3>1. CASE FindKey(r, e) BY <3>1 DEF FindKey, FindOutcome
    <3>2. CASE CreateKey(r, e) BY <3>2 DEF CreateKey
    <3>3. CASE ReclaimKey(r, e) BY <3>3 DEF ReclaimKey
    <3>4. CASE BeginFails(r, e) BY <3>4 DEF BeginFails
    <3>5. CASE HandlerReturns(r, e) BY <3>5 DEF HandlerReturns
    <3>6. CASE HandlerThrows(r, e) BY <3>6 DEF HandlerThrows
    <3>7. CASE CompleteKey(r, e) BY <3>7 DEF CompleteKey
    <3>8. CASE CompleteKeyFails(r, e) BY <3>8 DEF CompleteKeyFails
    <3>9. CASE FailKey(r, e) BY <3>9 DEF FailKey
    <3>10. CASE FailKeyFails(r, e) BY <3>10 DEF FailKeyFails
    <3>11. CASE ReportDone(r, e) BY <3>11 DEF ReportDone
    <3>12. CASE ReportThrew(r, e) BY <3>12 DEF ReportThrew
    <3> QED BY <2>4, <3>1, <3>2, <3>3, <3>4, <3>5, <3>6, <3>7, <3>8, <3>9, <3>10, <3>11, <3>12
            DEF Step, Protocol, Handle
  <2> QED BY <2>1, <2>2, <2>3, <2>4 DEF Next
<1> QED BY <1>1, TypeAlways, PTL DEF Spec, ClosedStaysClosed

-----------------------------------------------------------------------------
(* Undisturbed events: one run at a time, and every fact it stands on.      *)

OneRun ==
  \A e \in Events \ disturbed :
    /\ job[e] = "active" => lock[e] # NoRunner
    /\ \A r \in Runners : run[r][e] # "idle" <=> lock[e] = r

RunFacts ==
  \A e \in Events \ disturbed : \A r \in Runners :
    /\ run[r][e] = "find" => key[e] # "IN_PROGRESS"
    /\ run[r][e] = "create" => key[e] = "none"
    /\ run[r][e] = "reclaim" => key[e] = "FAILED"
    /\ run[r][e] \in {"handle", "complete", "fail"} => key[e] = "IN_PROGRESS"
    /\ run[r][e] \in {"create", "reclaim", "handle", "fail", "threw"} => handled[e] = 0
    /\ run[r][e] = "complete" => handled[e] = 1
    /\ run[r][e] = "threw" => key[e] = "FAILED"
    /\ run[r][e] = "done" => key[e] = "COMPLETED"

RestFacts ==
  \A e \in Events \ disturbed :
    /\ key[e] \in {"none", "FAILED"} => handled[e] = 0
    /\ key[e] = "COMPLETED" => handled[e] = 1
    /\ handled[e] <= 1
    /\ job[e] # "active" => key[e] # "IN_PROGRESS"
    /\ job[e] = "completed" => handled[e] = 1
    /\ job[e] = "failed" => made[e] = Attempts /\ handled[e] = 0

CalmInv == OneRun /\ RunFacts /\ RestFacts

LEMMA CalmStep == TypeInv /\ CalmInv /\ [Next]_vars => CalmInv'
<1> SUFFICES ASSUME TypeInv, CalmInv, [Next]_vars PROVE CalmInv'
  OBVIOUS
<1>0. TypeInv' BY TypeStep
<1> DEFINE Goal(f) ==
      /\ (job[f] = "active" => lock[f] # NoRunner)'
      /\ \A q \in Runners : (run[q][f] # "idle" <=> lock[f] = q)'
      /\ \A q \in Runners :
           /\ (run[q][f] = "find" => key[f] # "IN_PROGRESS")'
           /\ (run[q][f] = "create" => key[f] = "none")'
           /\ (run[q][f] = "reclaim" => key[f] = "FAILED")'
           /\ (run[q][f] \in {"handle", "complete", "fail"} => key[f] = "IN_PROGRESS")'
           /\ (run[q][f] \in {"create", "reclaim", "handle", "fail", "threw"}
                 => handled[f] = 0)'
           /\ (run[q][f] = "complete" => handled[f] = 1)'
           /\ (run[q][f] = "threw" => key[f] = "FAILED")'
           /\ (run[q][f] = "done" => key[f] = "COMPLETED")'
      /\ (key[f] \in {"none", "FAILED"} => handled[f] = 0)'
      /\ (key[f] = "COMPLETED" => handled[f] = 1)'
      /\ (handled[f] <= 1)'
      /\ (job[f] # "active" => key[f] # "IN_PROGRESS")'
      /\ (job[f] = "completed" => handled[f] = 1)'
      /\ (job[f] = "failed" => made[f] = Attempts /\ handled[f] = 0)'
<1> SUFFICES ASSUME NEW f \in Events, f \notin disturbed' PROVE Goal(f)
  BY DEF CalmInv, OneRun, RunFacts, RestFacts
<1> USE NoRunnerAssumption, AttemptsAssumption
        DEF TypeInv, TypeOK, JobInv, CalmInv, OneRun, RunFacts, RestFacts, JobStates, KeyStatuses
<1>1. ASSUME NEW e \in Events, Queue(e) PROVE Goal(f)
  <2>1. CASE Add(e) BY <2>1 DEF Add, keyVars
  <2>2. CASE Stalled(e) BY <2>2 DEF Stalled, Redeliver, keyVars
  <2>3. CASE SlowRunStalls(e) BY <2>3 DEF SlowRunStalls, Redeliver, keyVars
  <2>4. CASE KeyExpires(e) BY <2>4 DEF KeyExpires, jobVars
  <2> QED BY <1>1, <2>1, <2>2, <2>3, <2>4 DEF Queue
<1>2. ASSUME NEW r \in Runners, Crash(r) PROVE Goal(f)
  BY <1>2 DEF Crash, keyVars
<1>3. ASSUME NEW r \in Runners, NEW e \in Events, Take(r, e) PROVE Goal(f)
  BY <1>3 DEF Take, Goto, keyVars
<1>4. ASSUME NEW r \in Runners, NEW e \in Events, Step(r, e) PROVE Goal(f)
  <2> USE DEF Goto, jobVars, keyVars, StartKey, Record, Fault
  <2>1. CASE FindKey(r, e) BY <2>1 DEF FindKey, FindOutcome
  <2>2. CASE CreateKey(r, e) BY <2>2 DEF CreateKey
  <2>3. CASE ReclaimKey(r, e) BY <2>3 DEF ReclaimKey
  <2>4. CASE BeginFails(r, e) BY <2>4 DEF BeginFails
  <2>5. CASE HandlerReturns(r, e) BY <2>5 DEF HandlerReturns
  <2>6. CASE HandlerThrows(r, e) BY <2>6 DEF HandlerThrows
  <2>7. CASE CompleteKey(r, e) BY <2>7 DEF CompleteKey
  <2>8. CASE CompleteKeyFails(r, e) BY <2>8 DEF CompleteKeyFails
  <2>9. CASE FailKey(r, e) BY <2>9 DEF FailKey
  <2>10. CASE FailKeyFails(r, e) BY <2>10 DEF FailKeyFails
  <2>11. CASE ReportDone(r, e) BY <2>11 DEF ReportDone
  <2>12. CASE ReportThrew(r, e) BY <2>12 DEF ReportThrew
  <2> QED BY <1>4, <2>1, <2>2, <2>3, <2>4, <2>5, <2>6, <2>7, <2>8, <2>9, <2>10, <2>11, <2>12
          DEF Step, Protocol, Handle
<1>5. CASE UNCHANGED vars BY <1>5 DEF vars, jobVars, keyVars
<1> QED BY <1>1, <1>2, <1>3, <1>4, <1>5 DEF Next

LEMMA CalmAlways == Spec => []CalmInv
<1>1. Init => CalmInv
  BY NoRunnerAssumption DEF Init, CalmInv, OneRun, RunFacts, RestFacts
<1>2. TypeInv /\ CalmInv /\ [Next]_vars => CalmInv' BY CalmStep
<1> QED BY <1>1, <1>2, TypeAlways, PTL DEF Spec

\* Re-adding an event to the queue never makes its handler return twice,
\* without a crash, a failed call or a stall.
THEOREM DuplicatesAreSkipped == Spec => []HandledOnceUndisturbed
<1>1. CalmInv => HandledOnceUndisturbed
  BY DEF CalmInv, RestFacts, HandledOnceUndisturbed
<1> QED BY <1>1, CalmAlways, PTL

\* And the verdict of BullMQ about the job is the handler's: completed means
\* handled, failed means all attempts were made and none returned.
THEOREM VerdictsAreTrue == Spec => []VerdictMatchesHandlerUndisturbed
<1>1. CalmInv => VerdictMatchesHandlerUndisturbed
  <2> SUFFICES ASSUME CalmInv, NEW e \in Events \ disturbed
               PROVE  /\ job[e] = "completed" => handled[e] > 0
                      /\ job[e] = "failed" => made[e] = Attempts /\ handled[e] = 0
    BY DEF VerdictMatchesHandlerUndisturbed
  <2> QED BY DEF CalmInv, RestFacts
<1> QED BY <1>1, CalmAlways, PTL
-----------------------------------------------------------------------------
(* The refinement: each event is a task of TaskQueue.                       *)

\* What a step leaves alone of the job, the count and the mark of an event, it
\* leaves alone of its task.
LEMMA TaskKept ==
  ASSUME TypeInv, NEW f \in Events,
         job'[f] = job[f], made'[f] = made[f], handled'[f] = handled[f],
         f \in disturbed' <=> f \in disturbed
  PROVE  TaskOf(f)' = TaskOf(f)
BY DEF TaskOf

LEMMA OneTaskMoves ==
  ASSUME NEW e \in Events, NEW t, TaskOf(e)' = t,
         \A f \in Events : f # e => TaskOf(f)' = TaskOf(f)
  PROVE  Tasks!Become(e, t)
BY DEF Tasks!Become

\* A task that was upset, or is upset by this step.
LEMMA UpsetTask ==
  ASSUME NEW S \in SUBSET Events,
         \A f \in S : f \in disturbed',
         \A f \in Events \ S : TaskOf(f)' = TaskOf(f)
  PROVE  Tasks!Next
<1>1. \A f \in S : TaskOf(f)' = Tasks!Upset BY DEF TaskOf, Tasks!Upset, Tasks!Task
<1>2. Tasks!Disturb(S) BY <1>1 DEF Tasks!Disturb
<1> QED BY <1>2 DEF Tasks!Next

LEMMA OneUpset ==
  ASSUME NEW e \in Events, e \in disturbed',
         \A f \in Events : f # e => TaskOf(f)' = TaskOf(f)
  PROVE  Tasks!Next
<1>1. {e} \in SUBSET Events OBVIOUS
<1> QED BY <1>1, UpsetTask

\* The steps that change neither the job nor the count of an event.
LEMMA QuietSteps ==
  ASSUME NEW r \in Runners, NEW e \in Events,
         \/ FindKey(r, e) \/ CreateKey(r, e) \/ ReclaimKey(r, e)
         \/ HandlerThrows(r, e) \/ CompleteKey(r, e) \/ FailKey(r, e)
  PROVE  UNCHANGED <<job, made, handled, disturbed>>
BY DEF FindKey, CreateKey, ReclaimKey, HandlerThrows, CompleteKey, FailKey, jobVars

LEMMA FaultySteps ==
  ASSUME NEW r \in Runners, NEW e \in Events,
         BeginFails(r, e) \/ CompleteKeyFails(r, e) \/ FailKeyFails(r, e)
  PROVE  UNCHANGED <<job, made, handled>> /\ disturbed' = disturbed \union {e}
BY DEF BeginFails, CompleteKeyFails, FailKeyFails, Fault, jobVars

LEMMA TaskStep == TypeInv /\ CalmInv /\ [Next]_vars => [Tasks!Next]_(Tasks!vars)
<1> SUFFICES ASSUME TypeInv, CalmInv, [Next]_vars PROVE [Tasks!Next]_(Tasks!vars)
  OBVIOUS
<1>a. ASSUME \A f \in Events : TaskOf(f)' = TaskOf(f) PROVE UNCHANGED Tasks!vars
  BY <1>a DEF Tasks!vars
<1>b. ASSUME UNCHANGED <<job, made, handled, disturbed>> PROVE UNCHANGED Tasks!vars
  BY <1>a, <1>b, TaskKept
<1> USE NoRunnerAssumption, AttemptsAssumption DEF TypeInv, TypeOK, JobInv
<1>1. ASSUME NEW e \in Events, Queue(e) PROVE [Tasks!Next]_(Tasks!vars)
  <2>1. CASE Add(e)
    <3>1. \A f \in Events : f # e => TaskOf(f)' = TaskOf(f) BY <2>1, TaskKept DEF Add
    <3>2. CASE e \in disturbed
      <4>1. e \in disturbed' BY <2>1, <3>2 DEF Add
      <4> QED BY <3>1, <4>1, OneUpset
    <3>3. CASE e \notin disturbed
      <4>1. TaskOf(e)' = Tasks!Task("pending", 0, TaskOf(e).work)
        BY <2>1, <3>3 DEF Add, TaskOf, Tasks!Task
      <4>2. TaskOf(e).verdict \in {"absent", "completed", "failed"}
        BY <2>1, <3>3 DEF Add, TaskOf
      <4>3. Tasks!Submit(e) BY <3>1, <4>1, <4>2, OneTaskMoves DEF Tasks!Submit
      <4> QED BY <4>3 DEF Tasks!Next
    <3> QED BY <3>2, <3>3
  <2>2. CASE Stalled(e) \/ SlowRunStalls(e)
    <3>1. e \in disturbed' BY <2>2 DEF Stalled, SlowRunStalls, Redeliver
    <3>2. \A f \in Events : f # e => TaskOf(f)' = TaskOf(f)
      BY <2>2, TaskKept DEF Stalled, SlowRunStalls, Redeliver
    <3> QED BY <3>1, <3>2, OneUpset
  <2>3. CASE KeyExpires(e) BY <2>3, <1>b DEF KeyExpires, jobVars
  <2> QED BY <1>1, <2>1, <2>2, <2>3 DEF Queue
<1>2. ASSUME NEW r \in Runners, Crash(r) PROVE [Tasks!Next]_(Tasks!vars)
  <2> DEFINE S == {e \in Events : run[r][e] # "idle"}
  <2>1. \A f \in S : f \in disturbed' BY <1>2 DEF Crash
  <2>2. \A f \in Events \ S : TaskOf(f)' = TaskOf(f) BY <1>2, TaskKept DEF Crash
  <2> HIDE DEF S
  <2>3. S \in SUBSET Events BY DEF S
  <2> QED BY <2>1, <2>2, <2>3, UpsetTask
<1>3. ASSUME NEW r \in Runners, NEW e \in Events, Take(r, e) PROVE [Tasks!Next]_(Tasks!vars)
  <2>1. \A f \in Events : TaskOf(f)' = TaskOf(f) BY <1>3 DEF Take, TaskOf
  <2> QED BY <2>1, <1>a
<1>4. ASSUME NEW r \in Runners, NEW e \in Events, Step(r, e) PROVE [Tasks!Next]_(Tasks!vars)
  <2>1. CASE \/ FindKey(r, e) \/ CreateKey(r, e) \/ ReclaimKey(r, e)
             \/ HandlerThrows(r, e) \/ CompleteKey(r, e) \/ FailKey(r, e)
    BY <2>1, <1>b, QuietSteps
  <2>2. CASE BeginFails(r, e) \/ CompleteKeyFails(r, e) \/ FailKeyFails(r, e)
    <3>1. UNCHANGED <<job, made, handled>> /\ disturbed' = disturbed \union {e}
      BY <2>2, FaultySteps
    <3>2. \A f \in Events : f # e => TaskOf(f)' = TaskOf(f) BY <3>1, TaskKept
    <3> QED BY <3>1, <3>2, OneUpset
  <2>3. ASSUME HandlerReturns(r, e) \/ ReportDone(r, e) \/ ReportThrew(r, e)
        PROVE  /\ disturbed' = disturbed
               /\ \A f \in Events : f # e => TaskOf(f)' = TaskOf(f)
    <3>1. /\ disturbed' = disturbed
          /\ \A f \in Events : f # e =>
               job'[f] = job[f] /\ made'[f] = made[f] /\ handled'[f] = handled[f]
      BY <2>3 DEF HandlerReturns, ReportDone, ReportThrew, jobVars
    <3> QED BY <3>1, TaskKept
  <2>4. ASSUME HandlerReturns(r, e) \/ ReportDone(r, e) \/ ReportThrew(r, e), e \in disturbed
        PROVE  Tasks!Next
    BY <2>3, <2>4, OneUpset
  <2>5. ASSUME e \notin disturbed, run[r][e] # "idle"
        PROVE  lock[e] = r /\ job[e] = "active"
    BY <2>5 DEF CalmInv, OneRun
  <2>6. CASE HandlerReturns(r, e) /\ e \notin disturbed
    <3>1. job[e] = "active" /\ handled[e] = 0
      BY <2>5, <2>6 DEF HandlerReturns, CalmInv, RunFacts
    <3>2. TaskOf(e).verdict = "pending" /\ TaskOf(e).work = "undone" BY <2>6, <3>1 DEF TaskOf
    <3>3. TaskOf(e)' = Tasks!Task("pending", TaskOf(e).tries, "done")
      BY <2>6, <3>1 DEF HandlerReturns, jobVars, TaskOf, Tasks!Task
    <3>4. Tasks!Work(e) BY <2>3, <2>6, <3>2, <3>3, OneTaskMoves DEF Tasks!Work
    <3> QED BY <3>4 DEF Tasks!Next
  <2>7. CASE ReportDone(r, e) /\ e \notin disturbed
    <3>1. lock[e] = r /\ job[e] = "active" /\ handled[e] = 1
      BY <2>5, <2>7 DEF ReportDone, CalmInv, RunFacts, RestFacts
    <3>2. TaskOf(e).verdict = "pending" /\ TaskOf(e).work = "done" BY <2>7, <3>1 DEF TaskOf
    <3>3. TaskOf(e)' = Tasks!Task("completed", TaskOf(e).tries, "done")
      BY <2>7, <3>1 DEF ReportDone, TaskOf, Tasks!Task
    <3>4. Tasks!Complete(e) BY <2>3, <2>7, <3>2, <3>3, OneTaskMoves DEF Tasks!Complete
    <3> QED BY <3>4 DEF Tasks!Next
  <2>8. CASE ReportThrew(r, e) /\ e \notin disturbed
    <3>1. lock[e] = r /\ job[e] = "active" /\ handled[e] = 0
      BY <2>5, <2>8 DEF ReportThrew, CalmInv, RunFacts
    <3>2. TaskOf(e).verdict = "pending" /\ TaskOf(e).work = "undone" /\ TaskOf(e).tries = made[e]
      BY <2>8, <3>1 DEF TaskOf
    <3>3. TaskOf(e)' = Tasks!Task(IF made[e] + 1 < Attempts THEN "pending" ELSE "failed",
                                  made[e] + 1, "undone")
      BY <2>8, <3>1 DEF ReportThrew, TaskOf, Tasks!Task
    <3>4. Tasks!GoWrong(e) BY <2>3, <2>8, <3>2, <3>3, OneTaskMoves DEF Tasks!GoWrong
    <3> QED BY <3>4 DEF Tasks!Next
  <2> QED BY <1>4, <2>1, <2>2, <2>4, <2>6, <2>7, <2>8 DEF Step, Protocol, Handle
<1>5. CASE UNCHANGED vars BY <1>5, <1>b DEF vars, jobVars
<1> QED BY <1>1, <1>2, <1>3, <1>4, <1>5 DEF Next

\* With its keys, locks and retries the queue runs tasks: what TaskQueue
\* promises, it keeps, for any number of events, runners and failures.
THEOREM TheQueueRunsTasks == Spec => RunsTasks
<1>1. Init => Tasks!Init
  BY DEF Init, TaskOf, Tasks!Init, Tasks!Task
<1>2. TypeInv /\ CalmInv /\ [Next]_vars => [Tasks!Next]_(Tasks!vars) BY TaskStep
<1> QED BY <1>1, <1>2, TypeAlways, CalmAlways, PTL DEF Spec, RunsTasks, Tasks!Spec

\* What the promise gives to whoever submits tasks: a completed task was done,
\* a failed one was not, and it was tried as often as agreed.
THEOREM TaskVerdicts == Tasks!Spec => []Tasks!VerdictsAreSound
<1> DEFINE T == [e \in Events |-> TaskOf(e)]
           Sound(t) ==
             /\ t.tries \in Nat
             /\ t.verdict \in {"absent", "pending"} => t.tries < Attempts
             /\ t.verdict = "completed" => t.work = "done"
             /\ t.verdict = "failed" => t.tries = Attempts /\ t.work = "undone"
           AllSound == \A e \in Events : Sound(T[e])
<1> USE AttemptsAssumption
<1>1. Tasks!Init => AllSound
  <2>1. Tasks!Init => T = [e \in Events |-> Tasks!Task("absent", 0, "undone")]
    BY DEF Tasks!Init
  <2>2. Sound(Tasks!Task("absent", 0, "undone")) BY DEF Tasks!Task
  <2> HIDE DEF T, Sound
  <2> QED BY <2>1, <2>2
<1>2. AllSound /\ [Tasks!Next]_(Tasks!vars) => AllSound'
  <2> SUFFICES ASSUME AllSound, [Tasks!Next]_(Tasks!vars) PROVE AllSound'
    OBVIOUS
  <2>1. ASSUME NEW e \in Events, NEW t, Sound(t), Tasks!Become(e, t) PROVE AllSound'
    <3>1. T' = [T EXCEPT ![e] = t] BY <2>1 DEF Tasks!Become
    <3>2. T = [f \in Events |-> T[f]] OBVIOUS
    <3> HIDE DEF T, Sound
    <3> QED BY <2>1, <3>1, <3>2
  <2>2. ASSUME NEW e \in Events, Tasks!Submit(e) \/ Tasks!Work(e) \/ Tasks!Complete(e) \/ Tasks!GoWrong(e)
        PROVE  AllSound'
    <3>1. Sound(T[e]) OBVIOUS
    <3>2. CASE Tasks!Submit(e)
      <4>1. Sound(Tasks!Task("pending", 0, T[e].work)) BY DEF Tasks!Task
      <4>2. Tasks!Become(e, Tasks!Task("pending", 0, T[e].work)) BY <3>2 DEF Tasks!Submit
      <4> HIDE DEF T, Sound
      <4> QED BY <2>1, <4>1, <4>2
    <3>3. CASE Tasks!Work(e)
      <4>1. T[e].verdict = "pending" /\ Tasks!Become(e, Tasks!Task("pending", T[e].tries, "done"))
        BY <3>3 DEF Tasks!Work
      <4> HIDE DEF T
      <4>2. Sound(Tasks!Task("pending", T[e].tries, "done")) BY <3>1, <4>1 DEF Tasks!Task
      <4> HIDE DEF Sound
      <4> QED BY <2>1, <4>1, <4>2
    <3>4. CASE Tasks!Complete(e)
      <4>1. Tasks!Become(e, Tasks!Task("completed", T[e].tries, "done"))
        BY <3>4 DEF Tasks!Complete
      <4> HIDE DEF T
      <4>2. Sound(Tasks!Task("completed", T[e].tries, "done")) BY <3>1 DEF Tasks!Task
      <4> HIDE DEF Sound
      <4> QED BY <2>1, <4>1, <4>2
    <3>5. CASE Tasks!GoWrong(e)
      <4> DEFINE u == Tasks!Task(IF T[e].tries + 1 < Attempts THEN "pending" ELSE "failed",
                                 T[e].tries + 1, "undone")
      <4>1. T[e].verdict = "pending" /\ Tasks!Become(e, u) BY <3>5 DEF Tasks!GoWrong
      <4> HIDE DEF T
      <4>2. Sound(u) BY <3>1, <4>1 DEF Tasks!Task
      <4> HIDE DEF Sound, u
      <4> QED BY <2>1, <4>1, <4>2
    <3> QED BY <2>2, <3>2, <3>3, <3>4, <3>5
  <2>3. ASSUME NEW S \in SUBSET Events, Tasks!Disturb(S) PROVE AllSound'
    <3>1. T' = [e \in Events |-> IF e \in S THEN Tasks!Upset ELSE T[e]]
      BY <2>3 DEF Tasks!Disturb
    <3>2. Sound(Tasks!Upset) BY DEF Tasks!Upset, Tasks!Task
    <3> HIDE DEF T, Sound
    <3> QED BY <3>1, <3>2
  <2>4. CASE UNCHANGED Tasks!vars
    <3>1. T' = T BY <2>4 DEF Tasks!vars
    <3> HIDE DEF T, Sound
    <3> QED BY <3>1
  <2> HIDE DEF AllSound
  <2> QED BY <2>2, <2>3, <2>4 DEF Tasks!Next
<1>3. AllSound => Tasks!VerdictsAreSound
  <2> SUFFICES ASSUME AllSound PROVE Tasks!VerdictsAreSound OBVIOUS
  <2>1. \A e \in Events : Sound(T[e]) OBVIOUS
  <2> HIDE DEF T
  <2> QED BY <2>1 DEF Tasks!VerdictsAreSound, T
<1> HIDE DEF AllSound
<1> QED BY <1>1, <1>2, <1>3, PTL DEF Tasks!Spec

-----------------------------------------------------------------------------
(* The safety half of EventuallyReported.                                  *)

\* Whoever holds the lock of a job is still running it, and will report to it.
HolderRuns ==
  \A r \in Runners, e \in Events : lock[e] = r => run[r][e] # "idle"

\* A job is never left active with nobody to move it: its lock is gone, and the
\* stalled check redelivers it, or its holder is on a run that ends in a report.
ActiveIsTended ==
  \A e \in Events : job[e] = "active" =>
    \/ lock[e] = NoRunner
    \/ \E r \in Runners : lock[e] = r /\ run[r][e] # "idle"

LEMMA HolderStep == TypeInv /\ HolderRuns /\ [Next]_vars => HolderRuns'
<1> SUFFICES ASSUME TypeInv, HolderRuns, [Next]_vars PROVE HolderRuns'
  OBVIOUS
<1> USE NoRunnerAssumption DEF HolderRuns
<1>t. TypeOK BY DEF TypeInv
<1>1. ASSUME NEW e \in Events, Queue(e) PROVE HolderRuns'
  BY <1>1, <1>t DEF TypeOK, Queue, Add, Stalled, SlowRunStalls, Redeliver, KeyExpires, jobVars
<1>2. ASSUME NEW r \in Runners, Crash(r) PROVE HolderRuns'
  BY <1>2, <1>t DEF TypeOK, Crash
<1>3. ASSUME NEW r \in Runners, NEW e \in Events, Take(r, e) PROVE HolderRuns'
  <2>1. /\ run'[r][e] = "find"
        /\ \A q \in Runners, f \in Events : q # r \/ f # e => run'[q][f] = run[q][f]
    BY <1>3, <1>t, GotoType DEF Take, RunSteps
  <2>2. lock'[e] = r /\ \A f \in Events \ {e} : lock'[f] = lock[f]
    BY <1>3, <1>t DEF Take, TypeOK
  <2> QED BY <2>1, <2>2
<1>4. ASSUME NEW r \in Runners, NEW e \in Events, ReportDone(r, e) \/ ReportThrew(r, e)
      PROVE  HolderRuns'
  <2>1. \A q \in Runners, f \in Events : q # r \/ f # e => run'[q][f] = run[q][f]
    BY <1>4, <1>t, GotoType DEF ReportDone, ReportThrew, RunSteps
  <2>2. lock'[e] # r /\ \A f \in Events : lock'[f] \in {lock[f], NoRunner}
    BY <1>4, <1>t DEF ReportDone, ReportThrew, TypeOK
  <2> QED BY <2>1, <2>2
<1>5. ASSUME NEW r \in Runners, NEW e \in Events, Step(r, e),
             ~ ReportDone(r, e), ~ ReportThrew(r, e)
      PROVE  HolderRuns'
  <2>1. UNCHANGED lock /\ \E s \in RunSteps \ {"idle"} : Goto(r, e, s)
    BY <1>5, FindOutcomeType
       DEF Step, Protocol, Handle, FindKey, CreateKey, ReclaimKey, BeginFails, HandlerReturns, HandlerThrows,
           CompleteKey, CompleteKeyFails, FailKey, FailKeyFails, RunSteps, jobVars
  <2> QED BY <2>1, <1>t, GotoType
<1>6. CASE UNCHANGED vars BY <1>6 DEF vars, jobVars
<1> QED BY <1>1, <1>2, <1>3, <1>4, <1>5, <1>6 DEF Next, Step, Protocol

\* However runs stall, die and outlive their locks, an active job can move on:
\* with the fairness of FairSpec that is what EventuallyReported rests on.
THEOREM NoJobIsStuck == Spec => []ActiveIsTended
<1>1. Init => HolderRuns BY NoRunnerAssumption DEF Init, HolderRuns
<1>2. TypeInv /\ HolderRuns => ActiveIsTended
  BY DEF TypeInv, TypeOK, HolderRuns, ActiveIsTended
<1> QED BY TypeAlways, HolderStep, <1>1, <1>2, PTL DEF Spec

=============================================================================
