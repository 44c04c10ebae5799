----------------------------- MODULE SagaProofs -----------------------------
(***************************************************************************)
(* The safety properties of Saga for every number of executions, steps,    *)
(* faults and crashes.                                                     *)
(***************************************************************************)
EXTENDS Saga, TLAPS

-----------------------------------------------------------------------------
(* The inductive invariant.                                                *)

Untouched(s) == \A k \in Steps : s.undone[k] = 0

AtMost(s, n) == \A k \in Steps : s.undone[k] <= n

\* Which level and which transaction go with each place.
PlaceInv(s) ==
  /\ s.left <= s.ran
  /\ s.pc = "idle" => s.tx = "none" /\ s.level = "try"
  /\ s.pc \in {"begin", "step", "save"} => s.level = "try"
  /\ s.pc = "catch" => s.level = "catch"
  /\ s.pc \in {"begin", "step", "save", "catch", "commit"} => s.tx \in {"open", "aborted", "closed"}
  /\ s.pc \in {"mark", "undo"} => s.tx \in {"open", "closed", "committed"}
  /\ s.pc = "undo" => s.tx # "open"
  /\ s.pc = "commit" => s.level # "outer"
  /\ s.pc = "commit" /\ s.tx = "open" => s.draft.st = "COMPLETED" /\ s.ran = NumSteps

\* A committed transaction is whole; what compensates it has lost the reply.
CommitInv(s, f) ==
  s.tx = "committed" =>
    /\ s.ran = NumSteps
    /\ s.pc = "returned" \/ s.level = "outer"
    /\ f > 0 \/ (s.pc = "returned" /\ Untouched(s))

\* Nothing is compensated while the transaction may commit, and at most one
\* round ends before the outer handler starts the last.
UndoInv(s) ==
  /\ s.tx \in {"none", "open", "aborted"} => Untouched(s)
  /\ s.level # "outer" =>
       /\ AtMost(s, 1)
       /\ s.pc = "mark" => Untouched(s)
       /\ s.pc = "undo" => \A k \in 1 .. s.left : s.undone[k] = 0
  /\ s.level = "outer" =>
       /\ AtMost(s, 2)
       /\ s.pc = "mark" => AtMost(s, 1)
       /\ s.pc = "undo" => \A k \in 1 .. s.left : s.undone[k] <= 1
  /\ s.pc = "undo" => \A k \in s.left + 1 .. s.ran : s.undone[k] > 0
  /\ s.pc = "returned" => s.tx = "committed" \/ \A k \in 1 .. s.ran : s.undone[k] > 0

ExecInv(s, f) == s \in Executions /\ PlaceInv(s) /\ CommitInv(s, f) /\ UndoInv(s)

\* The lock belongs to a transaction that is not over, and compensation that was
\* called from a transaction still open finds the row locked.
LockInv ==
  /\ \A r \in Runs : lock = r => run[r].tx \in {"open", "aborted"}
  /\ \A r \in Runs : run[r].pc = "mark" /\ run[r].tx = "open" => lock = r

IInv ==
  /\ TypeOK
  /\ OnlyOutcomesVisible
  /\ LockInv
  /\ \A r \in Runs : ExecInv(run[r], faults)

-----------------------------------------------------------------------------
(* Lemmas on the local state of one execution.                             *)

\* More faults do not disturb an execution.
LEMMA FaultsGrow ==
  ASSUME NEW s, NEW f \in Nat, NEW g \in Nat, f <= g, ExecInv(s, f)
  PROVE  ExecInv(s, g)
BY DEF ExecInv, CommitInv

\* An aborted transaction is one more that cannot commit.
LEMMA AbortInv ==
  ASSUME NEW s, NEW f \in Nat, ExecInv(s, f), s.tx = "open",
         s.pc \in {"begin", "step", "save", "catch"}
  PROVE  ExecInv([s EXCEPT !.tx = "aborted"], f)
BY DEF ExecInv, Executions, PlaceInv, CommitInv, UndoInv, Untouched, AtMost

\* An exception keeps the invariant, and reaches "mark" with no transaction.
LEMMA ThrownInv ==
  ASSUME NEW s, NEW f \in Nat, ExecInv(s, f),
         s.pc \in {"begin", "step", "save", "catch", "mark", "undo"}
  PROVE  /\ ExecInv(Thrown(s), f)
         /\ Thrown(s).pc = "mark" => Thrown(s).tx = "closed"
         /\ Thrown(s).tx \in {s.tx, "closed"}
<1> USE DEF ExecInv, Executions, PlaceInv, CommitInv, UndoInv, Untouched, AtMost, Places
<1>1. CASE s.level = "try" BY <1>1 DEF Thrown
<1>2. CASE s.level = "catch"
  <2> DEFINE t == [s EXCEPT !.pc = "mark", !.level = "outer", !.tx = "closed"]
  <2>1. Thrown(s) = t BY <1>2 DEF Thrown
  <2>2. t \in Executions /\ t.undone = s.undone /\ t.ran = s.ran /\ t.left = s.left BY DEF Executions
  <2>3. AtMost(t, 1) BY <2>2, <1>2
  <2>4. AtMost(t, 2) BY <2>2, <2>3
  <2>5. UndoInv(t) BY <2>2, <2>3, <2>4
  <2> QED BY <2>1, <2>2, <2>5
<1>3. CASE s.level = "outer" BY <1>3 DEF Thrown
<1> QED BY <1>1, <1>2, <1>3

-----------------------------------------------------------------------------
(* The step of one execution, put together from its own new state.         *)

\* A step of r that gives it a good state, takes or frees nobody else's lock and
\* publishes nothing but an outcome keeps the invariant.
LEMMA StepOf ==
  ASSUME IInv, NEW r \in Runs, NEW s,
         run' = [run EXCEPT ![r] = s],
         faults' \in 0 .. MaxFaults, faults <= faults',
         ExecInv(s, faults'),
         lock' \in {lock, r} \/ lock' = Unlocked(r),
         lock' = r => s.tx \in {"open", "aborted"},
         s.pc = "mark" /\ s.tx = "open" => lock' = r,
         lock' = r => lock \in {Nobody, r},
         row' \in Rows,
         row'.st \in {"NONE", "COMPLETED", "COMPENSATING", "COMPENSATED"},
         crashes' \in 0 .. MaxCrashes,
         UNCHANGED sweep
  PROVE  IInv'
<1> USE RunsAssumption, BoundsAssumption
<1>1. s \in Executions BY DEF ExecInv
<1>2. TypeOK' BY <1>1 DEF IInv, TypeOK, Unlocked
<1>3. OnlyOutcomesVisible' BY DEF OnlyOutcomesVisible
<1>4. \A q \in Runs : run'[q] = IF q = r THEN s ELSE run[q] BY DEF IInv, TypeOK
<1>5. LockInv' BY <1>4 DEF IInv, LockInv, Unlocked
<1>6. ASSUME NEW q \in Runs PROVE ExecInv(run[q], faults)'
  <2>1. CASE q = r BY <2>1, <1>4
  <2>2. CASE q # r
    <3>1. ExecInv(run[q], faults) /\ faults \in Nat /\ faults' \in Nat BY DEF IInv, TypeOK
    <3>2. ExecInv(run[q], faults') BY <3>1, FaultsGrow
    <3> QED BY <2>2, <3>2, <1>4
  <2> QED BY <2>1, <2>2
<1> QED BY <1>2, <1>3, <1>5, <1>6 DEF IInv

-----------------------------------------------------------------------------
(* saveTx, whichever place it is called from.                              *)

LEMMA SaveTxKeeps ==
  ASSUME IInv, NEW r \in Runs,
         NEW st \in {"IN_PROGRESS", "COMPLETED", "FAILED"}, NEW next \in {"step", "mark", "commit"},
         SaveTx(r, st, next),
         run[r].pc \in {"begin", "step", "save", "catch"},
         next = "step" => run[r].level = "try",
         next = "commit" => run[r].level = "try" /\ st = "COMPLETED" /\ run[r].ran = NumSteps
  PROVE  IInv'
<1> DEFINE s == [run[r] EXCEPT !.pc = next, !.draft = [st |-> st, steps |-> run[r].ran]]
<1>1. ExecInv(run[r], faults) BY DEF IInv
<1>2. run[r].tx = "open" /\ run' = [run EXCEPT ![r] = s] BY DEF SaveTx
<1>3. s \in Executions BY <1>1 DEF ExecInv, Executions, Rows, Statuses, Places
<1>4. /\ s.tx = "open" /\ s.pc = next /\ s.level = run[r].level /\ s.level # "outer"
      /\ s.ran = run[r].ran /\ s.left = run[r].left /\ s.undone = run[r].undone /\ s.draft.st = st
  BY <1>1, <1>2 DEF ExecInv, Executions, PlaceInv
<1>5. PlaceInv(s) BY <1>1, <1>2, <1>4 DEF ExecInv, PlaceInv
<1>6. CommitInv(s, faults) BY <1>4 DEF CommitInv
<1>7. UndoInv(s) BY <1>1, <1>2, <1>4 DEF ExecInv, UndoInv, Untouched, AtMost
<1>8. ExecInv(s, faults') BY <1>3, <1>5, <1>6, <1>7 DEF ExecInv, SaveTx
<1>9. /\ lock' = r /\ lock \in {Nobody, r} /\ faults' = faults /\ faults \in 0 .. MaxFaults
      /\ row' = row /\ row \in Rows /\ crashes' = crashes /\ crashes \in 0 .. MaxCrashes /\ sweep' = sweep
  BY DEF SaveTx, IInv, TypeOK
<1>10. row'.st \in {"NONE", "COMPLETED", "COMPENSATING", "COMPENSATED"}
  BY <1>9 DEF IInv, OnlyOutcomesVisible
<1>11. faults' \in 0 .. MaxFaults /\ faults <= faults' BY <1>9, BoundsAssumption
<1>12. lock' \in {lock, r} /\ s.tx \in {"open", "aborted"} BY <1>4, <1>9
<1>13. row' \in Rows /\ crashes' \in 0 .. MaxCrashes BY <1>9
<1> HIDE DEF s
<1> QED BY <1>2, <1>8, <1>9, <1>10, <1>11, <1>12, <1>13, StepOf

LEMMA ThrowKeeps ==
  ASSUME IInv, NEW r \in Runs, NEW s, Throw(r, s),
         ExecInv(s, faults),
         s.pc \in {"begin", "step", "save", "catch", "mark", "undo"},
         lock = r => s.tx \in {"open", "aborted"},
         faults' \in 0 .. MaxFaults, faults <= faults',
         UNCHANGED <<row, sweep, crashes>>
  PROVE  IInv'
<1> DEFINE t == Thrown(s)
<1>1. ExecInv(t, faults) /\ (t.pc = "mark" => t.tx = "closed") /\ t.tx \in {s.tx, "closed"}
  BY ThrownInv, BoundsAssumption DEF IInv, TypeOK
<1>2. ExecInv(t, faults') BY <1>1, FaultsGrow, BoundsAssumption DEF IInv, TypeOK
<1>3. run' = [run EXCEPT ![r] = t] /\ lock' = IF t.tx = "closed" THEN Unlocked(r) ELSE lock
  BY DEF Throw
<1>4. lock' = r => t.tx \in {"open", "aborted"} BY <1>1, <1>3, RunsAssumption DEF Unlocked
<1> HIDE DEF t
<1> QED BY <1>1, <1>2, <1>3, <1>4, StepOf, RunsAssumption DEF IInv, TypeOK, OnlyOutcomesVisible, Unlocked

LEMMA SaveTxThrowsKeeps ==
  ASSUME IInv, NEW r \in Runs, SaveTxThrows(r), run[r].pc \in {"begin", "step", "save", "catch"}
  PROVE  IInv'
<1>1. ExecInv(run[r], faults) /\ (lock = r => run[r].tx \in {"open", "aborted"})
  BY DEF IInv, LockInv
<1>2. faults \in 0 .. MaxFaults BY DEF IInv, TypeOK
<1>3. CASE run[r].tx # "open" /\ Throw(r, run[r]) /\ UNCHANGED <<row, sweep, faults, crashes>>
  BY <1>1, <1>2, <1>3, ThrowKeeps, BoundsAssumption
<1>4. CASE /\ run[r].tx = "open" /\ faults < MaxFaults /\ faults' = faults + 1
           /\ Throw(r, [run[r] EXCEPT !.tx = "aborted"]) /\ UNCHANGED <<row, sweep, crashes>>
  <2> DEFINE s == [run[r] EXCEPT !.tx = "aborted"]
  <2>1. ExecInv(s, faults) BY <1>1, <1>2, <1>4, AbortInv, BoundsAssumption
  <2>2. s.pc = run[r].pc /\ s.tx = "aborted" BY <1>1 DEF ExecInv, Executions
  <2>3. Throw(r, s) BY <1>4
  <2> HIDE DEF s
  <2> QED BY <1>2, <1>4, <2>1, <2>2, <2>3, ThrowKeeps, BoundsAssumption
<1> QED BY <1>3, <1>4 DEF SaveTxThrows

LEMMA SaveLifecycleThrowsKeeps ==
  ASSUME IInv, NEW r \in Runs, SaveLifecycleThrows(r), run[r].pc \in {"mark", "undo"}
  PROVE  IInv'
BY ThrowKeeps, BoundsAssumption DEF SaveLifecycleThrows, IInv, LockInv, TypeOK

-----------------------------------------------------------------------------
(* Every step of the program keeps the invariant.                          *)

LEMMA InvInit == Init => IInv
BY RunsAssumption, StepsAssumption, BoundsAssumption
   DEF Init, IInv, TypeOK, OnlyOutcomesVisible, LockInv, ExecInv, PlaceInv, CommitInv, UndoInv,
       Untouched, AtMost, Executions, Fresh, NoRow, Rows, Statuses, Places, Steps

\* What a step that leaves the row, the lock and the faults alone has to show.
LEMMA QuietStep ==
  ASSUME IInv, NEW r \in Runs, NEW s, run' = [run EXCEPT ![r] = s],
         ExecInv(s, faults), s.tx = run[r].tx, s.pc # "mark",
         UNCHANGED <<row, lock, sweep, faults, crashes>>
  PROVE  IInv'
<1>1. faults \in 0 .. MaxFaults /\ crashes \in 0 .. MaxCrashes /\ row \in Rows
  BY DEF IInv, TypeOK
<1>2. lock = r => s.tx \in {"open", "aborted"} BY DEF IInv, LockInv
<1>3. faults' \in 0 .. MaxFaults /\ faults <= faults' /\ ExecInv(s, faults')
  BY <1>1, BoundsAssumption
<1>4. row' \in Rows /\ crashes' \in 0 .. MaxCrashes BY <1>1
<1>5. row'.st \in {"NONE", "COMPLETED", "COMPENSATING", "COMPENSATED"}
  BY DEF IInv, OnlyOutcomesVisible
<1>6. lock' \in {lock, r} /\ (lock' = r => s.tx \in {"open", "aborted"}) /\ (lock' = r => lock \in {Nobody, r})
  BY <1>2
<1> QED BY <1>3, <1>4, <1>5, <1>6, StepOf

LEMMA InvStart ==
  ASSUME IInv, NEW r \in Runs, Start(r) PROVE IInv'
<1> USE RunsAssumption, StepsAssumption, BoundsAssumption
<1>1. ExecInv(run[r], faults) /\ faults \in 0 .. MaxFaults /\ run[r].tx = "none" /\ lock # r
  BY DEF IInv, LockInv, TypeOK, Start, ExecInv, PlaceInv
<1>2. PICK s : run' = [run EXCEPT ![r] = s] /\ ExecInv(s, faults') /\ (s.pc # "mark" \/ s.tx = "closed")
  <2> DEFINE a == [run[r] EXCEPT !.pc = "threw"]
             b == [run[r] EXCEPT !.pc = "begin", !.tx = "open"]
             c == [run[r] EXCEPT !.pc = "mark", !.level = "outer", !.tx = "closed"]
  <2>1. ExecInv(a, faults) /\ a.pc # "mark"
    BY <1>1 DEF Start, ExecInv, Executions, Places, PlaceInv, CommitInv, UndoInv, Untouched, AtMost
  <2>2. ExecInv(b, faults) /\ b.pc # "mark"
    BY <1>1 DEF Start, ExecInv, Executions, Places, PlaceInv, CommitInv, UndoInv, Untouched, AtMost
  <2>3. ExecInv(c, faults + 1) /\ c.tx = "closed"
    <3>1. c \in Executions /\ c.pc = "mark" /\ c.level = "outer" /\ c.tx = "closed" /\ c.ran = run[r].ran
          /\ c.left = run[r].left /\ c.undone = run[r].undone
      BY <1>1 DEF ExecInv, Executions, Places
    <3>2. AtMost(c, 1) /\ AtMost(c, 2) BY <1>1, <3>1 DEF ExecInv, UndoInv, Untouched, AtMost
    <3>3. PlaceInv(c) /\ CommitInv(c, faults + 1) BY <1>1, <3>1 DEF ExecInv, PlaceInv, CommitInv
    <3> HIDE DEF c
    <3> QED BY <3>1, <3>2, <3>3 DEF ExecInv, UndoInv
  <2> QED BY <2>1, <2>2, <2>3 DEF Start
<1>3. faults' \in 0 .. MaxFaults /\ faults <= faults' /\ UNCHANGED <<row, lock, sweep, crashes>>
  BY <1>1 DEF Start
<1> QED BY <1>1, <1>2, <1>3, StepOf DEF IInv, TypeOK, OnlyOutcomesVisible

LEMMA InvSteps ==
  ASSUME IInv, NEW r \in Runs,
         Begin(r) \/ StepRuns(r) \/ StepThrows(r) \/ GiveUp(r) \/ SaveProgress(r) \/ Finish(r) \/ Catch(r)
  PROVE  IInv'
<1> USE RunsAssumption, StepsAssumption, BoundsAssumption
<1>1. ExecInv(run[r], faults) /\ faults \in 0 .. MaxFaults /\ (lock = r => run[r].tx \in {"open", "aborted"})
  BY DEF IInv, LockInv, TypeOK
<1>2. run[r].pc \in {"begin", "step", "save"} => run[r].level = "try"
  BY <1>1 DEF ExecInv, PlaceInv
<1>3. CASE Begin(r) BY <1>2, <1>3, SaveTxKeeps, SaveTxThrowsKeeps DEF Begin
<1>4. CASE GiveUp(r) BY <1>2, <1>4, SaveTxKeeps, SaveTxThrowsKeeps DEF GiveUp
<1>5. CASE SaveProgress(r) BY <1>2, <1>5, SaveTxKeeps, SaveTxThrowsKeeps DEF SaveProgress
<1>6. CASE Finish(r) BY <1>2, <1>6, SaveTxKeeps, SaveTxThrowsKeeps DEF Finish
<1>7. CASE Catch(r) BY <1>7, SaveTxKeeps, SaveTxThrowsKeeps DEF Catch
<1>8. CASE StepRuns(r)
  <2> DEFINE s == [run[r] EXCEPT !.pc = "save", !.ran = @ + 1]
  <2>0. run[r] \in Executions /\ run[r].ran + 1 \in 0 .. NumSteps
    BY <1>1, <1>8 DEF StepRuns, ExecInv, Executions
  <2>1. s \in Executions /\ s.pc = "save" /\ s.tx = run[r].tx /\ s.ran = run[r].ran + 1
        /\ s.undone = run[r].undone /\ s.level = run[r].level /\ s.left = run[r].left
    BY <2>0 DEF Executions, Places
  <2>2. ExecInv(s, faults)
    BY <1>1, <1>2, <1>8, <2>1 DEF StepRuns, ExecInv, Executions, PlaceInv, CommitInv, UndoInv, Untouched, AtMost
  <2>3. run' = [run EXCEPT ![r] = s] BY <1>8 DEF StepRuns
  <2> HIDE DEF s
  <2> QED BY <1>8, <2>1, <2>2, <2>3, QuietStep DEF StepRuns
<1>9. CASE StepThrows(r)
  <2>1. CASE Throw(r, run[r]) BY <1>1, <1>9, <2>1, ThrowKeeps DEF StepThrows
  <2>2. CASE run[r].tx = "open" /\ Throw(r, [run[r] EXCEPT !.tx = "aborted"])
    <3> DEFINE s == [run[r] EXCEPT !.tx = "aborted"]
    <3>1. ExecInv(s, faults) BY <1>1, <1>9, <2>2, AbortInv DEF StepThrows
    <3>2. s.pc = "step" /\ s.tx = "aborted" BY <1>1, <1>9 DEF StepThrows, ExecInv, Executions
    <3>3. Throw(r, s) BY <2>2
    <3> HIDE DEF s
    <3> QED BY <1>1, <1>9, <3>1, <3>2, <3>3, ThrowKeeps DEF StepThrows
  <2> QED BY <1>9, <2>1, <2>2 DEF StepThrows
<1> QED BY <1>3, <1>4, <1>5, <1>6, <1>7, <1>8, <1>9

LEMMA InvUndo ==
  ASSUME IInv, NEW r \in Runs, Mark(r) \/ Undo(r) \/ Close(r)
  PROVE  IInv'
<1> USE RunsAssumption, StepsAssumption, BoundsAssumption
<1>1. ExecInv(run[r], faults) /\ run[r] \in Executions /\ faults \in 0 .. MaxFaults /\ crashes \in 0 .. MaxCrashes
      /\ row \in Rows
  BY DEF IInv, TypeOK, ExecInv
<1>2. CASE Mark(r)
  <2>1. CASE SaveLifecycleThrows(r) BY <1>2, <2>1, SaveLifecycleThrowsKeeps DEF Mark
  <2>2. CASE /\ SaveLifecycle(r, "COMPENSATING")
             /\ run' = [run EXCEPT ![r].pc = "undo", ![r].left = run[r].ran]
             /\ UNCHANGED <<lock, sweep, faults, crashes>>
    <3> DEFINE s == [run[r] EXCEPT !.pc = "undo", !.left = run[r].ran]
    <3>1. s \in Executions /\ s.pc = "undo" /\ s.tx = run[r].tx /\ s.ran = run[r].ran
          /\ s.undone = run[r].undone /\ s.level = run[r].level /\ s.left = run[r].ran
      BY <1>1 DEF Executions, Places
    <3>2. run[r].pc = "mark" /\ run[r].tx # "open" /\ lock = Nobody
      BY <1>2, <2>2 DEF Mark, SaveLifecycle, IInv, LockInv
    <3>3. run[r].ran \in Nat /\ run[r].ran <= NumSteps BY <1>1 DEF Executions
    <3>4. PlaceInv(s) /\ CommitInv(s, faults)
      BY <1>1, <3>1, <3>2, <3>3 DEF ExecInv, PlaceInv, CommitInv
    <3>5. UndoInv(s)
      BY <1>1, <3>1, <3>2, <3>3 DEF ExecInv, PlaceInv, UndoInv, Untouched, AtMost, Steps
    <3>6. ExecInv(s, faults) BY <3>1, <3>4, <3>5 DEF ExecInv
    <3>7. run' = [run EXCEPT ![r] = s] BY <2>2
    <3>8. /\ faults' \in 0 .. MaxFaults /\ faults <= faults' /\ ExecInv(s, faults') /\ crashes' \in 0 .. MaxCrashes
          /\ lock' = lock /\ lock' # r
      BY <1>1, <2>2, <3>2, <3>6
    <3>9. row' \in Rows /\ row'.st = "COMPENSATING"
      BY <1>1, <2>2 DEF SaveLifecycle, Rows, Statuses, Executions
    <3> HIDE DEF s
    <3> QED BY <2>2, <3>1, <3>7, <3>8, <3>9, StepOf
  <2> QED BY <1>2, <2>1, <2>2 DEF Mark
<1>3. CASE Undo(r)
  <2> DEFINE k == run[r].left
             s == [run[r] EXCEPT !.left = @ - 1, !.undone[k] = @ + 1]
  <2>1. k \in Steps /\ k - 1 \in 0 .. NumSteps BY <1>1, <1>3 DEF Undo, Executions, Steps
  <2>2. s.pc = run[r].pc /\ s.tx = run[r].tx /\ s.ran = run[r].ran /\ s.level = run[r].level /\ s.left = k - 1
        /\ s.draft = run[r].draft /\ s.undone = [run[r].undone EXCEPT ![k] = @ + 1]
    BY <1>1 DEF Executions
  <2>3. s \in Executions
    <3>1. s.undone \in [Steps -> Nat] BY <1>1, <2>1, <2>2 DEF Executions
    <3> QED BY <1>1, <2>1, <3>1 DEF Executions
  <2>4. \A j \in Steps : s.undone[j] = IF j = k THEN run[r].undone[k] + 1 ELSE run[r].undone[j]
    BY <1>1, <2>1, <2>2 DEF Executions
  <2>5. run[r].pc = "undo" BY <1>3 DEF Undo
  <2>6. run[r].undone \in [Steps -> Nat] /\ run[r].ran \in 0 .. NumSteps /\ k \in 1 .. NumSteps
    BY <1>1, <2>1 DEF Executions, Steps
  <2>7. s.tx \in {"closed", "committed"} /\ k <= run[r].ran
    BY <1>1, <2>2, <2>5 DEF ExecInv, PlaceInv
  <2>8. run' = [run EXCEPT ![r] = s] /\ UNCHANGED <<row, lock, sweep, faults, crashes>> BY <1>3 DEF Undo
  <2>9. UndoInv(run[r]) /\ CommitInv(run[r], faults) BY <1>1 DEF ExecInv
  <2> HIDE DEF s, k
  <2>10. PlaceInv(s) BY <2>2, <2>5, <2>6, <2>7 DEF PlaceInv
  <2>11. CommitInv(s, faults) BY <2>2, <2>5, <2>9 DEF CommitInv
  <2>12. UndoInv(s)
    <3>1. ASSUME s.level # "outer" PROVE AtMost(s, 1) /\ \A j \in 1 .. s.left : s.undone[j] = 0
      <4>1. \A j \in Steps : run[r].undone[j] <= 1
        BY <2>2, <2>9, <3>1 DEF UndoInv, AtMost
      <4>2. run[r].undone[k] = 0 /\ \A j \in 1 .. k : run[r].undone[j] = 0
        BY <2>2, <2>5, <2>6, <2>9, <3>1 DEF UndoInv, k
      <4> QED BY <2>1, <2>2, <2>4, <2>6, <4>1, <4>2 DEF AtMost, Steps
    <3>2. ASSUME s.level = "outer" PROVE AtMost(s, 2) /\ \A j \in 1 .. s.left : s.undone[j] <= 1
      <4>1. \A j \in Steps : run[r].undone[j] <= 2
        BY <2>2, <2>9, <3>2 DEF UndoInv, AtMost
      <4>2. run[r].undone[k] <= 1 /\ \A j \in 1 .. k : run[r].undone[j] <= 1
        BY <2>2, <2>5, <2>6, <2>9, <3>2 DEF UndoInv, k
      <4> QED BY <2>1, <2>2, <2>4, <2>6, <4>1, <4>2 DEF AtMost, Steps
    <3>3. \A j \in s.left + 1 .. s.ran : s.undone[j] > 0
      <4>1. \A j \in k + 1 .. run[r].ran : run[r].undone[j] > 0
        BY <2>5, <2>9 DEF UndoInv, k
      <4> QED BY <2>2, <2>4, <2>6, <4>1 DEF Steps
    <3> QED BY <2>2, <2>5, <2>7, <3>1, <3>2, <3>3 DEF UndoInv
  <2> QED BY <2>2, <2>3, <2>5, <2>8, <2>10, <2>11, <2>12, QuietStep DEF ExecInv
<1>4. CASE Close(r)
  <2>1. CASE SaveLifecycleThrows(r) BY <1>4, <2>1, SaveLifecycleThrowsKeeps DEF Close
  <2>2. CASE /\ SaveLifecycle(r, "COMPENSATED")
             /\ run' = [run EXCEPT ![r].pc = IF run[r].level = "outer" THEN "returned" ELSE "commit"]
             /\ UNCHANGED <<lock, sweep, faults, crashes>>
    <3> DEFINE to == IF run[r].level = "outer" THEN "returned" ELSE "commit"
               s == [run[r] EXCEPT !.pc = to]
    <3>1. s \in Executions /\ s.pc = to /\ s.tx = run[r].tx /\ s.ran = run[r].ran
          /\ s.undone = run[r].undone /\ s.level = run[r].level /\ s.left = 0
      BY <1>1, <1>4 DEF Executions, Places, Close
    <3>2. run[r].pc = "undo" /\ run[r].tx # "open" /\ run[r].left = 0 /\ lock = Nobody
      BY <1>1, <1>4, <2>2 DEF Close, SaveLifecycle, ExecInv, PlaceInv
    <3>3. run[r].ran \in Nat BY <1>1 DEF Executions
    <3>4. PlaceInv(s)
      BY <1>1, <3>1, <3>2, <3>3 DEF ExecInv, PlaceInv, CommitInv
    <3>5. UndoInv(s) /\ CommitInv(s, faults)
      BY <1>1, <3>1, <3>2, <3>3 DEF ExecInv, PlaceInv, UndoInv, Untouched, AtMost, CommitInv
    <3>6. ExecInv(s, faults) BY <3>1, <3>4, <3>5 DEF ExecInv
    <3>7. run' = [run EXCEPT ![r] = s] BY <2>2
    <3>8. /\ faults' \in 0 .. MaxFaults /\ faults <= faults' /\ ExecInv(s, faults') /\ crashes' \in 0 .. MaxCrashes
          /\ lock' = lock /\ lock' # r /\ s.pc # "mark"
      BY <1>1, <2>2, <3>1, <3>2, <3>6
    <3>9. row' \in Rows /\ row'.st = "COMPENSATED"
      BY <1>1, <2>2 DEF SaveLifecycle, Rows, Statuses, Executions
    <3> HIDE DEF s
    <3> QED BY <2>2, <3>7, <3>8, <3>9, StepOf
  <2> QED BY <1>4, <2>1, <2>2 DEF Close
<1> QED BY <1>2, <1>3, <1>4

LEMMA InvEnds ==
  ASSUME IInv, NEW r \in Runs, Expire(r) \/ Commit(r) \/ CommitThrows(r) \/ Crash(r)
  PROVE  IInv'
<1> USE RunsAssumption, StepsAssumption, BoundsAssumption
<1>1. ExecInv(run[r], faults) /\ run[r] \in Executions /\ faults \in 0 .. MaxFaults /\ crashes \in 0 .. MaxCrashes
      /\ row \in Rows /\ row.st \in {"NONE", "COMPLETED", "COMPENSATING", "COMPENSATED"}
  BY DEF IInv, TypeOK, ExecInv, OnlyOutcomesVisible
<1>2. Unlocked(r) # r BY DEF Unlocked
<1>3. run[r].tx \in {"none", "open", "aborted"} => AtMost(run[r], 1) /\ AtMost(run[r], 2)
  BY <1>1 DEF ExecInv, Executions, UndoInv, Untouched, AtMost
<1>4. run[r].level # "outer" => AtMost(run[r], 1) /\ AtMost(run[r], 2)
  BY <1>1 DEF ExecInv, Executions, UndoInv, Untouched, AtMost
<1>5. CASE Expire(r)
  <2> DEFINE s == [run[r] EXCEPT !.tx = "closed"]
  <2>1. s \in Executions /\ s.tx = "closed" /\ s.pc = run[r].pc /\ s.ran = run[r].ran /\ s.left = run[r].left
        /\ s.undone = run[r].undone /\ s.level = run[r].level /\ s.draft = run[r].draft
    BY <1>1 DEF Executions
  <2>2. run[r].tx \in {"open", "aborted"} /\ run' = [run EXCEPT ![r] = s] /\ lock' = Unlocked(r)
        /\ UNCHANGED <<row, sweep, faults, crashes>>
    BY <1>5 DEF Expire
  <2> HIDE DEF s
  <2>3. PlaceInv(s) /\ CommitInv(s, faults) BY <1>1, <2>1, <2>2 DEF ExecInv, PlaceInv, CommitInv
  <2>4. UndoInv(s) BY <1>1, <2>1, <2>2 DEF ExecInv, UndoInv, Untouched, AtMost
  <2>5. ExecInv(s, faults') /\ faults' \in 0 .. MaxFaults /\ faults <= faults'
    BY <1>1, <2>1, <2>2, <2>3, <2>4 DEF ExecInv
  <2> QED BY <1>1, <1>2, <2>1, <2>2, <2>5, StepOf
<1>6. CASE Commit(r)
  <2> DEFINE a == [run[r] EXCEPT !.pc = "returned", !.tx = "committed"]
             b == [run[r] EXCEPT !.pc = "mark", !.level = "outer", !.tx = "committed"]
  <2>1. run[r].pc = "commit" /\ run[r].tx = "open" /\ run[r].ran = NumSteps /\ run[r].level # "outer"
        /\ row' = run[r].draft /\ row'.st = "COMPLETED" /\ lock' = Unlocked(r) /\ UNCHANGED <<sweep, crashes>>
    BY <1>1, <1>6 DEF Commit, ExecInv, PlaceInv
  <2>2. a \in Executions /\ a.tx = "committed" /\ a.pc = "returned" /\ a.ran = run[r].ran /\ a.left = run[r].left
        /\ a.undone = run[r].undone /\ a.level = run[r].level
    BY <1>1 DEF Executions, Places
  <2>3. b \in Executions /\ b.tx = "committed" /\ b.pc = "mark" /\ b.ran = run[r].ran /\ b.left = run[r].left
        /\ b.undone = run[r].undone /\ b.level = "outer"
    BY <1>1 DEF Executions, Places
  <2>4. \/ run' = [run EXCEPT ![r] = a] /\ faults' = faults
        \/ run' = [run EXCEPT ![r] = b] /\ faults < MaxFaults /\ faults' = faults + 1
    BY <1>6 DEF Commit
  <2>5. row' \in Rows BY <1>1, <2>1 DEF Executions
  <2> HIDE DEF a, b
  <2>6. ExecInv(a, faults)
    BY <1>1, <1>4, <2>1, <2>2 DEF ExecInv, PlaceInv, CommitInv, UndoInv, Untouched, AtMost
  <2>7. ExecInv(b, faults + 1)
    BY <1>1, <1>4, <2>1, <2>3 DEF ExecInv, PlaceInv, CommitInv, UndoInv, AtMost
  <2>8. CASE run' = [run EXCEPT ![r] = a] /\ faults' = faults
    <3>1. ExecInv(a, faults') /\ faults' \in 0 .. MaxFaults /\ faults <= faults' BY <1>1, <2>6, <2>8
    <3> QED BY <1>1, <1>2, <2>1, <2>2, <2>5, <2>8, <3>1, StepOf
  <2>9. CASE run' = [run EXCEPT ![r] = b] /\ faults < MaxFaults /\ faults' = faults + 1
    <3>1. ExecInv(b, faults') /\ faults' \in 0 .. MaxFaults /\ faults <= faults' BY <1>1, <2>7, <2>9
    <3> QED BY <1>1, <1>2, <2>1, <2>3, <2>5, <2>9, <3>1, StepOf
  <2> QED BY <2>4, <2>8, <2>9
<1>7. CASE CommitThrows(r)
  <2> DEFINE s == [run[r] EXCEPT !.pc = "mark", !.level = "outer", !.tx = "closed"]
  <2>1. s \in Executions /\ s.tx = "closed" /\ s.pc = "mark" /\ s.ran = run[r].ran /\ s.left = run[r].left
        /\ s.undone = run[r].undone /\ s.level = "outer"
    BY <1>1 DEF Executions, Places
  <2>2. run' = [run EXCEPT ![r] = s] /\ lock' = Unlocked(r) /\ UNCHANGED <<row, sweep, crashes>>
        /\ faults' \in 0 .. MaxFaults /\ faults <= faults' /\ run[r].level # "outer"
    <3>1. faults' = faults \/ (faults < MaxFaults /\ faults' = faults + 1) BY <1>7 DEF CommitThrows
    <3>2. faults' \in 0 .. MaxFaults /\ faults <= faults' BY <1>1, <3>1
    <3>3. run[r].pc = "commit" /\ run[r].level # "outer" BY <1>1, <1>7 DEF CommitThrows, ExecInv, PlaceInv
    <3> QED BY <1>7, <3>2, <3>3 DEF CommitThrows
  <2> HIDE DEF s
  <2>3. ExecInv(s, faults')
    <3>1. run[r].tx # "committed" BY <1>1, <1>7 DEF CommitThrows, ExecInv, PlaceInv
    <3>2. PlaceInv(s) /\ CommitInv(s, faults') BY <1>1, <2>1, <3>1 DEF ExecInv, PlaceInv, CommitInv
    <3>3. AtMost(s, 1) /\ AtMost(s, 2) BY <1>4, <2>1, <2>2 DEF AtMost
    <3> QED BY <2>1, <3>2, <3>3 DEF ExecInv, UndoInv
  <2> QED BY <1>1, <1>2, <2>1, <2>2, <2>3, StepOf
<1>8. CASE Crash(r)
  <2> DEFINE to == IF run[r].tx = "committed" THEN "committed" ELSE "closed"
             s == [run[r] EXCEPT !.pc = "dead", !.tx = to]
  <2>1. s \in Executions /\ s.tx = to /\ s.pc = "dead" /\ s.ran = run[r].ran /\ s.left = run[r].left
        /\ s.undone = run[r].undone /\ s.level = run[r].level
    BY <1>1 DEF Executions, Places
  <2>2. run' = [run EXCEPT ![r] = s] /\ lock' = Unlocked(r) /\ UNCHANGED <<row, sweep, faults>>
        /\ crashes' \in 0 .. MaxCrashes /\ run[r].pc # "returned"
    <3>1. crashes' \in 0 .. MaxCrashes BY <1>1, <1>8 DEF Crash
    <3> QED BY <1>8, <3>1 DEF Crash, Answered
  <2> HIDE DEF s
  <2>3. PlaceInv(s) /\ CommitInv(s, faults)
    BY <1>1, <2>1, <2>2 DEF ExecInv, PlaceInv, CommitInv
  <2>4. UndoInv(s) BY <1>1, <2>1, <2>2 DEF ExecInv, UndoInv, AtMost
  <2>5. ExecInv(s, faults') /\ faults' \in 0 .. MaxFaults /\ faults <= faults'
    BY <1>1, <2>1, <2>2, <2>3, <2>4 DEF ExecInv
  <2> QED BY <1>1, <1>2, <2>1, <2>2, <2>5, StepOf
<1> QED BY <1>5, <1>6, <1>7, <1>8

\* What happens to the row from outside the executions leaves them alone.
LEMMA InvOutside ==
  ASSUME IInv, SweepFind \/ SweepMark \/ SweepUndo \/ SweepClose \/ Cleanup
  PROVE  IInv'
<1>1. UNCHANGED <<run, lock, faults, crashes>>
  BY DEF SweepFind, SweepMark, SweepUndo, SweepClose, SweepSave, Cleanup
<1>2. TypeOK' /\ OnlyOutcomesVisible'
  BY <1>1, StepsAssumption DEF IInv, TypeOK, OnlyOutcomesVisible, SweepFind, SweepMark, SweepUndo, SweepClose,
       SweepSave, Cleanup, NoRow, Rows, Statuses
<1> QED BY <1>1, <1>2 DEF IInv, LockInv

LEMMA InvStep == IInv /\ [Next]_vars => IInv'
<1> SUFFICES ASSUME IInv, [Next]_vars PROVE IInv'
  OBVIOUS
<1>1. CASE UNCHANGED vars
  BY <1>1 DEF vars, IInv, TypeOK, OnlyOutcomesVisible, LockInv
<1>2. ASSUME NEW r \in Runs, Start(r) \/ Advance(r) \/ Expire(r) \/ Crash(r) PROVE IInv'
  BY <1>2, InvStart, InvSteps, InvUndo, InvEnds DEF Advance
<1> QED BY <1>1, <1>2, InvOutside DEF Next

-----------------------------------------------------------------------------
(* The theorems.                                                           *)

THEOREM Invariance == Spec => []IInv
BY InvInit, InvStep, PTL DEF Spec

\* Every variable keeps its type, the local state of the executions included.
THEOREM TypeCorrect == Spec => []TypeOK
<1>1. IInv => TypeOK BY DEF IInv
<1> QED BY <1>1, Invariance, PTL

\* No reader of saga_states sees a saga started, in progress or failed.
THEOREM OutcomesTheorem == Spec => []OnlyOutcomesVisible
<1>1. IInv => OnlyOutcomesVisible BY DEF IInv
<1> QED BY <1>1, Invariance, PTL

\* A transaction commits with all the steps, and only a lost reply to the commit
\* makes its execution compensate them.
THEOREM WholeTheorem == Spec => []CommittedIsWhole
<1>1. IInv => CommittedIsWhole
  BY DEF IInv, TypeOK, ExecInv, CommitInv, Untouched, CommittedIsWhole
<1> QED BY <1>1, Invariance, PTL

\* An execution that returns without a commit has compensated all it executed.
THEOREM SettledTheorem == Spec => []ReturnedIsSettled
<1>1. IInv => ReturnedIsSettled BY DEF IInv, ExecInv, UndoInv, ReturnedIsSettled
<1> QED BY <1>1, Invariance, PTL

\* No fault makes an execution compensate a step a third time.
THEOREM TwiceTheorem == Spec => []CompensatedAtMostTwice
<1>1. IInv => CompensatedAtMostTwice
  BY DEF IInv, ExecInv, Executions, UndoInv, AtMost, CompensatedAtMostTwice
<1> QED BY <1>1, Invariance, PTL

-----------------------------------------------------------------------------
(* The refinement: an execution is one of AtomicSaga.                       *)

\* A step of r in terms of the promise: what its new state is to AtomicSaga, and
\* whether it has just returned.
Execs == [q \in Runs |-> ExecOf(run[q])]

Returned == {q \in Runs : run[q].pc = "returned"}

LEMMA OneExecMoves ==
  ASSUME TypeOK, NEW r \in Runs, NEW s, run' = [run EXCEPT ![r] = s],
         run[r].pc = "returned" => s.pc = "returned"
  PROVE  /\ Execs' = [Execs EXCEPT ![r] = ExecOf(s)]
         /\ Returned' = IF s.pc = "returned" THEN Returned \union {r} ELSE Returned
         /\ (s.pc = "returned" <=> run[r].pc = "returned") => Returned' = Returned
<1>1. \A q \in Runs : run'[q] = IF q = r THEN s ELSE run[q] BY DEF TypeOK
<1>2. run'[r] = s BY <1>1
<1>3. \A q \in Runs : q # r => run'[q] = run[q] BY <1>1
<1>4. Execs' = [Execs EXCEPT ![r] = ExecOf(s)]
  <2>1. Execs' = [q \in Runs |-> ExecOf(run'[q])] BY DEF Execs, ExecOf, FateOf, DoneBy
  <2>2. Execs = [q \in Runs |-> ExecOf(run[q])] BY DEF Execs
  <2> QED BY <1>2, <1>3, <2>1, <2>2
<1>5. Returned' = {q \in Runs : run'[q].pc = "returned"} BY DEF Returned
<1>6. Returned' = IF s.pc = "returned" THEN Returned \union {r} ELSE Returned
  BY <1>2, <1>3, <1>5 DEF Returned
<1>7. (s.pc = "returned" <=> run[r].pc = "returned") => Returned' = Returned
  BY <1>2, <1>3, <1>5 DEF Returned
<1> QED BY <1>4, <1>6, <1>7

\* A step that only changes where the execution is, or what it has saved, is none
\* of the promise's.
LEMMA ExecKept ==
  ASSUME IInv, NEW r \in Runs, NEW s, run' = [run EXCEPT ![r] = s],
         ExecOf(s) = ExecOf(run[r]), s.pc = "returned" <=> run[r].pc = "returned",
         row'.st = row.st
  PROVE  UNCHANGED Atomic!vars
<1>1. TypeOK BY DEF IInv
<1>2. Execs' = [Execs EXCEPT ![r] = Execs[r]] /\ Returned' = Returned
  <2>1. Execs[r] = ExecOf(s) BY DEF Execs
  <2>2. Execs' = [Execs EXCEPT ![r] = ExecOf(s)] /\ Returned' = Returned
    BY <1>1, OneExecMoves
  <2> QED BY <2>1, <2>2
<1>3. Execs = [q \in Runs |-> Execs[q]] BY DEF Execs
<1>4. Execs' = Execs BY <1>2, <1>3
<1> QED BY <1>2, <1>4 DEF Atomic!vars, Execs, Returned

LEMMA ExecFails ==
  ASSUME IInv, NEW r \in Runs, NEW s, run' = [run EXCEPT ![r] = s],
         FateOf(s) \in {FateOf(run[r]), "failed"}, FateOf(run[r]) # "committed",
         DoneBy(s) = DoneBy(run[r]), s.pc = "returned" <=> run[r].pc = "returned",
         row'.st = row.st
  PROVE  [Atomic!Next]_(Atomic!vars)
<1>1. CASE FateOf(s) = FateOf(run[r])
  <2>1. ExecOf(s) = ExecOf(run[r]) BY <1>1 DEF ExecOf
  <2> QED BY <2>1, ExecKept
<1>2. CASE FateOf(s) = "failed" /\ FateOf(run[r]) = "running"
  <2>1. Atomic!Fail(r)
    <3>1. ExecOf(s) = [fate |-> "failed", done |-> DoneBy(run[r])] BY <1>2 DEF ExecOf
    <3>2. Execs' = [Execs EXCEPT ![r] = ExecOf(s)] /\ Returned' = Returned
      <4>1. TypeOK BY DEF IInv
      <4> QED BY <4>1, OneExecMoves
    <3>3. Execs[r].fate = "running" /\ Execs[r].done = DoneBy(run[r])
      BY <1>2 DEF Execs, ExecOf
    <3> QED BY <3>1, <3>2, <3>3 DEF Atomic!Fail, Atomic!Becomes, Execs, Returned
  <2> QED BY <2>1 DEF Atomic!Next
<1>3. FateOf(run[r]) \in {"committed", "failed", "running"} BY DEF FateOf
<1> QED BY <1>1, <1>2, <1>3

\* An exception does not undo anything, and at most ends the transaction.
LEMMA ThrownFate ==
  ASSUME NEW s, NEW f \in Nat, ExecInv(s, f), s.tx # "committed" \/ s.level = "outer"
  PROVE  /\ FateOf(Thrown(s)) \in {FateOf(s), "failed"}
         /\ FateOf(s) = "committed" => FateOf(Thrown(s)) = "committed"
         /\ DoneBy(Thrown(s)) = DoneBy(s)
         /\ Thrown(s).pc # "returned"
<1> USE DEF ExecInv, Executions
<1>1. CASE s.level = "try" BY <1>1 DEF Thrown, FateOf, DoneBy
<1>2. CASE s.level = "catch" BY <1>2 DEF Thrown, FateOf, DoneBy
<1>3. CASE s.level = "outer" BY <1>3 DEF Thrown, FateOf, DoneBy
<1> QED BY <1>1, <1>2, <1>3

LEMMA ThrowRefines ==
  ASSUME IInv, NEW r \in Runs, NEW s, Throw(r, s), NEW f \in Nat, ExecInv(s, f),
         FateOf(s) = FateOf(run[r]), DoneBy(s) = DoneBy(run[r]),
         s.tx # "committed" \/ s.level = "outer",
         run[r].pc # "returned", row'.st = row.st
  PROVE  [Atomic!Next]_(Atomic!vars)
<1> DEFINE t == Thrown(s)
<1>1. run' = [run EXCEPT ![r] = t] BY DEF Throw
<1>2. /\ FateOf(t) \in {FateOf(run[r]), "failed"}
      /\ FateOf(run[r]) = "committed" => FateOf(t) = "committed"
      /\ DoneBy(t) = DoneBy(run[r]) /\ t.pc # "returned"
  BY ThrownFate
<1> HIDE DEF t
<1>3. CASE FateOf(run[r]) = "committed"
  <2>1. ExecOf(t) = ExecOf(run[r]) BY <1>2, <1>3 DEF ExecOf
  <2> QED BY <1>1, <1>2, <2>1, ExecKept
<1>4. CASE FateOf(run[r]) # "committed" BY <1>1, <1>2, <1>4, ExecFails
<1> QED BY <1>3, <1>4

LEMMA SaveTxRefines ==
  ASSUME IInv, NEW r \in Runs, run[r].pc \in {"begin", "step", "save", "catch"},
         \/ \E st \in {"IN_PROGRESS", "COMPLETED", "FAILED"}, next \in {"step", "mark", "commit"} :
              SaveTx(r, st, next)
         \/ SaveTxThrows(r)
  PROVE  [Atomic!Next]_(Atomic!vars)
<1> USE BoundsAssumption
<1>1. ExecInv(run[r], faults) /\ faults \in Nat BY DEF IInv, TypeOK
<1>2. run[r].tx # "committed" BY <1>1 DEF ExecInv, PlaceInv
<1>3. ASSUME NEW st \in {"IN_PROGRESS", "COMPLETED", "FAILED"}, NEW next \in {"step", "mark", "commit"},
             SaveTx(r, st, next)
      PROVE  [Atomic!Next]_(Atomic!vars)
  <2> DEFINE s == [run[r] EXCEPT !.pc = next, !.draft = [st |-> st, steps |-> run[r].ran]]
  <2>1. s.tx = run[r].tx /\ s.ran = run[r].ran /\ s.undone = run[r].undone /\ s.pc = next
    BY <1>1 DEF ExecInv, Executions
  <2>2. run' = [run EXCEPT ![r] = s] /\ row'.st = row.st BY <1>3 DEF SaveTx
  <2> HIDE DEF s
  <2>3. ExecOf(s) = ExecOf(run[r]) BY <2>1 DEF ExecOf, FateOf, DoneBy
  <2> QED BY <2>1, <2>2, <2>3, ExecKept
<1>4. CASE SaveTxThrows(r)
  <2>1. CASE Throw(r, run[r]) BY <1>1, <1>2, <1>4, <2>1, ThrowRefines DEF SaveTxThrows
  <2>2. CASE run[r].tx = "open" /\ Throw(r, [run[r] EXCEPT !.tx = "aborted"])
    <3> DEFINE s == [run[r] EXCEPT !.tx = "aborted"]
    <3>1. ExecInv(s, faults) BY <1>1, <2>2, AbortInv
    <3>2. s.tx = "aborted" /\ s.ran = run[r].ran /\ s.undone = run[r].undone
      BY <1>1 DEF ExecInv, Executions
    <3>3. Throw(r, s) BY <2>2
    <3>4. row'.st = row.st BY <1>4 DEF SaveTxThrows
    <3> HIDE DEF s
    <3>5. FateOf(s) = FateOf(run[r]) /\ DoneBy(s) = DoneBy(run[r])
      BY <2>2, <3>2 DEF FateOf, DoneBy
    <3> QED BY <1>1, <3>1, <3>2, <3>3, <3>4, <3>5, ThrowRefines
  <2> QED BY <1>4, <2>1, <2>2 DEF SaveTxThrows
<1> QED BY <1>3, <1>4

\* The steps that undo, and with them the row.
LEMMA UndoRefines ==
  ASSUME IInv, NEW r \in Runs, Mark(r) \/ Undo(r) \/ Close(r)
  PROVE  [Atomic!Next]_(Atomic!vars)
<1> USE BoundsAssumption
<1>1. /\ ExecInv(run[r], faults) /\ run[r] \in Executions /\ faults \in Nat /\ TypeOK
      /\ run[r].pc # "returned"
  BY DEF IInv, TypeOK, ExecInv, Mark, Undo, Close
<1>2. ASSUME run[r].tx # "open", run[r].pc \in {"mark", "undo"}
      PROVE  Execs[r].fate # "running"
  BY <1>1, <1>2 DEF ExecInv, PlaceInv, Execs, ExecOf, FateOf
<1>3. CASE SaveLifecycleThrows(r) /\ run[r].pc \in {"mark", "undo"}
  <2>1. run[r].tx # "committed" \/ run[r].level = "outer"
    BY <1>1, <1>3 DEF ExecInv, CommitInv
  <2> QED BY <1>1, <1>3, <2>1, ThrowRefines DEF SaveLifecycleThrows
<1>4. CASE Mark(r) /\ ~SaveLifecycleThrows(r)
  <2> DEFINE s == [run[r] EXCEPT !.pc = "undo", !.left = run[r].ran]
  <2>1. s.tx = run[r].tx /\ s.ran = run[r].ran /\ s.undone = run[r].undone /\ s.pc = "undo"
    BY <1>1 DEF Executions
  <2>2. run' = [run EXCEPT ![r] = s] /\ lock = Nobody /\ row'.st = "COMPENSATING"
    <3>1. SaveLifecycle(r, "COMPENSATING") /\ run' = [run EXCEPT ![r] = s] BY <1>4 DEF Mark
    <3> HIDE DEF s
    <3> QED BY <3>1 DEF SaveLifecycle
  <2>3. run[r].tx # "open" /\ run[r].pc = "mark"
    BY <1>4, <2>2, RunsAssumption DEF Mark, IInv, LockInv
  <2> HIDE DEF s
  <2>4. ExecOf(s) = Execs[r] BY <2>1 DEF Execs, ExecOf, FateOf, DoneBy
  <2>5. Execs' = [Execs EXCEPT ![r] = Execs[r]] /\ Returned' = Returned
    <3>1. /\ Execs' = [Execs EXCEPT ![r] = ExecOf(s)]
          /\ Returned' = IF s.pc = "returned" THEN Returned \union {r} ELSE Returned
      BY <1>1, <2>2, OneExecMoves
    <3> QED BY <2>1, <2>4, <3>1
  <2>6. Execs = [q \in Runs |-> Execs[q]] BY DEF Execs
  <2>7. Execs' = Execs BY <2>5, <2>6
  <2>8. Atomic!Report(r)
    BY <1>2, <2>2, <2>3, <2>5, <2>7 DEF Atomic!Report, Execs, Returned
  <2> QED BY <2>8 DEF Atomic!Next
<1>5. CASE Undo(r)
  <2> DEFINE k == run[r].left
             s == [run[r] EXCEPT !.left = @ - 1, !.undone[k] = @ + 1]
  <2>1. k \in Steps BY <1>1, <1>5 DEF Undo, Executions, Steps
  <2>2. /\ s.pc = "undo" /\ s.tx = run[r].tx /\ s.ran = run[r].ran
        /\ s.undone = [run[r].undone EXCEPT ![k] = @ + 1]
    BY <1>1, <1>5 DEF Undo, Executions
  <2>3. run' = [run EXCEPT ![r] = s] /\ row' = row BY <1>5 DEF Undo
  <2>4. run[r].undone \in [Steps -> Nat] /\ run[r].ran \in 0 .. NumSteps BY <1>1 DEF Executions
  <2>5. run[r].tx # "open" /\ run[r].pc = "undo" BY <1>1, <1>5 DEF Undo, ExecInv, PlaceInv
  <2> HIDE DEF s, k
  <2>6. \A j \in 1 .. run[r].ran : s.undone[j] = IF j = k THEN run[r].undone[k] + 1 ELSE run[r].undone[j]
    BY <2>1, <2>2, <2>4, StepsAssumption DEF Steps
  <2>7. DoneBy(s) = DoneBy(run[r]) \ {k}
    <3>1. run[r].undone[k] \in Nat BY <2>1, <2>4
    <3>2. run[r].undone[k] + 1 # 0 BY <3>1
    <3> QED BY <2>2, <2>6, <3>2 DEF DoneBy
  <2>8. ExecOf(s) = [fate |-> Execs[r].fate, done |-> Execs[r].done \ {k}]
    BY <2>2, <2>7 DEF Execs, ExecOf, FateOf
  <2>9. Execs' = [Execs EXCEPT ![r] = ExecOf(s)] /\ Returned' = Returned
    BY <1>1, <2>2, <2>3, OneExecMoves
  <2>10. Execs[r].fate # "running" BY <1>2, <2>5
  <2>11. Atomic!Compensate(r)
    BY <2>1, <2>3, <2>8, <2>9, <2>10
       DEF Atomic!Compensate, Atomic!Becomes, Execs, Returned
  <2> QED BY <2>11 DEF Atomic!Next
<1>6. CASE Close(r) /\ ~SaveLifecycleThrows(r)
  <2> DEFINE s == [run[r] EXCEPT !.pc = IF run[r].level = "outer" THEN "returned" ELSE "commit"]
  <2>1. /\ s.tx = run[r].tx /\ s.ran = run[r].ran /\ s.undone = run[r].undone
        /\ s.pc \in {"returned", "commit"}
    BY <1>1 DEF Executions
  <2>2. run' = [run EXCEPT ![r] = s] /\ row'.st = "COMPENSATED"
    BY <1>6 DEF Close, SaveLifecycle
  <2>3. run[r].tx # "open" /\ run[r].pc = "undo" BY <1>1, <1>6 DEF Close, ExecInv, PlaceInv
  <2> HIDE DEF s
  <2>4. ExecOf(s) = Execs[r] BY <2>1 DEF Execs, ExecOf, FateOf, DoneBy
  <2>5. Execs' = [Execs EXCEPT ![r] = Execs[r]] /\ Returned' \in {Returned, Returned \union {r}}
    BY <1>1, <2>2, <2>4, OneExecMoves
  <2>6. Execs = [q \in Runs |-> Execs[q]] BY DEF Execs
  <2>7. Execs' = Execs BY <2>5, <2>6
  <2>8. Execs[r].done = {}
    <3>1. \A k \in 1 .. run[r].ran : run[r].undone[k] > 0
      BY <1>1, <1>6 DEF Close, ExecInv, UndoInv
    <3>2. DoneBy(run[r]) = {} BY <3>1 DEF DoneBy
    <3> QED BY <3>2 DEF Execs, ExecOf
  <2>9. Atomic!Report(r)
    BY <1>2, <2>2, <2>3, <2>5, <2>7, <2>8 DEF Atomic!Report, Atomic!Settled, Execs, Returned
  <2> QED BY <2>9 DEF Atomic!Next
<1> QED BY <1>3, <1>4, <1>5, <1>6 DEF Mark, Close

\* The steps before the transaction ends.
LEMMA RunRefines ==
  ASSUME IInv, NEW r \in Runs,
         \/ Start(r) \/ Begin(r) \/ StepRuns(r) \/ StepThrows(r) \/ GiveUp(r)
         \/ SaveProgress(r) \/ Finish(r) \/ Catch(r)
  PROVE  [Atomic!Next]_(Atomic!vars)
<1> USE BoundsAssumption
<1>1. ExecInv(run[r], faults) /\ run[r] \in Executions /\ faults \in Nat /\ TypeOK
  BY DEF IInv, TypeOK, ExecInv
<1>2. CASE Start(r)
  <2>1. PICK s \in {[run[r] EXCEPT !.pc = "threw"], [run[r] EXCEPT !.pc = "begin", !.tx = "open"],
                    [run[r] EXCEPT !.pc = "mark", !.level = "outer", !.tx = "closed"]} :
          run' = [run EXCEPT ![r] = s]
    BY <1>2 DEF Start
  <2>2. run[r].pc = "idle" /\ run[r].tx = "none" /\ row' = row
    BY <1>1, <1>2 DEF Start, ExecInv, PlaceInv
  <2>3. /\ s.pc # "returned" /\ s.ran = run[r].ran /\ s.undone = run[r].undone
        /\ s.tx \in {"none", "open", "closed"}
    BY <1>1, <2>1, <2>2 DEF Executions
  <2>4. /\ FateOf(s) \in {FateOf(run[r]), "failed"} /\ FateOf(run[r]) # "committed"
        /\ DoneBy(s) = DoneBy(run[r])
    BY <2>2, <2>3 DEF FateOf, DoneBy
  <2> QED BY <2>1, <2>2, <2>3, <2>4, ExecFails
<1>3. CASE Begin(r) \/ GiveUp(r) \/ SaveProgress(r) \/ Finish(r) \/ Catch(r)
  BY <1>3, SaveTxRefines DEF Begin, GiveUp, SaveProgress, Finish, Catch
<1>4. CASE StepThrows(r)
  <2>1. run[r].tx # "committed" /\ run[r].pc = "step" /\ row' = row
    BY <1>1, <1>4 DEF StepThrows, ExecInv, PlaceInv
  <2>2. CASE Throw(r, run[r]) BY <1>1, <2>1, <2>2, ThrowRefines
  <2>3. CASE run[r].tx = "open" /\ Throw(r, [run[r] EXCEPT !.tx = "aborted"])
    <3> DEFINE s == [run[r] EXCEPT !.tx = "aborted"]
    <3>1. ExecInv(s, faults) BY <1>1, <2>1, <2>3, AbortInv
    <3>2. s.tx = "aborted" /\ s.ran = run[r].ran /\ s.undone = run[r].undone
      BY <1>1 DEF Executions
    <3>3. Throw(r, s) BY <2>3
    <3> HIDE DEF s
    <3>4. FateOf(s) = FateOf(run[r]) /\ DoneBy(s) = DoneBy(run[r])
      BY <2>3, <3>2 DEF FateOf, DoneBy
    <3> QED BY <1>1, <2>1, <3>1, <3>2, <3>3, <3>4, ThrowRefines
  <2> QED BY <1>4, <2>2, <2>3 DEF StepThrows
<1>5. CASE StepRuns(r)
  <2> DEFINE s == [run[r] EXCEPT !.pc = "save", !.ran = @ + 1]
             k == run[r].ran + 1
  <2>1. k \in Steps /\ run[r].ran \in Nat
    BY <1>1, <1>5, StepsAssumption DEF StepRuns, Executions, Steps
  <2>2. s.pc = "save" /\ s.tx = run[r].tx /\ s.ran = k /\ s.undone = run[r].undone
    BY <1>1 DEF Executions
  <2>3. run' = [run EXCEPT ![r] = s] /\ row' = row /\ run[r].pc = "step" BY <1>5 DEF StepRuns
  <2>4. run[r].tx # "committed" BY <1>1, <2>3 DEF ExecInv, PlaceInv
  <2> HIDE DEF s
  <2>5. 1 .. k = (1 .. run[r].ran) \union {k} BY <2>1
  <2> HIDE DEF k
  <2>6. CASE run[r].undone[k] = 0
    <3>1. DoneBy(s) = DoneBy(run[r]) \union {k} BY <2>2, <2>5, <2>6 DEF DoneBy
    <3>2. ExecOf(s) = [fate |-> Execs[r].fate, done |-> Execs[r].done \union {k}]
      BY <2>2, <3>1 DEF Execs, ExecOf, FateOf
    <3>3. Execs' = [Execs EXCEPT ![r] = ExecOf(s)] /\ Returned' = Returned
      BY <1>1, <2>2, <2>3, OneExecMoves
    <3>4. Execs[r].fate # "committed" BY <2>4 DEF Execs, ExecOf, FateOf
    <3>5. Atomic!Do(r)
      BY <2>1, <2>3, <3>2, <3>3, <3>4 DEF Atomic!Do, Atomic!Becomes, Execs, Returned
    <3> QED BY <3>5 DEF Atomic!Next
  <2>7. CASE run[r].undone[k] # 0
    <3>1. DoneBy(s) = DoneBy(run[r]) BY <2>2, <2>5, <2>7 DEF DoneBy
    <3>2. ExecOf(s) = ExecOf(run[r]) BY <2>2, <3>1 DEF ExecOf, FateOf
    <3> QED BY <2>2, <2>3, <3>2, ExecKept
  <2> QED BY <2>6, <2>7
<1> QED BY <1>2, <1>3, <1>4, <1>5

\* The ends of the transaction.
LEMMA EndRefines ==
  ASSUME IInv, NEW r \in Runs, Expire(r) \/ Commit(r) \/ CommitThrows(r) \/ Crash(r)
  PROVE  [Atomic!Next]_(Atomic!vars)
<1> USE BoundsAssumption
<1>1. ExecInv(run[r], faults) /\ run[r] \in Executions /\ TypeOK
  BY DEF IInv, TypeOK, ExecInv
<1>2. CASE Expire(r)
  <2> DEFINE s == [run[r] EXCEPT !.tx = "closed"]
  <2>1. s.pc = run[r].pc /\ s.tx = "closed" /\ s.ran = run[r].ran /\ s.undone = run[r].undone
    BY <1>1 DEF Executions
  <2>2. run' = [run EXCEPT ![r] = s] /\ row' = row /\ run[r].tx \in {"open", "aborted"}
    BY <1>2 DEF Expire
  <2> HIDE DEF s
  <2>3. FateOf(s) = "failed" /\ FateOf(run[r]) # "committed" /\ DoneBy(s) = DoneBy(run[r])
    BY <2>1, <2>2 DEF FateOf, DoneBy
  <2> QED BY <2>1, <2>2, <2>3, ExecFails
<1>3. CASE CommitThrows(r)
  <2> DEFINE s == [run[r] EXCEPT !.pc = "mark", !.level = "outer", !.tx = "closed"]
  <2>1. s.pc = "mark" /\ s.tx = "closed" /\ s.ran = run[r].ran /\ s.undone = run[r].undone
    BY <1>1 DEF Executions
  <2>2. run' = [run EXCEPT ![r] = s] /\ row' = row /\ run[r].pc = "commit"
    BY <1>3 DEF CommitThrows
  <2> HIDE DEF s
  <2>3. run[r].tx # "committed" BY <1>1, <2>2 DEF ExecInv, PlaceInv
  <2>4. FateOf(s) = "failed" /\ FateOf(run[r]) # "committed" /\ DoneBy(s) = DoneBy(run[r])
    BY <2>1, <2>3 DEF FateOf, DoneBy
  <2> QED BY <2>1, <2>2, <2>4, ExecFails
<1>4. CASE Crash(r)
  <2> DEFINE to == IF run[r].tx = "committed" THEN "committed" ELSE "closed"
             s == [run[r] EXCEPT !.pc = "dead", !.tx = to]
  <2>1. s.pc = "dead" /\ s.tx = to /\ s.ran = run[r].ran /\ s.undone = run[r].undone
    BY <1>1 DEF Executions
  <2>2. run' = [run EXCEPT ![r] = s] /\ row' = row /\ run[r].pc # "returned"
    BY <1>4 DEF Crash, Answered
  <2> HIDE DEF s
  <2>3. CASE run[r].tx = "committed"
    <3>1. ExecOf(s) = ExecOf(run[r]) BY <2>1, <2>3 DEF ExecOf, FateOf, DoneBy
    <3> QED BY <2>1, <2>2, <3>1, ExecKept
  <2>4. CASE run[r].tx # "committed"
    <3>1. FateOf(s) = "failed" /\ FateOf(run[r]) # "committed" /\ DoneBy(s) = DoneBy(run[r])
      BY <2>1, <2>4 DEF FateOf, DoneBy
    <3> QED BY <2>1, <2>2, <3>1, ExecFails
  <2> QED BY <2>3, <2>4
<1>5. CASE Commit(r)
  <2>1. PICK s \in {[run[r] EXCEPT !.pc = "returned", !.tx = "committed"],
                    [run[r] EXCEPT !.pc = "mark", !.level = "outer", !.tx = "committed"]} :
          run' = [run EXCEPT ![r] = s]
    BY <1>5 DEF Commit
  <2>2. s.tx = "committed" /\ s.ran = run[r].ran /\ s.undone = run[r].undone
    BY <1>1, <2>1 DEF Executions
  <2>3. /\ run[r].pc = "commit" /\ run[r].tx = "open" /\ run[r].ran = NumSteps
        /\ row' = run[r].draft /\ run[r].draft.st = "COMPLETED"
    BY <1>1, <1>5 DEF Commit, ExecInv, PlaceInv
  <2>4. DoneBy(run[r]) = Steps /\ DoneBy(s) = Steps
    <3>1. \A k \in Steps : run[r].undone[k] = 0
      BY <1>1, <2>3 DEF ExecInv, UndoInv, Untouched
    <3> QED BY <2>2, <2>3, <3>1 DEF DoneBy, Steps
  <2>5. ExecOf(s) = [fate |-> "committed", done |-> Steps] BY <2>2, <2>4 DEF ExecOf, FateOf
  <2>6. Execs[r].fate = "running" /\ Execs[r].done = Steps
    BY <2>3, <2>4 DEF Execs, ExecOf, FateOf
  <2>7. Execs' = [Execs EXCEPT ![r] = ExecOf(s)] /\ Returned' \in {Returned, Returned \union {r}}
    BY <1>1, <2>1, <2>3, OneExecMoves
  <2>8. Atomic!Commit(r)
    BY <2>3, <2>5, <2>6, <2>7 DEF Atomic!Commit, Atomic!Becomes, Execs, Returned
  <2> QED BY <2>8 DEF Atomic!Next
<1> QED BY <1>2, <1>3, <1>4, <1>5

LEMMA OutsideRefines ==
  ASSUME IInv, SweepFind \/ SweepMark \/ SweepUndo \/ SweepClose \/ Cleanup
  PROVE  [Atomic!Next]_(Atomic!vars)
<1>1. Execs' = Execs /\ Returned' = Returned
  <2>1. run' = run BY DEF SweepFind, SweepMark, SweepUndo, SweepClose, SweepSave, Cleanup
  <2> QED BY <2>1 DEF Execs, Returned, ExecOf, FateOf, DoneBy
<1>2. \/ row' = row
      \/ row.st # "NONE" /\ row'.st \in {"NONE", "COMPENSATING", "COMPENSATED"}
  BY DEF IInv, TypeOK, Rows, NoRow, SweepFind, SweepMark, SweepUndo, SweepClose, SweepSave, Cleanup
<1>3. CASE row' = row BY <1>1, <1>3 DEF Atomic!vars, Execs, Returned
<1>4. CASE row.st # "NONE" /\ row'.st \in {"NONE", "COMPENSATING", "COMPENSATED"}
  <2>1. Atomic!Overwrite BY <1>1, <1>4 DEF Atomic!Overwrite, Execs, Returned
  <2> QED BY <2>1 DEF Atomic!Next
<1> QED BY <1>2, <1>3, <1>4

\* The orchestrator implements AtomicSaga, for any number of executions, steps,
\* faults and crashes: a commit takes effect with all its steps in one instant,
\* and a step is compensated only after its execution can no longer commit or
\* has committed without hearing of it.
THEOREM SagasAreAtomic == Spec => ActsAtomically
<1>1. Init => Atomic!Init
  <2> SUFFICES ASSUME Init PROVE Atomic!Init OBVIOUS
  <2>1. \A r \in Runs : run[r] = Fresh BY DEF Init
  <2>2. ExecOf(Fresh) = [fate |-> "running", done |-> {}] /\ Fresh.pc = "idle"
    BY DEF Fresh, ExecOf, FateOf, DoneBy
  <2>3. Execs = [r \in Runs |-> [fate |-> "running", done |-> {}]] /\ Returned = {}
    BY <2>1, <2>2 DEF Execs, Returned
  <2> QED BY <2>3 DEF Init, NoRow, Atomic!Init, Execs, Returned
<1>2. IInv /\ [Next]_vars => [Atomic!Next]_(Atomic!vars)
  <2> SUFFICES ASSUME IInv, [Next]_vars PROVE [Atomic!Next]_(Atomic!vars) OBVIOUS
  <2>1. CASE UNCHANGED vars
    <3>1. Execs' = Execs /\ Returned' = Returned /\ row' = row
      BY <2>1 DEF vars, Execs, Returned, ExecOf, FateOf, DoneBy
    <3> QED BY <3>1 DEF Atomic!vars, Execs, Returned
  <2>2. ASSUME NEW r \in Runs, Start(r) \/ Advance(r) \/ Expire(r) \/ Crash(r)
        PROVE  [Atomic!Next]_(Atomic!vars)
    BY <2>2, RunRefines, UndoRefines, EndRefines DEF Advance
  <2> QED BY <2>1, <2>2, OutsideRefines DEF Next
<1> QED BY <1>1, <1>2, Invariance, PTL DEF Spec, ActsAtomically, Atomic!Spec

\* What the promise gives to the readers of saga_states: COMPLETED stands there
\* only when some execution of the saga has committed all its steps.
THEOREM CompletedTheorem == Spec => []Atomic!CompletedIsCommitted
<1> DEFINE Claim == row.st = "COMPLETED" => \E r \in Runs : Execs[r].fate = "committed"
<1>1. Atomic!Init => Claim BY DEF Atomic!Init
<1>2. Claim /\ [Atomic!Next]_(Atomic!vars) => Claim'
  <2> SUFFICES ASSUME Claim, [Atomic!Next]_(Atomic!vars) PROVE Claim'
    OBVIOUS
  <2>1. Execs = [r \in Runs |-> Execs[r]] BY DEF Execs
  <2>2. ASSUME NEW r \in Runs, NEW f, NEW d, Execs[r].fate # "committed" \/ f = "committed",
               Atomic!Becomes(r, f, d)
        PROVE  /\ \A q \in Runs : Execs[q].fate = "committed" => Execs'[q].fate = "committed"
               /\ Execs'[r].fate = f
    <3>1. Execs' = [Execs EXCEPT ![r] = [fate |-> f, done |-> d]]
      BY <2>2 DEF Atomic!Becomes, Execs
    <3> QED BY <2>1, <2>2, <3>1
  <2>3. ASSUME NEW r \in Runs, Atomic!Commit(r) PROVE Claim'
    <3>1. Atomic!Becomes(r, "committed", Steps) BY <2>3 DEF Atomic!Commit
    <3>2. Execs'[r].fate = "committed" BY <2>2, <3>1
    <3> QED BY <3>2
  <2>4. ASSUME NEW r \in Runs, Atomic!Do(r) \/ Atomic!Fail(r) \/ Atomic!Compensate(r) PROVE Claim'
    <3>1. row'.st = row.st BY <2>4 DEF Atomic!Do, Atomic!Fail, Atomic!Compensate
    <3>2. PICK f, d : (Execs[r].fate # "committed" \/ f = "committed") /\ Atomic!Becomes(r, f, d)
      <4>1. CASE Atomic!Do(r) BY <4>1 DEF Atomic!Do, Execs
      <4>2. CASE Atomic!Fail(r) BY <4>2 DEF Atomic!Fail, Execs
      <4>3. CASE Atomic!Compensate(r)
        <5>1. PICK k \in Steps : Atomic!Becomes(r, Execs[r].fate, Execs[r].done \ {k})
          BY <4>3 DEF Atomic!Compensate, Execs
        <5> QED BY <5>1
      <4> QED BY <2>4, <4>1, <4>2, <4>3
    <3>3. \A q \in Runs : Execs[q].fate = "committed" => Execs'[q].fate = "committed"
      BY <2>2, <3>2
    <3> QED BY <3>1, <3>3
  <2>5. ASSUME NEW r \in Runs, Atomic!Report(r) PROVE Claim'
    BY <2>5 DEF Atomic!Report
  <2>6. CASE Atomic!Overwrite BY <2>6 DEF Atomic!Overwrite
  <2>7. CASE UNCHANGED Atomic!vars
    <3>1. row'.st = row.st /\ Execs' = Execs BY <2>7 DEF Atomic!vars, Execs
    <3> QED BY <3>1
  <2> HIDE DEF Claim
  <2> QED BY <2>3, <2>4, <2>5, <2>6, <2>7 DEF Atomic!Next
<1>3. Claim => Atomic!CompletedIsCommitted BY DEF Atomic!CompletedIsCommitted, Execs
<1> HIDE DEF Claim
<1> QED BY <1>1, <1>2, <1>3, SagasAreAtomic, PTL DEF ActsAtomically, Atomic!Spec

-----------------------------------------------------------------------------
(* The safety half of EventuallyAnswered.                                  *)

\* Compensation, the sweep and the saves of another execution wait only for a
\* transaction that is still going on, and that the timer of Prisma will close:
\* no lock outlives its transaction, although an execution may wait for its own.
WaitsAreTimed ==
  lock # Nobody => lock \in Runs /\ run[lock].tx \in {"open", "aborted"}

THEOREM WaitsTheorem == Spec => []WaitsAreTimed
<1>1. IInv => WaitsAreTimed BY DEF IInv, TypeOK, LockInv, WaitsAreTimed
<1> QED BY <1>1, Invariance, PTL

=============================================================================
