------------------------------ MODULE TaskQueue ------------------------------
(***************************************************************************)
(* What a queue with idempotency keys promises to whoever submits a task,  *)
(* without jobs, locks, keys or the steps of a run: the work of a task is  *)
(* done at most once however often it is submitted, the task completes     *)
(* when its work is done and only then, and it fails only after all its    *)
(* tries went wrong.  Nothing is promised of a task that a crash, a failed *)
(* call or a stall has upset.                                              *)
(***************************************************************************)
EXTENDS Naturals

CONSTANTS
  Events,   \* the tasks, by the event they are about
  Attempts  \* tries of a submitted task

VARIABLE task  \* of each event: the verdict, the tries that went wrong, the work

vars == <<task>>

Task(verdict, tries, work) == [verdict |-> verdict, tries |-> tries, work |-> work]

Upset == Task("upset", 0, "undone")

Init == task = [e \in Events |-> Task("absent", 0, "undone")]

Become(e, t) == task' = [task EXCEPT ![e] = t]

\* For the first time or again, after any verdict.
Submit(e) ==
  /\ task[e].verdict \in {"absent", "completed", "failed"}
  /\ Become(e, Task("pending", 0, task[e].work))

Work(e) ==
  /\ task[e].verdict = "pending" /\ task[e].work = "undone"
  /\ Become(e, Task("pending", task[e].tries, "done"))

Complete(e) ==
  /\ task[e].verdict = "pending" /\ task[e].work = "done"
  /\ Become(e, Task("completed", task[e].tries, "done"))

\* A try went wrong: there are more, or it was the last one.
GoWrong(e) ==
  /\ task[e].verdict = "pending" /\ task[e].work = "undone"
  /\ LET tries == task[e].tries + 1
     IN Become(e, Task(IF tries < Attempts THEN "pending" ELSE "failed", tries, "undone"))

\* Several tasks of a process at once.
Disturb(S) ==
  task' = [e \in Events |-> IF e \in S THEN Upset ELSE task[e]]

Next ==
  \/ \E e \in Events : Submit(e) \/ Work(e) \/ Complete(e) \/ GoWrong(e)
  \/ \E S \in SUBSET Events : Disturb(S)

Spec == Init /\ [][Next]_vars

-----------------------------------------------------------------------------

\* A verdict says what became of the work.
VerdictsAreSound ==
  \A e \in Events :
    /\ task[e].verdict = "completed" => task[e].work = "done"
    /\ task[e].verdict = "failed" => task[e].tries = Attempts /\ task[e].work = "undone"
=============================================================================
