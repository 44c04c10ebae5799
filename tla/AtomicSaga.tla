----------------------------- MODULE AtomicSaga -----------------------------
(***************************************************************************)
(* What a saga promises to its callers and to the readers of its record,   *)
(* without transactions, locks, handlers or timers: an execution commits   *)
(* all its steps at once, and the record says COMPLETED, or it fails.      *)
(* Steps are compensated only once it can no longer commit, or when its    *)
(* caller was not told that it had; one that returns has committed or has  *)
(* left no step uncompensated.                                             *)
(***************************************************************************)
CONSTANTS
  Runs,   \* executions of the saga
  Steps   \* the steps of its definition

VARIABLES
  record,   \* NONE, COMPLETED, COMPENSATING or COMPENSATED
  exec,     \* of each execution: its fate, and the steps done and not compensated
  returned  \* executions that returned to their caller

vars == <<record, exec, returned>>

Init ==
  /\ record = "NONE"
  /\ exec = [r \in Runs |-> [fate |-> "running", done |-> {}]]
  /\ returned = {}

Becomes(r, fate, done) == exec' = [exec EXCEPT ![r] = [fate |-> fate, done |-> done]]

Settled(r) == exec[r].fate = "committed" \/ exec[r].done = {}

\* A step may still run after the saga has failed.
Do(r) ==
  /\ exec[r].fate # "committed"
  /\ \E k \in Steps : Becomes(r, exec[r].fate, exec[r].done \union {k})
  /\ UNCHANGED <<record, returned>>

\* The reply to the commit may be lost.
Commit(r) ==
  /\ exec[r].fate = "running"
  /\ exec[r].done = Steps
  /\ Becomes(r, "committed", Steps)
  /\ record' = "COMPLETED"
  /\ returned' \in {returned, returned \union {r}}

Fail(r) ==
  /\ exec[r].fate = "running"
  /\ Becomes(r, "failed", exec[r].done)
  /\ UNCHANGED <<record, returned>>

Compensate(r) ==
  /\ exec[r].fate # "running"
  /\ \E k \in Steps : Becomes(r, exec[r].fate, exec[r].done \ {k})
  /\ UNCHANGED <<record, returned>>

\* The record follows the compensation; with its end the execution may return.
Report(r) ==
  /\ exec[r].fate # "running"
  /\ \/ /\ record' = "COMPENSATING"
        /\ UNCHANGED returned
     \/ /\ record' = "COMPENSATED"
        /\ Settled(r)
        /\ returned' \in {returned, returned \union {r}}
  /\ UNCHANGED exec

\* A compensation from outside, or the retention sweep.
Overwrite ==
  /\ record # "NONE"
  /\ record' \in {"NONE", "COMPENSATING", "COMPENSATED"}
  /\ UNCHANGED <<exec, returned>>

Next ==
  \/ \E r \in Runs : Do(r) \/ Commit(r) \/ Fail(r) \/ Compensate(r) \/ Report(r)
  \/ Overwrite

Spec == Init /\ [][Next]_vars

-----------------------------------------------------------------------------

\* The record says COMPLETED only of a saga some execution of which committed.
CompletedIsCommitted ==
  record = "COMPLETED" => \E r \in Runs : exec[r].fate = "committed"
=============================================================================
