---------------------------- MODULE EventDelivery ----------------------------
(***************************************************************************)
(* What the outbox promises to the rest of the system, without rows,       *)
(* batches, retries or workers: an accepted event is owed to a consumer    *)
(* until it has been handed to the domain queue or buried in the           *)
(* dead-letter queue.  Handing over and burying may happen more than once  *)
(* and a settled event may be reopened, so the promise is at-least-once.   *)
(***************************************************************************)
CONSTANT Events

VARIABLES
  stage,   \* unknown, owed or settled
  handed,  \* events that reached the domain queue at least once
  buried   \* events that reached the dead-letter queue at least once

vars == <<stage, handed, buried>>

Init ==
  /\ stage  = [e \in Events |-> "unknown"]
  /\ handed = {}
  /\ buried = {}

Accept(S) ==
  /\ \A e \in S : stage[e] = "unknown" /\ e \notin handed
  /\ stage' = [e \in Events |-> IF e \in S THEN "owed" ELSE stage[e]]
  /\ UNCHANGED <<handed, buried>>

\* A producer may also skip the outbox and hand over an event nobody owes.
Hand(e) ==
  /\ handed' = handed \union {e}
  /\ UNCHANGED <<stage, buried>>

BuryEvent(e) ==
  /\ stage[e] # "unknown"
  /\ buried' = buried \union {e}
  /\ UNCHANGED <<stage, handed>>

\* Only what left for one of the two queues may be settled.
Settle(e) ==
  /\ stage[e] = "owed"
  /\ e \in handed \union buried
  /\ stage' = [stage EXCEPT ![e] = "settled"]
  /\ UNCHANGED <<handed, buried>>

Reopen(e) ==
  /\ stage[e] = "settled"
  /\ stage' = [stage EXCEPT ![e] = "owed"]
  /\ UNCHANGED <<handed, buried>>

Next ==
  \/ \E S \in SUBSET Events : Accept(S)
  \/ \E e \in Events : Hand(e) \/ BuryEvent(e) \/ Settle(e) \/ Reopen(e)

Spec == Init /\ [][Next]_vars

\* No accepted event is ever forgotten.
NothingForgotten ==
  \A e \in Events : stage[e] = "settled" => e \in handed \union buried
=============================================================================
