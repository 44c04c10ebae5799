-------------------------- MODULE HttpIdempotency ---------------------------
(***************************************************************************)
(* The interceptor behind @Idempotent on the requests that carry one       *)
(* Idempotency-Key, or none, over a handler that the composing module      *)
(* supplies.  Each read and each write of the key's row is a database call *)
(* of its own.                                                             *)
(*                                                                         *)
(* The body of a request stands for the hash of method, path and body.     *)
(* The response that complete stores is named by the request it answers.   *)
(***************************************************************************)
EXTENDS Naturals

CONSTANTS
  Requests,    \* requests of the endpoint
  Bodies,      \* what they ask for
  None         \* no body, no response

ASSUME NoneAssumption == None \notin Requests /\ None \notin Bodies

VARIABLES
  key,     \* the row (scope, key) of idempotency_keys
  http     \* http[r]: where the interceptor is with r, and the answer of r

httpVars == <<key, http>>

-----------------------------------------------------------------------------
Key == [st : {"none", "IN_PROGRESS", "COMPLETED", "FAILED"}, body : Bodies \cup {None},
        response : Requests \cup {None}, expired : BOOLEAN]

Waiting == {"find", "begin", "create", "reclaim"}

Handling == {"handle", "plain"}

Exchange == [pc : {"idle", "complete", "fail", "answered", "gone"} \cup Waiting \cup Handling,
             body : Bodies \cup {None}, ran : BOOLEAN,
             answer : {"none", "conflict", "empty", "error", "response"},
             from : Requests \cup {None}]

NoKey == [st |-> "none", body |-> None, response |-> None, expired |-> FALSE]

HttpInit ==
  /\ key = NoKey
  /\ http = [r \in Requests |->
       [pc |-> "idle", body |-> None, ran |-> FALSE, answer |-> "none", from |-> None]]

At(r, pc) == http[r].pc = pc

Move(r, pc) == http' = [http EXCEPT ![r].pc = pc]

Answer(r, answer, from) ==
  http' = [http EXCEPT ![r].pc = "answered", ![r].answer = answer, ![r].from = from]

-----------------------------------------------------------------------------
Arrive(r, body) ==
  /\ At(r, "idle")
  /\ http' = [http EXCEPT ![r].pc = "find", ![r].body = body]
  /\ UNCHANGED key

\* A request without a key goes to the handler.
ArrivePlain(r, body) ==
  /\ At(r, "idle")
  /\ http' = [http EXCEPT ![r].pc = "plain", ![r].body = body]
  /\ UNCHANGED key

\* A key that was used with another body is refused.
FindKey(r) ==
  /\ At(r, "find")
  /\ IF key.body \notin {None, http[r].body}
       THEN Answer(r, "conflict", None)
       ELSE Move(r, "begin")
  /\ UNCHANGED key

\* Fault: a row with an old response is replayed whatever its status is.
BeginKeyReplays(r) ==
  /\ At(r, "begin")
  /\ IF key.st = "none" THEN Move(r, "create") ELSE Answer(r, "response", key.response)
  /\ UNCHANGED key

\* begin reads the row: it replays, skips a duplicate in flight, or executes.
BeginKey(r) ==
  /\ At(r, "begin")
  /\ CASE key.st = "none" -> Move(r, "create")
       [] key.st = "COMPLETED" -> Answer(r, "response", key.response)
       [] key.st = "IN_PROGRESS" /\ ~key.expired -> Answer(r, "empty", None)
       [] OTHER -> Move(r, "reclaim")
  /\ UNCHANGED key

Execute(r) == http' = [http EXCEPT ![r].pc = "handle", ![r].ran = TRUE]

Taken(r) == [key EXCEPT !.st = "IN_PROGRESS", !.body = http[r].body, !.expired = FALSE]

\* Fault: no unique key (scope, key).
CreateKeyTwice(r) ==
  /\ At(r, "create")
  /\ key' = Taken(r)
  /\ Execute(r)

\* A row created in the meantime violates the unique key (scope, key).  The
\* exception is not caught: the interceptor answers with it.
CreateKey(r) ==
  /\ At(r, "create")
  /\ \/ /\ key.st = "none"
        /\ key' = Taken(r)
        /\ Execute(r)
     \/ /\ key.st # "none"
        /\ Answer(r, "error", None)
        /\ UNCHANGED key

\* The row that was read FAILED or expired is taken over, whatever it is by now.
ReclaimKey(r) ==
  /\ At(r, "reclaim")
  /\ key' = Taken(r)
  /\ Execute(r)

\* The handler of r returns, or throws.
HandlerReturns(r) ==
  /\ \/ At(r, "handle") /\ Move(r, "complete")
     \/ At(r, "plain") /\ Answer(r, "response", r)
  /\ UNCHANGED key

HandlerThrows(r) ==
  /\ \/ At(r, "handle") /\ Move(r, "fail")
     \/ At(r, "plain") /\ Answer(r, "error", None)
  /\ UNCHANGED key

CompleteKey(r) ==
  /\ At(r, "complete")
  /\ key' = [key EXCEPT !.st = "COMPLETED", !.response = r]
  /\ Answer(r, "response", r)

FailKey(r) ==
  /\ At(r, "fail")
  /\ key' = [key EXCEPT !.st = "FAILED"]
  /\ Answer(r, "error", None)

\* A call of the interceptor fails: a failing complete is caught like an exception
\* of the handler, the others reach the client.
CallFails(r) ==
  /\ At(r, "complete") \/ At(r, "fail") \/ http[r].pc \in Waiting
  /\ IF At(r, "complete") THEN Move(r, "fail") ELSE Answer(r, "error", None)
  /\ UNCHANGED key

\* The process of r dies, its client gets no answer.
Dies(r) ==
  /\ http[r].pc \notin {"idle", "answered", "gone"}
  /\ Move(r, "gone")
  /\ UNCHANGED key

\* A day passes without an answer: whoever held the key is gone.
KeyExpires ==
  /\ key.st = "IN_PROGRESS"
  /\ ~key.expired
  /\ \A r \in Requests : http[r].pc \in {"idle", "answered", "gone"}
  /\ key' = [key EXCEPT !.expired = TRUE]
  /\ UNCHANGED http

Intercept(r) ==
  FindKey(r) \/ BeginKey(r) \/ CreateKey(r) \/ ReclaimKey(r) \/ CompleteKey(r) \/ FailKey(r)

=============================================================================
