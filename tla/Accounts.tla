------------------------------ MODULE Accounts ------------------------------
(***************************************************************************)
(* How one person comes to an account and a profile: a guest profile with  *)
(* claim tokens, registration, the claim behind the idempotency            *)
(* interceptor, and the handlers of USER_REGISTERED and ACCOUNT_CLAIMED    *)
(* that link the profile, as jobs of one queue: an idempotency key per     *)
(* event, a limit on attempts and on stalls, workers that die.             *)
(*                                                                         *)
(* The person's address has several spellings.  Users are found by the     *)
(* spelling as it is, profiles are stored as it is and looked up by its    *)
(* lower case.  Rows have one id per spelling, so that the spelling names  *)
(* the user, and the profile.                                              *)
(*                                                                         *)
(* Checks that only decide whether a call is refused early, when the       *)
(* unique key it meets later refuses it as well, are part of the write.    *)
(*                                                                         *)
(* JobProcessor has the steps of such a queue one by one.  Here the calls  *)
(* around a handler are one step with it, and no job runs twice at once.   *)
(***************************************************************************)
EXTENDS HttpIdempotency, FiniteSets

CONSTANTS
  Tokens,      \* claim tokens
  Asked,       \* Asked[b]: the token in the body b, beside the password
  Spellings,   \* spellings of the address
  Lower,       \* the lower case of them all
  Absent,      \* no profile
  Guest,       \* a profile without a user
  Attempts,    \* attempts of a job
  MaxStalledCount,  \* times a job is redelivered after its worker died
  MaxCalls,    \* bound on registrations and claims
  MaxFaults    \* bound on failed calls, crashes and jobs added again

ASSUME SpellingAssumption ==
  /\ Asked \in [Bodies -> Tokens] /\ Lower \in Spellings
  /\ Absent \notin Spellings /\ Guest \notin Spellings /\ Absent # Guest
ASSUME JobAssumption ==
  Attempts \in Nat \ {0} /\ MaxStalledCount \in Nat /\ Spellings \cap Requests = {}
ASSUME BoundsAssumption == MaxCalls \in Nat /\ MaxFaults \in Nat

VARIABLES
  user,       \* user[s]: the user with address s
  profile,    \* profile[s]: the user linked to the profile with address s
  token,      \* token[t]: a row of account_claim_tokens
  claim,      \* claim[r]: where the use case is with r, and the user it read
  at,         \* at[j]: where the job j is in the queue, or its handler
  job,        \* job[j]: its idempotency key and counters
  linked,     \* profiles whose PROFILE_LINKED is published
  faults

accounts == <<user, profile, token>>
jobs == <<at, job, linked>>
vars == <<httpVars, accounts, claim, jobs, faults>>

-----------------------------------------------------------------------------
Users == {"none", "unverified", "verified"}

Token == [st : {"none", "PENDING", "expired", "ACCEPTED"}, of : Spellings]

Claim == [pc : {"idle", "token", "user", "commit", "issue"}, saw : Users]

Idle == [pc |-> "idle", saw |-> "none"]

\* USER_REGISTERED of the user s has the job s, and the ACCOUNT_CLAIMED that the
\* request r published the job r.
Jobs == Spellings \cup Requests

Working == {"user", "email", "link", "create", "profile", "publish", "return"}

Finished == {"done", "skipped", "failed"}

Job == [
  key : {"none", "IN_PROGRESS", "expired", "COMPLETED", "FAILED"},
  made : 0 .. Attempts, stalls : 0 .. MaxStalledCount + 1,
  bad : 0 .. Attempts,    \* history: attempts that ended in a failed call
  left : BOOLEAN]         \* history: a run has left the key in progress

NewJob == [key |-> "none", made |-> 0, stalls |-> 0, bad |-> 0, left |-> FALSE]

Init ==
  /\ HttpInit
  /\ user = [s \in Spellings |-> "none"]
  /\ profile = [s \in Spellings |-> Absent]
  /\ token = [t \in Tokens |-> [st |-> "none", of |-> Lower]]
  /\ claim = [r \in Requests |-> Idle]
  /\ at = [j \in Jobs |-> "none"]
  /\ job = [j \in Jobs |-> NewJob]
  /\ linked = {}
  /\ faults = 0

\* A profile carries the user.
Held(s) == \E p \in Spellings : profile[p] = s

\* linkUser: userId is unique.
Link(p, s) ==
  /\ \A q \in Spellings \ {p} : profile[q] # s
  /\ profile' = [profile EXCEPT ![p] = s]

TokenOf(r) == token[Asked[http[r].body]]

\* An event is published, and becomes a job.
Added(j) ==
  /\ at' = [at EXCEPT ![j] = "queued"]
  /\ job' = [job EXCEPT ![j] = NewJob]

\* The bound on registrations and claims.
Room ==
  Cardinality({s \in Spellings : at[s] # "none"} \cup {r \in Requests : http[r].pc # "idle"})
    < MaxCalls

-----------------------------------------------------------------------------
(* The person.                                                             *)

\* CreateGuestProfileUseCase, for an enrolment without an account.  Its lookup may
\* have come before any other profile.
CreateGuestProfile(s) ==
  /\ profile[s] = Absent
  /\ profile' = [profile EXCEPT ![s] = Guest]
  /\ UNCHANGED <<httpVars, user, token, claim, jobs, faults>>

IssueClaimToken(t, s) ==
  /\ profile[s] # Absent
  /\ token[t].st = "none"
  /\ token' = [token EXCEPT ![t] = [st |-> "PENDING", of |-> s]]
  /\ UNCHANGED <<httpVars, user, profile, claim, jobs, faults>>

TokenExpires(t) ==
  /\ token[t].st = "PENDING"
  /\ token' = [token EXCEPT ![t].st = "expired"]
  /\ UNCHANGED <<httpVars, user, profile, claim, jobs, faults>>

\* RegisterUseCase: the user and USER_REGISTERED in one transaction.
Register(s) ==
  /\ user[s] = "none"
  /\ Room
  /\ user' = [user EXCEPT ![s] = "unverified"]
  /\ Added(s)
  /\ UNCHANGED <<httpVars, profile, token, claim, linked, faults>>

\* VerifyEmailUseCase: the link in the mail that registration or a resend sent.
VerifyEmail(s) ==
  /\ user[s] = "unverified"
  /\ user' = [user EXCEPT ![s] = "verified"]
  /\ UNCHANGED <<httpVars, profile, token, claim, jobs, faults>>

-----------------------------------------------------------------------------
(* The claim.                                                              *)

Post(r) ==
  /\ Room
  /\ \E b \in Bodies : Arrive(r, b)
  /\ UNCHANGED <<accounts, claim, jobs, faults>>

\* The use case begins when the interceptor hands the request on.
Handed(r) ==
  claim' = IF http'[r].pc \in Handling THEN [claim EXCEPT ![r].pc = "token"] ELSE claim

PostPlain(r) ==
  /\ Room
  /\ \E b \in Bodies : ArrivePlain(r, b)
  /\ Handed(r)
  /\ UNCHANGED <<accounts, jobs, faults>>

InterceptClaim(r) ==
  /\ Intercept(r)
  /\ Handed(r)
  /\ UNCHANGED <<accounts, jobs, faults>>

ClaimAt(r, pc) == http[r].pc \in Handling /\ claim[r].pc = pc

Step(r, pc) == claim' = [claim EXCEPT ![r].pc = pc] /\ UNCHANGED httpVars

ClaimThrows(r) == claim' = [claim EXCEPT ![r] = Idle] /\ HandlerThrows(r)

\* No such token, already claimed, or expired.
FindToken(r) ==
  /\ ClaimAt(r, "token")
  /\ IF TokenOf(r).st = "PENDING" THEN Step(r, "user") ELSE ClaimThrows(r)
  /\ UNCHANGED <<accounts, jobs, faults>>

FindUser(r) ==
  /\ ClaimAt(r, "user")
  /\ claim' = [claim EXCEPT ![r] = [pc |-> "commit", saw |-> user[TokenOf(r).of]]]
  /\ UNCHANGED <<httpVars, accounts, jobs, faults>>

\* The transaction: a verified user is used, otherwise one is created, the token
\* is marked whatever it is by now, and ACCOUNT_CLAIMED published.
CommitClaim(r) ==
  /\ ClaimAt(r, "commit")
  /\ claim[r].saw = "verified" \/ user[TokenOf(r).of] = "none"
  /\ user' = [user EXCEPT ![TokenOf(r).of] = "verified"]
  /\ token' = [token EXCEPT ![Asked[http[r].body]].st = "ACCEPTED"]
  /\ Added(r)
  /\ claim' = [claim EXCEPT ![r] = [pc |-> "issue", saw |-> "none"]]
  /\ UNCHANGED httpVars
  /\ UNCHANGED <<profile, linked, faults>>

\* A user has the address and was not verified when it was read, or not there:
\* creating another violates the unique email.
CommitClaimFails(r) ==
  /\ ClaimAt(r, "commit")
  /\ claim[r].saw # "verified"
  /\ user[TokenOf(r).of] # "none"
  /\ ClaimThrows(r)
  /\ UNCHANGED <<accounts, jobs, faults>>

IssueSession(r) ==
  /\ ClaimAt(r, "issue")
  /\ HandlerReturns(r)
  /\ claim' = [claim EXCEPT ![r] = Idle]
  /\ UNCHANGED <<accounts, jobs, faults>>

-----------------------------------------------------------------------------
(* The queue of profiles: QueueProcessor around the handlers.              *)

JobRest == UNCHANGED <<httpVars, user, token, claim>>

Goto(j, pc) == at' = [at EXCEPT ![j] = pc] /\ UNCHANGED job

Start(j) == IF j \in Spellings THEN "user" ELSE "profile"

\* complete() and fail() update the row of the key, if there is one.
Marked(row, st) == [row EXCEPT !.key = IF row.key = "none" THEN "none" ELSE st]

\* A finished event is not handled again, nor one whose key says it is being
\* handled: both count as done for the queue.
BeginJob(j) ==
  /\ at[j] = "queued"
  /\ CASE job[j].key = "COMPLETED" -> Goto(j, "done")
       [] job[j].key = "IN_PROGRESS" -> Goto(j, "skipped")
       [] OTHER -> /\ at' = [at EXCEPT ![j] = Start(j)]
                   /\ job' = [job EXCEPT ![j].key = "IN_PROGRESS"]
  /\ JobRest /\ UNCHANGED <<profile, linked, faults>>

CompleteJob(j) ==
  /\ at[j] = "return"
  /\ at' = [at EXCEPT ![j] = "done"]
  /\ job' = [job EXCEPT ![j] = Marked(@, "COMPLETED")]
  /\ JobRest /\ UNCHANGED <<profile, linked, faults>>

\* The handler throws: its row becomes `row', and the attempt is one made.
Thrown(j, row) ==
  /\ job' = [job EXCEPT ![j] = [row EXCEPT !.made = job[j].made + 1]]
  /\ at' = [at EXCEPT ![j] = IF job[j].made + 1 < Attempts THEN "queued" ELSE "failed"]

\* A unique key refuses the write of the handler.
Conflict(j) == Thrown(j, Marked(job[j], "FAILED"))

\* The TTL of the key passes after the run that began it is gone, before the job
\* is taken up again.
JobKeyExpires(j) ==
  /\ at[j] = "queued"
  /\ job[j].key = "IN_PROGRESS"
  /\ job' = [job EXCEPT ![j].key = "expired"]
  /\ JobRest /\ UNCHANGED <<profile, at, linked, faults>>

-----------------------------------------------------------------------------
(* The handlers of profiles.                                               *)

EnsureRest == JobRest /\ UNCHANGED <<linked, faults>>

FindProfileByUser(s) ==
  /\ at[s] = "user"
  /\ Goto(s, IF Held(s) THEN "return" ELSE "email")
  /\ EnsureRest /\ UNCHANGED profile

FindProfileByEmail(s) ==
  /\ at[s] = "email"
  /\ Goto(s, IF profile[Lower] = Absent THEN "create" ELSE "link")
  /\ EnsureRest /\ UNCHANGED profile

\* The profile found is linked to this user, whoever it is linked to.
LinkFoundProfile(s) ==
  /\ at[s] = "link"
  /\ \/ Link(Lower, s) /\ Goto(s, "return")
     \/ (\E q \in Spellings \ {Lower} : profile[q] = s) /\ Conflict(s) /\ UNCHANGED profile
  /\ EnsureRest

Creatable(s) == profile[s] = Absent /\ ~Held(s)

\* Fault: a profile that appeared in the meantime counts as the one wanted.
CreateProfileSwallows(s) ==
  /\ at[s] = "create"
  /\ Goto(s, "return")
  /\ profile' = IF Creatable(s) THEN [profile EXCEPT ![s] = s] ELSE profile
  /\ EnsureRest

\* Unique email and userId.
CreateProfile(s) ==
  /\ at[s] = "create"
  /\ \/ Creatable(s) /\ profile' = [profile EXCEPT ![s] = s] /\ Goto(s, "return")
     \/ ~Creatable(s) /\ Conflict(s) /\ UNCHANGED profile
  /\ EnsureRest

\* LinkProfileOnAccountClaimedHandler links the profile of the token, unless the
\* user has another profile by now.
LinkClaimed(r) ==
  /\ at[r] = "profile"
  /\ LET p == TokenOf(r).of IN
       \/ Link(p, p) /\ Goto(r, "publish")
       \/ (\E q \in Spellings \ {p} : profile[q] = p) /\ Conflict(r) /\ UNCHANGED profile
  /\ EnsureRest

\* Fault: the handler returns and its event is never published.
PublishForgotten(r) ==
  /\ at[r] = "publish"
  /\ Goto(r, "return")
  /\ EnsureRest /\ UNCHANGED profile

PublishLinked(r) ==
  /\ at[r] = "publish"
  /\ linked' = linked \cup {TokenOf(r).of}
  /\ Goto(r, "return")
  /\ JobRest /\ UNCHANGED <<profile, faults>>

-----------------------------------------------------------------------------
(* Failures.                                                               *)

Fault == faults < MaxFaults /\ faults' = faults + 1

\* A call of the use case fails, or of the interceptor around it.
ClaimCallFails(r) ==
  /\ Fault
  /\ \/ http[r].pc \in Handling /\ ClaimThrows(r)
     \/ CallFails(r) /\ UNCHANGED claim
  /\ UNCHANGED <<accounts, jobs>>

ApiCrash(r) ==
  /\ Fault
  /\ Dies(r)
  /\ claim' = [claim EXCEPT ![r] = Idle]
  /\ UNCHANGED <<accounts, jobs>>

Expiry ==
  /\ KeyExpires
  /\ UNCHANGED <<accounts, claim, jobs, faults>>

FaultRest == JobRest /\ UNCHANGED <<profile, linked>>

\* begin() fails and the handler runs all the same, whether or not the row was
\* written; or complete() fails and the job is done all the same.
JobKeyFails(j) ==
  /\ Fault
  /\ \/ /\ at[j] = "queued"
        /\ \/ UNCHANGED job
           \/ /\ job[j].key \notin {"IN_PROGRESS", "COMPLETED"}
              /\ job' = [job EXCEPT ![j].key = "IN_PROGRESS"]
        /\ at' = [at EXCEPT ![j] = Start(j)]
     \/ /\ at[j] = "return"
        /\ job' = [job EXCEPT ![j].left = TRUE]
        /\ at' = [at EXCEPT ![j] = "done"]
  /\ FaultRest

\* A call of the handler fails, perhaps after it took effect, and perhaps fail()
\* as well.
JobCallFails(j) ==
  /\ Fault
  /\ at[j] \in Working
  /\ \/ Thrown(j, [Marked(job[j], "FAILED") EXCEPT !.bad = job[j].bad + 1])
     \/ Thrown(j, [job[j] EXCEPT !.bad = job[j].bad + 1, !.left = TRUE])
  /\ FaultRest

\* A call fails in a run that has lost its lock: the job was delivered again,
\* skipped beside it and completed, and nobody tries again.
LateCallFails(j) ==
  /\ Fault
  /\ at[j] \in Working
  /\ job[j].key = "IN_PROGRESS"
  /\ at' = [at EXCEPT ![j] = "skipped"]
  /\ job' = [job EXCEPT ![j] = [Marked(job[j], "FAILED") EXCEPT !.left = TRUE]]
  /\ FaultRest

\* BullMQ finds the job stalled; the key stays as it was.
WorkerDies(j) ==
  /\ Fault
  /\ at[j] \in Working
  /\ at' = [at EXCEPT ![j] = IF job[j].stalls < MaxStalledCount THEN "queued" ELSE "failed"]
  /\ job' = [job EXCEPT ![j] = [job[j] EXCEPT !.stalls = job[j].stalls + 1, !.left = TRUE]]
  /\ FaultRest

\* The fan-out of the event is repeated after the finished job was trimmed.
AddAgain(j) ==
  /\ Fault
  /\ at[j] \in Finished
  /\ at' = [at EXCEPT ![j] = "queued"]
  /\ job' = [job EXCEPT ![j] = [job[j] EXCEPT !.made = 0, !.stalls = 0, !.bad = 0]]
  /\ FaultRest

-----------------------------------------------------------------------------
Person(s) ==
  CreateGuestProfile(s) \/ Register(s) \/ VerifyEmail(s)

Api(r) ==
  \/ Post(r) \/ PostPlain(r) \/ InterceptClaim(r) \/ FindToken(r) \/ FindUser(r)
  \/ CommitClaim(r) \/ CommitClaimFails(r) \/ IssueSession(r)
  \/ ClaimCallFails(r) \/ ApiCrash(r)

EnsureJob(s) ==
  FindProfileByUser(s) \/ FindProfileByEmail(s) \/ LinkFoundProfile(s) \/ CreateProfile(s)

LinkJob(r) == LinkClaimed(r) \/ PublishLinked(r)

Queue(j) == BeginJob(j) \/ CompleteJob(j) \/ JobKeyExpires(j)

QueueFault(j) ==
  JobKeyFails(j) \/ JobCallFails(j) \/ LateCallFails(j) \/ WorkerDies(j) \/ AddAgain(j)

Next ==
  \/ \E s \in Spellings : Person(s) \/ EnsureJob(s)
  \/ \E t \in Tokens : TokenExpires(t) \/ \E s \in Spellings : IssueClaimToken(t, s)
  \/ \E r \in Requests : Api(r) \/ LinkJob(r)
  \/ \E j \in Jobs : Queue(j) \/ QueueFault(j)
  \/ Expiry

Spec == Init /\ [][Next]_vars

-----------------------------------------------------------------------------
\* Type invariant.
TypeOK ==
  /\ key \in Key
  /\ http \in [Requests -> Exchange]
  /\ user \in [Spellings -> Users]
  /\ profile \in [Spellings -> Spellings \cup {Absent, Guest}]
  /\ token \in [Tokens -> Token]
  /\ claim \in [Requests -> Claim]
  /\ at \in [Jobs -> {"none", "queued"} \cup Working \cup Finished]
  /\ job \in [Jobs -> Job]
  /\ linked \subseteq Spellings
  /\ faults \in 0 .. MaxFaults

\* Two requests with one key run the handler only after one that ran it has
\* failed or died.
RunsAgainOnlyAfterFailure ==
  \A r, s \in Requests : r # s /\ http[r].ran /\ http[s].ran =>
    \E q \in Requests :
      /\ http[q].ran
      /\ http[q].pc = "gone" \/ (http[q].pc = "answered" /\ http[q].answer = "error")

\* A client that gets tokens, from its own run or replayed, gets those of a claim
\* that took effect: the token is spent and the user there, verified.
ResponseMeansClaimed ==
  \A r \in Requests : http[r].answer = "response" =>
    LET q == http[r].from IN
      /\ q \in Requests
      /\ TokenOf(q).st = "ACCEPTED"
      /\ user[TokenOf(q).of] = "verified"

\* The job is on its way.
Pending(j) == at[j] \in {"queued"} \cup Working

\* The queue is through with a job that nobody finished.  It skipped the job for
\* a key that a run had left in progress; or the job stalled once too often, or
\* failed calls took all its attempts but one.
Lost(j) ==
  \/ at[j] = "skipped" /\ job[j].left
  \/ at[j] = "failed" /\ (job[j].stalls > MaxStalledCount \/ job[j].bad >= Attempts - 1)

\* Another spelling has a user too.
Clash(s) == \E o \in Spellings \ {s} : user[o] # "none"

\* The user has a profile, or lost it to the user of another spelling.
Settled(s) == Held(s) \/ Clash(s)

\* PROFILE_LINKED is published only of a profile that is linked, and every claim
\* that took effect is announced by it, unless the job of the claim is on its way
\* or lost, or failed because its user came to another profile first.
LinkIsAnnounced ==
  /\ \A s \in linked : profile[s] \in Spellings
  /\ \A r \in Requests : LET s == TokenOf(r).of IN
       at[r] # "none" /\ s \notin linked =>
         Pending(r) \/ Lost(r) \/ (at[r] = "failed" /\ Settled(s))

\* The jobs that are to give the user s a profile.
JobsOf(s) == {s} \cup {r \in Requests : at[r] # "none" /\ TokenOf(r).of = s}

\* A guest profile in the user's own spelling, which the lookup by the lower case
\* does not find and which is in the way of a new one.
Unfindable(s) == s # Lower /\ profile[s] = Guest

\* A user without a profile has a job and each is on its way or lost, whichever of
\* registration, guest profile and claim came first: one conflict between them
\* costs one attempt and no more.  Only spellings that differ get in the way.
EveryMemberHasAProfile ==
  \A s \in Spellings : user[s] # "none" =>
    \/ Settled(s) \/ Unfindable(s)
    \/ /\ \E j \in JobsOf(s) : at[j] # "none"
       /\ \A j \in JobsOf(s) : at[j] # "none" => Pending(j) \/ Lost(j)

=============================================================================
