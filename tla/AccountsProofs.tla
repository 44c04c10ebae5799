--------------------------- MODULE AccountsProofs ---------------------------
(***************************************************************************)
(* The properties of Accounts for every number of requests, bodies, claim  *)
(* tokens, spellings and faults.                                           *)
(***************************************************************************)
EXTENDS Accounts, TLAPS

-----------------------------------------------------------------------------
(* The inductive invariant.                                                *)

HttpTypeOK == key \in Key /\ http \in [Requests -> Exchange]

\* A run of the handler that ended in an exception or with its process.
Broken(q) ==
  /\ http[q].ran
  /\ http[q].pc = "gone" \/ (http[q].pc = "answered" /\ http[q].answer = "error")

SomeBroken == \E q \in Requests : Broken(q)

Running(q) == http[q].ran /\ http[q].pc \in {"handle", "complete", "fail"}

\* The key is taken over only from a broken run: a row in progress belongs to a
\* run that is still there, or some run is broken.
KeyInv ==
  /\ \A r \in Requests : http[r].pc \in {"handle", "complete", "fail"} => http[r].ran
  /\ \A r \in Requests : http[r].ran => key.st # "none"
  /\ \A r \in Requests : http[r].pc = "reclaim" => SomeBroken
  /\ key.st = "FAILED" \/ key.expired => SomeBroken
  /\ key.st = "IN_PROGRESS" => SomeBroken \/ \E q \in Requests : Running(q)
  /\ RunsAgainOnlyAfterFailure

BodyInv == \A r \in Requests : http[r].pc # "idle" => http[r].body \in Bodies

HttpInv == HttpTypeOK /\ KeyInv /\ BodyInv

\* The claim of r took effect.
Done(r) ==
  /\ http[r].pc # "idle"
  /\ TokenOf(r).st = "ACCEPTED"
  /\ user[TokenOf(r).of] = "verified"

\* Whatever says that a claim is done says so of one that is.
ClaimInv ==
  /\ \A r \in Requests : claim[r].pc = "issue" \/ http[r].pc = "complete" => Done(r)
  /\ key.st = "COMPLETED" \/ key.response # None => key.response \in Requests /\ Done(key.response)
  /\ \A r \in Requests : http[r].answer = "response" =>
       http[r].from \in Requests /\ Done(http[r].from)
  /\ \A r \in Requests : at[r] # "none" => Done(r)

\* A claim is announced when its profile is linked, and its job is done when it
\* is announced.
LinkedInv ==
  /\ \A s \in linked : profile[s] \in Spellings
  /\ \A r \in Requests :
       /\ at[r] = "publish" => profile[TokenOf(r).of] \in Spellings
       /\ at[r] \in {"return", "done"} \/ job[r].key = "COMPLETED" => TokenOf(r).of \in linked

\* A user has had a job, a profile that is linked has a user, and a job that saw
\* to the profile is undone only by another spelling's.
ProfileInv ==
  /\ \A s \in Spellings : at[s] # "none" => user[s] # "none"
  /\ \A s \in Spellings : user[s] # "none" =>
       at[s] # "none" \/ \E r \in Requests : at[r] # "none" /\ TokenOf(r).of = s
  /\ \A p \in Spellings : profile[p] \in Spellings => user[profile[p]] # "none"
  /\ \A s \in Spellings : at[s] \in {"return", "done"} \/ job[s].key = "COMPLETED" => Settled(s)

\* What the counters of a job say of how it ended, and whose key it may meet.
CountInv ==
  \A j \in Jobs :
    /\ at[j] = "none" => job[j] = NewJob
    /\ job[j].bad <= job[j].made
    /\ Pending(j) => job[j].made < Attempts /\ job[j].stalls <= MaxStalledCount
    /\ at[j] = "failed" => job[j].stalls > MaxStalledCount \/ job[j].made >= Attempts
    /\ at[j] = "skipped" \/ (job[j].key = "IN_PROGRESS" /\ at[j] \notin Working) => job[j].left

\* An attempt that no failed call took met a conflict, and left something for the
\* next: the lower-case spelling meets one only while it creates a profile, and
\* finds the profile that was in the way after that.
ConflictInv ==
  /\ \A r \in Requests : job[r].made > job[r].bad => Settled(TokenOf(r).of)
  /\ \A s \in Spellings : job[s].made > job[s].bad =>
       \/ Settled(s) \/ Unfindable(s)
       \/ /\ s = Lower /\ job[s].made = job[s].bad + 1
          /\ profile[s] # Absent /\ at[s] # "create"

JobInv == LinkedInv /\ ProfileInv /\ CountInv /\ ConflictInv

IInv == TypeOK /\ HttpInv /\ ClaimInv /\ JobInv

-----------------------------------------------------------------------------
(* What the steps of the queue and of the handlers leave alone.            *)

LEMMA QueueRest ==
  ASSUME NEW j \in Jobs, Queue(j) \/ QueueFault(j)
  PROVE  UNCHANGED <<httpVars, user, token, claim, profile, linked>>
BY DEF Queue, QueueFault, BeginJob, CompleteJob, JobKeyExpires, JobKeyFails, JobCallFails, LateCallFails,
  WorkerDies, AddAgain, FaultRest, JobRest

LEMMA EnsureJobRest ==
  ASSUME NEW s \in Spellings, EnsureJob(s)
  PROVE  UNCHANGED <<httpVars, user, token, claim, linked, faults>>
BY DEF EnsureJob, FindProfileByUser, FindProfileByEmail, LinkFoundProfile, CreateProfile, EnsureRest, JobRest

LEMMA LinkJobRest ==
  ASSUME NEW r \in Requests, LinkJob(r)
  PROVE  UNCHANGED <<httpVars, user, token, claim, faults>>
BY DEF LinkJob, LinkClaimed, PublishLinked, EnsureRest, JobRest

\* A step of a job is one of the queue or of its handler, and moves no other job.
JobStep(j) ==
  \/ Queue(j) \/ QueueFault(j)
  \/ j \in Spellings /\ EnsureJob(j)
  \/ j \in Requests /\ LinkJob(j)

LEMMA JobSteps ==
  ASSUME TypeOK, NEW j \in Jobs, JobStep(j)
  PROVE  /\ at[j] # "none" /\ at'[j] # "none"
         /\ \A k \in Jobs : k # j => at'[k] = at[k] /\ job'[k] = job[k]
         /\ at' \in [Jobs -> {"none", "queued"} \cup Working \cup Finished]
<1>0. /\ at \in [Jobs -> {"none", "queued"} \cup Working \cup Finished]
      /\ job \in [Jobs -> Job]
  BY DEF TypeOK
<1>1. ASSUME NEW row, Thrown(j, row)
      PROVE  /\ at'[j] # "none" /\ \A k \in Jobs : k # j => at'[k] = at[k] /\ job'[k] = job[k]
             /\ at' \in [Jobs -> {"none", "queued"} \cup Working \cup Finished]
  BY <1>0, <1>1 DEF Thrown, Finished
<1>2. ASSUME NEW pc \in {"queued"} \cup Working \cup Finished, Goto(j, pc)
      PROVE  /\ at'[j] # "none" /\ \A k \in Jobs : k # j => at'[k] = at[k] /\ job'[k] = job[k]
             /\ at' \in [Jobs -> {"none", "queued"} \cup Working \cup Finished]
  BY <1>0, <1>2 DEF Goto, Working, Finished
<1>3. CASE Queue(j)
  BY <1>0, <1>3 DEF Queue, BeginJob, CompleteJob, JobKeyExpires, Goto, Start, Working, Finished
<1>4. CASE QueueFault(j)
  <2>1. CASE JobCallFails(j)
    BY <1>1, <2>1 DEF JobCallFails, Working
  <2>2. CASE JobKeyFails(j) \/ LateCallFails(j) \/ WorkerDies(j) \/ AddAgain(j)
    BY <1>0, <2>2 DEF JobKeyFails, LateCallFails, WorkerDies, AddAgain, Start, Working, Finished
  <2>3. QED
    BY <1>4, <2>1, <2>2 DEF QueueFault
<1>5. CASE EnsureJob(j)
  BY <1>1, <1>2, <1>5 DEF EnsureJob, FindProfileByUser, FindProfileByEmail, LinkFoundProfile, CreateProfile,
    Conflict, Working
<1>6. CASE LinkJob(j)
  BY <1>1, <1>2, <1>6 DEF LinkJob, LinkClaimed, PublishLinked, Conflict, Working
<1>7. QED
  BY <1>3, <1>4, <1>5, <1>6 DEF JobStep

LEMMA JobCauses ==
  ASSUME TypeOK, [Next]_vars, NEW j \in Jobs
  PROVE  \/ at'[j] = at[j] /\ job'[j] = job[j]
         \/ j \in Spellings /\ Register(j)
         \/ j \in Requests /\ CommitClaim(j)
         \/ JobStep(j)
<1>0. at \in [Jobs -> {"none", "queued"} \cup Working \cup Finished] /\ job \in [Jobs -> Job]
  BY DEF TypeOK
<1>1. ASSUME NEW k \in Jobs, JobStep(k)
      PROVE  k # j => at'[j] = at[j] /\ job'[j] = job[j]
  BY <1>1, JobSteps
<1>2. ASSUME NEW k \in Jobs, Added(k)
      PROVE  k # j => at'[j] = at[j] /\ job'[j] = job[j]
  BY <1>0, <1>2 DEF Added
<1>3. ASSUME NEW s \in Spellings, Person(s)
      PROVE  UNCHANGED <<at, job>> \/ Register(s)
  BY <1>3 DEF Person, CreateGuestProfile, VerifyEmail, jobs
<1>4. ASSUME NEW r \in Requests, Api(r)
      PROVE  UNCHANGED <<at, job>> \/ CommitClaim(r)
  BY <1>4 DEF Api, Post, PostPlain, InterceptClaim, FindToken, FindUser, CommitClaimFails,
    IssueSession, ClaimCallFails, ApiCrash, jobs
<1>5. CASE \/ \E t \in Tokens : TokenExpires(t) \/ \E s \in Spellings : IssueClaimToken(t, s)
           \/ Expiry \/ UNCHANGED vars
  BY <1>5 DEF TokenExpires, IssueClaimToken, Expiry, vars, jobs
<1>6. ASSUME NEW s \in Spellings, Register(s)
      PROVE  s \in Jobs /\ Added(s)
  BY <1>6 DEF Register, Jobs
<1>7. ASSUME NEW r \in Requests, CommitClaim(r)
      PROVE  r \in Jobs /\ Added(r)
  BY <1>7 DEF CommitClaim, Jobs
<1>8. CASE \E s \in Spellings : Person(s)
  BY <1>2, <1>3, <1>6, <1>8
<1>9. CASE \E r \in Requests : Api(r)
  BY <1>2, <1>4, <1>7, <1>9
<1>10. CASE \/ \E k \in Jobs : Queue(k) \/ QueueFault(k)
            \/ \E s \in Spellings : EnsureJob(s)
            \/ \E r \in Requests : LinkJob(r)
  BY <1>1, <1>10 DEF JobStep, Jobs
<1>11. QED
  BY <1>5, <1>8, <1>9, <1>10 DEF Next

-----------------------------------------------------------------------------
(* The interceptor.                                                        *)

\* Every step of the interceptor but the one in which the handler returns.
NoReturn(r) ==
  \/ \E b \in Bodies : Arrive(r, b) \/ ArrivePlain(r, b)
  \/ Intercept(r) \/ HandlerThrows(r) \/ CallFails(r) \/ Dies(r)

HttpStep(r) == NoReturn(r) \/ HandlerReturns(r)

\* Every step of the composition is a step of the interceptor, or none of its,
\* and the handler returns by issuing the session.
LEMMA StepOfHttp ==
  ASSUME [Next]_vars
  PROVE  UNCHANGED httpVars \/ KeyExpires \/ \E r \in Requests : NoReturn(r) \/ IssueSession(r)
<1>1. CASE \E s \in Spellings : Person(s) \/ EnsureJob(s)
  BY <1>1, EnsureJobRest DEF Person, CreateGuestProfile, Register, VerifyEmail
<1>2. CASE \E t \in Tokens : TokenExpires(t) \/ \E s \in Spellings : IssueClaimToken(t, s)
  BY <1>2 DEF TokenExpires, IssueClaimToken
<1>3. ASSUME NEW r \in Requests, Api(r)
      PROVE  UNCHANGED httpVars \/ NoReturn(r) \/ IssueSession(r)
  <2>1. CASE Post(r) \/ PostPlain(r) \/ InterceptClaim(r)
    BY <2>1 DEF Post, PostPlain, InterceptClaim, NoReturn
  <2>2. CASE FindToken(r) \/ FindUser(r) \/ CommitClaim(r) \/ CommitClaimFails(r) \/ IssueSession(r)
    BY <2>2 DEF FindToken, FindUser, CommitClaim, CommitClaimFails, Step, ClaimThrows, NoReturn
  <2>3. CASE ClaimCallFails(r) \/ ApiCrash(r)
    BY <2>3 DEF ClaimCallFails, ApiCrash, ClaimThrows, NoReturn
  <2>4. QED
    BY <1>3, <2>1, <2>2, <2>3 DEF Api
<1>4. CASE \/ \E r \in Requests : LinkJob(r)
           \/ \E j \in Jobs : Queue(j) \/ QueueFault(j)
  BY <1>4, LinkJobRest, QueueRest
<1>5. CASE Expiry
  BY <1>5 DEF Expiry
<1>6. CASE UNCHANGED vars
  BY <1>6 DEF vars
<1>7. QED
  BY <1>1, <1>2, <1>3, <1>4, <1>5, <1>6 DEF Next

\* What a step of the interceptor does to its request, and to no other.
LEMMA HttpMoves ==
  ASSUME HttpTypeOK, NEW r \in Requests, HttpStep(r)
  PROVE  /\ HttpTypeOK'
         /\ \A s \in Requests : s # r => http'[s] = http[s]
         /\ http'[r].pc # "idle"
         /\ http[r].pc # "idle" => http'[r].body = http[r].body
         /\ http[r].pc = "idle" => http'[r].body \in Bodies
         /\ http[r].pc \notin {"gone", "answered"}
         /\ http[r].ran => http'[r].ran
<1>0. http \in [Requests -> Exchange] /\ key \in Key /\ http[r] \in Exchange
  BY DEF HttpTypeOK
<1>1. ASSUME NEW b \in Bodies, Arrive(r, b) \/ ArrivePlain(r, b)
      PROVE  /\ http' \in [Requests -> Exchange] /\ http'[r].body = b /\ key' = key
             /\ http'[r].pc \in {"find", "plain"} /\ http[r].pc = "idle" /\ http'[r].ran = http[r].ran
             /\ \A s \in Requests : s # r => http'[s] = http[s]
  BY <1>0, <1>1 DEF Arrive, ArrivePlain, At, Exchange, Waiting, Handling
<1>2. ASSUME NEW pc \in {"complete", "fail", "answered", "gone"} \cup Waiting \cup Handling, Move(r, pc)
      PROVE  /\ http' \in [Requests -> Exchange] /\ http'[r].pc = pc
             /\ http'[r].body = http[r].body /\ http'[r].ran = http[r].ran
             /\ \A s \in Requests : s # r => http'[s] = http[s]
  BY <1>0, <1>2 DEF Move, Exchange, Waiting, Handling
<1>3. ASSUME NEW a \in {"none", "conflict", "empty", "error", "response"},
             NEW f \in Requests \cup {None}, Answer(r, a, f)
      PROVE  /\ http' \in [Requests -> Exchange] /\ http'[r].pc = "answered"
             /\ http'[r].body = http[r].body /\ http'[r].ran = http[r].ran
             /\ \A s \in Requests : s # r => http'[s] = http[s]
  BY <1>0, <1>3 DEF Answer, Exchange
<1>4. ASSUME Execute(r)
      PROVE  /\ http' \in [Requests -> Exchange] /\ http'[r].pc = "handle"
             /\ http'[r].body = http[r].body /\ http'[r].ran
             /\ \A s \in Requests : s # r => http'[s] = http[s]
  BY <1>0, <1>4 DEF Execute, Exchange, Handling
<1>5. Taken(r) \in Key
  BY <1>0 DEF Taken, Key, Exchange
<1>6. key.response \in Requests \cup {None}
  BY <1>0 DEF Key
<1>7. [key EXCEPT !.st = "COMPLETED", !.response = r] \in Key /\ [key EXCEPT !.st = "FAILED"] \in Key
  BY <1>0 DEF Key
<1>8. CASE FindKey(r)
  BY <1>0, <1>2, <1>3, <1>8 DEF FindKey, At, HttpTypeOK, Waiting
<1>9. CASE BeginKey(r)
  BY <1>0, <1>2, <1>3, <1>6, <1>9 DEF BeginKey, At, HttpTypeOK, Waiting
<1>10. CASE CreateKey(r) \/ ReclaimKey(r)
  BY <1>0, <1>3, <1>4, <1>5, <1>10 DEF CreateKey, ReclaimKey, At, HttpTypeOK
<1>11. CASE CompleteKey(r) \/ FailKey(r)
  BY <1>0, <1>3, <1>7, <1>11 DEF CompleteKey, FailKey, At, HttpTypeOK
<1>12. CASE HandlerReturns(r) \/ HandlerThrows(r)
  BY <1>0, <1>2, <1>3, <1>12 DEF HandlerReturns, HandlerThrows, At, HttpTypeOK
<1>13. CASE CallFails(r)
  BY <1>0, <1>2, <1>3, <1>13 DEF CallFails, At, HttpTypeOK, Waiting
<1>14. CASE Dies(r)
  BY <1>0, <1>2, <1>14 DEF Dies, HttpTypeOK
<1>15. QED
  BY <1>0, <1>1, <1>8, <1>9, <1>10, <1>11, <1>12, <1>13, <1>14 DEF HttpStep, NoReturn, Intercept, HttpTypeOK

LEMMA HttpStart ==
  ASSUME HttpInit
  PROVE  HttpInv
<1>1. HttpTypeOK
  BY DEF HttpInit, HttpTypeOK, Key, NoKey, Exchange
<1>2. KeyInv /\ BodyInv
  BY DEF HttpInit, NoKey, KeyInv, BodyInv, RunsAgainOnlyAfterFailure
<1>3. QED
  BY <1>1, <1>2 DEF HttpInv

LEMMA BrokenStays ==
  ASSUME HttpTypeOK, NEW r \in Requests, HttpStep(r), NEW q \in Requests, Broken(q)
  PROVE  Broken(q)'
<1>1. q # r
  BY HttpMoves DEF Broken
<1>2. QED
  BY <1>1, HttpMoves DEF Broken

\* The handler is run by who creates the row, or takes it over.
LEMMA KeyNext ==
  ASSUME HttpInv, NEW r \in Requests, HttpStep(r)
  PROVE  KeyInv'
<1>0. /\ http \in [Requests -> Exchange] /\ key \in Key /\ http[r] \in Exchange
      /\ HttpTypeOK' /\ HttpTypeOK /\ KeyInv
  BY HttpMoves DEF HttpInv, HttpTypeOK
<1>1. SomeBroken => SomeBroken'
  BY <1>0, BrokenStays DEF SomeBroken
<1>2. \A s \in Requests : s # r => http'[s] = http[s]
  BY <1>0, HttpMoves
<1>3. \A s \in Requests : s # r /\ Running(s) => Running(s)'
  BY <1>2 DEF Running
<1>4. ASSUME key' = key, http'[r].ran = http[r].ran,
             http'[r].pc \in {"handle", "complete", "fail"} => http[r].ran,
             http'[r].pc = "reclaim" => SomeBroken,
             Running(r) => Running(r)' \/ Broken(r)'
      PROVE  KeyInv'
  <2>1. RunsAgainOnlyAfterFailure'
    <3>1. ASSUME NEW p \in Requests, NEW q \in Requests, p # q, http'[p].ran, http'[q].ran
          PROVE  SomeBroken'
      <4>1. http[p].ran /\ http[q].ran
        BY <3>1, <1>2, <1>4
      <4>2. QED
        BY <4>1, <3>1, <1>0, <1>1 DEF KeyInv, RunsAgainOnlyAfterFailure, SomeBroken, Broken
    <3>2. QED
      BY <3>1 DEF RunsAgainOnlyAfterFailure, SomeBroken, Broken
  <2>2. key'.st = "IN_PROGRESS" => SomeBroken' \/ \E q \in Requests : Running(q)'
    BY <1>0, <1>1, <1>3, <1>4 DEF KeyInv, SomeBroken
  <2>3. QED
    BY <2>1, <2>2, <1>0, <1>1, <1>2, <1>4 DEF KeyInv
<1>5. CASE \E b \in Bodies : Arrive(r, b) \/ ArrivePlain(r, b)
  BY <1>0, <1>4, <1>5 DEF Arrive, ArrivePlain, At, Exchange, Running, Broken, KeyInv
<1>6. CASE FindKey(r) \/ BeginKey(r)
  <2>1. key' = key /\ http[r].pc \in {"find", "begin"}
    BY <1>6 DEF FindKey, BeginKey, At
  <2>2. /\ http'[r].ran = http[r].ran /\ http'[r].pc \in {"answered", "begin", "create", "reclaim"}
        /\ http'[r].pc = "reclaim" => key.st = "FAILED" \/ (key.st = "IN_PROGRESS" /\ key.expired)
    BY <1>0, <1>6 DEF FindKey, BeginKey, Move, Answer, Exchange, Key
  <2>3. QED
    BY <1>0, <1>4, <2>1, <2>2 DEF KeyInv, Running
<1>7. CASE HandlerReturns(r) \/ HandlerThrows(r) \/ CallFails(r) \/ Dies(r)
  <2>1. key' = key
    BY <1>7 DEF HandlerReturns, HandlerThrows, CallFails, Dies
  <2>2. /\ http'[r].ran = http[r].ran /\ http'[r].pc \in {"complete", "fail", "answered", "gone"}
        /\ http'[r].pc \in {"complete", "fail"} => http[r].pc \in {"handle", "complete"}
        /\ http'[r].pc = "answered" => http[r].pc \in {"plain", "fail"} \cup Waiting
        /\ http[r].pc = "fail" /\ http'[r].pc = "answered" => http'[r].answer = "error"
    BY <1>0, <1>7 DEF HandlerReturns, HandlerThrows, CallFails, Dies, At, Move, Answer, Exchange, Waiting, Handling
  <2>3. Running(r) => Running(r)' \/ Broken(r)'
    BY <2>2 DEF Running, Broken, Waiting
  <2>4. QED
    BY <1>0, <1>4, <2>1, <2>2, <2>3 DEF KeyInv
<1>8. CASE CreateKey(r) \/ ReclaimKey(r)
  <2>1. CASE key' = Taken(r) /\ Execute(r) /\ (key.st = "none" \/ SomeBroken)
    <3>1. http'[r].ran /\ http'[r].pc = "handle" /\ key'.st = "IN_PROGRESS" /\ key'.expired = FALSE
      BY <1>0, <2>1 DEF Execute, Taken, Key, Exchange
    <3>2. Running(r)'
      BY <3>1 DEF Running
    <3>3. RunsAgainOnlyAfterFailure'
      <4>1. CASE SomeBroken
        BY <4>1, <1>1 DEF RunsAgainOnlyAfterFailure, SomeBroken, Broken
      <4>2. CASE key.st = "none"
        BY <4>2, <1>0, <1>2 DEF KeyInv, RunsAgainOnlyAfterFailure
      <4>3. QED
        BY <2>1, <4>1, <4>2
    <3>4. QED
      BY <1>0, <1>1, <1>2, <3>1, <3>2, <3>3 DEF KeyInv, SomeBroken
  <2>2. CASE CreateKey(r) /\ key' = key
    <3>1. Taken(r).st = "IN_PROGRESS"
      BY <1>0 DEF Taken, Key
    <3>2. http[r].pc = "create" /\ Answer(r, "error", None)
      BY <2>2, <3>1 DEF CreateKey, At
    <3>3. http'[r].pc = "answered" /\ http'[r].ran = http[r].ran
      BY <1>0, <3>2 DEF Answer, Exchange
    <3>4. QED
      BY <1>4, <2>2, <3>2, <3>3 DEF Running
  <2>3. QED
    BY <1>0, <1>8, <2>1, <2>2 DEF CreateKey, ReclaimKey, At, KeyInv
<1>9. CASE CompleteKey(r)
  <2>1. /\ key'.st = "COMPLETED" /\ key'.expired = key.expired /\ http[r].pc = "complete"
        /\ http'[r].pc = "answered" /\ http'[r].ran = http[r].ran
    BY <1>0, <1>9 DEF CompleteKey, At, Answer, Key, Exchange
  <2>2. RunsAgainOnlyAfterFailure'
    <3>1. ASSUME NEW p \in Requests, NEW q \in Requests, p # q, http'[p].ran, http'[q].ran
          PROVE  SomeBroken'
      <4>1. http[p].ran /\ http[q].ran
        BY <3>1, <1>2, <2>1
      <4>2. QED
        BY <4>1, <3>1, <1>0, <1>1 DEF KeyInv, RunsAgainOnlyAfterFailure, SomeBroken, Broken
    <3>2. QED
      BY <3>1 DEF RunsAgainOnlyAfterFailure, SomeBroken, Broken
  <2>3. QED
    BY <1>0, <1>1, <1>2, <2>1, <2>2 DEF KeyInv
<1>10. CASE FailKey(r)
  <2>1. /\ key'.st = "FAILED" /\ http[r].pc = "fail"
        /\ http'[r].pc = "answered" /\ http'[r].answer = "error" /\ http'[r].ran = http[r].ran
    BY <1>0, <1>10 DEF FailKey, At, Answer, Key, Exchange
  <2>2. SomeBroken'
    BY <1>0, <2>1 DEF KeyInv, SomeBroken, Broken
  <2>3. RunsAgainOnlyAfterFailure'
    BY <2>2 DEF RunsAgainOnlyAfterFailure, SomeBroken, Broken
  <2>4. QED
    BY <1>0, <1>2, <2>1, <2>2, <2>3 DEF KeyInv
<1>11. QED
  BY <1>5, <1>6, <1>7, <1>8, <1>9, <1>10 DEF HttpStep, NoReturn, Intercept

\* Nobody is in flight when a key expires: the run it belonged to is broken.
LEMMA ExpiryNext ==
  ASSUME HttpInv, KeyExpires
  PROVE  HttpInv'
<1>1. key \in Key /\ key' = [key EXCEPT !.expired = TRUE] /\ http' = http /\ key.st = "IN_PROGRESS"
  BY DEF HttpInv, HttpTypeOK, KeyExpires
<1>2. key' \in Key /\ key'.st = "IN_PROGRESS"
  BY <1>1 DEF Key
<1>3. SomeBroken
  <2>1. ~ \E q \in Requests : Running(q)
    BY DEF KeyExpires, Running
  <2>2. QED
    BY <1>1, <2>1 DEF HttpInv, KeyInv
<1>4. SomeBroken'
  BY <1>1, <1>3 DEF SomeBroken, Broken
<1>5. HttpTypeOK' /\ BodyInv'
  BY <1>1, <1>2 DEF HttpInv, HttpTypeOK, BodyInv
<1>6. KeyInv'
  BY <1>1, <1>2, <1>4 DEF HttpInv, KeyInv, RunsAgainOnlyAfterFailure, SomeBroken, Broken
<1>7. QED
  BY <1>5, <1>6 DEF HttpInv

LEMMA HttpNext ==
  ASSUME HttpInv, [Next]_vars
  PROVE  HttpInv'
<1>1. CASE UNCHANGED httpVars
  BY <1>1 DEF HttpInv, httpVars, HttpTypeOK, KeyInv, BodyInv, RunsAgainOnlyAfterFailure, SomeBroken, Broken, Running
<1>2. CASE KeyExpires
  BY <1>2, ExpiryNext
<1>3. ASSUME NEW r \in Requests, HttpStep(r)
      PROVE  HttpInv'
  <2>1. BodyInv'
    BY <1>3, HttpMoves DEF HttpInv, BodyInv
  <2>2. QED
    BY <1>3, <2>1, KeyNext, HttpMoves DEF HttpInv
<1>4. QED
  BY <1>1, <1>2, <1>3, StepOfHttp DEF HttpStep, IssueSession

-----------------------------------------------------------------------------
(* The claim.                                                              *)

\* The token that a request carries.
LEMMA TokenIs ==
  ASSUME TypeOK, HttpInv, NEW r \in Requests, http[r].pc # "idle"
  PROVE  /\ Asked[http[r].body] \in Tokens
         /\ TokenOf(r) \in Token /\ TokenOf(r).of \in Spellings
BY SpellingAssumption DEF TypeOK, HttpInv, BodyInv, TokenOf, Token

\* A request keeps its body, and does not become new again.
LEMMA BodyStays ==
  ASSUME HttpInv, [Next]_vars, NEW r \in Requests, http[r].pc # "idle"
  PROVE  http'[r].pc # "idle" /\ http'[r].body = http[r].body
<1>1. CASE UNCHANGED httpVars \/ KeyExpires
  BY <1>1 DEF httpVars, KeyExpires
<1>2. ASSUME NEW q \in Requests, HttpStep(q)
      PROVE  http'[r].pc # "idle" /\ http'[r].body = http[r].body
  BY <1>2, HttpMoves DEF HttpInv
<1>3. QED
  BY <1>1, <1>2, StepOfHttp DEF HttpStep, IssueSession

\* A spent token stays spent, a verified user verified, a user there.
LEMMA RowsStay ==
  ASSUME TypeOK, HttpInv, [Next]_vars
  PROVE  /\ \A t \in Tokens : token[t].st = "ACCEPTED" =>
              token'[t].st = "ACCEPTED" /\ token'[t].of = token[t].of
         /\ \A s \in Spellings : user[s] = "verified" => user'[s] = "verified"
         /\ \A s \in Spellings : user[s] # "none" => user'[s] # "none"
<1>0. token \in [Tokens -> Token] /\ user \in [Spellings -> Users]
  BY DEF TypeOK
<1>1. ASSUME NEW s \in Spellings, Person(s) \/ EnsureJob(s)
      PROVE  /\ token' = token
             /\ \A u \in Spellings : user[u] = "verified" => user'[u] = "verified"
             /\ \A u \in Spellings : user[u] # "none" => user'[u] # "none"
  BY <1>0, <1>1, EnsureJobRest DEF Person, CreateGuestProfile, Register, VerifyEmail, Users
<1>2. CASE \E t \in Tokens : TokenExpires(t) \/ \E s \in Spellings : IssueClaimToken(t, s)
  BY <1>0, <1>2 DEF TokenExpires, IssueClaimToken, Token
<1>3. ASSUME NEW r \in Requests, CommitClaim(r)
      PROVE  /\ \A t \in Tokens : token[t].st = "ACCEPTED" =>
                  token'[t].st = "ACCEPTED" /\ token'[t].of = token[t].of
             /\ \A s \in Spellings : user'[s] # user[s] => user'[s] = "verified"
  BY <1>0, <1>3 DEF CommitClaim, Token, Users
<1>4. ASSUME NEW r \in Requests, Api(r), ~CommitClaim(r)
      PROVE  UNCHANGED accounts
  BY <1>4 DEF Api, Post, PostPlain, InterceptClaim, FindToken, FindUser, CommitClaimFails,
    IssueSession, ClaimCallFails, ApiCrash
<1>5. CASE \/ \E r \in Requests : LinkJob(r)
           \/ \E j \in Jobs : Queue(j) \/ QueueFault(j)
  BY <1>5, LinkJobRest, QueueRest
<1>6. CASE Expiry \/ UNCHANGED vars
  BY <1>6 DEF Expiry, vars, accounts
<1>7. QED
  BY <1>1, <1>2, <1>3, <1>4, <1>5, <1>6 DEF Next, accounts

LEMMA DoneStays ==
  ASSUME TypeOK, HttpInv, [Next]_vars, NEW r \in Requests, Done(r)
  PROVE  Done(r)' /\ TokenOf(r)'.of = TokenOf(r).of
<1>1. http'[r].pc # "idle" /\ http'[r].body = http[r].body
  BY BodyStays DEF Done
<1>2. Asked[http[r].body] \in Tokens /\ TokenOf(r).of \in Spellings
  BY TokenIs DEF Done
<1>3. QED
  BY <1>1, <1>2, RowsStay DEF Done, TokenOf

\* Where the claims of the interceptor come from.
LEMMA HttpCauses ==
  ASSUME HttpTypeOK, NEW r \in Requests, HttpStep(r)
  PROVE  /\ http'[r].pc = "complete" => HandlerReturns(r)
         /\ http'[r].answer = "response" =>
              \/ http[r].answer = "response" /\ http'[r].from = http[r].from
              \/ key.st = "COMPLETED" /\ http'[r].from = key.response
              \/ http[r].pc = "complete" /\ http'[r].from = r
              \/ HandlerReturns(r) /\ http'[r].from = r
         /\ key'.st = "COMPLETED" \/ key'.response # None =>
              \/ (key.st = "COMPLETED" \/ key.response # None) /\ key'.response = key.response
              \/ http[r].pc = "complete" /\ key'.response = r
<1>0. http \in [Requests -> Exchange] /\ key \in Key /\ http[r] \in Exchange
  BY DEF HttpTypeOK
<1>1. CASE \E b \in Bodies : Arrive(r, b) \/ ArrivePlain(r, b)
  BY <1>0, <1>1 DEF Arrive, ArrivePlain, At, Exchange
<1>2. CASE FindKey(r) \/ BeginKey(r)
  BY <1>0, <1>2 DEF FindKey, BeginKey, At, Move, Answer, Exchange
<1>3. CASE CreateKey(r) \/ ReclaimKey(r)
  <2>1. Taken(r).st = "IN_PROGRESS" /\ Taken(r).response = key.response
    BY <1>0 DEF Taken, Key
  <2>2. CASE key' = Taken(r) /\ Execute(r)
    BY <1>0, <2>1, <2>2 DEF Execute, Exchange
  <2>3. CASE key' = key /\ Answer(r, "error", None)
    BY <1>0, <2>3 DEF Answer, Exchange
  <2>4. QED
    BY <1>3, <2>2, <2>3 DEF CreateKey, ReclaimKey
<1>4. CASE CompleteKey(r) \/ FailKey(r)
  <2>1. /\ [key EXCEPT !.st = "COMPLETED", !.response = r].response = r
        /\ [key EXCEPT !.st = "FAILED"].response = key.response
        /\ [key EXCEPT !.st = "FAILED"].st = "FAILED"
    BY <1>0 DEF Key
  <2>2. http'[r].pc = "answered" /\ (FailKey(r) => http'[r].answer = "error")
    BY <1>0, <1>4 DEF CompleteKey, FailKey, Answer, Exchange
  <2>3. CompleteKey(r) => http'[r].from = r /\ http[r].pc = "complete"
    BY <1>0, <1>4 DEF CompleteKey, At, Answer, Exchange
  <2>4. QED
    BY <1>4, <2>1, <2>2, <2>3 DEF CompleteKey, FailKey
<1>5. CASE HandlerReturns(r) \/ HandlerThrows(r) \/ CallFails(r) \/ Dies(r)
  BY <1>0, <1>5 DEF HandlerReturns, HandlerThrows, CallFails, Dies, At, Move, Answer, Exchange
<1>6. QED
  BY <1>1, <1>2, <1>3, <1>4, <1>5 DEF HttpStep, NoReturn, Intercept

\* A step in which a handler returns is the one that issues the session.
LEMMA ReturnIsIssue ==
  ASSUME HttpTypeOK, NEW r \in Requests, NoReturn(r), HandlerReturns(r)
  PROVE  FALSE
<1>0. http \in [Requests -> Exchange] /\ key \in Key /\ http[r] \in Exchange
  BY DEF HttpTypeOK
<1>1. key' = key /\ \/ http[r].pc = "handle" /\ http'[r].pc = "complete"
                    \/ http[r].pc = "plain" /\ http'[r].answer = "response"
  BY <1>0 DEF HandlerReturns, At, Move, Answer, Exchange
<1>2. HandlerThrows(r) \/ Dies(r)
  BY <1>1 DEF NoReturn, Intercept, Arrive, ArrivePlain, FindKey, BeginKey, CreateKey, ReclaimKey,
    CompleteKey, FailKey, CallFails, At, Waiting
<1>3. CASE HandlerThrows(r)
  BY <1>0, <1>1, <1>3 DEF HandlerThrows, At, Move, Answer, Exchange
<1>4. CASE Dies(r)
  <2>1. http'[r].pc = "gone"
    BY <1>0, <1>4 DEF Dies, Move, Exchange
  <2>2. http[r].pc = "plain" => http'[r].pc = "answered"
    BY <1>0, <1>1 DEF HandlerReturns, At, Move, Answer, Exchange
  <2>3. QED
    BY <1>1, <2>1, <2>2
<1>5. QED
  BY <1>2, <1>3, <1>4

\* Which steps move a claim to its end, and publish ACCOUNT_CLAIMED.
LEMMA ClaimCauses ==
  ASSUME TypeOK, [Next]_vars, NEW r \in Requests
  PROVE  /\ claim'[r].pc = "issue" => claim[r].pc = "issue" \/ CommitClaim(r)
         /\ at'[r] # "none" => at[r] # "none" \/ CommitClaim(r)
         /\ at[r] # "none" => at'[r] # "none"
<1>0. claim \in [Requests -> Claim]
  BY DEF TypeOK
<1>1. ASSUME NEW s \in Spellings, Person(s) \/ EnsureJob(s)
      PROVE  claim' = claim
  BY <1>1, EnsureJobRest DEF Person, CreateGuestProfile, Register, VerifyEmail
<1>2. ASSUME NEW t \in Tokens, TokenExpires(t) \/ \E s \in Spellings : IssueClaimToken(t, s)
      PROVE  claim' = claim
  BY <1>2 DEF TokenExpires, IssueClaimToken
<1>3. ASSUME NEW q \in Requests, Api(q), ~CommitClaim(q)
      PROVE  claim'[r].pc = "issue" => claim[r].pc = "issue"
  <2>1. CASE Post(q) \/ PostPlain(q) \/ InterceptClaim(q)
    BY <1>0, <2>1 DEF Post, PostPlain, InterceptClaim, Handed, Claim
  <2>2. CASE FindToken(q) \/ FindUser(q) \/ CommitClaimFails(q)
    BY <1>0, <2>2 DEF FindToken, FindUser, CommitClaimFails, Step, ClaimThrows, Idle, Claim
  <2>3. CASE IssueSession(q) \/ ClaimCallFails(q) \/ ApiCrash(q)
    BY <1>0, <2>3 DEF IssueSession, ClaimCallFails, ApiCrash, ClaimThrows, Idle, Claim
  <2>4. QED
    BY <1>3, <2>1, <2>2, <2>3 DEF Api
<1>4. ASSUME NEW q \in Requests, CommitClaim(q)
      PROVE  q # r => claim'[r] = claim[r]
  BY <1>0, <1>4 DEF CommitClaim
<1>5. (\E q \in Requests : LinkJob(q)) \/ (\E j \in Jobs : Queue(j) \/ QueueFault(j)) => claim' = claim
  BY LinkJobRest, QueueRest
<1>6. Expiry \/ UNCHANGED vars => claim' = claim
  BY DEF Expiry, vars
<1>7. claim'[r].pc = "issue" => claim[r].pc = "issue" \/ CommitClaim(r)
  <2>1. ASSUME NEW q \in Requests, Api(q), claim'[r].pc = "issue"
        PROVE  claim[r].pc = "issue" \/ CommitClaim(r)
    BY <1>3, <1>4, <2>1
  <2>2. claim' = claim \/ \E q \in Requests : Api(q)
    BY <1>1, <1>2, <1>5, <1>6 DEF Next
  <2>3. QED
    BY <2>1, <2>2
<1>8. r \in Jobs /\ r \notin Spellings
  BY JobAssumption DEF Jobs
<1>9. Register(r) \/ CommitClaim(r) => at'[r] # "none"
  BY <1>8 DEF Register, CommitClaim, Added, TypeOK
<1>10. /\ at'[r] # "none" => at[r] # "none" \/ CommitClaim(r)
       /\ at[r] # "none" => at'[r] # "none"
  BY <1>8, <1>9, JobCauses, JobSteps
<1>11. QED
  BY <1>7, <1>10

\* The transaction of a claim makes it one that is done.
LEMMA CommitDoes ==
  ASSUME TypeOK, HttpInv, NEW r \in Requests, CommitClaim(r)
  PROVE  Done(r)' /\ TokenOf(r)'.of = TokenOf(r).of
<1>1. http[r].pc # "idle" /\ http' = http
  BY DEF CommitClaim, ClaimAt, Handling, httpVars
<1>2. Asked[http[r].body] \in Tokens /\ TokenOf(r) \in Token /\ TokenOf(r).of \in Spellings
  BY <1>1, TokenIs
<1>3. token'[Asked[http[r].body]] = [TokenOf(r) EXCEPT !.st = "ACCEPTED"]
  BY <1>2 DEF CommitClaim, TypeOK, TokenOf
<1>4. TokenOf(r)'.st = "ACCEPTED" /\ TokenOf(r)'.of = TokenOf(r).of
  BY <1>1, <1>2, <1>3 DEF Token, TokenOf
<1>5. user'[TokenOf(r).of] = "verified"
  BY <1>2 DEF CommitClaim, TypeOK
<1>6. QED
  BY <1>1, <1>4, <1>5 DEF Done

LEMMA ClaimNext ==
  ASSUME TypeOK, HttpInv, ClaimInv, [Next]_vars
  PROVE  ClaimInv'
<1>1. \A r \in Requests : claim'[r].pc = "issue" => Done(r)'
  BY ClaimCauses, CommitDoes, DoneStays DEF ClaimInv
<1>2. \A r \in Requests : at'[r] # "none" => Done(r)'
  BY ClaimCauses, CommitDoes, DoneStays DEF ClaimInv
<1>3. CASE UNCHANGED httpVars \/ KeyExpires
  <2>1. http' = http /\ key'.response = key.response /\ (key'.st = "COMPLETED" => key.st = "COMPLETED")
    BY <1>3 DEF httpVars, KeyExpires, HttpInv, HttpTypeOK, Key
  <2>2. QED
    BY <1>1, <1>2, <2>1, DoneStays DEF ClaimInv
<1>4. ASSUME NEW r \in Requests, NoReturn(r) \/ IssueSession(r)
      PROVE  ClaimInv'
  <2>1. HttpStep(r) /\ HttpTypeOK
    BY <1>4 DEF HttpStep, IssueSession, HttpInv
  <2>2. HandlerReturns(r) => Done(r)
    BY <1>4, <2>1, ReturnIsIssue DEF IssueSession, ClaimAt, ClaimInv
  <2>3. \A q \in Requests : q # r => http'[q] = http[q]
    BY <2>1, HttpMoves
  <2>4. \A q \in Requests : http'[q].pc = "complete" => Done(q)'
    BY <2>1, <2>2, <2>3, HttpCauses, DoneStays DEF ClaimInv
  <2>5. ASSUME key'.st = "COMPLETED" \/ key'.response # None
        PROVE  key'.response \in Requests /\ Done(key.response)'
    <3>1. PICK q \in Requests : Done(q) /\ key'.response = q
      BY <2>1, <2>5, HttpCauses DEF ClaimInv
    <3>2. Done(q)'
      BY <3>1, DoneStays
    <3>3. QED
      BY <3>1, <3>2 DEF Done, TokenOf
  <2>6. ASSUME NEW q \in Requests, http'[q].answer = "response"
        PROVE  http'[q].from \in Requests /\ Done(http[q].from)'
    <3>1. PICK p \in Requests : Done(p) /\ http'[q].from = p
      BY <2>1, <2>2, <2>3, <2>6, HttpCauses DEF ClaimInv
    <3>2. Done(p)'
      BY <3>1, DoneStays
    <3>3. QED
      BY <3>1, <3>2 DEF Done, TokenOf
  <2>7. QED
    BY <1>1, <1>2, <2>4, <2>5, <2>6 DEF ClaimInv
<1>5. QED
  BY <1>3, <1>4, StepOfHttp

-----------------------------------------------------------------------------
(* The profiles.                                                           *)

\* A profile that has a user changes hands only to another user that is there.
LEMMA ProfileMoves ==
  ASSUME TypeOK, HttpInv, ClaimInv, ProfileInv, [Next]_vars, NEW p \in Spellings,
         profile'[p] # profile[p]
  PROVE  \/ profile[p] = Absent /\ profile'[p] = Guest
         \/ \E s \in Spellings : profile'[p] = s /\ user'[s] # "none"
<1>0. profile \in [Spellings -> Spellings \cup {Absent, Guest}]
  BY DEF TypeOK
<1>1. ASSUME NEW s \in Spellings, Person(s)
      PROVE  profile[p] = Absent /\ profile'[p] = Guest
  BY <1>0, <1>1 DEF Person, CreateGuestProfile, Register, VerifyEmail
<1>2. ASSUME NEW s \in Spellings, EnsureJob(s)
      PROVE  profile'[p] = s /\ user'[s] # "none"
  <2>1. user' = user
    BY <1>2, EnsureJobRest
  <2>2. user[s] # "none"
    BY <1>2, JobSteps DEF ProfileInv, JobStep, Jobs
  <2>3. profile'[p] = s
    BY <1>0, <1>2 DEF EnsureJob, FindProfileByUser, FindProfileByEmail, LinkFoundProfile, CreateProfile, Link
  <2>4. QED
    BY <2>1, <2>2, <2>3
<1>3. ASSUME NEW r \in Requests, LinkJob(r)
      PROVE  \E s \in Spellings : profile'[p] = s /\ user'[s] # "none"
  <2>1. LinkClaimed(r)
    BY <1>3 DEF LinkJob, PublishLinked
  <2>2. Done(r) /\ TokenOf(r).of \in Spellings
    BY <2>1, TokenIs DEF LinkClaimed, ClaimInv, Done
  <2>3. profile'[p] = TokenOf(r).of /\ user' = user
    BY <1>0, <1>3, <2>1, <2>2, LinkJobRest DEF LinkClaimed, Link
  <2>4. QED
    BY <2>2, <2>3 DEF Done
<1>4. \/ profile' = profile
      \/ \E s \in Spellings : Person(s) \/ EnsureJob(s)
      \/ \E r \in Requests : LinkJob(r)
  <2>1. ASSUME NEW r \in Requests, Api(r)
        PROVE  profile' = profile
    BY <2>1 DEF Api, Post, PostPlain, InterceptClaim, FindToken, FindUser, CommitClaim, CommitClaimFails,
      IssueSession, ClaimCallFails, ApiCrash, accounts
  <2>2. QED
    BY <2>1, QueueRest DEF Next, TokenExpires, IssueClaimToken, Expiry, vars, accounts
<1>5. QED
  BY <1>1, <1>2, <1>3, <1>4

\* A user with a profile keeps one, or loses it to another user.
LEMMA SettledStays ==
  ASSUME TypeOK, HttpInv, ClaimInv, ProfileInv, [Next]_vars, NEW s \in Spellings, Settled(s)
  PROVE  Settled(s)'
<1>1. CASE Clash(s)
  BY <1>1, RowsStay DEF Clash, Settled
<1>2. CASE Held(s)
  <2>1. PICK p \in Spellings : profile[p] = s
    BY <1>2 DEF Held
  <2>2. CASE profile'[p] = s
    BY <2>2 DEF Held, Settled
  <2>3. CASE profile'[p] # s
    <3>1. s # Absent
      BY SpellingAssumption
    <3>2. PICK o \in Spellings : profile'[p] = o /\ user'[o] # "none"
      BY <2>1, <2>3, <3>1, ProfileMoves
    <3>3. QED
      BY <2>3, <3>2 DEF Clash, Settled
  <2>4. QED
    BY <2>2, <2>3
<1>3. QED
  BY <1>1, <1>2 DEF Settled

LEMMA SettledStaysOf ==
  ASSUME TypeOK, HttpInv, ClaimInv, ProfileInv, [Next]_vars, NEW r \in Requests,
         TokenOf(r).of \in Spellings, TokenOf(r)'.of = TokenOf(r).of, Settled(TokenOf(r).of)
  PROVE  Settled(TokenOf(r).of)'
<1>1. PICK s \in Spellings : s = TokenOf(r).of
  OBVIOUS
<1>2. Settled(s)'
  BY <1>1, SettledStays
<1>3. QED
  BY <1>1, <1>2 DEF Settled, Held, Clash

\* A guest profile that is in the way stays there, or comes to a user.
LEMMA UnfindableStays ==
  ASSUME TypeOK, HttpInv, ClaimInv, ProfileInv, [Next]_vars, NEW s \in Spellings, Unfindable(s)
  PROVE  (Settled(s) \/ Unfindable(s))'
<1>1. CASE profile'[s] = profile[s]
  BY <1>1 DEF Unfindable
<1>2. CASE profile'[s] # profile[s]
  <2>1. PICK o \in Spellings : profile'[s] = o /\ user'[o] # "none"
    BY <1>2, ProfileMoves, SpellingAssumption DEF Unfindable
  <2>2. QED
    BY <2>1 DEF Settled, Held, Clash
<1>3. QED
  BY <1>1, <1>2

\* The user of the claim of r, before and after a step.
LEMMA UserOfClaim ==
  ASSUME TypeOK, HttpInv, ClaimInv, [Next]_vars, NEW r \in Requests, at[r] # "none"
  PROVE  /\ TokenOf(r).of \in Spellings /\ user[TokenOf(r).of] # "none"
         /\ TokenOf(r)'.of = TokenOf(r).of
<1>1. Done(r)
  BY DEF ClaimInv
<1>2. QED
  BY <1>1, DoneStays, TokenIs DEF Done

-----------------------------------------------------------------------------
(* The jobs.                                                               *)

Counts(j) == <<job[j].made, job[j].bad, job[j].stalls>>

\* The queue takes a job up, or lets go of it.
Turn(j) ==
  \/ /\ at[j] = "queued" /\ job'[j] = job[j]
     /\ \/ at'[j] = "done" /\ job[j].key = "COMPLETED"
        \/ at'[j] = "skipped" /\ job[j].key = "IN_PROGRESS"
  \/ /\ at[j] = "queued" /\ at'[j] \in {"user", "profile"}
     /\ Counts(j)' = Counts(j) /\ job'[j].left = job[j].left
     /\ job'[j].key \in {job[j].key, "IN_PROGRESS"}
  \/ /\ at[j] = "queued" /\ at'[j] = "queued"
     /\ Counts(j)' = Counts(j) /\ job'[j].left = job[j].left /\ job'[j].key = "expired"
  \/ /\ at[j] \in Finished /\ at'[j] = "queued"
     /\ Counts(j)' = <<0, 0, 0>> /\ job'[j].left = job[j].left /\ job'[j].key = job[j].key
  \/ /\ at[j] = "return" /\ at'[j] = "done" /\ Counts(j)' = Counts(j)
     /\ \/ job'[j].key \in {"none", "COMPLETED"} /\ job'[j].left = job[j].left
        \/ job'[j].key = job[j].key /\ job'[j].left

\* The worker dies, or fails too late.
Cut(j) ==
  /\ at[j] \in Working /\ job'[j].left
  /\ job'[j].made = job[j].made /\ job'[j].bad = job[j].bad
  /\ \/ /\ at'[j] = "skipped" /\ job'[j].stalls = job[j].stalls
        /\ job'[j].key \in {"none", "FAILED"}
     \/ /\ at'[j] = IF job[j].stalls < MaxStalledCount THEN "queued" ELSE "failed"
        /\ job'[j].stalls = job[j].stalls + 1 /\ job'[j].key = job[j].key

\* The attempt throws, for a call that failed or not.
Threw(j, bad) ==
  /\ at[j] \in Working
  /\ at'[j] = IF job[j].made + 1 < Attempts THEN "queued" ELSE "failed"
  /\ job'[j].made = job[j].made + 1 /\ job'[j].bad = job[j].bad + bad
  /\ job'[j].stalls = job[j].stalls
  /\ \/ job'[j].key \in {"none", "FAILED"} /\ job'[j].left = job[j].left
     \/ job'[j].key = job[j].key /\ job'[j].left

\* The handler goes on.
Went(j) == at[j] \in Working /\ at'[j] \in Working /\ job'[j] = job[j]

LEMMA QueueMoves ==
  ASSUME TypeOK, NEW j \in Jobs, Queue(j) \/ QueueFault(j)
  PROVE  Turn(j) \/ Cut(j) \/ Threw(j, 1)
<1>0. /\ at \in [Jobs -> {"none", "queued"} \cup Working \cup Finished]
      /\ job \in [Jobs -> Job] /\ job[j] \in Job
  BY DEF TypeOK
<1>1. CASE Queue(j)
  <2>1. CASE BeginJob(j)
    BY <1>0, <2>1 DEF BeginJob, Goto, Start, Turn, Counts, Job
  <2>2. CASE CompleteJob(j)
    BY <1>0, <2>2 DEF CompleteJob, Marked, Turn, Counts, Job
  <2>3. CASE JobKeyExpires(j)
    BY <1>0, <2>3 DEF JobKeyExpires, Turn, Counts, Job
  <2>4. QED
    BY <1>1, <2>1, <2>2, <2>3 DEF Queue
<1>2. CASE QueueFault(j)
  <2>1. CASE JobKeyFails(j)
    <3>1. CASE at[j] = "queued"
      <4>1. at'[j] \in {"user", "profile"}
        BY <1>0, <2>1, <3>1 DEF JobKeyFails, Start
      <4>2. \/ job' = job
            \/ job' = [job EXCEPT ![j].key = "IN_PROGRESS"]
        BY <2>1, <3>1 DEF JobKeyFails
      <4>3. Counts(j)' = Counts(j) /\ job'[j].left = job[j].left
            /\ job'[j].key \in {job[j].key, "IN_PROGRESS"}
        BY <1>0, <4>2 DEF Counts, Job
      <4>4. QED
        BY <3>1, <4>1, <4>3 DEF Turn
    <3>2. CASE at[j] = "return"
      BY <1>0, <2>1, <3>2 DEF JobKeyFails, Turn, Counts, Job
    <3>3. QED
      BY <2>1, <3>1, <3>2 DEF JobKeyFails
  <2>2. CASE JobCallFails(j)
    <3>1. PICK row \in {[Marked(job[j], "FAILED") EXCEPT !.bad = job[j].bad + 1],
                        [job[j] EXCEPT !.bad = job[j].bad + 1, !.left = TRUE]} :
            Thrown(j, row) /\ at[j] \in Working
      BY <2>2 DEF JobCallFails
    <3>2. /\ row.bad = job[j].bad + 1 /\ row.stalls = job[j].stalls
          /\ \/ row.key \in {"none", "FAILED"} /\ row.left = job[j].left
             \/ row.key = job[j].key /\ row.left
          /\ job'[j] = [row EXCEPT !.made = job[j].made + 1]
          /\ job'[j].made = job[j].made + 1
      BY <1>0, <3>1 DEF Marked, Job, Thrown
    <3>3. /\ job'[j].bad = row.bad /\ job'[j].stalls = row.stalls
          /\ job'[j].key = row.key /\ job'[j].left = row.left
      BY <1>0, <3>1, <3>2 DEF Marked, Job
    <3>4. at'[j] = IF job[j].made + 1 < Attempts THEN "queued" ELSE "failed"
      BY <1>0, <3>1 DEF Thrown
    <3>5. QED
      BY <3>1, <3>2, <3>3, <3>4 DEF Threw
  <2>3. CASE LateCallFails(j)
    BY <1>0, <2>3 DEF LateCallFails, Marked, Cut, Job
  <2>4. CASE WorkerDies(j)
    BY <1>0, <2>4 DEF WorkerDies, Cut, Job
  <2>5. CASE AddAgain(j)
    BY <1>0, <2>5 DEF AddAgain, Turn, Counts, Job
  <2>6. QED
    BY <1>2, <2>1, <2>2, <2>3, <2>4, <2>5 DEF QueueFault
<1>3. QED
  BY <1>1, <1>2

LEMMA EnsureMoves ==
  ASSUME TypeOK, NEW s \in Spellings, EnsureJob(s)
  PROVE  \/ /\ Went(s) /\ at'[s] \in {"email", "link", "create", "return"}
            /\ at'[s] = "create" => profile[Lower] = Absent
            /\ at'[s] = "return" => Held(s)'
         \/ /\ Threw(s, 0) /\ profile' = profile
            /\ Held(s) \/ (at[s] = "create" /\ profile[s] # Absent)
<1>0. /\ at \in [Jobs -> {"none", "queued"} \cup Working \cup Finished]
      /\ job \in [Jobs -> Job] /\ s \in Jobs /\ job[s] \in Job
      /\ profile \in [Spellings -> Spellings \cup {Absent, Guest}] /\ Lower \in Spellings
  BY SpellingAssumption DEF TypeOK, Jobs
<1>1. CASE FindProfileByUser(s)
  BY <1>0, <1>1 DEF FindProfileByUser, Goto, Went, Working, Held
<1>2. CASE FindProfileByEmail(s)
  BY <1>0, <1>2 DEF FindProfileByEmail, Goto, Went, Working
<1>3. ASSUME Conflict(s), at[s] \in Working
      PROVE  Threw(s, 0)
  BY <1>0, <1>3 DEF Conflict, Thrown, Marked, Threw, Job
<1>4. CASE LinkFoundProfile(s)
  <2>1. CASE Link(Lower, s) /\ Goto(s, "return")
    BY <1>0, <1>4, <2>1 DEF LinkFoundProfile, Link, Goto, Went, Working, Held
  <2>2. CASE Conflict(s) /\ UNCHANGED profile /\ \E q \in Spellings \ {Lower} : profile[q] = s
    BY <1>3, <1>4, <2>2 DEF LinkFoundProfile, Working, Held, Conflict, Thrown
  <2>3. QED
    BY <1>4, <2>1, <2>2 DEF LinkFoundProfile
<1>5. CASE CreateProfile(s)
  <2>1. CASE Creatable(s)
    BY <1>0, <1>5, <2>1 DEF CreateProfile, Goto, Went, Working, Held
  <2>2. CASE ~Creatable(s)
    BY <1>3, <1>5, <2>2 DEF CreateProfile, Creatable, Working
  <2>3. QED
    BY <2>1, <2>2
<1>6. QED
  BY <1>1, <1>2, <1>4, <1>5 DEF EnsureJob

LEMMA LinkMoves ==
  ASSUME TypeOK, NEW r \in Requests, TokenOf(r).of \in Spellings, LinkJob(r)
  PROVE  \/ /\ Went(r) /\ at[r] = "profile" /\ at'[r] = "publish"
            /\ profile'[TokenOf(r).of] = TokenOf(r).of /\ linked' = linked
         \/ /\ Went(r) /\ at[r] = "publish" /\ at'[r] = "return"
            /\ linked' = linked \cup {TokenOf(r).of} /\ profile' = profile
         \/ Threw(r, 0) /\ Held(TokenOf(r).of) /\ UNCHANGED <<profile, linked>>
<1>0. /\ at \in [Jobs -> {"none", "queued"} \cup Working \cup Finished]
      /\ job \in [Jobs -> Job] /\ r \in Jobs /\ job[r] \in Job
      /\ profile \in [Spellings -> Spellings \cup {Absent, Guest}]
  BY DEF TypeOK, Jobs
<1>1. CASE PublishLinked(r)
  BY <1>0, <1>1 DEF PublishLinked, Goto, Went, Working
<1>2. CASE LinkClaimed(r)
  <2> DEFINE p == TokenOf(r).of
  <2>1. CASE Link(p, p) /\ Goto(r, "publish")
    BY <1>0, <1>2, <2>1 DEF LinkClaimed, EnsureRest, Link, Goto, Went, Working
  <2>2. CASE (\E q \in Spellings \ {p} : profile[q] = p) /\ Conflict(r) /\ UNCHANGED profile
    <3>1. at[r] \in Working /\ linked' = linked
      BY <1>2 DEF LinkClaimed, EnsureRest, Working
    <3>2. Threw(r, 0)
      BY <1>0, <2>2, <3>1 DEF Conflict, Thrown, Marked, Threw, Job
    <3>3. QED
      BY <2>2, <3>1, <3>2 DEF Held
  <2>3. QED
    BY <1>2, <2>1, <2>2 DEF LinkClaimed
<1>3. QED
  BY <1>1, <1>2 DEF LinkJob

\* What may become of a job in a step.
LEMMA JobMoves ==
  ASSUME TypeOK, HttpInv, ClaimInv, [Next]_vars, NEW j \in Jobs
  PROVE  \/ at'[j] = at[j] /\ job'[j] = job[j]
         \/ at'[j] = "queued" /\ job'[j] = NewJob
         \/ Turn(j) \/ Cut(j) \/ Threw(j, 0) \/ Threw(j, 1) \/ Went(j)
<1>0. at \in [Jobs -> {"none", "queued"} \cup Working \cup Finished] /\ job \in [Jobs -> Job]
  BY DEF TypeOK
<1>1. CASE (j \in Spellings /\ Register(j)) \/ (j \in Requests /\ CommitClaim(j))
  BY <1>0, <1>1 DEF Register, CommitClaim, Added
<1>2. CASE JobStep(j) /\ (Queue(j) \/ QueueFault(j))
  BY <1>2, QueueMoves
<1>3. CASE j \in Spellings /\ EnsureJob(j)
  BY <1>3, EnsureMoves
<1>4. CASE j \in Requests /\ LinkJob(j)
  <2>1. at[j] # "none"
    BY <1>4, JobSteps DEF JobStep
  <2>2. QED
    BY <1>4, <2>1, LinkMoves, UserOfClaim
<1>5. QED
  BY <1>1, <1>2, <1>3, <1>4, JobCauses DEF JobStep

LEMMA CountNext ==
  ASSUME TypeOK, HttpInv, ClaimInv, CountInv, [Next]_vars
  PROVE  CountInv'
<1> SUFFICES ASSUME NEW j \in Jobs
             PROVE  /\ at'[j] = "none" => job'[j] = NewJob
                    /\ job'[j].bad <= job'[j].made
                    /\ Pending(j)' => job'[j].made < Attempts /\ job'[j].stalls <= MaxStalledCount
                    /\ at'[j] = "failed" => job'[j].stalls > MaxStalledCount \/ job'[j].made >= Attempts
                    /\ at'[j] = "skipped" \/ (job'[j].key = "IN_PROGRESS" /\ at'[j] \notin Working) =>
                         job'[j].left
  BY DEF CountInv
<1>0. /\ job[j].made \in Nat /\ job[j].bad \in Nat /\ job[j].stalls \in Nat
      /\ Attempts \in Nat \ {0} /\ MaxStalledCount \in Nat
  BY JobAssumption DEF TypeOK, Job
<1>1. /\ at[j] = "none" => job[j] = NewJob
      /\ job[j].bad <= job[j].made
      /\ Pending(j) => job[j].made < Attempts /\ job[j].stalls <= MaxStalledCount
      /\ at[j] = "failed" => job[j].stalls > MaxStalledCount \/ job[j].made >= Attempts
      /\ at[j] = "skipped" \/ (job[j].key = "IN_PROGRESS" /\ at[j] \notin Working) => job[j].left
  BY DEF CountInv
<1>2. CASE at'[j] = at[j] /\ job'[j] = job[j]
  BY <1>1, <1>2 DEF Pending
<1>3. CASE at'[j] = "queued" /\ job'[j] = NewJob
  BY <1>0, <1>3 DEF NewJob, Pending, Working
<1>4. CASE Turn(j)
  BY <1>0, <1>1, <1>4 DEF Turn, Counts, Pending, Working, Finished
<1>5. CASE Cut(j)
  BY <1>0, <1>1, <1>5 DEF Cut, Pending, Working
<1>6. CASE Threw(j, 0) \/ Threw(j, 1)
  BY <1>0, <1>1, <1>6 DEF Threw, Pending, Working
<1>7. CASE Went(j)
  BY <1>1, <1>7 DEF Went, Pending, Working
<1>8. QED
  BY <1>2, <1>3, <1>4, <1>5, <1>6, <1>7, JobMoves

\* A job counts as done after its handler has done its work.
LEMMA DoneCauses ==
  ASSUME TypeOK, HttpInv, ClaimInv, [Next]_vars, NEW j \in Jobs,
         at'[j] \in {"return", "done"} \/ job'[j].key = "COMPLETED"
  PROVE  \/ at[j] \in {"return", "done"} \/ job[j].key = "COMPLETED"
         \/ j \in Spellings /\ Held(j)'
         \/ j \in Requests /\ at[j] # "none" /\ TokenOf(j).of \in linked'
<1>0. at \in [Jobs -> {"none", "queued"} \cup Working \cup Finished] /\ job \in [Jobs -> Job]
  BY DEF TypeOK
<1>1. CASE (j \in Spellings /\ Register(j)) \/ (j \in Requests /\ CommitClaim(j))
  BY <1>0, <1>1 DEF Register, CommitClaim, Added, NewJob
<1>2. CASE Turn(j)
  BY <1>2 DEF Turn
<1>3. CASE Cut(j) \/ Threw(j, 0) \/ Threw(j, 1)
  BY <1>3 DEF Cut, Threw
<1>4. CASE j \in Spellings /\ EnsureJob(j)
  BY <1>3, <1>4, EnsureMoves DEF Went
<1>5. CASE j \in Requests /\ LinkJob(j)
  <2>1. at[j] # "none"
    BY <1>5, JobSteps DEF JobStep
  <2>2. QED
    BY <1>3, <1>5, <2>1, LinkMoves, UserOfClaim DEF Went
<1>6. QED
  BY <1>1, <1>2, <1>3, <1>4, <1>5, JobCauses, QueueMoves DEF JobStep

LEMMA LinkedNext ==
  ASSUME TypeOK, HttpInv, ClaimInv, LinkedInv, ProfileInv, CountInv, [Next]_vars
  PROVE  LinkedInv'
<1>1. \A p \in Spellings : profile[p] \in Spellings => profile'[p] \in Spellings
  BY ProfileMoves, SpellingAssumption
<1>2. /\ linked \subseteq linked' /\ linked \subseteq Spellings
      /\ \A s \in linked' : s \in linked \/ \E r \in Requests :
           at[r] = "publish" /\ TokenOf(r).of = s
  <2>1. ASSUME NEW r \in Requests, LinkJob(r)
        PROVE  linked' = linked \/ (at[r] = "publish" /\ linked' = linked \cup {TokenOf(r).of})
    BY <2>1 DEF LinkJob, LinkClaimed, PublishLinked, EnsureRest
  <2>2. ASSUME NEW q \in Requests, Api(q)
        PROVE  linked' = linked
    BY <2>2 DEF Api, Post, PostPlain, InterceptClaim, FindToken, FindUser, CommitClaim, CommitClaimFails,
      IssueSession, ClaimCallFails, ApiCrash, jobs
  <2>3. ASSUME NEW o \in Spellings, Person(o) \/ EnsureJob(o)
        PROVE  linked' = linked
    BY <2>3, EnsureJobRest DEF Person, CreateGuestProfile, Register, VerifyEmail, jobs
  <2>4. linked \subseteq Spellings
    BY DEF TypeOK
  <2>5. (\E r \in Requests : LinkJob(r)) \/ linked' = linked
    BY <2>2, <2>3, QueueRest DEF Next, TokenExpires, IssueClaimToken, Expiry, vars, jobs
  <2>6. QED
    BY <2>1, <2>4, <2>5
<1>3. ASSUME NEW s \in linked'
      PROVE  profile'[s] \in Spellings
  <2>1. s \in Spellings /\ profile[s] \in Spellings
    BY <1>2, UserOfClaim DEF LinkedInv
  <2>2. QED
    BY <1>1, <2>1
<1>4. ASSUME NEW r \in Requests, at'[r] = "publish"
      PROVE  profile'[TokenOf(r)'.of] \in Spellings
  <2>0. r \in Jobs /\ r \notin Spellings
    BY JobAssumption DEF Jobs
  <2>1. at[r] = "publish" \/ (at[r] # "none" /\ profile'[TokenOf(r).of] = TokenOf(r).of)
    <3>1. CASE CommitClaim(r)
      BY <1>4, <2>0, <3>1 DEF CommitClaim, Added, TypeOK
    <3>2. CASE Queue(r) \/ QueueFault(r)
      BY <1>4, <2>0, <3>2, QueueMoves DEF Turn, Cut, Threw
    <3>3. CASE LinkJob(r)
      <4>1. at[r] # "none"
        BY <2>0, <3>3, JobSteps DEF JobStep
      <4>2. QED
        BY <1>4, <3>3, <4>1, LinkMoves, UserOfClaim DEF Went, Threw
    <3>4. QED
      BY <1>4, <2>0, <3>1, <3>2, <3>3, JobCauses DEF JobStep
  <2>2. TokenOf(r)'.of = TokenOf(r).of /\ TokenOf(r).of \in Spellings
    BY <2>1, UserOfClaim
  <2>3. QED
    BY <1>1, <2>1, <2>2 DEF LinkedInv
<1>5. ASSUME NEW r \in Requests, at'[r] \in {"return", "done"} \/ job'[r].key = "COMPLETED"
      PROVE  TokenOf(r)'.of \in linked'
  <2>0. r \in Jobs /\ r \notin Spellings
    BY JobAssumption DEF Jobs
  <2>1. at[r] \in {"return", "done"} \/ job[r].key = "COMPLETED" => at[r] # "none"
    BY <2>0 DEF CountInv, NewJob
  <2>2. at[r] # "none" /\ TokenOf(r).of \in linked'
    BY <1>2, <1>5, <2>0, <2>1, DoneCauses DEF LinkedInv
  <2>3. QED
    BY <2>2, UserOfClaim
<1>6. QED
  BY <1>3, <1>4, <1>5 DEF LinkedInv

\* Who makes a user.
LEMMA UserCauses ==
  ASSUME TypeOK, [Next]_vars, NEW s \in Spellings, user'[s] # "none"
  PROVE  \/ user[s] # "none" \/ Register(s)
         \/ \E r \in Requests : CommitClaim(r) /\ TokenOf(r).of = s
<1>0. user \in [Spellings -> Users]
  BY DEF TypeOK
<1>1. ASSUME NEW o \in Spellings, Person(o)
      PROVE  user[s] # "none" \/ Register(s)
  BY <1>0, <1>1 DEF Person, CreateGuestProfile, Register, VerifyEmail
<1>2. ASSUME NEW r \in Requests, Api(r)
      PROVE  user' = user \/ (CommitClaim(r) /\ (user'[s] # user[s] => TokenOf(r).of = s))
  BY <1>0, <1>2 DEF Api, Post, PostPlain, InterceptClaim, FindToken, FindUser, CommitClaim, CommitClaimFails,
    IssueSession, ClaimCallFails, ApiCrash, accounts
<1>3. QED
  BY <1>1, <1>2, EnsureJobRest, LinkJobRest, QueueRest DEF Next, TokenExpires, IssueClaimToken, Expiry,
    vars, accounts

LEMMA ProfileNext ==
  ASSUME TypeOK, HttpInv, ClaimInv, ProfileInv, [Next]_vars
  PROVE  ProfileInv'
<1>0. /\ at \in [Jobs -> {"none", "queued"} \cup Working \cup Finished]
      /\ \A s \in Spellings : s \in Jobs /\ s \notin Requests
      /\ \A r \in Requests : r \in Jobs
  BY JobAssumption DEF TypeOK, Jobs
<1>1. \A s \in Spellings : at'[s] # "none" => user'[s] # "none"
  <2>1. ASSUME NEW s \in Spellings, Register(s)
        PROVE  user'[s] # "none"
    BY <2>1 DEF Register, TypeOK
  <2>2. QED
    BY <1>0, <2>1, JobCauses, JobSteps, RowsStay DEF ProfileInv
<1>2. ASSUME NEW s \in Spellings, user'[s] # "none"
      PROVE  at'[s] # "none" \/ \E r \in Requests : at'[r] # "none" /\ TokenOf(r)'.of = s
  <2>1. ASSUME NEW j \in Jobs, at[j] # "none"
        PROVE  at'[j] # "none"
    BY <2>1, JobCauses, JobSteps, <1>0 DEF Register, CommitClaim, Added
  <2>2. ASSUME NEW r \in Requests, at[r] # "none", TokenOf(r).of = s
        PROVE  at'[r] # "none" /\ TokenOf(r)'.of = s
    BY <1>0, <2>1, <2>2, UserOfClaim
  <2>3. ASSUME NEW r \in Requests, CommitClaim(r), TokenOf(r).of = s
        PROVE  at'[r] # "none" /\ TokenOf(r)'.of = s
    BY <1>0, <2>3, CommitDoes DEF CommitClaim, Added
  <2>4. CASE Register(s)
    BY <1>0, <2>4 DEF Register, Added
  <2>5. QED
    BY <1>0, <1>2, <2>1, <2>2, <2>3, <2>4, UserCauses DEF ProfileInv
<1>3. ASSUME NEW p \in Spellings, profile'[p] \in Spellings
      PROVE  user'[profile'[p]] # "none"
  <2>1. CASE profile'[p] = profile[p]
    BY <1>3, <2>1, RowsStay DEF ProfileInv
  <2>2. CASE profile'[p] # profile[p]
    BY <1>3, <2>2, ProfileMoves, SpellingAssumption
  <2>3. QED
    BY <2>1, <2>2
<1>4. ASSUME NEW s \in Spellings, at'[s] \in {"return", "done"} \/ job'[s].key = "COMPLETED"
      PROVE  Settled(s)'
  BY <1>0, <1>4, DoneCauses, SettledStays DEF ProfileInv, Settled
<1>5. QED
  BY <1>1, <1>2, <1>3, <1>4 DEF ProfileInv

\* The difference of attempts and failed calls grows by a conflict, and shrinks
\* to nothing with a new round.
LEMMA GapMoves ==
  ASSUME TypeOK, HttpInv, ClaimInv, [Next]_vars, NEW j \in Jobs, job'[j].made > job'[j].bad
  PROVE  \/ job[j].made > job[j].bad /\ job'[j].made - job'[j].bad = job[j].made - job[j].bad
         \/ /\ Threw(j, 0)
            /\ \/ j \in Spellings /\ EnsureJob(j)
               \/ j \in Requests /\ LinkJob(j)
<1>0. /\ job[j].made \in Nat /\ job[j].bad \in Nat
      /\ at \in [Jobs -> {"none", "queued"} \cup Working \cup Finished] /\ job \in [Jobs -> Job]
  BY DEF TypeOK, Job
<1>1. CASE (j \in Spellings /\ Register(j)) \/ (j \in Requests /\ CommitClaim(j))
  BY <1>0, <1>1 DEF Register, CommitClaim, Added, NewJob
<1>2. CASE Turn(j) \/ Cut(j) \/ Threw(j, 1) \/ Went(j)
  BY <1>0, <1>2 DEF Turn, Cut, Threw, Went, Counts
<1>3. CASE at'[j] = at[j] /\ job'[j] = job[j]
  BY <1>0, <1>3
<1>4. CASE j \in Spellings /\ EnsureJob(j)
  BY <1>2, <1>4, EnsureMoves
<1>5. CASE j \in Requests /\ LinkJob(j)
  <2>1. at[j] # "none"
    BY <1>5, JobSteps DEF JobStep
  <2>2. QED
    BY <1>2, <1>5, <2>1, LinkMoves, UserOfClaim
<1>6. QED
  BY <1>1, <1>2, <1>3, <1>4, <1>5, JobCauses, QueueMoves DEF JobStep

LEMMA ConflictNext ==
  ASSUME TypeOK, HttpInv, ClaimInv, JobInv, [Next]_vars
  PROVE  ConflictInv'
<1>0. /\ \A s \in Spellings : s \in Jobs /\ s \notin Requests
      /\ \A r \in Requests : r \in Jobs /\ r \notin Spellings
      /\ \A j \in Jobs : job[j].made \in Nat /\ job[j].bad \in Nat /\ job[j].bad <= job[j].made
      /\ \A j \in Jobs : job'[j].made \in Nat /\ job'[j].bad \in Nat
      /\ ProfileInv /\ ConflictInv
  <2>1. \A j \in Jobs : job[j].made \in Nat /\ job[j].bad \in Nat
    BY DEF TypeOK, Job
  <2>2. ASSUME NEW j \in Jobs
        PROVE  job'[j].made \in Nat /\ job'[j].bad \in Nat
    BY <2>1, JobMoves DEF Turn, Cut, Threw, Went, Counts, NewJob
  <2>3. QED
    BY <2>1, <2>2, JobAssumption DEF Jobs, JobInv, CountInv
<1>1. ASSUME NEW r \in Requests, job'[r].made > job'[r].bad
      PROVE  Settled(TokenOf(r).of)'
  <2>1. CASE job[r].made > job[r].bad
    <3>1. at[r] # "none"
      BY <1>0, <2>1 DEF JobInv, CountInv, NewJob
    <3>2. Settled(TokenOf(r).of) /\ TokenOf(r).of \in Spellings /\ TokenOf(r)'.of = TokenOf(r).of
      BY <1>0, <2>1, <3>1, UserOfClaim DEF ConflictInv
    <3>3. QED
      BY <1>0, <3>2, SettledStaysOf
  <2>2. CASE Threw(r, 0) /\ LinkJob(r)
    <3>1. at[r] # "none"
      BY <1>0, <2>2, JobSteps DEF JobStep
    <3>2. TokenOf(r).of \in Spellings /\ TokenOf(r)'.of = TokenOf(r).of
      BY <3>1, UserOfClaim
    <3>3. Settled(TokenOf(r).of)
      BY <2>2, <3>2, LinkMoves DEF Threw, Went, Working, Settled
    <3>4. QED
      BY <1>0, <3>2, <3>3, SettledStaysOf
  <2>3. QED
    BY <1>0, <1>1, <2>1, <2>2, GapMoves
<1>2. ASSUME NEW s \in Spellings, job'[s].made > job'[s].bad
      PROVE  \/ Settled(s)' \/ Unfindable(s)'
             \/ /\ s = Lower /\ job'[s].made = job'[s].bad + 1
                /\ profile'[s] # Absent /\ at'[s] # "create"
  <2>1. Settled(s) \/ Unfindable(s) => Settled(s)' \/ Unfindable(s)'
    BY <1>0, SettledStays, UnfindableStays
  <2>2. profile[s] # Absent => profile'[s] # Absent
    BY <1>0, ProfileMoves, SpellingAssumption
  <2>3. CASE /\ job[s].made > job[s].bad
             /\ job'[s].made - job'[s].bad = job[s].made - job[s].bad
    <3>1. CASE s = Lower /\ job[s].made = job[s].bad + 1 /\ profile[s] # Absent /\ at[s] # "create"
      <4>1. at'[s] # "create"
        BY <1>0, <3>1, JobCauses, QueueMoves, EnsureMoves DEF JobStep, Register, Added, TypeOK,
          Turn, Cut, Threw
      <4>2. QED
        BY <1>0, <2>2, <2>3, <3>1, <4>1
    <3>2. QED
      BY <1>0, <2>1, <2>3, <3>1 DEF ConflictInv
  <2>4. CASE Threw(s, 0) /\ EnsureJob(s)
    <3>1. \/ Held(s)
          \/ at[s] = "create" /\ profile[s] # Absent
      BY <2>4, EnsureMoves DEF Threw, Went, Working
    <3>2. CASE at[s] = "create" /\ profile[s] # Absent /\ s = Lower
      <4>1. Settled(s) \/ job[s].made = job[s].bad
        BY <1>0, <3>2 DEF ConflictInv, Unfindable
      <4>2. QED
        BY <1>0, <2>1, <2>2, <2>4, <3>2, <4>1 DEF Threw
    <3>3. CASE profile[s] # Absent /\ s # Lower
      <4>1. profile[s] = Guest \/ profile[s] \in Spellings
        BY <3>3 DEF TypeOK
      <4>2. Unfindable(s) \/ Settled(s)
        BY <1>0, <3>3, <4>1 DEF Unfindable, Settled, Held, Clash, ProfileInv
      <4>3. QED
        BY <2>1, <4>2
    <3>4. QED
      BY <2>1, <3>1, <3>2, <3>3 DEF Settled
  <2>5. QED
    BY <1>0, <1>2, <2>3, <2>4, GapMoves
<1>3. QED
  BY <1>1, <1>2 DEF ConflictInv

-----------------------------------------------------------------------------
(* Types, and the invariant as a whole.                                    *)

\* The row of a job stays within its bounds.
LEMMA RowNext ==
  ASSUME TypeOK, CountInv, NEW j \in Jobs, JobStep(j)
  PROVE  job' \in [Jobs -> Job]
<1>0. /\ job \in [Jobs -> Job] /\ job[j] \in Job
      /\ Attempts \in Nat \ {0} /\ MaxStalledCount \in Nat
  BY JobAssumption DEF TypeOK
<1>1. /\ job[j].bad <= job[j].made
      /\ Pending(j) => job[j].made < Attempts /\ job[j].stalls <= MaxStalledCount
  BY DEF CountInv
<1>2. ASSUME NEW row \in Job, Thrown(j, row), at[j] \in Working
      PROVE  job' \in [Jobs -> Job]
  <2>1. [row EXCEPT !.made = job[j].made + 1] \in Job
    BY <1>0, <1>1, <1>2 DEF Job, Pending
  <2>2. QED
    BY <1>0, <1>2, <2>1 DEF Thrown
<1>3. \A row \in Job, st \in {"IN_PROGRESS", "expired", "COMPLETED", "FAILED"} :
        Marked(row, st) \in Job /\ [row EXCEPT !.key = st] \in Job
  BY DEF Marked, Job
<1>4. CASE Queue(j)
  BY <1>0, <1>3, <1>4 DEF Queue, BeginJob, CompleteJob, JobKeyExpires, Goto
<1>5. CASE QueueFault(j)
  <2>1. CASE JobKeyFails(j) \/ LateCallFails(j) \/ AddAgain(j)
    <3>1. \A row \in Job : [row EXCEPT !.left = TRUE] \in Job
      BY DEF Job
    <3>2. [job[j] EXCEPT !.made = 0, !.stalls = 0, !.bad = 0] \in Job
      <4>1. 0 \in 0 .. Attempts /\ 0 \in 0 .. MaxStalledCount + 1
        BY <1>0
      <4>2. QED
        BY <1>0, <4>1 DEF Job
    <3>3. CASE JobKeyFails(j)
      BY <1>0, <1>3, <3>1, <3>3 DEF JobKeyFails
    <3>4. CASE LateCallFails(j)
      BY <1>0, <1>3, <3>1, <3>4 DEF LateCallFails
    <3>5. CASE AddAgain(j)
      BY <1>0, <3>2, <3>5 DEF AddAgain
    <3>6. QED
      BY <2>1, <3>3, <3>4, <3>5
  <2>2. CASE WorkerDies(j)
    <3>1. job[j].stalls + 1 \in 0 .. MaxStalledCount + 1
      BY <1>0, <1>1, <2>2 DEF WorkerDies, Pending, Job
    <3>2. [job[j] EXCEPT !.stalls = job[j].stalls + 1, !.left = TRUE] \in Job
      BY <1>0, <3>1 DEF Job
    <3>3. QED
      BY <1>0, <2>2, <3>2 DEF WorkerDies
  <2>3. CASE JobCallFails(j)
    <3>1. at[j] \in Working /\ job[j].bad + 1 \in 0 .. Attempts
      BY <1>0, <1>1, <2>3 DEF JobCallFails, Pending, Job
    <3>2. \A row \in Job, n \in 0 .. Attempts :
            [row EXCEPT !.bad = n] \in Job /\ [row EXCEPT !.bad = n, !.left = TRUE] \in Job
      BY DEF Job
    <3>3. QED
      BY <1>0, <1>2, <1>3, <2>3, <3>1, <3>2 DEF JobCallFails
  <2>4. QED
    BY <1>5, <2>1, <2>2, <2>3 DEF QueueFault
<1>6. ASSUME Conflict(j), at[j] \in Working
      PROVE  job' \in [Jobs -> Job]
  BY <1>0, <1>2, <1>3, <1>6 DEF Conflict
<1>7. CASE EnsureJob(j)
  BY <1>0, <1>6, <1>7 DEF EnsureJob, FindProfileByUser, FindProfileByEmail, LinkFoundProfile, CreateProfile,
    Goto, Working
<1>8. CASE LinkJob(j)
  BY <1>0, <1>6, <1>8 DEF LinkJob, LinkClaimed, PublishLinked, Goto, Working
<1>9. QED
  BY <1>4, <1>5, <1>7, <1>8 DEF JobStep

LEMMA TypeNext ==
  ASSUME TypeOK, HttpInv, ClaimInv, CountInv, [Next]_vars
  PROVE  TypeOK'
<1>0. /\ key \in Key /\ http \in [Requests -> Exchange]
      /\ key' \in Key /\ http' \in [Requests -> Exchange]
      /\ user \in [Spellings -> Users]
      /\ profile \in [Spellings -> Spellings \cup {Absent, Guest}]
      /\ token \in [Tokens -> Token] /\ claim \in [Requests -> Claim]
      /\ at \in [Jobs -> {"none", "queued"} \cup Working \cup Finished] /\ job \in [Jobs -> Job]
      /\ linked \subseteq Spellings /\ faults \in 0 .. MaxFaults /\ Lower \in Spellings
      /\ \A s \in Spellings : s \in Jobs
      /\ \A r \in Requests : r \in Jobs
      /\ NewJob \in Job
  BY HttpNext, SpellingAssumption, JobAssumption DEF TypeOK, HttpInv, HttpTypeOK, Jobs, NewJob, Job
<1>1. ASSUME NEW s \in Spellings, Person(s)
      PROVE  TypeOK'
  <2>1. CASE CreateGuestProfile(s) \/ VerifyEmail(s)
    BY <1>0, <2>1 DEF CreateGuestProfile, VerifyEmail, TypeOK, Users, jobs
  <2>2. CASE Register(s)
    BY <1>0, <2>2 DEF Register, Added, TypeOK, Users
  <2>3. QED
    BY <1>1, <2>1, <2>2 DEF Person
<1>2. ASSUME NEW s \in Spellings, EnsureJob(s)
      PROVE  TypeOK'
  <2>1. profile' \in [Spellings -> Spellings \cup {Absent, Guest}]
    BY <1>0, <1>2 DEF EnsureJob, FindProfileByUser, FindProfileByEmail, LinkFoundProfile, CreateProfile, Link
  <2>2. UNCHANGED <<user, token, claim, linked, faults>>
    BY <1>2, EnsureJobRest
  <2>3. at' \in [Jobs -> {"none", "queued"} \cup Working \cup Finished] /\ job' \in [Jobs -> Job]
    BY <1>0, <1>2, JobSteps, RowNext DEF JobStep
  <2>4. QED
    BY <1>0, <2>1, <2>2, <2>3 DEF TypeOK
<1>3. ASSUME NEW t \in Tokens, TokenExpires(t) \/ \E s \in Spellings : IssueClaimToken(t, s)
      PROVE  TypeOK'
  <2>1. token' \in [Tokens -> Token]
    BY <1>0, <1>3 DEF TokenExpires, IssueClaimToken, Token
  <2>2. QED
    BY <1>0, <1>3, <2>1 DEF TokenExpires, IssueClaimToken, TypeOK, jobs
<1>4. ASSUME NEW r \in Requests, Api(r), ~CommitClaim(r)
      PROVE  TypeOK'
  <2>1. UNCHANGED <<user, profile, token, at, job, linked>>
    BY <1>4 DEF Api, Post, PostPlain, InterceptClaim, FindToken, FindUser, CommitClaimFails,
      IssueSession, ClaimCallFails, ApiCrash, accounts, jobs
  <2>2. faults' \in 0 .. MaxFaults
    BY <1>0, <1>4, BoundsAssumption DEF Api, Post, PostPlain, InterceptClaim, FindToken, FindUser,
      CommitClaimFails, IssueSession, ClaimCallFails, ApiCrash, Fault
  <2>3. claim' \in [Requests -> Claim]
    <3>1. CASE Post(r) \/ PostPlain(r) \/ InterceptClaim(r)
      BY <1>0, <3>1 DEF Post, PostPlain, InterceptClaim, Handed, Claim
    <3>2. CASE FindToken(r) \/ CommitClaimFails(r) \/ IssueSession(r) \/ ClaimCallFails(r) \/ ApiCrash(r)
      BY <1>0, <3>2 DEF FindToken, CommitClaimFails, IssueSession, ClaimCallFails, ApiCrash, Step,
        ClaimThrows, Idle, Claim, Users
    <3>3. CASE FindUser(r)
      <4>1. http[r].pc # "idle"
        BY <3>3 DEF FindUser, ClaimAt, Handling
      <4>2. user[TokenOf(r).of] \in Users
        BY <1>0, <4>1, TokenIs
      <4>3. QED
        BY <1>0, <3>3, <4>2 DEF FindUser, Claim
    <3>4. QED
      BY <1>4, <3>1, <3>2, <3>3 DEF Api
  <2>4. QED
    BY <1>0, <2>1, <2>2, <2>3 DEF TypeOK
<1>5. ASSUME NEW r \in Requests, CommitClaim(r)
      PROVE  TypeOK'
  <2>1. user' \in [Spellings -> Users]
    BY <1>0, <1>5 DEF CommitClaim, Users
  <2>2. token' \in [Tokens -> Token]
    <3>1. http[r].pc # "idle"
      BY <1>5 DEF CommitClaim, ClaimAt, Handling
    <3>2. PICK t \in Tokens : t = Asked[http[r].body]
      BY <3>1, TokenIs
    <3>3. token' = [token EXCEPT ![t] = [token[t] EXCEPT !.st = "ACCEPTED"]]
      BY <1>5, <3>2 DEF CommitClaim
    <3>4. [token[t] EXCEPT !.st = "ACCEPTED"] \in Token
      BY <1>0 DEF Token
    <3>5. QED
      BY <1>0, <3>3, <3>4
  <2>3. /\ claim' \in [Requests -> Claim]
        /\ at' \in [Jobs -> {"none", "queued"} \cup Working \cup Finished] /\ job' \in [Jobs -> Job]
    BY <1>0, <1>5 DEF CommitClaim, Added, Claim, Users
  <2>4. QED
    BY <1>0, <1>5, <2>1, <2>2, <2>3 DEF CommitClaim, TypeOK
<1>6. ASSUME NEW r \in Requests, LinkJob(r)
      PROVE  TypeOK'
  <2>1. at' \in [Jobs -> {"none", "queued"} \cup Working \cup Finished] /\ job' \in [Jobs -> Job]
    BY <1>0, <1>6, JobSteps, RowNext DEF JobStep
  <2>2. at[r] # "none"
    BY <1>0, <1>6, JobSteps DEF JobStep
  <2>3. TokenOf(r).of \in Spellings
    BY <2>2, UserOfClaim
  <2>4. /\ profile' \in [Spellings -> Spellings \cup {Absent, Guest}]
        /\ linked' \subseteq Spellings
    BY <1>0, <1>6, <2>3 DEF LinkJob, LinkClaimed, PublishLinked, Link, EnsureRest
  <2>5. QED
    BY <1>0, <1>6, <2>1, <2>4, LinkJobRest DEF TypeOK
<1>7. ASSUME NEW j \in Jobs, Queue(j) \/ QueueFault(j)
      PROVE  TypeOK'
  <2>1. faults' \in 0 .. MaxFaults
    BY <1>0, <1>7, BoundsAssumption DEF Queue, QueueFault, BeginJob, CompleteJob, JobKeyExpires, JobKeyFails,
      JobCallFails, LateCallFails, WorkerDies, AddAgain, Fault
  <2>2. at' \in [Jobs -> {"none", "queued"} \cup Working \cup Finished] /\ job' \in [Jobs -> Job]
    BY <1>7, JobSteps, RowNext DEF JobStep
  <2>3. QED
    BY <1>0, <1>7, <2>1, <2>2, QueueRest DEF TypeOK
<1>8. CASE Expiry \/ UNCHANGED vars
  BY <1>0, <1>8 DEF Expiry, vars, accounts, jobs, TypeOK
<1>9. QED
  BY <1>1, <1>2, <1>3, <1>4, <1>5, <1>6, <1>7, <1>8 DEF Next

LEMMA InitInv == Init => IInv
<1> SUFFICES ASSUME Init PROVE IInv
  OBVIOUS
<1>1. HttpInv
  BY HttpStart DEF Init
<1>2. TypeOK
  BY <1>1, SpellingAssumption, JobAssumption, BoundsAssumption DEF HttpInv, HttpTypeOK, Init, TypeOK, Users,
    Token, Claim, Idle, NewJob, Job
<1>3. ClaimInv
  BY NoneAssumption DEF Init, HttpInit, NoKey, Idle, ClaimInv, Jobs
<1>4. LinkedInv /\ ProfileInv
  BY SpellingAssumption DEF Init, LinkedInv, ProfileInv, NewJob, Jobs
<1>5. CountInv /\ ConflictInv
  BY JobAssumption DEF Init, CountInv, ConflictInv, NewJob, Pending, Working, Jobs
<1>6. QED
  BY <1>1, <1>2, <1>3, <1>4, <1>5 DEF IInv, JobInv

LEMMA NextInv == IInv /\ [Next]_vars => IInv'
BY HttpNext, TypeNext, ClaimNext, LinkedNext, ProfileNext, CountNext, ConflictNext DEF IInv, JobInv

-----------------------------------------------------------------------------
(* The theorems.                                                           *)

\* The inductive invariant holds of every behaviour of accounts and profiles.
THEOREM Invariance == Spec => []IInv
BY InitInv, NextInv, PTL DEF Spec

\* Keys, requests, users, profiles, tokens and jobs keep their types.
THEOREM TypeCorrect == Spec => []TypeOK
<1>1. IInv => TypeOK
  BY DEF IInv
<1>2. QED
  BY <1>1, Invariance, PTL

\* A key hands the handler to a second request only after a run has failed.
THEOREM RunsTheorem == Spec => []RunsAgainOnlyAfterFailure
<1>1. IInv => RunsAgainOnlyAfterFailure
  BY DEF IInv, HttpInv, KeyInv
<1>2. QED
  BY <1>1, Invariance, PTL

\* Who gets tokens for a claim token gets those of a claim that took effect.
THEOREM ResponseTheorem == Spec => []ResponseMeansClaimed
<1>1. IInv => ResponseMeansClaimed
  BY DEF IInv, ClaimInv, Done, ResponseMeansClaimed
<1>2. QED
  BY <1>1, Invariance, PTL

\* A job that has ended is done, or lost, or has met more than one conflict.
LEMMA Ended ==
  ASSUME IInv, NEW j \in Jobs, at[j] # "none", ~Pending(j), ~Lost(j)
  PROVE  at[j] = "done" \/ (at[j] = "failed" /\ job[j].made > job[j].bad + 1)
<1>1. at[j] \in Finished /\ job[j].made \in Nat /\ job[j].bad \in Nat /\ Attempts \in Nat
  BY JobAssumption DEF IInv, TypeOK, Pending, Job
<1>2. QED
  BY <1>1 DEF IInv, JobInv, CountInv, Lost, Finished

\* A claim that took effect is announced of a profile with a user, unless its job
\* is on its way, lost, or came too late.
THEOREM LinkedTheorem == Spec => []LinkIsAnnounced
<1>1. ASSUME IInv, NEW r \in Requests, at[r] # "none", TokenOf(r).of \notin linked, ~Pending(r), ~Lost(r)
      PROVE  at[r] = "failed" /\ Settled(TokenOf(r).of)
  <2>1. r \in Jobs /\ job[r].made \in Nat /\ job[r].bad \in Nat
    BY <1>1 DEF IInv, TypeOK, Jobs, Job
  <2>2. at[r] # "done"
    BY <1>1 DEF IInv, JobInv, LinkedInv
  <2>3. at[r] = "failed" /\ job[r].made > job[r].bad
    BY <1>1, <2>1, <2>2, Ended
  <2>4. QED
    BY <1>1, <2>3 DEF IInv, JobInv, ConflictInv
<1>2. IInv => LinkIsAnnounced
  BY <1>1 DEF IInv, JobInv, LinkedInv, LinkIsAnnounced
<1>3. QED
  BY <1>2, Invariance, PTL

\* A user without a profile has jobs on their way or lost, and no others, unless
\* another spelling is in the way.
THEOREM ProfileTheorem == Spec => []EveryMemberHasAProfile
<1>1. ASSUME IInv, NEW s \in Spellings, ~Settled(s), ~Unfindable(s),
             NEW j \in JobsOf(s), at[j] # "none", ~Pending(j), ~Lost(j)
      PROVE  FALSE
  <2>1. CASE j = s
    <3>1. s \in Jobs /\ job[s].made \in Nat /\ job[s].bad \in Nat
      BY <1>1 DEF IInv, TypeOK, Jobs, Job
    <3>2. at[s] # "done"
      BY <1>1 DEF IInv, JobInv, ProfileInv
    <3>3. job[s].made > job[s].bad => job[s].made = job[s].bad + 1
      BY <1>1 DEF IInv, JobInv, ConflictInv
    <3>4. QED
      BY <1>1, <2>1, <3>1, <3>2, <3>3, Ended
  <2>2. CASE j \in Requests /\ TokenOf(j).of = s
    <3>1. j \in Jobs /\ job[j].made \in Nat /\ job[j].bad \in Nat
      BY <1>1, <2>2 DEF IInv, TypeOK, Jobs, Job
    <3>2. ~(job[j].made > job[j].bad)
      BY <1>1, <2>2 DEF IInv, JobInv, ConflictInv
    <3>3. at[j] # "done"
      <4>1. s \in linked => profile[s] \in Spellings
        BY <1>1 DEF IInv, JobInv, LinkedInv
      <4>2. ~(profile[s] \in Spellings)
        BY <1>1 DEF IInv, JobInv, ProfileInv, Settled, Held, Clash
      <4>3. QED
        BY <1>1, <2>2, <4>1, <4>2 DEF IInv, JobInv, LinkedInv
    <3>4. QED
      BY <1>1, <3>1, <3>2, <3>3, Ended
  <2>3. QED
    BY <1>1, <2>1, <2>2 DEF JobsOf
<1>2. ASSUME IInv, NEW s \in Spellings, user[s] # "none"
      PROVE  \E j \in JobsOf(s) : at[j] # "none"
  BY <1>2 DEF IInv, JobInv, ProfileInv, JobsOf
<1>3. IInv => EveryMemberHasAProfile
  BY <1>1, <1>2 DEF EveryMemberHasAProfile, JobsOf, Jobs
<1>4. QED
  BY <1>3, Invariance, PTL

=============================================================================
