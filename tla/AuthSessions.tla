---------------------------- MODULE AuthSessions ----------------------------
(***************************************************************************)
(* The sessions of one user: sign-in (login, register, claim), refresh,    *)
(* logout and the erasure handler, as requests that interleave on the rows *)
(* of user_sessions, of which there is one per device, and on the          *)
(* blacklist of access tokens.  A request mints at most one token pair, so *)
(* the request stands for the jti of the pair.                             *)
(*                                                                         *)
(* The checks of one row and the write that follows are separate database  *)
(* calls without a transaction.  Nothing in the program changes the status *)
(* of a user or deletes a session row, so the user stays ACTIVE and rows   *)
(* stay once created.                                                      *)
(***************************************************************************)
EXTENDS Naturals

CONSTANTS
  Requests,      \* the requests of the user, and the jti of the pairs they mint
  Devices,       \* the device ids
  None,          \* no row, no token, no device
  MaxFaults,     \* bound on failed calls and lost replies
  MaxErasures    \* bound on deliveries of the erasure event

ASSUME NoneAssumption == None \notin Requests /\ None \notin Devices
ASSUME BoundsAssumption == MaxFaults \in Nat /\ MaxErasures \in Nat

VARIABLES
  session,    \* session[d]: the row of device d
  access,     \* access[r]: the access token of the pair r, once its client has it
  lapsed,     \* refresh tokens past their expiry
  blacklist,  \* access tokens in the Redis blacklist
  req,        \* req[r]: the request r
  faults, erasures

rows == <<session, access, lapsed, blacklist>>
counts == <<faults, erasures>>
vars == <<rows, req, counts>>

-----------------------------------------------------------------------------
Row == [jti : Requests \cup {None}, revoked : BOOLEAN]

\* The places of a request that issues a pair, and what else a request does first.
Issuing == {"find", "update", "create", "announce", "returned", "failed"}

\* A sign-in issues a pair, a refresh revokes the old one before, and a logout
\* only revokes and blacklists.
Request ==
  [kind : {"none"}, pc : {"idle"}, dev : {None}, from : {None}]
  \cup [kind : {"signIn"}, pc : Issuing, dev : Devices, from : {None}]
  \cup [kind : {"refresh"}, pc : Issuing \cup {"revoke"}, dev : Devices, from : Requests]
  \cup [kind : {"logout"}, pc : {"revoke", "blacklist", "announce", "returned", "failed"},
        dev : {None}, from : Requests]

Init ==
  /\ session = [d \in Devices |-> [jti |-> None, revoked |-> FALSE]]
  /\ access = [r \in Requests |-> "none"]
  /\ lapsed = {}
  /\ blacklist = {}
  /\ req = [r \in Requests |-> [kind |-> "none", pc |-> "idle", dev |-> None, from |-> None]]
  /\ faults = 0
  /\ erasures = 0

\* RefreshTokenStrategy.validate: the row that carries the jti is not revoked,
\* and neither it nor the token, which have one lifetime, has expired.
Valid(j) ==
  /\ j \notin lapsed
  /\ \E d \in Devices : session[d].jti = j /\ ~session[d].revoked

\* JwtAccessStrategy.validate: a live access token that is not blacklisted.
Accepted(j) == access[j] = "valid" /\ j \notin blacklist

\* The client of r has received its pair.
Holds(r) == req[r].pc = "returned" /\ req[r].kind \in {"signIn", "refresh"}

Begin(r, kind, pc, d, j) ==
  /\ req[r].pc = "idle"
  /\ req' = [req EXCEPT ![r] = [kind |-> kind, pc |-> pc, dev |-> d, from |-> j]]

Goto(r, pc) == req' = [req EXCEPT ![r].pc = pc]

-----------------------------------------------------------------------------
(* The requests.                                                           *)

\* The password is right and the user ACTIVE, or the account was just created.
SignIn(r) ==
  /\ \E d \in Devices : Begin(r, "signIn", "find", d, None)
  /\ UNCHANGED <<rows, counts>>

\* The guard of refresh.  The device is the one the request names, whichever
\* device the token was issued to.
Refresh(r) ==
  /\ \E j \in Requests, d \in Devices :
       Holds(j) /\ Valid(j) /\ Begin(r, "refresh", "revoke", d, j)
  /\ UNCHANGED <<rows, counts>>

Logout(r) ==
  /\ \E j \in Requests : Holds(j) /\ Accepted(j) /\ Begin(r, "logout", "revoke", None, j)
  /\ UNCHANGED <<rows, counts>>

\* Rows with a jti of J, now revoked.
Revoked(J) ==
  [d \in Devices |->
    IF session[d].jti \in J THEN [session[d] EXCEPT !.revoked = TRUE] ELSE session[d]]

\* Fault: every session of the user is revoked, not the one that ends.
RevokeEach(r) ==
  /\ req[r].pc = "revoke"
  /\ session' = Revoked(Requests)
  /\ Goto(r, IF req[r].kind = "refresh" THEN "find" ELSE "blacklist")
  /\ UNCHANGED <<access, lapsed, blacklist, counts>>

\* revokeSessionByJti: nothing happens to a row that has another jti by now.
Revoke(r) ==
  /\ req[r].pc = "revoke"
  /\ session' = Revoked({req[r].from})
  /\ Goto(r, IF req[r].kind = "refresh" THEN "find" ELSE "blacklist")
  /\ UNCHANGED <<access, lapsed, blacklist, counts>>

\* Logout blacklists the access token unless it has no lifetime left.
Blacklist(r) ==
  /\ req[r].pc = "blacklist"
  /\ blacklist' = IF access[req[r].from] = "valid" THEN blacklist \cup {req[r].from} ELSE blacklist
  /\ Goto(r, "announce")
  /\ UNCHANGED <<session, access, lapsed, counts>>

\* SessionIssuerService.issue reads the row of the device.
FindByDevice(r) ==
  /\ req[r].pc = "find"
  /\ Goto(r, IF session[req[r].dev].jti = None THEN "create" ELSE "update")
  /\ UNCHANGED <<rows, counts>>

\* Fault: the row keeps the jti of the token that was rotated.
UpdateKeepsJti(r) ==
  /\ req[r].pc = "update"
  /\ session' = [session EXCEPT ![req[r].dev].revoked = FALSE]
  /\ Goto(r, "announce")
  /\ UNCHANGED <<access, lapsed, blacklist, counts>>

\* The row it has read gets the new jti, whatever has become of it since.
Update(r) ==
  /\ req[r].pc = "update"
  /\ session' = [session EXCEPT ![req[r].dev] = [jti |-> r, revoked |-> FALSE]]
  /\ Goto(r, "announce")
  /\ UNCHANGED <<access, lapsed, blacklist, counts>>

\* A row created in the meantime violates the unique key (userId, deviceId).
Create(r) ==
  /\ req[r].pc = "create"
  /\ \/ /\ session[req[r].dev].jti = None
        /\ session' = [session EXCEPT ![req[r].dev] = [jti |-> r, revoked |-> FALSE]]
        /\ Goto(r, "announce")
     \/ /\ session[req[r].dev].jti # None
        /\ Goto(r, "failed")
        /\ UNCHANGED session
  /\ UNCHANGED <<access, lapsed, blacklist, counts>>

\* The fact is published and the client answered.
Announce(r) ==
  /\ req[r].pc = "announce"
  /\ access' = IF req[r].kind = "logout" THEN access ELSE [access EXCEPT ![r] = "valid"]
  /\ Goto(r, "returned")
  /\ UNCHANGED <<session, lapsed, blacklist, counts>>

\* A call of the request fails, or its answer is lost: what it has written stays.
Fail(r) ==
  /\ req[r].pc \notin {"idle", "returned", "failed"}
  /\ faults < MaxFaults
  /\ faults' = faults + 1
  /\ Goto(r, "failed")
  /\ UNCHANGED <<rows, erasures>>

-----------------------------------------------------------------------------
(* The erasure handler and time.                                           *)

\* revokeAllForUser; the event may be delivered more than once.
Erase ==
  /\ erasures < MaxErasures
  /\ erasures' = erasures + 1
  /\ session' = Revoked(Requests)
  /\ UNCHANGED <<access, lapsed, blacklist, req, faults>>

AccessExpires(j) ==
  /\ access[j] = "valid"
  /\ access' = [access EXCEPT ![j] = "expired"]
  /\ UNCHANGED <<session, lapsed, blacklist, req, counts>>

RefreshExpires(j) ==
  /\ Holds(j)
  /\ lapsed' = lapsed \cup {j}
  /\ UNCHANGED <<session, access, blacklist, req, counts>>

\* Fault: the entry lives for less than the rest of the token's lifetime.
EvictEarly(j) ==
  /\ j \in blacklist
  /\ blacklist' = blacklist \ {j}
  /\ UNCHANGED <<session, access, lapsed, req, counts>>

\* Redis drops an entry after the lifetime the token had left, rounded up.
Evict(j) ==
  /\ j \in blacklist
  /\ access[j] = "expired"
  /\ blacklist' = blacklist \ {j}
  /\ UNCHANGED <<session, access, lapsed, req, counts>>

-----------------------------------------------------------------------------
Step(r) ==
  \/ SignIn(r) \/ Refresh(r) \/ Logout(r)
  \/ Revoke(r) \/ Blacklist(r) \/ FindByDevice(r) \/ Update(r) \/ Create(r) \/ Announce(r)
  \/ Fail(r)

Next ==
  \/ \E r \in Requests : Step(r) \/ AccessExpires(r) \/ RefreshExpires(r) \/ Evict(r)
  \/ Erase

Spec == Init /\ [][Next]_vars

-----------------------------------------------------------------------------
\* Type invariant.
TypeOK ==
  /\ session \in [Devices -> Row]
  /\ access \in [Requests -> {"none", "valid", "expired"}]
  /\ lapsed \subseteq Requests
  /\ blacklist \subseteq Requests
  /\ req \in [Requests -> Request]
  /\ faults \in 0 .. MaxFaults
  /\ erasures \in 0 .. MaxErasures

\* The pair of j is written: its row exists or has existed.
Written(j) == req[j].kind \in {"signIn", "refresh"} /\ req[j].pc \in {"announce", "returned"}

\* A refresh token that validation once refuses, because it was rotated, logged
\* out, erased or overtaken by another sign-in, is refused for ever.  A refresh
\* that passed validation before may still write a session of its own.
SpentStaysSpent ==
  [][\A j \in Requests : Written(j) /\ ~Valid(j) => ~Valid(j)']_vars

\* What ends a session: its expiry, the erasure, a refresh or logout with its own
\* token, or a sign-in or refresh for its own device.  No request for one device
\* ends the session of another.
EndedOnlyByItsOwn ==
  [][\A j \in Requests : Valid(j) /\ ~Valid(j)' =>
       \/ j \in lapsed'
       \/ erasures' # erasures
       \/ \E r \in Requests : req'[r] # req[r] /\ (req[r].from = j \/ req[r].dev = req[j].dev)]_vars

\* After a logout has returned, neither token of the pair is accepted again: the
\* blacklist entry outlives the access token.
LoggedOutIsRejected ==
  \A r \in Requests : req[r].kind = "logout" /\ req[r].pc = "returned" =>
    ~Accepted(req[r].from) /\ ~Valid(req[r].from)

=============================================================================
