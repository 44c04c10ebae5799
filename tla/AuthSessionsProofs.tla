------------------------- MODULE AuthSessionsProofs -------------------------
(***************************************************************************)
(* The properties of AuthSessions for every number of requests, devices,   *)
(* faults and erasures.                                                    *)
(***************************************************************************)
EXTENDS AuthSessions, TLAPS

-----------------------------------------------------------------------------
(* The inductive invariant.                                                *)

\* A row carries the jti of a request that issues for its device and has written.
RowsAreOwn ==
  \A d \in Devices : session[d].jti \in Requests =>
    LET j == session[d].jti IN
      /\ req[j].dev = d
      /\ req[j].pc \in {"announce", "returned", "failed"}

\* A logout ends the pair of a request that has returned, first the session and
\* then the access token.
LogoutInv ==
  \A r, j \in Requests : req[r].kind = "logout" /\ req[r].from = j =>
    /\ Holds(j)
    /\ req[r].pc \in {"blacklist", "announce", "returned"} => ~Valid(j)
    /\ req[r].pc \in {"announce", "returned"} => ~Accepted(j)

\* The access token of a request exists once it has returned.
AccessInv == \A r \in Requests : Holds(r) => access[r] # "none"

IInv == TypeOK /\ RowsAreOwn /\ LogoutInv /\ AccessInv

-----------------------------------------------------------------------------
(* Lemmas.                                                                 *)

LEMMA InitInv == Init => IInv
<1> SUFFICES ASSUME Init PROVE IInv
  OBVIOUS
<1>1. TypeOK
  BY BoundsAssumption DEF Init, TypeOK, Row, Request
<1>2. RowsAreOwn /\ LogoutInv /\ AccessInv
  BY NoneAssumption DEF Init, RowsAreOwn, LogoutInv, AccessInv, Holds
<1>3. QED
  BY <1>1, <1>2 DEF IInv

\* Where a request may be.
LEMMA RequestIs ==
  ASSUME TypeOK, NEW r \in Requests
  PROVE  /\ req[r].pc \in Issuing \cup {"idle", "revoke", "blacklist"}
         /\ req[r].kind \in {"signIn", "refresh"} => req[r].dev \in Devices
         /\ req[r].kind \in {"refresh", "logout"} => req[r].from \in Requests
         /\ req[r].kind = "none" <=> req[r].pc = "idle"
         /\ req[r].pc \in {"find", "update", "create"} => req[r].kind \in {"signIn", "refresh"}
         /\ req[r].pc = "revoke" => req[r].kind \in {"refresh", "logout"}
         /\ req[r].pc = "blacklist" => req[r].kind = "logout"
         /\ req[r].pc \in {"announce", "returned"} => req[r].kind \in {"signIn", "refresh", "logout"}
<1>1. req[r] \in Request
  BY DEF TypeOK
<1>2. QED
  BY <1>1 DEF Request, Issuing

LEMMA BeginType ==
  ASSUME TypeOK, NEW r \in Requests, Step(r)
  PROVE  req' \in [Requests -> Request]
<1>0. req \in [Requests -> Request] /\ req[r] \in Request
  BY DEF TypeOK
<1>1. CASE SignIn(r)
  BY <1>0, <1>1 DEF SignIn, Begin, Request, Issuing
<1>2. CASE Refresh(r)
  BY <1>0, <1>2 DEF Refresh, Begin, Request, Issuing
<1>3. CASE Logout(r)
  BY <1>0, <1>3 DEF Logout, Begin, Request
<1>4. CASE Revoke(r)
  BY <1>0, <1>4 DEF Revoke, Goto, Request, Issuing
<1>5. CASE Blacklist(r)
  BY <1>0, <1>5 DEF Blacklist, Goto, Request, Issuing
<1>6. CASE FindByDevice(r)
  BY <1>0, <1>6 DEF FindByDevice, Goto, Request, Issuing
<1>7. CASE Update(r)
  BY <1>0, <1>7 DEF Update, Goto, Request, Issuing
<1>8. CASE Create(r)
  BY <1>0, <1>8 DEF Create, Goto, Request, Issuing
<1>9. CASE Announce(r)
  BY <1>0, <1>9 DEF Announce, Goto, Request, Issuing
<1>10. CASE Fail(r)
  BY <1>0, <1>10 DEF Fail, Goto, Request, Issuing
<1>11. QED
  BY <1>1, <1>2, <1>3, <1>4, <1>5, <1>6, <1>7, <1>8, <1>9, <1>10 DEF Step

LEMMA RevokedType ==
  ASSUME TypeOK, NEW J
  PROVE  /\ Revoked(J) \in [Devices -> Row]
         /\ \A d \in Devices :
              /\ Revoked(J)[d].jti = session[d].jti
              /\ session[d].revoked => Revoked(J)[d].revoked
              /\ session[d].jti \in J => Revoked(J)[d].revoked
              /\ session[d].jti \notin J => Revoked(J)[d] = session[d]
BY DEF TypeOK, Row, Revoked

\* How a step of a request moves it.
LEMMA StepMoves ==
  ASSUME TypeOK, NEW r \in Requests, Step(r)
  PROVE  /\ \A s \in Requests : s # r => req'[s] = req[s]
         /\ req'[r].pc # req[r].pc
         /\ req[r].pc \notin {"returned", "failed"}
         /\ req[r].pc = "idle" \/ (req'[r].kind = req[r].kind /\ req'[r].dev = req[r].dev /\ req'[r].from = req[r].from)
<1>0. req \in [Requests -> Request]
  BY DEF TypeOK
<1>1. CASE SignIn(r) \/ Refresh(r) \/ Logout(r)
  BY <1>0, <1>1 DEF SignIn, Refresh, Logout, Begin
<1>2. ASSUME NEW pc, Goto(r, pc), pc # req[r].pc, req[r].pc \notin {"idle", "returned", "failed"}
      PROVE  /\ \A s \in Requests : s # r => req'[s] = req[s]
             /\ req'[r].pc # req[r].pc
             /\ req'[r].kind = req[r].kind /\ req'[r].dev = req[r].dev /\ req'[r].from = req[r].from
  <2>1. req[r] \in Request
    BY <1>0
  <2>2. req' = [req EXCEPT ![r] = [req[r] EXCEPT !.pc = pc]]
    BY <1>2 DEF Goto
  <2>3. [req[r] EXCEPT !.pc = pc].pc = pc
    BY <2>1 DEF Request
  <2>4. QED
    BY <1>0, <1>2, <2>1, <2>2, <2>3 DEF Request
<1>3. CASE \/ Revoke(r) \/ Blacklist(r) \/ FindByDevice(r) \/ Update(r) \/ Create(r)
            \/ Announce(r) \/ Fail(r)
  <2>1. PICK pc : Goto(r, pc) /\ pc # req[r].pc
    BY <1>3 DEF Revoke, Blacklist, FindByDevice, Update, Create, Announce, Fail
  <2>2. req[r].pc \notin {"idle", "returned", "failed"}
    BY <1>3 DEF Revoke, Blacklist, FindByDevice, Update, Create, Announce, Fail
  <2>3. QED
    BY <1>2, <2>1, <2>2
<1>4. QED
  BY <1>1, <1>2, <1>3 DEF Step

LEMMA UpdateMoves ==
  ASSUME TypeOK, NEW r \in Requests, NEW pc, Goto(r, pc)
  PROVE  req'[r].pc = pc /\ req'[r].kind = req[r].kind
<1>1. req \in [Requests -> Request] /\ req[r] \in Request
  BY DEF TypeOK
<1>2. req'[r] = [req[r] EXCEPT !.pc = pc]
  BY <1>1 DEF Goto
<1>3. QED
  BY <1>1, <1>2 DEF Request

LEMMA WrittenRow ==
  ASSUME TypeOK, NEW r \in Requests, NEW d \in Devices
  PROVE  [session EXCEPT ![d] = [jti |-> r, revoked |-> FALSE]] \in [Devices -> Row]
BY DEF TypeOK, Row

\* What a step of a request does to the rows: it writes its own device's row with
\* its own jti, or revokes the row of the token it names.
LEMMA StepRows ==
  ASSUME TypeOK, NEW r \in Requests, Step(r)
  PROVE  /\ session' \in [Devices -> Row]
         /\ lapsed' = lapsed
         /\ \/ session' = session
            \/ /\ req[r].pc = "revoke"
               /\ session' = Revoked({req[r].from})
            \/ /\ req[r].pc \in {"update", "create"}
               /\ req'[r].pc = "announce"
               /\ session' = [session EXCEPT ![req[r].dev] = [jti |-> r, revoked |-> FALSE]]
<1>0. session \in [Devices -> Row] /\ req \in [Requests -> Request]
  BY DEF TypeOK
<1>1. CASE SignIn(r) \/ Refresh(r) \/ Logout(r)
  BY <1>0, <1>1 DEF SignIn, Refresh, Logout, rows
<1>2. CASE Revoke(r)
  BY <1>0, <1>2, RevokedType DEF Revoke
<1>3. CASE Blacklist(r) \/ FindByDevice(r) \/ Announce(r) \/ Fail(r)
  BY <1>0, <1>3 DEF Blacklist, FindByDevice, Announce, Fail, rows
<1>4. CASE Update(r)
  BY <1>0, <1>4, RequestIs, UpdateMoves, WrittenRow DEF Update
<1>5. CASE Create(r)
  BY <1>0, <1>5, RequestIs, UpdateMoves, WrittenRow DEF Create
<1>6. QED
  BY <1>1, <1>2, <1>3, <1>4, <1>5 DEF Step

\* What it does to the tokens.
LEMMA StepTokens ==
  ASSUME TypeOK, NEW r \in Requests, Step(r)
  PROVE  /\ \/ access' = access
            \/ req[r].pc = "announce" /\ req[r].kind # "logout" /\ access' = [access EXCEPT ![r] = "valid"]
         /\ req[r].pc = "announce" /\ req'[r].pc = "returned" /\ req[r].kind # "logout" => access'[r] = "valid"
         /\ blacklist \subseteq blacklist' /\ blacklist' \subseteq Requests
         /\ req[r].pc = "blacklist" /\ req'[r].pc = "announce" /\ access[req[r].from] = "valid"
              => req[r].from \in blacklist'
         /\ faults' \in 0 .. MaxFaults /\ erasures' = erasures
         /\ req'[r].pc = "returned" => req[r].pc = "announce"
         /\ req'[r].pc = "announce" => req[r].pc \in {"update", "create", "blacklist"}
         /\ req'[r].pc = "blacklist" => req[r].pc = "revoke" /\ session' = Revoked({req[r].from})
         /\ req'[r].kind = "logout" /\ req[r].pc = "idle" => req'[r].pc = "revoke" /\ Holds(req'[r].from) /\ req'[r].from \in Requests
<1>0. /\ access \in [Requests -> {"none", "valid", "expired"}] /\ req \in [Requests -> Request]
      /\ faults \in 0 .. MaxFaults /\ blacklist \subseteq Requests /\ MaxFaults \in Nat
  BY BoundsAssumption DEF TypeOK
<1>1. CASE SignIn(r) \/ Refresh(r) \/ Logout(r)
  BY <1>0, <1>1 DEF SignIn, Refresh, Logout, Begin, rows, counts
<1>2. CASE Revoke(r)
  BY <1>0, <1>2 DEF Revoke, Goto, counts
<1>3. CASE Blacklist(r)
  <2>1. req[r].from \in Requests
    BY <1>3, RequestIs DEF Blacklist
  <2>2. QED
    BY <1>0, <1>3, <2>1 DEF Blacklist, Goto, counts
<1>4. CASE FindByDevice(r)
  BY <1>0, <1>4 DEF FindByDevice, Goto, rows, counts
<1>5. CASE Update(r) \/ Create(r)
  <2>1. req[r].pc \in {"update", "create"} /\ req[r].kind # "logout" /\ (Goto(r, "announce") \/ Goto(r, "failed"))
    BY <1>5, RequestIs DEF Update, Create
  <2>2. req'[r].pc \in {"announce", "failed"} /\ req'[r].kind = req[r].kind
    BY <2>1, UpdateMoves
  <2>3. access' = access /\ blacklist' = blacklist /\ UNCHANGED counts
    BY <1>5 DEF Update, Create
  <2>4. QED
    BY <1>0, <2>1, <2>2, <2>3 DEF counts
<1>6. CASE Announce(r)
  BY <1>0, <1>6 DEF Announce, Goto, counts
<1>7. CASE Fail(r)
  BY <1>0, <1>7 DEF Fail, Goto, rows
<1>8. QED
  BY <1>1, <1>2, <1>3, <1>4, <1>5, <1>6, <1>7 DEF Step

\* A token that validation refuses is not written again once its request has written.
LEMMA RefusedForGood ==
  ASSUME TypeOK, [Next]_vars, NEW j \in Requests, Written(j), ~Valid(j)
  PROVE  ~Valid(j)'
<1>1. CASE \E r \in Requests : Step(r)
  <2>1. PICK r \in Requests : Step(r)
    BY <1>1
  <2>2. CASE session' = session
    BY <2>1, <2>2, StepRows DEF Valid
  <2>3. CASE session' = Revoked({req[r].from})
    BY <2>1, <2>3, StepRows, RevokedType DEF Valid, TypeOK
  <2>4. CASE /\ req[r].pc \in {"update", "create"}
             /\ session' = [session EXCEPT ![req[r].dev] = [jti |-> r, revoked |-> FALSE]]
    <3>1. r # j
      BY <2>4 DEF Written
    <3>2. session \in [Devices -> Row]
      BY DEF TypeOK
    <3>3. \A d \in Devices : session'[d].jti = j => session'[d] = session[d]
      BY <2>4, <3>1, <3>2
    <3>4. QED
      BY <3>3, <2>1, StepRows DEF Valid
  <2>5. QED
    BY <2>1, <2>2, <2>3, <2>4, StepRows
<1>2. CASE \E r \in Requests : AccessExpires(r) \/ Evict(r)
  BY <1>2 DEF AccessExpires, Evict, Valid
<1>3. CASE \E r \in Requests : RefreshExpires(r)
  BY <1>3 DEF RefreshExpires, Valid
<1>4. CASE Erase
  BY <1>4, RevokedType DEF Erase, Valid
<1>5. CASE UNCHANGED vars
  BY <1>5 DEF vars, rows, Valid
<1>6. QED
  BY <1>1, <1>2, <1>3, <1>4, <1>5 DEF Next

-----------------------------------------------------------------------------
(* The steps keep the invariant.                                           *)

LEMMA StepInv ==
  ASSUME IInv, NEW r \in Requests, Step(r)
  PROVE  IInv'
<1>0. TypeOK /\ [Next]_vars
  BY DEF IInv, Next
<1>1. TypeOK'
  <2>1. access' \in [Requests -> {"none", "valid", "expired"}]
    BY <1>0, StepTokens DEF TypeOK
  <2>2. QED
    BY <1>0, <2>1, BeginType, StepRows, StepTokens DEF TypeOK
<1>2. \A s \in Requests : Holds(s) => Holds(s)' /\ Written(s)
  BY <1>0, StepMoves DEF Holds, Written
<1>3. RowsAreOwn'
  <2> SUFFICES ASSUME NEW d \in Devices, session'[d].jti \in Requests
               PROVE  LET j == session'[d].jti IN
                        req'[j].dev = d /\ req'[j].pc \in {"announce", "returned", "failed"}
    BY DEF RowsAreOwn
  <2>1. CASE session'[d].jti = session[d].jti
    <3>1. req[session[d].jti].pc \in {"announce", "returned", "failed"} /\ req[session[d].jti].dev = d
      BY <2>1 DEF IInv, RowsAreOwn
    <3>2. req[session[d].jti].kind # "none"
      BY <2>1, <3>1, <1>0, RequestIs
    <3>3. req'[session[d].jti].pc \in {"announce", "returned", "failed"}
      <4>1. CASE session[d].jti = r
        <5>1. req[r].pc = "announce"
          BY <4>1, <3>1, <1>0, StepMoves
        <5>2. Announce(r) \/ Fail(r)
          BY <5>1 DEF Step, SignIn, Refresh, Logout, Begin, Revoke, Blacklist, FindByDevice, Update, Create
        <5>3. QED
          BY <5>2, <4>1, <1>0, <2>1, UpdateMoves DEF Announce, Fail
      <4>2. QED
        BY <4>1, <2>1, <3>1, <1>0, StepMoves
    <3>4. QED
      BY <2>1, <3>1, <3>3, <1>0, StepMoves
  <2>2. CASE session'[d].jti # session[d].jti
    <3>1. /\ req[r].pc \in {"update", "create"} /\ req'[r].pc = "announce"
          /\ session' = [session EXCEPT ![req[r].dev] = [jti |-> r, revoked |-> FALSE]]
      <4>1. session' # session /\ session' # Revoked({req[r].from})
        BY <2>2, <1>0, RevokedType
      <4>2. QED
        BY <4>1, <1>0, StepRows
    <3>2. d = req[r].dev /\ session'[d].jti = r
      BY <3>1, <2>2, <1>0 DEF TypeOK
    <3>3. req'[r].dev = req[r].dev
      BY <3>1, <1>0, StepMoves
    <3>4. QED
      BY <3>1, <3>2, <3>3
  <2>3. QED
    BY <2>1, <2>2
<1>4. AccessInv'
  <2> SUFFICES ASSUME NEW s \in Requests, Holds(s)' PROVE access'[s] # "none"
    BY DEF AccessInv
  <2>1. CASE Holds(s)
    BY <2>1, <1>0, StepTokens DEF IInv, AccessInv, TypeOK
  <2>2. CASE ~Holds(s)
    <3>1. s = r
      BY <2>2, <1>0, StepMoves DEF Holds
    <3>2. req[r].pc = "announce" /\ req[r].kind # "logout"
      BY <3>1, <1>0, StepTokens, StepMoves DEF Holds
    <3>3. QED
      BY <3>1, <3>2, <1>0, StepTokens DEF Holds
  <2>3. QED
    BY <2>1, <2>2
<1>5. LogoutInv'
  <2> SUFFICES ASSUME NEW s \in Requests, NEW j \in Requests,
                      req'[s].kind = "logout", req'[s].from = j
               PROVE  /\ Holds(j)'
                      /\ req'[s].pc \in {"blacklist", "announce", "returned"} => ~Valid(j)'
                      /\ req'[s].pc \in {"announce", "returned"} => ~Accepted(j)'
    BY DEF LogoutInv
  <2>1. CASE s = r /\ req[r].pc = "idle"
    <3>1. req'[r].pc = "revoke" /\ Holds(j)
      BY <2>1, <1>0, StepTokens
    <3>2. QED
      BY <3>1, <2>1, <1>2
  <2>2. CASE s # r \/ req[r].pc # "idle"
    <3>1. req[s].kind = "logout" /\ req[s].from = j
      BY <2>2, <1>0, StepMoves
    <3>2. Holds(j) /\ Written(j) /\ Holds(j)'
      BY <3>1, <1>2 DEF IInv, LogoutInv
    <3>3. ~Valid(j) => ~Valid(j)'
      BY <3>2, <1>0, RefusedForGood
    <3>4. access'[j] = access[j]
      BY <3>2, <1>0, StepTokens DEF Holds, TypeOK
    <3>5. ~Accepted(j) => ~Accepted(j)'
      BY <3>4, <1>0, StepTokens DEF Accepted
    <3>6. CASE s # r
      <4>1. req'[s] = req[s]
        BY <3>6, <1>0, StepMoves
      <4>2. QED
        BY <4>1, <3>1, <3>2, <3>3, <3>5 DEF IInv, LogoutInv
    <3>7. CASE s = r
      <4>1. req'[r].pc = "blacklist" => ~Valid(j)'
        <5> SUFFICES ASSUME req'[r].pc = "blacklist" PROVE ~Valid(j)'
          OBVIOUS
        <5>1. session' = Revoked({j})
          BY <3>1, <3>7, <1>0, StepTokens
        <5>2. \A d \in Devices : session'[d].jti = j => session'[d].revoked
          BY <5>1, <1>0, RevokedType
        <5>3. QED
          BY <5>2 DEF Valid
      <4>2. req'[r].pc \in {"announce", "returned"} => req[r].pc \in {"blacklist", "announce"}
        BY <3>1, <3>7, <1>0, StepTokens, RequestIs
      <4>3. req'[r].pc \in {"announce", "returned"} => ~Valid(j)'
        BY <4>2, <3>7, <3>1, <3>3 DEF IInv, LogoutInv
      <4>4. req[r].pc = "blacklist" /\ req'[r].pc = "announce" => ~Accepted(j)'
        BY <3>1, <3>4, <3>7, <1>0, StepTokens DEF Accepted
      <4>5. req'[r].pc = "returned" => ~Accepted(j)'
        BY <3>1, <3>5, <3>7, <1>0, StepTokens DEF IInv, LogoutInv
      <4>6. req'[r].pc = "announce" => ~Accepted(j)'
        BY <3>1, <3>7, <4>4, <1>0, StepTokens, RequestIs
      <4>7. QED
        BY <3>2, <3>7, <4>1, <4>3, <4>5, <4>6
    <3>8. QED
      BY <3>6, <3>7
  <2>3. QED
    BY <2>1, <2>2
<1>6. QED
  BY <1>1, <1>3, <1>4, <1>5 DEF IInv

LEMMA NextInv ==
  ASSUME IInv, [Next]_vars
  PROVE  IInv'
<1>0. TypeOK
  BY DEF IInv
<1>1. CASE \E r \in Requests : Step(r)
  BY <1>1, StepInv
<1>2. ASSUME NEW j \in Requests, AccessExpires(j) \/ RefreshExpires(j) \/ Evict(j)
      PROVE  IInv'
  <2>1. session' = session /\ req' = req /\ UNCHANGED counts
    BY <1>2 DEF AccessExpires, RefreshExpires, Evict
  <2>2. TypeOK'
    BY <1>0, <1>2, <2>1 DEF TypeOK, AccessExpires, RefreshExpires, Evict, counts
  <2>3. \A s \in Requests : ~Valid(s) => ~Valid(s)'
    BY <1>2, <2>1 DEF Valid, AccessExpires, RefreshExpires, Evict
  <2>4. \A s \in Requests : ~Accepted(s) => ~Accepted(s)'
    BY <1>0, <1>2 DEF Accepted, TypeOK, AccessExpires, RefreshExpires, Evict
  <2>5. \A s \in Requests : access[s] # "none" => access'[s] # "none"
    BY <1>0, <1>2 DEF TypeOK, AccessExpires, RefreshExpires, Evict
  <2>6. RowsAreOwn' /\ AccessInv'
    BY <2>1, <2>5 DEF IInv, RowsAreOwn, AccessInv, Holds
  <2>7. LogoutInv'
    BY <2>1, <2>3, <2>4 DEF IInv, LogoutInv, Holds
  <2>8. QED
    BY <2>2, <2>6, <2>7 DEF IInv
<1>3. CASE Erase
  <2>1. TypeOK'
    BY <1>0, <1>3, RevokedType, BoundsAssumption DEF TypeOK, Erase
  <2>2. RowsAreOwn' /\ AccessInv'
    BY <1>0, <1>3, RevokedType DEF IInv, RowsAreOwn, AccessInv, Holds, Erase
  <2>3. \A s \in Requests : ~Valid(s) => ~Valid(s)'
    BY <1>0, <1>3, RevokedType DEF Valid, Erase
  <2>4. LogoutInv'
    BY <1>3, <2>3 DEF IInv, LogoutInv, Holds, Accepted, Erase
  <2>5. QED
    BY <2>1, <2>2, <2>4 DEF IInv
<1>4. CASE UNCHANGED vars
  BY <1>4 DEF vars, rows, counts, IInv, TypeOK, RowsAreOwn, LogoutInv, AccessInv, Holds, Valid, Accepted
<1>5. QED
  BY <1>1, <1>2, <1>3, <1>4 DEF Next

\* A session ends by its expiry, an erasure, or a request of its own.
LEMMA EndedBy ==
  ASSUME IInv, [Next]_vars, NEW j \in Requests, Valid(j), ~Valid(j)'
  PROVE  \/ j \in lapsed'
         \/ erasures' # erasures
         \/ \E r \in Requests : req'[r] # req[r] /\ (req[r].from = j \/ req[r].dev = req[j].dev)
<1>0. TypeOK
  BY DEF IInv
<1>1. CASE \E r \in Requests : Step(r)
  <2>1. PICK r \in Requests : Step(r)
    BY <1>1
  <2>2. req'[r] # req[r]
    BY <1>0, <2>1, StepMoves
  <2>3. PICK d \in Devices : session[d].jti = j /\ ~session[d].revoked
    BY DEF Valid
  <2>4. session'[d] # session[d]
    BY <2>1, <2>3, <1>0, StepRows DEF Valid
  <2>5. req[j].dev = d
    BY <2>3 DEF IInv, RowsAreOwn
  <2>6. CASE session' = Revoked({req[r].from})
    BY <1>0, <2>2, <2>3, <2>4, <2>6, RevokedType
  <2>7. CASE session' = [session EXCEPT ![req[r].dev] = [jti |-> r, revoked |-> FALSE]]
    BY <1>0, <2>2, <2>4, <2>5, <2>7 DEF TypeOK
  <2>8. QED
    BY <2>1, <2>4, <2>6, <2>7, <1>0, StepRows
<1>2. CASE \E r \in Requests : AccessExpires(r) \/ Evict(r)
  BY <1>2 DEF AccessExpires, Evict, Valid
<1>3. CASE \E r \in Requests : RefreshExpires(r)
  BY <1>3 DEF RefreshExpires, Valid
<1>4. CASE Erase
  BY <1>0, <1>4, BoundsAssumption DEF Erase, TypeOK
<1>5. CASE UNCHANGED vars
  BY <1>5 DEF vars, rows, Valid
<1>6. QED
  BY <1>1, <1>2, <1>3, <1>4, <1>5 DEF Next

-----------------------------------------------------------------------------
(* The theorems.                                                           *)

\* The inductive invariant holds of every behaviour of the sessions.
THEOREM Invariance == Spec => []IInv
BY InitInv, NextInv, PTL DEF Spec

\* Sessions, tokens and requests keep their types: a logout issues nothing.
THEOREM TypeCorrect == Spec => []TypeOK
<1>1. IInv => TypeOK
  BY DEF IInv
<1>2. QED
  BY <1>1, Invariance, PTL

\* After a logout neither the access token nor the refresh token is accepted.
THEOREM LogoutTheorem == Spec => []LoggedOutIsRejected
<1>1. IInv => LoggedOutIsRejected
  BY RequestIs DEF IInv, LogoutInv, LoggedOutIsRejected
<1>2. QED
  BY <1>1, Invariance, PTL

\* A refresh token that validation refuses is refused for ever.
THEOREM SpentTheorem == Spec => SpentStaysSpent
<1>1. IInv /\ [Next]_vars =>
        [\A j \in Requests : Written(j) /\ ~Valid(j) => ~Valid(j)']_vars
  BY RefusedForGood DEF IInv
<1>2. QED
  BY <1>1, Invariance, PTL DEF Spec, SpentStaysSpent

\* Only its own requests, its expiry or an erasure end a session.
THEOREM OwnTheorem == Spec => EndedOnlyByItsOwn
<1>1. IInv /\ [Next]_vars =>
        [\A j \in Requests : Valid(j) /\ ~Valid(j)' =>
           \/ j \in lapsed'
           \/ erasures' # erasures
           \/ \E r \in Requests : req'[r] # req[r] /\ (req[r].from = j \/ req[r].dev = req[j].dev)]_vars
  BY EndedBy
<1>2. QED
  BY <1>1, Invariance, PTL DEF Spec, EndedOnlyByItsOwn

=============================================================================
