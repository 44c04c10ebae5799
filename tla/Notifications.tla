---------------------------- MODULE Notifications ----------------------------
(***************************************************************************)
(* The NOTIFICATIONS_EVENTS queue: the handler of JobProcessor opened up   *)
(* into what NotificationDispatchService does with an event.  It visits    *)
(* the channels of the event one after the other, asks the settings of the *)
(* recipient, writes the records of the channel and hands the message to   *)
(* its transport.  A channel that throws is logged and left, the others go *)
(* on.                                                                     *)
(*                                                                         *)
(* All events are addressed to one recipient, in one category: recipients  *)
(* and categories share no state.  MongoDB, the providers and Redis are    *)
(* modelled as calls that may fail with or without effect.                 *)
(***************************************************************************)
EXTENDS JobProcessor

CONSTANTS
  Inputs,      \* what the handlers pass to dispatch()
  Phones,      \* the active push devices of the recipient
  MaxToggles,  \* bound: changes of a preference
  MaxFailures  \* bound: calls of a channel that fail

Channels == {"email", "inApp", "sms", "whatsapp", "push"}

ASSUME InputsAssumption == Inputs \subseteq [channels : SUBSET Channels, known : BOOLEAN]
ASSUME PhonesAssumption == Phones \intersect Channels = {}
ASSUME NoticeBoundsAssumption == MaxToggles \in Nat /\ MaxFailures \in Nat

VARIABLES
  input,     \* the DispatchInput made of an event
  optedOut,  \* Postgres: channels whose preference row says disabled
  forced,    \* Postgres: an active override of the category forces delivery
  at,        \* a run: the call dispatch() has reached
  chan,      \* a run: the channel it is visiting
  todo,      \* a run: the channels it will visit after that
  phones,    \* a run: the devices push has still to reach
  notes,     \* MongoDB: Notification rows of an event and an address
  trails,    \* MongoDB: NotificationDelivery rows, InAppNotification rows
  sends,     \* history: messages that left, Redis publishes
  on,        \* history: channels a run has found on at some moment
  off,       \* history: channels off at some moment of a dispatch
  failed,    \* history: <<event, channel>> in which a call has failed
  intruded,  \* history: <<event, channel>> used while off all the time
  toggles, failures  \* counters behind the bounds

settingVars == <<optedOut, forced, toggles>>
placeVars   == <<at, chan, todo, phones>>
recordVars  == <<notes, trails, sends, intruded>>
moodVars    == <<on, off>>
noticeVars  == <<input, settingVars, placeVars, recordVars, moodVars, failed, failures>>
allNoticeVars == <<vars, noticeVars>>

\* CONFIGURABLE_NOTIFICATION_CHANNELS: email is sent whatever the settings.
Configurable == Channels \ {"email"}

Addresses == (Channels \ {"push"}) \union Phones

AddressesOf(c) == IF c = "push" THEN Phones ELSE {c}

CallSteps == {"gate", "preference", "devices", "note", "trail", "send"}

NoticeInit ==
  /\ Init
  /\ input    \in [Events -> Inputs]
  /\ optedOut = {}
  /\ forced   \in BOOLEAN
  /\ at       = [r \in Runners |-> "idle"]
  /\ chan     = [r \in Runners |-> "none"]
  /\ todo     = [r \in Runners |-> {}]
  /\ phones   = [r \in Runners |-> {}]
  /\ notes    = [e \in Events |-> [a \in Addresses |-> 0]]
  /\ trails   = [e \in Events |-> [a \in Addresses |-> 0]]
  /\ sends    = [e \in Events |-> [a \in Addresses |-> 0]]
  /\ on       = [r \in Runners |-> {}]
  /\ off      = [e \in Events |-> {}]
  /\ failed   = {} /\ intruded = {}
  /\ toggles  = 0  /\ failures = 0

-----------------------------------------------------------------------------
(* Settings.                                                               *)

\* The matrix of the settings page: a locked category is reported as on, a
\* missing row as enabled.
ShownOn(out, force) == IF force THEN Configurable ELSE Configurable \ out

\* History: what the page would have shown at some moment of a dispatch.
Observe(begun) ==
  LET shown == ShownOn(optedOut', forced')
  IN /\ on'  = [r \in Runners |-> IF at[r] # "idle" \/ r \in begun
                                    THEN on[r] \union shown ELSE on[r]]
     /\ off' = [e \in Events |->
                  IF \E r \in Runners :
                       run[r][e] = "handle" /\ (at[r] # "idle" \/ r \in begun)
                    THEN off[e] \union (Configurable \ shown) ELSE off[e]]

\* UpdateMyNotificationPreferenceUseCase: the upsert of one cell; a channel that
\* is not configurable is refused.
SetPreference(c) ==
  /\ c \in Configurable
  /\ toggles < MaxToggles
  /\ toggles'  = toggles + 1
  /\ optedOut' = IF c \in optedOut THEN optedOut \ {c} ELSE optedOut \union {c}
  /\ UNCHANGED forced
  /\ Observe({})
  /\ UNCHANGED <<vars, input, placeVars, recordVars, failed, failures>>

\* expiresAt of the override passes; nothing in the repository creates one.
OverrideExpires ==
  /\ forced
  /\ forced' = FALSE
  /\ UNCHANGED <<optedOut, toggles>>
  /\ Observe({})
  /\ UNCHANGED <<vars, input, placeVars, recordVars, failed, failures>>

-----------------------------------------------------------------------------
(* The order of the channels, and where a visit begins.                    *)

Turn == [email |-> 1, inApp |-> 2, sms |-> 3, whatsapp |-> 4, push |-> 5]

First(S) == CHOOSE c \in S : \A d \in S : Turn[c] <= Turn[d]

\* canReachUser: without a userId only email and the in-app row are attempted.
Reachable(e) ==
  IF input[e].known THEN input[e].channels ELSE input[e].channels \intersect {"email", "inApp"}

\* Mutant: the in-app row is written without asking, as it is for a guest.
EntryUngated(e, c) == IF c \in {"email", "inApp"} THEN "note" ELSE "gate"

\* Preferences exist only for users, and never for email.
Entry(e, c) == IF c = "email" \/ ~input[e].known THEN "note" ELSE "gate"

\* The call a run makes next, within the channel.
Call(r, s) == at' = [at EXCEPT ![r] = s] /\ UNCHANGED <<chan, todo>>

\* The first channel of S, if any.
Visit(r, e, S) ==
  /\ at'   = [at   EXCEPT ![r] = IF S = {} THEN "finished" ELSE Entry(e, First(S))]
  /\ chan' = [chan EXCEPT ![r] = IF S = {} THEN "none" ELSE First(S)]
  /\ todo' = [todo EXCEPT ![r] = IF S = {} THEN {} ELSE S \ {First(S)}]

\* The channel is done with, one way or the other.
Leave(r, e) == Visit(r, e, todo[r]) /\ phones' = [phones EXCEPT ![r] = {}]

\* A row of records or a message to the address at hand.
Address(r) == IF chan[r] = "push" THEN CHOOSE p \in phones[r] : TRUE ELSE chan[r]

Bump(rows, r, e, s) ==
  IF at[r] = s THEN [rows EXCEPT ![e][Address(r)] = @ + 1] ELSE rows

\* Nobody had the channel on since the dispatch began.
Uninvited(r, e) == input[e].known /\ chan[r] \in Configurable /\ chan[r] \notin on[r]

\* The effect of the call a run is making.
Effect(r, e) ==
  /\ notes'  = Bump(notes,  r, e, "note")
  /\ trails' = Bump(trails, r, e, "trail")
  /\ sends'  = Bump(sends,  r, e, "send")
  /\ intruded' = IF at[r] = "note" /\ Uninvited(r, e)
                   THEN intruded \union {<<e, chan[r]>>} ELSE intruded

Calling(r, e, s) == run[r][e] = "handle" /\ at[r] = s

quietVars == <<vars, input, settingVars, moodVars>>
-----------------------------------------------------------------------------
(* dispatch(), call by call.                                               *)

StartDispatch(r, e) ==
  /\ Calling(r, e, "idle")
  /\ Visit(r, e, Reachable(e))
  /\ UNCHANGED <<phones, settingVars>>
  /\ Observe({r})
  /\ UNCHANGED <<vars, input, recordVars, failed, failures>>

Granted(r) == IF chan[r] = "push" THEN "devices" ELSE "note"

\* findActiveOverrides: a forced category skips the preference.
ReadOverride(r, e) ==
  /\ Calling(r, e, "gate")
  /\ Call(r, IF forced THEN Granted(r) ELSE "preference")
  /\ UNCHANGED <<quietVars, phones, recordVars, failed, failures>>

\* findPreference: an absent row means enabled.
ReadPreference(r, e) ==
  /\ Calling(r, e, "preference")
  /\ IF chan[r] \in optedOut THEN Leave(r, e)
     ELSE Call(r, Granted(r)) /\ UNCHANGED phones
  /\ UNCHANGED <<quietVars, recordVars, failed, failures>>

ListDevices(r, e) ==
  /\ Calling(r, e, "devices")
  /\ IF Phones = {} THEN Leave(r, e)
     ELSE Call(r, "note") /\ phones' = [phones EXCEPT ![r] = Phones]
  /\ UNCHANGED <<quietVars, recordVars, failed, failures>>

\* Mutant: a record is the Notification row only.
CreateNoteAlone(r, e) ==
  /\ Calling(r, e, "note")
  /\ Effect(r, e)
  /\ Call(r, "send")
  /\ UNCHANGED <<quietVars, phones, failed, failures>>

\* notifications.create
CreateNote(r, e) ==
  /\ Calling(r, e, "note")
  /\ Effect(r, e)
  /\ Call(r, "trail")
  /\ UNCHANGED <<quietVars, phones, failed, failures>>

\* deliveries.create, or the in-app row: a guest's is not announced.
CreateTrail(r, e) ==
  /\ Calling(r, e, "trail")
  /\ Effect(r, e)
  /\ IF chan[r] = "inApp" /\ ~input[e].known THEN Leave(r, e)
     ELSE Call(r, "send") /\ UNCHANGED phones
  /\ UNCHANGED <<quietVars, failed, failures>>

\* Push goes on with the next device, other channels are done.
AfterSend(r, e) ==
  LET rest == phones[r] \ {Address(r)}
  IN IF rest = {} THEN Leave(r, e)
     ELSE Call(r, "note") /\ phones' = [phones EXCEPT ![r] = rest]

Send(r, e) ==
  /\ Calling(r, e, "send")
  /\ Effect(r, e)
  /\ AfterSend(r, e)
  /\ UNCHANGED <<quietVars, failed, failures>>

Failure(r, e) ==
  /\ failures < MaxFailures
  /\ failures' = failures + 1
  /\ Effect(r, e) \/ UNCHANGED recordVars

\* The sms, WhatsApp and push providers catch their errors, dispatch() those of
\* the publish: the caller is told nothing and goes on.
SendSwallowed(r, e) ==
  /\ Calling(r, e, "send")
  /\ chan[r] # "email"
  /\ Failure(r, e)
  /\ failed' = IF chan[r] = "inApp" THEN failed ELSE failed \union {<<e, chan[r]>>}
  /\ AfterSend(r, e)
  /\ UNCHANGED quietVars

\* What isolate() catches: the error of any other call.
Throws(r, e) ==
  /\ run[r][e] = "handle"
  /\ at[r] \in CallSteps
  /\ ~(at[r] = "send" /\ chan[r] = "inApp")
  /\ Failure(r, e)
  /\ failed' = failed \union {<<e, chan[r]>>}

Reset(r) ==
  /\ at'     = [at     EXCEPT ![r] = "idle"]
  /\ chan'   = [chan   EXCEPT ![r] = "none"]
  /\ todo'   = [todo   EXCEPT ![r] = {}]
  /\ phones' = [phones EXCEPT ![r] = {}]
  /\ on'     = [on     EXCEPT ![r] = {}]
  /\ UNCHANGED off

\* Mutants: as before isolate(), the error leaves dispatch() and fails the job;
\* one try around all channels.
ChannelFailsTheJob(r, e) ==
  /\ Throws(r, e)
  /\ HandlerThrows(r, e)
  /\ Reset(r)
  /\ UNCHANGED <<input, settingVars>>

ChannelFailsTheRest(r, e) ==
  /\ Throws(r, e)
  /\ Visit(r, e, {})
  /\ phones' = [phones EXCEPT ![r] = {}]
  /\ UNCHANGED quietVars

ChannelFails(r, e) ==
  /\ Throws(r, e)
  /\ Leave(r, e)
  /\ UNCHANGED quietVars

DispatchReturns(r, e) ==
  /\ at[r] = "finished"
  /\ HandlerReturns(r, e)
  /\ Reset(r)
  /\ UNCHANGED <<input, settingVars, recordVars, failed, failures>>

\* A call on its way when the process dies may still have its effect.
CrashDispatching(r) ==
  /\ Crash(r)
  /\ \/ \E e \in Events : run[r][e] = "handle" /\ Effect(r, e)
     \/ UNCHANGED recordVars
  /\ Reset(r)
  /\ UNCHANGED <<input, settingVars, failed, failures>>

-----------------------------------------------------------------------------

DispatchChannels(r, e) ==
  \/ StartDispatch(r, e) \/ ReadOverride(r, e) \/ ReadPreference(r, e) \/ ListDevices(r, e)
  \/ CreateNote(r, e)    \/ CreateTrail(r, e)  \/ Send(r, e)
  \/ SendSwallowed(r, e) \/ ChannelFails(r, e) \/ DispatchReturns(r, e)

NoticeNext ==
  \/ \E e \in Events : Queue(e) /\ UNCHANGED noticeVars
  \/ \E r \in Runners, e \in Events : (Take(r, e) \/ Protocol(r, e)) /\ UNCHANGED noticeVars
  \/ \E r \in Runners, e \in Events : DispatchChannels(r, e)
  \/ \E r \in Runners : CrashDispatching(r)
  \/ \E c \in Channels : SetPreference(c)
  \/ OverrideExpires

NoticeSpec == NoticeInit /\ [][NoticeNext]_allNoticeVars

-----------------------------------------------------------------------------
(* Properties.                                                             *)

\* What isolate() was built for: a channel that fails makes nobody write the
\* other channels' notifications again.  Only a crash, a stall or a failed call
\* for the idempotency key repeats one.
OneNoticeUndisturbed ==
  \A e \in Events, a \in Addresses : notes[e][a] > 1 => e \in disturbed

\* The settings page binds the dispatch: a channel it showed as off from the
\* start of a dispatch is not used by it, although the override and the
\* preference are read one after the other and both may change in between.
OffMeansOff == intruded = {}

\* The channel of an event reached all its addresses, failed by itself, or was
\* shown as off during a dispatch.
Answered(e, c) ==
  \/ \A a \in AddressesOf(c) : (IF c = "inApp" THEN trails ELSE sends)[e][a] > 0
  \/ <<e, c>> \in failed
  \/ input[e].known /\ c \in off[e]

\* An event counts as processed only when each of its channels has answered for
\* itself: none is lost to another's failure or another's setting.
EveryChannelAnswers ==
  \A e \in Events : key[e] = "COMPLETED" => \A c \in Reachable(e) : Answered(e, c)

\* No message leaves, and no in-app row is announced, without the rows by which
\* it can be found, however often processes die between the writes.
EverySendIsOnRecord ==
  \A e \in Events, a \in Addresses :
    sends[e][a] <= trails[e][a] /\ trails[e][a] <= notes[e][a]
=============================================================================
