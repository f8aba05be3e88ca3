---------------------------- MODULE HumanControl ----------------------------
(***************************************************************************)
(* The control of phones by people: the WebSocket handlers of              *)
(* system/server/src/index.js.  A connection claims a phone, sends input,  *)
(* and gives the phone up by releasing it, claiming another, closing, or   *)
(* losing access; the AI side (the calls of the task queue on the lease)   *)
(* takes and returns the phone beside it.                                  *)
(*                                                                         *)
(* A connection handles its messages one at a time, except live frames.    *)
(* What a handler does between two awaits is one action; validateSession,  *)
(* which every handler awaits first, is the guard c \in alive of the       *)
(* stretch behind it.                                                      *)
(*                                                                         *)
(* Every handler that awaits a phone captures selectionGeneration before   *)
(* and compares it after.  Only the comparison matters, so "current" and   *)
(* "liveCurrent" hold the connections whose captured value is still equal. *)
(***************************************************************************)
EXTENDS DeviceLease, Naturals

CONSTANTS
  Connections, Devices,
  NoDevice,      \* no phone
  Nobody,        \* no connection
  Remote,        \* the phones at other sites, reached over a site link
  OfflineAfter,  \* consecutive failures that make a phone offline (OFFLINE_AFTER_FAILURES)
  Revocations    \* whether access and control paths are revoked meanwhile

ASSUME HumanControlAssumption ==
  /\ NoDevice \notin Devices /\ Nobody \notin Connections
  /\ Remote \in SUBSET Devices
  /\ OfflineAfter \in Nat \ {0} /\ Revocations \in BOOLEAN

VARIABLES
  alive,       \* connections with an open socket and an active session
  access,      \* connection -> phones its session's operator may control
  selected,    \* connection -> the phone it selected
  at,          \* connection -> where its message handler waits
  target,      \* connection -> the phone that handler works on
  current,     \* connections whose handler's selection is still the same
  live,        \* connection -> phone whose live frame is being rendered
  liveCurrent, \* connections whose live frame's selection is still the same
  owner,       \* phone -> its humanOwners entry
  status,      \* phone -> device.status
  ready,       \* phones with a working control path and network route
  lease,       \* phone -> its lease
  held,        \* phones in humanHolds
  failures     \* phone -> consecutive failures, up to OfflineAfter

conn == <<alive, access, at, target, live>>
claims == <<selected, current, liveCurrent, owner, status>>
aiSide == <<lease, held>>
vars == <<conn, claims, aiSide, ready, failures>>

\* "frame" and "refresh" are sendFrame, the latter after an applied input.
Handlers == {"idle", "takeover", "claim", "prepare", "sent", "frame", "refresh"}

-----------------------------------------------------------------------------
(* What a connection may do.                                               *)

\* selectedAccessActive: it asks for the session, not for the socket.
AccessActive(c, d) ==
  /\ d \in access[c] /\ owner[d] = c
  /\ d \in ready /\ CanHumanSelect(lease[d])

\* authorize, the check a handler makes again around every call to a phone.
Authorized(c) ==
  c \in current /\ selected[c] = target[c] /\ AccessActive(c, target[c])

\* Fault: a phone that somebody else has is opened as well.
CanOpenOwned(c, d) ==
  /\ d \in access[c] /\ d \in ready /\ status[d] # "offline" /\ CanHumanSelect(lease[d])

\* deviceOpenDecision.
CanOpen(c, d) ==
  /\ d \in access[c] /\ d \in ready /\ CanHumanSelect(lease[d])
  /\ \/ owner[d] = c /\ status[d] # "offline"
     \/ owner[d] = Nobody /\ status[d] = "idle"

-----------------------------------------------------------------------------
(* Giving phones up.                                                       *)

\* Fault: a selection that is gone can still look current to its handler.
ReleaseSilently(R, st) ==
  LET freed == {d \in Devices : owner[d] \in R /\ selected[owner[d]] = d}
  IN /\ selected' = [c \in Connections |-> IF c \in R THEN NoDevice ELSE selected[c]]
     /\ owner' = [d \in Devices |-> IF d \in freed THEN Nobody ELSE owner[d]]
     /\ status' = [d \in Devices |-> IF d \in freed /\ st[d] # "offline" THEN "idle" ELSE st[d]]
     /\ UNCHANGED <<current, liveCurrent>>

\* releaseSelection for the connections R, where the status has become st:
\* each phone is free again, unless it is offline.
Release(R, st) ==
  LET freed == {d \in Devices : owner[d] \in R /\ selected[owner[d]] = d}
      had == {c \in R : selected[c] # NoDevice}
  IN /\ selected' = [c \in Connections |-> IF c \in R THEN NoDevice ELSE selected[c]]
     /\ owner' = [d \in Devices |-> IF d \in freed THEN Nobody ELSE owner[d]]
     /\ status' = [d \in Devices |-> IF d \in freed /\ st[d] # "offline" THEN "idle" ELSE st[d]]
     /\ current' = current \ had
     /\ liveCurrent' = liveCurrent \ had

\* broadcastDeviceList: the open connections whose selection is no longer
\* authorized lose it.
Lost ==
  {c \in alive' : /\ selected[c] # NoDevice
                  /\ ~ (/\ selected[c] \in access'[c] /\ owner[selected[c]] = c
                        /\ selected[c] \in ready' /\ CanHumanSelect(lease'[selected[c]]))}

\* Connection c gives up its selection and everybody is told.
GiveUp(c, st) == Release({c} \cup Lost, st)

\* revokeSelectedAccess for the handler of c: void if the selection is
\* another one by now.
Revoke(c) ==
  IF c \in current /\ selected[c] = target[c] THEN GiveUp(c, status) ELSE UNCHANGED claims

\* reportError: one more consecutive failure of the phone; too many take it
\* offline, away from its user.
ReportError(c) ==
  LET d == target[c]
      count == IF failures[d] < OfflineAfter THEN failures[d] + 1 ELSE OfflineAfter
  IN /\ failures' = [failures EXCEPT ![d] = count]
     /\ IF count = OfflineAfter /\ status[d] # "offline"
        THEN GiveUp(c, [status EXCEPT ![d] = "offline"])
        ELSE UNCHANGED claims

\* The handler of c goes on to wait at s for phone d.
GoTo(c, s, d) ==
  /\ at' = [at EXCEPT ![c] = s]
  /\ target' = [target EXCEPT ![c] = d]
  /\ UNCHANGED <<alive, access, live>>

Done(c) == GoTo(c, "idle", NoDevice)

-----------------------------------------------------------------------------
(* Messages of connection c.                                               *)

Idle(c) == c \in alive /\ at[c] = "idle"

\* select_device: the decision is made here and again after the await of
\* claimDevice.
SelectDevice(c, d) ==
  /\ Idle(c) /\ CanOpen(c, d)
  /\ GoTo(c, "claim", d)
  /\ UNCHANGED <<claims, aiSide, ready, failures>>

\* takeover: the hold is set and the handoff starts; where switchToHuman
\* throws, the handler ends with the hold in place.
Takeover(c, d) ==
  /\ Idle(c) /\ d \in access[c] /\ owner[d] \in {Nobody, c}
  /\ held' = held \cup {d}
  /\ IF CanSwitchToHuman(lease[d])
     THEN /\ lease' = [lease EXCEPT ![d] = SwitchToHuman(@)]
          /\ GoTo(c, "takeover", d)
     ELSE UNCHANGED <<conn, lease>>
  /\ UNCHANGED <<claims, ready, failures>>

\* switchToHuman resolved, or threw because the handoff timed out.
TakeoverEnds(c) ==
  /\ at[c] = "takeover" /\ lease[target[c]].waiter # "handoff"
  /\ IF lease[target[c]].mode = "ERROR" THEN Done(c) ELSE GoTo(c, "claim", target[c])
  /\ UNCHANGED <<claims, aiSide, ready, failures>>

\* Fault: the phone selected before stays claimed.
ClaimDeviceKeepingPrevious(c) ==
  LET d == target[c]
  IN /\ at[c] = "claim" /\ c \in alive /\ CanOpen(c, d)
     /\ GoTo(c, "frame", d)
     /\ selected' = [selected EXCEPT ![c] = d]
     /\ owner' = [owner EXCEPT ![d] = c]
     /\ status' = [status EXCEPT ![d] = "in-use"]
     /\ current' = current \cup {c}
     /\ liveCurrent' = liveCurrent \ {c}
     /\ UNCHANGED <<aiSide, ready, failures>>

\* claimDevice behind its await: the phone selected before is released, this
\* one claimed, and its screen requested (sendFrame).
ClaimDevice(c) ==
  LET d == target[c]
      previous == {e \in Devices : owner[e] = c /\ selected[c] = e}
  IN /\ at[c] = "claim"
     /\ \/ /\ c \in alive /\ CanOpen(c, d)
           /\ GoTo(c, "frame", d)
           /\ selected' = [selected EXCEPT ![c] = d]
           /\ owner' = [e \in Devices |-> IF e = d THEN c ELSE IF e \in previous THEN Nobody ELSE owner[e]]
           /\ status' = [e \in Devices |->
                           IF e = d THEN "in-use"
                           ELSE IF e \in previous /\ status[e] # "offline" THEN "idle" ELSE status[e]]
           /\ current' = current \cup {c}
           /\ liveCurrent' = liveCurrent \ {c}
        \/ /\ ~ (c \in alive /\ CanOpen(c, d))
           /\ Done(c)
           /\ UNCHANGED claims
     /\ UNCHANGED <<aiSide, ready, failures>>

\* tap, swipe, home, type_text, drag, long_press, double_tap up to the
\* first await of the phone's session.
Input(c) ==
  /\ Idle(c) /\ selected[c] # NoDevice
  /\ UNCHANGED <<aiSide, ready, failures>>
  /\ IF AccessActive(c, selected[c])
     THEN /\ GoTo(c, "prepare", selected[c])
          /\ current' = current \cup {c}
          /\ UNCHANGED <<selected, liveCurrent, owner, status>>
     ELSE /\ UNCHANGED <<conn>>
          /\ GiveUp(c, status)

\* refresh_screen.
RefreshScreen(c) ==
  /\ Idle(c) /\ selected[c] # NoDevice
  /\ UNCHANGED <<aiSide, ready, failures>>
  /\ IF AccessActive(c, selected[c])
     THEN /\ GoTo(c, "frame", selected[c])
          /\ current' = current \cup {c}
          /\ UNCHANGED <<selected, liveCurrent, owner, status>>
     ELSE /\ UNCHANGED <<conn>>
          /\ GiveUp(c, status)

\* release_device.
ReleaseMessage(c) ==
  /\ Idle(c) /\ selected[c] # NoDevice
  /\ UNCHANGED <<conn, aiSide, ready, failures>>
  /\ GiveUp(c, status)

-----------------------------------------------------------------------------
(* Calls to the phone.                                                     *)

\* Fault: authorization is not asserted again before the request.
SendInputUnchecked(c) ==
  /\ at[c] = "prepare"
  /\ GoTo(c, "sent", target[c])
  /\ UNCHANGED <<claims, aiSide, ready, failures>>

\* The session is ready and the call still authorized: the input is sent.
SendInput(c) ==
  /\ at[c] = "prepare" /\ Authorized(c)
  /\ GoTo(c, "sent", target[c])
  /\ UNCHANGED <<claims, aiSide, ready, failures>>

\* The answer to a call that is not authorized any more: validateSession drops
\* it if the connection is gone, but a remote phone's driver asks first.
Dropped(c) ==
  IF ~Authorized(c) /\ (c \in alive \/ target[c] \in Remote) THEN Revoke(c) ELSE UNCHANGED claims

\* The phone answered; or it could not be reached, timed out or refused.  The
\* answer counts only while the call is authorized.
InputApplied(c) ==
  /\ at[c] = "sent"
  /\ UNCHANGED <<aiSide, ready>>
  /\ IF c \in alive /\ Authorized(c)
     THEN /\ failures' = [failures EXCEPT ![target[c]] = 0]
          /\ GoTo(c, "refresh", target[c]) \/ Done(c)
          /\ UNCHANGED claims
     ELSE Done(c) /\ Dropped(c) /\ UNCHANGED failures

InputFailed(c) ==
  /\ at[c] \in {"prepare", "sent"}
  /\ UNCHANGED <<aiSide, ready>>
  /\ Done(c)
  /\ IF Authorized(c) THEN ReportError(c) ELSE Revoke(c) /\ UNCHANGED failures

\* Fault: a frame that arrives puts the phone in use, whoever has it now.
FrameArrivedUnchecked(c) ==
  /\ at[c] \in {"frame", "refresh"}
  /\ Done(c)
  /\ failures' = [failures EXCEPT ![target[c]] = 0]
  /\ status' = [status EXCEPT ![target[c]] = "in-use"]
  /\ UNCHANGED <<selected, current, liveCurrent, owner, aiSide, ready>>

\* sendFrame behind its awaits; a phone that had been failing is back in use.
FrameArrived(c) ==
  LET d == target[c]
  IN /\ at[c] \in {"frame", "refresh"}
     /\ UNCHANGED <<aiSide, ready>>
     /\ Done(c)
     /\ IF c \in alive /\ Authorized(c)
        THEN /\ failures' = [failures EXCEPT ![d] = 0]
             /\ status' = [status EXCEPT ![d] = IF failures[d] > 0 /\ @ = "offline" THEN "in-use" ELSE @]
             /\ UNCHANGED <<selected, current, liveCurrent, owner>>
        ELSE Dropped(c) /\ UNCHANGED failures

\* The phone did not render.  After an applied input nothing asks whether the
\* call is still authorized but the phone's own driver, and that of a remote
\* phone asks only about answers.
FrameFailed(c) ==
  /\ at[c] \in {"frame", "refresh"}
  /\ UNCHANGED <<aiSide, ready>>
  /\ Done(c)
  /\ IF Authorized(c) \/ (at[c] = "refresh" /\ target[c] \in Remote)
     THEN ReportError(c)
     ELSE Revoke(c) /\ UNCHANGED failures

\* refresh_live_frame runs beside the message handler.
LiveFrame(c) ==
  /\ c \in alive /\ live[c] = NoDevice /\ selected[c] # NoDevice
  /\ UNCHANGED <<aiSide, ready, failures>>
  /\ IF AccessActive(c, selected[c])
     THEN /\ live' = [live EXCEPT ![c] = selected[c]]
          /\ liveCurrent' = liveCurrent \cup {c}
          /\ UNCHANGED <<alive, access, at, target, selected, current, owner, status>>
     ELSE /\ UNCHANGED conn
          /\ GiveUp(c, status)

\* Fault: an old live frame revokes whatever is selected now.
LiveFrameEndsUnchecked(c) ==
  /\ live[c] # NoDevice
  /\ live' = [live EXCEPT ![c] = NoDevice]
  /\ UNCHANGED <<alive, access, at, target, aiSide, ready, failures>>
  /\ IF c \in alive /\ selected[c] # NoDevice /\ ~ (c \in liveCurrent /\ AccessActive(c, live[c]))
     THEN GiveUp(c, status)
     ELSE UNCHANGED claims

\* The frame arrived or failed; either way it only revokes the selection it
\* was made for.
LiveFrameEnds(c) ==
  /\ live[c] # NoDevice
  /\ live' = [live EXCEPT ![c] = NoDevice]
  /\ UNCHANGED <<alive, access, at, target, aiSide, ready, failures>>
  /\ IF /\ c \in alive /\ c \in liveCurrent /\ selected[c] = live[c]
        /\ ~AccessActive(c, live[c])
     THEN GiveUp(c, status)
     ELSE UNCHANGED claims

-----------------------------------------------------------------------------
(* Connections and operators.                                              *)

\* The socket closes; or the session is invalidated, and the socket with it.
Close(c) ==
  /\ c \in alive
  /\ alive' = alive \ {c}
  /\ UNCHANGED access \/ access' = [access EXCEPT ![c] = {}]
  /\ UNCHANGED <<at, target, live, claims, aiSide, ready, failures>>

\* Fault: only a selection still authorized is given up at the end.
CloseSettlesAuthorized(c) ==
  /\ c \notin alive /\ at[c] = "idle" /\ selected[c] # NoDevice
  /\ AccessActive(c, selected[c])
  /\ UNCHANGED <<conn, aiSide, ready, failures>>
  /\ GiveUp(c, status)

\* Fault: the phone is given up while the last input is still on its way.
CloseSettlesAtOnce(c) ==
  /\ c \notin alive /\ selected[c] # NoDevice
  /\ UNCHANGED <<conn, aiSide, ready, failures>>
  /\ GiveUp(c, status)

\* The close handler, once the message in hand has been dealt with.
CloseSettles(c) ==
  /\ c \notin alive /\ at[c] = "idle" /\ selected[c] # NoDevice
  /\ UNCHANGED <<conn, aiSide, ready, failures>>
  /\ GiveUp(c, status)

\* A new connection in the place of one that is gone.
Connect(c) ==
  /\ c \notin alive /\ at[c] = "idle" /\ selected[c] = NoDevice /\ live[c] = NoDevice
  /\ alive' = alive \cup {c}
  /\ access' = [access EXCEPT ![c] = Devices]
  /\ UNCHANGED <<at, target, live, claims, aiSide, ready, failures>>

\* suspendCurrentOperator: until the identity is read again, the connection
\* has no access; nothing is released yet.
SuspendOperator(c) ==
  /\ Revocations /\ c \in alive
  /\ access' = [access EXCEPT ![c] = {}]
  /\ UNCHANGED <<alive, at, target, live, claims, aiSide, ready, failures>>

\* refreshCurrentOperator, and releaseUnauthorizedSelection if the selection
\* is not covered any more.
RefreshOperator(c, D) ==
  /\ Revocations /\ c \in alive
  /\ access' = [access EXCEPT ![c] = D]
  /\ UNCHANGED <<alive, at, target, live, aiSide, ready, failures>>
  /\ IF c \in Lost THEN GiveUp(c, status) ELSE UNCHANGED claims

\* The control path or the network route of a phone fails; readiness leaves
\* the status of a phone in use alone, the provisioner does not.
PathLost(d) ==
  /\ Revocations /\ d \in ready
  /\ ready' = ready \ {d}
  /\ UNCHANGED <<conn, aiSide, failures>>
  /\ \E s \in {status[d], "offline"} : Release(Lost, [status EXCEPT ![d] = s])

\* checkReadiness found the phone ready.
PathReady(d) ==
  /\ ready' = ready \cup {d}
  /\ status' = [status EXCEPT ![d] = IF @ = "in-use" THEN @ ELSE "idle"]
  /\ UNCHANGED <<conn, selected, current, liveCurrent, owner, aiSide, failures>>

-----------------------------------------------------------------------------
(* The AI side: what the calls of the task queue do to a lease.            *)

\* tryDispatch takes a free phone (freeDevices, startTask).
Dispatch(d) ==
  /\ d \notin held /\ lease[d].pending = NoTask
  /\ lease[d].mode = "AI_IDLE" \/ (lease[d].mode = "HUMAN" /\ status[d] = "idle")
  /\ lease' = [lease EXCEPT ![d] = ApplyEvent(@, "START_TASK")]
  /\ UNCHANGED <<conn, held, ready, failures>>
  /\ Release(Lost, status)

\* An AI action starts; it settles; the task ends.
AiActs(d, t) ==
  /\ lease[d].mode = "AI_RUNNING" /\ lease[d].pending = NoTask
  /\ lease' = [lease EXCEPT ![d] = RegisterPendingAiAction(@, t)]
  /\ UNCHANGED <<conn, claims, held, ready, failures>>

AiSettles(d) ==
  /\ lease[d].pending # NoTask
  /\ lease' = [lease EXCEPT ![d] = Settle(@)]
  /\ UNCHANGED <<conn, claims, held, ready, failures>>

AiFinishes(d) ==
  /\ lease[d].mode = "AI_RUNNING"
  /\ lease' = [lease EXCEPT ![d] = FinishAiTask(@)]
  /\ UNCHANGED <<conn, held, ready, failures>>
  /\ Release(Lost, status)

HandoffTimeout(d) ==
  /\ lease[d].waiter = "handoff"
  /\ lease' = [lease EXCEPT ![d] = HandoffTimedOut(@)]
  /\ UNCHANGED <<conn, claims, held, ready, failures>>

\* switch_to_ai: only an idle phone nobody has.
SwitchDeviceToAI(d) ==
  /\ owner[d] = Nobody /\ status[d] = "idle" /\ CanSwitchToAI(lease[d])
  /\ lease' = [lease EXCEPT ![d] = SwitchToAI(@)]
  /\ held' = held \ {d}
  /\ UNCHANGED <<conn, ready, failures>>
  /\ Release(Lost, status)

\* emergency_stop.
EmergencyStopDevice(d) ==
  /\ lease' = [lease EXCEPT ![d] = EmergencyStop(@)]
  /\ held' = held \cup {d}
  /\ UNCHANGED <<conn, ready, failures>>
  /\ Release(Lost, status)

-----------------------------------------------------------------------------
Init ==
  /\ alive = Connections
  /\ access = [c \in Connections |-> Devices]
  /\ selected = [c \in Connections |-> NoDevice]
  /\ at = [c \in Connections |-> "idle"]
  /\ target = [c \in Connections |-> NoDevice]
  /\ current = {} /\ liveCurrent = {}
  /\ live = [c \in Connections |-> NoDevice]
  /\ owner = [d \in Devices |-> Nobody]
  /\ status = [d \in Devices |-> "offline"]
  /\ ready = {}
  /\ lease = [d \in Devices |-> NewLease]
  /\ held = {}
  /\ failures = [d \in Devices |-> 0]

\* What a connection's handler does by itself once it has started.
HandlerStep(c) ==
  \/ TakeoverEnds(c) \/ ClaimDevice(c) \/ SendInput(c)
  \/ InputApplied(c) \/ InputFailed(c) \/ FrameArrived(c) \/ FrameFailed(c)

ConnectionNext(c) ==
  \/ HandlerStep(c)
  \/ Input(c) \/ RefreshScreen(c) \/ ReleaseMessage(c) \/ LiveFrame(c) \/ LiveFrameEnds(c)
  \/ Close(c) \/ CloseSettles(c) \/ Connect(c) \/ SuspendOperator(c)
  \/ \E d \in Devices : SelectDevice(c, d) \/ Takeover(c, d)
  \/ \E D \in SUBSET Devices : RefreshOperator(c, D)

DeviceNext(d) ==
  \/ PathLost(d) \/ PathReady(d) \/ Dispatch(d) \/ AiSettles(d) \/ AiFinishes(d)
  \/ HandoffTimeout(d) \/ SwitchDeviceToAI(d) \/ EmergencyStopDevice(d)
  \/ \E t \in Tasks : AiActs(d, t)

Next == (\E c \in Connections : ConnectionNext(c)) \/ (\E d \in Devices : DeviceNext(d))

Spec == Init /\ [][Next]_vars

\* Every call to a phone has a timeout, switchToHuman's wait a bound, and a
\* closed connection's handler is run when its last message is done.
Fairness ==
  /\ \A c \in Connections : WF_vars(HandlerStep(c)) /\ WF_vars(CloseSettles(c))
  /\ \A d \in Devices : WF_vars(HandoffTimeout(d))

FairSpec == Spec /\ Fairness

-----------------------------------------------------------------------------
\* Every variable keeps its type, and a handler that finds its selection
\* current works on the phone that is selected.
TypeOK ==
  /\ alive \in SUBSET Connections
  /\ access \in [Connections -> SUBSET Devices]
  /\ selected \in [Connections -> Devices \cup {NoDevice}]
  /\ at \in [Connections -> Handlers]
  /\ target \in [Connections -> Devices \cup {NoDevice}]
  /\ \A c \in Connections : at[c] = "idle" <=> target[c] = NoDevice
  /\ current \in SUBSET Connections
  /\ live \in [Connections -> Devices \cup {NoDevice}]
  /\ liveCurrent \in SUBSET Connections
  /\ owner \in [Devices -> Connections \cup {Nobody}]
  /\ status \in [Devices -> {"idle", "in-use", "offline"}]
  /\ ready \in SUBSET Devices
  /\ lease \in [Devices -> Leases]
  /\ held \in SUBSET Devices
  /\ failures \in [Devices -> 0 .. OfflineAfter]
  /\ \A c \in current : at[c] \in {"prepare", "sent", "frame", "refresh"} => selected[c] = target[c]

\* humanOwners and the connections' own selections, kept in two places and
\* changed by different handlers, never disagree: no phone is claimed by a
\* connection that has moved on, and no connection drives one it lost.
SelectionOwnsDevice ==
  \A c \in Connections, d \in Devices : owner[d] = c <=> selected[c] = d

\* The status the queue reads agrees with the claims it does not see: no
\* phone stays in use without a user (it could never be opened again), and
\* none with a user is free for the queue to take.
InUseMeansClaimed ==
  \A d \in Devices :
    /\ status[d] = "in-use" => owner[d] # Nobody
    /\ owner[d] \in alive => status[d] = "in-use"

\* A phone a connected person has is in HUMAN mode with no AI action in
\* flight: neither a dispatch nor a mode switch nor a late settlement takes
\* it while the claim stands.
ClaimedMeansHuman ==
  \A d \in Devices : owner[d] \in alive => CanHumanSelect(lease[d])

\* A claim is known in three places (owner table, status, lease), which different
\* handlers write: the three agree at every moment.  README.md: "The two operator
\* modes are explicit and mutually exclusive per device".
ClaimsAgree == InUseMeansClaimed /\ ClaimedMeansHuman

\* The parties whose input is in flight on a phone.
Driving(d) ==
  {c \in Connections : at[c] = "sent" /\ target[c] = d} \cup ({lease[d].pending} \ {NoTask})

Exclusive == INSTANCE ExclusiveInput
  WITH Phones <- Devices, Parties <- Connections \cup Tasks,
       driving <- [d \in Devices |-> Driving(d)]

\* As long as nothing is revoked, people and AI implement the abstract
\* promise: input begins only on a phone that nobody, person or AI, has
\* input in flight on, through takeovers, stops, closed connections, failing
\* phones and handoffs that time out.
InputIsExclusive == Exclusive!Spec

\* A claim is never taken over by another connection without having been
\* given up first.
ClaimNeverStolen ==
  [][\A d \in Devices : owner[d] # Nobody => owner'[d] \in {owner[d], Nobody}]_vars

\* The result of a handler (input, frame or live frame, however late) costs a
\* connection its claim only when its access is gone or the phone has gone
\* offline: a result of an earlier selection never ends a later one.
ClaimKeptWhileEntitled ==
  [][\A c \in Connections, d \in Devices :
       (/\ owner[d] = c /\ owner'[d] = Nobody /\ at[c] # "claim"
        /\ (at'[c] # at[c] \/ live'[c] # live[c]))
       => (~AccessActive(c, d) \/ status'[d] = "offline")]_vars

\* A claim ends with its connection, when its owner gives it up, or for a reason of its own.
ClaimsAreRespected == ClaimNeverStolen /\ ClaimKeptWhileEntitled

\* No person's input is sent to a phone that AI drives or that its last
\* action has not left, even when the phone changed hands while the input
\* was being prepared.
NoInputUnderAI ==
  [][\A c \in Connections :
       (at'[c] = "sent" /\ at[c] # "sent") => CanHumanSelect(lease[target[c]])]_vars

\* A connection that closed, whatever it was doing, gives its phone up, unless
\* a new connection took its place.
ClosedConnectionFreesPhone ==
  \A c \in Connections, d \in Devices :
    (c \notin alive /\ owner[d] = c) ~> owner[d] # c
=============================================================================
