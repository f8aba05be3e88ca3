------------------------- MODULE HumanControlProofs -------------------------
(***************************************************************************)
(* Proofs about HumanControl for every number of connections and phones.   *)
(***************************************************************************)
EXTENDS HumanControl, LeaseProofs

\* The handler has called a phone, and its answer is still to come.
Calls == {"prepare", "sent", "frame", "refresh"}

\* A handler that waits for a phone has that phone selected, or nothing any
\* more: its connection selects another only when the handler has ended.
HandlersOK ==
  \A c \in Connections : at[c] \in Calls => selected[c] \in {target[c], NoDevice}

\* The inductive invariant, with or without revocations.
PInv ==
  /\ TypeOK /\ SelectionOwnsDevice /\ HandlersOK
  /\ \A d \in Devices : LeaseOK(lease[d])

-----------------------------------------------------------------------------
(* Giving phones up.                                                       *)

Statuses == [Devices -> {"idle", "in-use", "offline"}]

\* The claims stay as they are, or some connections give theirs up.
Kept ==
  UNCHANGED claims \/ \E R \in SUBSET Connections, st \in Statuses : Release(R, st)

\* The types of what claims consist of.
ClaimsTyped ==
  /\ selected \in [Connections -> Devices \cup {NoDevice}]
  /\ current \in SUBSET Connections /\ liveCurrent \in SUBSET Connections
  /\ owner \in [Devices -> Connections \cup {Nobody}]
  /\ status \in Statuses

\* The types of the rest.
RestTyped ==
  /\ alive \in SUBSET Connections
  /\ access \in [Connections -> SUBSET Devices]
  /\ at \in [Connections -> Handlers]
  /\ target \in [Connections -> Devices \cup {NoDevice}]
  /\ \A c \in Connections : at[c] = "idle" <=> target[c] = NoDevice
  /\ live \in [Connections -> Devices \cup {NoDevice}]
  /\ ready \in SUBSET Devices
  /\ lease \in [Devices -> Leases]
  /\ held \in SUBSET Devices
  /\ failures \in [Devices -> 0 .. OfflineAfter]
  /\ \A d \in Devices : LeaseOK(lease[d])

\* A handler that finds its selection current works on the selected phone.
CurrentOK == \A c \in current : at[c] \in Calls => selected[c] = target[c]

\* The invariant, cut along the lines on which steps are independent.
LEMMA Parts == PInv <=> ClaimsTyped /\ RestTyped /\ CurrentOK /\ SelectionOwnsDevice /\ HandlersOK
BY DEF PInv, TypeOK, ClaimsTyped, RestTyped, CurrentOK, Statuses, Calls

\* The same of the next state.
LEMMA PartsNext ==
  ASSUME ClaimsTyped', RestTyped', CurrentOK', SelectionOwnsDevice', HandlersOK'
  PROVE  PInv'
BY DEF PInv, TypeOK, ClaimsTyped, RestTyped, CurrentOK, Statuses, Calls

\* What Release does, connection by connection and phone by phone: exactly the
\* phones that connections of R own become free.
LEMMA ReleaseEffect ==
  ASSUME PInv, NEW R \in SUBSET Connections, NEW st \in Statuses, Release(R, st)
  PROVE  /\ ClaimsTyped'
         /\ \A c \in Connections : selected'[c] = IF c \in R THEN NoDevice ELSE selected[c]
         /\ \A d \in Devices : owner'[d] = IF owner[d] \in R THEN Nobody ELSE owner[d]
         /\ \A d \in Devices :
              status'[d] = IF owner[d] \in R /\ st[d] # "offline" THEN "idle" ELSE st[d]
         /\ \A c \in current' : c \in current /\ (c \in R => selected[c] = NoDevice)
         /\ SelectionOwnsDevice'
<1>1. \A d \in Devices : owner[d] \in R => selected[owner[d]] = d
  BY DEF PInv, SelectionOwnsDevice
<1>2. /\ selected \in [Connections -> Devices \cup {NoDevice}]
      /\ owner \in [Devices -> Connections \cup {Nobody}]
      /\ current \in SUBSET Connections /\ liveCurrent \in SUBSET Connections
  BY DEF PInv, TypeOK
<1>3. \A c \in Connections : selected'[c] = IF c \in R THEN NoDevice ELSE selected[c]
  BY DEF Release
<1>4. \A d \in Devices : owner'[d] = IF owner[d] \in R THEN Nobody ELSE owner[d]
  BY <1>1 DEF Release
<1>5. \A d \in Devices :
        status'[d] = IF owner[d] \in R /\ st[d] # "offline" THEN "idle" ELSE st[d]
  BY <1>1 DEF Release
<1>6. ClaimsTyped'
  <2>1. selected' \in [Connections -> Devices \cup {NoDevice}]
    BY <1>2 DEF Release
  <2>2. owner' \in [Devices -> Connections \cup {Nobody}]
    BY <1>2 DEF Release
  <2>3. status' \in Statuses
    BY DEF Release, Statuses
  <2> QED BY <1>2, <2>1, <2>2, <2>3 DEF ClaimsTyped, Release
<1>7. \A c \in current' : c \in current /\ (c \in R => selected[c] = NoDevice)
  BY DEF Release
<1>8. SelectionOwnsDevice'
  <2> SUFFICES ASSUME NEW c \in Connections, NEW d \in Devices
               PROVE  owner'[d] = c <=> selected'[c] = d
    BY DEF SelectionOwnsDevice
  <2>1. owner[d] = c <=> selected[c] = d
    BY DEF PInv, SelectionOwnsDevice
  <2> QED BY <1>3, <1>4, <2>1, HumanControlAssumption
<1> QED BY <1>3, <1>4, <1>5, <1>6, <1>7, <1>8

\* Whoever gives a phone up, claims stay typed and consistent, nobody gets
\* another selection, and no phone another owner.
LEMMA KeptEffect ==
  ASSUME PInv, Kept
  PROVE  /\ ClaimsTyped' /\ SelectionOwnsDevice'
         /\ \A c \in Connections : selected'[c] \in {selected[c], NoDevice}
         /\ \A d \in Devices : owner'[d] \in {owner[d], Nobody}
         /\ \A c \in current' : c \in current /\ selected'[c] = selected[c]
<1>1. CASE UNCHANGED claims
  BY <1>1 DEF PInv, TypeOK, ClaimsTyped, SelectionOwnsDevice, claims, Statuses
<1>2. ASSUME NEW R \in SUBSET Connections, NEW st \in Statuses, Release(R, st)
      PROVE  /\ ClaimsTyped' /\ SelectionOwnsDevice'
             /\ \A c \in Connections : selected'[c] \in {selected[c], NoDevice}
             /\ \A d \in Devices : owner'[d] \in {owner[d], Nobody}
             /\ \A c \in current' : c \in current /\ selected'[c] = selected[c]
  <2>1. current \subseteq Connections
    BY DEF PInv, TypeOK
  <2> QED BY <1>2, <2>1, ReleaseEffect
<1> QED BY <1>1, <1>2 DEF Kept

\* Handlers only go on with the phone they called, or end.
Moves == \A c \in Connections : at'[c] \in Calls => at[c] \in Calls /\ target'[c] = target[c]

\* A step that only gives phones up, and starts no call, keeps the invariant.
LEMMA KeptStep ==
  ASSUME PInv, Kept, Moves, RestTyped'
  PROVE  PInv'
<1>1. /\ ClaimsTyped' /\ SelectionOwnsDevice'
      /\ \A c \in Connections : selected'[c] \in {selected[c], NoDevice}
      /\ \A c \in current' : c \in current /\ selected'[c] = selected[c]
  BY KeptEffect
<1>2. HandlersOK'
  BY <1>1 DEF HandlersOK, Moves, PInv
<1>3. CurrentOK'
  <2>1. CurrentOK /\ current \subseteq Connections
    BY Parts DEF ClaimsTyped
  <2> QED BY <1>1, <2>1 DEF CurrentOK, Moves
<1> QED BY <1>1, <1>2, <1>3, PartsNext

\* The connections that lose their selection are connections.
LEMMA LostAreConnections ==
  ASSUME alive' \in SUBSET Connections
  PROVE  Lost \in SUBSET Connections
BY DEF Lost

\* Giving up and revoking are kinds of Kept.
LEMMA GivingUpIsKept ==
  ASSUME PInv, alive' \in SUBSET Connections, NEW c \in Connections
  PROVE  /\ \A st \in Statuses : GiveUp(c, st) => Kept
         /\ \A st \in Statuses : Release(Lost, st) => Kept
         /\ Revoke(c) => Kept
         /\ Dropped(c) => Kept
<1>1. Lost \in SUBSET Connections /\ ({c} \cup Lost) \in SUBSET Connections
  BY LostAreConnections
<1>2. status \in Statuses
  BY DEF PInv, TypeOK, Statuses
<1>3. \A st \in Statuses : GiveUp(c, st) => Kept
  BY <1>1 DEF GiveUp, Kept
<1>4. \A st \in Statuses : Release(Lost, st) => Kept
  BY <1>1 DEF Kept
<1>5. Revoke(c) => Kept
  BY <1>2, <1>3 DEF Revoke, Kept
<1>6. Dropped(c) => Kept
  BY <1>5 DEF Dropped, Kept
<1> QED BY <1>3, <1>4, <1>5, <1>6

\* A reported error counts a failure of the phone and may take it offline.
LEMMA ReportErrorLemma ==
  ASSUME PInv, alive' \in SUBSET Connections, NEW c \in Connections,
         target[c] \in Devices, ReportError(c)
  PROVE  Kept /\ failures' \in [Devices -> 0 .. OfflineAfter]
<1>1. OfflineAfter \in Nat \ {0}
  BY HumanControlAssumption
<1>2. failures \in [Devices -> 0 .. OfflineAfter] /\ status \in Statuses
  BY DEF PInv, TypeOK, Statuses
<1>3. failures' \in [Devices -> 0 .. OfflineAfter]
  <2> DEFINE count == IF failures[target[c]] < OfflineAfter THEN failures[target[c]] + 1 ELSE OfflineAfter
  <2>1. count \in 0 .. OfflineAfter
    BY <1>1, <1>2
  <2>2. failures' = [failures EXCEPT ![target[c]] = count]
    BY DEF ReportError
  <2> HIDE DEF count
  <2> QED BY <1>2, <2>1, <2>2
<1>4. Kept
  <2>1. [status EXCEPT ![target[c]] = "offline"] \in Statuses
    BY <1>2 DEF Statuses
  <2>2. UNCHANGED claims \/ GiveUp(c, [status EXCEPT ![target[c]] = "offline"])
    BY DEF ReportError
  <2> QED BY <2>1, <2>2, GivingUpIsKept DEF Kept
<1> QED BY <1>3, <1>4

-----------------------------------------------------------------------------
(* The other parts of the state.                                           *)

\* The types of what belongs to phones and leases.
PhonesTyped ==
  /\ ready \in SUBSET Devices
  /\ lease \in [Devices -> Leases]
  /\ held \in SUBSET Devices
  /\ failures \in [Devices -> 0 .. OfflineAfter]
  /\ \A d \in Devices : LeaseOK(lease[d])

\* The types of what belongs to connections.
ConnTyped ==
  /\ alive \in SUBSET Connections
  /\ access \in [Connections -> SUBSET Devices]
  /\ at \in [Connections -> Handlers]
  /\ target \in [Connections -> Devices \cup {NoDevice}]
  /\ \A c \in Connections : at[c] = "idle" <=> target[c] = NoDevice
  /\ live \in [Connections -> Devices \cup {NoDevice}]

\* RestTyped is the two of them, now and in the next state.
LEMMA RestParts ==
  /\ RestTyped <=> ConnTyped /\ PhonesTyped
  /\ RestTyped' <=> ConnTyped' /\ PhonesTyped'
BY DEF RestTyped, ConnTyped, PhonesTyped

\* What a step leaves alone keeps its type.
LEMMA UntouchedParts ==
  ASSUME PInv
  PROVE  /\ ConnTyped /\ PhonesTyped
         /\ UNCHANGED conn => ConnTyped' /\ Moves
         /\ UNCHANGED <<aiSide, ready, failures>> => PhonesTyped'
         /\ UNCHANGED claims => Kept
<1>1. ConnTyped /\ PhonesTyped
  BY Parts, RestParts
<1> QED BY <1>1 DEF ConnTyped, PhonesTyped, conn, aiSide, Moves, Kept

\* A handler that goes on to wait for a phone, or is done.
LEMMA GoToLemma ==
  ASSUME PInv, NEW c \in Connections, NEW s \in Handlers \ {"idle"}, NEW d \in Devices
  PROVE  /\ GoTo(c, s, d) => ConnTyped'
         /\ Done(c) => ConnTyped' /\ Moves
         /\ GoTo(c, s, d) /\ (s \in Calls => at[c] \in Calls /\ target[c] = d) => Moves
         /\ GoTo(c, s, d) => \A b \in Connections \ {c} : at'[b] = at[b] /\ target'[b] = target[b]
         /\ GoTo(c, s, d) => at'[c] = s /\ target'[c] = d
         /\ GoTo(c, s, d) => UNCHANGED <<alive, access, live>>
<1>1. ConnTyped /\ NoDevice \notin Devices /\ "idle" \in Handlers /\ "idle" \notin Calls
  BY UntouchedParts, HumanControlAssumption DEF Handlers, Calls
<1>2. ASSUME GoTo(c, s, d)
      PROVE  /\ ConnTyped' /\ at'[c] = s /\ target'[c] = d
             /\ \A b \in Connections \ {c} : at'[b] = at[b] /\ target'[b] = target[b]
             /\ UNCHANGED <<alive, access, live>>
  BY <1>1, <1>2 DEF GoTo, ConnTyped
<1>3. ASSUME Done(c)
      PROVE  ConnTyped' /\ Moves
  BY <1>1, <1>3 DEF Done, GoTo, ConnTyped, Moves
<1>4. ASSUME GoTo(c, s, d), s \in Calls => at[c] \in Calls /\ target[c] = d
      PROVE  Moves
  BY <1>2, <1>4 DEF Moves
<1> QED BY <1>2, <1>3, <1>4

\* A handler that is not idle has a phone.
LEMMA BusyHasPhone ==
  ASSUME PInv, NEW c \in Connections, at[c] # "idle"
  PROVE  target[c] \in Devices
BY DEF PInv, TypeOK

\* One lease changes to another one that is consistent.
LEMMA LeaseStep ==
  ASSUME PInv, NEW d \in Devices, NEW m \in Leases, LeaseOK(m),
         lease' = [lease EXCEPT ![d] = m], held' \in SUBSET Devices, UNCHANGED <<ready, failures>>
  PROVE  PhonesTyped'
<1>1. PhonesTyped
  BY UntouchedParts
<1> QED BY <1>1 DEF PhonesTyped

\* A step that gives phones up at most, whose parts keep their types.
LEMMA QuietStep ==
  ASSUME PInv, Kept, Moves, ConnTyped', PhonesTyped'
  PROVE  PInv'
BY KeptStep, RestParts

-----------------------------------------------------------------------------
(* The steps of a connection.                                              *)

\* The steps that wait for nothing new, and those that end a call.
LEMMA HandlerSteps ==
  ASSUME PInv, NEW c \in Connections,
         \/ TakeoverEnds(c) \/ SendInput(c) \/ InputApplied(c) \/ InputFailed(c) \/ FrameFailed(c)
  PROVE  PInv'
<1>1. \A s \in {"takeover", "prepare", "sent", "frame", "refresh"} : at[c] = s => target[c] \in Devices
  BY BusyHasPhone
<1>2. CASE TakeoverEnds(c)
  <2>1. target[c] \in Devices /\ "claim" \in Handlers \ {"idle"} /\ "claim" \notin Calls
    BY <1>1, <1>2 DEF TakeoverEnds, Handlers, Calls
  <2>2. Done(c) \/ GoTo(c, "claim", target[c])
    BY <1>2 DEF TakeoverEnds
  <2>3. ConnTyped' /\ Moves
    BY <2>1, <2>2, GoToLemma
  <2> QED BY <1>2, <2>3, UntouchedParts, QuietStep DEF TakeoverEnds
<1>3. CASE SendInput(c)
  <2>1. target[c] \in Devices /\ "sent" \in Handlers \ {"idle"} /\ at[c] \in Calls
    BY <1>1, <1>3 DEF SendInput, Handlers, Calls
  <2>2. ConnTyped' /\ Moves
    BY <1>3, <2>1, GoToLemma DEF SendInput
  <2> QED BY <1>3, <2>2, UntouchedParts, QuietStep DEF SendInput
<1>4. CASE InputApplied(c)
  <2>1. target[c] \in Devices /\ "refresh" \in Handlers \ {"idle"} /\ at[c] \in Calls
    BY <1>1, <1>4 DEF InputApplied, Handlers, Calls
  <2>2. ConnTyped' /\ Moves
    <3>1. Done(c) \/ GoTo(c, "refresh", target[c])
      BY <1>4 DEF InputApplied
    <3> QED BY <2>1, <3>1, GoToLemma
  <2>3. alive' \in SUBSET Connections
    BY <2>2 DEF ConnTyped
  <2>4. Kept
    BY <1>4, <2>3, UntouchedParts, GivingUpIsKept DEF InputApplied
  <2>5. PhonesTyped'
    <3>1. failures' \in [Devices -> 0 .. OfflineAfter]
      BY <1>4, UntouchedParts, HumanControlAssumption DEF InputApplied, PhonesTyped
    <3> QED BY <1>4, <3>1, UntouchedParts DEF InputApplied, PhonesTyped, aiSide
  <2> QED BY <2>2, <2>4, <2>5, QuietStep
<1>5. CASE InputFailed(c) \/ FrameFailed(c)
  <2>1. target[c] \in Devices
    BY <1>1, <1>5 DEF InputFailed, FrameFailed
  <2>2. Done(c) /\ UNCHANGED <<aiSide, ready>> /\ (ReportError(c) \/ (Revoke(c) /\ UNCHANGED failures))
    BY <1>5 DEF InputFailed, FrameFailed
  <2>3. ConnTyped' /\ Moves
    BY <2>1, <2>2, GoToLemma DEF Handlers
  <2>4. alive' \in SUBSET Connections
    BY <2>3 DEF ConnTyped
  <2>5. Kept /\ failures' \in [Devices -> 0 .. OfflineAfter]
    BY <2>1, <2>2, <2>4, ReportErrorLemma, GivingUpIsKept, UntouchedParts DEF PhonesTyped
  <2>6. PhonesTyped'
    BY <2>2, <2>5, UntouchedParts DEF PhonesTyped, aiSide
  <2> QED BY <2>3, <2>5, <2>6, QuietStep
<1> QED BY <1>2, <1>3, <1>4, <1>5

\* A frame changes no claim, or revokes the one it was made for.
LEMMA FrameArrivedStep ==
  ASSUME PInv, NEW c \in Connections, FrameArrived(c)
  PROVE  PInv'
<1>1. target[c] \in Devices /\ at[c] \in Calls /\ Done(c)
  BY BusyHasPhone DEF FrameArrived, Calls
<1>2. ConnTyped' /\ Moves
  BY <1>1, GoToLemma DEF Handlers
<1>3. alive' \in SUBSET Connections
  BY <1>2 DEF ConnTyped
<1>4. PhonesTyped'
  <2>1. failures' \in [Devices -> 0 .. OfflineAfter]
    BY <1>1, UntouchedParts, HumanControlAssumption DEF FrameArrived, PhonesTyped
  <2> QED BY <2>1, UntouchedParts DEF FrameArrived, PhonesTyped, aiSide
<1>5. CASE c \in alive /\ Authorized(c)
  <2>1. status' \in Statuses /\ UNCHANGED <<selected, current, liveCurrent, owner>>
    BY <1>1, <1>5 DEF FrameArrived, PInv, TypeOK, Statuses
  <2>2. ClaimsTyped' /\ SelectionOwnsDevice'
    BY <2>1, Parts DEF ClaimsTyped, SelectionOwnsDevice
  <2>3. HandlersOK' /\ CurrentOK'
    BY <1>2, <2>1, Parts DEF HandlersOK, CurrentOK, Moves, ClaimsTyped
  <2> QED BY <1>2, <1>4, <2>2, <2>3, PartsNext, RestParts
<1>6. CASE ~ (c \in alive /\ Authorized(c))
  <2>1. Kept
    BY <1>3, <1>6, GivingUpIsKept DEF FrameArrived
  <2> QED BY <1>2, <1>4, <2>1, QuietStep
<1> QED BY <1>5, <1>6

\* claimDevice releases the phone selected before and claims the new one.
LEMMA ClaimDeviceStep ==
  ASSUME PInv, NEW c \in Connections, ClaimDevice(c)
  PROVE  PInv'
<1> DEFINE d == target[c]
           previous == {e \in Devices : owner[e] = c /\ selected[c] = e}
<1>1. d \in Devices /\ "frame" \in Handlers \ {"idle"} /\ at[c] \notin Calls
  BY BusyHasPhone DEF ClaimDevice, Handlers, Calls
<1>2. PhonesTyped'
  BY UntouchedParts DEF ClaimDevice
<1>3. CASE ~ (c \in alive /\ CanOpen(c, d))
  <2>1. Done(c) /\ UNCHANGED claims
    BY <1>3 DEF ClaimDevice
  <2> QED BY <1>1, <1>2, <2>1, GoToLemma, UntouchedParts, QuietStep
<1>4. CASE c \in alive /\ CanOpen(c, d)
  <2>1. /\ GoTo(c, "frame", d)
        /\ selected' = [selected EXCEPT ![c] = d]
        /\ owner' = [e \in Devices |-> IF e = d THEN c ELSE IF e \in previous THEN Nobody ELSE owner[e]]
        /\ status' = [e \in Devices |->
                        IF e = d THEN "in-use"
                        ELSE IF e \in previous /\ status[e] # "offline" THEN "idle" ELSE status[e]]
        /\ current' = current \cup {c}
        /\ liveCurrent' = liveCurrent \ {c}
    BY <1>4 DEF ClaimDevice
  <2>2. owner[d] \in {c, Nobody}
    BY <1>4 DEF CanOpen
  <2>3. ConnTyped' /\ at'[c] = "frame" /\ target'[c] = d
        /\ \A b \in Connections \ {c} : at'[b] = at[b] /\ target'[b] = target[b]
    BY <1>1, <2>1, GoToLemma
  <2>4. ClaimsTyped'
    <3>1. ClaimsTyped
      BY Parts
    <3>2. status' \in Statuses
      BY <2>1, <3>1 DEF ClaimsTyped, Statuses
    <3>3. owner' \in [Devices -> Connections \cup {Nobody}]
      BY <2>1, <3>1 DEF ClaimsTyped
    <3> QED BY <1>1, <2>1, <3>1, <3>2, <3>3 DEF ClaimsTyped
  <2>5. \A b \in Connections : selected'[b] = IF b = c THEN d ELSE selected[b]
    BY <2>1, Parts DEF ClaimsTyped
  <2>6. SelectionOwnsDevice'
    <3> SUFFICES ASSUME NEW b \in Connections, NEW e \in Devices
                 PROVE  owner'[e] = b <=> selected'[b] = e
      BY DEF SelectionOwnsDevice
    <3>1. \A f \in Devices, a \in Connections : owner[f] = a <=> selected[a] = f
      BY DEF PInv, SelectionOwnsDevice
    <3>2. owner'[e] = IF e = d THEN c ELSE IF e \in previous THEN Nobody ELSE owner[e]
      BY <2>1
    <3> QED BY <1>1, <2>2, <2>5, <3>1, <3>2, HumanControlAssumption
  <2>7. HandlersOK' /\ CurrentOK'
    BY <2>1, <2>3, <2>5, Parts DEF HandlersOK, CurrentOK, ClaimsTyped
  <2> QED BY <1>2, <2>3, <2>4, <2>6, <2>7, PartsNext, RestParts
<1> QED BY <1>3, <1>4

\* An input or a refresh that is let through starts a call; one that is not
\* gives the selection up.
LEMMA CallStarts ==
  ASSUME PInv, NEW c \in Connections, Input(c) \/ RefreshScreen(c)
  PROVE  PInv'
<1>1. PhonesTyped' /\ selected[c] \in Devices
  BY UntouchedParts, Parts DEF Input, RefreshScreen, ClaimsTyped
<1>2. CASE AccessActive(c, selected[c])
  <2>1. PICK s \in {"prepare", "frame"} : GoTo(c, s, selected[c])
    BY <1>2 DEF Input, RefreshScreen
  <2>2. ConnTyped' /\ at'[c] = s /\ target'[c] = selected[c]
        /\ \A b \in Connections \ {c} : at'[b] = at[b] /\ target'[b] = target[b]
    BY <1>1, <2>1, GoToLemma DEF Handlers
  <2>3. current' = current \cup {c} /\ UNCHANGED <<selected, liveCurrent, owner, status>>
    BY <1>2 DEF Input, RefreshScreen
  <2>4. ClaimsTyped' /\ SelectionOwnsDevice'
    BY <2>3, Parts DEF ClaimsTyped, SelectionOwnsDevice
  <2>5. HandlersOK' /\ CurrentOK'
    BY <2>2, <2>3, Parts DEF HandlersOK, CurrentOK, ClaimsTyped
  <2> QED BY <1>1, <2>2, <2>4, <2>5, PartsNext, RestParts
<1>3. CASE ~AccessActive(c, selected[c])
  <2>1. UNCHANGED conn /\ GiveUp(c, status)
    BY <1>3 DEF Input, RefreshScreen
  <2>2. ConnTyped' /\ Moves
    BY <2>1, UntouchedParts
  <2>3. alive' \in SUBSET Connections
    BY <2>2 DEF ConnTyped
  <2>4. Kept
    BY <2>1, <2>3, Parts, GivingUpIsKept DEF ClaimsTyped
  <2> QED BY <1>1, <2>2, <2>4, QuietStep
<1> QED BY <1>2, <1>3

\* A live frame starts beside the handler, and is known to be current.
LEMMA LiveFrameStep ==
  ASSUME PInv, NEW c \in Connections, LiveFrame(c)
  PROVE  PInv'
<1>1. PhonesTyped' /\ selected[c] \in Devices
  BY UntouchedParts, Parts DEF LiveFrame, ClaimsTyped
<1>2. CASE AccessActive(c, selected[c])
  <2>1. /\ live' = [live EXCEPT ![c] = selected[c]]
        /\ liveCurrent' = liveCurrent \cup {c}
        /\ UNCHANGED <<alive, access, at, target, selected, current, owner, status>>
    BY <1>2 DEF LiveFrame
  <2>2. ConnTyped'
    BY <1>1, <2>1, UntouchedParts DEF ConnTyped
  <2>3. ClaimsTyped' /\ SelectionOwnsDevice' /\ HandlersOK' /\ CurrentOK'
    BY <2>1, Parts DEF ClaimsTyped, SelectionOwnsDevice, HandlersOK, CurrentOK
  <2> QED BY <1>1, <2>2, <2>3, PartsNext, RestParts
<1>3. CASE ~AccessActive(c, selected[c])
  <2>1. UNCHANGED conn /\ GiveUp(c, status)
    BY <1>3 DEF LiveFrame
  <2>2. ConnTyped' /\ Moves
    BY <2>1, UntouchedParts
  <2>3. alive' \in SUBSET Connections
    BY <2>2 DEF ConnTyped
  <2>4. Kept
    BY <2>1, <2>3, Parts, GivingUpIsKept DEF ClaimsTyped
  <2> QED BY <1>1, <2>2, <2>4, QuietStep
<1> QED BY <1>2, <1>3

\* The steps that give the selection up or leave claims alone, and start no call.
LEMMA SelectionEnds ==
  ASSUME PInv, NEW c \in Connections,
         \/ ReleaseMessage(c) \/ LiveFrameEnds(c) \/ Close(c) \/ CloseSettles(c) \/ Connect(c)
         \/ SuspendOperator(c) \/ \E D \in SUBSET Devices : RefreshOperator(c, D)
  PROVE  PInv'
<1>1. PhonesTyped'
  BY UntouchedParts DEF ReleaseMessage, LiveFrameEnds, Close, CloseSettles, Connect,
     SuspendOperator, RefreshOperator
<1>2. ConnTyped
  BY UntouchedParts
<1>3. UNCHANGED <<at, target>>
  BY DEF ReleaseMessage, LiveFrameEnds, Close, CloseSettles, Connect, SuspendOperator,
     RefreshOperator, conn
<1>4. Moves
  BY <1>3 DEF Moves
<1>5. live' \in [Connections -> Devices \cup {NoDevice}]
  BY <1>2 DEF ReleaseMessage, LiveFrameEnds, Close, CloseSettles, Connect, SuspendOperator,
     RefreshOperator, conn, ConnTyped
<1>6. alive' \in SUBSET Connections
  BY <1>2 DEF ReleaseMessage, LiveFrameEnds, Close, CloseSettles, Connect, SuspendOperator,
     RefreshOperator, conn, ConnTyped
<1>7. access' \in [Connections -> SUBSET Devices]
  BY <1>2 DEF ReleaseMessage, LiveFrameEnds, Close, CloseSettles, Connect, SuspendOperator,
     RefreshOperator, conn, ConnTyped
<1>8. ConnTyped'
  BY <1>2, <1>3, <1>5, <1>6, <1>7 DEF ConnTyped
<1>9. UNCHANGED claims \/ GiveUp(c, status)
  BY DEF ReleaseMessage, LiveFrameEnds, Close, CloseSettles, Connect, SuspendOperator, RefreshOperator
<1>10. Kept
  BY <1>6, <1>9, Parts, GivingUpIsKept DEF ClaimsTyped, Kept
<1> QED BY <1>1, <1>4, <1>8, <1>10, QuietStep

\* A selection and a takeover begin to wait; a takeover changes the lease.
LEMMA WaitingStarts ==
  ASSUME PInv, NEW c \in Connections, NEW d \in Devices, SelectDevice(c, d) \/ Takeover(c, d)
  PROVE  PInv'
<1>1. {"claim", "takeover"} \subseteq Handlers \ {"idle"} /\ "claim" \notin Calls /\ "takeover" \notin Calls
  BY DEF Handlers, Calls
<1>2. Kept
  BY UntouchedParts DEF SelectDevice, Takeover
<1>3. ConnTyped' /\ Moves
  <2>1. UNCHANGED conn \/ GoTo(c, "claim", d) \/ GoTo(c, "takeover", d)
    BY DEF SelectDevice, Takeover
  <2> QED BY <1>1, <2>1, GoToLemma, UntouchedParts
<1>4. PhonesTyped'
  <2>1. CASE SelectDevice(c, d)
    BY <2>1, UntouchedParts DEF SelectDevice
  <2>2. CASE Takeover(c, d) /\ CanSwitchToHuman(lease[d])
    <3>1. lease[d] \in Leases /\ LeaseOK(lease[d])
      BY UntouchedParts DEF PhonesTyped
    <3>2. SwitchToHuman(lease[d]) \in Leases /\ LeaseOK(SwitchToHuman(lease[d]))
      BY <2>2, <3>1, ToHumanLemma
    <3>3. /\ lease' = [lease EXCEPT ![d] = SwitchToHuman(lease[d])]
          /\ held' = held \cup {d} /\ UNCHANGED <<ready, failures>>
      BY <2>2 DEF Takeover
    <3>4. held' \in SUBSET Devices
      BY <3>3, UntouchedParts DEF PhonesTyped
    <3> QED BY <3>2, <3>3, <3>4, LeaseStep
  <2>3. CASE Takeover(c, d) /\ ~CanSwitchToHuman(lease[d])
    BY <2>3, UntouchedParts DEF Takeover, PhonesTyped
  <2> QED BY <2>1, <2>2, <2>3
<1> QED BY <1>2, <1>3, <1>4, QuietStep

-----------------------------------------------------------------------------
(* The steps of a phone and of the AI side.                                *)

\* The calls of the queue on a lease; whoever loses the phone is told.
LEMMA AiSideSteps ==
  ASSUME PInv, NEW d \in Devices,
         \/ Dispatch(d) \/ AiSettles(d) \/ AiFinishes(d) \/ HandoffTimeout(d)
         \/ SwitchDeviceToAI(d) \/ EmergencyStopDevice(d) \/ \E t \in Tasks : AiActs(d, t)
  PROVE  PInv' /\ Kept
<1>1. lease[d] \in Leases /\ LeaseOK(lease[d]) /\ ConnTyped
  BY UntouchedParts DEF PhonesTyped
<1>2. ConnTyped' /\ Moves
  BY UntouchedParts DEF Dispatch, AiSettles, AiFinishes, HandoffTimeout, SwitchDeviceToAI,
     EmergencyStopDevice, AiActs
<1>3. Kept
  <2>1. alive' \in SUBSET Connections
    BY <1>2 DEF ConnTyped
  <2>2. UNCHANGED claims \/ Release(Lost, status)
    BY DEF Dispatch, AiSettles, AiFinishes, HandoffTimeout, SwitchDeviceToAI,
       EmergencyStopDevice, AiActs
  <2>3. status \in Statuses /\ Lost \in SUBSET Connections
    BY <2>1, Parts, LostAreConnections DEF ClaimsTyped
  <2> QED BY <2>2, <2>3 DEF Kept
<1>4. PICK m \in Leases : LeaseOK(m) /\ lease' = [lease EXCEPT ![d] = m]
  <2>1. CASE Dispatch(d)
    BY <1>1, <2>1, StartTaskLemma DEF Dispatch
  <2>2. CASE AiSettles(d)
    BY <1>1, <2>2, SettleLemma DEF AiSettles
  <2>3. CASE AiFinishes(d)
    BY <1>1, <2>3, FinishLemma DEF AiFinishes
  <2>4. CASE HandoffTimeout(d)
    BY <1>1, <2>4, TimeoutLemma DEF HandoffTimeout
  <2>5. CASE SwitchDeviceToAI(d)
    BY <1>1, <2>5, ToAILemma DEF SwitchDeviceToAI
  <2>6. CASE EmergencyStopDevice(d)
    BY <1>1, <2>6, StopLemma DEF EmergencyStopDevice
  <2>7. ASSUME NEW t \in Tasks, AiActs(d, t)
        PROVE  \E m \in Leases : LeaseOK(m) /\ lease' = [lease EXCEPT ![d] = m]
    BY <1>1, <2>7, StepLemma DEF AiActs
  <2> QED BY <2>1, <2>2, <2>3, <2>4, <2>5, <2>6, <2>7
<1>5. held' \in SUBSET Devices /\ UNCHANGED <<ready, failures>>
  BY UntouchedParts DEF Dispatch, AiSettles, AiFinishes, HandoffTimeout, SwitchDeviceToAI,
     EmergencyStopDevice, AiActs, PhonesTyped
<1>6. PhonesTyped'
  BY <1>4, <1>5, LeaseStep
<1> QED BY <1>2, <1>3, <1>6, QuietStep

\* A path that fails takes the phone away from its user.
LEMMA PathLostStep ==
  ASSUME PInv, NEW d \in Devices, PathLost(d)
  PROVE  PInv' /\ Kept
<1>1. ConnTyped' /\ Moves
  BY UntouchedParts DEF PathLost
<1>2. PhonesTyped'
  BY UntouchedParts DEF PathLost, PhonesTyped, aiSide
<1>3. Kept
  <2>1. alive' \in SUBSET Connections
    BY <1>1 DEF ConnTyped
  <2>2. Lost \in SUBSET Connections
    BY <2>1, LostAreConnections
  <2>3. status \in Statuses
    BY Parts DEF ClaimsTyped
  <2>4. \A s \in {status[d], "offline"} : [status EXCEPT ![d] = s] \in Statuses
    BY <2>3 DEF Statuses
  <2> QED BY <2>2, <2>4 DEF PathLost, Kept
<1> QED BY <1>1, <1>2, <1>3, QuietStep

\* A path that is back makes a phone without a user idle.
LEMMA PathReadyStep ==
  ASSUME PInv, NEW d \in Devices, PathReady(d)
  PROVE  PInv'
<1>1. ConnTyped' /\ Moves
  BY UntouchedParts DEF PathReady
<1>2. PhonesTyped'
  BY UntouchedParts DEF PathReady, PhonesTyped, aiSide
<1>3. ClaimsTyped' /\ SelectionOwnsDevice'
  BY Parts DEF PathReady, ClaimsTyped, SelectionOwnsDevice, Statuses
<1>4. HandlersOK' /\ CurrentOK'
  BY <1>1, Parts DEF PathReady, HandlersOK, CurrentOK, Moves, ClaimsTyped
<1> QED BY <1>1, <1>2, <1>3, <1>4, PartsNext, RestParts

-----------------------------------------------------------------------------
\* The first state.
LEMMA InitLemma == Init => PInv
<1> SUFFICES ASSUME Init PROVE PInv
  OBVIOUS
<1>1. NewLease \in Leases /\ LeaseOK(NewLease) /\ OfflineAfter \in Nat
  BY NewLeaseLemma, HumanControlAssumption
<1>2. RestTyped
  BY <1>1 DEF Init, RestTyped, Handlers
<1>3. ClaimsTyped /\ CurrentOK /\ HandlersOK
  BY DEF Init, ClaimsTyped, CurrentOK, HandlersOK, Statuses, Calls
<1>4. SelectionOwnsDevice
  BY HumanControlAssumption DEF Init, SelectionOwnsDevice
<1> QED BY <1>2, <1>3, <1>4, Parts

\* Every step.
LEMMA NextLemma == PInv /\ [Next]_vars => PInv'
<1> SUFFICES ASSUME PInv, [Next]_vars PROVE PInv'
  OBVIOUS
<1>1. CASE UNCHANGED vars
  <2>1. /\ UNCHANGED conn /\ UNCHANGED <<aiSide, ready, failures>> /\ UNCHANGED claims
    BY <1>1 DEF vars, conn, claims, aiSide
  <2> QED BY <2>1, UntouchedParts, QuietStep
<1>2. ASSUME NEW c \in Connections, ConnectionNext(c)
      PROVE  PInv'
  BY <1>2, HandlerSteps, FrameArrivedStep, ClaimDeviceStep, CallStarts, LiveFrameStep,
     SelectionEnds, WaitingStarts DEF ConnectionNext, HandlerStep
<1>3. ASSUME NEW d \in Devices, DeviceNext(d)
      PROVE  PInv'
  BY <1>3, AiSideSteps, PathLostStep, PathReadyStep DEF DeviceNext
<1> QED BY <1>1, <1>2, <1>3 DEF Next

\* The invariant holds of every behaviour, for any number of connections, phones
\* and tasks, of this site or another, with access revoked or not.
THEOREM PeopleInvariance == Spec => []PInv
<1>1. Init => PInv
  BY InitLemma
<1>2. PInv /\ [Next]_vars => PInv'
  BY NextLemma
<1> QED BY <1>1, <1>2, PTL DEF Spec

\* Every variable keeps its type, and a handler that finds its selection
\* current works on the phone that is selected.
THEOREM PeopleTypeCorrectness == Spec => []TypeOK
<1>1. PInv => TypeOK
  BY DEF PInv
<1> QED BY <1>1, PeopleInvariance, PTL

\* humanOwners and the connections' own selections never disagree: a phone is
\* claimed by the connection that has it selected and by no other.
THEOREM SelectionsOwnTheirPhones == Spec => []SelectionOwnsDevice
<1>1. PInv => SelectionOwnsDevice
  BY DEF PInv
<1> QED BY <1>1, PeopleInvariance, PTL

-----------------------------------------------------------------------------
(* What a step does to claims.                                             *)

\* The connections' steps that change claims only by giving phones up.
LEMMA GivingSteps ==
  ASSUME PInv, PInv', NEW c \in Connections,
         \/ TakeoverEnds(c) \/ SendInput(c) \/ InputApplied(c) \/ InputFailed(c) \/ FrameFailed(c)
         \/ ReleaseMessage(c) \/ LiveFrameEnds(c) \/ Close(c) \/ CloseSettles(c) \/ Connect(c)
         \/ SuspendOperator(c) \/ (\E D \in SUBSET Devices : RefreshOperator(c, D))
         \/ \E d \in Devices : SelectDevice(c, d) \/ Takeover(c, d)
  PROVE  Kept
<1>1. alive' \in SUBSET Connections /\ status \in Statuses
  BY DEF PInv, TypeOK, Statuses
<1>2. CASE UNCHANGED claims
  BY <1>2 DEF Kept
<1>3. CASE GiveUp(c, status) \/ Dropped(c) \/ Revoke(c)
  BY <1>1, <1>3, GivingUpIsKept
<1>4. CASE at[c] # "idle" /\ ReportError(c)
  BY <1>1, <1>4, BusyHasPhone, ReportErrorLemma
<1>5. CASE InputApplied(c) \/ InputFailed(c) \/ FrameFailed(c)
  BY <1>2, <1>3, <1>4, <1>5 DEF InputApplied, InputFailed, FrameFailed
<1>6. CASE TakeoverEnds(c) \/ SendInput(c) \/ \E d \in Devices : SelectDevice(c, d) \/ Takeover(c, d)
  BY <1>2, <1>6 DEF TakeoverEnds, SendInput, SelectDevice, Takeover
<1> QED BY <1>2, <1>3, <1>5, <1>6 DEF ReleaseMessage, LiveFrameEnds, Close, CloseSettles,
        Connect, SuspendOperator, RefreshOperator

\* No step makes a claimed phone another connection's.
LEMMA OwnersChange ==
  ASSUME PInv, PInv', [Next]_vars, NEW d \in Devices, owner[d] # Nobody
  PROVE  owner'[d] \in {owner[d], Nobody}
<1>1. CASE Kept
  BY <1>1, KeptEffect
<1>2. CASE UNCHANGED owner
  BY <1>2
<1>3. ASSUME NEW c \in Connections, ConnectionNext(c)
      PROVE  owner'[d] \in {owner[d], Nobody}
  <2>1. alive' \in SUBSET Connections /\ status \in Statuses
    BY DEF PInv, TypeOK, Statuses
  <2>2. CASE ClaimDevice(c)
    <3>1. CASE UNCHANGED claims
      BY <3>1 DEF claims
    <3>2. CASE ~UNCHANGED claims
      <4>1. /\ CanOpen(c, target[c])
            /\ owner' = [e \in Devices |->
                           IF e = target[c] THEN c
                           ELSE IF e \in {f \in Devices : owner[f] = c /\ selected[c] = f} THEN Nobody
                           ELSE owner[e]]
        BY <2>2, <3>2 DEF ClaimDevice
      <4> QED BY <4>1 DEF CanOpen
    <3> QED BY <3>1, <3>2
  <2>3. CASE FrameArrived(c)
    <3>1. UNCHANGED owner \/ Dropped(c)
      BY <2>3 DEF FrameArrived
    <3> QED BY <1>1, <1>2, <2>1, <3>1, GivingUpIsKept
  <2>4. CASE Input(c) \/ RefreshScreen(c) \/ LiveFrame(c)
    <3>1. UNCHANGED owner \/ GiveUp(c, status)
      BY <2>4 DEF Input, RefreshScreen, LiveFrame
    <3> QED BY <1>1, <1>2, <2>1, <3>1, GivingUpIsKept
  <2> QED BY <1>1, <1>3, <2>2, <2>3, <2>4, GivingSteps DEF ConnectionNext, HandlerStep
<1>4. ASSUME NEW e \in Devices, DeviceNext(e)
      PROVE  owner'[d] \in {owner[d], Nobody}
  <2>1. CASE PathReady(e)
    BY <1>2, <2>1 DEF PathReady
  <2> QED BY <1>1, <1>4, <2>1, AiSideSteps, PathLostStep DEF DeviceNext
<1>5. CASE UNCHANGED vars
  BY <1>2, <1>5 DEF vars, claims
<1> QED BY <1>3, <1>4, <1>5 DEF Next

\* A claim is never taken over by another connection without having been given
\* up first: claimDevice decides again behind its await.
THEOREM ClaimsAreNotStolen == Spec => ClaimNeverStolen
<1>1. PInv /\ PInv' /\ [Next]_vars =>
        [\A d \in Devices : owner[d] # Nobody => owner'[d] \in {owner[d], Nobody}]_vars
  BY OwnersChange
<1> QED BY <1>1, PeopleInvariance, PTL DEF Spec, ClaimNeverStolen

\* No person's input is sent to a phone that AI drives or that its last action
\* has not left: authorization is asserted again before the request.
THEOREM NoInputWhileAIHasThePhone == Spec => NoInputUnderAI
<1> DEFINE Sends(c) == at'[c] = "sent" /\ at[c] # "sent"
<1>1. ASSUME PInv, [Next]_vars, NEW c \in Connections, Sends(c)
      PROVE  CanHumanSelect(lease[target[c]])
  <2>1. at \in [Connections -> Handlers]
    BY <1>1 DEF PInv, TypeOK
  <2>2. at'[c] # at[c]
    BY <1>1
  <2>3. SendInput(c)
    <3>1. ASSUME NEW b \in Connections, ConnectionNext(b)
          PROVE  SendInput(c)
      <4>1. \/ SendInput(b) \/ UNCHANGED at
            \/ \E s \in Handlers \ {"sent"}, d \in Devices \cup {NoDevice} : at' = [at EXCEPT ![b] = s]
        <5>1. target[b] \in Devices \cup {NoDevice} /\ selected[b] \in Devices \cup {NoDevice}
          BY <1>1 DEF PInv, TypeOK
        <5> QED BY <3>1, <5>1 DEF ConnectionNext, HandlerStep, TakeoverEnds, ClaimDevice, InputApplied,
              InputFailed, FrameArrived, FrameFailed, Input, RefreshScreen, ReleaseMessage, LiveFrame,
              LiveFrameEnds, Close, CloseSettles, Connect, SuspendOperator, SelectDevice, Takeover,
              RefreshOperator, Done, GoTo, conn, Handlers
      <4>2. CASE SendInput(b)
        BY <1>1, <2>1, <4>2 DEF SendInput, GoTo
      <4> QED BY <1>1, <2>1, <2>2, <4>1, <4>2
    <3>2. ASSUME NEW d \in Devices, DeviceNext(d)
          PROVE  UNCHANGED at
      BY <3>2 DEF DeviceNext, PathLost, PathReady, Dispatch, AiSettles, AiFinishes, HandoffTimeout,
         SwitchDeviceToAI, EmergencyStopDevice, AiActs, conn
    <3> QED BY <1>1, <2>2, <3>1, <3>2 DEF Next, vars, conn
  <2> QED BY <2>3 DEF SendInput, Authorized, AccessActive
<1>2. PInv /\ [Next]_vars =>
        [\A c \in Connections : Sends(c) => CanHumanSelect(lease[target[c]])]_vars
  BY <1>1
<1> QED BY <1>2, PeopleInvariance, PTL DEF Spec, NoInputUnderAI

-----------------------------------------------------------------------------
(* Who loses a claim, and why.                                             *)

\* Only a connection's own steps move its handler or end its live frame.
LEMMA OwnSteps ==
  ASSUME PInv, [Next]_vars, NEW c \in Connections, at'[c] # at[c] \/ live'[c] # live[c]
  PROVE  ConnectionNext(c)
<1>1. ASSUME NEW b \in Connections, ConnectionNext(b)
      PROVE  b = c
  <2>1. \/ UNCHANGED at
        \/ \E s \in Handlers : at' = [at EXCEPT ![b] = s]
    BY <1>1 DEF ConnectionNext, HandlerStep, TakeoverEnds, ClaimDevice, InputApplied, SendInput,
       InputFailed, FrameArrived, FrameFailed, Input, RefreshScreen, ReleaseMessage, LiveFrame,
       LiveFrameEnds, Close, CloseSettles, Connect, SuspendOperator, SelectDevice, Takeover,
       RefreshOperator, Done, GoTo, conn, Handlers
  <2>2. UNCHANGED live \/ \E d \in Devices \cup {NoDevice} : live' = [live EXCEPT ![b] = d]
    <3>1. selected[b] \in Devices \cup {NoDevice}
      BY DEF PInv, TypeOK
    <3> QED BY <1>1, <3>1 DEF ConnectionNext, HandlerStep, TakeoverEnds, ClaimDevice, InputApplied,
         SendInput, InputFailed, FrameArrived, FrameFailed, Input, RefreshScreen, ReleaseMessage,
         LiveFrame, LiveFrameEnds, Close, CloseSettles, Connect, SuspendOperator, SelectDevice,
         Takeover, RefreshOperator, Done, GoTo, conn
  <2>3. at \in [Connections -> Handlers] /\ live \in [Connections -> Devices \cup {NoDevice}]
    BY DEF PInv, TypeOK
  <2> QED BY <2>1, <2>2, <2>3
<1>2. ASSUME NEW d \in Devices, DeviceNext(d)
      PROVE  UNCHANGED <<at, live>>
  BY <1>2 DEF DeviceNext, PathLost, PathReady, Dispatch, AiSettles, AiFinishes, HandoffTimeout,
     SwitchDeviceToAI, EmergencyStopDevice, AiActs, conn
<1> QED BY <1>1, <1>2 DEF Next, vars, conn

\* A revocation ends a claim only where access is gone.
LEMMA RevokeLemma ==
  ASSUME PInv, NEW c \in Connections, NEW d \in Devices, owner[d] = c, owner'[d] = Nobody,
         Revoke(c), ~Authorized(c)
  PROVE  ~AccessActive(c, d)
<1>1. selected[c] = d /\ c # Nobody
  BY HumanControlAssumption DEF PInv, SelectionOwnsDevice
<1>2. c \in current /\ selected[c] = target[c]
  BY <1>1 DEF Revoke, claims
<1> QED BY <1>1, <1>2 DEF Authorized

\* A reported error ends its connection's claim only by taking the phone offline.
LEMMA ReportErrorEnds ==
  ASSUME PInv, alive' \in SUBSET Connections, NEW c \in Connections, at[c] \in Calls,
         NEW d \in Devices, owner[d] = c, owner'[d] = Nobody, ReportError(c)
  PROVE  status'[d] = "offline"
<1>1. selected[c] = d /\ c # Nobody /\ NoDevice \notin Devices
  BY HumanControlAssumption DEF PInv, SelectionOwnsDevice
<1>2. target[c] = d
  BY <1>1 DEF PInv, HandlersOK
<1>3. GiveUp(c, [status EXCEPT ![d] = "offline"])
  BY <1>1, <1>2 DEF ReportError, claims
<1> DEFINE st == [status EXCEPT ![d] = "offline"]
<1>4. st \in Statuses /\ st[d] = "offline"
  BY DEF PInv, TypeOK, Statuses
<1>5. ({c} \cup Lost) \in SUBSET Connections
  BY LostAreConnections
<1>6. PICK R \in SUBSET Connections : c \in R /\ Release(R, st)
  BY <1>3, <1>5 DEF GiveUp
<1> HIDE DEF st
<1>7. \A e \in Devices :
        status'[e] = IF owner[e] \in R /\ st[e] # "offline" THEN "idle" ELSE st[e]
  BY <1>4, <1>6, ReleaseEffect
<1> QED BY <1>4, <1>7

\* The result of a handler, however late, costs a connection its claim only when
\* its access is gone or the phone has gone offline.
LEMMA ClaimEnds ==
  ASSUME PInv, PInv', [Next]_vars, NEW c \in Connections, NEW d \in Devices,
         owner[d] = c, owner'[d] = Nobody, at[c] # "claim",
         at'[c] # at[c] \/ live'[c] # live[c]
  PROVE  ~AccessActive(c, d) \/ status'[d] = "offline"
<1>1. ConnectionNext(c)
  BY OwnSteps
<1>2. /\ selected[c] = d /\ c # Nobody /\ ~UNCHANGED owner /\ d # NoDevice
      /\ alive' \in SUBSET Connections
  BY HumanControlAssumption DEF PInv, SelectionOwnsDevice, TypeOK
<1>3. CASE InputApplied(c) \/ FrameArrived(c)
  <2>1. Dropped(c) /\ ~Authorized(c)
    BY <1>2, <1>3 DEF InputApplied, FrameArrived, claims, Dropped
  <2> QED BY <1>2, <2>1, RevokeLemma DEF Dropped, claims
<1>4. CASE InputFailed(c) \/ FrameFailed(c)
  <2>1. at[c] \in Calls
    BY <1>4 DEF InputFailed, FrameFailed, Calls
  <2>2. ReportError(c) \/ (Revoke(c) /\ ~Authorized(c))
    BY <1>4 DEF InputFailed, FrameFailed
  <2> QED BY <1>2, <2>1, <2>2, ReportErrorEnds, RevokeLemma
<1>5. CASE LiveFrameEnds(c)
  BY <1>2, <1>5 DEF LiveFrameEnds, claims
<1>6. CASE Input(c) \/ RefreshScreen(c) \/ ReleaseMessage(c) \/ LiveFrame(c) \/ CloseSettles(c)
  <2>1. UNCHANGED owner \/ UNCHANGED conn
    BY <1>6 DEF Input, RefreshScreen, ReleaseMessage, LiveFrame, CloseSettles
  <2> QED BY <1>2, <2>1 DEF conn
<1>7. CASE TakeoverEnds(c) \/ SendInput(c) \/ Close(c) \/ Connect(c) \/ SuspendOperator(c)
           \/ \E e \in Devices : SelectDevice(c, e) \/ Takeover(c, e)
  BY <1>2, <1>7 DEF TakeoverEnds, SendInput, Close, Connect, SuspendOperator, SelectDevice,
     Takeover, claims
<1>8. CASE ClaimDevice(c)
  BY <1>8 DEF ClaimDevice
<1>9. CASE \E D \in SUBSET Devices : RefreshOperator(c, D)
  BY <1>9 DEF RefreshOperator
<1> QED BY <1>1, <1>3, <1>4, <1>5, <1>6, <1>7, <1>8, <1>9 DEF ConnectionNext, HandlerStep

\* A result of an earlier selection never ends a later one.
THEOREM ClaimsAreKeptWhileEntitled == Spec => ClaimKeptWhileEntitled
<1>1. PInv /\ PInv' /\ [Next]_vars =>
        [\A c \in Connections, d \in Devices :
           (/\ owner[d] = c /\ owner'[d] = Nobody /\ at[c] # "claim"
            /\ (at'[c] # at[c] \/ live'[c] # live[c]))
           => (~AccessActive(c, d) \/ status'[d] = "offline")]_vars
  BY ClaimEnds
<1> QED BY <1>1, PeopleInvariance, PTL DEF Spec, ClaimKeptWhileEntitled

\* No claim is stolen, and none is lost to an old result.
THEOREM ClaimsStayRespected == Spec => ClaimsAreRespected
  BY ClaimsAreNotStolen, ClaimsAreKeptWhileEntitled, PTL DEF ClaimsAreRespected

-----------------------------------------------------------------------------
(* Owner table, status and lease agree.                                    *)

\* Claims stay in agreement when whoever lost a phone gives it up.  A status may
\* turn to offline only where the phone is free afterwards.
LEMMA ReleaseAgrees ==
  ASSUME PInv, ClaimsAgree, alive' \in SUBSET Connections, alive' \subseteq alive,
         NEW R \in SUBSET Connections, Lost \subseteq R, NEW st \in Statuses, Release(R, st),
         \A d \in Devices : st[d] = status[d] \/ (st[d] = "offline" /\ owner[d] \notin alive' \ R)
  PROVE  ClaimsAgree'
<1>1. /\ \A d \in Devices : owner'[d] = IF owner[d] \in R THEN Nobody ELSE owner[d]
      /\ \A d \in Devices :
           status'[d] = IF owner[d] \in R /\ st[d] # "offline" THEN "idle" ELSE st[d]
  BY ReleaseEffect
<1>2. ASSUME NEW d \in Devices
      PROVE  /\ status'[d] = "in-use" => owner'[d] # Nobody
             /\ owner'[d] \in alive' => status'[d] = "in-use"
             /\ owner'[d] \in alive' => CanHumanSelect(lease'[d])
  <2>1. /\ status[d] = "in-use" => owner[d] # Nobody
        /\ owner[d] \in alive => status[d] = "in-use"
    BY DEF ClaimsAgree, InUseMeansClaimed
  <2>2. Nobody \notin alive'
    BY HumanControlAssumption
  <2>3. ASSUME owner'[d] \in alive'
        PROVE  CanHumanSelect(lease'[d])
    <3>1. owner[d] \in alive' \ R
      BY <1>1, <2>2, <2>3
    <3>2. selected[owner[d]] = d /\ d # NoDevice
      BY <3>1, HumanControlAssumption DEF PInv, SelectionOwnsDevice
    <3> QED BY <3>1, <3>2 DEF Lost
  <2> QED BY <1>1, <2>1, <2>2, <2>3
<1> QED BY <1>2 DEF ClaimsAgree, InUseMeansClaimed, ClaimedMeansHuman

\* Claims that do not change agree while a claimed phone's lease stays a person's.
LEMMA StillAgrees ==
  ASSUME ClaimsAgree, UNCHANGED <<owner, status>>, alive' \subseteq alive,
         \A d \in Devices : owner[d] \in alive => CanHumanSelect(lease'[d])
  PROVE  ClaimsAgree'
BY DEF ClaimsAgree, InUseMeansClaimed, ClaimedMeansHuman

\* Giving up in a step that leaves connections alone.
LEMMA GiveUpAgrees ==
  ASSUME PInv, PInv', ClaimsAgree, NEW c \in Connections, alive' = alive, GiveUp(c, status)
  PROVE  ClaimsAgree'
<1>1. alive' \in SUBSET Connections /\ status \in Statuses
  BY DEF PInv, TypeOK, Statuses
<1>2. ({c} \cup Lost) \in SUBSET Connections
  BY <1>1, LostAreConnections
<1> QED BY <1>1, <1>2, ReleaseAgrees DEF GiveUp

\* The same where nothing, or a call no longer authorized, is given up.
LEMMA RevokeAgrees ==
  ASSUME PInv, PInv', ClaimsAgree, NEW c \in Connections, alive' = alive, lease' = lease,
         UNCHANGED claims \/ Revoke(c) \/ Dropped(c)
  PROVE  ClaimsAgree'
<1>1. CASE GiveUp(c, status)
  BY <1>1, GiveUpAgrees
<1>2. CASE UNCHANGED claims
  BY <1>2, StillAgrees DEF claims, ClaimsAgree, ClaimedMeansHuman
<1> QED BY <1>1, <1>2 DEF Revoke, Dropped

\* A phone that goes offline through its own user's error is free afterwards.
LEMMA ReportErrorAgrees ==
  ASSUME PInv, PInv', ClaimsAgree, NEW c \in Connections, UNCHANGED <<alive, lease>>,
         Authorized(c), ReportError(c)
  PROVE  ClaimsAgree'
<1>1. alive' \in SUBSET Connections /\ status \in Statuses
  BY DEF PInv, TypeOK, Statuses
<1>2. owner[target[c]] = c
  BY DEF Authorized, AccessActive
<1>3. CASE UNCHANGED claims
  BY <1>3, RevokeAgrees
<1>4. CASE GiveUp(c, [status EXCEPT ![target[c]] = "offline"])
  <2> DEFINE st == [status EXCEPT ![target[c]] = "offline"]
  <2>1. ({c} \cup Lost) \in SUBSET Connections
    BY <1>1, LostAreConnections
  <2>2. st \in Statuses
    BY <1>1 DEF Statuses
  <2>3. \A d \in Devices : st[d] = status[d] \/ (st[d] = "offline" /\ owner[d] = c)
    BY <1>1, <1>2 DEF Statuses
  <2> HIDE DEF st
  <2>4. Release({c} \cup Lost, st)
    BY <1>4 DEF GiveUp, st
  <2> QED BY <1>1, <2>1, <2>2, <2>3, <2>4, ReleaseAgrees
<1> QED BY <1>3, <1>4 DEF ReportError

\* A connection's steps, for phones of this site: after an applied input, the
\* failing picture of a phone of another site takes it offline whoever has it.
LEMMA ConnectionAgrees ==
  ASSUME PInv, PInv', ClaimsAgree, Remote = {}, NEW c \in Connections, ConnectionNext(c)
  PROVE  ClaimsAgree'
<1>1. Nobody \notin Connections
  BY HumanControlAssumption
<1>2. CASE TakeoverEnds(c) \/ SendInput(c) \/ ReleaseMessage(c) \/ CloseSettles(c)
           \/ InputApplied(c) \/ LiveFrameEnds(c) \/ SuspendOperator(c)
           \/ (\E D \in SUBSET Devices : RefreshOperator(c, D))
           \/ \E d \in Devices : SelectDevice(c, d)
  <2>1. alive' = alive
    BY <1>2 DEF TakeoverEnds, SendInput, ReleaseMessage, CloseSettles, InputApplied, LiveFrameEnds,
       SuspendOperator, RefreshOperator, SelectDevice, Done, GoTo, conn
  <2>2. \/ UNCHANGED claims /\ lease' = lease
        \/ GiveUp(c, status)
        \/ Dropped(c) /\ lease' = lease
    BY <1>2 DEF TakeoverEnds, SendInput, ReleaseMessage, CloseSettles, InputApplied, LiveFrameEnds,
       SuspendOperator, RefreshOperator, SelectDevice, aiSide
  <2>3. CASE UNCHANGED claims /\ lease' = lease
    BY <2>1, <2>3, RevokeAgrees
  <2>4. CASE GiveUp(c, status)
    BY <2>1, <2>4, GiveUpAgrees
  <2>5. CASE Dropped(c) /\ lease' = lease
    BY <2>1, <2>5, RevokeAgrees
  <2> QED BY <2>2, <2>3, <2>4, <2>5
<1>3. CASE InputFailed(c) \/ FrameFailed(c)
  <2>1. UNCHANGED <<alive, lease>>
    BY <1>3 DEF InputFailed, FrameFailed, Done, GoTo, aiSide
  <2>2. (Authorized(c) /\ ReportError(c)) \/ Revoke(c)
    BY <1>3 DEF InputFailed, FrameFailed
  <2> QED BY <2>1, <2>2, RevokeAgrees, ReportErrorAgrees
<1>4. CASE Input(c) \/ RefreshScreen(c) \/ LiveFrame(c)
  <2>1. lease' = lease /\ alive' = alive
    BY <1>4 DEF Input, RefreshScreen, LiveFrame, GoTo, conn, aiSide
  <2>2. UNCHANGED <<owner, status>> \/ GiveUp(c, status)
    BY <1>4 DEF Input, RefreshScreen, LiveFrame
  <2> QED BY <2>1, <2>2, GiveUpAgrees, StillAgrees DEF ClaimsAgree, ClaimedMeansHuman
<1>5. CASE Close(c)
  <2>1. UNCHANGED <<owner, status, lease>> /\ alive' \subseteq alive
    BY <1>5 DEF Close, claims, aiSide
  <2> QED BY <2>1, StillAgrees DEF ClaimsAgree, ClaimedMeansHuman
<1>6. CASE Connect(c)
  <2>1. UNCHANGED <<owner, status, lease>> /\ alive' = alive \cup {c} /\ selected[c] = NoDevice
    BY <1>6 DEF Connect, claims, aiSide
  <2>2. \A d \in Devices : owner[d] # c
    BY <2>1, HumanControlAssumption DEF PInv, SelectionOwnsDevice
  <2> QED BY <2>1, <2>2 DEF ClaimsAgree, InUseMeansClaimed, ClaimedMeansHuman
<1>7. CASE \E d \in Devices : Takeover(c, d)
  <2>1. PICK d \in Devices : Takeover(c, d)
    BY <1>7
  <2>2. UNCHANGED <<owner, status, alive>>
    BY <2>1 DEF Takeover, claims, conn, GoTo
  <2>3. \A e \in Devices : owner[e] \in alive => CanHumanSelect(lease'[e])
    <3>1. lease \in [Devices -> Leases]
      BY DEF PInv, TypeOK
    <3>2. UNCHANGED lease \/ lease' = [lease EXCEPT ![d] = SwitchToHuman(lease[d])]
      BY <2>1 DEF Takeover
    <3>3. lease[d].mode = "HUMAN" => SwitchToHuman(lease[d]) = lease[d]
      BY DEF SwitchToHuman
    <3> QED BY <3>1, <3>2, <3>3 DEF ClaimsAgree, ClaimedMeansHuman, CanHumanSelect
  <2> QED BY <2>2, <2>3, StillAgrees
<1>8. CASE FrameArrived(c)
  <2>1. lease' = lease /\ alive' = alive
    BY <1>8 DEF FrameArrived, Done, GoTo, aiSide
  <2>2. CASE c \in alive /\ Authorized(c)
    <3>1. /\ owner[target[c]] = c /\ UNCHANGED owner
          /\ \E s \in {"in-use", status[target[c]]} : status' = [status EXCEPT ![target[c]] = s]
      BY <1>8, <2>2 DEF FrameArrived, Authorized, AccessActive
    <3>2. status \in Statuses
      BY DEF PInv, TypeOK, Statuses
    <3>3. PICK s \in {"in-use", status[target[c]]} : status' = [status EXCEPT ![target[c]] = s]
      BY <3>1
    <3>4. ASSUME NEW e \in Devices
          PROVE  /\ status'[e] = "in-use" => owner'[e] # Nobody
                 /\ owner'[e] \in alive' => status'[e] = "in-use"
                 /\ owner'[e] \in alive' => CanHumanSelect(lease'[e])
      <4>1. /\ status[e] = "in-use" => owner[e] # Nobody
            /\ owner[e] \in alive => status[e] = "in-use" /\ CanHumanSelect(lease[e])
        BY DEF ClaimsAgree, InUseMeansClaimed, ClaimedMeansHuman
      <4>2. status'[e] \in {status[e], "in-use"} /\ (status'[e] # status[e] => e = target[c])
        BY <3>2, <3>3 DEF Statuses
      <4> QED BY <1>1, <2>1, <3>1, <4>1, <4>2
    <3> QED BY <3>4 DEF ClaimsAgree, InUseMeansClaimed, ClaimedMeansHuman
  <2>3. CASE ~ (c \in alive /\ Authorized(c))
    BY <1>8, <2>1, <2>3, RevokeAgrees DEF FrameArrived
  <2> QED BY <2>2, <2>3
<1>9. CASE ClaimDevice(c)
  <2> DEFINE d == target[c]
             previous == {e \in Devices : owner[e] = c /\ selected[c] = e}
  <2>1. lease' = lease /\ alive' = alive
    BY <1>9 DEF ClaimDevice, Done, GoTo, aiSide
  <2>2. CASE UNCHANGED claims
    BY <2>1, <2>2, RevokeAgrees
  <2>3. CASE ~UNCHANGED claims
    <3>1. /\ CanOpen(c, d)
          /\ owner' = [e \in Devices |-> IF e = d THEN c ELSE IF e \in previous THEN Nobody ELSE owner[e]]
          /\ status' = [e \in Devices |->
                          IF e = d THEN "in-use"
                          ELSE IF e \in previous /\ status[e] # "offline" THEN "idle" ELSE status[e]]
      BY <1>9, <2>3 DEF ClaimDevice
    <3>2. CanHumanSelect(lease[d])
      BY <3>1 DEF CanOpen
    <3>3. ASSUME NEW e \in Devices
          PROVE  /\ status'[e] = "in-use" => owner'[e] # Nobody
                 /\ owner'[e] \in alive' => status'[e] = "in-use"
                 /\ owner'[e] \in alive' => CanHumanSelect(lease'[e])
      <4>1. CASE e = d
        BY <1>1, <2>1, <3>1, <3>2, <4>1
      <4>2. CASE e # d
        <5>1. /\ owner'[e] = IF e \in previous THEN Nobody ELSE owner[e]
              /\ status'[e] = IF e \in previous /\ status[e] # "offline" THEN "idle" ELSE status[e]
          BY <3>1, <4>2
        <5>2. /\ status[e] = "in-use" => owner[e] # Nobody
              /\ owner[e] \in alive => status[e] = "in-use" /\ CanHumanSelect(lease[e])
          BY DEF ClaimsAgree, InUseMeansClaimed, ClaimedMeansHuman
        <5>3. Nobody \notin alive'
          BY <1>1 DEF PInv, TypeOK
        <5> QED BY <2>1, <5>1, <5>2, <5>3
      <4> QED BY <4>1, <4>2
    <3> QED BY <3>3 DEF ClaimsAgree, InUseMeansClaimed, ClaimedMeansHuman
  <2> QED BY <2>2, <2>3
<1> QED BY <1>2, <1>3, <1>4, <1>5, <1>6, <1>7, <1>8, <1>9 DEF ConnectionNext, HandlerStep

\* The steps of phones and of the AI side: a dispatch, a switch or a late
\* settlement never touches the lease of a phone that a connected person has.
LEMMA DeviceAgrees ==
  ASSUME PInv, PInv', ClaimsAgree, NEW d \in Devices, DeviceNext(d)
  PROVE  ClaimsAgree'
<1>1. /\ alive' = alive /\ alive' \in SUBSET Connections /\ status \in Statuses
      /\ lease \in [Devices -> Leases] /\ LeaseOK(lease[d])
  BY DEF DeviceNext, PathLost, PathReady, Dispatch, AiSettles, AiFinishes, HandoffTimeout,
     SwitchDeviceToAI, EmergencyStopDevice, AiActs, conn, PInv, TypeOK, Statuses
<1>2. Lost \in SUBSET Connections
  BY <1>1, LostAreConnections
<1>3. CASE Release(Lost, status)
  BY <1>1, <1>2, <1>3, ReleaseAgrees
<1>4. CASE PathLost(d)
  <2>1. PICK s \in {status[d], "offline"} : Release(Lost, [status EXCEPT ![d] = s])
    BY <1>4 DEF PathLost
  <2> DEFINE st == [status EXCEPT ![d] = s]
  <2>2. st \in Statuses
    BY <1>1, <2>1 DEF Statuses
  <2>3. owner[d] \notin alive' \ Lost
    <3>1. owner[d] \in alive' => selected[owner[d]] = d /\ d # NoDevice
      BY <1>1, HumanControlAssumption DEF PInv, SelectionOwnsDevice
    <3>2. d \notin ready'
      BY <1>4 DEF PathLost
    <3> QED BY <3>1, <3>2 DEF Lost
  <2>4. \A e \in Devices : st[e] = status[e] \/ (st[e] = "offline" /\ owner[e] \notin alive' \ Lost)
    BY <1>1, <2>1, <2>3 DEF Statuses
  <2> HIDE DEF st
  <2>5. Release(Lost, st)
    BY <2>1 DEF st
  <2> QED BY <1>1, <1>2, <2>2, <2>4, <2>5, ReleaseAgrees
<1>5. CASE PathReady(d)
  <2>1. /\ UNCHANGED <<owner, lease>>
        /\ status' = [status EXCEPT ![d] = IF status[d] = "in-use" THEN status[d] ELSE "idle"]
    BY <1>5 DEF PathReady, aiSide
  <2> QED BY <1>1, <2>1 DEF ClaimsAgree, InUseMeansClaimed, ClaimedMeansHuman, Statuses
<1>6. CASE AiSettles(d) \/ HandoffTimeout(d) \/ \E t \in Tasks : AiActs(d, t)
  <2>1. UNCHANGED claims /\ ~CanHumanSelect(lease[d])
        /\ \E m \in {Settle(lease[d]), HandoffTimedOut(lease[d])}
                    \cup {RegisterPendingAiAction(lease[d], t) : t \in Tasks} :
             lease' = [lease EXCEPT ![d] = m]
    BY <1>1, <1>6 DEF AiSettles, HandoffTimeout, AiActs, CanHumanSelect, LeaseOK
  <2>2. \A e \in Devices : owner[e] \in alive => e # d /\ lease'[e] = lease[e]
    BY <1>1, <2>1 DEF ClaimsAgree, ClaimedMeansHuman
  <2> QED BY <1>1, <2>1, <2>2, StillAgrees DEF claims, ClaimsAgree, ClaimedMeansHuman
<1> QED BY <1>3, <1>4, <1>5, <1>6 DEF DeviceNext, Dispatch, AiFinishes, SwitchDeviceToAI, EmergencyStopDevice

\* For the phones of one site: owner table, status and lease agree at every
\* moment, whatever is revoked, fails, times out or arrives late: no phone stays
\* in use without a user, none with a user is free for the queue, and none that a
\* connected person has is in AI hands.
THEOREM ClaimsStayInAgreement ==
  ASSUME Remote = {}
  PROVE  Spec => []ClaimsAgree
<1>1. Init => ClaimsAgree
  BY HumanControlAssumption DEF Init, ClaimsAgree, InUseMeansClaimed, ClaimedMeansHuman
<1>2. PInv /\ PInv' /\ ClaimsAgree /\ [Next]_vars => ClaimsAgree'
  <2> SUFFICES ASSUME PInv, PInv', ClaimsAgree, [Next]_vars PROVE ClaimsAgree'
    OBVIOUS
  <2>1. CASE UNCHANGED vars
    BY <2>1 DEF vars, conn, claims, aiSide, ClaimsAgree, InUseMeansClaimed, ClaimedMeansHuman
  <2> QED BY <2>1, ConnectionAgrees, DeviceAgrees DEF Next
<1> QED BY <1>1, <1>2, PeopleInvariance, PTL DEF Spec

-----------------------------------------------------------------------------
(* The refinement of ExclusiveInput, as long as nothing is revoked.        *)

\* Without revocations an open connection may control every phone, a claimed
\* phone is ready, in use and its person's, even after the connection closed, and
\* a call in flight is for the phone that is still selected.
Entitled ==
  /\ \A c \in alive : access[c] = Devices
  /\ \A d \in Devices :
       owner[d] # Nobody => d \in ready /\ status[d] = "in-use" /\ CanHumanSelect(lease[d])
  /\ \A c \in Connections : at[c] \in Calls => selected[c] = target[c]

\* Nobody loses a selection to a step that leaves paths, and the leases of
\* claimed phones, as they were.
LEMMA NobodyLoses ==
  ASSUME PInv, Entitled, \A c \in alive' : c \in Connections /\ access'[c] = Devices,
         ready \subseteq ready',
         \A d \in Devices : owner[d] # Nobody => CanHumanSelect(lease'[d])
  PROVE  Lost = {}
<1> SUFFICES ASSUME NEW c \in Lost PROVE FALSE
  OBVIOUS
<1>1. c \in Connections /\ c \in alive' /\ selected[c] # NoDevice
  BY DEF Lost
<1>2. selected[c] \in Devices /\ owner[selected[c]] = c
  BY <1>1 DEF PInv, TypeOK, SelectionOwnsDevice
<1>3. c # Nobody
  BY <1>1, HumanControlAssumption
<1> QED BY <1>1, <1>2, <1>3 DEF Lost, Entitled

\* Connections that give up while they wait for no call leave everybody entitled.
LEMMA ReleaseEntitled ==
  ASSUME PInv, Entitled, NEW R \in SUBSET Connections, NEW st \in Statuses, Release(R, st),
         \A d \in Devices : owner[d] \notin R => st[d] = status[d] \/ owner[d] = Nobody,
         \A c \in alive' : access'[c] = Devices,
         ready' = ready,
         \A d \in Devices : owner[d] # Nobody => CanHumanSelect(lease'[d]),
         \A c \in R : at'[c] \notin Calls,
         Moves
  PROVE  Entitled'
<1>1. /\ \A c \in Connections : selected'[c] = IF c \in R THEN NoDevice ELSE selected[c]
      /\ \A d \in Devices : owner'[d] = IF owner[d] \in R THEN Nobody ELSE owner[d]
      /\ \A d \in Devices :
           status'[d] = IF owner[d] \in R /\ st[d] # "offline" THEN "idle" ELSE st[d]
  BY ReleaseEffect
<1>2. ASSUME NEW d \in Devices, owner'[d] # Nobody
      PROVE  d \in ready' /\ status'[d] = "in-use" /\ CanHumanSelect(lease'[d])
  BY <1>1, <1>2 DEF Entitled
<1>3. ASSUME NEW c \in Connections, at'[c] \in Calls
      PROVE  selected'[c] = target'[c]
  BY <1>1, <1>3 DEF Entitled, Moves
<1> QED BY <1>2, <1>3 DEF Entitled

\* The same where no claim changes.
LEMMA StillEntitled ==
  ASSUME Entitled, UNCHANGED <<selected, owner, status>>,
         \A c \in alive' : access'[c] = Devices,
         ready \subseteq ready',
         \A d \in Devices : owner[d] # Nobody => CanHumanSelect(lease'[d]),
         \A c \in Connections : at'[c] \in Calls => selected[c] = target'[c]
  PROVE  Entitled'
BY DEF Entitled

\* A connection's step that gives up its own selection, in a state in which its
\* handler waits for no call.
LEMMA GiveUpEntitled ==
  ASSUME PInv, PInv', Entitled, NEW c \in Connections, NEW st \in Statuses, GiveUp(c, st),
         \A d \in Devices : st[d] = status[d] \/ owner[d] = c,
         UNCHANGED <<alive, access, ready, lease>>, at'[c] \notin Calls, Moves
  PROVE  Entitled'
<1>1. \A b \in alive' : b \in Connections /\ access'[b] = Devices
  BY DEF PInv, TypeOK, Entitled
<1>2. \A d \in Devices : owner[d] # Nobody => CanHumanSelect(lease'[d])
  BY DEF Entitled
<1>3. Lost = {}
  BY <1>1, <1>2, NobodyLoses
<1>4. {c} \cup Lost = {c}
  BY <1>3
<1>5. Release({c}, st)
  BY <1>4 DEF GiveUp
<1> QED BY <1>1, <1>2, <1>5, ReleaseEntitled

\* While it is open, a connection may act on what it has selected.
LEMMA OpenMeansActive ==
  ASSUME PInv, Entitled, NEW c \in alive, selected[c] # NoDevice
  PROVE  AccessActive(c, selected[c])
<1>1. c \in Connections /\ selected[c] \in Devices
  BY DEF PInv, TypeOK
<1>2. owner[selected[c]] = c /\ c # Nobody
  BY <1>1, HumanControlAssumption DEF PInv, SelectionOwnsDevice
<1> QED BY <1>1, <1>2 DEF Entitled, AccessActive

\* The end of a call, whatever it does to the claim.
LEMMA CallEnds ==
  ASSUME PInv, PInv', Entitled, NEW c \in Connections, at[c] \in Calls, Done(c),
         UNCHANGED <<ready, lease>>,
         ReportError(c) \/ Revoke(c) \/ Dropped(c) \/ UNCHANGED <<selected, owner, status>>
  PROVE  Entitled'
<1>1. /\ UNCHANGED <<alive, access>> /\ status \in Statuses
      /\ at \in [Connections -> Handlers] /\ target \in [Connections -> Devices \cup {NoDevice}]
  BY DEF Done, GoTo, PInv, TypeOK, Statuses
<1>2. at'[c] \notin Calls /\ \A b \in Connections \ {c} : at'[b] = at[b] /\ target'[b] = target[b]
  BY <1>1 DEF Done, GoTo, Calls
<1>3. Moves
  BY <1>2 DEF Moves
<1>4. owner[target[c]] = c /\ target[c] \in Devices
  <2>1. target[c] \in Devices
    BY BusyHasPhone DEF Calls
  <2> QED BY <2>1 DEF Entitled, PInv, SelectionOwnsDevice
<1>5. CASE UNCHANGED <<selected, owner, status>>
  BY <1>1, <1>3, <1>5, StillEntitled DEF Entitled, Moves
<1>6. CASE GiveUp(c, status)
  BY <1>1, <1>2, <1>3, <1>6, GiveUpEntitled
<1>7. CASE GiveUp(c, [status EXCEPT ![target[c]] = "offline"])
  <2> DEFINE st == [status EXCEPT ![target[c]] = "offline"]
  <2>1. st \in Statuses /\ \A d \in Devices : st[d] = status[d] \/ owner[d] = c
    BY <1>1, <1>4 DEF Statuses
  <2>2. GiveUp(c, st)
    BY <1>7
  <2> HIDE DEF st
  <2> QED BY <1>1, <1>2, <1>3, <2>1, <2>2, GiveUpEntitled
<1> QED BY <1>5, <1>6, <1>7 DEF ReportError, Revoke, Dropped, claims

\* Every connection's step, without revocations.
LEMMA ConnectionEntitled ==
  ASSUME PInv, PInv', Entitled, ~Revocations, NEW c \in Connections, ConnectionNext(c)
  PROVE  Entitled'
<1>1. /\ \A b \in alive : access[b] = Devices
      /\ \A d \in Devices : owner[d] # Nobody => CanHumanSelect(lease[d])
      /\ at \in [Connections -> Handlers] /\ target \in [Connections -> Devices \cup {NoDevice}]
      /\ selected \in [Connections -> Devices \cup {NoDevice}]
      /\ access \in [Connections -> SUBSET Devices] /\ alive \subseteq Connections
      /\ status \in Statuses
  BY DEF Entitled, PInv, TypeOK, Statuses
<1>2. CASE InputFailed(c) \/ FrameFailed(c)
  <2>1. at[c] \in Calls /\ Done(c) /\ UNCHANGED <<ready, lease>> /\ (ReportError(c) \/ Revoke(c))
    BY <1>2 DEF InputFailed, FrameFailed, Calls, aiSide
  <2> QED BY <2>1, CallEnds
<1>3. CASE InputApplied(c)
  <2>1. at[c] \in Calls /\ UNCHANGED <<ready, lease>>
    BY <1>3 DEF InputApplied, Calls, aiSide
  <2>2. CASE Done(c)
    <3>1. UNCHANGED <<selected, owner, status>> \/ Dropped(c)
      BY <1>3 DEF InputApplied, claims
    <3> QED BY <2>1, <2>2, <3>1, CallEnds
  <2>3. CASE ~Done(c)
    <3>1. GoTo(c, "refresh", target[c]) /\ UNCHANGED <<selected, owner, status>>
      BY <1>3, <2>3 DEF InputApplied, claims
    <3>2. \A b \in Connections : at'[b] \in Calls => selected[b] = target'[b]
      BY <1>1, <2>1, <3>1 DEF GoTo, Entitled
    <3> QED BY <1>1, <2>1, <3>1, <3>2, StillEntitled DEF GoTo
  <2> QED BY <2>2, <2>3
<1>4. CASE FrameArrived(c)
  <2>1. at[c] \in Calls /\ Done(c) /\ UNCHANGED <<ready, lease>>
    BY <1>4 DEF FrameArrived, Calls, aiSide
  <2>2. Dropped(c) \/ UNCHANGED <<selected, owner, status>>
    <3>1. CASE c \in alive /\ Authorized(c)
      <4>1. owner[target[c]] = c /\ target[c] \in Devices
        BY <2>1, <3>1, BusyHasPhone DEF Authorized, AccessActive, Calls
      <4>2. status[target[c]] = "in-use"
        BY <4>1, HumanControlAssumption DEF Entitled
      <4>3. status' = [status EXCEPT ![target[c]] = status[target[c]]] /\ UNCHANGED <<selected, owner>>
        BY <1>4, <3>1, <4>2 DEF FrameArrived
      <4> QED BY <1>1, <4>3 DEF Statuses
    <3>2. CASE ~ (c \in alive /\ Authorized(c))
      BY <1>4, <3>2 DEF FrameArrived
    <3> QED BY <3>1, <3>2
  <2> QED BY <2>1, <2>2, CallEnds
<1>5. CASE TakeoverEnds(c) \/ SendInput(c) \/ \E d \in Devices : SelectDevice(c, d)
  <2>1. UNCHANGED <<selected, owner, status, ready, lease, alive, access>>
    BY <1>5 DEF TakeoverEnds, SendInput, SelectDevice, Done, GoTo, claims, aiSide
  <2>2. \A b \in Connections : at'[b] \in Calls => selected[b] = target'[b]
    <3>1. \/ Done(c) \/ (at[c] = "prepare" /\ GoTo(c, "sent", target[c]))
          \/ \E d \in Devices : GoTo(c, "claim", d)
      <4>1. at[c] # "idle" => target[c] \in Devices
        BY BusyHasPhone
      <4> QED BY <1>5, <4>1 DEF TakeoverEnds, SendInput, SelectDevice
    <3> QED BY <1>1, <3>1 DEF Done, GoTo, Entitled, Calls
  <2> QED BY <1>1, <2>1, <2>2, StillEntitled
<1>6. CASE \E d \in Devices : Takeover(c, d)
  <2>1. PICK d \in Devices : Takeover(c, d)
    BY <1>6
  <2>2. UNCHANGED <<selected, owner, status, ready, alive, access>>
    BY <2>1 DEF Takeover, GoTo, claims, conn
  <2>3. \A e \in Devices : owner[e] # Nobody => CanHumanSelect(lease'[e])
    <3>1. lease \in [Devices -> Leases]
      BY DEF PInv, TypeOK
    <3>2. UNCHANGED lease \/ lease' = [lease EXCEPT ![d] = SwitchToHuman(lease[d])]
      BY <2>1 DEF Takeover
    <3>3. lease[d].mode = "HUMAN" => SwitchToHuman(lease[d]) = lease[d]
      BY DEF SwitchToHuman
    <3> QED BY <1>1, <3>1, <3>2, <3>3 DEF CanHumanSelect
  <2>4. \A b \in Connections : at'[b] \in Calls => selected[b] = target'[b]
    BY <1>1, <2>1 DEF Takeover, GoTo, conn, Entitled, Calls
  <2> QED BY <1>1, <2>2, <2>3, <2>4, StillEntitled
<1>7. CASE Input(c) \/ RefreshScreen(c) \/ LiveFrame(c)
  <2>1. AccessActive(c, selected[c])
    BY <1>7, OpenMeansActive DEF Input, RefreshScreen, LiveFrame, Idle
  <2>2. UNCHANGED <<selected, owner, status, ready, lease, alive, access>>
    BY <1>7, <2>1 DEF Input, RefreshScreen, LiveFrame, GoTo, aiSide
  <2>3. \A b \in Connections : at'[b] \in Calls => selected[b] = target'[b]
    BY <1>1, <1>7, <2>1 DEF Input, RefreshScreen, LiveFrame, GoTo, Entitled
  <2> QED BY <1>1, <2>2, <2>3, StillEntitled
<1>8. CASE LiveFrameEnds(c)
  <2>1. UNCHANGED claims
    BY <1>8, OpenMeansActive DEF LiveFrameEnds
  <2> QED BY <1>1, <1>8, <2>1, StillEntitled DEF LiveFrameEnds, claims, aiSide, Entitled
<1>9. CASE ReleaseMessage(c) \/ CloseSettles(c)
  <2>1. GiveUp(c, status) /\ UNCHANGED <<alive, access, ready, lease, at, target>> /\ at[c] = "idle"
    BY <1>9 DEF ReleaseMessage, CloseSettles, Idle, conn, aiSide
  <2>2. at'[c] \notin Calls /\ Moves
    BY <2>1 DEF Moves, Calls
  <2> QED BY <1>1, <2>1, <2>2, GiveUpEntitled
<1>10. CASE Close(c) \/ Connect(c)
  <2>1. UNCHANGED <<selected, owner, status, ready, lease, at, target>>
    BY <1>10 DEF Close, Connect, claims, aiSide
  <2>2. \A b \in alive' : access'[b] = Devices
    BY <1>1, <1>10 DEF Close, Connect
  <2> QED BY <1>1, <2>1, <2>2, StillEntitled DEF Entitled
<1>11. CASE ClaimDevice(c)
  <2> DEFINE d == target[c]
             previous == {e \in Devices : owner[e] = c /\ selected[c] = e}
  <2>1. lease' = lease /\ UNCHANGED <<alive, access, ready>> /\ at[c] = "claim"
    BY <1>11 DEF ClaimDevice, Done, GoTo, aiSide
  <2>2. CASE UNCHANGED claims /\ Done(c)
    <3>1. \A b \in Connections : at'[b] \in Calls => selected[b] = target'[b]
      BY <1>1, <2>2 DEF Done, GoTo, Entitled, Calls
    <3> QED BY <1>1, <2>1, <2>2, <3>1, StillEntitled DEF claims
  <2>3. CASE ~(UNCHANGED claims /\ Done(c))
    <3>1. /\ CanOpen(c, d) /\ GoTo(c, "frame", d)
          /\ selected' = [selected EXCEPT ![c] = d]
          /\ owner' = [e \in Devices |-> IF e = d THEN c ELSE IF e \in previous THEN Nobody ELSE owner[e]]
          /\ status' = [e \in Devices |->
                          IF e = d THEN "in-use"
                          ELSE IF e \in previous /\ status[e] # "offline" THEN "idle" ELSE status[e]]
      BY <1>11, <2>3 DEF ClaimDevice
    <3>2. d \in ready /\ CanHumanSelect(lease[d])
      BY <3>1 DEF CanOpen
    <3>3. ASSUME NEW e \in Devices, owner'[e] # Nobody
          PROVE  e \in ready' /\ status'[e] = "in-use" /\ CanHumanSelect(lease'[e])
      <4>1. CASE e = d
        BY <2>1, <3>1, <3>2, <4>1
      <4>2. CASE e # d
        <5>1. e \notin previous /\ owner'[e] = owner[e] /\ status'[e] = status[e]
          BY <3>1, <3>3, <4>2
        <5> QED BY <2>1, <3>3, <5>1 DEF Entitled
      <4> QED BY <4>1, <4>2
    <3>4. \A b \in Connections : at'[b] \in Calls => selected'[b] = target'[b]
      BY <1>1, <3>1 DEF GoTo, Entitled
    <3> QED BY <1>1, <2>1, <3>3, <3>4 DEF Entitled
  <2> QED BY <2>2, <2>3
<1>12. ~SuspendOperator(c) /\ \A D \in SUBSET Devices : ~RefreshOperator(c, D)
  BY DEF SuspendOperator, RefreshOperator
<1> QED BY <1>2, <1>3, <1>4, <1>5, <1>6, <1>7, <1>8, <1>9, <1>10, <1>11, <1>12
        DEF ConnectionNext, HandlerStep

\* Every step of a phone or of the AI side, without revocations.
LEMMA DeviceEntitled ==
  ASSUME PInv, PInv', Entitled, ~Revocations, NEW d \in Devices, DeviceNext(d)
  PROVE  Entitled'
<1>1. /\ UNCHANGED <<alive, access, at, target>> /\ alive \subseteq Connections
      /\ status \in Statuses /\ lease \in [Devices -> Leases]
      /\ \A b \in alive : access[b] = Devices
      /\ LeaseOK(lease[d])
  BY DEF DeviceNext, PathLost, PathReady, Dispatch, AiSettles, AiFinishes, HandoffTimeout,
     SwitchDeviceToAI, EmergencyStopDevice, AiActs, conn, PInv, TypeOK, Statuses, Entitled
<1>2. ~PathLost(d)
  BY DEF PathLost
<1>3. CASE PathReady(d)
  <2>1. UNCHANGED <<selected, owner, lease>> /\ ready' = ready \cup {d}
        /\ status' = [status EXCEPT ![d] = IF status[d] = "in-use" THEN status[d] ELSE "idle"]
    BY <1>3 DEF PathReady, aiSide
  <2>2. \A e \in Devices : status[e] = "in-use" => status'[e] = "in-use"
    BY <1>1, <2>1 DEF Statuses
  <2> QED BY <1>1, <2>1, <2>2 DEF Entitled
<1>4. CASE ~PathReady(d)
  <2>1. ready' = ready
    BY <1>2, <1>4 DEF DeviceNext, Dispatch, AiSettles, AiFinishes, HandoffTimeout,
       SwitchDeviceToAI, EmergencyStopDevice, AiActs
  <2>2. \A e \in Devices : owner[e] # Nobody => CanHumanSelect(lease'[e])
    <3>1. owner[d] # Nobody => status[d] = "in-use" /\ CanHumanSelect(lease[d])
      BY DEF Entitled
    <3>2. \/ owner[d] = Nobody
          \/ lease' = [lease EXCEPT ![d] = EmergencyStop(lease[d])] /\ CanHumanSelect(lease[d])
      BY <1>1, <1>2, <1>4, <3>1 DEF DeviceNext, Dispatch, AiSettles, AiFinishes, HandoffTimeout,
         SwitchDeviceToAI, EmergencyStopDevice, AiActs, CanHumanSelect, LeaseOK
    <3>3. \A e \in Devices \ {d} : lease'[e] = lease[e]
      BY <1>1, <1>2, <1>4 DEF DeviceNext, Dispatch, AiSettles, AiFinishes, HandoffTimeout,
         SwitchDeviceToAI, EmergencyStopDevice, AiActs
    <3>4. EmergencyStop(lease[d]).mode = "HUMAN" /\ EmergencyStop(lease[d]).pending = lease[d].pending
      BY <1>1, StopLemma
    <3> QED BY <1>1, <3>2, <3>3, <3>4 DEF Entitled, CanHumanSelect
  <2>3. CASE UNCHANGED claims
    BY <1>1, <2>1, <2>2, <2>3, StillEntitled DEF claims, Entitled
  <2>4. CASE Release(Lost, status)
    <3>1. Lost = {}
      BY <1>1, <2>1, <2>2, NobodyLoses
    <3>2. Release({}, status)
      BY <2>4, <3>1
    <3>3. Moves
      BY <1>1 DEF Moves
    <3> QED BY <1>1, <2>1, <2>2, <3>2, <3>3, ReleaseEntitled
  <2> QED BY <1>2, <1>4, <2>3, <2>4 DEF DeviceNext, Dispatch, AiSettles, AiFinishes, HandoffTimeout,
          SwitchDeviceToAI, EmergencyStopDevice, AiActs
<1> QED BY <1>3, <1>4

\* The first state, and every step without revocations.
LEMMA EntitledInvariance ==
  ASSUME ~Revocations
  PROVE  Spec => []Entitled
<1>1. Init => Entitled
  BY DEF Init, Entitled, Calls
<1>2. PInv /\ PInv' /\ Entitled /\ [Next]_vars => Entitled'
  <2> SUFFICES ASSUME PInv, PInv', Entitled, [Next]_vars PROVE Entitled'
    OBVIOUS
  <2>1. CASE UNCHANGED vars
    BY <2>1 DEF vars, conn, claims, aiSide, Entitled
  <2> QED BY <2>1, ConnectionEntitled, DeviceEntitled DEF Next
<1> QED BY <1>1, <1>2, PeopleInvariance, PTL DEF Spec

\* The refinement mapping: phone -> the parties whose input is in flight on it.
Drivers == [d \in Devices |-> Driving(d)]

\* A person whose input is in flight has the phone, alone.
LEMMA PersonDrivesAlone ==
  ASSUME PInv, Entitled, NEW c \in Connections, at[c] = "sent"
  PROVE  target[c] \in Devices /\ owner[target[c]] = c /\ Driving(target[c]) = {c}
<1> DEFINE d == target[c]
<1>1. d \in Devices
  BY BusyHasPhone
<1>2. \A b \in Connections : at[b] = "sent" /\ target[b] = d => owner[d] = b
  BY <1>1 DEF Entitled, Calls, PInv, SelectionOwnsDevice
<1>3. lease[d].pending = NoTask
  BY <1>1, <1>2, HumanControlAssumption DEF Entitled, CanHumanSelect
<1> QED BY <1>1, <1>2, <1>3 DEF Driving

\* Nobody's input is in flight on a phone of which no person's is and whose lease
\* has nothing pending.
LEMMA NobodyDrives ==
  ASSUME NEW d \in Devices, lease[d].pending = NoTask,
         \A c \in Connections : ~(at[c] = "sent" /\ target[c] = d)
  PROVE  Driving(d) = {}
BY DEF Driving

\* A step that begins or ends no input maps to a stutter.
LEMMA DrivingStays ==
  ASSUME \A c \in Connections : (at'[c] = "sent" <=> at[c] = "sent")
                                /\ (at[c] = "sent" => target'[c] = target[c]),
         \A d \in Devices : lease'[d].pending = lease[d].pending
  PROVE  Drivers' = Drivers
<1>1. \A d \in Devices : Driving(d)' = Driving(d)
  BY DEF Driving
<1> QED BY <1>1 DEF Drivers

\* A person's input goes out: Begin of the abstract specification.
LEMMA SendInputBegins ==
  ASSUME PInv, Entitled, NEW c \in Connections, SendInput(c)
  PROVE  Exclusive!Begin(target[c], c) /\ target[c] \in Devices
<1> DEFINE d == target[c]
<1>1. d \in Devices /\ c # Nobody
  BY BusyHasPhone, HumanControlAssumption DEF SendInput
<1>2. owner[d] = c /\ lease[d].pending = NoTask /\ at[c] # "sent"
  BY DEF SendInput, Authorized, AccessActive, CanHumanSelect
<1>3. \A b \in Connections : ~(at[b] = "sent" /\ target[b] = d)
  BY <1>2, PersonDrivesAlone
<1>4. Driving(d) = {}
  BY <1>1, <1>2, <1>3, NobodyDrives
<1>5. /\ lease' = lease
      /\ at'[c] = "sent" /\ target'[c] = d
      /\ \A b \in Connections \ {c} : at'[b] = at[b] /\ target'[b] = target[b]
  BY DEF SendInput, GoTo, aiSide, PInv, TypeOK
<1>6. \A e \in Devices : Driving(e)' = IF e = d THEN {c} ELSE Driving(e)
  <2> SUFFICES ASSUME NEW e \in Devices PROVE Driving(e)' = IF e = d THEN {c} ELSE Driving(e)
    OBVIOUS
  <2>1. CASE e = d
    BY <1>2, <1>3, <1>5, <2>1 DEF Driving
  <2>2. CASE e # d
    BY <1>2, <1>5, <2>2 DEF Driving
  <2> QED BY <2>1, <2>2
<1>7. Drivers' = [Drivers EXCEPT ![d] = {c}] /\ Drivers[d] = {}
  BY <1>1, <1>4, <1>6 DEF Drivers
<1> QED BY <1>1, <1>7 DEF Exclusive!Begin, Drivers

\* The answer to a person's input, or its failure: End.
LEMMA AnswerEnds ==
  ASSUME PInv, Entitled, NEW c \in Connections, at[c] = "sent", InputApplied(c) \/ InputFailed(c)
  PROVE  Exclusive!End(target[c]) /\ target[c] \in Devices
<1> DEFINE d == target[c]
<1>1. d \in Devices /\ Driving(d) = {c}
  BY PersonDrivesAlone
<1>2. /\ lease' = lease
      /\ at'[c] # "sent"
      /\ \A b \in Connections \ {c} : at'[b] = at[b] /\ target'[b] = target[b]
  BY DEF InputApplied, InputFailed, Done, GoTo, aiSide, PInv, TypeOK
<1>3. \A e \in Devices : Driving(e)' = IF e = d THEN {} ELSE Driving(e)
  <2> SUFFICES ASSUME NEW e \in Devices PROVE Driving(e)' = IF e = d THEN {} ELSE Driving(e)
    OBVIOUS
  <2>1. CASE e = d
    <3>1. \A b \in Connections : at'[b] = "sent" /\ target'[b] = d => b # c /\ b \in Driving(d)
      BY <1>2 DEF Driving
    <3>2. lease[d].pending = NoTask
      BY PersonDrivesAlone, HumanControlAssumption DEF Entitled, CanHumanSelect
    <3>3. \A b \in Connections : ~(at'[b] = "sent" /\ target'[b] = d)
      BY <1>1, <3>1
    <3> QED BY <1>2, <2>1, <3>2, <3>3 DEF Driving
  <2>2. CASE e # d
    BY <1>2, <2>2 DEF Driving
  <2> QED BY <2>1, <2>2
<1>4. Drivers' = [Drivers EXCEPT ![d] = {}] /\ Drivers[d] # {}
  BY <1>1, <1>3 DEF Drivers
<1> QED BY <1>1, <1>4 DEF Exclusive!End, Drivers

\* The AI's action starts and settles: Begin and End.
LEMMA AiBeginsAndEnds ==
  ASSUME PInv, Entitled, NEW d \in Devices
  PROVE  /\ \A t \in Tasks : AiActs(d, t) => Exclusive!Begin(d, t)
         /\ AiSettles(d) => Exclusive!End(d)
<1>1. lease \in [Devices -> Leases]
  BY DEF PInv, TypeOK
<1>2. \A c \in Connections : at[c] = "sent" => CanHumanSelect(lease[target[c]])
  BY PersonDrivesAlone, HumanControlAssumption DEF Entitled
<1>3. ASSUME NEW t \in Tasks, AiActs(d, t)
      PROVE  Exclusive!Begin(d, t)
  <2>1. /\ lease[d].mode = "AI_RUNNING" /\ lease[d].pending = NoTask
        /\ lease' = [lease EXCEPT ![d] = RegisterPendingAiAction(lease[d], t)]
        /\ UNCHANGED <<at, target>>
    BY <1>3 DEF AiActs, conn
  <2>2. \A c \in Connections : ~(at[c] = "sent" /\ target[c] = d)
    BY <1>2, <2>1 DEF CanHumanSelect
  <2>3. Driving(d) = {}
    BY <2>1, <2>2, NobodyDrives
  <2>4. RegisterPendingAiAction(lease[d], t).pending = t /\ t # NoTask
    BY <1>1, NoTaskAssumption DEF RegisterPendingAiAction, Leases
  <2>5. lease'[d].pending = t /\ \A e \in Devices \ {d} : lease'[e] = lease[e]
    BY <1>1, <2>1, <2>4
  <2>6. \A e \in Devices : Driving(e)' = IF e = d THEN {t} ELSE Driving(e)
    <3>1. Driving(d)' = {t}
      BY <2>1, <2>2, <2>4, <2>5 DEF Driving
    <3>2. \A e \in Devices \ {d} : Driving(e)' = Driving(e)
      BY <2>1, <2>5 DEF Driving
    <3> QED BY <3>1, <3>2
  <2>7. Drivers' = [Drivers EXCEPT ![d] = {t}] /\ Drivers[d] = {}
    BY <2>3, <2>6 DEF Drivers
  <2> QED BY <2>7 DEF Exclusive!Begin, Drivers
<1>4. ASSUME AiSettles(d)
      PROVE  Exclusive!End(d)
  <2>1. /\ lease[d].pending # NoTask /\ lease' = [lease EXCEPT ![d] = Settle(lease[d])]
        /\ UNCHANGED <<at, target>>
    BY <1>4 DEF AiSettles, conn
  <2>2. \A c \in Connections : ~(at[c] = "sent" /\ target[c] = d)
    BY <1>2, <2>1 DEF CanHumanSelect
  <2>3. lease[d] \in Leases /\ LeaseOK(lease[d])
    BY <1>1 DEF PInv
  <2>4. Settle(lease[d]).pending = NoTask
    BY <2>3, SettleLemma
  <2>5. lease'[d].pending = NoTask /\ \A e \in Devices \ {d} : lease'[e] = lease[e]
    BY <1>1, <2>1, <2>4
  <2>6. \A e \in Devices : Driving(e)' = IF e = d THEN {} ELSE Driving(e)
    <3>1. Driving(d)' = {}
      BY <2>1, <2>2, <2>5 DEF Driving
    <3>2. \A e \in Devices \ {d} : Driving(e)' = Driving(e)
      BY <2>1, <2>5 DEF Driving
    <3> QED BY <3>1, <3>2
  <2>7. Driving(d) # {}
    BY <2>1 DEF Driving
  <2>8. Drivers' = [Drivers EXCEPT ![d] = {}] /\ Drivers[d] # {}
    BY <2>6, <2>7 DEF Drivers
  <2> QED BY <2>8 DEF Exclusive!End, Drivers
<1> QED BY <1>3, <1>4

\* Every step maps to a step of the abstract specification, or to a stutter.
LEMMA StepRefines ==
  ASSUME PInv, PInv', Entitled, ~Revocations, [Next]_vars
  PROVE  [Exclusive!Next]_Drivers
<1>1. /\ at \in [Connections -> Handlers] /\ lease \in [Devices -> Leases]
      /\ \A d \in Devices : LeaseOK(lease[d])
  BY DEF PInv, TypeOK
<1>2. ASSUME NEW c \in Connections, ConnectionNext(c)
      PROVE  [Exclusive!Next]_Drivers
  <2>1. CASE SendInput(c)
    BY <2>1, SendInputBegins DEF Exclusive!Next
  <2>2. CASE at[c] = "sent" /\ (InputApplied(c) \/ InputFailed(c))
    BY <2>2, AnswerEnds DEF Exclusive!Next
  <2>3. CASE ~SendInput(c) /\ ~(at[c] = "sent" /\ (InputApplied(c) \/ InputFailed(c)))
    <3>1. \/ UNCHANGED <<at, target>>
          \/ \E s \in Handlers \ {"sent"}, d \in Devices \cup {NoDevice} : GoTo(c, s, d) /\ at[c] # "sent"
      <4>1. target[c] \in Devices \cup {NoDevice} /\ selected[c] \in Devices \cup {NoDevice}
        BY DEF PInv, TypeOK
      <4> QED BY <1>2, <2>3, <4>1 DEF ConnectionNext, HandlerStep, TakeoverEnds, ClaimDevice,
            InputApplied, InputFailed, FrameArrived, FrameFailed, Input, RefreshScreen, ReleaseMessage,
            LiveFrame, LiveFrameEnds, Close, CloseSettles, Connect, SuspendOperator, SelectDevice,
            Takeover, RefreshOperator, Done, conn, Handlers, Idle
    <3>2. \A b \in Connections : (at'[b] = "sent" <=> at[b] = "sent")
                                 /\ (at[b] = "sent" => target'[b] = target[b])
      BY <1>1, <3>1 DEF GoTo, PInv, TypeOK
    <3>3. \A d \in Devices : lease'[d].pending = lease[d].pending
      <4>1. lease' = lease \/ \E d \in Devices :
              CanSwitchToHuman(lease[d]) /\ lease' = [lease EXCEPT ![d] = SwitchToHuman(lease[d])]
        BY <1>2 DEF ConnectionNext, HandlerStep, TakeoverEnds, ClaimDevice, SendInput,
           InputApplied, InputFailed, FrameArrived, FrameFailed, Input, RefreshScreen, ReleaseMessage,
           LiveFrame, LiveFrameEnds, Close, CloseSettles, Connect, SuspendOperator, SelectDevice,
           Takeover, RefreshOperator, aiSide
      <4> QED BY <1>1, <4>1, ToHumanLemma
    <3> QED BY <3>2, <3>3, DrivingStays
  <2> QED BY <2>1, <2>2, <2>3
<1>3. ASSUME NEW d \in Devices, DeviceNext(d)
      PROVE  [Exclusive!Next]_Drivers
  <2>1. CASE AiSettles(d) \/ \E t \in Tasks : AiActs(d, t)
    BY <2>1, AiBeginsAndEnds DEF Exclusive!Next
  <2>2. CASE ~(AiSettles(d) \/ \E t \in Tasks : AiActs(d, t))
    <3>1. UNCHANGED <<at, target>>
      BY <1>3 DEF DeviceNext, PathLost, PathReady, Dispatch, AiSettles, AiFinishes, HandoffTimeout,
         SwitchDeviceToAI, EmergencyStopDevice, AiActs, conn
    <3>2. \A e \in Devices : lease'[e].pending = lease[e].pending
      <4>1. lease[d] \in Leases /\ LeaseOK(lease[d])
        BY <1>1
      <4>2. \/ lease' = lease
            \/ \E m \in Leases : m.pending = lease[d].pending /\ lease' = [lease EXCEPT ![d] = m]
        <5>1. CASE PathLost(d) \/ PathReady(d)
          BY <5>1 DEF PathLost, PathReady, aiSide
        <5>2. CASE Dispatch(d)
          BY <4>1, <5>2, StartTaskLemma DEF Dispatch
        <5>3. CASE AiFinishes(d)
          BY <4>1, <5>3, FinishLemma DEF AiFinishes
        <5>4. CASE HandoffTimeout(d)
          BY <4>1, <5>4, TimeoutLemma DEF HandoffTimeout
        <5>5. CASE SwitchDeviceToAI(d)
          BY <4>1, <5>5, ToAILemma DEF SwitchDeviceToAI
        <5>6. CASE EmergencyStopDevice(d)
          BY <4>1, <5>6, StopLemma DEF EmergencyStopDevice
        <5> QED BY <1>3, <2>2, <5>1, <5>2, <5>3, <5>4, <5>5, <5>6 DEF DeviceNext
      <4> QED BY <1>1, <4>2
    <3> QED BY <3>1, <3>2, DrivingStays
  <2> QED BY <2>1, <2>2
<1>4. CASE UNCHANGED vars
  BY <1>4, DrivingStays DEF vars, conn, aiSide
<1> QED BY <1>2, <1>3, <1>4 DEF Next

\* As long as nothing is revoked, HumanControl implements ExclusiveInput: input
\* begins only on a phone that nobody, person or AI, has input in flight on,
\* through takeovers, stops, closed connections, failing phones and handoffs that
\* time out, for phones of this site and of others.
THEOREM InputHasOneOwner ==
  ASSUME ~Revocations
  PROVE  Spec => InputIsExclusive
<1>1. Init => Exclusive!Init
  BY DEF Init, Exclusive!Init, Driving, NewLease
<1>2. PInv /\ PInv' /\ Entitled /\ [Next]_vars => [Exclusive!Next]_Drivers
  BY StepRefines
<1>3. Spec => Exclusive!Init /\ [][Exclusive!Next]_Drivers
  BY <1>1, <1>2, PeopleInvariance, EntitledInvariance, PTL DEF Spec
<1> QED BY <1>3, PTL DEF InputIsExclusive, Exclusive!Spec, Drivers
=============================================================================
