--------------------------- MODULE NetworkEnrollment ---------------------------
(***************************************************************************)
(* Which USB interface and address belong to which phone: found by two     *)
(* requests of an operator around a change they make by hand, one phone at *)
(* a time (networkEnrollmentLock.js, index.js), or by a loop that pairs    *)
(* what is unambiguous (autoNetworkEnrollment.js).  Both write one store   *)
(* (usbNetworkStore.js) and each waits for the host in between.            *)
(***************************************************************************)
EXTENDS Naturals, FiniteSets

CONSTANTS
  Handsets,        \* phones
  ByHand,          \* phones of devices.config.json, which the loop leaves alone
  Cables,          \* interfaces the host gives to phones on the bridge
  NoCable,         \* no interface
  Clerks,          \* requests under way at once
  MaxRequested,    \* bound: requests
  MaxPlugs         \* bound: changes of the host: plugs, bridged, quarantine

ASSUME EnrollmentAssumption ==
  /\ ByHand \subseteq Handsets /\ NoCable \notin Cables
  /\ {MaxRequested, MaxPlugs} \subseteq Nat

VARIABLES
  plugged,      \* phones the host sees on USB
  bridged,       \* phone -> its interface on the bridge of Internet Sharing
  usb,          \* phone -> the interface on record, and where its address was seen
  enrolling,    \* phone -> its entry of the lock
  identity,     \* phone -> the generation of its network identity
  up,           \* phones that have a route
  allowed,      \* the host may route: it is not quarantined
  clerk,        \* request -> how far it is
  tick,         \* the tick of the loop under way
  lastPlugged, validated,  \* attachedLastTick, validatedMappings
  halted,       \* stop() of the loop was called
  plugs, requested         \* counters of the bounds

enrollVars == <<plugged, bridged, usb, enrolling, identity, up, allowed, clerk, tick,
                lastPlugged, validated, halted, plugs, requested>>

NoMapping == [cable |-> NoCable, seen |-> NoCable]
NoSlot == [gen |-> 0, ready |-> FALSE, before |-> {}]
IdleClerk == [op |-> "none", at |-> "none", phone |-> CHOOSE d \in Handsets : TRUE, gen |-> 0,
              cable |-> NoCable, before |-> {}, disturbed |-> FALSE]
IdleTick == [at |-> "none", records |-> [d \in Handsets |-> NoMapping], left |-> {},
             phone |-> CHOOSE d \in Handsets : TRUE, cable |-> NoCable]

Mapping == [cable : Cables \cup {NoCable}, seen : Cables \cup {NoCable}]
Generations == 0..MaxRequested

EnrollTypeOK ==
  /\ plugged \subseteq Handsets /\ up \subseteq Handsets /\ allowed \in BOOLEAN
  /\ bridged \in [Handsets -> Cables \cup {NoCable}] /\ usb \in [Handsets -> Mapping]
  /\ enrolling \in [Handsets -> [gen : Generations, ready : BOOLEAN, before : SUBSET Cables]]
  /\ identity \in [Handsets -> Generations]
  /\ clerk \in [Clerks -> [op : {"none", "start", "cancel", "confirm", "discover", "route", "stop"},
                           at : {"none", "asked", "reading", "committing"}, phone : Handsets,
                           gen : Generations, cable : Cables \cup {NoCable},
                           before : SUBSET Cables, disturbed : BOOLEAN]]
  /\ tick.at \in {"none", "members", "picking", "capturing", "routing"}
  /\ tick.records \in [Handsets -> Mapping] /\ tick.left \subseteq Handsets
  /\ tick.phone \in Handsets /\ tick.cable \in Cables \cup {NoCable}
  /\ lastPlugged \subseteq Handsets /\ validated \subseteq Handsets /\ halted \in BOOLEAN
  /\ plugs \in 0..MaxPlugs /\ requested \in 0..MaxRequested

EnrollInit ==
  /\ plugged = {} /\ bridged = [d \in Handsets |-> NoCable]
  /\ usb = [d \in Handsets |-> NoMapping]
  /\ enrolling = [d \in Handsets |-> NoSlot] /\ identity = [d \in Handsets |-> 0]
  /\ up = {} /\ allowed = TRUE
  /\ clerk = [c \in Clerks |-> IdleClerk]
  /\ tick = IdleTick /\ lastPlugged = {} /\ validated = {} /\ halted = FALSE
  /\ plugs = 0 /\ requested = 0

Host == <<plugged, bridged, allowed, plugs>>
Loop == <<tick, lastPlugged, validated, halted>>

\* listBridgeMembers.
Members == {bridged[d] : d \in Handsets} \ {NoCable}

----------------------------------------------------------------------------
\* The host.

Plug(d) ==
  /\ plugs < MaxPlugs /\ plugs' = plugs + 1
  /\ \/ /\ d \notin plugged /\ plugged' = plugged \cup {d} /\ UNCHANGED bridged
     \/ /\ d \in plugged /\ plugged' = plugged \ {d}
        /\ bridged' = [bridged EXCEPT ![d] = NoCable]
     \/ /\ d \in plugged /\ bridged[d] = NoCable /\ UNCHANGED plugged
        /\ \E i \in Cables \ Members : bridged' = [bridged EXCEPT ![d] = i]
  /\ UNCHANGED <<usb, enrolling, identity, up, allowed, clerk, requested>> /\ UNCHANGED Loop

\* The host's routing is quarantined, or an administrator recovers it.
Quarantines ==
  /\ plugs < MaxPlugs /\ plugs' = plugs + 1 /\ allowed' = ~allowed
  /\ UNCHANGED <<plugged, bridged, usb, enrolling, identity, up, clerk, requested>>
  /\ UNCHANGED Loop

----------------------------------------------------------------------------
\* The lock.

\* active(): an entry that has expired is dropped by whoever looks.
ActiveEnrollments == {d \in Handsets : enrolling[d] # NoSlot}

\* Mutant: only the generation is compared.
SameGeneration(c) == identity[clerk[c].phone] = clerk[c].gen

\* isCurrent(): of a discovery, which has no entry, only the generation.
IsCurrent(c) ==
  /\ identity[clerk[c].phone] = clerk[c].gen
  /\ clerk[c].op # "discover" => enrolling[clerk[c].phone].gen = clerk[c].gen

\* clear() with a reservation.
WithoutMine(c) ==
  IF enrolling[clerk[c].phone].gen = clerk[c].gen
  THEN [enrolling EXCEPT ![clerk[c].phone] = NoSlot] ELSE enrolling

\* Requests on phone d whose evidence something else has overtaken.
Disturb(cs, d, ops) ==
  [c \in Clerks |-> IF c \notin cs /\ clerk[c].phone = d /\ clerk[c].op \in ops
                    THEN [clerk[c] EXCEPT !.disturbed = TRUE] ELSE clerk[c]]

Collecting == {"start", "confirm", "discover"}

Expires(d) ==
  /\ enrolling[d] # NoSlot
  /\ enrolling' = [enrolling EXCEPT ![d] = NoSlot]
  /\ clerk' = Disturb({}, d, {"start", "confirm"})
  /\ UNCHANGED <<usb, identity, up, requested>> /\ UNCHANGED Host /\ UNCHANGED Loop

----------------------------------------------------------------------------
\* The requests.  Authorization is awaited and may be refused at every step.

\* The clerk ends its request.
EndOf(c) == [clerk EXCEPT ![c] = IdleClerk]

EndsAsking(c) ==
  /\ clerk' = EndOf(c)
  /\ UNCHANGED <<usb, enrolling, identity, up, requested>> /\ UNCHANGED Host /\ UNCHANGED Loop

\* Conditions read when the request arrives.
Askable(op, d) ==
  CASE op = "cancel"   -> enrolling[d] # NoSlot
    [] op = "confirm"  -> d \notin up /\ enrolling[d].ready
    [] op = "discover" -> d \notin up /\ usb[d].cable # NoCable
    [] op = "route"    -> usb[d].seen # NoCable
    [] op = "stop"     -> d \in up

Asks(c, op, d) ==
  /\ clerk[c] = IdleClerk /\ requested < MaxRequested /\ Askable(op, d)
  /\ requested' = requested + 1
  /\ clerk' = [clerk EXCEPT ![c] =
       [@ EXCEPT !.op = op, !.at = "asked", !.phone = d,
                 !.gen = IF op = "confirm" THEN enrolling[d].gen ELSE 0,
                 !.before = IF op = "confirm" THEN enrolling[d].before ELSE {},
                 !.cable = IF op = "discover" THEN usb[d].cable ELSE NoCable]]
  /\ UNCHANGED <<usb, enrolling, identity, up>> /\ UNCHANGED Host /\ UNCHANGED Loop

\* network-enrollment/start takes the slot and a generation.
Starts(c, d) ==
  /\ clerk[c] = IdleClerk /\ requested < MaxRequested
  /\ allowed /\ ActiveEnrollments = {}
  /\ requested' = requested + 1
  /\ identity' = [identity EXCEPT ![d] = @ + 1]
  /\ enrolling' = [enrolling EXCEPT ![d] = [NoSlot EXCEPT !.gen = identity'[d]]]
  /\ clerk' = [Disturb({c}, d, Collecting) EXCEPT ![c] =
       [@ EXCEPT !.op = "start", !.at = "reading", !.phone = d, !.gen = identity'[d]]]
  /\ UNCHANGED <<usb, up>> /\ UNCHANGED Host /\ UNCHANGED Loop

\* The bridge was read; or it cannot be, and the slot is given back.
StartReads(c) ==
  /\ clerk[c].op = "start" /\ clerk[c].at = "reading"
  /\ \/ /\ clerk' = [clerk EXCEPT ![c].at = "committing", ![c].before = Members]
        /\ UNCHANGED enrolling
     \/ clerk' = EndOf(c) /\ enrolling' = WithoutMine(c)
  /\ UNCHANGED <<usb, identity, up, requested>> /\ UNCHANGED Host /\ UNCHANGED Loop

StartCommits(c) ==
  LET d == clerk[c].phone IN
  /\ clerk[c].op = "start" /\ clerk[c].at = "committing"
  /\ clerk' = EndOf(c)
  /\ enrolling' \in IF IsCurrent(c) /\ d \notin up /\ allowed
                    THEN {WithoutMine(c), [enrolling EXCEPT ![d].ready = TRUE,
                                                            ![d].before = clerk[c].before]}
                    ELSE {WithoutMine(c)}
  /\ UNCHANGED <<usb, identity, up, requested>> /\ UNCHANGED Host /\ UNCHANGED Loop

\* The operator may still cancel; every operation under way on the phone is outdated.
Cancels(c) ==
  LET d == clerk[c].phone IN
  /\ clerk[c].op = "cancel"
  /\ identity' = [identity EXCEPT ![d] = @ + 1]
  /\ enrolling' = [enrolling EXCEPT ![d] = NoSlot]
  /\ clerk' = [Disturb({c}, d, Collecting) EXCEPT ![c] = IdleClerk]
  /\ UNCHANGED <<usb, up, requested>> /\ UNCHANGED Host /\ UNCHANGED Loop

ConfirmBegins(c) ==
  /\ clerk[c].op = "confirm" /\ clerk[c].at = "asked" /\ allowed
  /\ clerk' = [clerk EXCEPT ![c].at = "reading"]
  /\ UNCHANGED <<usb, enrolling, identity, up, requested>> /\ UNCHANGED Host /\ UNCHANGED Loop

\* diffBridgeMembers: one interface must have come.
ConfirmReads(c) ==
  /\ clerk[c].op = "confirm" /\ clerk[c].at = "reading"
  /\ Cardinality(Members \ clerk[c].before) = 1
  /\ clerk' = [clerk EXCEPT ![c].at = "committing",
                            ![c].cable = CHOOSE i \in Members \ clerk[c].before : TRUE]
  /\ UNCHANGED <<usb, enrolling, identity, up, requested>> /\ UNCHANGED Host /\ UNCHANGED Loop

ConfirmCommits(c) ==
  LET d == clerk[c].phone IN
  /\ clerk[c].op = "confirm" /\ clerk[c].at = "committing"
  /\ IsCurrent(c) /\ d \notin up /\ allowed
  /\ usb' = [usb EXCEPT ![d] = [cable |-> clerk[c].cable, seen |-> NoCable]]
  /\ enrolling' = [enrolling EXCEPT ![d] = NoSlot]
  /\ clerk' = [Disturb({c}, d, {"confirm"}) EXCEPT ![c] = IdleClerk]
  /\ UNCHANGED <<identity, up, requested>> /\ UNCHANGED Host /\ UNCHANGED Loop

\* It came too late: its entry goes, if it is still the phone's.
ConfirmIsStale(c) ==
  /\ clerk[c].op = "confirm" /\ clerk[c].at = "committing"
  /\ ~IsCurrent(c) \/ clerk[c].phone \in up
  /\ clerk' = EndOf(c) /\ enrolling' = WithoutMine(c)
  /\ UNCHANGED <<usb, identity, up, requested>> /\ UNCHANGED Host /\ UNCHANGED Loop

\* discover-ip: the interface is the one on record when the request came; what happened to
\* the phone since is not noticed, only what happens from here on.
DiscoverBegins(c) ==
  LET d == clerk[c].phone IN
  /\ clerk[c].op = "discover" /\ clerk[c].at = "asked" /\ allowed
  /\ identity' = [identity EXCEPT ![d] = @ + 1]
  /\ clerk' = [Disturb({c}, d, Collecting) EXCEPT ![c].at = "committing", ![c].gen = identity'[d],
                                               ![c].disturbed = FALSE]
  /\ UNCHANGED <<usb, enrolling, up, requested>> /\ UNCHANGED Host /\ UNCHANGED Loop

DiscoverCommits(c) ==
  LET d == clerk[c].phone IN
  /\ clerk[c].op = "discover" /\ clerk[c].at = "committing"
  /\ IsCurrent(c) /\ d \notin up /\ allowed /\ usb[d] # NoMapping
  /\ usb' = [usb EXCEPT ![d].seen = clerk[c].cable]
  /\ clerk' = EndOf(c)
  /\ UNCHANGED <<enrolling, identity, up, requested>> /\ UNCHANGED Host /\ UNCHANGED Loop

\* start-routing and stop-routing outdate what is being collected, and then wait.
RouteBegins(c) ==
  LET d == clerk[c].phone IN
  /\ clerk[c].op \in {"route", "stop"} /\ clerk[c].at = "asked"
  /\ identity' = [identity EXCEPT ![d] = @ + 1]
  /\ clerk' = [Disturb({c}, d, Collecting) EXCEPT ![c].at = "committing"]
  /\ UNCHANGED <<usb, enrolling, up, requested>> /\ UNCHANGED Host /\ UNCHANGED Loop

RouteEnds(c) ==
  LET d == clerk[c].phone IN
  /\ clerk[c].op \in {"route", "stop"} /\ clerk[c].at = "committing"
  /\ clerk[c].op = "route" => allowed
  /\ up' = IF clerk[c].op = "route" THEN up \cup {d} ELSE up \ {d}
  /\ clerk' = EndOf(c)
  /\ UNCHANGED <<usb, enrolling, identity, requested>> /\ UNCHANGED Host /\ UNCHANGED Loop

\* Refused, unreadable, ambiguous, unavailable or outdated: nothing is recorded.
Refuses(c) ==
  /\ clerk[c] # IdleClerk /\ clerk[c].op # "start"
  /\ ~(clerk[c].op = "confirm" /\ clerk[c].at = "committing" /\ ~IsCurrent(c))
  /\ EndsAsking(c)

----------------------------------------------------------------------------
\* The loop.

Manual == <<enrolling, identity, clerk, requested>>

\* A tick clears what is on record of phones that are gone.
TickStarts ==
  /\ tick.at = "none" /\ ~halted /\ allowed
  /\ LET gone == lastPlugged \ (plugged \ ByHand) IN
     /\ usb' = [d \in Handsets |-> IF d \in gone THEN NoMapping ELSE usb[d]]
     /\ validated' = validated \ gone
  /\ lastPlugged' = plugged \ ByHand
  /\ tick' = [IdleTick EXCEPT !.at = "members", !.records = usb', !.left = lastPlugged']
  /\ UNCHANGED <<up, halted>> /\ UNCHANGED Host /\ UNCHANGED Manual

\* A phone on record that the process sees for the first time: its interface must be on the
\* bridged, and its address is looked for again.
Revalidated(members) ==
  [d \in Handsets |->
     IF d \in tick.left \ validated /\ tick.records[d].cable # NoCable
     THEN IF tick.records[d].cable \in members
          THEN [cable |-> tick.records[d].cable, seen |-> NoCable] ELSE NoMapping
     ELSE tick.records[d]]

Unpaired(records) == {d \in tick.left : records[d].cable = NoCable}
Unclaimed(records, members) == members \ {records[d].cable : d \in Handsets}

\* The bridge was read.  One phone without an interface and one interface without a phone
\* are paired.
TickPairs ==
  /\ tick.at = "members" /\ ~halted /\ allowed
  /\ LET members == Members
         records == Revalidated(members)
         seen == {d \in tick.left \ validated : tick.records[d].cable # NoCable}
         alone == Cardinality(Unpaired(records)) = 1
                  /\ Cardinality(Unclaimed(records, members)) = 1
         paired == IF alone THEN Unpaired(records) ELSE {}
         cable == CHOOSE i \in Unclaimed(records, members) : TRUE IN
     /\ usb' = [d \in Handsets |-> IF d \in paired THEN [cable |-> cable, seen |-> NoCable]
                                   ELSE IF d \in seen THEN records[d] ELSE usb[d]]
     /\ validated' = validated \cup seen \cup paired
     /\ tick' = [tick EXCEPT !.at = "picking", !.records = records]
  /\ UNCHANGED <<up, lastPlugged, halted>> /\ UNCHANGED Host /\ UNCHANGED Manual

\* Nothing is recorded while the host may not route; what was to be revalidated ends the tick.
TickHeldUp ==
  /\ tick.at = "members" /\ ~halted /\ ~allowed
  /\ tick' = IF \E d \in tick.left \ validated : tick.records[d].cable # NoCable
             THEN IdleTick ELSE [tick EXCEPT !.at = "picking"]
  /\ UNCHANGED <<usb, up, lastPlugged, validated, halted>> /\ UNCHANGED Host /\ UNCHANGED Manual

\* The next phone without an address: as read when the tick began, or as paired since.
TickPicks(d) ==
  LET record == IF tick.records[d] = NoMapping THEN usb[d] ELSE tick.records[d] IN
  /\ tick.at = "picking" /\ d \in tick.left /\ ~halted
  /\ record.cable # NoCable /\ record.seen = NoCable
  /\ tick' = [tick EXCEPT !.at = "capturing", !.left = @ \ {d}, !.phone = d,
                          !.cable = record.cable]
  /\ UNCHANGED <<usb, up, lastPlugged, validated, halted>> /\ UNCHANGED Host /\ UNCHANGED Manual

MayRecord == ~halted /\ allowed

\* An address was seen on the interface.
TickCaptures ==
  /\ tick.at = "capturing" /\ MayRecord /\ usb[tick.phone] # NoMapping
  /\ usb' = [usb EXCEPT ![tick.phone].seen = tick.cable]
  /\ \E next \in {"picking", "routing"} : tick' = [tick EXCEPT !.at = next]
  /\ UNCHANGED <<up, lastPlugged, validated, halted>> /\ UNCHANGED Host /\ UNCHANGED Manual

\* No address yet, or it may not be recorded.
TickSeesNothing ==
  /\ tick.at = "capturing" /\ ~halted
  /\ tick' = [tick EXCEPT !.at = "picking"]
  /\ UNCHANGED <<usb, up, lastPlugged, validated, halted>> /\ UNCHANGED Host /\ UNCHANGED Manual

\* startRouting has returned, whatever stop() did meanwhile.
TickRoutes ==
  /\ tick.at = "routing"
  /\ up' \in {up} \cup IF allowed THEN {up \cup {tick.phone}} ELSE {}
  /\ tick' = [tick EXCEPT !.at = "picking"]
  /\ UNCHANGED <<usb, lastPlugged, validated, halted>> /\ UNCHANGED Host /\ UNCHANGED Manual

\* Nothing is left to do, the bridge cannot be read, or the loop was stopped.
TickEnds ==
  /\ tick.at \in {"members", "picking", "capturing"}
  /\ tick.at = "capturing" => halted
  /\ tick' = IdleTick
  /\ UNCHANGED <<usb, up, lastPlugged, validated, halted>> /\ UNCHANGED Host /\ UNCHANGED Manual

Halt ==
  /\ ~halted /\ halted' = TRUE
  /\ UNCHANGED <<usb, up, tick, lastPlugged, validated>> /\ UNCHANGED Host /\ UNCHANGED Manual

EnrollNext ==
  \/ Quarantines \/ Halt
  \/ TickStarts \/ TickPairs \/ TickHeldUp \/ TickCaptures \/ TickSeesNothing
  \/ TickRoutes \/ TickEnds
  \/ \E d \in Handsets : Plug(d) \/ Expires(d) \/ TickPicks(d)
  \/ \E c \in Clerks :
       \/ \E d \in Handsets :
            Starts(c, d) \/ \E op \in {"cancel", "confirm", "discover", "route", "stop"} : Asks(c, op, d)
       \/ StartReads(c) \/ StartCommits(c) \/ Cancels(c) \/ ConfirmBegins(c) \/ ConfirmReads(c)
       \/ ConfirmCommits(c) \/ ConfirmIsStale(c) \/ DiscoverBegins(c) \/ DiscoverCommits(c)
       \/ RouteBegins(c) \/ RouteEnds(c) \/ Refuses(c)

EnrollSpec == EnrollInit /\ [][EnrollNext]_enrollVars

----------------------------------------------------------------------------
\* What a request collected it records only if nothing has overtaken it: its enrollment was
\* not cancelled, has not expired, was not begun again or confirmed by another request, no
\* route was started or stopped meanwhile, and none is up.
CommitIsCurrent ==
  \A c \in Clerks :
    clerk[c].op \in Collecting /\ clerk'[c] = IdleClerk
    /\ (usb' # usb \/ \E d \in Handsets : enrolling'[d].ready /\ ~enrolling[d].ready)
    => ~clerk[c].disturbed /\ clerk[c].phone \notin up

\* Neither a request nor a tick that began before a quarantine changes a phone's network
\* identity during it, and a tick that outlived its loop records nothing.
IdentityIsFrozen == usb' # usb => allowed /\ (halted => tick' = tick)

\* A phone's identity changes only on evidence that still holds, while it may change.
PairingIsCurrent == [][CommitIsCurrent /\ IdentityIsFrozen]_enrollVars
=============================================================================
