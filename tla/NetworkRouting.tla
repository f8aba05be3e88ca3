--------------------------- MODULE NetworkRouting ---------------------------
(***************************************************************************)
(* The routes of the phones through their proxies                          *)
(* (system/server/src/networkRoutingOrchestrator.js) with the tunnels      *)
(* beneath them (tunManager.js), the packet filter's anchor on the host    *)
(* (pfRuleGenerator.js, privilegedOps.js), and the host-wide barrier that  *)
(* is raised when a phone cannot be blocked (routingQuarantineStore.js).   *)
(*                                                                         *)
(* A phone's start and its stop wait for each other.  A health check, a    *)
(* verification that failed, a recovery timer and the other phones' jobs   *)
(* wait for nobody, and every ruleset is made from the routes as they are  *)
(* before its load is awaited.  An action is the stretch between two       *)
(* awaits; the awaits of one load (permission, syntax test, permission,    *)
(* pfctl) are one.  A job that has asked for the emergency quarantine only *)
(* waits for it.  Addresses, interfaces and peers are left out: the        *)
(* anchor has, for each phone, a rule that routes it, a rule that blocks   *)
(* it, or none.                                                            *)
(***************************************************************************)
EXTENDS Naturals, FiniteSets

CONSTANTS
  Phones,
  NoPhone,
  RouteFaults,    \* what may go wrong, of the set below
  MaxRecoveries,  \* MAX_AUTOMATIC_RECOVERIES
  MaxEvents       \* bound: how often a start, stop or host recovery is asked for, a
                  \* tunnel dies, the anchor is flushed, a check fails, the server dies

\* load     a ruleset is refused or cannot be loaded, or rules cannot be read
\* sudo     the permission to run the tools is gone
\* tunnel   no interface or no peer is found, or the caller loses its rights
\* proxy    the phone has no proxy
\* stuck    a tunnel does not stop
\* bridge   the bridge cannot be shut down
\* disk     the end of a quarantine cannot be saved
\* flush    somebody else flushes the anchor
ASSUME RoutingAssumption ==
  /\ NoPhone \notin Phones /\ {MaxRecoveries, MaxEvents} \subseteq Nat
  /\ RouteFaults \subseteq {"load", "sudo", "tunnel", "proxy", "stuck", "bridge", "disk",
                      "flush"}

VARIABLES
  route,   \* phone -> its route; state "none" is no entry of routes
  tun,     \* phone -> its tunnel under the supervisor
  at,      \* job -> phone -> the await the job is at
  plan,    \* job -> phone -> the ruleset it is about to load
  check,   \* the health check under way
  anchor,  \* phone -> the rule the packet filter has for it
  bridge,  \* the shared bridge is up
  host,    \* hostRoutingState.state, in memory and, if blocked, in its file
  quar,    \* the emergency quarantine under way
  recov,   \* the administrator's recovery under way
  fresh,   \* reconciled: the anchor of an earlier run was dealt with
  events   \* how many of the events MaxEvents bounds have happened

routeVars == <<route, tun, at, plan, check, anchor, bridge, host, quar, recov,
               fresh, events>>

RouteStates == {"none", "proxy_leased", "tun_starting", "tun_error", "pf_applying",
                "pf_syntax_error", "pf_cleanup_error", "routed", "stopping",
                "stop_error", "route_lost"}
\* ending   asked to stop       queued   a start waits for that
\* lost     died by itself, the supervisor may restart it
\* stuck    the stop was never confirmed
Tunnels == {"off", "on", "lost", "ending", "queued", "stuck"}
Rulesets == [Phones -> {"none", "route", "block"}]
NoRules == [d \in Phones |-> "none"]
NoRuleset == <<>>

Jobs == {"start", "stop", "lost", "verify", "recover"}
Awaits == {"none", "armed", "wait", "old", "ifaces", "permit", "peer", "load", "clear",
           "rollback", "undo", "undo_sudo", "undo_host", "undo_pf", "undo_cleanup",
           "undo_failed", "guard"}

NoRoute == [state |-> "none", blocked |-> FALSE, held |-> FALSE, tries |-> 0]
NoCheck == [todo |-> {}, rules |-> {}]
NoWork == [at |-> "none", todo |-> {}, cur |-> NoPhone, origin |-> NoPhone,
           unsafe |-> FALSE, down |-> FALSE]

RouteTypeOK ==
  /\ route \in [Phones -> [state : RouteStates, blocked : BOOLEAN, held : BOOLEAN,
                           tries : 0..MaxRecoveries]]
  /\ tun \in [Phones -> Tunnels]
  /\ at \in [Jobs -> [Phones -> Awaits]]
  /\ plan \in [Jobs -> [Phones -> Rulesets \cup {NoRuleset}]]
  /\ check \in [todo : SUBSET Phones, rules : SUBSET Phones]
  /\ anchor \in Rulesets /\ {bridge, fresh} \subseteq BOOLEAN
  /\ host \in {"healthy", "quarantining", "quarantined", "recovery_required"}
  /\ \A w \in {quar, recov} :
       /\ w.at \in {"none", "permit", "stops", "clear", "bridge"}
       /\ w.todo \subseteq Phones /\ {w.cur, w.origin} \subseteq Phones \cup {NoPhone}
       /\ {w.unsafe, w.down} \subseteq BOOLEAN
  /\ events \in 0..MaxEvents

RouteInit ==
  /\ route = [d \in Phones |-> NoRoute] /\ tun = [d \in Phones |-> "off"]
  /\ at = [j \in Jobs |-> [d \in Phones |-> "none"]]
  /\ plan = [j \in Jobs |-> [d \in Phones |-> NoRuleset]]
  /\ check = NoCheck /\ anchor = NoRules /\ bridge = TRUE
  /\ host = "healthy" /\ quar = NoWork /\ recov = NoWork
  /\ fresh = FALSE /\ events = 0

May(fault) == fault \in RouteFaults
Happens == events < MaxEvents /\ events' = events + 1
Blocked == host # "healthy"

----------------------------------------------------------------------------
\* Rulesets.

\* _desiredPfDevices and _desiredBlockedIps of the routes r.
Desired(r) ==
  [d \in Phones |->
    IF r[d].state \in {"pf_applying", "routed"} THEN "route"
    ELSE IF r[d].state \in {"route_lost", "tun_error", "pf_syntax_error",
                            "pf_cleanup_error", "stop_error"} THEN "block"
    ELSE "none"]

\* What _removeDeviceFromPf and _applyFailClosed load for d.
Without(r, d) == [Desired(r) EXCEPT ![d] = "none"]
Shut(r, d) == [Desired(r) EXCEPT ![d] = "block"]

\* The job waits at a step; an apply that begins once the host is blocked
\* loads nothing.
Go(j, d, step) ==
  at' = [at EXCEPT ![j][d] = step] /\ plan' = [plan EXCEPT ![j][d] = NoRuleset]
Load(j, d, step, rules) ==
  /\ at' = [at EXCEPT ![j][d] = step]
  /\ plan' = [plan EXCEPT ![j][d] = IF Blocked THEN NoRuleset ELSE rules]

\* How an awaited load ends: "ok", with its ruleset in the anchor; "host", when
\* the host was blocked meanwhile, the ruleset loaded or not; "sudo" and
\* "load", with nothing loaded.  An apply that is refused ends before anything
\* else happens.
Results == {"ok", "host", "sudo", "load"}
Refused(j, d) == at[j][d] \in {"load", "rollback", "guard"} /\ plan[j][d] = NoRuleset
Refusing == \E j \in Jobs, d \in Phones : Refused(j, d)
Loaded(j, d, result) ==
  /\ Refusing => Refused(j, d)
  /\ \/ result = "ok" /\ ~Blocked /\ ~Refused(j, d) /\ anchor' = plan[j][d]
     \/ result = "host" /\ Refused(j, d) /\ UNCHANGED anchor
     \/ result = "host" /\ Blocked /\ ~Refused(j, d) /\ anchor' \in {anchor, plan[j][d]}
     \/ result \in {"sudo", "load"} /\ May(result) /\ ~Refused(j, d) /\ UNCHANGED anchor

----------------------------------------------------------------------------
\* Tunnels.

Stopped(t) == IF t \in {"on", "queued"} THEN "ending" ELSE IF t = "lost" THEN "off" ELSE t
Started(t) == IF t = "off" THEN "on" ELSE IF t = "ending" THEN "queued" ELSE t
Settles(d) == tun[d] \notin {"ending", "queued"}
StopTunnel(d) == tun' = [tun EXCEPT ![d] = Stopped(@)]

tunOnly == <<route, at, plan, check, anchor, bridge, host, quar, recov, fresh>>

TunnelEnds(d) ==
  /\ \/ tun[d] = "ending" /\ tun' = [tun EXCEPT ![d] = "off"]
     \/ tun[d] = "queued" /\ tun' = [tun EXCEPT ![d] = "on"]
     \/ ~Settles(d) /\ May("stuck") /\ tun' = [tun EXCEPT ![d] = "stuck"]
  /\ UNCHANGED tunOnly /\ UNCHANGED events

TunnelDies(d) ==
  /\ tun[d] = "on" /\ Happens
  /\ tun' = [tun EXCEPT ![d] = "lost"] /\ UNCHANGED tunOnly

TunnelRestarts(d) ==
  /\ tun[d] = "lost" /\ tun' = [tun EXCEPT ![d] = "on"]
  /\ UNCHANGED tunOnly /\ UNCHANGED events

\* Somebody else flushes the packet filter, or turns the bridge on again.
AnchorFlushed ==
  /\ May("flush") /\ anchor # NoRules /\ Happens
  /\ anchor' = NoRules
  /\ UNCHANGED <<route, tun, at, plan, check, bridge, host, quar, recov, fresh>>

BridgeTurnedOn ==
  /\ ~bridge /\ quar.at = "none" /\ bridge' = TRUE
  /\ UNCHANGED <<route, tun, at, plan, check, anchor, host, quar, recov, fresh, events>>

----------------------------------------------------------------------------
\* The emergency quarantine.

\* _enforceEmergencyQuarantine for d: nothing while a recovery runs; one
\* quarantine at a time; the host is blocked before anything is awaited.
Enforce(d) ==
  IF recov.at # "none" \/ quar.at # "none" THEN UNCHANGED <<host, quar>>
  ELSE /\ quar' = [NoWork EXCEPT !.at = "permit", !.origin = d,
                     !.todo = {d} \cup {e \in Phones : route[e].state # "none" \/ tun[e] # "off"}]
       /\ host' = IF Blocked THEN host ELSE "quarantining"

quarOnly == <<plan, check, anchor, recov, fresh, events>>

QuarantineBridge ==
  /\ quar.at = "permit"
  /\ \/ bridge' = FALSE /\ quar' = [quar EXCEPT !.at = "stops", !.down = TRUE]
     \/ May("bridge") /\ UNCHANGED bridge /\ quar' = [quar EXCEPT !.at = "stops"]
  /\ UNCHANGED <<route, tun, at, host>> /\ UNCHANGED quarOnly

\* One after the other the tunnels are stopped, pending recoveries cancelled.
QuarantineStops(d) ==
  /\ quar.at = "stops" /\ quar.cur = NoPhone /\ d \in quar.todo
  /\ quar' = [quar EXCEPT !.cur = d, !.todo = @ \ {d}]
  /\ StopTunnel(d)
  /\ at' = [at EXCEPT !["recover"][d] = IF @ = "armed" THEN "none" ELSE @]
  /\ UNCHANGED <<route, bridge, host>> /\ UNCHANGED quarOnly

QuarantineStopped(d) ==
  /\ quar.at = "stops" /\ quar.cur = d /\ Settles(d)
  /\ quar' = [quar EXCEPT !.cur = NoPhone, !.unsafe = @ \/ tun[d] # "off"]
  /\ route' = IF route[d].state = "none" THEN route
              ELSE [route EXCEPT ![d].state = IF d = quar.origin THEN @ ELSE "route_lost",
                                 ![d].blocked = quar.down, ![d].held = TRUE]
  /\ UNCHANGED <<tun, at, bridge, host>> /\ UNCHANGED quarOnly

QuarantineEnds ==
  /\ quar.at = "stops" /\ quar.cur = NoPhone /\ quar.todo = {}
  /\ host' \in IF quar.unsafe \/ ~quar.down THEN {"recovery_required"}
               ELSE {"quarantined"} \cup (IF May("disk") THEN {"recovery_required"} ELSE {})
  /\ quar' = NoWork
  /\ UNCHANGED <<route, tun, at, bridge>> /\ UNCHANGED quarOnly

----------------------------------------------------------------------------
\* Starting a route.

startOnly == <<check, bridge, recov, fresh, events>>

\* The start is over.  A recovery that waits for it ends with it, or, when the
\* start failed, marks the route as lost and blocks the phone again.
EndStart(d, a, r, failed) ==
  IF failed /\ a["recover"][d] = "wait"
    THEN LET lost == [r EXCEPT ![d].state = "route_lost"] IN
         /\ route' = lost
         /\ at' = [a EXCEPT !["start"][d] = "none", !["recover"][d] = "guard"]
         /\ plan' = [plan EXCEPT !["start"][d] = NoRuleset, !["stop"][d] = NoRuleset,
                       !["recover"][d] = IF Blocked THEN NoRuleset ELSE Shut(lost, d)]
  ELSE /\ route' = r
       /\ at' = [a EXCEPT !["start"][d] = "none",
                          !["recover"][d] = IF @ = "wait" THEN "none" ELSE @]
       /\ plan' = [plan EXCEPT !["start"][d] = NoRuleset, !["stop"][d] = NoRuleset]

\* _startRouting up to its first await: a phone that is held is refused, a
\* routed one has what it wants, an old tunnel is stopped first.
LeaseProxy(d, a) ==
  \/ /\ ~Blocked /\ plan' = plan
     /\ route' = [route EXCEPT ![d].state = "proxy_leased"]
     /\ at' = [a EXCEPT !["start"][d] = "ifaces"]
  \/ (Blocked \/ May("proxy")) /\ EndStart(d, a, route, TRUE)

BeginStart(d, a) ==
  IF Blocked \/ route[d].held THEN EndStart(d, a, route, TRUE) /\ UNCHANGED tun
  ELSE IF route[d].state = "routed" THEN EndStart(d, a, route, FALSE) /\ UNCHANGED tun
  ELSE IF route[d].state = "none" THEN LeaseProxy(d, a) /\ UNCHANGED tun
  ELSE /\ StopTunnel(d) /\ at' = [a EXCEPT !["start"][d] = "old"] /\ UNCHANGED <<route, plan>>

\* startRouting: it waits for a stop of the phone.
CallStart(d, a) ==
  IF at["stop"][d] # "none"
    THEN at' = [a EXCEPT !["start"][d] = "wait"] /\ UNCHANGED <<route, tun, plan>>
  ELSE BeginStart(d, a)

StartAsked(d) ==
  /\ ~Blocked /\ fresh /\ at["start"][d] = "none"
  /\ Happens
  /\ CallStart(d, at)
  /\ UNCHANGED <<anchor, host, quar, check, bridge, recov, fresh>>

StopWaited(d) ==
  /\ at["start"][d] = "wait" /\ at["stop"][d] \in {"none", "wait"}
  /\ BeginStart(d, at)
  /\ UNCHANGED <<anchor, host, quar>> /\ UNCHANGED startOnly

OldStopped(d) ==
  /\ at["start"][d] = "old" /\ Settles(d)
  /\ LeaseProxy(d, at) /\ UNCHANGED tun
  /\ UNCHANGED <<anchor, host, quar>> /\ UNCHANGED startOnly

\* A failure: the tunnel is stopped, and then the route is marked.
Fail(d, step) == StopTunnel(d) /\ Go("start", d, step) /\ UNCHANGED route

InterfaceChosen(d) ==
  /\ at["start"][d] = "ifaces"
  /\ \/ Blocked /\ Fail(d, "undo_host")
     \/ May("tunnel") /\ ~Blocked /\ Fail(d, "undo")
     \/ /\ ~Blocked /\ Go("start", d, "permit") /\ UNCHANGED tun
        /\ route' = [route EXCEPT ![d].state = "tun_starting"]
  /\ UNCHANGED <<anchor, host, quar>> /\ UNCHANGED startOnly

\* Fault: the host is not looked at again after the permission.
PermittedUnchecked(d) ==
  /\ at["start"][d] = "permit"
  /\ tun' = [tun EXCEPT ![d] = Started(@)] /\ Go("start", d, "peer") /\ UNCHANGED route
  /\ UNCHANGED <<anchor, host, quar>> /\ UNCHANGED startOnly

Permitted(d) ==
  /\ at["start"][d] = "permit"
  /\ \/ Blocked /\ Fail(d, "undo_host")
     \/ May("sudo") /\ ~Blocked /\ Fail(d, "undo_sudo")
     \/ /\ ~Blocked /\ tun' = [tun EXCEPT ![d] = Started(@)]
        /\ Go("start", d, "peer") /\ UNCHANGED route
  /\ UNCHANGED <<anchor, host, quar>> /\ UNCHANGED startOnly

PeerFound(d) ==
  /\ at["start"][d] = "peer"
  /\ \/ Blocked /\ Fail(d, "undo_host")
     \/ (May("tunnel") \/ tun[d] # "on") /\ Fail(d, "undo")
     \/ /\ ~Blocked /\ tun[d] = "on" /\ UNCHANGED tun
        /\ route' = [route EXCEPT ![d].state = "pf_applying"]
        /\ Load("start", d, "load", Desired(route'))
  /\ UNCHANGED <<anchor, host, quar>> /\ UNCHANGED startOnly

StartLoaded(d) ==
  /\ at["start"][d] = "load"
  /\ \E r \in Results :
       /\ Loaded("start", d, r)
       /\ CASE r = "ok" -> Go("start", d, "clear") /\ UNCHANGED <<route, tun>>
            [] r = "host" -> Fail(d, "undo_host")
            [] r = "sudo" -> Fail(d, "undo_sudo")
            [] r = "load" -> Fail(d, "undo_pf") \/ Fail(d, "undo")
  /\ UNCHANGED <<host, quar>> /\ UNCHANGED startOnly

\* The phone's old connections are cleared: the route is complete.
StatesCleared(d) ==
  /\ at["start"][d] = "clear"
  /\ \/ Blocked /\ Fail(d, "undo_host")
     \/ May("sudo") /\ ~Blocked /\ Fail(d, "undo_sudo")
     \/ /\ May("load") /\ ~Blocked /\ UNCHANGED <<route, tun>>
        /\ Load("start", d, "rollback", Without(route, d))
     \/ /\ ~Blocked /\ UNCHANGED tun
        /\ EndStart(d, at, [route EXCEPT ![d].state = "routed", ![d].tries = 0], FALSE)
  /\ UNCHANGED <<anchor, host, quar>> /\ UNCHANGED startOnly

RolledBack(d) ==
  /\ at["start"][d] = "rollback"
  /\ \E r \in Results : /\ Loaded("start", d, r)
                        /\ Fail(d, IF r = "ok" THEN "undo" ELSE "undo_cleanup")
  /\ UNCHANGED <<host, quar>> /\ UNCHANGED startOnly

\* The tunnel of a failed start is down.  A missing permission and a blocked
\* host end it there; otherwise the phone is blocked.
StartUndone(d) ==
  /\ at["start"][d] \in {"undo", "undo_pf", "undo_cleanup", "undo_sudo", "undo_host"}
  /\ Settles(d)
  /\ CASE at["start"][d] = "undo_sudo" ->
            EndStart(d, at, [route EXCEPT ![d].state = "tun_error", ![d].blocked = FALSE], FALSE)
       [] at["start"][d] = "undo_host" ->
            EndStart(d, at, IF route[d].state = "none" THEN route
                            ELSE [route EXCEPT ![d].state = "route_lost", ![d].held = TRUE], TRUE)
       [] OTHER ->
            /\ route' = [route EXCEPT ![d].state =
                           CASE at["start"][d] = "undo_pf" -> "pf_syntax_error"
                             [] at["start"][d] = "undo_cleanup" -> "pf_cleanup_error"
                             [] OTHER -> "tun_error"]
            /\ Load("start", d, "guard", Shut(route', d))
  /\ UNCHANGED <<tun, anchor, host, quar>> /\ UNCHANGED startOnly

\* _applyFailClosed has ended: the phone is blocked, or the quarantine begins.
Protected(d) == IF route[d].state = "none" THEN route
                ELSE [route EXCEPT ![d].blocked = TRUE]
Unprotected(d) == IF route[d].state = "none" THEN route
                  ELSE [route EXCEPT ![d].blocked = FALSE]

StartGuarded(d) ==
  /\ at["start"][d] = "guard"
  /\ \E r \in Results :
       /\ Loaded("start", d, r)
       /\ IF r = "ok" THEN EndStart(d, at, Protected(d), TRUE) /\ UNCHANGED <<host, quar>>
          ELSE EndStart(d, at, Unprotected(d), TRUE) /\ Enforce(d)
  /\ UNCHANGED tun /\ UNCHANGED startOnly

----------------------------------------------------------------------------
\* Stopping a route.

stopOnly == <<check, bridge, recov, fresh, events>>

\* The stop is over; a start that waits for it fails if it failed.
EndStop(d, r, failed) ==
  LET a == [at EXCEPT !["stop"][d] = "none"] IN
  IF failed /\ at["start"][d] = "wait" THEN EndStart(d, a, r, TRUE)
  ELSE route' = r /\ at' = a /\ plan' = [plan EXCEPT !["stop"][d] = NoRuleset]

\* _stopRouting up to its first await: the pending recovery is cancelled.
BeginStop(d) ==
  /\ route' = IF route[d].state = "none" THEN route ELSE [route EXCEPT ![d].state = "stopping"]
  /\ at' = [at EXCEPT !["stop"][d] = IF route[d].state = "none" THEN "undo" ELSE "old",
                      !["recover"][d] = IF @ = "armed" /\ route[d].state # "none" THEN "none" ELSE @]
  /\ StopTunnel(d) /\ UNCHANGED plan

\* stopRouting: it waits for a start of the phone.
StopAsked(d) ==
  /\ at["stop"][d] = "none"
  /\ Happens
  /\ IF at["start"][d] # "none" THEN Go("stop", d, "wait") /\ UNCHANGED <<route, tun>>
     ELSE BeginStop(d)
  /\ UNCHANGED <<anchor, host, quar, check, bridge, recov, fresh>>

StartWaited(d) ==
  /\ at["stop"][d] = "wait" /\ at["start"][d] = "none"
  /\ BeginStop(d)
  /\ UNCHANGED <<anchor, host, quar>> /\ UNCHANGED stopOnly

\* The tunnel is down: with no route that was all, else the rules go next.
StopTunnelDown(d) ==
  /\ at["stop"][d] \in {"old", "undo"} /\ Settles(d)
  /\ IF at["stop"][d] = "undo" THEN EndStop(d, route, FALSE)
     ELSE Load("stop", d, "load", Without(route, d)) /\ UNCHANGED route
  /\ UNCHANGED <<tun, anchor, host, quar>> /\ UNCHANGED stopOnly

\* The route is kept, with an error, and the phone is blocked.
StopFails(d) ==
  /\ route' = [route EXCEPT ![d].state = "stop_error"]
  /\ Load("stop", d, "guard", Shut(route', d))

RulesRemoved(d) ==
  /\ at["stop"][d] = "load"
  /\ \E r \in Results :
       /\ Loaded("stop", d, r)
       /\ IF r = "ok" THEN Go("stop", d, "clear") /\ UNCHANGED route ELSE StopFails(d)
  /\ UNCHANGED <<tun, host, quar>> /\ UNCHANGED stopOnly

StopCompletes(d) ==
  /\ at["stop"][d] = "clear"
  /\ \/ ~Blocked /\ EndStop(d, [route EXCEPT ![d] = NoRoute], FALSE)
     \/ (Blocked \/ May("sudo") \/ May("load")) /\ StopFails(d)
  /\ UNCHANGED <<tun, anchor, host, quar>> /\ UNCHANGED stopOnly

StopGuarded(d) ==
  /\ at["stop"][d] = "guard"
  /\ \E r \in Results :
       /\ Loaded("stop", d, r)
       /\ IF r = "ok" THEN EndStop(d, Protected(d), TRUE) /\ UNCHANGED <<host, quar>>
          ELSE EndStop(d, Unprotected(d), TRUE) /\ Enforce(d)
  /\ UNCHANGED tun /\ UNCHANGED stopOnly

----------------------------------------------------------------------------
\* Lost routes and their recovery.

\* _scheduleRecovery.
Arm(a, r, d) ==
  IF ~Blocked /\ a["recover"][d] = "none" /\ r[d].state = "route_lost" /\ r[d].tries < MaxRecoveries
    THEN [a EXCEPT !["recover"][d] = "armed"] ELSE a

\* checkHealth: the rules of the anchor are read, for the phones routed now.
HealthLooks ==
  /\ check.todo = {} /\ ~Blocked
  /\ \A d \in Phones : at["lost"][d] = "none"
  /\ LET routed == {d \in Phones : route[d].state = "routed"} IN
     /\ routed # {}
     /\ check' \in {[todo |-> routed, rules |-> {d \in routed : anchor[d] = "route"}]}
                   \cup (IF May("load") THEN {[todo |-> routed, rules |-> {}]} ELSE {})
  /\ UNCHANGED <<route, tun, at, plan, anchor, bridge, host, quar, recov, fresh, events>>

checkOnly == <<tun, anchor, bridge, host, quar, recov, fresh, events>>

LoseRoute(j, d) ==
  /\ route' = [route EXCEPT ![d].state = "route_lost"]
  /\ Load(j, d, "load", Shut(route', d))

CheckNext(d) == 
  /\ d \in check.todo /\ \A e \in Phones : at["lost"][e] = "none"
  /\ check' = IF check.todo = {d} THEN NoCheck ELSE [check EXCEPT !.todo = @ \ {d}]

\* One phone of them: its tunnel runs, and its rule was there.
HealthChecks(d) ==
  /\ CheckNext(d)
  /\ IF route[d].state = "routed" /\ (tun[d] # "on" \/ d \notin check.rules)
       THEN LoseRoute("lost", d) ELSE UNCHANGED <<route, at, plan>>
  /\ UNCHANGED checkOnly

lossOnly == <<check, bridge, recov, fresh, events>>

\* The phone is blocked and a recovery is scheduled; or it cannot be blocked,
\* and its tunnel is stopped before the quarantine begins.
LossGuarded(d) ==
  /\ at["lost"][d] = "load"
  /\ \E r \in Results :
       /\ Loaded("lost", d, r)
       /\ plan' = [plan EXCEPT !["lost"][d] = NoRuleset]
       /\ IF r = "ok" THEN /\ route' = Protected(d) /\ UNCHANGED tun
                           /\ at' = Arm([at EXCEPT !["lost"][d] = "none"], route', d)
          ELSE StopTunnel(d) /\ at' = [at EXCEPT !["lost"][d] = "undo"] /\ UNCHANGED route
  /\ UNCHANGED <<host, quar>> /\ UNCHANGED lossOnly

LossUnguarded(d) ==
  /\ at["lost"][d] = "undo" /\ Settles(d)
  /\ Go("lost", d, "none") /\ route' = Unprotected(d) /\ Enforce(d)
  /\ UNCHANGED <<tun, anchor>> /\ UNCHANGED lossOnly

\* quarantineRoute: a verification found another way out than the proxy's.
VerificationFails(d) ==
  /\ route[d].state # "none" /\ at["verify"][d] = "none"
  /\ Happens
  /\ LoseRoute("verify", d)
  /\ UNCHANGED <<tun, check, anchor, bridge, host, quar, recov, fresh>>

MismatchGuarded(d) ==
  /\ at["verify"][d] = "load"
  /\ \E r \in Results :
       /\ Loaded("verify", d, r)
       /\ StopTunnel(d) /\ Go("verify", d, IF r = "ok" THEN "undo" ELSE "undo_failed")
       /\ route' = IF r = "ok" THEN Protected(d) ELSE route
  /\ UNCHANGED <<host, quar>> /\ UNCHANGED lossOnly

MismatchEnds(d) ==
  /\ at["verify"][d] \in {"undo", "undo_failed"} /\ Settles(d)
  /\ Go("verify", d, "none")
  /\ IF at["verify"][d] = "undo" THEN UNCHANGED <<route, host, quar>>
     ELSE route' = Unprotected(d) /\ Enforce(d)
  /\ UNCHANGED <<tun, anchor>> /\ UNCHANGED lossOnly

\* The recovery timer: the old tunnel is stopped, and the route is started
\* again, whatever has become of it meanwhile.
TimerFires(d) ==
  /\ at["recover"][d] = "armed"
  /\ IF Blocked \/ route[d].state # "route_lost"
       THEN Go("recover", d, "none") /\ UNCHANGED <<route, tun>>
     ELSE /\ route' = [route EXCEPT ![d].tries = @ + 1]
          /\ StopTunnel(d) /\ Go("recover", d, "undo")
  /\ UNCHANGED <<anchor, host, quar>> /\ UNCHANGED lossOnly

RecoveryStarts(d) ==
  /\ at["recover"][d] = "undo" /\ Settles(d)
  /\ LET a == [at EXCEPT !["recover"][d] = "wait"] IN
     IF Blocked THEN EndStart(d, a, route, TRUE) /\ UNCHANGED tun
     ELSE IF at["start"][d] # "none" THEN at' = a /\ UNCHANGED <<route, tun, plan>>
     ELSE CallStart(d, a)
  /\ UNCHANGED <<anchor, host, quar>> /\ UNCHANGED lossOnly

RecoveryGuarded(d) ==
  /\ at["recover"][d] = "guard"
  /\ \E r \in Results :
       /\ Loaded("recover", d, r)
       /\ plan' = [plan EXCEPT !["recover"][d] = NoRuleset]
       /\ IF r = "ok" THEN /\ route' = Protected(d) /\ UNCHANGED <<host, quar>>
                           /\ at' = Arm([at EXCEPT !["recover"][d] = "none"], route', d)
          ELSE route' = Unprotected(d) /\ at' = [at EXCEPT !["recover"][d] = "none"] /\ Enforce(d)
  /\ UNCHANGED tun /\ UNCHANGED lossOnly

----------------------------------------------------------------------------
\* The administrator's recovery of the host, start-up and crash.

recovOnly == <<at, plan, check, quar, fresh>>

RecoveryBegins ==
  /\ Blocked /\ quar.at = "none" /\ recov.at = "none"
  /\ \A d \in Phones : at["start"][d] = "none"
  /\ Happens
  /\ recov' = [NoWork EXCEPT !.at = "stops", !.todo = Phones]
  /\ UNCHANGED <<route, tun, anchor, bridge, host>> /\ UNCHANGED recovOnly

RecoveryStops(d) ==
  /\ recov.at = "stops" /\ recov.cur = NoPhone /\ d \in recov.todo
  /\ recov' = [recov EXCEPT !.cur = d, !.todo = @ \ {d}]
  /\ StopTunnel(d)
  /\ UNCHANGED <<route, anchor, bridge, host>> /\ UNCHANGED recovOnly /\ UNCHANGED events

\* Fault: a tunnel that would not stop does not end the recovery.
RecoveryStoppedAnyway(d) ==
  /\ recov.at = "stops" /\ recov.cur = d /\ Settles(d)
  /\ recov' = [recov EXCEPT !.cur = NoPhone]
  /\ UNCHANGED <<route, tun, anchor, bridge, host>> /\ UNCHANGED recovOnly /\ UNCHANGED events

RecoveryStopped(d) ==
  /\ recov.at = "stops" /\ recov.cur = d /\ Settles(d)
  /\ recov' = IF tun[d] = "off" THEN [recov EXCEPT !.cur = NoPhone] ELSE NoWork
  /\ UNCHANGED <<route, tun, anchor, bridge, host>> /\ UNCHANGED recovOnly /\ UNCHANGED events

RecoveryClears ==
  /\ recov.at = "stops" /\ recov.cur = NoPhone /\ recov.todo = {}
  /\ \/ anchor' = NoRules /\ recov' = [recov EXCEPT !.at = "clear"]
     \/ (May("sudo") \/ May("load")) /\ UNCHANGED anchor /\ recov' = NoWork
  /\ UNCHANGED <<route, tun, bridge, host>> /\ UNCHANGED recovOnly /\ UNCHANGED events

RecoveryInspects ==
  /\ recov.at = "clear"
  /\ recov' = IF anchor = NoRules THEN [recov EXCEPT !.at = "bridge"] ELSE NoWork
  /\ UNCHANGED <<route, tun, anchor, bridge, host>> /\ UNCHANGED recovOnly /\ UNCHANGED events

\* The bridge must be up and no tunnel may run; then the barrier is lifted.
RecoveryEnds ==
  /\ recov.at = "bridge" /\ recov' = NoWork
  /\ IF ~bridge THEN host' = "recovery_required" /\ UNCHANGED route
     ELSE IF \E d \in Phones : tun[d] \in {"on", "lost"} THEN UNCHANGED <<host, route>>
     ELSE /\ host' = "healthy"
          /\ route' = [d \in Phones |-> [route[d] EXCEPT !.held = FALSE, !.blocked = FALSE]]
  /\ UNCHANGED <<tun, anchor, bridge>> /\ UNCHANGED recovOnly /\ UNCHANGED events

\* reconcileStartup: the anchor of an earlier run is cleared.
Reconcile ==
  /\ ~fresh /\ ~Blocked
  /\ fresh' = TRUE /\ anchor' = NoRules
  /\ UNCHANGED <<route, tun, at, plan, check, bridge, host, quar, recov, events>>

\* The server dies.  At its next start the tunnels of the last one are stopped
\* before anything is routed (recoverPersistedOwnership); the anchor, the
\* bridge and the state of the host are what they were.
ServerDies ==
  /\ Happens
  /\ route' = [d \in Phones |-> NoRoute] /\ tun' = [d \in Phones |-> "off"]
  /\ at' = [j \in Jobs |-> [d \in Phones |-> "none"]]
  /\ plan' = [j \in Jobs |-> [d \in Phones |-> NoRuleset]]
  /\ check' = NoCheck /\ quar' = NoWork /\ recov' = NoWork /\ fresh' = FALSE
  /\ UNCHANGED <<anchor, bridge, host>>

TunnelStep(d) == TunnelEnds(d) \/ TunnelDies(d) \/ TunnelRestarts(d)

QuarantineStep ==
  \/ QuarantineBridge \/ QuarantineEnds
  \/ \E d \in Phones : QuarantineStops(d) \/ QuarantineStopped(d)

LoadStep(d) ==
  \/ StartLoaded(d) \/ RolledBack(d) \/ StartGuarded(d) \/ RulesRemoved(d)
  \/ StopGuarded(d) \/ LossGuarded(d) \/ MismatchGuarded(d) \/ RecoveryGuarded(d)

StartStep(d) ==
  \/ StopWaited(d) \/ OldStopped(d) \/ InterfaceChosen(d) \/ Permitted(d)
  \/ PeerFound(d) \/ StatesCleared(d) \/ StartUndone(d)

StopStep(d) == StartWaited(d) \/ StopTunnelDown(d) \/ StopCompletes(d)

LossStep(d) ==
  \/ LossUnguarded(d) \/ MismatchEnds(d) \/ TimerFires(d) \/ RecoveryStarts(d)

HealthStep == HealthLooks \/ \E d \in Phones : HealthChecks(d)

RecoveryStep ==
  \/ RecoveryClears \/ RecoveryInspects \/ RecoveryEnds
  \/ \E d \in Phones : RecoveryStops(d) \/ RecoveryStopped(d)

RouteNext ==
  \/ \E d \in Phones : LoadStep(d)
  \/ /\ ~Refusing
     /\ \/ \E d \in Phones :
             \/ TunnelStep(d) \/ StartAsked(d) \/ StartStep(d) \/ StopAsked(d) \/ StopStep(d)
             \/ VerificationFails(d) \/ LossStep(d)
        \/ HealthStep \/ QuarantineStep \/ RecoveryBegins \/ RecoveryStep
        \/ AnchorFlushed \/ BridgeTurnedOn \/ Reconcile \/ ServerDies

RouteSpec == RouteInit /\ [][RouteNext]_routeVars

----------------------------------------------------------------------------
(* Properties *)

\* When the quarantine has ended well no tunnel runs, not even one whose start
\* was under way: "late asynchronous route completions cannot start a tunnel".
QuarantinedIsSilent ==
  host = "quarantined" /\ quar.at = "none" => \A d \in Phones : tun[d] = "off"

\* The barrier is lifted only with every tunnel confirmed stopped, a start's that
\* was under way too, and with the bridge up (recoverHostRouting).
LiftedOnlyWhenSafe ==
  [][host # "healthy" /\ host' = "healthy" =>
       bridge /\ quar.at = "none" /\ \A d \in Phones : tun[d] = "off"]_routeVars

\* What the code says of a lost route and does not keep (finding): when all that
\* was under way is over, a phone whose route was lost and that counts as blocked
\* is blocked by the packet filter.
LostIsBlocked ==
  (/\ quar.at = "none" /\ recov.at = "none" /\ ~Blocked
   /\ \A j \in Jobs, d \in Phones : at[j][d] \in {"none", "armed"}) =>
    \A d \in Phones : route[d].state = "route_lost" /\ route[d].blocked => anchor[d] = "block"
=============================================================================
