------------------------------ MODULE PhoneEgress ------------------------------
(***************************************************************************)
(* Which proxy a phone's traffic leaves by, and what is known of it: the   *)
(* pool of proxies with its exclusive leases (proxyPool.js), the evidence  *)
(* that the route is protected (networkVerifier.js) and the requests that  *)
(* change or collect it, each over several awaits.  Of a route only its    *)
(* state and its proxy are here; NetworkRouting has the rest.              *)
(***************************************************************************)
EXTENDS Naturals, FiniteSets

CONSTANTS
  Handhelds,     \* phones with a proxy egress
  Nothing,       \* no phone, no proxy
  Proxies,       \* the pool; a proxy is also the address its traffic is seen from
  Checks,        \* checks and attestations under way at once
  MaxTurns       \* bound: changes of a lease or a switch, and routes that end

ASSUME EgressAssumption == MaxTurns \in Nat /\ Nothing \notin Handhelds \cup Proxies

VARIABLES
  lease,       \* proxy -> leasedToDeviceId; a deleted proxy has none
  pool,        \* the proxies that exist
  switchedOn,  \* phones whose proxy setting is enabled
  path,        \* phone -> state and proxy of its route
  trust,       \* phone -> networkProtectionState, the address seen, whether it was overtaken
  turn,        \* phone -> generation of its evidence
  probe,       \* check -> how far it is
  turns        \* counter of the bound

egressVars == <<lease, pool, switchedOn, path, trust, turn, probe, turns>>

NoPath == [state |-> "none", proxy |-> Nothing]
NoTrust == [state |-> "UNCONFIGURED", address |-> Nothing, overtaken |-> FALSE]
NoProbe == [kind |-> "none", at |-> "none", phone |-> Nothing, turn |-> 0, same |-> FALSE,
            proxy |-> Nothing, proven |-> FALSE, overtaken |-> FALSE]

\* A route advances three times before it ends, and once when it has stopped.
Generation == 0..5 * (MaxTurns + 1)

EgressTypeOK ==
  /\ pool \subseteq Proxies /\ lease \in [Proxies -> Handhelds \cup {Nothing}]
  /\ switchedOn \subseteq Handhelds
  /\ path \in [Handhelds -> [state : {"none", "leased", "starting", "routed", "lost", "stopping"},
                             proxy : Proxies \cup {Nothing}]]
  /\ trust \in [Handhelds -> [state : {"UNCONFIGURED", "UNVERIFIED", "FAILED", "VERIFYING",
                                       "PROTECTED"},
                              address : Proxies \cup {Nothing}, overtaken : BOOLEAN]]
  /\ turn \in [Handhelds -> Generation] /\ turns \in 0..MaxTurns
  /\ probe \in [Checks -> [kind : {"none", "endpoint", "pool", "attest"},
                           at : {"none", "asked", "probing", "proving", "committing",
                                 "quarantining"},
                           phone : Handhelds \cup {Nothing}, turn : Generation, same : BOOLEAN,
                           proxy : Proxies \cup {Nothing}, proven : BOOLEAN,
                           overtaken : BOOLEAN]]

OnePhoneEach(l) == \A p, q \in Proxies : l[p] = l[q] => p = q

\* Leases outlive the server, routes and evidence do not.
EgressInit ==
  /\ lease \in {l \in [Proxies -> Handhelds] : OnePhoneEach(l)}
  /\ pool = Proxies /\ switchedOn = Handhelds
  /\ path = [d \in Handhelds |-> NoPath] /\ trust = [d \in Handhelds |-> NoTrust]
  /\ turn = [d \in Handhelds |-> 0] /\ probe = [k \in Checks |-> NoProbe] /\ turns = 0

\* proxyForDevice; networkDecision.
ProxyOf(d) == {p \in pool : lease[p] = d}
Controllable(d) == d \in switchedOn /\ trust[d].state = "PROTECTED"

----------------------------------------------------------------------------
\* What changes a phone's egress.

Turns == turns < MaxTurns /\ turns' = turns + 1

\* Every change of the phone overtakes the probes of it that are under way.
Overtaken(D) ==
  [k \in Checks |-> IF probe[k].phone \in D
                    THEN [probe[k] EXCEPT !.overtaken = TRUE, !.same = FALSE] ELSE probe[k]]

\* invalidate().
Invalidate(d) ==
  /\ trust' = [trust EXCEPT ![d] = [NoTrust EXCEPT !.state = "UNVERIFIED"]]
  /\ probe' = Overtaken({d}) /\ turn' = [turn EXCEPT ![d] = @ + 1]

\* The routes the requests about proxies see: registerProxyPoolRoutes is called while the
\* server's modules load, before there is an orchestrator, and keeps what it was given then.
RoutesSeenByPool == {}

\* proxy-assignment: the lease moves, or is given up.
Assigns(d, p) ==
  /\ d \notin RoutesSeenByPool
  /\ Turns
  /\ p # Nothing => p \in pool /\ lease[p] \in {d, Nothing}
  /\ lease' = [q \in Proxies |-> IF q = p THEN d ELSE IF lease[q] = d THEN Nothing ELSE lease[q]]
  /\ Invalidate(d)
  /\ UNCHANGED <<pool, switchedOn, path>>

Deletes(p) ==
  /\ p \in pool /\ lease[p] = Nothing /\ pool' = pool \ {p}
  /\ UNCHANGED <<lease, switchedOn, path, trust, turn, probe, turns>>

\* The proxy setting of a phone in devices.config.json.
Switches(d) ==
  /\ d \notin RoutesSeenByPool /\ Turns
  /\ switchedOn' = IF d \in switchedOn THEN switchedOn \ {d} ELSE switchedOn \cup {d}
  /\ Invalidate(d) /\ UNCHANGED <<lease, pool, path>>

\* onStateChanged: a route in another state invalidates.
PathBecomes(d, next) ==
  /\ path' = [path EXCEPT ![d] = next] /\ Invalidate(d) /\ UNCHANGED <<lease, pool, switchedOn>>

PathLeased(d) ==
  /\ path[d].state \in {"none", "lost"} /\ UNCHANGED turns
  /\ \E p \in ProxyOf(d) : PathBecomes(d, [state |-> "leased", proxy |-> p])

\* The proxy is looked up again, just before the tunnel is started.
PathStarts(d) ==
  /\ path[d].state = "leased" /\ UNCHANGED turns
  /\ PathBecomes(d, [path[d] EXCEPT !.state = IF path[d].proxy \in ProxyOf(d) THEN "starting"
                                              ELSE "lost"])

PathRouted(d) ==
  /\ path[d].state = "starting" /\ UNCHANGED turns
  /\ PathBecomes(d, [path[d] EXCEPT !.state = "routed"])

PathLost(d) ==
  /\ path[d].state \in {"starting", "routed"} /\ Turns
  /\ PathBecomes(d, [path[d] EXCEPT !.state = "lost"])

PathStopping(d) ==
  /\ path[d].state \notin {"none", "stopping"} /\ Turns
  /\ PathBecomes(d, [path[d] EXCEPT !.state = "stopping"])

PathStopped(d) ==
  path[d].state = "stopping" /\ PathBecomes(d, NoPath) /\ UNCHANGED turns

----------------------------------------------------------------------------
\* What collects evidence.  Authorization is awaited between any two steps, and when it is
\* refused the probe ends.

Changes == <<lease, pool, switchedOn, path, turn, turns>>

StillCurrent(k) == probe[k].turn = turn[probe[k].phone]

\* The probe goes on to another step.
GoesOn(k, next) == probe' = [probe EXCEPT ![k] = next] /\ UNCHANGED trust /\ UNCHANGED Changes

\* A probe writes what is known of its phone; an attestation of it compares the object.
Knows(k, state, address, next) ==
  LET d == probe[k].phone IN
  /\ trust' = [trust EXCEPT ![d] = [state |-> state, address |-> address,
                                    overtaken |-> probe[k].overtaken]]
  /\ probe' = [j \in Checks |-> IF j = k THEN next
                                ELSE IF probe[j].phone = d THEN [probe[j] EXCEPT !.same = FALSE]
                                ELSE probe[j]]
  /\ UNCHANGED Changes

\* network-check with a URL, or of the phone's proxy; network-attestation.
ProbeBegins(k, kind, d) ==
  /\ probe[k] = NoProbe
  /\ kind \in {"endpoint", "pool"} => d \in switchedOn
  /\ kind = "pool" => ProxyOf(d) # {}
  /\ GoesOn(k, [NoProbe EXCEPT !.kind = kind, !.at = "asked", !.phone = d, !.turn = turn[d],
                  !.proxy = IF kind = "pool" THEN CHOOSE p \in ProxyOf(d) : TRUE ELSE Nothing])

ProbeRefused(k) == probe[k] # NoProbe /\ GoesOn(k, NoProbe)

EndpointAsked(k) ==
  /\ probe[k].kind = "endpoint" /\ probe[k].at = "asked"
  /\ GoesOn(k, IF StillCurrent(k) THEN [probe[k] EXCEPT !.at = "probing"] ELSE NoProbe)

\* The endpoint cannot be reached.
EndpointFails(k) ==
  /\ probe[k].kind = "endpoint" /\ probe[k].at = "probing" /\ StillCurrent(k)
  /\ Knows(k, "FAILED", Nothing, NoProbe)

EndpointAnswers(k) ==
  /\ probe[k].kind = "endpoint" /\ probe[k].at = "probing"
  /\ GoesOn(k, IF StillCurrent(k) THEN [probe[k] EXCEPT !.at = "proving"] ELSE NoProbe)

\* proveCurrentRoute: what it saw may be gone by the time it is used.
Proves(k) ==
  /\ probe[k].kind # "pool" /\ probe[k].at = "proving"
  /\ \E proven \in {FALSE} \cup {path[probe[k].phone].state = "routed"} :
       GoesOn(k, [probe[k] EXCEPT !.at = "committing", !.proven = proven])

\* A mismatch takes the route out of service.
EndpointCommits(k) ==
  /\ probe[k].kind = "endpoint" /\ probe[k].at = "committing" /\ StillCurrent(k)
  /\ \/ probe[k].proven /\ Knows(k, "VERIFYING", Nothing, NoProbe)
     \/ Knows(k, "FAILED", Nothing, [probe[k] EXCEPT !.at = "quarantining"])

Quarantine(k) ==
  LET d == probe[k].phone IN
  /\ probe[k].at = "quarantining" /\ path[d].state = "routed" /\ Turns
  /\ path' = [path EXCEPT ![d].state = "lost"]
  /\ trust' = [trust EXCEPT ![d] = [NoTrust EXCEPT !.state = "UNVERIFIED"]]
  /\ probe' = [Overtaken({d}) EXCEPT ![k] = NoProbe] /\ turn' = [turn EXCEPT ![d] = @ + 1]
  /\ UNCHANGED <<lease, pool, switchedOn>>

\* The proxy was tested; the test cannot be recorded of a proxy that was deleted.
PoolTested(k) ==
  /\ probe[k].kind = "pool" /\ probe[k].at = "asked"
  /\ GoesOn(k, IF probe[k].proxy \in pool THEN [probe[k] EXCEPT !.at = "committing"] ELSE NoProbe)

\* recordInfrastructureCheck.
PoolCommits(k) ==
  /\ probe[k].kind = "pool" /\ probe[k].at = "committing" /\ StillCurrent(k)
  /\ Knows(k, IF path[probe[k].phone].state = "routed" THEN "VERIFYING" ELSE "FAILED", Nothing,
           NoProbe)

\* An operator confirms what the phone itself saw, right after a check of its route.
AttestAsked(k) ==
  /\ probe[k].kind = "attest" /\ probe[k].at = "asked"
  /\ GoesOn(k, IF StillCurrent(k) /\ trust[probe[k].phone].state = "VERIFYING"
               THEN [probe[k] EXCEPT !.at = "proving", !.same = TRUE] ELSE NoProbe)

\* The phones that are known to leave by this address and are assigned another proxy.
Colliding(d, address) ==
  {e \in Handhelds \ {d} : /\ trust[e].state = "PROTECTED" /\ trust[e].address = address
                           /\ ProxyOf(e) # {} /\ ProxyOf(d) # {} /\ ProxyOf(e) # ProxyOf(d)}

\* Mutant: the addresses of other phones are not compared.
AttestableAnyway(k, address) == StillCurrent(k) /\ probe[k].same /\ probe[k].proven

Attestable(k, address) ==
  StillCurrent(k) /\ probe[k].same /\ probe[k].proven /\ Colliding(probe[k].phone, address) = {}

AttestCommits(k, address) ==
  /\ probe[k].kind = "attest" /\ probe[k].at = "committing" /\ Attestable(k, address)
  /\ Knows(k, "PROTECTED", address, NoProbe)

EgressNext ==
  \/ \E d \in Handhelds :
       \/ \E p \in Proxies \cup {Nothing} : Assigns(d, p)
       \/ Switches(d) \/ PathLeased(d) \/ PathStarts(d) \/ PathRouted(d) \/ PathLost(d)
       \/ PathStopping(d) \/ PathStopped(d)
  \/ \E p \in Proxies : Deletes(p)
  \/ \E k \in Checks :
       \/ \E d \in Handhelds, kind \in {"endpoint", "pool", "attest"} : ProbeBegins(k, kind, d)
       \/ ProbeRefused(k) \/ EndpointAsked(k) \/ EndpointFails(k) \/ EndpointAnswers(k)
       \/ Proves(k) \/ EndpointCommits(k) \/ Quarantine(k) \/ PoolTested(k) \/ PoolCommits(k)
       \/ AttestAsked(k) \/ \E a \in Proxies : AttestCommits(k, a)

EgressSpec == EgressInit /\ [][EgressNext]_egressVars

----------------------------------------------------------------------------
\* A phone counts as verified on evidence nothing has overtaken: neither its lease, nor its
\* setting, nor its route has changed since the evidence was begun to be collected.
VerifiedIsCurrent ==
  \A d \in Handhelds : trust[d].state \in {"VERIFYING", "PROTECTED"} =>
    ~trust[d].overtaken /\ (trust[d].state = "PROTECTED" => path[d].state = "routed")

\* Two phones with different proxies never both count as protected behind one address.
NoSharedAddress ==
  \A d, e \in Handhelds :
    d # e /\ Controllable(d) /\ Controllable(e) /\ trust[d].address = trust[e].address
      => ProxyOf(d) = ProxyOf(e) \/ {} \in {ProxyOf(d), ProxyOf(e)}

\* A phone that counts as protected leaves by an address that is its own, now.
EgressIsOwn == VerifiedIsCurrent /\ NoSharedAddress

\* "Stop the active route before changing this phone's proxy assignment": the proxy a route
\* leaves by stays leased to its phone as long as there is a route.
RoutedProxyIsLeased ==
  \A d \in Handhelds : path[d].state \in {"starting", "routed"} => lease[path[d].proxy] = d
=============================================================================
