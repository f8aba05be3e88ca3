--------------------------- MODULE NetworkProofs ---------------------------
(***************************************************************************)
(* Proofs about the connections of the phones: the host's quarantine, the  *)
(* proxies traffic leaves by, the pairing of phones with interfaces, and   *)
(* the processes that reach a phone over its cable; for every set of       *)
(* phones, proxies, requests and process identities and every bound.       *)
(***************************************************************************)
EXTENDS NetworkRouting, PhoneEgress, NetworkEnrollment, Provisioning,
        FiniteSetTheorems, WellFoundedInduction, TLAPS

----------------------------------------------------------------------------
(* The host's quarantine (NetworkRouting)                                  *)

Works == [at : {"none", "permit", "stops", "clear", "bridge"}, todo : SUBSET Phones,
          cur : Phones \cup {NoPhone}, origin : Phones \cup {NoPhone},
          unsafe : BOOLEAN, down : BOOLEAN]

HostTyped ==
  /\ tun \in [Phones -> Tunnels]
  /\ host \in {"healthy", "quarantining", "quarantined", "recovery_required"}
  /\ quar \in Works /\ recov \in Works

\* The quarantine and the recovery exclude each other, and the host is
\* blocked while either is under way.
OneBarrier ==
  /\ quar.at = "none" \/ recov.at = "none"
  /\ (quar.at # "none" \/ recov.at # "none") => Blocked

\* A tunnel the quarantine knows nothing bad of is off, or still to be
\* stopped, or being stopped.
QuarantineCovers ==
  /\ quar.at \in {"none", "permit", "stops"}
  /\ quar.at = "permit" => quar.cur = NoPhone
  /\ quar.at # "none" =>
       \A d \in Phones : tun[d] = "off" \/ d \in quar.todo \/ d = quar.cur \/ quar.unsafe

\* The same of the recovery, which ends at the first tunnel that does not stop.
RecoveryCovers ==
  /\ recov.at \in {"none", "stops", "clear", "bridge"}
  /\ recov.at \in {"clear", "bridge"} => recov.cur = NoPhone /\ recov.todo = {}
  /\ recov.at # "none" =>
       \A d \in Phones : tun[d] = "off" \/ d \in recov.todo \/ d = recov.cur

\* The inductive invariant: whoever may say that the host is silent has an
\* account of every tunnel, and behind a barrier a tunnel that is off stays off.
BarrierHolds ==
  HostTyped /\ OneBarrier /\ QuarantineCovers /\ RecoveryCovers /\ QuarantinedIsSilent

-----------------------------------------------------------------------------
(* Steps that leave the barrier as it is.                                  *)

\* What nearly every step does: the barrier and its two workers are left
\* alone, and no tunnel that is off is started behind the barrier.
Steady ==
  /\ UNCHANGED <<host, quar, recov>>
  /\ tun' \in [Phones -> Tunnels]
  /\ Blocked => \A d \in Phones : tun[d] = "off" => tun'[d] = "off"

\* Stopping a tunnel turns none on (tunManager's stop).
LEMMA StoppedLemma ==
  ASSUME NEW d \in Phones, tun \in [Phones -> Tunnels], StopTunnel(d)
  PROVE  /\ tun' \in [Phones -> Tunnels]
         /\ \A e \in Phones : tun[e] = "off" => tun'[e] = "off"
         /\ \A e \in Phones : e # d => tun'[e] = tun[e]
BY DEF StopTunnel, Stopped, Tunnels

\* A steady step keeps the invariant.
LEMMA SteadyLemma ==
  ASSUME BarrierHolds, Steady
  PROVE  BarrierHolds'
<1>1. HostTyped' BY DEF BarrierHolds, HostTyped, Steady
<1>2. OneBarrier' BY DEF BarrierHolds, OneBarrier, Steady, Blocked
<1>3. QuarantineCovers' BY DEF BarrierHolds, QuarantineCovers, OneBarrier, Steady
<1>4. RecoveryCovers' BY DEF BarrierHolds, RecoveryCovers, OneBarrier, Steady
<1>5. QuarantinedIsSilent' BY DEF BarrierHolds, QuarantinedIsSilent, Steady, Blocked
<1> QED BY <1>1, <1>2, <1>3, <1>4, <1>5 DEF BarrierHolds

\* Steps that leave the tunnels alone, or stop one.
LEMMA CalmLemma ==
  ASSUME BarrierHolds, UNCHANGED <<host, quar, recov>>,
         UNCHANGED tun \/ \E d \in Phones : StopTunnel(d)
  PROVE  Steady
BY StoppedLemma DEF BarrierHolds, HostTyped, Steady

\* Tunnels by themselves: one that ended or died was not off, and only a start
\* that is not behind the barrier turns one on.
LEMMA TunnelLemma ==
  ASSUME BarrierHolds, NEW d \in Phones, TunnelStep(d) \/ Permitted(d)
  PROVE  Steady
<1> tun \in [Phones -> Tunnels] BY DEF BarrierHolds, HostTyped
<1>1. CASE TunnelEnds(d)
  BY <1>1 DEF TunnelEnds, tunOnly, Steady, Tunnels, Settles
<1>2. CASE TunnelDies(d)
  BY <1>2 DEF TunnelDies, tunOnly, Steady, Tunnels
<1>3. CASE TunnelRestarts(d)
  BY <1>3 DEF TunnelRestarts, tunOnly, Steady, Tunnels
<1>4. CASE Permitted(d)
  <2>1. UNCHANGED <<host, quar, recov>> BY <1>4 DEF Permitted, startOnly
  <2>2. CASE StopTunnel(d) BY <2>1, <2>2, CalmLemma
  <2>3. CASE ~Blocked /\ tun' = [tun EXCEPT ![d] = Started(@)]
    BY <2>1, <2>3 DEF Steady, Started, Tunnels
  <2> QED BY <1>4, <2>2, <2>3 DEF Permitted, Fail
<1> QED BY <1>1, <1>2, <1>3, <1>4 DEF TunnelStep

\* Starting and stopping a route.
LEMMA BeginLemma ==
  ASSUME NEW d \in Phones, NEW a, BeginStart(d, a) \/ CallStart(d, a)
  PROVE  UNCHANGED tun \/ StopTunnel(d)
BY DEF BeginStart, CallStart

\* A start leaves the barrier alone.
LEMMA StartLemma ==
  ASSUME BarrierHolds, NEW d \in Phones, StartAsked(d) \/ StartStep(d)
  PROVE  Steady
<1>1. CASE StartAsked(d)
  BY <1>1, BeginLemma, CalmLemma DEF StartAsked
<1>2. CASE StopWaited(d)
  BY <1>2, BeginLemma, CalmLemma DEF StopWaited, startOnly
<1>3. CASE OldStopped(d)
  BY <1>3, CalmLemma DEF OldStopped, startOnly
<1>4. CASE InterfaceChosen(d)
  BY <1>4, CalmLemma DEF InterfaceChosen, startOnly, Fail
<1>5. CASE Permitted(d)
  BY <1>5, TunnelLemma
<1>6. CASE PeerFound(d)
  BY <1>6, CalmLemma DEF PeerFound, startOnly, Fail
<1>7. CASE StatesCleared(d)
  BY <1>7, CalmLemma DEF StatesCleared, startOnly, Fail
<1>8. CASE StartUndone(d)
  BY <1>8, CalmLemma DEF StartUndone, startOnly
<1> QED BY <1>1, <1>2, <1>3, <1>4, <1>5, <1>6, <1>7, <1>8 DEF StartStep

\* A stop does too.
LEMMA StopLemma ==
  ASSUME BarrierHolds, NEW d \in Phones, StopAsked(d) \/ StopStep(d)
  PROVE  Steady
<1>1. CASE StopAsked(d)
  BY <1>1, CalmLemma DEF StopAsked, BeginStop
<1>2. CASE StartWaited(d)
  BY <1>2, CalmLemma DEF StartWaited, BeginStop, stopOnly
<1>3. CASE StopTunnelDown(d)
  BY <1>3, CalmLemma DEF StopTunnelDown, stopOnly
<1>4. CASE StopCompletes(d)
  BY <1>4, CalmLemma DEF StopCompletes, stopOnly
<1> QED BY <1>1, <1>2, <1>3, <1>4 DEF StopStep

-----------------------------------------------------------------------------
(* Steps that may begin the quarantine.                                    *)

\* A quarantine that begins has every tunnel that is not off before it.
LEMMA EnforceLemma ==
  ASSUME BarrierHolds, NEW d \in Phones, Enforce(d), UNCHANGED <<tun, recov>>
  PROVE  BarrierHolds' /\ (host # "healthy" => host' # "healthy")
<1>1. CASE recov.at # "none" \/ quar.at # "none"
  <2>1. Steady BY <1>1, CalmLemma DEF Enforce
  <2> QED BY <2>1, SteadyLemma DEF Steady
<1>2. CASE recov.at = "none" /\ quar.at = "none"
  <2> DEFINE all == {d} \cup {e \in Phones : route[e].state # "none" \/ tun[e] # "off"}
  <2>1. /\ quar' = [NoWork EXCEPT !.at = "permit", !.origin = d, !.todo = all]
        /\ host' = IF Blocked THEN host ELSE "quarantining"
    BY <1>2 DEF Enforce
  <2>2. /\ quar' \in Works /\ quar'.at = "permit" /\ quar'.todo = all
        /\ quar'.cur = NoPhone
    BY ZenonT(30), <2>1 DEF Works, NoWork
  <2>3. HostTyped' BY <2>1, <2>2 DEF BarrierHolds, HostTyped
  <2>4. OneBarrier' BY <1>2, <2>1, <2>2 DEF OneBarrier, Blocked
  <2>5. QuarantineCovers' BY <2>2 DEF QuarantineCovers
  <2>6. RecoveryCovers' BY <1>2 DEF BarrierHolds, RecoveryCovers
  <2>7. QuarantinedIsSilent' BY <2>2 DEF QuarantinedIsSilent
  <2> QED BY <2>1, <2>3, <2>4, <2>5, <2>6, <2>7 DEF BarrierHolds, Blocked
<1> QED BY <1>1, <1>2

\* A load that ended leaves the barrier alone, or could not block its phone.
LEMMA LoadLemma ==
  ASSUME BarrierHolds, NEW d \in Phones, LoadStep(d)
  PROVE  Steady \/ (Enforce(d) /\ UNCHANGED <<tun, recov>>)
<1>1. CASE StartLoaded(d)
  <2>1. UNCHANGED <<host, quar, recov>> BY <1>1 DEF StartLoaded, startOnly
  <2>2. UNCHANGED tun \/ StopTunnel(d)
    BY <1>1 DEF StartLoaded, Fail, Results
  <2> QED BY <2>1, <2>2, CalmLemma
<1>2. CASE RolledBack(d)
  BY <1>2, CalmLemma DEF RolledBack, startOnly, Fail
<1>3. CASE StartGuarded(d)
  BY <1>3, CalmLemma DEF StartGuarded, startOnly
<1>4. CASE RulesRemoved(d)
  BY <1>4, CalmLemma DEF RulesRemoved, stopOnly
<1>5. CASE StopGuarded(d)
  BY <1>5, CalmLemma DEF StopGuarded, stopOnly
<1>6. CASE LossGuarded(d)
  BY <1>6, CalmLemma DEF LossGuarded, lossOnly
<1>7. CASE MismatchGuarded(d)
  BY <1>7, CalmLemma DEF MismatchGuarded, lossOnly
<1>8. CASE RecoveryGuarded(d)
  BY <1>8, CalmLemma DEF RecoveryGuarded, lossOnly
<1> QED BY <1>1, <1>2, <1>3, <1>4, <1>5, <1>6, <1>7, <1>8 DEF LoadStep

\* A loss leaves the barrier alone, or raises it.
LEMMA LossLemma ==
  ASSUME BarrierHolds, NEW d \in Phones, LossStep(d) \/ VerificationFails(d)
  PROVE  Steady \/ (Enforce(d) /\ UNCHANGED <<tun, recov>>)
<1>1. CASE LossUnguarded(d)
  BY <1>1 DEF LossUnguarded, lossOnly
<1>2. CASE MismatchEnds(d)
  BY <1>2, CalmLemma DEF MismatchEnds, lossOnly
<1>3. CASE TimerFires(d)
  BY <1>3, CalmLemma DEF TimerFires, lossOnly
<1>4. CASE RecoveryStarts(d)
  BY <1>4, BeginLemma, CalmLemma DEF RecoveryStarts, lossOnly
<1>5. CASE VerificationFails(d)
  BY <1>5, CalmLemma DEF VerificationFails
<1> QED BY <1>1, <1>2, <1>3, <1>4, <1>5 DEF LossStep

\* The steps of no phone's job.
LEMMA OtherLemma ==
  ASSUME BarrierHolds,
         HealthStep \/ AnchorFlushed \/ BridgeTurnedOn \/ Reconcile
  PROVE  Steady
<1>1. UNCHANGED <<tun, host, quar, recov>>
  BY DEF HealthStep, HealthLooks, HealthChecks, checkOnly, AnchorFlushed, BridgeTurnedOn,
         Reconcile
<1> QED BY <1>1, CalmLemma

-----------------------------------------------------------------------------
(* The quarantine and the recovery.                                        *)

\* The quarantine stops one tunnel after the other and keeps its account of
\* them; it ends well only when all are off.
LEMMA QuarantineLemma ==
  ASSUME RoutingAssumption, BarrierHolds, QuarantineStep
  PROVE  BarrierHolds' /\ (host # "healthy" => host' # "healthy")
<1> USE DEF quarOnly
<1>1. CASE QuarantineBridge
  <2>1. /\ UNCHANGED <<tun, host, recov>>
        /\ quar.at = "permit" /\ quar'.at = "stops" /\ quar' \in Works
        /\ quar'.todo = quar.todo /\ quar'.cur = quar.cur /\ quar'.unsafe = quar.unsafe
    BY ZenonT(90), <1>1 DEF QuarantineBridge, BarrierHolds, HostTyped, Works
  <2> QED BY <2>1 DEF BarrierHolds, HostTyped, OneBarrier, QuarantineCovers, RecoveryCovers,
                      QuarantinedIsSilent, Blocked
<1>2. CASE QuarantineEnds
  <2>1. /\ UNCHANGED <<tun, recov>>
        /\ quar.at = "stops" /\ quar.cur = NoPhone /\ quar.todo = {} /\ quar'.at = "none"
        /\ quar' \in Works
        /\ host' \in {"quarantined", "recovery_required"}
        /\ host' = "quarantined" => ~quar.unsafe
    BY <1>2 DEF QuarantineEnds, NoWork, Works
  <2>2. host' = "quarantined" => \A d \in Phones : tun[d] = "off"
    BY <2>1, RoutingAssumption DEF BarrierHolds, QuarantineCovers, RoutingAssumption
  <2> QED BY <2>1, <2>2 DEF BarrierHolds, HostTyped, OneBarrier, QuarantineCovers, RecoveryCovers,
                           QuarantinedIsSilent, Blocked
<1>3. ASSUME NEW d \in Phones, QuarantineStops(d) PROVE BarrierHolds' /\ host' = host
  <2>1. /\ UNCHANGED <<host, recov>> /\ StopTunnel(d)
        /\ quar.at = "stops" /\ quar.cur = NoPhone /\ quar'.at = "stops" /\ quar' \in Works
        /\ quar'.todo = quar.todo \ {d} /\ quar'.cur = d /\ quar'.unsafe = quar.unsafe
    BY <1>3 DEF QuarantineStops, BarrierHolds, HostTyped, Works
  <2>2. /\ tun' \in [Phones -> Tunnels]
        /\ \A e \in Phones : tun[e] = "off" => tun'[e] = "off"
    BY <2>1, StoppedLemma DEF BarrierHolds, HostTyped
  <2>3. QuarantineCovers'
    <3>1. \A e \in Phones : tun[e] = "off" \/ e \in quar.todo \/ quar.unsafe
      BY <2>1, RoutingAssumption DEF BarrierHolds, QuarantineCovers, RoutingAssumption
    <3> QED BY <2>1, <2>2, <3>1 DEF QuarantineCovers
  <2> QED BY <2>1, <2>2, <2>3 DEF BarrierHolds, HostTyped, OneBarrier, RecoveryCovers,
                                  QuarantinedIsSilent, Blocked
<1>4. ASSUME NEW d \in Phones, QuarantineStopped(d) PROVE BarrierHolds' /\ host' = host
  <2>1. /\ UNCHANGED <<host, recov, tun>>
        /\ quar.at = "stops" /\ quar.cur = d /\ quar'.at = "stops" /\ quar' \in Works
        /\ quar'.todo = quar.todo /\ quar'.cur = NoPhone
        /\ quar'.unsafe = (quar.unsafe \/ tun[d] # "off")
    BY <1>4, Zenon DEF QuarantineStopped, BarrierHolds, HostTyped, Works
  <2>3. QuarantineCovers'
    BY <2>1 DEF BarrierHolds, QuarantineCovers
  <2> QED BY <2>1, <2>3 DEF BarrierHolds, HostTyped, OneBarrier, RecoveryCovers,
                            QuarantinedIsSilent, Blocked
<1> QED BY <1>1, <1>2, <1>3, <1>4 DEF QuarantineStep, QuarantineBridge

\* The recovery does the same, and lifts the barrier at its end only.
LEMMA RecoveryLemma ==
  ASSUME RoutingAssumption, BarrierHolds, RecoveryBegins \/ RecoveryStep
  PROVE  /\ BarrierHolds'
         /\ host # "healthy" /\ host' = "healthy" =>
              bridge /\ quar.at = "none" /\ \A d \in Phones : tun[d] = "off"
<1> USE DEF recovOnly
<1>1. CASE RecoveryBegins
  <2>1. /\ UNCHANGED <<host, quar, tun>> /\ Blocked /\ quar.at = "none"
        /\ recov' \in Works /\ recov'.at = "stops" /\ recov'.todo = Phones
    BY <1>1 DEF RecoveryBegins, NoWork, Works
  <2> QED BY <2>1 DEF BarrierHolds, HostTyped, OneBarrier, QuarantineCovers, RecoveryCovers,
                      QuarantinedIsSilent, Blocked
<1>2. ASSUME NEW d \in Phones, RecoveryStops(d) PROVE BarrierHolds' /\ host' = host
  <2>1. /\ UNCHANGED <<host, quar>> /\ StopTunnel(d)
        /\ recov.at = "stops" /\ recov.cur = NoPhone /\ recov'.at = "stops" /\ recov' \in Works
        /\ recov'.todo = recov.todo \ {d} /\ recov'.cur = d
    BY <1>2 DEF RecoveryStops, BarrierHolds, HostTyped, Works
  <2>2. /\ tun' \in [Phones -> Tunnels]
        /\ \A e \in Phones : tun[e] = "off" => tun'[e] = "off"
    BY <2>1, StoppedLemma DEF BarrierHolds, HostTyped
  <2>3. RecoveryCovers'
    <3>1. \A e \in Phones : tun[e] = "off" \/ e \in recov.todo
      BY <2>1, RoutingAssumption DEF BarrierHolds, RecoveryCovers, RoutingAssumption
    <3> QED BY <2>1, <2>2, <3>1 DEF RecoveryCovers
  <2> QED BY <2>1, <2>2, <2>3 DEF BarrierHolds, HostTyped, OneBarrier, QuarantineCovers,
                                  QuarantinedIsSilent, Blocked
<1>3. ASSUME NEW d \in Phones, RecoveryStopped(d) PROVE BarrierHolds' /\ host' = host
  <2>1. /\ UNCHANGED <<host, quar, tun>> /\ recov.at = "stops" /\ recov.cur = d
        /\ recov' \in Works
        /\ \/ recov'.at = "none"
           \/ /\ recov'.at = "stops" /\ recov'.cur = NoPhone /\ recov'.todo = recov.todo
              /\ tun[d] = "off"
    BY <1>3 DEF RecoveryStopped, NoWork, BarrierHolds, HostTyped, Works
  <2>2. RecoveryCovers' BY <2>1 DEF BarrierHolds, RecoveryCovers
  <2> QED BY <2>1, <2>2 DEF BarrierHolds, HostTyped, OneBarrier, QuarantineCovers,
                            QuarantinedIsSilent, Blocked
<1>4. CASE RecoveryClears \/ RecoveryInspects
  <2>1. /\ UNCHANGED <<host, quar, tun>> /\ recov.at \in {"stops", "clear"}
        /\ recov' \in Works /\ recov.cur = NoPhone /\ recov.todo = {}
        /\ \/ recov'.at = "none"
           \/ recov'.at \in {"clear", "bridge"} /\ recov'.cur = NoPhone /\ recov'.todo = {}
    <3>1. CASE RecoveryClears
      <4>1. recov \in Works BY DEF BarrierHolds, HostTyped
      <4>2. UNCHANGED <<host, quar, tun>> BY <3>1 DEF RecoveryClears
      <4>3. recov' = [recov EXCEPT !.at = "clear"] \/ recov' = NoWork
        BY <3>1 DEF RecoveryClears
      <4>4. recov.at = "stops" /\ recov.cur = NoPhone /\ recov.todo = {}
        BY <3>1 DEF RecoveryClears
      <4>5. recov' = [recov EXCEPT !.at = "clear"] =>
              recov' \in Works /\ recov'.at = "clear" /\ recov'.cur = NoPhone /\ recov'.todo = {}
        BY <4>1, <4>4 DEF Works
      <4>6. recov' = NoWork => recov' \in Works /\ recov'.at = "none"
        BY DEF NoWork, Works
      <4> QED BY <4>2, <4>3, <4>4, <4>5, <4>6
    <3>2. CASE RecoveryInspects
      BY <3>2 DEF RecoveryInspects, NoWork, BarrierHolds, HostTyped, RecoveryCovers, Works
    <3> QED BY <1>4, <3>1, <3>2
  <2>2. RecoveryCovers' BY <2>1 DEF BarrierHolds, RecoveryCovers
  <2> QED BY <2>1, <2>2 DEF BarrierHolds, HostTyped, OneBarrier, QuarantineCovers,
                            QuarantinedIsSilent, Blocked
<1>5. CASE RecoveryEnds
  <2>1. /\ UNCHANGED <<quar, tun, bridge>> /\ recov.at = "bridge"
        /\ recov' \in Works /\ recov'.at = "none"
        /\ host' \in {host, "recovery_required", "healthy"}
        /\ host' = "healthy" => host = "healthy" \/ bridge
    BY ZenonT(30), <1>5 DEF RecoveryEnds, NoWork, Works
  <2>2. /\ quar.at = "none" /\ \A d \in Phones : tun[d] = "off"
    BY <2>1, RoutingAssumption DEF BarrierHolds, OneBarrier, RecoveryCovers, RoutingAssumption
  <2> QED BY <2>1, <2>2 DEF BarrierHolds, HostTyped, OneBarrier, QuarantineCovers, RecoveryCovers,
                           QuarantinedIsSilent, Blocked
<1> QED BY <1>1, <1>2, <1>3, <1>4, <1>5 DEF RecoveryStep, RecoveryBegins, RecoveryClears,
                                         RecoveryInspects

\* After a crash nothing is under way, and the tunnels of the last run are off.
LEMMA CrashLemma ==
  ASSUME BarrierHolds, ServerDies
  PROVE  BarrierHolds' /\ host' = host
BY DEF ServerDies, BarrierHolds, HostTyped, OneBarrier, QuarantineCovers, RecoveryCovers,
       QuarantinedIsSilent, Works, NoWork, Tunnels, Blocked

-----------------------------------------------------------------------------
(* The theorems.                                                           *)

\* Nothing is routed and nothing isolated at first.
LEMMA RouteInitLemma == RouteInit => BarrierHolds
BY DEF RouteInit, BarrierHolds, HostTyped, OneBarrier, QuarantineCovers, RecoveryCovers,
       QuarantinedIsSilent, Works, NoWork, Tunnels, Blocked

\* Every step keeps the barrier, and a host becomes healthy only when nothing leaves it.
LEMMA RouteStepLemma ==
  ASSUME RoutingAssumption, BarrierHolds, [RouteNext]_routeVars
  PROVE  /\ BarrierHolds'
         /\ host # "healthy" /\ host' = "healthy" =>
              bridge /\ quar.at = "none" /\ \A d \in Phones : tun[d] = "off"
<1>1. ASSUME Steady PROVE BarrierHolds' /\ host' = host
  BY <1>1, SteadyLemma DEF Steady
<1>2. ASSUME NEW d \in Phones, LoadStep(d) PROVE BarrierHolds' /\ (host # "healthy" => host' # "healthy")
  BY <1>1, <1>2, LoadLemma, EnforceLemma
<1>3. ASSUME NEW d \in Phones, LossStep(d) \/ VerificationFails(d)
      PROVE BarrierHolds' /\ (host # "healthy" => host' # "healthy")
  BY <1>1, <1>3, LossLemma, EnforceLemma
<1>4. ASSUME NEW d \in Phones,
             TunnelStep(d) \/ StartAsked(d) \/ StartStep(d) \/ StopAsked(d) \/ StopStep(d)
      PROVE BarrierHolds' /\ host' = host
  BY <1>1, <1>4, TunnelLemma, StartLemma, StopLemma
<1>5. CASE HealthStep \/ AnchorFlushed \/ BridgeTurnedOn \/ Reconcile
  BY <1>1, <1>5, OtherLemma
<1>6. CASE QuarantineStep BY <1>6, QuarantineLemma
<1>7. CASE RecoveryBegins \/ RecoveryStep BY <1>7, RecoveryLemma
<1>8. CASE ServerDies BY <1>8, CrashLemma
<1>9. CASE UNCHANGED routeVars
  BY <1>1, <1>9, CalmLemma DEF routeVars
<1> QED BY <1>2, <1>3, <1>4, <1>5, <1>6, <1>7, <1>8, <1>9 DEF RouteNext

\* Every step keeps the account of the tunnels behind the barrier: a start
\* that a quarantine overtakes, a late load, a tunnel that dies or does not
\* stop, and a crash included (networkRoutingOrchestrator.js).
THEOREM BarrierInvariance == RouteSpec => []BarrierHolds
<1>1. BarrierHolds /\ [RouteNext]_routeVars => BarrierHolds'
  BY RoutingAssumption, RouteStepLemma
<1> QED BY <1>1, RouteInitLemma, PTL DEF RouteSpec

\* When a quarantine ended well no tunnel runs, not even one whose start was
\* under way (_enforceEmergencyQuarantine).
THEOREM QuarantineSilence == RouteSpec => []QuarantinedIsSilent
<1>1. BarrierHolds => QuarantinedIsSilent BY DEF BarrierHolds
<1> QED BY <1>1, BarrierInvariance, PTL

\* The barrier is lifted only with every tunnel confirmed off, with the bridge
\* up and no quarantine under way (recoverHostRouting).
THEOREM SafeLifting == RouteSpec => LiftedOnlyWhenSafe
<1>1. BarrierHolds /\ [RouteNext]_routeVars =>
        [host # "healthy" /\ host' = "healthy" =>
           bridge /\ quar.at = "none" /\ \A d \in Phones : tun[d] = "off"]_routeVars
  BY RoutingAssumption, RouteStepLemma
<1> QED BY <1>1, BarrierInvariance, PTL DEF RouteSpec, LiftedOnlyWhenSafe

----------------------------------------------------------------------------
(* What is known of the address a phone's traffic leaves by (PhoneEgress)  *)

PathRecords ==
  [state : {"none", "leased", "starting", "routed", "lost", "stopping"}, proxy : Proxies \cup {Nothing}]
TrustRecords ==
  [state : {"UNCONFIGURED", "UNVERIFIED", "FAILED", "VERIFYING", "PROTECTED"},
   address : Proxies \cup {Nothing}, overtaken : BOOLEAN]
ProbeRecords ==
  [kind : {"none", "endpoint", "pool", "attest"},
   at : {"none", "asked", "probing", "proving", "committing", "quarantining"},
   phone : Handhelds \cup {Nothing}, turn : Nat, same : BOOLEAN,
   proxy : Proxies \cup {Nothing}, proven : BOOLEAN, overtaken : BOOLEAN]

EgressTyped ==
  /\ pool \subseteq Proxies /\ lease \in [Proxies -> Handhelds \cup {Nothing}]
  /\ path \in [Handhelds -> PathRecords] /\ trust \in [Handhelds -> TrustRecords]
  /\ turn \in [Handhelds -> Nat] /\ probe \in [Checks -> ProbeRecords]

\* A probe that was overtaken is of an earlier generation than its phone's evidence, and what
\* a current one has proven of the route still holds.
ProbeOK(k) ==
  probe[k] # NoProbe =>
    /\ probe[k].phone \in Handhelds /\ probe[k].turn <= turn[probe[k].phone]
    /\ probe[k].overtaken => ~StillCurrent(k)
    /\ probe[k].proven /\ StillCurrent(k) => path[probe[k].phone].state = "routed"

\* No two phones are known to be protected behind one address, whatever their settings are.
Apart(d, e) ==
  (/\ d # e /\ trust[d].state = "PROTECTED" /\ trust[e].state = "PROTECTED"
   /\ trust[d].address = trust[e].address)
  => ProxyOf(d) = ProxyOf(e) \/ {} \in {ProxyOf(d), ProxyOf(e)}

EgressInv ==
  /\ EgressTyped /\ VerifiedIsCurrent
  /\ \A k \in Checks : ProbeOK(k)
  /\ \A d, e \in Handhelds : Apart(d, e)

\* At the start nothing is known of any phone.
LEMMA EgressInitLemma == EgressInit => EgressInv
<1> SUFFICES ASSUME EgressInit PROVE EgressInv
  OBVIOUS
<1>1. NoPath \in PathRecords /\ NoTrust \in TrustRecords /\ NoProbe \in ProbeRecords
  BY DEF NoPath, NoTrust, NoProbe, PathRecords, TrustRecords, ProbeRecords
<1>2. \A d \in Handhelds : trust[d].state = "UNCONFIGURED" BY DEF EgressInit, NoTrust
<1>3. \A k \in Checks : probe[k] = NoProbe BY DEF EgressInit
<1>4. EgressTyped BY <1>1 DEF EgressInit, EgressTyped
<1>5. VerifiedIsCurrent BY <1>2 DEF VerifiedIsCurrent
<1>6. \A d, e \in Handhelds : Apart(d, e) BY <1>2 DEF Apart
<1> QED BY <1>3, <1>4, <1>5, <1>6 DEF EgressInv, ProbeOK

\* Whatever changes a phone's lease, setting or route takes back what was known of it and
\* overtakes every probe of it (networkVerifier.js invalidate).
LEMMA InvalidateLemma ==
  ASSUME EgressInv, NEW d \in Handhelds,
         EgressTyped', turn' = [turn EXCEPT ![d] = @ + 1],
         trust' = [trust EXCEPT ![d] = [NoTrust EXCEPT !.state = "UNVERIFIED"]],
         \A k \in Checks : probe'[k] \in {NoProbe, Overtaken({d})[k]},
         \A e \in Handhelds : e # d => path'[e] = path[e] /\ ProxyOf(e)' = ProxyOf(e)
  PROVE  EgressInv'
<1>1. EgressTyped /\ trust'[d].state = "UNVERIFIED" /\ turn'[d] = turn[d] + 1 /\ turn[d] \in Nat
  BY DEF EgressInv, EgressTyped, NoTrust
<1>2. \A e \in Handhelds : e # d => trust'[e] = trust[e] /\ turn'[e] = turn[e]
  BY <1>1 DEF EgressTyped
<1>3. VerifiedIsCurrent' BY <1>1, <1>2 DEF EgressInv, VerifiedIsCurrent
<1>4. ASSUME NEW x \in Handhelds, NEW e \in Handhelds PROVE Apart(x, e)'
  <2>1. CASE x = d \/ e = d BY <1>1, <2>1 DEF Apart
  <2>2. CASE x # d /\ e # d
    <3>1. Apart(x, e) BY DEF EgressInv
    <3>2. ProxyOf(x)' = ProxyOf(x) /\ ProxyOf(e)' = ProxyOf(e) BY <2>2
    <3>3. trust'[x] = trust[x] /\ trust'[e] = trust[e] BY <1>2, <2>2
    <3> QED BY <3>1, <3>2, <3>3 DEF Apart
  <2> QED BY <2>1, <2>2
<1>5. ASSUME NEW k \in Checks PROVE ProbeOK(k)'
  <2>1. ProbeOK(k) /\ probe[k] \in ProbeRecords BY <1>1 DEF EgressInv, EgressTyped
  <2>2. CASE probe'[k] = NoProbe BY <2>2 DEF ProbeOK
  <2>3. CASE probe'[k] # NoProbe /\ probe[k].phone = d
    <3>1. probe'[k] = [probe[k] EXCEPT !.overtaken = TRUE, !.same = FALSE]
      BY ZenonT(30), <2>3 DEF Overtaken
    <3>2. probe'[k].phone = d /\ probe'[k].turn = probe[k].turn
      BY <2>1, <2>3, <3>1 DEF ProbeRecords
    <3>3. probe[k] # NoProbe
      BY <2>3, EgressAssumption DEF NoProbe
    <3>4. probe[k].turn <= turn[d] /\ probe[k].turn \in Nat
      BY <2>1, <2>3, <3>3 DEF ProbeOK, ProbeRecords
    <3>5. probe'[k].turn <= turn'[d] /\ probe'[k].turn # turn'[d]
      BY <3>2, <3>4, <1>1
    <3> QED BY <3>2, <3>5 DEF ProbeOK, StillCurrent
  <2>4. CASE probe'[k] # NoProbe /\ probe[k].phone # d
    <3>1. probe'[k] = probe[k] BY ZenonT(30), <2>4 DEF Overtaken
    <3>2. probe[k].phone \in Handhelds BY <2>1, <2>4, <3>1 DEF ProbeOK
    <3>3. turn'[probe[k].phone] = turn[probe[k].phone] /\ path'[probe[k].phone] = path[probe[k].phone]
      BY <1>2, <2>4, <3>2
    <3> QED BY <2>1, <2>4, <3>1, <3>3 DEF ProbeOK, StillCurrent
  <2> QED BY <2>2, <2>3, <2>4
<1> QED BY <1>3, <1>4, <1>5 DEF EgressInv

\* Marking the probes keeps the types.
LEMMA OvertakenLemma ==
  ASSUME EgressInv, NEW d \in Handhelds
  PROVE  /\ Overtaken({d}) \in [Checks -> ProbeRecords]
         /\ [NoTrust EXCEPT !.state = "UNVERIFIED"] \in TrustRecords
         /\ NoProbe \in ProbeRecords /\ NoPath \in PathRecords
         /\ [turn EXCEPT ![d] = @ + 1] \in [Handhelds -> Nat]
<1>1. \A k \in Checks : [probe[k] EXCEPT !.overtaken = TRUE, !.same = FALSE] \in ProbeRecords
  BY ZenonT(60) DEF EgressInv, EgressTyped, ProbeRecords
<1>2. \A k \in Checks : Overtaken({d})[k] \in {probe[k], [probe[k] EXCEPT !.overtaken = TRUE, !.same = FALSE]}
  BY DEF Overtaken
<1>3. \A k \in Checks : probe[k] \in ProbeRecords BY DEF EgressInv, EgressTyped
<1>4. \A k \in Checks : Overtaken({d})[k] \in ProbeRecords BY ZenonT(30), <1>1, <1>2, <1>3
<1>5. \E f : f = Overtaken({d}) /\ f = [k \in Checks |-> f[k]] BY ZenonT(30) DEF Overtaken
<1>6. PICK f : f = Overtaken({d}) /\ f = [k \in Checks |-> f[k]] BY <1>5
<1>7. \A k \in Checks : f[k] \in ProbeRecords BY <1>4, <1>6
<1>8. f \in [Checks -> ProbeRecords] BY <1>6, <1>7
<1>9. Overtaken({d}) \in [Checks -> ProbeRecords] BY <1>6, <1>8
<1>10. NoProbe \in ProbeRecords /\ NoPath \in PathRecords
  BY DEF NoProbe, ProbeRecords, NoPath, PathRecords
<1>11. [NoTrust EXCEPT !.state = "UNVERIFIED"] \in TrustRecords
  BY DEF NoTrust, TrustRecords
<1>12. [turn EXCEPT ![d] = @ + 1] \in [Handhelds -> Nat] BY DEF EgressInv, EgressTyped
<1> QED BY <1>9, <1>10, <1>11, <1>12

\* The requests and events that change what a phone's traffic leaves by.
LEMMA EgressChangesLemma ==
  ASSUME EgressInv, NEW d \in Handhelds,
         \/ \E p \in Proxies \cup {Nothing} : Assigns(d, p)
         \/ Switches(d) \/ PathLeased(d) \/ PathStarts(d) \/ PathRouted(d) \/ PathLost(d)
         \/ PathStopping(d) \/ PathStopped(d)
  PROVE  EgressInv'
<1>1. EgressTyped BY DEF EgressInv
<1>2. ASSUME NEW p \in Proxies \cup {Nothing}, Assigns(d, p) PROVE EgressInv'
  <2>1. lease' \in [Proxies -> Handhelds \cup {Nothing}] BY <1>1, <1>2 DEF Assigns, EgressTyped
  <2>2. EgressTyped'
    BY <1>1, <1>2, <2>1, OvertakenLemma DEF Assigns, Invalidate, EgressTyped
  <2>3. ASSUME NEW e \in Handhelds, e # d PROVE ProxyOf(e)' = ProxyOf(e)
    <3>1. \A q \in pool : q \in Proxies BY <1>1 DEF EgressTyped
    <3>2. \A q \in Proxies : (lease'[q] = e) <=> (lease[q] = e)
      BY <1>2, <2>3, EgressAssumption DEF Assigns
    <3> QED BY <1>2, <3>1, <3>2 DEF ProxyOf, Assigns
  <2>4. \A k \in Checks : probe'[k] = Overtaken({d})[k] BY <1>2 DEF Assigns, Invalidate
  <2> QED BY <1>2, <2>2, <2>3, <2>4, InvalidateLemma DEF Assigns, Invalidate
<1>3. ASSUME Switches(d) PROVE EgressInv'
  <2>1. EgressTyped'
    BY <1>1, <1>3, OvertakenLemma DEF Switches, Invalidate, EgressTyped
  <2>2. \A e \in Handhelds : ProxyOf(e)' = ProxyOf(e) BY <1>3 DEF Switches, ProxyOf
  <2>3. \A k \in Checks : probe'[k] = Overtaken({d})[k] BY <1>3 DEF Switches, Invalidate
  <2> QED BY <1>3, <2>1, <2>2, <2>3, InvalidateLemma DEF Switches, Invalidate
<1>4. ASSUME NEW next \in PathRecords, PathBecomes(d, next) PROVE EgressInv'
  <2>1. EgressTyped'
    BY <1>1, <1>4, OvertakenLemma DEF PathBecomes, Invalidate, EgressTyped
  <2>2. \A e \in Handhelds : e # d => path'[e] = path[e] BY <1>1, <1>4 DEF PathBecomes, EgressTyped
  <2>3. \A e \in Handhelds : ProxyOf(e)' = ProxyOf(e) BY <1>4 DEF PathBecomes, ProxyOf
  <2>4. \A k \in Checks : probe'[k] = Overtaken({d})[k] BY <1>4 DEF PathBecomes, Invalidate
  <2> QED BY <1>4, <2>1, <2>2, <2>3, <2>4, InvalidateLemma DEF PathBecomes, Invalidate
<1>5. path[d] \in PathRecords BY <1>1 DEF EgressTyped
<1>6. \A s \in {"starting", "routed", "lost", "stopping"} : [path[d] EXCEPT !.state = s] \in PathRecords
  BY <1>5 DEF PathRecords
<1>7. NoPath \in PathRecords BY OvertakenLemma
<1>8. CASE PathLeased(d)
  <2>1. PICK p \in ProxyOf(d) : PathBecomes(d, [state |-> "leased", proxy |-> p])
    BY <1>8 DEF PathLeased
  <2>2. [state |-> "leased", proxy |-> p] \in PathRecords
    BY <1>1, <2>1 DEF ProxyOf, PathRecords, EgressTyped
  <2> QED BY <2>1, <2>2, <1>4
<1>9. CASE PathStarts(d)
  <2>1. CASE path[d].proxy \in ProxyOf(d) BY <1>9, <2>1, <1>4, <1>6 DEF PathStarts
  <2>2. CASE path[d].proxy \notin ProxyOf(d) BY <1>9, <2>2, <1>4, <1>6 DEF PathStarts
  <2> QED BY <2>1, <2>2
<1>10. CASE PathRouted(d) BY <1>10, <1>4, <1>6 DEF PathRouted
<1>11. CASE PathLost(d) BY <1>11, <1>4, <1>6 DEF PathLost
<1>12. CASE PathStopping(d) BY <1>12, <1>4, <1>6 DEF PathStopping
<1>13. CASE PathStopped(d) BY <1>13, <1>4, <1>7 DEF PathStopped
<1> QED BY <1>2, <1>3, <1>8, <1>9, <1>10, <1>11, <1>12, <1>13

\* A proxy nobody leases can go.
LEMMA DeletesLemma ==
  ASSUME EgressInv, NEW p \in Proxies, Deletes(p)
  PROVE  EgressInv'
<1>1. \A e \in Handhelds : ProxyOf(e)' = ProxyOf(e)
  BY EgressAssumption DEF Deletes, ProxyOf
<1>2. EgressTyped' /\ VerifiedIsCurrent'
  BY DEF EgressInv, EgressTyped, VerifiedIsCurrent, Deletes
<1>3. \A k \in Checks : ProbeOK(k)' BY DEF EgressInv, ProbeOK, StillCurrent, Deletes
<1>4. \A d, e \in Handhelds : Apart(d, e)'
  BY <1>1 DEF EgressInv, Apart, Deletes
<1> QED BY <1>2, <1>3, <1>4 DEF EgressInv

\* A probe that goes on, or ends, changes nothing that is known.
LEMMA GoesOnLemma ==
  ASSUME EgressInv, NEW k \in Checks, NEW next \in ProbeRecords, GoesOn(k, next),
         \/ next = NoProbe
         \/ /\ next.phone \in Handhelds /\ next.turn <= turn[next.phone]
            /\ next.overtaken => next.turn # turn[next.phone]
            /\ next.proven /\ next.turn = turn[next.phone] => path[next.phone].state = "routed"
  PROVE  EgressInv'
<1>1. EgressTyped' BY DEF EgressInv, EgressTyped, GoesOn, Changes
<1>2. VerifiedIsCurrent' BY DEF EgressInv, VerifiedIsCurrent, GoesOn, Changes
<1>3. \A d, e \in Handhelds : Apart(d, e)' BY DEF EgressInv, Apart, ProxyOf, GoesOn, Changes
<1>4. ASSUME NEW j \in Checks PROVE ProbeOK(j)'
  <2>1. turn' = turn /\ path' = path BY DEF GoesOn, Changes
  <2>2. CASE j = k
    <3>1. probe'[j] = next BY <2>2 DEF GoesOn, EgressInv, EgressTyped
    <3> QED BY <2>1, <3>1 DEF ProbeOK, StillCurrent
  <2>3. CASE j # k
    <3>1. probe'[j] = probe[j] BY <2>3 DEF GoesOn, EgressInv, EgressTyped
    <3> QED BY <2>1, <3>1 DEF ProbeOK, StillCurrent, EgressInv
  <2> QED BY <2>2, <2>3
<1> QED BY <1>1, <1>2, <1>3, <1>4 DEF EgressInv

\* What a current probe writes of its phone nothing has overtaken.
LEMMA KnowsLemma ==
  ASSUME EgressInv, NEW k \in Checks, probe[k] # NoProbe, StillCurrent(k),
         NEW state \in {"FAILED", "VERIFYING", "PROTECTED"}, NEW address \in Proxies \cup {Nothing},
         NEW next \in {NoProbe, [probe[k] EXCEPT !.at = "quarantining"]},
         Knows(k, state, address, next),
         state = "PROTECTED" => probe[k].proven /\ Colliding(probe[k].phone, address) = {}
  PROVE  EgressInv'
<1> DEFINE d == probe[k].phone
<1>1. EgressTyped /\ ProbeOK(k) /\ probe[k] \in ProbeRecords BY DEF EgressInv, EgressTyped
<1>2. d \in Handhelds /\ ~probe[k].overtaken /\ (state = "PROTECTED" => path[d].state = "routed")
  BY <1>1 DEF ProbeOK
<1>3. trust' = [trust EXCEPT ![d] = [state |-> state, address |-> address,
                                     overtaken |-> probe[k].overtaken]]
  BY DEF Knows
<1>4. trust'[d].state = state /\ trust'[d].address = address /\ trust'[d].overtaken = probe[k].overtaken
  BY <1>1, <1>2, <1>3 DEF EgressTyped
<1>5. \A e \in Handhelds : e # d => trust'[e] = trust[e] BY <1>1, <1>3 DEF EgressTyped
<1>6. UNCHANGED <<lease, pool, switchedOn, path, turn, turns>> BY DEF Knows, Changes
<1>7. VerifiedIsCurrent'
  BY <1>2, <1>4, <1>5, <1>6 DEF EgressInv, VerifiedIsCurrent
<1>8. next \in ProbeRecords
  BY ZenonT(60), <1>1, OvertakenLemma, <1>2 DEF ProbeRecords
<1>9. \A j \in Checks : [probe[j] EXCEPT !.same = FALSE] \in ProbeRecords
  BY ZenonT(60), <1>1 DEF EgressTyped, ProbeRecords
<1>10. [state |-> state, address |-> address, overtaken |-> probe[k].overtaken] \in TrustRecords
  BY <1>1 DEF TrustRecords, ProbeRecords
<1>11. trust' \in [Handhelds -> TrustRecords] BY <1>1, <1>3, <1>10 DEF EgressTyped
<1>12. probe' \in [Checks -> ProbeRecords] BY <1>1, <1>8, <1>9 DEF Knows, EgressTyped
<1>13. EgressTyped' BY <1>1, <1>6, <1>11, <1>12 DEF EgressTyped
<1>14. ASSUME NEW j \in Checks PROVE ProbeOK(j)'
  <2>1. ProbeOK(j) /\ probe[j] \in ProbeRecords BY <1>1 DEF EgressInv, EgressTyped
  <2>2. turn' = turn /\ path' = path BY <1>6
  <2>3. CASE j = k /\ next = NoProbe BY <2>3 DEF Knows, ProbeOK
  <2>4. CASE j = k /\ next # NoProbe
    <3>1. probe'[j] = [probe[k] EXCEPT !.at = "quarantining"] BY <2>4 DEF Knows
    <3>2. /\ probe'[j].phone = probe[k].phone /\ probe'[j].turn = probe[k].turn
          /\ probe'[j].overtaken = probe[k].overtaken /\ probe'[j].proven = probe[k].proven
      BY <3>1, <1>1 DEF ProbeRecords
    <3> QED BY <1>1, <2>2, <3>2 DEF ProbeOK, StillCurrent
  <2>5. CASE j # k
    <3>1. probe'[j] \in {probe[j], [probe[j] EXCEPT !.same = FALSE]} BY <2>5 DEF Knows
    <3>2. /\ probe'[j].phone = probe[j].phone /\ probe'[j].turn = probe[j].turn
          /\ probe'[j].overtaken = probe[j].overtaken /\ probe'[j].proven = probe[j].proven
      BY <3>1, <2>1 DEF ProbeRecords
    <3>3. probe[j] = NoProbe => probe'[j] = NoProbe
      BY <2>5, <1>2, EgressAssumption DEF Knows, NoProbe
    <3> QED BY <2>1, <2>2, <3>2, <3>3 DEF ProbeOK, StillCurrent
  <2> QED BY <2>3, <2>4, <2>5
<1>15. \A e \in Handhelds : ProxyOf(e)' = ProxyOf(e) BY <1>6 DEF ProxyOf
<1>16. ASSUME NEW e \in Handhelds, e # d, state = "PROTECTED",
              trust[e].state = "PROTECTED", trust[e].address = address
       PROVE  ProxyOf(e) = {} \/ ProxyOf(d) = {} \/ ProxyOf(e) = ProxyOf(d)
  BY <1>16 DEF Colliding
<1>17. ASSUME NEW x \in Handhelds, NEW e \in Handhelds PROVE Apart(x, e)'
  <2> SUFFICES ASSUME x # e, trust'[x].state = "PROTECTED", trust'[e].state = "PROTECTED",
                      trust'[x].address = trust'[e].address
               PROVE  ProxyOf(x) = ProxyOf(e) \/ {} \in {ProxyOf(x), ProxyOf(e)}
    BY <1>15 DEF Apart
  <2>1. CASE x = d BY <2>1, <1>4, <1>5, <1>16
  <2>2. CASE e = d BY <2>2, <1>4, <1>5, <1>16
  <2>3. CASE x # d /\ e # d
    <3>1. trust'[x] = trust[x] /\ trust'[e] = trust[e] BY <1>5, <2>3
    <3> QED BY <3>1 DEF EgressInv, Apart
  <2> QED BY <2>1, <2>2, <2>3
<1> QED BY <1>7, <1>13, <1>14, <1>17 DEF EgressInv

\* The steps of a probe.
LEMMA ProbeLemma ==
  ASSUME EgressInv, NEW k \in Checks,
         \/ \E d \in Handhelds, kind \in {"endpoint", "pool", "attest"} : ProbeBegins(k, kind, d)
         \/ ProbeRefused(k) \/ EndpointAsked(k) \/ EndpointFails(k) \/ EndpointAnswers(k)
         \/ Proves(k) \/ EndpointCommits(k) \/ Quarantine(k) \/ PoolTested(k) \/ PoolCommits(k)
         \/ AttestAsked(k) \/ \E a \in Proxies : AttestCommits(k, a)
  PROVE  EgressInv'
<1> DEFINE r == probe[k]
<1>1. EgressTyped /\ ProbeOK(k) /\ r \in ProbeRecords BY DEF EgressInv, EgressTyped
<1>2. ASSUME NEW step \in {"probing", "proving", "committing"}, r # NoProbe,
             GoesOn(k, [r EXCEPT !.at = step])
      PROVE  EgressInv'
  <2>1. [r EXCEPT !.at = step] \in ProbeRecords BY <1>1 DEF ProbeRecords
  <2>2. /\ [r EXCEPT !.at = step].phone = r.phone /\ [r EXCEPT !.at = step].turn = r.turn
        /\ [r EXCEPT !.at = step].overtaken = r.overtaken /\ [r EXCEPT !.at = step].proven = r.proven
    BY <1>1 DEF ProbeRecords
  <2> HIDE DEF r
  <2> DEFINE next == [r EXCEPT !.at = step]
  <2>3. /\ next.phone \in Handhelds /\ next.turn <= turn[next.phone]
        /\ next.overtaken => next.turn # turn[next.phone]
        /\ next.proven /\ next.turn = turn[next.phone] => path[next.phone].state = "routed"
    BY <1>1, <1>2, <2>2 DEF ProbeOK, StillCurrent, r
  <2>4. next \in ProbeRecords /\ GoesOn(k, next) BY <2>1, <1>2 DEF r
  <2> HIDE DEF next
  <2> QED BY <2>3, <2>4, GoesOnLemma
<1>3. ASSUME GoesOn(k, NoProbe) PROVE EgressInv'
  <2>1. NoProbe \in ProbeRecords
    BY DEF NoProbe, ProbeRecords
  <2> QED BY <1>3, <2>1, GoesOnLemma
<1>4. ASSUME NEW d \in Handhelds, NEW kind \in {"endpoint", "pool", "attest"}, ProbeBegins(k, kind, d)
      PROVE  EgressInv'
  <2>1. ProxyOf(d) \subseteq Proxies BY <1>1 DEF ProxyOf, EgressTyped
  <2>2. PICK p \in Proxies \cup {Nothing} :
          GoesOn(k, [NoProbe EXCEPT !.kind = kind, !.at = "asked", !.phone = d, !.turn = turn[d],
                                    !.proxy = p])
    <3>1. CASE kind = "pool"
      <4>1. (CHOOSE p \in ProxyOf(d) : TRUE) \in ProxyOf(d) BY ZenonT(30), <1>4, <3>1 DEF ProbeBegins
      <4>2. PICK p \in Proxies : p = CHOOSE q \in ProxyOf(d) : TRUE BY <2>1, <4>1
      <4> QED BY ZenonT(40), <1>4, <3>1, <4>2 DEF ProbeBegins
    <3>2. CASE kind # "pool" BY ZenonT(40), <1>4, <3>2 DEF ProbeBegins
    <3> QED BY ZenonT(30), <3>1, <3>2
  <2> DEFINE next == [NoProbe EXCEPT !.kind = kind, !.at = "asked", !.phone = d, !.turn = turn[d],
                                     !.proxy = p]
  <2>3. turn[d] \in Nat BY <1>1 DEF EgressTyped
  <2>4. next \in ProbeRecords BY <2>3 DEF NoProbe, ProbeRecords
  <2>5. next.phone = d /\ next.turn = turn[d] /\ ~next.overtaken /\ ~next.proven BY DEF NoProbe
  <2>6. GoesOn(k, next) BY <2>2
  <2>7. next.turn <= turn[d] BY <2>3, <2>5
  <2> HIDE DEF next
  <2> QED BY <2>4, <2>5, <2>6, <2>7, GoesOnLemma
<1>5. CASE ProbeRefused(k) BY <1>3, <1>5 DEF ProbeRefused
<1>6. ASSUME r.kind \in {"endpoint", "pool", "attest"} PROVE r # NoProbe BY <1>6 DEF NoProbe
<1>7. CASE EndpointAsked(k)
  <2>1. r # NoProbe BY <1>6, <1>7 DEF EndpointAsked
  <2>2. CASE StillCurrent(k) BY <1>2, <1>7, <2>1, <2>2 DEF EndpointAsked
  <2>3. CASE ~StillCurrent(k) BY <1>3, <1>7, <2>3 DEF EndpointAsked
  <2> QED BY <2>2, <2>3
<1>8. CASE EndpointFails(k)
  BY <1>6, <1>8, KnowsLemma DEF EndpointFails
<1>9. CASE EndpointAnswers(k)
  <2>1. r # NoProbe BY <1>6, <1>9 DEF EndpointAnswers
  <2>2. CASE StillCurrent(k) BY <1>2, <1>9, <2>1, <2>2 DEF EndpointAnswers
  <2>3. CASE ~StillCurrent(k) BY <1>3, <1>9, <2>3 DEF EndpointAnswers
  <2> QED BY <2>2, <2>3
<1>10. CASE Proves(k)
  <2>1. r # NoProbe BY <1>10 DEF Proves, NoProbe
  <2>2. PICK proven \in {FALSE} \cup {path[r.phone].state = "routed"} :
          GoesOn(k, [r EXCEPT !.at = "committing", !.proven = proven])
    BY <1>10 DEF Proves
  <2> DEFINE next == [r EXCEPT !.at = "committing", !.proven = proven]
  <2>3. proven \in BOOLEAN /\ (proven => path[r.phone].state = "routed") BY <2>2
  <2>4. next \in ProbeRecords BY <1>1, <2>3 DEF ProbeRecords
  <2>5. next.phone = r.phone /\ next.turn = r.turn /\ next.overtaken = r.overtaken
        /\ next.proven = proven
    BY <1>1 DEF ProbeRecords
  <2>6. GoesOn(k, next) BY <2>2
  <2>7. /\ next.phone \in Handhelds /\ next.turn <= turn[next.phone]
        /\ next.overtaken => next.turn # turn[next.phone]
        /\ next.proven /\ next.turn = turn[next.phone] => path[next.phone].state = "routed"
    BY <1>1, <2>1, <2>3, <2>5 DEF ProbeOK, StillCurrent
  <2> HIDE DEF next
  <2> QED BY <2>4, <2>6, <2>7, GoesOnLemma
<1>11. CASE EndpointCommits(k)
  <2>1. r # NoProbe BY <1>6, <1>11 DEF EndpointCommits
  <2>2. CASE Knows(k, "VERIFYING", Nothing, NoProbe)
    BY <1>11, <2>1, <2>2, KnowsLemma DEF EndpointCommits
  <2>3. CASE Knows(k, "FAILED", Nothing, [r EXCEPT !.at = "quarantining"])
    BY <1>11, <2>1, <2>3, KnowsLemma DEF EndpointCommits
  <2> QED BY <1>11, <2>2, <2>3 DEF EndpointCommits
<1>12. CASE Quarantine(k)
  <2> DEFINE d == r.phone
  <2>1. r # NoProbe BY <1>12 DEF Quarantine, NoProbe
  <2>2. d \in Handhelds BY <1>1, <2>1 DEF ProbeOK
  <2>3. /\ trust' = [trust EXCEPT ![d] = [NoTrust EXCEPT !.state = "UNVERIFIED"]]
        /\ turn' = [turn EXCEPT ![d] = @ + 1] /\ path' = [path EXCEPT ![d].state = "lost"]
        /\ probe' = [Overtaken({d}) EXCEPT ![k] = NoProbe]
        /\ UNCHANGED <<lease, pool, switchedOn>>
    BY <1>12 DEF Quarantine
  <2> HIDE DEF d
  <2>4. path[d] \in PathRecords BY <1>1, <2>2 DEF EgressTyped
  <2>5. [path[d] EXCEPT !.state = "lost"] \in PathRecords BY <2>4 DEF PathRecords
  <2>6. path' \in [Handhelds -> PathRecords] BY <1>1, <2>3, <2>5 DEF EgressTyped
  <2>7. Overtaken({d}) \in [Checks -> ProbeRecords] /\ NoProbe \in ProbeRecords
    BY <2>2, OvertakenLemma
  <2>8. [NoTrust EXCEPT !.state = "UNVERIFIED"] \in TrustRecords
        /\ [turn EXCEPT ![d] = @ + 1] \in [Handhelds -> Nat]
    BY <2>2, OvertakenLemma
  <2>9. EgressTyped' BY <1>1, <2>3, <2>6, <2>7, <2>8 DEF EgressTyped
  <2>10. \A e \in Handhelds : e # d => path'[e] = path[e] BY <1>1, <2>3 DEF EgressTyped
  <2>11. \A e \in Handhelds : ProxyOf(e)' = ProxyOf(e) BY <2>3 DEF ProxyOf
  <2>12. \A j \in Checks : probe'[j] \in {NoProbe, Overtaken({d})[j]} BY <2>3, <2>7
  <2> QED BY <2>2, <2>3, <2>9, <2>10, <2>11, <2>12, InvalidateLemma
<1>13. CASE PoolTested(k)
  <2>1. r # NoProbe BY <1>6, <1>13 DEF PoolTested
  <2>2. CASE r.proxy \in pool BY <1>2, <1>13, <2>1, <2>2 DEF PoolTested
  <2>3. CASE r.proxy \notin pool BY <1>3, <1>13, <2>3 DEF PoolTested
  <2> QED BY <2>2, <2>3
<1>14. CASE PoolCommits(k)
  <2>1. r # NoProbe BY <1>6, <1>14 DEF PoolCommits
  <2>2. PICK state \in {"VERIFYING", "FAILED"} : Knows(k, state, Nothing, NoProbe)
    BY <1>14 DEF PoolCommits
  <2> QED BY <1>14, <2>1, <2>2, KnowsLemma DEF PoolCommits
<1>15. CASE AttestAsked(k)
  <2>1. r # NoProbe BY <1>6, <1>15 DEF AttestAsked
  <2>2. CASE GoesOn(k, NoProbe) BY <1>3, <2>2
  <2>3. CASE GoesOn(k, [r EXCEPT !.at = "proving", !.same = TRUE])
    <3> DEFINE next == [r EXCEPT !.at = "proving", !.same = TRUE]
    <3>1. next \in ProbeRecords BY <1>1 DEF ProbeRecords
    <3>2. next.phone = r.phone /\ next.turn = r.turn /\ next.overtaken = r.overtaken
          /\ next.proven = r.proven
      BY <1>1 DEF ProbeRecords
    <3>3. GoesOn(k, next) BY <2>3
    <3>4. /\ next.phone \in Handhelds /\ next.turn <= turn[next.phone]
          /\ next.overtaken => next.turn # turn[next.phone]
          /\ next.proven /\ next.turn = turn[next.phone] => path[next.phone].state = "routed"
      BY <1>1, <2>1, <3>2 DEF ProbeOK, StillCurrent
    <3> HIDE DEF next
    <3> QED BY <3>1, <3>3, <3>4, GoesOnLemma
  <2> QED BY <1>15, <2>2, <2>3 DEF AttestAsked
<1>16. ASSUME NEW a \in Proxies, AttestCommits(k, a) PROVE EgressInv'
  <2>1. r # NoProbe BY <1>6, <1>16 DEF AttestCommits
  <2> QED BY <1>16, <2>1, KnowsLemma DEF AttestCommits, Attestable
<1> QED BY <1>4, <1>5, <1>7, <1>8, <1>9, <1>10, <1>11, <1>12, <1>13, <1>14, <1>15, <1>16

\* What is known of a phone's address was proven of its present route, and no two phones are
\* known to be protected behind one address, whatever checks, changes and losses interleave.
THEOREM EgressInvariance == EgressSpec => []EgressInv
<1>1. EgressInv /\ [EgressNext]_egressVars => EgressInv'
  <2> SUFFICES ASSUME EgressInv, [EgressNext]_egressVars PROVE EgressInv'
    OBVIOUS
  <2>1. ASSUME NEW d \in Handhelds,
               \/ \E p \in Proxies \cup {Nothing} : Assigns(d, p)
               \/ Switches(d) \/ PathLeased(d) \/ PathStarts(d) \/ PathRouted(d) \/ PathLost(d)
               \/ PathStopping(d) \/ PathStopped(d)
        PROVE EgressInv'
    BY <2>1, EgressChangesLemma
  <2>2. ASSUME NEW p \in Proxies, Deletes(p) PROVE EgressInv' BY <2>2, DeletesLemma
  <2>3. ASSUME NEW k \in Checks,
         \/ \E d \in Handhelds, kind \in {"endpoint", "pool", "attest"} : ProbeBegins(k, kind, d)
         \/ ProbeRefused(k) \/ EndpointAsked(k) \/ EndpointFails(k) \/ EndpointAnswers(k)
         \/ Proves(k) \/ EndpointCommits(k) \/ Quarantine(k) \/ PoolTested(k) \/ PoolCommits(k)
         \/ AttestAsked(k) \/ \E a \in Proxies : AttestCommits(k, a)
        PROVE EgressInv'
    BY <2>3, ProbeLemma
  <2>4. CASE UNCHANGED egressVars
    <3>1. EgressTyped' /\ VerifiedIsCurrent'
      BY <2>4 DEF egressVars, EgressInv, EgressTyped, VerifiedIsCurrent
    <3>2. \A k \in Checks : ProbeOK(k)' BY <2>4 DEF egressVars, EgressInv, ProbeOK, StillCurrent
    <3>3. \A d, e \in Handhelds : Apart(d, e)' BY <2>4 DEF egressVars, EgressInv, Apart, ProxyOf
    <3> QED BY <3>1, <3>2, <3>3 DEF EgressInv
  <2> QED BY <2>1, <2>2, <2>3, <2>4 DEF EgressNext
<1> QED BY <1>1, EgressInitLemma, PTL DEF EgressSpec

\* A phone that counts as protected leaves by an address that is its own, now.
THEOREM ProtectedEgressIsOwn == EgressSpec => []EgressIsOwn
<1>1. EgressInv => EgressIsOwn
  <2> SUFFICES ASSUME EgressInv PROVE EgressIsOwn
    OBVIOUS
  <2>1. NoSharedAddress BY DEF EgressInv, Apart, NoSharedAddress, Controllable
  <2> QED BY <2>1 DEF EgressInv, EgressIsOwn
<1> QED BY <1>1, EgressInvariance, PTL

----------------------------------------------------------------------------
(* Pairing (NetworkEnrollment)                                             *)

ClerkRecords ==
  [op : {"none", "start", "cancel", "confirm", "discover", "route", "stop"},
   at : {"none", "asked", "reading", "committing"}, phone : Handsets, gen : Nat,
   cable : Cables \cup {NoCable}, before : SUBSET Cables, disturbed : BOOLEAN]

EntryRecords == [gen : Nat, ready : BOOLEAN, before : SUBSET Cables]

TickRecords ==
  [at : {"none", "members", "picking", "capturing", "routing"}, records : [Handsets -> Mapping],
   left : SUBSET Handsets, phone : Handsets \cup {IdleTick.phone}, cable : Cables \cup {NoCable}]

EnrollTyped ==
  /\ bridged \in [Handsets -> Cables \cup {NoCable}]
  /\ usb \in [Handsets -> Mapping]
  /\ enrolling \in [Handsets -> EntryRecords] /\ identity \in [Handsets -> Nat]
  /\ clerk \in [Clerks -> ClerkRecords \cup {IdleClerk}] /\ tick \in TickRecords
  /\ lastPlugged \subseteq Handsets /\ plugged \subseteq Handsets

\* An entry of the lock is of a generation of its phone, and one that can be confirmed of a
\* real one.
EntryOK(d) ==
  /\ enrolling[d].gen <= identity[d]
  /\ enrolling[d].ready => enrolling[d].gen > 0

\* A request under way is of a generation that was given out, and one that was disturbed is of
\* an earlier one, or has lost its entry.
ClerkOK(c) ==
  clerk[c] # IdleClerk =>
    /\ clerk[c] \in ClerkRecords
    /\ clerk[c].gen <= identity[clerk[c].phone]
    /\ clerk[c].op \in {"start", "confirm"} => clerk[c].gen > 0
    /\ clerk[c].disturbed /\ clerk[c].op \in {"start", "confirm"} => ~IsCurrent(c)
    /\ clerk[c].disturbed /\ clerk[c].op = "discover" /\ clerk[c].at = "committing"
         => ~IsCurrent(c)

EnrollInv ==
  /\ EnrollTyped
  /\ \A d \in Handsets : EntryOK(d)
  /\ \A c \in Clerks : ClerkOK(c)

\* The empty entries, which are of no enrollment.
LEMMA SlotLemma ==
  /\ NoMapping \in Mapping /\ NoSlot \in EntryRecords /\ NoSlot.gen = 0 /\ ~NoSlot.ready
  /\ IdleClerk.gen = 0 /\ IdleClerk.op = "none" /\ IdleClerk.at = "none"
  /\ IdleTick \in TickRecords
<1>1. NoMapping \in Mapping BY DEF NoMapping, Mapping
<1>2. [d \in Handsets |-> NoMapping] \in [Handsets -> Mapping] BY <1>1
<1>3. IdleTick \in TickRecords BY <1>2 DEF IdleTick, TickRecords
<1> QED BY <1>1, <1>3 DEF NoSlot, EntryRecords, IdleClerk

\* At the start no phone is being enrolled and no request is under way.
LEMMA EnrollInitLemma == EnrollInit => EnrollInv
<1> SUFFICES ASSUME EnrollInit PROVE EnrollInv
  OBVIOUS
<1>1. EnrollTyped BY SlotLemma DEF EnrollInit, EnrollTyped
<1>2. \A d \in Handsets : EntryOK(d) BY SlotLemma DEF EnrollInit, EntryOK
<1>3. \A c \in Clerks : ClerkOK(c) BY DEF EnrollInit, ClerkOK
<1> QED BY <1>1, <1>2, <1>3 DEF EnrollInv

\* What any step may do to a phone's entry and generation: an entry goes, is filled in, or is
\* made with a generation nobody has had; generations only grow.
EntryStep(d) ==
  /\ identity'[d] >= identity[d]
  /\ \/ enrolling'[d] = enrolling[d]
     \/ enrolling'[d] = NoSlot
     \/ enrolling'[d].gen = enrolling[d].gen /\ enrolling[d].gen > 0
     \/ identity'[d] > identity[d] /\ enrolling'[d].gen = identity'[d]

\* A request is marked by a step that outdates it.
MarkStep(c) ==
  LET d == clerk[c].phone IN
  /\ clerk[c] # IdleClerk
  /\ clerk'[c] = [clerk[c] EXCEPT !.disturbed = TRUE]
  /\ clerk[c].op \in {"start", "confirm"} =>
       identity'[d] > identity[d] \/ enrolling'[d] = NoSlot
  /\ clerk[c].op = "discover" => identity'[d] > identity[d]

\* Steps that keep to these two keep the invariant.
LEMMA EnrollStepLemma ==
  ASSUME EnrollInv, EnrollTyped',
         \A d \in Handsets : EntryStep(d),
         \A c \in Clerks : ClerkOK(c)' \/ clerk'[c] = clerk[c] \/ MarkStep(c)
  PROVE  EnrollInv'
<1>1. ASSUME NEW d \in Handsets PROVE EntryOK(d)'
  <2>1. EntryOK(d) /\ EntryStep(d) BY DEF EnrollInv
  <2>2. identity[d] \in Nat /\ identity'[d] \in Nat
        /\ enrolling[d].gen \in Nat /\ enrolling'[d].gen \in Nat
    BY DEF EnrollInv, EnrollTyped, EntryRecords
  <2> QED BY <2>1, <2>2, SlotLemma DEF EntryOK, EntryStep
<1>2. ASSUME NEW c \in Clerks PROVE ClerkOK(c)'
  <2> SUFFICES ASSUME clerk'[c] # IdleClerk, clerk'[c] = clerk[c] \/ MarkStep(c) PROVE ClerkOK(c)'
    BY DEF ClerkOK
  <2> DEFINE d == clerk[c].phone
  <2>1. ClerkOK(c) /\ clerk[c] # IdleClerk /\ clerk[c] \in ClerkRecords
    BY DEF EnrollInv, ClerkOK, MarkStep
  <2>2. d \in Handsets /\ clerk[c].gen \in Nat BY <2>1 DEF ClerkRecords
  <2>3. EntryStep(d) BY <2>2
  <2>4. identity[d] \in Nat /\ identity'[d] \in Nat /\ enrolling[d].gen \in Nat /\ enrolling'[d].gen \in Nat
    BY <2>2 DEF EnrollInv, EnrollTyped, EntryRecords
  <2>5. /\ clerk'[c] \in ClerkRecords /\ clerk'[c].phone = d /\ clerk'[c].gen = clerk[c].gen
        /\ clerk'[c].op = clerk[c].op /\ clerk'[c].at = clerk[c].at
    BY <2>1 DEF MarkStep, ClerkRecords
  <2> HIDE DEF d
  <2>6. clerk[c].gen <= identity[d] /\ (clerk[c].op \in {"start", "confirm"} => clerk[c].gen > 0)
    BY <2>1 DEF ClerkOK, d
  <2>7. clerk'[c].gen <= identity'[clerk'[c].phone]
    BY <2>2, <2>3, <2>4, <2>5, <2>6 DEF EntryStep
  <2>8. ASSUME clerk'[c].disturbed, clerk'[c].op \in {"start", "confirm"} PROVE ~IsCurrent(c)'
    <3>1. ~IsCurrent(c)' <=> (identity'[d] # clerk[c].gen \/ enrolling'[d].gen # clerk[c].gen)
      BY <2>5, <2>8 DEF IsCurrent
    <3>2. CASE clerk'[c] = clerk[c]
      <4>1. identity[d] # clerk[c].gen \/ enrolling[d].gen # clerk[c].gen
        BY <2>1, <2>8, <3>2 DEF ClerkOK, IsCurrent, d
      <4> QED BY <4>1, <3>1, <2>2, <2>3, <2>4, <2>5, <2>6, <2>8, SlotLemma DEF EntryStep
    <3>3. CASE MarkStep(c)
      <4>1. identity'[d] > identity[d] \/ enrolling'[d].gen = 0
        BY <3>3, <2>5, <2>8, SlotLemma DEF MarkStep, d
      <4> QED BY <4>1, <3>1, <2>2, <2>4, <2>5, <2>6, <2>8
    <3> QED BY <3>2, <3>3
  <2>9. ASSUME clerk'[c].disturbed, clerk'[c].op = "discover", clerk'[c].at = "committing"
        PROVE  ~IsCurrent(c)'
    <3>1. ~IsCurrent(c)' <=> identity'[d] # clerk[c].gen BY <2>5, <2>9 DEF IsCurrent
    <3>2. CASE clerk'[c] = clerk[c]
      <4>1. identity[d] # clerk[c].gen BY <2>1, <2>9, <3>2 DEF ClerkOK, IsCurrent, d
      <4> QED BY <4>1, <3>1, <2>2, <2>3, <2>4, <2>6 DEF EntryStep
    <3>3. CASE MarkStep(c)
      <4>1. identity'[d] > identity[d] BY <3>3, <2>5, <2>9 DEF MarkStep, d
      <4> QED BY <4>1, <3>1, <2>2, <2>4, <2>6
    <3> QED BY <3>2, <3>3
  <2> QED BY <2>5, <2>6, <2>7, <2>8, <2>9 DEF ClerkOK
<1> QED BY <1>1, <1>2 DEF EnrollInv

\* The requests that something overtakes stay requests of the same phone and generation.
LEMMA DisturbLemma ==
  ASSUME EnrollInv, NEW cs \in SUBSET Clerks, NEW d \in Handsets, NEW ops \in SUBSET Collecting
  PROVE  /\ Disturb(cs, d, ops) \in [Clerks -> ClerkRecords \cup {IdleClerk}]
         /\ \A c \in Clerks :
              \/ Disturb(cs, d, ops)[c] = clerk[c]
              \/ /\ clerk[c] # IdleClerk /\ clerk[c].phone = d /\ clerk[c].op \in ops
                 /\ Disturb(cs, d, ops)[c] = [clerk[c] EXCEPT !.disturbed = TRUE]
<1>1. clerk \in [Clerks -> ClerkRecords \cup {IdleClerk}] BY DEF EnrollInv, EnrollTyped
<1>2. PICK f : f = Disturb(cs, d, ops) OBVIOUS
<1>3. ASSUME NEW c \in Clerks
      PROVE  /\ f[c] = clerk[c] \/ /\ clerk[c] # IdleClerk /\ clerk[c].phone = d /\ clerk[c].op \in ops
                                   /\ f[c] = [clerk[c] EXCEPT !.disturbed = TRUE]
             /\ f[c] \in ClerkRecords \cup {IdleClerk}
  <2>1. clerk[c].op \in ops => clerk[c] # IdleClerk BY SlotLemma DEF Collecting
  <2>2. f[c] = IF c \notin cs /\ clerk[c].phone = d /\ clerk[c].op \in ops
               THEN [clerk[c] EXCEPT !.disturbed = TRUE] ELSE clerk[c]
    BY <1>2 DEF Disturb
  <2>3. clerk[c] \in ClerkRecords => [clerk[c] EXCEPT !.disturbed = TRUE] \in ClerkRecords
    BY DEF ClerkRecords
  <2> QED BY <1>1, <2>1, <2>2, <2>3
<1>4. f = [c \in Clerks |-> f[c]] BY <1>2 DEF Disturb
<1>5. f \in [Clerks -> ClerkRecords \cup {IdleClerk}] BY <1>3, <1>4
<1> QED BY <1>2, <1>3, <1>5

\* Steps that leave the lock, the generations and the other requests alone.
LEMMA LockRestsLemma ==
  ASSUME EnrollInv, EnrollTyped', UNCHANGED <<enrolling, identity>>,
         \A c \in Clerks : ClerkOK(c)' \/ clerk'[c] = clerk[c]
  PROVE  EnrollInv'
<1>1. ASSUME NEW d \in Handsets PROVE EntryStep(d)
  <2>1. identity[d] \in Nat BY DEF EnrollInv, EnrollTyped
  <2> QED BY <2>1 DEF EntryStep
<1> QED BY <1>1, EnrollStepLemma

\* The loop and the host leave the requests and the lock alone.
LEMMA LoopLemma ==
  ASSUME EnrollInv,
         \/ Quarantines \/ Halt \/ TickStarts \/ TickPairs \/ TickHeldUp \/ TickCaptures
         \/ TickSeesNothing \/ TickRoutes \/ TickEnds
         \/ \E d \in Handsets : Plug(d) \/ TickPicks(d)
         \/ UNCHANGED enrollVars
  PROVE  EnrollInv'
<1>1. EnrollTyped BY DEF EnrollInv
<1>2. UNCHANGED <<enrolling, identity, clerk>> /\ EnrollTyped' => EnrollInv'
  BY SMTT(30), LockRestsLemma
<1>3. UNCHANGED <<enrolling, identity, clerk>>
  BY ZenonT(30) DEF Quarantines, Halt, TickStarts, TickPairs, TickHeldUp, TickCaptures, TickSeesNothing,
         TickRoutes, TickEnds, Plug, TickPicks, enrollVars, Manual, Loop
<1>4. tick.records \in [Handsets -> Mapping] /\ tick.cable \in Cables \cup {NoCable}
      /\ tick.left \subseteq Handsets
  BY <1>1 DEF EnrollTyped, TickRecords
<1>5. \A step \in {"none", "members", "picking", "capturing", "routing"} :
        [tick EXCEPT !.at = step] \in TickRecords
  BY <1>1 DEF EnrollTyped, TickRecords
<1>6. CASE Quarantines \/ Halt \/ TickSeesNothing \/ TickRoutes \/ UNCHANGED enrollVars
  BY <1>1, <1>2, <1>3, <1>5, <1>6
     DEF EnrollTyped, Quarantines, Halt, TickSeesNothing, TickRoutes, enrollVars, Manual, Loop, Host
<1>7. CASE TickStarts
  <2>1. plugged \ ByHand \subseteq Handsets BY <1>1 DEF EnrollTyped
  <2>2. usb' \in [Handsets -> Mapping] BY <1>1, <1>7, SlotLemma DEF TickStarts, EnrollTyped
  <2>3. lastPlugged' \in SUBSET Handsets BY <2>1, <1>7 DEF TickStarts
  <2>4. tick' = [IdleTick EXCEPT !.at = "members", !.records = usb', !.left = lastPlugged']
    BY <1>7 DEF TickStarts
  <2>5. tick' \in TickRecords BY <2>2, <2>3, <2>4, SlotLemma DEF TickRecords
  <2> QED BY <1>1, <1>2, <1>3, <1>7, <2>2, <2>3, <2>5 DEF EnrollTyped, TickStarts, Host, Manual
<1>8. CASE TickPairs
  <2> DEFINE records == Revalidated(Members)
             free == Unclaimed(records, Members)
             cable == CHOOSE i \in free : TRUE
             alone == Cardinality(Unpaired(records)) = 1 /\ Cardinality(free) = 1
             paired == IF alone THEN Unpaired(records) ELSE {}
             before == {d \in tick.left \ validated : tick.records[d].cable # NoCable}
  <2>1. Members \subseteq Cables BY <1>1 DEF EnrollTyped, Members
  <2>2. \A d \in Handsets : records[d] \in Mapping
    <3> SUFFICES ASSUME NEW d \in Handsets PROVE records[d] \in Mapping
      OBVIOUS
    <3>1. tick.records[d] \in Mapping BY <1>4
    <3>2. [cable |-> tick.records[d].cable, seen |-> NoCable] \in Mapping BY <3>1 DEF Mapping
    <3> QED BY <3>1, <3>2, SlotLemma DEF Revalidated
  <2>3. records = [d \in Handsets |-> records[d]] BY DEF Revalidated
  <2>4. free \subseteq Cables BY <2>1 DEF Unclaimed
  <2>5. alone => cable \in Cables
    <3>1. alone => free # {} BY FS_EmptySet
    <3> QED BY <2>4, <3>1
  <2>6. /\ usb' = [d \in Handsets |-> IF d \in paired THEN [cable |-> cable, seen |-> NoCable]
                                      ELSE IF d \in before THEN records[d] ELSE usb[d]]
        /\ tick' = [tick EXCEPT !.at = "picking", !.records = records]
    BY <1>8 DEF TickPairs
  <2>7. UNCHANGED <<bridged, plugged, lastPlugged>> BY <1>8 DEF TickPairs, Host
  <2>9. \A d \in paired : cable \in Cables BY <2>5
  <2> HIDE DEF records, free, cable, alone, paired, before
  <2>10. \A d \in Handsets : usb[d] \in Mapping BY <1>1 DEF EnrollTyped
  <2>11. cable \in Cables => [cable |-> cable, seen |-> NoCable] \in Mapping BY DEF Mapping
  <2>12. \A d \in Handsets :
           (IF d \in paired THEN [cable |-> cable, seen |-> NoCable]
            ELSE IF d \in before THEN records[d] ELSE usb[d]) \in Mapping
    BY <2>2, <2>9, <2>10, <2>11
  <2>13. usb' \in [Handsets -> Mapping] BY <2>6, <2>12
  <2>14. records \in [Handsets -> Mapping] BY <2>2, <2>3
  <2>15. tick' \in TickRecords BY <1>1, <2>6, <2>14 DEF EnrollTyped, TickRecords
  <2> QED BY <1>1, <1>2, <1>3, <2>7, <2>13, <2>15 DEF EnrollTyped
<1>9. CASE TickHeldUp
  BY <1>1, <1>2, <1>3, <1>5, <1>9, SlotLemma DEF EnrollTyped, TickHeldUp, Host, Manual
<1>10. CASE TickCaptures
  <2>1. \A d \in Handsets : usb[d] \in Mapping BY <1>1 DEF EnrollTyped
  <2>2. \A d \in Handsets : [usb[d] EXCEPT !.seen = tick.cable] \in Mapping BY <1>4, <2>1 DEF Mapping
  <2>3. usb' \in [Handsets -> Mapping]
    BY <1>1, <1>10, <2>2 DEF TickCaptures, EnrollTyped
  <2>4. tick' \in TickRecords BY <1>5, <1>10 DEF TickCaptures
  <2> QED BY <1>1, <1>2, <1>3, <1>10, <2>3, <2>4 DEF EnrollTyped, TickCaptures, Host, Manual
<1>11. CASE TickEnds
  BY <1>1, <1>2, <1>3, <1>11, SlotLemma DEF EnrollTyped, TickEnds, Host, Manual
<1>12. ASSUME NEW d \in Handsets, Plug(d) PROVE EnrollInv'
  <2>1. \A i \in Cables \cup {NoCable} : [bridged EXCEPT ![d] = i] \in [Handsets -> Cables \cup {NoCable}]
    BY <1>1 DEF EnrollTyped
  <2>2. bridged' \in [Handsets -> Cables \cup {NoCable}] BY <1>1, <1>12, <2>1 DEF Plug, EnrollTyped
  <2>3. plugged' \subseteq Handsets BY <1>1, <1>12 DEF Plug, EnrollTyped
  <2> QED BY <1>1, <1>2, <1>3, <1>12, <2>2, <2>3 DEF EnrollTyped, Plug, Loop
<1>13. ASSUME NEW d \in Handsets, TickPicks(d) PROVE EnrollInv'
  <2>1. PICK record \in Mapping :
          tick' = [tick EXCEPT !.at = "capturing", !.left = @ \ {d}, !.phone = d, !.cable = record.cable]
    BY ZenonT(30), <1>1, <1>4, <1>13 DEF TickPicks, EnrollTyped
  <2>2. record.cable \in Cables \cup {NoCable} BY DEF Mapping
  <2>3. tick' \in TickRecords BY <1>1, <2>1, <2>2 DEF EnrollTyped, TickRecords
  <2> QED BY ZenonT(30), <1>1, <1>2, <1>3, <1>13, <2>3 DEF EnrollTyped, TickPicks, Host, Manual
<1> QED BY <1>6, <1>7, <1>8, <1>9, <1>10, <1>11, <1>12, <1>13

\* A request that goes to its next step, or ends, without touching the lock.
LEMMA ClerkGoesOnLemma ==
  ASSUME EnrollInv, NEW c \in Clerks, NEW next \in ClerkRecords \cup {IdleClerk},
         clerk' = [clerk EXCEPT ![c] = next],
         UNCHANGED <<enrolling, identity>>, usb' \in [Handsets -> Mapping],
         UNCHANGED Host, UNCHANGED Loop,
         \/ next = IdleClerk
         \/ /\ next.gen <= identity[next.phone]
            /\ next.op \in {"start", "confirm"} => next.gen > 0
            /\ next.disturbed /\ next.op \in {"start", "confirm"} =>
                 identity[next.phone] # next.gen \/ enrolling[next.phone].gen # next.gen
            /\ next.disturbed /\ next.op = "discover" => next.at # "committing"
  PROVE  EnrollInv'
<1>1. EnrollTyped' BY DEF EnrollInv, EnrollTyped, Host, Loop
<1>2. ASSUME NEW j \in Clerks PROVE ClerkOK(j)' \/ clerk'[j] = clerk[j]
  <2>1. CASE j # c BY <2>1 DEF EnrollInv, EnrollTyped
  <2>2. CASE j = c
    <3>1. clerk'[j] = next BY <2>2 DEF EnrollInv, EnrollTyped
    <3> QED BY <3>1 DEF ClerkOK, IsCurrent
  <2> QED BY <2>1, <2>2
<1> QED BY <1>1, <1>2, LockRestsLemma

\* What is known of a request under way.
LEMMA UnderWayLemma ==
  ASSUME EnrollInv, NEW c \in Clerks, clerk[c].op # "none"
  PROVE  /\ clerk[c] # IdleClerk /\ ClerkOK(c) /\ clerk[c] \in ClerkRecords
         /\ clerk[c].phone \in Handsets /\ clerk[c].gen \in Nat
         /\ identity[clerk[c].phone] \in Nat
         /\ enrolling[clerk[c].phone] \in EntryRecords
BY SlotLemma DEF EnrollInv, EnrollTyped, ClerkOK, ClerkRecords

\* A request asks for authorization; nothing is taken yet.
LEMMA AsksLemma ==
  ASSUME EnrollInv, NEW c \in Clerks, NEW d \in Handsets,
         NEW o \in {"cancel", "confirm", "discover", "route", "stop"}, Asks(c, o, d)
  PROVE  EnrollInv'
<1> DEFINE next == [clerk[c] EXCEPT !.op = o, !.at = "asked", !.phone = d,
                      !.gen = IF o = "confirm" THEN enrolling[d].gen ELSE 0,
                      !.before = IF o = "confirm" THEN enrolling[d].before ELSE {},
                      !.cable = IF o = "discover" THEN usb[d].cable ELSE NoCable]
<1>1. clerk' = [clerk EXCEPT ![c] = next] BY DEF Asks
<1>2. enrolling[d] \in EntryRecords /\ usb[d] \in Mapping /\ identity[d] \in Nat /\ EntryOK(d)
  BY DEF EnrollInv, EnrollTyped
<1>3. enrolling[d].gen \in Nat /\ enrolling[d].before \in SUBSET Cables
      /\ usb[d].cable \in Cables \cup {NoCable}
  BY <1>2 DEF EntryRecords, Mapping
<1>4. clerk[c] = IdleClerk BY DEF Asks
<1>5. next \in ClerkRecords
  <2>1. PICK gen \in Nat, before \in SUBSET Cables, cable \in Cables \cup {NoCable} :
          next = [clerk[c] EXCEPT !.op = o, !.at = "asked", !.phone = d, !.gen = gen,
                                  !.before = before, !.cable = cable]
    BY ZenonT(30), <1>3
  <2>2. next = [op |-> o, at |-> "asked", phone |-> d, gen |-> gen, cable |-> cable,
                before |-> before, disturbed |-> FALSE]
    <3> HIDE DEF next
    <3>1. next = [IdleClerk EXCEPT !.op = o, !.at = "asked", !.phone = d, !.gen = gen,
                                   !.before = before, !.cable = cable]
      BY <1>4, <2>1
    <3> QED BY <3>1 DEF IdleClerk
  <2> HIDE DEF next
  <2> QED BY <2>2 DEF ClerkRecords
<1>6. next.op = o /\ next.phone = d /\ ~next.disturbed
      /\ next.gen = IF o = "confirm" THEN enrolling[d].gen ELSE 0
  BY <1>4 DEF IdleClerk
<1> HIDE DEF next
<1>7. o = "confirm" => enrolling[d].ready BY DEF Asks, Askable
<1>8. next.gen <= identity[d] /\ (o \in {"start", "confirm"} => next.gen > 0)
  BY <1>2, <1>3, <1>6, <1>7 DEF EntryOK
<1>9. usb' \in [Handsets -> Mapping] /\ UNCHANGED <<enrolling, identity>>
  BY DEF Asks, EnrollInv, EnrollTyped
<1>10. UNCHANGED Host /\ UNCHANGED Loop BY DEF Asks
<1> QED BY <1>1, <1>5, <1>6, <1>8, <1>9, <1>10, ClerkGoesOnLemma

\* A change of a phone's generation outdates what is being collected of it
\* (networkEnrollmentLock.js begin, supersede).
LEMMA SupersedeLemma ==
  ASSUME EnrollInv, NEW c \in Clerks, NEW d \in Handsets,
         NEW next \in ClerkRecords \cup {IdleClerk}, NEW entry \in EntryRecords,
         identity' = [identity EXCEPT ![d] = @ + 1],
         enrolling' = [enrolling EXCEPT ![d] = entry],
         \/ entry = NoSlot \/ entry = enrolling[d] \/ entry.gen = identity[d] + 1,
         clerk' = [Disturb({c}, d, Collecting) EXCEPT ![c] = next],
         UNCHANGED usb, UNCHANGED Host, UNCHANGED Loop,
         \/ next = IdleClerk
         \/ /\ next.phone = d /\ next.gen <= identity[d] + 1
            /\ next.op = "start" => next.gen > 0
            /\ next.op # "confirm"
            /\ next.disturbed => next.op \in {"route", "stop"}
  PROVE  EnrollInv'
<1>1. /\ identity \in [Handsets -> Nat] /\ enrolling \in [Handsets -> EntryRecords]
      /\ clerk \in [Clerks -> ClerkRecords \cup {IdleClerk}]
  BY DEF EnrollInv, EnrollTyped
<1>2. /\ Disturb({c}, d, Collecting) \in [Clerks -> ClerkRecords \cup {IdleClerk}]
      /\ \A j \in Clerks :
              \/ Disturb({c}, d, Collecting)[j] = clerk[j]
              \/ /\ clerk[j] # IdleClerk /\ clerk[j].phone = d /\ clerk[j].op \in Collecting
                 /\ Disturb({c}, d, Collecting)[j] = [clerk[j] EXCEPT !.disturbed = TRUE]
  <2>1. PICK cs \in SUBSET Clerks : cs = {c} OBVIOUS
  <2>2. PICK ops \in SUBSET Collecting : ops = Collecting OBVIOUS
  <2>3. /\ Disturb(cs, d, ops) \in [Clerks -> ClerkRecords \cup {IdleClerk}]
        /\ \A j \in Clerks :
              \/ Disturb(cs, d, ops)[j] = clerk[j]
              \/ /\ clerk[j] # IdleClerk /\ clerk[j].phone = d /\ clerk[j].op \in ops
                 /\ Disturb(cs, d, ops)[j] = [clerk[j] EXCEPT !.disturbed = TRUE]
    BY DisturbLemma
  <2> QED BY <2>1, <2>2, <2>3
<1>3. EnrollTyped'
  <2>1. clerk' \in [Clerks -> ClerkRecords \cup {IdleClerk}] BY <1>2
  <2>2. identity' \in [Handsets -> Nat] /\ enrolling' \in [Handsets -> EntryRecords] BY <1>1
  <2> QED BY <2>1, <2>2 DEF EnrollInv, EnrollTyped, Host, Loop
<1>4. identity'[d] = identity[d] + 1 /\ identity[d] \in Nat BY <1>1
<1>5. ASSUME NEW e \in Handsets PROVE EntryStep(e)
  <2>1. identity[e] \in Nat BY <1>1
  <2>2. CASE e = d
    <3>1. enrolling'[d] = entry BY <1>1
    <3> QED BY <1>4, <2>2, <3>1 DEF EntryStep
  <2>3. CASE e # d BY <1>1, <2>1, <2>3 DEF EntryStep
  <2> QED BY <2>2, <2>3
<1>6. ASSUME NEW j \in Clerks PROVE ClerkOK(j)' \/ clerk'[j] = clerk[j] \/ MarkStep(j)
  <2>1. CASE j = c
    <3>1. clerk'[j] = next BY <1>2, <2>1
    <3>2. CASE next = IdleClerk BY <3>1, <3>2 DEF ClerkOK
    <3>3. CASE next # IdleClerk
      <4>1. next \in ClerkRecords /\ next.op \notin {"confirm"} BY <3>3
      <4> QED BY <1>4, <3>1, <3>3, <4>1 DEF ClerkOK
    <3> QED BY <3>2, <3>3
  <2>2. CASE j # c
    <3>1. clerk'[j] = Disturb({c}, d, Collecting)[j] BY <1>2, <2>2
    <3>2. identity'[d] > identity[d] BY <1>4
    <3> QED BY <1>2, <3>1, <3>2 DEF MarkStep
  <2> QED BY <2>1, <2>2
<1> QED BY <1>3, <1>5, <1>6, EnrollStepLemma

\* An entry goes, and what stood on it is outdated (active, clear).
LEMMA EntryGoesLemma ==
  ASSUME EnrollInv, NEW d \in Handsets, NEW cs \in SUBSET Clerks,
         NEW ops \in SUBSET {"start", "confirm"},
         enrolling' = [enrolling EXCEPT ![d] = NoSlot],
         \A c \in Clerks : clerk'[c] \in {Disturb(cs, d, ops)[c], IdleClerk},
         clerk' = [c \in Clerks |-> clerk'[c]],
         usb' \in [Handsets -> Mapping], UNCHANGED identity, UNCHANGED Host, UNCHANGED Loop
  PROVE  EnrollInv'
<1>1. /\ identity \in [Handsets -> Nat] /\ enrolling \in [Handsets -> EntryRecords]
      /\ clerk \in [Clerks -> ClerkRecords \cup {IdleClerk}]
  BY DEF EnrollInv, EnrollTyped
<1>2. ops \in SUBSET Collecting BY DEF Collecting
<1>3. /\ Disturb(cs, d, ops) \in [Clerks -> ClerkRecords \cup {IdleClerk}]
      /\ \A c \in Clerks :
              \/ Disturb(cs, d, ops)[c] = clerk[c]
              \/ /\ clerk[c] # IdleClerk /\ clerk[c].phone = d /\ clerk[c].op \in ops
                 /\ Disturb(cs, d, ops)[c] = [clerk[c] EXCEPT !.disturbed = TRUE]
  BY <1>2, DisturbLemma
<1>4. clerk' \in [Clerks -> ClerkRecords \cup {IdleClerk}]
  <2>1. \A c \in Clerks : clerk'[c] \in ClerkRecords \cup {IdleClerk} BY <1>3
  <2> QED BY <2>1
<1>5. enrolling' \in [Handsets -> EntryRecords] BY <1>1, SlotLemma
<1>6. EnrollTyped' BY <1>1, <1>4, <1>5 DEF EnrollInv, EnrollTyped, Host, Loop
<1>7. ASSUME NEW e \in Handsets PROVE EntryStep(e)
  <2>1. identity[e] \in Nat BY <1>1
  <2>2. enrolling'[e] = enrolling[e] \/ enrolling'[e] = NoSlot BY <1>1
  <2> QED BY <2>1, <2>2 DEF EntryStep
<1>8. ASSUME NEW c \in Clerks PROVE ClerkOK(c)' \/ clerk'[c] = clerk[c] \/ MarkStep(c)
  <2>1. CASE clerk'[c] = IdleClerk BY <2>1 DEF ClerkOK
  <2>2. CASE clerk'[c] = Disturb(cs, d, ops)[c]
    <3>1. enrolling'[d] = NoSlot BY <1>1
    <3> QED BY <1>3, <2>2, <3>1 DEF MarkStep
  <2> QED BY <2>1, <2>2
<1> QED BY <1>6, <1>7, <1>8, EnrollStepLemma

\* A request ends and takes its own entry with it.
LEMMA WithoutMineLemma ==
  ASSUME EnrollInv, NEW c \in Clerks, clerk[c].op # "none",
         clerk' = EndOf(c), enrolling' = WithoutMine(c),
         UNCHANGED <<usb, identity>>, UNCHANGED Host, UNCHANGED Loop
  PROVE  EnrollInv'
<1>1. clerk[c].phone \in Handsets BY UnderWayLemma
<1>2. usb' \in [Handsets -> Mapping] /\ clerk \in [Clerks -> ClerkRecords \cup {IdleClerk}]
  BY DEF EnrollInv, EnrollTyped
<1>3. CASE enrolling' = enrolling
  BY <1>2, <1>3, ClerkGoesOnLemma DEF EndOf
<1>4. CASE enrolling' = [enrolling EXCEPT ![clerk[c].phone] = NoSlot]
  <2>1. \A j \in Clerks : Disturb({}, clerk[c].phone, {})[j] = clerk[j] BY DEF Disturb
  <2>2. \A j \in Clerks : clerk'[j] \in {Disturb({}, clerk[c].phone, {})[j], IdleClerk}
    BY <1>2, <2>1 DEF EndOf
  <2>3. clerk' = [j \in Clerks |-> clerk'[j]] BY <1>2 DEF EndOf
  <2> QED BY <1>1, <1>2, <1>4, <2>2, <2>3, EntryGoesLemma
<1> QED BY <1>3, <1>4 DEF WithoutMine

\* The steps of an operator's requests (index.js).
LEMMA RequestLemma ==
  ASSUME EnrollInv, NEW c \in Clerks,
         \/ \E d \in Handsets :
              Starts(c, d) \/ \E o \in {"cancel", "confirm", "discover", "route", "stop"} : Asks(c, o, d)
         \/ StartReads(c) \/ StartCommits(c) \/ Cancels(c) \/ ConfirmBegins(c) \/ ConfirmReads(c)
         \/ ConfirmCommits(c) \/ ConfirmIsStale(c) \/ DiscoverBegins(c) \/ DiscoverCommits(c)
         \/ RouteBegins(c) \/ RouteEnds(c) \/ Refuses(c)
  PROVE  EnrollInv'
<1> DEFINE r == clerk[c]
           d == clerk[c].phone
<1>1. /\ identity \in [Handsets -> Nat] /\ enrolling \in [Handsets -> EntryRecords]
      /\ clerk \in [Clerks -> ClerkRecords \cup {IdleClerk}] /\ usb \in [Handsets -> Mapping]
      /\ bridged \in [Handsets -> Cables \cup {NoCable}]
  BY DEF EnrollInv, EnrollTyped
<1>2. Members \in SUBSET Cables BY <1>1 DEF Members
<1>3. r.op # "none" => /\ r # IdleClerk /\ ClerkOK(c) /\ r \in ClerkRecords /\ d \in Handsets
                       /\ r.gen \in Nat /\ identity[d] \in Nat /\ enrolling[d] \in EntryRecords
  BY UnderWayLemma
\* A request that ends.
<1>4. ASSUME clerk' = EndOf(c), UNCHANGED <<enrolling, identity>>, usb' \in [Handsets -> Mapping],
             UNCHANGED Host, UNCHANGED Loop
      PROVE  EnrollInv'
  BY <1>4, ClerkGoesOnLemma DEF EndOf
\* A start or a confirmation that goes on.
<1>5. ASSUME NEW step \in {"reading", "committing"}, NEW cable \in Cables \cup {NoCable},
             NEW before \in SUBSET Cables,
             r.op \in {"start", "confirm"},
             clerk' = [clerk EXCEPT ![c] = [clerk[c] EXCEPT !.at = step, !.cable = cable, !.before = before]],
             UNCHANGED <<usb, enrolling, identity>>, UNCHANGED Host, UNCHANGED Loop
      PROVE  EnrollInv'
  <2> DEFINE next == [clerk[c] EXCEPT !.at = step, !.cable = cable, !.before = before]
  <2>1. next \in ClerkRecords BY <1>3, <1>5 DEF ClerkRecords
  <2>2. /\ next.op = r.op /\ next.phone = d /\ next.gen = r.gen /\ next.disturbed = r.disturbed
    BY <1>3, <1>5 DEF ClerkRecords
  <2>3. clerk' = [clerk EXCEPT ![c] = next] BY <1>5
  <2> HIDE DEF next
  <2>4. r.disturbed => identity[d] # r.gen \/ enrolling[d].gen # r.gen
    BY <1>3, <1>5 DEF ClerkOK, IsCurrent
  <2>5. r.gen <= identity[d] /\ r.gen > 0 BY <1>3, <1>5 DEF ClerkOK
  <2>6. usb' \in [Handsets -> Mapping] /\ UNCHANGED <<enrolling, identity>>
        /\ UNCHANGED Host /\ UNCHANGED Loop
    BY <1>1, <1>5
  <2>7. next.op # "discover" BY <1>5, <2>2
  <2>8. /\ next.gen <= identity[next.phone]
        /\ next.op \in {"start", "confirm"} => next.gen > 0
        /\ next.disturbed => identity[next.phone] # next.gen \/ enrolling[next.phone].gen # next.gen
    BY <2>2, <2>4, <2>5
  <2> HIDE DEF r, d
  <2> QED BY <2>1, <2>3, <2>6, <2>7, <2>8, ClerkGoesOnLemma
<1>6. ASSUME NEW e \in Handsets, Starts(c, e) PROVE EnrollInv'
  <2>1. clerk[c] = IdleClerk /\ identity[e] \in Nat BY ZenonT(30), <1>1, <1>6 DEF Starts
  <2>2. identity'[e] = identity[e] + 1 BY ZenonT(30), <1>1, <1>6 DEF Starts
  <2> DEFINE gen == identity[e] + 1
             entry == [NoSlot EXCEPT !.gen = gen]
  <2>3. gen \in Nat /\ gen > 0 BY <2>1
  <2> HIDE DEF gen
  <2>4. entry \in EntryRecords /\ entry.gen = gen BY <2>3 DEF NoSlot, EntryRecords
  <2>5. PICK next : next = [IdleClerk EXCEPT !.op = "start", !.at = "reading", !.phone = e, !.gen = gen]
    OBVIOUS
  <2>6. next = [op |-> "start", at |-> "reading", phone |-> e, gen |-> gen, cable |-> NoCable,
                before |-> {}, disturbed |-> FALSE]
    BY <2>5 DEF IdleClerk
  <2>7. next \in ClerkRecords BY <2>3, <2>6 DEF ClerkRecords
  <2>8. Disturb({c}, e, Collecting)[c] = IdleClerk BY <2>1 DEF Disturb
  <2>9. clerk' = [Disturb({c}, e, Collecting) EXCEPT ![c] =
                    [@ EXCEPT !.op = "start", !.at = "reading", !.phone = e, !.gen = identity'[e]]]
    BY ZenonT(30), <1>6 DEF Starts
  <2>10. clerk' = [Disturb({c}, e, Collecting) EXCEPT ![c] = next]
    BY <2>2, <2>5, <2>8, <2>9 DEF gen
  <2>11. enrolling' = [enrolling EXCEPT ![e] = entry] BY ZenonT(30), <1>6, <2>2 DEF Starts, gen
  <2>12. identity' = [identity EXCEPT ![e] = @ + 1] /\ UNCHANGED usb /\ UNCHANGED Host /\ UNCHANGED Loop
    BY ZenonT(30), <1>6 DEF Starts
  <2>13. next.phone = e /\ next.gen <= identity[e] + 1 /\ next.gen > 0 /\ next.op = "start"
         /\ ~next.disturbed
    BY <2>3, <2>6 DEF gen
  <2>14. entry.gen = identity[e] + 1 BY <2>4 DEF gen
  <2> HIDE DEF entry
  <2> QED BY <2>4, <2>7, <2>10, <2>11, <2>12, <2>13, <2>14, SupersedeLemma
<1>7. ASSUME NEW e \in Handsets, NEW o \in {"cancel", "confirm", "discover", "route", "stop"},
             Asks(c, o, e)
      PROVE  EnrollInv'
  BY <1>7, AsksLemma
<1>8. CASE StartReads(c)
  <2>1. r.op = "start" /\ r.op # "none" BY <1>8 DEF StartReads
  <2>2. UNCHANGED <<usb, identity>> /\ UNCHANGED Host /\ UNCHANGED Loop BY <1>8 DEF StartReads
  <2>3. CASE clerk' = [clerk EXCEPT ![c].at = "committing", ![c].before = Members] /\ UNCHANGED enrolling
    <3>1. r.cable \in Cables \cup {NoCable} BY <1>3, <2>1 DEF ClerkRecords
    <3>2. [clerk[c] EXCEPT !.at = "committing", !.cable = r.cable, !.before = Members]
          = [clerk[c] EXCEPT !.at = "committing", !.before = Members]
      BY <1>3, <2>1 DEF ClerkRecords
    <3>3. clerk' = [clerk EXCEPT ![c] = [clerk[c] EXCEPT !.at = "committing", !.before = Members]]
      BY <1>1, <2>3
    <3> QED BY ZenonT(30), <1>2, <1>5, <2>1, <2>2, <2>3, <3>1, <3>2, <3>3
  <2>4. CASE clerk' = EndOf(c) /\ enrolling' = WithoutMine(c)
    BY <2>1, <2>2, <2>4, WithoutMineLemma
  <2> QED BY <1>8, <2>3, <2>4 DEF StartReads
<1>9. CASE StartCommits(c)
  <2>1. r.op = "start" /\ r.op # "none" BY <1>9 DEF StartCommits
  <2>2. UNCHANGED <<usb, identity>> /\ UNCHANGED Host /\ UNCHANGED Loop /\ clerk' = EndOf(c)
    BY <1>9 DEF StartCommits
  <2>3. CASE enrolling' = WithoutMine(c) BY <2>1, <2>2, <2>3, WithoutMineLemma
  <2>4. CASE IsCurrent(c) /\ enrolling' = [enrolling EXCEPT ![d].ready = TRUE, ![d].before = clerk[c].before]
    <3>1. r.gen > 0 /\ enrolling[d].gen = r.gen /\ r.before \in SUBSET Cables
      BY <1>3, <2>1, <2>4 DEF ClerkOK, IsCurrent, ClerkRecords
    <3> DEFINE entry == [enrolling[d] EXCEPT !.ready = TRUE, !.before = clerk[c].before]
    <3>2. entry \in EntryRecords /\ entry.gen = enrolling[d].gen
      BY <1>3, <2>1, <3>1 DEF EntryRecords
    <3>3. enrolling' = [enrolling EXCEPT ![d] = entry] BY <1>1, <1>3, <2>1, <2>4
    <3> HIDE DEF entry
    <3>4. enrolling' \in [Handsets -> EntryRecords] BY <1>1, <3>2, <3>3
    <3>5. clerk' \in [Clerks -> ClerkRecords \cup {IdleClerk}] BY <1>1, <2>2 DEF EndOf
    <3>6. EnrollTyped' BY <1>1, <2>2, <3>4, <3>5 DEF EnrollInv, EnrollTyped, Host, Loop
    <3>7. ASSUME NEW e \in Handsets PROVE EntryStep(e)
      <4>1. identity[e] \in Nat BY <1>1
      <4>2. CASE e = d BY <1>1, <2>2, <3>1, <3>2, <3>3, <4>1, <4>2 DEF EntryStep
      <4>3. CASE e # d BY <1>1, <2>2, <3>3, <4>1, <4>3 DEF EntryStep
      <4> QED BY <4>2, <4>3
    <3>8. ASSUME NEW j \in Clerks PROVE ClerkOK(j)' \/ clerk'[j] = clerk[j]
      BY <1>1, <2>2 DEF EndOf, ClerkOK
    <3> QED BY <3>6, <3>7, <3>8, EnrollStepLemma
  <2> QED BY <1>9, <2>3, <2>4 DEF StartCommits
<1>10. CASE Cancels(c)
  <2>1. r.op # "none" BY <1>10 DEF Cancels
  <2> QED BY <1>3, <1>10, <2>1, SlotLemma, SupersedeLemma DEF Cancels
<1>11. CASE ConfirmBegins(c)
  <2>1. r.op = "confirm" /\ r.op # "none" BY <1>11 DEF ConfirmBegins
  <2>2. r.cable \in Cables \cup {NoCable} /\ r.before \in SUBSET Cables BY <1>3, <2>1 DEF ClerkRecords
  <2>3. [clerk[c] EXCEPT !.at = "reading", !.cable = r.cable, !.before = r.before]
        = [clerk[c] EXCEPT !.at = "reading"]
    BY <1>3, <2>1 DEF ClerkRecords
  <2>4. clerk' = [clerk EXCEPT ![c] = [clerk[c] EXCEPT !.at = "reading"]] BY <1>1, <1>11 DEF ConfirmBegins
  <2> QED BY ZenonT(30), <1>5, <1>11, <2>1, <2>2, <2>3, <2>4 DEF ConfirmBegins
<1>12. CASE ConfirmReads(c)
  <2>1. r.op = "confirm" /\ r.op # "none" BY <1>12 DEF ConfirmReads
  <2>2. r.before \in SUBSET Cables BY <1>3, <2>1 DEF ClerkRecords
  <2>3. Members \ r.before # {} BY <1>12, FS_EmptySet DEF ConfirmReads
  <2>4. PICK cable \in Cables : cable = CHOOSE i \in Members \ r.before : TRUE BY <1>2, <2>3
  <2>5. [clerk[c] EXCEPT !.at = "committing", !.cable = cable, !.before = r.before]
        = [clerk[c] EXCEPT !.at = "committing", !.cable = cable]
    BY <1>3, <2>1 DEF ClerkRecords
  <2>6. clerk' = [clerk EXCEPT ![c].at = "committing", ![c].cable = cable]
    BY <1>12, <2>4 DEF ConfirmReads
  <2>7. clerk' = [clerk EXCEPT ![c] = [clerk[c] EXCEPT !.at = "committing", !.cable = cable]]
    BY <1>1, <2>6
  <2>8. clerk' = [clerk EXCEPT ![c] = [clerk[c] EXCEPT !.at = "committing", !.cable = cable,
                                                       !.before = r.before]]
    BY <2>5, <2>7
  <2>9. UNCHANGED <<usb, enrolling, identity>> /\ UNCHANGED Host /\ UNCHANGED Loop
    BY <1>12 DEF ConfirmReads
  <2> QED BY ZenonT(30), <1>5, <2>1, <2>2, <2>8, <2>9
<1>13. CASE ConfirmCommits(c)
  <2>1. r.op = "confirm" /\ r.op # "none" BY <1>13 DEF ConfirmCommits
  <2>2. r.cable \in Cables \cup {NoCable} BY <1>3, <2>1 DEF ClerkRecords
  <2>3. [cable |-> r.cable, seen |-> NoCable] \in Mapping BY <2>2 DEF Mapping
  <2>4. usb' \in [Handsets -> Mapping] BY <1>1, <1>13, <2>3 DEF ConfirmCommits
  <2>5. clerk' = [Disturb({c}, d, {"confirm"}) EXCEPT ![c] = IdleClerk] BY <1>13 DEF ConfirmCommits
  <2>6. Disturb({c}, d, {"confirm"}) = [j \in Clerks |-> Disturb({c}, d, {"confirm"})[j]]
    BY DEF Disturb
  <2>7. PICK f : f = Disturb({c}, d, {"confirm"}) OBVIOUS
  <2>8. f = [j \in Clerks |-> f[j]] /\ clerk' = [f EXCEPT ![c] = IdleClerk] BY <2>5, <2>6, <2>7
  <2>9. clerk' = [j \in Clerks |-> clerk'[j]] /\ \A j \in Clerks : clerk'[j] \in {f[j], IdleClerk} BY <2>8
  <2>10. PICK cs \in SUBSET Clerks : cs = {c} OBVIOUS
  <2>11. PICK ops \in SUBSET {"start", "confirm"} : ops = {"confirm"} OBVIOUS
  <2>12. \A j \in Clerks : clerk'[j] \in {Disturb(cs, d, ops)[j], IdleClerk}
    BY <2>7, <2>9, <2>10, <2>11
  <2>13. /\ enrolling' = [enrolling EXCEPT ![d] = NoSlot] /\ UNCHANGED identity
         /\ UNCHANGED Host /\ UNCHANGED Loop
    BY <1>13 DEF ConfirmCommits
  <2>14. d \in Handsets BY <1>3, <2>1
  <2> HIDE DEF d, r
  <2> QED BY <2>4, <2>9, <2>12, <2>13, <2>14, EntryGoesLemma
<1>14. CASE ConfirmIsStale(c)
  <2>1. r.op # "none" BY <1>14 DEF ConfirmIsStale
  <2> QED BY <1>14, <2>1, WithoutMineLemma DEF ConfirmIsStale
<1>15. CASE DiscoverBegins(c)
  <2>1. r.op = "discover" /\ r.op # "none" BY <1>15 DEF DiscoverBegins
  <2>2. identity'[d] = identity[d] + 1 BY <1>1, <1>3, <1>15, <2>1 DEF DiscoverBegins
  <2>3. Disturb({c}, d, Collecting)[c] = clerk[c] BY DEF Disturb
  <2> DEFINE gen == identity[d] + 1
             next == [clerk[c] EXCEPT !.at = "committing", !.gen = gen, !.disturbed = FALSE]
  <2>4. gen \in Nat BY <1>3, <2>1
  <2>5. Disturb({c}, d, Collecting) = [j \in Clerks |-> Disturb({c}, d, Collecting)[j]] BY DEF Disturb
  <2>6. PICK f : f = Disturb({c}, d, Collecting) OBVIOUS
  <2>7. clerk' = [f EXCEPT ![c].at = "committing", ![c].gen = gen, ![c].disturbed = FALSE]
    BY <1>15, <2>2, <2>6 DEF DiscoverBegins
  <2>8. f = [j \in Clerks |-> f[j]] /\ f[c] = clerk[c] BY <2>3, <2>5, <2>6
  <2> HIDE DEF gen
  <2>9. clerk' = [f EXCEPT ![c] = next] BY <2>7, <2>8
  <2>10. next \in ClerkRecords /\ next.phone = d /\ next.gen = gen /\ next.op = "discover" /\ ~next.disturbed
    BY <1>3, <2>1, <2>4 DEF ClerkRecords
  <2> HIDE DEF next
  <2>11. clerk' = [Disturb({c}, d, Collecting) EXCEPT ![c] = next] BY <2>6, <2>9
  <2>12. /\ identity' = [identity EXCEPT ![d] = @ + 1] /\ UNCHANGED usb /\ UNCHANGED enrolling
         /\ UNCHANGED Host /\ UNCHANGED Loop
    BY <1>15 DEF DiscoverBegins
  <2>13. PICK entry \in EntryRecords : entry = enrolling[d] BY <1>3, <2>1
  <2>14. enrolling' = [enrolling EXCEPT ![d] = entry] BY <1>1, <2>12, <2>13
  <2>15. next.gen <= identity[d] + 1 BY <2>4, <2>10 DEF gen
  <2>16. d \in Handsets BY <1>3, <2>1
  <2> HIDE DEF d, r
  <2>17. next.op # "start" /\ next.op # "confirm" BY <2>10
  <2> QED BY ZenonT(40), <2>10, <2>11, <2>12, <2>13, <2>14, <2>15, <2>16, <2>17, SupersedeLemma
<1>16. CASE DiscoverCommits(c)
  <2>1. r.op = "discover" /\ r.op # "none" BY <1>16 DEF DiscoverCommits
  <2>2. r.cable \in Cables \cup {NoCable} /\ usb[d] \in Mapping BY <1>1, <1>3, <2>1 DEF ClerkRecords
  <2>3. [usb[d] EXCEPT !.seen = r.cable] \in Mapping BY <2>2 DEF Mapping
  <2>4. usb' = [usb EXCEPT ![d] = [usb[d] EXCEPT !.seen = r.cable]] BY <1>1, <1>16 DEF DiscoverCommits
  <2>5. usb' \in [Handsets -> Mapping] BY <1>1, <2>3, <2>4
  <2> QED BY <1>4, <1>16, <2>5 DEF DiscoverCommits
<1>17. CASE RouteBegins(c)
  <2>1. r.op \in {"route", "stop"} /\ r.op # "none" BY <1>17 DEF RouteBegins
  <2> DEFINE next == [clerk[c] EXCEPT !.at = "committing"]
  <2>2. Disturb({c}, d, Collecting)[c] = clerk[c] BY DEF Disturb
  <2>3. Disturb({c}, d, Collecting) = [j \in Clerks |-> Disturb({c}, d, Collecting)[j]] BY DEF Disturb
  <2>4. PICK f : f = Disturb({c}, d, Collecting) OBVIOUS
  <2>5. clerk' = [f EXCEPT ![c].at = "committing"] BY <1>17, <2>4 DEF RouteBegins
  <2>6. f = [j \in Clerks |-> f[j]] /\ f[c] = clerk[c] BY <2>2, <2>3, <2>4
  <2>7. clerk' = [f EXCEPT ![c] = next] BY <2>5, <2>6
  <2>8. next \in ClerkRecords /\ next.phone = d /\ next.gen = r.gen /\ next.op = r.op
    BY <1>3, <2>1 DEF ClerkRecords
  <2> HIDE DEF next
  <2>9. clerk' = [Disturb({c}, d, Collecting) EXCEPT ![c] = next] BY <2>4, <2>7
  <2>10. /\ identity' = [identity EXCEPT ![d] = @ + 1] /\ UNCHANGED usb /\ UNCHANGED enrolling
         /\ UNCHANGED Host /\ UNCHANGED Loop
    BY <1>17 DEF RouteBegins
  <2>11. PICK entry \in EntryRecords : entry = enrolling[d] BY <1>3, <2>1
  <2>12. enrolling' = [enrolling EXCEPT ![d] = entry] BY <1>1, <2>10, <2>11
  <2>13. next.gen <= identity[d] + 1
    <3>1. r.gen <= identity[d] BY <1>3, <2>1 DEF ClerkOK
    <3> QED BY <1>3, <2>1, <2>8, <3>1
  <2>14. d \in Handsets /\ next.op \in {"route", "stop"} BY <1>3, <2>1, <2>8
  <2>15. next.op # "start" /\ next.op # "confirm" /\ next.phone = d /\ next \in ClerkRecords
    BY <2>8, <2>14
  <2> HIDE DEF d, r
  <2> QED BY ZenonT(60), <2>9, <2>10, <2>11, <2>12, <2>13, <2>14, <2>15, SupersedeLemma
<1>18. CASE RouteEnds(c)
  BY <1>1, <1>4, <1>18 DEF RouteEnds
<1>19. CASE Refuses(c)
  BY <1>1, <1>4, <1>19 DEF Refuses, EndsAsking
<1> QED BY <1>6, <1>7, <1>8, <1>9, <1>10, <1>11, <1>12, <1>13, <1>14, <1>15, <1>16, <1>17, <1>18, <1>19

\* An entry of the lock that expires takes its requests' evidence with it (active).
LEMMA ExpiresLemma ==
  ASSUME EnrollInv, NEW d \in Handsets, Expires(d)
  PROVE  EnrollInv'
<1>1. PICK ops \in SUBSET {"start", "confirm"} : ops = {"start", "confirm"} OBVIOUS
<1>2. PICK cs \in SUBSET Clerks : cs = {} OBVIOUS
<1>3. clerk' = Disturb(cs, d, ops) BY <1>1, <1>2 DEF Expires
<1>4. clerk' = [c \in Clerks |-> clerk'[c]] BY <1>3 DEF Disturb
<1>5. usb' \in [Handsets -> Mapping] /\ enrolling' = [enrolling EXCEPT ![d] = NoSlot]
      /\ UNCHANGED identity /\ UNCHANGED Host /\ UNCHANGED Loop
  BY DEF Expires, EnrollInv, EnrollTyped
<1> QED BY <1>3, <1>4, <1>5, EntryGoesLemma

\* Every step of the loop, of a request, and of time.
LEMMA EnrollNextLemma == EnrollInv /\ [EnrollNext]_enrollVars => EnrollInv'
BY LoopLemma, RequestLemma, ExpiresLemma DEF EnrollNext

\* A request is outdated by whatever cancels its enrollment, lets it expire, begins it again,
\* confirms it or starts or stops a route of its phone, however many requests are under way.
THEOREM EnrollmentInvariance == EnrollSpec => []EnrollInv
BY EnrollInitLemma, EnrollNextLemma, PTL DEF EnrollSpec

\* A phone's interface and address are recorded only on evidence that still holds, and only
\* while the host may route and the loop lives.
THEOREM PairingsAreCurrent == EnrollSpec => PairingIsCurrent
<1>1. EnrollInv /\ [EnrollNext]_enrollVars => [CommitIsCurrent /\ IdentityIsFrozen]_enrollVars
  <2> SUFFICES ASSUME EnrollInv, EnrollNext PROVE CommitIsCurrent /\ IdentityIsFrozen
    OBVIOUS
  <2>1. \A d \in Handsets : enrolling[d] \in EntryRecords BY DEF EnrollInv, EnrollTyped
  <2>2. ASSUME \/ Quarantines \/ Halt \/ TickStarts \/ TickPairs \/ TickHeldUp \/ TickCaptures
               \/ TickSeesNothing \/ TickRoutes \/ TickEnds
               \/ \E d \in Handsets : Plug(d) \/ TickPicks(d)
        PROVE  CommitIsCurrent /\ IdentityIsFrozen
    <3>1. UNCHANGED clerk
      BY ZenonT(30), <2>2
         DEF Quarantines, Halt, TickStarts, TickPairs, TickHeldUp, TickCaptures, TickSeesNothing,
             TickRoutes, TickEnds, Plug, TickPicks, Manual
    <3>2. "none" \notin Collecting BY DEF Collecting
    <3>3. \A c \in Clerks : clerk'[c] = IdleClerk => clerk[c].op = "none"
      BY <3>1, SlotLemma
    <3>4. CommitIsCurrent BY <3>2, <3>3 DEF CommitIsCurrent
    <3>5. CASE TickStarts \/ TickPairs \/ TickCaptures
      <4>1. CASE TickStarts BY <3>4, <4>1 DEF TickStarts, IdentityIsFrozen
      <4>2. CASE TickPairs BY <3>4, <4>2 DEF TickPairs, IdentityIsFrozen
      <4>3. CASE TickCaptures BY <3>4, <4>3 DEF TickCaptures, MayRecord, IdentityIsFrozen
      <4> QED BY <3>5, <4>1, <4>2, <4>3
    <3>6. CASE \/ Quarantines \/ Halt \/ TickHeldUp \/ TickSeesNothing \/ TickRoutes \/ TickEnds
               \/ \E d \in Handsets : Plug(d) \/ TickPicks(d)
      <4>1. UNCHANGED usb
        <5>1. CASE \E d \in Handsets : Plug(d) BY <5>1 DEF Plug, Loop
        <5>2. CASE \E d \in Handsets : TickPicks(d) BY <5>2 DEF TickPicks
        <5>3. CASE Quarantines \/ Halt \/ TickHeldUp \/ TickSeesNothing \/ TickRoutes \/ TickEnds
          BY <5>3 DEF Quarantines, Halt, TickHeldUp, TickSeesNothing, TickRoutes, TickEnds, Loop
        <5> QED BY <3>6, <5>1, <5>2, <5>3
      <4> QED BY <3>4, <4>1 DEF IdentityIsFrozen
    <3> QED BY SMTT(30), <2>2, <3>4, <3>5, <3>6
  <2>3. ASSUME NEW c \in Clerks, ConfirmCommits(c) \/ DiscoverCommits(c)
        PROVE  CommitIsCurrent /\ IdentityIsFrozen
    <3>1. clerk[c].op \in {"confirm", "discover"} /\ clerk[c].at = "committing" /\ IsCurrent(c)
          /\ clerk[c].phone \notin up /\ allowed /\ tick' = tick
      BY <2>3 DEF ConfirmCommits, DiscoverCommits, Loop
    <3>2. ~clerk[c].disturbed
      BY <3>1, UnderWayLemma DEF ClerkOK
    <3>3. ASSUME NEW j \in Clerks, j # c, clerk'[j] = IdleClerk PROVE clerk[j].op \notin Collecting
      <4>1. CASE ConfirmCommits(c)
        <5>1. PICK cs \in SUBSET Clerks : cs = {c} OBVIOUS
        <5>2. PICK ops \in SUBSET Collecting : ops = {"confirm"} BY DEF Collecting
        <5>3. clerk[c].phone \in Handsets BY <3>1, UnderWayLemma
        <5>4. /\ Disturb(cs, clerk[c].phone, ops) \in [Clerks -> ClerkRecords \cup {IdleClerk}]
              /\ \A i \in Clerks :
                   \/ Disturb(cs, clerk[c].phone, ops)[i] = clerk[i]
                   \/ /\ clerk[i] # IdleClerk /\ clerk[i].phone = clerk[c].phone /\ clerk[i].op \in ops
                      /\ Disturb(cs, clerk[c].phone, ops)[i] = [clerk[i] EXCEPT !.disturbed = TRUE]
          BY <5>3, DisturbLemma
        <5>5. clerk'[j] = Disturb(cs, clerk[c].phone, ops)[j]
          BY <3>3, <4>1, <5>1, <5>2, <5>4 DEF ConfirmCommits
        <5>6. CASE clerk[j] = IdleClerk BY <5>6, SlotLemma DEF Collecting
        <5>7. CASE clerk[j] # IdleClerk
          <6>1. clerk[j] \in ClerkRecords BY <5>7 DEF EnrollInv, ClerkOK
          <6>2. clerk'[j] = [clerk[j] EXCEPT !.disturbed = TRUE] BY <3>3, <5>4, <5>5, <5>7
          <6>3. clerk'[j].op = clerk[j].op BY <6>1, <6>2 DEF ClerkRecords
          <6> QED BY <3>3, <6>3, SlotLemma DEF Collecting
        <5> QED BY <5>6, <5>7
      <4>2. CASE DiscoverCommits(c)
        <5>1. clerk'[j] = clerk[j]
          BY <3>3, <4>2 DEF DiscoverCommits, EndOf, EnrollInv, EnrollTyped
        <5> QED BY <3>3, <5>1, SlotLemma DEF Collecting
      <4> QED BY <2>3, <4>1, <4>2
    <3>4. CommitIsCurrent BY <3>1, <3>2, <3>3 DEF CommitIsCurrent
    <3> QED BY <3>1, <3>4 DEF IdentityIsFrozen
  <2>4. ASSUME NEW c \in Clerks, StartCommits(c) PROVE CommitIsCurrent /\ IdentityIsFrozen
    <3>1. UNCHANGED usb /\ clerk' = EndOf(c) /\ clerk[c].op = "start" BY <2>4 DEF StartCommits
    <3>2. ASSUME NEW d \in Handsets, enrolling'[d].ready, ~enrolling[d].ready
          PROVE  ~clerk[c].disturbed /\ clerk[c].phone \notin up
      <4>1. enrolling' # WithoutMine(c)
        BY <2>1, <3>2, SlotLemma DEF WithoutMine, EnrollInv, EnrollTyped
      <4>2. IsCurrent(c) /\ clerk[c].phone \notin up BY <2>4, <4>1 DEF StartCommits
      <4> QED BY <3>1, <4>2, UnderWayLemma DEF ClerkOK
    <3>3. \A j \in Clerks : j # c => clerk'[j] = clerk[j]
      BY <3>1 DEF EndOf, EnrollInv, EnrollTyped
    <3>4. \A j \in Clerks : j # c /\ clerk'[j] = IdleClerk => clerk[j].op \notin Collecting
      BY <3>3, SlotLemma DEF Collecting
    <3>5. CommitIsCurrent BY <3>1, <3>2, <3>4 DEF CommitIsCurrent
    <3> QED BY <3>1, <3>5 DEF IdentityIsFrozen
  <2>5. ASSUME UNCHANGED usb, \A d \in Handsets : enrolling'[d].ready => enrolling[d].ready
        PROVE  CommitIsCurrent /\ IdentityIsFrozen
    BY <2>5 DEF CommitIsCurrent, IdentityIsFrozen
  <2>6. ASSUME UNCHANGED usb, UNCHANGED enrolling PROVE CommitIsCurrent /\ IdentityIsFrozen
    BY <2>5, <2>6
  <2>7. ASSUME NEW c \in Clerks, StartReads(c) \/ Cancels(c) \/ ConfirmIsStale(c)
        PROVE  CommitIsCurrent /\ IdentityIsFrozen
    <3>1. UNCHANGED usb BY <2>7 DEF StartReads, Cancels, ConfirmIsStale
    <3>2. \/ UNCHANGED enrolling
          \/ enrolling' = [enrolling EXCEPT ![clerk[c].phone] = NoSlot]
      BY <2>7 DEF StartReads, Cancels, ConfirmIsStale, WithoutMine
    <3>3. \A d \in Handsets : enrolling'[d].ready => enrolling[d].ready
      BY <3>2, SlotLemma DEF EnrollInv, EnrollTyped
    <3> QED BY <2>5, <3>1, <3>3
  <2>8. ASSUME NEW d \in Handsets, Expires(d) PROVE CommitIsCurrent /\ IdentityIsFrozen
    <3>1. \A e \in Handsets : enrolling'[e].ready => enrolling[e].ready
      BY <2>8, SlotLemma DEF Expires, EnrollInv, EnrollTyped
    <3> QED BY <2>5, <2>8, <3>1 DEF Expires
  <2>9. ASSUME NEW c \in Clerks, NEW d \in Handsets, Starts(c, d)
        PROVE  CommitIsCurrent /\ IdentityIsFrozen
    <3>1. ~[NoSlot EXCEPT !.gen = identity'[d]].ready BY DEF NoSlot
    <3>2. enrolling' = [enrolling EXCEPT ![d] = [NoSlot EXCEPT !.gen = identity'[d]]]
      BY <2>9 DEF Starts
    <3>3. \A e \in Handsets : enrolling'[e].ready => enrolling[e].ready
      BY <3>1, <3>2 DEF EnrollInv, EnrollTyped
    <3> QED BY <2>5, <2>9, <3>3 DEF Starts
  <2>10. ASSUME NEW c \in Clerks,
                \/ \E d \in Handsets, o \in {"cancel", "confirm", "discover", "route", "stop"} :
                     Asks(c, o, d)
                \/ ConfirmBegins(c) \/ ConfirmReads(c) \/ DiscoverBegins(c) \/ RouteBegins(c)
                \/ RouteEnds(c) \/ Refuses(c)
         PROVE  CommitIsCurrent /\ IdentityIsFrozen
    <3>1. CASE \E d \in Handsets, o \in {"cancel", "confirm", "discover", "route", "stop"} : Asks(c, o, d)
      BY SMTT(30), <2>6, <3>1 DEF Asks
    <3>2. CASE ConfirmBegins(c) \/ ConfirmReads(c) \/ DiscoverBegins(c)
      BY <2>6, <3>2 DEF ConfirmBegins, ConfirmReads, DiscoverBegins
    <3>3. CASE RouteBegins(c) \/ RouteEnds(c) \/ Refuses(c)
      BY <2>6, <3>3 DEF RouteBegins, RouteEnds, Refuses, EndsAsking
    <3> QED BY <2>10, <3>1, <3>2, <3>3
  <2> QED BY SMTT(30), <2>2, <2>3, <2>4, <2>7, <2>8, <2>9, <2>10 DEF EnrollNext
<1> QED BY <1>1, EnrollmentInvariance, PTL DEF EnrollSpec, PairingIsCurrent

----------------------------------------------------------------------------
(* The processes of a phone (Provisioning)                                 *)

\* A set of numbers that is not empty has a least one.
LEMMA SmallestLemma ==
  ASSUME NEW T, T \subseteq Nat, T # {}
  PROVE  Min(T) \in T
<1>1. \A x, y \in Nat : <<x, y>> \in OpToRel(<, Nat) <=> x < y
  BY DEF OpToRel
<1>2. PICK R : R = OpToRel(<, Nat) OBVIOUS
<1>3. IsWellFoundedOn(R, Nat) BY ZenonT(30), <1>2, NatLessThanWellFounded
<1>4. \A x, y \in Nat : <<x, y>> \in R <=> x < y BY ZenonT(30), <1>1, <1>2
<1>5. \E x \in T : \A y \in T : ~(<<y, x>> \in R) BY <1>3, WFMin
<1>6. PICK x \in T : \A y \in T : ~(<<y, x>> \in R) BY <1>5
<1>7. ASSUME NEW y \in T PROVE x <= y
  <2>1. x \in Nat /\ y \in Nat OBVIOUS
  <2>2. ~(y < x) BY <1>4, <1>6, <2>1
  <2> QED BY <2>1, <2>2
<1> QED BY <1>7 DEF Min

\* A key for which nothing runs, nothing is to be restarted and no start is queued.
Quiet(s) == ~IsRunning(s) /\ ~s.waiting

\* One key.  A process is the entry's, or a stop waits for it, or the key is blocked; the record
\* has it, or is about to; there is never a second one; and what an earlier server left is gone
\* before anything runs.
KeyOK(s) ==
  /\ s \in Supervised /\ Consistent(s)
  /\ \A p \in s.children : p \in {s.child, s.stopping} \/ s.blocked
  /\ \A p \in s.children : p \in {s.saved, s.recording, s.stopping} \/ s.blocked
  /\ \A p \in s.children : p = s.recording \/ (s.recording = NoPid /\ p = s.known)
  /\ \A p, q \in Alive(s) : p = q
  /\ IsRunning(s) => s.stopping = NoPid /\ ~s.blocked /\ ~s.waiting
  /\ s.blocked => s.stopping = NoPid /\ s.recording = NoPid
  /\ ~Quiet(s) => s.orphans = {}

\* What r keeps of s: nothing is found that was not there, nothing starts that was quiet.
Follows(s, r) ==
  /\ KeyOK(r) /\ r.orphans \subseteq s.orphans
  /\ Quiet(s) => Quiet(r)
  /\ Quiet(s) /\ s.children = {} => r.children = {}
  /\ Quiet(s) /\ s.stopping = NoPid => r.stopping = NoPid

ProvTyped ==
  /\ sup \in [Kinds -> Supervised] /\ setup \in Setups /\ poll \in Polls
  /\ op \in [kind : OpKinds, at : OpSteps]
  /\ on \in BOOLEAN /\ enabled \in BOOLEAN /\ intent \in BOOLEAN /\ seen \in BOOLEAN
  /\ busyPort \in BOOLEAN /\ crashes \in 0..MaxCrashes

QuietBoth == \A k \in Kinds : Quiet(sup[k])

\* The inductive invariant.
ProvInv ==
  /\ ProvTyped
  /\ \A k \in Kinds : KeyOK(sup[k])
  \* before setup begins there is nothing of this server's
  /\ setup \in {"checking", "paused"} => ~on /\ poll = "idle" /\ \A k \in Kinds : sup[k].children = {}
  \* a phone that is not in the map is left alone
  /\ ~on => poll \in {"idle", "attach"} /\ op.kind \in {"none", "stop"} /\ QuietBoth
  /\ op.kind = "detach" => op.at = "stops" /\ poll = "detach" /\ QuietBoth
  \* shutdown
  /\ setup \in {"second", "down"} => poll = "idle" /\ Idle /\ QuietBoth
  /\ setup = "down" => BothSettled
  \* what has been looked at has no leftovers
  /\ op.kind \in {"start", "retry", "restart"} /\ op.at # "check" => sup["wda"].orphans = {}
  /\ poll = "probe" => sup["wda"].orphans = {}
  /\ poll = "check" => sup["iproxy"].orphans = {}

----------------------------------------------------------------------------
(* One supervisor                                                          *)

\* A number is no process.
LEMMA NoPidLemma == NoPid \notin Pids /\ NoPid \in PidOrNone /\ Pids \subseteq PidOrNone
BY SupervisorAssumption DEF NoPid, PidOrNone

\* A process that is started gets a number nothing remembers.
LEMMA UnusedLemma ==
  ASSUME NEW s, Unused(s) # {}
  PROVE  /\ Min(Unused(s)) \in Pids /\ Min(Unused(s)) \notin Alive(s)
         /\ Min(Unused(s)) \notin {s.known, s.saved, s.recording}
<1>1. Unused(s) \subseteq Nat BY SupervisorAssumption DEF Unused
<1>2. Min(Unused(s)) \in Unused(s) BY <1>1, SmallestLemma
<1> QED BY <1>2 DEF Unused

\* Whatever is the case after a spawn, there is at most the one process.
LEMMA SpawnLemma ==
  ASSUME NEW s \in Supervised, s.state = "restarting", s.child = NoPid, s.stopping = NoPid,
         ~s.blocked, ~s.waiting, ~s.forced, s.children = {}, s.orphans = {},
         NEW r \in SpawnNow(s)
  PROVE  KeyOK(r) /\ r.orphans = {}
<1>1. CASE r = ProcessFailed(s)
  <2>1. r = s
    BY <1>1 DEF ProcessFailed, Supervised
  <2> QED BY <2>1 DEF KeyOK, Consistent, Alive, Quiet, IsRunning
<1>2. CASE r # ProcessFailed(s)
  <2> DEFINE p == Min(Unused(s))
  <2>1. Unused(s) # {} BY <1>2 DEF SpawnNow
  <2>2. p \in Pids /\ p # NoPid BY <2>1, UnusedLemma, NoPidLemma
  <2>3. r = [s EXCEPT !.child = p, !.state = "running", !.recording = p, !.children = @ \cup {p}]
    BY <1>2, <2>1 DEF SpawnNow
  <2> HIDE DEF p
  <2>4. r \in Supervised BY <2>2, <2>3, NoPidLemma DEF Supervised
  <2>5. /\ r.child = p /\ r.state = "running" /\ r.recording = p /\ r.children = {p}
        /\ r.stopping = NoPid /\ ~r.blocked /\ ~r.waiting /\ ~r.forced /\ r.orphans = {}
    BY <2>3 DEF Supervised
  <2> QED BY <2>2, <2>4, <2>5 DEF KeyOK, Consistent, Alive, Quiet, IsRunning
<1> QED BY <1>1, <1>2

\* A launch from an empty key.
LEMMA LaunchLemma ==
  ASSUME NEW s \in Supervised, s.child = NoPid, s.stopping = NoPid,
         ~s.blocked, ~s.forced, s.children = {}, s.orphans = {}, NEW r \in Launch(s)
  PROVE  KeyOK(r) /\ r.orphans = {}
<1> DEFINE t == [s EXCEPT !.waiting = FALSE, !.state = "restarting"]
<1>1. r \in SpawnNow(t) BY DEF Launch
<1>2. /\ t \in Supervised /\ t.state = "restarting" /\ t.child = NoPid /\ t.stopping = NoPid
      /\ ~t.blocked /\ ~t.waiting /\ ~t.forced /\ t.children = {} /\ t.orphans = {}
  BY DEF Supervised
<1> HIDE DEF t
<1> QED BY <1>1, <1>2, SpawnLemma

\* start.
LEMMA KeyStartLemma ==
  ASSUME NEW s, KeyOK(s), s.orphans = {}, NEW r \in Start(s)
  PROVE  KeyOK(r) /\ r.orphans = {}
<1>1. CASE s.blocked \/ IsRunning(s)
  BY <1>1 DEF Start
<1>2. CASE ~s.blocked /\ ~IsRunning(s) /\ s.stopping # NoPid
  <2>1. r = [s EXCEPT !.waiting = TRUE] BY <1>2 DEF Start
  <2>2. s \in Supervised BY DEF KeyOK
  <2>3. /\ r \in Supervised /\ r.state = s.state /\ r.child = s.child /\ r.stopping = s.stopping
        /\ r.forced = s.forced /\ r.waiting /\ r.blocked = s.blocked /\ r.recording = s.recording
        /\ r.known = s.known /\ r.saved = s.saved /\ r.children = s.children /\ r.orphans = s.orphans
    BY <2>1, <2>2 DEF Supervised
  <2> QED BY <1>2, <2>3 DEF KeyOK, Consistent, Alive, Quiet, IsRunning
<1>3. CASE ~s.blocked /\ ~IsRunning(s) /\ s.stopping = NoPid
  <2>1. s \in Supervised /\ s.state = "stopped" /\ s.child = NoPid /\ s.children = {} /\ ~s.forced
    BY <1>3, NoPidLemma DEF KeyOK, Consistent, IsRunning, Supervised
  <2>2. r \in Launch(s) BY <1>3 DEF Start
  <2> QED BY <1>3, <2>1, <2>2, LaunchLemma
<1> QED BY <1>1, <1>2, <1>3

\* stop.
LEMMA KeyStopLemma ==
  ASSUME NEW s, KeyOK(s)
  PROVE  Follows(s, Stop(s)) /\ Quiet(Stop(s)) /\ Stop(s).orphans = s.orphans
<1> DEFINE r == Stop(s)
<1>1. s \in Supervised BY DEF KeyOK
<1>2. /\ r \in Supervised /\ r.state = "stopped" /\ r.child = NoPid /\ ~r.waiting
      /\ r.stopping = IF s.child # NoPid THEN s.child ELSE s.stopping
      /\ r.forced = IF s.child # NoPid THEN FALSE ELSE s.forced
      /\ r.blocked = s.blocked /\ r.recording = s.recording
      /\ r.known = s.known /\ r.saved = s.saved /\ r.children = s.children /\ r.orphans = s.orphans
  BY <1>1, NoPidLemma DEF Stop, Supervised
<1> HIDE DEF r
<1>3. Quiet(r) BY <1>2 DEF Quiet, IsRunning
<1>4. s.child # NoPid => IsRunning(s) BY <1>1 DEF KeyOK, Consistent, IsRunning
<1>5. KeyOK(r)
  BY <1>2, <1>3, <1>4, NoPidLemma DEF KeyOK, Consistent, Alive, Quiet, IsRunning
<1>6. Quiet(s) => r.stopping = s.stopping BY <1>2, <1>4 DEF Quiet
<1> QED BY <1>2, <1>3, <1>5, <1>6 DEF Follows, r

\* What forgetting a record touches.
LEMMA ForgottenLemma ==
  ASSUME NEW s \in Supervised, NEW r \in Forget(s)
  PROVE  /\ r \in Supervised /\ r.state = s.state /\ r.child = s.child /\ r.waiting = s.waiting
         /\ r.stopping = s.stopping /\ r.forced = s.forced /\ r.blocked = s.blocked
         /\ r.children = s.children /\ r.orphans = s.orphans /\ r.recording = NoPid
<1> DEFINE gone == [s EXCEPT !.known = NoPid, !.verified = FALSE, !.recording = NoPid]
<1>1. r = [gone EXCEPT !.saved = NoPid, !.trusted = FALSE] \/ r = gone
  BY DEF Forget
<1>2. /\ gone \in Supervised /\ gone.state = s.state /\ gone.child = s.child
      /\ gone.waiting = s.waiting /\ gone.stopping = s.stopping /\ gone.forced = s.forced
      /\ gone.blocked = s.blocked /\ gone.children = s.children /\ gone.orphans = s.orphans
      /\ gone.recording = NoPid
  BY NoPidLemma DEF Supervised
<1> HIDE DEF gone
<1> QED BY ZenonT(60), <1>1, <1>2, NoPidLemma DEF Supervised

\* Forgetting a record of a key that has no process.
LEMMA ForgetLemma ==
  ASSUME NEW s, KeyOK(s), s.children = {}, NEW r \in Forget(s)
  PROVE  Follows(s, r) /\ r.children = {} /\ r.orphans = s.orphans /\ r.blocked = s.blocked
         /\ r.child = s.child /\ r.stopping = s.stopping /\ r.waiting = s.waiting /\ r.state = s.state
         /\ r.forced = s.forced
<1>1. s \in Supervised BY DEF KeyOK
<1>2. /\ r \in Supervised /\ r.state = s.state /\ r.child = s.child /\ r.waiting = s.waiting
      /\ r.stopping = s.stopping /\ r.forced = s.forced /\ r.blocked = s.blocked
      /\ r.children = s.children /\ r.orphans = s.orphans /\ r.recording = NoPid
  BY <1>1, ForgottenLemma
<1>3. KeyOK(r) BY <1>2 DEF KeyOK, Consistent, Alive, Quiet, IsRunning
<1> QED BY <1>2, <1>3 DEF Follows, Quiet, IsRunning

\* Giving up the record of the process p, of a key that has none any more.
LEMMA ReleaseLemma ==
  ASSUME NEW s \in Supervised, NEW p, NEW r \in Release(s, p)
  PROVE  /\ r \in Supervised /\ r.state = s.state /\ r.child = s.child /\ r.waiting = s.waiting
         /\ r.stopping = s.stopping /\ r.forced = s.forced /\ r.blocked = s.blocked
         /\ r.children = s.children /\ r.orphans = s.orphans
         /\ r.recording \in {s.recording, NoPid}
<1>1. CASE s.known = NoPid
  <2>1. r = [s EXCEPT !.recording = NoPid] BY <1>1 DEF Release
  <2> QED BY <2>1, NoPidLemma DEF Supervised
<1>2. CASE s.known # NoPid /\ s.known # p
  <2>1. r = s BY <1>2 DEF Release
  <2> QED BY <2>1
<1>3. CASE s.known # NoPid /\ s.known = p
  <2>1. r \in Forget(s) BY <1>3 DEF Release
  <2> QED BY <2>1, ForgottenLemma
<1> QED BY <1>1, <1>2, <1>3

\* The exit of a child: at most what was to be restarted or was queued starts.
LEMMA ExitLemma ==
  ASSUME NEW s, KeyOK(s), NEW p \in s.children, NEW r \in Exited(s, p)
  PROVE  Follows(s, r) /\ (r.children # {} => s.waiting)
<1> DEFINE t == [s EXCEPT !.children = @ \ {p}]
<1>1. s \in Supervised /\ p \in Pids /\ p # NoPid BY NoPidLemma DEF KeyOK, Supervised
<1>2. /\ t \in Supervised /\ t.state = s.state /\ t.child = s.child /\ t.waiting = s.waiting
      /\ t.stopping = s.stopping /\ t.forced = s.forced /\ t.blocked = s.blocked
      /\ t.orphans = s.orphans /\ t.recording = s.recording
      /\ t.children = s.children \ {p}
  BY <1>1 DEF Supervised
<1>3. s.children \ {p} = {} BY DEF KeyOK, Alive
<1>4. PICK q \in Release(t, p) :
        r \in (IF q.child = p THEN {ProcessFailed(q)}
               ELSE IF q.stopping = p
                 THEN LET done == [q EXCEPT !.stopping = NoPid, !.forced = FALSE]
                      IN IF done.waiting THEN Launch(done) ELSE {done}
               ELSE {q})
  BY ZenonT(30) DEF Exited
<1> HIDE DEF t
<1>5. /\ q \in Supervised /\ q.state = s.state /\ q.child = s.child /\ q.waiting = s.waiting
      /\ q.stopping = s.stopping /\ q.forced = s.forced /\ q.blocked = s.blocked
      /\ q.children = {} /\ q.orphans = s.orphans
      /\ q.recording \in {s.recording, NoPid}
  BY <1>2, <1>3, ReleaseLemma
<1>6. CASE s.child = p
  <2>1. r = [q EXCEPT !.child = NoPid, !.state = "restarting"] BY <1>4, <1>5, <1>6 DEF ProcessFailed
  <2>2. /\ r \in Supervised /\ r.state = "restarting" /\ r.child = NoPid /\ r.waiting = s.waiting
        /\ r.stopping = s.stopping /\ r.forced = s.forced /\ r.blocked = s.blocked
        /\ r.children = {} /\ r.orphans = s.orphans
    BY <1>5, <2>1, NoPidLemma DEF Supervised
  <2>3. ~Quiet(s) /\ IsRunning(s) BY <1>1, <1>6 DEF KeyOK, Consistent, Quiet, IsRunning
  <2>4. KeyOK(r) BY <2>2, <2>3 DEF KeyOK, Consistent, Alive, Quiet, IsRunning
  <2> QED BY <2>2, <2>3, <2>4 DEF Follows
<1>7. CASE s.child # p /\ s.stopping = p
  <2> DEFINE done == [q EXCEPT !.stopping = NoPid, !.forced = FALSE]
  <2>1. /\ done \in Supervised /\ done.state = s.state /\ done.child = s.child
        /\ done.waiting = s.waiting /\ done.stopping = NoPid /\ ~done.forced
        /\ done.blocked = s.blocked /\ done.children = {} /\ done.orphans = s.orphans
        /\ done.recording \in {s.recording, NoPid}
    BY <1>5, NoPidLemma DEF Supervised
  <2>2. IF done.waiting THEN r \in Launch(done) ELSE r = done
    BY <1>4, <1>5, <1>7
  <2> HIDE DEF done
  <2>3. s.state = "stopped" /\ s.child = NoPid /\ ~s.blocked
    BY <1>1, <1>7 DEF KeyOK, Consistent, IsRunning, Supervised
  <2>4. CASE s.waiting
    <3>1. ~Quiet(s) /\ s.orphans = {} BY <2>4 DEF Quiet, KeyOK
    <3>2. KeyOK(r) /\ r.orphans = {} BY <2>1, <2>2, <2>3, <2>4, <3>1, LaunchLemma
    <3> QED BY <2>4, <3>1, <3>2 DEF Follows
  <2>5. CASE ~s.waiting
    <3>1. r = done BY <2>1, <2>2, <2>5
    <3>2. KeyOK(r) BY <2>1, <2>3, <2>5, <3>1 DEF KeyOK, Consistent, Alive, Quiet, IsRunning
    <3> QED BY <2>1, <2>3, <2>5, <3>1, <3>2 DEF Follows, Quiet, IsRunning
  <2> QED BY <2>4, <2>5
<1>8. CASE s.child # p /\ s.stopping # p
  <2>1. r = q BY <1>4, <1>5, <1>8
  <2>2. s.child = NoPid /\ s.stopping = NoPid BY <1>3, <1>8 DEF KeyOK, Consistent
  <2>3. KeyOK(r) BY <1>5, <2>1, <2>2 DEF KeyOK, Consistent, Alive, Quiet, IsRunning
  <2> QED BY <1>5, <2>1, <2>3 DEF Follows, Quiet, IsRunning
<1> QED BY <1>6, <1>7, <1>8

\* A start time is there, or not to be had.
LEMMA RecordLemma ==
  ASSUME NEW s, KeyOK(s), s.recording # NoPid, NEW r \in Recorded(s)
  PROVE  Follows(s, r)
<1>1. s \in Supervised /\ ~s.blocked BY DEF KeyOK
<1>2. PICK v \in BOOLEAN :
        LET p == s.recording
            kept == [s EXCEPT !.known = p, !.verified = v, !.recording = NoPid]
        IN r = [kept EXCEPT !.saved = p, !.trusted = v] \/ r = FailClosed(kept, p)
  BY ZenonT(30) DEF Recorded
<1> DEFINE p == s.recording
           kept == [s EXCEPT !.known = p, !.verified = v, !.recording = NoPid]
<1>3. /\ kept \in Supervised /\ kept.state = s.state /\ kept.child = s.child
      /\ kept.waiting = s.waiting /\ kept.stopping = s.stopping /\ kept.forced = s.forced
      /\ kept.blocked = s.blocked /\ kept.children = s.children /\ kept.orphans = s.orphans
      /\ kept.recording = NoPid /\ kept.known = p /\ kept.saved = s.saved
  BY <1>1, NoPidLemma DEF Supervised
<1>4. r = [kept EXCEPT !.saved = p, !.trusted = v] \/ r = FailClosed(kept, p) BY <1>2
<1>5. p \in Pids /\ p # NoPid BY <1>1 DEF Supervised, PidOrNone
<1>6. \A q \in s.children : q = p BY DEF KeyOK
<1> HIDE DEF kept, p
<1>7. CASE r = [kept EXCEPT !.saved = p, !.trusted = v]
  <2>1. /\ r \in Supervised /\ r.state = s.state /\ r.child = s.child
        /\ r.waiting = s.waiting /\ r.stopping = s.stopping /\ r.forced = s.forced
        /\ r.blocked = s.blocked /\ r.children = s.children /\ r.orphans = s.orphans
        /\ r.recording = NoPid /\ r.known = p /\ r.saved = p
    BY <1>3, <1>5, <1>7, NoPidLemma DEF Supervised
  <2>2. KeyOK(r)
    BY <1>1, <1>5, <1>6, <2>1, NoPidLemma DEF KeyOK, Consistent, Alive, Quiet, IsRunning
  <2> QED BY <2>1, <2>2 DEF Follows, Quiet, IsRunning
<1>8. CASE r = FailClosed(kept, p)
  <2>1. CASE kept.child # p
    <3>1. r = kept BY <1>8, <2>1 DEF FailClosed
    <3>2. KeyOK(r)
      BY <1>1, <1>3, <1>5, <1>6, <2>1, <3>1, NoPidLemma DEF KeyOK, Consistent, Alive, Quiet, IsRunning
    <3> QED BY <1>3, <3>1, <3>2 DEF Follows, Quiet, IsRunning
  <2>2. CASE kept.child = p
    <3>1. r = [kept EXCEPT !.state = "stopped", !.child = NoPid, !.blocked = TRUE]
      BY <1>8, <2>2 DEF FailClosed
    <3>2. /\ r \in Supervised /\ r.state = "stopped" /\ r.child = NoPid
          /\ r.waiting = s.waiting /\ r.stopping = s.stopping /\ r.forced = s.forced
          /\ r.blocked /\ r.children = s.children /\ r.orphans = s.orphans
          /\ r.recording = NoPid /\ r.known = p /\ r.saved = s.saved
      BY <1>3, <3>1, NoPidLemma DEF Supervised
    <3>3. IsRunning(s) /\ ~Quiet(s) BY <1>3, <1>5, <2>2 DEF KeyOK, Consistent, IsRunning, Quiet
    <3>4. KeyOK(r)
      BY <1>6, <3>2, <3>3 DEF KeyOK, Consistent, Alive, Quiet, IsRunning
    <3> QED BY <3>2, <3>3, <3>4 DEF Follows
  <2> QED BY <2>1, <2>2
<1> QED BY <1>4, <1>7, <1>8

\* The two timers of a stop.
LEMMA TimersLemma ==
  ASSUME NEW s, KeyOK(s), s.stopping # NoPid
  PROVE  /\ Follows(s, ForceKill(s))
         /\ s.recording = NoPid => \A r \in GiveUp(s) : Follows(s, r)
<1>1. s \in Supervised BY DEF KeyOK
<1>2. Follows(s, ForceKill(s))
  <2> DEFINE r == ForceKill(s)
  <2>1. /\ r \in Supervised /\ r.state = s.state /\ r.child = s.child /\ r.waiting = s.waiting
        /\ r.stopping = s.stopping /\ r.blocked = s.blocked /\ r.recording = s.recording
        /\ r.known = s.known /\ r.saved = s.saved /\ r.children = s.children /\ r.orphans = s.orphans
    BY <1>1 DEF ForceKill, Supervised
  <2> HIDE DEF r
  <2>2. KeyOK(r) BY <2>1 DEF KeyOK, Consistent, Alive, Quiet, IsRunning
  <2>3. Follows(s, r) BY <2>1, <2>2 DEF Follows, Quiet, IsRunning
  <2> QED BY <2>3 DEF r
<1>3. ASSUME s.recording = NoPid, NEW r \in GiveUp(s) PROVE Follows(s, r)
  <2>1. /\ r \in Supervised /\ r.state = s.state /\ r.child = s.child /\ ~r.waiting
        /\ r.stopping = NoPid /\ ~r.forced /\ r.blocked /\ r.recording = NoPid
        /\ r.known = s.known /\ r.saved = s.saved /\ r.children = s.children /\ r.orphans = s.orphans
    BY ZenonT(60), <1>1, <1>3, NoPidLemma DEF GiveUp, Supervised
  <2>2. ~IsRunning(s) /\ s.child = NoPid BY <1>1 DEF KeyOK, Consistent, IsRunning, Supervised
  <2>3. KeyOK(r) BY <1>3, <2>1, <2>2 DEF KeyOK, Consistent, Alive, Quiet, IsRunning
  <2> QED BY <2>1, <2>3 DEF Follows, Quiet, IsRunning
<1> QED BY <1>2, <1>3

\* Following is transitive.
LEMMA FollowsLemma ==
  ASSUME NEW s, NEW r, NEW q, Follows(s, r), Follows(r, q)
  PROVE  Follows(s, q)
BY DEF Follows

\* A key follows itself.
LEMMA SelfLemma ==
  ASSUME NEW s, KeyOK(s)
  PROVE  Follows(s, s)
BY DEF Follows

\* A blocked key is unblocked once it has no process.
LEMMA UnblockedLemma ==
  ASSUME NEW s, KeyOK(s), s.children = {}, NEW r \in Unblocked(s)
  PROVE  Follows(s, r)
<1>1. s \in Supervised BY DEF KeyOK
<1>2. CASE s.known = NoPid
  <2>1. r = [s EXCEPT !.blocked = FALSE, !.recording = NoPid] BY <1>2 DEF Unblocked
  <2>2. /\ r \in Supervised /\ r.state = s.state /\ r.child = s.child /\ r.waiting = s.waiting
        /\ r.stopping = s.stopping /\ r.forced = s.forced /\ ~r.blocked /\ r.recording = NoPid
        /\ r.children = {} /\ r.orphans = s.orphans
    BY <1>1, <2>1, NoPidLemma DEF Supervised
  <2>3. KeyOK(r) BY <2>2 DEF KeyOK, Consistent, Alive, Quiet, IsRunning
  <2> QED BY <2>2, <2>3 DEF Follows, Quiet, IsRunning
<1>3. CASE s.known # NoPid
  <2> DEFINE t == [s EXCEPT !.blocked = FALSE]
  <2>1. /\ t \in Supervised /\ t.state = s.state /\ t.child = s.child /\ t.waiting = s.waiting
        /\ t.stopping = s.stopping /\ t.forced = s.forced /\ ~t.blocked
        /\ t.children = {} /\ t.orphans = s.orphans
    BY <1>1 DEF Supervised
  <2>2. r \in Forget(t) BY <1>3 DEF Unblocked
  <2> HIDE DEF t
  <2>3. KeyOK(t) BY <2>1 DEF KeyOK, Consistent, Alive, Quiet, IsRunning
  <2>4. Follows(s, t) BY <2>1, <2>3 DEF Follows, Quiet, IsRunning
  <2> QED BY <2>1, <2>2, <2>3, <2>4, ForgetLemma, FollowsLemma
<1> QED BY <1>2, <1>3

\* The look at a blocked stop.
LEMMA ClearedLemma ==
  ASSUME NEW s, KeyOK(s), NEW r \in Cleared(s)
  PROVE  Follows(s, r)
<1>1. CASE ~s.blocked
  BY <1>1, SelfLemma DEF Cleared
<1>2. CASE s.blocked /\ ConfirmGone(s)
  <2>1. s.children = {}
    BY <1>2, NoPidLemma DEF KeyOK, ConfirmGone, Alive, Supervised
  <2>2. r \in Unblocked(s) BY <1>2 DEF Cleared
  <2> QED BY <2>1, <2>2, UnblockedLemma
<1>3. CASE s.blocked /\ ~ConfirmGone(s)
  <2>1. PICK p \in Provable(s) :
          r \in UNION {Unblocked(q) : q \in IF p \in s.children THEN Exited(s, p)
                                           ELSE {[s EXCEPT !.orphans = @ \ {p}]}}
    BY <1>3 DEF Cleared
  <2>2. PICK q : /\ r \in Unblocked(q)
                 /\ q \in IF p \in s.children THEN Exited(s, p) ELSE {[s EXCEPT !.orphans = @ \ {p}]}
    BY <2>1
  <2>3. p \in Alive(s) BY DEF Provable
  <2>4. ~s.waiting BY <1>3 DEF KeyOK, Consistent
  <2>5. CASE p \in s.children
    <3>1. Follows(s, q) /\ q.children = {} BY <2>2, <2>4, <2>5, ExitLemma
    <3>2. KeyOK(q) BY <3>1 DEF Follows
    <3> QED BY <2>2, <3>1, <3>2, UnblockedLemma, FollowsLemma
  <2>6. CASE p \notin s.children
    <3>1. q = [s EXCEPT !.orphans = @ \ {p}] BY <2>2, <2>6
    <3>2. s \in Supervised /\ s.children = {} BY <2>3, <2>6 DEF KeyOK, Alive
    <3>3. /\ q \in Supervised /\ q.state = s.state /\ q.child = s.child /\ q.waiting = s.waiting
          /\ q.stopping = s.stopping /\ q.forced = s.forced /\ q.blocked = s.blocked
          /\ q.recording = s.recording
          /\ q.children = {} /\ q.orphans = s.orphans \ {p}
      BY <3>1, <3>2 DEF Supervised
    <3>4. KeyOK(q) BY <3>2, <3>3 DEF KeyOK, Consistent, Alive, Quiet, IsRunning
    <3>5. Follows(s, q) BY <3>3, <3>4 DEF Follows, Quiet, IsRunning
    <3> QED BY <2>2, <3>3, <3>4, <3>5, UnblockedLemma, FollowsLemma
  <2> QED BY <2>5, <2>6
<1> QED BY <1>1, <1>2, <1>3

\* Orphans go.
LEMMA OrphansLemma ==
  ASSUME NEW s, KeyOK(s), NEW O \in SUBSET s.orphans
  PROVE  LET r == [s EXCEPT !.orphans = O]
         IN Follows(s, r) /\ r.orphans = O /\ r.children = s.children
<1> DEFINE r == [s EXCEPT !.orphans = O]
<1>1. s \in Supervised BY DEF KeyOK
<1>2. /\ r \in Supervised /\ r.state = s.state /\ r.child = s.child /\ r.waiting = s.waiting
      /\ r.stopping = s.stopping /\ r.forced = s.forced /\ r.blocked = s.blocked
      /\ r.recording = s.recording /\ r.known = s.known /\ r.saved = s.saved
      /\ r.children = s.children /\ r.orphans = O
  BY <1>1 DEF Supervised
<1> HIDE DEF r
<1>3. KeyOK(r) BY <1>2 DEF KeyOK, Consistent, Alive, Quiet, IsRunning
<1>4. Follows(s, r) BY <1>2, <1>3 DEF Follows, Quiet, IsRunning
<1> QED BY <1>2, <1>4 DEF r

\* A port is freed of what is ours.
LEMMA PortLemma ==
  ASSUME KeyOK(sup["iproxy"]), NEW r \in PortFreed
  PROVE  Follows(sup["iproxy"], r) /\ r.orphans = {}
<1> DEFINE s == sup["iproxy"]
<1>1. CASE Alive(s) = {}
  <2>1. r = s /\ s.orphans = {} BY <1>1 DEF PortFreed, Alive
  <2> QED BY <2>1, SelfLemma
<1>2. CASE Alive(s) # {}
  <2> DEFINE left == [s EXCEPT !.orphans = {}]
  <2>1. r \in Reclaimed(s) BY <1>2 DEF PortFreed
  <2>2. Follows(s, left) /\ left.orphans = {} /\ left.children = s.children BY OrphansLemma
  <2>3. KeyOK(left) BY <2>2 DEF Follows
  <2>4. CASE s.children = {}
    <3>1. r = left BY <2>1, <2>4 DEF Reclaimed
    <3> QED BY <2>2, <3>1
  <2>5. CASE s.children # {}
    <3>1. PICK p \in s.children : r \in Exited(left, p) BY <2>1, <2>5 DEF Reclaimed
    <3> HIDE DEF left, s
    <3>2. Follows(left, r) BY <2>2, <2>3, <3>1, ExitLemma
    <3>3. r.orphans = {} BY <2>2, <3>2 DEF Follows
    <3>4. Follows(s, r) BY <2>2, <3>2, FollowsLemma
    <3> QED BY <3>3, <3>4 DEF s
  <2> QED BY <2>4, <2>5
<1> QED BY <1>1, <1>2

\* The sweep of a key without processes of this server's.
LEMMA SweptLemma ==
  ASSUME NEW s, KeyOK(s), s.children = {}, NEW w \in Swept(s)
  PROVE  Follows(s, w[1]) /\ w[1].children = {}
<1>1. CASE \E b \in BOOLEAN : w = <<s, b>>
  <2>1. PICK b \in BOOLEAN : w = <<s, b>> BY <1>1
  <2>2. w[1] = s BY <2>1
  <2> QED BY <2>2, SelfLemma
<1>2. CASE \E r \in Forget(s) : w = <<r, r.saved = NoPid>>
  BY <1>2, ForgetLemma
<1>3. CASE \E r \in Forget([s EXCEPT !.orphans = @ \ {s.known}]) : w = <<r, r.saved = NoPid>>
  <2>1. PICK r \in Forget([s EXCEPT !.orphans = @ \ {s.known}]) : w = <<r, r.saved = NoPid>> BY <1>3
  <2> DEFINE t == [s EXCEPT !.orphans = s.orphans \ {s.known}]
  <2>2. r \in Forget(t) BY <2>1
  <2>3. s.orphans \ {s.known} \in SUBSET s.orphans OBVIOUS
  <2>4. Follows(s, t) /\ t.children = {} BY <2>3, OrphansLemma
  <2> HIDE DEF t
  <2>5. KeyOK(t) BY <2>4 DEF Follows
  <2> QED BY <2>1, <2>2, <2>4, <2>5, ForgetLemma, FollowsLemma
<1> QED BY <1>1, <1>2, <1>3 DEF Swept

\* A crash leaves what runs to the next server.
LEMMA CrashedLemma ==
  ASSUME NEW s, KeyOK(s)
  PROVE  KeyOK(Crashed(s)) /\ Quiet(Crashed(s)) /\ Crashed(s).children = {}
<1> DEFINE r == Crashed(s)
<1>1. s \in Supervised BY DEF KeyOK
<1>2. /\ r \in Supervised /\ r.state = "stopped" /\ r.child = NoPid /\ ~r.waiting
      /\ r.stopping = NoPid /\ ~r.forced /\ ~r.blocked /\ r.recording = NoPid
      /\ r.children = {} /\ r.orphans = Alive(s)
  BY ZenonT(60), <1>1, NoPidLemma DEF Crashed, Fresh, Supervised, Alive
<1> HIDE DEF r
<1>3. Quiet(r) BY <1>2 DEF Quiet, IsRunning
<1>4. \A p, q \in Alive(r) : p = q BY <1>2 DEF KeyOK, Alive
<1>5. KeyOK(r) BY <1>2, <1>3, <1>4 DEF KeyOK, Consistent, IsRunning
<1> QED BY <1>2, <1>3, <1>5 DEF r

----------------------------------------------------------------------------
(* The phone                                                               *)

\* The two kinds.
LEMMA KindsLemma == Kinds = {"wda", "iproxy"} /\ "wda" \in Kinds /\ "iproxy" \in Kinds
BY DEF Kinds

\* Both supervisors, one by one, keep their types.
LEMMA SupLemma ==
  ASSUME NEW w, NEW t, KeyOK(w), KeyOK(t)
  PROVE  LET now == [wda |-> w, iproxy |-> t]
         IN now \in [Kinds -> Supervised] /\ now["wda"] = w /\ now["iproxy"] = t
BY DEF Kinds, KeyOK

\* The step of one supervisor.
LEMMA OneLemma ==
  ASSUME ProvTyped, NEW k \in Kinds, NEW r, KeyOK(r), sup' = [sup EXCEPT ![k] = r]
  PROVE  /\ sup' \in [Kinds -> Supervised] /\ sup'[k] = r
         /\ \A j \in Kinds \ {k} : sup'[j] = sup[j]
BY DEF ProvTyped, KeyOK

\* Stopping both.
LEMMA StopBothLemma ==
  ASSUME \A k \in Kinds : KeyOK(sup[k]), sup' = StopBoth
  PROVE  /\ sup' \in [Kinds -> Supervised] /\ \A k \in Kinds : Follows(sup[k], sup'[k])
         /\ \A k \in Kinds : Quiet(sup'[k])
<1>1. \A k \in Kinds : sup'[k] = Stop(sup[k]) BY DEF StopBoth
<1>2. \A k \in Kinds : Follows(sup[k], sup'[k]) /\ Quiet(sup'[k]) BY <1>1, KeyStopLemma
<1>3. \A k \in Kinds : Stop(sup[k]) \in Supervised BY <1>1, <1>2 DEF Follows, KeyOK
<1> QED BY <1>2, <1>3 DEF StopBoth

\* What the other variables are of.
RestTyped ==
  /\ setup \in Setups /\ poll \in Polls /\ op \in [kind : OpKinds, at : OpSteps]
  /\ on \in BOOLEAN /\ enabled \in BOOLEAN /\ intent \in BOOLEAN /\ seen \in BOOLEAN
  /\ busyPort \in BOOLEAN /\ crashes \in 0..MaxCrashes

\* The supervisors move and nothing else of what the invariant is about does.
LEMMA FollowStep ==
  ASSUME ProvInv, RestTyped', sup' \in [Kinds -> Supervised],
         \A k \in Kinds : Follows(sup[k], sup'[k]), UNCHANGED <<setup, on, poll, op>>
  PROVE  ProvInv'
<1>1. ProvTyped' BY DEF ProvTyped, RestTyped
<1>2. \A k \in Kinds : KeyOK(sup'[k]) /\ sup'[k].orphans \subseteq sup[k].orphans BY DEF Follows
<1>3. QuietBoth => QuietBoth' BY DEF QuietBoth, Follows
<1>4. QuietBoth /\ (\A k \in Kinds : sup[k].children = {}) => \A k \in Kinds : sup'[k].children = {}
  BY DEF QuietBoth, Follows
<1>5. QuietBoth /\ BothSettled => BothSettled' BY DEF QuietBoth, Follows, BothSettled, Settled
<1> QED BY <1>1, <1>2, <1>3, <1>4, <1>5, KindsLemma DEF ProvInv, Idle, NoOp

\* A lifecycle operation moves: what runs may grow only while the phone is in the map and the
\* server is not at the end of its shutdown.
LEMMA OperationStep ==
  ASSUME ProvInv, RestTyped', sup' \in [Kinds -> Supervised],
         \A k \in Kinds : KeyOK(sup'[k]) /\ sup'[k].orphans \subseteq sup[k].orphans,
         UNCHANGED <<setup, on, poll>>,
         \/ \A k \in Kinds : Follows(sup[k], sup'[k])
         \/ on /\ setup \notin {"second", "down"},
         setup \in {"second", "down"} => op' = op,
         op'.kind # "detach",
         ~on => op'.kind \in {"none", "stop"},
         op'.kind \in {"start", "retry", "restart"} /\ op'.at # "check" => sup'["wda"].orphans = {}
  PROVE  ProvInv'
<1>1. ProvTyped' BY DEF ProvTyped, RestTyped
<1>2. (\A k \in Kinds : Follows(sup[k], sup'[k])) =>
        /\ QuietBoth => QuietBoth'
        /\ QuietBoth /\ (\A k \in Kinds : sup[k].children = {}) => \A k \in Kinds : sup'[k].children = {}
        /\ QuietBoth /\ BothSettled => BothSettled'
  BY DEF QuietBoth, Follows, BothSettled, Settled
<1> QED BY <1>1, <1>2, KindsLemma DEF ProvInv, Idle, NoOp

\* The variables a step leaves alone keep their types.
LEMMA TypesLemma == ProvInv => RestTyped /\ ProvTyped /\ \A k \in Kinds : KeyOK(sup[k])
BY DEF ProvInv, ProvTyped, RestTyped

\* A child exits.
LEMMA ChildExitsLemma ==
  ASSUME ProvInv, NEW k \in Kinds, NEW p, ChildExits(k, p)
  PROVE  ProvInv'
<1>1. RestTyped' BY TypesLemma DEF ChildExits, RestTyped
<1>2. PICK r \in Exited(sup[k], p) :
        \/ sup' = [sup EXCEPT ![k] = r]
        \/ k = "wda" /\ sup' = [wda |-> Stop(r), iproxy |-> Stop(sup["iproxy"])]
  BY DEF ChildExits
<1>3. Follows(sup[k], r) /\ KeyOK(r) BY <1>2, TypesLemma, ExitLemma DEF ChildExits, Follows
<1>4. UNCHANGED <<setup, on, poll, op>> BY DEF ChildExits
<1>5. CASE sup' = [sup EXCEPT ![k] = r]
  <2>1. sup' \in [Kinds -> Supervised] /\ \A j \in Kinds : Follows(sup[j], sup'[j])
    BY <1>3, <1>5, TypesLemma, OneLemma, SelfLemma
  <2> QED BY <1>1, <1>4, <2>1, FollowStep
<1>6. CASE k = "wda" /\ sup' = [wda |-> Stop(r), iproxy |-> Stop(sup["iproxy"])]
  <2>1. Follows(r, Stop(r)) BY <1>3, KeyStopLemma
  <2>2. Follows(sup["wda"], Stop(r)) BY <1>3, <1>6, <2>1, FollowsLemma
  <2>3. Follows(sup["iproxy"], Stop(sup["iproxy"])) BY TypesLemma, KeyStopLemma, KindsLemma
  <2>4. KeyOK(Stop(r)) /\ KeyOK(Stop(sup["iproxy"])) BY <2>2, <2>3 DEF Follows
  <2>5. sup' \in [Kinds -> Supervised] /\ sup'["wda"] = Stop(r) /\ sup'["iproxy"] = Stop(sup["iproxy"])
    BY <1>6, <2>4, SupLemma
  <2>6. \A j \in Kinds : Follows(sup[j], sup'[j]) BY <2>2, <2>3, <2>5, KindsLemma
  <2> QED BY <1>1, <1>4, <2>5, <2>6, FollowStep
<1> QED BY <1>2, <1>5, <1>6

\* Nothing but one supervisor moves, and it follows itself.
LEMMA OneFollows ==
  ASSUME ProvInv, NEW k \in Kinds, NEW r, Follows(sup[k], r), sup' = [sup EXCEPT ![k] = r],
         UNCHANGED supOnly
  PROVE  ProvInv'
<1>1. RestTyped' /\ UNCHANGED <<setup, on, poll, op>> BY TypesLemma DEF supOnly, RestTyped
<1>2. KeyOK(r) BY DEF Follows
<1>3. sup' \in [Kinds -> Supervised] /\ \A j \in Kinds : Follows(sup[j], sup'[j])
  BY <1>2, TypesLemma, OneLemma, SelfLemma
<1> QED BY <1>1, <1>3, FollowStep

\* A restart of what was to be restarted.
LEMMA RestartedLemma ==
  ASSUME NEW s, KeyOK(s), s.state = "restarting", NEW r \in SpawnNow(s)
  PROVE  Follows(s, r)
<1>1. /\ s \in Supervised /\ IsRunning(s) /\ ~Quiet(s) /\ s.child = NoPid /\ s.stopping = NoPid
      /\ ~s.blocked /\ ~s.waiting /\ s.orphans = {}
  BY DEF KeyOK, Consistent, Quiet, IsRunning
<1>2. ~s.forced /\ s.children = {} BY <1>1, NoPidLemma DEF KeyOK, Consistent, Supervised
<1>3. KeyOK(r) /\ r.orphans = {} BY <1>1, <1>2, SpawnLemma
<1> QED BY <1>1, <1>3 DEF Follows

\* The process table and the supervisors' timers.
LEMMA ProcessStepLemma ==
  ASSUME ProvInv, SlowLookups = FALSE, ProcessStep
  PROVE  ProvInv'
<1> SUFFICES ASSUME NEW k \in Kinds,
                    \/ \E p \in Pids : ChildExits(k, p) \/ OrphanExits(k, p)
                    \/ Restarted(k) \/ RecordSettles(k) \/ GraceEnds(k) \/ KillWaitEnds(k)
             PROVE  ProvInv'
  BY DEF ProcessStep
<1>1. KeyOK(sup[k]) /\ ProvTyped BY TypesLemma
<1>2. ASSUME NEW p \in Pids, ChildExits(k, p) PROVE ProvInv' BY <1>2, ChildExitsLemma
<1>3. ASSUME NEW p \in Pids, OrphanExits(k, p) PROVE ProvInv'
  <2> DEFINE r == [sup[k] EXCEPT !.orphans = sup[k].orphans \ {p}]
  <2>1. sup' = [sup EXCEPT ![k] = r] BY <1>1, <1>3 DEF OrphanExits, ProvTyped
  <2>2. sup[k].orphans \ {p} \in SUBSET sup[k].orphans OBVIOUS
  <2>3. Follows(sup[k], r) BY <1>1, <2>2, OrphansLemma
  <2>4. UNCHANGED supOnly BY <1>3 DEF OrphanExits
  <2> HIDE DEF r
  <2> QED BY <2>1, <2>3, <2>4, OneFollows
<1>4. CASE Restarted(k)
  <2>1. PICK r \in SpawnNow(sup[k]) : sup' = [sup EXCEPT ![k] = r] BY <1>4 DEF Restarted
  <2>2. Follows(sup[k], r) /\ UNCHANGED supOnly BY <1>1, <1>4, RestartedLemma DEF Restarted
  <2> QED BY <2>1, <2>2, OneFollows
<1>5. CASE RecordSettles(k)
  <2>1. PICK r \in Recorded(sup[k]) : sup' = [sup EXCEPT ![k] = r] BY <1>5 DEF RecordSettles
  <2>2. Follows(sup[k], r) /\ UNCHANGED supOnly BY <1>1, <1>5, RecordLemma DEF RecordSettles
  <2> QED BY <2>1, <2>2, OneFollows
<1>6. CASE GraceEnds(k)
  <2>1. sup' = [sup EXCEPT ![k] = ForceKill(sup[k])] BY <1>1, <1>6 DEF GraceEnds, ProvTyped
  <2>2. Follows(sup[k], ForceKill(sup[k])) /\ UNCHANGED supOnly BY <1>1, <1>6, TimersLemma DEF GraceEnds
  <2> QED BY <2>1, <2>2, OneFollows
<1>7. CASE KillWaitEnds(k)
  <2>1. PICK r \in GiveUp(sup[k]) : sup' = [sup EXCEPT ![k] = r] BY <1>7 DEF KillWaitEnds
  <2>2. Follows(sup[k], r) /\ UNCHANGED supOnly BY <1>1, <1>7, TimersLemma DEF KillWaitEnds
  <2> QED BY <2>1, <2>2, OneFollows
<1> QED BY <1>2, <1>3, <1>4, <1>5, <1>6, <1>7

\* Where nothing foreign runs on the phone, nothing of an earlier server does either.
LEMMA NoForeignLemma ==
  ASSUME ProvInv, NoForeignWda
  PROVE  sup["wda"].orphans = {}
BY TypesLemma, KindsLemma DEF NoForeignWda, KeyOK, Quiet, IsRunning, Alive

\* A tunnel that is adopted runs.
LEMMA AdoptsLemma ==
  ASSUME ProvInv, Adopts
  PROVE  sup["iproxy"].orphans = {}
BY TypesLemma, KindsLemma DEF Adopts, KeyOK, Quiet, IsRunning

\* The tunnel a start finds, adopted or with its port freed.
LEMMA PortOrAdoptedLemma ==
  ASSUME ProvInv, NEW t \in IF Adopts THEN {sup["iproxy"]} ELSE PortFreed
  PROVE  Follows(sup["iproxy"], t) /\ KeyOK(t) /\ t.orphans = {}
<1>1. KeyOK(sup["iproxy"]) BY TypesLemma, KindsLemma
<1>2. CASE Adopts BY <1>1, <1>2, AdoptsLemma, SelfLemma
<1>3. CASE ~Adopts
  <2>1. Follows(sup["iproxy"], t) /\ t.orphans = {} BY <1>1, <1>3, PortLemma
  <2> QED BY <2>1 DEF Follows
<1> QED BY <1>2, <1>3

\* Both starts.
LEMMA StartPairLemma ==
  ASSUME NEW w, NEW t, NEW adopt \in BOOLEAN, KeyOK(w), w.orphans = {}, KeyOK(t), t.orphans = {},
         NEW r \in StartPair(w, t, adopt)
  PROVE  KeyOK(r[1]) /\ r[1].orphans = {} /\ KeyOK(r[2]) /\ r[2].orphans = {}
<1>1. PICK w1 \in Start(w), t1 \in Start(t) \cup {t} : r[1] = w1 /\ r[2] = t1
  <2>1. CASE ~StartOk(w)
    <3>1. StartPair(w, t, adopt) = {<<w1, t, FALSE>> : w1 \in Start(w)} BY <2>1 DEF StartPair
    <3>2. PICK w1 \in Start(w) : r = <<w1, t, FALSE>> BY <3>1
    <3> QED BY <3>2
  <2>2. CASE StartOk(w) /\ adopt
    <3>1. StartPair(w, t, adopt) = {<<w1, t, TRUE>> : w1 \in Start(w)} BY <2>2 DEF StartPair
    <3>2. PICK w1 \in Start(w) : r = <<w1, t, TRUE>> BY <3>1
    <3> QED BY <3>2
  <2>3. CASE StartOk(w) /\ ~adopt
    <3>1. PICK w1 \in Start(w), t1 \in Start(t) : r = <<w1, t1, StartOk(t)>> BY <2>3 DEF StartPair
    <3> QED BY <3>1
  <2> QED BY <2>1, <2>2, <2>3
<1>2. KeyOK(w1) /\ w1.orphans = {} BY KeyStartLemma
<1>3. KeyOK(t1) /\ t1.orphans = {} BY KeyStartLemma
<1> QED BY <1>1, <1>2, <1>3

\* A restart of one supervisor.
LEMMA StopStartLemma ==
  ASSUME NEW s, KeyOK(s), s.orphans = {}, NEW r \in Start(Stop(s))
  PROVE  KeyOK(r) /\ r.orphans = {}
<1>1. KeyOK(Stop(s)) /\ Stop(s).orphans = {} BY KeyStopLemma DEF Follows
<1> QED BY <1>1, KeyStartLemma

\* The sweep of the earlier connections.
LEMMA CheckLemma ==
  ASSUME ProvInv, Check
  PROVE  ProvInv'
<1>1. /\ setup \in {"checking", "paused"} /\ ~on /\ poll = "idle" /\ QuietBoth
      /\ \A k \in Kinds : KeyOK(sup[k]) /\ sup[k].children = {}
  BY DEF Check, ProvInv
<1>2. /\ sup' \in [Kinds -> Supervised]
      /\ \A k \in Kinds : Follows(sup[k], sup'[k]) /\ sup'[k].children = {}
  <2>1. CASE \E w \in Swept(sup["wda"]), t \in Swept(sup["iproxy"]) :
               sup' = [wda |-> w[1], iproxy |-> t[1]]
    <3>1. PICK w \in Swept(sup["wda"]), t \in Swept(sup["iproxy"]) :
                 sup' = [wda |-> w[1], iproxy |-> t[1]]
      BY <2>1
    <3>2. Follows(sup["wda"], w[1]) /\ w[1].children = {} BY <1>1, SweptLemma, KindsLemma
    <3>3. Follows(sup["iproxy"], t[1]) /\ t[1].children = {} BY <1>1, SweptLemma, KindsLemma
    <3>4. KeyOK(w[1]) /\ KeyOK(t[1]) BY <3>2, <3>3 DEF Follows
    <3>5. sup' \in [Kinds -> Supervised] /\ sup'["wda"] = w[1] /\ sup'["iproxy"] = t[1]
      BY <3>1, <3>4, SupLemma
    <3> QED BY <3>2, <3>3, <3>5, KindsLemma
  <2>2. CASE UNCHANGED sup BY <1>1, <2>2, TypesLemma, SelfLemma DEF ProvTyped
  <2> QED BY <2>1, <2>2 DEF Check
<1>3. setup' \in {"running", "paused"} /\ UNCHANGED <<on, enabled, intent, seen, poll, op, busyPort, crashes>>
  BY DEF Check
<1>4. ProvTyped' BY <1>2, <1>3, TypesLemma DEF ProvTyped, Setups
<1>5. \A k \in Kinds : KeyOK(sup'[k]) /\ sup'[k].orphans \subseteq sup[k].orphans BY <1>2 DEF Follows
<1>6. QuietBoth' BY <1>1, <1>2 DEF QuietBoth, Follows
<1> QED BY <1>1, <1>2, <1>3, <1>4, <1>5, <1>6, KindsLemma DEF ProvInv

\* A step of the poll that leaves a phone in the map and no detach under way.
LEMMA PollLemma ==
  ASSUME ProvInv, RestTyped', sup' \in [Kinds -> Supervised],
         \A k \in Kinds : KeyOK(sup'[k]) /\ sup'[k].orphans \subseteq sup[k].orphans,
         UNCHANGED <<setup, op>>, on', poll # "detach",
         setup \notin {"checking", "paused", "second", "down"},
         poll' = "probe" => sup'["wda"].orphans = {},
         poll' = "check" => sup'["iproxy"].orphans = {}
  PROVE  ProvInv'
<1>1. ProvTyped' BY DEF ProvTyped, RestTyped
<1> QED BY <1>1, KindsLemma DEF ProvInv

\* The probes of an attach are over.
LEMMA AttachProbedLemma ==
  ASSUME ProvInv, AttachProbed
  PROVE  ProvInv'
<1>1. RestTyped' BY TypesLemma DEF AttachProbed, RestTyped, pollOnly, Polls
<1>2. UNCHANGED <<setup, op>> /\ poll = "attach" BY DEF AttachProbed, pollOnly
<1>3. setup \notin {"checking", "paused", "second", "down"} \/ ShuttingDown BY <1>2 DEF ProvInv
<1>4. CASE poll' = "idle" /\ UNCHANGED <<sup, on>>
  <2>1. ProvTyped' BY <1>1, <1>4, TypesLemma DEF ProvTyped, RestTyped
  <2> QED BY <1>2, <1>4, <2>1 DEF ProvInv, QuietBoth, BothSettled, Settled, Idle
<1>5. CASE /\ ~ShuttingDown /\ on' = TRUE
           /\ \E t \in (IF Adopts THEN {sup["iproxy"]} ELSE PortFreed) :
                sup' = [sup EXCEPT !["iproxy"] = t]
           /\ poll' = IF seen THEN "check" ELSE "idle"
  <2>1. PICK t \in (IF Adopts THEN {sup["iproxy"]} ELSE PortFreed) :
                sup' = [sup EXCEPT !["iproxy"] = t]
    BY <1>5
  <2>2. Follows(sup["iproxy"], t) /\ KeyOK(t) /\ t.orphans = {} BY PortOrAdoptedLemma
  <2>3. /\ sup' \in [Kinds -> Supervised] /\ sup'["iproxy"] = t
        /\ \A j \in Kinds \ {"iproxy"} : sup'[j] = sup[j]
    BY <2>1, <2>2, TypesLemma, KindsLemma, OneLemma
  <2>4. \A k \in Kinds : KeyOK(sup'[k]) /\ sup'[k].orphans \subseteq sup[k].orphans
    BY <2>2, <2>3, TypesLemma
  <2> QED BY <1>1, <1>2, <1>3, <1>5, <2>2, <2>3, <2>4, PollLemma
<1>6. CASE ~ShuttingDown /\ on' = TRUE /\ poll' = "idle" /\ UNCHANGED sup
  BY <1>1, <1>2, <1>3, <1>6, TypesLemma, PollLemma DEF ProvTyped
<1> QED BY <1>4, <1>5, <1>6 DEF AttachProbed

\* Both processes are started, or stopped again.
LEMMA AttachStartsLemma ==
  ASSUME ProvInv, AttachStarts
  PROVE  ProvInv'
<1>1. RestTyped' BY TypesLemma DEF AttachStarts, RestTyped, pollOnly, Polls
<1>2. /\ UNCHANGED <<setup, op, on>> /\ poll = "check" /\ on /\ poll' \in {"idle", "undo"}
      /\ setup \notin {"checking", "paused", "second", "down"} /\ sup["iproxy"].orphans = {}
  BY DEF AttachStarts, pollOnly, ProvInv
<1>3. CASE UNCHANGED sup
  BY <1>1, <1>2, <1>3, TypesLemma, PollLemma DEF ProvTyped
<1>4. CASE NoForeignWda /\ sup' # sup
  <2>1. PICK r \in StartPair(sup["wda"], sup["iproxy"], Adopts) :
          IF r[3] /\ ~ShuttingDown THEN sup' = [wda |-> r[1], iproxy |-> r[2]]
          ELSE sup' = [wda |-> Stop(r[1]),
                       iproxy |-> IF ShuttingDown THEN sup["iproxy"]
                                  ELSE IF StartOk(sup["wda"]) /\ ~Adopts THEN Stop(r[2]) ELSE r[2]]
    BY <1>4 DEF AttachStarts
  <2>2. KeyOK(sup["wda"]) /\ KeyOK(sup["iproxy"]) /\ sup["wda"].orphans = {}
    BY <1>4, TypesLemma, KindsLemma, NoForeignLemma
  <2>3. Adopts \in BOOLEAN BY DEF Adopts
  <2>4. KeyOK(r[1]) /\ r[1].orphans = {} /\ KeyOK(r[2]) /\ r[2].orphans = {}
    BY <1>2, <2>2, <2>3, StartPairLemma
  <2>5. /\ KeyOK(Stop(r[1])) /\ Stop(r[1]).orphans = {}
        /\ KeyOK(Stop(r[2])) /\ Stop(r[2]).orphans = {}
    BY <2>4, KeyStopLemma DEF Follows
  <2>6. PICK w \in {r[1], Stop(r[1])}, t \in {r[2], Stop(r[2]), sup["iproxy"]} :
          sup' = [wda |-> w, iproxy |-> t]
    BY <2>1
  <2>7. KeyOK(w) /\ KeyOK(t) /\ w.orphans = {} /\ t.orphans = {} BY <1>2, <2>2, <2>4, <2>5
  <2>8. sup' \in [Kinds -> Supervised] /\ sup'["wda"] = w /\ sup'["iproxy"] = t
    BY <2>6, <2>7, SupLemma
  <2>9. \A k \in Kinds : KeyOK(sup'[k]) /\ sup'[k].orphans \subseteq sup[k].orphans
    BY <2>7, <2>8, KindsLemma
  <2> QED BY <1>1, <1>2, <2>8, <2>9, PollLemma
<1> QED BY <1>3, <1>4 DEF AttachStarts

\* An endpoint recovery restarts one of the two.
LEMMA RecoverLemma ==
  ASSUME ProvInv, RecoverBegins \/ RecoverProbed
  PROVE  ProvInv'
<1>1. RestTyped' BY TypesLemma DEF RecoverBegins, RecoverProbed, RestTyped, pollOnly, Polls
<1>2. UNCHANGED <<setup, op, on>> /\ poll # "detach"
  BY DEF RecoverBegins, RecoverProbed, pollOnly
<1>3. on BY DEF RecoverBegins, RecoverProbed, ProvInv
<1>4. setup \notin {"checking", "paused", "second", "down"}
  BY DEF RecoverBegins, RecoverProbed, ProvInv
<1>5. poll' # "check" BY DEF RecoverBegins, RecoverProbed
<1>6. CASE UNCHANGED sup /\ RecoverBegins
  <2>1. sup["wda"].orphans = {}
    BY <1>6, TypesLemma, KindsLemma DEF RecoverBegins, KeyOK, Quiet, IsRunning
  <2> QED BY <1>1, <1>2, <1>3, <1>4, <1>5, <1>6, <2>1, TypesLemma, PollLemma DEF ProvTyped
<1>7. CASE /\ poll' # "probe"
           /\ \E k \in Kinds : \E r \in Start(Stop(sup[k])) :
                sup[k].orphans = {} /\ sup' = [sup EXCEPT ![k] = r]
  <2>1. PICK k \in Kinds : \E r \in Start(Stop(sup[k])) :
                sup[k].orphans = {} /\ sup' = [sup EXCEPT ![k] = r]
    BY <1>7
  <2>2. PICK r \in Start(Stop(sup[k])) : sup[k].orphans = {} /\ sup' = [sup EXCEPT ![k] = r]
    BY <2>1
  <2>3. KeyOK(r) /\ r.orphans = {} BY <2>2, TypesLemma, StopStartLemma
  <2>4. /\ sup' \in [Kinds -> Supervised] /\ sup'[k] = r /\ \A j \in Kinds \ {k} : sup'[j] = sup[j]
    BY <2>2, <2>3, TypesLemma, OneLemma
  <2>5. \A j \in Kinds : KeyOK(sup'[j]) /\ sup'[j].orphans \subseteq sup[j].orphans
    BY <2>3, <2>4, TypesLemma
  <2> QED BY <1>1, <1>2, <1>3, <1>4, <1>5, <1>7, <2>4, <2>5, PollLemma
<1>8. CASE RecoverProbed
  <2>1. PICK k \in IF Alive(sup["iproxy"]) # {} THEN {"wda"}
              ELSE IF "port" \in Foreigners THEN Kinds ELSE {"iproxy"} :
          \E r \in Start(Stop(sup[k])) : sup' = [sup EXCEPT ![k] = r]
    BY <1>8 DEF RecoverProbed
  <2>2. k \in Kinds BY KindsLemma
  <2>3. sup["wda"].orphans = {} BY <1>8 DEF RecoverProbed, ProvInv
  <2>4. k = "iproxy" => sup[k].orphans = {} BY DEF Alive
  <2>5. sup[k].orphans = {} BY <2>2, <2>3, <2>4, KindsLemma
  <2>6. poll' # "probe" BY <1>8 DEF RecoverProbed
  <2> QED BY <1>7, <2>1, <2>2, <2>5, <2>6
<1>9. CASE RecoverBegins /\ sup' # sup
  <2>1. sup["wda"].orphans = {}
    BY <1>9, TypesLemma, KindsLemma DEF RecoverBegins, KeyOK, Quiet, IsRunning
  <2>2. poll' # "probe" BY <1>9 DEF RecoverBegins
  <2>3. \E r \in Start(Stop(sup["wda"])) : sup' = [sup EXCEPT !["wda"] = r]
    BY <1>9 DEF RecoverBegins
  <2> QED BY <1>7, <2>1, <2>2, <2>3, KindsLemma
<1> QED BY <1>6, <1>8, <1>9

\* The poll.
LEMMA PollStepLemma ==
  ASSUME ProvInv, PollStep
  PROVE  ProvInv'
<1>1. CASE AttachBegins \/ AttachUndone \/ DetachAsked
  <2>1. ProvTyped'
    BY <1>1, TypesLemma DEF AttachBegins, AttachUndone, DetachAsked, ProvTyped, pollOnly, Polls
  <2>2. UNCHANGED <<sup, setup, op, on>> /\ poll' \in {"idle", "attach", "detach"}
    BY <1>1 DEF AttachBegins, AttachUndone, DetachAsked, pollOnly
  <2>3. poll' = "detach" => on BY <1>1 DEF AttachBegins, AttachUndone, DetachAsked
  <2>4. setup \in {"checking", "paused", "second", "down"} => poll' = "idle"
    BY <1>1 DEF AttachBegins, AttachUndone, DetachAsked, ProvInv
  <2>5. poll # "detach" BY <1>1 DEF AttachBegins, AttachUndone, DetachAsked
  <2> QED BY <2>1, <2>2, <2>3, <2>4, <2>5 DEF ProvInv, QuietBoth, BothSettled, Settled, Idle
<1>2. CASE DetachBegins
  <2>1. sup' = StopBoth /\ op' = At("detach", "stops") /\ UNCHANGED <<setup, on, poll>> /\ poll = "detach"
    BY <1>2 DEF DetachBegins
  <2>2. /\ sup' \in [Kinds -> Supervised] /\ \A k \in Kinds : Follows(sup[k], sup'[k])
        /\ \A k \in Kinds : Quiet(sup'[k])
    BY <2>1, TypesLemma, StopBothLemma
  <2>3. ProvTyped' BY <1>2, <2>2, TypesLemma DEF DetachBegins, ProvTyped, At, OpKinds, OpSteps
  <2>4. \A k \in Kinds : KeyOK(sup'[k]) BY <2>2 DEF Follows
  <2> QED BY <2>1, <2>2, <2>3, <2>4 DEF ProvInv, QuietBoth, At
<1> QED BY <1>1, <1>2, AttachProbedLemma, AttachStartsLemma, RecoverLemma DEF PollStep

----------------------------------------------------------------------------
(* The lifecycle operations                                                *)

\* The type of an operation.
LEMMA OpsLemma ==
  /\ NoOp \in [kind : OpKinds, at : OpSteps] /\ NoOp.kind = "none" /\ NoOp.at = "none"
  /\ \A k \in OpKinds, n \in OpSteps :
       At(k, n) \in [kind : OpKinds, at : OpSteps] /\ At(k, n).kind = k /\ At(k, n).at = n
BY DEF NoOp, At, OpKinds, OpSteps

\* The switches of the phone.
BitsTyped == enabled \in BOOLEAN /\ intent \in BOOLEAN /\ busyPort \in BOOLEAN

\* An operation moves the switches and itself.
LEMMA RestLemma ==
  ASSUME RestTyped, BitsTyped', op' \in [kind : OpKinds, at : OpSteps],
         UNCHANGED <<setup, on, seen, poll, crashes>>
  PROVE  RestTyped'
BY DEF RestTyped, BitsTyped

\* What an operation under way says of the phone.
LEMMA OpUnderWayLemma ==
  ASSUME ProvInv, op.at # "none", op \in [kind : OpKinds, at : OpSteps]
  PROVE  /\ setup \notin {"second", "down"}
         /\ op.kind \notin {"none", "stop"} => on
BY DEF ProvInv, Idle, NoOp

\* An operation begins without touching a process, or with stops.
LEMMA OpBeginsLemma ==
  ASSUME ProvInv, OpBegins
  PROVE  ProvInv'
<1>1. UNCHANGED <<setup, on, seen, poll, crashes>>
  BY DEF OpBegins, StartBegins, RestartBegins, RetryBegins, TunnelBegins, StopBegins, StopDetached,
         StopAgain, opOnly
<1>2. setup \notin {"second", "down"}
  BY DEF OpBegins, StartBegins, RestartBegins, RetryBegins, TunnelBegins, StopBegins, StopDetached,
         StopAgain, Begins, ShuttingDown
<1>3. op = NoOp
  BY DEF OpBegins, StartBegins, RestartBegins, RetryBegins, TunnelBegins, StopBegins, StopDetached,
         StopAgain, Begins, Idle
<1>4. /\ op' \in {NoOp, At("start", "check"), At("restart", "check"), At("retry", "check"),
                  At("tunnel", "stops"), At("stop", "stops"), At("stop", "clear")}
      /\ ~on => op' \in {NoOp, At("stop", "stops")}
  BY <1>3 DEF OpBegins, StartBegins, RestartBegins, RetryBegins, TunnelBegins, StopBegins, StopDetached,
         StopAgain
<1>5. BitsTyped'
  BY TypesLemma DEF RestTyped, BitsTyped, OpBegins, StartBegins, RestartBegins, RetryBegins, TunnelBegins, StopBegins, StopDetached,
         StopAgain, Saved, SaveFails
<1>6. RestTyped'
  <2>1. op' \in [kind : OpKinds, at : OpSteps] BY <1>4, OpsLemma DEF OpKinds, OpSteps
  <2> QED BY <1>1, <1>5, <2>1, TypesLemma, RestLemma
<1>7. \/ UNCHANGED sup \/ sup' = StopBoth \/ sup' = [sup EXCEPT !["iproxy"] = Stop(sup["iproxy"])]
  BY DEF OpBegins, StartBegins, RestartBegins, RetryBegins, TunnelBegins, StopBegins, StopDetached,
         StopAgain
<1>8. sup' \in [Kinds -> Supervised] /\ \A k \in Kinds : Follows(sup[k], sup'[k])
  <2>1. CASE UNCHANGED sup BY <2>1, TypesLemma, SelfLemma DEF ProvTyped
  <2>2. CASE sup' = StopBoth BY <2>2, TypesLemma, StopBothLemma
  <2>3. CASE sup' = [sup EXCEPT !["iproxy"] = Stop(sup["iproxy"])]
    <3>1. Follows(sup["iproxy"], Stop(sup["iproxy"])) /\ KeyOK(Stop(sup["iproxy"]))
      BY TypesLemma, KindsLemma, KeyStopLemma DEF Follows
    <3> QED BY <2>3, <3>1, TypesLemma, KindsLemma, OneLemma, SelfLemma
  <2> QED BY <1>7, <2>1, <2>2, <2>3
<1>9. \A k \in Kinds : KeyOK(sup'[k]) /\ sup'[k].orphans \subseteq sup[k].orphans BY <1>8 DEF Follows
<1>10. op'.kind # "detach" /\ (~on => op'.kind \in {"none", "stop"}) BY <1>4 DEF NoOp, At
<1>11. ~(op'.kind \in {"start", "retry", "restart"} /\ op'.at # "check") BY <1>4 DEF NoOp, At
<1> QED BY <1>1, <1>2, <1>6, <1>8, <1>9, <1>10, <1>11, OperationStep

\* An operation goes on, or is over, with stops at most.
LEMMA OpGoesOnLemma ==
  ASSUME ProvInv, op.at # "none", RestTyped', sup' \in [Kinds -> Supervised],
         \A k \in Kinds : Follows(sup[k], sup'[k]), UNCHANGED <<setup, on, poll>>,
         op.kind # "detach",
         op' = NoOp \/ op'.kind = op.kind,
         op'.kind \in {"start", "retry", "restart"} /\ op'.at # "check" => sup["wda"].orphans = {}
  PROVE  ProvInv'
<1>1. setup \notin {"second", "down"} BY OpUnderWayLemma, TypesLemma DEF RestTyped
<1>2. ~on => op.kind \in {"none", "stop"} BY DEF ProvInv
<1>3. op'.kind # "detach" /\ (~on => op'.kind \in {"none", "stop"}) BY <1>2 DEF NoOp
<1>4. \A k \in Kinds : KeyOK(sup'[k]) /\ sup'[k].orphans \subseteq sup[k].orphans BY DEF Follows
<1>5. op'.kind \in {"start", "retry", "restart"} /\ op'.at # "check" => sup'["wda"].orphans = {}
  BY <1>4, KindsLemma
<1> QED BY <1>1, <1>3, <1>4, <1>5, OperationStep

\* One of the two is stopped, or neither.
LEMMA OneStopLemma ==
  ASSUME ProvInv, NEW w \in {sup["wda"], Stop(sup["wda"])},
         NEW t \in {sup["iproxy"], Stop(sup["iproxy"])}, sup' = [wda |-> w, iproxy |-> t]
  PROVE  sup' \in [Kinds -> Supervised] /\ \A k \in Kinds : Follows(sup[k], sup'[k])
<1>1. Follows(sup["wda"], w) /\ Follows(sup["iproxy"], t)
  BY TypesLemma, KindsLemma, KeyStopLemma, SelfLemma
<1>2. KeyOK(w) /\ KeyOK(t) BY <1>1 DEF Follows
<1>3. sup' \in [Kinds -> Supervised] /\ sup'["wda"] = w /\ sup'["iproxy"] = t BY <1>2, SupLemma
<1> QED BY <1>1, <1>3, KindsLemma

\* The tunnel alone is stopped.
LEMMA TunnelStopLemma ==
  ASSUME ProvInv, sup' = [sup EXCEPT !["iproxy"] = Stop(sup["iproxy"])]
  PROVE  sup' \in [Kinds -> Supervised] /\ \A k \in Kinds : Follows(sup[k], sup'[k])
<1>1. Follows(sup["iproxy"], Stop(sup["iproxy"])) /\ KeyOK(Stop(sup["iproxy"]))
  BY TypesLemma, KindsLemma, KeyStopLemma DEF Follows
<1> QED BY <1>1, TypesLemma, KindsLemma, OneLemma, SelfLemma

\* Nothing is stopped.
LEMMA StillLemma ==
  ASSUME ProvInv, UNCHANGED sup
  PROVE  sup' \in [Kinds -> Supervised] /\ \A k \in Kinds : Follows(sup[k], sup'[k])
BY TypesLemma, SelfLemma DEF ProvTyped

\* A port recovery has its turn.
LEMMA PortRecoveryLemma ==
  ASSUME ProvInv, PortRecoveryBegins
  PROVE  ProvInv'
<1>1. UNCHANGED <<setup, on, seen, poll, crashes, enabled, intent>> /\ busyPort' = FALSE /\ op = NoOp
  BY DEF PortRecoveryBegins, opOnly, Idle
<1>2. CASE UNCHANGED <<sup, op>>
  <2>1. RestTyped' BY <1>1, <1>2, TypesLemma DEF RestTyped
  <2> QED BY <1>1, <1>2, <2>1, StillLemma, FollowStep
<1>3. CASE /\ on /\ ~ShuttingDown /\ op' = At("recover", "stops")
           /\ sup' = [sup EXCEPT !["iproxy"] = Stop(sup["iproxy"])]
  <2>1. RestTyped' BY <1>1, <1>3, TypesLemma, OpsLemma DEF RestTyped, OpKinds, OpSteps
  <2>2. sup' \in [Kinds -> Supervised] /\ \A k \in Kinds : Follows(sup[k], sup'[k])
    BY <1>3, TunnelStopLemma
  <2>3. \A k \in Kinds : KeyOK(sup'[k]) /\ sup'[k].orphans \subseteq sup[k].orphans BY <2>2 DEF Follows
  <2>4. op'.kind = "recover" BY <1>3 DEF At
  <2> QED BY <1>1, <1>3, <2>1, <2>2, <2>3, <2>4, OperationStep DEF ShuttingDown
<1> QED BY <1>2, <1>3 DEF PortRecoveryBegins

\* The look for another xcodebuild is over.
LEMMA CheckedLemma ==
  ASSUME ProvInv, Checked
  PROVE  ProvInv'
<1>1. UNCHANGED <<setup, on, seen, poll, crashes, enabled, intent, busyPort>> /\ op.at = "check"
  BY DEF Checked, opOnly
<1>2. op.kind # "detach" /\ op.at # "none" BY <1>1 DEF ProvInv
<1>3. op' \in {NoOp, At("retry", "stops"), At(op.kind, "clear")} /\ (op' = NoOp \/ op'.kind = op.kind)
  BY DEF Checked, At
<1>4. RestTyped' BY <1>1, <1>3, TypesLemma, OpsLemma DEF RestTyped, OpKinds, OpSteps
<1>5. op' # NoOp => sup["wda"].orphans = {} BY NoForeignLemma DEF Checked
<1>6. op'.kind \in {"start", "retry", "restart"} => sup["wda"].orphans = {} BY <1>5 DEF NoOp
<1>7. sup' \in [Kinds -> Supervised] /\ \A k \in Kinds : Follows(sup[k], sup'[k])
  <2>1. CASE UNCHANGED sup BY <2>1, StillLemma
  <2>2. CASE sup' = [wda |-> Stop(sup["wda"]),
                     iproxy |-> IF Adopts THEN sup["iproxy"] ELSE Stop(sup["iproxy"])]
    BY <2>2, OneStopLemma
  <2> QED BY <2>1, <2>2 DEF Checked
<1> QED BY <1>1, <1>2, <1>3, <1>4, <1>6, <1>7, OpGoesOnLemma

\* The blocked stops have been looked at.
LEMMA ClearEndsLemma ==
  ASSUME ProvInv, ClearEnds
  PROVE  ProvInv'
<1>1. UNCHANGED <<setup, on, seen, poll, crashes, enabled, busyPort>> /\ op.at = "clear"
  BY DEF ClearEnds, opOnly
<1>2. op.kind # "detach" /\ op.at # "none" BY <1>1 DEF ProvInv
<1>3. /\ op' \in {NoOp, At("start", "ports"), At("restart", "stops")}
      /\ op' = NoOp \/ op'.kind = op.kind
  <2>1. \/ op.kind = "start" /\ op' = At("start", "ports")
        \/ op' = NoOp
        \/ op.kind = "restart" /\ op' = At("restart", "stops")
    BY DEF ClearEnds
  <2> QED BY <2>1 DEF At
<1>4. RestTyped'
  <2>1. intent' \in BOOLEAN BY TypesLemma DEF ClearEnds, RestTyped, Saved, SaveFails
  <2>2. BitsTyped' BY <1>1, <2>1, TypesLemma DEF RestTyped, BitsTyped
  <2>3. op' \in [kind : OpKinds, at : OpSteps] BY <1>3, OpsLemma DEF OpKinds, OpSteps
  <2> QED BY <1>1, <2>2, <2>3, TypesLemma, RestLemma
<1>5. op'.kind \in {"start", "retry", "restart"} => sup["wda"].orphans = {}
  BY <1>1, <1>3 DEF ProvInv, NoOp
<1>6. sup' \in [Kinds -> Supervised] /\ \A k \in Kinds : Follows(sup[k], sup'[k])
  <2>1. CASE UNCHANGED sup BY <2>1, StillLemma
  <2>2. CASE \E w \in Cleared(sup["wda"]), t \in Cleared(sup["iproxy"]) :
               \/ sup' = [wda |-> w, iproxy |-> t]
               \/ sup' = [k \in Kinds |-> Stop([wda |-> w, iproxy |-> t][k])]
    <3>1. PICK w \in Cleared(sup["wda"]), t \in Cleared(sup["iproxy"]) :
               \/ sup' = [wda |-> w, iproxy |-> t]
               \/ sup' = [k \in Kinds |-> Stop([wda |-> w, iproxy |-> t][k])]
      BY <2>2
    <3>2. Follows(sup["wda"], w) /\ Follows(sup["iproxy"], t) BY TypesLemma, KindsLemma, ClearedLemma
    <3>3. KeyOK(w) /\ KeyOK(t) BY <3>2 DEF Follows
    <3>4. Follows(w, Stop(w)) /\ Follows(t, Stop(t)) BY <3>3, KeyStopLemma
    <3>5. /\ Follows(sup["wda"], Stop(w)) /\ Follows(sup["iproxy"], Stop(t))
          /\ KeyOK(Stop(w)) /\ KeyOK(Stop(t))
      BY <3>2, <3>4, FollowsLemma DEF Follows
    <3>6. CASE sup' = [wda |-> w, iproxy |-> t]
      <4>1. sup' \in [Kinds -> Supervised] /\ sup'["wda"] = w /\ sup'["iproxy"] = t
        BY <3>3, <3>6, SupLemma
      <4> QED BY <3>2, <4>1, KindsLemma
    <3>7. CASE sup' = [k \in Kinds |-> Stop([wda |-> w, iproxy |-> t][k])]
      <4>1. sup'["wda"] = Stop(w) /\ sup'["iproxy"] = Stop(t) BY <3>7, KindsLemma
      <4>2. \A k \in Kinds : Follows(sup[k], sup'[k]) /\ KeyOK(sup'[k]) BY <3>5, <4>1, KindsLemma
      <4>3. \A k \in Kinds : Stop([wda |-> w, iproxy |-> t][k]) \in Supervised
        BY <3>7, <4>2 DEF KeyOK
      <4> QED BY <3>7, <4>2, <4>3
    <3> QED BY <3>1, <3>6, <3>7
  <2> QED BY <2>1, <2>2 DEF ClearEnds
<1> QED BY <1>1, <1>2, <1>3, <1>4, <1>5, <1>6, OpGoesOnLemma

\* The stops are over, the ports are taken, control was waited for, or the stops after a failure
\* are over.
LEMMA StopsLemma ==
  ASSUME ProvInv, StopsEnd \/ PortsTaken \/ Verified \/ OpUndone
  PROVE  ProvInv'
<1>1. /\ UNCHANGED <<setup, on, seen, poll, crashes, busyPort>>
      /\ op.at \in {"stops", "ports", "ready", "undo"}
  BY DEF StopsEnd, PortsTaken, Verified, OpUndone, opOnly
<1>2. op.kind # "detach" /\ op.at # "none"
  BY DEF ProvInv, StopsEnd, PortsTaken, Verified, OpUndone
<1>3. op' \in {NoOp, At(op.kind, "ports"), At(op.kind, "undo")}
  BY DEF StopsEnd, PortsTaken, Verified, OpUndone
<1>4. RestTyped'
  <2>1. op.kind \in OpKinds BY TypesLemma DEF RestTyped
  <2>2. op' \in [kind : OpKinds, at : OpSteps] BY <1>3, <2>1, OpsLemma DEF OpSteps
  <2>3. enabled' \in BOOLEAN /\ intent' \in BOOLEAN
    BY TypesLemma DEF StopsEnd, PortsTaken, Verified, OpUndone, Saved, SaveFails, RestTyped
  <2>4. BitsTyped' BY <1>1, <2>3, TypesLemma DEF RestTyped, BitsTyped
  <2> QED BY <1>1, <2>2, <2>4, TypesLemma, RestLemma
<1>5. op' = NoOp \/ op'.kind = op.kind BY <1>3 DEF At
<1>6. op'.kind \in {"start", "retry", "restart"} => sup["wda"].orphans = {}
  BY <1>1, <1>5 DEF ProvInv, NoOp
<1>7. \/ UNCHANGED sup \/ sup' = StopBoth \/ sup' = [sup EXCEPT !["iproxy"] = Stop(sup["iproxy"])]
  BY DEF StopsEnd, PortsTaken, Verified, OpUndone
<1>8. sup' \in [Kinds -> Supervised] /\ \A k \in Kinds : Follows(sup[k], sup'[k])
  <2>1. CASE UNCHANGED sup BY <2>1, StillLemma
  <2>2. CASE sup' = StopBoth BY <2>2, TypesLemma, StopBothLemma
  <2>3. CASE sup' = [sup EXCEPT !["iproxy"] = Stop(sup["iproxy"])] BY <2>3, TunnelStopLemma
  <2> QED BY <1>7, <2>1, <2>2, <2>3
<1> QED BY <1>1, <1>2, <1>4, <1>5, <1>6, <1>8, OpGoesOnLemma

\* A start that has both ports.
LEMMA PortsFreeLemma ==
  ASSUME ProvInv, PortsFree
  PROVE  ProvInv'
<1>1. /\ UNCHANGED <<setup, on, seen, poll, crashes, busyPort>> /\ op.at = "ports" /\ ~ShuttingDown
      /\ op.kind \in {"start", "retry", "restart"}
  BY DEF PortsFree, opOnly
<1>2. /\ on /\ setup \notin {"second", "down"} /\ sup["wda"].orphans = {}
  BY <1>1 DEF ProvInv, ShuttingDown
<1>3. PICK t \in (IF Adopts THEN {sup["iproxy"]} ELSE PortFreed) :
       \E r \in StartPair(sup["wda"], t, Adopts) :
       \/ /\ Saved(TRUE) /\ enabled' = TRUE
          /\ IF r[3]
               THEN /\ sup' = [wda |-> r[1], iproxy |-> r[2]]
                    /\ op' = IF op.kind = "start" THEN NoOp ELSE At(op.kind, "ready")
             ELSE /\ sup' = [wda |-> Stop(r[1]), iproxy |-> Stop(r[2])]
                  /\ op' = At(op.kind, "undo")
       \/ /\ op.kind # "restart" /\ SaveFails /\ enabled' = TRUE
          /\ IF op.kind = "start"
               THEN sup' = [sup EXCEPT !["iproxy"] = t] /\ op' = NoOp
             ELSE /\ sup' = [wda |-> Stop(sup["wda"]), iproxy |-> Stop(t)]
                  /\ op' = At("retry", "undo")
  BY DEF PortsFree
<1>4. PICK r \in StartPair(sup["wda"], t, Adopts) :
        /\ op' \in {NoOp, At(op.kind, "ready"), At(op.kind, "undo")}
        /\ \/ sup' = [wda |-> r[1], iproxy |-> r[2]]
           \/ sup' = [wda |-> Stop(r[1]), iproxy |-> Stop(r[2])]
           \/ sup' = [sup EXCEPT !["iproxy"] = t]
           \/ sup' = [wda |-> Stop(sup["wda"]), iproxy |-> Stop(t)]
  BY <1>1, <1>3
<1>5. RestTyped'
  <2>1. enabled' \in BOOLEAN /\ intent' \in BOOLEAN
    BY <1>3, TypesLemma DEF Saved, SaveFails, RestTyped
  <2>2. BitsTyped' BY <1>1, <2>1, TypesLemma DEF RestTyped, BitsTyped
  <2>3. op.kind \in OpKinds BY TypesLemma DEF RestTyped
  <2>4. op' \in [kind : OpKinds, at : OpSteps] BY <1>4, <2>3, OpsLemma DEF OpSteps
  <2> QED BY <1>1, <2>2, <2>4, TypesLemma, RestLemma
<1>6. op'.kind # "detach" BY <1>1, <1>4 DEF NoOp, At
<1>7. KeyOK(sup["wda"]) /\ KeyOK(t) /\ t.orphans = {} BY TypesLemma, KindsLemma, PortOrAdoptedLemma
<1>8. Adopts \in BOOLEAN BY DEF Adopts
<1>9. KeyOK(r[1]) /\ r[1].orphans = {} /\ KeyOK(r[2]) /\ r[2].orphans = {}
  BY <1>2, <1>7, <1>8, StartPairLemma
<1>10. /\ KeyOK(Stop(r[1])) /\ Stop(r[1]).orphans = {} /\ KeyOK(Stop(r[2])) /\ Stop(r[2]).orphans = {}
       /\ KeyOK(Stop(sup["wda"])) /\ Stop(sup["wda"]).orphans = {}
       /\ KeyOK(Stop(t)) /\ Stop(t).orphans = {}
  BY <1>2, <1>7, <1>9, KeyStopLemma DEF Follows
<1>11. /\ sup' \in [Kinds -> Supervised]
       /\ KeyOK(sup'["wda"]) /\ sup'["wda"].orphans = {}
       /\ KeyOK(sup'["iproxy"]) /\ sup'["iproxy"].orphans = {}
  <2>1. CASE sup' = [wda |-> r[1], iproxy |-> r[2]] BY <2>1, <1>9, SupLemma
  <2>2. CASE sup' = [wda |-> Stop(r[1]), iproxy |-> Stop(r[2])] BY <2>2, <1>10, SupLemma
  <2>3. CASE sup' = [sup EXCEPT !["iproxy"] = t]
    BY <1>2, <1>7, <2>3, TypesLemma, KindsLemma, OneLemma
  <2>4. CASE sup' = [wda |-> Stop(sup["wda"]), iproxy |-> Stop(t)] BY <2>4, <1>10, SupLemma
  <2> QED BY <1>4, <2>1, <2>2, <2>3, <2>4
<1>12. \A k \in Kinds : KeyOK(sup'[k]) /\ sup'[k].orphans \subseteq sup[k].orphans
  BY <1>11, KindsLemma
<1> QED BY <1>1, <1>2, <1>5, <1>6, <1>11, <1>12, OperationStep

\* The tunnel alone is started.
LEMMA TunnelStartsLemma ==
  ASSUME ProvInv, TunnelStarts
  PROVE  ProvInv'
<1>1. /\ UNCHANGED <<setup, on, seen, poll, crashes, enabled, intent, busyPort>> /\ op.at = "ports"
      /\ op.kind \in {"tunnel", "recover"} /\ ~ShuttingDown /\ op' \in {NoOp, At("tunnel", "ready")}
  BY DEF TunnelStarts, opOnly
<1>2. on /\ setup \notin {"second", "down"} BY <1>1 DEF ProvInv, ShuttingDown
<1>3. RestTyped' BY <1>1, TypesLemma, OpsLemma DEF RestTyped, OpKinds, OpSteps
<1>4. PICK t \in PortFreed : \E r \in Start(t) : sup' = [sup EXCEPT !["iproxy"] = r]
  BY DEF TunnelStarts
<1>5. PICK r \in Start(t) : sup' = [sup EXCEPT !["iproxy"] = r] BY <1>4
<1>6. KeyOK(t) /\ t.orphans = {} BY TypesLemma, KindsLemma, PortLemma DEF Follows
<1>7. KeyOK(r) /\ r.orphans = {} BY <1>6, KeyStartLemma
<1>8. /\ sup' \in [Kinds -> Supervised] /\ sup'["iproxy"] = r
      /\ \A j \in Kinds \ {"iproxy"} : sup'[j] = sup[j]
  BY <1>5, <1>7, TypesLemma, KindsLemma, OneLemma
<1>9. \A k \in Kinds : KeyOK(sup'[k]) /\ sup'[k].orphans \subseteq sup[k].orphans
  BY <1>7, <1>8, TypesLemma
<1>10. op'.kind \in {"none", "tunnel"} BY <1>1 DEF NoOp, At
<1> QED BY <1>1, <1>2, <1>3, <1>8, <1>9, <1>10, OperationStep

\* The phone leaves the map.
LEMMA DetachEndsLemma ==
  ASSUME ProvInv, DetachEnds
  PROVE  ProvInv'
<1>1. /\ op.kind = "detach" /\ on' = FALSE /\ enabled' = FALSE /\ poll' = "idle" /\ op' = NoOp
      /\ UNCHANGED <<sup, setup, intent, seen, busyPort, crashes>>
  BY DEF DetachEnds, At
<1>2. ProvTyped' BY <1>1, TypesLemma DEF ProvTyped, NoOp, OpKinds, OpSteps, Polls
<1> QED BY <1>1, <1>2 DEF ProvInv, QuietBoth, NoOp, BothSettled, Settled, Idle

\* The steps of the operations.
LEMMA OpStepLemma ==
  ASSUME ProvInv, OpStep
  PROVE  ProvInv'
BY PortRecoveryLemma, CheckedLemma, ClearEndsLemma, StopsLemma, PortsFreeLemma, TunnelStartsLemma,
   DetachEndsLemma DEF OpStep

----------------------------------------------------------------------------
(* Shutdown, crash, and the theorems                                       *)

\* Shutdown and crash.
LEMMA ShutdownLemma ==
  ASSUME ProvInv, ShutdownBegins \/ ShutdownStep \/ Crash
  PROVE  ProvInv'
<1>1. CASE ShutdownBegins \/ ShutdownAgain
  <2>1. /\ sup' = StopBoth /\ setup' \in {"stopping", "second"}
        /\ UNCHANGED <<on, enabled, intent, seen, poll, op, busyPort, crashes>>
        /\ setup' = "second" => poll = "idle" /\ Idle
    BY <1>1 DEF ShutdownBegins, ShutdownAgain
  <2>2. /\ sup' \in [Kinds -> Supervised] /\ \A k \in Kinds : Follows(sup[k], sup'[k])
        /\ \A k \in Kinds : Quiet(sup'[k])
    BY <2>1, TypesLemma, StopBothLemma
  <2>3. ProvTyped' BY <2>1, <2>2, TypesLemma DEF ProvTyped, Setups
  <2>4. \A k \in Kinds : KeyOK(sup'[k]) /\ sup'[k].orphans \subseteq sup[k].orphans BY <2>2 DEF Follows
  <2> QED BY <2>1, <2>2, <2>3, <2>4, KindsLemma DEF ProvInv, QuietBoth, Idle
<1>2. CASE ShutdownEnds
  <2>1. /\ setup = "second" /\ BothSettled /\ setup' = "down"
        /\ UNCHANGED <<sup, on, enabled, intent, seen, poll, op, busyPort, crashes>>
    BY <1>2 DEF ShutdownEnds
  <2>2. ProvTyped' BY <2>1, TypesLemma DEF ProvTyped, Setups
  <2> QED BY <2>1, <2>2 DEF ProvInv, QuietBoth, Idle, BothSettled, Settled
<1>3. CASE Crash
  <2>1. /\ setup' = "checking" /\ on' = FALSE /\ poll' = "idle" /\ op' = NoOp
        /\ enabled' = FALSE /\ seen' = FALSE /\ busyPort' = FALSE /\ intent' = intent
        /\ crashes < MaxCrashes /\ crashes' = crashes + 1
        /\ sup' = [k \in Kinds |-> Crashed(sup[k])]
    BY <1>3 DEF Crash
  <2>2. \A k \in Kinds : /\ sup'[k] = Crashed(sup[k]) /\ KeyOK(sup'[k]) /\ Quiet(sup'[k])
                         /\ sup'[k].children = {}
    BY <2>1, TypesLemma, CrashedLemma
  <2>3. \A k \in Kinds : Crashed(sup[k]) \in Supervised BY <2>2 DEF KeyOK
  <2>4. sup' \in [Kinds -> Supervised] BY <2>1, <2>3
  <2>5. crashes' \in 0..MaxCrashes
    BY <2>1, TypesLemma, ProvisioningAssumption DEF ProvTyped
  <2>6. ProvTyped'
    BY <2>1, <2>4, <2>5, TypesLemma DEF ProvTyped, NoOp, OpKinds, OpSteps, Polls, Setups
  <2> QED BY <2>1, <2>2, <2>6 DEF ProvInv, QuietBoth, NoOp, Idle
<1> QED BY <1>1, <1>2, <1>3 DEF ShutdownStep

\* The inductive invariant holds of every behaviour in which looking up a start time does not
\* outlast a stop: three attempts 100 ms apart against seven seconds (processOwnershipStore.js,
\* processSupervisor.js).
THEOREM ProvisioningInvariance ==
  ASSUME SlowLookups = FALSE
  PROVE  ProvSpec => []ProvInv
<1>1. ProvInit => ProvInv
  <2> SUFFICES ASSUME ProvInit PROVE ProvInv OBVIOUS
  <2>1. \A k \in Kinds : sup[k] = Fresh BY DEF ProvInit
  <2>2. Fresh \in Supervised BY NoPidLemma DEF Fresh, Supervised
  <2>3. Fresh.children = {} /\ Fresh.orphans = {} /\ Quiet(Fresh) BY DEF Fresh, Quiet, IsRunning
  <2>4. KeyOK(Fresh) BY <2>2, <2>3 DEF KeyOK, Consistent, Fresh, Alive, IsRunning
  <2>5. sup \in [Kinds -> Supervised] BY <2>2 DEF ProvInit
  <2>6. crashes \in 0..MaxCrashes BY ProvisioningAssumption DEF ProvInit
  <2>7. ProvTyped BY <2>5, <2>6, OpsLemma DEF ProvInit, ProvTyped, Polls, Setups
  <2> QED BY <2>1, <2>3, <2>4, <2>7, KindsLemma DEF ProvInit, ProvInv, QuietBoth, NoOp
<1>2. ProvInv /\ [ProvNext]_provVars => ProvInv'
  <2> SUFFICES ASSUME ProvInv, [ProvNext]_provVars PROVE ProvInv' OBVIOUS
  <2>1. CASE UNCHANGED provVars
    BY <2>1 DEF provVars, ProvInv, ProvTyped, QuietBoth, Idle, BothSettled, Settled
  <2> QED
    BY ZenonT(30), <2>1, ProcessStepLemma, CheckLemma, PollStepLemma, OpBeginsLemma, OpStepLemma, ShutdownLemma
    DEF ProvNext
<1> QED BY <1>1, <1>2, PTL DEF ProvSpec

\* Every process and every operation is always one of its type.
THEOREM ProvisioningTypeCorrectness ==
  ASSUME SlowLookups = FALSE
  PROVE  ProvSpec => []ProvTypeOK
<1>1. ProvInv => ProvTypeOK
  <2> SUFFICES ASSUME ProvInv PROVE ProvTypeOK OBVIOUS
  <2> QED BY TypesLemma DEF ProvTyped, ProvTypeOK, KeyOK
<1> QED BY <1>1, ProvisioningInvariance, PTL

\* When shutdown is over nothing is left that could start, and only a process that resisted
\* SIGKILL is alive.
LEMMA NothingLeftLemma == ProvInv => ShutdownLeavesNothing
<1> SUFFICES ASSUME ProvInv, setup = "down", NEW k \in Kinds
             PROVE  ~IsRunning(sup[k]) /\ ~sup[k].waiting /\ (sup[k].children = {} \/ sup[k].blocked)
  BY DEF ShutdownLeavesNothing
<1>1. KeyOK(sup[k]) /\ Quiet(sup[k]) /\ sup[k].stopping = NoPid
  BY TypesLemma DEF ProvInv, QuietBoth, BothSettled, Settled
<1>2. sup[k].child = NoPid BY <1>1 DEF KeyOK, Consistent, Quiet, IsRunning
<1>3. NoPid \notin sup[k].children BY <1>1, NoPidLemma DEF KeyOK, Supervised
<1> QED BY <1>1, <1>2, <1>3 DEF KeyOK, Quiet

\* No process is doubled, lost sight of, forgotten by the disk or left behind, and a shutdown
\* leaves nothing: for any number of process identities, starts, stops, exits and crashes.
THEOREM ProcessesStayKept ==
  ASSUME SlowLookups = FALSE
  PROVE  ProvSpec => []ProcessesAreKept
<1>1. ProvInv => ProcessesAreKept
  <2> SUFFICES ASSUME ProvInv PROVE ProcessesAreKept OBVIOUS
  <2>1. \A k \in Kinds : KeyOK(sup[k]) BY TypesLemma
  <2>2. OneProcess
    <3> SUFFICES ASSUME NEW k \in Kinds PROVE Cardinality(Alive(sup[k])) <= 1 BY DEF OneProcess
    <3>1. \A p, q \in Alive(sup[k]) : p = q BY <2>1 DEF KeyOK
    <3>2. CASE Alive(sup[k]) = {} BY <3>2, FS_EmptySet
    <3>3. CASE Alive(sup[k]) # {}
      <4>1. PICK p : Alive(sup[k]) = {p} BY <3>1, <3>3
      <4>2. Cardinality({p}) = 1 BY FS_Singleton
      <4> QED BY <4>1, <4>2
    <3> QED BY <3>2, <3>3
  <2>3. ChildrenAreHeld BY <2>1 DEF ChildrenAreHeld, KeyOK
  <2>4. ChildrenAreRemembered BY <2>1 DEF ChildrenAreRemembered, KeyOK
  <2>5. DetachedHasNothing BY DEF DetachedHasNothing, ProvInv, QuietBoth, Quiet
  <2> QED BY <2>2, <2>3, <2>4, <2>5, NothingLeftLemma DEF ProcessesAreKept
<1> QED BY <1>1, ProvisioningInvariance, PTL
=============================================================================
