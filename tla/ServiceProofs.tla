---------------------------- MODULE ServiceProofs ----------------------------
(***************************************************************************)
(* Proofs about the services beside the queue: what the host believes of   *)
(* one phone, what the hub knows of a site, the board of assignments, the  *)
(* children of the desktop application, the actions of a platform and the  *)
(* tables of the database, for every bound and every set of calls,         *)
(* viewers, people, work, processes, posts, rows and connections.          *)
(***************************************************************************)
EXTENDS PhoneDriver, SiteLink, Assignments, DesktopHost, PlatformActions, SharedTables, SequenceTheorems, FiniteSetTheorems,
        WellFoundedInduction, TLAPS

------------------------------------------------------------------------------
(* What the host believes of a phone (PhoneDriver)                         *)

ProbeBooks == [current : BOOLEAN, good : BOOLEAN, by : [PhoneParts -> Nat]]

\* An answer that counts came from the processes there are, and so did the one that made the
\* phone ready; a phone in its time to start has failed no check.
BeliefHolds ==
  /\ process \in [PhoneParts -> [state : {"stopped", "alive", "ending", "dead"}, boot : Nat]]
  /\ readiness \in [ready : BOOLEAN, failures : 0..FailureThreshold]
  /\ probes \subseteq ProbeBooks
  /\ control = "READY" => readiness.ready
  /\ readiness.ready => readiness.failures = 0 /\ answeredBy = Boots
  /\ \A probe \in probes : probe.current /\ probe.good => probe.by = Boots
  /\ startup = "grace" => readiness = NotReady(0)
  /\ IdleIsUsable

\* Without a process there is no answer, and nothing is believed.
LEMMA BeliefInitLemma == DriverInit => BeliefHolds
<1> SUFFICES ASSUME DriverInit PROVE BeliefHolds
  OBVIOUS
<1>1. NotReady(0) \in [ready : BOOLEAN, failures : 0..FailureThreshold] /\ ~NotReady(0).ready
  BY DriverAssumption DEF NotReady
<1> QED BY <1>1 DEF DriverInit, BeliefHolds, IdleIsUsable

\* A step that distrusts the phone outdates the answers on their way; it is offline then, or
\* kept, or given back, or it was given back before.
LEMMA DistrustLemma ==
  ASSUME BeliefHolds, Distrusts, control' # "READY",
         process' \in [PhoneParts -> [state : {"stopped", "alive", "ending", "dead"}, boot : Nat]],
         status' = "idle" => freedUnready'
  PROVE  BeliefHolds'
<1>1. readiness' = NotReady(0) /\ ~readiness'.ready BY DEF Distrusts, NotReady
<1>2. readiness' \in [ready : BOOLEAN, failures : 0..FailureThreshold]
  BY <1>1, DriverAssumption DEF NotReady
<1>3. \A probe \in probes' : probe \in ProbeBooks /\ ~probe.current
  BY ZenonT(60) DEF BeliefHolds, Distrusts, Outdated, ProbeBooks
<1>4. /\ control' = "READY" => readiness'.ready
      /\ readiness'.ready => readiness'.failures = 0 /\ answeredBy' = Boots'
      /\ \A probe \in probes' : probe.current /\ probe.good => probe.by = Boots'
      /\ startup' = "grace" => readiness' = NotReady(0)
      /\ IdleIsUsable'
  BY <1>1, <1>3 DEF IdleIsUsable
<1> QED BY <1>2, <1>3, <1>4 DEF BeliefHolds

\* Nothing but a ready endpoint opens the control path.
LEMMA ControlLemma ==
  ASSUME NEW parts, NEW ready
  PROVE  /\ ControlWith(parts, ready) = "READY" => ready
         /\ ControlWith(parts, ready) # "READY" \/ ready
BY DEF ControlWith

\* The answers.
LEMMA AnswerLemma ==
  ASSUME BeliefHolds, NEW probe \in probes, Returned(probe)
  PROVE  BeliefHolds'
<1>1. probe \in ProbeBooks /\ probes' \subseteq probes BY DEF BeliefHolds, Returned
<1>2. CASE GoodAnswer(probe)
  <2>1. probe.by = Boots BY <1>1, <1>2 DEF GoodAnswer, Counts, BeliefHolds
  <2>2. readiness' = [ready |-> TRUE, failures |-> 0] BY <1>2 DEF GoodAnswer
  <2>3. readiness' \in [ready : BOOLEAN, failures : 0..FailureThreshold]
    BY <2>2, DriverAssumption
  <2>4. UNCHANGED process /\ startup' = "none" /\ answeredBy' = probe.by BY <1>2 DEF GoodAnswer
  <2>5. Boots' = Boots BY <2>4 DEF Boots
  <2> QED BY <1>1, <2>1, <2>2, <2>3, <2>4, <2>5 DEF BeliefHolds, IdleIsUsable
<1>3. CASE StillStarting(probe)
  <2>1. readiness' = readiness BY <1>3 DEF StillStarting, BeliefHolds
  <2>2. UNCHANGED <<process, startup, status, freedUnready, answeredBy>> /\ control' # "READY"
    BY <1>3 DEF StillStarting
  <2>3. Boots' = Boots BY <2>2 DEF Boots
  <2> QED BY <1>1, <2>1, <2>2, <2>3 DEF BeliefHolds, IdleIsUsable
<1>4. CASE BadAnswer(probe)
  <2> DEFINE failures == IF readiness.failures < FailureThreshold THEN readiness.failures + 1
                         ELSE FailureThreshold
  <2>1. failures \in 1..FailureThreshold
    BY DriverAssumption DEF BeliefHolds
  <2>2. /\ readiness' = NotReady(failures) /\ control' # "READY"
        /\ status' = IF failures = FailureThreshold /\ status # "in-use" THEN "offline" ELSE status
        /\ UNCHANGED <<process, startup, answeredBy>> /\ startup # "grace"
    BY <1>4 DEF BadAnswer
  <2> HIDE DEF failures
  <2>3. readiness' \in [ready : BOOLEAN, failures : 0..FailureThreshold] /\ ~readiness'.ready
        /\ readiness'.failures = failures
    BY <2>1, <2>2, DriverAssumption DEF NotReady
  <2>4. status' = "idle" => failures \in 1..(FailureThreshold - 1)
    BY <2>1, <2>2, DriverAssumption
  <2>5. Boots' = Boots BY <2>2 DEF Boots
  <2> QED BY <1>1, <2>2, <2>3, <2>4, <2>5 DEF BeliefHolds, IdleIsUsable
<1>5. CASE OldAnswer(probe)
  <2>1. UNCHANGED <<process, readiness, control, startup, status, freedUnready, answeredBy>>
    BY <1>5 DEF OldAnswer
  <2>2. Boots' = Boots BY <2>1 DEF Boots
  <2> QED BY <1>1, <2>1, <2>2 DEF BeliefHolds, IdleIsUsable
<1> QED BY <1>2, <1>3, <1>4, <1>5 DEF Returned

\* The processes.
LEMMA ProcessLemma ==
  ASSUME BeliefHolds, NEW p \in PhoneParts,
         \/ ProcessStarting(p) \/ ProcessStable(p) \/ ProcessDies(p) \/ ProcessExit(p)
         \/ PollSees(p) \/ RecoversEndpoint(p)
  PROVE  BeliefHolds'
<1> DEFINE Procs == [state : {"stopped", "alive", "ending", "dead"}, boot : Nat]
<1>1. process \in [PhoneParts -> Procs] /\ process[p] \in Procs BY DEF BeliefHolds
<1>2. [state |-> "alive", boot |-> process[p].boot + 1] \in Procs BY <1>1
<1>3. \A s \in {"dead", "stopped", "ending"} :
        /\ [process[p] EXCEPT !.state = s] \in Procs
        /\ [process[p] EXCEPT !.state = s].boot = process[p].boot
  BY <1>1
<1> HIDE DEF Procs
<1>4. ASSUME NEW s \in {"dead", "stopped", "ending"}, process' = [process EXCEPT ![p].state = s]
      PROVE  process' \in [PhoneParts -> Procs] /\ Boots' = Boots
  <2>1. process' = [process EXCEPT ![p] = [process[p] EXCEPT !.state = s]] BY <1>1, <1>4
  <2>2. \A q \in PhoneParts : process'[q].boot = process[q].boot BY <1>1, <1>3, <2>1
  <2> QED BY <1>1, <1>3, <2>1, <2>2 DEF Boots
<1>5. CASE ProcessStarting(p)
  <2>1. process' = [process EXCEPT ![p] = [state |-> "alive", boot |-> process[p].boot + 1]]
    BY <1>1, <1>5 DEF ProcessStarting
  <2>2. process' \in [PhoneParts -> Procs] BY <1>1, <1>2, <2>1
  <2>3. control' # "READY" BY <1>5, ControlLemma DEF ProcessStarting
  <2>4. status' = "idle" => freedUnready' BY <1>5, <2>3 DEF ProcessStarting, Announced
  <2> QED BY <1>5, <2>2, <2>3, <2>4, DistrustLemma DEF ProcessStarting, Procs
<1>6. CASE ProcessStable(p)
  <2>1. UNCHANGED <<process, readiness, startup, probes, answeredBy>> BY <1>6 DEF ProcessStable
  <2>2. control' = "READY" => readiness.ready BY <1>6, ControlLemma DEF ProcessStable
  <2>3. status' = "idle" => freedUnready' \/ (status = "idle" /\ (freedUnready => freedUnready'))
    BY <1>6 DEF ProcessStable, Announced
  <2>4. Boots' = Boots BY <2>1 DEF Boots
  <2> QED BY <2>1, <2>2, <2>3, <2>4 DEF BeliefHolds, IdleIsUsable
<1>7. CASE ProcessDies(p)
  <2>1. process' = [process EXCEPT ![p].state = "dead"]
        /\ UNCHANGED <<readiness, control, startup, probes, status, freedUnready, answeredBy>>
    BY <1>7 DEF ProcessDies
  <2>2. process' \in [PhoneParts -> Procs] /\ Boots' = Boots BY <1>4, <2>1
  <2> QED BY <2>1, <2>2 DEF BeliefHolds, IdleIsUsable, Procs
<1>8. CASE ProcessExit(p)
  <2>1. process' = [process EXCEPT ![p].state = "stopped"] /\ Distrusts /\ control' # "READY"
    BY <1>8 DEF ProcessExit
  <2>2. process' \in [PhoneParts -> Procs] BY <1>4, <2>1
  <2>3. status' = "idle" => freedUnready' BY <1>8, <2>1 DEF ProcessExit, Announced
  <2> QED BY <2>1, <2>2, <2>3, DistrustLemma DEF Procs
<1>9. CASE PollSees(p)
  <2>1. UNCHANGED <<process, readiness, control, startup, probes, status, freedUnready, answeredBy>>
    BY <1>9 DEF PollSees
  <2>2. Boots' = Boots BY <2>1 DEF Boots
  <2> QED BY <2>1, <2>2 DEF BeliefHolds, IdleIsUsable
<1>10. CASE RecoversEndpoint(p)
  <2>1. process' = [process EXCEPT ![p].state = "ending"] /\ Distrusts /\ control' # "READY"
    BY <1>10 DEF RecoversEndpoint
  <2>2. process' \in [PhoneParts -> Procs] BY <1>4, <2>1
  <2>3. status = "idle" => freedUnready
    BY <1>10, DriverAssumption DEF RecoversEndpoint, BeliefHolds, IdleIsUsable
  <2>4. status' = "idle" => freedUnready' BY <1>10, <2>1, <2>3 DEF RecoversEndpoint, Announced
  <2> QED BY <2>1, <2>2, <2>4, DistrustLemma DEF Procs
<1> QED BY <1>5, <1>6, <1>7, <1>8, <1>9, <1>10

\* The poll, the operator and the people.
LEMMA OperatorLemma ==
  ASSUME BeliefHolds,
         \/ Probe \/ GraceEnds \/ \E probe \in probes : Answered(probe)
         \/ \E what \in {"stop", "restart"} : PhoneStopAsked(what)
         \/ ProcessesStopped \/ Opens \/ GivesBack \/ UNCHANGED driverVars
  PROVE  BeliefHolds'
<1>1. Boots \in [PhoneParts -> Nat] /\ Unanswered \in [PhoneParts -> Nat]
  BY DEF BeliefHolds, Boots, Unanswered
<1>2. CASE Probe
  <2> DEFINE asked == [current |-> TRUE, good |-> FALSE, by |-> Unanswered]
  <2>1. asked \in ProbeBooks /\ ~asked.good BY <1>1 DEF ProbeBooks
  <2>2. UNCHANGED <<process, readiness, control, startup, status, freedUnready, answeredBy>>
        /\ probes' = probes \cup {asked}
    BY <1>2 DEF Probe
  <2> HIDE DEF asked
  <2>3. Boots' = Boots BY <2>2 DEF Boots
  <2> QED BY <2>1, <2>2, <2>3 DEF BeliefHolds, IdleIsUsable
<1>3. ASSUME NEW probe \in probes, Answered(probe) PROVE BeliefHolds'
  <2> DEFINE answered == [probe EXCEPT !.good = TRUE, !.by = Boots]
  <2>1. answered \in ProbeBooks /\ answered.by = Boots BY <1>1 DEF BeliefHolds, ProbeBooks
  <2>2. UNCHANGED <<process, readiness, control, startup, status, freedUnready, answeredBy>>
        /\ probes' = (probes \ {probe}) \cup {answered}
    BY ZenonT(30), <1>3 DEF Answered
  <2>3. Boots' = Boots BY ZenonT(30), <2>2 DEF Boots
  <2> HIDE DEF answered
  <2> QED BY <2>1, <2>2, <2>3 DEF BeliefHolds, IdleIsUsable
<1>4. CASE GraceEnds
  <2>1. UNCHANGED <<process, readiness, control, probes, status, freedUnready, answeredBy>>
        /\ startup' = "late"
    BY <1>4 DEF GraceEnds
  <2>2. Boots' = Boots BY <2>1 DEF Boots
  <2> QED BY <2>1, <2>2 DEF BeliefHolds, IdleIsUsable
<1>5. ASSUME NEW what \in {"stop", "restart"}, PhoneStopAsked(what) PROVE BeliefHolds'
  <2>1. Distrusts /\ control' # "READY" /\ UNCHANGED process BY <1>5 DEF PhoneStopAsked
  <2>2. status' = "idle" => freedUnready' BY <1>5, <2>1 DEF PhoneStopAsked, Announced
  <2> QED BY <2>1, <2>2, DistrustLemma DEF BeliefHolds
<1>6. CASE ProcessesStopped
  <2>1. process' = [p \in PhoneParts |-> [process[p] EXCEPT !.state = "stopped"]]
        /\ UNCHANGED <<readiness, startup, probes, answeredBy>>
    BY <1>6 DEF ProcessesStopped
  <2>2. \A p \in PhoneParts :
          /\ [process[p] EXCEPT !.state = "stopped"]
               \in [state : {"stopped", "alive", "ending", "dead"}, boot : Nat]
          /\ [process[p] EXCEPT !.state = "stopped"].boot = process[p].boot
    BY DEF BeliefHolds
  <2>3. process' \in [PhoneParts -> [state : {"stopped", "alive", "ending", "dead"}, boot : Nat]]
    BY <2>1, <2>2
  <2>4. Boots' = Boots BY <2>1, <2>2 DEF Boots
  <2>5. control' = "READY" => control = "READY" BY <1>6 DEF ProcessesStopped
  <2>6. status' = "idle" => freedUnready' \/ (status = "idle" /\ freedUnready' = freedUnready)
    BY <1>6 DEF ProcessesStopped, Announced
  <2> QED BY <2>1, <2>3, <2>4, <2>5, <2>6 DEF BeliefHolds, IdleIsUsable
<1>7. CASE Opens \/ GivesBack
  <2>1. UNCHANGED <<process, readiness, control, probes, startup, answeredBy>>
        /\ (status' = "idle" => freedUnready' \/ readiness.ready)
    BY <1>7 DEF Opens, GivesBack, BeliefHolds
  <2>2. Boots' = Boots BY <2>1 DEF Boots
  <2> QED BY <2>1, <2>2 DEF BeliefHolds, IdleIsUsable
<1>8. CASE UNCHANGED driverVars
  <2>1. UNCHANGED <<process, readiness, control, probes, startup, status, freedUnready, answeredBy>>
    BY <1>8 DEF driverVars
  <2>2. Boots' = Boots BY <2>1 DEF Boots
  <2> QED BY <2>1, <2>2 DEF BeliefHolds, IdleIsUsable
<1> QED BY <1>2, <1>3, <1>4, <1>5, <1>6, <1>7, <1>8

\* What the host believes of a phone is kept true by every answer, however late, by every
\* start, end and recovery of its processes, and by the people who come and go.
THEOREM BeliefInvariance == DriverSpec => []BeliefHolds
<1>1. BeliefHolds /\ [DriverNext]_driverVars => BeliefHolds'
  BY AnswerLemma, ProcessLemma, OperatorLemma DEF DriverNext
<1> QED BY <1>1, BeliefInitLemma, PTL DEF DriverSpec

\* An open control path was confirmed by the processes the phone has now, and a phone the
\* queue may take is ready, suspect at most, or was given back before it was ready.
THEOREM BeliefsAreFounded == DriverSpec => []BeliefIsFounded
<1>1. BeliefHolds => BeliefIsFounded
  BY DEF BeliefHolds, BeliefIsFounded, ReadyIsFresh
<1> QED BY <1>1, BeliefInvariance, PTL

------------------------------------------------------------------------------
(* The link between the hub and a site (SiteLink)                          *)

LinkRecords ==
  [hub : {"none", "verifying", "verified", "denied", "open", "closing", "closed"},
   end : {"none", "connecting", "open", "closed"}, gen : Nat, up : BOOLEAN]
CallRecords ==
  [at : {"none", "pending", "answered", "offline", "timeout"}, on : 0..MaxLinks]
AgentRecords ==
  [on : 0..MaxLinks, streams : SUBSET Viewers, work : SUBSET SiteCalls,
   ready : BOOLEAN, told : BOOLEAN \cup {Silence}]

LinkTyped ==
  /\ site \in BOOLEAN /\ generation \in Nat /\ admin \in {"none", "rotated", "removed"}
  /\ link \in [Links -> LinkRecords] /\ table \in 0..MaxLinks
  /\ toAgent \in [Links -> Seq(ToAgent)]
  /\ wanted \subseteq Viewers /\ IsFiniteSet(wanted)
  /\ call \in [SiteCalls -> CallRecords] /\ agent \in AgentRecords

\* The site is gone, from the store and from the hub.
Withdrawn == ~site /\ admin = "none"

LinkOK(k) ==
  /\ link[k].gen <= generation
  /\ link[k].end = "none" => link[k].hub = "none"
  /\ k = table => link[k].hub \in {"open", "closing"}
  /\ link[k].end \in {"connecting", "open"} => agent.on = k
  /\ link[k].end = "connecting" => agent.streams = {}
  /\ link[k].hub \in {"verifying", "verified", "denied"} => link[k].end # "open"
  /\ Withdrawn /\ (k = table \/ link[k].hub = "verified") => link[k].gen # generation

\* Whether viewer v is streamed to once the agent has read the messages of queue q.
Ends(q, streams, v) ==
  \/ \E i \in 1..Len(q) : /\ q[i] = <<"stream_open", v>>
                          /\ \A j \in 1..Len(q) : j > i => q[j] # <<"stream_close", v>>
  \/ v \in streams /\ \A j \in 1..Len(q) : q[j] # <<"stream_close", v>>

\* What is on its way makes the agent's streams what is wanted.
StreamsFollow ==
  Online /\ link[table].end \in {"connecting", "open"} =>
    \A v \in Viewers : v \in wanted <=> Ends(toAgent[table], agent.streams, v)

SiteInv ==
  /\ LinkTyped /\ (admin = "rotated" => site)
  /\ agent.on = 0 => agent.streams = {}
  /\ \A k \in Links : LinkOK(k)
  /\ LinkIsAuthorized /\ RemovedStaysGone /\ PendingHasLink /\ StreamsFollow

\* A message more: the last one about a viewer decides.
LEMMA SentLemma ==
  ASSUME NEW q \in Seq(ToAgent), NEW m \in ToAgent, NEW streams, NEW v
  PROVE  /\ m = <<"stream_open", v>> => Ends(Append(q, m), streams, v)
         /\ m = <<"stream_close", v>> => ~Ends(Append(q, m), streams, v)
         /\ m # <<"stream_open", v>> /\ m # <<"stream_close", v>> =>
              (Ends(Append(q, m), streams, v) <=> Ends(q, streams, v))
<1> DEFINE r == Append(q, m)
           n == Len(q)
<1>1. n \in Nat /\ Len(r) = n + 1 /\ r[n + 1] = m /\ \A i \in 1..n : r[i] = q[i]
  BY AppendProperties, LenProperties
<1> HIDE DEF r, n
<1>2. <<"stream_open", v>> # <<"stream_close", v>> OBVIOUS
<1>3. ASSUME m = <<"stream_open", v>> PROVE Ends(r, streams, v)
  <2>1. n + 1 \in 1..Len(r) /\ r[n + 1] = <<"stream_open", v>>
    BY <1>1, <1>3
  <2>2. \A j \in 1..Len(r) : ~(j > n + 1) BY <1>1
  <2> QED BY <2>1, <2>2 DEF Ends
<1>4. ASSUME m = <<"stream_close", v>> PROVE ~Ends(r, streams, v)
  <2>1. n + 1 \in 1..Len(r) /\ r[n + 1] = <<"stream_close", v>> BY <1>1, <1>4
  <2>2. \A i \in 1..Len(r) : r[i] = <<"stream_open", v>> => i < n + 1 BY <1>1, <1>2, <1>4
  <2>3. \A i \in 1..Len(r) : i < n + 1 => n + 1 > i BY <1>1
  <2> QED BY <2>1, <2>2, <2>3 DEF Ends
<1>5. ASSUME m # <<"stream_open", v>>, m # <<"stream_close", v>>
      PROVE  Ends(r, streams, v) <=> Ends(q, streams, v)
  <2>1. \A i \in 1..n : i \in 1..Len(r) BY <1>1
  <2>2. \A i \in 1..Len(r) : i \in 1..n \/ i = n + 1 BY <1>1
  <2>3. (\A j \in 1..Len(r) : r[j] # <<"stream_close", v>>)
          <=> (\A j \in 1..n : q[j] # <<"stream_close", v>>)
    BY <1>1, <1>5, <2>1, <2>2
  <2>4. ASSUME NEW i \in 1..n
        PROVE  (\A j \in 1..Len(r) : j > i => r[j] # <<"stream_close", v>>)
                 <=> (\A j \in 1..n : j > i => q[j] # <<"stream_close", v>>)
    BY <1>1, <1>5, <2>1, <2>2
  <2>5. \A i \in 1..Len(r) : r[i] = <<"stream_open", v>> => i \in 1..n BY <1>1, <1>5, <2>2
  <2>6. (\E i \in 1..Len(r) : /\ r[i] = <<"stream_open", v>>
                              /\ \A j \in 1..Len(r) : j > i => r[j] # <<"stream_close", v>>)
        <=> (\E i \in 1..n : /\ q[i] = <<"stream_open", v>>
                             /\ \A j \in 1..n : j > i => q[j] # <<"stream_close", v>>)
    BY <1>1, <2>1, <2>4, <2>5
  <2> QED BY <2>3, <2>6 DEF Ends, n
<1> QED BY <1>3, <1>4, <1>5 DEF r

\* What the agent does with a message.
StreamsAfter(streams, m) ==
  CASE m[1] = "stream_open" -> streams \cup {m[2]}
    [] m[1] = "stream_close" -> streams \ {m[2]}
    [] OTHER -> streams

\* A message that was read has had its effect.
LEMMA ReadLemma ==
  ASSUME NEW q \in Seq(ToAgent), q # <<>>, NEW streams, NEW v
  PROVE  /\ Tail(q) \in Seq(ToAgent)
         /\ Ends(Tail(q), StreamsAfter(streams, Head(q)), v) <=> Ends(q, streams, v)
<1> DEFINE r == Tail(q)
           n == Len(q)
           m == Head(q)
           after == StreamsAfter(streams, m)
           Open == <<"stream_open", v>>
           Close == <<"stream_close", v>>
<1>1. /\ n \in Nat /\ n > 0 /\ Len(r) = n - 1 /\ r \in Seq(ToAgent) /\ m = q[1] /\ m \in ToAgent
      /\ \A i \in 1..(n - 1) : r[i] = q[i + 1]
  BY HeadTailProperties, LenProperties, EmptySeq
<1>2. /\ m = Open => v \in after
      /\ m = Close => v \notin after
      /\ m # Open /\ m # Close => (v \in after <=> v \in streams)
  <2>1. m = <<m[1], m[2]>> BY <1>1 DEF ToAgent
  <2>2. CASE m[1] = "stream_open" BY <2>1, <2>2 DEF StreamsAfter
  <2>3. CASE m[1] = "stream_close" BY <2>1, <2>3 DEF StreamsAfter
  <2>4. CASE m[1] # "stream_open" /\ m[1] # "stream_close" BY <2>1, <2>4 DEF StreamsAfter
  <2> QED BY <2>2, <2>3, <2>4
<1>3. Open # Close OBVIOUS
<1> HIDE DEF r, n, m, after, Open, Close
<1>4. \A i \in 1..(n - 1) : i + 1 \in 1..n /\ i + 1 > 1 BY <1>1
<1>5. \A i \in 1..n : i = 1 \/ (i - 1 \in 1..(n - 1) /\ (i - 1) + 1 = i) BY <1>1
<1>6. 1 \in 1..n BY <1>1
<1>7. (\A j \in 1..(n - 1) : r[j] # Close) <=> (\A j \in 1..n : j > 1 => q[j] # Close)
  <2>1. ASSUME \A j \in 1..(n - 1) : r[j] # Close, NEW j \in 1..n, j > 1 PROVE q[j] # Close
    <3>1. j - 1 \in 1..(n - 1) /\ (j - 1) + 1 = j BY <1>1, <2>1
    <3> QED BY <1>1, <2>1, <3>1
  <2>2. ASSUME \A j \in 1..n : j > 1 => q[j] # Close, NEW j \in 1..(n - 1) PROVE r[j] # Close
    BY <1>1, <1>4, <2>2
  <2> QED BY <2>1, <2>2
<1>8. ASSUME NEW i \in 1..(n - 1)
      PROVE  (\A j \in 1..(n - 1) : j > i => r[j] # Close)
               <=> (\A j \in 1..n : j > i + 1 => q[j] # Close)
  <2>1. ASSUME \A j \in 1..(n - 1) : j > i => r[j] # Close, NEW j \in 1..n, j > i + 1
        PROVE  q[j] # Close
    <3>1. j - 1 \in 1..(n - 1) /\ j - 1 > i /\ (j - 1) + 1 = j BY <1>1, <2>1
    <3> QED BY <1>1, <2>1, <3>1
  <2>2. ASSUME \A j \in 1..n : j > i + 1 => q[j] # Close, NEW j \in 1..(n - 1), j > i
        PROVE  r[j] # Close
    <3>1. j + 1 \in 1..n /\ j + 1 > i + 1 BY <1>1, <2>2
    <3> QED BY <1>1, <2>2, <3>1
  <2> QED BY <2>1, <2>2
<1> DEFINE Late(s, k, i) == s[i] = Open /\ \A j \in 1..k : j > i => s[j] # Close
<1>9. \A i \in 1..(n - 1) : Late(r, n - 1, i) <=> Late(q, n, i + 1) BY <1>1, <1>8
<1>10. Ends(r, after, v) <=> \/ \E i \in 1..(n - 1) : Late(r, n - 1, i)
                             \/ v \in after /\ \A j \in 1..(n - 1) : r[j] # Close
  BY <1>1 DEF Ends, Open, Close
<1>11. Ends(q, streams, v) <=> \/ \E i \in 1..n : Late(q, n, i)
                               \/ v \in streams /\ \A j \in 1..n : q[j] # Close
  BY DEF Ends, Open, Close, n
<1>12. (\E i \in 1..n : Late(q, n, i)) <=> Late(q, n, 1) \/ \E i \in 1..(n - 1) : Late(r, n - 1, i)
  <2> HIDE DEF Late
  <2>1. ASSUME NEW i \in 1..n, Late(q, n, i)
        PROVE  Late(q, n, 1) \/ \E h \in 1..(n - 1) : Late(r, n - 1, h)
    <3>1. CASE i = 1 BY <2>1, <3>1
    <3>2. CASE i - 1 \in 1..(n - 1) /\ (i - 1) + 1 = i BY <1>9, <2>1, <3>2
    <3> QED BY <1>5, <3>1, <3>2
  <2>2. ASSUME NEW i \in 1..(n - 1), Late(r, n - 1, i) PROVE \E h \in 1..n : Late(q, n, h)
    BY <1>4, <1>9, <2>2
  <2> QED BY <1>6, <2>1, <2>2
<1>13. Late(q, n, 1) <=> m = Open /\ \A j \in 1..(n - 1) : r[j] # Close BY <1>1, <1>7
<1>14. (\A j \in 1..n : q[j] # Close) <=> m # Close /\ \A j \in 1..(n - 1) : r[j] # Close
  BY <1>1, <1>5, <1>6, <1>7
<1> HIDE DEF Late
<1>15. Ends(r, after, v) <=> Ends(q, streams, v)
  BY <1>2, <1>3, <1>10, <1>11, <1>12, <1>13, <1>14
<1> QED BY <1>1, <1>15 DEF r, after, m

\* Nothing is linked at the start.
LEMMA SiteInitLemma == SiteInit => SiteInv
<1> SUFFICES ASSUME SiteInit PROVE SiteInv
  OBVIOUS
<1>1. LinkTyped
  <2>1. <<>> \in Seq(ToAgent) /\ IsFiniteSet({}) BY FS_EmptySet, EmptySeq
  <2>2. 0 \in 0..MaxLinks BY SiteLinkAssumption
  <2>3. [hub |-> "none", end |-> "none", gen |-> 0, up |-> TRUE] \in LinkRecords BY DEF LinkRecords
  <2>4. [at |-> "none", on |-> 0] \in CallRecords BY <2>2 DEF CallRecords
  <2>5. [on |-> 0, streams |-> {}, work |-> {}, ready |-> FALSE, told |-> Silence] \in AgentRecords
    BY <2>2 DEF AgentRecords
  <2>6. toAgent \in [Links -> Seq(ToAgent)] BY <2>1 DEF SiteInit
  <2>7. link \in [Links -> LinkRecords] /\ call \in [SiteCalls -> CallRecords] BY <2>3, <2>4 DEF SiteInit
  <2>8. agent \in AgentRecords BY <2>5 DEF SiteInit
  <2>9. site \in BOOLEAN /\ admin \in {"none", "rotated", "removed"} BY DEF SiteInit
  <2>10. wanted \subseteq Viewers /\ IsFiniteSet(wanted) BY <2>1 DEF SiteInit
  <2>11. table \in 0..MaxLinks /\ generation \in Nat BY <2>2 DEF SiteInit
  <2> QED BY <2>6, <2>7, <2>8, <2>9, <2>10, <2>11 DEF LinkTyped
<1>2. ~Online BY DEF SiteInit, Online
<1>3. \A k \in Links : LinkOK(k) BY DEF SiteInit, LinkOK, Withdrawn, Links
<1>4. RemovedStaysGone /\ PendingHasLink BY DEF SiteInit, RemovedStaysGone, PendingHasLink
<1>5. agent.streams = {} /\ admin = "none" BY DEF SiteInit
<1> QED BY <1>1, <1>2, <1>3, <1>4, <1>5 DEF SiteInv, LinkIsAuthorized, StreamsFollow

\* Steps of the agent's phone, of messages to the hub and of the store change nothing of this.
LEMMA SiteFrameLemma ==
  ASSUME SiteInv, LinkTyped', admin' = "rotated" => site', Withdrawn' => Withdrawn,
         UNCHANGED <<generation, link, table, toAgent, wanted, phone, call>>,
         agent'.on = agent.on, agent'.streams = agent.streams
  PROVE  SiteInv'
<1>1. \A k \in Links : LinkOK(k)' BY DEF SiteInv, LinkOK
<1>2. LinkIsAuthorized' /\ PendingHasLink' /\ StreamsFollow'
  BY DEF SiteInv, LinkIsAuthorized, PendingHasLink, StreamsFollow, Online
<1>3. RemovedStaysGone' BY DEF SiteInv, RemovedStaysGone, Withdrawn
<1> QED BY <1>1, <1>2, <1>3 DEF SiteInv

\* One end of one link changes.
LEMMA OneLinkLemma ==
  ASSUME SiteInv, NEW k \in Links, NEW r \in LinkRecords, link' = [link EXCEPT ![k] = r],
         UNCHANGED <<site, generation, admin, table, toAgent, wanted, phone, call>>,
         agent' \in AgentRecords, agent'.on = 0 => agent'.streams = {},
         \/ agent'.on = agent.on /\ agent'.streams = agent.streams
         \/ agent.on \in {0, k} /\ agent'.streams = {},
         r.hub = "open" <=> link[k].hub = "open",
         r.hub \in {"open", "closing"} <=> link[k].hub \in {"open", "closing"},
         r.hub = "open" => r.gen = link[k].gen,
         r.hub = "open" /\ r.end \in {"connecting", "open"} =>
           link[k].end \in {"connecting", "open"} /\ agent'.streams = agent.streams,
         LinkTyped => LinkOK(k)'
  PROVE  SiteInv'
<1>1. LinkTyped /\ LinkOK(k) BY DEF SiteInv
<1>2. /\ link'[k] = r /\ \A j \in Links : j # k => link'[j] = link[j]
      /\ link' \in [Links -> LinkRecords]
  BY <1>1 DEF LinkTyped
<1>3. LinkTyped' BY <1>1, <1>2 DEF LinkTyped
<1>4. ASSUME NEW j \in Links PROVE LinkOK(j)'
  <2>1. CASE j = k BY <1>1, <2>1
  <2>2. CASE j # k
    <3>1. LinkOK(j) /\ link'[j] = link[j] /\ j # 0 BY <1>2, <2>2 DEF SiteInv, Links
    <3> QED BY <2>2, <3>1 DEF LinkOK, Withdrawn
  <2> QED BY <2>1, <2>2
<1>5. table # 0 => table \in Links BY <1>1, SiteLinkAssumption DEF LinkTyped, Links
<1>6. Online' <=> Online BY <1>2, <1>5 DEF Online
<1>7. LinkIsAuthorized' BY <1>2, <1>5, <1>6 DEF SiteInv, LinkIsAuthorized, Online
<1>8. RemovedStaysGone' BY DEF SiteInv, RemovedStaysGone
<1>9. PendingHasLink'
  <2>1. ASSUME NEW c \in SiteCalls, call'[c].at = "pending"
        PROVE  link'[call'[c].on].hub \in {"open", "closing"}
    <3>1. link[call[c].on].hub \in {"open", "closing"} BY <2>1 DEF SiteInv, PendingHasLink
    <3>2. CASE call[c].on = k BY <1>2, <3>1, <3>2
    <3>3. CASE call[c].on # k BY <1>1, <3>1, <3>3 DEF LinkTyped
    <3> QED BY <3>2, <3>3
  <2> QED BY <2>1 DEF PendingHasLink
<1>10. StreamsFollow'
  <2> SUFFICES ASSUME Online', link'[table].end \in {"connecting", "open"}, NEW v \in Viewers
               PROVE  v \in wanted <=> Ends(toAgent[table], agent'.streams, v)
    BY DEF StreamsFollow
  <2>1. table \in Links /\ Online BY <1>5, <1>6 DEF Online
  <2>2. link[table].end \in {"connecting", "open"} /\ agent'.streams = agent.streams
    <3>1. CASE table = k BY <1>2, <3>1 DEF Online
    <3>2. CASE table # k
      <4>1. link[table].end \in {"connecting", "open"} BY <1>2, <2>1, <3>2
      <4>2. agent.on = table /\ agent.on # 0 BY <2>1, <4>1 DEF SiteInv, LinkOK, Links
      <4> QED BY <3>2, <4>1, <4>2
    <3> QED BY <3>1, <3>2
  <2> QED BY <2>1, <2>2 DEF SiteInv, StreamsFollow
<1> QED BY <1>3, <1>4, <1>7, <1>8, <1>9, <1>10 DEF SiteInv

\* The steps that change one end of a link.
LEMMA LinkSteps ==
  ASSUME SiteInv, NEW k \in Links,
         \/ AgentConnects(k) \/ TokenVerified(k) \/ Refuse(k) \/ AgentOpened(k)
         \/ NetworkFails(k) \/ AgentClosed(k)
  PROVE  SiteInv'
<1> DEFINE l == link[k]
<1>1. /\ LinkTyped /\ LinkOK(k) /\ l \in LinkRecords /\ generation \in Nat /\ agent \in AgentRecords
      /\ (agent.on = 0 => agent.streams = {}) /\ k # 0 /\ k \in 0..MaxLinks
  BY SiteLinkAssumption DEF SiteInv, LinkTyped, Links
<1>2. CASE AgentConnects(k)
  <2> DEFINE r == [l EXCEPT !.end = "connecting", !.hub = "verifying", !.gen = generation]
  <2>1. /\ r \in LinkRecords /\ r.hub = "verifying" /\ r.end = "connecting" /\ r.gen = generation
    BY <1>1 DEF LinkRecords
  <2>2. l.end = "none" /\ l.hub = "none" /\ agent.on = 0 BY <1>1, <1>2 DEF AgentConnects, LinkOK
  <2>3. link' = [link EXCEPT ![k] = r] BY <1>1, <1>2 DEF AgentConnects, LinkTyped
  <2>4. agent' = [agent EXCEPT !.on = k]
        /\ UNCHANGED <<site, generation, admin, table, toAgent, wanted, phone, call>>
    BY <1>2 DEF AgentConnects, Store, HubState, Wires
  <2>5. agent' \in AgentRecords /\ agent'.on = k /\ agent'.streams = {}
    BY <1>1, <2>2, <2>4 DEF AgentRecords
  <2>6. table # k BY <1>1, <2>2 DEF LinkOK
  <2>7. link'[k] = r BY <1>1, <2>3 DEF LinkTyped
  <2> HIDE DEF r, l
  <2>8. LinkOK(k)' BY <1>1, <2>1, <2>4, <2>5, <2>6, <2>7 DEF LinkOK
  <2> QED BY <1>1, <2>1, <2>2, <2>3, <2>4, <2>5, <2>8, OneLinkLemma DEF l
<1>3. ASSUME NEW hub \in {"verified", "denied", "closed"},
             link' = [link EXCEPT ![k].hub = hub],
             l.hub \in {"verifying", "verified", "denied"},
             hub = "verified" => ~Withdrawn,
             UNCHANGED <<site, generation, admin, table, toAgent, wanted, phone, call, agent>>
      PROVE  SiteInv'
  <2> DEFINE r == [l EXCEPT !.hub = hub]
  <2>1. r \in LinkRecords /\ r.hub = hub /\ r.end = l.end /\ r.gen = l.gen BY <1>1 DEF LinkRecords
  <2>2. link' = [link EXCEPT ![k] = r] BY <1>1, <1>3 DEF LinkTyped
  <2>3. link'[k] = r BY <1>1, <2>2 DEF LinkTyped
  <2>4. table # k /\ l.end # "none" BY <1>1, <1>3 DEF LinkOK
  <2> HIDE DEF r
  <2>5. LinkOK(k)' BY <1>1, <1>3, <2>1, <2>3, <2>4 DEF LinkOK, Withdrawn
  <2> QED BY <1>1, <1>3, <2>1, <2>2, <2>5, OneLinkLemma
<1>4. CASE TokenVerified(k)
  <2> DEFINE hub == IF site /\ held = secret THEN "verified" ELSE "denied"
  <2>1. /\ link' = [link EXCEPT ![k].hub = hub] /\ l.hub = "verifying"
        /\ UNCHANGED <<site, generation, admin, table, toAgent, wanted, phone, call, agent>>
    BY <1>4 DEF TokenVerified, Store, HubState, Wires
  <2>2. hub \in {"verified", "denied", "closed"} /\ (hub = "verified" => ~Withdrawn) BY DEF Withdrawn
  <2> HIDE DEF hub
  <2> QED BY <1>3, <2>1, <2>2
<1>5. CASE Refuse(k)
  <2>1. /\ link' = [link EXCEPT ![k].hub = "closed"] /\ l.hub \in {"verified", "denied"}
        /\ UNCHANGED <<site, generation, admin, table, toAgent, wanted, phone, call, agent>>
    BY <1>5 DEF Refuse, Store, HubState, Wires
  <2> QED BY <1>3, <2>1
<1>6. CASE AgentOpened(k)
  <2> DEFINE r == [l EXCEPT !.end = "open"]
  <2>1. r \in LinkRecords /\ r.hub = l.hub /\ r.end = "open" /\ r.gen = l.gen BY <1>1 DEF LinkRecords
  <2>2. link' = [link EXCEPT ![k] = r] BY <1>1, <1>6 DEF AgentOpened, LinkTyped
  <2>3. link'[k] = r BY <1>1, <2>2 DEF LinkTyped
  <2>4. agent' \in AgentRecords /\ agent'.on = agent.on /\ agent'.streams = agent.streams
    BY <1>1, <1>6 DEF AgentOpened, AgentRecords
  <2>5. /\ UNCHANGED <<site, generation, admin, table, toAgent, wanted, phone, call>>
        /\ l.end = "connecting" /\ l.hub \in {"open", "closing"}
    BY <1>6 DEF AgentOpened, Store, HubState
  <2> HIDE DEF r, l
  <2>6. LinkOK(k)' BY <1>1, <2>1, <2>3, <2>4, <2>5 DEF LinkOK, Withdrawn, l
  <2> QED BY <1>1, <2>1, <2>2, <2>4, <2>5, <2>6, OneLinkLemma DEF l
<1>7. CASE NetworkFails(k)
  <2> DEFINE r == [l EXCEPT !.up = FALSE]
  <2>1. r \in LinkRecords /\ r.hub = l.hub /\ r.end = l.end /\ r.gen = l.gen BY <1>1 DEF LinkRecords
  <2>2. link' = [link EXCEPT ![k] = r] BY <1>1, <1>7 DEF NetworkFails, LinkTyped
  <2>3. link'[k] = r BY <1>1, <2>2 DEF LinkTyped
  <2>4. UNCHANGED <<site, generation, admin, table, toAgent, wanted, phone, call, agent>>
    BY <1>7 DEF NetworkFails, Store, HubState, Wires
  <2> HIDE DEF r, l
  <2>5. LinkOK(k)' BY <1>1, <2>1, <2>3, <2>4 DEF LinkOK, Withdrawn, l
  <2> QED BY <1>1, <2>1, <2>2, <2>4, <2>5, OneLinkLemma DEF l
<1>8. CASE AgentClosed(k)
  <2> DEFINE r == [l EXCEPT !.end = "closed"]
  <2>1. r \in LinkRecords /\ r.hub = l.hub /\ r.end = "closed" /\ r.gen = l.gen BY <1>1 DEF LinkRecords
  <2>2. link' = [link EXCEPT ![k] = r] BY <1>1, <1>8 DEF AgentClosed, LinkTyped
  <2>3. link'[k] = r BY <1>1, <2>2 DEF LinkTyped
  <2>4. agent' \in AgentRecords /\ agent'.on = 0 /\ agent'.streams = {} /\ agent.on = k
    <3>1. agent' = [agent EXCEPT !.on = 0, !.streams = {}] /\ agent.on = k
      BY <1>1, <1>8 DEF AgentClosed, LinkOK
    <3>2. 0 \in 0..MaxLinks BY SiteLinkAssumption
    <3> QED BY <1>1, <3>1, <3>2 DEF AgentRecords
  <2>5. UNCHANGED <<site, generation, admin, table, toAgent, wanted, phone, call>>
    BY <1>8 DEF AgentClosed, Store, HubState, Wires
  <2> HIDE DEF r, l
  <2>6. LinkOK(k)' BY <1>1, <2>1, <2>3, <2>4, <2>5 DEF LinkOK, Withdrawn, l
  <2> QED BY <1>1, <2>1, <2>2, <2>4, <2>5, <2>6, OneLinkLemma DEF l
<1> QED BY <1>2, <1>4, <1>5, <1>6, <1>7, <1>8

\* The site's link is cut by whoever withdraws its authorization.
LEMMA CutLemma ==
  ASSUME SiteInv
  PROVE  /\ CutLinks \in [Links -> LinkRecords]
         /\ \A k \in Links :
              /\ CutLinks[k].end = link[k].end /\ CutLinks[k].gen = link[k].gen
              /\ k # table => CutLinks[k] = link[k]
              /\ CutLinks[k].hub = IF k = table /\ Online THEN "closing" ELSE link[k].hub
<1>1. LinkTyped BY DEF SiteInv
<1>2. CASE Online
  <2>1. table \in Links BY <1>1, <1>2, SiteLinkAssumption DEF Online, LinkTyped, Links
  <2>2. CutLinks = [link EXCEPT ![table] = [link[table] EXCEPT !.hub = "closing"]]
    BY <1>1, <1>2 DEF CutLinks, LinkTyped
  <2>3. [link[table] EXCEPT !.hub = "closing"] \in LinkRecords
    BY <1>1, <2>1 DEF LinkTyped, LinkRecords
  <2>4. link[table] \in LinkRecords BY <1>1, <2>1 DEF LinkTyped
  <2>5. CutLinks[table] = [link[table] EXCEPT !.hub = "closing"] BY <1>1, <2>1, <2>2 DEF LinkTyped
  <2>6. CutLinks[table].end = link[table].end /\ CutLinks[table].gen = link[table].gen
        /\ CutLinks[table].hub = "closing"
    BY <2>4, <2>5 DEF LinkRecords
  <2>7. \A k \in Links : k # table => CutLinks[k] = link[k] BY <1>1, <2>2 DEF LinkTyped
  <2>8. CutLinks \in [Links -> LinkRecords] BY <1>1, <2>2, <2>3 DEF LinkTyped
  <2> QED BY <1>2, <2>6, <2>7, <2>8
<1>3. CASE ~Online BY <1>1, <1>3 DEF CutLinks, LinkTyped
<1> QED BY <1>2, <1>3

\* A token that was rotated or a site that was removed takes the link with it.
LEMMA CutSteps ==
  ASSUME SiteInv, CutOff \/ ForgetSite
  PROVE  SiteInv'
<1>1. /\ LinkTyped /\ generation \in Nat /\ (table # 0 => table \in Links)
      /\ \A k \in Links : LinkOK(k) /\ link[k].gen \in Nat
  <2>1. LinkTyped /\ generation \in Nat /\ \A k \in Links : LinkOK(k) BY DEF SiteInv, LinkTyped
  <2>2. table # 0 => table \in Links BY <2>1, SiteLinkAssumption DEF LinkTyped, Links
  <2>3. \A k \in Links : link[k] \in LinkRecords BY <2>1 DEF LinkTyped
  <2> QED BY <2>1, <2>2, <2>3 DEF LinkRecords
<1>2. /\ link' = CutLinks /\ generation' = generation + 1 /\ admin' = "none"
      /\ UNCHANGED <<site, table, call, agent, toAgent>>
      /\ \/ UNCHANGED <<phone, wanted>> /\ site
         \/ phone' = "unknown" /\ wanted' = {}
  BY DEF CutOff, ForgetSite, HubState, Wires, SiteInv
<1>3. IsFiniteSet({}) BY FS_EmptySet
<1>4. LinkTyped'
  <2>1. generation' \in Nat /\ CutLinks \in [Links -> LinkRecords] BY <1>1, <1>2, CutLemma
  <2>2. wanted' \subseteq Viewers /\ IsFiniteSet(wanted') BY <1>1, <1>2, <1>3 DEF LinkTyped
  <2> QED BY <1>1, <1>2, <2>1, <2>2 DEF LinkTyped
<1>5. ~Online' BY <1>1, <1>2, CutLemma DEF Online
<1>6. ASSUME NEW k \in Links PROVE LinkOK(k)'
  <2>1. /\ link'[k].end = link[k].end /\ link'[k].gen = link[k].gen
        /\ link'[k].hub = IF k = table /\ Online THEN "closing" ELSE link[k].hub
    BY <1>2, CutLemma
  <2>2. Online => link[table].hub = "open" BY DEF Online
  <2>3. LinkOK(k) /\ link[k].gen < generation + 1 BY <1>1 DEF LinkOK
  <2> QED BY <1>1, <1>2, <2>1, <2>2, <2>3 DEF LinkOK
<1>7. PendingHasLink'
  <2>1. ASSUME NEW c \in SiteCalls, call[c].at = "pending"
        PROVE  CutLinks[call[c].on].hub \in {"open", "closing"}
    <3>1. link[call[c].on].hub \in {"open", "closing"} BY <2>1 DEF SiteInv, PendingHasLink
    <3>2. CASE call[c].on \in Links BY <3>1, <3>2, CutLemma
    <3>3. CASE call[c].on \notin Links
      <4>1. CASE Online
        <5>1. table \in Links /\ call[c].on # table BY <1>1, <3>3, <4>1 DEF Online
        <5>2. CutLinks[call[c].on] = link[call[c].on] BY <4>1, <5>1 DEF CutLinks
        <5> QED BY <3>1, <5>2
      <4>2. CASE ~Online BY <3>1, <4>2 DEF CutLinks
      <4> QED BY <4>1, <4>2
    <3> QED BY <3>2, <3>3
  <2> QED BY <1>2, <2>1 DEF PendingHasLink
<1>8. RemovedStaysGone' BY <1>2 DEF SiteInv, RemovedStaysGone
<1> QED BY <1>2, <1>4, <1>5, <1>6, <1>7, <1>8 DEF SiteInv, LinkIsAuthorized, StreamsFollow

\* A link is seen to have closed: it may be the site's, or one a newer link has replaced.
LEMMA HubClosedLemma ==
  ASSUME SiteInv, NEW k \in Links, HubClosed(k)
  PROVE  SiteInv'
<1> DEFINE r == [link[k] EXCEPT !.hub = "closed"]
<1>1. /\ LinkTyped /\ LinkOK(k) /\ link[k] \in LinkRecords /\ k # 0 /\ table \in 0..MaxLinks
      /\ 0 \in 0..MaxLinks
  BY SiteLinkAssumption DEF SiteInv, LinkTyped, Links
<1>2. r \in LinkRecords /\ r.hub = "closed" /\ r.end = link[k].end /\ r.gen = link[k].gen
  BY <1>1 DEF LinkRecords
<1>3. /\ link' = [link EXCEPT ![k] = r] /\ table' = IF table = k THEN 0 ELSE table
      /\ phone' = IF table = k /\ phone = "idle" THEN "offline" ELSE phone
      /\ UNCHANGED <<wanted, agent, site, generation, admin, toAgent>>
      /\ link[k].hub \in {"open", "closing"}
  BY <1>1 DEF HubClosed, HubMayClose, Store, Wires, LinkTyped
<1>4. /\ link'[k] = r /\ \A j \in Links : j # k => link'[j] = link[j]
      /\ link' \in [Links -> LinkRecords]
  BY <1>1, <1>2, <1>3 DEF LinkTyped
<1>5. call' = [c \in SiteCalls |-> call'[c]] /\
      \A c \in SiteCalls : call'[c] = IF call[c].at = "pending" /\ call[c].on = k
                                      THEN [call[c] EXCEPT !.at = "offline"] ELSE call[c]
  BY DEF HubClosed
<1>6. \A c \in SiteCalls : [call[c] EXCEPT !.at = "offline"] \in CallRecords
                           /\ [call[c] EXCEPT !.at = "offline"].at = "offline" /\ call[c] \in CallRecords
  BY <1>1 DEF LinkTyped, CallRecords
<1> HIDE DEF r
<1>7. call' \in [SiteCalls -> CallRecords] BY <1>5, <1>6
<1>8. LinkTyped' BY <1>1, <1>3, <1>4, <1>7 DEF LinkTyped
<1>9. ASSUME NEW j \in Links PROVE LinkOK(j)'
  <2>1. j # 0 BY DEF Links
  <2>2. LinkOK(j) BY DEF SiteInv
  <2>3. CASE j = k BY <1>1, <1>2, <1>3, <1>4, <2>1, <2>3 DEF LinkOK, Withdrawn
  <2>4. CASE j # k BY <1>3, <1>4, <2>1, <2>2, <2>4 DEF LinkOK, Withdrawn
  <2> QED BY <2>3, <2>4
<1>10. table # 0 => table \in Links BY <1>1 DEF Links
<1>11. Online' => Online /\ table' = table /\ link'[table] = link[table]
  BY <1>2, <1>3, <1>4, <1>10 DEF Online
<1>12. LinkIsAuthorized' /\ StreamsFollow'
  BY <1>3, <1>11 DEF SiteInv, LinkIsAuthorized, StreamsFollow
<1>13. RemovedStaysGone' BY <1>3 DEF SiteInv, RemovedStaysGone
<1>14. PendingHasLink'
  <2>1. ASSUME NEW c \in SiteCalls, call'[c].at = "pending"
        PROVE  link'[call'[c].on].hub \in {"open", "closing"}
    <3>1. call'[c] = call[c] /\ call[c].on # k BY <1>5, <1>6, <2>1
    <3>2. link'[call[c].on] = link[call[c].on] BY <1>1, <1>3, <3>1 DEF LinkTyped
    <3> QED BY <2>1, <3>1, <3>2 DEF SiteInv, PendingHasLink
  <2> QED BY <2>1 DEF PendingHasLink
<1> QED BY <1>3, <1>8, <1>9, <1>12, <1>13, <1>14 DEF SiteInv

\* A new link becomes the site's, and opens every stream that is watched.
LEMMA AcceptLemma ==
  ASSUME SiteInv, NEW k \in Links, Accept(k)
  PROVE  SiteInv'
<1>1. /\ LinkTyped /\ LinkOK(k) /\ k # 0 /\ k \in 0..MaxLinks
      /\ link[k].hub = "verified" /\ link[k].gen = generation
  BY SiteLinkAssumption DEF SiteInv, LinkTyped, Links, Accept, Acceptable
<1>2. k # table BY <1>1 DEF LinkOK
<1> DEFINE cut == CutLinks
           r == [cut[k] EXCEPT !.hub = "open"]
<1>3. /\ cut \in [Links -> LinkRecords] /\ cut[k] = link[k]
      /\ \A j \in Links : /\ cut[j].end = link[j].end /\ cut[j].gen = link[j].gen
                          /\ cut[j].hub = IF j = table /\ Online THEN "closing" ELSE link[j].hub
  BY <1>2, CutLemma
<1>4. link' = [cut EXCEPT ![k] = r] BY <1>3 DEF Accept
<1> HIDE DEF cut
<1>5. /\ r \in LinkRecords /\ r.hub = "open" /\ r.end = link[k].end /\ r.gen = generation
  BY <1>1, <1>3 DEF LinkRecords
<1> HIDE DEF r
<1>6. /\ link' \in [Links -> LinkRecords] /\ link'[k] = r
      /\ \A j \in Links : j # k => link'[j] = cut[j]
  BY <1>3, <1>4, <1>5
<1>7. table' = k /\ UNCHANGED <<agent, site, generation, admin, phone, wanted, call>>
  BY DEF Accept, Store, HubState
<1>8. PICK order \in [1..Cardinality(wanted) -> wanted] :
        /\ \A v \in wanted : \E i \in DOMAIN order : order[i] = v
        /\ toAgent' = [toAgent EXCEPT ![k] = [i \in DOMAIN order |-> <<"stream_open", order[i]>>]]
  BY DEF Accept
<1> DEFINE q == [i \in 1..Cardinality(wanted) |-> <<"stream_open", order[i]>>]
           n == Cardinality(wanted)
<1>9. n \in Nat BY <1>1, FS_CardinalityType DEF LinkTyped
<1>10. \A i \in 1..n : <<"stream_open", order[i]>> \in ToAgent /\ order[i] \in wanted
  BY <1>1 DEF LinkTyped, ToAgent
<1>11. q \in Seq(ToAgent) /\ Len(q) = n /\ \A i \in 1..n : q[i] = <<"stream_open", order[i]>>
  BY <1>9, <1>10
<1>12. toAgent' = [toAgent EXCEPT ![k] = q] BY <1>8
<1> HIDE DEF q, n
<1>13. toAgent' \in [Links -> Seq(ToAgent)] /\ toAgent'[k] = q BY <1>1, <1>11, <1>12 DEF LinkTyped
<1>14. LinkTyped' BY <1>1, <1>6, <1>7, <1>13 DEF LinkTyped
<1>15. ASSUME NEW j \in Links PROVE LinkOK(j)'
  <2>1. LinkOK(j) BY DEF SiteInv
  <2>2. CASE j = k BY <1>1, <1>5, <1>6, <1>7, <2>2 DEF LinkOK, Withdrawn
  <2>3. CASE j # k
    <3>1. /\ link'[j].end = link[j].end /\ link'[j].gen = link[j].gen
          /\ link'[j].hub = IF j = table /\ Online THEN "closing" ELSE link[j].hub
      BY <1>3, <1>6, <2>3
    <3>2. j = table /\ Online => link[j].hub = "open" BY DEF Online
    <3> QED BY <1>7, <2>1, <2>3, <3>1, <3>2 DEF LinkOK, Withdrawn
  <2> QED BY <2>2, <2>3
<1>16. Online' /\ LinkIsAuthorized'
  BY <1>1, <1>5, <1>6, <1>7 DEF Online, LinkIsAuthorized
<1>17. RemovedStaysGone' BY <1>1, <1>7 DEF SiteInv, RemovedStaysGone
<1>18. PendingHasLink'
  <2>1. ASSUME NEW c \in SiteCalls, call[c].at = "pending"
        PROVE  link'[call[c].on].hub \in {"open", "closing"}
    <3>1. link[call[c].on].hub \in {"open", "closing"} BY <2>1 DEF SiteInv, PendingHasLink
    <3>2. CASE call[c].on = k BY <1>1, <3>1, <3>2
    <3>3. CASE call[c].on # k /\ call[c].on \in Links
      BY <1>3, <1>6, <3>1, <3>3
    <3>4. CASE call[c].on \notin Links
      <4>1. link'[call[c].on] = CutLinks[call[c].on] BY <1>3, <1>4, <3>4 DEF cut
      <4>2. CASE Online
        <5>1. table \in Links BY <1>1, <4>2 DEF Online, LinkTyped, Links
        <5> QED BY <3>1, <3>4, <4>1, <4>2, <5>1 DEF CutLinks
      <4>3. CASE ~Online BY <3>1, <4>1, <4>3 DEF CutLinks
      <4> QED BY <4>2, <4>3
    <3> QED BY <3>2, <3>3, <3>4
  <2> QED BY <1>7, <2>1 DEF PendingHasLink
<1>19. StreamsFollow'
  <2> SUFFICES ASSUME link'[k].end \in {"connecting", "open"}, NEW v \in Viewers
               PROVE  v \in wanted <=> Ends(q, agent.streams, v)
    BY <1>7, <1>13 DEF StreamsFollow
  <2>1. agent.streams = {} BY <1>1, <1>5, <1>6 DEF LinkOK
  <2>2. \A i, j \in 1..n : <<"stream_open", order[i]>> # <<"stream_close", v>> OBVIOUS
  <2>3. \A j \in 1..n : q[j] # <<"stream_close", v>> BY <1>11, <2>2
  <2>4. Ends(q, agent.streams, v) <=> \E i \in 1..n : q[i] = <<"stream_open", v>>
    BY <1>11, <2>1, <2>3 DEF Ends
  <2>5. \A i \in 1..n : q[i] = <<"stream_open", v>> <=> order[i] = v BY <1>11
  <2>6. v \in wanted <=> \E i \in 1..n : order[i] = v BY <1>8, <1>10 DEF n
  <2> QED BY <2>4, <2>5, <2>6
<1> QED BY <1>7, <1>14, <1>15, <1>16, <1>17, <1>18, <1>19 DEF SiteInv

\* The calls: asked, answered on the link they went on, or given up.
LEMMA CallLemma ==
  ASSUME SiteInv, LinkTyped',
         UNCHANGED <<site, generation, admin, link, table, wanted, agent>>,
         UNCHANGED toAgent \/ \E c \in SiteCalls : toAgent' = Sent(<<"rpc", c>>),
         \A c \in SiteCalls : \/ call'[c].at # "pending"
                              \/ call'[c] = call[c]
                              \/ Online /\ call'[c].on = table,
         \/ phone' = phone
         \/ phone' \in {"idle", "offline"} /\ table # 0 /\ ~Withdrawn
  PROVE  SiteInv'
<1>1. LinkTyped /\ (table # 0 => table \in Links)
  BY SiteLinkAssumption DEF SiteInv, LinkTyped, Links
<1>2. \A k \in Links : LinkOK(k)' BY DEF SiteInv, LinkOK, Withdrawn
<1>3. LinkIsAuthorized' BY DEF SiteInv, LinkIsAuthorized, Online
<1>4. RemovedStaysGone'
  BY DEF SiteInv, RemovedStaysGone, Withdrawn
<1>5. PendingHasLink' BY DEF SiteInv, PendingHasLink, Online
<1>6. StreamsFollow'
  <2> SUFFICES ASSUME Online, link[table].end \in {"connecting", "open"}, NEW v \in Viewers
               PROVE  v \in wanted <=> Ends(toAgent'[table], agent.streams, v)
    BY DEF StreamsFollow, Online
  <2>1. v \in wanted <=> Ends(toAgent[table], agent.streams, v) BY DEF SiteInv, StreamsFollow
  <2>2. CASE UNCHANGED toAgent BY <2>1, <2>2
  <2>3. ASSUME NEW c \in SiteCalls, toAgent' = Sent(<<"rpc", c>>)
        PROVE  v \in wanted <=> Ends(toAgent'[table], agent.streams, v)
    <3>1. table \in Links BY <1>1 DEF Online
    <3>2. toAgent'[table] = Append(toAgent[table], <<"rpc", c>>)
      BY <1>1, <2>3, <3>1 DEF Sent, LinkTyped
    <3>3. toAgent[table] \in Seq(ToAgent) /\ <<"rpc", c>> \in ToAgent
      BY <1>1, <3>1 DEF LinkTyped, ToAgent
    <3>4. <<"rpc", c>> # <<"stream_open", v>> /\ <<"rpc", c>> # <<"stream_close", v>> OBVIOUS
    <3> QED BY <2>1, <3>2, <3>3, <3>4, SentLemma
  <2> QED BY <2>2, <2>3
<1> QED BY <1>2, <1>3, <1>4, <1>5, <1>6 DEF SiteInv

\* A message to the agent keeps the queues what they are.
LEMMA SentTyped ==
  ASSUME SiteInv, NEW m \in ToAgent
  PROVE  /\ Sent(m) \in [Links -> Seq(ToAgent)]
         /\ Online => Sent(m)[table] = Append(toAgent[table], m) /\ toAgent[table] \in Seq(ToAgent)
<1>1. LinkTyped /\ (table # 0 => table \in Links)
  BY SiteLinkAssumption DEF SiteInv, LinkTyped, Links
<1>2. CASE Online
  <2>1. table \in Links /\ toAgent[table] \in Seq(ToAgent) BY <1>1, <1>2 DEF Online, LinkTyped
  <2>2. Append(toAgent[table], m) \in Seq(ToAgent) BY <2>1, AppendProperties
  <2>3. Sent(m) = [toAgent EXCEPT ![table] = Append(toAgent[table], m)] BY <1>2 DEF Sent
  <2> QED BY <1>1, <2>1, <2>2, <2>3 DEF LinkTyped
<1>3. CASE ~Online BY <1>1, <1>3 DEF Sent, LinkTyped
<1> QED BY <1>2, <1>3

\* The steps of the calls.
LEMMA CallSteps ==
  ASSUME SiteInv,
         \/ \E c \in SiteCalls : CallPhone(c) \/ CallTimesOut(c)
         \/ \E k \in Links : HubHandles(k)
  PROVE  SiteInv'
<1>1. LinkTyped /\ call \in [SiteCalls -> CallRecords] /\ table \in 0..MaxLinks
      /\ 0 \in 0..MaxLinks
  BY SiteLinkAssumption DEF SiteInv, LinkTyped
<1>2. ASSUME NEW c \in SiteCalls, CallPhone(c) PROVE SiteInv'
  <2> DEFINE new == IF Online THEN [at |-> "pending", on |-> table] ELSE [at |-> "offline", on |-> 0]
  <2>1. /\ new \in CallRecords /\ (new.at = "pending" => Online /\ new.on = table)
    BY <1>1 DEF CallRecords
  <2>2. /\ call' = [call EXCEPT ![c] = new] /\ toAgent' = Sent(<<"rpc", c>>)
        /\ UNCHANGED <<site, generation, admin, link, table, wanted, agent, phone>>
    BY <1>2 DEF CallPhone, Store
  <2> HIDE DEF new
  <2>3. <<"rpc", c>> \in ToAgent BY DEF ToAgent
  <2>4. call' \in [SiteCalls -> CallRecords]
        /\ \A d \in SiteCalls : call'[d] = IF d = c THEN new ELSE call[d]
    BY <1>1, <2>1, <2>2
  <2>5. LinkTyped' BY <1>1, <2>2, <2>3, <2>4, SentTyped DEF LinkTyped
  <2> QED BY <2>1, <2>2, <2>4, <2>5, CallLemma
<1>3. ASSUME NEW c \in SiteCalls, NEW at \in {"timeout", "answered"},
             call' \in {call, [call EXCEPT ![c].at = at]},
             UNCHANGED <<site, generation, admin, link, table, wanted, agent, toAgent>>,
             \/ phone' = phone
             \/ phone' \in {"idle", "offline"} /\ table # 0 /\ ~Withdrawn
      PROVE  SiteInv'
  <2> DEFINE new == [call[c] EXCEPT !.at = at]
  <2>1. new \in CallRecords /\ new.at = at BY <1>1 DEF CallRecords
  <2>2. call' \in {call, [call EXCEPT ![c] = new]} BY <1>1, <1>3
  <2> HIDE DEF new
  <2>3. call' \in [SiteCalls -> CallRecords]
        /\ \A d \in SiteCalls : call'[d] = call[d] \/ call'[d].at # "pending"
    BY <1>1, <1>3, <2>1, <2>2
  <2>4. LinkTyped' BY <1>1, <1>3, <2>3 DEF LinkTyped
  <2> QED BY <1>3, <2>3, <2>4, CallLemma
<1>4. ASSUME NEW c \in SiteCalls, CallTimesOut(c) PROVE SiteInv'
  BY <1>3, <1>4 DEF CallTimesOut, Store, Wires
<1>5. ASSUME NEW k \in Links, HubHandles(k) PROVE SiteInv'
  <2>1. UNCHANGED <<site, generation, admin, link, table, wanted, agent, toAgent>>
    BY <1>5 DEF HubHandles, Store
  <2>2. CASE ~Current(k)
    <3>1. UNCHANGED <<phone, call>> BY <1>5, <2>2 DEF HubHandles
    <3>2. LinkTyped' BY <1>1, <2>1, <3>1 DEF LinkTyped
    <3> QED BY <2>1, <3>1, <3>2, CallLemma
  <2>3. CASE Current(k)
    <3> DEFINE m == reading[k]
    <3>1. Handled(k, m) BY <1>5, <2>3 DEF HubHandles
    <3> HIDE DEF m
    <3>2. table # 0 /\ ~Withdrawn
      BY <2>3 DEF Current, Links, SiteInv, LinkOK
    <3>3. phone' = phone \/ phone' \in {"idle", "offline"} BY <3>1 DEF Handled
    <3>4. call' = call \/ call' = [call EXCEPT ![m[2]].at = "answered"] BY <3>1 DEF Handled
    <3>5. CASE m[2] \in SiteCalls BY <1>3, <2>1, <3>2, <3>3, <3>4, <3>5
    <3>6. CASE m[2] \notin SiteCalls
      <4>1. call' = call BY <1>1, <3>4, <3>6
      <4>2. LinkTyped' BY <1>1, <2>1, <4>1 DEF LinkTyped
      <4> QED BY <2>1, <3>2, <3>3, <4>1, <4>2, CallLemma
    <3> QED BY <3>5, <3>6
  <2> QED BY <2>2, <2>3
<1> QED BY <1>2, <1>4, <1>5

\* The streams: watched, given up, and what the agent makes of it.
LEMMA StreamSteps ==
  ASSUME SiteInv,
         \/ \E v \in Viewers : OpenStream(v) \/ CloseStream(v)
         \/ \E k \in Links : AgentReads(k)
  PROVE  SiteInv'
<1>1. LinkTyped /\ (table # 0 => table \in Links) /\ agent \in AgentRecords
  BY SiteLinkAssumption DEF SiteInv, LinkTyped, Links
<1>2. ASSUME NEW w \in Viewers, NEW kind \in {"stream_open", "stream_close"},
             wanted' = IF kind = "stream_open" THEN wanted \cup {w} ELSE wanted \ {w},
             toAgent' = Sent(<<kind, w>>),
             UNCHANGED <<site, generation, admin, link, table, phone, call, agent>>
      PROVE  SiteInv'
  <2>1. IsFiniteSet(wanted \cup {w}) /\ IsFiniteSet(wanted \ {w})
    BY <1>1, FS_AddElement, FS_RemoveElement DEF LinkTyped
  <2>2. wanted' \subseteq Viewers /\ IsFiniteSet(wanted') BY <1>1, <1>2, <2>1 DEF LinkTyped
  <2>3. <<kind, w>> \in ToAgent BY DEF ToAgent
  <2>4. LinkTyped' BY <1>1, <1>2, <2>2, <2>3, SentTyped DEF LinkTyped
  <2>5. \A k \in Links : LinkOK(k)' BY <1>2 DEF SiteInv, LinkOK, Withdrawn
  <2>6. LinkIsAuthorized' /\ RemovedStaysGone' /\ PendingHasLink'
    BY <1>2 DEF SiteInv, LinkIsAuthorized, RemovedStaysGone, PendingHasLink, Online
  <2>7. StreamsFollow'
    <3> SUFFICES ASSUME Online, link[table].end \in {"connecting", "open"}, NEW v \in Viewers
                 PROVE  v \in wanted' <=> Ends(toAgent'[table], agent.streams, v)
      BY <1>2 DEF StreamsFollow, Online
    <3>1. v \in wanted <=> Ends(toAgent[table], agent.streams, v) BY DEF SiteInv, StreamsFollow
    <3>2. toAgent'[table] = Append(toAgent[table], <<kind, w>>) /\ toAgent[table] \in Seq(ToAgent)
      BY <1>2, <2>3, SentTyped
    <3>3. CASE w = v /\ kind = "stream_open"
      <4>1. Ends(toAgent'[table], agent.streams, v) BY <2>3, <3>2, <3>3, SentLemma
      <4> QED BY <1>2, <3>3, <4>1
    <3>4. CASE w = v /\ kind = "stream_close"
      <4>1. ~Ends(toAgent'[table], agent.streams, v) BY <2>3, <3>2, <3>4, SentLemma
      <4> QED BY <1>2, <3>4, <4>1
    <3>5. CASE w # v
      <4>1. <<kind, w>> # <<"stream_open", v>> /\ <<kind, w>> # <<"stream_close", v>> BY <3>5
      <4>2. Ends(toAgent'[table], agent.streams, v) <=> Ends(toAgent[table], agent.streams, v)
        BY <2>3, <3>2, <4>1, SentLemma
      <4> QED BY <1>2, <3>1, <3>5, <4>2
    <3> QED BY <3>3, <3>4, <3>5
  <2> QED BY <1>2, <2>4, <2>5, <2>6, <2>7 DEF SiteInv
<1>3. ASSUME NEW v \in Viewers, OpenStream(v) PROVE SiteInv'
  BY <1>2, <1>3 DEF OpenStream, Store
<1>4. ASSUME NEW v \in Viewers, CloseStream(v) PROVE SiteInv'
  BY <1>2, <1>4 DEF CloseStream, Store
<1>5. ASSUME NEW k \in Links, AgentReads(k) PROVE SiteInv'
  <2> DEFINE q == toAgent[k]
             m == Head(q)
             after == StreamsAfter(agent.streams, m)
             work == IF m[1] = "rpc" THEN agent.work \cup {m[2]} ELSE agent.work
  <2>1. q \in Seq(ToAgent) /\ q # <<>> /\ LinkOK(k) /\ k # 0
    <3>1. q \in Seq(ToAgent) BY <1>1 DEF LinkTyped
    <3>2. q # <<>> BY ZenonT(30), <1>5 DEF AgentReads
    <3>3. LinkOK(k) /\ k # 0 BY DEF SiteInv, Links
    <3> QED BY <3>1, <3>2, <3>3
  <2>2. m \in ToAgent /\ Tail(q) \in Seq(ToAgent) BY <2>1, HeadTailProperties
  <2>3. after \subseteq Viewers /\ work \subseteq SiteCalls
    <3>1. agent.streams \subseteq Viewers /\ agent.work \subseteq SiteCalls BY <1>1 DEF AgentRecords
    <3>2. (m[1] = "rpc" => m[2] \in SiteCalls) /\ (m[1] = "stream_open" => m[2] \in Viewers)
      BY <2>2 DEF ToAgent
    <3> QED BY <3>1, <3>2 DEF StreamsAfter
  <2>4. /\ agent' = [agent EXCEPT !.work = work, !.streams = after]
        /\ toAgent' = [toAgent EXCEPT ![k] = Tail(q)]
        /\ UNCHANGED <<site, generation, admin, link, table, phone, call, wanted>>
        /\ link[k].end = "open"
    BY ZenonT(30), <1>5 DEF AgentReads, Store, HubState, StreamsAfter
  <2> HIDE DEF work, after, m, q
  <2>5. agent' \in AgentRecords /\ agent'.streams = after /\ agent'.on = agent.on /\ agent.on = k
    BY <1>1, <2>1, <2>3, <2>4 DEF AgentRecords, LinkOK
  <2>6. toAgent' \in [Links -> Seq(ToAgent)] /\ toAgent'[k] = Tail(q)
    BY <1>1, <2>2, <2>4 DEF LinkTyped
  <2>7. LinkTyped' BY <1>1, <2>4, <2>5, <2>6 DEF LinkTyped
  <2>8. ASSUME NEW j \in Links PROVE LinkOK(j)'
    <3>1. LinkOK(j) /\ j # 0 BY DEF SiteInv, Links
    <3> QED BY <2>1, <2>4, <2>5, <3>1 DEF LinkOK, Withdrawn
  <2>9. LinkIsAuthorized' /\ RemovedStaysGone' /\ PendingHasLink'
    BY <2>4 DEF SiteInv, LinkIsAuthorized, RemovedStaysGone, PendingHasLink, Online
  <2>10. StreamsFollow'
    <3> SUFFICES ASSUME Online, link[table].end \in {"connecting", "open"}, NEW v \in Viewers
                 PROVE  v \in wanted <=> Ends(toAgent'[table], after, v)
      BY <2>4, <2>5 DEF StreamsFollow, Online
    <3>1. table \in Links /\ table = k
      BY <1>1, <2>5 DEF Online, SiteInv, LinkOK
    <3>2. v \in wanted <=> Ends(q, agent.streams, v) BY <3>1 DEF SiteInv, StreamsFollow, q
    <3>3. Ends(Tail(q), after, v) <=> Ends(q, agent.streams, v)
      BY <2>1, ReadLemma DEF after, m
    <3> QED BY <2>6, <3>1, <3>2, <3>3
  <2> QED BY <2>4, <2>5, <2>1, <2>7, <2>8, <2>9, <2>10 DEF SiteInv
<1> QED BY <1>3, <1>4, <1>5

\* Everything else: the phone and its summaries, the messages to the hub, the store.
LEMMA OtherSiteSteps ==
  ASSUME SiteInv,
         \/ \E k \in Links : HubReads(k)
         \/ \E c \in SiteCalls : AgentDone(c)
         \/ PhoneChanges \/ SendSummary \/ RotateToken \/ RemoveFromStore \/ CreateSite \/ GiveToken
         \/ UNCHANGED siteVars
  PROVE  SiteInv'
<1>1. LinkTyped /\ agent \in AgentRecords /\ site \in BOOLEAN BY DEF SiteInv, LinkTyped
<1>2. UNCHANGED <<generation, link, table, toAgent, wanted, phone, call>>
  BY DEF HubReads, AgentDone, PhoneChanges, SendSummary, RotateToken, RemoveFromStore, CreateSite,
         GiveToken, siteVars, HubState, Wires, Store
<1>3. agent' \in AgentRecords /\ agent'.on = agent.on /\ agent'.streams = agent.streams
  <2>1. CASE UNCHANGED agent BY <1>1, <2>1
  <2>2. CASE PhoneChanges BY <1>1, <2>2 DEF PhoneChanges, AgentRecords
  <2>3. CASE SendSummary BY <1>1, <2>3 DEF SendSummary, AgentRecords
  <2>4. ASSUME NEW c \in SiteCalls, AgentDone(c)
        PROVE  agent' \in AgentRecords /\ agent'.on = agent.on /\ agent'.streams = agent.streams
    BY <1>1, <2>4 DEF AgentDone, AgentRecords
  <2>5. CASE \/ \E k \in Links : HubReads(k)
             \/ RotateToken \/ RemoveFromStore \/ CreateSite \/ GiveToken \/ UNCHANGED siteVars
    BY <2>1, <2>5 DEF HubReads, RotateToken, RemoveFromStore, CreateSite, GiveToken, siteVars
  <2> QED BY <2>2, <2>3, <2>4, <2>5
<1>4. /\ site' \in BOOLEAN /\ admin' \in {"none", "rotated", "removed"}
      /\ admin' = "rotated" => site'
      /\ Withdrawn' => Withdrawn
  <2>1. CASE UNCHANGED <<site, admin>> BY <1>1, <2>1 DEF SiteInv, LinkTyped, Withdrawn
  <2>2. CASE RotateToken BY <1>1, <2>2 DEF RotateToken, Withdrawn
  <2>3. CASE RemoveFromStore BY <1>1, <2>3 DEF RemoveFromStore, Withdrawn
  <2>4. CASE CreateSite BY <1>1, <2>4 DEF CreateSite, Withdrawn
  <2>5. CASE \/ \E k \in Links : HubReads(k)
             \/ \E c \in SiteCalls : AgentDone(c)
             \/ PhoneChanges \/ SendSummary \/ GiveToken \/ UNCHANGED siteVars
    BY <2>1, <2>5 DEF HubReads, AgentDone, PhoneChanges, SendSummary, GiveToken, siteVars, Store
  <2> QED BY <2>2, <2>3, <2>4, <2>5
<1>5. LinkTyped' BY <1>1, <1>2, <1>3, <1>4 DEF LinkTyped
<1> QED BY <1>2, <1>3, <1>4, <1>5, SiteFrameLemma

\* Both ends of every link, the calls that wait for one and the streams on their way are kept
\* in step by every message, loss, reconnection and withdrawal.
THEOREM SiteInvariance == SiteSpec => []SiteInv
<1>1. SiteInv /\ [SiteNext]_siteVars => SiteInv'
  BY LinkSteps, HubClosedLemma, AcceptLemma, CallSteps, StreamSteps, CutSteps, OtherSiteSteps
     DEF SiteNext
<1> QED BY <1>1, SiteInitLemma, PTL DEF SiteSpec

\* What the hub keeps of a site is of the link it has now: the authorization, the phones, the
\* calls that wait and the streams.
THEOREM SitesAreCurrent == SiteSpec => []SiteIsCurrent
<1>1. SiteInv => SiteIsCurrent
  <2> SUFFICES ASSUME SiteInv PROVE StreamsMatch
    BY DEF SiteInv, SiteIsCurrent
  <2> SUFFICES ASSUME Online, link[table].end = "open", toAgent[table] = <<>>
               PROVE  agent.streams = wanted
    BY DEF StreamsMatch
  <2>1. Len(toAgent[table]) = 0 OBVIOUS
  <2>2. \A v \in Viewers : v \in wanted <=> Ends(toAgent[table], agent.streams, v)
    BY DEF SiteInv, StreamsFollow
  <2>3. \A v \in Viewers : v \in wanted <=> v \in agent.streams BY <2>1, <2>2 DEF Ends
  <2>4. wanted \subseteq Viewers /\ agent.streams \subseteq Viewers
    BY DEF SiteInv, LinkTyped, AgentRecords
  <2> QED BY <2>3, <2>4
<1> QED BY <1>1, SiteInvariance, PTL

------------------------------------------------------------------------------
(* Who works on what (Assignments)                                         *)

WindowRecords == [start : Nat, end : Nat]
WorkRecords ==
  [assignee : People, phone : Bookable \cup {Unset}, window : WindowRecords \cup {Unset},
   exclusive : BOOLEAN, step : Steps,
   status : {"assigned", "in_progress", "completed", "cancelled", "expired"}]

\* What is said of one assignment at hour h: it has a next window if it has another occurrence,
\* and was begun when its window had.
WorkOK(work, h) ==
  /\ work \in WorkRecords
  /\ work.window = Unset => work.step = 0
  /\ work.status = "in_progress" /\ work.window # Unset => work.window.start <= h

BoardInv ==
  /\ hour \in Nat
  /\ assignments = [id \in DOMAIN assignments |-> assignments[id]]
  /\ \A id \in DOMAIN assignments : WorkOK(assignments[id], hour)
  /\ renaming \in [from : People, to : People, moved : BOOLEAN] \cup {NoRenaming}

\* Two assignments that collide after a step did so before it, or one sweep moved both, or
\* it is a step of a rename: a step of NeverBookedTwice.
BookedOnce ==
  \A one, other \in DOMAIN assignments' :
    one # other /\ Clash(assignments'[one], assignments'[other]) =>
      \/ {one, other} \subseteq DOMAIN assignments /\ Clash(assignments[one], assignments[other])
      \/ {one, other} \subseteq DOMAIN assignments
           /\ Due(assignments[one]) /\ Due(assignments[other])
      \/ renaming' # renaming

\* A step of ClosedIsClosed.
ClosedStays ==
  \A id \in DOMAIN assignments : ~IsActive(assignments[id]) =>
    id \in DOMAIN assignments'
      /\ [assignments'[id] EXCEPT !.assignee = Unset] = [assignments[id] EXCEPT !.assignee = Unset]
      /\ (assignments'[id].assignee # assignments[id].assignee => renaming' # renaming)

\* What every step does.
Honest == BoardInv' /\ BookedOnce /\ ClosedStays

\* A set of numbers that is not empty has a least one.
LEMMA LeastLemma ==
  ASSUME NEW T, T \subseteq Nat, T # {}
  PROVE  \E x \in T : \A y \in T : x <= y
<1>1. \A x, y \in Nat : <<x, y>> \in OpToRel(<, Nat) <=> x < y
  BY DEF OpToRel
<1>2. PICK R : R = OpToRel(<, Nat) OBVIOUS
<1>3. IsWellFoundedOn(R, Nat) BY ZenonT(30), <1>2, NatLessThanWellFounded
<1>4. \A x, y \in Nat : <<x, y>> \in R <=> x < y BY ZenonT(30), <1>1, <1>2
<1>5. \E x \in T : \A y \in T : ~(<<y, x>> \in R) BY <1>3, WFMin
<1>6. PICK x \in T : \A y \in T : ~(<<y, x>> \in R) BY <1>5
<1>7. ASSUME NEW y \in T PROVE x <= y
  <2>1. x \in Nat /\ y \in Nat OBVIOUS
  <2>2. ~(y < x) BY <1>4, <1>6, <2>1
  <2> QED BY <2>1, <2>2
<1> QED BY <1>7

\* The next window exists and is one.
LEMMA AdvancedLemma ==
  ASSUME NEW w \in WindowRecords, NEW step \in Nat \ {0}, hour \in Nat
  PROVE  Advanced(w, step) \in WindowRecords
<1> DEFINE later(k) == w.end + k * step > hour
           T == {k \in 1..(hour + 1) : later(k)}
           First(k) == later(k) /\ \A j \in 1..(k - 1) : ~later(j)
<1>0. w.start \in Nat /\ w.end \in Nat BY DEF WindowRecords
<1>1. hour + 1 \in T
  <2>1. (hour + 1) * step >= hour + 1 OBVIOUS
  <2>2. (hour + 1) * step \in Nat OBVIOUS
  <2> QED BY <1>0, <2>1, <2>2
<1>2. PICK x \in T : \A y \in T : x <= y
  <2>1. T \in SUBSET Nat OBVIOUS
  <2>2. T # {} BY <1>1
  <2> HIDE DEF T
  <2> QED BY <2>1, <2>2, LeastLemma
<1>3. x \in 1..(hour + 1) /\ First(x)
  <2> SUFFICES ASSUME NEW j \in 1..(x - 1), later(j) PROVE FALSE BY DEF First
  <2>1. j \in 1..(hour + 1) /\ j < x OBVIOUS
  <2>2. j \in T BY <2>1
  <2> QED BY <1>2, <2>1, <2>2
<1> DEFINE first == CHOOSE k \in 1..(hour + 1) : First(k)
<1>4. first \in 1..(hour + 1) BY <1>3
<1>5. Advanced(w, step) = [start |-> w.start + first * step, end |-> w.end + first * step]
  BY DEF Advanced
<1> HIDE DEF first
<1>6. first * step \in Nat BY <1>4
<1> QED BY <1>0, <1>5, <1>6 DEF WindowRecords

\* The fields of an assignment.
LEMMA FieldsLemma ==
  ASSUME NEW work \in WorkRecords
  PROVE  /\ work.assignee \in People /\ work.phone \in Bookable \cup {Unset}
         /\ work.window \in WindowRecords \cup {Unset}
         /\ work.exclusive \in BOOLEAN /\ work.step \in Steps /\ work.step \in Nat
         /\ work.status \in {"assigned", "in_progress", "completed", "cancelled", "expired"}
BY WorkAssumption DEF WorkRecords

\* An assignment that is changed in one field.
LEMMA ChangedLemma ==
  ASSUME NEW work \in WorkRecords
  PROVE  /\ \A s \in {"assigned", "in_progress", "completed", "cancelled", "expired"} :
              [work EXCEPT !.status = s] \in WorkRecords
         /\ \A window \in WindowRecords \cup {Unset}, exclusive \in BOOLEAN :
              [work EXCEPT !.window = window, !.exclusive = exclusive] \in WorkRecords
         /\ \A name \in People : /\ [work EXCEPT !.assignee = name] \in WorkRecords
                                  /\ [work EXCEPT !.assignee = name, !.status = "assigned"] \in WorkRecords
BY ZenonT(30) DEF WorkRecords

\* Work that recurs goes on at its next window.
LEMMA TakenUpLemma ==
  ASSUME NEW work, NEW h, WorkOK(work, h), work.step # 0, hour \in Nat
  PROVE  WorkOK(TakenUpAgain(work), hour)
<1>1. /\ work \in WorkRecords /\ work.window # Unset
      /\ work.window \in WindowRecords /\ work.step \in Nat \ {0}
  BY FieldsLemma DEF WorkOK
<1>2. Advanced(work.window, work.step) \in WindowRecords BY <1>1, AdvancedLemma
<1>3. PICK window \in WindowRecords : window = Advanced(work.window, work.step) /\ window # Unset
  BY <1>2, WorkAssumption DEF WindowRecords
<1> DEFINE next == [work EXCEPT !.status = "assigned", !.window = window]
<1>4. TakenUpAgain(work) = next BY <1>3 DEF TakenUpAgain
<1>5. next \in WorkRecords BY <1>1 DEF WorkRecords
<1>6. next.status = "assigned" /\ next.step = work.step BY <1>1 DEF WorkRecords
<1>7. next.window = window BY <1>1 DEF WorkRecords
<1> HIDE DEF next
<1> QED BY <1>1, <1>3, <1>4, <1>5, <1>6, <1>7 DEF WorkOK

\* Collisions are mutual, and nothing but times, phones and people matters to them.
LEMMA CollideLemma ==
  /\ \A one, other : Collide(one, other) => Collide(other, one)
  /\ \A one, other : Clash(one, other) => Clash(other, one)
  /\ \A work \in WorkRecords : \A other, s :
       Collide([work EXCEPT !.status = s], other) => Collide(work, other)
<1>1. \A one, other : Collide(one, other) => Collide(other, one)
  BY DEF Collide
<1>2. \A one, other : Clash(one, other) => Clash(other, one)
  BY <1>1 DEF Clash
<1>3. ASSUME NEW work \in WorkRecords, NEW other, NEW s,
             Collide([work EXCEPT !.status = s], other)
      PROVE  Collide(work, other)
  <2> DEFINE w == [work EXCEPT !.status = s]
  <2>1. /\ w.assignee = work.assignee /\ w.phone = work.phone
        /\ w.window = work.window /\ w.exclusive = work.exclusive
    BY DEF WorkRecords
  <2>2. Collide(w, other) BY <1>3
  <2> HIDE DEF w
  <2> QED BY <2>1, <2>2 DEF Collide
<1> QED BY <1>1, <1>2, <1>3

\* What the sweep does to an assignment.
LEMMA AfterSweepLemma ==
  ASSUME BoardInv, NEW id \in DOMAIN assignments
  PROVE  /\ WorkOK(AfterSweep(id), hour)
         /\ ~Due(assignments[id]) => AfterSweep(id) = assignments[id]
         /\ IsActive(AfterSweep(id)) => IsActive(assignments[id])
         /\ IsActive(AfterSweep(id)) =>
              \/ AfterSweep(id) = assignments[id]
              \/ ~Overlaps(assignments, AfterSweep(id), id)
<1> DEFINE work == assignments[id]
<1>1. WorkOK(work, hour) /\ hour \in Nat /\ work \in WorkRecords BY DEF BoardInv, WorkOK
<1>2. CASE ~Due(work)
  <2>1. AfterSweep(id) = work BY <1>2 DEF AfterSweep
  <2> QED BY <1>1, <1>2, <2>1
<1>3. CASE Due(work) /\ work.step = 0
  <2> DEFINE over == [work EXCEPT !.status = "expired"]
  <2>1. AfterSweep(id) = over BY <1>3 DEF AfterSweep
  <2>2. over \in WorkRecords BY ZenonT(30), <1>1, ChangedLemma
  <2>3. over.status = "expired" /\ over.step = 0 BY <1>1, <1>3 DEF WorkRecords
  <2> HIDE DEF over
  <2> QED BY <1>1, <1>3, <2>1, <2>2, <2>3 DEF WorkOK, IsActive
<1>4. CASE Due(work) /\ work.step # 0
  <2>1. AfterSweep(id) = IF Overlaps(assignments, TakenUpAgain(work), id) THEN work ELSE TakenUpAgain(work)
    BY <1>4 DEF AfterSweep
  <2>2. WorkOK(TakenUpAgain(work), hour) BY <1>1, <1>4, TakenUpLemma
  <2>3. IsActive(work) BY <1>4 DEF Due
  <2> QED BY <1>1, <1>4, <2>1, <2>2, <2>3
<1> QED BY <1>2, <1>3, <1>4

\* Two assignments that collide on the swept board collided before, or were both due.
LEMMA SweptClashLemma ==
  ASSUME BoardInv, NEW one \in DOMAIN assignments, NEW other \in DOMAIN assignments, one # other,
         Clash(Swept[one], Swept[other])
  PROVE  \/ Clash(assignments[one], assignments[other])
         \/ Due(assignments[one]) /\ Due(assignments[other])
<1>1. Swept[one] = AfterSweep(one) /\ Swept[other] = AfterSweep(other) BY DEF Swept
<1>2. IsActive(AfterSweep(one)) /\ IsActive(AfterSweep(other))
      /\ Collide(AfterSweep(one), AfterSweep(other)) /\ Collide(AfterSweep(other), AfterSweep(one))
  BY <1>1, CollideLemma DEF Clash
<1>3. CASE ~Due(assignments[one])
  <2>1. AfterSweep(one) = assignments[one] BY <1>3, AfterSweepLemma
  <2>2. AfterSweep(other) = assignments[other]
    <3> SUFFICES ASSUME ~Overlaps(assignments, AfterSweep(other), other) PROVE FALSE
      BY <1>2, AfterSweepLemma
    <3> QED BY <1>2, <2>1 DEF Overlaps
  <2> QED BY <1>2, <2>1, <2>2 DEF Clash
<1>4. CASE ~Due(assignments[other])
  <2>1. AfterSweep(other) = assignments[other] BY <1>4, AfterSweepLemma
  <2>2. AfterSweep(one) = assignments[one]
    <3> SUFFICES ASSUME ~Overlaps(assignments, AfterSweep(one), one) PROVE FALSE
      BY <1>2, AfterSweepLemma
    <3> QED BY <1>2, <2>1 DEF Overlaps
  <2> QED BY <1>2, <2>1, <2>2 DEF Clash
<1> QED BY <1>3, <1>4

\* An assignment that was closed is not touched by the sweep.
LEMMA SweptClosedLemma ==
  ASSUME BoardInv, NEW id \in DOMAIN assignments, ~IsActive(assignments[id])
  PROVE  Swept[id] = assignments[id]
BY AfterSweepLemma DEF Swept, Due

\* The sweep.
LEMMA SweepLemma ==
  ASSUME BoardInv, SweepBoard
  PROVE  Honest
<1>1. assignments' = Swept /\ UNCHANGED <<hour, staff, renaming, workChanges>> BY DEF SweepBoard
<1>2. DOMAIN assignments' = DOMAIN assignments /\ assignments' = [id \in DOMAIN assignments' |-> assignments'[id]]
  BY <1>1 DEF Swept
<1>3. BoardInv'
  <2>1. ASSUME NEW id \in DOMAIN assignments PROVE WorkOK(assignments'[id], hour')
    BY <1>1, AfterSweepLemma DEF Swept
  <2> QED BY <1>1, <1>2, <2>1 DEF BoardInv
<1>4. BookedOnce BY <1>1, <1>2, SweptClashLemma DEF BookedOnce
<1>5. ClosedStays BY <1>1, <1>2, SweptClosedLemma DEF ClosedStays
<1> QED BY <1>3, <1>4, <1>5 DEF Honest

\* Work is put on the swept board in the place of what was open there, or in a free one, and
\* collides with nothing the work before it did not collide with.
LEMMA WriteLemma ==
  ASSUME BoardInv, UNCHANGED <<hour, staff, renaming>>, NEW id, NEW work, WorkOK(work, hour),
         assignments' = [other \in DOMAIN assignments \cup {id} |->
                           IF other = id THEN work ELSE Swept[other]],
         id \in DOMAIN assignments => IsActive(Swept[id]),
         \A other \in DOMAIN assignments \ {id} :
           Clash(work, Swept[other]) => id \in DOMAIN assignments /\ Clash(Swept[id], Swept[other])
  PROVE  Honest
<1>1. /\ DOMAIN assignments' = DOMAIN assignments \cup {id} /\ assignments'[id] = work
      /\ \A other \in DOMAIN assignments \ {id} : assignments'[other] = Swept[other]
      /\ assignments' = [other \in DOMAIN assignments' |-> assignments'[other]]
  OBVIOUS
<1>2. BoardInv'
  <2>1. ASSUME NEW x \in DOMAIN assignments' PROVE WorkOK(assignments'[x], hour')
    <3>1. CASE x = id BY <1>1, <3>1
    <3>2. CASE x # id
      <4>1. assignments'[x] = AfterSweep(x) /\ x \in DOMAIN assignments
        BY <1>1, <3>2 DEF Swept
      <4> QED BY <4>1, AfterSweepLemma
    <3> QED BY <3>1, <3>2
  <2> QED BY <1>1, <2>1 DEF BoardInv
<1>3. BookedOnce
  <2> SUFFICES ASSUME NEW one \in DOMAIN assignments', NEW other \in DOMAIN assignments',
                      one # other, Clash(assignments'[one], assignments'[other])
               PROVE  /\ {one, other} \subseteq DOMAIN assignments
                      /\ \/ Clash(assignments[one], assignments[other])
                         \/ Due(assignments[one]) /\ Due(assignments[other])
    BY DEF BookedOnce
  <2>1. {one, other} \subseteq DOMAIN assignments /\ Clash(Swept[one], Swept[other])
    <3>1. CASE one = id BY <1>1, <3>1
    <3>2. CASE other = id
      <4>1. Clash(work, Swept[one]) BY <1>1, <3>2, CollideLemma
      <4>2. id \in DOMAIN assignments /\ Clash(Swept[id], Swept[one]) /\ one \in DOMAIN assignments
        BY <1>1, <3>2, <4>1
      <4> QED BY <3>2, <4>2, CollideLemma
    <3>3. CASE one # id /\ other # id BY <1>1, <3>3
    <3> QED BY <3>1, <3>2, <3>3
  <2> QED BY <2>1, SweptClashLemma
<1>4. ClosedStays
  <2>1. ASSUME NEW other \in DOMAIN assignments, ~IsActive(assignments[other])
        PROVE  other \in DOMAIN assignments' /\ assignments'[other] = assignments[other]
    <3>1. Swept[other] = assignments[other] BY <2>1, SweptClosedLemma
    <3>2. other # id BY <2>1, <3>1
    <3> QED BY <1>1, <3>1, <3>2
  <2> QED BY <2>1 DEF ClosedStays
<1> QED BY <1>2, <1>3, <1>4 DEF Honest

\* Put, for an assignment that is new or open.
LEMMA PutLemma ==
  ASSUME BoardInv, UNCHANGED <<hour, staff, renaming>>, NEW id, NEW work, WorkOK(work, hour),
         Put(id, work), id \in DOMAIN assignments => IsActive(Swept[id])
  PROVE  Honest
<1>1. ASSUME NEW other \in DOMAIN assignments \ {id} PROVE ~Clash(work, Swept[other])
  <2>1. other \in DOMAIN Swept \ {id} BY DEF Swept
  <2> QED BY <2>1 DEF Put, Overlaps, Clash
<1> QED BY <1>1, WriteLemma DEF Put

\* A status is set on open work.
LEMMA PutStatusLemma ==
  ASSUME BoardInv, UNCHANGED <<hour, staff, renaming>>, NEW id \in DOMAIN assignments,
         NEW s \in {"in_progress", "completed", "cancelled"}, PutStatus(id, s), IsActive(Swept[id]),
         s = "in_progress" /\ Swept[id].window # Unset => Swept[id].window.start <= hour
  PROVE  Honest
<1> DEFINE old == Swept[id]
           work == [old EXCEPT !.status = s]
<1>1. WorkOK(old, hour) BY AfterSweepLemma DEF Swept
<1>2. old \in WorkRecords BY <1>1 DEF WorkOK
<1>3. work \in WorkRecords BY ZenonT(30), <1>2, ChangedLemma
<1>4. work.status = s /\ work.window = old.window /\ work.step = old.step BY <1>2 DEF WorkRecords
<1>5. assignments' = [other \in DOMAIN assignments \cup {id} |-> IF other = id THEN work ELSE Swept[other]]
  <2>1. DOMAIN Swept = DOMAIN assignments /\ DOMAIN assignments \cup {id} = DOMAIN assignments BY DEF Swept
  <2>2. Swept = [other \in DOMAIN assignments |-> Swept[other]] BY DEF Swept
  <2> HIDE DEF Swept
  <2> QED BY <2>1, <2>2 DEF PutStatus
<1>6. \A other \in DOMAIN assignments \ {id} : Clash(work, Swept[other]) => Clash(old, Swept[other])
  BY <1>2, CollideLemma DEF Clash
<1>7. WorkOK(work, hour)
  <2> HIDE DEF work
  <2> QED BY <1>1, <1>3, <1>4 DEF WorkOK
<1> HIDE DEF work
<1> QED BY <1>5, <1>6, <1>7, WriteLemma

\* A rename moves work from one person to another.
LEMMA MoveLemma ==
  ASSUME BoardInv, UNCHANGED hour, NEW from, NEW to \in People, MovesTo(from, to),
         renaming' # renaming,
         renaming' \in [from : People, to : People, moved : BOOLEAN] \cup {NoRenaming}
  PROVE  Honest
<1>1. DOMAIN assignments' = DOMAIN assignments
      /\ assignments' = [id \in DOMAIN assignments' |-> assignments'[id]]
  BY DEF MovesTo
<1>2. ASSUME NEW id \in DOMAIN assignments
      PROVE  assignments'[id] \in {assignments[id], [assignments[id] EXCEPT !.assignee = to]}
  BY DEF MovesTo
<1>3. BoardInv'
  <2>1. ASSUME NEW id \in DOMAIN assignments PROVE WorkOK(assignments'[id], hour')
    <3> DEFINE old == assignments[id]
               new == assignments'[id]
    <3>1. WorkOK(old, hour) BY DEF BoardInv
    <3>2. old \in WorkRecords BY <3>1 DEF WorkOK
    <3>3. new \in WorkRecords BY ZenonT(30), <1>2, <3>2, ChangedLemma
    <3>4. new.status = old.status /\ new.window = old.window /\ new.step = old.step
      BY <1>2, <3>2 DEF WorkRecords
    <3> HIDE DEF old, new
    <3>5. WorkOK(new, hour) BY <3>1, <3>3, <3>4 DEF WorkOK
    <3> QED BY <3>5 DEF new
  <2> QED BY <1>1, <2>1 DEF BoardInv
<1>4. BookedOnce BY DEF BookedOnce
<1>5. ClosedStays
  <2>1. ASSUME NEW id \in DOMAIN assignments
        PROVE  [assignments'[id] EXCEPT !.assignee = Unset] = [assignments[id] EXCEPT !.assignee = Unset]
    <3>1. assignments[id] \in WorkRecords BY DEF BoardInv, WorkOK
    <3> QED BY <1>2, <3>1 DEF WorkRecords
  <2> QED BY <1>1, <2>1 DEF ClosedStays
<1> QED BY <1>3, <1>4, <1>5 DEF Honest

\* The board stays as it was, while time may pass.
LEMMA StillLemma ==
  ASSUME BoardInv, UNCHANGED assignments, hour' \in Nat, hour <= hour',
         renaming' \in [from : People, to : People, moved : BOOLEAN] \cup {NoRenaming}
  PROVE  Honest
<1>1. BoardInv'
  <2>1. ASSUME NEW id \in DOMAIN assignments PROVE WorkOK(assignments[id], hour')
    <3> DEFINE work == assignments[id]
    <3>1. WorkOK(work, hour) BY DEF BoardInv
    <3>2. work.window # Unset => work.window.start \in Nat
      BY <3>1, FieldsLemma DEF WorkOK, WindowRecords
    <3>3. hour \in Nat BY DEF BoardInv
    <3> HIDE DEF work
    <3>4. WorkOK(work, hour') BY <3>1, <3>2, <3>3 DEF WorkOK
    <3> QED BY <3>4 DEF work
  <2> QED BY <2>1 DEF BoardInv
<1>2. BookedOnce BY DEF BookedOnce
<1>3. ClosedStays BY DEF ClosedStays
<1> QED BY <1>1, <1>2, <1>3 DEF Honest

\* The swept assignment and its fields.
LEMMA SweptLemma ==
  ASSUME BoardInv, NEW id \in DOMAIN assignments
  PROVE  WorkOK(Swept[id], hour) /\ Swept[id] \in WorkRecords /\ hour \in Nat
<1>1. WorkOK(Swept[id], hour) BY AfterSweepLemma DEF Swept
<1> QED BY <1>1 DEF WorkOK, BoardInv

\* The windows that may be asked for.
LEMMA WindowsLemma == Windows \subseteq WindowRecords \cup {Unset}
BY WorkAssumption DEF Windows, WindowRecords

\* Requests.
LEMMA CreateLemma ==
  ASSUME BoardInv, NEW id \in Work, NEW name \in People, NEW place \in Bookable \cup {Unset},
         NEW window \in Windows, NEW exclusive \in BOOLEAN, NEW step \in Steps,
         Create(id, name, place, window, exclusive, step)
  PROVE  Honest
<1> DEFINE work == [assignee |-> name, phone |-> place, window |-> window, exclusive |-> exclusive,
                    step |-> step, status |-> "assigned"]
<1>1. work \in WorkRecords /\ work.status = "assigned" /\ work.window = window /\ work.step = step
  BY WindowsLemma DEF WorkRecords
<1>2. /\ id \notin DOMAIN assignments /\ (window = Unset => step = 0)
      /\ Put(id, work) /\ UNCHANGED <<hour, staff, renaming>>
  BY DEF Create, ARequest
<1> HIDE DEF work
<1>3. WorkOK(work, hour) BY <1>1, <1>2 DEF WorkOK
<1> QED BY <1>2, <1>3, PutLemma

\* Taking work up.
LEMMA StartLemma ==
  ASSUME BoardInv, NEW id \in Work, StartWork(id)
  PROVE  Honest
<1>1. /\ id \in DOMAIN assignments /\ UNCHANGED <<hour, staff, renaming>>
      /\ Swept[id].status = "assigned" /\ (Swept[id].window # Unset => Swept[id].window.start <= hour)
      /\ PutStatus(id, "in_progress")
  BY DEF StartWork, ARequest
<1>2. IsActive(Swept[id]) BY <1>1 DEF IsActive
<1> QED BY <1>1, <1>2, PutStatusLemma

\* Completing it.
LEMMA CompleteLemma ==
  ASSUME BoardInv, NEW id \in Work, CompleteWork(id)
  PROVE  Honest
<1>1. /\ id \in DOMAIN assignments /\ UNCHANGED <<hour, staff, renaming>>
      /\ Swept[id].status = "in_progress"
  BY DEF CompleteWork, ARequest
<1>2. IsActive(Swept[id]) BY <1>1 DEF IsActive
<1>3. CASE Swept[id].step = 0
  <2>1. PutStatus(id, "completed") BY <1>3 DEF CompleteWork
  <2> QED BY <1>1, <1>2, <2>1, PutStatusLemma
<1>4. CASE Swept[id].step # 0
  <2>1. Put(id, TakenUpAgain(Swept[id])) BY <1>4 DEF CompleteWork
  <2>2. WorkOK(TakenUpAgain(Swept[id]), hour) BY <1>1, <1>4, SweptLemma, TakenUpLemma
  <2> QED BY <1>1, <1>2, <2>1, <2>2, PutLemma
<1> QED BY <1>3, <1>4

\* Cancelling it.
LEMMA CancelLemma ==
  ASSUME BoardInv, NEW id \in Work, CancelWork(id)
  PROVE  Honest
<1>1. /\ id \in DOMAIN assignments /\ UNCHANGED <<hour, staff, renaming>>
      /\ IsActive(Swept[id]) /\ PutStatus(id, "cancelled")
  BY DEF CancelWork, ARequest
<1> QED BY <1>1, PutStatusLemma

\* Giving it to another person.
LEMMA ReassignLemma ==
  ASSUME BoardInv, NEW id \in Work, NEW name \in People, Reassign(id, name)
  PROVE  Honest
<1> DEFINE old == Swept[id]
           work == [old EXCEPT !.assignee = name, !.status = "assigned"]
<1>1. /\ id \in DOMAIN assignments /\ UNCHANGED <<hour, staff, renaming>>
      /\ IsActive(Swept[id]) /\ Put(id, work)
  BY DEF Reassign, ARequest
<1>2. WorkOK(old, hour) /\ old \in WorkRecords BY <1>1, SweptLemma
<1>3. work \in WorkRecords BY ZenonT(30), <1>2, ChangedLemma
<1>4. work.status = "assigned" /\ work.window = old.window /\ work.step = old.step
  BY <1>2 DEF WorkRecords
<1> HIDE DEF work, old
<1>5. WorkOK(work, hour) BY <1>2, <1>3, <1>4 DEF WorkOK
<1> QED BY <1>1, <1>5, PutLemma

\* Giving it another window.
LEMMA RescheduleLemma ==
  ASSUME BoardInv, NEW id \in Work, NEW window \in Windows, NEW exclusive \in BOOLEAN,
         Reschedule(id, window, exclusive)
  PROVE  Honest
<1> DEFINE old == Swept[id]
           work == [old EXCEPT !.window = window, !.exclusive = exclusive]
<1>1. /\ id \in DOMAIN assignments /\ UNCHANGED <<hour, staff, renaming>>
      /\ IsActive(Swept[id]) /\ Put(id, work)
      /\ window = Unset => old.step = 0
      /\ window # Unset => (old.status = "in_progress" => window.start <= hour)
  BY DEF Reschedule, ARequest
<1>2. WorkOK(old, hour) /\ old \in WorkRecords BY <1>1, SweptLemma
<1>3. work \in WorkRecords BY ZenonT(30), <1>2, WindowsLemma, ChangedLemma
<1>4. work.status = old.status /\ work.window = window /\ work.step = old.step
  BY <1>2 DEF WorkRecords
<1> HIDE DEF work, old
<1>5. WorkOK(work, hour) BY <1>1, <1>3, <1>4 DEF WorkOK
<1> QED BY <1>1, <1>5, PutLemma

\* The steps of a rename.
LEMMA RenameLemma ==
  ASSUME BoardInv,
         \/ \E from \in People, to \in People : RenameAsked(from, to)
         \/ RenameMovesWork \/ RenameCommits \/ RenameFails
  PROVE  Honest
<1> DEFINE Renamings == [from : People, to : People, moved : BOOLEAN]
<1>1. renaming \in Renamings \cup {NoRenaming} /\ hour \in Nat BY DEF BoardInv
<1>2. ASSUME NEW from \in People, NEW to \in People, RenameAsked(from, to) PROVE Honest
  <2>1. renaming' \in Renamings /\ UNCHANGED <<hour, assignments>> BY <1>2 DEF RenameAsked
  <2> QED BY <1>1, <2>1, StillLemma
<1>3. CASE RenameMovesWork
  <2>1. /\ renaming \in Renamings /\ renaming.moved = FALSE /\ UNCHANGED hour
        /\ renaming' = [renaming EXCEPT !.moved = TRUE]
        /\ MovesTo(renaming.from, renaming.to)
    BY <1>1, <1>3 DEF RenameMovesWork
  <2>2. renaming' \in Renamings /\ renaming' # renaming /\ renaming.to \in People BY <2>1
  <2> QED BY <2>1, <2>2, MoveLemma
<1>4. CASE RenameCommits
  <2>1. renaming' = NoRenaming /\ UNCHANGED <<hour, assignments>> BY <1>4 DEF RenameCommits
  <2> QED BY <1>1, <2>1, StillLemma
<1>5. CASE RenameFails
  <2>1. renaming \in Renamings /\ renaming' = NoRenaming /\ renaming' # renaming /\ UNCHANGED hour
    BY <1>1, <1>5 DEF RenameFails
  <2>2. CASE renaming.moved
    <3>1. MovesTo(renaming.to, renaming.from) /\ renaming.from \in People
      BY <1>5, <2>1, <2>2 DEF RenameFails
    <3> QED BY <2>1, <3>1, MoveLemma
  <2>3. CASE ~renaming.moved
    <3>1. UNCHANGED assignments BY <1>5, <2>3 DEF RenameFails
    <3> QED BY <1>1, <2>1, <3>1, StillLemma
  <2> QED BY <2>2, <2>3
<1> QED BY <1>2, <1>3, <1>4, <1>5

\* Every step keeps the board honest.
LEMMA BoardStep == BoardInv /\ [AssignmentNext]_assignmentVars => BoardInv' /\ [BookedOnce /\ ClosedStays]_assignmentVars
<1> SUFFICES ASSUME BoardInv, [AssignmentNext]_assignmentVars
             PROVE  BoardInv' /\ [BookedOnce /\ ClosedStays]_assignmentVars
  OBVIOUS
<1>1. CASE UNCHANGED assignmentVars
  <2>1. UNCHANGED <<hour, assignments, renaming>> BY <1>1 DEF assignmentVars
  <2>2. BoardInv' BY <2>1 DEF BoardInv
  <2> QED BY <1>1, <2>2
<1>2. CASE AssignmentNext
  <2> SUFFICES Honest BY DEF Honest
  <2>1. CASE SweepBoard BY <2>1, SweepLemma
  <2>2. CASE HourPasses
    <3>1. UNCHANGED <<assignments, renaming>> /\ hour' = hour + 1 BY <2>2 DEF HourPasses
    <3>2. hour \in Nat /\ hour' \in Nat /\ hour <= hour' BY <3>1 DEF BoardInv
    <3>3. renaming' \in [from : People, to : People, moved : BOOLEAN] \cup {NoRenaming}
      BY <3>1 DEF BoardInv
    <3> QED BY <3>1, <3>2, <3>3, StillLemma
  <2>3. CASE \E id \in Work, name \in People, place \in Bookable \cup {Unset}, window \in Windows,
                exclusive \in BOOLEAN, step \in Steps : Create(id, name, place, window, exclusive, step)
    BY <2>3, CreateLemma
  <2>4. CASE \E id \in Work : StartWork(id) \/ CompleteWork(id) \/ CancelWork(id)
    BY <2>4, StartLemma, CompleteLemma, CancelLemma
  <2>5. CASE \E id \in Work, name \in People : Reassign(id, name) BY <2>5, ReassignLemma
  <2>6. CASE \E id \in Work, window \in Windows, exclusive \in BOOLEAN : Reschedule(id, window, exclusive)
    BY <2>6, RescheduleLemma
  <2>7. CASE \/ \E from \in People, to \in People : RenameAsked(from, to)
             \/ RenameMovesWork \/ RenameCommits \/ RenameFails
    BY <2>7, RenameLemma
  <2>8. CASE \E name \in People : Joins(name)
    <3>1. UNCHANGED <<hour, assignments, renaming>> BY <2>8 DEF Joins
    <3>2. hour \in Nat /\ renaming' \in [from : People, to : People, moved : BOOLEAN] \cup {NoRenaming}
      BY <3>1 DEF BoardInv
    <3> QED BY <3>1, <3>2, StillLemma
  <2> QED BY <1>2, <2>1, <2>2, <2>3, <2>4, <2>5, <2>6, <2>7, <2>8 DEF AssignmentNext
<1> QED BY <1>1, <1>2

\* At the start the board is empty.
LEMMA BoardInitLemma == AssignmentInit => BoardInv
BY DEF AssignmentInit, BoardInv

\* Work that was begun is due.
LEMMA BegunLemma == BoardInv => BegunIsDue
BY DEF BoardInv, WorkOK, BegunIsDue

\* The board keeps its inductive invariant: every assignment that recurs has a next window,
\* and what was begun had a window that had begun, whatever sweeps, moves and renames came
\* between (assignmentStore.js).
THEOREM BoardInvariance == AssignmentSpec => []BoardInv
<1>1. AssignmentInit => BoardInv BY BoardInitLemma
<1>2. BoardInv /\ [AssignmentNext]_assignmentVars => BoardInv' BY BoardStep
<1> QED BY <1>1, <1>2, PTL DEF AssignmentSpec

\* The board is honest: nobody is booked twice by what somebody asks for, work that was begun
\* is due, and what was closed stays closed (assertNoOverlap, expireDue and the requests of
\* assignmentStore.js).
THEOREM BoardsAreHonest == AssignmentSpec => BoardIsHonest
<1>1. AssignmentSpec => []BoardInv BY BoardInvariance
<1>2. BoardInv => BegunIsDue BY BegunLemma
<1>3. BoardInv /\ [AssignmentNext]_assignmentVars => [BookedOnce /\ ClosedStays]_assignmentVars
  BY BoardStep
<1>4. AssignmentSpec => [][BookedOnce /\ ClosedStays]_assignmentVars
  BY <1>1, <1>3, PTL DEF AssignmentSpec
<1>5. AssignmentSpec => []BegunIsDue BY <1>1, <1>2, PTL
<1>6. [][BookedOnce /\ ClosedStays]_assignmentVars => NeverBookedTwice /\ ClosedIsClosed
  <2>1. [BookedOnce /\ ClosedStays]_assignmentVars => [BookedOnce]_assignmentVars /\ [ClosedStays]_assignmentVars
    OBVIOUS
  <2> QED BY <2>1, PTL DEF NeverBookedTwice, ClosedIsClosed, BookedOnce, ClosedStays
<1> QED BY <1>4, <1>5, <1>6, PTL DEF BoardIsHonest

------------------------------------------------------------------------------
(* The children of the desktop application (DesktopHost)                   *)

\* A child nothing is known to be wrong with.
Plain(s) ==
  os[s].kind \in ChildKinds /\ os[s].known /\ ~os[s].told /\ ~os[s].raced

\* A record of a process that lives, of this session; the file of a kind holds nothing else.
OfThisSession(r, k) ==
  r.slot \in Slots /\ os[r.slot].kind = k /\ os[r.slot].born = r.born /\ r.born > since
Clean(k) == childrenFile[k] = NotOnFile \/ OfThisSession(childrenFile[k], k)

\* A record names a process of its kind, or none.
Names(r, k) == r.born <= born /\ (SameProcess(r) => os[r.slot].kind = k)

Looking == flow.at \in {"recovering", "killing"}

HostTypes ==
  /\ os \in [Slots -> [kind : ChildKinds \cup {"none", "foreign"}, born : 0..MaxBorn,
                       told : BOOLEAN, known : BOOLEAN, raced : BOOLEAN]]
  /\ born \in 0..MaxBorn /\ since \in 0..MaxBorn
  /\ childrenFile \in [ChildKinds -> OsRecords] /\ writing \subseteq Slots
  /\ app \in {"up", "quitting", "exited", "cut", "crashed"}
  /\ child \in [ChildKinds -> AnySlot] /\ kept \subseteq ChildKinds /\ timer \subseteq ChildKinds
  /\ reviving \in AnySlot
  /\ flow \in [at : {"none", "stopping", "recovering", "killing", "starting", "waiting", "undoing"},
               kind : ChildKinds \cup {"client"}, previous : ChildKinds \cup {"none"},
               undo : BOOLEAN, todo : SUBSET ChildKinds, list : [ChildKinds -> OsRecords],
               slot : AnySlot]
  /\ quitting \in [at : ChildKinds \cup {"none", "pending"}, cut : BOOLEAN]

\* The process table.
TableOK ==
  /\ since <= born
  /\ \A s \in Slots : /\ os[s].born <= born
                      /\ os[s].kind = "none" => os[s] = Vacant
                      /\ os[s].kind = "foreign" => ~os[s].told

\* What is on file, and what was read of it.
FileOK ==
  /\ \A k \in ChildKinds : Names(childrenFile[k], k) /\ Names(flow.list[k], k)
  \* a child nothing is wrong with is the one on file
  /\ \A s \in Slots : Plain(s) =>
       childrenFile[os[s].kind].slot = s /\ childrenFile[os[s].kind].born = os[s].born
  \* no child of this session has the id of an older one on file
  /\ \A s \in Slots, k \in ChildKinds : os[s].kind = k /\ os[s].born > since =>
       /\ childrenFile[k].slot = s => childrenFile[k].born = os[s].born
       /\ Looking /\ flow.list[k].slot = s => flow.list[k].born = os[s].born
  /\ \A s \in writing :
       /\ os[s].kind \in ChildKinds /\ os[s].born > since /\ ~os[s].known /\ Clean(os[s].kind)
       /\ \A t \in Slots : os[t].kind = os[s].kind => ~Plain(t) /\ (t \in writing => t = s)
  /\ Looking => \A k \in ChildKinds : childrenFile[k] = flow.list[k] \/ Clean(k)

\* What the application remembers.
MemoryOK ==
  /\ ~Running => /\ writing = {} /\ kept = {} /\ timer = {} /\ reviving = NoSlotUsed
                 /\ \A k \in ChildKinds : child[k] = NoSlotUsed
                 /\ quitting = NoQuit /\ flow = IdleFlow
  /\ \A k \in ChildKinds : child[k] # NoSlotUsed =>
       os[child[k]].kind = k /\ os[child[k]].born > since /\ Clean(k)
  /\ \A k \in kept \cup timer : Clean(k)
  /\ Present(reviving) => os[reviving].kind = "server"
  \* a child of this session nothing is known to be wrong with is the one remembered
  /\ Running => \A s \in Slots :
       os[s].kind \in ChildKinds /\ os[s].born > since /\ ~os[s].told /\ ~os[s].raced
         => child[os[s].kind] = s

\* The launch or change under way.
FlowFine(f) ==
  /\ f.at \in {"recovering", "killing", "waiting"} => f.kind \in ChildKinds
  /\ f.at = "waiting" => Clean(f.kind)
  /\ Present(f.slot) => os[f.slot].kind = f.kind
  /\ f.previous # "none" => Clean(f.previous)
  /\ f.at = "recovering" => \A k \in ChildKinds \ f.todo : f.list[k] = NotOnFile
FlowOK == FlowFine(flow)

\* Quitting.
QuitOK ==
  /\ quitting.at # "none" => app = "quitting"
  /\ quitting.at # "none" /\ ~quitting.cut => flow.at = "none" \/ Changing
  /\ quitting.at \in ChildKinds /\ ~quitting.cut =>
       flow.at = "none" /\ "server" \notin kept /\ child["server"] = NoSlotUsed
  /\ quitting.at = "agent" /\ ~quitting.cut => "agent" \notin kept /\ child["agent"] = NoSlotUsed

\* The mode in the configuration.
ModeOK == mode \in ChildKinds \cup {"none"}

\* The inductive invariant.
HostInv == HostTypes /\ TableOK /\ FileOK /\ MemoryOK /\ FlowOK /\ QuitOK /\ QuitLeavesNothing

----------------------------------------------------------------------------
(* What the operators return                                               *)

ProcessRecords == [kind : ChildKinds \cup {"none", "foreign"}, born : 0..MaxBorn,
                   told : BOOLEAN, known : BOOLEAN, raced : BOOLEAN]
Flows == [at : {"none", "stopping", "recovering", "killing", "starting", "waiting", "undoing"},
          kind : ChildKinds \cup {"client"}, previous : ChildKinds \cup {"none"},
          undo : BOOLEAN, todo : SUBSET ChildKinds, list : [ChildKinds -> OsRecords],
          slot : AnySlot]

\* No slot is no slot.
LEMMA SlotsLemma == NoSlotUsed \notin Slots /\ NoSlotUsed \in AnySlot /\ Slots \subseteq AnySlot
BY DesktopAssumption DEF AnySlot

\* An empty record.
LEMMA NotOnFileLemma ==
  /\ NotOnFile \in OsRecords /\ NotOnFile.slot = NoSlotUsed /\ NotOnFile.born = 0
BY DesktopAssumption, SlotsLemma DEF NotOnFile, OsRecords

\* Nothing under way.
LEMMA IdleLemma ==
  /\ IdleFlow \in Flows /\ IdleFlow.at = "none" /\ IdleFlow.previous = "none" /\ ~IdleFlow.undo
  /\ IdleFlow.slot = NoSlotUsed /\ \A k \in ChildKinds : IdleFlow.list[k] = NotOnFile
BY NotOnFileLemma, SlotsLemma DEF IdleFlow, Flows, ChildKinds

\* A launch or change that fails.
LEMMA FailedLemma ==
  ASSUME flow \in Flows
  PROVE  \/ FailedFlow = IdleFlow /\ ~flow.undo
         \/ /\ FailedFlow \in Flows /\ FailedFlow.at = "undoing" /\ FailedFlow.kind = flow.kind
            /\ FailedFlow.previous = flow.previous /\ FailedFlow.undo /\ FailedFlow.slot = NoSlotUsed
            /\ \A k \in ChildKinds : FailedFlow.list[k] = NotOnFile
<1>1. IdleFlow.list \in [ChildKinds -> OsRecords] BY IdleLemma DEF Flows
<1>2. CASE flow.undo
  <2>1. FailedFlow = [flow EXCEPT !.at = "undoing", !.todo = {}, !.list = IdleFlow.list, !.slot = NoSlotUsed]
    BY <1>2 DEF FailedFlow
  <2> QED BY <1>1, <1>2, <2>1, IdleLemma, SlotsLemma DEF Flows
<1>3. CASE ~flow.undo BY <1>3 DEF FailedFlow
<1> QED BY <1>2, <1>3

\* Processes may be told to stop and nothing else of them changes.
OsTold ==
  \A s \in Slots :
    /\ os'[s].kind = os[s].kind /\ os'[s].born = os[s].born
    /\ os'[s].known = os[s].known /\ os'[s].raced = os[s].raced
    /\ os[s].told => os'[s].told
    /\ os[s].kind \notin ChildKinds => os'[s] = os[s]

\* One child is told.
LEMMA ToldLemma ==
  ASSUME os \in [Slots -> ProcessRecords], NEW x, Present(x) => x \in Slots /\ os[x].kind \in ChildKinds,
         os' = Told({x})
  PROVE  os' \in [Slots -> ProcessRecords] /\ OsTold /\ (Present(x) => os'[x].told)
BY ZenonT(60) DEF Told, OsTold, Present, ProcessRecords

\* Nobody is told.
LEMMA NobodyToldLemma ==
  ASSUME os \in [Slots -> ProcessRecords], UNCHANGED os
  PROVE  os' \in [Slots -> ProcessRecords] /\ OsTold
BY DEF OsTold

\* The types, by name.
LEMMA HostTypesLemma ==
  HostTypes => os \in [Slots -> ProcessRecords] /\ flow \in Flows
BY DEF HostTypes, ProcessRecords, Flows

----------------------------------------------------------------------------
(* Steps that leave the file alone                                         *)

ListKept ==
  \/ flow'.list = flow.list /\ (Looking' => Looking)
  \/ ~Looking' /\ \A k \in ChildKinds : flow'.list[k] = NotOnFile
  \/ flow'.list = childrenFile

\* A step that at most tells children to stop, forgets what was told, and restarts nothing that
\* is not clean.
LEMMA QuietStepLemma ==
  ASSUME HostInv, Running, Running', OsTold, os' \in [Slots -> ProcessRecords],
         UNCHANGED <<born, since, childrenFile, writing>>, app' \in {"up", "quitting"},
         kept' \subseteq ChildKinds, timer' \subseteq ChildKinds,
         \A k \in kept' \cup timer' : Clean(k),
         child' \in [ChildKinds -> AnySlot],
         \A k \in ChildKinds : \/ child'[k] = child[k]
                               \/ child'[k] = NoSlotUsed /\ (child[k] \in Slots => os'[child[k]].told),
         reviving' \in {reviving, NoSlotUsed},
         flow' \in Flows, ListKept, FlowOK', QuitOK',
         quitting' \in [at : ChildKinds \cup {"none", "pending"}, cut : BOOLEAN]
  PROVE  HostInv'
<1>1. HostTypes' BY SlotsLemma DEF HostInv, HostTypes, ProcessRecords, Flows
<1>2. TableOK' BY DEF HostInv, TableOK, OsTold, ChildKinds
<1>3. \A k \in ChildKinds : Clean(k)' = Clean(k) BY DEF Clean, OfThisSession, OsTold
<1>4. \A s \in Slots : Plain(s)' => Plain(s) BY DEF Plain, OsTold
<1>5. FileOK'
  <2>1. \A k \in ChildKinds : Names(childrenFile[k], k)' /\ Names(flow.list[k], k)'
    <3>1. \A k \in ChildKinds : childrenFile[k] \in OsRecords /\ flow.list[k] \in OsRecords
      BY HostTypesLemma DEF HostInv, HostTypes, Flows
    <3>2. \A r \in OsRecords : Present(r.slot)' = Present(r.slot) /\ SameProcess(r)' = SameProcess(r)
      BY SlotsLemma DEF SameProcess, Present, OsTold, OsRecords, AnySlot
    <3>3. \A k \in ChildKinds : Names(childrenFile[k], k) /\ Names(flow.list[k], k) /\ Names(NotOnFile, k)
      BY NotOnFileLemma DEF HostInv, FileOK, HostTypes, Names, SameProcess, Present
    <3>4. \A r \in OsRecords, k \in ChildKinds : Names(r, k) => Names(r, k)'
      BY <3>2, SlotsLemma DEF Names, SameProcess, Present, OsTold, OsRecords, AnySlot
    <3>5. \A k \in ChildKinds : flow'.list[k] \in {flow.list[k], NotOnFile, childrenFile[k]} BY DEF ListKept
    <3> QED BY <3>1, <3>3, <3>4, <3>5, NotOnFileLemma
  <2>2. \A s \in Slots : Plain(s)' =>
          childrenFile'[os'[s].kind].slot = s /\ childrenFile'[os'[s].kind].born = os'[s].born
    BY <1>4 DEF HostInv, FileOK, OsTold
  <2>3. ASSUME NEW s \in Slots, NEW k \in ChildKinds, os'[s].kind = k, os'[s].born > since'
        PROVE  /\ childrenFile'[k].slot = s => childrenFile'[k].born = os'[s].born
               /\ Looking' /\ flow'.list[k].slot = s => flow'.list[k].born = os'[s].born
    <3>1. os[s].kind = k /\ os[s].born > since /\ os'[s].born = os[s].born BY <2>3 DEF OsTold
    <3> QED BY <3>1 DEF HostInv, FileOK, ListKept
  <2>4. ASSUME NEW s \in writing'
        PROVE  (/\ os[s].kind \in ChildKinds /\ os[s].born > since /\ ~os[s].known /\ Clean(os[s].kind)
                /\ \A t \in Slots : os[t].kind = os[s].kind => ~Plain(t) /\ (t \in writing => t = s))'
    <3>1. s \in Slots /\ s \in writing BY DEF HostInv, HostTypes
    <3>2. PICK k \in ChildKinds : k = os[s].kind /\ Clean(k) BY <3>1 DEF HostInv, FileOK
    <3>3. os'[s].kind = k /\ Clean(k)' BY <1>3, <3>1, <3>2 DEF OsTold
    <3> QED BY <1>4, <3>1, <3>2, <3>3 DEF HostInv, FileOK, OsTold, Clean
  <2>5. Looking' => \A k \in ChildKinds : childrenFile'[k] = flow'.list[k] \/ Clean(k)'
    BY <1>3 DEF HostInv, FileOK, ListKept
  <2> QED BY <2>1, <2>2, <2>3, <2>4, <2>5 DEF FileOK
<1>6. MemoryOK'
  <2>1. \A k \in ChildKinds : child'[k] # NoSlotUsed =>
          os'[child'[k]].kind = k /\ os'[child'[k]].born > since' /\ Clean(k)'
    BY <1>3, SlotsLemma DEF HostInv, MemoryOK, HostTypes, OsTold, AnySlot
  <2>2. \A k \in kept' \cup timer' : Clean(k)' BY <1>3
  <2>3. Present(reviving)' => os'[reviving'].kind = "server"
    BY SlotsLemma DEF HostInv, MemoryOK, HostTypes, Present, OsTold, AnySlot
  <2>4. ASSUME NEW s \in Slots, os'[s].kind \in ChildKinds, os'[s].born > since', ~os'[s].told, ~os'[s].raced
        PROVE  child'[os'[s].kind] = s
    <3>1. child[os[s].kind] = s BY <2>4 DEF HostInv, MemoryOK, OsTold
    <3> QED BY <2>4, <3>1 DEF OsTold
  <2> QED BY <2>1, <2>2, <2>3, <2>4 DEF MemoryOK
<1>7. QuitLeavesNothing' BY DEF QuitLeavesNothing
<1> QED BY <1>1, <1>2, <1>5, <1>6, <1>7 DEF HostInv

\* The launch or change under way stays in order while nothing but stops happens.
LEMMA FlowStillLemma ==
  ASSUME HostInv, OsTold, UNCHANGED <<childrenFile, since>>, flow' \in Flows, FlowFine(flow')
  PROVE  FlowOK'
<1>1. \A k \in ChildKinds : Clean(k)' = Clean(k) BY DEF Clean, OfThisSession, OsTold
<1>2. Present(flow'.slot) => os[flow'.slot].kind = flow'.kind BY DEF FlowFine
<1>3. flow'.slot \in AnySlot /\ flow'.kind \in ChildKinds \cup {"client"}
      /\ flow'.previous \in ChildKinds \cup {"none"}
  BY DEF Flows
<1>4. Present(flow.slot)' => os'[flow'.slot].kind = flow'.kind
  BY <1>2, <1>3, SlotsLemma DEF Present, OsTold, AnySlot
<1>5. flow'.at = "waiting" => Clean(flow.kind)'
  <2> SUFFICES ASSUME flow'.at = "waiting" PROVE Clean(flow.kind)' OBVIOUS
  <2>1. PICK k \in ChildKinds : k = flow'.kind /\ Clean(k) BY DEF FlowFine
  <2>2. Clean(k)' BY <1>1, <2>1
  <2> QED BY <2>1, <2>2 DEF Clean
<1>6. flow'.previous # "none" => Clean(flow.previous)'
  <2> SUFFICES ASSUME flow'.previous # "none" PROVE Clean(flow.previous)' OBVIOUS
  <2>1. PICK k \in ChildKinds : k = flow'.previous /\ Clean(k) BY <1>3 DEF FlowFine
  <2>2. Clean(k)' BY <1>1, <2>1
  <2> QED BY <2>1, <2>2 DEF Clean
<1> QED BY <1>4, <1>5, <1>6 DEF FlowOK, FlowFine

\* So does the state of quitting.
LEMMA QuitStillLemma ==
  ASSUME HostInv, UNCHANGED <<app, quitting>>,
         flow.at # "none" /\ Changing => flow'.at = "none" \/ Changing',
         flow.at = "none" => flow'.at = "none" \/ app = "up",
         \A k \in ChildKinds : k \in kept' => k \in kept \/ flow.at # "none",
         \A k \in ChildKinds : child'[k] \in {child[k], NoSlotUsed} \/ flow.at # "none" \/ k \in kept
  PROVE  QuitOK'
<1>1. quitting'.at # "none" => app' = "quitting" BY DEF HostInv, QuitOK
<1>2. quitting'.at # "none" /\ ~quitting'.cut => flow'.at = "none" \/ Changing'
  BY DEF HostInv, QuitOK
<1>3. quitting'.at \in ChildKinds /\ ~quitting'.cut =>
       flow'.at = "none" /\ "server" \notin kept' /\ child'["server"] = NoSlotUsed
  BY DEF HostInv, QuitOK, ChildKinds
<1>4. quitting'.at = "agent" /\ ~quitting'.cut => "agent" \notin kept' /\ child'["agent"] = NoSlotUsed
  BY DEF HostInv, QuitOK, ChildKinds
<1> QED BY <1>1, <1>2, <1>3, <1>4 DEF QuitOK

\* A child is stopped.
LEMMA StopsLemma ==
  ASSUME HostInv, NEW k \in ChildKinds, Stops(k)
  PROVE  /\ OsTold /\ os' \in [Slots -> ProcessRecords]
         /\ kept' \subseteq ChildKinds /\ timer' \subseteq ChildKinds
         /\ kept' \subseteq kept /\ timer' \subseteq timer
         /\ child' \in [ChildKinds -> AnySlot]
         /\ \A j \in ChildKinds : \/ child'[j] = child[j]
                                  \/ child'[j] = NoSlotUsed /\ (child[j] \in Slots => os'[child[j]].told)
<1>1. child \in [ChildKinds -> AnySlot] /\ os \in [Slots -> ProcessRecords]
      /\ kept \subseteq ChildKinds /\ timer \subseteq ChildKinds
  BY HostTypesLemma DEF HostInv, HostTypes
<1>2. child[k] # NoSlotUsed => child[k] \in Slots /\ os[child[k]].kind = k
  BY <1>1 DEF HostInv, MemoryOK, AnySlot
<1>3. child[k] \in Slots => Present(child[k]) BY <1>2, SlotsLemma DEF Present, ChildKinds
<1>4. OsTold /\ os' \in [Slots -> ProcessRecords] /\ (Present(child[k]) => os'[child[k]].told)
  BY <1>1, <1>2, ToldLemma DEF Stops, Present
<1>5. child' \in [ChildKinds -> AnySlot] /\ child'[k] = NoSlotUsed
      /\ \A j \in ChildKinds \ {k} : child'[j] = child[j]
  BY <1>1, SlotsLemma DEF Stops
<1> QED BY <1>1, <1>3, <1>4, <1>5 DEF Stops

\* What the invariant says of the memory, in pieces.
LEMMA MemoryLemma ==
  HostInv =>
    /\ child \in [ChildKinds -> AnySlot] /\ os \in [Slots -> ProcessRecords] /\ flow \in Flows
    /\ kept \subseteq ChildKinds /\ timer \subseteq ChildKinds /\ reviving \in AnySlot
    /\ \A k \in kept \cup timer : Clean(k)
    /\ \A k \in ChildKinds : child[k] # NoSlotUsed =>
         child[k] \in Slots /\ Present(child[k]) /\ os[child[k]].kind = k /\ Clean(k)
    /\ Present(reviving) => reviving \in Slots /\ os[reviving].kind = "server"
    /\ quitting \in [at : ChildKinds \cup {"none", "pending"}, cut : BOOLEAN]
    /\ FlowFine(flow)
<1> SUFFICES ASSUME HostInv
             PROVE  /\ child \in [ChildKinds -> AnySlot] /\ os \in [Slots -> ProcessRecords] /\ flow \in Flows
                    /\ kept \subseteq ChildKinds /\ timer \subseteq ChildKinds /\ reviving \in AnySlot
                    /\ \A k \in kept \cup timer : Clean(k)
                    /\ \A k \in ChildKinds : child[k] # NoSlotUsed =>
                         child[k] \in Slots /\ Present(child[k]) /\ os[child[k]].kind = k /\ Clean(k)
                    /\ Present(reviving) => reviving \in Slots /\ os[reviving].kind = "server"
                    /\ quitting \in [at : ChildKinds \cup {"none", "pending"}, cut : BOOLEAN]
                    /\ FlowFine(flow)
  OBVIOUS
<1>1. child \in [ChildKinds -> AnySlot] /\ reviving \in AnySlot BY DEF HostInv, HostTypes
<1>2. ASSUME NEW k \in ChildKinds, child[k] # NoSlotUsed
      PROVE  child[k] \in Slots /\ Present(child[k]) /\ os[child[k]].kind = k /\ Clean(k)
  BY <1>1, <1>2 DEF HostInv, MemoryOK, AnySlot, Present, ChildKinds
<1>3. Present(reviving) => reviving \in Slots /\ os[reviving].kind = "server"
  BY <1>1 DEF HostInv, MemoryOK, AnySlot, Present
<1> QED BY <1>1, <1>2, <1>3, HostTypesLemma DEF HostInv, HostTypes, MemoryOK, FlowOK

\* What the launch or change counts on outlives a step that soils no file and takes no process
\* it waits for for another.
LEMMA CleanFlowLemma ==
  ASSUME HostInv, UNCHANGED flow,
         \A j \in ChildKinds : Clean(j) => Clean(j)',
         Present(flow.slot)' => Present(flow.slot) /\ os'[flow'.slot].kind = os[flow.slot].kind
  PROVE  FlowOK'
<1>1. flow.kind \in ChildKinds \cup {"client"} /\ flow.previous \in ChildKinds \cup {"none"} /\ FlowFine(flow)
  BY MemoryLemma DEF Flows
<1>2. flow'.at = "waiting" => Clean(flow.kind)'
  <2> SUFFICES ASSUME flow'.at = "waiting" PROVE Clean(flow.kind)' OBVIOUS
  <2>1. PICK j \in ChildKinds : j = flow.kind /\ Clean(j) BY <1>1 DEF FlowFine
  <2>2. Clean(j)' BY <2>1
  <2> QED BY <2>1, <2>2 DEF Clean
<1>3. flow'.previous # "none" => Clean(flow.previous)'
  <2> SUFFICES ASSUME flow'.previous # "none" PROVE Clean(flow.previous)' OBVIOUS
  <2>1. PICK j \in ChildKinds : j = flow.previous /\ Clean(j) BY <1>1 DEF FlowFine
  <2>2. Clean(j)' BY <2>1
  <2> QED BY <2>1, <2>2 DEF Clean
<1> QED BY <1>1, <1>2, <1>3 DEF FlowOK, FlowFine

\* A restarted server is supervised again, or told to stop.
LEMMA RevivedLemma ==
  ASSUME HostInv, ServerRevived \/ ServerDidNotRevive
  PROVE  HostInv'
<1>1. /\ Running /\ reviving' = NoSlotUsed
      /\ UNCHANGED <<born, childrenFile, writing, kept, flow, quitting, app, since>>
  BY DEF ServerRevived, ServerDidNotRevive, Session
<1>2. timer' \subseteq timer \cup (kept \cap {"server"})
  BY DEF ServerRevived, ServerDidNotRevive, Schedules
<1>3. /\ OsTold /\ os' \in [Slots -> ProcessRecords]
      /\ child' \in [ChildKinds -> AnySlot]
      /\ \A j \in ChildKinds : \/ child'[j] = child[j]
                               \/ child'[j] = NoSlotUsed /\ (child[j] \in Slots => os'[child[j]].told)
  <2>1. CASE UNCHANGED <<os, child>> BY <2>1, MemoryLemma, NobodyToldLemma
  <2>2. CASE /\ os' = Told({reviving})
             /\ child' = IF child["server"] = reviving THEN [child EXCEPT !["server"] = NoSlotUsed]
                         ELSE child
    <3>1. OsTold /\ os' \in [Slots -> ProcessRecords] /\ (Present(reviving) => os'[reviving].told)
      BY <2>2, MemoryLemma, ToldLemma DEF ChildKinds
    <3>2. child["server"] \in Slots => Present(child["server"])
      BY MemoryLemma, SlotsLemma DEF ChildKinds
    <3> QED BY <2>2, <3>1, <3>2, MemoryLemma, SlotsLemma
  <2> QED BY <2>1, <2>2 DEF ServerRevived, ServerDidNotRevive
<1>4. FlowOK' BY <1>1, <1>3, MemoryLemma, FlowStillLemma
<1>5. Changing' = Changing BY <1>1 DEF Changing
<1>6. QuitOK' BY <1>1, <1>3, <1>5, QuitStillLemma
<1>7. Running' /\ app' \in {"up", "quitting"} BY <1>1 DEF Running
<1>8. ListKept BY <1>1 DEF ListKept, Looking
<1>9. \A k \in kept' \cup timer' : Clean(k) BY <1>1, <1>2, MemoryLemma
<1>10. kept' \subseteq ChildKinds /\ timer' \subseteq ChildKinds BY <1>1, <1>2, MemoryLemma
<1> QED BY <1>1, <1>3, <1>4, <1>6, <1>7, <1>8, <1>9, <1>10, MemoryLemma, QuietStepLemma

\* The launch or change goes on and only it moves, or children are told to stop.
LEMMA GoesOnQuietly ==
  ASSUME HostInv, Running, OsTold, os' \in [Slots -> ProcessRecords],
         UNCHANGED <<born, since, childrenFile, writing, app, quitting, reviving>>,
         kept' \subseteq ChildKinds, timer' \subseteq ChildKinds,
         \A k \in kept' \cup timer' : Clean(k),
         child' \in [ChildKinds -> AnySlot],
         \A k \in ChildKinds : \/ child'[k] = child[k]
                               \/ child'[k] = NoSlotUsed /\ (child[k] \in Slots => os'[child[k]].told),
         flow' \in Flows, ListKept, FlowFine(flow'),
         flow.at # "none" /\ Changing => flow'.at = "none" \/ Changing',
         flow.at = "none" => flow'.at = "none" \/ app = "up",
         \A k \in ChildKinds : k \in kept' => k \in kept \/ flow.at # "none"
  PROVE  HostInv'
<1>1. FlowOK' BY FlowStillLemma
<1>2. QuitOK' BY QuitStillLemma
<1>3. Running' /\ app' \in {"up", "quitting"} BY DEF Running
<1> QED BY <1>1, <1>2, <1>3, MemoryLemma, QuietStepLemma

\* Nothing but the launch or change moves.
LEMMA FlowMoves ==
  ASSUME HostInv, Running,
         UNCHANGED <<os, born, since, childrenFile, writing, app, quitting, reviving, kept, timer, child>>,
         flow' \in Flows, ListKept, FlowFine(flow'),
         flow.at # "none" /\ Changing => flow'.at = "none" \/ Changing',
         flow.at = "none" => flow'.at = "none" \/ app = "up"
  PROVE  HostInv'
BY MemoryLemma, NobodyToldLemma, GoesOnQuietly

\* A launch or change that ends, or fails, is in order.
LEMMA EndsLemma ==
  ASSUME HostInv, flow' = IdleFlow \/ flow' = FailedFlow
  PROVE  /\ flow' \in Flows /\ ListKept /\ FlowFine(flow')
         /\ flow.at # "none" /\ Changing => flow'.at = "none" \/ Changing'
         /\ flow' = IdleFlow => flow'.at = "none"
<1>1. CASE flow' = IdleFlow
  BY <1>1, IdleLemma DEF ListKept, Looking, FlowFine, Present
<1>2. CASE flow' = FailedFlow /\ flow' # IdleFlow
  <2>1. /\ flow' \in Flows /\ flow'.at = "undoing" /\ flow'.kind = flow.kind
        /\ flow'.previous = flow.previous /\ flow'.undo /\ flow'.slot = NoSlotUsed
        /\ \A k \in ChildKinds : flow'.list[k] = NotOnFile
    BY <1>2, MemoryLemma, FailedLemma
  <2> QED BY <1>2, <2>1, MemoryLemma DEF ListKept, Looking, FlowFine, Present, Changing
<1> QED BY <1>1, <1>2

\* A look at the records begins.
LEMMA RecoversLemma ==
  ASSUME HostInv, NEW f \in Flows, Recovers(f), f.kind \in ChildKinds, f.slot = NoSlotUsed,
         f.previous # "none" => Clean(f.previous)
  PROVE  /\ flow' \in Flows /\ ListKept /\ FlowFine(flow') /\ flow'.at = "recovering"
         /\ flow'.undo = f.undo /\ flow'.previous = f.previous
<1>1. childrenFile \in [ChildKinds -> OsRecords] BY DEF HostInv, HostTypes
<1>2. flow' \in Flows BY ZenonT(30), <1>1 DEF Recovers, Flows
<1>3. /\ flow'.at = "recovering" /\ flow'.list = childrenFile /\ flow'.kind = f.kind
      /\ flow'.undo = f.undo /\ flow'.previous = f.previous /\ flow'.slot = f.slot
      /\ flow'.todo = {k \in ChildKinds : childrenFile[k] # NotOnFile}
  BY DEF Recovers, Flows
<1> QED BY <1>2, <1>3 DEF ListKept, FlowFine, Present

\* A launch begins, or a change of mode.
LEMMA BeginsLemma ==
  ASSUME HostInv, ModeOK, LaunchMode \/ \E k \in ChildKinds \cup {"client"} : ChangesMode(k)
  PROVE  HostInv'
<1>1. /\ Running /\ app = "up" /\ flow.at = "none"
      /\ UNCHANGED <<os, born, since, childrenFile, writing, app, quitting, reviving, kept, timer, child>>
  BY ZenonT(30) DEF LaunchMode, ChangesMode, Running, Session
<1>2. CASE LaunchMode /\ flow' = flow
  <2>1. ListKept /\ Changing' = Changing BY <1>2 DEF ListKept, Looking, Changing
  <2> QED BY <1>1, <1>2, <2>1, MemoryLemma, FlowMoves
<1>3. CASE LaunchMode /\ flow' # flow
  <2> DEFINE f == [IdleFlow EXCEPT !.kind = mode]
  <2>1. mode \in ChildKinds /\ Recovers(f) BY <1>3 DEF LaunchMode, ModeOK
  <2>2. f \in Flows /\ f.kind = mode /\ f.slot = NoSlotUsed /\ f.previous = "none"
    BY <2>1, IdleLemma DEF Flows
  <2> HIDE DEF f
  <2>3. flow' \in Flows /\ ListKept /\ FlowFine(flow') BY <2>1, <2>2, RecoversLemma
  <2> QED BY <1>1, <2>3, FlowMoves
<1>4. CASE \E k \in ChildKinds \cup {"client"} : ChangesMode(k)
  <2>1. PICK k \in ChildKinds \cup {"client"} : ChangesMode(k) BY <1>4
  <2>2. flow' = [IdleFlow EXCEPT !.at = "stopping", !.kind = k, !.previous = Active, !.undo = TRUE,
                              !.todo = ChildKinds \ {k}]
    BY ZenonT(30), <2>1 DEF ChangesMode
  <2>3. Active \in ChildKinds \cup {"none"} /\ (Active # "none" => Clean(Active))
    BY MemoryLemma DEF Active, ChildKinds
  <2>4. /\ flow' \in Flows /\ flow'.at = "stopping" /\ flow'.previous = Active
        /\ flow'.slot = NoSlotUsed /\ \A j \in ChildKinds : flow'.list[j] = NotOnFile
    BY <2>2, <2>3, IdleLemma DEF Flows
  <2>5. ListKept /\ FlowFine(flow') BY <2>3, <2>4 DEF ListKept, Looking, FlowFine, Present
  <2> QED BY <1>1, <2>4, <2>5, FlowMoves
<1> QED BY <1>2, <1>3, <1>4

\* A change of mode stops what runs.
LEMMA StopsForChangeLemma ==
  ASSUME HostInv, StopsForChange
  PROVE  HostInv'
<1>1. PICK k \in ChildKinds : Stops(k)
  BY DEF StopsForChange, ChildKinds
<1>2. PICK j \in ChildKinds : flow' = [flow EXCEPT !.todo = @ \ {j}]
  BY DEF StopsForChange, ChildKinds
<1>3. /\ Running /\ flow.at = "stopping"
      /\ UNCHANGED <<born, since, childrenFile, writing, app, quitting, reviving>>
  BY DEF StopsForChange, Session
<1>4. /\ flow' \in Flows /\ flow'.at = flow.at /\ flow'.kind = flow.kind /\ flow'.previous = flow.previous
      /\ flow'.undo = flow.undo /\ flow'.slot = flow.slot /\ flow'.list = flow.list
  BY <1>2, MemoryLemma DEF Flows
<1>5. FlowFine(flow') BY <1>3, <1>4, MemoryLemma DEF FlowFine
<1>6. ListKept BY <1>4 DEF ListKept, Looking
<1>7. Changing' = Changing BY <1>4 DEF Changing
<1> QED BY <1>1, <1>3, <1>4, <1>5, <1>6, <1>7, StopsLemma, MemoryLemma, GoesOnQuietly

\* A change of mode goes on to the look at the records, or ends at another hub.
LEMMA StartForChangeLemma ==
  ASSUME HostInv, StartForChange
  PROVE  HostInv'
<1>1. /\ Running /\ flow.at = "stopping"
      /\ UNCHANGED <<os, born, since, childrenFile, writing, app, quitting, reviving, kept, timer, child>>
  BY DEF StartForChange
<1>2. CASE flow' = IdleFlow \/ flow' = FailedFlow
  BY <1>1, <1>2, EndsLemma, FlowMoves
<1>3. CASE flow.kind # "client" /\ Recovers(flow)
  <2>1. flow' = [flow EXCEPT !.at = "recovering", !.list = childrenFile,
                    !.todo = {k \in ChildKinds : childrenFile[k] # NotOnFile}]
    BY <1>3 DEF Recovers
  <2>2. childrenFile \in [ChildKinds -> OsRecords] BY DEF HostInv, HostTypes
  <2>3. /\ flow' \in Flows /\ flow'.at = "recovering" /\ flow'.kind = flow.kind
        /\ flow'.previous = flow.previous /\ flow'.list = childrenFile
        /\ flow'.undo = flow.undo /\ flow'.slot = flow.slot
        /\ flow'.todo = {k \in ChildKinds : childrenFile[k] # NotOnFile}
    BY ZenonT(30), <2>1, <2>2, MemoryLemma DEF Flows
  <2>4. flow.kind \in ChildKinds BY <1>3, MemoryLemma DEF Flows
  <2>5. FlowFine(flow') BY <2>3, <2>4, MemoryLemma DEF FlowFine
  <2>6. ListKept BY <2>3 DEF ListKept
  <2>7. Changing => Changing' BY <1>1, <2>3 DEF Changing
  <2> QED BY <1>1, <2>3, <2>5, <2>6, <2>7, FlowMoves
<1> QED BY <1>2, <1>3 DEF StartForChange

\* A record is looked at, and its process is told to stop or stands in the way.
LEMMA LookOnLemma ==
  ASSUME HostInv, Running, flow.at \in {"recovering", "killing"},
         UNCHANGED <<born, since, childrenFile, writing, app, quitting, reviving, kept, timer, child>>,
         \/ flow' = FailedFlow /\ UNCHANGED os
         \/ \E k \in ChildKinds :
              /\ SameProcess(flow.list[k]) /\ os' = Told({flow.list[k].slot})
              /\ flow' = [flow EXCEPT !.at = "killing", !.todo = {k}]
  PROVE  HostInv'
<1>1. CASE flow' = FailedFlow /\ UNCHANGED os BY <1>1, EndsLemma, FlowMoves
<1>2. CASE \E k \in ChildKinds :
              /\ SameProcess(flow.list[k]) /\ os' = Told({flow.list[k].slot})
              /\ flow' = [flow EXCEPT !.at = "killing", !.todo = {k}]
  <2>1. PICK k \in ChildKinds :
              /\ SameProcess(flow.list[k]) /\ os' = Told({flow.list[k].slot})
              /\ flow' = [flow EXCEPT !.at = "killing", !.todo = {k}]
    BY ZenonT(30), <1>2
  <2>2. flow.list[k] \in OsRecords BY ZenonT(30), MemoryLemma DEF Flows
  <2>3. flow.list[k].slot \in Slots BY ZenonT(30), <2>1, <2>2 DEF SameProcess, Present, OsRecords, AnySlot
  <2>4. os[flow.list[k].slot].kind = k BY ZenonT(30), <2>1 DEF HostInv, FileOK, Names
  <2>5. OsTold /\ os' \in [Slots -> ProcessRecords] BY ZenonT(30), <2>1, <2>3, <2>4, MemoryLemma, ToldLemma
  <2>6. /\ flow' \in Flows /\ flow'.at = "killing" /\ flow'.kind = flow.kind
        /\ flow'.previous = flow.previous /\ flow'.list = flow.list
        /\ flow'.undo = flow.undo /\ flow'.slot = flow.slot
    BY ZenonT(30), <2>1, MemoryLemma DEF Flows
  <2>7. FlowFine(flow') BY ZenonT(30), <2>6, MemoryLemma DEF FlowFine
  <2>8. ListKept BY ZenonT(30), <2>6 DEF ListKept, Looking
  <2>9. Changing => Changing' BY ZenonT(30), <2>6 DEF Changing
  <2> QED BY ZenonT(30), <2>5, <2>6, <2>7, <2>8, <2>9, MemoryLemma, GoesOnQuietly
<1> QED BY ZenonT(30), <1>1, <1>2

\* The child answers, or does not.
LEMMA ReadyLemma ==
  ASSUME HostInv, ChildReady \/ ChildNotReady
  PROVE  HostInv'
<1>1. /\ Running /\ flow.at = "waiting" /\ flow.kind \in ChildKinds /\ Clean(flow.kind)
      /\ UNCHANGED <<born, since, childrenFile, writing, app, quitting, reviving, timer>>
  BY MemoryLemma DEF ChildReady, ChildNotReady, Session, FlowFine
<1>2. CASE ChildReady
  <2>1. flow' = IdleFlow /\ UNCHANGED <<os, child>> /\ kept' \subseteq kept \cup {flow.kind} /\ kept' \subseteq ChildKinds
    BY <1>2, MemoryLemma DEF ChildReady, ChildKinds
  <2>2. flow' \in Flows /\ ListKept /\ FlowFine(flow') /\ flow'.at = "none" BY <2>1, EndsLemma
  <2>3. \A k \in kept' \cup timer' : Clean(k) BY <1>1, <2>1, MemoryLemma
  <2> QED BY <1>1, <2>1, <2>2, <2>3, MemoryLemma, NobodyToldLemma, GoesOnQuietly
<1>3. CASE ChildNotReady
  <2>1. flow' = FailedFlow /\ kept' = kept BY <1>3 DEF ChildNotReady
  <2>2. CASE UNCHANGED <<os, child>>
    BY <1>1, <2>1, <2>2, EndsLemma, FlowMoves
  <2>3. CASE /\ flow.kind = "server" /\ os' = Told({flow.slot})
             /\ child' = IF child["server"] = flow.slot THEN [child EXCEPT !["server"] = NoSlotUsed] ELSE child
    <3>1. Present(flow.slot) => flow.slot \in Slots /\ os[flow.slot].kind \in ChildKinds
      BY <1>1, MemoryLemma DEF FlowFine, Present, Flows, AnySlot
    <3>2. OsTold /\ os' \in [Slots -> ProcessRecords] /\ (Present(flow.slot) => os'[flow.slot].told)
      BY <2>3, <3>1, MemoryLemma, ToldLemma
    <3>3. child["server"] \in Slots => Present(child["server"])
      BY MemoryLemma, SlotsLemma DEF ChildKinds
    <3>4. /\ child' \in [ChildKinds -> AnySlot]
          /\ \A k \in ChildKinds : \/ child'[k] = child[k]
                                   \/ child'[k] = NoSlotUsed /\ (child[k] \in Slots => os'[child[k]].told)
      BY <2>3, <3>2, <3>3, MemoryLemma, SlotsLemma
    <3>5. flow' \in Flows /\ ListKept /\ FlowFine(flow')
          /\ (flow.at # "none" /\ Changing => flow'.at = "none" \/ Changing')
      BY <2>1, EndsLemma
    <3> QED BY <1>1, <2>1, <3>2, <3>4, <3>5, MemoryLemma, GoesOnQuietly
  <2> QED BY <1>3, <2>2, <2>3 DEF ChildNotReady
<1> QED BY <1>2, <1>3

\* The way back begins.
LEMMA UndoLemma ==
  ASSUME HostInv, UndoChange
  PROVE  HostInv'
<1>1. /\ Running /\ flow.at = "undoing" /\ flow' = [flow EXCEPT !.at = "starting", !.undo = FALSE]
      /\ UNCHANGED <<born, since, childrenFile, writing, app, quitting, reviving>>
  BY DEF UndoChange, Session
<1>2. /\ flow' \in Flows /\ flow'.at = "starting" /\ flow'.kind = flow.kind
      /\ flow'.previous = flow.previous /\ flow'.list = flow.list /\ flow'.slot = flow.slot
  BY <1>1, MemoryLemma DEF Flows
<1>3. FlowFine(flow') /\ ListKept /\ Changing'
  BY <1>2, MemoryLemma DEF FlowFine, ListKept, Looking, Changing
<1>4. CASE flow.kind \in ChildKinds /\ Stops(flow.kind)
  BY <1>1, <1>2, <1>3, <1>4, StopsLemma, MemoryLemma, GoesOnQuietly
<1>5. CASE UNCHANGED <<os, kept, timer, child, mark>>
  BY <1>1, <1>2, <1>3, <1>5, FlowMoves
<1> QED BY <1>4, <1>5 DEF UndoChange

\* The agent is stopped from the window.
LEMMA StopAgentLemma ==
  ASSUME HostInv, StopAgent
  PROVE  HostInv'
<1>1. /\ Running /\ app = "up" /\ Stops("agent") /\ "agent" \in ChildKinds
      /\ UNCHANGED <<born, since, childrenFile, writing, app, quitting, reviving, flow>>
  BY DEF StopAgent, Running, ChildKinds
<1>2. ListKept /\ Changing' = Changing BY <1>1 DEF ListKept, Looking, Changing
<1> QED BY <1>1, <1>2, StopsLemma, MemoryLemma, GoesOnQuietly

\* The application quits: it is asked to, and it stops what runs.
LEMMA QuitLemma ==
  ASSUME HostInv, Quit \/ \E k \in ChildKinds : QuitStops(k)
  PROVE  HostInv'
<1>1. CASE Quit
  <2>1. /\ app = "up" /\ app' = "quitting" /\ kept' = kept \ {"server"}
        /\ quitting' = [NoQuit EXCEPT !.at = "pending", !.cut = flow.at # "none" /\ ~Changing]
        /\ UNCHANGED <<os, born, childrenFile, writing, child, timer, reviving, flow, since>>
    BY <1>1 DEF Quit
  <2>2. /\ quitting' \in [at : ChildKinds \cup {"none", "pending"}, cut : BOOLEAN]
        /\ quitting'.at = "pending" /\ quitting'.cut = (flow.at # "none" /\ ~Changing)
    BY <2>1 DEF NoQuit
  <2>3. OsTold /\ os' \in [Slots -> ProcessRecords] BY <2>1, MemoryLemma, NobodyToldLemma
  <2>4. FlowOK' BY <2>1, <2>3, MemoryLemma, FlowStillLemma
  <2>5. Changing' = Changing BY <2>1 DEF Changing
  <2>6. QuitOK' BY <2>1, <2>2, <2>5 DEF QuitOK, ChildKinds
  <2>7. ListKept BY <2>1 DEF ListKept, Looking
  <2>8. Running /\ Running' BY <2>1 DEF Running
  <2> QED BY <2>1, <2>2, <2>3, <2>4, <2>6, <2>7, <2>8, MemoryLemma, QuietStepLemma
<1>2. CASE \E k \in ChildKinds : QuitStops(k)
  <2>1. PICK k \in ChildKinds : QuitStops(k) BY <1>2
  <2>2. /\ quitting.at # "none" /\ k \in ToStop /\ child[k] # NoSlotUsed
        /\ os' = Told({child[k]}) /\ child' = [child EXCEPT ![k] = NoSlotUsed]
        /\ kept' = kept \ {"server", k} /\ timer' = timer \ {"server", k}
        /\ quitting' = [quitting EXCEPT !.at = k]
        /\ UNCHANGED <<born, childrenFile, writing, reviving, flow, app, since>>
        /\ k = "agent" /\ "server" \in ToStop => child["server"] = NoSlotUsed
    BY <2>1 DEF QuitStops, Session
  <2>3. /\ quitting' \in [at : ChildKinds \cup {"none", "pending"}, cut : BOOLEAN]
        /\ quitting'.at = k /\ quitting'.cut = quitting.cut
    BY <2>2, MemoryLemma
  <2>4. OsTold /\ os' \in [Slots -> ProcessRecords] /\ (Present(child[k]) => os'[child[k]].told)
    BY <2>2, MemoryLemma, ToldLemma
  <2>5. /\ child' \in [ChildKinds -> AnySlot] /\ child'[k] = NoSlotUsed
        /\ \A j \in ChildKinds \ {k} : child'[j] = child[j]
    BY <2>2, MemoryLemma, SlotsLemma
  <2>6. app = "quitting" /\ Running /\ Running' BY <2>2 DEF HostInv, QuitOK, Running
  <2>7. FlowOK' BY <2>2, <2>4, MemoryLemma, FlowStillLemma
  <2>8. Changing' = Changing BY <2>2 DEF Changing
  <2>9. ASSUME ~quitting.cut
        PROVE  /\ flow.at = "none" /\ "server" \notin kept' /\ child'["server"] = NoSlotUsed
               /\ k = "agent" => "agent" \notin kept' /\ child'["agent"] = NoSlotUsed
    <3>1. flow.at = "none" \/ Changing BY <2>2, <2>9 DEF HostInv, QuitOK
    <3>2. quitting.at = "pending" => ToStop = {} \/ (~Changing /\ ToStop = ChildKinds)
      BY DEF ToStop, MayStop
    <3>3. quitting.at = "server" => ToStop = {"agent"} BY DEF ToStop
    <3>4. quitting.at = "agent" => ToStop = {} BY DEF ToStop
    <3>5. quitting.at \in {"pending", "server", "agent"} BY <2>2, MemoryLemma DEF ChildKinds
    <3>6. CASE quitting.at = "pending"
      <4>1. ~Changing /\ ToStop = ChildKinds BY <2>2, <3>2, <3>6
      <4> QED BY <2>2, <2>5, <3>1, <4>1 DEF ChildKinds
    <3>7. CASE quitting.at = "server"
      <4>1. k = "agent" BY <2>2, <3>3, <3>7
      <4>2. flow.at = "none" /\ child["server"] = NoSlotUsed
        BY <2>9, <3>7 DEF HostInv, QuitOK, ChildKinds
      <4> QED BY <2>2, <2>5, <4>1, <4>2 DEF ChildKinds
    <3> QED BY <2>2, <3>4, <3>5, <3>6, <3>7
  <2>10. QuitOK' BY <2>2, <2>3, <2>6, <2>8, <2>9 DEF QuitOK, ChildKinds
  <2>11. ListKept BY <2>2 DEF ListKept, Looking
  <2>12. \A j \in ChildKinds : \/ child'[j] = child[j]
                               \/ child'[j] = NoSlotUsed /\ (child[j] \in Slots => os'[child[j]].told)
    BY <2>2, <2>4, <2>5, MemoryLemma
  <2>13. app' \in {"up", "quitting"} BY <2>2, <2>6
  <2> QED
    BY <2>2, <2>3, <2>4, <2>5, <2>6, <2>7, <2>10, <2>11, <2>12, <2>13, MemoryLemma, QuietStepLemma
<1> QED BY <1>1, <1>2

----------------------------------------------------------------------------
(* Steps that start a child                                                *)

\* What a spawn leaves of the processes.
LEMMA SpawnedLemma ==
  ASSUME HostInv, NEW k \in ChildKinds, NEW s \in Slots, Spawns(k, s)
  PROVE  /\ os[s] = Vacant /\ born' = born + 1 /\ born' \in 0..MaxBorn
         /\ s # reviving /\ s # flow.slot /\ \A j \in ChildKinds : flow.list[j].slot # s
         /\ os' \in [Slots -> ProcessRecords]
         /\ os'[s].kind = k /\ os'[s].born = born + 1 /\ ~os'[s].told /\ ~os'[s].known /\ ~os'[s].raced
         /\ \A x \in Slots \ {s} :
              /\ os'[x].kind = os[x].kind /\ os'[x].born = os[x].born
              /\ os'[x].told = os[x].told /\ os'[x].known = os[x].known
              /\ os'[x].raced = (os[x].raced \/ x = child[k])
              /\ x # child[k] => os'[x] = os[x]
<1>1. os \in [Slots -> ProcessRecords] /\ born \in 0..MaxBorn /\ MaxBorn \in Nat
  BY HostTypesLemma, DesktopAssumption DEF HostInv, HostTypes
<1>2. born # MaxBorn /\ os[s] = Vacant /\ s # reviving /\ s # flow.slot BY DEF Spawns, FreeIds
<1>3. born' = born + 1 /\ born' \in 0..MaxBorn BY <1>1, <1>2 DEF Spawns
<1>4. os' = [x \in Slots |->
              IF x = s THEN [Vacant EXCEPT !.kind = k, !.born = born + 1]
              ELSE IF x = child[k] THEN [os[x] EXCEPT !.raced = TRUE] ELSE os[x]]
  BY DEF Spawns
<1>5. /\ os'[s].kind = k /\ os'[s].born = born + 1 /\ ~os'[s].told /\ ~os'[s].known /\ ~os'[s].raced
      /\ os'[s] \in ProcessRecords
  BY <1>1, <1>3, <1>4 DEF Vacant, ProcessRecords, ChildKinds
<1>6. \A x \in Slots \ {s} :
              /\ os'[x].kind = os[x].kind /\ os'[x].born = os[x].born
              /\ os'[x].told = os[x].told /\ os'[x].known = os[x].known
              /\ os'[x].raced = (os[x].raced \/ x = child[k])
              /\ x # child[k] => os'[x] = os[x]
              /\ os'[x] \in ProcessRecords
  BY ZenonT(60), <1>1, <1>4 DEF ProcessRecords
<1>7. os' \in [Slots -> ProcessRecords] BY <1>4, <1>5, <1>6
<1> QED BY <1>2, <1>3, <1>5, <1>6, <1>7 DEF Spawns

\* A child of a kind whose file is clean is started, by the launch or change under way or in place
\* of one that is kept.
LEMMA SpawnLemma ==
  ASSUME HostInv, Running, NEW k \in ChildKinds, NEW s \in Slots, Spawns(k, s), Clean(k),
         UNCHANGED <<since, childrenFile, app, quitting>>,
         kept' = kept \/ kept' = kept \cup {k}, timer' \subseteq timer,
         reviving' = reviving \/ (reviving' = s /\ k = "server"),
         \/ flow' = flow
         \/ flow' = IdleFlow
         \/ flow' = [flow EXCEPT !.at = "waiting", !.slot = s] /\ flow.at = "recovering" /\ flow.kind = k,
         flow.at # "none" \/ (k \in kept /\ kept' = kept)
  PROVE  HostInv'
<1>1. /\ os[s] = Vacant /\ os[s].kind = "none" /\ born' = born + 1 /\ born' \in 0..MaxBorn
      /\ s # reviving /\ s # flow.slot /\ \A j \in ChildKinds : flow.list[j].slot # s
      /\ os' \in [Slots -> ProcessRecords]
      /\ os'[s].kind = k /\ os'[s].born = born + 1 /\ ~os'[s].told /\ ~os'[s].known /\ ~os'[s].raced
  BY SpawnedLemma DEF Vacant
<1>2. \A x \in Slots \ {s} :
              /\ os'[x].kind = os[x].kind /\ os'[x].born = os[x].born
              /\ os'[x].told = os[x].told /\ os'[x].known = os[x].known
              /\ os'[x].raced = (os[x].raced \/ x = child[k])
              /\ x # child[k] => os'[x] = os[x]
  BY SpawnedLemma
<1>3. /\ since \in Nat /\ born \in Nat /\ since <= born /\ \A x \in Slots : os[x].born <= born /\ os[x].born \in Nat
      /\ since \in 0..MaxBorn
  BY HostTypesLemma, DesktopAssumption DEF HostInv, HostTypes, TableOK, ProcessRecords
<1>4. /\ child' = [child EXCEPT ![k] = s] /\ writing' = {w \in writing : os[w].kind # k} \cup {s}
  BY DEF Spawns
<1>5. /\ child' \in [ChildKinds -> AnySlot] /\ child'[k] = s
      /\ \A j \in ChildKinds \ {k} : child'[j] = child[j]
  BY <1>4, MemoryLemma, SlotsLemma
<1>6. \A j \in ChildKinds : Clean(j) => Clean(j)'
  <2> TAKE j \in ChildKinds
  <2>1. childrenFile[j].slot \in Slots /\ os[childrenFile[j].slot].kind = j => childrenFile[j].slot # s
    BY <1>1 DEF ChildKinds
  <2> QED BY <1>2, <2>1 DEF Clean, OfThisSession
<1>7. childrenFile[k].slot # s
  BY <1>1, NotOnFileLemma, SlotsLemma DEF Clean, OfThisSession, ChildKinds
<1>8. /\ flow' \in Flows
      /\ flow'.list = flow.list \/ \A j \in ChildKinds : flow'.list[j] = NotOnFile
      /\ Looking' => Looking /\ flow'.list = flow.list
  <2>1. CASE flow' = flow BY <2>1, MemoryLemma DEF Looking
  <2>2. CASE flow' = IdleFlow BY <2>2, IdleLemma DEF Looking
  <2>3. CASE flow' = [flow EXCEPT !.at = "waiting", !.slot = s]
    BY <2>3, MemoryLemma, SlotsLemma DEF Looking, Flows
  <2> QED BY <2>1, <2>2, <2>3
<1>9. HostTypes'
  <2>1. writing' \subseteq Slots /\ reviving' \in AnySlot
    BY <1>4, MemoryLemma, SlotsLemma DEF HostInv, HostTypes
  <2>2. kept' \subseteq ChildKinds /\ timer' \subseteq ChildKinds BY MemoryLemma
  <2> QED BY <1>1, <1>3, <1>5, <1>8, <2>1, <2>2 DEF HostInv, HostTypes, ProcessRecords, Flows
<1>10. TableOK'
  <2>1. ASSUME NEW x \in Slots
        PROVE  /\ os'[x].born <= born'
               /\ os'[x].kind = "none" => os'[x] = Vacant
               /\ os'[x].kind = "foreign" => ~os'[x].told
    <3>1. CASE x = s BY <1>1, <1>3, <3>1 DEF ChildKinds
    <3>2. CASE x # s
      <4>1. os[x].kind = "none" => x # child[k]
        BY MemoryLemma, SlotsLemma DEF ChildKinds
      <4> QED BY <1>1, <1>2, <1>3, <3>2, <4>1 DEF HostInv, TableOK
    <3> QED BY <3>1, <3>2
  <2> QED BY <1>1, <1>3, <2>1 DEF TableOK
<1>11. \A t \in Slots : Plain(t)' => t # s /\ Plain(t) /\ t # child[k]
  BY <1>1, <1>2 DEF Plain
<1>12. \A t \in Slots : os'[t].kind = k => ~Plain(t)'
  <2> SUFFICES ASSUME NEW t \in Slots, os'[t].kind = k, Plain(t)' PROVE FALSE OBVIOUS
  <2>1. t # s /\ Plain(t) /\ t # child[k] /\ os[t].kind = k BY <1>2, <1>11
  <2>2. childrenFile[k].slot = t /\ childrenFile[k].born = os[t].born BY <2>1 DEF HostInv, FileOK
  <2>3. os[t].born > since
    BY <1>3, <2>1, <2>2, NotOnFileLemma, SlotsLemma DEF Clean, OfThisSession
  <2>4. child[k] = t BY <2>1, <2>3 DEF HostInv, MemoryOK, Plain
  <2> QED BY <2>1, <2>4
<1>13. FileOK'
  <2>1. \A j \in ChildKinds : Names(childrenFile[j], j)' /\ Names(flow.list[j], j)'
    <3>1. \A j \in ChildKinds : /\ childrenFile[j] \in OsRecords /\ flow.list[j] \in OsRecords
                                /\ Names(childrenFile[j], j) /\ Names(flow.list[j], j)
      BY HostTypesLemma DEF HostInv, HostTypes, Flows, FileOK
    <3>2. ASSUME NEW r \in OsRecords, NEW j \in ChildKinds, Names(r, j) PROVE Names(r, j)'
      <4>1. r.born \in Nat /\ r.born <= born /\ r.slot \in AnySlot
        BY <3>2, DesktopAssumption DEF OsRecords, Names
      <4>2. CASE r.slot = s BY <1>1, <1>3, <4>1, <4>2 DEF Names, SameProcess
      <4>3. CASE r.slot # s
        <5>1. SameProcess(r)' => SameProcess(r)
          BY <1>2, <4>1, <4>3 DEF SameProcess, Present, AnySlot
        <5>2. SameProcess(r) => os'[r.slot].kind = os[r.slot].kind
          BY <1>2, <4>1, <4>3 DEF SameProcess, Present, AnySlot
        <5> QED BY <1>1, <1>3, <3>2, <4>1, <5>1, <5>2 DEF Names
      <4> QED BY <4>2, <4>3
    <3>3. \A j \in ChildKinds : Names(NotOnFile, j)
      BY <1>3, NotOnFileLemma DEF Names, SameProcess, Present
    <3>4. \A j \in ChildKinds : flow'.list[j] \in {flow.list[j], NotOnFile} BY <1>8
    <3> QED BY <3>1, <3>2, <3>3, <3>4, NotOnFileLemma
  <2>2. \A t \in Slots : Plain(t)' =>
          childrenFile'[os'[t].kind].slot = t /\ childrenFile'[os'[t].kind].born = os'[t].born
    BY <1>2, <1>11 DEF HostInv, FileOK
  <2>3. ASSUME NEW t \in Slots, NEW j \in ChildKinds, os'[t].kind = j, os'[t].born > since'
        PROVE  /\ childrenFile'[j].slot = t => childrenFile'[j].born = os'[t].born
               /\ Looking' /\ flow'.list[j].slot = t => flow'.list[j].born = os'[t].born
    <3>1. CASE t = s BY <1>1, <1>7, <1>8, <2>3, <3>1
    <3>2. CASE t # s BY <1>2, <1>8, <2>3, <3>2 DEF HostInv, FileOK
    <3> QED BY <3>1, <3>2
  <2>4. ASSUME NEW w \in writing'
        PROVE  (/\ os[w].kind \in ChildKinds /\ os[w].born > since /\ ~os[w].known /\ Clean(os[w].kind)
                /\ \A t \in Slots : os[t].kind = os[w].kind => ~Plain(t) /\ (t \in writing => t = w))'
    <3>1. CASE w = s
      <4>1. Clean(os[w].kind)' BY <1>1, <1>6, <3>1 DEF Clean
      <4>2. \A t \in Slots : os'[t].kind = k /\ t \in writing' => t = s
        BY <1>2, <1>4
      <4> QED BY <1>1, <1>3, <1>12, <3>1, <4>1, <4>2
    <3>2. CASE w # s
      <4>1. w \in writing /\ w \in Slots /\ os[w].kind # k BY <1>4, <3>2 DEF HostInv, HostTypes
      <4>2. PICK j \in ChildKinds : j = os[w].kind /\ Clean(j) BY <4>1 DEF HostInv, FileOK
      <4>3. os'[w].kind = j /\ Clean(j)' BY <1>2, <1>6, <3>2, <4>1, <4>2
      <4>4. \A t \in Slots : os'[t].kind = j => t # s /\ os[t].kind = j BY <1>1, <1>2, <4>1, <4>2
      <4> QED BY <1>2, <1>4, <1>11, <3>2, <4>1, <4>2, <4>3, <4>4 DEF HostInv, FileOK, Clean
    <3> QED BY <3>1, <3>2
  <2>5. Looking' => \A j \in ChildKinds : childrenFile'[j] = flow'.list[j] \/ Clean(j)'
    BY <1>6, <1>8 DEF HostInv, FileOK
  <2> QED BY <2>1, <2>2, <2>3, <2>4, <2>5 DEF FileOK
<1>14. MemoryOK'
  <2>1. Running' BY DEF Running
  <2>2. \A j \in ChildKinds : child'[j] # NoSlotUsed =>
          os'[child'[j]].kind = j /\ os'[child'[j]].born > since' /\ Clean(j)'
    <3> TAKE j \in ChildKinds
    <3>1. CASE j = k BY <1>1, <1>3, <1>5, <1>6, <3>1
    <3>2. CASE j # k
      <4>1. child[j] # NoSlotUsed => child[j] \in Slots /\ child[j] # s /\ os[child[j]].born > since
        BY <1>1, MemoryLemma DEF HostInv, MemoryOK, ChildKinds
      <4> QED BY <1>2, <1>5, <1>6, <3>2, <4>1, MemoryLemma
    <3> QED BY <3>1, <3>2
  <2>3. \A j \in kept' \cup timer' : Clean(j)' BY <1>6, MemoryLemma
  <2>4. Present(reviving)' => os'[reviving'].kind = "server"
    <3>1. CASE reviving' = s /\ k = "server" BY <1>1, <3>1
    <3>2. CASE reviving' = reviving
      <4>1. Present(reviving)' => Present(reviving)
        BY <1>1, <1>2, <3>2, MemoryLemma DEF Present, AnySlot
      <4> QED BY <1>1, <1>2, <3>2, <4>1, MemoryLemma
    <3> QED BY <3>1, <3>2
  <2>5. ASSUME NEW t \in Slots, os'[t].kind \in ChildKinds, os'[t].born > since', ~os'[t].told, ~os'[t].raced
        PROVE  child'[os'[t].kind] = t
    <3>1. CASE t = s BY <1>1, <1>5, <3>1
    <3>2. CASE t # s
      <4>1. child[os[t].kind] = t /\ t # child[k] BY <1>2, <2>5, <3>2 DEF HostInv, MemoryOK
      <4> QED BY <1>2, <1>5, <2>5, <3>2, <4>1
    <3> QED BY <3>1, <3>2
  <2> QED BY <2>1, <2>2, <2>3, <2>4, <2>5 DEF MemoryOK
<1>15. FlowOK'
  <2>1. \A j \in ChildKinds : Clean(j) => Clean(j)' BY <1>6
  <2>2. CASE flow' = IdleFlow BY <2>2, IdleLemma DEF FlowOK, FlowFine, Present
  <2>3. CASE flow' = flow
    <3>1. Present(flow.slot)' => Present(flow.slot) /\ os'[flow'.slot].kind = os[flow.slot].kind
      BY <1>1, <1>2, <2>3, MemoryLemma, SlotsLemma DEF Present, Flows, AnySlot
    <3> QED BY <2>1, <2>3, <3>1, CleanFlowLemma
  <2>4. CASE flow' = [flow EXCEPT !.at = "waiting", !.slot = s] /\ flow.kind = k
    <3>1. /\ flow'.at = "waiting" /\ flow'.slot = s /\ flow'.kind = k /\ flow'.previous = flow.previous
          /\ flow.previous \in ChildKinds \cup {"none"} /\ FlowFine(flow)
      BY <2>4, MemoryLemma DEF Flows
    <3>2. Clean(flow.kind)'
      <4>1. Clean(k)' BY <2>1
      <4> QED BY <3>1, <4>1 DEF Clean
    <3>3. flow'.previous # "none" => Clean(flow.previous)'
      <4> SUFFICES ASSUME flow'.previous # "none" PROVE Clean(flow.previous)' OBVIOUS
      <4>1. PICK j \in ChildKinds : j = flow.previous /\ Clean(j) BY <3>1 DEF FlowFine
      <4>2. Clean(j)' BY <2>1, <4>1
      <4> QED BY <3>1, <4>1, <4>2 DEF Clean
    <3> QED BY <1>1, <3>1, <3>2, <3>3 DEF FlowOK, FlowFine
  <2> QED BY <2>2, <2>3, <2>4
<1>16. QuitOK'
  <2>1. quitting'.at # "none" => app' = "quitting" BY DEF HostInv, QuitOK
  <2>2. quitting'.at # "none" /\ ~quitting'.cut => flow'.at = "none" \/ Changing'
    <3>1. CASE flow' = flow BY <3>1 DEF HostInv, QuitOK, Changing
    <3>2. CASE flow' = IdleFlow BY <3>2, IdleLemma
    <3>3. CASE flow' = [flow EXCEPT !.at = "waiting", !.slot = s] /\ flow.at = "recovering"
      <4>1. flow'.undo = flow.undo /\ flow'.previous = flow.previous BY <3>3, MemoryLemma DEF Flows
      <4> QED BY <3>3, <4>1 DEF HostInv, QuitOK, Changing
    <3> QED BY <3>1, <3>2, <3>3
  <2>3. CASE flow.at = "none"
    <3>1. flow'.at = "none" BY <2>3, IdleLemma
    <3>2. k \in kept /\ kept' = kept BY <2>3
    <3> QED BY <1>5, <2>1, <2>2, <3>1, <3>2 DEF HostInv, QuitOK, ChildKinds
  <2>4. CASE flow.at # "none"
    <3>1. ~(quitting'.at \in ChildKinds /\ ~quitting'.cut) BY <2>4 DEF HostInv, QuitOK
    <3> QED BY <2>1, <2>2, <3>1 DEF QuitOK, ChildKinds
  <2> QED BY <2>3, <2>4
<1>17. QuitLeavesNothing' BY DEF QuitLeavesNothing, Running
<1> QED BY <1>9, <1>10, <1>13, <1>14, <1>15, <1>16, <1>17 DEF HostInv

\* The timer of a restart.
LEMMA RestartLemma ==
  ASSUME HostInv, NEW k \in ChildKinds, RestartFires(k)
  PROVE  HostInv'
<1>1. /\ Running /\ k \in timer /\ timer' = timer \ {k}
      /\ UNCHANGED <<childrenFile, kept, mark, flow, quitting, app, since>>
  BY DEF RestartFires, Session
<1>2. Clean(k) /\ kept' \subseteq ChildKinds /\ timer' \subseteq ChildKinds
      /\ \A j \in kept' \cup timer' : Clean(j)
  BY <1>1, MemoryLemma
<1>3. CASE k \in kept /\ child[k] = NoSlotUsed
  <2>1. PICK s \in Slots : Spawns(k, s) /\ reviving' = IF k = "server" THEN s ELSE reviving
    BY <1>3 DEF RestartFires
  <2> QED BY <1>1, <1>2, <1>3, <2>1, SpawnLemma
<1>4. CASE UNCHANGED <<os, born, child, writing, reviving>>
  <2>1. ListKept /\ Changing' = Changing BY <1>1 DEF ListKept, Looking, Changing
  <2> QED BY <1>1, <1>2, <1>4, <2>1, MemoryLemma, NobodyToldLemma, GoesOnQuietly
<1> QED BY <1>3, <1>4 DEF RestartFires

\* A launch goes on to its child.
LEMMA StartChildLemma ==
  ASSUME HostInv, StartChild
  PROVE  HostInv'
<1>1. /\ Running /\ flow.at = "recovering" /\ flow.todo = {}
      /\ UNCHANGED <<childrenFile, mark, timer, reviving, quitting, app, since>>
  BY ZenonT(30) DEF StartChild, Session
<1>2. flow.kind \in ChildKinds /\ \A k \in ChildKinds : Clean(k)
  <2>1. flow.kind \in ChildKinds /\ \A k \in ChildKinds : flow.list[k] = NotOnFile
    BY <1>1, MemoryLemma DEF FlowFine
  <2> QED BY <1>1, <2>1 DEF HostInv, FileOK, Looking, Clean
<1>3. CASE \E s \in Slots :
             /\ Spawns(flow.kind, s)
             /\ flow' = IF flow.kind = "server" \/ flow.undo
                        THEN [flow EXCEPT !.at = "waiting", !.slot = s] ELSE IdleFlow
             /\ kept' = IF flow.kind = "agent" THEN kept \cup {flow.kind} ELSE kept
  <2>1. PICK s \in Slots :
             /\ Spawns(flow.kind, s)
             /\ flow' = IF flow.kind = "server" \/ flow.undo
                        THEN [flow EXCEPT !.at = "waiting", !.slot = s] ELSE IdleFlow
             /\ kept' = IF flow.kind = "agent" THEN kept \cup {flow.kind} ELSE kept
    BY ZenonT(30), <1>3
  <2>2. PICK k \in ChildKinds : k = flow.kind /\ Clean(k) BY <1>2
  <2>3. /\ Spawns(k, s) /\ (kept' = kept \/ kept' = kept \cup {k})
        /\ \/ flow' = IdleFlow
           \/ flow' = [flow EXCEPT !.at = "waiting", !.slot = s] /\ flow.at = "recovering" /\ flow.kind = k
    BY <1>1, <2>1, <2>2
  <2> QED BY ZenonT(30), <1>1, <2>2, <2>3, SpawnLemma
<1>4. CASE /\ flow.kind = "agent" /\ child[flow.kind] # NoSlotUsed
           /\ flow' = IF flow.undo THEN [flow EXCEPT !.at = "waiting", !.slot = child[flow.kind]] ELSE IdleFlow
           /\ UNCHANGED <<os, born, writing, child, kept>>
  <2>1. CASE flow' = IdleFlow BY <1>1, <1>4, <2>1, EndsLemma, FlowMoves
  <2>2. CASE flow' = [flow EXCEPT !.at = "waiting", !.slot = child[flow.kind]]
    <3>1. child[flow.kind] \in Slots /\ os[child[flow.kind]].kind = flow.kind
      BY <1>2, <1>4, MemoryLemma
    <3>2. /\ flow' \in Flows /\ flow'.at = "waiting" /\ flow'.slot = child[flow.kind]
          /\ flow'.kind = flow.kind /\ flow'.previous = flow.previous /\ flow'.list = flow.list
          /\ flow'.undo = flow.undo
      BY <2>2, <3>1, MemoryLemma DEF Flows, AnySlot
    <3>3. Clean(flow'.kind) BY <1>2, <3>2
    <3>4. FlowFine(flow') /\ ListKept BY <1>2, <3>1, <3>2, <3>3, MemoryLemma DEF FlowFine, ListKept, Looking
    <3>5. Changing => Changing' BY <1>1, <3>2 DEF Changing
    <3> QED BY <1>1, <1>4, <3>2, <3>4, <3>5, FlowMoves
  <2> QED BY <1>4, <2>1, <2>2
<1>5. CASE flow' = FailedFlow /\ UNCHANGED <<os, born, writing, child, kept>>
  BY <1>1, <1>5, EndsLemma, FlowMoves
<1> QED BY ZenonT(30), <1>3, <1>4, <1>5 DEF StartChild

\* The way back starts what was there.
LEMMA RestoreLemma ==
  ASSUME HostInv, Restore
  PROVE  HostInv'
<1>1. /\ Running /\ flow.at = "starting"
      /\ UNCHANGED <<childrenFile, mark, timer, reviving, quitting, app, since>>
  BY DEF Restore, Session
<1>2. CASE flow' = IdleFlow /\ UNCHANGED <<os, born, writing, child, kept>>
  BY <1>1, <1>2, EndsLemma, FlowMoves
<1>3. CASE /\ flow.previous = "server" /\ UNCHANGED <<os, born, writing, child, kept>>
           /\ Recovers([IdleFlow EXCEPT !.kind = "server", !.previous = "server"])
  <2> DEFINE f == [IdleFlow EXCEPT !.kind = "server", !.previous = "server"]
  <2>1. f \in Flows /\ f.kind = "server" /\ f.previous = "server" /\ f.slot = NoSlotUsed
    BY IdleLemma DEF Flows, ChildKinds
  <2>2. Recovers(f) BY <1>3
  <2>3. Clean("server") /\ "server" \in ChildKinds BY <1>3, MemoryLemma DEF FlowFine, ChildKinds
  <2> HIDE DEF f
  <2>4. Clean(f.previous) BY <2>1, <2>3
  <2>5. flow' \in Flows /\ ListKept /\ FlowFine(flow') /\ flow'.previous = f.previous
    BY <2>1, <2>2, <2>3, <2>4, RecoversLemma
  <2>6. Changing' BY <2>1, <2>5 DEF Changing
  <2> QED BY <1>1, <1>3, <2>5, <2>6, FlowMoves
<1>4. CASE /\ flow.previous = "agent" /\ flow' = IdleFlow /\ kept' = kept \cup {"agent"}
           /\ \E s \in Slots : Spawns("agent", s)
  <2>1. PICK s \in Slots : Spawns("agent", s) BY <1>4
  <2>2. Clean("agent") /\ "agent" \in ChildKinds BY <1>4, MemoryLemma DEF FlowFine, ChildKinds
  <2> QED BY <1>1, <1>4, <2>1, <2>2, SpawnLemma
<1> QED BY <1>1, <1>2, <1>3, <1>4 DEF Restore

----------------------------------------------------------------------------
(* Steps of the processes and of their record                              *)

\* The process on record is written down.
LEMMA PutOnFileLemma ==
  ASSUME HostInv, NEW s \in Slots, PutOnFile(s)
  PROVE  HostInv'
<1>1. /\ Running /\ s \in writing /\ writing' = writing \ {s}
      /\ os' = [os EXCEPT ![s].known = TRUE]
      /\ UNCHANGED <<born, child, kept, mark, timer, reviving, flow, quitting, app, since>>
  BY DEF PutOnFile, Memory, Session
<1>2. PICK k \in ChildKinds :
        /\ k = os[s].kind /\ os[s].born > since
        /\ \A t \in Slots : os[t].kind = k => ~Plain(t) /\ (t \in writing => t = s)
  BY <1>1 DEF HostInv, FileOK
<1>3. PICK v \in BOOLEAN :
        childrenFile' = [childrenFile EXCEPT ![k] = [slot |-> s, born |-> os[s].born, verified |-> v]]
  BY <1>2 DEF PutOnFile
<1>4. os \in [Slots -> ProcessRecords] /\ childrenFile \in [ChildKinds -> OsRecords] /\ flow \in Flows
  BY HostTypesLemma DEF HostInv, HostTypes
<1>5. PICK r \in OsRecords : r = [slot |-> s, born |-> os[s].born, verified |-> v]
  BY <1>4, SlotsLemma DEF OsRecords, ProcessRecords
<1>6. /\ childrenFile' \in [ChildKinds -> OsRecords] /\ childrenFile'[k] = r
      /\ \A j \in ChildKinds \ {k} : childrenFile'[j] = childrenFile[j]
      /\ r.slot = s /\ r.born = os[s].born
  BY <1>3, <1>4, <1>5
<1>7. /\ os' \in [Slots -> ProcessRecords]
      /\ \A x \in Slots : /\ os'[x].kind = os[x].kind /\ os'[x].born = os[x].born
                          /\ os'[x].told = os[x].told /\ os'[x].raced = os[x].raced
                          /\ x # s => os'[x] = os[x]
  BY ZenonT(60), <1>1, <1>4 DEF ProcessRecords
<1>8. Clean(k)' /\ \A j \in ChildKinds : Clean(j) => Clean(j)'
  <2>1. Clean(k)' BY <1>1, <1>2, <1>6, <1>7 DEF Clean, OfThisSession
  <2>2. ASSUME NEW j \in ChildKinds, j # k, Clean(j) PROVE Clean(j)'
    BY <1>1, <1>6, <1>7, <2>2 DEF Clean, OfThisSession
  <2> QED BY <2>1, <2>2
<1>9. \A t \in Slots : Plain(t)' => (t = s \/ (Plain(t) /\ os[t].kind # k))
  BY <1>2, <1>7 DEF Plain
<1>10. HostTypes' BY <1>1, <1>6, <1>7 DEF HostInv, HostTypes, ProcessRecords
<1>11. TableOK'
  <2>1. ASSUME NEW x \in Slots
        PROVE  /\ os'[x].born <= born'
               /\ os'[x].kind = "none" => os'[x] = Vacant
               /\ os'[x].kind = "foreign" => ~os'[x].told
    <3>1. os'[x].kind = "none" => x # s BY <1>2, <1>7 DEF ChildKinds
    <3> QED BY <1>1, <1>7, <3>1 DEF HostInv, TableOK
  <2> QED BY <1>1, <2>1 DEF HostInv, TableOK
<1>12. FileOK'
  <2>1. \A j \in ChildKinds : Names(childrenFile[j], j)' /\ Names(flow.list[j], j)'
    <3>1. \A q \in OsRecords, j \in ChildKinds : Names(q, j) => Names(q, j)'
      BY <1>1, <1>7, SlotsLemma DEF Names, SameProcess, Present, OsRecords, AnySlot
    <3>2. \A j \in ChildKinds : Names(childrenFile[j], j) /\ Names(flow.list[j], j)
      BY DEF HostInv, FileOK
    <3>3. Names(r, k) BY <1>2, <1>6 DEF Names, HostInv, TableOK
    <3>4. \A j \in ChildKinds : childrenFile[j] \in OsRecords /\ flow.list[j] \in OsRecords
      BY <1>4 DEF Flows
    <3> QED BY <1>1, <1>6, <3>1, <3>2, <3>3, <3>4
  <2>2. ASSUME NEW t \in Slots, Plain(t)'
        PROVE  childrenFile'[os'[t].kind].slot = t /\ childrenFile'[os'[t].kind].born = os'[t].born
    <3>1. CASE t = s BY <1>2, <1>6, <1>7, <3>1
    <3>2. CASE Plain(t) /\ os[t].kind # k
      <4>1. os[t].kind \in ChildKinds BY <3>2 DEF Plain
      <4> QED BY <1>6, <1>7, <3>2, <4>1 DEF HostInv, FileOK
    <3> QED BY <1>9, <2>2, <3>1, <3>2
  <2>3. ASSUME NEW t \in Slots, NEW j \in ChildKinds, os'[t].kind = j, os'[t].born > since'
        PROVE  /\ childrenFile'[j].slot = t => childrenFile'[j].born = os'[t].born
               /\ Looking' /\ flow'.list[j].slot = t => flow'.list[j].born = os'[t].born
    <3>1. os[t].kind = j /\ os[t].born > since BY <1>1, <1>7, <2>3
    <3>2. childrenFile'[j].slot = t => childrenFile'[j].born = os'[t].born
      BY <1>2, <1>6, <1>7, <3>1 DEF HostInv, FileOK
    <3>3. Looking' = Looking BY <1>1 DEF Looking
    <3> QED BY <1>1, <1>7, <3>1, <3>2, <3>3 DEF HostInv, FileOK
  <2>4. ASSUME NEW w \in writing'
        PROVE  (/\ os[w].kind \in ChildKinds /\ os[w].born > since /\ ~os[w].known /\ Clean(os[w].kind)
                /\ \A t \in Slots : os[t].kind = os[w].kind => ~Plain(t) /\ (t \in writing => t = w))'
    <3>1. w \in writing /\ w \in Slots /\ w # s BY <1>1 DEF HostInv, HostTypes
    <3>2. PICK j \in ChildKinds : j = os[w].kind /\ Clean(j) BY <3>1 DEF HostInv, FileOK
    <3>3. os'[w] = os[w] /\ os'[w].kind = j /\ Clean(j)' /\ j # k BY <1>2, <1>7, <1>8, <3>1, <3>2
    <3>4. os'[w].born > since' /\ ~os'[w].known BY <1>1, <3>1, <3>3 DEF HostInv, FileOK
    <3>5. ASSUME NEW t \in Slots, os'[t].kind = j PROVE ~Plain(t)' /\ (t \in writing' => t = w)
      <4>1. os[t].kind = j /\ t # s BY <1>2, <1>7, <3>3, <3>5
      <4>2. ~Plain(t) /\ (t \in writing => t = w) BY <3>1, <3>2, <4>1 DEF HostInv, FileOK
      <4> QED BY <1>1, <1>9, <4>1, <4>2
    <3>6. Clean(os[w].kind)' BY <3>3 DEF Clean
    <3> QED BY <3>3, <3>4, <3>5, <3>6
  <2>5. Looking' => \A j \in ChildKinds : childrenFile'[j] = flow'.list[j] \/ Clean(j)'
    BY <1>1, <1>6, <1>8 DEF HostInv, FileOK, Looking
  <2> QED BY <2>1, <2>2, <2>3, <2>4, <2>5 DEF FileOK
<1>13. MemoryOK'
  <2>1. Running' BY <1>1 DEF Running
  <2>2. \A j \in ChildKinds : child'[j] # NoSlotUsed =>
          os'[child'[j]].kind = j /\ os'[child'[j]].born > since' /\ Clean(j)'
    BY <1>1, <1>7, <1>8, MemoryLemma DEF HostInv, MemoryOK
  <2>3. \A j \in kept' \cup timer' : Clean(j)' BY <1>1, <1>8, MemoryLemma
  <2>4. Present(reviving)' => os'[reviving'].kind = "server"
    BY <1>1, <1>7, MemoryLemma DEF Present, AnySlot
  <2>5. \A t \in Slots :
          os'[t].kind \in ChildKinds /\ os'[t].born > since' /\ ~os'[t].told /\ ~os'[t].raced
            => child'[os'[t].kind] = t
    BY <1>1, <1>7 DEF HostInv, MemoryOK
  <2> QED BY <2>1, <2>2, <2>3, <2>4, <2>5 DEF MemoryOK
<1>14. FlowOK'
  <2>1. Present(flow.slot)' = Present(flow.slot) /\ (Present(flow.slot) => os'[flow'.slot].kind = os[flow.slot].kind)
    BY <1>1, <1>4, <1>7, SlotsLemma DEF Present, Flows, AnySlot
  <2> QED BY <1>1, <1>8, <2>1, CleanFlowLemma
<1>15. QuitOK' BY <1>1 DEF HostInv, QuitOK, Changing
<1>16. QuitLeavesNothing' BY <1>1 DEF QuitLeavesNothing, Running
<1> QED BY <1>10, <1>11, <1>12, <1>13, <1>14, <1>15, <1>16 DEF HostInv

\* Another program gets an id that is on record.
LEMMA ForeignLemma ==
  ASSUME HostInv, NEW s \in Slots, ForeignStarts(s)
  PROVE  HostInv'
<1>1. /\ s \in FreeIds /\ born' = born + 1
      /\ os' = [os EXCEPT ![s] = [Vacant EXCEPT !.kind = "foreign", !.born = born + 1]]
      /\ UNCHANGED <<childrenFile, writing, child, kept, mark, timer, reviving, flow, quitting, app, since>>
  BY DEF ForeignStarts, Memory, Session
<1>2. os \in [Slots -> ProcessRecords] /\ flow \in Flows /\ born \in 0..MaxBorn /\ MaxBorn \in Nat
      /\ childrenFile \in [ChildKinds -> OsRecords] /\ since \in 0..MaxBorn
  BY HostTypesLemma, DesktopAssumption DEF HostInv, HostTypes
<1>3. os[s].kind = "none" /\ s # reviving /\ s # flow.slot /\ born + 1 \in 0..MaxBorn
  BY <1>1, <1>2 DEF FreeIds, Vacant
<1>4. /\ os' \in [Slots -> ProcessRecords]
      /\ os'[s].kind = "foreign" /\ os'[s].born = born + 1 /\ ~os'[s].told
      /\ \A x \in Slots \ {s} : os'[x] = os[x]
  BY <1>1, <1>2, <1>3 DEF Vacant, ProcessRecords
<1>5. \A j \in ChildKinds : Clean(j) => Clean(j)'
  BY <1>1, <1>3, <1>4 DEF Clean, OfThisSession, ChildKinds
<1>6. \A t \in Slots : os'[t].kind \in ChildKinds => t # s BY <1>4 DEF ChildKinds
<1>7. HostTypes' BY <1>1, <1>3, <1>4 DEF HostInv, HostTypes, ProcessRecords
<1>8. TableOK'
  <2>1. \A x \in Slots : os[x].born \in Nat BY <1>2, DesktopAssumption DEF ProcessRecords
  <2>2. ASSUME NEW x \in Slots
        PROVE  /\ os'[x].born <= born'
               /\ os'[x].kind = "none" => os'[x] = Vacant
               /\ os'[x].kind = "foreign" => ~os'[x].told
    BY <1>1, <1>2, <1>4, <2>1 DEF HostInv, TableOK
  <2>3. since' <= born' BY <1>1, <1>2 DEF HostInv, TableOK
  <2> QED BY <2>2, <2>3 DEF TableOK
<1>9. FileOK'
  <2>1. \A j \in ChildKinds : Names(childrenFile[j], j)' /\ Names(flow.list[j], j)'
    <3>1. ASSUME NEW r \in OsRecords, NEW j \in ChildKinds, Names(r, j) PROVE Names(r, j)'
      <4>1. r.born \in Nat /\ r.born <= born /\ r.slot \in AnySlot
        BY <1>2, <3>1 DEF OsRecords, Names
      <4>2. r.slot = s => ~SameProcess(r)' BY <1>2, <1>4, <4>1 DEF SameProcess
      <4>3. r.slot # s => (SameProcess(r)' => SameProcess(r) /\ os'[r.slot].kind = os[r.slot].kind)
        BY <1>4, <4>1 DEF SameProcess, Present, AnySlot
      <4> QED BY <1>1, <1>2, <3>1, <4>1, <4>2, <4>3 DEF Names
    <3> QED BY <1>1, <1>2, <3>1 DEF HostInv, FileOK, Flows
  <2>2. \A t \in Slots : Plain(t)' =>
          childrenFile'[os'[t].kind].slot = t /\ childrenFile'[os'[t].kind].born = os'[t].born
    BY <1>1, <1>4, <1>6 DEF HostInv, FileOK, Plain
  <2>3. \A t \in Slots, j \in ChildKinds : os'[t].kind = j /\ os'[t].born > since' =>
          /\ childrenFile'[j].slot = t => childrenFile'[j].born = os'[t].born
          /\ Looking' /\ flow'.list[j].slot = t => flow'.list[j].born = os'[t].born
    BY <1>1, <1>4, <1>6 DEF HostInv, FileOK, Looking
  <2>4. ASSUME NEW w \in writing'
        PROVE  (/\ os[w].kind \in ChildKinds /\ os[w].born > since /\ ~os[w].known /\ Clean(os[w].kind)
                /\ \A t \in Slots : os[t].kind = os[w].kind => ~Plain(t) /\ (t \in writing => t = w))'
    <3>1. w \in writing /\ w \in Slots BY <1>1 DEF HostInv, HostTypes
    <3>2. PICK j \in ChildKinds : j = os[w].kind /\ Clean(j) BY <3>1 DEF HostInv, FileOK
    <3>3. w # s BY <1>3, <3>2 DEF ChildKinds
    <3>4. os'[w] = os[w] /\ os'[w].kind = j /\ Clean(j)' BY <1>4, <1>5, <3>1, <3>2, <3>3
    <3>5. os'[w].born > since' /\ ~os'[w].known BY <1>1, <3>1, <3>4 DEF HostInv, FileOK
    <3>6. ASSUME NEW t \in Slots, os'[t].kind = j PROVE ~Plain(t)' /\ (t \in writing' => t = w)
      <4>1. t # s BY <1>6, <3>6
      <4>2. os'[t] = os[t] BY <1>4, <4>1
      <4>3. ~Plain(t) /\ (t \in writing => t = w) BY <3>1, <3>2, <3>6, <4>2 DEF HostInv, FileOK
      <4> QED BY <1>1, <4>2, <4>3 DEF Plain
    <3>7. Clean(os[w].kind)' BY <3>4 DEF Clean
    <3> QED BY <3>4, <3>5, <3>6, <3>7
  <2>5. Looking' => \A j \in ChildKinds : childrenFile'[j] = flow'.list[j] \/ Clean(j)'
    BY <1>1, <1>5 DEF HostInv, FileOK, Looking
  <2> QED BY <2>1, <2>2, <2>3, <2>4, <2>5 DEF FileOK
<1>10. MemoryOK'
  <2>1. ~Running' => /\ writing' = {} /\ kept' = {} /\ timer' = {} /\ reviving' = NoSlotUsed
                     /\ \A j \in ChildKinds : child'[j] = NoSlotUsed
                     /\ quitting' = NoQuit /\ flow' = IdleFlow
    BY <1>1 DEF HostInv, MemoryOK, Running
  <2>2. \A j \in ChildKinds : child'[j] # NoSlotUsed =>
          os'[child'[j]].kind = j /\ os'[child'[j]].born > since' /\ Clean(j)'
    BY <1>1, <1>3, <1>4, <1>5, MemoryLemma DEF HostInv, MemoryOK, ChildKinds
  <2>3. \A j \in kept' \cup timer' : Clean(j)' BY <1>1, <1>5, MemoryLemma
  <2>4. Present(reviving)' => os'[reviving'].kind = "server"
    BY <1>1, <1>3, <1>4, MemoryLemma DEF Present, AnySlot
  <2>5. Running' => \A t \in Slots :
          os'[t].kind \in ChildKinds /\ os'[t].born > since' /\ ~os'[t].told /\ ~os'[t].raced
            => child'[os'[t].kind] = t
    BY <1>1, <1>4, <1>6 DEF HostInv, MemoryOK, Running
  <2> QED BY <2>1, <2>2, <2>3, <2>4, <2>5 DEF MemoryOK
<1>11. FlowOK'
  <2>1. Present(flow.slot)' = Present(flow.slot) /\ (Present(flow.slot) => os'[flow'.slot].kind = os[flow.slot].kind)
    BY <1>1, <1>2, <1>3, <1>4, SlotsLemma DEF Present, Flows, AnySlot
  <2> QED BY <1>1, <1>5, <2>1, CleanFlowLemma
<1>12. QuitOK' BY <1>1 DEF HostInv, QuitOK, Changing
<1>13. QuitLeavesNothing'
  <2>1. \A t \in Slots : os'[t].kind \in ChildKinds => os'[t] = os[t] BY <1>4, <1>6
  <2> QED BY <1>1, <2>1 DEF HostInv, QuitLeavesNothing
<1> QED BY <1>7, <1>8, <1>9, <1>10, <1>11, <1>12, <1>13 DEF HostInv

\* A process ends.
LEMMA EndedLemma ==
  ASSUME HostInv, NEW s \in Slots, ProcessEnds(s)
  PROVE  HostInv'
<1>1. PICK k : k = os[s].kind OBVIOUS
<1>2. PICK ours \in BOOLEAN : ours = (Running /\ k \in ChildKinds /\ os[s].born > since) OBVIOUS
<1>3. /\ Present(s) /\ os' = [os EXCEPT ![s] = Vacant]
      /\ child' = IF ours /\ child[k] = s THEN [child EXCEPT ![k] = NoSlotUsed] ELSE child
      /\ IF ours THEN Forgotten(k, s) ELSE UNCHANGED <<childrenFile, writing>>
      /\ timer' = timer \/ (ours /\ k \in kept /\ timer' = timer \cup {k})
      /\ UNCHANGED <<born, kept, reviving, flow, quitting, app, since>>
  BY <1>1, <1>2 DEF ProcessEnds, Session, Schedules
<1>4. /\ os \in [Slots -> ProcessRecords] /\ childrenFile \in [ChildKinds -> OsRecords] /\ flow \in Flows
      /\ child \in [ChildKinds -> AnySlot] /\ writing \subseteq Slots
  BY HostTypesLemma DEF HostInv, HostTypes
<1>5. os[s].kind # "none" /\ (ours => k \in ChildKinds) BY <1>2, <1>3 DEF Present
<1>6. /\ os' \in [Slots -> ProcessRecords] /\ os'[s] = Vacant /\ os'[s].kind = "none"
      /\ ~os'[s].told /\ os'[s].born = 0
      /\ \A x \in Slots \ {s} : os'[x] = os[x]
  BY <1>3, <1>4, DesktopAssumption DEF Vacant, ProcessRecords
<1>7. /\ childrenFile' \in [ChildKinds -> OsRecords] /\ writing' \subseteq writing
      /\ \A j \in ChildKinds : \/ childrenFile'[j] = childrenFile[j]
                               \/ childrenFile'[j] = NotOnFile /\ ours /\ j = k /\ childrenFile[j].slot = s
      /\ ours => childrenFile'[k].slot # s
  <2>1. CASE ours
    <3>1. Forgotten(k, s) /\ k \in ChildKinds BY <1>3, <1>5, <2>1
    <3> QED BY <1>4, <2>1, <3>1, NotOnFileLemma, SlotsLemma DEF Forgotten
  <2>2. CASE ~ours BY <1>3, <1>4, <2>2
  <2> QED BY <2>1, <2>2
<1>8. /\ child' \in [ChildKinds -> AnySlot]
      /\ \A j \in ChildKinds : \/ child'[j] = child[j] /\ (child[j] = s => ~Running)
                               \/ child'[j] = NoSlotUsed /\ child[j] = s
  <2>1. ASSUME NEW j \in ChildKinds, child[j] = s, Running PROVE ours /\ child[k] = s /\ j = k
    <3>1. child[j] # NoSlotUsed BY <2>1, SlotsLemma
    <3>2. os[s].kind = j /\ os[s].born > since BY <2>1, <3>1 DEF HostInv, MemoryOK
    <3> QED BY <1>1, <1>2, <2>1, <3>2
  <2>2. CASE ours /\ child[k] = s
    <3>1. child' = [child EXCEPT ![k] = NoSlotUsed] /\ k \in ChildKinds BY <1>3, <1>5, <2>2
    <3> QED BY <1>4, <2>1, <2>2, <3>1, SlotsLemma
  <2>3. CASE ~(ours /\ child[k] = s)
    <3>1. child' = child BY <1>3, <2>3
    <3> QED BY <1>4, <2>1, <2>3, <3>1
  <2> QED BY <2>2, <2>3
<1>9. ASSUME Running, NEW j \in ChildKinds, Clean(j) PROVE Clean(j)'
  <2>1. CASE childrenFile'[j] = NotOnFile BY <2>1 DEF Clean
  <2>2. CASE childrenFile'[j] = childrenFile[j] /\ OfThisSession(childrenFile[j], j)
    <3>1. childrenFile[j].slot = s => j = k /\ ours
      BY <1>1, <1>2, <1>9, <2>2 DEF OfThisSession, HostInv, FileOK
    <3>2. childrenFile[j].slot # s BY <1>7, <2>2, <3>1
    <3> QED BY <1>3, <1>6, <2>2, <3>2 DEF Clean, OfThisSession
  <2> QED BY <1>7, <1>9, <2>1, <2>2 DEF Clean
<1>10. ~Running => /\ writing = {} /\ kept = {} /\ timer = {} /\ reviving = NoSlotUsed
                   /\ \A j \in ChildKinds : child[j] = NoSlotUsed
                   /\ quitting = NoQuit /\ flow = IdleFlow
  BY DEF HostInv, MemoryOK
<1>11. \A t \in Slots : os'[t].kind \in ChildKinds => t # s BY <1>6 DEF ChildKinds
<1>12. \A t \in Slots : Plain(t)' => t # s /\ Plain(t) BY <1>6, <1>11 DEF Plain
<1>13. HostTypes'
  <2>1. timer' \subseteq ChildKinds BY <1>3, <1>5, MemoryLemma
  <2> QED BY <1>3, <1>4, <1>6, <1>7, <1>8, <2>1 DEF HostInv, HostTypes, ProcessRecords
<1>14. TableOK'
  <2>1. born \in Nat BY DesktopAssumption DEF HostInv, HostTypes
  <2> QED BY <1>3, <1>6, <2>1 DEF HostInv, TableOK
<1>15. Running' = Running /\ Looking' = Looking /\ (Looking => Running)
  BY <1>3, <1>10, IdleLemma DEF Running, Looking
<1>16. FileOK'
  <2>1. \A j \in ChildKinds : Names(childrenFile[j], j)' /\ Names(flow.list[j], j)'
    <3>1. ASSUME NEW r \in OsRecords, NEW j \in ChildKinds, Names(r, j) PROVE Names(r, j)'
      <4>1. r.slot \in AnySlot BY DEF OsRecords
      <4>2. SameProcess(r)' => SameProcess(r) /\ os'[r.slot].kind = os[r.slot].kind
        BY <1>6, <4>1 DEF SameProcess, Present, AnySlot
      <4> QED BY <1>3, <3>1, <4>2 DEF Names
    <3>2. \A j \in ChildKinds : Names(NotOnFile, j)
      BY NotOnFileLemma, DesktopAssumption DEF Names, SameProcess, Present, HostInv, HostTypes
    <3>3. \A j \in ChildKinds : childrenFile'[j] \in {childrenFile[j], NotOnFile} BY <1>7
    <3>4. \A j \in ChildKinds : flow.list[j] \in OsRecords BY <1>4 DEF Flows
    <3> QED BY <1>3, <1>4, <3>1, <3>2, <3>3, <3>4, NotOnFileLemma DEF HostInv, FileOK
  <2>2. ASSUME NEW t \in Slots, Plain(t)'
        PROVE  childrenFile'[os'[t].kind].slot = t /\ childrenFile'[os'[t].kind].born = os'[t].born
    <3>1. t # s /\ Plain(t) /\ os'[t] = os[t] BY <1>6, <1>12, <2>2
    <3>2. os[t].kind \in ChildKinds /\ childrenFile[os[t].kind].slot = t
          /\ childrenFile[os[t].kind].born = os[t].born
      BY <3>1 DEF HostInv, FileOK, Plain
    <3> QED BY <1>7, <3>1, <3>2
  <2>3. ASSUME NEW t \in Slots, NEW j \in ChildKinds, os'[t].kind = j, os'[t].born > since'
        PROVE  /\ childrenFile'[j].slot = t => childrenFile'[j].born = os'[t].born
               /\ Looking' /\ flow'.list[j].slot = t => flow'.list[j].born = os'[t].born
    <3>1. os'[t] = os[t] /\ os[t].kind = j /\ os[t].born > since BY <1>3, <1>6, <1>11, <2>3
    <3>2. childrenFile'[j] = NotOnFile => childrenFile'[j].slot # t BY NotOnFileLemma, SlotsLemma
    <3> QED BY <1>3, <1>7, <1>15, <3>1, <3>2 DEF HostInv, FileOK
  <2>4. ASSUME NEW w \in writing'
        PROVE  (/\ os[w].kind \in ChildKinds /\ os[w].born > since /\ ~os[w].known /\ Clean(os[w].kind)
                /\ \A t \in Slots : os[t].kind = os[w].kind => ~Plain(t) /\ (t \in writing => t = w))'
    <3>1. w \in writing /\ w \in Slots /\ Running BY <1>4, <1>7, <1>10
    <3>2. PICK j \in ChildKinds : j = os[w].kind /\ Clean(j) BY <3>1 DEF HostInv, FileOK
    <3>3. w # s
      <4> SUFFICES ASSUME w = s PROVE FALSE OBVIOUS
      <4>1. os[s].born > since BY <3>1 DEF HostInv, FileOK
      <4>2. ours BY <1>1, <1>2, <3>1, <3>2, <4>1
      <4>3. Forgotten(k, s) BY <1>3, <4>2
      <4>4. w \in writing' /\ os[w].kind = k BY <1>1
      <4> QED BY <4>3, <4>4 DEF Forgotten
    <3>4. os'[w] = os[w] /\ os'[w].kind = j /\ Clean(j)' BY <1>6, <1>9, <3>1, <3>2, <3>3
    <3>5. os'[w].born > since' /\ ~os'[w].known BY <1>3, <3>1, <3>4 DEF HostInv, FileOK
    <3>6. ASSUME NEW t \in Slots, os'[t].kind = j PROVE ~Plain(t)' /\ (t \in writing' => t = w)
      <4>1. t # s /\ os[t].kind = j BY <1>6, <1>11, <3>6
      <4>2. ~Plain(t) /\ (t \in writing => t = w) BY <3>1, <3>2, <4>1 DEF HostInv, FileOK
      <4> QED BY <1>7, <1>12, <4>2
    <3>7. Clean(os[w].kind)' BY <3>4 DEF Clean
    <3> QED BY <3>4, <3>5, <3>6, <3>7
  <2>5. ASSUME Looking', NEW j \in ChildKinds PROVE childrenFile'[j] = flow'.list[j] \/ Clean(j)'
    <3>1. childrenFile[j] = flow.list[j] \/ Clean(j) BY <1>15, <2>5 DEF HostInv, FileOK
    <3>2. childrenFile'[j] = NotOnFile => Clean(j)' BY DEF Clean
    <3> QED BY <1>3, <1>7, <1>9, <1>15, <2>5, <3>1, <3>2
  <2> QED BY <2>1, <2>2, <2>3, <2>4, <2>5 DEF FileOK
<1>17. MemoryOK'
  <2>1. ~Running' => /\ writing' = {} /\ kept' = {} /\ timer' = {} /\ reviving' = NoSlotUsed
                     /\ \A j \in ChildKinds : child'[j] = NoSlotUsed
                     /\ quitting' = NoQuit /\ flow' = IdleFlow
    BY <1>2, <1>3, <1>7, <1>8, <1>10, <1>15
  <2>2. ASSUME NEW j \in ChildKinds, child'[j] # NoSlotUsed
        PROVE  os'[child'[j]].kind = j /\ os'[child'[j]].born > since' /\ Clean(j)'
    <3>1. Running /\ child'[j] = child[j] /\ child[j] # s /\ child[j] \in Slots
      BY <1>8, <1>10, <2>2, MemoryLemma
    <3>2. os[child[j]].kind = j /\ os[child[j]].born > since /\ Clean(j)
      BY <2>2, <3>1 DEF HostInv, MemoryOK
    <3> QED BY <1>3, <1>6, <1>9, <3>1, <3>2
  <2>3. \A j \in kept' \cup timer' : Clean(j)' BY <1>3, <1>9, <1>10, MemoryLemma
  <2>4. Present(reviving)' => os'[reviving'].kind = "server"
    <3>1. Present(reviving)' => reviving # s /\ Present(reviving) /\ os'[reviving'] = os[reviving]
      BY <1>3, <1>6, MemoryLemma DEF Present, AnySlot
    <3> QED BY <3>1, MemoryLemma
  <2>5. ASSUME Running', NEW t \in Slots, os'[t].kind \in ChildKinds, os'[t].born > since', ~os'[t].told, ~os'[t].raced
        PROVE  child'[os'[t].kind] = t
    <3>1. t # s /\ os'[t] = os[t] BY <1>6, <1>11, <2>5
    <3>2. child[os[t].kind] = t BY <1>3, <1>15, <2>5, <3>1 DEF HostInv, MemoryOK
    <3> QED BY <1>8, <2>5, <3>1, <3>2
  <2> QED BY <2>1, <2>2, <2>3, <2>4, <2>5 DEF MemoryOK
<1>18. FlowOK'
  <2>1. CASE Running
    <3>1. Present(flow.slot)' => Present(flow.slot) /\ os'[flow'.slot].kind = os[flow.slot].kind
      BY <1>3, <1>4, <1>6, SlotsLemma DEF Present, Flows, AnySlot
    <3> QED BY <1>3, <1>9, <2>1, <3>1, CleanFlowLemma
  <2>2. CASE ~Running
    <3>1. flow' = IdleFlow BY <1>3, <1>10, <2>2
    <3> QED BY <3>1, IdleLemma DEF FlowOK, FlowFine, Present
  <2> QED BY <2>1, <2>2
<1>19. QuitOK'
  <2>1. \A j \in ChildKinds : child[j] = NoSlotUsed => child'[j] = NoSlotUsed BY <1>8
  <2> QED BY <1>3, <2>1 DEF HostInv, QuitOK, Changing, ChildKinds
<1>20. QuitLeavesNothing'
  <2>1. \A t \in Slots : os'[t].kind \in ChildKinds => os'[t] = os[t] BY <1>6, <1>11
  <2> QED BY <1>3, <2>1 DEF HostInv, QuitLeavesNothing
<1> QED BY <1>13, <1>14, <1>16, <1>17, <1>18, <1>19, <1>20 DEF HostInv

\* A record that names no process any more is given up: it cannot be the record of a child that
\* nothing is wrong with, for such a child is of this session and the list would name it.
LEMMA ForgottenLemma ==
  ASSUME HostInv, Running, Looking, NEW k \in ChildKinds,
         ~SameProcess(flow.list[k]), Forgotten(k, flow.list[k].slot), Seen(k),
         UNCHANGED <<os, born, since, child, kept, timer, reviving, quitting, app>>
  PROVE  HostInv'
<1>1. /\ os \in [Slots -> ProcessRecords] /\ childrenFile \in [ChildKinds -> OsRecords] /\ flow \in Flows
      /\ writing \subseteq Slots
  BY HostTypesLemma DEF HostInv, HostTypes
<1>2. /\ childrenFile' \in [ChildKinds -> OsRecords]
      /\ \A j \in ChildKinds : \/ childrenFile'[j] = childrenFile[j] /\ (j = k => childrenFile[k].slot # flow.list[k].slot)
                               \/ childrenFile'[j] = NotOnFile /\ j = k /\ childrenFile[k].slot = flow.list[k].slot
      /\ writing' = {w \in writing : os[w].kind # k}
  BY <1>1, NotOnFileLemma DEF Forgotten
<1>3. /\ flow' \in Flows /\ flow'.at = "recovering" /\ flow'.kind = flow.kind
      /\ flow'.previous = flow.previous /\ flow'.undo = flow.undo /\ flow'.slot = flow.slot
      /\ flow'.list[k] = NotOnFile /\ \A j \in ChildKinds \ {k} : flow'.list[j] = flow.list[j]
      /\ flow'.todo = {j \in ChildKinds \ {k} : flow.list[j] # NotOnFile}
  <2>1. flow' = [flow EXCEPT !.at = "recovering", !.list[k] = NotOnFile,
                       !.todo = {j \in ChildKinds \ {k} : flow.list[j] # NotOnFile}]
    BY DEF Seen
  <2> QED BY ZenonT(30), <1>1, <2>1, NotOnFileLemma DEF Flows
<1>4. \A j \in ChildKinds : Clean(j) => Clean(j)'
  BY <1>2 DEF Clean, OfThisSession
<1>5. \A t \in Slots : Plain(t)' = Plain(t) BY DEF Plain
<1>6. HostTypes' BY <1>1, <1>2, <1>3 DEF HostInv, HostTypes, ProcessRecords, Flows
<1>7. TableOK' BY DEF HostInv, TableOK
<1>8. ASSUME NEW t \in Slots, Plain(t) PROVE childrenFile'[os[t].kind] = childrenFile[os[t].kind]
  <2>1. /\ os[t].kind \in ChildKinds /\ childrenFile[os[t].kind].slot = t
        /\ childrenFile[os[t].kind].born = os[t].born
    BY <1>8 DEF HostInv, FileOK, Plain
  <2>2. ASSUME os[t].kind = k, flow.list[k].slot = t PROVE FALSE
    <3>1. flow.list[k].born # os[t].born
      BY <2>1, <2>2, SlotsLemma DEF SameProcess, Present, ChildKinds
    <3>2. childrenFile[k] # flow.list[k] BY <2>1, <2>2, <3>1
    <3>3. Clean(k) BY <3>2 DEF HostInv, FileOK
    <3>4. childrenFile[k] # NotOnFile BY <2>1, <2>2, NotOnFileLemma, SlotsLemma
    <3>5. os[t].born > since BY <2>1, <2>2, <3>3, <3>4 DEF Clean, OfThisSession
    <3> QED BY <2>2, <3>1, <3>5 DEF HostInv, FileOK
  <2> QED BY <1>2, <2>1, <2>2
<1>9. FileOK'
  <2>1. \A j \in ChildKinds : Names(childrenFile[j], j)' /\ Names(flow.list[j], j)'
    <3>1. \A r \in OsRecords, j \in ChildKinds : Names(r, j) => Names(r, j)'
      BY DEF Names, SameProcess, Present
    <3>2. \A j \in ChildKinds : Names(NotOnFile, j)
      BY NotOnFileLemma, DesktopAssumption DEF Names, SameProcess, Present, HostInv, HostTypes
    <3>3. \A j \in ChildKinds : childrenFile'[j] \in {childrenFile[j], NotOnFile}
                                /\ flow'.list[j] \in {flow.list[j], NotOnFile}
      BY <1>2, <1>3
    <3>4. \A j \in ChildKinds : flow.list[j] \in OsRecords /\ childrenFile[j] \in OsRecords BY <1>1 DEF Flows
    <3> QED BY <3>1, <3>2, <3>3, <3>4, NotOnFileLemma DEF HostInv, FileOK
  <2>2. \A t \in Slots : Plain(t)' =>
          childrenFile'[os'[t].kind].slot = t /\ childrenFile'[os'[t].kind].born = os'[t].born
    BY <1>5, <1>8 DEF HostInv, FileOK
  <2>3. ASSUME NEW t \in Slots, NEW j \in ChildKinds, os'[t].kind = j, os'[t].born > since'
        PROVE  /\ childrenFile'[j].slot = t => childrenFile'[j].born = os'[t].born
               /\ Looking' /\ flow'.list[j].slot = t => flow'.list[j].born = os'[t].born
    BY <1>2, <1>3, <2>3, NotOnFileLemma, SlotsLemma DEF HostInv, FileOK
  <2>4. ASSUME NEW w \in writing'
        PROVE  (/\ os[w].kind \in ChildKinds /\ os[w].born > since /\ ~os[w].known /\ Clean(os[w].kind)
                /\ \A t \in Slots : os[t].kind = os[w].kind => ~Plain(t) /\ (t \in writing => t = w))'
    <3>1. w \in writing /\ w \in Slots BY <1>1, <1>2
    <3>2. PICK j \in ChildKinds : j = os[w].kind /\ Clean(j) BY <3>1 DEF HostInv, FileOK
    <3>3. Clean(j)' BY <1>4, <3>2
    <3>4. Clean(os[w].kind)' BY <3>2, <3>3 DEF Clean
    <3> QED BY <1>2, <1>5, <3>1, <3>4 DEF HostInv, FileOK
  <2>5. ASSUME NEW j \in ChildKinds PROVE childrenFile'[j] = flow'.list[j] \/ Clean(j)'
    <3>1. childrenFile[j] = flow.list[j] \/ Clean(j) BY DEF HostInv, FileOK
    <3>2. childrenFile'[j] = NotOnFile => Clean(j)' BY DEF Clean
    <3> QED BY <1>2, <1>3, <1>4, <3>1, <3>2
  <2> QED BY <2>1, <2>2, <2>3, <2>4, <2>5 DEF FileOK
<1>10. MemoryOK'
  <2>1. Running' BY DEF Running
  <2>2. \A j \in ChildKinds : child'[j] # NoSlotUsed =>
          os'[child'[j]].kind = j /\ os'[child'[j]].born > since' /\ Clean(j)'
    BY <1>4 DEF HostInv, MemoryOK
  <2>3. \A j \in kept' \cup timer' : Clean(j)' BY <1>4, MemoryLemma
  <2>4. Present(reviving)' => os'[reviving'].kind = "server" BY MemoryLemma DEF Present
  <2>5. \A t \in Slots :
          os'[t].kind \in ChildKinds /\ os'[t].born > since' /\ ~os'[t].told /\ ~os'[t].raced
            => child'[os'[t].kind] = t
    BY DEF HostInv, MemoryOK
  <2> QED BY <2>1, <2>2, <2>3, <2>4, <2>5 DEF MemoryOK
<1>11. FlowOK'
  <2>1. flow.kind \in ChildKinds /\ flow.previous \in ChildKinds \cup {"none"} /\ FlowFine(flow)
    BY <1>1, MemoryLemma DEF Flows, FlowFine, Looking
  <2>2. flow'.previous # "none" => Clean(flow.previous)'
    <3> SUFFICES ASSUME flow'.previous # "none" PROVE Clean(flow.previous)' OBVIOUS
    <3>1. PICK j \in ChildKinds : j = flow.previous /\ Clean(j) BY <1>3, <2>1 DEF FlowFine
    <3>2. Clean(j)' BY <1>4, <3>1
    <3> QED BY <1>3, <3>1, <3>2 DEF Clean
  <2>3. Present(flow.slot)' => os'[flow'.slot].kind = flow'.kind BY <1>3, <2>1 DEF FlowFine, Present
  <2>4. \A j \in ChildKinds \ flow'.todo : flow'.list[j] = NotOnFile BY <1>3
  <2> QED BY <1>3, <2>1, <2>2, <2>3, <2>4 DEF FlowOK, FlowFine
<1>12. QuitOK' BY <1>3 DEF HostInv, QuitOK, Changing, Looking
<1>13. QuitLeavesNothing' BY DEF QuitLeavesNothing, Running
<1> QED BY <1>6, <1>7, <1>9, <1>10, <1>11, <1>12, <1>13 DEF HostInv

\* A record is looked at, and its process ends or is waited for in vain.
LEMMA LookLemma ==
  ASSUME HostInv, NEW k \in ChildKinds, LookAt(k)
  PROVE  HostInv'
<1>1. /\ Running /\ flow.at = "recovering" /\ Looking
      /\ UNCHANGED <<born, since, child, kept, timer, reviving, quitting, app>>
  BY DEF LookAt, Session, Looking
<1>2. CASE /\ ~Present(flow.list[k].slot) \/ (flow.list[k].verified /\ ~SameProcess(flow.list[k]))
           /\ Forgotten(k, flow.list[k].slot) /\ Seen(k) /\ UNCHANGED os
  BY <1>1, <1>2, ForgottenLemma DEF SameProcess
<1>3. CASE /\ flow.list[k].verified /\ SameProcess(flow.list[k])
           /\ os' = Told({flow.list[k].slot}) /\ flow' = [flow EXCEPT !.at = "killing", !.todo = {k}]
           /\ UNCHANGED <<childrenFile, writing>>
  BY ZenonT(30), <1>1, <1>3, LookOnLemma
<1>4. CASE flow' = FailedFlow /\ UNCHANGED <<os, childrenFile, writing>>
  BY <1>1, <1>4, LookOnLemma
<1> QED BY <1>2, <1>3, <1>4 DEF LookAt

\* The process that was told to stop ends, or does not.
LEMMA OrphanLemma ==
  ASSUME HostInv, OrphanEnds
  PROVE  HostInv'
<1>1. PICK k \in flow.todo :
    /\ Running /\ flow.at = "killing"
    /\ \/ ~SameProcess(flow.list[k]) /\ Forgotten(k, flow.list[k].slot) /\ Seen(k)
       \/ flow' = FailedFlow /\ UNCHANGED <<childrenFile, writing>>
    /\ UNCHANGED <<os, born, child, kept, timer, reviving, quitting, app, since>>
  BY DEF OrphanEnds, Session
<1>2. k \in ChildKinds /\ Looking BY <1>1, MemoryLemma DEF Flows, Looking
<1>3. CASE ~SameProcess(flow.list[k]) /\ Forgotten(k, flow.list[k].slot) /\ Seen(k)
  BY <1>1, <1>2, <1>3, ForgottenLemma
<1>4. CASE flow' = FailedFlow /\ UNCHANGED <<childrenFile, writing>>
  BY <1>1, <1>4, LookOnLemma
<1> QED BY <1>1, <1>3, <1>4

----------------------------------------------------------------------------
(* The end of a session, the next one, and the theorem                     *)

\* The application exits, or dies.
LEMMA ExitLemma ==
  ASSUME HostInv, Exit \/ AppCrash
  PROVE  HostInv'
<1>1. /\ ForgetMemory /\ flow' = IdleFlow /\ UNCHANGED <<os, born, childrenFile, since>>
      /\ app' \in {"exited", "cut", "crashed"} /\ Running
  BY DEF Exit, AppCrash, HostInv, QuitOK, Running
<1>2. /\ writing' = {} /\ kept' = {} /\ timer' = {} /\ reviving' = NoSlotUsed /\ quitting' = NoQuit
      /\ child' = [k \in ChildKinds |-> NoSlotUsed]
  BY <1>1 DEF ForgetMemory
<1>3. ~Running' BY <1>1 DEF Running
<1>4. quitting'.at = "none" /\ NoQuit \in [at : ChildKinds \cup {"none", "pending"}, cut : BOOLEAN]
  BY <1>2 DEF NoQuit
<1>5. HostTypes'
  BY <1>1, <1>2, <1>4, IdleLemma, SlotsLemma DEF HostInv, HostTypes, Flows
<1>6. TableOK' BY <1>1 DEF HostInv, TableOK
<1>7. ~Looking' BY <1>1, IdleLemma DEF Looking
<1>8. FileOK'
  <2>1. \A j \in ChildKinds : Names(childrenFile[j], j)' /\ Names(flow.list[j], j)'
    <3>1. \A j \in ChildKinds : Names(childrenFile[j], j)'
      BY <1>1 DEF HostInv, FileOK, Names, SameProcess, Present
    <3>2. \A j \in ChildKinds : flow'.list[j] = NotOnFile BY <1>1, IdleLemma
    <3>3. \A j \in ChildKinds : Names(flow.list[j], j)'
      BY <1>1, <3>2, NotOnFileLemma, DesktopAssumption DEF Names, SameProcess, Present, HostInv, HostTypes
    <3> QED BY <3>1, <3>3
  <2>2. \A t \in Slots : Plain(t)' =>
          childrenFile'[os'[t].kind].slot = t /\ childrenFile'[os'[t].kind].born = os'[t].born
    BY <1>1 DEF HostInv, FileOK, Plain
  <2>3. \A t \in Slots, j \in ChildKinds : os'[t].kind = j /\ os'[t].born > since' =>
          /\ childrenFile'[j].slot = t => childrenFile'[j].born = os'[t].born
          /\ Looking' /\ flow'.list[j].slot = t => flow'.list[j].born = os'[t].born
    BY <1>1, <1>7 DEF HostInv, FileOK
  <2> QED BY <1>2, <1>7, <2>1, <2>2, <2>3 DEF FileOK
<1>9. MemoryOK' BY <1>1, <1>2, <1>3, SlotsLemma DEF MemoryOK, Present
<1>10. FlowOK' BY <1>1, IdleLemma DEF FlowOK, FlowFine, Present
<1>11. QuitOK' BY <1>4 DEF QuitOK, ChildKinds
<1>12. QuitLeavesNothing'
  <2> SUFFICES ASSUME app' = "exited", NEW s \in Slots, os[s].kind \in ChildKinds, os[s].born > since,
                      ~os[s].told, ~os[s].raced
               PROVE  FALSE
    BY <1>1 DEF QuitLeavesNothing
  <2>1. /\ quitting.at # "none" /\ ~quitting.cut /\ (quitting.at = "pending" => ~Changing)
        /\ \A k \in ToStop : child[k] = NoSlotUsed
    BY DEF Exit, AppCrash, MayStop
  <2>2. child[os[s].kind] = s BY <1>1 DEF HostInv, MemoryOK
  <2>3. \A k \in ChildKinds : child[k] = NoSlotUsed
    <3>1. CASE quitting.at = "pending"
      <4>1. ToStop = ChildKinds BY <2>1, <3>1 DEF ToStop, MayStop
      <4> QED BY <2>1, <4>1
    <3>2. CASE quitting.at = "server"
      <4>1. ToStop = {"agent"} BY <3>2 DEF ToStop
      <4>2. child["server"] = NoSlotUsed BY <2>1, <3>2 DEF HostInv, QuitOK, ChildKinds
      <4> QED BY <2>1, <4>1, <4>2 DEF ChildKinds
    <3>3. CASE quitting.at = "agent"
      <4>1. child["server"] = NoSlotUsed /\ child["agent"] = NoSlotUsed
        BY <2>1, <3>3 DEF HostInv, QuitOK, ChildKinds
      <4> QED BY <4>1 DEF ChildKinds
    <3>4. quitting.at \in {"none", "pending", "server", "agent"} BY MemoryLemma DEF ChildKinds
    <3> QED BY <2>1, <3>1, <3>2, <3>3, <3>4
  <2> QED BY <2>2, <2>3, SlotsLemma
<1> QED BY <1>5, <1>6, <1>8, <1>9, <1>10, <1>11, <1>12 DEF HostInv

\* The application is started again: no process is of the new session.
LEMMA NextSessionLemma ==
  ASSUME HostInv, NextSession
  PROVE  HostInv'
<1>1. /\ ~Running /\ app' = "up" /\ since' = born
      /\ UNCHANGED <<os, born, childrenFile, writing, child, kept, timer, reviving, flow, quitting>>
  BY DEF NextSession, Memory
<1>2. /\ writing' = {} /\ kept' = {} /\ timer' = {} /\ reviving' = NoSlotUsed /\ quitting' = NoQuit
      /\ \A k \in ChildKinds : child'[k] = NoSlotUsed
      /\ flow' = IdleFlow
  BY <1>1 DEF HostInv, MemoryOK
<1>3. HostTypes' BY <1>1 DEF HostInv, HostTypes
<1>4. born \in Nat /\ \A s \in Slots : os[s].born \in Nat /\ os[s].born <= born
  BY HostTypesLemma, DesktopAssumption DEF HostInv, HostTypes, TableOK, ProcessRecords
<1>5. \A s \in Slots : ~(os'[s].born > since') BY <1>1, <1>4
<1>6. TableOK' BY <1>1, <1>4 DEF HostInv, TableOK
<1>7. FileOK'
  <2>1. ~Looking' BY <1>2, IdleLemma DEF Looking
  <2>2. \A j \in ChildKinds : Names(childrenFile[j], j)' /\ Names(flow.list[j], j)'
    BY <1>1 DEF HostInv, FileOK, Names, SameProcess, Present
  <2>3. \A t \in Slots : Plain(t)' =>
          childrenFile'[os'[t].kind].slot = t /\ childrenFile'[os'[t].kind].born = os'[t].born
    BY <1>1 DEF HostInv, FileOK, Plain
  <2> QED BY <1>2, <1>5, <2>1, <2>2, <2>3 DEF FileOK
<1>8. MemoryOK' BY <1>1, <1>2, <1>5, SlotsLemma DEF MemoryOK, Present, Running
<1>9. FlowOK' BY <1>2, IdleLemma DEF FlowOK, FlowFine, Present
<1>10. QuitOK' BY <1>2 DEF QuitOK, NoQuit, ChildKinds
<1>11. QuitLeavesNothing' BY <1>1 DEF QuitLeavesNothing
<1> QED BY <1>3, <1>6, <1>7, <1>8, <1>9, <1>10, <1>11 DEF HostInv

\* The mode in the configuration is one of ours, or none.
LEMMA ModeLemma ==
  ASSUME HostInv, ModeOK, DesktopNext
  PROVE  ModeOK'
<1>0. mode' = mode => ModeOK' BY DEF ModeOK
<1>1. CASE ChildReady
  <2>1. flow.kind \in ChildKinds BY <1>1, MemoryLemma DEF ChildReady, FlowFine
  <2>2. mode' \in {flow.kind, mode} BY <1>1 DEF ChildReady
  <2> QED BY <2>1, <2>2 DEF ModeOK
<1>2. CASE StopAgent \/ StartForChange
  <2>1. mode' \in {"none", mode} BY <1>2 DEF StopAgent, StartForChange
  <2> QED BY <2>1 DEF ModeOK
<1>3. CASE \/ \E s \in Slots : PutOnFile(s) \/ ProcessEnds(s) \/ ForeignStarts(s)
           \/ \E k \in ChildKinds : RestartFires(k) \/ LookAt(k) \/ QuitStops(k)
           \/ \E k \in ChildKinds \cup {"client"} : ChangesMode(k)
  <2>1. mode' = mode
    <3>1. CASE \E s \in Slots : PutOnFile(s) \/ ProcessEnds(s) \/ ForeignStarts(s)
      BY <3>1 DEF PutOnFile, ProcessEnds, ForeignStarts, Session
    <3>2. CASE \E k \in ChildKinds : RestartFires(k) \/ LookAt(k) \/ QuitStops(k)
      BY <3>2 DEF RestartFires, LookAt, QuitStops, Session
    <3>3. CASE \E k \in ChildKinds \cup {"client"} : ChangesMode(k)
      BY <3>3 DEF ChangesMode, Session
    <3> QED BY <1>3, <3>1, <3>2, <3>3
  <2> QED BY <1>0, <2>1
<1>4. CASE ServerRevived \/ ServerDidNotRevive \/ OrphanEnds \/ LaunchMode \/ StopsForChange \/ StartChild
           \/ ChildNotReady \/ UndoChange \/ Restore \/ Quit \/ Exit \/ AppCrash \/ NextSession
  <2>1. mode' = mode
    BY ZenonT(30), <1>4 DEF ServerRevived, ServerDidNotRevive, OrphanEnds, LaunchMode, StopsForChange, StartChild,
       ChildNotReady, UndoChange, Restore, Quit, Exit, AppCrash, NextSession, Session
  <2> QED BY <1>0, <2>1
<1> QED BY <1>1, <1>2, <1>3, <1>4 DEF DesktopNext

\* The first session starts with nothing.
LEMMA HostInitLemma == DesktopInit => HostInv /\ ModeOK
<1> SUFFICES ASSUME DesktopInit PROVE HostInv /\ ModeOK OBVIOUS
<1>1. /\ os = [s \in Slots |-> Vacant] /\ born = 0 /\ childrenFile = [k \in ChildKinds |-> NotOnFile]
      /\ writing = {} /\ mode = "none" /\ app = "up"
      /\ child = [k \in ChildKinds |-> NoSlotUsed] /\ kept = {} /\ timer = {}
      /\ reviving = NoSlotUsed /\ quitting = NoQuit /\ flow = IdleFlow /\ since = 0
  BY DEF DesktopInit
<1>2. 0 \in 0..MaxBorn BY DesktopAssumption
<1>3. Vacant \in ProcessRecords /\ Vacant.kind = "none" /\ Vacant.born = 0 /\ ~Vacant.told
  BY <1>2 DEF Vacant, ProcessRecords
<1>4. NoQuit \in [at : ChildKinds \cup {"none", "pending"}, cut : BOOLEAN] /\ NoQuit.at = "none"
  BY DEF NoQuit
<1>5. HostTypes
  BY <1>1, <1>2, <1>3, <1>4, IdleLemma, NotOnFileLemma, SlotsLemma DEF HostTypes, ProcessRecords, Flows
<1>6. TableOK BY <1>1, <1>3 DEF TableOK
<1>7. FileOK
  <2>1. \A j \in ChildKinds : childrenFile[j] = NotOnFile /\ flow.list[j] = NotOnFile BY <1>1, IdleLemma
  <2>2. \A j \in ChildKinds : Names(NotOnFile, j) BY <1>1, NotOnFileLemma DEF Names, SameProcess, Present
  <2>3. \A s \in Slots : os[s].kind \notin ChildKinds BY <1>1, <1>3 DEF ChildKinds
  <2> QED BY <1>1, <2>1, <2>2, <2>3 DEF FileOK, Plain, Clean
<1>8. MemoryOK
  <2>1. \A s \in Slots : os[s].kind \notin ChildKinds BY <1>1, <1>3 DEF ChildKinds
  <2> QED BY <1>1, <2>1, SlotsLemma DEF MemoryOK, Running, Present
<1>9. FlowOK BY <1>1, IdleLemma DEF FlowOK, FlowFine, Present
<1>10. QuitOK BY <1>1, <1>4 DEF QuitOK, ChildKinds
<1>11. QuitLeavesNothing BY <1>1 DEF QuitLeavesNothing
<1>12. ModeOK BY <1>1 DEF ModeOK
<1> QED BY <1>5, <1>6, <1>7, <1>8, <1>9, <1>10, <1>11, <1>12 DEF HostInv

\* Nothing happens.
LEMMA HostStutterLemma == HostInv /\ ModeOK /\ UNCHANGED desktopVars => HostInv' /\ ModeOK'
<1> SUFFICES ASSUME HostInv, ModeOK, UNCHANGED desktopVars PROVE HostInv' /\ ModeOK' OBVIOUS
<1>1. UNCHANGED <<os, born, childrenFile, writing, mode, app, child, kept, timer, reviving, flow, quitting, since>>
  BY DEF desktopVars
<1>2. \A k \in ChildKinds : Clean(k)' = Clean(k) BY <1>1 DEF Clean, OfThisSession
<1>3. HostTypes' BY <1>1 DEF HostInv, HostTypes
<1>4. TableOK' BY SMTT(30), <1>1 DEF HostInv, TableOK
<1>5. FileOK'
  BY <1>1 DEF HostInv, FileOK, Names, SameProcess, Present, Plain, Looking, Clean, OfThisSession
<1>6. MemoryOK' BY SMTT(30), <1>1 DEF HostInv, MemoryOK, Running, Present, Clean, OfThisSession
<1>7. FlowOK' BY <1>1 DEF HostInv, FlowOK, FlowFine, Present, Clean, OfThisSession
<1>8. QuitOK' BY <1>1 DEF HostInv, QuitOK, Changing
<1>9. QuitLeavesNothing' /\ ModeOK' BY <1>1 DEF HostInv, QuitLeavesNothing, ModeOK
<1> QED BY <1>3, <1>4, <1>5, <1>6, <1>7, <1>8, <1>9 DEF HostInv

\* The desktop application keeps its invariant: whatever order launches, changes of mode, restarts,
\* stops, deaths of children and of the application itself come in, what is on file is a child of
\* this session or what an earlier one left, and a child of this session is the one remembered.
THEOREM ChildrenInvariance == DesktopSpec => [](HostInv /\ ModeOK)
<1>1. DesktopInit => HostInv /\ ModeOK BY HostInitLemma
<1>2. HostInv /\ ModeOK /\ [DesktopNext]_desktopVars => HostInv' /\ ModeOK'
  <2> SUFFICES ASSUME HostInv, ModeOK, DesktopNext PROVE HostInv'
    BY ModeLemma, HostStutterLemma
  <2>1. CASE \E s \in Slots : PutOnFile(s) \/ ProcessEnds(s) \/ ForeignStarts(s)
    BY <2>1, PutOnFileLemma, EndedLemma, ForeignLemma
  <2>2. CASE \E k \in ChildKinds : RestartFires(k) \/ LookAt(k) BY <2>2, RestartLemma, LookLemma
  <2>3. CASE Quit \/ \E k \in ChildKinds : QuitStops(k) BY <2>3, QuitLemma
  <2>4. CASE LaunchMode \/ \E k \in ChildKinds \cup {"client"} : ChangesMode(k) BY <2>4, BeginsLemma
  <2>5. CASE ServerRevived \/ ServerDidNotRevive BY <2>5, RevivedLemma
  <2>6. CASE OrphanEnds BY <2>6, OrphanLemma
  <2>7. CASE StopsForChange BY <2>7, StopsForChangeLemma
  <2>8. CASE StartForChange BY <2>8, StartForChangeLemma
  <2>9. CASE StartChild BY <2>9, StartChildLemma
  <2>10. CASE ChildReady \/ ChildNotReady BY <2>10, ReadyLemma
  <2>11. CASE UndoChange BY <2>11, UndoLemma
  <2>12. CASE Restore BY <2>12, RestoreLemma
  <2>13. CASE StopAgent BY <2>13, StopAgentLemma
  <2>14. CASE Exit \/ AppCrash BY <2>14, ExitLemma
  <2>15. CASE NextSession BY <2>15, NextSessionLemma
  <2> QED BY <2>1, <2>2, <2>3, <2>4, <2>5, <2>6, <2>7, <2>8, <2>9, <2>10, <2>11, <2>12, <2>13, <2>14, <2>15
          DEF DesktopNext
<1> QED BY <1>1, <1>2, PTL DEF DesktopSpec

\* Never two servers for the same phones, for any number of processes and sessions: of two
\* children of a kind one was told to stop, was lost before it could be recorded, or was overtaken
\* by a launch; no other program's process is ever signalled; and a session that was quit leaves
\* nothing behind.
THEOREM ChildrenStayOurs == DesktopSpec => []ChildrenAreOurs
<1>1. HostInv => ChildrenAreOurs
  <2> SUFFICES ASSUME HostInv PROVE ChildrenAreOurs OBVIOUS
  <2>1. OneChild
    <3> SUFFICES ASSUME NEW s \in Slots, NEW t \in Slots, s # t, os[s].kind = os[t].kind,
                        os[s].kind \in ChildKinds, Plain(s), Plain(t)
                 PROVE  FALSE
      BY DEF OneChild, Plain
    <3> QED BY DEF HostInv, FileOK
  <2>2. OnlyOursSignalled BY DEF HostInv, TableOK, OnlyOursSignalled
  <2> QED BY <2>1, <2>2 DEF HostInv, ChildrenAreOurs
<1> QED BY <1>1, ChildrenInvariance, PTL

------------------------------------------------------------------------------
(* What workers do that others can see (PlatformActions)                   *)

\* A step has an action and an entry from its decision on, and no more than its record holds.
StepSound(w) ==
  /\ actStep[w].at \in {"idle", "plan"} => actStep[w].act = NoAct /\ actStep[w].entry = NotKept
  /\ actStep[w].at \in {"act", "check"} => actStep[w].act \in Acts
  /\ actStep[w].at \in {"act", "check"} /\ actStep[w].act \in Comments => actStep[w].entry \in ledgerDisk
StepsSound == \A w \in Doers : StepSound(w)

\* What was posted or is about to be is in the ledger, on disk too; no two comments of the ledger
\* share a key or a wording, and no two steps have one entry.
LedgerSound ==
  /\ ledgerDisk \subseteq ledger
  /\ \A e, f \in ledger : (e.key = f.key \/ e.text = f.text) => e = f
  /\ \A e \in LedgerEntries : posted[e] <= 1 /\ (posted[e] > 0 => e \in ledgerDisk)
  /\ \A w \in Doers : actStep[w].entry # NotKept =>
       /\ actStep[w].entry \in ledgerDisk
       /\ actStep[w].at = "act" => posted[actStep[w].entry] = 0
       /\ \A v \in Doers : v # w => actStep[v].entry # actStep[w].entry

\* The approval can still be used: no step is at the action under it, or the file has it yet.
Usable(a) ==
  \/ approval[a] = "APPROVED" /\ AtIt(a) = {}
  \/ approval[a] # "APPROVED" /\ approvalDisk[a] = "APPROVED"

\* An approval that can still be used leaves room for one more.
Budget(a) ==
  Gated(a) =>
    /\ taken[a] <= granted[a] + loose[a] + shared[a]
    /\ Usable(a) => taken[a] + 1 <= granted[a] + loose[a] + shared[a]

ActsInv == ActsTypeOK /\ StepsSound /\ LedgerSound /\ \A a \in Acts : Budget(a)

StepRecords == [at : {"idle", "plan", "act", "check"}, act : Acts \cup {NoAct},
                entry : LedgerEntries \cup {NotKept}, under : Nat, owns : BOOLEAN, presses : 0..2]
Tallies == [steps : 0..MaxActSteps, mishaps : 0..MaxMishaps]
ActCounts == [Acts -> Nat]

LEMMA ActKinds ==
  /\ NoAct \notin Acts /\ Comments \subseteq Acts /\ Likes \subseteq Acts
  /\ Likes \cap Comments = {} /\ NotKept \notin LedgerEntries /\ ~Gated(NoAct)
<1>1. NoAct \notin Acts /\ Comments \subseteq Acts /\ Likes \subseteq Acts /\ Likes \cap Comments = {}
  BY DEF NoAct, Acts, Likes, Comments
<1>2. ~Gated(NoAct) BY ActAssumption DEF Gated, NoAct
<1>3. NotKept \notin LedgerEntries
  <2>1. DOMAIN NotKept = {"key"} BY DEF NotKept
  <2>2. \A e \in LedgerEntries : "text" \in DOMAIN e BY DEF LedgerEntries
  <2> QED BY <2>1, <2>2
<1> QED BY <1>1, <1>2, <1>3

LEMMA ActsInitLemma == ActsInit => ActsInv
<1> SUFFICES ASSUME ActsInit PROVE ActsInv OBVIOUS
<1>1. ActsTypeOK
  <2>1. Idle \in StepRecords BY DEF Idle, StepRecords
  <2>2. /\ approval \in [Acts -> ApprovalStates] /\ approvalDisk \in [Acts -> ApprovalStates]
        /\ granted \in ActCounts /\ taken \in ActCounts /\ loose \in ActCounts /\ shared \in ActCounts
        /\ posted \in [LedgerEntries -> Nat]
    BY DEF ActsInit, ApprovalStates, ActCounts
  <2>3. actStep \in [Doers -> StepRecords] BY <2>1 DEF ActsInit
  <2>4. tallied \in Tallies BY ActAssumption DEF ActsInit, Tallies
  <2> QED BY <2>2, <2>3, <2>4 DEF ActsInit, ActsTypeOK, StepRecords, Tallies, ActCounts
<1>2. StepsSound BY DEF ActsInit, Idle, StepsSound, StepSound
<1>3. LedgerSound BY DEF ActsInit, Idle, LedgerSound
<1>4. ASSUME NEW a \in Acts PROVE Budget(a) BY DEF ActsInit, Budget, Usable
<1> QED BY <1>1, <1>2, <1>3, <1>4 DEF ActsInv

USE DEF ApprovalStates, OpenStates

\* The types, by name.
LEMMA ActTypes ==
  ASSUME ActsTypeOK
  PROVE  /\ approval \in [Acts -> ApprovalStates] /\ approvalDisk \in [Acts -> ApprovalStates]
         /\ actStep \in [Doers -> StepRecords] /\ tallied \in Tallies
         /\ granted \in ActCounts /\ taken \in ActCounts /\ loose \in ActCounts /\ shared \in ActCounts
         /\ ledger \subseteq LedgerEntries /\ ledgerDisk \subseteq LedgerEntries
         /\ posted \in [LedgerEntries -> Nat] /\ addressed \subseteq Posts
  BY DEF ActsTypeOK, StepRecords, Tallies, ActCounts

LEMMA StepsTyped ==
  ASSUME ActsTypeOK, NEW w \in Doers, NEW r \in StepRecords, actStep' = [actStep EXCEPT ![w] = r]
  PROVE  actStep' \in [Doers -> StepRecords]
  BY ActTypes

LEMMA IdleTyped == Idle \in StepRecords /\ [Idle EXCEPT !.at = "plan", !.owns = TRUE] \in StepRecords
<1>1. 0 \in 0..2 OBVIOUS
<1>2. Idle \in StepRecords BY <1>1 DEF Idle, StepRecords
<1>3. [Idle EXCEPT !.at = "plan", !.owns = TRUE] \in StepRecords BY <1>2 DEF StepRecords
<1> QED BY <1>2, <1>3

\* A step that is idle or has only begun has nothing yet.
LEMMA IdleFields ==
  ASSUME NEW r \in {Idle, [Idle EXCEPT !.at = "plan", !.owns = TRUE]}
  PROVE  r.at \in {"idle", "plan"} /\ r.act = NoAct /\ r.entry = NotKept
<1>1. CASE r = Idle BY <1>1 DEF Idle
<1>2. CASE r # Idle
  <2>1. Idle \in StepRecords /\ r = [Idle EXCEPT !.at = "plan", !.owns = TRUE] BY <1>2, IdleTyped
  <2>2. r.at = "plan" /\ r.act = Idle.act /\ r.entry = Idle.entry BY <2>1 DEF StepRecords
  <2>3. Idle.act = NoAct /\ Idle.entry = NotKept BY DEF Idle
  <2> QED BY <2>2, <2>3
<1> QED BY <1>1, <1>2

\* What a press makes of a step.
LEMMA PressTyped ==
  ASSUME ActsTypeOK, NEW w \in Doers, actStep[w].presses < 2, NEW at \in {"act", "check"}
  PROVE  /\ Pressed(actStep[w], at) \in StepRecords
         /\ Pressed(actStep[w], at).act = actStep[w].act
         /\ Pressed(actStep[w], at).entry = actStep[w].entry
         /\ Pressed(actStep[w], at).under = actStep[w].under
         /\ Pressed(actStep[w], at).at = at
<1> DEFINE s == actStep[w]
           n == s.presses + 1
<1>1. s \in StepRecords BY ActTypes
<1>2. n \in 0..2
  <2>1. s.presses \in 0..2 BY <1>1 DEF StepRecords
  <2> QED BY <2>1
<1>3. Pressed(s, at) = [s EXCEPT !.at = at, !.presses = n] BY DEF Pressed
<1> HIDE DEF s, n
<1>4. Pressed(s, at) \in StepRecords BY <1>1, <1>2, <1>3 DEF StepRecords
<1>5. /\ Pressed(s, at).act = s.act /\ Pressed(s, at).entry = s.entry
      /\ Pressed(s, at).under = s.under /\ Pressed(s, at).at = at
  BY <1>1, <1>3 DEF StepRecords
<1> QED BY <1>4, <1>5 DEF s

\* A press ends the step's part on the screen or, for a toggle, does not yet.
LEMMA PressSteps ==
  ASSUME NEW w \in Doers, Press(w)
  PROVE  /\ actStep[w].at = "act" /\ actStep[w].presses < 2
         /\ \E at \in {"act", "check"} : /\ actStep[w].act \in Comments => at = "check"
                                      /\ actStep' = [actStep EXCEPT ![w] = Pressed(actStep[w], at)]
  BY DEF Press

LEMMA MishapType == ASSUME ActsTypeOK, Mishap PROVE tallied' \in Tallies
  BY ActAssumption, ActTypes DEF Mishap, Tallies

LEMMA ApprovalSaveType ==
  ASSUME ActsTypeOK, approval' \in [Acts -> ApprovalStates], ApprovalsSaved \/ ApprovalsNotSaved
  PROVE  approvalDisk' \in [Acts -> ApprovalStates] /\ tallied' \in Tallies
  BY MishapType, ActTypes DEF ApprovalsSaved, ApprovalsNotSaved

LEMMA StepOverType ==
  ASSUME ActsTypeOK, NEW w \in Doers, NEW left \in BOOLEAN, StepOver(w, left)
  PROVE  actStep' \in [Doers -> StepRecords] /\ loose' \in ActCounts
<1>1. actStep' \in [Doers -> StepRecords] BY StepsTyped, IdleTyped DEF StepOver
<1>2. CASE left
  <2>1. loose' = [loose EXCEPT ![actStep[w].act] = @ + 1] BY <1>2 DEF StepOver
  <2>2. loose \in ActCounts BY ActTypes
  <2> DEFINE c == actStep[w].act
  <2> HIDE DEF c
  <2>3. loose' = [loose EXCEPT ![c] = loose[c] + 1] BY <2>1 DEF c
  <2>4. ASSUME NEW a \in Acts PROVE loose'[a] \in Nat
    <3>1. CASE a = c BY <2>2, <2>3, <3>1 DEF ActCounts
    <3>2. CASE a # c BY <2>2, <2>3, <3>2 DEF ActCounts
    <3> QED BY <3>1, <3>2
  <2>5. loose' \in ActCounts BY <2>2, <2>3, <2>4 DEF ActCounts
  <2> QED BY <1>1, <2>5
<1>3. CASE ~left BY <1>1, <1>3, ActTypes DEF StepOver
<1> QED BY <1>2, <1>3

LEMMA KeptAsType == ASSUME NEW a \in Comments PROVE KeptAs(a) \in LedgerEntries
  BY DEF Comments, Targets, KeptAs, KeyOf, LedgerEntries

LEMMA AheadType ==
  ASSUME ActsTypeOK, NEW w \in Doers, NEW a \in Acts, NEW e \in LedgerEntries \cup {NotKept}, GoesAhead(w, a, e)
  PROVE  actStep' \in [Doers -> StepRecords] /\ taken' \in ActCounts /\ shared' \in ActCounts
<1>1. [actStep[w] EXCEPT !.at = "act", !.act = a, !.entry = e, !.under = granted[a]] \in StepRecords
  BY ZenonT(60), ActTypes DEF StepRecords, ActCounts
<1>2. actStep' \in [Doers -> StepRecords] BY <1>1, StepsTyped DEF GoesAhead
<1>3. taken' \in ActCounts /\ shared' \in ActCounts BY ActTypes DEF GoesAhead, ActCounts
<1> QED BY <1>2, <1>3

\* What the types of a step rest on.
ActsTyped ==
  /\ approval' \in [Acts -> ApprovalStates] /\ approvalDisk' \in [Acts -> ApprovalStates]
  /\ actStep' \in [Doers -> StepRecords] /\ tallied' \in Tallies
  /\ granted' \in ActCounts /\ taken' \in ActCounts /\ loose' \in ActCounts /\ shared' \in ActCounts
  /\ ledger' \subseteq LedgerEntries /\ ledgerDisk' \subseteq LedgerEntries
  /\ posted' \in [LedgerEntries -> Nat] /\ addressed' \subseteq Posts

LEMMA ActsTypedLemma == ActsTyped => ActsTypeOK'
  BY DEF ActsTyped, ActsTypeOK, StepRecords, Tallies, ActCounts

LEMMA ActsTypeStep == ASSUME ActsInv, [ActsNext]_actVars PROVE ActsTypeOK'
<1>i. ActsTypeOK BY DEF ActsInv
<1>t. /\ approval \in [Acts -> ApprovalStates] /\ approvalDisk \in [Acts -> ApprovalStates]
      /\ actStep \in [Doers -> StepRecords] /\ tallied \in Tallies
      /\ granted \in ActCounts /\ taken \in ActCounts /\ loose \in ActCounts /\ shared \in ActCounts
      /\ ledger \subseteq LedgerEntries /\ ledgerDisk \subseteq LedgerEntries
      /\ posted \in [LedgerEntries -> Nat] /\ addressed \subseteq Posts
  BY <1>i, ActTypes
<1>1. ASSUME NEW a \in Acts, NEW to \in {"APPROVED", "REJECTED"}, DecideApproval(a, to) PROVE ActsTyped
  <2>1. approval' \in [Acts -> ApprovalStates] BY <1>t, <1>1 DEF DecideApproval
  <2>2. granted' \in ActCounts BY <1>t, <1>1 DEF DecideApproval, ActCounts
  <2>3. approvalDisk' \in [Acts -> ApprovalStates] /\ tallied' \in Tallies
    BY <1>i, <1>1, <2>1, ApprovalSaveType DEF DecideApproval
  <2> QED BY <1>t, <1>1, <2>1, <2>2, <2>3 DEF ActsTyped, DecideApproval
<1>2. ASSUME NEW a \in Acts, Expire(a) PROVE ActsTyped
  <2>1. approval' \in [Acts -> ApprovalStates] BY <1>t, <1>2 DEF Expire
  <2>2. approvalDisk' \in [Acts -> ApprovalStates] /\ tallied' \in Tallies
    <3>1. CASE ApprovalsSaved BY <1>i, <2>1, <3>1, ApprovalSaveType
    <3>2. CASE Mishap /\ approvalDisk' = [approvalDisk EXCEPT ![a] = Past(@)]
      BY <1>i, <1>t, <3>2, MishapType DEF Past
    <3> QED BY <1>2, <3>1, <3>2 DEF Expire
  <2> QED BY <1>t, <1>2, <2>1, <2>2 DEF ActsTyped, Expire
<1>3. ASSUME NEW a \in Acts, NEW w \in Doers, AskApproval(w, a) PROVE ActsTyped
  <2>1. actStep' \in [Doers -> StepRecords] BY <1>i, <1>3, StepsTyped, IdleTyped DEF AskApproval
  <2>2. /\ approval' \in [Acts -> ApprovalStates] /\ approvalDisk' \in [Acts -> ApprovalStates]
        /\ tallied' \in Tallies
    <3>1. CASE approval[a] \in OpenStates BY <1>t, <1>3, <3>1 DEF AskApproval
    <3>2. CASE approval[a] \notin OpenStates
      <4>1. approval' = [approval EXCEPT ![a] = "PENDING"] /\ (ApprovalsSaved \/ ApprovalsNotSaved)
        BY <1>3, <3>2 DEF AskApproval
      <4>2. approval' \in [Acts -> ApprovalStates] BY <1>t, <4>1
      <4> QED BY <1>i, <4>1, <4>2, ApprovalSaveType
    <3> QED BY <3>1, <3>2
  <2> QED BY <1>t, <1>3, <2>1, <2>2 DEF ActsTyped, AskApproval
<1>4. ASSUME NEW a \in Acts, NEW w \in Doers, Proceed(w, a) PROVE ActsTyped
  <2>1. CASE a \in Comments
    <3>1. KeptAs(a) \in LedgerEntries BY <2>1, KeptAsType
    <3>2. ledger' = ledger \cup {KeptAs(a)} /\ ledger' \subseteq LedgerEntries
      BY <1>t, <1>4, <2>1, <3>1 DEF Proceed
    <3>3. CASE LedgerSaved /\ GoesAhead(w, a, KeptAs(a))
      <4>1. actStep' \in [Doers -> StepRecords] /\ taken' \in ActCounts /\ shared' \in ActCounts
        BY <1>i, <3>1, <3>3, AheadType
      <4> QED BY <1>t, <1>4, <3>2, <3>3, <4>1 DEF ActsTyped, Proceed, LedgerSaved
    <3>4. CASE LedgerNotSaved /\ actStep' = [actStep EXCEPT ![w] = Idle] /\ UNCHANGED <<taken, shared>>
      <4>1. actStep' \in [Doers -> StepRecords] BY <1>i, <3>4, StepsTyped, IdleTyped
      <4>2. tallied' \in Tallies BY <1>i, <3>4, MishapType DEF LedgerNotSaved
      <4> QED BY <1>t, <1>4, <3>2, <3>4, <4>1, <4>2 DEF ActsTyped, Proceed, LedgerNotSaved
    <3> QED BY <1>4, <2>1, <3>3, <3>4 DEF Proceed
  <2>2. CASE a \notin Comments
    <3>1. GoesAhead(w, a, NotKept) /\ UNCHANGED <<ledger, ledgerDisk, tallied>> BY <1>4, <2>2 DEF Proceed
    <3>2. actStep' \in [Doers -> StepRecords] /\ taken' \in ActCounts /\ shared' \in ActCounts
      BY <1>i, <3>1, AheadType
    <3> QED BY <1>t, <1>4, <3>1, <3>2 DEF ActsTyped, Proceed
  <2> QED BY <2>1, <2>2
<1>5. ASSUME NEW e \in LedgerEntries, WindowPasses(e) PROVE ActsTyped
  BY <1>t, <1>5 DEF ActsTyped, WindowPasses
<1>6. ASSUME NEW p \in Posts, RecordChanges(p) PROVE ActsTyped
  BY <1>t, <1>6 DEF ActsTyped, RecordChanges
<1>7. ASSUME NEW w \in Doers, Interrupted(w) PROVE ActsTyped
  <2>1. [actStep[w] EXCEPT !.owns = FALSE] \in StepRecords BY ZenonT(60), <1>t DEF StepRecords
  <2>2. actStep' \in [Doers -> StepRecords] BY <1>t, <1>7, <2>1 DEF Interrupted
  <2> QED BY <1>t, <1>7, <2>2 DEF ActsTyped, Interrupted
<1>8. ASSUME WorkerDies PROVE ActsTyped
  <2>1. actStep' \in [Doers -> StepRecords] BY <1>8, IdleTyped DEF WorkerDies
  <2>2. loose' \in ActCounts BY <1>t, <1>8 DEF WorkerDies, ActCounts
  <2>3. tallied' \in Tallies BY <1>i, <1>8, MishapType DEF WorkerDies
  <2>4. approval' = approvalDisk /\ ledger' = ledgerDisk
    BY <1>8 DEF WorkerDies
  <2>5. UNCHANGED <<approvalDisk, addressed, ledgerDisk, granted, taken, shared, posted>> BY <1>8 DEF WorkerDies
  <2>6. approval' \in [Acts -> ApprovalStates] /\ ledger' \subseteq LedgerEntries BY <1>t, <2>4
  <2>7. /\ approvalDisk' \in [Acts -> ApprovalStates] /\ addressed' \subseteq Posts
        /\ ledgerDisk' \subseteq LedgerEntries
    BY <1>t, <2>5
  <2>8. /\ granted' \in ActCounts /\ taken' \in ActCounts /\ shared' \in ActCounts
        /\ posted' \in [LedgerEntries -> Nat]
    BY <1>t, <2>5
  <2> QED BY <2>1, <2>2, <2>3, <2>6, <2>7, <2>8 DEF ActsTyped
<1>9. ASSUME NEW w \in Doers, StepBegins(w) PROVE ActsTyped
  <2>1. actStep' \in [Doers -> StepRecords] BY <1>i, <1>9, StepsTyped, IdleTyped DEF StepBegins
  <2>2. tallied' \in Tallies BY <1>t, <1>9, ActAssumption DEF StepBegins, Tallies
  <2> QED BY <1>t, <1>9, <2>1, <2>2 DEF ActsTyped, StepBegins
<1>10. ASSUME NEW w \in Doers, NothingDone(w) \/ Unconfirmed(w) PROVE ActsTyped
  <2>1. StepOver(w, LeftBy(w)) /\ LeftBy(w) \in BOOLEAN BY <1>10 DEF NothingDone, Unconfirmed, LeftBy
  <2>2. actStep' \in [Doers -> StepRecords] /\ loose' \in ActCounts BY <1>i, <2>1, StepOverType
  <2> QED BY <1>t, <1>10, <2>2 DEF ActsTyped, NothingDone, Unconfirmed
<1>11. ASSUME NEW w \in Doers, Press(w) PROVE ActsTyped
  <2>1. PICK at \in {"act", "check"} : actStep' = [actStep EXCEPT ![w] = Pressed(actStep[w], at)]
    BY <1>11, PressSteps
  <2>2. Pressed(actStep[w], at) \in StepRecords BY <1>i, <1>11, PressSteps, PressTyped
  <2>3. actStep' \in [Doers -> StepRecords] BY <1>i, <2>1, <2>2, StepsTyped
  <2>4. posted' \in [LedgerEntries -> Nat]
    <3>1. posted' = posted \/ posted' = [posted EXCEPT ![actStep[w].entry] = @ + 1] BY <1>11 DEF Press
    <3> DEFINE e == actStep[w].entry
    <3> HIDE DEF e
    <3>2. posted' = posted \/ posted' = [posted EXCEPT ![e] = posted[e] + 1] BY <3>1 DEF e
    <3>3. posted \in [LedgerEntries -> Nat] BY <1>t
    <3>4. ASSUME NEW f \in LedgerEntries PROVE posted'[f] \in Nat
      <4>1. CASE f = e BY <3>2, <3>3, <4>1
      <4>2. CASE f # e BY <3>2, <3>3, <4>2
      <4> QED BY <4>1, <4>2
    <3> QED BY <3>2, <3>3, <3>4
  <2>5. UNCHANGED <<approval, approvalDisk, addressed, ledger, ledgerDisk, tallied, granted, taken, loose, shared>>
    BY <1>11 DEF Press
  <2> QED BY <1>t, <2>3, <2>4, <2>5 DEF ActsTyped
<1>12. ASSUME NEW w \in Doers, AlreadySo(w) PROVE ActsTyped
  <2>1. [actStep[w] EXCEPT !.at = "check"] \in StepRecords BY <1>t DEF StepRecords
  <2>2. actStep' \in [Doers -> StepRecords] BY <1>t, <1>12, <2>1 DEF AlreadySo
  <2> QED BY <1>t, <1>12, <2>2 DEF ActsTyped, AlreadySo
<1>13. ASSUME NEW w \in Doers, Verified(w) PROVE ActsTyped
  <2> DEFINE a == actStep[w].act
  <2>1. CASE Gated(a) /\ approval[a] = "APPROVED" /\ w \in AtIt(a)
    <3>1. /\ approval' = [approval EXCEPT ![a] = "CONSUMED"]
          /\ ApprovalsSaved \/ ApprovalsNotSaved
          /\ StepOver(w, FALSE) \/ StepOver(w, TRUE)
      BY <1>13, <2>1 DEF Verified, Consumed
    <3>2. approval' \in [Acts -> ApprovalStates] BY <1>t, <3>1
    <3>3. approvalDisk' \in [Acts -> ApprovalStates] /\ tallied' \in Tallies BY <1>i, <3>1, <3>2, ApprovalSaveType
    <3>4. actStep' \in [Doers -> StepRecords] /\ loose' \in ActCounts BY <1>i, <3>1, StepOverType
    <3> QED BY <1>t, <1>13, <3>2, <3>3, <3>4 DEF ActsTyped, Verified
  <2>2. CASE ~(Gated(a) /\ approval[a] = "APPROVED" /\ w \in AtIt(a))
    <3>1. UNCHANGED <<approval, approvalDisk, tallied>> /\ StepOver(w, FALSE)
      BY <1>13, <2>2 DEF Verified, Consumed
    <3>2. actStep' \in [Doers -> StepRecords] /\ loose' \in ActCounts BY <1>i, <3>1, StepOverType
    <3> QED BY <1>t, <1>13, <3>1, <3>2 DEF ActsTyped, Verified
  <2> QED BY <2>1, <2>2
<1>14. ASSUME UNCHANGED actVars PROVE ActsTyped
  <2>1. /\ approval' \in [Acts -> ApprovalStates] /\ approvalDisk' \in [Acts -> ApprovalStates]
        /\ addressed' \subseteq Posts
        /\ ledger' \subseteq LedgerEntries /\ ledgerDisk' \subseteq LedgerEntries
    BY <1>t, <1>14 DEF actVars
  <2>2. actStep' \in [Doers -> StepRecords] /\ tallied' \in Tallies BY <1>t, <1>14 DEF actVars
  <2>3. granted' \in ActCounts /\ taken' \in ActCounts /\ loose' \in ActCounts BY <1>t, <1>14 DEF actVars
  <2>4. shared' \in ActCounts /\ posted' \in [LedgerEntries -> Nat] BY <1>t, <1>14 DEF actVars
  <2> QED BY <2>1, <2>2, <2>3, <2>4 DEF ActsTyped
<1>15. ActsTyped
  BY SMTT(30), <1>1, <1>2, <1>3, <1>4, <1>5, <1>6, <1>7, <1>8, <1>9, <1>10, <1>11, <1>12, <1>13, <1>14 DEF ActsNext
<1> QED BY <1>15, ActsTypedLemma

\* One step changes, and the file of the ledger loses nothing.
LEMMA OneStepSound ==
  ASSUME ActsTypeOK, StepsSound, NEW w \in Doers, NEW r, actStep' = [actStep EXCEPT ![w] = r],
         ledgerDisk \subseteq ledgerDisk', StepSound(w)'
  PROVE  StepsSound'
<1> SUFFICES ASSUME NEW v \in Doers, v # w PROVE StepSound(v)' BY DEF StepsSound
<1>1. actStep'[v] = actStep[v] BY ActTypes
<1> QED BY <1>1 DEF StepsSound, StepSound

LEMMA IdleSound ==
  ASSUME ActsTypeOK, NEW w \in Doers, NEW r \in {Idle, [Idle EXCEPT !.at = "plan", !.owns = TRUE]},
         actStep' = [actStep EXCEPT ![w] = r]
  PROVE  StepSound(w)'
<1>1. actStep'[w] = r BY ActTypes
<1>2. r.at \in {"idle", "plan"} /\ r.act = NoAct /\ r.entry = NotKept BY IdleFields
<1> QED BY <1>1, <1>2 DEF StepSound

LEMMA AheadSound ==
  ASSUME ActsTypeOK, NEW w \in Doers, NEW a \in Acts, NEW e, GoesAhead(w, a, e),
         a \in Comments => e \in ledgerDisk'
  PROVE  StepSound(w)' /\ \E r : actStep' = [actStep EXCEPT ![w] = r]
<1> DEFINE r == [actStep[w] EXCEPT !.at = "act", !.act = a, !.entry = e, !.under = granted[a]]
<1>1. actStep' = [actStep EXCEPT ![w] = r] BY ActTypes DEF GoesAhead
<1>2. actStep'[w] = r BY <1>1, ActTypes
<1>3. r.at = "act" /\ r.act = a /\ r.entry = e BY ActTypes DEF StepRecords
<1>4. StepSound(w)' BY <1>2, <1>3 DEF StepSound
<1> QED BY <1>1, <1>4

\* A step that goes on keeps its action and its entry.
LEMMA OnwardSound ==
  ASSUME ActsTypeOK, StepsSound, NEW w \in Doers, NEW r \in StepRecords, actStep' = [actStep EXCEPT ![w] = r],
         r.act = actStep[w].act, r.entry = actStep[w].entry, ledgerDisk' = ledgerDisk,
         \/ r.at = actStep[w].at
         \/ actStep[w].at = "act" /\ r.at \in {"act", "check"}
  PROVE  StepsSound'
<1>1. actStep'[w] = r BY ActTypes
<1>2. StepSound(w)' BY <1>1 DEF StepsSound, StepSound
<1> QED BY <1>2, OneStepSound

\* What an interrupted, a pressing and an idle toggle's step become.
LEMMA OnwardSteps ==
  ASSUME ActsTypeOK, NEW w \in Doers, Interrupted(w) \/ Press(w) \/ AlreadySo(w)
  PROVE  \E r \in StepRecords :
           /\ actStep' = [actStep EXCEPT ![w] = r]
           /\ r.act = actStep[w].act /\ r.entry = actStep[w].entry /\ r.under = actStep[w].under
           /\ \/ r.at = actStep[w].at /\ ~(Press(w) /\ actStep[w].act \in Comments)
              \/ actStep[w].at = "act" /\ r.at = "check"
<1>w. actStep[w] \in StepRecords /\ actStep \in [Doers -> StepRecords] BY ActTypes
<1>1. CASE Interrupted(w) /\ ~Press(w)
  <2> DEFINE r == [actStep[w] EXCEPT !.owns = FALSE]
  <2>1. r \in StepRecords /\ r.act = actStep[w].act /\ r.entry = actStep[w].entry /\ r.under = actStep[w].under
        /\ r.at = actStep[w].at
    BY <1>w DEF StepRecords
  <2>2. actStep' = [actStep EXCEPT ![w] = r] BY <1>w, <1>1 DEF Interrupted
  <2> HIDE DEF r
  <2> QED BY <1>1, <2>1, <2>2
<1>2. CASE AlreadySo(w) /\ ~Press(w)
  <2> DEFINE r == [actStep[w] EXCEPT !.at = "check"]
  <2>1. r \in StepRecords /\ r.act = actStep[w].act /\ r.entry = actStep[w].entry /\ r.under = actStep[w].under
        /\ r.at = "check"
    BY <1>w DEF StepRecords
  <2>2. actStep' = [actStep EXCEPT ![w] = r] /\ actStep[w].at = "act" BY <1>w, <1>2 DEF AlreadySo
  <2> HIDE DEF r
  <2> QED BY <2>1, <2>2
<1>3. CASE Press(w)
  <2>1. actStep[w].at = "act" /\ actStep[w].presses < 2 BY <1>3, PressSteps
  <2>2. PICK at \in {"act", "check"} : /\ actStep[w].act \in Comments => at = "check"
                                    /\ actStep' = [actStep EXCEPT ![w] = Pressed(actStep[w], at)]
    BY <1>3, PressSteps
  <2> DEFINE r == Pressed(actStep[w], at)
  <2>3. r \in StepRecords /\ r.act = actStep[w].act /\ r.entry = actStep[w].entry /\ r.under = actStep[w].under
        /\ r.at = at
    BY <2>1, PressTyped
  <2>4. actStep' = [actStep EXCEPT ![w] = r] BY <2>2
  <2> HIDE DEF r
  <2> QED BY <2>1, <2>2, <2>3, <2>4
<1> QED BY <1>1, <1>2, <1>3

LEMMA StepsSoundStep == ASSUME ActsInv, [ActsNext]_actVars PROVE StepsSound'
<1>i. ActsTypeOK /\ StepsSound BY DEF ActsInv
<1>t. actStep \in [Doers -> StepRecords] BY <1>i, ActTypes
<1>1. ASSUME UNCHANGED actStep, ledgerDisk \subseteq ledgerDisk' PROVE StepsSound'
  BY <1>i, <1>1 DEF StepsSound, StepSound
<1>2. ASSUME NEW w \in Doers, NEW r \in {Idle, [Idle EXCEPT !.at = "plan", !.owns = TRUE]},
             actStep' = [actStep EXCEPT ![w] = r], ledgerDisk' = ledgerDisk
      PROVE  StepsSound'
  <2>1. StepSound(w)' BY <1>i, <1>2, IdleSound
  <2> QED BY <1>i, <1>2, <2>1, OneStepSound
<1>3. ASSUME NEW w \in Doers, Interrupted(w) \/ Press(w) \/ AlreadySo(w) PROVE StepsSound'
  <2>1. ledgerDisk' = ledgerDisk BY <1>3 DEF Interrupted, Press, AlreadySo
  <2>2. PICK r \in StepRecords :
           /\ actStep' = [actStep EXCEPT ![w] = r]
           /\ r.act = actStep[w].act /\ r.entry = actStep[w].entry
           /\ \/ r.at = actStep[w].at
              \/ actStep[w].at = "act" /\ r.at \in {"act", "check"}
    BY <1>i, <1>3, OnwardSteps
  <2> QED BY <1>i, <2>1, <2>2, OnwardSound
<1>4. ASSUME NEW w \in Doers, NothingDone(w) \/ Unconfirmed(w) \/ Verified(w) PROVE StepsSound'
  <2>1. actStep' = [actStep EXCEPT ![w] = Idle] /\ ledgerDisk' = ledgerDisk
    BY <1>4 DEF NothingDone, Unconfirmed, Verified, Consumed, StepOver
  <2> QED BY <1>2, <2>1
<1>5. ASSUME NEW w \in Doers, StepBegins(w) PROVE StepsSound'
  BY <1>2, <1>5 DEF StepBegins
<1>6. ASSUME NEW w \in Doers, NEW a \in Acts, AskApproval(w, a) PROVE StepsSound'
  BY <1>2, <1>6 DEF AskApproval
<1>7. ASSUME NEW w \in Doers, NEW a \in Acts, Proceed(w, a) PROVE StepsSound'
  <2>1. ASSUME NEW e, GoesAhead(w, a, e), a \in Comments => e \in ledgerDisk', ledgerDisk \subseteq ledgerDisk'
        PROVE  StepsSound'
    <3>1. StepSound(w)' /\ \E r : actStep' = [actStep EXCEPT ![w] = r] BY <1>i, <2>1, AheadSound
    <3> QED BY <1>i, <2>1, <3>1, OneStepSound
  <2>2. CASE a \in Comments
    <3>1. /\ ledger' = ledger \cup {KeptAs(a)}
          /\ \/ ledgerDisk' = ledger' /\ GoesAhead(w, a, KeptAs(a))
             \/ ledgerDisk' = ledgerDisk /\ actStep' = [actStep EXCEPT ![w] = Idle]
      BY <1>7, <2>2 DEF Proceed, LedgerSaved, LedgerNotSaved
    <3>2. ledgerDisk \subseteq ledger BY DEF ActsInv, LedgerSound
    <3>3. CASE ledgerDisk' = ledger' /\ GoesAhead(w, a, KeptAs(a)) BY <2>1, <3>1, <3>2, <3>3
    <3>4. CASE ledgerDisk' = ledgerDisk /\ actStep' = [actStep EXCEPT ![w] = Idle] BY <1>2, <3>4
    <3> QED BY <3>1, <3>3, <3>4
  <2>3. CASE a \notin Comments
    <3>1. GoesAhead(w, a, NotKept) /\ ledgerDisk' = ledgerDisk BY <1>7, <2>3 DEF Proceed
    <3> QED BY <2>1, <2>3, <3>1
  <2> QED BY <2>2, <2>3
<1>8. ASSUME NEW e \in LedgerEntries, WindowPasses(e) PROVE StepsSound'
  <2>1. /\ actStep' = actStep /\ ledgerDisk' = ledgerDisk \ {e}
        /\ \A w \in Doers : actStep[w].entry # e
    BY <1>8 DEF WindowPasses
  <2> QED BY <1>i, <2>1 DEF StepsSound, StepSound
<1>9. CASE WorkerDies
  <2>1. \A w \in Doers : actStep'[w] = Idle BY <1>9 DEF WorkerDies
  <2> QED BY <2>1 DEF StepsSound, StepSound, Idle
<1>10. ASSUME NEW a \in Acts, NEW to \in {"APPROVED", "REJECTED"}, DecideApproval(a, to) PROVE StepsSound'
  BY <1>1, <1>10 DEF DecideApproval
<1>11. ASSUME NEW a \in Acts, Expire(a) PROVE StepsSound' BY <1>1, <1>11 DEF Expire
<1>12. ASSUME NEW p \in Posts, RecordChanges(p) PROVE StepsSound' BY <1>1, <1>12 DEF RecordChanges
<1>13. CASE UNCHANGED actVars BY <1>1, <1>13 DEF actVars
<1> QED BY SMTT(30), <1>3, <1>4, <1>5, <1>6, <1>7, <1>8, <1>9, <1>10, <1>11, <1>12, <1>13 DEF ActsNext

\* The ledger and the comments stay, and a step's entry stays or goes.
LEMMA LedgerStays ==
  ASSUME ActsTypeOK, LedgerSound, UNCHANGED <<ledger, ledgerDisk, posted>>, NEW w \in Doers, NEW r,
         actStep' = [actStep EXCEPT ![w] = r],
         r.entry = NotKept \/ (r.entry = actStep[w].entry /\ (r.at = "act" => actStep[w].at = "act"))
  PROVE  LedgerSound'
<1>1. actStep'[w] = r /\ \A v \in Doers : v # w => actStep'[v] = actStep[v] BY ActTypes
<1>2. ASSUME NEW v \in Doers, actStep'[v].entry # NotKept
      PROVE  /\ actStep'[v].entry = actStep[v].entry
             /\ actStep'[v].at = "act" => actStep[v].at = "act"
  BY <1>1, <1>2
<1> QED BY <1>2 DEF LedgerSound

\* A step goes ahead with an entry that the ledger did not hold and now holds.
LEMMA LedgerGrows ==
  ASSUME ActsTypeOK, LedgerSound, NEW w \in Doers, NEW a \in Comments, NEW e \in LedgerEntries, Fresh(e),
         ledger' = ledger \cup {e}, UNCHANGED posted,
         \/ ledgerDisk' = ledger' /\ GoesAhead(w, a, e)
         \/ ledgerDisk' = ledgerDisk /\ actStep' = [actStep EXCEPT ![w] = Idle]
  PROVE  LedgerSound'
<1>1. ledgerDisk' \subseteq ledger' /\ ledgerDisk \subseteq ledgerDisk' BY DEF LedgerSound
<1>2. \A f, g \in ledger' : (f.key = g.key \/ f.text = g.text) => f = g BY DEF LedgerSound, Fresh
<1>3. \A f \in LedgerEntries : posted'[f] <= 1 /\ (posted'[f] > 0 => f \in ledgerDisk') BY <1>1 DEF LedgerSound
<1>4. e \notin ledger BY DEF Fresh
<1>5. posted[e] = 0 BY <1>4, ActTypes DEF LedgerSound
<1>6. \A v \in Doers : v # w => actStep'[v] = actStep[v] BY ActTypes DEF GoesAhead
<1>7. CASE ledgerDisk' = ledger' /\ GoesAhead(w, a, e)
  <2>1. actStep'[w].entry = e BY <1>7, ActTypes DEF GoesAhead, StepRecords
  <2>2. \A v \in Doers : v # w => actStep'[v].entry # e BY <1>4, <1>6, ActKinds DEF LedgerSound
  <2>3. e \in ledgerDisk' BY <1>7
  <2>4. \A v \in Doers : actStep'[v].entry # NotKept =>
          /\ actStep'[v].entry \in ledgerDisk'
          /\ actStep'[v].at = "act" => posted'[actStep'[v].entry] = 0
    BY <1>1, <1>5, <1>6, <2>1, <2>3 DEF LedgerSound
  <2>5. \A v \in Doers : actStep'[v].entry # NotKept =>
          \A u \in Doers : u # v => actStep'[u].entry # actStep'[v].entry
    BY <1>6, <2>1, <2>2 DEF LedgerSound
  <2> QED BY <1>1, <1>2, <1>3, <2>4, <2>5 DEF LedgerSound
<1>8. CASE ledgerDisk' = ledgerDisk /\ actStep' = [actStep EXCEPT ![w] = Idle]
  <2>1. actStep'[w].entry = NotKept BY <1>8, ActTypes DEF Idle
  <2>2. \A v \in Doers : actStep'[v].entry # NotKept =>
          /\ actStep'[v].entry \in ledgerDisk'
          /\ actStep'[v].at = "act" => posted'[actStep'[v].entry] = 0
          /\ \A u \in Doers : u # v => actStep'[u].entry # actStep'[v].entry
    BY <1>1, <1>6, <2>1 DEF LedgerSound
  <2> QED BY <1>1, <1>2, <1>3, <2>2 DEF LedgerSound
<1> QED BY <1>7, <1>8

LEMMA LedgerSoundStep == ASSUME ActsInv, [ActsNext]_actVars PROVE LedgerSound'
<1>i. ActsTypeOK /\ StepsSound /\ LedgerSound BY DEF ActsInv
<1>t. /\ actStep \in [Doers -> StepRecords] /\ posted \in [LedgerEntries -> Nat]
      /\ ledger \subseteq LedgerEntries /\ ledgerDisk \subseteq LedgerEntries
  BY <1>i, ActTypes
<1>1. ASSUME UNCHANGED <<ledger, ledgerDisk, posted, actStep>> PROVE LedgerSound'
  BY <1>i, <1>1 DEF LedgerSound
<1>2. ASSUME NEW w \in Doers, NEW r \in {Idle, [Idle EXCEPT !.at = "plan", !.owns = TRUE]},
             actStep' = [actStep EXCEPT ![w] = r], UNCHANGED <<ledger, ledgerDisk, posted>>
      PROVE  LedgerSound'
  <2>1. r.entry = NotKept BY IdleFields
  <2> QED BY <1>i, <1>2, <2>1, LedgerStays
<1>3. ASSUME NEW w \in Doers, Interrupted(w) \/ AlreadySo(w) \/ (Press(w) /\ actStep[w].act \notin Comments)
      PROVE  LedgerSound'
  <2>1. UNCHANGED <<ledger, ledgerDisk, posted>> BY <1>3 DEF Interrupted, Press, AlreadySo
  <2>2. PICK r \in StepRecords :
           /\ actStep' = [actStep EXCEPT ![w] = r] /\ r.entry = actStep[w].entry
           /\ r.at = actStep[w].at \/ (actStep[w].at = "act" /\ r.at = "check")
    BY <1>i, <1>3, OnwardSteps
  <2> QED BY <1>i, <2>1, <2>2, LedgerStays
<1>4. ASSUME NEW w \in Doers, Press(w), actStep[w].act \in Comments PROVE LedgerSound'
  <2> DEFINE e == actStep[w].entry
  <2>1. /\ actStep[w].at = "act" /\ UNCHANGED <<ledger, ledgerDisk>> /\ posted' = [posted EXCEPT ![e] = @ + 1]
    BY <1>4 DEF Press
  <2>2. e \in ledgerDisk BY <1>i, <1>4, <2>1 DEF StepsSound, StepSound
  <2>3. e # NotKept /\ e \in LedgerEntries BY <1>t, <2>2, ActKinds
  <2>4. posted[e] = 0 /\ \A v \in Doers : v # w => actStep[v].entry # e BY <1>i, <2>1, <2>3 DEF LedgerSound
  <2>5. PICK r \in StepRecords :
           actStep' = [actStep EXCEPT ![w] = r] /\ r.entry = e /\ r.at = "check"
    BY <1>i, <1>4, OnwardSteps
  <2>6. /\ actStep'[w].entry = e /\ actStep'[w].at = "check"
        /\ \A v \in Doers : v # w => actStep'[v] = actStep[v]
    BY <1>t, <2>5
  <2>7. posted'[e] = 1 /\ \A f \in LedgerEntries : f # e => posted'[f] = posted[f] BY <1>t, <2>1, <2>3, <2>4
  <2> HIDE DEF e
  <2>8. \A f \in LedgerEntries : posted'[f] <= 1 /\ (posted'[f] > 0 => f \in ledgerDisk')
    BY <1>i, <2>1, <2>2, <2>7 DEF LedgerSound
  <2>9. ASSUME NEW v \in Doers, actStep'[v].entry # NotKept
        PROVE  /\ actStep'[v].entry \in ledgerDisk'
               /\ actStep'[v].at = "act" => posted'[actStep'[v].entry] = 0
               /\ \A u \in Doers : u # v => actStep'[u].entry # actStep'[v].entry
    <3>1. CASE v = w BY <2>1, <2>2, <2>4, <2>6, <3>1
    <3>2. CASE v # w
      <4>1. actStep'[v] = actStep[v] /\ actStep[v].entry # e BY <2>4, <2>6, <3>2
      <4>2. actStep[v].entry \in ledgerDisk /\ actStep[v].entry \in LedgerEntries BY <1>i, <1>t, <2>9, <4>1 DEF LedgerSound
      <4>3. \A u \in Doers : u # v => actStep'[u].entry # actStep'[v].entry
        BY <1>i, <2>6, <2>9, <4>1 DEF LedgerSound
      <4> QED BY <1>i, <2>1, <2>7, <2>9, <4>1, <4>2, <4>3 DEF LedgerSound
    <3> QED BY <3>1, <3>2
  <2> QED BY <1>i, <2>1, <2>8, <2>9 DEF LedgerSound
<1>5. ASSUME NEW w \in Doers, NothingDone(w) \/ Unconfirmed(w) \/ Verified(w) PROVE LedgerSound'
  <2>1. actStep' = [actStep EXCEPT ![w] = Idle] /\ UNCHANGED <<ledger, ledgerDisk, posted>>
    BY <1>5 DEF NothingDone, Unconfirmed, Verified, Consumed, StepOver
  <2> QED BY <1>2, <2>1
<1>6. ASSUME NEW w \in Doers, StepBegins(w) PROVE LedgerSound'
  BY <1>2, <1>6 DEF StepBegins
<1>7. ASSUME NEW w \in Doers, NEW a \in Acts, AskApproval(w, a) PROVE LedgerSound'
  BY <1>2, <1>7 DEF AskApproval
<1>8. ASSUME NEW w \in Doers, NEW a \in Acts, Proceed(w, a) PROVE LedgerSound'
  <2>1. CASE a \in Comments
    <3>1. /\ Fresh(KeptAs(a)) /\ ledger' = ledger \cup {KeptAs(a)} /\ UNCHANGED posted
          /\ \/ ledgerDisk' = ledger' /\ GoesAhead(w, a, KeptAs(a))
             \/ ledgerDisk' = ledgerDisk /\ actStep' = [actStep EXCEPT ![w] = Idle]
      BY <1>8, <2>1 DEF Proceed, LedgerSaved, LedgerNotSaved
    <3> QED BY <1>i, <2>1, <3>1, KeptAsType, LedgerGrows
  <2>2. CASE a \notin Comments
    <3>1. GoesAhead(w, a, NotKept) /\ UNCHANGED <<ledger, ledgerDisk, posted>> BY <1>8, <2>2 DEF Proceed
    <3> DEFINE r == [actStep[w] EXCEPT !.at = "act", !.act = a, !.entry = NotKept, !.under = granted[a]]
    <3>2. actStep' = [actStep EXCEPT ![w] = r] BY <1>t, <3>1 DEF GoesAhead
    <3>3. r.entry = NotKept BY <1>t DEF StepRecords
    <3> HIDE DEF r
    <3> QED BY <1>i, <3>1, <3>2, <3>3, LedgerStays
  <2> QED BY <2>1, <2>2
<1>9. ASSUME NEW e \in LedgerEntries, WindowPasses(e) PROVE LedgerSound'
  <2>1. /\ actStep' = actStep /\ ledger' = ledger \ {e} /\ ledgerDisk' = ledgerDisk \ {e}
        /\ posted' = [posted EXCEPT ![e] = 0] /\ \A w \in Doers : actStep[w].entry # e
    BY <1>9 DEF WindowPasses
  <2>2. posted'[e] = 0 /\ \A f \in LedgerEntries : f # e => posted'[f] = posted[f] BY <1>t, <2>1
  <2>3. ASSUME NEW w \in Doers, actStep[w].entry # NotKept
        PROVE  actStep[w].entry \in ledgerDisk' /\ posted'[actStep[w].entry] = posted[actStep[w].entry]
    BY <1>i, <1>t, <2>1, <2>2, <2>3 DEF LedgerSound
  <2>4. \A f \in LedgerEntries : posted'[f] <= 1 /\ (posted'[f] > 0 => f \in ledgerDisk')
    BY <1>i, <2>1, <2>2 DEF LedgerSound
  <2>5. /\ ledgerDisk' \subseteq ledger'
        /\ \A f, g \in ledger' : (f.key = g.key \/ f.text = g.text) => f = g
    BY <1>i, <2>1 DEF LedgerSound
  <2> QED BY <1>i, <2>1, <2>3, <2>4, <2>5 DEF LedgerSound
<1>10. CASE WorkerDies
  <2>1. \A w \in Doers : actStep'[w].entry = NotKept BY <1>10 DEF WorkerDies, Idle
  <2>2. ledger' = ledgerDisk /\ UNCHANGED <<ledgerDisk, posted>> BY <1>10 DEF WorkerDies
  <2> QED BY <1>i, <2>1, <2>2 DEF LedgerSound
<1>11. ASSUME NEW a \in Acts, NEW to \in {"APPROVED", "REJECTED"}, DecideApproval(a, to) PROVE LedgerSound'
  BY <1>1, <1>11 DEF DecideApproval
<1>12. ASSUME NEW a \in Acts, Expire(a) PROVE LedgerSound' BY <1>1, <1>12 DEF Expire
<1>13. ASSUME NEW p \in Posts, RecordChanges(p) PROVE LedgerSound' BY <1>1, <1>13 DEF RecordChanges
<1>14. CASE UNCHANGED actVars BY <1>1, <1>14 DEF actVars
<1> QED BY SMTT(30), <1>3, <1>4, <1>5, <1>6, <1>7, <1>8, <1>9, <1>10, <1>11, <1>12, <1>13, <1>14 DEF ActsNext


\* How many steps may have gone ahead with a.
Room(a) == granted[a] + loose[a] + shared[a]

\* Nothing went ahead with a, and what can be used now could be before, or has its room.
LEMMA BudgetStays ==
  ASSUME ActsTypeOK, ActsTypeOK', NEW a \in Acts, Budget(a), taken'[a] = taken[a], Room(a)' >= Room(a),
         Gated(a) /\ Usable(a)' => Usable(a) \/ Room(a)' > Room(a)
  PROVE  Budget(a)'
<1>1. /\ taken[a] \in Nat /\ granted[a] \in Nat /\ loose[a] \in Nat /\ shared[a] \in Nat
      /\ granted'[a] \in Nat /\ loose'[a] \in Nat /\ shared'[a] \in Nat
  BY DEF ActsTypeOK
<1>2. Room(a) \in Nat /\ Room(a)' \in Nat BY <1>1 DEF Room
<1>3. Gated(a)' <=> Gated(a) BY DEF Gated
<1>4. ASSUME Gated(a) PROVE taken[a] <= Room(a) /\ (Usable(a) => taken[a] + 1 <= Room(a))
  BY <1>4 DEF Budget, Room
<1>5. ASSUME Gated(a) PROVE taken'[a] <= Room(a)' /\ (Usable(a)' => taken'[a] + 1 <= Room(a)')
  BY <1>1, <1>2, <1>4, <1>5
<1> QED BY <1>3, <1>5 DEF Budget, Room

\* The counts of a stay, and so do the steps at it; its file may catch up.
LEMMA BudgetSame ==
  ASSUME ActsTypeOK, ActsTypeOK', NEW a \in Acts, Budget(a), taken'[a] = taken[a], granted'[a] = granted[a],
         loose'[a] = loose[a], shared'[a] = shared[a], AtIt(a)' = AtIt(a),
         approval'[a] = approval[a], approvalDisk'[a] \in {approvalDisk[a], approval[a]}
  PROVE  Budget(a)'
<1>1. Room(a)' = Room(a) BY DEF Room
<1>2. Room(a)' >= Room(a)
  <2>1. Room(a) \in Nat BY DEF Room, ActsTypeOK
  <2> QED BY <1>1, <2>1
<1>3. Usable(a)' => Usable(a) BY DEF Usable
<1> QED BY <1>2, <1>3, BudgetStays

\* Who is at an action, after the steps that keep their action and after those that end or begin.
LEMMA AtItStays ==
  ASSUME NEW a \in Acts, granted'[a] = granted[a],
         \A v \in Doers : actStep'[v].act = actStep[v].act /\ actStep'[v].under = actStep[v].under
  PROVE  AtIt(a)' = AtIt(a)
  BY DEF AtIt

LEMMA AtItLeft ==
  ASSUME ActsTypeOK, NEW w \in Doers, NEW r \in {Idle, [Idle EXCEPT !.at = "plan", !.owns = TRUE]},
         actStep' = [actStep EXCEPT ![w] = r], NEW a \in Acts, granted'[a] = granted[a]
  PROVE  AtIt(a)' = AtIt(a) \ {w}
<1>1. actStep'[w] = r /\ \A v \in Doers : v # w => actStep'[v] = actStep[v] BY ActTypes
<1>2. r.act = NoAct BY IdleFields
<1>3. actStep'[w].act # a BY <1>1, <1>2, ActKinds
<1> QED BY <1>1, <1>3 DEF AtIt

LEMMA AtItAhead ==
  ASSUME ActsTypeOK, NEW w \in Doers, NEW a \in Acts, NEW e, GoesAhead(w, a, e), granted' = granted,
         actStep[w].act = NoAct, NEW b \in Acts
  PROVE  AtIt(b)' = IF b = a THEN AtIt(b) \cup {w} ELSE AtIt(b)
<1>1. /\ actStep'[w].act = a /\ actStep'[w].under = granted[a]
      /\ \A v \in Doers : v # w => actStep'[v] = actStep[v]
  BY ActTypes DEF GoesAhead, StepRecords
<1>2. w \notin AtIt(b) BY ActKinds DEF AtIt
<1> QED BY <1>1, <1>2 DEF AtIt

\* Going ahead with a uses up its approval, or shares it.
LEMMA AheadBudget ==
  ASSUME ActsTypeOK, ActsTypeOK', NEW w \in Doers, NEW a \in Acts, NEW e, GoesAhead(w, a, e), Allowed(a),
         actStep[w].act = NoAct, UNCHANGED <<approval, approvalDisk, granted, loose>>,
         NEW b \in Acts, Budget(b)
  PROVE  Budget(b)'
<1>t. /\ taken \in ActCounts /\ granted \in ActCounts /\ loose \in ActCounts /\ shared \in ActCounts
  BY ActTypes
<1>1. taken' = [taken EXCEPT ![a] = @ + 1] BY DEF GoesAhead
<1>2. shared' = IF AtIt(a) # {} THEN [shared EXCEPT ![a] = @ + 1] ELSE shared BY DEF GoesAhead
<1>3. AtIt(b)' = IF b = a THEN AtIt(b) \cup {w} ELSE AtIt(b) BY AtItAhead
<1>4. CASE b # a
  <2>1. taken'[b] = taken[b] /\ shared'[b] = shared[b] BY <1>t, <1>1, <1>2, <1>4 DEF ActCounts
  <2> QED BY <1>3, <1>4, <2>1, BudgetSame
<1>5. CASE b = a /\ Gated(a)
  <2>1. approval[a] = "APPROVED" BY <1>5 DEF Allowed
  <2>2. ~Usable(a)' BY <1>3, <1>5, <2>1 DEF Usable
  <2>3. taken'[a] = taken[a] + 1 BY <1>t, <1>1 DEF ActCounts
  <2>4. /\ taken[a] \in Nat /\ granted[a] \in Nat /\ loose[a] \in Nat /\ shared[a] \in Nat
    BY <1>t DEF ActCounts
  <2>5. taken'[a] <= granted'[a] + loose'[a] + shared'[a]
    <3>1. CASE AtIt(a) # {}
      <4>1. shared'[a] = shared[a] + 1 BY <1>t, <1>2, <3>1 DEF ActCounts
      <4>2. taken[a] <= granted[a] + loose[a] + shared[a] BY <1>5 DEF Budget
      <4> QED BY <2>3, <2>4, <4>1, <4>2
    <3>2. CASE AtIt(a) = {}
      <4>1. shared' = shared BY <1>2, <3>2
      <4>2. taken[a] + 1 <= granted[a] + loose[a] + shared[a] BY <1>5, <2>1, <3>2 DEF Budget, Usable
      <4> QED BY <2>3, <2>4, <4>1, <4>2
    <3> QED BY <3>1, <3>2
  <2> QED BY <1>5, <2>2, <2>5 DEF Budget
<1>6. CASE b = a /\ ~Gated(a) BY <1>6 DEF Budget, Gated
<1> QED BY <1>4, <1>5, <1>6

\* A step that ends at its action leaves room for another one, unless others are still at it.
LEMMA OverBudget ==
  ASSUME ActsTypeOK, ActsTypeOK', NEW w \in Doers, NEW left \in BOOLEAN, StepOver(w, left),
         left => actStep[w].act \in Acts, UNCHANGED <<approval, granted, taken, shared>>,
         NEW b \in Acts, Budget(b), approvalDisk'[b] = approvalDisk[b],
         LeftBy(w) => left
  PROVE  Budget(b)'
<1>t. /\ granted \in ActCounts /\ loose \in ActCounts /\ shared \in ActCounts BY ActTypes
<1>1. AtIt(b)' = AtIt(b) \ {w} BY AtItLeft DEF StepOver
<1>2. loose'[b] = IF left /\ b = actStep[w].act THEN loose[b] + 1 ELSE loose[b]
  BY <1>t DEF StepOver, ActCounts
<1>3. CASE left /\ b = actStep[w].act
  <2>1. Room(b)' > Room(b) BY <1>t, <1>2, <1>3 DEF Room, ActCounts
  <2>2. Room(b) \in Nat /\ Room(b)' \in Nat BY DEF Room, ActsTypeOK
  <2>3. Room(b)' >= Room(b) BY <2>1, <2>2
  <2> QED BY <2>1, <2>3, BudgetStays
<1>4. CASE ~(left /\ b = actStep[w].act)
  <2>1. loose'[b] = loose[b] BY <1>2, <1>4
  <2>2. Room(b)' = Room(b) /\ Room(b) \in Nat BY <2>1 DEF Room, ActsTypeOK
  <2>3. Room(b)' >= Room(b) BY <2>2
  <2>4. ASSUME Gated(b), approval[b] = "APPROVED", AtIt(b) \ {w} = {} PROVE AtIt(b) = {}
    <3>1. ASSUME AtIt(b) # {} PROVE FALSE
      <4>1. AtIt(b) = {w} BY <2>4, <3>1
      <4>2. actStep[w].act = b BY <4>1 DEF AtIt
      <4>3. LeftBy(w) BY <2>4, <4>1, <4>2 DEF LeftBy
      <4> QED BY <1>4, <4>2, <4>3
    <3> QED BY <3>1
  <2>5. Gated(b) /\ Usable(b)' => Usable(b) BY <1>1, <2>4 DEF Usable
  <2> QED BY <2>3, <2>5, BudgetStays
<1> QED BY <1>3, <1>4

\* Consuming the approval ends its use; if the file does not know of it, there is one more.
LEMMA ConsumedBudget ==
  ASSUME ActsTypeOK, ActsTypeOK', NEW w \in Doers, Consumed(w), Gated(actStep[w].act),
         approval[actStep[w].act] = "APPROVED", w \in AtIt(actStep[w].act),
         UNCHANGED <<granted, taken, shared>>, NEW b \in Acts, Budget(b)
  PROVE  Budget(b)'
<1> DEFINE c == actStep[w].act
<1>t. /\ granted \in ActCounts /\ loose \in ActCounts /\ shared \in ActCounts /\ actStep \in [Doers -> StepRecords]
      /\ approval \in [Acts -> ApprovalStates] /\ approvalDisk \in [Acts -> ApprovalStates]
  BY ActTypes
<1>c. c \in Acts BY <1>t, ActKinds DEF StepRecords
<1>1. /\ approval' = [approval EXCEPT ![c] = "CONSUMED"]
      /\ actStep' = [actStep EXCEPT ![w] = Idle]
      /\ \/ approvalDisk' = approval' /\ loose' = loose
         \/ approvalDisk' = approvalDisk /\ loose' = [loose EXCEPT ![c] = @ + 1]
  BY DEF Consumed, ApprovalsSaved, ApprovalsNotSaved, StepOver
<1>2. AtIt(b)' = AtIt(b) \ {w} BY <1>1, AtItLeft
<1> HIDE DEF c
<1>3. CASE b # c
  <2>1. AtIt(b)' = AtIt(b) BY <1>2, <1>3 DEF AtIt, c
  <2>2. approval'[b] = approval[b] /\ approvalDisk'[b] \in {approvalDisk[b], approval[b]} /\ loose'[b] = loose[b]
    BY <1>t, <1>1, <1>3 DEF ActCounts
  <2> QED BY <2>1, <2>2, BudgetSame
<1>4. CASE b = c /\ approvalDisk' = approval' /\ loose' = loose
  <2>1. approval'[b] = "CONSUMED" /\ approvalDisk'[b] = "CONSUMED" BY <1>t, <1>c, <1>1, <1>4
  <2>2. ~Usable(b)' BY <2>1 DEF Usable
  <2>3. Room(b)' = Room(b) /\ Room(b) \in Nat BY <1>4 DEF Room, ActsTypeOK
  <2>4. Room(b)' >= Room(b) BY <2>3
  <2> QED BY <2>2, <2>4, BudgetStays
<1>5. CASE b = c /\ approvalDisk' = approvalDisk /\ loose' = [loose EXCEPT ![c] = @ + 1]
  <2>1. loose'[b] = loose[b] + 1 BY <1>t, <1>c, <1>5 DEF ActCounts
  <2>2. /\ granted[b] \in Nat /\ loose[b] \in Nat /\ shared[b] \in Nat BY <1>t DEF ActCounts
  <2>3. Room(b)' > Room(b) /\ Room(b)' >= Room(b) BY <2>1, <2>2 DEF Room
  <2> QED BY <2>3, BudgetStays
<1> QED BY <1>1, <1>3, <1>4, <1>5

LEMMA BudgetStep == ASSUME ActsInv, [ActsNext]_actVars, NEW b \in Acts PROVE Budget(b)'
<1>i. ActsTypeOK /\ ActsTypeOK' /\ StepsSound /\ Budget(b) BY ActsTypeStep DEF ActsInv
<1>t. /\ approval \in [Acts -> ApprovalStates] /\ approvalDisk \in [Acts -> ApprovalStates]
      /\ actStep \in [Doers -> StepRecords] /\ granted \in ActCounts /\ loose \in ActCounts
  BY <1>i, ActTypes
<1>p. \A w \in Doers : actStep[w].at = "plan" \/ actStep[w] = Idle => actStep[w].act = NoAct
  BY <1>i DEF StepsSound, StepSound, Idle
<1>1. ASSUME UNCHANGED <<approval, approvalDisk, granted, taken, loose, shared>>, AtIt(b)' = AtIt(b)
      PROVE  Budget(b)'
  BY <1>i, <1>1, BudgetSame
<1>2. ASSUME NEW w \in Doers, NEW r \in {Idle, [Idle EXCEPT !.at = "plan", !.owns = TRUE]},
             actStep' = [actStep EXCEPT ![w] = r], actStep[w].act = NoAct, granted' = granted
      PROVE  AtIt(b)' = AtIt(b)
  <2>1. AtIt(b)' = AtIt(b) \ {w} BY <1>i, <1>2, AtItLeft
  <2>2. w \notin AtIt(b) BY <1>2, ActKinds DEF AtIt
  <2> QED BY <2>1, <2>2
<1>3. ASSUME NEW a \in Acts, NEW to \in {"APPROVED", "REJECTED"}, DecideApproval(a, to) PROVE Budget(b)'
  <2>1. /\ approval[a] = "PENDING" /\ approval' = [approval EXCEPT ![a] = to]
        /\ granted' = IF to = "APPROVED" THEN [granted EXCEPT ![a] = @ + 1] ELSE granted
        /\ approvalDisk' = approval' \/ approvalDisk' = approvalDisk
        /\ UNCHANGED <<actStep, taken, loose, shared>>
    BY <1>3 DEF DecideApproval, ApprovalsSaved, ApprovalsNotSaved
  <2>2. CASE b # a
    <3>1. granted'[b] = granted[b] /\ approval'[b] = approval[b] /\ approvalDisk'[b] \in {approvalDisk[b], approval[b]}
      BY <1>t, <2>1, <2>2 DEF ActCounts
    <3>2. AtIt(b)' = AtIt(b) BY <2>1, <3>1 DEF AtIt
    <3> QED BY <1>i, <2>1, <3>1, <3>2, BudgetSame
  <2>3. CASE b = a /\ to = "APPROVED"
    <3>1. granted'[b] = granted[b] + 1 BY <1>t, <2>1, <2>3 DEF ActCounts
    <3>2. granted[b] \in Nat /\ loose[b] \in Nat /\ shared[b] \in Nat BY <1>i DEF ActsTypeOK
    <3>3. Room(b)' > Room(b) /\ Room(b)' >= Room(b) BY <2>1, <3>1, <3>2 DEF Room
    <3> QED BY <1>i, <2>1, <3>3, BudgetStays
  <2>4. CASE b = a /\ to = "REJECTED"
    <3>1. approval'[b] = "REJECTED" /\ granted' = granted BY <1>t, <2>1, <2>4
    <3>2. Usable(b)' => Usable(b) BY <2>1, <2>4, <3>1 DEF Usable
    <3>3. Room(b)' = Room(b) /\ Room(b) \in Nat BY <1>i, <2>1, <3>1 DEF Room, ActsTypeOK
    <3>4. Room(b)' >= Room(b) BY <3>3
    <3> QED BY <1>i, <2>1, <3>2, <3>4, BudgetStays
  <2> QED BY <2>2, <2>3, <2>4
<1>4. ASSUME NEW a \in Acts, Expire(a) PROVE Budget(b)'
  <2>1. /\ approval' = [approval EXCEPT ![a] = "EXPIRED"]
        /\ approvalDisk' = approval' \/ approvalDisk' = [approvalDisk EXCEPT ![a] = Past(@)]
        /\ UNCHANGED <<actStep, granted, taken, loose, shared>>
    BY <1>4 DEF Expire, ApprovalsSaved
  <2>2. AtIt(b)' = AtIt(b) BY <2>1 DEF AtIt
  <2>3. CASE b # a
    <3>1. approval'[b] = approval[b] /\ approvalDisk'[b] \in {approvalDisk[b], approval[b]}
      BY <1>t, <2>1, <2>3
    <3> QED BY <1>i, <2>1, <2>2, <3>1, BudgetSame
  <2>4. CASE b = a
    <3>1. approval'[b] # "APPROVED" /\ approvalDisk'[b] # "APPROVED" BY <1>t, <2>1, <2>4 DEF Past
    <3>2. ~Usable(b)' BY <3>1 DEF Usable
    <3>3. Room(b)' = Room(b) /\ Room(b) \in Nat BY <1>i, <2>1 DEF Room, ActsTypeOK
    <3>4. Room(b)' >= Room(b) BY <3>3
    <3> QED BY <1>i, <2>1, <3>2, <3>4, BudgetStays
  <2> QED BY <2>3, <2>4
<1>5. ASSUME NEW a \in Acts, NEW w \in Doers, AskApproval(w, a) PROVE Budget(b)'
  <2>1. /\ actStep[w].at = "plan" /\ actStep' = [actStep EXCEPT ![w] = Idle]
        /\ UNCHANGED <<granted, taken, loose, shared>>
    BY <1>5 DEF AskApproval
  <2>2. AtIt(b)' = AtIt(b) BY <1>2, <1>p, <2>1
  <2>3. CASE approval[a] \in OpenStates
    <3>1. UNCHANGED <<approval, approvalDisk>> BY <1>5, <2>3 DEF AskApproval
    <3> QED BY <1>1, <2>1, <2>2, <3>1
  <2>4. CASE approval[a] \notin OpenStates
    <3>1. /\ approval' = [approval EXCEPT ![a] = "PENDING"]
          /\ approvalDisk' = approval' \/ approvalDisk' = approvalDisk
      BY <1>5, <2>4 DEF AskApproval, ApprovalsSaved, ApprovalsNotSaved
    <3>2. CASE b # a
      <4>1. approval'[b] = approval[b] /\ approvalDisk'[b] \in {approvalDisk[b], approval[b]}
        BY <1>t, <3>1, <3>2
      <4> QED BY <1>i, <2>1, <2>2, <4>1, BudgetSame
    <3>3. CASE b = a
      <4>1. approval'[b] = "PENDING" /\ approval[b] # "APPROVED" BY <1>t, <2>4, <3>1, <3>3
      <4>2. Usable(b)' => Usable(b) BY <3>1, <4>1 DEF Usable
      <4>3. Room(b)' = Room(b) /\ Room(b) \in Nat BY <1>i, <2>1 DEF Room, ActsTypeOK
      <4>4. Room(b)' >= Room(b) BY <4>3
      <4> QED BY <1>i, <2>1, <4>2, <4>4, BudgetStays
    <3> QED BY <3>2, <3>3
  <2> QED BY <2>3, <2>4
<1>6. ASSUME NEW a \in Acts, NEW w \in Doers, Proceed(w, a) PROVE Budget(b)'
  <2>1. /\ actStep[w].at = "plan" /\ Allowed(a) /\ UNCHANGED <<approval, approvalDisk, granted, loose>>
    BY <1>6 DEF Proceed
  <2>2. \/ \E e : GoesAhead(w, a, e)
        \/ actStep' = [actStep EXCEPT ![w] = Idle] /\ UNCHANGED <<taken, shared>>
    BY <1>6 DEF Proceed
  <2>3. actStep[w].act = NoAct BY <1>p, <2>1
  <2>4. ASSUME NEW e, GoesAhead(w, a, e) PROVE Budget(b)' BY <1>i, <2>1, <2>3, <2>4, AheadBudget
  <2>5. CASE actStep' = [actStep EXCEPT ![w] = Idle] /\ UNCHANGED <<taken, shared>>
    <3>1. AtIt(b)' = AtIt(b) BY <1>2, <2>1, <2>3, <2>5
    <3> QED BY <1>1, <2>1, <2>5, <3>1
  <2> QED BY <2>2, <2>4, <2>5
<1>7. ASSUME NEW e \in LedgerEntries, WindowPasses(e) PROVE Budget(b)'
  BY <1>1, <1>7 DEF WindowPasses, AtIt
<1>8. ASSUME NEW p \in Posts, RecordChanges(p) PROVE Budget(b)'
  BY <1>1, <1>8 DEF RecordChanges, AtIt
<1>9. ASSUME NEW w \in Doers, Interrupted(w) \/ Press(w) \/ AlreadySo(w) PROVE Budget(b)'
  <2>1. UNCHANGED <<approval, approvalDisk, granted, taken, loose, shared>>
    BY <1>9 DEF Interrupted, Press, AlreadySo
  <2>2. PICK r \in StepRecords :
          actStep' = [actStep EXCEPT ![w] = r] /\ r.act = actStep[w].act /\ r.under = actStep[w].under
    BY <1>i, <1>9, OnwardSteps
  <2>3. \A v \in Doers : actStep'[v].act = actStep[v].act /\ actStep'[v].under = actStep[v].under
    BY <1>t, <2>2
  <2>4. AtIt(b)' = AtIt(b) BY <2>1, <2>3, AtItStays
  <2> QED BY <1>1, <2>1, <2>4
<1>10. CASE WorkerDies
  <2>1. /\ approval' = approvalDisk /\ UNCHANGED <<approvalDisk, granted, taken, shared>>
        /\ \A v \in Doers : actStep'[v] = Idle
        /\ loose'[b] = IF Gated(b) /\ AtIt(b) # {} /\ approval[b] = "APPROVED" THEN loose[b] + 1 ELSE loose[b]
    BY <1>10 DEF WorkerDies
  <2>2. AtIt(b)' = {} BY <2>1, ActKinds DEF AtIt, Idle
  <2>3. granted[b] \in Nat /\ loose[b] \in Nat /\ shared[b] \in Nat BY <1>i DEF ActsTypeOK
  <2>4. Room(b)' >= Room(b) BY <2>1, <2>3 DEF Room
  <2>5. Gated(b) /\ AtIt(b) # {} /\ approval[b] = "APPROVED" => Room(b)' > Room(b) BY <2>1, <2>3 DEF Room
  <2>6. Usable(b)' => approvalDisk[b] = "APPROVED" BY <2>1 DEF Usable
  <2>7. Gated(b) /\ Usable(b)' => Usable(b) \/ Room(b)' > Room(b) BY <2>5, <2>6 DEF Usable
  <2> QED BY <1>i, <2>1, <2>4, <2>7, BudgetStays
<1>11. ASSUME NEW w \in Doers, StepBegins(w) PROVE Budget(b)'
  <2>1. /\ actStep[w] = Idle /\ actStep' = [actStep EXCEPT ![w] = [Idle EXCEPT !.at = "plan", !.owns = TRUE]]
        /\ UNCHANGED <<approval, approvalDisk, granted, taken, loose, shared>>
    BY <1>11 DEF StepBegins
  <2>2. AtIt(b)' = AtIt(b) BY <1>2, <1>p, <2>1
  <2> QED BY <1>1, <2>1, <2>2
<1>12. ASSUME NEW w \in Doers, NothingDone(w) \/ Unconfirmed(w) PROVE Budget(b)'
  <2>1. /\ StepOver(w, LeftBy(w)) /\ LeftBy(w) \in BOOLEAN
        /\ UNCHANGED <<approval, approvalDisk, granted, taken, shared>>
    BY <1>12 DEF NothingDone, Unconfirmed, LeftBy
  <2>2. LeftBy(w) => actStep[w].act \in Acts BY <1>t, ActKinds DEF LeftBy, StepRecords
  <2> QED BY <1>i, <2>1, <2>2, OverBudget
<1>13. ASSUME NEW w \in Doers, Verified(w) PROVE Budget(b)'
  <2> DEFINE c == actStep[w].act
  <2>1. Consumed(w) /\ UNCHANGED <<granted, taken, shared>> BY <1>13 DEF Verified
  <2>2. CASE Gated(c) /\ approval[c] = "APPROVED" /\ w \in AtIt(c)
    BY <1>i, <2>1, <2>2, ConsumedBudget
  <2>3. CASE ~(Gated(c) /\ approval[c] = "APPROVED" /\ w \in AtIt(c))
    <3>1. UNCHANGED <<approval, approvalDisk>> /\ StepOver(w, FALSE) BY <2>1, <2>3 DEF Consumed
    <3>2. ~LeftBy(w) BY <2>3 DEF LeftBy
    <3> QED BY <1>i, <2>1, <3>1, <3>2, OverBudget
  <2> QED BY <2>2, <2>3
<1>14. CASE UNCHANGED actVars BY <1>1, <1>14 DEF actVars, AtIt
<1> QED BY SMTT(30), <1>3, <1>4, <1>5, <1>6, <1>7, <1>8, <1>9, <1>10, <1>11, <1>12, <1>13, <1>14 DEF ActsNext

\* The steps, the ledger and the approvals stay sound for any number of workers, posts and wordings,
\* with workers that share an approval, posts whose key changes, steps that are stopped, presses that
\* are not confirmed, writes that fail and a process that dies at any await.
THEOREM ActsInvariance == ActsSpec => []ActsInv
<1>1. ActsInit => ActsInv BY ActsInitLemma
<1>2. ActsInv /\ [ActsNext]_actVars => ActsInv'
  <2> SUFFICES ASSUME ActsInv, [ActsNext]_actVars PROVE ActsInv' OBVIOUS
  <2>1. ActsTypeOK' BY ActsTypeStep
  <2>2. StepsSound' BY StepsSoundStep
  <2>3. LedgerSound' BY LedgerSoundStep
  <2>4. \A a \in Acts : Budget(a)' BY BudgetStep
  <2> QED BY <2>1, <2>2, <2>3, <2>4 DEF ActsInv
<1> QED BY <1>1, <1>2, PTL DEF ActsSpec

\* What others see is done once (researchWorker.js, approvalStore.js, commentGuard.js).
THEOREM ActsAreSeenOnce == ActsSpec => []SeenOnce
<1>1. ActsInv => SeenOnce
  <2> SUFFICES ASSUME ActsInv PROVE SeenOnce OBVIOUS
  <2>1. ApprovedOnce BY DEF ActsInv, Budget, ApprovedOnce
  <2>2. OneComment
    <3> SUFFICES ASSUME NEW e \in LedgerEntries, NEW f \in LedgerEntries
        PROVE  /\ posted[e] <= 1
               /\ (posted[e] > 0 /\ posted[f] > 0 /\ (e.key = f.key \/ e.text = f.text)) => e = f
      BY DEF OneComment
    <3>1. posted[e] > 0 => e \in ledger BY DEF ActsInv, LedgerSound
    <3>2. posted[f] > 0 => f \in ledger BY DEF ActsInv, LedgerSound
    <3>3. posted[e] <= 1 BY DEF ActsInv, LedgerSound
    <3> QED BY <3>1, <3>2, <3>3 DEF ActsInv, LedgerSound
  <2> QED BY <2>1, <2>2 DEF SeenOnce
<1> QED BY <1>1, ActsInvariance, PTL

-----------------------------------------------------------------------------
(* The stores with a version in PostgreSQL (SharedTables)                  *)

\* The calls of a table, the states of its rows, and the first of them.
OpsOf ==
  CASE relation = "approvals" -> {"insert", "decide"}
    [] relation = "interventions" -> {"insert", "claim", "resolve"}
    [] relation = "proxies" -> {"insert", "remove", "lease", "free"}
    [] relation = "assignments" -> {"insert", "start", "complete", "end", "recur", "reassign", "move", "rename"}
    [] relation = "sites" -> {"insert", "rotate", "update"}
    [] relation = "mail" -> {"mail"}
    [] OTHER -> {"save", "refresh"}
RowStatesOf ==
  CASE relation = "approvals" -> ApprovalRowStates
    [] relation = "interventions" -> InterventionStates
    [] relation = "proxies" -> ProxyStates
    [] relation = "assignments" -> WorkStates
    [] relation = "mail" -> MailStates
    [] OTHER -> {"there"}
FirstState ==
  CASE relation = "approvals" -> "PENDING"
    [] relation = "interventions" -> "OPEN"
    [] relation = "proxies" -> "FREE"
    [] relation = "assignments" -> "assigned"
    [] OTHER -> "there"

\* What a call of each kind writes.
StateColumn(k) ==
  /\ k.op = "insert" => k.state = FirstState
  /\ k.op = "decide" => k.state \in {"APPROVED", "REJECTED"}
  /\ k.op = "claim" => k.state = "CLAIMED"
  /\ k.op = "resolve" => k.state = "RESOLVED"
  /\ k.op = "remove" => k.state = "none"
  /\ k.op = "lease" => k.state = "LEASED"
  /\ k.op = "start" => k.state = "in_progress"
  /\ k.op = "complete" => k.state = "completed"
  /\ k.op = "end" => k.state \in {"cancelled", "expired"}
  /\ k.op \in {"recur", "reassign"} => k.state = "assigned"
  /\ k.op \in {"move", "rename", "rotate", "update", "free"} => k.state = Keep
  /\ k.op = "save" => k.state \in {"none", "there"}
SubjectColumn(k) ==
  /\ k.op = "insert" => k.subject \in Subjects
  /\ k.op \notin {"insert", "recur", "move", "update"} => k.subject = Keep
HolderColumn(k) ==
  /\ k.op = "insert" => /\ k.by \in Holders \cup {NoHolder}
                        /\ relation \notin {"assignments", "sites"} => k.by = NoHolder
  /\ k.op \in {"claim", "lease"} => k.by = k.who
  /\ k.op \in {"claim", "lease", "free", "rename"} => k.who \in Holders
  /\ k.op \in {"rename", "reassign", "rotate"} => k.by \in Holders
  /\ k.op = "save" => IF k.state = "there" THEN k.by \in Holders ELSE k.by = Keep
  /\ k.op \notin {"insert", "claim", "lease", "rename", "reassign", "rotate", "save"} => k.by = Keep
CallFits(k) ==
  /\ k.op \in OpsOf \cup {"none"}
  /\ k.op = "none" => k = NoCalls
  /\ k.op \notin {"lease", "free"} => k.also = {}
  /\ k.op = "free" => k.rows = {}
  /\ k.op \notin {"none", "rename", "free", "refresh"} => \E r \in TableRows : k.rows = {r}
  /\ StateColumn(k) /\ SubjectColumn(k) /\ HolderColumn(k)

\* A row is one of its table, and belongs to nobody before somebody has it.
RowFits(x) ==
  /\ x.state \in RowStatesOf \cup {"none"}
  /\ x.state \in {"none", "OPEN", "FREE"} => x.by = NoHolder

\* One call at a time finds what it has read.
SerialIsSafe ==
  serial =>
    /\ relation \notin {"mail", "policies"}
    /\ \A l, m \in Connections : query[l] # NoCalls /\ query[m] # NoCalls => l = m
    /\ \A l \in Connections : query[l] # NoCalls => MayWrite(query[l])

CallsFit == \A l \in Connections : CallFits(query[l])
RowsFit == \A r \in TableRows : RowFits(row[r])

\* The inductive invariant.
TableInv ==
  /\ TableTypeOK /\ CallsFit /\ RowsFit
  /\ relation \in {"sites", "policies"} => ended = {}
  /\ relation = "mail" => told = {}
  /\ SerialIsSafe /\ PromisesKept

TableRecords == [state : RowStates, subject : Subjects, by : Holders \cup Connections \cup {NoHolder}]
QueryRecords == [op : CallKinds, rows : SUBSET TableRows, also : SUBSET TableRows, who : Holders \cup {NoHolder},
                state : RowStates \cup {Keep}, subject : Subjects \cup {Keep},
                by : Holders \cup {NoHolder, Keep}, seen : SUBSET (TableRows \X Holders)]

LEMMA NoCallType == NoCalls \in QueryRecords /\ CallFits(NoCalls)
<1>1. NoCalls \in QueryRecords BY DEF NoCalls, Writing, Command, QueryRecords, CallKinds
<1>2. CallFits(NoCalls) BY DEF NoCalls, Writing, Command, CallFits, StateColumn, SubjectColumn, HolderColumn
<1> QED BY <1>1, <1>2

LEMMA KeepIsNoState ==
  Keep \notin {"none", "there", "PENDING", "OPEN", "FREE", "APPROVED", "REJECTED", "CLAIMED", "RESOLVED", "LEASED",
              "assigned", "in_progress", "completed", "cancelled", "expired"}
  BY KeepAssumption DEF RowStates, ApprovalRowStates, InterventionStates, ProxyStates, WorkStates

\* The rows of a table have its states.
LEMMA TableStates ==
  ASSUME relation \in Tables
  PROVE  RowStatesOf \subseteq RowStates
  BY DEF Tables, RowStatesOf, RowStates

LEMMA StateFits ==
  ASSUME relation \in Tables, NEW k, CallFits(k), k.op # "none"
  PROVE  k.state = Keep \/ k.state \in RowStatesOf \cup {"none"} \/ k.op \in {"mail", "refresh"}
  BY DEF CallFits, StateColumn, OpsOf, Tables, RowStatesOf, FirstState, ApprovalRowStates, InterventionStates,
     ProxyStates, WorkStates

LEMMA WrittenFits ==
  ASSUME TableTypeOK, NEW k \in QueryRecords, CallFits(k), k.op \notin {"none", "mail", "refresh"},
         NEW r \in TableRows, RowFits(row[r])
  PROVE  AsWritten(k, r) \in TableRecords /\ RowFits(AsWritten(k, r))
<1>t. relation \in Tables /\ row[r] \in TableRecords BY DEF TableTypeOK, TableRecords
<1>k. /\ Keep \notin RowStates /\ Keep \notin Subjects \cup Holders \cup Connections \cup {NoHolder}
      /\ "none" # Keep /\ "none" \in RowStates
  BY TableAssumption, KeepAssumption DEF RowStates
<1>1. CASE r \in k.also
  <2>1. k.op \in {"lease", "free"} BY <1>1 DEF CallFits
  <2>2. relation = "proxies" BY <1>t, <2>1 DEF CallFits, OpsOf, Tables
  <2>3. "FREE" \in RowStates BY DEF RowStates, ProxyStates
  <2>4. AsWritten(k, r).state \in {row[r].state, "FREE"} /\ AsWritten(k, r).by = NoHolder
        /\ AsWritten(k, r).subject = row[r].subject /\ AsWritten(k, r) \in TableRecords
    BY <1>1, <1>t, <2>3 DEF AsWritten, TableRecords
  <2> QED BY <2>2, <2>4 DEF RowFits, RowStatesOf, ProxyStates
<1>2. CASE r \notin k.also /\ (r \notin k.rows \/ (row[r].state = "none" /\ k.op \notin {"insert", "save"} /\ k.state # "none"))
  BY <1>2, <1>t DEF AsWritten
<1>3. CASE r \notin k.also /\ r \in k.rows /\ k.state = "none"
  <2>1. NoRow \in TableRecords BY TableAssumption, <1>k DEF NoRow, SomeSubject, TableRecords
  <2> QED BY <1>3, <2>1 DEF AsWritten, RowFits, NoRow
<1>4. CASE r \notin k.also /\ r \in k.rows /\ k.state # "none" /\ (row[r].state # "none" \/ k.op \in {"insert", "save"})
  <2> DEFINE w == [state |-> IF k.state = Keep THEN row[r].state ELSE k.state,
                   subject |-> IF k.subject = Keep THEN row[r].subject ELSE k.subject,
                   by |-> IF k.by = Keep THEN row[r].by ELSE k.by]
  <2>1. AsWritten(k, r) = w BY <1>4 DEF AsWritten
  <2>2. w \in TableRecords BY <1>t, <1>k DEF TableRecords, QueryRecords
  <2>3. w.state \in RowStatesOf \cup {"none"} BY <1>t, <1>4, StateFits DEF RowFits
  <2>4. w.state \in {"none", "OPEN", "FREE"} => w.by = NoHolder
    <3> SUFFICES ASSUME w.state \in {"none", "OPEN", "FREE"} PROVE w.by = NoHolder OBVIOUS
    <3>1. CASE k.state = Keep
      <4>1. k.op \in {"move", "rename", "rotate", "update"}
        BY <1>t, <1>4, <3>1, KeepIsNoState
        DEF CallFits, StateColumn, OpsOf, Tables, FirstState
      <4>2. relation \in {"assignments", "sites"} BY <1>t, <4>1 DEF CallFits, OpsOf, Tables
      <4>3. row[r].state \notin {"none", "OPEN", "FREE"}
        BY <1>4, <4>1, <4>2 DEF RowFits, RowStatesOf, WorkStates
      <4> QED BY <3>1, <4>3
    <3>2. CASE k.state # Keep
      <4>1. k.op = "insert" /\ relation \in {"interventions", "proxies"}
        BY <1>t, <1>4, <3>2 DEF CallFits, StateColumn, OpsOf, Tables, FirstState
      <4>2. k.by = NoHolder BY <4>1 DEF CallFits, HolderColumn
      <4> QED BY <1>k, <4>2
    <3> QED BY <3>1, <3>2
  <2> QED BY <2>1, <2>2, <2>3, <2>4 DEF RowFits
<1> QED BY <1>1, <1>2, <1>3, <1>4

\* What a call writes when it finds what it has read.
LEMMA EndsStayFinal ==
  ASSUME relation \in Tables, NEW k \in QueryRecords, CallFits(k), MayWrite(k), NEW r \in TableRows, RowFits(row[r]),
         row[r].state \in FinalStates
  PROVE  AsWritten(k, r).state \in FinalStates
<1>1. row[r].state \notin LiveStates \cup {"none", "FREE", "there"} BY DEF FinalStates, LiveStates
<1>2. r \notin k.also
  BY <1>1 DEF CallFits, MayWrite, LeasedTo, LiveStates
<1>3. CASE r \notin k.rows BY <1>2, <1>3 DEF AsWritten
<1>4. CASE r \in k.rows /\ k.op = "rename"
  BY <1>1, <1>2, <1>4, KeepIsNoState DEF AsWritten, CallFits, StateColumn
<1>5. CASE r \in k.rows /\ k.op # "rename"
  <2>1. Allows(k, r) BY <1>5 DEF MayWrite
  <2>2. k.op \notin {"none", "mail", "save", "refresh", "free"} BY <2>1 DEF Allows
  <2>3. k.op \in {"rotate", "update"} => row[r].state \in {"none", "there"}
    BY DEF CallFits, OpsOf, RowFits, RowStatesOf, Tables
  <2>4. k.op \in {"insert", "decide", "claim", "resolve", "remove", "lease", "start", "complete", "end", "recur",
                  "reassign", "move", "rotate", "update"}
    BY <1>5, <2>2 DEF QueryRecords, CallKinds
  <2>5. row[r].state \in LiveStates \cup {"none", "FREE", "there"}
    BY <2>1, <2>3, <2>4 DEF Allows, FreeToClaim, Live, LiveStates
  <2> QED BY <1>1, <2>5
<1> QED BY <1>3, <1>4, <1>5

\* Rows of one table are in each other's way when both are open for one subject, and where it
\* counts, for one holder.
LEMMA ClashOfRows ==
  ASSUME relation \in Tables, NEW x, NEW y, RowFits(x), RowFits(y)
  PROVE  ClashesWith(x, y) <=> /\ x.state \in LiveStates /\ y.state \in LiveStates /\ x.subject = y.subject
                               /\ relation \in {"proxies", "assignments"} => x.by = y.by
<1>1. CASE relation \in {"proxies", "assignments"}
  BY <1>1 DEF RowFits, RowStatesOf, ClashesWith, LiveStates, ProxyStates, WorkStates
<1>2. CASE relation \notin {"proxies", "assignments"}
  <2>1. x.state \notin {"LEASED", "assigned", "in_progress"} /\ y.state \notin {"LEASED", "assigned", "in_progress"}
    BY <1>2 DEF RowFits, RowStatesOf, Tables, ApprovalRowStates, InterventionStates, MailStates
  <2> QED BY <1>2, <2>1 DEF ClashesWith
<1> QED BY <1>1, <1>2

LEMMA CallsHoldTheirOps ==
  ASSUME relation \in Tables, NEW k, CallFits(k)
  PROVE  /\ k.op \in {"lease", "free", "remove"} => relation = "proxies"
         /\ k.op \in {"start", "complete", "end", "recur", "reassign", "move", "rename"} => relation = "assignments"
         /\ k.op \in {"rotate", "update"} => relation = "sites"
         /\ k.op = "decide" => relation = "approvals"
         /\ k.op \in {"claim", "resolve"} => relation = "interventions"
         /\ k.op = "mail" => relation = "mail"
         /\ k.op \in {"save", "refresh"} => relation = "policies"
         /\ k.op = "insert" => relation \notin {"mail", "policies"}
  BY DEF CallFits, OpsOf, Tables

LEMMA OneEachStays ==
  ASSUME TableTypeOK, NEW k \in QueryRecords, CallFits(k), k.op \notin {"none", "mail", "refresh", "save"}, MayWrite(k),
         RowsFit, OneEach,
         NEW p \in TableRows, NEW q \in TableRows, p # q
  PROVE  ~ClashesWith(AsWritten(k, p), AsWritten(k, q))
<1> DEFINE Now(r) == AsWritten(k, r)
           Same(r) == Now(r).state \in LiveStates =>
                        /\ row[r].state \in LiveStates /\ Now(r).subject = row[r].subject
                        /\ relation \in {"proxies", "assignments"} => Now(r).by = row[r].by
<1>t. relation \in Tables BY DEF TableTypeOK
<1>f. \A r \in TableRows : RowFits(Now(r)) BY WrittenFits DEF RowsFit
<1>o. \A r, s \in TableRows : r # s => ~ClashesWith(row[r], row[s]) BY DEF OneEach
<1>1. ASSUME NEW r \in TableRows, NEW s \in TableRows, r # s, Same(r), Same(s) PROVE ~ClashesWith(Now(r), Now(s))
  BY <1>t, <1>f, <1>o, <1>1, ClashOfRows DEF RowsFit
<1>2. CASE k.op \in {"decide", "claim", "resolve", "remove", "start", "complete", "end", "rotate", "update", "free"}
  <2>1. ASSUME NEW r \in TableRows PROVE Same(r)
    <3>1. CASE r \notin k.rows /\ r \notin k.also BY <3>1 DEF AsWritten
    <3>2. CASE r \in k.also
      <4>1. Now(r).state \in {"none", "FREE"} \/ (row[r].state = "none" /\ Now(r).state = "none")
        BY <3>2 DEF AsWritten
      <4> QED BY <4>1 DEF LiveStates
    <3>3. CASE r \in k.rows /\ r \notin k.also
      <4>1. Allows(k, r) BY <3>3 DEF MayWrite
      <4>2. k.op # "free" BY <3>3 DEF CallFits
      <4>3. CASE k.op \in {"resolve", "remove", "complete", "end"}
        BY <3>3, <4>3, KeepIsNoState DEF AsWritten, NoRow, CallFits, StateColumn, LiveStates
      <4>4. CASE k.op = "decide"
        BY <1>t, <3>3, <4>1, <4>4, KeepIsNoState, CallsHoldTheirOps
        DEF Allows, AsWritten, CallFits, StateColumn, SubjectColumn, LiveStates
      <4>5. CASE k.op = "claim"
        BY <1>t, <3>3, <4>1, <4>5, KeepIsNoState, CallsHoldTheirOps
        DEF Allows, FreeToClaim, AsWritten, CallFits, StateColumn, SubjectColumn, LiveStates
      <4>6. CASE k.op = "start"
        BY <1>t, <3>3, <4>1, <4>6, KeepIsNoState
        DEF Allows, AsWritten, CallFits, StateColumn, SubjectColumn, HolderColumn, LiveStates
      <4>7. CASE k.op \in {"rotate", "update"}
        <5>1. row[r].state \in {"none", "there"}
          BY <1>t, <4>7, CallsHoldTheirOps DEF RowsFit, RowFits, RowStatesOf
        <5>2. Now(r).state = row[r].state
          BY <3>3, <4>7, KeepIsNoState DEF AsWritten, CallFits, StateColumn
        <5> QED BY <5>1, <5>2 DEF LiveStates
      <4> QED BY <1>2, <4>2, <4>3, <4>4, <4>5, <4>6, <4>7
    <3> QED BY <3>1, <3>2, <3>3
  <2> QED BY <1>1, <2>1
<1>3. CASE k.op \in {"insert", "recur", "reassign", "move"}
  <2>1. PICK x \in TableRows : k.rows = {x} BY <1>3 DEF CallFits
  <2>2. k.also = {} BY <1>3 DEF CallFits
  <2>3. \A r \in TableRows \ {x} : Now(r) = row[r] BY <2>1, <2>2 DEF AsWritten
  <2>4. Fits(k, x) BY <1>3, <2>1 DEF MayWrite, Allows
  <2>5. \A r \in TableRows \ {x} : ~ClashesWith(row[r], Now(x)) BY <2>4 DEF Fits
  <2> QED BY <1>o, <2>3, <2>5 DEF ClashesWith
<1>4. CASE k.op = "lease"
  <2>1. PICK x \in TableRows : k.rows = {x} BY <1>4 DEF CallFits
  <2>2. relation = "proxies" BY <1>t, <1>4, CallsHoldTheirOps
  <2>3. k.also = LeasedTo(k.who) \ {x} BY <1>4, <2>1 DEF MayWrite
  <2>4. Now(x).state = "LEASED" /\ Now(x).by = k.who
    <3>1. row[x].state \in {"FREE", "LEASED"} BY <1>4, <2>1 DEF MayWrite, Allows
    <3>2. k.who \in Holders /\ k.by = k.who /\ k.state = "LEASED" BY <1>4 DEF CallFits, StateColumn, HolderColumn
    <3> QED BY <2>1, <2>3, <3>1, <3>2, TableAssumption, KeepIsNoState DEF AsWritten
  <2>5. \A r \in TableRows \ {x} : Now(r).state # "LEASED" \/ (Now(r) = row[r] /\ row[r].by # k.who)
    BY <2>1, <2>3 DEF AsWritten, LeasedTo
  <2>6. \A r \in TableRows : RowFits(row[r]) /\ (Now(r).state \in LiveStates => Now(r).state = "LEASED")
    BY <2>2, <1>f DEF RowsFit, RowFits, RowStatesOf, ProxyStates, LiveStates
  <2>7. \A r \in TableRows \ {x} : ~ClashesWith(Now(r), Now(x)) /\ ~ClashesWith(Now(x), Now(r))
    BY <1>t, <1>f, <2>2, <2>4, <2>5, <2>6, ClashOfRows
  <2>8. \A r, s \in TableRows \ {x} : r # s => ~ClashesWith(Now(r), Now(s))
    BY <1>t, <1>f, <1>o, <2>5, <2>6, ClashOfRows DEF RowsFit
  <2> QED BY <2>7, <2>8
<1>5. CASE k.op = "rename"
  <2>1. relation = "assignments" BY <1>t, <1>5, CallsHoldTheirOps
  <2>2. /\ k.rows = WorkOf(k.who) /\ WorkOf(k.by) = {} /\ k.also = {} /\ k.state = Keep /\ k.subject = Keep
        /\ k.by \in Holders
    BY <1>5 DEF MayWrite, CallFits, StateColumn, SubjectColumn, HolderColumn
  <2>3. \A r \in TableRows \ k.rows : Now(r) = row[r] /\ (row[r].state \in LiveStates => row[r].by # k.by)
    BY <2>2 DEF AsWritten, WorkOf, LiveStates
  <2>4. \A r \in k.rows : /\ Now(r).state = row[r].state /\ Now(r).subject = row[r].subject
                          /\ Now(r).by = k.by /\ row[r].by = k.who
    BY <2>2, KeepIsNoState, TableAssumption DEF AsWritten, WorkOf
  <2>5. ASSUME NEW r \in TableRows, NEW s \in TableRows, r # s, ClashesWith(Now(r), Now(s)) PROVE FALSE
    <3>1. /\ Now(r).state \in LiveStates /\ Now(s).state \in LiveStates
          /\ Now(r).subject = Now(s).subject /\ Now(r).by = Now(s).by
      BY <1>t, <1>f, <2>1, <2>5, ClashOfRows DEF RowsFit
    <3>2. (r \in k.rows /\ s \in k.rows) \/ (r \notin k.rows /\ s \notin k.rows)
      BY <2>3, <2>4, <3>1
    <3>3. row[r].state \in LiveStates /\ row[s].state \in LiveStates /\ row[r].subject = row[s].subject
          /\ row[r].by = row[s].by
      BY <2>3, <2>4, <3>1, <3>2
    <3> QED BY <1>t, <1>o, <2>1, <2>5, <3>3, ClashOfRows DEF RowsFit
  <2> QED BY <2>5
<1> QED BY <1>2, <1>3, <1>4, <1>5 DEF QueryRecords, CallKinds

\* Who is told that a row is theirs has it, and whose row goes is no longer told so.
LEMMA ToldStaysTrue ==
  ASSUME TableTypeOK, NEW k \in QueryRecords, CallFits(k), k.op \notin {"none", "mail", "refresh", "save"}, MayWrite(k),
         RowsFit, \A t \in told : row[t[1]].by = t[2],
         NEW r \in TableRows, NEW h \in Holders,
         <<r, h>> \in (told \ TakenBy(k)) \cup Tells(k)
  PROVE  AsWritten(k, r).by = h
<1>t. relation \in Tables BY DEF TableTypeOK
<1>h. h # NoHolder /\ h # Keep BY TableAssumption
<1>1. CASE <<r, h>> \in Tells(k)
  <2>1. /\ k.op \in {"insert", "claim", "lease", "reassign", "rename", "rotate"} /\ r \in k.rows /\ h = k.by
    BY <1>1 DEF Tells
  <2>2. r \notin k.also BY <2>1 DEF MayWrite, CallFits
  <2>3. k.state # "none"
    BY <2>1, KeepIsNoState DEF CallFits, StateColumn, FirstState
  <2>4. k.op = "insert" \/ row[r].state # "none"
    BY <2>1 DEF MayWrite, Allows, FreeToClaim, WorkOf, Live, LiveStates
  <2> QED BY <1>h, <2>1, <2>2, <2>3, <2>4 DEF AsWritten
<1>2. CASE <<r, h>> \in told /\ <<r, h>> \notin TakenBy(k)
  <2>1. row[r].by = h BY <1>2
  <2>2. CASE r \in k.also
    <3>1. k.op \in {"lease", "free"} BY <2>2 DEF CallFits
    <3>2. row[r].by = k.who BY <2>2, <3>1 DEF MayWrite, LeasedTo
    <3> QED BY <1>2, <2>1, <2>2, <3>1, <3>2 DEF TakenBy
  <2>3. CASE r \notin k.also /\ r \notin k.rows BY <2>1, <2>3 DEF AsWritten
  <2>4. CASE r \notin k.also /\ r \in k.rows
    <3>1. k.op \notin {"insert", "resolve", "complete", "end", "reassign", "rename", "rotate"}
      BY <1>2, <2>4 DEF TakenBy
    <3>2. k.op # "free" BY <2>4 DEF CallFits
    <3>3. row[r].state \notin {"none", "OPEN", "FREE"} BY <1>h, <2>1 DEF RowsFit, RowFits
    <3>4. Allows(k, r) BY <2>4, <3>1 DEF MayWrite
    <3>5. CASE k.op \in {"decide", "start", "recur", "move", "update"}
      <4>1. k.by = Keep /\ k.state # "none" BY <3>5, KeepIsNoState DEF CallFits, StateColumn, HolderColumn
      <4> QED BY <2>1, <2>4, <3>3, <4>1 DEF AsWritten
    <3>6. CASE k.op \in {"claim", "lease"}
      <4>1. row[r].by = k.who BY <3>3, <3>4, <3>6 DEF Allows, FreeToClaim
      <4>2. k.by = k.who /\ k.state # "none" BY <3>6 DEF CallFits, HolderColumn, StateColumn
      <4> QED BY <1>h, <2>1, <2>4, <3>3, <4>1, <4>2 DEF AsWritten
    <3>7. CASE k.op = "remove" BY <3>3, <3>4, <3>7 DEF Allows
    <3> QED BY <3>1, <3>2, <3>5, <3>6, <3>7 DEF QueryRecords, CallKinds
  <2> QED BY <2>2, <2>3, <2>4
<1> QED BY <1>1, <1>2

\* A phone has one lease, whatever a call finds: the index says so.
LEMMA OneLeaseStays ==
  ASSUME TableTypeOK, relation = "proxies", NEW k \in QueryRecords, CallFits(k), k.op # "none", IndexHolds(k),
         RowsFit, OneEach,
         NEW p \in TableRows, NEW q \in TableRows, p # q
  PROVE  ~ClashesWith(AsWritten(k, p), AsWritten(k, q))
<1> DEFINE Now(r) == AsWritten(k, r)
<1>t. relation \in Tables BY DEF TableTypeOK
<1>k. k.op \in {"insert", "remove", "lease", "free"} BY DEF CallFits, OpsOf
<1>f. \A r \in TableRows : RowFits(Now(r)) /\ (Now(r).state \in LiveStates => Now(r).state = "LEASED")
  BY <1>k, WrittenFits DEF RowsFit, RowFits, RowStatesOf, ProxyStates, LiveStates
<1>o. \A r, s \in TableRows : r # s => ~ClashesWith(row[r], row[s]) BY DEF OneEach
<1>1. CASE k.op # "lease"
  <2>1. \A r \in TableRows : Now(r).state # "LEASED" \/ Now(r) = row[r]
    BY <1>1, <1>k, KeepIsNoState DEF AsWritten, NoRow, CallFits, StateColumn, FirstState
  <2> QED BY <1>t, <1>f, <1>o, <2>1, ClashOfRows DEF RowsFit
<1>2. CASE k.op = "lease"
  <2>1. PICK x \in TableRows : k.rows = {x} BY <1>2 DEF CallFits
  <2>2. LeasedTo(k.who) \subseteq {x} \cup k.also BY <1>2, <2>1 DEF IndexHolds
  <2>3. k.by = k.who /\ k.by # Keep BY <1>2, TableAssumption DEF CallFits, HolderColumn
  <2>4. \A r \in TableRows \ {x} : Now(r).state # "LEASED" \/ (Now(r) = row[r] /\ row[r].by # k.who)
    BY <2>1, <2>2 DEF AsWritten, LeasedTo
  <2>5. Now(x).state = "LEASED" => Now(x).by = k.who
    BY <1>2, <2>1, <2>3 DEF AsWritten, CallFits, StateColumn, NoRow
  <2>6. \A r \in TableRows \ {x} : ~ClashesWith(Now(r), Now(x)) /\ ~ClashesWith(Now(x), Now(r))
    BY <1>t, <1>f, <2>4, <2>5, ClashOfRows DEF RowsFit
  <2>7. \A r, s \in TableRows \ {x} : r # s => ~ClashesWith(Now(r), Now(s))
    BY <1>t, <1>f, <1>o, <2>4, ClashOfRows DEF RowsFit
  <2> QED BY <2>6, <2>7
<1> QED BY <1>1, <1>2

\* What a call may write depends on the rows alone.
LEMMA WritesAlike == ASSUME row' = row PROVE \A k : MayWrite(k)' <=> MayWrite(k)
<1>1. \A k, r : AsWritten(k, r)' = AsWritten(k, r) BY DEF AsWritten
<1>2. \A k, r : Fits(k, r)' <=> Fits(k, r) BY <1>1 DEF Fits, ClashesWith
<1>3. \A k, r : Allows(k, r)' <=> Allows(k, r) BY <1>2 DEF Allows, FreeToClaim, Live
<1>4. \A p : LeasedTo(p)' = LeasedTo(p) /\ WorkOf(p)' = WorkOf(p) BY DEF LeasedTo, WorkOf
<1> QED BY <1>3, <1>4 DEF MayWrite

\* What a call and a row have to be does not change.
LEMMA FitsAlike ==
  ASSUME relation' = relation
  PROVE  /\ \A k : CallFits(k)' <=> CallFits(k)
         /\ \A x : RowFits(x)' <=> RowFits(x)
<1>1. OpsOf' = OpsOf /\ RowStatesOf' = RowStatesOf /\ FirstState' = FirstState BY DEF OpsOf, RowStatesOf, FirstState
<1>2. \A k : CallFits(k)' <=> CallFits(k) BY <1>1 DEF CallFits, StateColumn, SubjectColumn, HolderColumn
<1>3. \A x : RowFits(x)' <=> RowFits(x) BY <1>1 DEF RowFits
<1> QED BY <1>2, <1>3

LEMMA CallsKept ==
  ASSUME TableTypeOK, CallsFit, relation' = relation, NEW l \in Connections, NEW k \in QueryRecords, CallFits(k),
         query' = [query EXCEPT ![l] = k]
  PROVE  query' \in [Connections -> QueryRecords] /\ CallsFit'
<1>1. query \in [Connections -> QueryRecords] BY DEF TableTypeOK, QueryRecords
<1>2. \A m \in Connections : CallFits(query'[m]) BY <1>1 DEF CallsFit
<1> QED BY <1>1, <1>2, FitsAlike DEF CallsFit

LEMMA OthersAreNotSerial ==
  ASSUME TableInv, relation \in {"mail", "policies"} PROVE ~serial
  BY DEF TableInv, SerialIsSafe

LEMMA QuietIsSafe ==
  ASSUME TableInv, UNCHANGED <<relation, serial>>, serial => \A l \in Connections : query'[l] = NoCalls
  PROVE  SerialIsSafe'
  BY DEF TableInv, SerialIsSafe

\* What a call is made of.
LEMMA CommandType ==
  ASSUME NEW op \in CallKinds, NEW rows \in SUBSET TableRows, NEW also \in SUBSET TableRows,
         NEW who \in Holders \cup {NoHolder}, NEW subject \in Subjects \cup {Keep},
         NEW by \in Holders \cup {NoHolder, Keep},
         NEW state \in {"none", "there", "PENDING", "OPEN", "FREE", "APPROVED", "REJECTED", "CLAIMED", "RESOLVED",
                        "LEASED", "assigned", "in_progress", "completed", "cancelled", "expired", Keep}
  PROVE  Command(op, rows, also, who, state, subject, by) \in QueryRecords
<1>1. state \in RowStates \cup {Keep}
  BY DEF RowStates, ApprovalRowStates, InterventionStates, ProxyStates, WorkStates
<1> QED BY <1>1 DEF Command, QueryRecords

\* A call of one row, made by nobody in particular.
LEMMA WritingFits ==
  ASSUME relation \in Tables, NEW r \in TableRows,
         NEW op \in OpsOf \ {"insert", "lease", "free", "rename", "claim", "mail", "save", "refresh"},
         NEW state \in {"none", "APPROVED", "REJECTED", "RESOLVED", "assigned", "in_progress", "completed",
                        "cancelled", "expired", Keep},
         NEW subject \in Subjects \cup {Keep}, NEW by \in Holders \cup {Keep},
         StateColumn(Writing(op, {r}, state, subject, by)),
         subject # Keep => op \in {"recur", "move", "update"},
         IF op \in {"reassign", "rotate"} THEN by \in Holders ELSE by = Keep
  PROVE  /\ Writing(op, {r}, state, subject, by) \in QueryRecords
         /\ CallFits(Writing(op, {r}, state, subject, by))
<1> DEFINE k == Writing(op, {r}, state, subject, by)
<1>1. /\ k.op = op /\ k.rows = {r} /\ k.also = {} /\ k.who = NoHolder /\ k.state = state
      /\ k.subject = subject /\ k.by = by
  BY DEF Writing, Command
<1>2. op \in CallKinds /\ op # "none" BY DEF OpsOf, Tables, CallKinds
<1>3. k \in QueryRecords BY <1>2, CommandType DEF Writing
<1> HIDE DEF k
<1>4. SubjectColumn(k) BY <1>1 DEF SubjectColumn
<1>5. HolderColumn(k) BY <1>1 DEF HolderColumn
<1>6. StateColumn(k) BY DEF k
<1>7. CallFits(k) BY <1>1, <1>2, <1>4, <1>5, <1>6 DEF CallFits
<1> QED BY <1>3, <1>7 DEF k

LEMMA InsertFits ==
  ASSUME relation \in Tables, relation \notin {"mail", "policies"}, NEW r \in TableRows, NEW s \in Subjects,
         NEW h \in Holders \cup {NoHolder}, relation \notin {"assignments", "sites"} => h = NoHolder
  PROVE  Inserts(r, FirstState, s, h) \in QueryRecords /\ CallFits(Inserts(r, FirstState, s, h))
<1> DEFINE k == Inserts(r, FirstState, s, h)
<1>1. /\ k.op = "insert" /\ k.rows = {r} /\ k.also = {} /\ k.state = FirstState /\ k.subject = s /\ k.by = h
  BY DEF Inserts, Writing, Command
<1>2. FirstState \in {"PENDING", "OPEN", "FREE", "assigned", "there"} BY DEF FirstState
<1>3. k \in QueryRecords BY <1>2, CommandType DEF Inserts, Writing, CallKinds
<1> HIDE DEF k
<1>4. "insert" \in OpsOf BY DEF OpsOf, Tables
<1>5. StateColumn(k) /\ SubjectColumn(k) BY <1>1 DEF StateColumn, SubjectColumn
<1>6. HolderColumn(k) BY <1>1 DEF HolderColumn
<1>7. CallFits(k) BY <1>1, <1>4, <1>5, <1>6 DEF CallFits
<1> QED BY <1>3, <1>7 DEF k

\* A call made by somebody.
LEMMA CommandFits ==
  ASSUME relation \in Tables, NEW op \in OpsOf, op \in {"claim", "lease", "free", "rename"},
         NEW rows \in SUBSET TableRows, NEW also \in SUBSET TableRows, NEW who \in Holders,
         NEW by \in Holders \cup {Keep}, NEW state \in {"CLAIMED", "LEASED", Keep},
         op \in {"claim", "lease"} => by = who /\ \E r \in TableRows : rows = {r},
         op \in {"claim", "rename"} => also = {}, op = "free" => rows = {} /\ by = Keep,
         op = "rename" => by \in Holders,
         state = (IF op = "claim" THEN "CLAIMED" ELSE IF op = "lease" THEN "LEASED" ELSE Keep)
  PROVE  /\ Command(op, rows, also, who, state, Keep, by) \in QueryRecords
         /\ CallFits(Command(op, rows, also, who, state, Keep, by))
<1> DEFINE k == Command(op, rows, also, who, state, Keep, by)
<1>1. /\ k.op = op /\ k.rows = rows /\ k.also = also /\ k.who = who /\ k.state = state
      /\ k.subject = Keep /\ k.by = by
  BY DEF Command
<1>2. k \in QueryRecords BY CommandType DEF CallKinds
<1> HIDE DEF k
<1>3. StateColumn(k) /\ SubjectColumn(k) BY <1>1 DEF StateColumn, SubjectColumn
<1>4. HolderColumn(k) BY <1>1 DEF HolderColumn
<1>5. CallFits(k) BY <1>1, <1>3, <1>4 DEF CallFits
<1> QED BY <1>2, <1>5 DEF k

LEMMA CallsOfATable ==
  ASSUME relation \in Tables, NEW k \in CallsOf
  PROVE  k \in QueryRecords /\ CallFits(k)
<1> DEFINE Fine == k \in QueryRecords /\ CallFits(k)
<1>s. SomeSubject \in Subjects BY TableAssumption DEF SomeSubject
<1>w. ASSUME NEW op \in OpsOf, NEW r \in TableRows, NEW state,
             k = Writing(op, {r}, state, Keep, Keep),
             \/ op = "decide" /\ state \in {"APPROVED", "REJECTED"}
             \/ op = "resolve" /\ state = "RESOLVED"
             \/ op = "remove" /\ state = "none"
             \/ op = "start" /\ state = "in_progress"
             \/ op = "complete" /\ state = "completed"
             \/ op = "end" /\ state \in {"cancelled", "expired"}
      PROVE  Fine
  <2>1. StateColumn(k) BY <1>w DEF StateColumn, Writing, Command
  <2> QED BY <1>w, <2>1, WritingFits
<1>1. CASE relation = "approvals"
  <2>1. k \in ApprovalCalls BY <1>1 DEF CallsOf
  <2>2. CASE \E r \in TableRows, s \in Subjects : k = Inserts(r, "PENDING", s, NoHolder)
    BY <1>1, <2>2, InsertFits DEF FirstState
  <2>3. ASSUME NEW r \in TableRows, NEW to \in {"APPROVED", "REJECTED"}, k = Writing("decide", {r}, to, Keep, Keep) PROVE Fine
    BY <1>1, <1>w, <2>3 DEF OpsOf
  <2>4. \/ \E r \in TableRows, s \in Subjects : k = Inserts(r, "PENDING", s, NoHolder)
        \/ \E r \in TableRows, to \in {"APPROVED", "REJECTED"} : k = Writing("decide", {r}, to, Keep, Keep)
    BY <2>1 DEF ApprovalCalls, Inserts, Writing, Command
  <2> QED BY <2>2, <2>3, <2>4
<1>2. CASE relation = "interventions"
  <2>1. k \in InterventionCalls BY <1>2 DEF CallsOf
  <2>2. CASE \E r \in TableRows, s \in Subjects : k = Inserts(r, "OPEN", s, NoHolder)
    BY <1>2, <2>2, InsertFits DEF FirstState
  <2>3. ASSUME NEW r \in TableRows, NEW p \in Holders,
               k = Command("claim", {r}, {}, p, "CLAIMED", Keep, p)
        PROVE  Fine
    BY <1>2, <2>3, CommandFits DEF OpsOf
  <2>4. ASSUME NEW r \in TableRows, k = Writing("resolve", {r}, "RESOLVED", Keep, Keep) PROVE Fine
    BY <1>2, <1>w, <2>4 DEF OpsOf
  <2> QED BY <2>1, <2>2, <2>3, <2>4 DEF InterventionCalls, Inserts, Writing, Command
<1>3. CASE relation = "proxies"
  <2>1. k \in ProxyCalls BY <1>3 DEF CallsOf
  <2>2. CASE \E r \in TableRows : k = Inserts(r, "FREE", SomeSubject, NoHolder)
    BY <1>3, <1>s, <2>2, InsertFits DEF FirstState
  <2>3. ASSUME NEW r \in TableRows, k = Writing("remove", {r}, "none", Keep, Keep) PROVE Fine
    BY <1>3, <1>w, <2>3 DEF OpsOf
  <2>4. ASSUME NEW r \in TableRows, NEW d \in Holders,
               k = Command("lease", {r}, LeasedTo(d) \ {r}, d, "LEASED", Keep, d)
        PROVE  Fine
    BY <1>3, <2>4, CommandFits DEF OpsOf, LeasedTo
  <2>5. ASSUME NEW d \in Holders, k = Command("free", {}, LeasedTo(d), d, Keep, Keep, Keep) PROVE Fine
    BY <1>3, <2>5, CommandFits DEF OpsOf, LeasedTo
  <2> QED BY <2>1, <2>2, <2>3, <2>4, <2>5 DEF ProxyCalls, Inserts, Writing, Command
<1>4. CASE relation = "assignments"
  <2>1. k \in AssignmentCalls BY <1>4 DEF CallsOf
  <2>2. CASE \E r \in TableRows, s \in Subjects, p \in Holders : k = Inserts(r, "assigned", s, p)
    BY <1>4, <2>2, InsertFits DEF FirstState
  <2>3. ASSUME NEW r \in TableRows,
               \/ k = Writing("start", {r}, "in_progress", Keep, Keep)
               \/ k = Writing("complete", {r}, "completed", Keep, Keep)
        PROVE  Fine
    BY <1>4, <1>w, <2>3 DEF OpsOf
  <2>4. ASSUME NEW r \in TableRows, NEW to \in {"cancelled", "expired"}, k = Writing("end", {r}, to, Keep, Keep) PROVE Fine
    BY <1>4, <1>w, <2>4 DEF OpsOf
  <2>5. CASE \E r \in TableRows, s \in Subjects : k = Writing("recur", {r}, "assigned", s, Keep)
    <3>1. StateColumn(k) BY <2>5 DEF StateColumn, Writing, Command
    <3> QED BY <1>4, <2>5, <3>1, WritingFits DEF OpsOf
  <2>6. CASE \E r \in TableRows, p \in Holders : k = Writing("reassign", {r}, "assigned", Keep, p)
    <3>1. StateColumn(k) BY <2>6 DEF StateColumn, Writing, Command
    <3> QED BY <1>4, <2>6, <3>1, WritingFits DEF OpsOf
  <2>7. CASE \E r \in TableRows, s \in Subjects : k = Writing("move", {r}, Keep, s, Keep)
    <3>1. StateColumn(k) BY <2>7 DEF StateColumn, Writing, Command
    <3> QED BY <1>4, <2>7, <3>1, WritingFits DEF OpsOf
  <2>8. ASSUME NEW p \in Holders, NEW q \in Holders, k = Command("rename", WorkOf(p), {}, p, Keep, Keep, q)
        PROVE  Fine
    BY <1>4, <2>8, CommandFits DEF OpsOf, WorkOf
  <2> QED BY <2>1, <2>2, <2>3, <2>4, <2>5, <2>6, <2>7, <2>8 DEF AssignmentCalls, Inserts, Writing, Command
<1>5. CASE relation = "sites"
  <2>1. k \in SiteRowCalls BY <1>5 DEF CallsOf
  <2>2. CASE \E r \in TableRows, h \in Holders : k = Inserts(r, "there", SomeSubject, h)
    BY <1>5, <1>s, <2>2, InsertFits DEF FirstState
  <2>3. CASE \E r \in TableRows, h \in Holders : k = Writing("rotate", {r}, Keep, Keep, h)
    <3>1. StateColumn(k) BY <2>3 DEF StateColumn, Writing, Command
    <3> QED BY <1>5, <2>3, <3>1, WritingFits DEF OpsOf
  <2>4. CASE \E r \in TableRows, s \in Subjects : k = Writing("update", {r}, Keep, s, Keep)
    <3>1. StateColumn(k) BY <2>4 DEF StateColumn, Writing, Command
    <3> QED BY <1>5, <2>4, <3>1, WritingFits DEF OpsOf
  <2> QED BY <2>1, <2>2, <2>3, <2>4 DEF SiteRowCalls, Inserts, Writing, Command
<1>6. CASE relation \in {"mail", "policies"} BY <1>6 DEF CallsOf
<1> QED BY <1>1, <1>2, <1>3, <1>4, <1>5, <1>6 DEF Tables

LEMMA CountType == ASSUME called \in 0..MaxTableCalls, Count PROVE called' \in 0..MaxTableCalls
  BY TableAssumption DEF Count

\* The promises are about the rows, what was told, and the writes under way.
LEMMA PromisesAlike ==
  ASSUME PromisesKept, UNCHANGED <<relation, serial, row, told, ended, overtaken>>,
         relation = "policies" =>
           \A l \in Connections : query[l].op = "save" => query'[l].op = "save" /\ query'[l].rows = query[l].rows
  PROVE  PromisesKept'
<1>1. EndsAreFinal => EndsAreFinal' BY DEF EndsAreFinal
<1>2. OneEach => OneEach' BY DEF OneEach, ClashesWith
<1>3. ToldIsTrue => ToldIsTrue' BY DEF ToldIsTrue
<1>4. MapIsSaved => MapIsSaved' BY DEF MapIsSaved
<1> QED BY <1>1, <1>2, <1>3, <1>4 DEF PromisesKept

LEMMA ReadsLemma == ASSUME TableInv, NEW l \in Connections, CallReads(l) PROVE TableInv'
<1>t. TableTypeOK /\ CallsFit /\ relation \in Tables BY DEF TableInv, TableTypeOK
<1>1. PICK k \in CallsOf : MayWrite(k) /\ query' = [query EXCEPT ![l] = k] BY DEF CallReads
<1>2. k \in QueryRecords /\ CallFits(k) BY <1>t, <1>1, CallsOfATable
<1>3. UNCHANGED <<relation, serial, row, told, ended, overtaken>> /\ query[l] = NoCalls BY DEF CallReads
<1>4. query' \in [Connections -> QueryRecords] /\ CallsFit' BY <1>t, <1>1, <1>2, <1>3, CallsKept
<1>5. called' \in 0..MaxTableCalls BY <1>t, CountType DEF CallReads, TableTypeOK
<1>6. TableTypeOK' BY <1>t, <1>3, <1>4, <1>5 DEF TableTypeOK, QueryRecords
<1>7. RowsFit' BY <1>3, FitsAlike DEF TableInv, RowsFit
<1>8. SerialIsSafe'
  <2> SUFFICES ASSUME serial PROVE SerialIsSafe' BY <1>3 DEF SerialIsSafe
  <2>1. \A m \in Connections : query[m] = NoCalls BY DEF CallReads, Alone
  <2>2. \A m \in Connections : m # l => query'[m] = NoCalls BY <1>1, <2>1, <1>t DEF TableTypeOK
  <2>3. query'[l] = k BY SMTT(30), <1>1, <1>t DEF TableTypeOK
  <2>4. MayWrite(k)'
    BY <1>1, <1>3 DEF MayWrite, Allows, Fits, ClashesWith, AsWritten, FreeToClaim, Live, LeasedTo, WorkOf
  <2> QED BY <1>3, <2>2, <2>3, <2>4 DEF TableInv, SerialIsSafe
<1>9. PromisesKept'
  <2>1. \A m \in Connections : query[m].op = "save" => query'[m] = query[m]
    BY <1>1, <1>3, <1>t DEF TableTypeOK, NoCalls, Writing, Command
  <2> QED BY <1>3, <2>1, PromisesAlike DEF TableInv
<1> QED BY <1>3, <1>4, <1>6, <1>7, <1>8, <1>9 DEF TableInv

LEMMA WritesLemma == ASSUME TableInv, NEW l \in Connections, CallWrites(l) PROVE TableInv'
<1> DEFINE k == query[l]
<1>t. /\ TableTypeOK /\ CallsFit /\ RowsFit /\ SerialIsSafe /\ PromisesKept /\ relation \in Tables
      /\ (relation \in {"sites", "policies"} => ended = {}) /\ ended \subseteq TableRows /\ told \subseteq TableRows \X Holders
  BY DEF TableInv, TableTypeOK
<1>k. k \in QueryRecords /\ CallFits(k) BY <1>t DEF TableTypeOK, QueryRecords, CallsFit
<1>o. k.op \notin {"none", "mail", "save", "refresh"} /\ IndexHolds(k) BY DEF CallWrites
<1>c. /\ row' = [r \in TableRows |-> AsWritten(k, r)] /\ told' = (told \ TakenBy(k)) \cup Tells(k)
      /\ ended' = ended \cup {r \in TableRows : AsWritten(k, r).state \in FinalStates}
      /\ overtaken' = (overtaken \/ ~MayWrite(k)) /\ query' = [query EXCEPT ![l] = NoCalls]
      /\ UNCHANGED <<relation, serial, called>>
  BY DEF CallWrites
<1> HIDE DEF k
<1>1. relation \notin {"mail", "policies"} BY <1>k, <1>o DEF CallFits, OpsOf
<1>2. \A r \in TableRows : AsWritten(k, r) \in TableRecords /\ RowFits(AsWritten(k, r))
  BY <1>t, <1>k, <1>o, WrittenFits DEF RowsFit
<1>3. row' \in [TableRows -> TableRecords] /\ RowsFit' BY <1>2, <1>c, FitsAlike DEF RowsFit
<1>4. query' \in [Connections -> QueryRecords] /\ CallsFit' BY <1>t, <1>c, NoCallType, CallsKept
<1>5. told' \subseteq TableRows \X Holders BY <1>t, <1>c DEF Tells
<1>6. ended' \subseteq TableRows BY <1>t, <1>c
<1>7. TableTypeOK'
  <2>1. overtaken' \in BOOLEAN BY <1>c, <1>t DEF TableTypeOK
  <2> QED BY <1>t, <1>c, <1>3, <1>4, <1>5, <1>6, <2>1 DEF TableTypeOK, QueryRecords, TableRecords
<1>8. relation = "sites" => ended' = {}
  <2> SUFFICES ASSUME relation = "sites" PROVE ended' = {} OBVIOUS
  <2>1. \A r \in TableRows : AsWritten(k, r).state \in {"none", "there"} BY <1>2 DEF RowFits, RowStatesOf
  <2> QED BY <1>t, <1>c, <2>1 DEF FinalStates
<1>9. query[l] # NoCalls BY <1>o DEF k, NoCalls, Writing, Command
<1>10. SerialIsSafe'
  <2>1. serial => \A m \in Connections \ {l} : query[m] = NoCalls BY <1>t, <1>9 DEF SerialIsSafe
  <2>2. serial => \A m \in Connections : query'[m] = NoCalls BY <1>t, <1>c, <2>1 DEF TableTypeOK
  <2> QED BY <1>c, <2>2, QuietIsSafe
<1>11. serial => MayWrite(k) BY <1>t, <1>9 DEF SerialIsSafe, k
<1>12. PromisesKept'
  <2>1. serial => ~overtaken' BY <1>t, <1>c, <1>11 DEF PromisesKept
  <2>2. ASSUME ~overtaken' PROVE EndsAreFinal' /\ OneEach' /\ ToldIsTrue' /\ MapIsSaved'
    <3>1. MayWrite(k) /\ EndsAreFinal /\ OneEach /\ ToldIsTrue BY <1>t, <1>c, <2>2 DEF PromisesKept
    <3>2. EndsAreFinal'
      <4>1. \A r \in ended : AsWritten(k, r).state \in FinalStates
        BY <1>t, <1>k, <3>1, EndsStayFinal DEF RowsFit, EndsAreFinal
      <4> QED BY <1>c, <1>6, <4>1 DEF EndsAreFinal
    <3>3. OneEach'
      <4>1. \A p, q \in TableRows : p # q => ~ClashesWith(AsWritten(k, p), AsWritten(k, q))
        BY <1>t, <1>k, <1>o, <3>1, OneEachStays
      <4> QED BY <1>c, <4>1 DEF OneEach, ClashesWith
    <3>4. ToldIsTrue'
      <4>1. \A t \in told : row[t[1]].by = t[2] BY <1>1, <3>1 DEF ToldIsTrue
      <4>2. \A r \in TableRows, h \in Holders :
              <<r, h>> \in (told \ TakenBy(k)) \cup Tells(k) => AsWritten(k, r).by = h
        BY <1>t, <1>k, <1>o, <3>1, <4>1, ToldStaysTrue
      <4>3. \A t \in told' : row'[t[1]].by = t[2] BY <1>c, <1>5, <4>2
      <4> QED BY <4>3 DEF ToldIsTrue
    <3>5. MapIsSaved' BY <1>1, <1>c DEF MapIsSaved
    <3> QED BY <3>2, <3>3, <3>4, <3>5
  <2>3. relation = "proxies" => OneEach'
    <3> SUFFICES ASSUME relation = "proxies" PROVE OneEach' OBVIOUS
    <3>1. OneEach BY <1>t DEF PromisesKept
    <3>2. \A p, q \in TableRows : p # q => ~ClashesWith(AsWritten(k, p), AsWritten(k, q))
      BY <1>t, <1>k, <1>o, <3>1, OneLeaseStays
    <3> QED BY <1>c, <3>2 DEF OneEach, ClashesWith
  <2> QED BY <1>1, <1>c, <2>1, <2>2, <2>3 DEF PromisesKept
<1> QED BY <1>1, <1>3, <1>4, <1>7, <1>8, <1>10, <1>12, <1>c DEF TableInv

LEMMA FailsLemma == ASSUME TableInv, NEW l \in Connections, CallFails(l) PROVE TableInv'
<1>t. TableTypeOK /\ CallsFit /\ RowsFit /\ SerialIsSafe /\ PromisesKept BY DEF TableInv
<1>c. /\ query' = [query EXCEPT ![l] = NoCalls] /\ query[l].op \notin {"none", "save"}
      /\ UNCHANGED <<relation, serial, row, called, told, ended, overtaken>>
  BY DEF CallFails
<1>1. query' \in [Connections -> QueryRecords] /\ CallsFit' BY <1>t, <1>c, NoCallType, CallsKept
<1>2. TableTypeOK' BY <1>t, <1>c, <1>1 DEF TableTypeOK, QueryRecords
<1>3. RowsFit' BY <1>t, <1>c, FitsAlike DEF RowsFit
<1>4. query[l] # NoCalls BY <1>c DEF NoCalls, Writing, Command
<1>5. SerialIsSafe'
  <2>1. serial => \A m \in Connections \ {l} : query[m] = NoCalls BY <1>t, <1>4 DEF SerialIsSafe
  <2>2. serial => \A m \in Connections : query'[m] = NoCalls BY <1>t, <1>c, <2>1 DEF TableTypeOK
  <2> QED BY <1>c, <2>2, QuietIsSafe
<1>6. \A m \in Connections : query[m].op = "save" => query'[m] = query[m] BY <1>t, <1>c DEF TableTypeOK
<1>7. PromisesKept' BY <1>t, <1>c, <1>6, PromisesAlike
<1> QED BY <1>1, <1>2, <1>3, <1>5, <1>7, <1>c DEF TableInv

\* A statement that ends or moves on what it finds, and gives nothing to anybody.
LEMMA StatementLemma ==
  ASSUME TableInv, NEW rows \in SUBSET TableRows, NEW from, NEW to, Statement(rows, from, to),
         relation \notin {"sites", "policies"}, from \cap FinalStates = {}, to \in RowStatesOf,
         to \notin LiveStates \cup {"none", "OPEN", "FREE"}, told' \subseteq told
  PROVE  TableInv'
<1>t. /\ TableTypeOK /\ CallsFit /\ RowsFit /\ SerialIsSafe /\ PromisesKept /\ relation \in Tables
      /\ row \in [TableRows -> TableRecords]
      /\ ended \subseteq TableRows /\ told \subseteq TableRows \X Holders /\ (relation = "mail" => told = {})
  BY DEF TableInv, TableTypeOK, TableRecords
<1>c. /\ row' = [r \in TableRows |-> IF r \in rows THEN [row[r] EXCEPT !.state = to] ELSE row[r]]
      /\ ended' = (IF to \in FinalStates THEN ended \cup rows ELSE ended)
      /\ UNCHANGED <<relation, serial, query, called, overtaken>> /\ Alone
      /\ \A r \in rows : row[r].state \in from
  BY DEF Statement
<1>1. to \in RowStates BY <1>t, TableStates
<1>2. \A r \in TableRows : /\ row'[r] \in TableRecords /\ row'[r].by = row[r].by /\ row'[r].subject = row[r].subject
                           /\ row'[r].state = IF r \in rows THEN to ELSE row[r].state
  BY <1>t, <1>c, <1>1 DEF TableRecords
<1>3. TableTypeOK'
  <2>1. row' \in [TableRows -> TableRecords] BY <1>c, <1>2
  <2>2. ended' \subseteq TableRows BY <1>t, <1>c
  <2> QED BY <1>t, <1>c, <2>1, <2>2 DEF TableTypeOK, TableRecords
<1>4. CallsFit' BY <1>t, <1>c, FitsAlike DEF CallsFit
<1>5. RowsFit'
  <2>1. \A r \in TableRows : RowFits(row'[r]) BY <1>t, <1>2 DEF RowsFit, RowFits
  <2> QED BY <2>1, <1>c, FitsAlike DEF RowsFit
<1>6. SerialIsSafe' BY <1>c, QuietIsSafe DEF Alone
<1>7. EndsAreFinal => EndsAreFinal'
  <2> SUFFICES ASSUME EndsAreFinal PROVE EndsAreFinal' OBVIOUS
  <2>1. \A r \in ended : r \in TableRows \ rows BY <1>t, <1>c DEF EndsAreFinal
  <2>2. \A r \in ended' : row'[r].state \in FinalStates BY <1>c, <1>2, <2>1 DEF EndsAreFinal
  <2> QED BY <2>2 DEF EndsAreFinal
<1>8. OneEach => OneEach'
  <2> SUFFICES ASSUME OneEach, NEW p \in TableRows, NEW q \in TableRows, q # p PROVE ~ClashesWith(row'[p], row'[q])
    BY DEF OneEach, ClashesWith
  <2>1. ~ClashesWith(row[p], row[q]) BY DEF OneEach
  <2>2. CASE p \in rows \/ q \in rows BY <1>2, <2>2 DEF ClashesWith
  <2>3. CASE p \notin rows /\ q \notin rows BY <1>c, <2>1, <2>3
  <2> QED BY <2>2, <2>3
<1>9. ToldIsTrue => ToldIsTrue' BY <1>t, <1>c, <1>2 DEF ToldIsTrue
<1>10. PromisesKept' BY <1>t, <1>c, <1>7, <1>8, <1>9 DEF PromisesKept, MapIsSaved
<1> QED BY <1>t, <1>c, <1>3, <1>4, <1>5, <1>6, <1>10 DEF TableInv

LEMMA ApprovalStatementLemma == ASSUME TableInv, NEW r \in TableRows, ApprovalStatement(r) PROVE TableInv'
<1>1. relation = "approvals" /\ told' \subseteq told BY DEF ApprovalStatement
<1>2. {"APPROVED"} \cap FinalStates = {} /\ {"PENDING", "APPROVED"} \cap FinalStates = {} BY DEF FinalStates
<1>3. /\ {"CONSUMED", "EXPIRED"} \subseteq RowStatesOf
      /\ {"CONSUMED", "EXPIRED"} \cap (LiveStates \cup {"none", "OPEN", "FREE"}) = {}
  BY <1>1 DEF RowStatesOf, ApprovalRowStates, LiveStates
<1>4. CASE Consume(r) BY <1>1, <1>2, <1>3, <1>4, StatementLemma DEF Consume
<1>5. CASE Statement({r}, {"PENDING", "APPROVED"}, "EXPIRED") BY <1>1, <1>2, <1>3, <1>5, StatementLemma
<1> QED BY <1>4, <1>5 DEF ApprovalStatement

LEMMA TaskMovesOnLemma == ASSUME TableInv, NEW s \in Subjects, TaskMovesOn(s) PROVE TableInv'
<1> DEFINE rows == {r \in TableRows : row[r].state \in {"OPEN", "CLAIMED"} /\ row[r].subject = s}
<1>1. relation = "interventions" /\ told' \subseteq told /\ Statement(rows, {"OPEN", "CLAIMED"}, "RESOLVED")
  BY DEF TaskMovesOn
<1>2. {"OPEN", "CLAIMED"} \cap FinalStates = {} BY DEF FinalStates
<1>3. "RESOLVED" \in RowStatesOf /\ "RESOLVED" \notin LiveStates \cup {"none", "OPEN", "FREE"}
  BY <1>1 DEF RowStatesOf, InterventionStates, LiveStates
<1>4. rows \in SUBSET TableRows OBVIOUS
<1> HIDE DEF rows
<1> QED BY <1>1, <1>2, <1>3, <1>4, StatementLemma

LEMMA MailStatementLemma == ASSUME TableInv, NEW r \in TableRows, MailStatement(r) PROVE TableInv'
<1>1. relation = "mail" /\ told' \subseteq told BY DEF MailStatement
<1>2. PICK move \in MailMoves : Statement({r}, move[1], move[2]) BY DEF MailStatement
<1>3. move[1] \cap FinalStates = {} BY DEF MailMoves, FinalStates
<1>4. move[2] \in RowStatesOf /\ move[2] \notin LiveStates \cup {"none", "OPEN", "FREE"}
  BY <1>1 DEF MailMoves, RowStatesOf, MailStates, LiveStates
<1> QED BY <1>1, <1>2, <1>3, <1>4, StatementLemma

LEMMA SiteRemovedLemma == ASSUME TableInv, NEW r \in TableRows, SiteRemoved(r) PROVE TableInv'
<1>t. /\ TableTypeOK /\ CallsFit /\ RowsFit /\ SerialIsSafe /\ PromisesKept /\ row \in [TableRows -> TableRecords]
      /\ (relation = "sites" => ended = {})
  BY DEF TableInv, TableTypeOK, TableRecords
<1>c. /\ row' = [row EXCEPT ![r] = NoRow] /\ told' = told \ ({r} \X Holders) /\ relation = "sites" /\ Alone
      /\ UNCHANGED <<relation, serial, query, called, ended, overtaken>>
  BY DEF SiteRemoved
<1>1. NoRow \in TableRecords /\ RowFits(NoRow)
  BY TableAssumption DEF NoRow, SomeSubject, TableRecords, RowFits, RowStates
<1>2. \A q \in TableRows : row'[q] = IF q = r THEN NoRow ELSE row[q] BY <1>t, <1>c
<1>3. TableTypeOK'
  <2>1. row' \in [TableRows -> TableRecords] BY <1>t, <1>c, <1>1
  <2> QED BY <1>t, <1>c, <2>1 DEF TableTypeOK, TableRecords
<1>4. CallsFit' BY <1>t, <1>c, FitsAlike DEF CallsFit
<1>5. RowsFit' BY <1>t, <1>1, <1>2, <1>c, FitsAlike DEF RowsFit
<1>6. SerialIsSafe' BY <1>c, QuietIsSafe DEF Alone
<1>7. EndsAreFinal' BY <1>t, <1>c DEF EndsAreFinal
<1>8. OneEach => OneEach'
  <2> SUFFICES ASSUME OneEach, NEW p \in TableRows, NEW q \in TableRows, q # p PROVE ~ClashesWith(row'[p], row'[q])
    BY DEF OneEach, ClashesWith
  <2>1. ~ClashesWith(row[p], row[q]) BY DEF OneEach
  <2>2. CASE p = r \/ q = r BY <1>2, <2>2 DEF ClashesWith, NoRow, LiveStates
  <2>3. CASE p # r /\ q # r BY <1>2, <2>1, <2>3
  <2> QED BY <2>2, <2>3
<1>9. ToldIsTrue => ToldIsTrue'
  <2>1. told \subseteq TableRows \X Holders BY <1>t DEF TableTypeOK
  <2>2. \A t \in told' : t \in told /\ t[1] # r /\ t[1] \in TableRows BY <1>c, <2>1
  <2> QED BY <1>c, <1>2, <2>2 DEF ToldIsTrue
<1>10. PromisesKept' BY <1>t, <1>c, <1>7, <1>8, <1>9 DEF PromisesKept, MapIsSaved
<1> QED BY <1>t, <1>c, <1>3, <1>4, <1>5, <1>6, <1>10 DEF TableInv

LEMMA MailClaimedLemma == ASSUME TableInv, NEW l \in Connections, NEW r \in TableRows, MailClaimed(l, r) PROVE TableInv'
<1> DEFINE k == Writing("mail", {r}, Keep, Keep, Keep)
<1>c. /\ relation = "mail" /\ query[l] = NoCalls /\ Count
      /\ row[r].state \in {"queued", "retry", "failed", "sending"}
      /\ row' = [row EXCEPT ![r].state = "sending", ![r].by = l] /\ query' = [query EXCEPT ![l] = k]
      /\ UNCHANGED <<relation, serial, told, ended, overtaken>>
  BY DEF MailClaimed
<1>t. /\ TableTypeOK /\ CallsFit /\ RowsFit /\ SerialIsSafe /\ PromisesKept /\ row \in [TableRows -> TableRecords]
      /\ told = {} /\ ended \subseteq TableRows /\ ~serial
  BY <1>c, OthersAreNotSerial DEF TableInv, TableTypeOK, TableRecords
<1>k. /\ k.op = "mail" /\ k.rows = {r} /\ k.also = {} /\ k.who = NoHolder /\ k.state = Keep
      /\ k.subject = Keep /\ k.by = Keep /\ k.seen = {}
  BY DEF Writing, Command
<1>1. k \in QueryRecords BY DEF Writing, Command, QueryRecords, CallKinds
<1> HIDE DEF k
<1>2. CallFits(k) BY <1>c, <1>k DEF CallFits, OpsOf, StateColumn, SubjectColumn, HolderColumn
<1>3. query' \in [Connections -> QueryRecords] /\ CallsFit' BY <1>t, <1>c, <1>1, <1>2, CallsKept
<1>4. called' \in 0..MaxTableCalls BY <1>t, <1>c, CountType DEF TableTypeOK
<1>5. "sending" \in RowStates BY DEF RowStates, MailStates
<1>6. \A q \in TableRows :
        /\ row'[q] \in TableRecords /\ row'[q].state = IF q = r THEN "sending" ELSE row[q].state
        /\ q # r => row'[q] = row[q]
  BY <1>t, <1>c, <1>5 DEF TableRecords
<1>7. TableTypeOK'
  <2>1. row' \in [TableRows -> TableRecords] BY <1>t, <1>c, <1>6
  <2> QED BY <1>t, <1>c, <1>3, <1>4, <2>1 DEF TableTypeOK, TableRecords, QueryRecords
<1>8. RowsFit'
  <2>1. \A q \in TableRows : RowFits(row'[q])
    BY <1>t, <1>c, <1>6 DEF RowsFit, RowFits, RowStatesOf, MailStates
  <2> QED BY <1>c, <2>1, FitsAlike DEF RowsFit
<1>9. SerialIsSafe' BY <1>t, <1>c DEF SerialIsSafe
<1>10. EndsAreFinal => EndsAreFinal' BY <1>t, <1>c, <1>6 DEF EndsAreFinal, FinalStates
<1>11. OneEach'
  <2>1. \A q \in TableRows : row'[q].state \in MailStates \cup {"none"}
    BY <1>t, <1>c, <1>6 DEF RowsFit, RowFits, RowStatesOf, MailStates
  <2>2. \A q \in TableRows : row'[q].state \notin LiveStates BY <2>1 DEF MailStates, LiveStates
  <2> QED BY <2>2 DEF OneEach, ClashesWith
<1>12. PromisesKept' BY <1>t, <1>c, <1>10, <1>11 DEF PromisesKept, MapIsSaved, ToldIsTrue
<1> QED BY <1>t, <1>c, <1>3, <1>7, <1>8, <1>9, <1>12 DEF TableInv

LEMMA MailCompletedLemma == ASSUME TableInv, NEW l \in Connections, NEW to, MailCompleted(l, to) PROVE TableInv'
<1> DEFINE mine == {r \in query[l].rows : OwnClaim(l, r)}
<1>c. /\ query[l].op = "mail" /\ to \in {"sent", "retry", "lost"}
      /\ row' = [r \in TableRows |-> IF r \in mine THEN [row[r] EXCEPT !.state = to, !.by = NoHolder] ELSE row[r]]
      /\ ended' = (IF to = "sent" THEN ended \cup mine ELSE ended)
      /\ query' = [query EXCEPT ![l] = NoCalls]
      /\ UNCHANGED <<relation, serial, called, told, overtaken>>
  BY ZenonT(30) DEF MailCompleted
<1>m. mine \subseteq TableRows /\ \A r \in mine : row[r].state = "sending"
  BY DEF TableInv, TableTypeOK, OwnClaim
<1> HIDE DEF mine
<1>r. relation = "mail"
  <2>1. CallFits(query[l]) /\ relation \in Tables BY DEF TableInv, CallsFit, TableTypeOK
  <2> QED BY ZenonT(30), <1>c, <2>1, CallsHoldTheirOps
<1>t. /\ TableTypeOK /\ CallsFit /\ RowsFit /\ SerialIsSafe /\ PromisesKept /\ row \in [TableRows -> TableRecords]
      /\ told = {} /\ ended \subseteq TableRows /\ ~serial
  BY <1>r, OthersAreNotSerial DEF TableInv, TableTypeOK, TableRecords
<1>3. query' \in [Connections -> QueryRecords] /\ CallsFit' BY ZenonT(30), <1>t, <1>c, NoCallType, CallsKept
<1>5. to \in RowStates BY ZenonT(30), <1>c DEF RowStates, MailStates
<1>6. \A q \in TableRows :
        /\ row'[q] \in TableRecords /\ row'[q].state = IF q \in mine THEN to ELSE row[q].state
        /\ q \notin mine => row'[q] = row[q]
  BY ZenonT(30), <1>t, <1>c, <1>5 DEF TableRecords
<1>7. TableTypeOK'
  <2>1. row' \in [TableRows -> TableRecords] BY ZenonT(30), <1>c, <1>6
  <2>2. ended' \subseteq TableRows BY ZenonT(30), <1>t, <1>c, <1>m
  <2> QED BY ZenonT(30), <1>t, <1>c, <1>3, <2>1, <2>2 DEF TableTypeOK, TableRecords, QueryRecords
<1>8. RowsFit'
  <2>1. ASSUME NEW q \in mine PROVE RowFits(row'[q])
    <3>1. to \in RowStatesOf /\ to \notin {"none", "OPEN", "FREE"} BY ZenonT(30), <1>r, <1>c DEF RowStatesOf, MailStates
    <3>2. row'[q].state = to BY <1>6, <1>m
    <3> QED BY <3>1, <3>2 DEF RowFits
  <2>2. \A q \in TableRows : RowFits(row'[q]) BY <1>t, <1>6, <2>1 DEF RowsFit
  <2> QED BY ZenonT(30), <1>c, <2>2, FitsAlike DEF RowsFit
<1>9. SerialIsSafe' BY ZenonT(30), <1>t, <1>c DEF SerialIsSafe
<1>10. EndsAreFinal => EndsAreFinal'
  <2> SUFFICES ASSUME EndsAreFinal PROVE EndsAreFinal' OBVIOUS
  <2>1. \A q \in ended : q \in TableRows \ mine BY <1>t, <1>m DEF EndsAreFinal, FinalStates
  <2>2. \A q \in ended' : row'[q].state \in FinalStates
    <3>1. \A q \in ended : row'[q].state \in FinalStates BY <1>6, <2>1 DEF EndsAreFinal
    <3>2. to = "sent" => \A q \in mine : row'[q].state \in FinalStates BY <1>6, <1>m DEF FinalStates
    <3> QED BY ZenonT(30), <1>c, <3>1, <3>2
  <2> QED BY <2>2 DEF EndsAreFinal
<1>11. OneEach'
  <2>1. \A q \in TableRows : row[q].state \in MailStates \cup {"none"}
    BY <1>r, <1>t DEF RowsFit, RowFits, RowStatesOf
  <2>2. \A q \in TableRows : row'[q].state \notin LiveStates BY ZenonT(30), <1>c, <1>6, <2>1 DEF MailStates, LiveStates
  <2> QED BY <2>2 DEF OneEach, ClashesWith
<1>12. PromisesKept' BY ZenonT(30), <1>r, <1>t, <1>c, <1>10, <1>11 DEF PromisesKept, MapIsSaved, ToldIsTrue
<1> QED BY ZenonT(30), <1>r, <1>t, <1>c, <1>3, <1>7, <1>8, <1>9, <1>12 DEF TableInv


\* A step of policies that keeps the types and, unless it was overtaken, the map.
LEMMA PolicyStep ==
  ASSUME TableInv, relation = "policies", UNCHANGED <<relation, serial, ended>>, TableTypeOK', CallsFit', RowsFit',
         ~overtaken' => MapIsSaved'
  PROVE  TableInv'
<1>1. ~serial /\ ended = {} BY OthersAreNotSerial DEF TableInv
<1>2. OneEach' /\ EndsAreFinal' /\ ToldIsTrue'
  <2>1. \A r \in TableRows : row'[r].state \notin LiveStates
    BY DEF RowsFit, RowFits, RowStatesOf, LiveStates
  <2> QED BY <1>1, <2>1 DEF OneEach, ClashesWith, EndsAreFinal, ToldIsTrue
<1>3. PromisesKept' BY <1>1, <1>2 DEF PromisesKept
<1> QED BY <1>1, <1>3 DEF TableInv, SerialIsSafe

LEMMA PolicyChangesLemma ==
  ASSUME TableInv, NEW l \in Connections, NEW r \in TableRows, NEW v \in Holders \cup {NoHolder}, PolicyChanges(l, r, v)
  PROVE  TableInv'
<1> DEFINE k == IF v = NoHolder THEN Writing("save", {r}, "none", Keep, Keep) ELSE Writing("save", {r}, "there", Keep, v)
<1>c. /\ relation = "policies" /\ query[l] = NoCalls /\ Count /\ query' = [query EXCEPT ![l] = k]
      /\ UNCHANGED <<relation, serial, row, ended, overtaken>>
  BY DEF PolicyChanges
<1>d. /\ told' \subseteq told \cup ({r} \X Holders)
      /\ \A q \in TableRows \ {r}, h \in Holders : <<q, h>> \in told' <=> <<q, h>> \in told
  BY DEF PolicyChanges
<1>t. /\ TableTypeOK /\ CallsFit /\ RowsFit /\ PromisesKept BY DEF TableInv
<1>k. /\ k.op = "save" /\ k.rows = {r} /\ k.also = {} /\ k.who = NoHolder /\ k.subject = Keep /\ k.seen = {}
      /\ k.state \in {"none", "there"} /\ k.by = IF k.state = "there" THEN v ELSE Keep
      /\ k.state = "there" => v \in Holders
  BY DEF Writing, Command
<1>1. k \in QueryRecords
  <2>1. Writing("save", {r}, "none", Keep, Keep) \in QueryRecords BY CommandType DEF Writing, CallKinds
  <2>2. v # NoHolder => Writing("save", {r}, "there", Keep, v) \in QueryRecords BY CommandType DEF Writing, CallKinds
  <2> QED BY <2>1, <2>2
<1> HIDE DEF k
<1>2. CallFits(k) BY <1>c, <1>k DEF CallFits, OpsOf, StateColumn, SubjectColumn, HolderColumn
<1>3. query' \in [Connections -> QueryRecords] /\ CallsFit' BY <1>t, <1>c, <1>1, <1>2, CallsKept
<1>4. called' \in 0..MaxTableCalls BY <1>t, <1>c, CountType DEF TableTypeOK
<1>5. TableTypeOK'
  <2>1. told' \subseteq TableRows \X Holders BY <1>t, <1>d DEF TableTypeOK
  <2> QED BY <1>t, <1>c, <1>3, <1>4, <2>1 DEF TableTypeOK, QueryRecords
<1>6. RowsFit' BY <1>t, <1>c, FitsAlike DEF RowsFit
<1>7. ~overtaken' => MapIsSaved'
  <2> SUFFICES ASSUME ~overtaken, NEW q \in TableRows
               PROVE  \/ \E m \in Connections : query'[m].op = "save" /\ q \in query'[m].rows
                      \/ {h \in Holders : <<q, h>> \in told'} = {row[q].by} \ {NoHolder}
    BY <1>c DEF MapIsSaved
  <2>1. query'[l] = k BY <1>t, <1>c DEF TableTypeOK
  <2>2. CASE q = r BY <1>k, <2>1, <2>2
  <2>3. CASE q # r
    <3>1. \/ \E m \in Connections : query[m].op = "save" /\ q \in query[m].rows
          \/ {h \in Holders : <<q, h>> \in told} = {row[q].by} \ {NoHolder}
      BY <1>t, <1>c DEF PromisesKept, MapIsSaved
    <3>2. \A m \in Connections : query[m].op = "save" => query'[m] = query[m]
      BY <1>t, <1>c DEF TableTypeOK, NoCalls, Writing, Command
    <3>3. {h \in Holders : <<q, h>> \in told'} = {h \in Holders : <<q, h>> \in told} BY <1>d, <2>3
    <3> QED BY <3>1, <3>2, <3>3
  <2> QED BY <2>2, <2>3
<1> QED BY <1>c, <1>3, <1>5, <1>6, <1>7, PolicyStep

LEMMA PolicySavedLemma == ASSUME TableInv, NEW l \in Connections, PolicySaved(l) PROVE TableInv'
<1> DEFINE k == query[l]
<1>c. /\ k.op = "save" /\ row' = [r \in TableRows |-> AsWritten(k, r)] /\ query' = [query EXCEPT ![l] = NoCalls]
      /\ overtaken' = (overtaken \/ ~\E m \in Connections : query[m].op = "save" /\ query[m].rows = k.rows
                                                        /\ UpToDate(query[m]))
      /\ UNCHANGED <<relation, serial, called, told, ended>>
  BY DEF PolicySaved
<1>t. /\ TableTypeOK /\ CallsFit /\ RowsFit /\ PromisesKept /\ relation \in Tables BY DEF TableInv, TableTypeOK
<1>k. k \in QueryRecords /\ CallFits(k) BY <1>t DEF TableTypeOK, QueryRecords, CallsFit
<1> HIDE DEF k
<1>r. relation = "policies" BY <1>t, <1>c, <1>k, CallsHoldTheirOps
<1>1. \A r \in TableRows : AsWritten(k, r) \in TableRecords /\ RowFits(AsWritten(k, r))
  BY <1>t, <1>c, <1>k, WrittenFits DEF RowsFit
<1>2. row' \in [TableRows -> TableRecords] /\ RowsFit' BY <1>1, <1>c, FitsAlike DEF RowsFit
<1>3. query' \in [Connections -> QueryRecords] /\ CallsFit' BY <1>t, <1>c, NoCallType, CallsKept
<1>4. TableTypeOK'
  <2>1. overtaken' \in BOOLEAN BY <1>c, <1>t DEF TableTypeOK
  <2> QED BY <1>t, <1>c, <1>2, <1>3, <2>1 DEF TableTypeOK, QueryRecords, TableRecords
<1>5. PICK x \in TableRows : k.rows = {x} BY <1>c, <1>k DEF CallFits
<1>6. k.also = {} BY <1>c, <1>k DEF CallFits
<1>7. ~overtaken' => MapIsSaved'
  <2> SUFFICES ASSUME ~overtaken', NEW q \in TableRows
               PROVE  \/ \E m \in Connections : query'[m].op = "save" /\ q \in query'[m].rows
                      \/ {h \in Holders : <<q, h>> \in told} = {row'[q].by} \ {NoHolder}
    BY <1>c DEF MapIsSaved
  <2>1. \A m \in Connections \ {l} : query'[m] = query[m] BY <1>t, <1>c DEF TableTypeOK
  <2>2. CASE q # x
    <3>1. row'[q] = row[q] BY <1>c, <1>5, <1>6, <2>2 DEF AsWritten
    <3>2. \/ \E m \in Connections : query[m].op = "save" /\ q \in query[m].rows
          \/ {h \in Holders : <<q, h>> \in told} = {row[q].by} \ {NoHolder}
      BY <1>t, <1>r, <1>c DEF PromisesKept, MapIsSaved
    <3>3. q \notin query[l].rows BY <1>5, <2>2 DEF k
    <3> QED BY <2>1, <3>1, <3>2, <3>3
  <2>3. CASE q = x
    <3>1. PICK m \in Connections : query[m].op = "save" /\ query[m].rows = k.rows /\ UpToDate(query[m])
      BY <1>c
    <3>2. CASE m # l BY <1>5, <2>1, <2>3, <3>1, <3>2
    <3>3. CASE m = l
      <4>1. ({x} \X Holders) \cap told = IF k.state = "none" THEN {} ELSE {<<x, k.by>>}
        BY <1>5, <3>1, <3>3 DEF UpToDate, k
      <4>2. k.state \in {"none", "there"} /\ (k.state = "there" => k.by \in Holders)
        BY <1>c, <1>k DEF CallFits, StateColumn, HolderColumn
      <4>3. row'[x].by = IF k.state = "none" THEN NoHolder ELSE k.by
        <5>1. row'[x] = AsWritten(k, x) /\ x \notin k.also /\ x \in k.rows BY <1>c, <1>5, <1>6
        <5>2. CASE k.state = "none" BY <5>1, <5>2 DEF AsWritten, NoRow
        <5>3. CASE k.state # "none" BY ZenonT(30), <1>c, <4>2, <5>1, <5>3, TableAssumption DEF AsWritten
        <5> QED BY <5>2, <5>3
      <4>4. \A h \in Holders : <<x, h>> \in told <=> k.state # "none" /\ h = k.by BY <4>1
      <4> QED BY <2>3, <4>2, <4>3, <4>4, TableAssumption
    <3> QED BY <3>2, <3>3
  <2> QED BY <2>2, <2>3
<1> QED BY <1>r, <1>c, <1>2, <1>3, <1>4, <1>7, PolicyStep

LEMMA PolicyNotSavedLemma == ASSUME TableInv, NEW l \in Connections, PolicyNotSaved(l) PROVE TableInv'
<1>c. /\ query[l].op = "save" /\ overtaken' = TRUE /\ query' = [query EXCEPT ![l] = NoCalls]
      /\ UNCHANGED <<relation, serial, row, called, told, ended>>
  BY DEF PolicyNotSaved
<1>t. /\ TableTypeOK /\ CallsFit /\ RowsFit /\ relation \in Tables BY DEF TableInv, TableTypeOK
<1>1. relation = "policies" BY <1>c, <1>t, CallsHoldTheirOps DEF CallsFit
<1>2. query' \in [Connections -> QueryRecords] /\ CallsFit' BY <1>t, <1>c, NoCallType, CallsKept
<1>3. TableTypeOK' BY <1>t, <1>c, <1>2 DEF TableTypeOK, QueryRecords
<1>4. RowsFit' BY <1>t, <1>c, FitsAlike DEF RowsFit
<1> QED BY <1>1, <1>c, <1>2, <1>3, <1>4, PolicyStep

LEMMA RefreshReadsLemma == ASSUME TableInv, NEW l \in Connections, RefreshReads(l) PROVE TableInv'
<1> DEFINE found == {t \in TableRows \X Holders : row[t[1]].by = t[2]}
           k == [NoCalls EXCEPT !.op = "refresh", !.seen = found]
<1>c. /\ relation = "policies" /\ query[l] = NoCalls /\ Count /\ query' = [query EXCEPT ![l] = k]
      /\ UNCHANGED <<relation, serial, row, told, ended, overtaken>>
  BY DEF RefreshReads
<1>t. /\ TableTypeOK /\ CallsFit /\ RowsFit /\ PromisesKept BY DEF TableInv
<1>0. found \subseteq TableRows \X Holders OBVIOUS
<1> HIDE DEF found
<1>k. /\ k.op = "refresh" /\ k.rows = {} /\ k.also = {} /\ k.who = NoHolder /\ k.state = Keep /\ k.subject = Keep
      /\ k.by = Keep /\ k.seen = found
  BY DEF NoCalls, Writing, Command
<1>1. k \in QueryRecords BY <1>0 DEF NoCalls, Writing, Command, QueryRecords, CallKinds
<1> HIDE DEF k
<1>2. CallFits(k) BY <1>c, <1>k DEF CallFits, OpsOf, StateColumn, SubjectColumn, HolderColumn
<1>3. query' \in [Connections -> QueryRecords] /\ CallsFit' BY <1>t, <1>c, <1>1, <1>2, CallsKept
<1>4. called' \in 0..MaxTableCalls BY <1>t, <1>c, CountType DEF TableTypeOK
<1>5. TableTypeOK' BY <1>t, <1>c, <1>3, <1>4 DEF TableTypeOK, QueryRecords
<1>6. RowsFit' BY <1>t, <1>c, FitsAlike DEF RowsFit
<1>7. \A m \in Connections : query[m].op = "save" => query'[m] = query[m]
  BY <1>t, <1>c DEF TableTypeOK, NoCalls, Writing, Command
<1>8. PromisesKept' BY <1>t, <1>c, <1>7, PromisesAlike
<1> QED BY <1>c, <1>3, <1>5, <1>6, <1>8, OthersAreNotSerial DEF TableInv, SerialIsSafe

LEMMA RefreshDoneLemma == ASSUME TableInv, NEW l \in Connections, RefreshDone(l) PROVE TableInv'
<1>c. /\ query[l].op = "refresh" /\ told' = query[l].seen /\ query' = [query EXCEPT ![l] = NoCalls]
      /\ overtaken' = (overtaken \/ query[l].seen # told)
      /\ UNCHANGED <<relation, serial, row, called, ended>>
  BY DEF RefreshDone
<1>t. /\ TableTypeOK /\ CallsFit /\ RowsFit /\ PromisesKept /\ relation \in Tables BY DEF TableInv, TableTypeOK
<1>1. relation = "policies" BY <1>c, <1>t, CallsHoldTheirOps DEF CallsFit
<1>2. query' \in [Connections -> QueryRecords] /\ CallsFit' BY <1>t, <1>c, NoCallType, CallsKept
<1>3. TableTypeOK'
  <2>1. told' \subseteq TableRows \X Holders BY <1>t, <1>c DEF TableTypeOK
  <2>2. overtaken' \in BOOLEAN BY <1>c, <1>t DEF TableTypeOK
  <2> QED BY <1>t, <1>c, <1>2, <2>1, <2>2 DEF TableTypeOK, QueryRecords
<1>4. RowsFit' BY <1>t, <1>c, FitsAlike DEF RowsFit
<1>5. \A m \in Connections : query[m].op = "save" => query'[m] = query[m] BY <1>t, <1>c DEF TableTypeOK
<1>6. ~overtaken' => MapIsSaved'
  <2> SUFFICES ASSUME ~overtaken' PROVE MapIsSaved' OBVIOUS
  <2>1. told' = told /\ MapIsSaved BY <1>t, <1>c DEF PromisesKept
  <2> QED BY <1>c, <1>5, <2>1 DEF MapIsSaved
<1> QED BY <1>1, <1>c, <1>2, <1>3, <1>4, <1>6, PolicyStep

\* The tables keep TableInv.
THEOREM TableInvariance == TableSpec => []TableInv
<1>1. TableInit => TableInv
  <2> SUFFICES ASSUME TableInit PROVE TableInv OBVIOUS
  <2>1. NoRow \in TableRecords /\ RowFits(NoRow)
    BY TableAssumption DEF NoRow, SomeSubject, TableRecords, RowFits, RowStates
  <2>2. TableTypeOK
    <3>1. row \in [TableRows -> TableRecords] /\ query \in [Connections -> QueryRecords]
      BY <2>1, NoCallType DEF TableInit
    <3>2. called \in 0..MaxTableCalls BY TableAssumption DEF TableInit
    <3>3. relation \in Tables /\ serial \in BOOLEAN /\ overtaken \in BOOLEAN /\ told = {} /\ ended = {}
      BY DEF TableInit
    <3> QED BY <3>1, <3>2, <3>3 DEF TableTypeOK, TableRecords, QueryRecords
  <2>3. CallsFit /\ RowsFit BY <2>1, NoCallType DEF TableInit, CallsFit, RowsFit
  <2>4. SerialIsSafe BY DEF TableInit, SerialIsSafe
  <2>5. PromisesKept
    <3>1. EndsAreFinal /\ ToldIsTrue BY DEF TableInit, EndsAreFinal, ToldIsTrue
    <3>2. OneEach BY DEF TableInit, OneEach, ClashesWith, NoRow, LiveStates
    <3>3. MapIsSaved BY DEF TableInit, MapIsSaved, NoRow
    <3> QED BY <3>1, <3>2, <3>3 DEF TableInit, PromisesKept
  <2> QED BY <2>2, <2>3, <2>4, <2>5 DEF TableInit, TableInv
<1>2. TableInv /\ [TableNext]_tableVars => TableInv'
  <2> SUFFICES ASSUME TableInv, [TableNext]_tableVars PROVE TableInv' OBVIOUS
  <2>1. ASSUME NEW l \in Connections, CallReads(l) \/ CallWrites(l) \/ CallFails(l) PROVE TableInv'
    BY <2>1, ReadsLemma, WritesLemma, FailsLemma
  <2>2. ASSUME NEW l \in Connections, NEW r \in TableRows, MailClaimed(l, r) PROVE TableInv' BY <2>2, MailClaimedLemma
  <2>3. ASSUME NEW l \in Connections, NEW r \in TableRows, NEW v \in Holders \cup {NoHolder}, PolicyChanges(l, r, v)
        PROVE  TableInv'
    BY <2>3, PolicyChangesLemma
  <2>4. ASSUME NEW l \in Connections, NEW to \in MailStates, MailCompleted(l, to) PROVE TableInv'
    BY <2>4, MailCompletedLemma
  <2>5. ASSUME NEW l \in Connections, PolicySaved(l) \/ PolicyNotSaved(l) \/ RefreshReads(l) \/ RefreshDone(l)
        PROVE  TableInv'
    BY <2>5, PolicySavedLemma, PolicyNotSavedLemma, RefreshReadsLemma, RefreshDoneLemma
  <2>6. ASSUME NEW r \in TableRows, ApprovalStatement(r) \/ SiteRemoved(r) \/ MailStatement(r) PROVE TableInv'
    BY <2>6, ApprovalStatementLemma, SiteRemovedLemma, MailStatementLemma
  <2>7. ASSUME NEW s \in Subjects, TaskMovesOn(s) PROVE TableInv' BY <2>7, TaskMovesOnLemma
  <2>8. CASE UNCHANGED tableVars
    <3>1. UNCHANGED <<relation, serial, row, query, called, told, ended, overtaken>> BY <2>8 DEF tableVars
    <3>2. TableTypeOK' BY <3>1 DEF TableInv, TableTypeOK
    <3>3. CallsFit' /\ RowsFit' BY SMTT(30), <3>1, FitsAlike DEF TableInv, CallsFit, RowsFit
    <3>4. SerialIsSafe' BY <3>1, WritesAlike DEF TableInv, SerialIsSafe
    <3>5. PromisesKept' BY <3>1, PromisesAlike DEF TableInv
    <3> QED BY <3>1, <3>2, <3>3, <3>4, <3>5 DEF TableInv
  <2> QED BY <2>1, <2>2, <2>3, <2>4, <2>5, <2>6, <2>7, <2>8 DEF TableNext
<1> QED BY <1>1, <1>2, PTL DEF TableSpec

\* Whatever the calls, a table keeps its promises until a call writes over what others have
\* changed; one call at a time never does, and neither does mail (PromisesKept).
THEOREM TablesKeepPromises == TableSpec => []PromisesKept
BY TableInvariance, PTL DEF TableInv
==============================================================================
