---------------------------- MODULE PhoneDriver ----------------------------
(***************************************************************************)
(* What the host believes of one phone: wdaDevice.js asks WebDriverAgent   *)
(* whether it is ready, the provisioner tells it when the phone's two      *)
(* processes (WebDriverAgent and the USB tunnel) start, stop and end, and  *)
(* the status that comes of it decides who may use the phone: a person     *)
(* needs an open control path, the task queue only the status "idle".      *)
(*                                                                         *)
(* A generation of readiness is abstracted to a mark on the requests of    *)
(* the present one.  How long the startup may take, the diagnostics, the   *)
(* sessions inside WebDriverAgent, and where the phone is on USB, are left *)
(* out; ProcessSupervisor and Provisioning have the processes.  An         *)
(* operator's start is an event of both processes.                         *)
(***************************************************************************)
EXTENDS Naturals, FiniteSets

CONSTANTS
  FailureThreshold,  \* readinessFailureThreshold
  MaxBoots,          \* bound: how often each process is started
  MaxProbes          \* bound: status requests on their way, of any generation

ASSUME DriverAssumption == {FailureThreshold, MaxBoots, MaxProbes} \subseteq Nat \ {0}

PhoneParts == {"wdaProcess", "iproxy"}

VARIABLES
  process,    \* part -> its state and how often it was started
  component,  \* componentHealth of the part
  readiness,  \* ready, and the failures in a row
  startup,    \* "none", "grace", or "late" once the time to start is over
  probes,     \* status requests on their way
  control,    \* componentHealth.control
  recovery,   \* componentHealth.recovery, as far as it matters here
  status,     \* status of the phone
  owned,      \* a person has the phone
  stopping,   \* an operator's stop or restart waits for the processes: "no", "stop", "restart"
  answeredBy, \* the processes the last good answer came from
  freedUnready \* the phone was given back before it was ready again

driverVars == <<process, component, readiness, startup, probes, control, recovery, status, owned,
                stopping, answeredBy, freedUnready>>

NotReady(failures) == [ready |-> FALSE, failures |-> failures]
Boots == [p \in PhoneParts |-> process[p].boot]
Unanswered == [p \in PhoneParts |-> 0]

DriverTypeOK ==
  /\ process \in [PhoneParts -> [state : {"stopped", "alive", "ending", "dead"}, boot : 0..MaxBoots]]
  /\ component \in [PhoneParts -> {"UNKNOWN", "STARTING", "RUNNING", "RESTARTING", "STOPPED"}]
  /\ readiness \in [ready : BOOLEAN, failures : 0..FailureThreshold]
  /\ startup \in {"none", "grace", "late"}
  /\ probes \subseteq [current : BOOLEAN, good : BOOLEAN, by : [PhoneParts -> 0..MaxBoots]]
  /\ control \in {"READY", "DEGRADED", "UNAVAILABLE"}
  /\ recovery \in {"IDLE", "OPERATOR_STOPPED"}
  /\ status \in {"offline", "idle", "in-use"}
  /\ {owned, freedUnready} \subseteq BOOLEAN
  /\ stopping \in {"no", "stop", "restart"}
  /\ answeredBy \in [PhoneParts -> 0..MaxBoots]

DriverInit ==
  /\ process = [p \in PhoneParts |-> [state |-> "stopped", boot |-> 0]]
  /\ component = [p \in PhoneParts |-> "UNKNOWN"]
  /\ readiness = NotReady(0)
  /\ startup = "none"
  /\ probes = {}
  /\ control = "UNAVAILABLE"
  /\ recovery = "IDLE"
  /\ status = "offline"
  /\ owned = FALSE /\ stopping = "no"
  /\ answeredBy = Unanswered
  /\ freedUnready = FALSE

----------------------------------------------------------------------------
(* Readiness                                                               *)

\* readinessGeneration has moved on: an answer that is still awaited is old.
Outdated == probes' = {[probe EXCEPT !.current = FALSE] : probe \in probes}

\* invalidateReadiness and beginStartup: nothing is believed of the phone, and
\* it is offline unless somebody has it.
Distrusts ==
  /\ readiness' = NotReady(0)
  /\ Outdated

\* refreshControlHealth, with what is believed of the parts.
ControlWith(parts, ready) ==
  CASE \E p \in PhoneParts : parts[p] \in {"STARTING", "RESTARTING"} -> "UNAVAILABLE"
    [] \A p \in PhoneParts : parts[p] \notin {"STARTING", "RESTARTING"} ->
         IF ready THEN "READY" ELSE "DEGRADED"

\* The list of phones is sent out, and a connection whose phone has lost its
\* control path gives it back on the way: releaseDevice makes it idle.
\* Otherwise a phone that is distrusted goes offline.
Announced(distrusted) ==
  IF owned /\ control' # "READY"
  THEN /\ owned' = FALSE
       /\ status' = "idle"
       /\ freedUnready' = TRUE
  ELSE /\ status' = IF distrusted /\ status # "in-use" THEN "offline" ELSE status
       /\ freedUnready' = (freedUnready /\ status' = "idle")
       /\ UNCHANGED owned

\* checkReadiness: one request of a generation at a time, and none to a phone
\* that was stopped on purpose.
Probe ==
  /\ recovery # "OPERATOR_STOPPED"
  /\ \A probe \in probes : ~probe.current
  /\ Cardinality(probes) < MaxProbes
  /\ \E p \in PhoneParts : process[p].boot > 0
  /\ probes' = probes \cup {[current |-> TRUE, good |-> FALSE, by |-> Unanswered]}
  /\ UNCHANGED <<process, component, readiness, startup, control, recovery, status, owned, stopping,
                 answeredBy, freedUnready>>

\* WebDriverAgent answers that it is ready, if both processes are there.
Answered(probe) ==
  /\ ~probe.good
  /\ \A p \in PhoneParts : process[p].state \in {"alive", "ending"}
  /\ probes' = (probes \ {probe}) \cup {[probe EXCEPT !.good = TRUE, !.by = Boots]}
  /\ UNCHANGED <<process, component, readiness, startup, control, recovery, status, owned, stopping,
                 answeredBy, freedUnready>>

\* A slip: the generation is not compared.
CountsAnyway(probe) == probe \in probes

\* An answer counts in the generation it was asked in.
Counts(probe) == probe.current

GoodAnswer(probe) ==
  /\ probe.good /\ Counts(probe)
  /\ readiness' = [ready |-> TRUE, failures |-> 0]
  /\ startup' = "none"
  /\ control' = ControlWith(component, TRUE)
  /\ status' = IF status = "in-use" THEN status ELSE "idle"
  /\ recovery' = IF control' = "READY" THEN "IDLE" ELSE recovery
  /\ answeredBy' = probe.by
  /\ freedUnready' = FALSE
  /\ UNCHANGED <<process, component, owned, stopping>>

\* A failure while the phone may still be starting.
StillStarting(probe) ==
  /\ ~probe.good /\ Counts(probe) /\ startup = "grace"
  /\ readiness' = NotReady(0)
  /\ control' = "UNAVAILABLE"
  /\ UNCHANGED <<process, component, startup, recovery, status, owned, stopping, answeredBy, freedUnready>>

\* One failure makes the phone suspect, and enough in a row take it offline.
BadAnswer(probe) ==
  /\ ~probe.good /\ Counts(probe) /\ startup # "grace"
  /\ LET failures == IF readiness.failures < FailureThreshold THEN readiness.failures + 1
                     ELSE FailureThreshold IN
       /\ readiness' = NotReady(failures)
       /\ control' = IF failures = FailureThreshold THEN "UNAVAILABLE" ELSE "DEGRADED"
       /\ status' = IF failures = FailureThreshold /\ status # "in-use" THEN "offline" ELSE status
  /\ freedUnready' = (freedUnready /\ status' = "idle")
  /\ UNCHANGED <<process, component, startup, recovery, owned, stopping, answeredBy>>

OldAnswer(probe) ==
  /\ ~Counts(probe)
  /\ UNCHANGED <<process, component, readiness, startup, control, recovery, status, owned, stopping,
                 answeredBy, freedUnready>>

Returned(probe) ==
  /\ GoodAnswer(probe) \/ StillStarting(probe) \/ BadAnswer(probe) \/ OldAnswer(probe)
  /\ probes' = probes \ {probe}

GraceEnds ==
  /\ startup = "grace" /\ startup' = "late"
  /\ UNCHANGED <<process, component, readiness, probes, control, recovery, status, owned, stopping,
                 answeredBy, freedUnready>>

----------------------------------------------------------------------------
(* Processes                                                               *)

\* A process was started (_onProcessStarting).
ProcessStarting(p) ==
  /\ process[p].state \in {"stopped", "ending"} /\ process[p].boot < MaxBoots /\ stopping = "no"
  /\ process' = [process EXCEPT ![p] = [state |-> "alive", boot |-> @.boot + 1]]
  /\ component' = [component EXCEPT ![p] = "STARTING"]
  /\ Distrusts
  /\ startup' = IF p = "wdaProcess" THEN "grace" ELSE startup
  /\ recovery' = "IDLE"
  /\ control' = ControlWith(component', FALSE)
  /\ Announced(TRUE)
  /\ UNCHANGED <<stopping, answeredBy>>

\* It has run for a while (_onProcessStable).
ProcessStable(p) ==
  /\ process[p].state = "alive" /\ component[p] = "STARTING"
  /\ component' = [component EXCEPT ![p] = "RUNNING"]
  /\ control' = ControlWith(component', readiness.ready)
  /\ Announced(FALSE)
  /\ UNCHANGED <<process, readiness, startup, probes, recovery, stopping, answeredBy>>

\* It ends, and the host does not know yet.
ProcessDies(p) ==
  /\ process[p].state = "alive"
  /\ process' = [process EXCEPT ![p].state = "dead"]
  /\ UNCHANGED <<component, readiness, startup, probes, control, recovery, status, owned, stopping,
                 answeredBy, freedUnready>>

\* Its end is seen (_onProcessExit); the supervisor will start it again.
ProcessExit(p) ==
  /\ process[p].state = "dead" /\ stopping = "no"
  /\ process' = [process EXCEPT ![p].state = "stopped"]
  /\ component' = [component EXCEPT ![p] = "RESTARTING"]
  /\ Distrusts
  /\ control' = IF p = "wdaProcess" THEN "DEGRADED" ELSE "UNAVAILABLE"
  /\ Announced(TRUE)
  /\ UNCHANGED <<startup, recovery, stopping, answeredBy>>

\* The poll writes down what the supervisor says of a process, which calls it
\* running from the start; the tunnel stays "STARTING" until it is stable.
PollSees(p) ==
  /\ stopping # "stop"
  /\ component' = [component EXCEPT ![p] =
       IF stopping = "restart" THEN "STOPPED"
       ELSE IF p = "iproxy" /\ @ = "STARTING" THEN @ ELSE "RUNNING"]
  /\ stopping = "restart" \/ process[p].state \in {"alive", "dead"}
  /\ UNCHANGED <<process, readiness, startup, probes, control, recovery, status, owned, stopping,
                 answeredBy, freedUnready>>

\* An endpoint that stays silent beside running processes: one of the two is
\* stopped and will be started again (_recoverEndpoint, beginRecovery).
RecoversEndpoint(p) ==
  /\ readiness.failures = FailureThreshold /\ stopping = "no"
  /\ \A part \in PhoneParts : process[part].state \in {"alive", "dead"}
  /\ process' = [process EXCEPT ![p].state = "ending"]
  /\ Distrusts
  /\ control' = "DEGRADED"
  /\ Announced(FALSE)
  /\ UNCHANGED <<component, startup, recovery, stopping, answeredBy>>

\* An operator stops or restarts the phone nobody has, and waits for its
\* processes.
PhoneStopAsked(what) ==
  /\ ~owned /\ stopping = "no"
  /\ \E p \in PhoneParts : process[p].state # "stopped"
  /\ stopping' = what
  /\ Distrusts
  /\ component' = IF what = "restart" THEN [p \in PhoneParts |-> "RESTARTING"] ELSE component
  /\ control' = "UNAVAILABLE"
  /\ Announced(TRUE)
  /\ UNCHANGED <<process, startup, recovery, answeredBy>>

\* They have stopped.  A restart will start them again.
ProcessesStopped ==
  /\ stopping # "no"
  /\ stopping' = "no"
  /\ process' = [p \in PhoneParts |-> [process[p] EXCEPT !.state = "stopped"]]
  /\ IF stopping = "stop"
     THEN /\ component' = [p \in PhoneParts |-> "STOPPED"]
          /\ control' = "UNAVAILABLE"
          /\ recovery' = "OPERATOR_STOPPED"
          /\ Announced(TRUE)
     ELSE UNCHANGED <<component, control, recovery, status, owned, freedUnready>>
  /\ UNCHANGED <<readiness, startup, probes, answeredBy>>

----------------------------------------------------------------------------
(* People                                                                  *)

Opens ==
  /\ ~owned /\ control = "READY" /\ status = "idle"
  /\ owned' = TRUE /\ status' = "in-use"
  /\ UNCHANGED <<process, component, readiness, startup, probes, control, recovery, stopping,
                 answeredBy, freedUnready>>

\* releaseDevice never clears a real failure.
GivesBack ==
  /\ owned
  /\ owned' = FALSE
  /\ status' = IF status = "offline" THEN status ELSE "idle"
  /\ freedUnready' = ~readiness.ready
  /\ UNCHANGED <<process, component, readiness, startup, probes, control, recovery, stopping, answeredBy>>

DriverNext ==
  \/ Probe \/ GraceEnds
  \/ \E probe \in probes : Answered(probe) \/ Returned(probe)
  \/ \E p \in PhoneParts : ProcessStarting(p) \/ ProcessStable(p) \/ ProcessDies(p) \/ ProcessExit(p)
                         \/ PollSees(p) \/ RecoversEndpoint(p)
  \/ \E what \in {"stop", "restart"} : PhoneStopAsked(what)
  \/ ProcessesStopped
  \/ Opens \/ GivesBack

DriverSpec == DriverInit /\ [][DriverNext]_driverVars

----------------------------------------------------------------------------
(* What may be believed                                                    *)

\* An open control path was confirmed by the very processes the phone has: an
\* answer of one that was replaced since is never believed.
ReadyIsFresh == control = "READY" => answeredBy = Boots

\* A phone the queue may take has an endpoint that is ready, or failed too
\* seldom to count, or was given back by a person before it was.
IdleIsUsable ==
  status = "idle" =>
    readiness.ready \/ freedUnready \/ readiness.failures \in 1..(FailureThreshold - 1)

BeliefIsFounded == ReadyIsFresh /\ IdleIsUsable

============================================================================
