---------------------------- MODULE Provisioning ----------------------------
(***************************************************************************)
(* Automatic setup of one phone (system/server/src/deviceProvisioner.js)   *)
(* over the supervisors of its two processes: xcodebuild, which runs       *)
(* WebDriverAgent on the phone, and iproxy, the USB tunnel to it.          *)
(*                                                                         *)
(* Three things happen side by side.  The poll discovers phones and, one   *)
(* at a time, attaches them, detaches them and recovers their endpoint.    *)
(* Lifecycle operations (start, stop, restart, the retries, the recovery   *)
(* of an occupied port and the detach the poll asks for) run one after the *)
(* other.  Processes die, are restarted and confirm their stops whenever   *)
(* they do.  An attach and an endpoint recovery are not serialized with    *)
(* the lifecycle operations.  Each action is the stretch between two       *)
(* awaits; probes that follow each other with nothing changed in between   *)
(* are one await.                                                          *)
(***************************************************************************)
EXTENDS ProcessSupervisor

CONSTANTS
  Foreigners,   \* what other programs may hold at times: "wda" (the phone), "port"
  StoreMayFail, \* whether saving the phone's provisioning record may fail
  MaxCrashes    \* bound: how often the server may die

ASSUME ProvisioningAssumption ==
  /\ Foreigners \subseteq {"wda", "port"}
  /\ StoreMayFail \in BOOLEAN /\ MaxCrashes \in Nat

Kinds == {"wda", "iproxy"}

VARIABLES
  sup,      \* kind -> its supervised process
  setup,    \* where automatic setup is, from its start to its shutdown
  on,       \* the runtime map has the phone
  enabled,  \* entry.wdaEnabled
  intent,   \* the saved lifecycleIntent is "running"
  seen,     \* what the attach under way read of it
  poll,     \* the await the poll is at
  op,       \* the lifecycle operation under way and the await it is at
  busyPort, \* a port recovery is queued behind it
  crashes

provVars == <<sup, setup, on, enabled, intent, seen, poll, op, busyPort, crashes>>

Setups == {"checking", "paused", "running", "stopping", "second", "down"}
\* attach   the probes before the phone enters the runtime map
\* check    the look for another xcodebuild of the phone
\* undo     the stops after an attach that failed
\* probe    the probe of an endpoint recovery
\* detach   the detach, itself a lifecycle operation
Polls == {"idle", "attach", "check", "undo", "probe", "detach"}
OpKinds == {"none", "start", "stop", "restart", "retry", "tunnel", "recover", "detach"}
OpSteps == {"none", "check", "clear", "stops", "ports", "ready", "undo"}
NoOp == [kind |-> "none", at |-> "none"]
At(kind, at) == [kind |-> kind, at |-> at]

ProvTypeOK ==
  /\ sup \in [Kinds -> Supervised] /\ \A k \in Kinds : Consistent(sup[k])
  /\ setup \in Setups /\ poll \in Polls
  /\ op \in [kind : OpKinds, at : OpSteps]
  /\ {on, enabled, intent, seen, busyPort} \subseteq BOOLEAN
  /\ crashes \in 0..MaxCrashes

\* A phone that was set up before, or never, when the server starts.
ProvInit ==
  /\ sup = [k \in Kinds |-> Fresh]
  /\ setup = "checking" /\ on = FALSE /\ enabled = FALSE
  /\ intent \in BOOLEAN /\ seen = FALSE
  /\ poll = "idle" /\ op = NoOp /\ busyPort = FALSE
  /\ crashes = 0

ShuttingDown == setup \in {"stopping", "second", "down"}
StopBoth == [k \in Kinds |-> Stop(sup[k])]
BothSettled == \A k \in Kinds : Settled(sup[k])
BothOk == \A k \in Kinds : StopOk(sup[k])
Idle == op = NoOp

\* Saving the record: it is written, or the write throws and nothing is.
Saved(b) == intent' = b
SaveFails == StoreMayFail /\ UNCHANGED intent

\* ownsMapping: the supervised tunnel is up.
Adopts == sup["iproxy"].state = "running"

\* _assertNoForeignWda: the phone's xcodebuild is the supervised one, or there
\* is none at all.  (Other programs come and go: what a probe finds of them is
\* any of what they may hold.)
NoForeignWda == IsRunning(sup["wda"]) \/ Alive(sup["wda"]) = {}
ForeignWda == ~IsRunning(sup["wda"]) /\ (Alive(sup["wda"]) # {} \/ "wda" \in Foreigners)

\* classifyHolder: the processes resolvePort may stop to free the port.  A
\* tunnel is recognised by its verified record or, once its server is gone,
\* by its exact command.
OwnHolders(s) == Provable(s) \cup s.orphans

\* reclaim() of every one of them: signalled, and gone.
Reclaimed(s) ==
  LET left == [s EXCEPT !.orphans = {}]
  IN IF s.children = {} THEN {left}
     ELSE UNION {Exited(left, p) : p \in s.children}

\* The outcomes of _resolvePortConflict that leave the port free, and whether
\* it may stay taken.
PortFreed ==
  LET t == sup["iproxy"] IN
  IF ~(Alive(t) \subseteq OwnHolders(t)) THEN {}
  ELSE IF Alive(t) = {} THEN {t} ELSE Reclaimed(t)

PortTaken == "port" \in Foreigners \/ PortFreed = {}

\* assertStartResult.
StartOk(s) == StartResult(s) \in {"started", "running"}

\* Starting WDA and then, unless it is adopted, the tunnel t: what each of the
\* two supervisors is left with, and whether both starts succeeded.
StartPair(w, t, adopt) ==
  IF ~StartOk(w) THEN {<<w1, t, FALSE>> : w1 \in Start(w)}
  ELSE IF adopt THEN {<<w1, t, TRUE>> : w1 \in Start(w)}
  ELSE {<<w1, t1, StartOk(t)>> : w1 \in Start(w), t1 \in Start(t)}

----------------------------------------------------------------------------
\* The process table.

\* A child exits by itself or because it was told to.  What xcodebuild wrote
\* may ask for a person, and then both processes are stopped; iproxy may have
\* found its port taken, and then a port recovery is queued.
ChildExits(k, p) ==
  /\ p \in sup[k].children
  /\ \E r \in Exited(sup[k], p) :
       \/ sup' = [sup EXCEPT ![k] = r] /\ UNCHANGED busyPort
       \/ /\ k = "wda" /\ on /\ p = sup[k].child
          /\ sup' = [wda |-> Stop(r), iproxy |-> Stop(sup["iproxy"])]
          /\ UNCHANGED busyPort
       \/ /\ k = "iproxy" /\ on /\ p = sup[k].child
          /\ "port" \in Foreigners \/ Cardinality(Alive(sup[k])) > 1
          /\ sup' = [sup EXCEPT ![k] = r] /\ busyPort' = TRUE
  /\ UNCHANGED <<setup, on, enabled, intent, seen, poll, op, crashes>>

\* Only the process table or a supervisor's timer changes.
supOnly == <<setup, on, enabled, intent, seen, poll, op, busyPort, crashes>>

OrphanExits(k, p) ==
  /\ p \in sup[k].orphans
  /\ sup' = [sup EXCEPT ![k].orphans = @ \ {p}]
  /\ UNCHANGED supOnly

Restarted(k) ==
  /\ sup[k].state = "restarting"
  /\ \E r \in SpawnNow(sup[k]) : sup' = [sup EXCEPT ![k] = r]
  /\ UNCHANGED supOnly

RecordSettles(k) ==
  /\ sup[k].recording # NoPid
  /\ \E r \in Recorded(sup[k]) : sup' = [sup EXCEPT ![k] = r]
  /\ UNCHANGED supOnly

GraceEnds(k) ==
  /\ sup[k].stopping # NoPid /\ ~sup[k].forced
  /\ sup' = [sup EXCEPT ![k] = ForceKill(@)]
  /\ UNCHANGED supOnly

\* Fault: a stop waits for its process for ever.
NeverGivesUp(k) == FALSE /\ UNCHANGED provVars

KillWaitEnds(k) ==
  /\ sup[k].stopping # NoPid /\ sup[k].forced
  /\ SlowLookups \/ sup[k].recording = NoPid
  /\ \E r \in GiveUp(sup[k]) : sup' = [sup EXCEPT ![k] = r]
  /\ UNCHANGED supOnly

----------------------------------------------------------------------------
\* Start-up: the leftovers of an earlier run.

\* The sweep's look at one record: what is left, and whether it was dealt
\* with.  A record whose process is gone is dropped; one without a start time
\* is never used to signal; a leftover is stopped, or would not stop.
Swept(s) ==
  IF s.known = NoPid THEN {<<s, TRUE>>}
  ELSE IF s.known \notin Alive(s) THEN {<<r, r.saved = NoPid>> : r \in Forget(s)}
  ELSE IF ~s.verified THEN {<<s, FALSE>>}
  ELSE {<<s, FALSE>>} \cup
       {<<r, r.saved = NoPid>> : r \in Forget([s EXCEPT !.orphans = @ \ {s.known}])}

\* One check of the earlier connections, at the start or from the re-check
\* timer or button of a paused setup: both records swept, and setup begins
\* only if nothing was left open.
Check ==
  /\ setup \in {"checking", "paused"}
  /\ \/ \E w \in Swept(sup["wda"]), t \in Swept(sup["iproxy"]) :
          /\ sup' = [wda |-> w[1], iproxy |-> t[1]]
          /\ setup' = IF w[2] /\ t[2] THEN "running" ELSE "paused"
     \/ setup' = "paused" /\ UNCHANGED sup  \* the file of records cannot be read
  /\ UNCHANGED <<on, enabled, intent, seen, poll, op, busyPort, crashes>>

----------------------------------------------------------------------------
\* The poll.

pollOnly == <<setup, op, busyPort, crashes>>

\* A phone is discovered: its record is read, its ports are probed.
AttachBegins ==
  /\ setup = "running" /\ poll = "idle" /\ ~on
  /\ seen' = intent /\ poll' = "attach"
  /\ UNCHANGED <<sup, on, enabled, intent>> /\ UNCHANGED pollOnly

\* The probes are over.  A port that stays taken blocks the phone, which is
\* listed all the same; a leftover of Bodun's own is stopped, under the
\* serialization of the lifecycle operations.
AttachProbed ==
  /\ poll = "attach" /\ (Adopts \/ Idle)
  /\ IF ShuttingDown THEN poll' = "idle" /\ UNCHANGED <<sup, on, enabled>>
     ELSE \/ \* the ports are free, or adopted
             /\ \E t \in (IF Adopts THEN {sup["iproxy"]} ELSE PortFreed) :
                  sup' = [sup EXCEPT !["iproxy"] = t]
             /\ on' = TRUE /\ enabled' = seen
             /\ poll' = IF seen THEN "check" ELSE "idle"
          \/ \* the port is taken
             /\ ~Adopts /\ PortTaken
             /\ on' = TRUE /\ enabled' = seen /\ poll' = "idle" /\ UNCHANGED sup
          \/ \* the phone's record cannot be saved: not this time
             /\ StoreMayFail /\ poll' = "idle" /\ UNCHANGED <<sup, on, enabled>>
  /\ UNCHANGED <<intent, seen>> /\ UNCHANGED pollOnly

\* The look for another xcodebuild is over: both processes are started,
\* whatever has become of the entry meanwhile.
AttachStarts ==
  /\ poll = "check"
  /\ \/ ForeignWda /\ poll' = "idle" /\ UNCHANGED sup
     \/ /\ NoForeignWda
        /\ \E r \in StartPair(sup["wda"], sup["iproxy"], Adopts) :
            IF r[3] /\ ~ShuttingDown
              THEN sup' = [wda |-> r[1], iproxy |-> r[2]] /\ poll' = "idle"
            ELSE /\ sup' = [wda |-> Stop(r[1]),
                            iproxy |-> IF ShuttingDown THEN sup["iproxy"]
                                       ELSE IF StartOk(sup["wda"]) /\ ~Adopts THEN Stop(r[2]) ELSE r[2]]
                 /\ poll' = "undo"
  /\ UNCHANGED <<on, enabled, intent, seen>> /\ UNCHANGED pollOnly

AttachUndone ==
  /\ poll = "undo" /\ BothSettled
  /\ poll' = "idle"
  /\ UNCHANGED <<sup, on, enabled, intent, seen>> /\ UNCHANGED pollOnly

\* The readiness probes have failed although both processes run: WDA is
\* restarted, or, when its port may be down, the port is probed first.
RecoverBegins ==
  /\ setup = "running" /\ poll = "idle" /\ on /\ enabled
  /\ \A k \in Kinds : sup[k].state = "running"
  /\ \/ /\ \E w \in Start(Stop(sup["wda"])) : sup' = [sup EXCEPT !["wda"] = w]
        /\ UNCHANGED poll
     \/ poll' = "probe" /\ UNCHANGED sup
  /\ UNCHANGED <<on, enabled, intent, seen>> /\ UNCHANGED pollOnly

\* The probe is back: the tunnel is restarted if nobody listens, else WDA;
\* whatever has become of the entry meanwhile.
RecoverProbed ==
  /\ poll = "probe"
  /\ \E k \in IF Alive(sup["iproxy"]) # {} THEN {"wda"}
              ELSE IF "port" \in Foreigners THEN Kinds ELSE {"iproxy"} :
     \E r \in Start(Stop(sup[k])) : sup' = [sup EXCEPT ![k] = r]
  /\ poll' = "idle"
  /\ UNCHANGED <<on, enabled, intent, seen>> /\ UNCHANGED pollOnly

\* The phone is gone: the poll waits for its turn among the lifecycle
\* operations, stops both processes, and when they have settled the phone
\* leaves the runtime map.
DetachAsked ==
  /\ setup = "running" /\ poll = "idle" /\ on
  /\ poll' = "detach"
  /\ UNCHANGED <<sup, on, enabled, intent, seen>> /\ UNCHANGED pollOnly

DetachBegins ==
  /\ poll = "detach" /\ Idle
  /\ sup' = StopBoth /\ op' = At("detach", "stops")
  /\ UNCHANGED <<setup, on, enabled, intent, seen, poll, busyPort, crashes>>

\* Fault: a detach waits for the proof that both processes are gone.
DetachOnlyWithProof ==
  /\ op = At("detach", "stops") /\ BothSettled /\ BothOk
  /\ on' = FALSE /\ enabled' = FALSE /\ poll' = "idle" /\ op' = NoOp
  /\ UNCHANGED <<sup, setup, intent, seen, busyPort, crashes>>

DetachEnds ==
  /\ op = At("detach", "stops") /\ BothSettled
  /\ on' = FALSE /\ enabled' = FALSE /\ poll' = "idle" /\ op' = NoOp
  /\ UNCHANGED <<sup, setup, intent, seen, busyPort, crashes>>

----------------------------------------------------------------------------
\* The lifecycle operations.  Each begins when the one before it is over.

opOnly == <<setup, on, seen, poll, crashes>>

Begins == Idle /\ ~ShuttingDown

\* startDevice: an enabled phone is started again only when both processes
\* are down.
StartBegins ==
  /\ Begins /\ on /\ (enabled => \A k \in Kinds : ~IsRunning(sup[k]))
  /\ op' = At("start", "check")
  /\ UNCHANGED <<sup, enabled, intent, busyPort>> /\ UNCHANGED opOnly

RestartBegins ==
  /\ Begins /\ on /\ enabled
  /\ op' = At("restart", "check")
  /\ UNCHANGED <<sup, enabled, intent, busyPort>> /\ UNCHANGED opOnly

RetryBegins ==
  /\ Begins /\ on
  /\ op' = At("retry", "check")
  /\ UNCHANGED <<sup, enabled, intent, busyPort>> /\ UNCHANGED opOnly

\* retryTunnel: the tunnel alone, while WDA runs.
TunnelBegins ==
  /\ Begins /\ on /\ enabled /\ sup["wda"].state = "running"
  /\ sup' = [sup EXCEPT !["iproxy"] = Stop(@)]
  /\ op' = At("tunnel", "stops")
  /\ UNCHANGED <<enabled, intent, busyPort>> /\ UNCHANGED opOnly

\* _recoverOccupiedIproxyPorts, when its turn comes.
PortRecoveryBegins ==
  /\ Idle /\ busyPort /\ busyPort' = FALSE
  /\ IF on /\ enabled /\ ~ShuttingDown
       THEN sup' = [sup EXCEPT !["iproxy"] = Stop(@)] /\ op' = At("recover", "stops")
     ELSE UNCHANGED <<sup, op>>
  /\ UNCHANGED <<enabled, intent>> /\ UNCHANGED opOnly

\* stopDevice of an enabled phone: disabled, saved, and both processes asked
\* to stop.  When saving throws, the rest does not happen.
StopBegins ==
  /\ Begins /\ on /\ enabled /\ enabled' = FALSE
  /\ \/ Saved(FALSE) /\ sup' = StopBoth /\ op' = At("stop", "stops")
     \/ SaveFails /\ UNCHANGED <<sup, op>>
  /\ UNCHANGED busyPort /\ UNCHANGED opOnly

\* stopDevice of a phone that is unplugged: the choice is saved.
StopDetached ==
  /\ Begins /\ ~on
  /\ \/ Saved(FALSE) /\ sup' = StopBoth /\ op' = At("stop", "stops")
     \/ SaveFails /\ UNCHANGED <<sup, op>>
  /\ UNCHANGED <<enabled, busyPort>> /\ UNCHANGED opOnly

\* stopDevice of a phone that is off but has a stop that was not confirmed.
StopAgain ==
  /\ Begins /\ on /\ ~enabled /\ ~BothOk
  /\ op' = At("stop", "clear")
  /\ UNCHANGED <<sup, enabled, intent, busyPort>> /\ UNCHANGED opOnly

\* The look for another xcodebuild is over.
Checked ==
  /\ op.at = "check"
  /\ \/ ForeignWda /\ op' = NoOp /\ UNCHANGED sup
     \/ /\ NoForeignWda /\ op.kind = "retry"
        /\ sup' = [wda |-> Stop(sup["wda"]),
                   iproxy |-> IF Adopts THEN sup["iproxy"] ELSE Stop(sup["iproxy"])]
        /\ op' = At("retry", "stops")
     \/ NoForeignWda /\ op.kind # "retry" /\ op' = At(op.kind, "clear") /\ UNCHANGED sup
  /\ UNCHANGED <<enabled, intent, busyPort>> /\ UNCHANGED opOnly

\* _clearStopFailures of one supervisor: the blocked stop is lifted if its
\* process is proven gone, if necessary after it has been reclaimed.
Cleared(s) ==
  IF ~s.blocked THEN {s}
  ELSE IF ConfirmGone(s) THEN Unblocked(s)
  ELSE UNION {UNION {Unblocked(r) : r \in IF p \in s.children THEN Exited(s, p)
                                          ELSE {[s EXCEPT !.orphans = @ \ {p}]}}
              : p \in Provable(s)}

\* The blocked stops are lifted, or one of them cannot be.  A restart then
\* saves its choice and stops both processes; a start goes on to the ports.
ClearEnds ==
  /\ op.at = "clear"
  /\ \/ /\ \E w \in Cleared(sup["wda"]), t \in Cleared(sup["iproxy"]) :
             LET now == [wda |-> w, iproxy |-> t] IN
             \/ op.kind = "start" /\ sup' = now /\ op' = At("start", "ports") /\ UNCHANGED intent
             \/ op.kind = "stop" /\ sup' = now /\ op' = NoOp /\ UNCHANGED intent
             \/ /\ op.kind = "restart" /\ Saved(TRUE)
                /\ sup' = [k \in Kinds |-> Stop(now[k])] /\ op' = At("restart", "stops")
             \/ op.kind = "restart" /\ SaveFails /\ sup' = now /\ op' = NoOp
     \/ ~BothOk /\ op' = NoOp /\ UNCHANGED <<sup, intent>>
  /\ UNCHANGED <<enabled, busyPort>> /\ UNCHANGED opOnly

\* The stops have settled.
StopsEnd ==
  /\ op.at = "stops" /\ op.kind # "detach"
  /\ LET mine == IF op.kind \in {"tunnel", "recover"} THEN {"iproxy"} ELSE Kinds IN
     /\ \A k \in mine : Settled(sup[k])
     /\ IF op.kind = "stop" THEN op' = NoOp /\ UNCHANGED sup
        ELSE IF \A k \in mine : StopOk(sup[k])
          THEN op' = At(op.kind, "ports") /\ UNCHANGED sup
        ELSE IF op.kind = "restart" THEN op' = At("restart", "undo") /\ sup' = StopBoth
        ELSE op' = NoOp /\ UNCHANGED sup
  /\ UNCHANGED <<enabled, intent, busyPort>> /\ UNCHANGED opOnly

\* The ports have been looked at.  While the server shuts down nothing is
\* started; a port that stays taken ends the operation, after a restart has
\* stopped both processes once more.
PortsTaken ==
  /\ op.at = "ports"
  /\ ShuttingDown \/ (PortTaken /\ ~(op.kind \in {"start", "retry"} /\ Adopts))
  /\ IF op.kind = "restart" THEN sup' = StopBoth /\ op' = At("restart", "undo")
     ELSE op' = NoOp /\ UNCHANGED sup
  /\ UNCHANGED <<enabled, intent, busyPort>> /\ UNCHANGED opOnly

\* A start that has both ports: the choice is saved and both are started.  A
\* start that fails stops both again.
PortsFree ==
  /\ op.at = "ports" /\ ~ShuttingDown /\ op.kind \in {"start", "retry", "restart"}
  /\ \E t \in (IF Adopts THEN {sup["iproxy"]} ELSE PortFreed) :
     \E r \in StartPair(sup["wda"], t, Adopts) :
       \/ /\ Saved(TRUE) /\ enabled' = TRUE
          /\ IF r[3]
               THEN /\ sup' = [wda |-> r[1], iproxy |-> r[2]]
                    /\ op' = IF op.kind = "start" THEN NoOp ELSE At(op.kind, "ready")
             ELSE /\ sup' = [wda |-> Stop(r[1]), iproxy |-> Stop(r[2])]
                  /\ op' = At(op.kind, "undo")
       \/ /\ op.kind # "restart" /\ SaveFails /\ enabled' = TRUE
          /\ IF op.kind = "start"
               THEN sup' = [sup EXCEPT !["iproxy"] = t] /\ op' = NoOp
             ELSE /\ sup' = [wda |-> Stop(sup["wda"]), iproxy |-> Stop(t)]
                  /\ op' = At("retry", "undo")
  /\ UNCHANGED busyPort /\ UNCHANGED opOnly

\* The tunnel alone is started again.
TunnelStarts ==
  /\ op.at = "ports" /\ ~ShuttingDown /\ op.kind \in {"tunnel", "recover"}
  /\ \E t \in PortFreed : \E t1 \in Start(t) : sup' = [sup EXCEPT !["iproxy"] = t1]
  /\ op' = IF op.kind = "tunnel" THEN At("tunnel", "ready") ELSE NoOp
  /\ UNCHANGED <<enabled, intent, busyPort>> /\ UNCHANGED opOnly

\* What follows a start is over: control was waited for, and the request was
\* authorized once more.  A tunnel without control is stopped again; a restart
\* or a retry that is not authorized any more stops both processes.
Verified ==
  /\ op.at = "ready"
  /\ \/ op' = NoOp /\ UNCHANGED sup
     \/ /\ op' = At(op.kind, "undo")
        /\ sup' = IF op.kind = "tunnel" THEN [sup EXCEPT !["iproxy"] = Stop(@)] ELSE StopBoth
  /\ UNCHANGED <<enabled, intent, busyPort>> /\ UNCHANGED opOnly

\* The stops after a failure have settled: a retry leaves the phone disabled,
\* and so does a restart that lost its authorization; any other restart, or a
\* start, leaves it as it was wanted.
OpUndone ==
  /\ op.at = "undo" /\ op' = NoOp
  /\ \A k \in (IF op.kind = "tunnel" THEN {"iproxy"} ELSE Kinds) : Settled(sup[k])
  /\ \/ op.kind # "retry" /\ UNCHANGED <<enabled, intent>>
     \/ op.kind \in {"retry", "restart"} /\ enabled' = FALSE /\ (Saved(FALSE) \/ SaveFails)
  /\ UNCHANGED <<sup, busyPort>> /\ UNCHANGED opOnly

----------------------------------------------------------------------------
\* Shutdown and crash.

\* stop(): everything is stopped straight away.
ShutdownBegins ==
  /\ setup \in {"checking", "paused", "running"}
  /\ setup' = "stopping" /\ sup' = StopBoth
  /\ UNCHANGED <<on, enabled, intent, seen, poll, op, busyPort, crashes>>

\* Fault: what started after the first stops is left.
NoSecondStop ==
  /\ setup = "stopping" /\ poll = "idle" /\ Idle /\ BothSettled
  /\ setup' = "second"
  /\ UNCHANGED <<sup, on, enabled, intent, seen, poll, op, busyPort, crashes>>

\* The poll and the lifecycle operations are over and the first stops have
\* settled: everything is stopped once more.
ShutdownAgain ==
  /\ setup = "stopping" /\ poll = "idle" /\ Idle /\ BothSettled
  /\ setup' = "second" /\ sup' = StopBoth
  /\ UNCHANGED <<on, enabled, intent, seen, poll, op, busyPort, crashes>>

ShutdownEnds ==
  /\ setup = "second" /\ BothSettled
  /\ setup' = "down"
  /\ UNCHANGED <<sup, on, enabled, intent, seen, poll, op, busyPort, crashes>>

\* The server dies and is started again: only the files and the processes are
\* left.
Crash ==
  /\ crashes < MaxCrashes /\ crashes' = crashes + 1
  /\ sup' = [k \in Kinds |-> Crashed(sup[k])]
  /\ setup' = "checking" /\ on' = FALSE /\ enabled' = FALSE /\ seen' = FALSE
  /\ poll' = "idle" /\ op' = NoOp /\ busyPort' = FALSE
  /\ UNCHANGED intent

ProcessStep ==
  \E k \in Kinds :
    \/ \E p \in Pids : ChildExits(k, p) \/ OrphanExits(k, p)
    \/ Restarted(k) \/ RecordSettles(k) \/ GraceEnds(k) \/ KillWaitEnds(k)

PollStep ==
  \/ AttachBegins \/ AttachProbed \/ AttachStarts \/ AttachUndone
  \/ RecoverBegins \/ RecoverProbed \/ DetachAsked \/ DetachBegins

OpBegins ==
  \/ StartBegins \/ RestartBegins \/ RetryBegins \/ TunnelBegins
  \/ StopBegins \/ StopDetached \/ StopAgain

OpStep ==
  \/ PortRecoveryBegins \/ Checked \/ ClearEnds \/ StopsEnd \/ PortsTaken
  \/ PortsFree \/ TunnelStarts \/ Verified \/ OpUndone \/ DetachEnds

ShutdownStep == ShutdownAgain \/ ShutdownEnds

ProvNext ==
  \/ ProcessStep \/ Check \/ PollStep \/ OpBegins \/ OpStep
  \/ ShutdownBegins \/ ShutdownStep \/ Crash

ProvSpec == ProvInit /\ [][ProvNext]_provVars

\* Timers fire and awaited calls come back, in whatever order.  An attach that
\* waits for the lifecycle operations has its turn, and so has the detach; and
\* an await of stops ends with those, whatever is stopped later.
ProvFairness ==
  /\ \A k \in Kinds : SF_provVars(RecordSettles(k) \/ GraceEnds(k) \/ KillWaitEnds(k))
  /\ SF_provVars(AttachProbed \/ AttachStarts \/ AttachUndone \/ RecoverProbed \/ DetachBegins)
  /\ SF_provVars(OpStep) /\ SF_provVars(ShutdownStep)
ProvFairSpec == ProvSpec /\ ProvFairness

----------------------------------------------------------------------------
(* Properties *)

\* Two xcodebuilds on one phone, or two tunnels on one port, fight each other
\* (_assertNoForeignWda, _resolvePortConflict): whatever the order of stops,
\* restarts, operators' requests and crashes, there is never a second one.
OneProcess == \A k \in Kinds : Cardinality(Alive(sup[k])) <= 1

\* A process this server started is accounted for: it is the entry's, a stop
\* waits for it, or its key is blocked (processSupervisor.js fails closed).
ChildrenAreHeld ==
  \A k \in Kinds : \A p \in sup[k].children :
    p \in {sup[k].child, sup[k].stopping} \/ sup[k].blocked

\* A process that may outlive this server can be found by the next one: it is
\* in the file, or about to be written, or its key is blocked
\* (processOwnershipStore.js).
ChildrenAreRemembered ==
  \A k \in Kinds : \A p \in sup[k].children :
    p \in {sup[k].saved, sup[k].recording, sup[k].stopping} \/ sup[k].blocked

\* While nothing is under way for a phone that is off the cable and out of the
\* map, nothing is supervised for it and no start is queued (_onDetach).
DetachedHasNothing ==
  ~on /\ poll = "idle" /\ Idle =>
    \A k \in Kinds : ~IsRunning(sup[k]) /\ ~sup[k].waiting

\* When shutdown is over nothing is left that could be started or restarted,
\* and no process is alive that did not resist SIGKILL (stop()).
ShutdownLeavesNothing ==
  setup = "down" => \A k \in Kinds :
    ~IsRunning(sup[k]) /\ ~sup[k].waiting /\ (sup[k].children = {} \/ sup[k].blocked)

\* No process is doubled, lost sight of, forgotten by the disk or left behind.
ProcessesAreKept ==
  /\ OneProcess /\ ChildrenAreHeld /\ ChildrenAreRemembered
  /\ DetachedHasNothing /\ ShutdownLeavesNothing

\* What the code says of an operator's stop and does not keep (finding): a
\* phone that was stopped, and saved as such, does not get a process again
\* before somebody asks for it.
StoppedStaysStopped ==
  [][~enabled /\ ~enabled' /\ ~intent /\ ~intent' =>
       \A k \in Kinds : sup'[k].children \subseteq sup[k].children]_provVars

\* Shutdown completes, even when a process cannot be killed, and a phone that was unplugged
\* leaves the map, whatever its processes and the operators do.
LifecycleCompletes ==
  /\ setup = "stopping" ~> setup \notin {"stopping", "second"}
  /\ poll = "detach" ~> ~on
=============================================================================
