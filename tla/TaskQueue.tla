----------------------------- MODULE TaskQueue -----------------------------
(***************************************************************************)
(* The durable task queue and scheduler (system/server/src/taskQueue.js)   *)
(* together with the leases it moves (deviceLease.js), the snapshot it is  *)
(* reloaded from (persistence/) and the research workers that run what it  *)
(* dispatches (researchTaskRunner.js, researchWorker.js).                  *)
(*                                                                         *)
(* The server is one Node.js process: a handler runs to its next await     *)
(* without interruption, so each action below is one such stretch.  Two    *)
(* stretches are spread over several steps: tryDispatch offers one free    *)
(* device per step (sweep holds the devices still to be offered), because  *)
(* each dispatch is persisted by itself and the process may die between    *)
(* two of them; and a worker is started and returns from a report inside   *)
(* that same stretch.  Until the stretch is over (Quiet) nothing else but  *)
(* a restart can happen.                                                   *)
(*                                                                         *)
(* Time is kept as what has come to pass (clock): whether a task's window  *)
(* is early, open or closed, whether its duration limit has run out, and   *)
(* whether its retry backoff is still running.                             *)
(***************************************************************************)
EXTENDS DeviceLease, FleetPolicy, SequencesExt

CONSTANTS
  Devices, NoDevice,  \* phones; no phone chosen yet
  TaskInput,          \* what createTaskSpec was given for each task
  Priorities,         \* priorities operators use, out of the code's four
  Permitted,          \* <<task, device>> pairs authorization and network allow
  Configured,         \* devices in the configuration, present when the queue loads
  BootStatus,         \* status a configured device is constructed with
  DiskMayFail         \* whether saving the snapshot may fail

Ranking == [urgent |-> 0, high |-> 1, normal |-> 2, low |-> 3]

TaskInputs ==
  [device : Devices \cup {NoDevice}, allowed : SUBSET Devices, deps : SUBSET Tasks,
   early : BOOLEAN, late : BOOLEAN, overrun : BOOLEAN, timed : BOOLEAN,
   maxRetries : Nat, backoff : BOOLEAN, priority : Priorities]

ASSUME QueueAssumption ==
  /\ NoDevice \notin Devices
  /\ Priorities \subseteq DOMAIN Ranking
  /\ TaskInput \in [Tasks -> TaskInputs]
  /\ Research \subseteq Tasks
  /\ Permitted \subseteq Tasks \X Devices
  /\ Configured \subseteq Devices
  /\ BootStatus \in [Configured -> {"idle", "offline"}]
  /\ DiskMayFail \in BOOLEAN

VARIABLES
  task,      \* task -> its record in memory
  order,     \* the queue's array: task ids in dispatch order
  paused,    \* the whole queue is paused
  holds,     \* humanHolds: devices reserved for a person
  disk,      \* the durable snapshot
  lease,     \* device -> its input lease
  status,    \* device -> what the control sessions and health checks set
  attached,  \* devices in the devices map
  worker,    \* task -> where its research worker is
  sweep,     \* devices the running tryDispatch has still to offer
  clock      \* task -> what time has done to it

vars == <<task, order, paused, holds, disk, lease, status, attached, worker, sweep, clock>>

\* Task states the queue uses; ABSENT is a task not (or not yet) added.
Active   == {"RUNNING", "PAUSED"}
Terminal == {"SUCCEEDED", "PARTIAL", "FAILED_FINAL", "CANCELLED", "EXPIRED"}
TaskStates == {"ABSENT", "SCHEDULED", "QUEUED", "NEEDS_HUMAN"} \cup Active \cup Terminal

\* progress: at least one checkpoint is recorded.
TaskRecords == [state : TaskStates, device : Devices \cup {NoDevice},
                priority : Priorities, retries : Nat, progress : BOOLEAN]

\* Where a worker is between two of its awaits:
\*   none      no entry in the runner's active map
\*   start     launched by the dispatch that is still on the call stack
\*   loop      at the top of its loop, or asleep before it
\*   plan      observing, or waiting for the model's decision
\*   detect    action submitted, still recognising the screen: no input yet
\*   input     the skill is sending input to the phone, or verifying it
\*   verified  recording what a verified step found
\*   return    back from a report that is still on the call stack
Workers == {"none", "start", "loop", "plan", "detect", "input", "verified", "return"}

Clocks == [window : {"early", "open", "closed"}, overdue : BOOLEAN, waiting : BOOLEAN]

Snapshot(tk, or, pa, ho) == [task |-> tk, order |-> or, paused |-> pa, holds |-> ho]

NewTask(t) == [state |-> "ABSENT", device |-> TaskInput[t].device,
               priority |-> TaskInput[t].priority, retries |-> 0, progress |-> FALSE]

\* Outcomes of a save.
SaveOutcomes == IF DiskMayFail THEN BOOLEAN ELSE {TRUE}

-----------------------------------------------------------------------------
(* Time and eligibility.                                                   *)

WindowOpen(t) ==
  /\ TaskInput[t].early => clock[t].window # "early"
  /\ TaskInput[t].late => clock[t].window # "closed"

WindowExpired(t) == TaskInput[t].late /\ clock[t].window = "closed"

ExecutionExpired(t) ==
  clock[t].overdue \/ (~TaskInput[t].overrun /\ WindowExpired(t))

\* Fault: a retry does not wait for its backoff.
EligibleAtOnce(t) ==
  /\ task[t].state = "QUEUED"
  /\ WindowOpen(t)
  /\ \A u \in TaskInput[t].deps : task[u].state = "SUCCEEDED"

Eligible(t) ==
  /\ task[t].state = "QUEUED"
  /\ WindowOpen(t)
  /\ ~clock[t].waiting
  /\ \A u \in TaskInput[t].deps : task[u].state = "SUCCEEDED"

Running == {t \in Tasks : task[t].state = "RUNNING"}

\* pickTaskForDevice's filters: canDispatch, a pin (every dispatched task is
\* pinned to its device from then on) and the creator's allow-list.
Candidates(d) ==
  {t \in Tasks : /\ Eligible(t)
                 /\ <<t, d>> \in Permitted /\ FleetAllows(t, d, Running)
                 /\ task[t].device \in {NoDevice, d}
                 /\ d \in TaskInput[t].allowed}

Precedes(t, u) == \E i, j \in DOMAIN order : i < j /\ order[i] = t /\ order[j] = u

\* Highest priority first, then array order.
Outranks(t, u) ==
  LET rt == Ranking[task[t].priority]
      ru == Ranking[task[u].priority]
  IN rt < ru \/ (rt = ru /\ Precedes(t, u))

\* findActiveTaskForDevice: the first active task on the device, if any.
Holder(d) ==
  LET active == {t \in Tasks : task[t].state \in Active /\ task[t].device = d}
  IN {t \in active : \A u \in active : u = t \/ Precedes(t, u)}

\* Fault: devices held for a person are offered too.
FreeOrHeldDevices ==
  {d \in attached : /\ lease[d].pending = NoTask
                    /\ \/ lease[d].mode = "AI_IDLE"
                       \/ lease[d].mode = "HUMAN" /\ status[d] = "idle"}

FreeDevices ==
  {d \in attached : /\ d \notin holds
                    /\ lease[d].pending = NoTask
                    /\ \/ lease[d].mode = "AI_IDLE"
                       \/ lease[d].mode = "HUMAN" /\ status[d] = "idle"}

\* tryDispatch: every device free at this moment will be offered.
TryDispatch == sweep' = (IF paused THEN {} ELSE FreeDevices)'

\* No synchronous stretch is in progress.
Quiet == sweep = {} /\ \A t \in Tasks : worker[t] \notin {"start", "return"}

\* Fault: only a paused task gives its device back.
ReleaseIfPaused(l) == IF l.mode = "AI_PAUSED" THEN FinishAiTask(l) ELSE l

ReleaseDevice(l) ==
  IF l.mode \in {"AI_RUNNING", "AI_PAUSED"} THEN FinishAiTask(l) ELSE l

\* The tasks of S in memory, given a state.
WithState(S, state) ==
  [t \in Tasks |-> IF t \in S THEN [task[t] EXCEPT !.state = state] ELSE task[t]]

\* emit("dispatched"): the runner launches a worker for a research task, or
\* coalesces with the one the task already has.
Launched(t) ==
  [worker EXCEPT ![t] = IF t \in Research /\ @ = "none" THEN "start" ELSE @]

-----------------------------------------------------------------------------
(* The scheduler.  A call that saves before it changes memory is left      *)
(* without effect by a failing save, so its failure is a stuttering step.  *)

Ticked(r, t) ==
  [r EXCEPT !.state =
     IF @ = "SCHEDULED" /\ WindowOpen(t) THEN "QUEUED"
     ELSE IF @ \in {"SCHEDULED", "QUEUED"} /\ WindowExpired(t) THEN "EXPIRED"
     ELSE IF @ \in Active /\ ExecutionExpired(t)
          THEN IF r.progress THEN "PARTIAL" ELSE "EXPIRED"
     ELSE @]

Expiring == {t \in Tasks : task[t].state \in Active /\ ExecutionExpired(t)}

\* tick on the queue tk in array order or, over the leases ls.
RunTick(tk, or, ls) ==
  /\ task' = [t \in Tasks |-> Ticked(tk[t], t)]
  /\ order' = or
  /\ lease' = [d \in Devices |-> IF \E t \in Expiring : task[t].device = d
                                  THEN ReleaseDevice(ls[d]) ELSE ls[d]]
  /\ disk' = IF task' = task THEN disk ELSE Snapshot(task', or, paused, holds)
  /\ UNCHANGED <<paused, holds, status, attached, clock>>
  /\ TryDispatch

Tick == Quiet /\ RunTick(task, order, lease) /\ UNCHANGED worker

\* The task is saved before it is exposed; the tick after it may fail alone.
AddTask(t) ==
  /\ Quiet
  /\ task[t].state = "ABSENT"
  /\ LET added == WithState({t}, IF TaskInput[t].early THEN "SCHEDULED" ELSE "QUEUED")
     IN \/ RunTick(added, Append(order, t), lease)
        \/ /\ DiskMayFail
           /\ \E u \in Tasks : Ticked(added[u], u) # added[u]
           /\ task' = added
           /\ order' = Append(order, t)
           /\ disk' = Snapshot(added, order', paused, holds)
           /\ UNCHANGED <<paused, holds, lease, status, attached, sweep, clock>>
  /\ UNCHANGED worker

\* Leases whose device may start a task without an illegal transition.
CanStart(l) == CanSwitchToAI(l) \/ CanApply(l, "START_TASK")

\* Fault: the dispatch is announced without being saved.
DispatchUnsaved(t, d) ==
  /\ CanStart(lease[d])
  /\ task' = [task EXCEPT ![t].state = "RUNNING", ![t].device = d]
  /\ clock' = [clock EXCEPT ![t].overdue = FALSE, ![t].waiting = FALSE]
  /\ lease' = [lease EXCEPT ![d] = ApplyEvent(@, "START_TASK")]
  /\ worker' = Launched(t)
  /\ UNCHANGED disk

\* dispatchTaskToDevice, saved.  A device the sweep lists but a nested
\* dispatch has taken meanwhile fails START_TASK and is only dropped.
Dispatch(t, d) ==
  /\ CanStart(lease[d])
  /\ task' = [task EXCEPT ![t].state = "RUNNING", ![t].device = d]
  /\ clock' = [clock EXCEPT ![t].overdue = FALSE, ![t].waiting = FALSE]
  /\ lease' = [lease EXCEPT ![d] = ApplyEvent(@, "START_TASK")]
  /\ disk' = Snapshot(task', order, paused, holds)
  /\ worker' = Launched(t)

\* dispatchTaskToDevice, rolled back: the task and its time are as before.
DispatchFails(d) ==
  /\ DiskMayFail
  /\ CanStart(lease[d])
  /\ lease' = [lease EXCEPT ![d] = IF @.mode = "AI_IDLE"
                                    THEN ApplyEvent(@, "TASK_FINISHED") ELSE EmergencyStop(@)]
  /\ UNCHANGED <<task, clock, disk, worker>>

\* The next device of tryDispatch's list.  A worker launched by the device
\* before runs its first stretch first.
Offer(d) ==
  /\ d \in sweep
  /\ \A t \in Tasks : worker[t] # "start"
  /\ sweep' = sweep \ {d}
  /\ LET best == {t \in Candidates(d) : \A u \in Candidates(d) \ {t} : Outranks(t, u)}
     IN \/ \E t \in best : Dispatch(t, d)
        \/ best # {} /\ DispatchFails(d)
        \/ /\ best = {} \/ ~CanStart(lease[d])
           /\ UNCHANGED <<task, clock, disk, worker, lease>>
  /\ UNCHANGED <<order, paused, holds, status, attached>>

-----------------------------------------------------------------------------
(* reportResult and the research worker of a task.                         *)

\* An attempt of t failed: it is counted, and retried while it may be.
Retried(r, t) ==
  [r EXCEPT !.retries = @ + 1,
     !.state = IF r.retries + 1 <= TaskInput[t].maxRetries THEN "QUEUED" ELSE "FAILED_FINAL"]

Reported(t, outcome) ==
  IF outcome = "FAILED_RETRYABLE" THEN Retried(task[t], t) ELSE [task[t] EXCEPT !.state = outcome]

\* reportResult, with the lease l its device has by then; ok tells whether
\* the (first) save succeeds.  If not, memory and the lease have changed and
\* the error ends the worker.  The second save of a NEEDS_HUMAN report stores
\* nothing this model tells apart.
Report(t, outcome, l, ok) ==
  LET d == task[t].device
  IN /\ task[t].state = "RUNNING"
     /\ task' = [task EXCEPT ![t] = Reported(t, outcome)]
     /\ clock' = [clock EXCEPT ![t].waiting = task'[t].state = "QUEUED" /\ TaskInput[t].backoff]
     /\ holds' = holds \cup (IF outcome = "NEEDS_HUMAN" THEN {d} ELSE {})
     /\ lease' = [lease EXCEPT ![d] = IF outcome # "NEEDS_HUMAN" THEN ReleaseDevice(l)
                                       ELSE IF ok THEN SwitchToHuman(l) ELSE l]
     /\ UNCHANGED <<order, paused, status, attached>>
     /\ \/ /\ ok
           /\ disk' = Snapshot(task', order, paused, holds')
           /\ TryDispatch
           /\ worker' = [worker EXCEPT ![t] = "return"]
        \/ /\ ~ok
           /\ worker' = [worker EXCEPT ![t] = "none"]
           /\ UNCHANGED <<disk, sweep>>

\* The worker still owns what it captured: its task runs and the token is
\* the one of its step.
Owns(t) == task[t].state = "RUNNING" /\ lease[task[t].device].token = t

\* The worker finds its task overdue and ticks the queue; if that cannot be
\* saved the error fails the task instead.
WorkerTick(t, l) ==
  /\ task[t].state = "RUNNING" /\ ExecutionExpired(t)
  /\ \/ /\ RunTick(task, order, [lease EXCEPT ![task[t].device] = l])
        /\ worker' = [worker EXCEPT ![t] = "return"]
     \/ DiskMayFail /\ \E ok \in BOOLEAN : Report(t, "FAILED_FINAL", l, ok)

\* After a step that came to nothing: another iteration, or the end.
Resumed(t) ==
  [worker EXCEPT ![t] = IF task[t].state \in Active THEN "loop" ELSE "none"]

\* The synchronous start of a worker, nested in the dispatch that launched
\* it.  A task without account, provider or skill fails there; the sweep of
\* its report takes over the devices the outer one has left.
WorkerStart(t) ==
  /\ worker[t] = "start"
  /\ \/ /\ worker' = [worker EXCEPT ![t] = "loop"]
        /\ UNCHANGED <<task, order, paused, holds, disk, lease, status, attached, sweep, clock>>
     \/ \E ok \in SaveOutcomes : Report(t, "FAILED_FINAL", lease[task[t].device], ok)

\* Fault: the worker ends although its task was dispatched again.
ReturnEnds(t) ==
  /\ worker[t] = "return" /\ sweep = {}
  /\ \A u \in Tasks : worker[u] # "start"
  /\ worker' = [worker EXCEPT ![t] = "none"]
  /\ UNCHANGED <<task, order, paused, holds, disk, lease, status, attached, sweep, clock>>

\* Back in the runner after a report's dispatches: if they dispatched this
\* very task again, the coalesced worker goes on with it.
Return(t) ==
  /\ worker[t] = "return" /\ sweep = {}
  /\ \A u \in Tasks : worker[u] # "start"
  /\ worker' = Resumed(t)
  /\ UNCHANGED <<task, order, paused, holds, disk, lease, status, attached, sweep, clock>>

\* Top of the loop, task running: capture the token and start a step.
StartStep(t) ==
  /\ Quiet /\ worker[t] = "loop" /\ task[t].state = "RUNNING" /\ ~ExecutionExpired(t)
  /\ lease[task[t].device].mode = "AI_RUNNING"
  /\ lease' = [lease EXCEPT ![task[t].device] = CaptureToken(@, t)]
  /\ worker' = [worker EXCEPT ![t] = "plan"]
  /\ UNCHANGED <<task, order, paused, holds, disk, status, attached, sweep, clock>>

\* Top of the loop: the session's budget ends it, or an error does.
EndSession(t) ==
  /\ Quiet /\ worker[t] = "loop"
  /\ \/ WorkerTick(t, lease[task[t].device])
     \/ \E outcome \in {"SUCCEEDED", "PARTIAL", "FAILED_FINAL"}, ok \in SaveOutcomes :
          Report(t, outcome, lease[task[t].device], ok)

\* Top of the loop: the task is no longer active.
LeaveLoop(t) ==
  /\ Quiet /\ worker[t] = "loop" /\ task[t].state \notin Active
  /\ worker' = [worker EXCEPT ![t] = "none"]
  /\ UNCHANGED <<task, order, paused, holds, disk, lease, status, attached, sweep, clock>>

\* A checkpoint of the run or of its budget, outside a verified step.
Checkpoint(t) ==
  /\ Quiet /\ worker[t] = "loop" /\ task[t].state = "RUNNING" /\ ~task[t].progress
  /\ task' = [task EXCEPT ![t].progress = TRUE]
  /\ disk' = Snapshot(task', order, paused, holds)
  /\ UNCHANGED <<order, paused, holds, lease, status, attached, worker, sweep, clock>>

\* The plan is not carried out: the model fails, policy refuses, a person is
\* needed, or the task was taken away meanwhile.
DropPlan(t) ==
  /\ Quiet /\ worker[t] = "plan"
  /\ \/ WorkerTick(t, lease[task[t].device])
     \/ /\ Owns(t) /\ ~ExecutionExpired(t)
        /\ \E outcome \in {"FAILED_RETRYABLE", "FAILED_FINAL", "NEEDS_HUMAN"}, ok \in SaveOutcomes :
             Report(t, outcome, lease[task[t].device], ok)
     \/ /\ ~Owns(t) /\ ~(task[t].state = "RUNNING" /\ ExecutionExpired(t))
        /\ worker' = Resumed(t)
        /\ UNCHANGED <<task, order, paused, holds, disk, lease, status, attached, sweep, clock>>

\* The decision is submitted and registered as the device's pending action.
SubmitAction(t) ==
  /\ Quiet /\ worker[t] = "plan" /\ Owns(t) /\ ~ExecutionExpired(t)
  /\ lease' = [lease EXCEPT ![task[t].device] = RegisterPendingAiAction(@, t)]
  /\ worker' = [worker EXCEPT ![t] = "detect"]
  /\ UNCHANGED <<task, order, paused, holds, disk, status, attached, sweep, clock>>

\* Fault: nothing is checked again after the screen was recognised.
SendInputUnchecked(t) ==
  /\ Quiet /\ worker[t] = "detect"
  /\ worker' = [worker EXCEPT ![t] = "input"]
  /\ UNCHANGED <<task, order, paused, holds, disk, lease, status, attached, sweep, clock>>

\* canExecute, immediately before the first input.
SendInput(t) ==
  /\ Quiet /\ worker[t] = "detect"
  /\ Owns(t) /\ ~ExecutionExpired(t) /\ CanAiAct(lease[task[t].device], t)
  /\ worker' = [worker EXCEPT ![t] = "input"]
  /\ UNCHANGED <<task, order, paused, holds, disk, lease, status, attached, sweep, clock>>

\* The action verified and still owned: its checkpoint is recorded, or the
\* task fails because it cannot be.
SettleVerified(t) ==
  LET d == task[t].device
  IN /\ Quiet /\ worker[t] = "input" /\ Owns(t) /\ ~ExecutionExpired(t)
     /\ \/ /\ task' = [task EXCEPT ![t].progress = TRUE]
           /\ disk' = Snapshot(task', order, paused, holds)
           /\ lease' = [lease EXCEPT ![d] = Settle(@)]
           /\ worker' = [worker EXCEPT ![t] = "verified"]
           /\ UNCHANGED <<order, paused, holds, status, attached, sweep, clock>>
        \/ DiskMayFail /\ \E ok \in BOOLEAN : Report(t, "FAILED_FINAL", Settle(lease[d]), ok)

\* The action failed, was blocked, needs a person or came too late.
SettleFailed(t) ==
  LET settled == Settle(lease[task[t].device])
  IN /\ Quiet /\ worker[t] \in {"detect", "input"}
     /\ \/ WorkerTick(t, settled)
        \/ /\ Owns(t) /\ ~ExecutionExpired(t)
           /\ \E outcome \in {"FAILED_RETRYABLE", "FAILED_FINAL", "NEEDS_HUMAN"}, ok \in SaveOutcomes :
                Report(t, outcome, settled, ok)

\* The action settles after the task or the token was taken away: whatever
\* waits for it goes on, and a drained device is offered again.
SettleRevoked(t) ==
  LET d == task[t].device
  IN /\ Quiet /\ worker[t] \in {"detect", "input"}
     /\ ~Owns(t) /\ ~(task[t].state = "RUNNING" /\ ExecutionExpired(t))
     /\ lease' = [lease EXCEPT ![d] = Settle(@)]
     /\ worker' = Resumed(t)
     /\ UNCHANGED <<task, order, paused, holds, disk, status, attached, clock>>
     /\ IF lease[d].drained THEN TryDispatch ELSE UNCHANGED sweep

\* After a verified step and its evidence capture: the goal is reached, the
\* record fails, or the loop goes on.
FinishStep(t) ==
  /\ Quiet /\ worker[t] = "verified"
  /\ \/ /\ worker' = Resumed(t)
        /\ UNCHANGED <<task, order, paused, holds, disk, lease, status, attached, sweep, clock>>
     \/ /\ Owns(t)
        /\ \E ok \in SaveOutcomes : Report(t, "SUCCEEDED", lease[task[t].device], ok)
     \/ \E ok \in SaveOutcomes : Report(t, "FAILED_FINAL", lease[task[t].device], ok)

\* switchToHuman's bounded wait ends before the action does.
HandoffTimeout(d) ==
  /\ Quiet /\ lease[d].waiter = "handoff"
  /\ lease' = [lease EXCEPT ![d] = HandoffTimedOut(@)]
  /\ UNCHANGED <<task, order, paused, holds, disk, status, attached, worker, sweep, clock>>

-----------------------------------------------------------------------------
(* What operators order.                                                   *)

\* Fault: a finished task can be cancelled.
CancelAnyTask(t) ==
  /\ Quiet /\ task[t].state \notin Active \cup {"ABSENT", "CANCELLED"}
  /\ task' = WithState({t}, "CANCELLED")
  /\ disk' = Snapshot(task', order, paused, holds)
  /\ UNCHANGED <<order, paused, holds, lease, status, attached, worker, sweep, clock>>

CancelTask(t) ==
  /\ Quiet /\ task[t].state \notin Terminal \cup {"ABSENT"}
  /\ task' = WithState({t}, "CANCELLED")
  /\ disk' = Snapshot(task', order, paused, holds)
  /\ UNCHANGED <<order, paused, holds, status, attached, worker, clock>>
  /\ IF task[t].state \in Active
     THEN lease' = [lease EXCEPT ![task[t].device] = ReleaseDevice(@)] /\ TryDispatch
     ELSE UNCHANGED <<lease, sweep>>

PauseDevice(d) ==
  /\ Quiet /\ d \in attached /\ CanApply(lease[d], "PAUSE_TASK")
  /\ \E t \in Holder(d) :
       /\ task[t].state = "RUNNING"
       /\ task' = WithState({t}, "PAUSED")
  /\ disk' = Snapshot(task', order, paused, holds)
  /\ lease' = [lease EXCEPT ![d] = ApplyEvent(@, "PAUSE_TASK")]
  /\ UNCHANGED <<order, paused, holds, status, attached, worker, sweep, clock>>

ResumeDevice(d) ==
  /\ Quiet /\ d \in attached /\ CanApply(lease[d], "RESUME_TASK")
  /\ \E t \in Holder(d) :
       /\ task[t].state = "PAUSED"
       /\ task' = WithState({t}, "RUNNING")
       /\ worker' = Launched(t)
  /\ disk' = Snapshot(task', order, paused, holds)
  /\ lease' = [lease EXCEPT ![d] = ApplyEvent(@, "RESUME_TASK")]
  /\ UNCHANGED <<order, paused, holds, status, attached, sweep, clock>>

\* Input is revoked before the save; a save that fails takes the device out
\* of service.
StopDevice(d) ==
  /\ Quiet /\ d \in attached
  /\ task' = WithState(Holder(d), "CANCELLED")
  /\ UNCHANGED <<order, paused, status, attached, worker, clock>>
  /\ \/ /\ lease' = [lease EXCEPT ![d] = ReleaseDevice(@)]
        /\ disk' = Snapshot(task', order, paused, holds)
        /\ UNCHANGED holds
        /\ TryDispatch
     \/ /\ DiskMayFail
        /\ lease' = [lease EXCEPT ![d] = MarkError(ReleaseDevice(@))]
        /\ holds' = holds \cup {d}
        /\ UNCHANGED <<disk, sweep>>

\* The hold and the cancellation are saved before the handoff starts; a save
\* that fails leaves the lease alone.
TakeoverDevice(d) ==
  /\ Quiet /\ d \in attached
  /\ holds' = holds \cup {d}
  /\ task' = WithState(Holder(d), "CANCELLED")
  /\ \/ /\ disk' = Snapshot(task', order, paused, holds')
        /\ lease' = [lease EXCEPT ![d] = IF CanSwitchToHuman(@) THEN SwitchToHuman(@) ELSE @]
     \/ DiskMayFail /\ UNCHANGED <<disk, lease>>
  /\ UNCHANGED <<order, paused, status, attached, worker, sweep, clock>>

EmergencyStopDevice(d) ==
  /\ Quiet /\ d \in attached
  /\ lease' = [lease EXCEPT ![d] = EmergencyStop(@)]
  /\ holds' = holds \cup {d}
  /\ task' = WithState(Holder(d), "CANCELLED")
  /\ \/ disk' = Snapshot(task', order, paused, holds')
     \/ DiskMayFail /\ UNCHANGED disk
  /\ UNCHANGED <<order, paused, status, attached, worker, sweep, clock>>

\* switch_to_ai: switchToAI, then allowAiDispatch.  If the release of a hold
\* cannot be saved the device is left in AI_IDLE, and held.
SwitchDeviceToAI(d) ==
  /\ Quiet /\ d \in attached /\ status[d] = "idle" /\ CanSwitchToAI(lease[d])
  /\ lease' = [lease EXCEPT ![d] = SwitchToAI(@)]
  /\ UNCHANGED <<task, order, paused, status, attached, worker, clock>>
  /\ \/ /\ holds' = holds \ {d}
        /\ disk' = IF d \in holds THEN Snapshot(task, order, paused, holds') ELSE disk
        /\ TryDispatch
     \/ DiskMayFail /\ d \in holds /\ UNCHANGED <<holds, disk, sweep>>

\* /queue pause and /queue resume; neither dispatches anything.
PauseQueue(p) ==
  /\ Quiet /\ paused # p
  /\ paused' = p
  /\ disk' = Snapshot(task, order, p, holds)
  /\ UNCHANGED <<task, order, holds, lease, status, attached, worker, sweep, clock>>

\* Where e is in the array s.
IndexOf(s, e) == CHOOSE i \in DOMAIN s : s[i] = e

\* order with t spliced out, and in again next to u.
Moved(t, relation, u) ==
  LET rest == RemoveAt(order, IndexOf(order, t))
      at   == IndexOf(rest, u)
  IN InsertAt(rest, IF relation = "before" THEN at ELSE at + 1, t)

MoveTask(t, relation, u) ==
  /\ Quiet /\ t # u
  /\ task[t].state # "ABSENT" /\ task[u].state # "ABSENT"
  /\ order' = Moved(t, relation, u)
  /\ disk' = Snapshot(task, order', paused, holds)
  /\ UNCHANGED <<task, paused, holds, lease, status, attached, worker, sweep, clock>>

SetPriority(t, p) ==
  /\ Quiet /\ task[t].state # "ABSENT"
  /\ task' = [task EXCEPT ![t].priority = p]
  /\ disk' = Snapshot(task', order, paused, holds)
  /\ UNCHANGED <<order, paused, holds, lease, status, attached, worker, sweep, clock>>

-----------------------------------------------------------------------------
(* Crash and restart, people, phones and time.                             *)

\* normalizeQueueSnapshot: a task that ran is retried or failed.
Recovered(r, t) == IF r.state = "RUNNING" THEN Retried(r, t) ELSE r

\* Configured devices whose ownership by a paused task is rebuilt.
Restored ==
  {d \in Configured \ disk.holds :
     \E t \in Tasks : disk.task[t].state = "PAUSED" /\ disk.task[t].device = d}

\* createTaskQueue does not throw "cannot restore paused ownership".
Boots ==
  \A d \in Restored :
    /\ BootStatus[d] = "idle"
    /\ \A t, u \in Tasks : (/\ disk.task[t].state = "PAUSED" /\ disk.task[t].device = d
                            /\ disk.task[u].state = "PAUSED" /\ disk.task[u].device = d) => t = u

\* The process dies, at any point, and comes up again from the snapshot.
Restart ==
  /\ Boots
  /\ task' = [t \in Tasks |-> Recovered(disk.task[t], t)]
  /\ order' = disk.order
  /\ paused' = disk.paused
  /\ holds' = disk.holds
  /\ disk' = Snapshot(task', order', paused', holds')
  /\ lease' = [d \in Devices |-> IF d \in Restored THEN [NewLease EXCEPT !.mode = "AI_PAUSED"]
                                  ELSE NewLease]
  /\ status' = [d \in Devices |-> IF d \in Configured THEN BootStatus[d] ELSE "offline"]
  /\ attached' = Configured
  /\ worker' = [t \in Tasks |-> "none"]
  /\ sweep' = {}
  /\ clock' = [t \in Tasks |->
       IF disk.task[t].state = "RUNNING"
       THEN [clock[t] EXCEPT !.waiting = task'[t].state = "QUEUED" /\ TaskInput[t].backoff]
       ELSE clock[t]]

\* A phone found over USB, or brought in by a site, joins the devices map.
AttachDevice(d) ==
  /\ Quiet /\ d \notin attached
  /\ attached' = attached \cup {d}
  /\ UNCHANGED <<task, order, paused, holds, disk, lease, status, worker, sweep, clock>>

SetStatus(d, from, to) ==
  /\ Quiet /\ d \in attached /\ status[d] = from
  /\ status' = [status EXCEPT ![d] = to]
  /\ UNCHANGED <<task, order, paused, holds, disk, lease, attached, worker, sweep, clock>>

\* Fault: the lease is not asked whether a person may take the device.
ClaimAnyDevice(d) == SetStatus(d, "idle", "in-use")

\* claimDevice and releaseSelection; the health checks.
ClaimDevice(d)      == CanHumanSelect(lease[d]) /\ SetStatus(d, "idle", "in-use")
ReleaseSelection(d) == SetStatus(d, "in-use", "idle")
GoOffline(d)        == SetStatus(d, "idle", "offline")
BackOnline(d)       == SetStatus(d, "offline", "idle")

PassTime(t, now) ==
  /\ Quiet
  /\ clock' = [clock EXCEPT ![t] = now]
  /\ UNCHANGED <<task, order, paused, holds, disk, lease, status, attached, worker, sweep>>

WindowOpens(t)  == clock[t].window = "early" /\ PassTime(t, [clock[t] EXCEPT !.window = "open"])
WindowCloses(t) == /\ TaskInput[t].late /\ clock[t].window = "open"
                   /\ PassTime(t, [clock[t] EXCEPT !.window = "closed"])
DurationEnds(t) == /\ TaskInput[t].timed /\ task[t].state \in Active /\ ~clock[t].overdue
                   /\ PassTime(t, [clock[t] EXCEPT !.overdue = TRUE])
BackoffEnds(t)  == clock[t].waiting /\ PassTime(t, [clock[t] EXCEPT !.waiting = FALSE])

-----------------------------------------------------------------------------
Init ==
  /\ task = [t \in Tasks |-> NewTask(t)]
  /\ order = <<>>
  /\ paused = FALSE
  /\ holds = {}
  /\ disk = Snapshot(task, order, paused, holds)
  /\ lease = [d \in Devices |-> NewLease]
  /\ status = [d \in Devices |-> IF d \in Configured THEN BootStatus[d] ELSE "offline"]
  /\ attached = Configured
  /\ worker = [t \in Tasks |-> "none"]
  /\ sweep = {}
  /\ clock = [t \in Tasks |-> [window |-> IF TaskInput[t].early THEN "early" ELSE "open",
                               overdue |-> FALSE, waiting |-> FALSE]]

Scheduler == Tick \/ \E d \in Devices : Offer(d)

Worker(t) ==
  \/ WorkerStart(t) \/ Return(t) \/ StartStep(t) \/ EndSession(t) \/ LeaveLoop(t)
  \/ Checkpoint(t) \/ DropPlan(t) \/ SubmitAction(t) \/ SendInput(t)
  \/ SettleVerified(t) \/ SettleFailed(t) \/ SettleRevoked(t) \/ FinishStep(t)

OperatorOnDevice(d) ==
  \/ PauseDevice(d) \/ ResumeDevice(d) \/ StopDevice(d) \/ TakeoverDevice(d)
  \/ EmergencyStopDevice(d) \/ SwitchDeviceToAI(d)

OperatorOnQueue ==
  \/ \E t \in Tasks : AddTask(t) \/ CancelTask(t)
  \/ \E p \in BOOLEAN : PauseQueue(p)
  \/ \E t, u \in Tasks, relation \in {"before", "after"} : MoveTask(t, relation, u)
  \/ \E t \in Tasks, p \in Priorities : SetPriority(t, p)

Device(d) ==
  \/ HandoffTimeout(d) \/ AttachDevice(d) \/ ClaimDevice(d) \/ ReleaseSelection(d)
  \/ GoOffline(d) \/ BackOnline(d)

Time(t) == WindowOpens(t) \/ WindowCloses(t) \/ DurationEnds(t) \/ BackoffEnds(t)

Next ==
  \/ Scheduler
  \/ \E t \in Tasks : Worker(t) \/ Time(t)
  \/ \E d \in Devices : OperatorOnDevice(d) \/ Device(d)
  \/ OperatorOnQueue
  \/ Restart

Spec == Init /\ [][Next]_vars

-----------------------------------------------------------------------------
(* Safety.                                                                 *)

\* Every variable keeps the shape the code gives it; the queue array is the
\* subject of QueueListsTasks.
TypeOK ==
  /\ task \in [Tasks -> TaskRecords]
  /\ paused \in BOOLEAN
  /\ holds \in SUBSET Devices
  /\ disk.task \in [Tasks -> TaskRecords]
  /\ disk.paused \in BOOLEAN
  /\ disk.holds \in SUBSET Devices
  /\ lease \in [Devices -> Leases]
  /\ status \in [Devices -> {"idle", "in-use", "offline"}]
  /\ attached \in SUBSET Devices
  /\ worker \in [Tasks -> Workers]
  /\ sweep \in SUBSET Devices
  /\ clock \in [Tasks -> Clocks]

\* The queue's records and the leases, two registries that no transaction
\* joins, agree: a running task's device is in AI_RUNNING, a paused one's in
\* AI_PAUSED, whatever operators, expiry, failed saves and restarts do.
ActiveOwnsLease ==
  \A t \in Tasks :
    /\ task[t].state = "RUNNING" => lease[task[t].device].mode = "AI_RUNNING"
    /\ task[t].state = "PAUSED" => lease[task[t].device].mode = "AI_PAUSED"

\* No two tasks are running or paused on one device: in memory, where
\* findActiveTaskForDevice returns only the first of them, and in the
\* snapshot a restart rebuilds ownership from.
OneActiveTask ==
  \A tk \in {task, disk.task} : \A t, u \in Tasks :
    (tk[t].state \in Active /\ tk[u].state \in Active /\ tk[t].device = tk[u].device) => t = u

\* Whenever a worker may be sending input its device knows of it, so every
\* handoff and drain waits for the right action; in particular no two
\* workers have actions in flight on one device.
InputIsRegistered ==
  \A t \in Tasks :
    worker[t] \in {"detect", "input"} => lease[task[t].device].pending = t

\* While a person is in control, or could take control this moment, no
\* worker has an action in flight on the device.
NoInputUnderHuman ==
  \A t \in Tasks : worker[t] \in {"detect", "input"} =>
    LET d == task[t].device IN status[d] # "in-use" /\ ~CanHumanSelect(lease[d])

\* A device held for a person carries no running or paused task, in memory
\* and in the snapshot: a takeover, an emergency stop and a report that needs
\* a human never leave an active task behind, and no dispatch starts one.
HeldDeviceIsIdle ==
  \A t \in Tasks :
    /\ task[t].state \in Active => task[t].device \notin holds
    /\ disk.task[t].state \in Active => disk.task[t].device \notin disk.holds

\* A running research task has a worker: no dispatch, redispatch from inside
\* a report, resume or late settlement leaves it running with nobody to run
\* it (the coalescing in launch() and the comment in the runner's loop).
RunningHasWorker ==
  \A t \in Research : task[t].state = "RUNNING" => worker[t] # "none"

\* What runs in memory runs in the snapshot, so a crash at any moment is
\* charged to the task's retries and never repeats a run uncounted.
RunningIsDurable ==
  \A t \in Tasks : task[t].state = "RUNNING" =>
    disk.task[t].state = "RUNNING" /\ disk.task[t].device = task[t].device

\* A task that has used up its retries is never queued or run again, whether
\* attempts ended in a report or in a crash, saved or not.
RetriesBounded ==
  \A t \in Tasks : task[t].retries > TaskInput[t].maxRetries =>
    task[t].state \in Terminal

\* The array lists every added task exactly once, in memory and on disk.
QueueListsTasks ==
  \A q \in {[task |-> task, order |-> order], disk} :
    LET added == {t \in Tasks : q.task[t].state # "ABSENT"}
    IN {q.order[i] : i \in DOMAIN q.order} = added /\ Len(q.order) = Cardinality(added)

\* The four registries of who acts on a phone (queue, lease, worker and holds)
\* never let two parties act on one: each line is one way they could disagree.
OneActor ==
  ActiveOwnsLease /\ OneActiveTask /\ InputIsRegistered /\ NoInputUnderHuman /\ HeldDeviceIsIdle

\* The queue's records survive every failed save, crash and splice: what runs
\* is on disk, retries are never exceeded, and no task is lost or listed twice.
RecordsAreSound == RunningIsDurable /\ RetriesBounded /\ QueueListsTasks

-----------------------------------------------------------------------------
(* What a step may never do.                                               *)

\* A final state that reached the disk is final: no later save, restart,
\* late report or expiry gives the task another one.
FinalStaysFinal ==
  [][\A t \in Tasks : disk.task[t].state \in Terminal =>
       disk'.task[t].state = disk.task[t].state]_vars

\* Input starts only while the task is running and in time, on a device that
\* is neither held for nor claimed by a person.
InputOnlyWhenGranted ==
  [][\A t \in Tasks : (worker'[t] = "input" /\ worker[t] # "input") =>
       LET d == task[t].device
       IN /\ task[t].state = "RUNNING" /\ ~ExecutionExpired(t)
          /\ d \notin holds /\ status[d] # "in-use"]_vars

\* A task starts only if it is due, its dependencies have succeeded, it is
\* allowed on the device, and nobody reserved or claimed that device; it is
\* the step that makes it run, whoever asked for the dispatch.
StartsOnlyWhenDue ==
  [][\A t \in Tasks : (task[t].state = "QUEUED" /\ task'[t].state = "RUNNING") =>
       LET d == task'[t].device
       IN /\ WindowOpen(t) /\ ~clock[t].waiting /\ ~paused
          /\ \A u \in TaskInput[t].deps : task[u].state = "SUCCEEDED"
          /\ d \notin holds /\ status[d] # "in-use" /\ lease[d].pending = NoTask]_vars

\* A research task that starts leaves the fleet within its limits: its
\* account has no second worker, and neither the workspace nor the fleet has
\* more than it may, however many tasks one sweep starts.
StartsWithinLimits ==
  [][\A t \in Research : (task[t].state = "QUEUED" /\ task'[t].state = "RUNNING") =>
       LET others == {u \in Research \ {t} : task'[u].state = "RUNNING"}
           space  == WorkspaceOf[AccountOf[t]]
       IN /\ \A u \in others : AccountOf[u] # AccountOf[t]
          /\ Cardinality({u \in others : WorkspaceOf[AccountOf[u]] = space}) < WorkspaceLimit
          /\ Cardinality(others) < MaxWorkers]_vars

-----------------------------------------------------------------------------
(* Liveness.  Callbacks and timers that are due run, however many other    *)
(* handlers run between; most wait for the stretch in progress to end      *)
(* (Quiet), hence the strong fairness.  A submitted action settles because *)
(* every request to a phone carries a timeout, a step because the model    *)
(* call does, and a session ends because its budget does (SessionBudget).  *)

Fairness ==
  /\ SF_vars(Tick)
  /\ \A d \in Devices : WF_vars(Offer(d)) /\ SF_vars(HandoffTimeout(d))
  /\ \A t \in Tasks : SF_vars(Worker(t)) /\ SF_vars(EndSession(t))

FairSpec == Spec /\ Fairness

\* The queue left to itself: tasks are added, time passes, phones are plugged
\* in, nobody intervenes.
Unattended ==
  \/ Scheduler
  \/ \E t \in Tasks : Worker(t) \/ Time(t) \/ AddTask(t)
  \/ \E d \in Devices : AttachDevice(d) \/ BackOnline(d)

UnattendedSpec ==
  /\ Init /\ [][Unattended]_vars /\ Fairness
  /\ \A t \in Tasks : SF_vars(WindowOpens(t)) /\ SF_vars(BackoffEnds(t))

\* A handoff begun by a takeover or a report ends with the device in HUMAN, also when its
\* bounded wait times out first: the late settlement recovers the device.  A device whose task
\* was taken from it while an action was in flight is drained and does not stay paused without
\* an owner.
LeaseComesBack ==
  \A d \in Devices :
    /\ lease[d].mode = "HANDOFF" ~> lease[d].mode = "HUMAN"
    /\ (lease[d].mode = "AI_PAUSED" /\ Holder(d) = {}) ~> (lease[d].mode # "AI_PAUSED" \/ Holder(d) # {})

\* Tasks chain without a person: a research task whose dependencies have
\* succeeded is served, or ends, unless a device is waiting for a person.
QueueIsServed ==
  \A t \in Research :
    /\ task[t].state \in {"SCHEDULED", "QUEUED"}
    /\ \A u \in TaskInput[t].deps : task[u].state = "SUCCEEDED"
    ~> \/ task[t].state \in Active \cup Terminal \cup {"NEEDS_HUMAN"}
       \/ holds # {}

-----------------------------------------------------------------------------
(* What the repository says of the program and its code does not do.       *)

\* fleetPolicy.js: "an account is never operated by two workers at once".
AccountExclusive ==
  \A t, u \in Research :
    (task[t].state = "RUNNING" /\ task[u].state = "RUNNING" /\ AccountOf[t] = AccountOf[u]) => t = u
=============================================================================
