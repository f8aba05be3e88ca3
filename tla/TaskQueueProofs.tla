-------------------------- MODULE TaskQueueProofs --------------------------
(***************************************************************************)
(* Proofs about TaskQueue for every number of tasks and devices: who may   *)
(* act on a phone, and what the steps do to the records of the tasks, in   *)
(* memory and on disk: the records are sound, a final state stays final,   *)
(* and a start or an input is one the rules allow.                         *)
(***************************************************************************)
EXTENDS TaskQueueInvariant, LeaseProofs, SequenceTheorems, FiniteSetTheorems

-----------------------------------------------------------------------------
(* What the queue's own calls do to a lease.                               *)

\* Releasing a device keeps the action in flight registered, and leaves a
\* device of a person, or out of service, as it is.
LEMMA ReleaseLemma ==
  ASSUME NEW l \in Leases, LeaseOK(l)
  PROVE  /\ ReleaseDevice(l) \in Leases
         /\ LeaseOK(ReleaseDevice(l))
         /\ ReleaseDevice(l).pending = l.pending
         /\ l.mode \in {"HUMAN", "ERROR"} => ReleaseDevice(l).mode = l.mode
BY ZenonT(60) DEF ReleaseDevice, FinishAiTask, ApplyEvent, NextMode, Leases, LeaseOK, Modes, Waiters

\* A device that may start a task is nobody's, and becomes AI_RUNNING.
LEMMA StartLemma ==
  ASSUME NEW l \in Leases, LeaseOK(l), CanStart(l)
  PROVE  /\ ApplyEvent(l, "START_TASK") \in Leases
         /\ LeaseOK(ApplyEvent(l, "START_TASK"))
         /\ ApplyEvent(l, "START_TASK").mode = "AI_RUNNING"
         /\ ApplyEvent(l, "START_TASK").pending = NoTask
         /\ l.mode \in {"HUMAN", "AI_IDLE"}
         /\ l.pending = NoTask
BY DEF CanStart, CanSwitchToAI, CanApply, Legal, Sources, ApplyEvent, NextMode, Leases,
       LeaseOK, Modes, Waiters

-----------------------------------------------------------------------------
(* Who holds a device.                                                     *)

\* An active task has a device of its own, and its lease.
LEMMA ActiveLemma ==
  ASSUME IInv, NEW t \in Tasks, task[t].state \in Active
  PROVE  /\ task[t].device \in Devices \ holds
         /\ lease[task[t].device] \in Leases
         /\ LeaseOK(lease[task[t].device])
         /\ lease[task[t].device].mode \in {"AI_RUNNING", "AI_PAUSED"}
         /\ lease[task[t].device].pending \in {NoTask, t}
         /\ \A u \in Tasks : (task[u].state \in Active /\ task[u].device = task[t].device) => u = t
BY DEF IInv, TypeOK, QueueOK, TaskOK, DeviceOK, Active

\* The holder of a device is all there is of active tasks on it.
LEMMA HolderLemma ==
  ASSUME IInv, NEW d \in Devices
  PROVE  Holder(d) = {t \in Tasks : task[t].state \in Active /\ task[t].device = d}
BY DEF IInv, QueueOK, Holder

\* Who sends input on a device that an active task has is that task.
LEMMA SenderLemma ==
  ASSUME IInv, NEW t \in Tasks, task[t].state \in Active,
         NEW u \in Tasks, worker[u] \in {"detect", "input"}, task[u].device = task[t].device
  PROVE  u = t
BY NoTaskAssumption, ActiveLemma DEF IInv, WorkerOK

-----------------------------------------------------------------------------
(* reportResult.                                                           *)

\* What a worker reports of its task.
Outcomes == {"SUCCEEDED", "PARTIAL", "FAILED_RETRYABLE", "FAILED_FINAL", "NEEDS_HUMAN"}

\* A failed attempt is counted, and the task waits again or has failed.
LEMMA RetriedLemma ==
  ASSUME NEW r \in TaskRecords, NEW t \in Tasks
  PROVE  /\ Retried(r, t) \in TaskRecords
         /\ Retried(r, t).device = r.device
         /\ Retried(r, t).state \in {"QUEUED", "FAILED_FINAL"}
<1> DEFINE k == r.retries + 1
           s == IF k <= TaskInput[t].maxRetries THEN "QUEUED" ELSE "FAILED_FINAL"
<1>1. k \in Nat
  BY DEF TaskRecords
<1>2. Retried(r, t) = [r EXCEPT !.retries = k, !.state = s]
  BY Zenon DEF Retried
<1> HIDE DEF k
<1>3. s \in {"QUEUED", "FAILED_FINAL"}
  OBVIOUS
<1> HIDE DEF s
<1>4. QED BY <1>1, <1>2, <1>3 DEF TaskRecords, TaskStates, Terminal

\* A report by the worker of t, on the lease its device has by then.
LEMMA ReportLemma ==
  ASSUME Configured = Devices, IInv, NEW t \in Tasks, NEW outcome \in Outcomes, NEW ok \in BOOLEAN,
         NEW l \in Leases, LeaseOK(l), l.mode = "AI_RUNNING", l.pending \in {NoTask, t},
         outcome = "NEEDS_HUMAN" => sweep = {},
         Report(t, outcome, l, ok)
  PROVE  IInv'
<1> DEFINE d == task[t].device
<1>a. /\ task[t].state = "RUNNING" /\ task[t].state \in Active
      /\ d \in Devices \ holds
      /\ lease[d] \in Leases /\ LeaseOK(lease[d]) /\ lease[d].mode = "AI_RUNNING"
      /\ \A u \in Tasks : (task[u].state \in Active /\ task[u].device = d) => u = t
  BY ActiveLemma DEF Report, Active, IInv, TaskOK
<1>b. /\ Reported(t, outcome) \in TaskRecords
      /\ Reported(t, outcome).device = d
      /\ Reported(t, outcome).state \notin Active
  <2>1. task[t] \in TaskRecords
    BY DEF IInv, TypeOK
  <2>2. CASE outcome = "FAILED_RETRYABLE"
    BY <1>a, <2>1, <2>2, RetriedLemma DEF Reported, Active
  <2>3. CASE outcome # "FAILED_RETRYABLE"
    BY <1>a, <2>1, <2>3 DEF Reported, TaskRecords, TaskStates, Active, Terminal, Outcomes
  <2>4. QED BY <2>2, <2>3
<1>c. /\ lease' \in [Devices -> Leases]
      /\ \A e \in Devices : e # d => lease'[e] = lease[e]
      /\ LeaseOK(lease'[d])
  <2>1. CanSwitchToHuman(l)
    BY DEF CanSwitchToHuman, CanApply, Legal, Sources
  <2>2. /\ ReleaseDevice(l) \in Leases /\ LeaseOK(ReleaseDevice(l))
        /\ SwitchToHuman(l) \in Leases /\ LeaseOK(SwitchToHuman(l))
    BY <2>1, ReleaseLemma, ToHumanLemma
  <2>3. QED BY <1>a, <2>2 DEF Report, IInv, TypeOK
<1>d. /\ task' \in [Tasks -> TaskRecords]
      /\ task'[t].device = d /\ task'[t].state \notin Active
      /\ \A u \in Tasks : u # t => task'[u] = task[u]
      /\ \A u \in Tasks : task'[u].state \in Active => u # t /\ task'[u] = task[u] /\ task[u].device # d
  BY <1>a, <1>b DEF Report, IInv, TypeOK
<1>e. /\ holds' \in SUBSET Devices
      /\ holds' \subseteq holds \cup {d}
      /\ outcome # "NEEDS_HUMAN" => holds' = holds
  BY <1>a DEF Report, IInv, TypeOK
<1>f. /\ worker' \in [Tasks -> Workers]
      /\ worker'[t] \in {"return", "none"}
      /\ \A u \in Tasks : u # t => worker'[u] = worker[u]
  BY DEF Report, Workers, IInv, TypeOK
<1>g. /\ status' = status /\ attached' = attached /\ paused' = paused
      /\ \/ sweep' = (IF paused THEN {} ELSE FreeDevices)'
         \/ sweep' = sweep
      /\ \/ disk' = Snapshot(task', order, paused, holds')
         \/ disk' = disk
  BY DEF Report, TryDispatch
<1>h. sweep' = sweep => (sweep = {} \/ holds' = holds)
  BY <1>e
<1>1. QueueOK(task', holds')
  BY <1>d, <1>e DEF QueueOK, IInv
<1>2. QueueOK(disk'.task, disk'.holds)
  BY <1>1, <1>g DEF IInv, Snapshot
<1>3. TypeOK'
  <2>1. clock' \in [Tasks -> Clocks]
    <3> DEFINE w == task'[t].state = "QUEUED" /\ TaskInput[t].backoff
    <3>1. w \in BOOLEAN
      BY Zenon
    <3>2. clock' = [clock EXCEPT ![t].waiting = w]
      BY DEF Report
    <3> HIDE DEF w
    <3>3. QED BY <3>1, <3>2 DEF IInv, TypeOK, Clocks
  <2>2. /\ disk'.task \in [Tasks -> TaskRecords] /\ disk'.paused \in BOOLEAN
        /\ disk'.holds \in SUBSET Devices
    BY <1>d, <1>e, <1>g DEF IInv, TypeOK, Snapshot
  <2>3. sweep' \in SUBSET Devices
    BY <1>g DEF IInv, TypeOK, FreeDevices
  <2>4. QED BY <1>c, <1>d, <1>e, <1>f, <1>g, <2>1, <2>2, <2>3 DEF IInv, TypeOK
<1>4. ASSUME NEW u \in Tasks PROVE TaskOK(u)'
  <2>1. CASE task'[u].state \in Active
    <3>1. lease'[task'[u].device] = lease[task[u].device] /\ task'[u] = task[u]
      BY <1>c, <1>d, <2>1, ActiveLemma
    <3>2. QED BY <3>1 DEF IInv, TaskOK
  <2>2. CASE task'[u].state \notin Active
    BY <2>2 DEF TaskOK, Active
  <2>3. QED BY <2>1, <2>2
<1>5. ASSUME NEW u \in Tasks PROVE WorkerOK(u)'
  <2>1. CASE u = t
    BY <1>f, <2>1 DEF WorkerOK
  <2>2. CASE u # t
    <3>1. worker'[u] = worker[u] /\ task'[u] = task[u]
      BY <1>d, <1>f, <2>2
    <3>2. worker[u] \in {"detect", "input"} => task[u].device # d
      BY <1>a, <2>2, SenderLemma
    <3>3. QED BY <1>c, <3>1, <3>2 DEF IInv, WorkerOK
  <2>3. QED BY <2>1, <2>2
<1>6. ASSUME NEW e \in Devices PROVE DeviceOK(e)'
  <2>1. LeaseOK(lease'[e])
    BY <1>c DEF IInv, DeviceOK
  <2>2. status'[e] = "in-use" => lease'[e].mode \in {"HUMAN", "ERROR"} /\ lease'[e].pending = NoTask
    BY <1>a, <1>c, <1>g DEF IInv, DeviceOK
  <2>3. e \in sweep' => e \notin holds' /\ status'[e] # "in-use"
    BY <1>g, <1>h, <2>2 DEF IInv, DeviceOK, FreeDevices
  <2>4. QED BY <2>1, <2>2, <2>3 DEF DeviceOK
<1>7. QED BY <1>1, <1>2, <1>3, <1>4, <1>5, <1>6 DEF IInv

-----------------------------------------------------------------------------
(* tick.                                                                   *)

\* What a tick makes of a record.
LEMMA TickedLemma ==
  ASSUME NEW r \in TaskRecords, NEW t \in Tasks
  PROVE  /\ Ticked(r, t) \in TaskRecords
         /\ Ticked(r, t).device = r.device
         /\ Ticked(r, t).state \in Active => Ticked(r, t) = r /\ ~ExecutionExpired(t)
         /\ Ticked(r, t).state \in {"ABSENT", "SCHEDULED", "QUEUED"} =>
              r.state \in {"ABSENT", "SCHEDULED", "QUEUED"}
<1> DEFINE s == Ticked(r, t).state
<1>1. /\ s \in TaskStates
      /\ s \in Active => s = r.state /\ ~ExecutionExpired(t)
      /\ s \in {"ABSENT", "SCHEDULED", "QUEUED"} => r.state \in {"ABSENT", "SCHEDULED", "QUEUED"}
      /\ Ticked(r, t) = [r EXCEPT !.state = s]
  BY DEF Ticked, TaskRecords, TaskStates, Active, Terminal
<1> HIDE DEF s
<1>2. [r EXCEPT !.state = s] \in TaskRecords /\ [r EXCEPT !.state = s].device = r.device
  BY <1>1 DEF TaskRecords
<1>3. s = r.state => [r EXCEPT !.state = s] = r
  BY DEF TaskRecords
<1>4. QED BY <1>1, <1>2, <1>3 DEF s

\* A tick on the queue tk in memory, over leases ls in which an action of an
\* active task may have settled, by workers that at most return from it.
LEMMA RunTickLemma ==
  ASSUME Configured = Devices, IInv,
         NEW tk \in [Tasks -> TaskRecords], NEW or, NEW ls \in [Devices -> Leases],
         \A u \in Tasks :
            /\ tk[u].device = task[u].device
            /\ (tk[u].state \in Active \/ task[u].state \in Active) => tk[u] = task[u]
            /\ tk[u].state \in {"ABSENT", "SCHEDULED", "QUEUED"} =>
                 task[u].state \in {"ABSENT", "SCHEDULED", "QUEUED"},
         \A e \in Devices :
            /\ LeaseOK(ls[e])
            /\ ls[e].mode = lease[e].mode /\ ls[e].waiter = lease[e].waiter
            /\ ls[e].pending \in {lease[e].pending, NoTask},
         worker' \in [Tasks -> Workers],
         \A u \in Tasks :
            /\ worker'[u] \in {worker[u], "return"}
            /\ worker'[u] \in {"detect", "input"} => ls[task[u].device] = lease[task[u].device],
         RunTick(tk, or, ls)
  PROVE  IInv'
<1>a. /\ task' \in [Tasks -> TaskRecords]
      /\ \A u \in Tasks : task'[u].device = task[u].device
      /\ \A u \in Tasks : task'[u].state \in Active =>
            task'[u] = task[u] /\ task[u].state \in Active /\ u \notin Expiring
      /\ \A u \in Tasks : task'[u].state \in {"ABSENT", "SCHEDULED", "QUEUED"} =>
            task[u].state \in {"ABSENT", "SCHEDULED", "QUEUED"}
  <2>1. \A u \in Tasks : task'[u] = Ticked(tk[u], u)
    BY DEF RunTick
  <2>2. task' \in [Tasks -> TaskRecords]
    BY TickedLemma DEF RunTick
  <2>3. QED BY <2>1, <2>2, TickedLemma DEF Expiring
<1>b. /\ lease' \in [Devices -> Leases]
      /\ \A e \in Devices :
            /\ LeaseOK(lease'[e])
            /\ lease'[e].pending = ls[e].pending
            /\ ls[e].mode \in {"HUMAN", "ERROR"} => lease'[e].mode = ls[e].mode
            /\ (\A u \in Expiring : task[u].device # e) => lease'[e] = ls[e]
  <2>1. \A e \in Devices : lease'[e] = IF \E t \in Expiring : task[t].device = e
                                       THEN ReleaseDevice(ls[e]) ELSE ls[e]
    BY DEF RunTick
  <2>2. \A e \in Devices : ReleaseDevice(ls[e]) \in Leases
    BY ReleaseLemma
  <2>3. lease' \in [Devices -> Leases]
    BY <2>2 DEF RunTick
  <2>4. QED BY <2>1, <2>3, ReleaseLemma
<1>c. /\ holds' = holds /\ paused' = paused /\ status' = status /\ attached' = attached
      /\ clock' = clock
      /\ sweep' = (IF paused THEN {} ELSE FreeDevices)'
      /\ disk' = Snapshot(task', or, paused, holds) \/ disk' = disk
  BY DEF RunTick, TryDispatch
<1>d. ASSUME NEW u \in Tasks, task'[u].state \in Active
      PROVE  /\ task'[u] = task[u] /\ task[u].state \in Active
             /\ task[u].device \in Devices
             /\ lease'[task[u].device] = ls[task[u].device]
  BY <1>a, <1>b, <1>d, ActiveLemma DEF Expiring
<1>1. QueueOK(task', holds')
  BY <1>a, <1>c DEF QueueOK, IInv
<1>2. QueueOK(disk'.task, disk'.holds)
  BY <1>1, <1>c DEF IInv, Snapshot
<1>3. TypeOK'
  <2>1. /\ disk'.task \in [Tasks -> TaskRecords] /\ disk'.paused \in BOOLEAN
        /\ disk'.holds \in SUBSET Devices
    BY <1>a, <1>c DEF IInv, TypeOK, Snapshot
  <2>2. sweep' \in SUBSET Devices
    BY <1>c DEF IInv, TypeOK, FreeDevices
  <2>3. QED BY <1>a, <1>b, <1>c, <2>1, <2>2 DEF IInv, TypeOK
<1>4. ASSUME NEW u \in Tasks PROVE TaskOK(u)'
  <2>1. CASE task'[u].state \in Active
    BY <1>d, <2>1, NoTaskAssumption DEF IInv, TaskOK
  <2>2. CASE task'[u].state \notin Active
    BY <2>2 DEF TaskOK, Active
  <2>3. QED BY <2>1, <2>2
<1>5. ASSUME NEW u \in Tasks PROVE WorkerOK(u)'
  BY <1>a, <1>b DEF IInv, WorkerOK
<1>6. ASSUME NEW e \in Devices PROVE DeviceOK(e)'
  <2>1. status'[e] = "in-use" => lease'[e].mode \in {"HUMAN", "ERROR"} /\ lease'[e].pending = NoTask
    BY <1>b, <1>c DEF IInv, DeviceOK
  <2>2. e \in sweep' => e \notin holds' /\ status'[e] # "in-use"
    BY <1>c, <2>1 DEF FreeDevices
  <2>3. QED BY <1>b, <2>1, <2>2 DEF DeviceOK
<1>7. QED BY <1>1, <1>2, <1>3, <1>4, <1>5, <1>6 DEF IInv

-----------------------------------------------------------------------------
(* The steps of a worker.                                                  *)

\* A worker goes on, without having anything to do with queue or lease.
LEMMA WorkerMovesLemma ==
  ASSUME IInv, NEW t \in Tasks, NEW w \in Workers,
         worker' = [worker EXCEPT ![t] = w],
         w \in {"detect", "input"} => worker[t] \in {"detect", "input"},
         w \in {"none", "return"} \/ task[t].state \notin {"ABSENT", "SCHEDULED", "QUEUED"},
         UNCHANGED <<task, order, paused, holds, disk, lease, status, attached, sweep, clock>>
  PROVE  IInv'
<1>1. TypeOK'
  BY DEF IInv, TypeOK
<1>2. \A u \in Tasks : WorkerOK(u)'
  BY DEF IInv, TypeOK, WorkerOK
<1>3. QED BY <1>1, <1>2 DEF IInv, TaskOK, DeviceOK, FreeDevices

\* A worker without a step in hand goes on or ends.
LEMMA ResumedLemma ==
  ASSUME IInv, NEW t \in Tasks, worker' = Resumed(t),
         UNCHANGED <<task, order, paused, holds, disk, lease, status, attached, sweep, clock>>
  PROVE  IInv'
<1> DEFINE w == IF task[t].state \in Active THEN "loop" ELSE "none"
<1>1. /\ w \in {"loop", "none"}
      /\ w = "loop" => task[t].state \notin {"ABSENT", "SCHEDULED", "QUEUED"}
      /\ worker' = [worker EXCEPT ![t] = w]
  BY DEF Resumed, Active
<1> HIDE DEF w
<1>2. w \in Workers
  BY <1>1 DEF Workers
<1>3. QED BY <1>1, <1>2, WorkerMovesLemma

\* The worker of a running task, on the lease it has or has just settled.
LEMMA OwnLeaseLemma ==
  ASSUME IInv, NEW t \in Tasks, task[t].state = "RUNNING"
  PROVE  LET l == lease[task[t].device]
         IN /\ l \in Leases /\ LeaseOK(l) /\ l.mode = "AI_RUNNING" /\ l.pending \in {NoTask, t}
            /\ Settle(l) \in Leases /\ LeaseOK(Settle(l)) /\ Settle(l).mode = "AI_RUNNING"
            /\ Settle(l).pending = NoTask /\ Settle(l).waiter = l.waiter
<1>1. lease[task[t].device].mode = "AI_RUNNING"
  BY DEF IInv, TaskOK
<1>2. QED BY <1>1, ActiveLemma, SettleLemma, RunningSettleLemma DEF Active

\* A worker that finds its task overdue, before or after its action settled.
LEMMA WorkerTickLemma ==
  ASSUME Configured = Devices, IInv, NEW t \in Tasks, Quiet,
         NEW l \in {lease[task[t].device], Settle(lease[task[t].device])}, WorkerTick(t, l)
  PROVE  IInv'
<1> DEFINE ls == [lease EXCEPT ![task[t].device] = l]
<1>a. task[t].state = "RUNNING" /\ task[t].device \in Devices
  BY ActiveLemma DEF WorkerTick, Active
<1>b. /\ l \in Leases /\ LeaseOK(l) /\ l.mode = "AI_RUNNING" /\ l.pending \in {NoTask, t}
      /\ l.waiter = lease[task[t].device].waiter /\ lease[task[t].device].mode = "AI_RUNNING"
      /\ l.pending \in {lease[task[t].device].pending, NoTask}
  BY <1>a, OwnLeaseLemma
<1>1. CASE RunTick(task, order, ls) /\ worker' = [worker EXCEPT ![t] = "return"]
  <2>1. /\ ls \in [Devices -> Leases]
        /\ \A e \in Devices : e # task[t].device => ls[e] = lease[e]
        /\ ls[task[t].device] = l
    BY <1>a, <1>b DEF IInv, TypeOK
  <2>2. \A e \in Devices :
          /\ LeaseOK(ls[e])
          /\ ls[e].mode = lease[e].mode /\ ls[e].waiter = lease[e].waiter
          /\ ls[e].pending \in {lease[e].pending, NoTask}
    BY <1>b, <2>1 DEF IInv, DeviceOK
  <2>3. /\ worker' \in [Tasks -> Workers]
        /\ \A u \in Tasks : worker'[u] = IF u = t THEN "return" ELSE worker[u]
    BY <1>1 DEF IInv, TypeOK, Workers
  <2>4. ASSUME NEW u \in Tasks, worker'[u] \in {"detect", "input"}
        PROVE  ls[task[u].device] = lease[task[u].device]
    <3>1. u # t /\ worker[u] \in {"detect", "input"}
      BY <2>3, <2>4
    <3>2. task[u].device \in Devices /\ task[u].device # task[t].device
      <4>1. task[u].device \in Devices
        BY <3>1 DEF IInv, WorkerOK
      <4>2. task[u].device # task[t].device
        BY <1>a, <3>1, SenderLemma DEF Active
      <4>3. QED BY <4>1, <4>2
    <3>3. QED BY <2>1, <3>2
  <2>5. task \in [Tasks -> TaskRecords]
    BY DEF IInv, TypeOK
  <2> HIDE DEF ls
  <2>6. QED BY ZenonT(90), <1>1, <2>1, <2>2, <2>3, <2>4, <2>5, RunTickLemma
<1>2. CASE \E ok \in BOOLEAN : Report(t, "FAILED_FINAL", l, ok)
  BY <1>b, <1>2, ReportLemma DEF Outcomes
<1>3. QED BY <1>1, <1>2 DEF WorkerTick

\* A report by a worker, before or after its action settled.
LEMMA WorkerReportLemma ==
  ASSUME Configured = Devices, IInv, NEW t \in Tasks, NEW outcome \in Outcomes, NEW ok \in BOOLEAN,
         NEW l \in {lease[task[t].device], Settle(lease[task[t].device])},
         outcome = "NEEDS_HUMAN" => Quiet,
         Report(t, outcome, l, ok)
  PROVE  IInv'
<1>1. task[t].state = "RUNNING"
  BY DEF Report
<1>2. QED BY <1>1, OwnLeaseLemma, ReportLemma DEF Quiet

\* WorkerStart keeps the invariant.
LEMMA WorkerStartStep ==
  ASSUME Configured = Devices, IInv, NEW t \in Tasks, WorkerStart(t)
  PROVE  IInv'
<1>1. CASE worker' = [worker EXCEPT ![t] = "loop"]
           /\ UNCHANGED <<task, order, paused, holds, disk, lease, status, attached, sweep, clock>>
  <2>1. task[t].state \notin {"ABSENT", "SCHEDULED", "QUEUED"}
    BY DEF WorkerStart, IInv, WorkerOK
  <2>2. QED BY <1>1, <2>1, WorkerMovesLemma DEF Workers
<1>2. CASE \E ok \in SaveOutcomes : Report(t, "FAILED_FINAL", lease[task[t].device], ok)
  BY <1>2, WorkerReportLemma DEF SaveOutcomes, Outcomes
<1>3. QED BY <1>1, <1>2 DEF WorkerStart

\* A worker that leaves keeps the invariant.
LEMMA ReturnStep ==
  ASSUME IInv, NEW t \in Tasks, Return(t) \/ LeaveLoop(t)
  PROVE  IInv'
BY ResumedLemma, WorkerMovesLemma DEF Return, LeaveLoop, Workers

\* A worker that begins a step keeps the invariant.
LEMMA StartStepStep ==
  ASSUME IInv, NEW t \in Tasks, StartStep(t)
  PROVE  IInv'
<1> DEFINE d == task[t].device
<1>a. /\ d \in Devices /\ task[t].state = "RUNNING" /\ lease[d].mode = "AI_RUNNING"
      /\ LeaseOK(lease[d]) /\ lease[d] \in Leases
  BY ActiveLemma DEF StartStep, Active
<1>b. /\ lease' \in [Devices -> Leases]
      /\ \A e \in Devices : LeaseOK(lease'[e]) /\ lease'[e].mode = lease[e].mode
                            /\ lease'[e].pending = lease[e].pending
                            /\ lease'[e].waiter = lease[e].waiter
  BY SMTT(30), <1>a, StepLemma DEF StartStep, IInv, TypeOK, DeviceOK
<1>1. TypeOK'
  BY <1>b DEF StartStep, IInv, TypeOK, Workers
<1>2. \A u \in Tasks : TaskOK(u)'
  BY <1>b, QueueAssumption DEF StartStep, IInv, TaskOK, QueueOK, Active
<1>3. \A u \in Tasks : WorkerOK(u)'
  BY <1>a, <1>b DEF StartStep, IInv, TypeOK, WorkerOK
<1>4. \A e \in Devices : DeviceOK(e)'
  BY <1>b DEF StartStep, IInv, DeviceOK
<1>5. QED BY <1>1, <1>2, <1>3, <1>4 DEF StartStep, IInv

\* EndSession keeps the invariant.
LEMMA EndSessionStep ==
  ASSUME Configured = Devices, IInv, NEW t \in Tasks, EndSession(t)
  PROVE  IInv'
BY WorkerTickLemma, WorkerReportLemma DEF EndSession, SaveOutcomes, Outcomes

\* DropPlan keeps the invariant.
LEMMA DropPlanStep ==
  ASSUME Configured = Devices, IInv, NEW t \in Tasks, DropPlan(t)
  PROVE  IInv'
BY WorkerTickLemma, WorkerReportLemma, ResumedLemma DEF DropPlan, SaveOutcomes, Outcomes

\* Checkpoint keeps the invariant.
LEMMA CheckpointStep ==
  ASSUME IInv, NEW t \in Tasks, Checkpoint(t)
  PROVE  IInv'
<1>a. /\ task' \in [Tasks -> TaskRecords]
      /\ \A u \in Tasks : task'[u].state = task[u].state /\ task'[u].device = task[u].device
  <2> DEFINE r == [task[t] EXCEPT !.progress = TRUE]
  <2>1. r \in TaskRecords /\ r.state = task[t].state /\ r.device = task[t].device
    BY ZenonT(60) DEF IInv, TypeOK, TaskRecords
  <2>2. task' = [task EXCEPT ![t] = r]
    BY DEF Checkpoint
  <2> HIDE DEF r
  <2>3. QED BY <2>1, <2>2 DEF IInv, TypeOK
<1>1. TypeOK'
  BY <1>a DEF Checkpoint, IInv, TypeOK, Snapshot
<1>2. QueueOK(task', holds') /\ QueueOK(disk'.task, disk'.holds)
  BY <1>a DEF Checkpoint, IInv, QueueOK, Snapshot
<1>3. \A u \in Tasks : TaskOK(u)' /\ WorkerOK(u)'
  BY <1>a DEF Checkpoint, IInv, TaskOK, WorkerOK
<1>4. QED BY <1>1, <1>2, <1>3 DEF Checkpoint, IInv, DeviceOK

\* SubmitAction keeps the invariant.
LEMMA SubmitActionStep ==
  ASSUME IInv, NEW t \in Tasks, SubmitAction(t)
  PROVE  IInv'
<1> DEFINE d == task[t].device
<1>a. /\ d \in Devices /\ task[t].state = "RUNNING" /\ lease[d].mode = "AI_RUNNING"
      /\ LeaseOK(lease[d]) /\ lease[d] \in Leases
      /\ \A u \in Tasks : (task[u].state \in Active /\ task[u].device = d) => u = t
      /\ status[d] # "in-use"
  BY ActiveLemma, OwnLeaseLemma DEF SubmitAction, Owns, Active, IInv, DeviceOK
<1>b. /\ lease' \in [Devices -> Leases]
      /\ LeaseOK(lease'[d]) /\ lease'[d].mode = lease[d].mode
      /\ lease'[d].waiter = lease[d].waiter /\ lease'[d].pending = t
      /\ \A e \in Devices : e # d => lease'[e] = lease[e]
  BY SMTT(30), <1>a, StepLemma DEF SubmitAction, IInv, TypeOK
<1>1. TypeOK'
  BY <1>b DEF SubmitAction, IInv, TypeOK, Workers
<1>2. ASSUME NEW u \in Tasks PROVE TaskOK(u)'
  <2>1. CASE task[u].state \in Active
    BY <1>a, <1>b, <2>1, ActiveLemma DEF SubmitAction, IInv, TaskOK
  <2>2. CASE task[u].state \notin Active
    BY <2>2 DEF SubmitAction, TaskOK, Active
  <2>3. QED BY SMTT(30), <2>1, <2>2
<1>3. ASSUME NEW u \in Tasks PROVE WorkerOK(u)'
  <2>1. u # t /\ worker[u] \in {"detect", "input"} => task[u].device # d
    BY <1>a, SenderLemma DEF Active
  <2>2. QED BY <1>a, <1>b, <2>1 DEF SubmitAction, IInv, TypeOK, WorkerOK
<1>4. \A e \in Devices : DeviceOK(e)'
  BY <1>a, <1>b DEF SubmitAction, IInv, DeviceOK
<1>5. QED BY <1>1, <1>2, <1>3, <1>4 DEF SubmitAction, IInv

\* SendInput keeps the invariant.
LEMMA SendInputStep ==
  ASSUME IInv, NEW t \in Tasks, SendInput(t)
  PROVE  IInv'
BY WorkerMovesLemma DEF SendInput, Owns, Workers

\* SettleVerified keeps the invariant.
LEMMA SettleVerifiedStep ==
  ASSUME Configured = Devices, IInv, NEW t \in Tasks, SettleVerified(t)
  PROVE  IInv'
<1> DEFINE d == task[t].device
<1>a. /\ d \in Devices /\ task[t].state = "RUNNING" /\ worker[t] = "input"
      /\ lease[d].mode = "AI_RUNNING" /\ status[d] # "in-use"
      /\ Settle(lease[d]) \in Leases /\ LeaseOK(Settle(lease[d])) /\ Settle(lease[d]).mode = "AI_RUNNING"
      /\ Settle(lease[d]).pending = NoTask /\ Settle(lease[d]).waiter = lease[d].waiter
  BY ActiveLemma, OwnLeaseLemma DEF SettleVerified, Owns, Active, IInv, DeviceOK
<1>1. CASE /\ task' = [task EXCEPT ![t].progress = TRUE]
           /\ disk' = Snapshot(task', order, paused, holds)
           /\ lease' = [lease EXCEPT ![d] = Settle(@)]
           /\ worker' = [worker EXCEPT ![t] = "verified"]
           /\ UNCHANGED <<order, paused, holds, status, attached, sweep, clock>>
  <2>a. /\ task' \in [Tasks -> TaskRecords]
        /\ \A u \in Tasks : task'[u].state = task[u].state /\ task'[u].device = task[u].device
    <3> DEFINE r == [task[t] EXCEPT !.progress = TRUE]
    <3>1. r \in TaskRecords /\ r.state = task[t].state /\ r.device = task[t].device
      BY ZenonT(60) DEF IInv, TypeOK, TaskRecords
    <3>2. task' = [task EXCEPT ![t] = r]
      BY <1>1
    <3> HIDE DEF r
    <3>3. QED BY <3>1, <3>2 DEF IInv, TypeOK
  <2>b. /\ lease' \in [Devices -> Leases]
        /\ lease'[d] = Settle(lease[d])
        /\ \A e \in Devices : e # d => lease'[e] = lease[e]
    BY <1>1, <1>a DEF IInv, TypeOK
  <2>1. TypeOK'
    BY <1>1, <2>a, <2>b DEF IInv, TypeOK, Snapshot, Workers
  <2>2. QueueOK(task', holds') /\ QueueOK(disk'.task, disk'.holds)
    BY <1>1, <2>a DEF IInv, QueueOK, Snapshot
  <2>3. ASSUME NEW u \in Tasks PROVE TaskOK(u)'
    <3>1. CASE task[u].state \in Active
      BY <1>a, <2>a, <2>b, <3>1, ActiveLemma DEF IInv, TaskOK
    <3>2. CASE task[u].state \notin Active
      BY <2>a, <3>2 DEF TaskOK, Active
    <3>3. QED BY <3>1, <3>2
  <2>4. ASSUME NEW u \in Tasks PROVE WorkerOK(u)'
    <3>1. u # t /\ worker[u] \in {"detect", "input"} => task[u].device # d
      BY <1>a, SenderLemma DEF Active
    <3>2. QED BY <1>1, <1>a, <2>a, <2>b, <3>1 DEF IInv, TypeOK, WorkerOK
  <2>5. \A e \in Devices : DeviceOK(e)'
    BY <1>1, <1>a, <2>b DEF IInv, DeviceOK
  <2>6. QED BY <2>1, <2>2, <2>3, <2>4, <2>5 DEF IInv
<1>2. CASE \E ok \in BOOLEAN : Report(t, "FAILED_FINAL", Settle(lease[d]), ok)
  BY <1>2, WorkerReportLemma DEF Outcomes
<1>3. QED BY <1>1, <1>2 DEF SettleVerified

\* SettleFailed keeps the invariant.
LEMMA SettleFailedStep ==
  ASSUME Configured = Devices, IInv, NEW t \in Tasks, SettleFailed(t)
  PROVE  IInv'
BY WorkerTickLemma, WorkerReportLemma DEF SettleFailed, SaveOutcomes, Outcomes

\* A late settlement: the action in flight was this worker's, so no other
\* task is active on the device, and a continuation still current may run.
LEMMA SettleRevokedStep ==
  ASSUME IInv, NEW t \in Tasks, SettleRevoked(t)
  PROVE  IInv'
<1> DEFINE d == task[t].device
<1>a. /\ d \in Devices /\ lease[d].pending = t /\ lease[d] \in Leases /\ LeaseOK(lease[d])
      /\ \A u \in Tasks : (task[u].state \in Active /\ task[u].device = d) => u = t
      /\ status[d] # "in-use"
  BY NoTaskAssumption, ActiveLemma DEF SettleRevoked, IInv, TypeOK, WorkerOK, DeviceOK
<1>b. /\ lease' \in [Devices -> Leases]
      /\ lease'[d] = Settle(lease[d])
      /\ \A e \in Devices : e # d => lease'[e] = lease[e]
      /\ LeaseOK(lease'[d]) /\ lease'[d].pending = NoTask
      /\ lease[d].waiter = "none" => lease'[d].mode = lease[d].mode /\ lease'[d].waiter = "none"
  BY <1>a, SettleLemma DEF SettleRevoked, IInv, TypeOK
<1>c. /\ worker' \in [Tasks -> Workers]
      /\ worker'[t] \in {"loop", "none"}
      /\ worker'[t] = "loop" => task[t].state \in Active
      /\ \A u \in Tasks : u # t => worker'[u] = worker[u]
  BY DEF SettleRevoked, Resumed, IInv, TypeOK, Workers
<1>d. /\ sweep = {} /\ (sweep' = sweep \/ sweep' = (IF paused THEN {} ELSE FreeDevices)')
      /\ task' = task /\ holds' = holds /\ disk' = disk /\ status' = status
      /\ attached' = attached /\ paused' = paused /\ clock' = clock
  BY DEF SettleRevoked, TryDispatch, Quiet
<1>1. TypeOK'
  <2>1. sweep' \in SUBSET Devices
    BY <1>d DEF IInv, TypeOK, FreeDevices
  <2>2. QED BY <1>b, <1>c, <1>d, <2>1 DEF IInv, TypeOK
<1>2. ASSUME NEW u \in Tasks PROVE TaskOK(u)'
  <2>1. CASE task[u].state \in Active /\ task[u].device = d
    <3>1. u = t /\ (task[t].state = "RUNNING" \/ task[t].state = "PAUSED")
      BY <1>a, <2>1 DEF Active
    <3>2. lease[d].waiter = "none"
      BY SMTT(30), <1>a, <3>1, SettleLemma DEF IInv, TaskOK
    <3>3. QED BY <1>b, <1>d, <3>1, <3>2 DEF IInv, TaskOK
  <2>2. CASE task[u].state \in Active /\ task[u].device # d
    BY <1>b, <1>d, <2>2, ActiveLemma DEF IInv, TaskOK
  <2>3. CASE task[u].state \notin Active
    BY <1>d, <2>3 DEF TaskOK, Active
  <2>4. QED BY <2>1, <2>2, <2>3
<1>3. ASSUME NEW u \in Tasks PROVE WorkerOK(u)'
  <2>1. u # t /\ worker[u] \in {"detect", "input"} => task[u].device # d
    BY <1>a DEF IInv, WorkerOK
  <2>2. QED BY <1>b, <1>c, <1>d, <2>1 DEF IInv, WorkerOK, Active
<1>4. ASSUME NEW e \in Devices PROVE DeviceOK(e)'
  <2>1. status'[e] = "in-use" => lease'[e].mode \in {"HUMAN", "ERROR"} /\ lease'[e].pending = NoTask
    BY <1>a, <1>b, <1>d DEF IInv, DeviceOK
  <2>2. e \in sweep' => e \notin holds' /\ status'[e] # "in-use"
    BY <1>d, <2>1 DEF FreeDevices
  <2>3. QED BY <1>b, <2>1, <2>2 DEF IInv, DeviceOK
<1>5. QED BY <1>1, <1>2, <1>3, <1>4, <1>d DEF IInv

\* A worker that finishes a step keeps the invariant.
LEMMA FinishStepStep ==
  ASSUME Configured = Devices, IInv, NEW t \in Tasks, FinishStep(t)
  PROVE  IInv'
BY WorkerReportLemma, ResumedLemma DEF FinishStep, SaveOutcomes, Outcomes

\* Every step of a worker keeps the invariant.
LEMMA WorkerStep ==
  ASSUME Configured = Devices, IInv, NEW t \in Tasks, Worker(t)
  PROVE  IInv'
BY WorkerStartStep, ReturnStep, StartStepStep, EndSessionStep, CheckpointStep, DropPlanStep,
   SubmitActionStep, SendInputStep, SettleVerifiedStep, SettleFailedStep, SettleRevokedStep,
   FinishStepStep
DEF Worker

-----------------------------------------------------------------------------
(* What operators order.                                                   *)

\* The tasks tk differ from those in memory at most in that no task is active
\* on d any more.
Freed(tk, d) ==
  /\ tk \in [Tasks -> TaskRecords]
  /\ \A u \in Tasks :
       /\ tk[u].device = task[u].device
       /\ tk[u].state \in Active => tk[u] = task[u] /\ task[u].device # d
       /\ tk[u].state \in {"ABSENT", "SCHEDULED", "QUEUED"} => tk[u] = task[u]

\* Cancelling its holder leaves a device without an active task.
LEMMA CancelHolderLemma ==
  ASSUME IInv, NEW d \in Devices
  PROVE  Freed(WithState(Holder(d), "CANCELLED"), d)
<1> DEFINE S == Holder(d)
           tk == WithState(S, "CANCELLED")
<1>1. S = {t \in Tasks : task[t].state \in Active /\ task[t].device = d}
  BY HolderLemma
<1>2. tk = [u \in Tasks |-> IF u \in S THEN [task[u] EXCEPT !.state = "CANCELLED"] ELSE task[u]]
  BY DEF WithState
<1> HIDE DEF S, tk
<1>3. tk \in [Tasks -> TaskRecords]
  <2>1. "CANCELLED" \in TaskStates
    BY DEF TaskStates, Terminal
  <2>2. \A u \in Tasks : [task[u] EXCEPT !.state = "CANCELLED"] \in TaskRecords
    BY ZenonT(60), <2>1 DEF IInv, TypeOK, TaskRecords
  <2>3. \A u \in Tasks : tk[u] \in TaskRecords
    BY <1>2, <2>2 DEF IInv, TypeOK
  <2>4. QED BY <1>2, <2>3
<1>4. ASSUME NEW u \in Tasks
      PROVE  /\ tk[u].device = task[u].device
             /\ tk[u].state \in Active => tk[u] = task[u] /\ task[u].device # d
             /\ tk[u].state \in {"ABSENT", "SCHEDULED", "QUEUED"} => tk[u] = task[u]
  <2>1. CASE u \in S
    <3>1. tk[u] = [task[u] EXCEPT !.state = "CANCELLED"]
      BY <1>2, <2>1
    <3>2. tk[u].device = task[u].device /\ tk[u].state = "CANCELLED"
      BY <3>1 DEF IInv, TypeOK, TaskRecords
    <3>3. QED BY <3>2 DEF Active
  <2>2. CASE u \notin S
    BY <1>1, <1>2, <2>2
  <2>3. QED BY <2>1, <2>2
<1>5. Freed(tk, d)
  BY <1>3, <1>4 DEF Freed
<1>6. QED BY <1>5 DEF tk, S

\* An order that cancels the holder of d and leaves d with the lease l, held
\* for a person or not, saved or not.
LEMMA OrderLemma ==
  ASSUME Configured = Devices, IInv, Quiet, NEW d \in Devices, Freed(task', d),
         NEW l \in Leases, LeaseOK(l), l.pending = lease[d].pending,
         lease[d].mode \in {"HUMAN", "ERROR"} => l.mode \in {"HUMAN", "ERROR"},
         lease' = [lease EXCEPT ![d] = l],
         holds' \in {holds, holds \cup {d}},
         disk' \in {disk, Snapshot(task', order, paused, holds')},
         sweep' = sweep \/ TryDispatch,
         UNCHANGED <<order, paused, status, attached, worker, clock>>
  PROVE  IInv'
<1>a. /\ task' \in [Tasks -> TaskRecords]
      /\ \A u \in Tasks : task'[u].device = task[u].device
      /\ \A u \in Tasks : task'[u].state \in Active => task'[u] = task[u] /\ task[u].device # d
      /\ \A u \in Tasks : task'[u].state \in {"ABSENT", "SCHEDULED", "QUEUED"} => task'[u] = task[u]
  BY DEF Freed
<1>b. /\ lease' \in [Devices -> Leases]
      /\ lease'[d] = l
      /\ \A e \in Devices : e # d => lease'[e] = lease[e]
      /\ \A e \in Devices : lease'[e].pending = lease[e].pending
  BY DEF IInv, TypeOK
<1>c. sweep = {} /\ (sweep' = {} \/ sweep' = (IF paused THEN {} ELSE FreeDevices)')
  BY DEF Quiet, TryDispatch
<1>1. QueueOK(task', holds')
  BY <1>a DEF IInv, QueueOK
<1>2. QueueOK(disk'.task, disk'.holds)
  BY <1>1 DEF IInv, Snapshot
<1>3. TypeOK'
  <2>1. disk'.task \in [Tasks -> TaskRecords] /\ disk'.paused \in BOOLEAN /\ disk'.holds \in SUBSET Devices
    BY <1>a DEF IInv, TypeOK, Snapshot
  <2>2. sweep' \in SUBSET Devices
    BY <1>c DEF IInv, TypeOK, FreeDevices
  <2>3. QED BY <1>a, <1>b, <2>1, <2>2 DEF IInv, TypeOK
<1>4. ASSUME NEW u \in Tasks PROVE TaskOK(u)'
  <2>1. CASE task'[u].state \in Active
    BY <1>a, <1>b, <2>1, ActiveLemma DEF IInv, TaskOK
  <2>2. CASE task'[u].state \notin Active
    BY <2>2 DEF TaskOK, Active
  <2>3. QED BY <2>1, <2>2
<1>5. \A u \in Tasks : WorkerOK(u)'
  BY <1>a, <1>b DEF IInv, WorkerOK
<1>6. ASSUME NEW e \in Devices PROVE DeviceOK(e)'
  <2>1. status'[e] = "in-use" => lease'[e].mode \in {"HUMAN", "ERROR"} /\ lease'[e].pending = NoTask
    BY <1>b DEF IInv, DeviceOK
  <2>2. e \in sweep' => e \notin holds' /\ status'[e] # "in-use"
    BY <1>c, <2>1 DEF FreeDevices
  <2>3. QED BY <1>b, <2>1, <2>2 DEF IInv, DeviceOK
<1>7. QED BY <1>1, <1>2, <1>3, <1>4, <1>5, <1>6 DEF IInv

\* StopDevice keeps the invariant.
LEMMA StopDeviceStep ==
  ASSUME Configured = Devices, IInv, NEW d \in Devices, StopDevice(d)
  PROVE  IInv'
<1> DEFINE l == ReleaseDevice(lease[d])
           m == MarkError(ReleaseDevice(lease[d]))
<1>1. lease[d] \in Leases /\ LeaseOK(lease[d])
  BY DEF IInv, TypeOK, DeviceOK
<1>2. /\ l \in Leases /\ LeaseOK(l) /\ l.pending = lease[d].pending
      /\ lease[d].mode \in {"HUMAN", "ERROR"} => l.mode \in {"HUMAN", "ERROR"}
  BY <1>1, ReleaseLemma
<1>3. /\ m \in Leases /\ LeaseOK(m) /\ m.pending = lease[d].pending /\ m.mode = "ERROR"
  BY <1>2, StopLemma
<1>4. /\ Quiet /\ Freed(task', d)
      /\ UNCHANGED <<order, paused, status, attached, worker, clock>>
  BY CancelHolderLemma DEF StopDevice
<1>5. \/ /\ lease' = [lease EXCEPT ![d] = l]
         /\ disk' = Snapshot(task', order, paused, holds)
         /\ holds' = holds /\ TryDispatch
      \/ /\ lease' = [lease EXCEPT ![d] = m]
         /\ holds' = holds \cup {d} /\ disk' = disk /\ sweep' = sweep
  BY DEF StopDevice
<1> HIDE DEF l, m
<1>6. QED BY <1>2, <1>3, <1>4, <1>5, OrderLemma

\* TakeoverDevice keeps the invariant.
LEMMA TakeoverDeviceStep ==
  ASSUME Configured = Devices, IInv, NEW d \in Devices, TakeoverDevice(d)
  PROVE  IInv'
<1> DEFINE l == IF CanSwitchToHuman(lease[d]) THEN SwitchToHuman(lease[d]) ELSE lease[d]
<1>1. lease[d] \in Leases /\ LeaseOK(lease[d])
  BY DEF IInv, TypeOK, DeviceOK
<1>2. /\ l \in Leases /\ LeaseOK(l) /\ l.pending = lease[d].pending
      /\ lease[d].mode = "HUMAN" => l.mode = "HUMAN"
  BY <1>1, ToHumanLemma
<1>3. lease[d].mode = "ERROR" => l.mode = "ERROR"
  BY <1>1 DEF CanSwitchToHuman, CanApply, Legal, Sources, LeaseOK
<1>4. /\ Quiet /\ Freed(task', d) /\ holds' = holds \cup {d}
      /\ UNCHANGED <<order, paused, status, attached, worker, sweep, clock>>
      /\ disk' \in {disk, Snapshot(task', order, paused, holds')}
  BY CancelHolderLemma DEF TakeoverDevice
<1>5. \/ lease' = [lease EXCEPT ![d] = l]
      \/ lease' = [lease EXCEPT ![d] = lease[d]]
  BY DEF TakeoverDevice, IInv, TypeOK
<1> HIDE DEF l
<1>6. QED BY <1>1, <1>2, <1>3, <1>4, <1>5, OrderLemma

\* EmergencyStopDevice keeps the invariant.
LEMMA EmergencyStopDeviceStep ==
  ASSUME Configured = Devices, IInv, NEW d \in Devices, EmergencyStopDevice(d)
  PROVE  IInv'
<1> DEFINE l == EmergencyStop(lease[d])
<1>1. l \in Leases /\ LeaseOK(l) /\ l.pending = lease[d].pending /\ l.mode = "HUMAN"
  BY StopLemma DEF IInv, TypeOK, DeviceOK
<1>2. /\ Quiet /\ Freed(task', d) /\ holds' = holds \cup {d}
      /\ UNCHANGED <<order, paused, status, attached, worker, sweep, clock>>
      /\ disk' \in {disk, Snapshot(task', order, paused, holds')}
      /\ lease' = [lease EXCEPT ![d] = l]
  BY CancelHolderLemma DEF EmergencyStopDevice
<1> HIDE DEF l
<1>3. QED BY <1>1, <1>2, OrderLemma

\* The tasks tk differ from those in memory in the state of t alone.
Moves(tk, t, state) ==
  /\ tk \in [Tasks -> TaskRecords]
  /\ tk[t].state = state /\ tk[t].device = task[t].device
  /\ \A u \in Tasks : u # t => tk[u] = task[u]

\* Writing one state moves one task.
LEMMA OneStateLemma ==
  ASSUME IInv, NEW t \in Tasks, NEW state \in TaskStates
  PROVE  Moves(WithState({t}, state), t, state)
<1> DEFINE tk == WithState({t}, state)
<1>1. tk = [u \in Tasks |-> IF u \in {t} THEN [task[u] EXCEPT !.state = state] ELSE task[u]]
  BY DEF WithState
<1> HIDE DEF tk
<1>2. /\ tk[t] = [task[t] EXCEPT !.state = state]
      /\ \A u \in Tasks : u # t => tk[u] = task[u]
  BY <1>1
<1>3. /\ tk[t] \in TaskRecords
      /\ tk[t].state = state /\ tk[t].device = task[t].device
  BY SMTT(30), <1>2 DEF IInv, TypeOK, TaskRecords
<1>4. tk \in [Tasks -> TaskRecords]
  BY <1>1, <1>2, <1>3 DEF IInv, TypeOK
<1>5. Moves(tk, t, state)
  BY <1>2, <1>3, <1>4 DEF Moves
<1>6. QED BY <1>5 DEF tk

\* CancelTask keeps the invariant.
LEMMA CancelTaskStep ==
  ASSUME Configured = Devices, IInv, NEW t \in Tasks, CancelTask(t)
  PROVE  IInv'
<1> DEFINE d == task[t].device
<1>a. /\ Quiet /\ task' = WithState({t}, "CANCELLED") /\ disk' = Snapshot(task', order, paused, holds)
      /\ UNCHANGED <<order, paused, holds, status, attached, worker, clock>>
  BY DEF CancelTask
<1>1. CASE task[t].state \in Active
  <2> DEFINE l == ReleaseDevice(lease[d])
  <2>1. /\ d \in Devices /\ lease[d] \in Leases /\ LeaseOK(lease[d])
        /\ \A u \in Tasks : (task[u].state \in Active /\ task[u].device = d) => u = t
    BY <1>1, ActiveLemma
  <2>2. Holder(d) = {t}
    BY <1>1, <2>1, HolderLemma
  <2>3. Freed(task', d)
    BY <1>a, <2>1, <2>2, CancelHolderLemma
  <2>4. /\ l \in Leases /\ LeaseOK(l) /\ l.pending = lease[d].pending
        /\ lease[d].mode \in {"HUMAN", "ERROR"} => l.mode \in {"HUMAN", "ERROR"}
    BY <2>1, ReleaseLemma
  <2>5. lease' = [lease EXCEPT ![d] = l] /\ TryDispatch
    BY <1>1 DEF CancelTask
  <2> HIDE DEF l
  <2>6. QED BY <1>a, <2>1, <2>3, <2>4, <2>5, OrderLemma
<1>2. CASE task[t].state \notin Active
  <2>1. Moves(task', t, "CANCELLED") /\ lease' = lease /\ sweep' = sweep
    <3>1. "CANCELLED" \in TaskStates
      BY DEF TaskStates, Terminal
    <3>2. QED BY <1>2, <1>a, <3>1, OneStateLemma DEF CancelTask
  <2>2. /\ task' \in [Tasks -> TaskRecords]
        /\ \A u \in Tasks : task'[u].device = task[u].device
        /\ \A u \in Tasks : task'[u].state \in Active => task'[u] = task[u]
        /\ \A u \in Tasks : task'[u].state \in {"ABSENT", "SCHEDULED", "QUEUED"} => task'[u] = task[u]
    BY <2>1 DEF Moves, Active
  <2>3. QueueOK(task', holds') /\ QueueOK(disk'.task, disk'.holds)
    BY ZenonT(60), <1>a, <2>2 DEF IInv, QueueOK, Snapshot
  <2>4. TypeOK'
    BY <1>a, <2>1, <2>2 DEF IInv, TypeOK, Snapshot
  <2>5. ASSUME NEW u \in Tasks PROVE TaskOK(u)'
    <3>1. CASE task'[u].state \in Active
      BY <2>1, <2>2, <3>1 DEF IInv, TaskOK
    <3>2. CASE task'[u].state \notin Active
      BY <3>2 DEF TaskOK, Active
    <3>3. QED BY <3>1, <3>2
  <2>6. \A u \in Tasks : WorkerOK(u)'
    BY <1>a, <2>1, <2>2 DEF IInv, WorkerOK
  <2>7. QED BY <1>a, <2>1, <2>3, <2>4, <2>5, <2>6 DEF IInv, DeviceOK
<1>3. QED BY <1>1, <1>2

\* A launch starts the worker of the task, unless it has one.
LEMMA LaunchedLemma ==
  ASSUME NEW t \in Tasks, worker \in [Tasks -> Workers]
  PROVE  /\ Launched(t) \in [Tasks -> Workers]
         /\ \A u \in Tasks : Launched(t)[u] = worker[u] \/ (u = t /\ Launched(t)[u] = "start")
<1>1. Launched(t) \in [Tasks -> Workers]
  BY DEF Launched, Workers
<1>2. \A u \in Tasks : Launched(t)[u] = worker[u] \/ (u = t /\ Launched(t)[u] = "start")
  BY DEF Launched, Workers
<1>3. QED BY <1>1, <1>2

\* The holder of d goes from one active state to another, with its lease.
LEMMA HolderMovesLemma ==
  ASSUME IInv, Quiet, NEW d \in Devices, NEW t \in Holder(d),
         Moves(task', t, "RUNNING") \/ Moves(task', t, "PAUSED"),
         NEW l \in Leases, LeaseOK(l), l.pending = lease[d].pending,
         lease[d].mode \notin {"HUMAN", "ERROR"},
         task'[t].state = "RUNNING" => l.mode = "AI_RUNNING",
         task'[t].state = "PAUSED" => l.mode = "AI_PAUSED" /\ l.waiter # "drain",
         lease' = [lease EXCEPT ![d] = l],
         disk' = Snapshot(task', order, paused, holds),
         worker' \in [Tasks -> Workers],
         \A u \in Tasks : worker'[u] = worker[u] \/ (u = t /\ worker'[u] = "start"),
         UNCHANGED <<order, paused, holds, status, attached, sweep, clock>>
  PROVE  IInv'
<1>a. /\ t \in Tasks /\ task[t].state \in Active /\ task[t].device = d
      /\ \A u \in Tasks : (task[u].state \in Active /\ task[u].device = d) => u = t
      /\ l.pending \in {NoTask, t}
  BY HolderLemma, ActiveLemma
<1>b. /\ task' \in [Tasks -> TaskRecords]
      /\ task'[t].state \in Active
      /\ \A u \in Tasks : task'[u].device = task[u].device
      /\ \A u \in Tasks : u # t => task'[u] = task[u]
      /\ \A u \in Tasks : task'[u].state \in Active => task[u].state \in Active
  BY <1>a DEF Moves, Active
<1>c. /\ lease' \in [Devices -> Leases]
      /\ lease'[d] = l
      /\ \A e \in Devices : e # d => lease'[e] = lease[e]
      /\ \A e \in Devices : lease'[e].pending = lease[e].pending
  BY DEF IInv, TypeOK
<1>1. QueueOK(task', holds')
  BY <1>a, <1>b DEF IInv, QueueOK
<1>2. QueueOK(disk'.task, disk'.holds)
  BY <1>1 DEF Snapshot
<1>3. TypeOK'
  BY <1>b, <1>c DEF IInv, TypeOK, Snapshot
<1>4. ASSUME NEW u \in Tasks PROVE TaskOK(u)'
  <2>1. CASE u = t
    BY <1>a, <1>b, <1>c, <2>1 DEF TaskOK
  <2>2. CASE u # t /\ task[u].state \in Active
    BY <1>a, <1>b, <1>c, <2>2, ActiveLemma DEF IInv, TaskOK
  <2>3. CASE u # t /\ task[u].state \notin Active
    BY <1>b, <2>3 DEF TaskOK, Active
  <2>4. QED BY <2>1, <2>2, <2>3
<1>5. \A u \in Tasks : WorkerOK(u)'
  BY <1>a, <1>b, <1>c DEF IInv, WorkerOK, Active
<1>6. \A e \in Devices : DeviceOK(e)'
  BY <1>c DEF IInv, DeviceOK
<1>7. QED BY <1>1, <1>2, <1>3, <1>4, <1>5, <1>6 DEF IInv

\* PauseDevice keeps the invariant.
LEMMA PauseDeviceStep ==
  ASSUME IInv, NEW d \in Devices, PauseDevice(d)
  PROVE  IInv'
<1> DEFINE l == ApplyEvent(lease[d], "PAUSE_TASK")
<1>1. PICK t \in Holder(d) : task[t].state = "RUNNING" /\ task' = WithState({t}, "PAUSED")
  BY DEF PauseDevice
<1>2. t \in Tasks
  BY HolderLemma
<1>3. Moves(task', t, "PAUSED")
  <2>1. "PAUSED" \in TaskStates
    BY DEF TaskStates, Active
  <2>2. QED BY <1>1, <1>2, <2>1, OneStateLemma
<1>4. /\ l \in Leases /\ LeaseOK(l) /\ l.pending = lease[d].pending
      /\ l.mode = "AI_PAUSED" /\ l.waiter = "none" /\ lease[d].mode = "AI_RUNNING"
  BY PauseLemma DEF PauseDevice, IInv, TypeOK, DeviceOK
<1>5. /\ Quiet /\ lease' = [lease EXCEPT ![d] = l] /\ disk' = Snapshot(task', order, paused, holds)
      /\ worker' \in [Tasks -> Workers]
      /\ \A u \in Tasks : worker'[u] = worker[u] \/ (u = t /\ worker'[u] = "start")
      /\ UNCHANGED <<order, paused, holds, status, attached, sweep, clock>>
  BY DEF PauseDevice, IInv, TypeOK
<1>6. task'[t].state = "PAUSED"
  BY <1>3 DEF Moves
<1> HIDE DEF l
<1>7. QED BY <1>3, <1>4, <1>5, <1>6, HolderMovesLemma

\* ResumeDevice keeps the invariant.
LEMMA ResumeDeviceStep ==
  ASSUME IInv, NEW d \in Devices, ResumeDevice(d)
  PROVE  IInv'
<1> DEFINE l == ApplyEvent(lease[d], "RESUME_TASK")
<1>1. PICK t \in Holder(d) : /\ task[t].state = "PAUSED" /\ task' = WithState({t}, "RUNNING")
                             /\ worker' = Launched(t)
  BY DEF ResumeDevice
<1>2. t \in Tasks
  BY HolderLemma
<1>3. Moves(task', t, "RUNNING")
  <2>1. "RUNNING" \in TaskStates
    BY DEF TaskStates, Active
  <2>2. QED BY <1>1, <1>2, <2>1, OneStateLemma
<1>4. /\ l \in Leases /\ LeaseOK(l) /\ l.pending = lease[d].pending
      /\ l.mode = "AI_RUNNING" /\ lease[d].mode = "AI_PAUSED"
  BY PauseLemma DEF ResumeDevice, IInv, TypeOK, DeviceOK
<1>5. /\ Quiet /\ lease' = [lease EXCEPT ![d] = l] /\ disk' = Snapshot(task', order, paused, holds)
      /\ UNCHANGED <<order, paused, holds, status, attached, sweep, clock>>
  BY DEF ResumeDevice
<1>6. /\ worker' \in [Tasks -> Workers]
      /\ \A u \in Tasks : worker'[u] = worker[u] \/ (u = t /\ worker'[u] = "start")
  BY <1>1, <1>2, LaunchedLemma DEF IInv, TypeOK
<1>7. task'[t].state = "RUNNING"
  BY <1>3 DEF Moves
<1> HIDE DEF l
<1>8. QED BY <1>3, <1>4, <1>5, <1>6, <1>7, HolderMovesLemma

\* SwitchDeviceToAI keeps the invariant.
LEMMA SwitchDeviceToAIStep ==
  ASSUME IInv, NEW d \in Devices, SwitchDeviceToAI(d)
  PROVE  IInv'
<1>a. /\ lease[d].mode = "HUMAN" /\ lease[d].pending = NoTask /\ status[d] = "idle"
      /\ lease' \in [Devices -> Leases]
      /\ lease'[d].mode = "AI_IDLE" /\ lease'[d].pending = NoTask /\ LeaseOK(lease'[d])
      /\ \A e \in Devices : e # d => lease'[e] = lease[e]
      /\ \A e \in Devices : lease'[e].pending = lease[e].pending
  BY ToAILemma DEF SwitchDeviceToAI, IInv, TypeOK, DeviceOK
<1>b. /\ sweep = {} /\ (sweep' = {} \/ sweep' = (IF paused THEN {} ELSE FreeDevices)')
      /\ holds' \subseteq holds
      /\ disk' = disk \/ disk' = Snapshot(task, order, paused, holds')
      /\ UNCHANGED <<task, order, paused, status, attached, worker, clock>>
  BY DEF SwitchDeviceToAI, Quiet, TryDispatch
<1>1. QueueOK(task', holds') /\ QueueOK(disk'.task, disk'.holds)
  BY <1>b DEF IInv, QueueOK, Snapshot
<1>2. TypeOK'
  <2>1. sweep' \in SUBSET Devices
    BY <1>b DEF IInv, TypeOK, FreeDevices
  <2>2. QED BY <1>a, <1>b, <2>1 DEF IInv, TypeOK, Snapshot
<1>3. ASSUME NEW u \in Tasks PROVE TaskOK(u)'
  <2>1. CASE task[u].state \in Active
    BY <1>a, <1>b, <2>1, ActiveLemma DEF IInv, TaskOK
  <2>2. CASE task[u].state \notin Active
    BY <1>b, <2>2 DEF TaskOK, Active
  <2>3. QED BY <2>1, <2>2
<1>4. \A u \in Tasks : WorkerOK(u)'
  BY <1>a, <1>b DEF IInv, WorkerOK
<1>5. ASSUME NEW e \in Devices PROVE DeviceOK(e)'
  <2>1. status'[e] = "in-use" => lease'[e].mode \in {"HUMAN", "ERROR"} /\ lease'[e].pending = NoTask
    BY <1>a, <1>b DEF IInv, DeviceOK
  <2>2. e \in sweep' => e \notin holds' /\ status'[e] # "in-use"
    BY <1>b, <2>1 DEF FreeDevices
  <2>3. QED BY <1>a, <2>1, <2>2 DEF IInv, DeviceOK
<1>6. QED BY <1>1, <1>2, <1>3, <1>4, <1>5 DEF IInv

\* Every order to a phone keeps the invariant.
LEMMA OperatorOnDeviceStep ==
  ASSUME Configured = Devices, IInv, NEW d \in Devices, OperatorOnDevice(d)
  PROVE  IInv'
BY PauseDeviceStep, ResumeDeviceStep, StopDeviceStep, TakeoverDeviceStep, EmergencyStopDeviceStep,
   SwitchDeviceToAIStep
DEF OperatorOnDevice

\* Editing the queue keeps the invariant.
LEMMA EditQueueStep ==
  ASSUME IInv, \/ \E p \in BOOLEAN : PauseQueue(p)
               \/ \E t, u \in Tasks, relation \in {"before", "after"} : MoveTask(t, relation, u)
               \/ \E t \in Tasks, p \in Priorities : SetPriority(t, p)
  PROVE  IInv'
<1>1. /\ task' \in [Tasks -> TaskRecords]
      /\ \A u \in Tasks : task'[u].state = task[u].state /\ task'[u].device = task[u].device
      /\ paused' \in BOOLEAN
      /\ disk'.task = task' /\ disk'.paused = paused' /\ disk'.holds = holds
      /\ UNCHANGED <<holds, lease, status, attached, worker, sweep, clock>>
  <2>1. task \in [Tasks -> TaskRecords] /\ paused \in BOOLEAN
    BY DEF IInv, TypeOK
  <2>2. CASE \E p \in BOOLEAN : PauseQueue(p)
    BY <2>1, <2>2 DEF PauseQueue, Snapshot
  <2>3. CASE \E t, u \in Tasks, relation \in {"before", "after"} : MoveTask(t, relation, u)
    BY <2>1, <2>3 DEF MoveTask, Snapshot
  <2>4. CASE \E t \in Tasks, p \in Priorities : SetPriority(t, p)
    BY <2>1, <2>4 DEF SetPriority, TaskRecords, Snapshot
  <2>5. QED BY <2>2, <2>3, <2>4
<1>2. QueueOK(task', holds') /\ QueueOK(disk'.task, disk'.holds)
  BY <1>1 DEF IInv, QueueOK
<1>3. TypeOK'
  BY <1>1 DEF IInv, TypeOK
<1>4. \A u \in Tasks : TaskOK(u)' /\ WorkerOK(u)'
  BY <1>1 DEF IInv, TaskOK, WorkerOK
<1>5. QED BY <1>1, <1>2, <1>3, <1>4 DEF IInv, DeviceOK

\* AddTask keeps the invariant.
LEMMA AddTaskStep ==
  ASSUME Configured = Devices, IInv, NEW t \in Tasks, AddTask(t)
  PROVE  IInv'
<1> DEFINE s == IF TaskInput[t].early THEN "SCHEDULED" ELSE "QUEUED"
           added == WithState({t}, s)
<1>1. s \in {"SCHEDULED", "QUEUED"} /\ s \in TaskStates
  BY DEF TaskStates
<1>2. Moves(added, t, s)
  BY <1>1, OneStateLemma
<1>3. Quiet /\ task[t].state = "ABSENT" /\ worker' = worker
  BY DEF AddTask
<1>4. /\ added \in [Tasks -> TaskRecords]
      /\ \A u \in Tasks :
           /\ added[u].device = task[u].device
           /\ (added[u].state \in Active \/ task[u].state \in Active) => added[u] = task[u]
           /\ added[u].state \in {"ABSENT", "SCHEDULED", "QUEUED"} =>
                task[u].state \in {"ABSENT", "SCHEDULED", "QUEUED"}
  <2> HIDE DEF added, s
  <2>1. added \in [Tasks -> TaskRecords] /\ \A u \in Tasks : u # t => added[u] = task[u]
    BY <1>2 DEF Moves
  <2>2. added[t].device = task[t].device /\ added[t].state = s
    BY <1>2 DEF Moves
  <2>3. s \notin Active /\ task[t].state \notin Active
    BY <1>1, <1>3 DEF Active
  <2>4. QED BY <1>3, <2>1, <2>2, <2>3
<1>5. CASE RunTick(added, Append(order, t), lease)
  <2>1. /\ added \in [Tasks -> TaskRecords]
        /\ \A u \in Tasks :
             /\ added[u].device = task[u].device
             /\ (added[u].state \in Active \/ task[u].state \in Active) => added[u] = task[u]
             /\ added[u].state \in {"ABSENT", "SCHEDULED", "QUEUED"} =>
                  task[u].state \in {"ABSENT", "SCHEDULED", "QUEUED"}
    BY <1>4
  <2>2. /\ lease \in [Devices -> Leases] /\ \A e \in Devices : LeaseOK(lease[e])
        /\ worker' \in [Tasks -> Workers]
    <3>1. lease \in [Devices -> Leases] /\ worker' \in [Tasks -> Workers]
      BY <1>3 DEF IInv, TypeOK
    <3>2. \A e \in Devices : LeaseOK(lease[e])
      BY DEF IInv, DeviceOK
    <3>3. QED BY <3>1, <3>2
  <2> DEFINE or == Append(order, t)
  <2> HIDE DEF added, or
  <2>3. QED BY <1>3, <1>5, <2>1, <2>2, RunTickLemma DEF or
<1>6. CASE /\ task' = added
           /\ order' = Append(order, t)
           /\ disk' = Snapshot(added, order', paused, holds)
           /\ UNCHANGED <<paused, holds, lease, status, attached, sweep, clock>>
  <2>1. /\ task' \in [Tasks -> TaskRecords]
        /\ \A u \in Tasks : task'[u].device = task[u].device
        /\ \A u \in Tasks : task'[u].state \in Active => task'[u] = task[u]
        /\ \A u \in Tasks : task'[u].state \in {"ABSENT", "SCHEDULED", "QUEUED"} =>
              task[u].state \in {"ABSENT", "SCHEDULED", "QUEUED"}
    BY <1>6, <1>4
  <2>a. disk'.task = task' /\ disk'.holds = holds' /\ holds' = holds
    BY <1>6 DEF Snapshot
  <2>b. QueueOK(task', holds)
    BY <2>1 DEF IInv, QueueOK
  <2>2. QueueOK(task', holds') /\ QueueOK(disk'.task, disk'.holds)
    BY <2>a, <2>b
  <2>c. lease' = lease /\ worker' = worker
    BY <1>3, <1>6
  <2>3. TypeOK'
    BY <1>3, <1>6, <2>1 DEF IInv, TypeOK, Snapshot
  <2>4. ASSUME NEW u \in Tasks PROVE TaskOK(u)'
    <3>1. CASE task'[u].state \in Active
      BY <2>1, <2>c, <3>1 DEF IInv, TaskOK
    <3>2. CASE task'[u].state \notin Active
      BY <3>2 DEF TaskOK, Active
    <3>3. QED BY <3>1, <3>2
  <2>5. \A u \in Tasks : WorkerOK(u)'
    BY <2>1, <2>c DEF IInv, WorkerOK
  <2>6. QED BY <1>6, <2>2, <2>3, <2>4, <2>5 DEF IInv, DeviceOK
<1>7. QED BY <1>5, <1>6 DEF AddTask

\* Tick keeps the invariant.
LEMMA TickStep ==
  ASSUME Configured = Devices, IInv, Tick
  PROVE  IInv'
<1>1. RunTick(task, order, lease) /\ worker' = worker
  BY DEF Tick
<1>2. /\ task \in [Tasks -> TaskRecords] /\ lease \in [Devices -> Leases]
      /\ \A e \in Devices : LeaseOK(lease[e])
      /\ worker' \in [Tasks -> Workers]
  BY <1>1 DEF IInv, TypeOK, DeviceOK
<1>3. QED BY <1>1, <1>2, RunTickLemma

-----------------------------------------------------------------------------
(* The sweep.                                                              *)

\* A dispatch takes a device that was nobody's, whenever the sweep that
\* offers it was computed.
LEMMA DispatchLemma ==
  ASSUME IInv, NEW d \in Devices, d \in sweep, sweep' = sweep \ {d},
         NEW t \in Tasks, task[t].state = "QUEUED", Dispatch(t, d),
         UNCHANGED <<order, paused, holds, status, attached>>
  PROVE  IInv'
<1>a. /\ lease[d].mode \in {"HUMAN", "AI_IDLE"} /\ lease[d].pending = NoTask
      /\ lease' \in [Devices -> Leases]
      /\ lease'[d].mode = "AI_RUNNING" /\ lease'[d].pending = NoTask /\ LeaseOK(lease'[d])
      /\ \A e \in Devices : e # d => lease'[e] = lease[e]
      /\ d \notin holds /\ status[d] # "in-use"
  <2>1. lease[d] \in Leases /\ LeaseOK(lease[d]) /\ CanStart(lease[d])
    BY DEF Dispatch, IInv, TypeOK, DeviceOK
  <2>2. d \notin holds /\ status[d] # "in-use"
    BY DEF IInv, DeviceOK
  <2>3. QED BY <2>1, <2>2, StartLemma DEF Dispatch, IInv, TypeOK
<1>b. /\ task' \in [Tasks -> TaskRecords]
      /\ task'[t].state = "RUNNING" /\ task'[t].device = d
      /\ \A u \in Tasks : u # t => task'[u] = task[u]
  <2>1. "RUNNING" \in TaskStates
    BY DEF TaskStates, Active
  <2>2. QED BY SMTT(30), <2>1 DEF Dispatch, IInv, TypeOK, TaskRecords
<1>c. /\ worker' \in [Tasks -> Workers]
      /\ \A u \in Tasks : worker'[u] = worker[u] \/ (u = t /\ worker'[u] = "start")
      /\ worker[t] \in {"none", "return"}
  BY LaunchedLemma DEF Dispatch, IInv, TypeOK, WorkerOK
<1>1. ASSUME NEW u \in Tasks, u # t, task[u].state \in Active PROVE task[u].device # d
  BY <1>a, <1>1, ActiveLemma
<1>2. QueueOK(task', holds')
  BY <1>a, <1>b, <1>1 DEF IInv, QueueOK
<1>3. QueueOK(disk'.task, disk'.holds)
  BY <1>2 DEF Dispatch, Snapshot
<1>4. TypeOK'
  <2>1. clock' \in [Tasks -> Clocks]
    BY ZenonT(60) DEF Dispatch, IInv, TypeOK, Clocks
  <2>2. QED BY <1>a, <1>b, <1>c, <2>1 DEF Dispatch, Snapshot, IInv, TypeOK
<1>5. ASSUME NEW u \in Tasks PROVE TaskOK(u)'
  <2>1. CASE u = t
    BY <1>a, <1>b, <2>1 DEF TaskOK, Active
  <2>2. CASE u # t /\ task[u].state \in Active
    BY <1>a, <1>b, <1>1, <2>2, ActiveLemma DEF IInv, TaskOK
  <2>3. CASE u # t /\ task[u].state \notin Active
    BY <1>b, <2>3 DEF TaskOK, Active
  <2>4. QED BY <2>1, <2>2, <2>3
<1>6. ASSUME NEW u \in Tasks PROVE WorkerOK(u)'
  <2>1. CASE u = t
    BY <1>b, <1>c, <2>1 DEF WorkerOK
  <2>2. CASE u # t
    <3>1. worker[u] \in {"detect", "input"} => task[u].device # d
      BY <1>a, NoTaskAssumption DEF IInv, WorkerOK
    <3>2. QED BY <1>a, <1>b, <1>c, <2>2, <3>1 DEF IInv, WorkerOK
  <2>3. QED BY <2>1, <2>2
<1>7. \A e \in Devices : DeviceOK(e)'
  BY <1>a DEF IInv, DeviceOK
<1>8. QED BY <1>2, <1>3, <1>4, <1>5, <1>6, <1>7 DEF IInv

\* A dispatch that fails keeps the invariant.
LEMMA DispatchFailsLemma ==
  ASSUME IInv, NEW d \in Devices, d \in sweep, sweep' = sweep \ {d}, DispatchFails(d),
         UNCHANGED <<order, paused, holds, status, attached>>
  PROVE  IInv'
<1>a. lease[d] \in Leases /\ LeaseOK(lease[d]) /\ CanStart(lease[d]) /\ status[d] # "in-use"
  BY DEF DispatchFails, IInv, TypeOK, DeviceOK
<1>b. lease[d].mode \in {"HUMAN", "AI_IDLE"} /\ lease[d].pending = NoTask
  BY <1>a, StartLemma
<1> DEFINE l == IF lease[d].mode = "AI_IDLE"
                THEN ApplyEvent(lease[d], "TASK_FINISHED") ELSE EmergencyStop(lease[d])
<1>c. l \in Leases /\ LeaseOK(l) /\ l.pending = NoTask
  BY <1>a, <1>b DEF ApplyEvent, EmergencyStop, NextMode, Leases, LeaseOK, Modes, Waiters
<1>d. lease' = [lease EXCEPT ![d] = l] /\ UNCHANGED <<task, clock, disk, worker>>
  BY DEF DispatchFails
<1> HIDE DEF l
<1>e. /\ lease' \in [Devices -> Leases]
      /\ lease'[d] = l
      /\ \A e \in Devices : e # d => lease'[e] = lease[e]
      /\ \A e \in Devices : lease'[e].pending = lease[e].pending
  BY <1>b, <1>c, <1>d DEF IInv, TypeOK
<1>1. TypeOK'
  BY <1>d, <1>e DEF IInv, TypeOK
<1>2. ASSUME NEW u \in Tasks PROVE TaskOK(u)'
  <2>1. CASE task[u].state \in Active
    BY <1>b, <1>d, <1>e, <2>1, ActiveLemma DEF IInv, TaskOK
  <2>2. CASE task[u].state \notin Active
    BY <1>d, <2>2 DEF TaskOK, Active
  <2>3. QED BY <2>1, <2>2
<1>3. \A u \in Tasks : WorkerOK(u)'
  BY <1>d, <1>e DEF IInv, WorkerOK
<1>4. \A e \in Devices : DeviceOK(e)'
  BY <1>a, <1>c, <1>e DEF IInv, DeviceOK
<1>5. QED BY <1>d, <1>1, <1>2, <1>3, <1>4 DEF IInv

\* Offer keeps the invariant.
LEMMA OfferStep ==
  ASSUME IInv, NEW d \in Devices, Offer(d)
  PROVE  IInv'
<1>1. CASE \E t \in Candidates(d) : Dispatch(t, d)
  <2>1. PICK t \in Candidates(d) : Dispatch(t, d)
    BY <1>1
  <2>2. t \in Tasks /\ task[t].state = "QUEUED"
    BY DEF Candidates, Eligible
  <2>3. QED BY <2>1, <2>2, DispatchLemma DEF Offer
<1>2. CASE DispatchFails(d)
  BY <1>2, DispatchFailsLemma DEF Offer
<1>3. CASE UNCHANGED <<task, clock, disk, worker, lease>>
  <2>1. /\ UNCHANGED <<task, clock, disk, worker, lease, order, paused, holds, status, attached>>
        /\ sweep' = sweep \ {d}
    BY <1>3 DEF Offer
  <2>2. QED BY <2>1 DEF IInv, TypeOK, TaskOK, WorkerOK, DeviceOK
<1>4. QED BY <1>1, <1>2, <1>3 DEF Offer

-----------------------------------------------------------------------------
(* Restart, devices and time.                                              *)

\* Paused ownership is rebuilt from the snapshot: its paused tasks have one
\* device each, not held, and nothing else is active.
LEMMA RestartStep ==
  ASSUME Configured = Devices, IInv, Restart
  PROVE  IInv'
<1>a. /\ task' \in [Tasks -> TaskRecords]
      /\ \A u \in Tasks : task'[u].state \in Active => task'[u] = disk.task[u] /\ task'[u].state = "PAUSED"
  <2>1. \A u \in Tasks : disk.task[u] \in TaskRecords
    BY DEF IInv, TypeOK
  <2>2. \A u \in Tasks : Recovered(disk.task[u], u) \in TaskRecords
    BY <2>1, RetriedLemma DEF Recovered
  <2>3. \A u \in Tasks : Recovered(disk.task[u], u).state \in Active =>
          /\ Recovered(disk.task[u], u) = disk.task[u]
          /\ Recovered(disk.task[u], u).state = "PAUSED"
    BY <2>1, RetriedLemma DEF Recovered, Active
  <2>4. task' = [u \in Tasks |-> Recovered(disk.task[u], u)]
    BY DEF Restart
  <2>5. task' \in [Tasks -> TaskRecords]
    BY <2>2, <2>4, Zenon
  <2>6. \A u \in Tasks : task'[u] = Recovered(disk.task[u], u)
    BY <2>4
  <2>7. QED BY <2>3, <2>5, <2>6
<1>b. /\ holds' = disk.holds /\ disk'.task = task' /\ disk'.holds = holds' /\ disk'.paused = paused'
      /\ paused' = disk.paused
      /\ attached' = Configured /\ sweep' = {}
      /\ worker' = [t \in Tasks |-> "none"]
  BY DEF Restart, Snapshot
<1>c. /\ lease' \in [Devices -> Leases]
      /\ \A e \in Devices : LeaseOK(lease'[e]) /\ lease'[e].pending = NoTask
      /\ \A e \in Restored : lease'[e].mode = "AI_PAUSED" /\ lease'[e].waiter = "none"
  BY NewLeaseLemma DEF Restart, Restored
<1>d. status' \in [Devices -> {"idle", "offline"}]
  BY QueueAssumption DEF Restart
<1>1. QueueOK(task', holds') /\ QueueOK(disk'.task, disk'.holds)
  BY <1>a, <1>b DEF IInv, QueueOK
<1>2. TypeOK'
  <2>1. clock' \in [Tasks -> Clocks]
    <3>1. ASSUME NEW t \in Tasks PROVE clock'[t] \in Clocks
      <4> DEFINE w == task'[t].state = "QUEUED" /\ TaskInput[t].backoff
      <4>1. w \in BOOLEAN
        BY Zenon
      <4>2. clock'[t] = IF disk.task[t].state = "RUNNING" THEN [clock[t] EXCEPT !.waiting = w] ELSE clock[t]
        BY Zenon DEF Restart
      <4> HIDE DEF w
      <4>3. clock[t] \in Clocks
        BY DEF IInv, TypeOK
      <4>4. [clock[t] EXCEPT !.waiting = w] \in Clocks
        BY <4>1, <4>3 DEF Clocks
      <4>5. QED BY <4>2, <4>3, <4>4
    <3>2. QED BY <3>1, Zenon DEF Restart
  <2>2. holds' \in SUBSET Devices /\ paused' \in BOOLEAN /\ worker' \in [Tasks -> Workers]
        /\ attached' \in SUBSET Devices
    BY <1>b, QueueAssumption DEF IInv, TypeOK, Workers
  <2>3. QED BY <1>a, <1>b, <1>c, <1>d, <2>1, <2>2 DEF TypeOK
<1>3. ASSUME NEW u \in Tasks PROVE TaskOK(u)'
  <2>1. CASE task'[u].state \in Active
    <3>1. disk.task[u].state = "PAUSED" /\ task'[u] = disk.task[u]
      BY <1>a, <2>1
    <3>2. disk.task[u].device \in Devices \ disk.holds
      BY <3>1 DEF IInv, QueueOK, Active
    <3>3. disk.task[u].device \in Restored
      BY <3>1, <3>2 DEF Restored
    <3>4. QED BY <1>c, <3>1, <3>2, <3>3 DEF TaskOK
  <2>2. CASE task'[u].state \notin Active
    BY <2>2 DEF TaskOK, Active
  <2>3. QED BY <2>1, <2>2
<1>4. \A u \in Tasks : WorkerOK(u)'
  BY <1>b DEF WorkerOK
<1>5. \A e \in Devices : DeviceOK(e)'
  BY <1>b, <1>c, <1>d DEF DeviceOK
<1>6. QED BY <1>1, <1>2, <1>3, <1>4, <1>5 DEF IInv

\* HandoffTimeout keeps the invariant.
LEMMA HandoffTimeoutStep ==
  ASSUME IInv, NEW d \in Devices, HandoffTimeout(d)
  PROVE  IInv'
<1>a. /\ lease[d].mode = "HANDOFF"
      /\ lease' \in [Devices -> Leases]
      /\ lease'[d].pending = lease[d].pending /\ LeaseOK(lease'[d])
      /\ \A e \in Devices : e # d => lease'[e] = lease[e]
      /\ \A e \in Devices : lease'[e].pending = lease[e].pending
  BY TimeoutLemma DEF HandoffTimeout, IInv, TypeOK, DeviceOK
<1>b. UNCHANGED <<task, order, paused, holds, disk, status, attached, worker, sweep, clock>>
  BY DEF HandoffTimeout
<1>1. TypeOK'
  BY <1>a, <1>b DEF IInv, TypeOK
<1>2. ASSUME NEW u \in Tasks PROVE TaskOK(u)'
  <2>1. CASE task[u].state \in Active
    BY <1>a, <1>b, <2>1, ActiveLemma DEF IInv, TaskOK
  <2>2. CASE task[u].state \notin Active
    BY <1>b, <2>2 DEF TaskOK, Active
  <2>3. QED BY <2>1, <2>2
<1>3. \A u \in Tasks : WorkerOK(u)'
  BY <1>a, <1>b DEF IInv, WorkerOK
<1>4. \A e \in Devices : DeviceOK(e)'
  BY <1>a, <1>b DEF IInv, DeviceOK
<1>5. QED BY <1>b, <1>1, <1>2, <1>3, <1>4 DEF IInv

\* What happens to the phones themselves; only a device in HUMAN without an
\* action in flight is claimed.
LEMMA DeviceStep ==
  ASSUME IInv, NEW d \in Devices, Device(d)
  PROVE  IInv'
<1>1. CASE HandoffTimeout(d)
  BY <1>1, HandoffTimeoutStep
<1>2. CASE \/ AttachDevice(d) \/ ClaimDevice(d) \/ ReleaseSelection(d) \/ GoOffline(d) \/ BackOnline(d)
  <2>1. /\ sweep = {} /\ UNCHANGED <<task, order, paused, holds, disk, lease, worker, sweep, clock>>
        /\ attached' \in SUBSET Devices
        /\ status' \in [Devices -> {"idle", "in-use", "offline"}]
        /\ \A e \in Devices : status'[e] = "in-use" =>
              status[e] = "in-use" \/ (lease[e].mode = "HUMAN" /\ lease[e].pending = NoTask)
    BY <1>2 DEF AttachDevice, ClaimDevice, ReleaseSelection, GoOffline, BackOnline, SetStatus,
                CanHumanSelect, Quiet, IInv, TypeOK
  <2>2. TypeOK'
    BY <2>1 DEF IInv, TypeOK
  <2>3. \A u \in Tasks : TaskOK(u)' /\ WorkerOK(u)'
    BY <2>1 DEF IInv, TaskOK, WorkerOK
  <2>4. \A e \in Devices : DeviceOK(e)'
    BY <2>1 DEF IInv, DeviceOK
  <2>5. QED BY <2>1, <2>2, <2>3, <2>4 DEF IInv
<1>3. QED BY <1>1, <1>2 DEF Device

\* Time keeps the invariant.
LEMMA TimeStep ==
  ASSUME IInv, NEW t \in Tasks, Time(t)
  PROVE  IInv'
<1>1. PICK now \in Clocks : PassTime(t, now)
  BY DEF Time, WindowOpens, WindowCloses, DurationEnds, BackoffEnds, IInv, TypeOK, Clocks
<1>2. clock' \in [Tasks -> Clocks]
      /\ UNCHANGED <<task, order, paused, holds, disk, lease, status, attached, worker, sweep>>
  BY <1>1 DEF PassTime, IInv, TypeOK
<1>3. QED BY <1>2 DEF IInv, TypeOK, TaskOK, WorkerOK, DeviceOK

-----------------------------------------------------------------------------
(* The invariant, and what follows from it.                                *)

\* The invariant holds at first.
LEMMA InitLemma ==
  ASSUME Init
  PROVE  IInv
<1>1. /\ task \in [Tasks -> TaskRecords]
      /\ \A t \in Tasks : task[t].state = "ABSENT"
  <2>1. \A t \in Tasks : NewTask(t) \in TaskRecords /\ NewTask(t).state = "ABSENT"
    BY QueueAssumption DEF NewTask, TaskRecords, TaskStates, TaskInputs
  <2>2. task = [t \in Tasks |-> NewTask(t)]
    BY DEF Init
  <2>3. QED BY <2>1, <2>2
<1>2. /\ disk.task = task /\ disk.paused = paused /\ disk.holds = holds
      /\ paused = FALSE /\ holds = {} /\ sweep = {} /\ attached = Configured
      /\ worker = [t \in Tasks |-> "none"]
  BY DEF Init, Snapshot
<1>3. /\ lease \in [Devices -> Leases]
      /\ \A d \in Devices : LeaseOK(lease[d])
  BY NewLeaseLemma DEF Init
<1>4. status \in [Devices -> {"idle", "offline"}]
  BY QueueAssumption DEF Init
<1>5. TypeOK
  <2>1. clock \in [Tasks -> Clocks]
    BY DEF Init, Clocks
  <2>2. worker \in [Tasks -> Workers] /\ attached \in SUBSET Devices
    BY <1>2, QueueAssumption DEF Workers
  <2>3. QED BY <1>1, <1>2, <1>3, <1>4, <2>1, <2>2 DEF TypeOK
<1>6. QueueOK(task, holds) /\ QueueOK(disk.task, disk.holds)
  BY <1>1, <1>2 DEF QueueOK, Active
<1>7. \A t \in Tasks : TaskOK(t) /\ WorkerOK(t)
  BY <1>1, <1>2 DEF TaskOK, WorkerOK, Active
<1>8. \A d \in Devices : DeviceOK(d)
  BY <1>2, <1>3, <1>4 DEF DeviceOK
<1>9. QED BY <1>5, <1>6, <1>7, <1>8 DEF IInv

\* Every step keeps the invariant.
LEMMA NextLemma ==
  ASSUME Configured = Devices, IInv, [Next]_vars
  PROVE  IInv'
<1>1. CASE Scheduler
  BY <1>1, TickStep, OfferStep DEF Scheduler
<1>2. CASE \E t \in Tasks : Worker(t) \/ Time(t)
  BY <1>2, WorkerStep, TimeStep
<1>3. CASE \E d \in Devices : OperatorOnDevice(d) \/ Device(d)
  BY <1>3, OperatorOnDeviceStep, DeviceStep
<1>4. CASE OperatorOnQueue
  BY <1>4, AddTaskStep, CancelTaskStep, EditQueueStep DEF OperatorOnQueue
<1>5. CASE Restart
  BY <1>5, RestartStep
<1>6. CASE UNCHANGED vars
  BY <1>6 DEF vars, IInv, TypeOK, TaskOK, WorkerOK, DeviceOK
<1>7. QED BY <1>1, <1>2, <1>3, <1>4, <1>5, <1>6 DEF Next

\* Where every phone is in the configuration, the inductive invariant holds
\* throughout: for any number of tasks and phones, any inputs and limits,
\* with and without failing saves and crashes at any point.
THEOREM Invariance ==
  ASSUME Configured = Devices
  PROVE  Spec => []IInv
<1>1. Init => IInv
  BY InitLemma
<1>2. IInv /\ [Next]_vars => IInv'
  BY NextLemma
<1>3. QED BY <1>1, <1>2, PTL DEF Spec

\* Every variable keeps its shape.
THEOREM TypeCorrectness ==
  ASSUME Configured = Devices
  PROVE  Spec => []TypeOK
<1>1. IInv => TypeOK
  BY DEF IInv
<1>2. QED BY <1>1, Invariance, PTL

\* Queue, lease, worker and holds agree about who acts on a phone.
THEOREM OneActorPerPhone ==
  ASSUME Configured = Devices
  PROVE  Spec => []OneActor
<1>1. IInv => ActiveOwnsLease
  BY DEF IInv, TaskOK, ActiveOwnsLease
<1>2. IInv => OneActiveTask
  BY DEF IInv, QueueOK, OneActiveTask
<1>3. IInv => InputIsRegistered
  BY DEF IInv, WorkerOK, InputIsRegistered
<1>4. IInv => NoInputUnderHuman
  BY NoTaskAssumption DEF IInv, WorkerOK, DeviceOK, NoInputUnderHuman, CanHumanSelect
<1>5. IInv => HeldDeviceIsIdle
  BY DEF IInv, QueueOK, HeldDeviceIsIdle
<1>6. IInv => OneActor
  BY <1>1, <1>2, <1>3, <1>4, <1>5 DEF OneActor
<1>7. QED BY <1>6, Invariance, PTL

\* The queue's records and the leases agree about every active task.
THEOREM ActiveTasksOwnTheirLease ==
  ASSUME Configured = Devices
  PROVE  Spec => []ActiveOwnsLease
<1>1. OneActor => ActiveOwnsLease
  BY DEF OneActor
<1>2. QED BY <1>1, OneActorPerPhone, PTL

\* No device ever has two active tasks, in memory or in the snapshot.
THEOREM OneActiveTaskPerDevice ==
  ASSUME Configured = Devices
  PROVE  Spec => []OneActiveTask
<1>1. OneActor => OneActiveTask
  BY DEF OneActor
<1>2. QED BY <1>1, OneActorPerPhone, PTL

\* Whatever a worker may be sending to a phone is registered there.
THEOREM ActionsAreRegistered ==
  ASSUME Configured = Devices
  PROVE  Spec => []InputIsRegistered
<1>1. OneActor => InputIsRegistered
  BY DEF OneActor
<1>2. QED BY <1>1, OneActorPerPhone, PTL

\* A worker never has an action in flight on a phone that a person controls
\* or could take at that moment.
THEOREM NoInputBehindAPerson ==
  ASSUME Configured = Devices
  PROVE  Spec => []NoInputUnderHuman
<1>1. OneActor => NoInputUnderHuman
  BY DEF OneActor
<1>2. QED BY <1>1, OneActorPerPhone, PTL

\* A phone held for a person has no active task, in memory or in the snapshot.
THEOREM HeldDevicesAreIdle ==
  ASSUME Configured = Devices
  PROVE  Spec => []HeldDeviceIsIdle
<1>1. OneActor => HeldDeviceIsIdle
  BY DEF OneActor
<1>2. QED BY <1>1, OneActorPerPhone, PTL

-----------------------------------------------------------------------------
(* What a step may do to a record.                                         *)

\* The step neither starts t, nor adds it, nor takes it out of a final state,
\* nor counts an attempt too many that is not the last; and a worker that asks
\* for a person is done with t.
Kept(t) ==
  LET r == task[t]
      s == task'[t]
  IN /\ s \in TaskRecords /\ s.device = r.device
     /\ r.state \in Terminal => s.state = r.state
     /\ s.state = "RUNNING" => r.state = "RUNNING"
     /\ s.state = "NEEDS_HUMAN" => r.state = "NEEDS_HUMAN" \/ worker'[t] \in {"none", "return"}
     /\ s.state = "ABSENT" <=> r.state = "ABSENT"
     /\ s.retries > TaskInput[t].maxRetries => s.retries = r.retries \/ s.state \in Terminal

\* What a step saves is what memory has after it.
Saved == disk' = disk \/ (disk'.task = task' /\ disk'.order = order')

AllKept == (\A t \in Tasks : Kept(t)) /\ Saved /\ order' = order

\* A failed attempt is counted, and retried only while it may be.
LEMMA AttemptLemma ==
  ASSUME NEW r \in TaskRecords, NEW t \in Tasks, r.state = "RUNNING"
  PROVE  LET s == Retried(r, t)
         IN /\ s \in TaskRecords /\ s.device = r.device
            /\ s.state \in {"QUEUED", "FAILED_FINAL"}
            /\ s.retries > TaskInput[t].maxRetries => s.state \in Terminal
<1> DEFINE k == r.retries + 1
           s == IF k <= TaskInput[t].maxRetries THEN "QUEUED" ELSE "FAILED_FINAL"
<1>1. k \in Nat
  BY DEF TaskRecords
<1>2. Retried(r, t) = [r EXCEPT !.retries = k, !.state = s]
  BY Zenon DEF Retried
<1>3. TaskInput[t].maxRetries \in Nat
  BY QueueAssumption DEF TaskInputs
<1>4. k > TaskInput[t].maxRetries => s = "FAILED_FINAL"
  BY <1>1, <1>3
<1> HIDE DEF k
<1>5. s \in {"QUEUED", "FAILED_FINAL"}
  OBVIOUS
<1> HIDE DEF s
<1>6. Retried(r, t).retries = k /\ Retried(r, t).state = s
  BY <1>1, <1>2, <1>5 DEF TaskRecords
<1> QED BY <1>4, <1>5, <1>6, RetriedLemma DEF Terminal

\* Steps that leave the records alone.
LEMMA UntouchedLemma ==
  ASSUME IInv, UNCHANGED <<task, order, disk>>
  PROVE  AllKept
BY DEF AllKept, Kept, Saved, IInv, TypeOK

\* A report ends the run of its task, or queues it again.
LEMMA KeptByReport ==
  ASSUME IInv, NEW t \in Tasks, NEW outcome \in Outcomes, NEW l, NEW ok, Report(t, outcome, l, ok)
  PROVE  AllKept
<1>1. /\ task \in [Tasks -> TaskRecords] /\ task[t].state = "RUNNING"
      /\ task' = [task EXCEPT ![t] = Reported(t, outcome)]
  BY DEF Report, IInv, TypeOK
<1>2. LET s == Reported(t, outcome)
      IN /\ s \in TaskRecords /\ s.state \notin {"RUNNING", "ABSENT"} /\ s.device = task[t].device
         /\ s.retries > TaskInput[t].maxRetries => s.retries = task[t].retries \/ s.state \in Terminal
  <2>1. CASE outcome = "FAILED_RETRYABLE"
    BY <1>1, <2>1, AttemptLemma DEF Reported
  <2>2. CASE outcome # "FAILED_RETRYABLE"
    BY <1>1, <2>2 DEF Reported, TaskRecords, TaskStates, Outcomes, Active, Terminal
  <2> QED BY <2>1, <2>2
<1>3. /\ task'[t] = Reported(t, outcome)
      /\ \A u \in Tasks : u # t => task'[u] = task[u]
  BY <1>1
<1>a. worker'[t] \in {"none", "return"}
  BY DEF Report, IInv, TypeOK
<1>4. ASSUME NEW u \in Tasks PROVE Kept(u)
  <2>1. CASE u = t
    BY <1>1, <1>2, <1>3, <1>a, <2>1 DEF Kept, Terminal
  <2>2. CASE u # t
    BY <1>1, <1>3, <2>2 DEF Kept
  <2> QED BY <2>1, <2>2
<1>5. (disk' = disk \/ disk' = Snapshot(task', order, paused, holds')) /\ order' = order
  BY DEF Report
<1> QED BY <1>4, <1>5 DEF AllKept, Saved, Snapshot

\* A tick moves a record towards its end.
LEMMA TickedKeeps ==
  ASSUME NEW r \in TaskRecords, NEW t \in Tasks
  PROVE  LET s == Ticked(r, t)
         IN /\ s \in TaskRecords /\ s.retries = r.retries /\ s.device = r.device
            /\ r.state \in Terminal => s.state = r.state
            /\ s.state = "RUNNING" => r.state = "RUNNING"
            /\ s.state = "NEEDS_HUMAN" => r.state = "NEEDS_HUMAN"
            /\ s.state = "ABSENT" <=> r.state = "ABSENT"
<1> DEFINE s == Ticked(r, t).state
<1>1. /\ Ticked(r, t) = [r EXCEPT !.state = s] /\ s \in TaskStates
      /\ r.state \in Terminal => s = r.state
      /\ s = "RUNNING" => r.state = "RUNNING"
      /\ s = "NEEDS_HUMAN" => r.state = "NEEDS_HUMAN"
      /\ s = "ABSENT" <=> r.state = "ABSENT"
  BY DEF Ticked, TaskRecords, TaskStates, Active, Terminal
<1> HIDE DEF s
<1>2. [r EXCEPT !.state = s].retries = r.retries
  BY DEF TaskRecords
<1> QED BY <1>1, <1>2, TickedLemma DEF s

\* A tick keeps the records.
LEMMA KeptByTick ==
  ASSUME IInv, NEW ls, RunTick(task, order, ls)
  PROVE  AllKept
<1>1. /\ task \in [Tasks -> TaskRecords] /\ order' = order
      /\ \A t \in Tasks : task'[t] = Ticked(task[t], t)
      /\ disk' = disk \/ disk' = Snapshot(task', order, paused, holds)
  BY DEF RunTick, IInv, TypeOK
<1>2. \A t \in Tasks : Kept(t)
  BY <1>1, TickedKeeps DEF Kept
<1> QED BY <1>1, <1>2 DEF AllKept, Saved, Snapshot

\* Tasks that are given a state by an order.
LEMMA WithStateLemma ==
  ASSUME IInv, NEW S \in SUBSET Tasks, NEW state \in TaskStates, task' = WithState(S, state)
  PROVE  /\ \A t \in S : /\ task'[t] \in TaskRecords /\ task'[t].state = state
                         /\ task'[t].device = task[t].device /\ task'[t].retries = task[t].retries
         /\ \A t \in Tasks \ S : task'[t] = task[t]
<1>1. ASSUME NEW t \in S
      PROVE  LET s == [task[t] EXCEPT !.state = state]
             IN s \in TaskRecords /\ s.state = state /\ s.device = task[t].device /\ s.retries = task[t].retries
  <2>1. task[t] \in TaskRecords BY DEF IInv, TypeOK
  <2> QED BY <2>1 DEF TaskRecords
<1> QED BY <1>1 DEF WithState

\* Tasks that are cancelled, or paused.
LEMMA KeptByOrder ==
  ASSUME IInv, NEW S \in SUBSET Tasks, NEW state \in {"CANCELLED", "PAUSED"},
         \A t \in S : task[t].state \notin Terminal \cup {"ABSENT"},
         task' = WithState(S, state), order' = order, Saved
  PROVE  AllKept
<1>1. state \in TaskStates BY DEF TaskStates, Active, Terminal
<1>2. \A t \in Tasks : task[t] \in TaskRecords
  BY DEF IInv, TypeOK
<1>3. /\ \A t \in S : /\ task'[t] \in TaskRecords /\ task'[t].state = state
                      /\ task'[t].device = task[t].device /\ task'[t].retries = task[t].retries
      /\ \A t \in Tasks \ S : task'[t] = task[t]
  BY <1>1, WithStateLemma
<1>4. ASSUME NEW t \in Tasks PROVE Kept(t)
  <2>1. CASE t \in S BY <1>3, <2>1 DEF Kept
  <2>2. CASE t \notin S BY <1>2, <1>3, <2>2 DEF Kept
  <2> QED BY <2>1, <2>2
<1> QED BY <1>4 DEF AllKept

\* A record of which only progress or priority changes.
LEMMA KeptByEdit ==
  ASSUME IInv, NEW t \in Tasks, NEW r \in TaskRecords, task' = [task EXCEPT ![t] = r],
         r.state = task[t].state, r.device = task[t].device, r.retries = task[t].retries,
         order' = order, Saved
  PROVE  AllKept
<1>1. \A u \in Tasks : task[u] \in TaskRecords /\ task'[u] = IF u = t THEN r ELSE task[u]
  BY DEF IInv, TypeOK
<1>2. \A u \in Tasks : Kept(u)
  BY <1>1 DEF Kept
<1> QED BY <1>2 DEF AllKept

\* A checkpoint keeps the records.
LEMMA KeptByProgress ==
  ASSUME IInv, NEW t \in Tasks, task' = [task EXCEPT ![t].progress = TRUE],
         disk' = Snapshot(task', order, paused, holds), UNCHANGED order
  PROVE  AllKept
<1> DEFINE r == [task[t] EXCEPT !.progress = TRUE]
<1>1. r \in TaskRecords /\ r.state = task[t].state /\ r.device = task[t].device /\ r.retries = task[t].retries
  BY ZenonT(60) DEF IInv, TypeOK, TaskRecords
<1>2. task' = [task EXCEPT ![t] = r]
  OBVIOUS
<1>3. Saved
  BY DEF Saved, Snapshot
<1> HIDE DEF r
<1> QED BY <1>1, <1>2, <1>3, KeptByEdit

\* The tick a worker causes keeps the records.
LEMMA KeptByWorkerTick ==
  ASSUME IInv, NEW t \in Tasks, NEW l, WorkerTick(t, l)
  PROVE  AllKept
BY KeptByTick, KeptByReport DEF WorkerTick, Outcomes

\* No step of a worker starts a task.
LEMMA KeptByWorker ==
  ASSUME IInv, NEW t \in Tasks, Worker(t)
  PROVE  AllKept
<1>1. CASE WorkerStart(t)
  BY <1>1, UntouchedLemma, KeptByReport DEF WorkerStart, Outcomes
<1>2. CASE Return(t) \/ StartStep(t) \/ LeaveLoop(t) \/ SubmitAction(t) \/ SendInput(t)
  <2>1. UNCHANGED <<task, order, disk>>
    BY <1>2 DEF Return, StartStep, LeaveLoop, SubmitAction, SendInput
  <2> QED BY <2>1, UntouchedLemma
<1>3. CASE EndSession(t)
  BY <1>3, KeptByWorkerTick, KeptByReport DEF EndSession, Outcomes
<1>4. CASE Checkpoint(t)
  BY <1>4, KeptByProgress DEF Checkpoint
<1>5. CASE DropPlan(t)
  BY <1>5, KeptByWorkerTick, KeptByReport, UntouchedLemma DEF DropPlan, Outcomes
<1>6. CASE SettleVerified(t)
  BY <1>6, KeptByProgress, KeptByReport DEF SettleVerified, Outcomes
<1>7. CASE SettleFailed(t)
  BY <1>7, KeptByWorkerTick, KeptByReport DEF SettleFailed, Outcomes
<1>8. CASE SettleRevoked(t)
  BY <1>8, UntouchedLemma DEF SettleRevoked
<1>9. CASE FinishStep(t)
  BY <1>9, KeptByReport, UntouchedLemma DEF FinishStep, Outcomes
<1> QED BY <1>1, <1>2, <1>3, <1>4, <1>5, <1>6, <1>7, <1>8, <1>9 DEF Worker

\* Nor does an order of an operator, but for a resumption.
LEMMA KeptByOperator ==
  ASSUME IInv, NEW d \in Devices, OperatorOnDevice(d), ~ResumeDevice(d)
  PROVE  AllKept
<1>1. Holder(d) \in SUBSET Tasks /\ \A t \in Holder(d) : task[t].state \notin Terminal \cup {"ABSENT"}
  BY DEF Holder, Active, Terminal
<1>2. CASE PauseDevice(d)
  <2>1. PICK t \in Holder(d) : task[t].state = "RUNNING" /\ task' = WithState({t}, "PAUSED")
    BY <1>2 DEF PauseDevice
  <2>2. Saved /\ order' = order
    BY <1>2 DEF PauseDevice, Saved, Snapshot
  <2> QED BY <1>1, <2>1, <2>2, KeptByOrder
<1>3. CASE StopDevice(d) \/ TakeoverDevice(d) \/ EmergencyStopDevice(d)
  <2>1. task' = WithState(Holder(d), "CANCELLED") /\ order' = order
    BY <1>3 DEF StopDevice, TakeoverDevice, EmergencyStopDevice
  <2>2. Saved
    BY <1>3 DEF StopDevice, TakeoverDevice, EmergencyStopDevice, Saved, Snapshot
  <2> QED BY <1>1, <2>1, <2>2, KeptByOrder
<1>4. CASE SwitchDeviceToAI(d)
  <2>1. task' = task /\ order' = order
    BY <1>4 DEF SwitchDeviceToAI
  <2>2. \A t \in Tasks : Kept(t)
    BY <2>1 DEF Kept, IInv, TypeOK
  <2>3. disk' = disk \/ disk' = Snapshot(task, order, paused, holds')
    BY <1>4 DEF SwitchDeviceToAI
  <2> QED BY <2>1, <2>2, <2>3 DEF AllKept, Saved, Snapshot
<1> QED BY <1>2, <1>3, <1>4 DEF OperatorOnDevice

\* A cancellation keeps the records.
LEMMA KeptByCancel ==
  ASSUME IInv, NEW t \in Tasks, CancelTask(t)
  PROVE  AllKept
<1>1. /\ {t} \in SUBSET Tasks /\ \A u \in {t} : task[u].state \notin Terminal \cup {"ABSENT"}
      /\ task' = WithState({t}, "CANCELLED") /\ order' = order
  BY DEF CancelTask
<1>2. Saved
  BY DEF CancelTask, Saved, Snapshot
<1> QED BY <1>1, <1>2, KeptByOrder

\* Pausing the queue and setting a priority keep the records.
LEMMA KeptByQueueOrder ==
  ASSUME IInv, (\E p \in BOOLEAN : PauseQueue(p)) \/ \E t \in Tasks, p \in Priorities : SetPriority(t, p)
  PROVE  AllKept
<1>1. ASSUME NEW p \in BOOLEAN, PauseQueue(p) PROVE AllKept
  BY <1>1 DEF PauseQueue, AllKept, Kept, Saved, Snapshot, IInv, TypeOK
<1>2. ASSUME NEW t \in Tasks, NEW p \in Priorities, SetPriority(t, p) PROVE AllKept
  <2> DEFINE r == [task[t] EXCEPT !.priority = p]
  <2>1. r \in TaskRecords /\ r.state = task[t].state /\ r.device = task[t].device /\ r.retries = task[t].retries
    BY SMTT(30) DEF IInv, TypeOK, TaskRecords
  <2>2. task' = [task EXCEPT ![t] = r] /\ order' = order /\ Saved
    BY <1>2 DEF SetPriority, Saved, Snapshot
  <2> HIDE DEF r
  <2> QED BY <2>1, <2>2, KeptByEdit
<1> QED BY <1>1, <1>2

\* So do phones that come and go, and time.
LEMMA KeptByDeviceOrTime ==
  ASSUME IInv, (\E d \in Devices : Device(d)) \/ \E t \in Tasks : Time(t)
  PROVE  AllKept
<1>1. UNCHANGED <<task, order, disk>>
  BY DEF Device, HandoffTimeout, AttachDevice, ClaimDevice, ReleaseSelection, GoOffline, BackOnline,
         SetStatus, Time, WindowOpens, WindowCloses, DurationEnds, BackoffEnds, PassTime
<1> QED BY <1>1, UntouchedLemma

-----------------------------------------------------------------------------
(* The queue's array.                                                      *)

\* or lists the tasks that tk has, each once.
Listed(tk, or) ==
  /\ or \in Seq(Tasks)
  /\ \A i, j \in 1..Len(or) : or[i] = or[j] => i = j
  /\ \A t \in Tasks : tk[t].state # "ABSENT" <=> \E i \in 1..Len(or) : or[i] = t

\* What is left of an array when an entry is spliced out of it.
LEMMA RemoveAtLemma ==
  ASSUME NEW S, NEW s \in Seq(S), NEW i \in 1..Len(s)
  PROVE  LET r == RemoveAt(s, i)
         IN /\ r \in Seq(S) /\ Len(r) = Len(s) - 1
            /\ \A j \in 1..Len(r) : r[j] = IF j < i THEN s[j] ELSE s[j + 1]
<1> DEFINE a == SubSeq(s, 1, i - 1)
           b == SubSeq(s, i + 1, Len(s))
<1>1. Len(s) \in Nat /\ \A j \in 1..Len(s) : s[j] \in S
  BY LenProperties
<1>2. a \in Seq(S) /\ Len(a) = i - 1 /\ \A j \in 1..(i - 1) : a[j] = s[j]
  <2>1. i - 1 \in Int /\ \A j \in 1..(i - 1) : s[j] \in S
    BY <1>1
  <2>2. /\ a \in Seq(S) /\ Len(a) = IF 1 <= i - 1 THEN (i - 1) - 1 + 1 ELSE 0
        /\ \A j \in 1..((i - 1) - 1 + 1) : a[j] = s[1 + j - 1]
    BY <2>1, SubSeqProperties
  <2> QED BY <1>1, <2>2
<1>3. b \in Seq(S) /\ Len(b) = Len(s) - i /\ \A j \in 1..(Len(s) - i) : b[j] = s[j + i]
  <2>1. i + 1 \in Int /\ \A j \in (i + 1)..Len(s) : s[j] \in S
    BY <1>1
  <2>2. /\ b \in Seq(S) /\ Len(b) = IF i + 1 <= Len(s) THEN Len(s) - (i + 1) + 1 ELSE 0
        /\ \A j \in 1..(Len(s) - (i + 1) + 1) : b[j] = s[(i + 1) + j - 1]
    BY <1>1, <2>1, SubSeqProperties
  <2>3. ASSUME NEW j \in 1..(Len(s) - i) PROVE b[j] = s[j + i]
    <3>1. j \in 1..(Len(s) - (i + 1) + 1) /\ (i + 1) + j - 1 = j + i
      BY <1>1
    <3> QED BY <2>2, <3>1
  <2> QED BY <1>1, <2>2, <2>3
<1>4. RemoveAt(s, i) = a \o b
  BY DEF RemoveAt
<1> HIDE DEF a, b
<1>5. /\ a \o b \in Seq(S) /\ Len(a \o b) = Len(a) + Len(b)
      /\ \A j \in 1..(Len(a) + Len(b)) : (a \o b)[j] = IF j <= Len(a) THEN a[j] ELSE b[j - Len(a)]
  BY <1>2, <1>3, ConcatProperties
<1> DEFINE r == a \o b
<1>6. r \in Seq(S) /\ Len(r) = Len(s) - 1 /\ RemoveAt(s, i) = r
  BY <1>1, <1>2, <1>3, <1>4, <1>5
<1>7. ASSUME NEW j \in 1..(Len(s) - 1) PROVE r[j] = IF j < i THEN s[j] ELSE s[j + 1]
  <2>1. CASE j < i
    <3>1. j \in 1..(i - 1) /\ j <= Len(a) /\ j \in 1..(Len(a) + Len(b))
      BY <1>1, <1>2, <1>3, <2>1
    <3> QED BY <1>2, <1>5, <2>1, <3>1
  <2>2. CASE ~(j < i)
    <3>1. j - Len(a) \in 1..(Len(s) - i) /\ (j - Len(a)) + i = j + 1 /\ ~(j <= Len(a))
          /\ j \in 1..(Len(a) + Len(b))
      BY <1>1, <1>2, <1>3, <2>2
    <3> QED BY <1>3, <1>5, <2>2, <3>1
  <2> QED BY <2>1, <2>2
<1> HIDE DEF r
<1> QED BY <1>6, <1>7

\* What an array becomes when an entry is spliced into it.
LEMMA InsertAtLemma ==
  ASSUME NEW S, NEW s \in Seq(S), NEW k \in 1..(Len(s) + 1), NEW e \in S
  PROVE  LET r == InsertAt(s, k, e)
         IN /\ r \in Seq(S) /\ Len(r) = Len(s) + 1
            /\ \A j \in 1..Len(r) : r[j] = IF j < k THEN s[j] ELSE IF j = k THEN e ELSE s[j - 1]
<1> DEFINE a == SubSeq(s, 1, k - 1)
           b == SubSeq(s, k, Len(s))
           c == a \o <<e>>
<1>1. Len(s) \in Nat /\ \A j \in 1..Len(s) : s[j] \in S
  BY LenProperties
<1>2. a \in Seq(S) /\ Len(a) = k - 1 /\ \A j \in 1..(k - 1) : a[j] = s[j]
  <2>1. k - 1 \in Int /\ \A j \in 1..(k - 1) : s[j] \in S
    BY <1>1
  <2>2. /\ a \in Seq(S) /\ Len(a) = IF 1 <= k - 1 THEN (k - 1) - 1 + 1 ELSE 0
        /\ \A j \in 1..((k - 1) - 1 + 1) : a[j] = s[1 + j - 1]
    BY <2>1, SubSeqProperties
  <2> QED BY <1>1, <2>2
<1>3. b \in Seq(S) /\ Len(b) = Len(s) - k + 1 /\ \A j \in 1..(Len(s) - k + 1) : b[j] = s[k + j - 1]
  <2>1. k \in Int /\ \A j \in k..Len(s) : s[j] \in S
    BY <1>1
  <2>2. /\ b \in Seq(S) /\ Len(b) = IF k <= Len(s) THEN Len(s) - k + 1 ELSE 0
        /\ \A j \in 1..(Len(s) - k + 1) : b[j] = s[k + j - 1]
    BY <1>1, <2>1, SubSeqProperties
  <2> QED BY <1>1, <2>2
<1>4. InsertAt(s, k, e) = c \o b
  BY DEF InsertAt
<1>5. <<e>> \in Seq(S) /\ Len(<<e>>) = 1 /\ <<e>>[1] = e
  OBVIOUS
<1> HIDE DEF a, b
<1>6. c \in Seq(S) /\ Len(c) = k /\ \A j \in 1..k : c[j] = IF j < k THEN s[j] ELSE e
  <2>1. /\ c \in Seq(S) /\ Len(c) = Len(a) + Len(<<e>>)
        /\ \A j \in 1..(Len(a) + Len(<<e>>)) : c[j] = IF j <= Len(a) THEN a[j] ELSE <<e>>[j - Len(a)]
    BY SMTT(30), <1>2, <1>5, ConcatProperties
  <2> HIDE DEF c
  <2>2. ASSUME NEW j \in 1..k PROVE c[j] = IF j < k THEN s[j] ELSE e
    <3>1. CASE j < k
      BY <1>2, <1>5, <2>1, <3>1
    <3>2. CASE j = k
      BY <1>2, <1>5, <2>1, <3>2
    <3> QED BY <3>1, <3>2
  <2> QED BY <1>2, <1>5, <2>1, <2>2
<1> HIDE DEF c
<1>7. /\ c \o b \in Seq(S) /\ Len(c \o b) = Len(c) + Len(b)
      /\ \A j \in 1..(Len(c) + Len(b)) : (c \o b)[j] = IF j <= Len(c) THEN c[j] ELSE b[j - Len(c)]
  BY <1>3, <1>6, ConcatProperties
<1> DEFINE r == c \o b
<1>8. ASSUME NEW j \in 1..(Len(s) + 1)
      PROVE  r[j] = IF j < k THEN s[j] ELSE IF j = k THEN e ELSE s[j - 1]
  <2>1. CASE j <= k
    BY <1>1, <1>3, <1>6, <1>7, <2>1
  <2>2. CASE j > k
    <3>1. j - k \in 1..(Len(s) - k + 1) /\ k + (j - k) - 1 = j - 1
      BY <1>1, <2>2
    <3> QED BY <1>1, <1>3, <1>6, <1>7, <2>2, <3>1
  <2>3. j <= k \/ j > k
    BY <1>1
  <2> HIDE DEF r
  <2> QED BY <2>1, <2>2, <2>3
<1>9. r \in Seq(S) /\ Len(r) = Len(s) + 1 /\ InsertAt(s, k, e) = r
  BY <1>1, <1>3, <1>4, <1>6, <1>7
<1> HIDE DEF r
<1> QED BY <1>8, <1>9

\* Moving a task next to another one loses none and doubles none.
LEMMA MovedLemma ==
  ASSUME NEW tk, Listed(tk, order), NEW t \in Tasks, NEW u \in Tasks, t # u,
         tk[t].state # "ABSENT", tk[u].state # "ABSENT", NEW relation
  PROVE  Listed(tk, Moved(t, relation, u))
<1> DEFINE n == Len(order)
           i == IndexOf(order, t)
           rest == RemoveAt(order, i)
           at == IndexOf(rest, u)
           k == IF relation = "before" THEN at ELSE at + 1
<1>1. order \in Seq(Tasks) /\ n \in Nat /\ DOMAIN order = 1..n
  BY LenProperties DEF Listed
<1>2. i \in 1..n /\ order[i] = t
  <2>1. \E j \in 1..n : order[j] = t
    BY DEF Listed
  <2>2. \E j \in DOMAIN order : order[j] = t
    BY <1>1, <2>1
  <2>3. IndexOf(order, t) \in DOMAIN order /\ order[IndexOf(order, t)] = t
    BY <2>2 DEF IndexOf
  <2> QED BY <1>1, <2>3
<1> HIDE DEF i
<1>3. /\ rest \in Seq(Tasks) /\ Len(rest) = n - 1
      /\ \A j \in 1..(n - 1) : rest[j] = IF j < i THEN order[j] ELSE order[j + 1]
  BY ZenonT(30), <1>1, <1>2, RemoveAtLemma
<1> HIDE DEF rest
<1>4. at \in 1..(n - 1) /\ rest[at] = u
  <2>1. DOMAIN rest = 1..(n - 1)
    BY <1>3, LenProperties
  <2>2. PICK j \in 1..n : order[j] = u
    BY DEF Listed
  <2>3. j # i
    BY <1>2, <2>2
  <2>4. CASE j < i
    <3>1. j \in 1..(n - 1) /\ rest[j] = u
      BY <1>1, <1>2, <1>3, <2>2, <2>4
    <3> QED BY <2>1, <3>1 DEF IndexOf
  <2>5. CASE j > i
    <3>1. j - 1 \in 1..(n - 1) /\ ~(j - 1 < i) /\ (j - 1) + 1 = j
      BY <1>1, <1>2, <2>2, <2>5
    <3>2. rest[j - 1] = u
      BY <1>3, <2>2, <3>1
    <3> QED BY <2>1, <3>1, <3>2 DEF IndexOf
  <2> QED BY <1>1, <1>2, <2>3, <2>4, <2>5
<1> HIDE DEF at
<1>5. k \in 1..((n - 1) + 1)
  BY <1>1, <1>4
<1> HIDE DEF k
<1> DEFINE new == InsertAt(rest, k, t)
<1>6. /\ new \in Seq(Tasks) /\ Len(new) = n
      /\ \A j \in 1..n : new[j] = IF j < k THEN rest[j] ELSE IF j = k THEN t ELSE rest[j - 1]
  <2> DEFINE m == Len(rest)
  <2>1. t \in Tasks /\ rest \in Seq(Tasks) /\ k \in 1..(m + 1)
    BY <1>1, <1>3, <1>5
  <2> HIDE DEF m
  <2>2. /\ new \in Seq(Tasks) /\ Len(new) = Len(rest) + 1
        /\ \A j \in 1..Len(new) : new[j] = IF j < k THEN rest[j] ELSE IF j = k THEN t ELSE rest[j - 1]
    BY <2>1, InsertAtLemma DEF m
  <2> HIDE DEF new
  <2>3. Len(rest) + 1 = n
    BY <1>1, <1>3
  <2> QED BY <2>2, <2>3
<1>7. Moved(t, relation, u) = new
  BY DEF Moved, i, rest, at, k
<1> HIDE DEF new
\* Where the entry new[j] was in order.
<1> DEFINE Was(j) == IF j = k THEN i
                     ELSE IF j < k THEN (IF j < i THEN j ELSE j + 1)
                     ELSE (IF j - 1 < i THEN j - 1 ELSE j)
           Now(j) == IF j = i THEN k
                     ELSE IF j < i THEN (IF j < k THEN j ELSE j + 1)
                     ELSE (IF j - 1 < k THEN j - 1 ELSE j)
<1>8. ASSUME NEW j \in 1..n PROVE Was(j) \in 1..n /\ new[j] = order[Was(j)]
  <2>1. CASE j = k
    BY <1>2, <1>6, <2>1
  <2>2. CASE j < k
    <3>1. j \in 1..(n - 1) /\ new[j] = rest[j]
      BY <1>1, <1>5, <1>6, <2>2
    <3> QED BY <1>1, <1>2, <1>3, <2>2, <3>1
  <2>3. CASE j > k
    <3>1. j - 1 \in 1..(n - 1) /\ new[j] = rest[j - 1]
      BY <1>1, <1>5, <1>6, <2>3
    <3>2. CASE j - 1 < i
      <4>1. Was(j) = j - 1 /\ rest[j - 1] = order[j - 1]
        BY <1>1, <1>3, <1>5, <2>3, <3>1, <3>2
      <4> QED BY <1>1, <3>1, <4>1
    <3>3. CASE ~(j - 1 < i)
      <4>1. Was(j) = j /\ rest[j - 1] = order[(j - 1) + 1] /\ (j - 1) + 1 = j
        BY <1>1, <1>3, <1>5, <2>3, <3>1, <3>3
      <4> QED BY <3>1, <4>1
    <3> QED BY <3>2, <3>3
  <2>4. j = k \/ j < k \/ j > k
    BY <1>1, <1>5
  <2> HIDE DEF Was
  <2> QED BY <2>1, <2>2, <2>3, <2>4
<1>9. ASSUME NEW j \in 1..n, NEW m \in 1..n, Was(j) = Was(m) PROVE j = m
  BY <1>1, <1>2, <1>5, <1>9
<1>10. ASSUME NEW j \in 1..n PROVE Now(j) \in 1..n /\ Was(Now(j)) = j
  BY <1>1, <1>2, <1>5
<1> HIDE DEF Was, Now
<1>11. \A j, m \in 1..n : new[j] = new[m] => j = m
  BY SMTT(30), <1>1, <1>8, <1>9 DEF Listed
<1>12. \A v \in Tasks : (\E j \in 1..n : order[j] = v) <=> (\E j \in 1..n : new[j] = v)
  BY ZenonT(60), <1>8, <1>10
<1>13. \A v \in Tasks : tk[v].state # "ABSENT" <=> \E j \in 1..n : new[j] = v
  BY <1>12 DEF Listed
<1> HIDE DEF n
<1>14. Listed(tk, new)
  BY <1>6, <1>11, <1>13 DEF Listed
<1> QED BY <1>7, <1>14

-----------------------------------------------------------------------------
(* Every step is one of these.                                             *)

\* A sweep starts only where the queue is not paused.
SweepOK == sweep # {} => ~paused

\* A report leaves a sweep in order.
LEMMA ReportSweeps ==
  ASSUME SweepOK, NEW t, NEW outcome, NEW l, NEW ok, Report(t, outcome, l, ok)
  PROVE  SweepOK'
<1>1. paused' = paused /\ (TryDispatch \/ sweep' = sweep)
  BY DEF Report
<1> QED BY <1>1 DEF SweepOK, TryDispatch

\* A tick leaves a sweep in order.
LEMMA TickSweeps ==
  ASSUME NEW tk, NEW or, NEW ls, RunTick(tk, or, ls)
  PROVE  SweepOK'
<1>1. TryDispatch
  BY DEF RunTick
<1> QED BY <1>1 DEF SweepOK, TryDispatch

\* A step with no tick and no report in it.
LEMMA PlainSweeps ==
  ASSUME SweepOK, paused' = paused, TryDispatch \/ sweep' = sweep
  PROVE  SweepOK'
BY DEF SweepOK, TryDispatch

\* The steps of a worker leave a sweep in order.
LEMMA WorkerSweeps ==
  ASSUME SweepOK, NEW t \in Tasks, Worker(t)
  PROVE  SweepOK'
<1>1. CASE WorkerStart(t)
  BY <1>1, ReportSweeps, PlainSweeps DEF WorkerStart
<1>2. CASE Return(t) \/ StartStep(t) \/ LeaveLoop(t) \/ SubmitAction(t) \/ SendInput(t) \/ Checkpoint(t)
  <2>1. paused' = paused /\ sweep' = sweep
    BY <1>2 DEF Return, StartStep, LeaveLoop, SubmitAction, SendInput, Checkpoint
  <2> QED BY <2>1, PlainSweeps
<1>3. CASE SettleRevoked(t)
  <2>1. paused' = paused /\ (TryDispatch \/ sweep' = sweep)
    BY <1>3 DEF SettleRevoked
  <2> QED BY <2>1, PlainSweeps
<1>4. ASSUME NEW l, WorkerTick(t, l) PROVE SweepOK'
  BY <1>4, TickSweeps, ReportSweeps DEF WorkerTick
<1>5. CASE EndSession(t) \/ DropPlan(t)
  BY <1>4, <1>5, ReportSweeps, PlainSweeps DEF EndSession, DropPlan
<1>6. CASE SettleVerified(t)
  BY <1>6, ReportSweeps, PlainSweeps DEF SettleVerified
<1>7. CASE SettleFailed(t) \/ FinishStep(t)
  BY <1>4, <1>7, ReportSweeps, PlainSweeps DEF SettleFailed, FinishStep
<1> QED BY <1>1, <1>2, <1>3, <1>5, <1>6, <1>7 DEF Worker

\* Every step leaves a sweep in order.
LEMMA SweepStep ==
  ASSUME SweepOK, [Next]_vars
  PROVE  SweepOK'
<1>1. CASE Tick
  BY <1>1, TickSweeps DEF Tick
<1>2. CASE \E d \in Devices : Offer(d)
  BY <1>2 DEF Offer, SweepOK
<1>3. CASE \E t \in Tasks : Worker(t)
  BY <1>3, WorkerSweeps
<1>4. CASE (\E d \in Devices : Device(d)) \/ \E t \in Tasks : Time(t)
  <2>1. paused' = paused /\ sweep' = sweep
    BY <1>4 DEF Device, HandoffTimeout, AttachDevice, ClaimDevice, ReleaseSelection, GoOffline, BackOnline,
                SetStatus, Time, WindowOpens, WindowCloses, DurationEnds, BackoffEnds, PassTime
  <2> QED BY <2>1, PlainSweeps
<1>5. ASSUME NEW d \in Devices, OperatorOnDevice(d) PROVE SweepOK'
  <2>1. paused' = paused /\ (TryDispatch \/ sweep' = sweep)
    BY <1>5 DEF OperatorOnDevice, PauseDevice, ResumeDevice, StopDevice, TakeoverDevice,
                EmergencyStopDevice, SwitchDeviceToAI
  <2> QED BY <2>1, PlainSweeps
<1>6. ASSUME NEW t \in Tasks, AddTask(t) PROVE SweepOK'
  BY <1>6, TickSweeps, PlainSweeps DEF AddTask
<1>7. ASSUME NEW t \in Tasks, CancelTask(t) PROVE SweepOK'
  BY <1>7, PlainSweeps DEF CancelTask
<1>8. ASSUME NEW p \in BOOLEAN, PauseQueue(p) PROVE SweepOK'
  BY <1>8 DEF PauseQueue, Quiet, SweepOK
<1>9. CASE \/ \E t, u \in Tasks, relation \in {"before", "after"} : MoveTask(t, relation, u)
           \/ \E t \in Tasks, p \in Priorities : SetPriority(t, p)
  BY <1>9, PlainSweeps DEF MoveTask, SetPriority
<1>10. CASE Restart
  BY <1>10 DEF Restart, SweepOK
<1>11. CASE UNCHANGED vars
  BY <1>11 DEF vars, SweepOK
<1> QED BY <1>1, <1>2, <1>3, <1>4, <1>5, <1>6, <1>7, <1>8, <1>9, <1>10, <1>11
        DEF Next, Scheduler, OperatorOnQueue

\* All steps but these five keep every record: none of them starts a task.
StartStepOf(t, d) ==
  /\ d \in sweep /\ t \in Candidates(d) /\ Dispatch(t, d)
  /\ UNCHANGED <<order, paused, holds, status, attached>>

\* A step starts a task, resumes one, adds one, moves one, restarts, or keeps every record.
LEMMA StepCases ==
  ASSUME IInv, [Next]_vars
  PROVE  \/ AllKept
         \/ \E t \in Tasks, d \in Devices : StartStepOf(t, d)
         \/ \E d \in Devices : ResumeDevice(d)
         \/ \E t \in Tasks : AddTask(t)
         \/ \E t, u \in Tasks, relation \in {"before", "after"} : MoveTask(t, relation, u)
         \/ Restart
<1>1. CASE Tick
  BY <1>1, KeptByTick DEF Tick
<1>2. ASSUME NEW d \in Devices, Offer(d)
      PROVE  AllKept \/ \E t \in Tasks : StartStepOf(t, d)
  <2>1. CASE \E t \in Candidates(d) : Dispatch(t, d)
    BY <1>2, <2>1 DEF Offer, StartStepOf, Candidates
  <2>2. CASE UNCHANGED <<task, order, disk>>
    BY <2>2, UntouchedLemma
  <2> QED BY <1>2, <2>1, <2>2 DEF Offer, DispatchFails
<1>3. CASE \E t \in Tasks : Worker(t)
  BY <1>3, KeptByWorker
<1>4. CASE (\E d \in Devices : Device(d)) \/ \E t \in Tasks : Time(t)
  BY <1>4, KeptByDeviceOrTime
<1>5. ASSUME NEW d \in Devices, OperatorOnDevice(d) PROVE AllKept \/ ResumeDevice(d)
  BY <1>5, KeptByOperator
<1>6. CASE UNCHANGED vars
  BY <1>6, UntouchedLemma DEF vars
<1> QED BY <1>1, <1>2, <1>3, <1>4, <1>5, <1>6, KeptByCancel, KeptByQueueOrder
        DEF Next, Scheduler, OperatorOnQueue

-----------------------------------------------------------------------------
(* The records in memory and on disk.                                      *)

RetriesOK(tk) ==
  \A t \in Tasks : tk[t].retries > TaskInput[t].maxRetries => tk[t].state \in Terminal

\* A final state on disk is the state in memory.
FinalIsKnown ==
  \A t \in Tasks : disk.task[t].state \in Terminal => task[t].state = disk.task[t].state

\* The inductive invariant of the records, next to IInv.
RecordsOK ==
  /\ RunningIsDurable /\ FinalIsKnown
  /\ RetriesOK(task) /\ RetriesOK(disk.task)
  /\ Listed(task, order) /\ Listed(disk.task, disk.order)
  /\ SweepOK

\* The step saved what memory has after it, which is sound, and took no task
\* out of a final state that was on disk.
SavedSound ==
  /\ disk'.task = task' /\ disk'.order = order'
  /\ RetriesOK(task') /\ Listed(task', order')
  /\ \A t \in Tasks : disk.task[t].state \in Terminal => task'[t].state = disk.task[t].state

\* The step starts no queued task.
NoStart == \A t \in Tasks : ~(task[t].state = "QUEUED" /\ task'[t].state = "RUNNING")

\* A start is saved soundly, and starts one task.
LEMMA StartSaves ==
  ASSUME IInv, RecordsOK, NEW t \in Tasks, NEW d \in Devices, StartStepOf(t, d)
  PROVE  /\ SavedSound
         /\ task[t].state = "QUEUED" /\ task'[t].state = "RUNNING" /\ task'[t].device = d
         /\ \A u \in Tasks \ {t} : task'[u] = task[u]
<1> DEFINE r == [task[t] EXCEPT !.state = "RUNNING", !.device = d]
<1>1. task \in [Tasks -> TaskRecords] /\ task[t].state = "QUEUED"
  BY DEF IInv, TypeOK, StartStepOf, Candidates, Eligible
<1>2. r.state = "RUNNING" /\ r.device = d /\ r.retries = task[t].retries
  BY <1>1 DEF TaskRecords
<1>3. task' = [task EXCEPT ![t] = r]
  BY DEF StartStepOf, Dispatch
<1> HIDE DEF r
<1>4. task'[t] = r /\ \A u \in Tasks \ {t} : task'[u] = task[u]
  BY <1>1, <1>3
<1>5. disk'.task = task' /\ disk'.order = order' /\ order' = order
  BY DEF StartStepOf, Dispatch, Snapshot
<1>6. \A u \in Tasks : disk.task[u].state \in Terminal => task'[u].state = disk.task[u].state
  BY <1>1, <1>4 DEF RecordsOK, FinalIsKnown, Terminal
<1>7. RetriesOK(task')
  BY <1>1, <1>2, <1>4 DEF RecordsOK, RetriesOK, Terminal
<1>8. \A u \in Tasks : task[u].state = "ABSENT" <=> task'[u].state = "ABSENT"
  BY <1>1, <1>2, <1>4
<1>9. Listed(task', order')
  BY <1>5, <1>8 DEF RecordsOK, Listed
<1> QED BY <1>1, <1>2, <1>4, <1>5, <1>6, <1>7, <1>9 DEF SavedSound

\* Resuming is saved soundly, and starts nothing.
LEMMA ResumeSaves ==
  ASSUME IInv, RecordsOK, NEW d \in Devices, ResumeDevice(d)
  PROVE  SavedSound /\ NoStart
<1>1. PICK t \in Holder(d) : task[t].state = "PAUSED" /\ task' = WithState({t}, "RUNNING")
  BY DEF ResumeDevice
<1>2. t \in Tasks /\ "RUNNING" \in TaskStates
  BY DEF Holder, TaskStates, Active
<1>3. /\ task'[t].state = "RUNNING" /\ task'[t].retries = task[t].retries
      /\ \A u \in Tasks \ {t} : task'[u] = task[u]
  BY <1>1, <1>2, WithStateLemma
<1>4. disk'.task = task' /\ disk'.order = order' /\ order' = order
  BY DEF ResumeDevice, Snapshot
<1>5. \A u \in Tasks : disk.task[u].state \in Terminal => task'[u].state = disk.task[u].state
  BY <1>1, <1>3 DEF RecordsOK, FinalIsKnown, Terminal
<1>6. RetriesOK(task')
  BY <1>1, <1>2, <1>3 DEF RecordsOK, RetriesOK, Terminal
<1>7. \A u \in Tasks : task[u].state = "ABSENT" <=> task'[u].state = "ABSENT"
  BY <1>1, <1>3
<1>8. Listed(task', order')
  BY <1>4, <1>7 DEF RecordsOK, Listed
<1>9. NoStart
  BY <1>1, <1>3 DEF NoStart
<1> QED BY <1>4, <1>5, <1>6, <1>8, <1>9 DEF SavedSound

\* Moving a task is saved soundly, and starts nothing.
LEMMA MoveSaves ==
  ASSUME IInv, RecordsOK, NEW t \in Tasks, NEW u \in Tasks, NEW relation, MoveTask(t, relation, u)
  PROVE  SavedSound /\ NoStart
<1>1. /\ task' = task /\ order' = Moved(t, relation, u)
      /\ disk'.task = task' /\ disk'.order = order'
      /\ t # u /\ task[t].state # "ABSENT" /\ task[u].state # "ABSENT"
  BY DEF MoveTask, Snapshot
<1>2. Listed(task', order')
  BY <1>1, MovedLemma DEF RecordsOK
<1> QED BY <1>1, <1>2 DEF SavedSound, NoStart, RecordsOK, FinalIsKnown, RetriesOK

\* A new task is appended, and saved with whatever the tick after it does.
LEMMA AddSaves ==
  ASSUME IInv, RecordsOK, NEW t \in Tasks, AddTask(t)
  PROVE  /\ SavedSound /\ NoStart
         /\ \A u \in Tasks :
              /\ task'[u].device = task[u].device
              /\ task[u].state \in Terminal => task'[u].state = task[u].state
              /\ task'[u].state \in {"RUNNING", "NEEDS_HUMAN"} => task[u].state = task'[u].state
<1> DEFINE s == IF TaskInput[t].early THEN "SCHEDULED" ELSE "QUEUED"
           added == WithState({t}, s)
           new == Append(order, t)
<1>1. /\ s \in {"SCHEDULED", "QUEUED"} /\ s \in TaskStates
      /\ task[t].state = "ABSENT" /\ task \in [Tasks -> TaskRecords]
  BY DEF TaskStates, AddTask, IInv, TypeOK
<1>2. /\ added[t].state = s /\ added[t].retries = task[t].retries /\ added[t] \in TaskRecords
      /\ added[t].device = task[t].device
      /\ \A u \in Tasks \ {t} : added[u] = task[u]
  <2>1. LET q == [task[t] EXCEPT !.state = s]
        IN q.state = s /\ q.retries = task[t].retries /\ q.device = task[t].device /\ q \in TaskRecords
    BY <1>1 DEF TaskRecords
  <2> QED BY <2>1 DEF WithState
<1>3. /\ order' = new
      /\ \/ /\ \A u \in Tasks : task'[u] = Ticked(added[u], u)
            /\ disk' = IF task' = task THEN disk ELSE Snapshot(task', new, paused, holds)
         \/ task' = added /\ disk' = Snapshot(added, order', paused, holds)
  BY DEF AddTask, RunTick
<1> HIDE DEF s, added
<1>4. Listed(task, order) /\ RetriesOK(task)
  BY DEF RecordsOK
<1>5. /\ new \in Seq(Tasks) /\ Len(new) = Len(order) + 1 /\ Len(order) \in Nat
      /\ \A i \in 1..Len(order) : new[i] = order[i]
      /\ new[Len(order) + 1] = t
      /\ \A i \in 1..Len(order) : order[i] # t
  BY <1>1, <1>4, AppendProperties, LenProperties DEF Listed
<1> HIDE DEF new
<1>6. /\ \A i, j \in 1..Len(new) : new[i] = new[j] => i = j
      /\ \A u \in Tasks : (u = t \/ task[u].state # "ABSENT") <=> \E i \in 1..Len(new) : new[i] = u
  <2>1. \A i \in 1..Len(new) : i \in 1..Len(order) \/ i = Len(order) + 1
    BY <1>5
  <2>2. \A i \in 1..Len(order) : i \in 1..Len(new)
    BY <1>5
  <2>3. Len(order) + 1 \in 1..Len(new)
    BY <1>5
  <2>4. \A i, j \in 1..Len(new) : new[i] = new[j] => i = j
    BY <1>4, <1>5, <2>1 DEF Listed
  <2>5. ASSUME NEW u \in Tasks
        PROVE  (u = t \/ task[u].state # "ABSENT") <=> \E i \in 1..Len(new) : new[i] = u
    BY <1>4, <1>5, <2>1, <2>2, <2>3 DEF Listed
  <2> QED BY <2>4, <2>5
\* What the tick may do to the records.
<1>7. ASSUME NEW u \in Tasks
      PROVE  /\ task'[u].retries = task[u].retries
             /\ task'[u].state # "ABSENT" <=> (u = t \/ task[u].state # "ABSENT")
             /\ task'[u].device = task[u].device
             /\ task[u].state \in Terminal => task'[u].state = task[u].state
             /\ task'[u].state \in {"RUNNING", "NEEDS_HUMAN"} => task[u].state = task'[u].state
  <2>1. added[u] \in TaskRecords
    BY <1>1, <1>2
  <2>2. LET q == Ticked(added[u], u)
        IN /\ q.retries = added[u].retries /\ q.device = added[u].device
           /\ added[u].state \in Terminal => q.state = added[u].state
           /\ q.state \in {"RUNNING", "NEEDS_HUMAN"} => added[u].state = q.state
           /\ q.state = "ABSENT" <=> added[u].state = "ABSENT"
    BY <2>1, TickedKeeps
  <2>3. /\ task'[u].retries = added[u].retries /\ task'[u].device = added[u].device
        /\ added[u].state \in Terminal => task'[u].state = added[u].state
        /\ task'[u].state \in {"RUNNING", "NEEDS_HUMAN"} => added[u].state = task'[u].state
        /\ task'[u].state = "ABSENT" <=> added[u].state = "ABSENT"
    BY <1>3, <2>2
  <2>4. CASE u = t
    BY <1>1, <1>2, <2>3, <2>4 DEF Terminal
  <2>5. CASE u # t
    BY <1>2, <2>3, <2>5
  <2> QED BY <2>4, <2>5
<1>8. task' # task
  BY <1>1, <1>7
<1>9. disk'.task = task' /\ disk'.order = order'
  BY <1>3, <1>8 DEF Snapshot
<1>10. Listed(task', order')
  <2>1. \A u \in Tasks : task'[u].state # "ABSENT" <=> \E i \in 1..Len(new) : new[i] = u
    BY <1>6, <1>7
  <2> QED BY <1>3, <1>5, <1>6, <2>1 DEF Listed
<1>11. RetriesOK(task')
  BY <1>4, <1>7 DEF RetriesOK
<1>12. \A u \in Tasks : disk.task[u].state \in Terminal => task'[u].state = disk.task[u].state
  BY <1>7 DEF RecordsOK, FinalIsKnown
<1>13. NoStart
  BY <1>7 DEF NoStart
<1> QED BY <1>7, <1>9, <1>10, <1>11, <1>12, <1>13 DEF SavedSound

\* What ran when the process died has its attempt counted.
LEMMA RestartSaves ==
  ASSUME IInv, RecordsOK, Restart
  PROVE  SavedSound /\ NoStart /\ \A t \in Tasks : task'[t].state # "RUNNING"
<1>1. /\ task' = [t \in Tasks |-> Recovered(disk.task[t], t)] /\ order' = disk.order
      /\ disk'.task = task' /\ disk'.order = order'
  BY DEF Restart, Snapshot
<1>2. disk.task \in [Tasks -> TaskRecords]
  BY DEF IInv, TypeOK
<1>3. ASSUME NEW t \in Tasks
      PROVE  /\ task'[t].state # "RUNNING"
             /\ task'[t].state = "ABSENT" <=> disk.task[t].state = "ABSENT"
             /\ disk.task[t].state \in Terminal => task'[t].state = disk.task[t].state
             /\ task'[t].retries > TaskInput[t].maxRetries => task'[t].state \in Terminal
  <2>1. CASE disk.task[t].state = "RUNNING"
    <3>1. disk.task[t] \in TaskRecords /\ task'[t] = Retried(disk.task[t], t)
      BY <1>1, <1>2, <2>1 DEF Recovered
    <3>2. LET q == Retried(disk.task[t], t)
          IN /\ q.state \in {"QUEUED", "FAILED_FINAL"}
             /\ q.retries > TaskInput[t].maxRetries => q.state \in Terminal
      BY <2>1, <3>1, AttemptLemma
    <3> QED BY <2>1, <3>1, <3>2 DEF Terminal
  <2>2. CASE disk.task[t].state # "RUNNING"
    <3>1. task'[t] = disk.task[t]
      BY <1>1, <2>2 DEF Recovered
    <3> QED BY <2>2, <3>1 DEF RecordsOK, RetriesOK
  <2> QED BY <2>1, <2>2
<1>4. Listed(task', order')
  BY <1>1, <1>3 DEF RecordsOK, Listed
<1> QED BY <1>1, <1>3, <1>4 DEF SavedSound, NoStart, RetriesOK

-----------------------------------------------------------------------------
(* The workers.                                                            *)

\* What a step means to a worker that moves to w: it has no input to send yet,
\* and its task does not run if it is gone.
MovesTo(t, w) ==
  /\ worker' = [worker EXCEPT ![t] = w]
  /\ w # "input"
  /\ w = "none" => task'[t].state # "RUNNING"

\* A report sends the worker of its task home, or finds it there.
LEMMA ReportMoves ==
  ASSUME IInv, NEW t \in Tasks, NEW outcome \in Outcomes, NEW l, NEW ok, Report(t, outcome, l, ok)
  PROVE  \E w \in {"return", "none"} : MovesTo(t, w)
<1>1. Reported(t, outcome).state # "RUNNING"
  <2>1. task[t] \in TaskRecords
    BY DEF IInv, TypeOK
  <2>2. CASE outcome = "FAILED_RETRYABLE"
    BY <2>1, <2>2, RetriedLemma DEF Reported
  <2>3. CASE outcome # "FAILED_RETRYABLE"
    BY <2>1, <2>3 DEF Reported, TaskRecords, Outcomes
  <2> QED BY <2>2, <2>3
<1>2. task'[t].state # "RUNNING"
  BY <1>1 DEF Report, IInv, TypeOK
<1>3. \E w \in {"return", "none"} : worker' = [worker EXCEPT ![t] = w]
  BY DEF Report
<1> QED BY <1>2, <1>3 DEF MovesTo

\* So does the tick a worker causes.
LEMMA TickMoves ==
  ASSUME IInv, NEW t \in Tasks, NEW l, WorkerTick(t, l)
  PROVE  \E w \in {"return", "none"} : MovesTo(t, w)
<1>1. CASE worker' = [worker EXCEPT ![t] = "return"]
  BY <1>1 DEF MovesTo
<1>2. CASE \E ok \in BOOLEAN : Report(t, "FAILED_FINAL", l, ok)
  BY <1>2, ReportMoves DEF Outcomes
<1> QED BY <1>1, <1>2 DEF WorkerTick

\* A resumed worker goes back to its loop, or stays away.
LEMMA ResumedMoves ==
  ASSUME IInv, NEW t \in Tasks, worker' = Resumed(t), task' = task
  PROVE  \E w \in {"loop", "none"} : MovesTo(t, w)
<1> DEFINE w == IF task[t].state \in Active THEN "loop" ELSE "none"
<1>1. worker' = [worker EXCEPT ![t] = w]
  BY DEF Resumed
<1>2. w \in {"loop", "none"} /\ (w = "none" => task'[t].state # "RUNNING")
  BY DEF Active
<1> HIDE DEF w
<1> QED BY <1>1, <1>2 DEF MovesTo

\* The one step that lets a worker send input is SendInput.
LEMMA WorkerMoves ==
  ASSUME IInv, NEW t \in Tasks, Worker(t)
  PROVE  SendInput(t) \/ (worker' = worker) \/ \E w \in Workers : MovesTo(t, w)
<1> USE DEF Workers, Outcomes
<1>1. CASE WorkerStart(t)
  <2>1. CASE worker' = [worker EXCEPT ![t] = "loop"]
    BY <2>1 DEF MovesTo
  <2> QED BY <1>1, <2>1, ReportMoves DEF WorkerStart
<1>2. CASE Return(t) \/ SettleRevoked(t)
  BY <1>2, ResumedMoves DEF Return, SettleRevoked
<1>3. CASE StartStep(t)
  BY <1>3 DEF StartStep, MovesTo
<1>4. CASE SubmitAction(t)
  BY <1>4 DEF SubmitAction, MovesTo
<1>5. CASE LeaveLoop(t)
  BY <1>5 DEF LeaveLoop, MovesTo, Active
<1>6. CASE Checkpoint(t)
  BY <1>6 DEF Checkpoint
<1>7. CASE EndSession(t)
  BY <1>7, TickMoves, ReportMoves DEF EndSession
<1>8. CASE DropPlan(t)
  BY <1>8, TickMoves, ReportMoves, ResumedMoves DEF DropPlan
<1>9. CASE SettleVerified(t)
  <2>1. CASE worker' = [worker EXCEPT ![t] = "verified"]
    BY <2>1 DEF MovesTo
  <2> QED BY <1>9, <2>1, ReportMoves DEF SettleVerified
<1>10. CASE SettleFailed(t)
  BY <1>10, TickMoves, ReportMoves DEF SettleFailed
<1>11. CASE FinishStep(t)
  BY <1>11, ReportMoves, ResumedMoves DEF FinishStep
<1> QED BY <1>1, <1>2, <1>3, <1>4, <1>5, <1>6, <1>7, <1>8, <1>9, <1>10, <1>11 DEF Worker

\* Who moves a worker, besides itself: the launch of a task that runs by then,
\* and a crash.
LEMMA MoverLemma ==
  ASSUME IInv, [Next]_vars
  PROVE  \/ worker' = worker
         \/ \E t \in Tasks : Worker(t)
         \/ \E t \in Tasks : worker' = Launched(t) /\ task'[t].state = "RUNNING"
         \/ Restart
<1>1. CASE Scheduler
  <2>1. ASSUME NEW t \in Tasks, NEW d \in Devices, Dispatch(t, d)
        PROVE  worker' = Launched(t) /\ task'[t].state = "RUNNING"
    <3>1. LET r == [task[t] EXCEPT !.state = "RUNNING", !.device = d]
          IN r.state = "RUNNING"
      BY DEF IInv, TypeOK, TaskRecords
    <3> QED BY <2>1, <3>1 DEF Dispatch, IInv, TypeOK
  <2> QED BY <1>1, <2>1 DEF Scheduler, Tick, Offer, DispatchFails, Candidates
<1>2. CASE (\E d \in Devices : Device(d)) \/ \E t \in Tasks : Time(t)
  BY <1>2 DEF Device, HandoffTimeout, AttachDevice, ClaimDevice, ReleaseSelection, GoOffline, BackOnline,
              SetStatus, Time, WindowOpens, WindowCloses, DurationEnds, BackoffEnds, PassTime
<1>3. ASSUME NEW d \in Devices, OperatorOnDevice(d)
      PROVE  \/ worker' = worker
             \/ \E t \in Tasks : worker' = Launched(t) /\ task'[t].state = "RUNNING"
  <2>1. CASE ResumeDevice(d)
    <3>1. PICK t \in Tasks : task' = WithState({t}, "RUNNING") /\ worker' = Launched(t)
      BY <2>1 DEF ResumeDevice, Holder
    <3>2. task'[t].state = "RUNNING"
      BY <3>1, WithStateLemma DEF TaskStates, Active
    <3> QED BY <3>1, <3>2
  <2> QED BY <1>3, <2>1 DEF OperatorOnDevice, PauseDevice, StopDevice, TakeoverDevice,
                            EmergencyStopDevice, SwitchDeviceToAI
<1>4. CASE OperatorOnQueue
  BY <1>4 DEF OperatorOnQueue, AddTask, CancelTask, PauseQueue, MoveTask, SetPriority
<1>5. CASE UNCHANGED vars
  BY <1>5 DEF vars
<1> QED BY <1>1, <1>2, <1>3, <1>4, <1>5 DEF Next

\* A task that a step starts or resumes has a worker, and a worker that ends
\* leaves no running task behind.
LEMMA WorkerStays ==
  ASSUME IInv, RecordsOK, RunningHasWorker, [Next]_vars
  PROVE  RunningHasWorker'
<1> SUFFICES ASSUME NEW t \in Research, task'[t].state = "RUNNING"
             PROVE  worker'[t] # "none"
  BY DEF RunningHasWorker
<1>1. t \in Tasks /\ Research \subseteq Tasks /\ worker \in [Tasks -> Workers]
  BY QueueAssumption DEF IInv, TypeOK
<1>2. ASSUME NEW u \in Tasks, worker' = Launched(u)
      PROVE  /\ worker'[t] = worker[t] \/ worker'[t] = "start"
             /\ t = u => worker'[t] # "none"
  BY <1>1, <1>2 DEF Launched
<1>3. ASSUME task[t].state = "RUNNING" PROVE worker'[t] # "none"
  <2>1. worker[t] # "none"
    BY <1>3 DEF RunningHasWorker
  <2>2. CASE worker' = worker
    BY <2>1, <2>2
  <2>3. ASSUME NEW u \in Tasks, Worker(u) PROVE worker'[t] # "none"
    <3>1. CASE SendInput(u)
      BY <1>1, <2>1, <3>1 DEF SendInput
    <3>2. CASE \E w \in Workers : MovesTo(u, w)
      <4>1. PICK w \in Workers : MovesTo(u, w)
        BY <3>2
      <4>2. CASE u = t
        BY <1>1, <4>1, <4>2 DEF MovesTo
      <4>3. CASE u # t
        BY <1>1, <2>1, <4>1, <4>3 DEF MovesTo
      <4> QED BY <4>2, <4>3
    <3> QED BY <2>1, <2>3, <3>1, <3>2, WorkerMoves
  <2>4. CASE \E u \in Tasks : worker' = Launched(u)
    BY <1>2, <2>1, <2>4
  <2>5. CASE Restart
    BY <1>1, <2>5, RestartSaves
  <2> QED BY <2>2, <2>3, <2>4, <2>5, MoverLemma
<1>4. CASE AllKept
  BY <1>1, <1>3, <1>4 DEF AllKept, Kept
<1>5. CASE \E u \in Tasks, d \in Devices : StartStepOf(u, d)
  <2>1. PICK u \in Tasks, d \in Devices : StartStepOf(u, d)
    BY <1>5
  <2>2. worker' = Launched(u) /\ (u # t => task'[t] = task[t])
    BY <1>1, <2>1, StartSaves DEF StartStepOf, Dispatch
  <2> QED BY <1>2, <1>3, <2>2
<1>6. CASE \E d \in Devices : ResumeDevice(d)
  <2>1. PICK u \in Tasks : task' = WithState({u}, "RUNNING") /\ worker' = Launched(u)
    BY <1>6 DEF ResumeDevice, Holder
  <2>2. u # t => task'[t] = task[t]
    BY <1>1, <2>1 DEF WithState
  <2> QED BY <1>2, <1>3, <2>1, <2>2
<1>7. CASE \E u \in Tasks : AddTask(u)
  BY <1>1, <1>3, <1>7, AddSaves
<1>8. CASE \E u, v \in Tasks, relation \in {"before", "after"} : MoveTask(u, relation, v)
  BY <1>3, <1>8 DEF MoveTask
<1>9. CASE Restart
  BY <1>1, <1>9, RestartSaves
<1> QED BY <1>4, <1>5, <1>6, <1>7, <1>8, <1>9, StepCases

\* Every step keeps the records sound.
LEMMA RecordsStep ==
  ASSUME IInv, RecordsOK, [Next]_vars
  PROVE  RecordsOK'
<1>1. SweepOK'
  BY SweepStep DEF RecordsOK
<1>2. CASE SavedSound
  <2>1. RunningIsDurable' /\ FinalIsKnown' /\ RetriesOK(disk'.task) /\ Listed(disk'.task, disk'.order)
    BY <1>2 DEF SavedSound, RunningIsDurable, FinalIsKnown
  <2> QED BY <1>1, <1>2, <2>1 DEF SavedSound, RecordsOK, RetriesOK, Listed
<1>3. CASE AllKept
  <2>1. /\ \A t \in Tasks : Kept(t)
        /\ disk' = disk \/ (disk'.task = task' /\ disk'.order = order')
        /\ order' = order
    BY <1>3 DEF AllKept, Saved
  <2>2. RetriesOK(task')
    BY <2>1 DEF Kept, RecordsOK, RetriesOK
  <2>3. Listed(task', order')
    BY <2>1 DEF Kept, RecordsOK, Listed
  <2>4. RunningIsDurable'
    BY <2>1 DEF Kept, RecordsOK, RunningIsDurable
  <2>5. FinalIsKnown'
    BY <2>1 DEF Kept, RecordsOK, FinalIsKnown
  <2>6. RetriesOK(disk'.task) /\ Listed(disk'.task, disk'.order)
    BY <2>1, <2>2, <2>3 DEF RecordsOK
  <2> QED BY <1>1, <2>2, <2>3, <2>4, <2>5, <2>6 DEF RecordsOK, RetriesOK, Listed
<1> QED BY <1>2, <1>3, StepCases, StartSaves, ResumeSaves, AddSaves, MoveSaves, RestartSaves

\* The records are sound at first.
LEMMA RecordsInit ==
  ASSUME Init
  PROVE  RecordsOK /\ RunningHasWorker
<1>1. /\ \A t \in Tasks : task[t] = NewTask(t) /\ task[t].state = "ABSENT" /\ task[t].retries = 0
      /\ disk.task = task /\ disk.order = order /\ order = <<>> /\ sweep = {}
  BY DEF Init, NewTask, Snapshot
<1>2. RetriesOK(task)
  <2>1. \A t \in Tasks : TaskInput[t].maxRetries \in Nat
    BY QueueAssumption DEF TaskInputs
  <2> QED BY <1>1, <2>1 DEF RetriesOK
<1>3. Listed(task, order)
  BY <1>1 DEF Listed
<1>4. RunningIsDurable /\ FinalIsKnown /\ SweepOK /\ RunningHasWorker
  BY <1>1, QueueAssumption DEF RunningIsDurable, FinalIsKnown, SweepOK, RunningHasWorker, Terminal
<1> QED BY <1>1, <1>2, <1>3, <1>4 DEF RecordsOK

-----------------------------------------------------------------------------
(* The invariants of the records.                                          *)

\* The records stay sound together with IInv: the task queue's inductive
\* invariant for what it stores.
THEOREM RecordsInvariance ==
  ASSUME Configured = Devices
  PROVE  Spec => []RecordsOK
<1>1. Init => RecordsOK
  BY RecordsInit
<1>2. IInv /\ RecordsOK /\ [Next]_vars => RecordsOK'
  BY RecordsStep
<1> QED BY <1>1, <1>2, Invariance, PTL DEF Spec

\* A list without repetition is as long as what it lists is many.
LEMMA ListedLemma ==
  ASSUME NEW tk, NEW or, Listed(tk, or)
  PROVE  LET added == {t \in Tasks : tk[t].state # "ABSENT"}
         IN {or[i] : i \in DOMAIN or} = added /\ Len(or) = Cardinality(added)
<1> DEFINE added == {t \in Tasks : tk[t].state # "ABSENT"}
           n == Len(or)
<1>1. n \in Nat /\ DOMAIN or = 1..n /\ or \in [1..n -> Tasks]
  BY LenProperties DEF Listed
<1>2. {or[i] : i \in DOMAIN or} = added
  BY <1>1 DEF Listed
<1>3. or \in Bijection(1..n, added)
  <2>1. or \in [1..n -> added]
    BY <1>1, <1>2
  <2>2. \A i, j \in 1..n : or[i] = or[j] => i = j
    BY DEF Listed
  <2>3. \A t \in added : \E i \in 1..n : or[i] = t
    BY DEF Listed
  <2> QED BY <2>1, <2>2, <2>3 DEF Bijection, Injection, Surjection, IsInjective
<1>4. IsFiniteSet(1..n) /\ Cardinality(1..n) = n
  <2>1. /\ IsFiniteSet(1..n) /\ Cardinality(1..n) = IF 1 > n THEN 0 ELSE n - 1 + 1
    BY SMTT(30), <1>1, FS_Interval
  <2> QED BY <1>1, <2>1
<1>5. Cardinality(added) = n
  BY <1>3, <1>4, FS_Bijection DEF ExistsBijection
<1> QED BY <1>2, <1>5

\* What runs is on disk, retries are never exceeded, and no task is lost or
\* listed twice, in memory and on disk, whatever saves fail and crashes come.
THEOREM RecordsStaySound ==
  ASSUME Configured = Devices
  PROVE  Spec => []RecordsAreSound
<1>1. RecordsOK => RecordsAreSound
  <2> SUFFICES ASSUME RecordsOK PROVE RecordsAreSound
    OBVIOUS
  <2>1. RunningIsDurable /\ RetriesBounded
    BY DEF RecordsOK, RetriesOK, RetriesBounded
  <2>2. ASSUME NEW q \in {[task |-> task, order |-> order], disk}
        PROVE  LET added == {t \in Tasks : q.task[t].state # "ABSENT"}
               IN {q.order[i] : i \in DOMAIN q.order} = added /\ Len(q.order) = Cardinality(added)
    <3>1. Listed(q.task, q.order)
      BY DEF RecordsOK
    <3> QED BY <3>1, ListedLemma
  <2> QED BY <2>1, <2>2 DEF RecordsAreSound, QueueListsTasks
<1> QED BY <1>1, RecordsInvariance, PTL

\* No step leaves a running research task without a worker.
THEOREM EveryRunHasAWorker ==
  ASSUME Configured = Devices
  PROVE  Spec => []RunningHasWorker
<1>1. Init => RunningHasWorker
  BY RecordsInit
<1>2. IInv /\ RecordsOK /\ RunningHasWorker /\ [Next]_vars => RunningHasWorker'
  BY WorkerStays
<1> QED BY <1>1, <1>2, Invariance, RecordsInvariance, PTL DEF Spec

-----------------------------------------------------------------------------
(* What a step may never do.                                               *)

\* A final state that reached the disk is final, across failed saves, late
\* reports, expiry and restarts.
THEOREM FinalStatesAreFinal ==
  ASSUME Configured = Devices
  PROVE  Spec => FinalStaysFinal
<1> DEFINE A == \A t \in Tasks : disk.task[t].state \in Terminal =>
                    disk'.task[t].state = disk.task[t].state
<1>1. IInv /\ RecordsOK /\ [Next]_vars => A
  <2> SUFFICES ASSUME IInv, RecordsOK, [Next]_vars PROVE A
    OBVIOUS
  <2>1. CASE SavedSound
    BY <2>1 DEF SavedSound
  <2>2. CASE AllKept
    BY <2>2 DEF AllKept, Kept, Saved, RecordsOK, FinalIsKnown
  <2> QED BY <2>1, <2>2, StepCases, StartSaves, ResumeSaves, AddSaves, MoveSaves, RestartSaves
<1>2. IInv /\ RecordsOK /\ [Next]_vars => [A]_vars
  BY <1>1
<1> QED BY <1>2, Invariance, RecordsInvariance, PTL DEF Spec, FinalStaysFinal

\* A queued task is started by a dispatch, and by nothing else.
LEMMA StartedByDispatch ==
  ASSUME IInv, RecordsOK, [Next]_vars, NEW t \in Tasks,
         task[t].state = "QUEUED", task'[t].state = "RUNNING"
  PROVE  /\ task'[t].device \in Devices /\ StartStepOf(t, task'[t].device)
         /\ \A u \in Tasks \ {t} : task'[u] = task[u]
<1>1. ~NoStart /\ ~AllKept
  BY DEF NoStart, AllKept, Kept
<1>2. PICK u \in Tasks, d \in Devices : StartStepOf(u, d)
  BY <1>1, StepCases, ResumeSaves, AddSaves, MoveSaves, RestartSaves
<1>3. u = t
  BY <1>2, StartSaves
<1> QED BY <1>2, <1>3, StartSaves

\* A task starts only when it is due and its device is nobody's, although the
\* sweep that offers the device was computed earlier.
THEOREM StartsAreDue ==
  ASSUME Configured = Devices
  PROVE  Spec => StartsOnlyWhenDue
<1> DEFINE A == \A t \in Tasks : (task[t].state = "QUEUED" /\ task'[t].state = "RUNNING") =>
                  LET d == task'[t].device
                  IN /\ WindowOpen(t) /\ ~clock[t].waiting /\ ~paused
                     /\ \A u \in TaskInput[t].deps : task[u].state = "SUCCEEDED"
                     /\ d \notin holds /\ status[d] # "in-use" /\ lease[d].pending = NoTask
<1>1. IInv /\ RecordsOK /\ [Next]_vars => A
  <2> SUFFICES ASSUME IInv, RecordsOK, [Next]_vars, NEW t \in Tasks,
                      task[t].state = "QUEUED", task'[t].state = "RUNNING"
               PROVE  LET d == task'[t].device
                      IN /\ WindowOpen(t) /\ ~clock[t].waiting /\ ~paused
                         /\ \A u \in TaskInput[t].deps : task[u].state = "SUCCEEDED"
                         /\ d \notin holds /\ status[d] # "in-use" /\ lease[d].pending = NoTask
    OBVIOUS
  <2> DEFINE d == task'[t].device
  <2>1. d \in Devices /\ StartStepOf(t, d)
    BY StartedByDispatch
  <2> HIDE DEF d
  <2>2. d \in sweep /\ Eligible(t) /\ CanStart(lease[d])
    BY <2>1 DEF StartStepOf, Candidates, Dispatch
  <2>3. WindowOpen(t) /\ ~clock[t].waiting /\ \A u \in TaskInput[t].deps : task[u].state = "SUCCEEDED"
    BY <2>2 DEF Eligible
  <2>4. ~paused
    BY <2>2 DEF RecordsOK, SweepOK
  <2>5. d \notin holds /\ status[d] # "in-use" /\ lease[d] \in Leases /\ LeaseOK(lease[d])
    BY <2>1, <2>2 DEF IInv, TypeOK, DeviceOK
  <2>6. lease[d].pending = NoTask
    BY <2>2, <2>5, StartLemma
  <2> QED BY <2>3, <2>4, <2>5, <2>6 DEF d
<1>2. IInv /\ RecordsOK /\ [Next]_vars => [A]_vars
  BY <1>1
<1> QED BY <1>2, Invariance, RecordsInvariance, PTL DEF Spec, StartsOnlyWhenDue

\* A research task that starts leaves account, workspace and fleet within
\* their limits, however many tasks the same sweep starts.
THEOREM StartsAreWithinLimits ==
  ASSUME Configured = Devices
  PROVE  Spec => StartsWithinLimits
<1> DEFINE A == \A t \in Research : (task[t].state = "QUEUED" /\ task'[t].state = "RUNNING") =>
                  LET others == {u \in Research \ {t} : task'[u].state = "RUNNING"}
                      space  == WorkspaceOf[AccountOf[t]]
                  IN /\ \A u \in others : AccountOf[u] # AccountOf[t]
                     /\ Cardinality({u \in others : WorkspaceOf[AccountOf[u]] = space}) < WorkspaceLimit
                     /\ Cardinality(others) < MaxWorkers
<1>1. IInv /\ RecordsOK /\ [Next]_vars => A
  <2> SUFFICES ASSUME IInv, RecordsOK, [Next]_vars, NEW t \in Research,
                      task[t].state = "QUEUED", task'[t].state = "RUNNING"
               PROVE  LET others == {u \in Research \ {t} : task'[u].state = "RUNNING"}
                          space  == WorkspaceOf[AccountOf[t]]
                      IN /\ \A u \in others : AccountOf[u] # AccountOf[t]
                         /\ Cardinality({u \in others : WorkspaceOf[AccountOf[u]] = space}) < WorkspaceLimit
                         /\ Cardinality(others) < MaxWorkers
    OBVIOUS
  <2> DEFINE d == task'[t].device
             others == {u \in Research \ {t} : task'[u].state = "RUNNING"}
             before == (Running \cap Research) \ {t}
  <2>1. t \in Tasks /\ Research \subseteq Tasks
    BY QueueAssumption
  <2>2. StartStepOf(t, d) /\ \A u \in Tasks \ {t} : task'[u] = task[u]
    BY <2>1, StartedByDispatch
  <2>3. others = before
    BY <2>1, <2>2 DEF Running
  <2>4. FleetAllows(t, d, Running)
    BY <2>2 DEF StartStepOf, Candidates
  <2> HIDE DEF others, d
  <2>5. /\ \A u \in before : AccountOf[u] # AccountOf[t]
        /\ Cardinality({u \in before : WorkspaceOf[AccountOf[u]] = WorkspaceOf[AccountOf[t]]}) < WorkspaceLimit
        /\ Cardinality(before) < MaxWorkers
    BY <2>4 DEF FleetAllows
  <2>6. /\ \A u \in others : AccountOf[u] # AccountOf[t]
        /\ Cardinality({u \in others : WorkspaceOf[AccountOf[u]] = WorkspaceOf[AccountOf[t]]}) < WorkspaceLimit
        /\ Cardinality(others) < MaxWorkers
    BY <2>3, <2>5
  <2> QED BY <2>6 DEF others
<1>2. IInv /\ RecordsOK /\ [Next]_vars => [A]_vars
  BY <1>1
<1> QED BY <1>2, Invariance, RecordsInvariance, PTL DEF Spec, StartsWithinLimits

\* A worker starts to send input by SendInput, and by nothing else.
LEMMA InputBySendInput ==
  ASSUME IInv, [Next]_vars, NEW t \in Tasks, worker'[t] = "input", worker[t] # "input"
  PROVE  SendInput(t)
<1>1. worker \in [Tasks -> Workers]
  BY DEF IInv, TypeOK
<1>2. ASSUME NEW u \in Tasks, Worker(u) PROVE SendInput(t)
  <2>1. CASE SendInput(u)
    BY <1>1, <2>1 DEF SendInput
  <2>2. CASE \E w \in Workers : MovesTo(u, w)
    BY <1>1, <2>2 DEF MovesTo
  <2> QED BY <1>2, <2>1, <2>2, WorkerMoves
<1>3. ASSUME NEW u \in Tasks, worker' = Launched(u) PROVE FALSE
  BY <1>1, <1>3, LaunchedLemma
<1>4. ~Restart
  BY DEF Restart
<1> QED BY <1>2, <1>3, <1>4, MoverLemma

\* Input starts only while its task runs and is in time, on a device that is
\* neither held for nor claimed by a person.
THEOREM InputIsGranted ==
  ASSUME Configured = Devices
  PROVE  Spec => InputOnlyWhenGranted
<1> DEFINE A == \A t \in Tasks : (worker'[t] = "input" /\ worker[t] # "input") =>
                  LET d == task[t].device
                  IN /\ task[t].state = "RUNNING" /\ ~ExecutionExpired(t)
                     /\ d \notin holds /\ status[d] # "in-use"
<1>1. IInv /\ [Next]_vars => A
  <2> SUFFICES ASSUME IInv, [Next]_vars, NEW t \in Tasks, worker'[t] = "input", worker[t] # "input"
               PROVE  LET d == task[t].device
                      IN /\ task[t].state = "RUNNING" /\ ~ExecutionExpired(t)
                         /\ d \notin holds /\ status[d] # "in-use"
    OBVIOUS
  <2>1. task[t].state = "RUNNING" /\ ~ExecutionExpired(t) /\ CanAiAct(lease[task[t].device], t)
    BY InputBySendInput DEF SendInput, Owns
  <2>2. task[t].device \in Devices \ holds
    BY <2>1, ActiveLemma DEF Active
  <2>3. status[task[t].device] # "in-use"
    BY <2>1, <2>2 DEF IInv, DeviceOK, CanAiAct
  <2> QED BY <2>1, <2>2, <2>3
<1>2. IInv /\ [Next]_vars => [A]_vars
  BY <1>1
<1> QED BY <1>2, Invariance, PTL DEF Spec, InputOnlyWhenGranted

=============================================================================
