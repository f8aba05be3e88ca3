------------------------ MODULE StaleDecisionsProofs ------------------------
(***************************************************************************)
(* Proof that a decision that was overtaken is never carried out, for      *)
(* every number of tasks and devices: what happens to the tokens of the    *)
(* leases, and to a task whose worker decides.                             *)
(***************************************************************************)
EXTENDS StaleDecisions, TaskQueueProofs

-----------------------------------------------------------------------------
(* Tokens.                                                                 *)

\* A worker can own a lease only while its task may run there.
TokenOK(l) == l.token # NoTask => l.mode = "AI_RUNNING"

\* A call on a lease l that no worker's capture is part of left m behind.
Calm(l, m) == m.token \in {NoTask, l.token} /\ (TokenOK(l) => TokenOK(m))

\* No call but the capture itself gives a token to a worker.
LEMMA CalmLemma ==
  ASSUME NEW l \in Leases, LeaseOK(l)
  PROVE  /\ Calm(l, l)
         /\ \A e : Calm(l, ApplyEvent(l, e))
         /\ \A t \in Tasks : Calm(l, RegisterPendingAiAction(l, t))
         /\ Calm(l, ReleaseDevice(l))
         /\ Calm(l, MarkError(ReleaseDevice(l)))
         /\ Calm(l, EmergencyStop(l))
         /\ Calm(l, SwitchToAI(l))
         /\ CanSwitchToHuman(l) => Calm(l, SwitchToHuman(l))
         /\ l.waiter = "handoff" => Calm(l, HandoffTimedOut(l))
         /\ Calm(l, Settle(l))
<1>1. Calm(l, l)
  BY DEF Calm
<1>2. \A e : Calm(l, ApplyEvent(l, e))
  BY DEF Calm, TokenOK, ApplyEvent, Leases
<1>3. \A t \in Tasks : Calm(l, RegisterPendingAiAction(l, t))
  BY DEF Calm, TokenOK, RegisterPendingAiAction, Leases
<1>4. Calm(l, ReleaseDevice(l))
  BY <1>1, <1>2 DEF Calm, TokenOK, ReleaseDevice, FinishAiTask, Leases
<1>5. Calm(l, MarkError(ReleaseDevice(l)))
  <2>1. ReleaseDevice(l) \in Leases
    BY ReleaseLemma
  <2> QED BY <2>1 DEF Calm, TokenOK, MarkError, Leases
<1>6. Calm(l, EmergencyStop(l)) /\ Calm(l, SwitchToAI(l))
  BY <1>2 DEF EmergencyStop, SwitchToAI
<1>7. Calm(l, SwitchToHuman(l))
  BY <1>1, <1>2 DEF Calm, TokenOK, SwitchToHuman, Leases
<1>8. ASSUME l.waiter = "handoff" PROVE Calm(l, HandoffTimedOut(l))
  <2>1. l.mode = "HANDOFF"
    BY <1>8 DEF LeaseOK
  <2> QED BY <2>1 DEF Calm, TokenOK, HandoffTimedOut, Leases
<1>9. Calm(l, Settle(l))
  BY DEF Calm, TokenOK, Settle, Leases
<1> QED BY <1>1, <1>2, <1>3, <1>4, <1>5, <1>6, <1>7, <1>8, <1>9

\* Two calm changes of a lease make a calm one.
LEMMA CalmTwice ==
  ASSUME NEW l, NEW m, NEW n, Calm(l, m), Calm(m, n)
  PROVE  Calm(l, n)
BY DEF Calm

\* The leases after a step: calm, one by one.
AllCalm == \A d \in Devices : Calm(lease[d], lease'[d])

\* A step that changes the lease of one device.
LEMMA CalmStep ==
  ASSUME IInv, NEW d, NEW m, lease' = [lease EXCEPT ![d] = m], d \in Devices => Calm(lease[d], m)
  PROVE  AllCalm
<1>1. ASSUME NEW e \in Devices PROVE Calm(lease[e], lease'[e])
  <2>1. lease[e] \in Leases /\ LeaseOK(lease[e])
    BY DEF IInv, TypeOK, DeviceOK
  <2>2. CASE e = d
    BY <2>2 DEF IInv, TypeOK
  <2>3. CASE e # d
    BY <2>1, <2>3, CalmLemma DEF IInv, TypeOK
  <2> QED BY <2>2, <2>3
<1> QED BY <1>1 DEF AllCalm

\* A step that changes no lease.
LEMMA CalmStutter ==
  ASSUME IInv, lease' = lease
  PROVE  AllCalm
BY CalmLemma DEF AllCalm, IInv, TypeOK, DeviceOK

\* A report, by a worker whose action may just have settled.
LEMMA CalmReport ==
  ASSUME IInv, NEW t \in Tasks, NEW outcome, NEW ok,
         NEW l \in {lease[task[t].device], Settle(lease[task[t].device])}, Report(t, outcome, l, ok)
  PROVE  AllCalm
<1> DEFINE d == task[t].device
           old == lease[d]
           m == IF outcome # "NEEDS_HUMAN" THEN ReleaseDevice(l)
                ELSE IF ok THEN SwitchToHuman(l) ELSE l
<1>1. lease' = [lease EXCEPT ![d] = m] /\ task[t].state = "RUNNING"
  BY DEF Report
<1>2. /\ old \in Leases /\ LeaseOK(old) /\ old.mode = "AI_RUNNING"
      /\ l \in Leases /\ LeaseOK(l) /\ l.mode = "AI_RUNNING"
  BY <1>1, OwnLeaseLemma
<1>3. Calm(old, l)
  BY <1>2, CalmLemma
<1>4. CanSwitchToHuman(l)
  BY <1>2 DEF CanSwitchToHuman, CanApply, Legal, Sources
<1>5. Calm(l, m)
  BY <1>2, <1>4, CalmLemma
<1> HIDE DEF m
<1>6. Calm(old, m)
  BY <1>3, <1>5, CalmTwice
<1> QED BY <1>1, <1>6, CalmStep

\* A tick over leases that were left behind calmly leaves them so.
LEMMA CalmTick ==
  ASSUME IInv, NEW tk, NEW or, NEW ls \in [Devices -> Leases],
         \A d \in Devices : LeaseOK(ls[d]) /\ Calm(lease[d], ls[d]), RunTick(tk, or, ls)
  PROVE  AllCalm
<1>1. ASSUME NEW d \in Devices PROVE Calm(lease[d], lease'[d])
  <2>1. lease'[d] \in {ls[d], ReleaseDevice(ls[d])}
    BY DEF RunTick
  <2>2. Calm(ls[d], lease'[d])
    BY <2>1, CalmLemma
  <2> QED BY <2>2, CalmTwice
<1> QED BY <1>1 DEF AllCalm

\* So does the tick that a worker causes.
LEMMA CalmWorkerTick ==
  ASSUME IInv, NEW t \in Tasks,
         NEW l \in {lease[task[t].device], Settle(lease[task[t].device])}, WorkerTick(t, l)
  PROVE  AllCalm
<1> DEFINE d == task[t].device
           ls == [lease EXCEPT ![d] = l]
<1>1. CASE RunTick(task, order, ls)
  <2>1. task[t].state = "RUNNING"
    BY DEF WorkerTick
  <2>2. lease[d] \in Leases /\ LeaseOK(lease[d]) /\ l \in Leases /\ LeaseOK(l)
    BY <2>1, OwnLeaseLemma
  <2>3. Calm(lease[d], l)
    BY <2>2, CalmLemma
  <2>4. lease \in [Devices -> Leases] /\ \A e \in Devices : LeaseOK(lease[e])
    BY DEF IInv, TypeOK, DeviceOK
  <2>5. ls \in [Devices -> Leases]
    BY <2>2, <2>4
  <2>6. ASSUME NEW e \in Devices PROVE LeaseOK(ls[e]) /\ Calm(lease[e], ls[e])
    <3>1. CASE e = d
      BY <2>2, <2>3, <2>4, <3>1
    <3>2. CASE e # d
      <4>1. ls[e] = lease[e]
        BY <2>4, <3>2
      <4> QED BY <2>4, <4>1, CalmLemma
    <3> QED BY <3>1, <3>2
  <2> HIDE DEF ls
  <2> QED BY <1>1, <2>5, <2>6, CalmTick
<1>2. CASE \E ok \in BOOLEAN : Report(t, "FAILED_FINAL", l, ok)
  BY <1>2, CalmReport
<1> QED BY <1>1, <1>2 DEF WorkerTick

\* A worker's steps, but for the capture.
LEMMA CalmWorker ==
  ASSUME IInv, NEW t \in Tasks, Worker(t), ~StartStep(t)
  PROVE  AllCalm
<1> DEFINE d == task[t].device
<1>1. lease \in [Devices -> Leases] /\ \A e \in Devices : LeaseOK(lease[e])
  BY DEF IInv, TypeOK, DeviceOK
<1>2. ASSUME lease' = [lease EXCEPT ![d] = Settle(lease[d])] PROVE AllCalm
  BY <1>1, <1>2, CalmLemma, CalmStep
<1>3. CASE WorkerStart(t)
  BY <1>3, CalmReport, CalmStutter DEF WorkerStart
<1>4. CASE Return(t) \/ LeaveLoop(t) \/ SendInput(t) \/ Checkpoint(t)
  <2>1. lease' = lease
    BY <1>4 DEF Return, LeaveLoop, SendInput, Checkpoint
  <2> QED BY <2>1, CalmStutter
<1>5. CASE SubmitAction(t)
  <2>1. lease' = [lease EXCEPT ![d] = RegisterPendingAiAction(lease[d], t)]
    BY <1>5 DEF SubmitAction
  <2> QED BY <1>1, <2>1, CalmLemma, CalmStep
<1>6. CASE SettleRevoked(t)
  <2>1. lease' = [lease EXCEPT ![d] = Settle(lease[d])]
    BY <1>6 DEF SettleRevoked
  <2> QED BY <1>2, <2>1
<1>7. CASE EndSession(t)
  BY <1>7, CalmWorkerTick, CalmReport DEF EndSession
<1>8. CASE DropPlan(t)
  BY <1>8, CalmWorkerTick, CalmReport, CalmStutter DEF DropPlan
<1>9. CASE SettleVerified(t)
  BY <1>2, <1>9, CalmReport DEF SettleVerified
<1>10. CASE SettleFailed(t)
  BY <1>10, CalmWorkerTick, CalmReport DEF SettleFailed
<1>11. CASE FinishStep(t)
  BY <1>11, CalmReport, CalmStutter DEF FinishStep
<1> QED BY <1>3, <1>4, <1>5, <1>6, <1>7, <1>8, <1>9, <1>10, <1>11 DEF Worker

\* An operator's order leaves every lease behind calmly.
LEMMA CalmOperator ==
  ASSUME IInv, NEW d \in Devices, OperatorOnDevice(d)
  PROVE  AllCalm
<1> DEFINE l == lease[d]
<1>1. l \in Leases /\ LeaseOK(l)
  BY DEF IInv, TypeOK, DeviceOK
<1>2. CASE PauseDevice(d) \/ ResumeDevice(d)
  <2>1. \E e \in {"PAUSE_TASK", "RESUME_TASK"} : lease' = [lease EXCEPT ![d] = ApplyEvent(l, e)]
    BY <1>2 DEF PauseDevice, ResumeDevice
  <2> QED BY <1>1, <2>1, CalmLemma, CalmStep
<1>3. CASE StopDevice(d)
  <2>1. \E m \in {ReleaseDevice(l), MarkError(ReleaseDevice(l))} : lease' = [lease EXCEPT ![d] = m]
    BY <1>3 DEF StopDevice
  <2> QED BY <1>1, <2>1, CalmLemma, CalmStep
<1>4. CASE TakeoverDevice(d)
  <2>1. lease' = lease \/ lease' = [lease EXCEPT ![d] = IF CanSwitchToHuman(l) THEN SwitchToHuman(l) ELSE l]
    BY <1>4 DEF TakeoverDevice
  <2>2. Calm(l, IF CanSwitchToHuman(l) THEN SwitchToHuman(l) ELSE l)
    BY <1>1, CalmLemma
  <2> QED BY <2>1, <2>2, CalmStep, CalmStutter
<1>5. CASE EmergencyStopDevice(d) \/ SwitchDeviceToAI(d)
  <2>1. \E m \in {EmergencyStop(l), SwitchToAI(l)} : lease' = [lease EXCEPT ![d] = m]
    BY <1>5 DEF EmergencyStopDevice, SwitchDeviceToAI
  <2> QED BY <1>1, <2>1, CalmLemma, CalmStep
<1> QED BY <1>2, <1>3, <1>4, <1>5 DEF OperatorOnDevice

\* The queue's steps: ticks, the sweep and orders about tasks.
LEMMA CalmQueue ==
  ASSUME IInv, Scheduler \/ OperatorOnQueue
  PROVE  AllCalm
<1>1. lease \in [Devices -> Leases] /\ \A e \in Devices : LeaseOK(lease[e]) /\ Calm(lease[e], lease[e])
  BY CalmLemma DEF IInv, TypeOK, DeviceOK
<1>2. ASSUME NEW tk, NEW or, RunTick(tk, or, lease) PROVE AllCalm
  BY <1>1, <1>2, CalmTick
<1>3. CASE Tick
  BY <1>2, <1>3 DEF Tick
<1>4. ASSUME NEW d \in Devices, Offer(d) PROVE AllCalm
  <2>1. CASE lease' = lease
    BY <2>1, CalmStutter
  <2>2. CASE \E t \in Tasks : Dispatch(t, d)
    <3>1. lease' = [lease EXCEPT ![d] = ApplyEvent(lease[d], "START_TASK")]
      BY <2>2 DEF Dispatch
    <3> QED BY <1>1, <3>1, CalmLemma, CalmStep
  <2>3. CASE DispatchFails(d)
    <3>1. lease' = [lease EXCEPT ![d] = IF lease[d].mode = "AI_IDLE"
                      THEN ApplyEvent(lease[d], "TASK_FINISHED") ELSE EmergencyStop(lease[d])]
      BY <2>3 DEF DispatchFails
    <3>2. Calm(lease[d], IF lease[d].mode = "AI_IDLE"
                         THEN ApplyEvent(lease[d], "TASK_FINISHED") ELSE EmergencyStop(lease[d]))
      BY <1>1, CalmLemma
    <3> QED BY <3>1, <3>2, CalmStep
  <2> QED BY <1>4, <2>1, <2>2, <2>3 DEF Offer, Candidates
<1>5. ASSUME NEW t \in Tasks, AddTask(t) PROVE AllCalm
  <2>1. CASE lease' = lease
    BY <2>1, CalmStutter
  <2> QED BY <1>2, <1>5, <2>1 DEF AddTask
<1>6. ASSUME NEW t \in Tasks, CancelTask(t) PROVE AllCalm
  <2>1. lease' = lease \/ lease' = [lease EXCEPT ![task[t].device] = ReleaseDevice(lease[task[t].device])]
    BY <1>6 DEF CancelTask
  <2> QED BY <1>1, <2>1, CalmLemma, CalmStep, CalmStutter
<1>7. ASSUME lease' = lease PROVE AllCalm
  BY <1>7, CalmStutter
<1> QED BY <1>3, <1>4, <1>5, <1>6, <1>7 DEF Scheduler, OperatorOnQueue, PauseQueue, MoveTask, SetPriority

\* Every step is calm, but for a capture, by a worker at the top of its loop
\* and for its own running task, and a crash, after which nothing runs.
LEMMA CalmNext ==
  ASSUME IInv, [Next]_vars
  PROVE  \/ AllCalm
         \/ \E t \in Tasks : StartStep(t)
         \/ Restart
<1>1. ASSUME NEW d \in Devices, Device(d) PROVE AllCalm
  <2>1. lease[d] \in Leases /\ LeaseOK(lease[d])
    BY DEF IInv, TypeOK, DeviceOK
  <2>2. CASE HandoffTimeout(d)
    <3>1. lease' = [lease EXCEPT ![d] = HandoffTimedOut(lease[d])] /\ lease[d].waiter = "handoff"
      BY <2>2 DEF HandoffTimeout
    <3> QED BY <2>1, <3>1, CalmLemma, CalmStep
  <2>3. CASE lease' = lease
    BY <2>3, CalmStutter
  <2> QED BY <1>1, <2>2, <2>3
          DEF Device, AttachDevice, ClaimDevice, ReleaseSelection, GoOffline, BackOnline, SetStatus
<1>2. CASE \E t \in Tasks : Time(t)
  <2>1. lease' = lease
    BY <1>2 DEF Time, WindowOpens, WindowCloses, DurationEnds, BackoffEnds, PassTime
  <2> QED BY <2>1, CalmStutter
<1>3. CASE UNCHANGED vars
  BY <1>3, CalmStutter DEF vars
<1> QED BY <1>1, <1>2, <1>3, CalmWorker, CalmOperator, CalmQueue DEF Next

-----------------------------------------------------------------------------
(* The inductive invariant.                                                *)

TokensOK == \A d \in Devices : TokenOK(lease[d])

\* A worker that asked for a person is done.
AskedOK == \A t \in Tasks : task[t].state = "NEEDS_HUMAN" => worker[t] \in {"none", "return"}

\* The worker of an overtaken decision has not come to its input, and will
\* find that its task has ended or that the lease is no longer its own.
OvertakenOK ==
  \A t \in overtaken :
    /\ t \in Tasks /\ worker[t] \in {"plan", "detect"}
    /\ task[t].state \in Terminal \/ lease[task[t].device].token # t

\* Every step keeps the leases' tokens in order.
LEMMA TokensStep ==
  ASSUME IInv, TokensOK, [Next]_vars
  PROVE  TokensOK'
<1> SUFFICES ASSUME NEW d \in Devices PROVE TokenOK(lease'[d])
  BY DEF TokensOK, TokenOK
<1>1. lease \in [Devices -> Leases] /\ LeaseOK(lease[d]) /\ TokenOK(lease[d])
  BY DEF IInv, TypeOK, DeviceOK, TokensOK
<1>2. CASE AllCalm
  BY <1>1, <1>2 DEF AllCalm, Calm
<1>3. ASSUME NEW t \in Tasks, StartStep(t) PROVE TokenOK(lease'[d])
  <2>1. CASE d = task[t].device
    <3>1. lease'[d] = CaptureToken(lease[d], t) /\ lease[d].mode = "AI_RUNNING"
      BY <1>1, <1>3, <2>1 DEF StartStep
    <3> QED BY <1>1, <3>1, StepLemma DEF TokenOK
  <2>2. CASE d # task[t].device
    <3>1. lease'[d] = lease[d]
      BY <1>1, <1>3, <2>2 DEF StartStep
    <3> QED BY <1>1, <3>1
  <2> QED BY <2>1, <2>2
<1>4. CASE Restart
  BY <1>4 DEF Restart, NewLease, TokenOK
<1> QED BY <1>2, <1>3, <1>4, CalmNext

\* A worker that asks for a person, or asked before, has returned or returns.
LEMMA AskedStep ==
  ASSUME IInv, RecordsOK, AskedOK, [Next]_vars
  PROVE  AskedOK'
<1> SUFFICES ASSUME NEW t \in Tasks, task'[t].state = "NEEDS_HUMAN"
             PROVE  worker'[t] \in {"none", "return"}
  BY DEF AskedOK
<1>1. worker \in [Tasks -> Workers]
  BY DEF IInv, TypeOK
<1>2. ASSUME task[t].state = "NEEDS_HUMAN" PROVE worker'[t] \in {"none", "return"}
  <2>1. worker[t] \in {"none", "return"}
    BY <1>2 DEF AskedOK
  <2>2. ASSUME Worker(t) PROVE worker'[t] \in {"none", "return"}
    <3>1. Return(t)
      BY <2>1, <2>2 DEF Worker, WorkerStart, StartStep, EndSession, LeaveLoop, Checkpoint, DropPlan,
                        SubmitAction, SendInput, SettleVerified, SettleFailed, SettleRevoked, FinishStep
    <3> QED BY <1>1, <1>2, <3>1 DEF Return, Resumed, Active
  <2>3. ASSUME NEW u \in Tasks \ {t}, Worker(u) PROVE worker'[t] = worker[t]
    <3>1. CASE SendInput(u)
      BY <1>1, <3>1 DEF SendInput
    <3>2. CASE \E w \in Workers : MovesTo(u, w)
      BY <1>1, <3>2 DEF MovesTo
    <3> QED BY <2>3, <3>1, <3>2, WorkerMoves
  <2>4. ASSUME NEW u \in Tasks, worker' = Launched(u), task'[u].state = "RUNNING"
        PROVE  worker'[t] = worker[t]
    BY <1>1, <2>4, LaunchedLemma
  <2>5. CASE Restart
    BY <2>5 DEF Restart
  <2> QED BY <2>1, <2>2, <2>3, <2>4, <2>5, MoverLemma
<1>3. CASE AllKept
  BY <1>2, <1>3 DEF AllKept, Kept
<1>4. ASSUME NEW u \in Tasks, NEW d \in Devices, StartStepOf(u, d) PROVE task[t].state = "NEEDS_HUMAN"
  BY <1>4, StartSaves
<1>5. ASSUME NEW d \in Devices, ResumeDevice(d) PROVE task[t].state = "NEEDS_HUMAN"
  <2>1. PICK u \in Tasks : task' = WithState({u}, "RUNNING")
    BY <1>5 DEF ResumeDevice, Holder
  <2>2. task'[u].state = "RUNNING" /\ \A v \in Tasks \ {u} : task'[v] = task[v]
    BY SMTT(30), <2>1, WithStateLemma DEF TaskStates, Active
  <2> QED BY <2>2
<1>6. ASSUME NEW u \in Tasks, AddTask(u) PROVE task[t].state = "NEEDS_HUMAN"
  BY <1>6, AddSaves
<1>7. ASSUME NEW u \in Tasks, NEW v \in Tasks, NEW r, MoveTask(u, r, v) PROVE task[t].state = "NEEDS_HUMAN"
  BY <1>7 DEF MoveTask
<1>8. CASE Restart
  BY <1>8 DEF Restart
<1> QED BY <1>2, <1>3, <1>4, <1>5, <1>6, <1>7, <1>8, StepCases

\* While a worker decides, its task keeps its device, stays ended if it has
\* ended, and does not get back a lease that was renewed.
LEMMA DeciderLemma ==
  ASSUME IInv, RecordsOK, [Next]_vars, NEW t \in Tasks,
         worker[t] \in {"plan", "detect"}, worker'[t] \in {"plan", "detect"}
  PROVE  /\ task'[t].device = task[t].device
         /\ task[t].state \in Terminal => task'[t].state \in Terminal
         /\ \A d \in Devices : lease[d].token # t => lease'[d].token # t
<1>1. worker \in [Tasks -> Workers] /\ ~Restart
  BY DEF IInv, TypeOK, Restart
<1>2. task'[t].device = task[t].device /\ (task[t].state \in Terminal => task'[t].state \in Terminal)
  <2>1. CASE AllKept
    BY <2>1 DEF AllKept, Kept
  <2>2. ASSUME NEW u \in Tasks, NEW d \in Devices, StartStepOf(u, d) PROVE task'[t] = task[t]
    <3>1. task[u].state = "QUEUED" /\ \A v \in Tasks \ {u} : task'[v] = task[v]
      BY <2>2, StartSaves
    <3>2. t # u
      BY <3>1 DEF IInv, WorkerOK
    <3> QED BY <3>1, <3>2
  <2>3. CASE \E d \in Devices : ResumeDevice(d)
    <3>1. PICK u \in Tasks : task[u].state = "PAUSED" /\ task' = WithState({u}, "RUNNING")
      BY <2>3 DEF ResumeDevice, Holder
    <3>2. task'[u].device = task[u].device /\ \A v \in Tasks \ {u} : task'[v] = task[v]
      BY <3>1, WithStateLemma DEF TaskStates, Active
    <3> QED BY <3>1, <3>2 DEF Terminal
  <2>4. CASE \E u \in Tasks : AddTask(u)
    BY <2>4, AddSaves
  <2>5. CASE \E u, v \in Tasks, relation \in {"before", "after"} : MoveTask(u, relation, v)
    BY <2>5 DEF MoveTask
  <2> QED BY <1>1, <2>1, <2>2, <2>3, <2>4, <2>5, StepCases
<1>3. ASSUME NEW d \in Devices, lease[d].token # t PROVE lease'[d].token # t
  <2>1. CASE AllCalm
    BY <1>3, <2>1, NoTaskAssumption DEF AllCalm, Calm
  <2>2. ASSUME NEW u \in Tasks, StartStep(u) PROVE lease'[d].token # t
    <3>1. u # t /\ lease \in [Devices -> Leases]
      BY <2>2 DEF StartStep, IInv, TypeOK
    <3> QED BY <1>3, <2>2, <3>1 DEF StartStep, CaptureToken, Leases
  <2> QED BY <1>1, <2>1, <2>2, CalmNext
<1> QED BY <1>2, <1>3

\* Every step keeps the overtaken decisions unsent.
LEMMA OvertakenStep ==
  ASSUME IInv, IInv', RecordsOK, TokensOK, TokensOK', AskedOK, AskedOK', OvertakenOK, HNext
  PROVE  OvertakenOK'
<1> SUFFICES ASSUME NEW t \in overtaken'
             PROVE  /\ t \in Tasks /\ worker'[t] \in {"plan", "detect"}
                    /\ task'[t].state \in Terminal \/ lease'[task'[t].device].token # t
  BY DEF OvertakenOK
<1>1. /\ Next /\ t \in Tasks /\ worker[t] \in {"plan", "detect"}
      /\ worker'[t] \in {"plan", "detect", "input"} /\ (t \in overtaken \/ Overtakes(t))
  BY DEF HNext
<1>2. worker'[t] # "input"
  <2> SUFFICES ASSUME worker'[t] = "input" PROVE FALSE
    OBVIOUS
  <2>1. SendInput(t)
    BY <1>1, InputBySendInput
  <2>2. /\ task[t].state = "RUNNING" /\ lease[task[t].device].token = t
        /\ lease[task[t].device].mode = "AI_RUNNING" /\ task' = task /\ lease' = lease
    BY <2>1 DEF SendInput, Owns, CanAiAct
  <2> QED BY <1>1, <2>2 DEF OvertakenOK, Overtakes, Terminal
<1>3. /\ task'[t].device = task[t].device
      /\ task[t].state \in Terminal => task'[t].state \in Terminal
      /\ \A d \in Devices : lease[d].token # t => lease'[d].token # t
  BY <1>1, <1>2, DeciderLemma
<1>4. /\ task[t].state \in {"RUNNING", "PAUSED"} \cup Terminal
      /\ task'[t].state \in {"RUNNING", "PAUSED"} \cup Terminal
  <2>1. task[t].state \in TaskStates /\ task'[t].state \in TaskStates
    BY <1>1 DEF IInv, TypeOK, TaskRecords
  <2> QED BY <1>1, <1>2, <2>1 DEF IInv, WorkerOK, AskedOK, TaskStates, Active
<1>5. CASE t \in overtaken
  <2>1. CASE task[t].state \in Terminal
    BY <1>1, <1>2, <1>3, <2>1
  <2>2. CASE task[t].state \notin Terminal
    <3>1. task[t].device \in Devices
      BY <1>1, <1>4, <2>2, ActiveLemma DEF Active
    <3> QED BY <1>1, <1>2, <1>3, <1>5, <2>2, <3>1 DEF OvertakenOK
  <2> QED BY <2>1, <2>2
<1>6. CASE Overtakes(t)
  <2>1. CASE task'[t].state \in Terminal
    BY <1>1, <1>2, <2>1
  <2>2. CASE task'[t].state = "RUNNING"
    BY <1>1, <1>3, <1>6, <2>2 DEF Overtakes, IInv, TaskOK
  <2>3. CASE task'[t].state = "PAUSED"
    <3>1. task'[t].device \in Devices /\ lease'[task'[t].device].mode = "AI_PAUSED"
      BY <1>1, <2>3 DEF IInv, TaskOK, QueueOK, Active
    <3>2. lease'[task'[t].device].token = NoTask
      BY <3>1 DEF TokensOK, TokenOK
    <3> QED BY <1>1, <1>2, <3>2, NoTaskAssumption
  <2> QED BY <1>4, <2>1, <2>2, <2>3
<1> QED BY <1>1, <1>5, <1>6

-----------------------------------------------------------------------------
\* A decision that a pause, a stop, a handoff or a restart overtook is never
\* carried out, not even when the task has been resumed since.
THEOREM StaleDecisionsAreDropped ==
  ASSUME Configured = Devices
  PROVE  HSpec => []StaleDecisionNeverSent
<1> DEFINE Inv == TokensOK /\ AskedOK /\ OvertakenOK
<1>1. HInit => Init
  BY DEF HInit
<1>2. [HNext]_<<vars, overtaken>> => [Next]_vars
  BY DEF HNext, vars
<1>3. HSpec => [](IInv /\ RecordsOK)
  BY <1>1, <1>2, Invariance, RecordsInvariance, PTL DEF HSpec, Spec
<1>4. HInit => Inv
  BY DEF HInit, Init, NewTask, NewLease, TokensOK, TokenOK, AskedOK, OvertakenOK
<1>5. IInv /\ IInv' /\ RecordsOK /\ Inv /\ [HNext]_<<vars, overtaken>> => Inv'
  <2> SUFFICES ASSUME IInv, IInv', RecordsOK, Inv, [HNext]_<<vars, overtaken>> PROVE Inv'
    OBVIOUS
  <2>1. TokensOK' /\ AskedOK'
    BY <1>2, TokensStep, AskedStep
  <2>2. CASE HNext
    BY <2>1, <2>2, OvertakenStep
  <2>3. CASE UNCHANGED <<vars, overtaken>>
    BY <2>1, <2>3 DEF vars, OvertakenOK
  <2> QED BY <2>1, <2>2, <2>3
<1>6. Inv => StaleDecisionNeverSent
  BY DEF OvertakenOK, StaleDecisionNeverSent
<1> QED BY <1>3, <1>4, <1>5, <1>6, PTL DEF HSpec
====
