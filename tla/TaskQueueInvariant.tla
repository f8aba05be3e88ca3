------------------------ MODULE TaskQueueInvariant ------------------------
(***************************************************************************)
(* The inductive invariant of TaskQueue: what its safety invariants need   *)
(* to be preserved by every step.  It holds where every phone is in the    *)
(* configuration (Configured = Devices).                                   *)
(***************************************************************************)
EXTENDS TaskQueue

\* What memory and the snapshot both keep: an active task has a device, not
\* held for a person, to itself.
QueueOK(tk, ho) ==
  /\ \A t \in Tasks : tk[t].state \in Active => tk[t].device \in Devices \ ho
  /\ \A t, u \in Tasks :
       (tk[t].state \in Active /\ tk[u].state \in Active /\ tk[t].device = tk[u].device) => t = u

\* An active task has the lease of its device, not in draining, and nobody
\* else's action is in flight there.
TaskOK(t) ==
  LET l == lease[task[t].device]
  IN /\ task[t].state = "RUNNING" => l.mode = "AI_RUNNING"
     /\ task[t].state = "PAUSED" => l.mode = "AI_PAUSED" /\ l.waiter # "drain"
     /\ task[t].state \in Active => l.pending \in {NoTask, t}

\* A worker that may be sending input is registered, and a task that waits
\* has no worker but one about to return.
WorkerOK(t) ==
  /\ worker[t] \in {"detect", "input"} =>
       task[t].device \in Devices /\ lease[task[t].device].pending = t
  /\ task[t].state \in {"ABSENT", "SCHEDULED", "QUEUED"} => worker[t] \in {"none", "return"}

\* A claimed device is in nobody else's hands, and a sweep offers no device
\* that is held or claimed.
DeviceOK(d) ==
  /\ LeaseOK(lease[d])
  /\ status[d] = "in-use" => lease[d].mode \in {"HUMAN", "ERROR"} /\ lease[d].pending = NoTask
  /\ d \in sweep => d \notin holds /\ status[d] # "in-use"

\* The inductive invariant: queue, snapshot, leases, workers and the sweep in
\* progress agree, so that neither a dispatch from a device list taken
\* earlier nor a late settlement nor a restart gives input to two owners.
IInv ==
  /\ TypeOK
  /\ QueueOK(task, holds) /\ QueueOK(disk.task, disk.holds)
  /\ \A t \in Tasks : TaskOK(t) /\ WorkerOK(t)
  /\ \A d \in Devices : DeviceOK(d)
=============================================================================
