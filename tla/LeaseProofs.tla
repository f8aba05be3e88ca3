---------------------------- MODULE LeaseProofs ----------------------------
(***************************************************************************)
(* What each call does to a device's lease: it is a lease again, in a      *)
(* consistent state, and mode and action in flight change as the lemma     *)
(* says.  The proofs about the task queue and about people rest on them.   *)
(***************************************************************************)
EXTENDS DeviceLease, TLAPS

\* Settling clears the action in flight; what waits for nothing else stays.
LEMMA SettleLemma ==
  ASSUME NEW l \in Leases, LeaseOK(l)
  PROVE  /\ Settle(l) \in Leases
         /\ LeaseOK(Settle(l))
         /\ Settle(l).pending = NoTask
         /\ l.waiter = "none" => Settle(l).mode = l.mode /\ Settle(l).waiter = "none"
         /\ l.mode = "AI_PAUSED" /\ l.waiter # "drain" => l.waiter = "none"
         /\ l.mode = "AI_RUNNING" => l.waiter = "none"
BY ZenonT(60) DEF Settle, ContinueWith, NextMode, Leases, LeaseOK, Modes, Waiters

\* A handoff keeps the action in flight registered.
LEMMA ToHumanLemma ==
  ASSUME NEW l \in Leases, LeaseOK(l), CanSwitchToHuman(l)
  PROVE  /\ SwitchToHuman(l) \in Leases
         /\ LeaseOK(SwitchToHuman(l))
         /\ SwitchToHuman(l).pending = l.pending
         /\ l.mode = "HUMAN" => SwitchToHuman(l) = l
         /\ l.mode = "AI_RUNNING" => SwitchToHuman(l).mode \in {"HUMAN", "HANDOFF"}
BY ZenonT(60) DEF CanSwitchToHuman, CanApply, Legal, Sources, SwitchToHuman, ApplyEvent, NextMode, Leases,
       LeaseOK, Modes, Waiters

\* The calls that need no other lemma: what they keep and where they lead.
LEMMA StopLemma ==
  ASSUME NEW l \in Leases, LeaseOK(l)
  PROVE  /\ EmergencyStop(l) \in Leases /\ LeaseOK(EmergencyStop(l))
         /\ EmergencyStop(l).mode = "HUMAN" /\ EmergencyStop(l).pending = l.pending
         /\ MarkError(l) \in Leases /\ LeaseOK(MarkError(l))
         /\ MarkError(l).mode = "ERROR" /\ MarkError(l).pending = l.pending
BY DEF EmergencyStop, MarkError, ApplyEvent, NextMode, Leases, LeaseOK, Modes, Waiters

\* Pausing and resuming switch between the two modes of an active task.
LEMMA PauseLemma ==
  ASSUME NEW l \in Leases, LeaseOK(l)
  PROVE  /\ CanApply(l, "PAUSE_TASK") =>
              /\ ApplyEvent(l, "PAUSE_TASK") \in Leases /\ LeaseOK(ApplyEvent(l, "PAUSE_TASK"))
              /\ ApplyEvent(l, "PAUSE_TASK").mode = "AI_PAUSED"
              /\ ApplyEvent(l, "PAUSE_TASK").waiter = "none"
              /\ ApplyEvent(l, "PAUSE_TASK").pending = l.pending
              /\ l.mode = "AI_RUNNING"
         /\ CanApply(l, "RESUME_TASK") =>
              /\ ApplyEvent(l, "RESUME_TASK") \in Leases /\ LeaseOK(ApplyEvent(l, "RESUME_TASK"))
              /\ ApplyEvent(l, "RESUME_TASK").mode = "AI_RUNNING"
              /\ ApplyEvent(l, "RESUME_TASK").pending = l.pending
              /\ l.mode = "AI_PAUSED"
BY ZenonT(60) DEF CanApply, Legal, Sources, ApplyEvent, NextMode, Leases, LeaseOK, Modes, Waiters

\* Only an idle device of people, with nothing in flight, goes to the AI.
LEMMA ToAILemma ==
  ASSUME NEW l \in Leases, LeaseOK(l), CanSwitchToAI(l)
  PROVE  /\ SwitchToAI(l) \in Leases /\ LeaseOK(SwitchToAI(l))
         /\ SwitchToAI(l).mode = "AI_IDLE" /\ SwitchToAI(l).pending = NoTask
         /\ l.mode = "HUMAN" /\ l.pending = NoTask
BY DEF CanSwitchToAI, SwitchToAI, CanApply, Legal, Sources, ApplyEvent, NextMode, Leases, LeaseOK,
       Modes, Waiters

\* A worker's step takes the token and registers its action, no more.
LEMMA StepLemma ==
  ASSUME NEW l \in Leases, LeaseOK(l), NEW t \in Tasks
  PROVE  /\ CaptureToken(l, t) \in Leases /\ LeaseOK(CaptureToken(l, t))
         /\ CaptureToken(l, t).mode = l.mode /\ CaptureToken(l, t).pending = l.pending
         /\ CaptureToken(l, t).waiter = l.waiter
         /\ RegisterPendingAiAction(l, t) \in Leases
         /\ l.mode = "AI_RUNNING" => LeaseOK(RegisterPendingAiAction(l, t))
         /\ RegisterPendingAiAction(l, t).mode = l.mode
         /\ RegisterPendingAiAction(l, t).pending = t
         /\ RegisterPendingAiAction(l, t).waiter = l.waiter
BY DEF CaptureToken, RegisterPendingAiAction, Leases, LeaseOK, Modes, Waiters

\* A handoff that timed out keeps its action, in ERROR.
LEMMA TimeoutLemma ==
  ASSUME NEW l \in Leases, LeaseOK(l), l.waiter = "handoff"
  PROVE  /\ HandoffTimedOut(l) \in Leases /\ LeaseOK(HandoffTimedOut(l))
         /\ HandoffTimedOut(l).mode = "ERROR" /\ HandoffTimedOut(l).pending = l.pending
         /\ l.mode = "HANDOFF"
BY DEF HandoffTimedOut, Leases, LeaseOK, Modes, Waiters

\* The lease of a device the registry has not seen, and that of a restored task.
LEMMA NewLeaseLemma ==
  LET restored == [NewLease EXCEPT !.mode = "AI_PAUSED"]
  IN /\ NewLease \in Leases /\ LeaseOK(NewLease)
     /\ NewLease.mode = "HUMAN" /\ NewLease.pending = NoTask
     /\ restored \in Leases /\ LeaseOK(restored)
     /\ restored.mode = "AI_PAUSED" /\ restored.pending = NoTask /\ restored.waiter = "none"
BY DEF NewLease, Leases, LeaseOK, Modes, Waiters

\* While a task runs, settling its action only clears it.
LEMMA RunningSettleLemma ==
  ASSUME NEW l \in Leases, LeaseOK(l), l.mode = "AI_RUNNING"
  PROVE  /\ Settle(l).mode = "AI_RUNNING" /\ Settle(l).waiter = l.waiter
         /\ l.waiter = "none"
BY SettleLemma

\* A task that ends frees the device at once, or lets its action drain.
LEMMA FinishLemma ==
  ASSUME NEW l \in Leases, LeaseOK(l), l.mode = "AI_RUNNING"
  PROVE  /\ FinishAiTask(l) \in Leases /\ LeaseOK(FinishAiTask(l))
         /\ FinishAiTask(l).mode \in {"AI_IDLE", "AI_PAUSED"}
         /\ FinishAiTask(l).pending = l.pending
BY ZenonT(60) DEF FinishAiTask, ApplyEvent, NextMode, Leases, LeaseOK, Modes, Waiters

\* A task that starts has the lease to itself.
LEMMA StartTaskLemma ==
  ASSUME NEW l \in Leases, LeaseOK(l), l.mode \in {"HUMAN", "AI_IDLE"}, l.pending = NoTask
  PROVE  /\ ApplyEvent(l, "START_TASK") \in Leases /\ LeaseOK(ApplyEvent(l, "START_TASK"))
         /\ ApplyEvent(l, "START_TASK").mode = "AI_RUNNING"
         /\ ApplyEvent(l, "START_TASK").pending = NoTask
BY DEF ApplyEvent, NextMode, Leases, LeaseOK, Modes, Waiters
=============================================================================
