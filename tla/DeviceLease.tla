---------------------------- MODULE DeviceLease ----------------------------
(***************************************************************************)
(* The exclusive input lease of one device (system/server/src/             *)
(* deviceLease.js), as operators from a lease record to the lease record   *)
(* the call leaves behind.  Every exported function but the asynchronous   *)
(* switchToHuman runs to completion without yielding, so each is one       *)
(* operator; switchToHuman and the drain of finishAiTask are split at      *)
(* their await into the part that runs in the call, the timeout and        *)
(* Settle, the continuations that run when the submitted action settles.   *)
(*                                                                         *)
(* The code's tokens are fresh symbols compared for identity.  Only two    *)
(* things are ever asked of one: is the token a worker captured still the  *)
(* lease's, and is the token a waiting continuation captured still the     *)
(* lease's.  "token" and "waiter" record the holder for which the answer   *)
(* is yes; whatever renews the token forgets both.                         *)
(***************************************************************************)
EXTENDS ControllerMode

CONSTANTS
  Tasks,   \* the tasks whose workers may hold the lease
  NoTask   \* no worker

ASSUME NoTaskAssumption == NoTask \notin Tasks

\* Continuations that act on the lease only if their token is still current:
\* the drain of finishAiTask, the handoff of switchToHuman, and the late
\* recovery of a handoff that timed out.
Waiters == {"none", "drain", "handoff", "recover"}

\* mode      controller mode
\* pending   task whose worker's submitted action has not settled (the
\*           registered pendingAiAction), or NoTask
\* token     task whose worker captured the current token, or NoTask
\* waiter    the continuation that captured the current token
\* drained   a drain, current or not, is attached to the pending action
Leases == [mode : Modes, pending : Tasks \cup {NoTask},
           token : Tasks \cup {NoTask}, waiter : Waiters, drained : BOOLEAN]

\* entry(): what a device the registry has not seen starts with.
NewLease == [mode |-> "HUMAN", pending |-> NoTask, token |-> NoTask,
             waiter |-> "none", drained |-> FALSE]

CanHumanSelect(l) == l.mode = "HUMAN" /\ l.pending = NoTask

\* canAiAct with the token the worker of task t captured.
CanAiAct(l, t) == l.mode = "AI_RUNNING" /\ l.token = t

CanApply(l, event) == Legal(l.mode, event)

\* Fault: the token outlives the transition.
ApplyEventSameToken(l, event) == [l EXCEPT !.mode = NextMode(event), !.waiter = "none"]

\* applyEvent, for an event that is legal in l's mode.  The fresh token makes
\* every captured one stale.
ApplyEvent(l, event) ==
  [l EXCEPT !.mode = NextMode(event), !.token = NoTask, !.waiter = "none"]

\* getAiToken, kept by the worker of t for the step it is about to make.
CaptureToken(l, t) == [l EXCEPT !.token = t]

RegisterPendingAiAction(l, t) == [l EXCEPT !.pending = t]

\* Fault: input stops, but nothing drains the ownership.
FinishAiTaskUndrained(l) ==
  IF l.pending = NoTask THEN ApplyEvent(l, "TASK_FINISHED")
  ELSE [l EXCEPT !.mode = NextMode("PAUSE_TASK"), !.token = NoTask, !.waiter = "none"]

\* finishAiTask, called in AI_RUNNING or AI_PAUSED: the device is free at
\* once, or input stops now (AI_PAUSED, fresh token) and ownership drains
\* when the action settles.
FinishAiTask(l) ==
  IF l.pending = NoTask THEN ApplyEvent(l, "TASK_FINISHED")
  ELSE [l EXCEPT !.mode = NextMode("PAUSE_TASK"), !.token = NoTask,
                 !.waiter = "drain", !.drained = TRUE]

\* switchToAI throws while an action is still draining.
CanSwitchToAI(l) == l.pending = NoTask /\ CanApply(l, "SWITCH_TO_AI")

\* HUMAN -> HANDOFF -> AI_IDLE in one call.
SwitchToAI(l) == ApplyEvent(l, "HANDOFF_TO_AI_COMPLETE")

\* switchToHuman is a no-op in HUMAN, shares a live handoff, and throws where
\* SWITCH_TO_HUMAN is illegal.
CanSwitchToHuman(l) ==
  l.mode = "HUMAN" \/ l.waiter = "handoff" \/ CanApply(l, "SWITCH_TO_HUMAN")

\* switchToHuman up to its await: complete already when nothing is pending.
SwitchToHuman(l) ==
  IF l.mode = "HUMAN" \/ l.waiter = "handoff" THEN l
  ELSE IF l.pending = NoTask THEN ApplyEvent(l, "HANDOFF_TO_HUMAN_COMPLETE")
  ELSE [l EXCEPT !.mode = NextMode("SWITCH_TO_HUMAN"), !.token = NoTask,
                 !.waiter = "handoff"]

\* Fault: nobody waits on for the action after the timeout.
HandoffAbandoned(l) == [l EXCEPT !.mode = "ERROR", !.waiter = "none"]

\* The bounded wait ran out first: ERROR keeps ownership, token unchanged.
HandoffTimedOut(l) == [l EXCEPT !.mode = "ERROR", !.waiter = "recover"]

\* The event the waiting continuation applies once the action has settled.
ContinueWith(waiter) ==
  CASE waiter = "drain"   -> "TASK_FINISHED"
    [] waiter = "handoff" -> "HANDOFF_TO_HUMAN_COMPLETE"
    [] waiter = "recover" -> "RECOVER"

\* The pending action settled: it is cleared, and the continuation whose
\* token is still current, if any, does its transition.
Settle(l) ==
  LET cleared == [l EXCEPT !.pending = NoTask, !.drained = FALSE]
  IN IF l.waiter = "none" THEN cleared
     ELSE [l EXCEPT !.pending = NoTask, !.drained = FALSE, !.token = NoTask,
                    !.waiter = "none", !.mode = NextMode(ContinueWith(l.waiter))]

\* Never waits; an unsettled action stays registered.
EmergencyStop(l) == ApplyEvent(l, "EMERGENCY_STOP")

\* A direct set with a fresh token, from any mode.
MarkError(l) == [l EXCEPT !.mode = "ERROR", !.token = NoTask, !.waiter = "none"]

\* What the calls keep of a lease: a continuation that still counts waits in the
\* mode it will lead out of, and an idle AI device has no action in flight.
LeaseOK(l) ==
  /\ l.mode = "HANDOFF" <=> l.waiter = "handoff"
  /\ l.waiter = "drain" => l.mode = "AI_PAUSED"
  /\ l.waiter = "recover" => l.mode = "ERROR"
  /\ l.mode = "AI_IDLE" => l.pending = NoTask
=============================================================================
