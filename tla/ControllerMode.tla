-------------------------- MODULE ControllerMode --------------------------
(***************************************************************************)
(* The per-device controller-mode machine (system/server/src/              *)
(* controllerMode.js): which mode a device may move to on which event.     *)
(* It keeps no state; DeviceLease applies it to the devices' leases.       *)
(*                                                                         *)
(* The code lists the transitions by mode.  In every row where an event    *)
(* occurs it leads to the same mode, so the table is given here by event:  *)
(* the modes it is legal in, and the mode it leads to.                     *)
(***************************************************************************)

\* The six controller modes of a device.
Modes == {"HUMAN", "AI_IDLE", "AI_RUNNING", "AI_PAUSED", "HANDOFF", "ERROR"}

\* The modes whose row lists the event.
Sources(event) ==
  CASE event = "SWITCH_TO_AI"              -> {"HUMAN"}
    [] event = "HANDOFF_TO_AI_COMPLETE"    -> {"HANDOFF"}
    [] event = "HANDOFF_TO_HUMAN_COMPLETE" -> {"HANDOFF"}
    [] event = "START_TASK"                -> {"AI_IDLE"}
    [] event = "PAUSE_TASK"                -> {"AI_RUNNING"}
    [] event = "RESUME_TASK"               -> {"AI_PAUSED"}
    [] event = "TASK_FINISHED"             -> {"AI_RUNNING", "AI_PAUSED"}
    [] event = "SWITCH_TO_HUMAN"           -> {"AI_IDLE", "AI_RUNNING", "AI_PAUSED"}
    [] event = "RECOVER"                   -> {"ERROR"}
    [] event = "FAULT"                     -> Modes \ {"ERROR"}
    [] event = "EMERGENCY_STOP"            -> Modes

\* Whether nextMode returns a mode; it returns null otherwise, and
\* applyEvent then throws.
Legal(mode, event) == mode \in Sources(event)

\* The mode a legal event leads to.
NextMode(event) ==
  CASE event = "SWITCH_TO_AI"              -> "HANDOFF"
    [] event = "HANDOFF_TO_AI_COMPLETE"    -> "AI_IDLE"
    [] event = "HANDOFF_TO_HUMAN_COMPLETE" -> "HUMAN"
    [] event = "START_TASK"                -> "AI_RUNNING"
    [] event = "PAUSE_TASK"                -> "AI_PAUSED"
    [] event = "RESUME_TASK"               -> "AI_RUNNING"
    [] event = "TASK_FINISHED"             -> "AI_IDLE"
    [] event = "SWITCH_TO_HUMAN"           -> "HANDOFF"
    [] event = "RECOVER"                   -> "HUMAN"
    [] event = "FAULT"                     -> "ERROR"
    [] event = "EMERGENCY_STOP"            -> "HUMAN"
=============================================================================
