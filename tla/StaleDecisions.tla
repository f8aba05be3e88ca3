-------------------------- MODULE StaleDecisions --------------------------
(***************************************************************************)
(* TaskQueue with a history variable: the tasks whose worker is carrying a *)
(* decision that was overtaken, because the task stopped running or its    *)
(* lease was renewed while the worker observed, planned or prepared.       *)
(***************************************************************************)
EXTENDS TaskQueue

VARIABLE overtaken

\* Some step took the task, or its lease, away from the deciding worker.
Overtakes(t) ==
  \/ task'[t].state # "RUNNING"
  \/ lease'[task[t].device].mode # "AI_RUNNING"

HInit == Init /\ overtaken = {}

HNext ==
  /\ Next
  /\ overtaken' = {t \in Tasks : /\ worker[t] \in {"plan", "detect"}
                                 /\ worker'[t] \in {"plan", "detect", "input"}
                                 /\ t \in overtaken \/ Overtakes(t)}

HSpec == HInit /\ [][HNext]_<<vars, overtaken>>

\* A decision overtaken by a pause, a stop or a restart is never carried
\* out, not even when the task has been resumed since: the runner takes a
\* fresh decision and "never reuse[s] the stale result" (researchTaskRunner).
StaleDecisionNeverSent == \A t \in overtaken : worker[t] # "input"
=============================================================================
