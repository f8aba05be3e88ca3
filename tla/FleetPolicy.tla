---------------------------- MODULE FleetPolicy ----------------------------
(***************************************************************************)
(* The fleet policy (system/server/src/fleetPolicy.js): a pure decision    *)
(* whether a research task may start on a device, given the tasks that     *)
(* are RUNNING at this moment.  It keeps no bookkeeping of its own.        *)
(* The hourly spend budget, a number fed from outside the queue, is not    *)
(* modelled.                                                               *)
(***************************************************************************)
EXTENDS FiniteSets, Naturals

CONSTANTS
  Research,        \* the tasks of kind "research"
  AccountOf,       \* research task -> the account it operates
  SignedInOn,      \* account with affinity -> the device it is signed in on
  WorkspaceOf,     \* account -> workspace
  ProviderOf,      \* research task -> model provider
  WorkspaceLimit,  \* accounts of one workspace active at once
  ProviderLimit,   \* workers calling one provider at once
  MaxWorkers       \* AI workers in total

\* Fault: who already operates the account is not asked.
FleetAllowsSharing(t, d, running) ==
  t \in Research =>
    /\ AccountOf[t] \in DOMAIN SignedInOn => SignedInOn[AccountOf[t]] = d
    /\ Cardinality((running \cap Research) \ {t}) < MaxWorkers

\* decide(task, deviceId).allow, where running is the set of RUNNING tasks.
\* Work of another kind is never held back.
FleetAllows(t, d, running) ==
  t \in Research =>
    LET others    == (running \cap Research) \ {t}
        account   == AccountOf[t]
        colleague == {o \in others : WorkspaceOf[AccountOf[o]] = WorkspaceOf[account]}
        rival     == {o \in others : ProviderOf[o] = ProviderOf[t]}
    IN /\ account \in DOMAIN SignedInOn => SignedInOn[account] = d
       /\ \A o \in others : AccountOf[o] # account
       /\ Cardinality(colleague) < WorkspaceLimit
       /\ Cardinality(rival) < ProviderLimit
       /\ Cardinality(others) < MaxWorkers
=============================================================================
