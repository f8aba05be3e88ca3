---------------------------- MODULE MCTaskQueue ----------------------------
(***************************************************************************)
(* Instances of TaskQueue for TLC.                                         *)
(***************************************************************************)
EXTENDS TaskQueueInvariant, TLC

CONSTANTS t1, t2, d1, d2,  \* tasks and devices
          a1, w1, p1       \* an account, a workspace, a model provider

Plain == [device |-> NoDevice, allowed |-> Devices, deps |-> {}, early |-> FALSE,
          late |-> FALSE, overrun |-> FALSE, timed |-> FALSE, maxRetries |-> 0,
          backoff |-> FALSE, priority |-> "normal"]

\* Two tasks of the same kind with nothing special about them.
PlainInput == [t \in Tasks |-> Plain]

\* Every task has a duration limit and may be retried once.
RetryInput == [t \in Tasks |-> [Plain EXCEPT !.timed = TRUE, !.maxRetries = 1]]

\* t1 has a window's end, a duration limit and a retry after a backoff; t2
\* waits for its window to open, may overrun its end, and is pinned to d1.
TimedInput ==
  (t1 :> [Plain EXCEPT !.late = TRUE, !.timed = TRUE, !.maxRetries = 1, !.backoff = TRUE]) @@
  (t2 :> [Plain EXCEPT !.early = TRUE, !.late = TRUE, !.overrun = TRUE, !.device = d1])

\* t1 waits for its window to open and has a retry after a backoff; t2 runs
\* after t1 has succeeded, and before its window closes.
ChainedInput ==
  (t1 :> [Plain EXCEPT !.early = TRUE, !.maxRetries = 1, !.backoff = TRUE]) @@
  (t2 :> [Plain EXCEPT !.deps = {t1}, !.late = TRUE])

Everywhere == Tasks \X Devices
AllIdle == [d \in Configured |-> "idle"]

\* Accounts, providers and workspaces without limits that bite.
SharedAccount == [t \in Research |-> a1]
OneAccountEach == [t \in Research |-> t]
NoAffinity == <<>>
OneWorkspace == [a \in Tasks \cup {a1} |-> w1]
OneProvider == [t \in Research |-> p1]

\* Tasks with equal inputs and the devices are interchangeable.
Symmetry == Permutations(Tasks) \cup Permutations(Devices)
=============================================================================
