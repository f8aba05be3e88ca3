------------------------- MODULE ProcessSupervisor -------------------------
(***************************************************************************)
(* The supervised child processes of a phone (system/server/src/           *)
(* processSupervisor.js, both managers' options) with the durable record   *)
(* of which processes Bodun started (processOwnershipStore.js) and the     *)
(* look at the operating system that stands between the two.               *)
(*                                                                         *)
(* One supervised key is one record; every method runs to completion, so   *)
(* each is an operator from a record to the record it leaves behind, or to *)
(* the set of those where the disk or the operating system decides.  The   *)
(* caller composes them: deviceProvisioner.js stops and starts a key in    *)
(* one stretch.                                                            *)
(*                                                                         *)
(* A process is known by pid and start time together, so a number stands   *)
(* for one process; it is given out again once nothing remembers it.       *)
(***************************************************************************)
EXTENDS Naturals, FiniteSets, FiniteSetsExt

CONSTANTS
  Pids,              \* process identities of one key, positive numbers
  RecordMayFail,     \* whether writing the ownership record may fail
  LookupMayFail,     \* whether a process's start time may stay unknown
  SlowLookups        \* whether looking it up may outlast a stop that times out

ASSUME SupervisorAssumption ==
  /\ Pids \subseteq Nat \ {0} /\ Pids # {}
  /\ {RecordMayFail, LookupMayFail, SlowLookups} \subseteq BOOLEAN

NoPid == 0
PidOrNone == Pids \cup {NoPid}

\* state      what getStatus says of the key's entry; "stopped" is no entry
\* child      the entry's process
\* stopping   the process whose exit pendingStops waits for
\* forced     it has been sent SIGKILL
\* waiting    the newest generation is a start queued behind that stop
\* blocked    blockedStops has the key
\* recording  the process whose record waits for its start time
\* known      the process of the ownership record in the store's cache
\* verified   that record has a start time
\* saved      the process of the record in the file
\* trusted    that one has a start time
\* children   live processes this server started
\* orphans    live processes an earlier run of the server started
Supervised ==
  [state : {"stopped", "running", "restarting"}, child : PidOrNone,
   stopping : PidOrNone, forced : BOOLEAN,
   waiting : BOOLEAN, blocked : BOOLEAN, recording : PidOrNone,
   known : PidOrNone, verified : BOOLEAN, saved : PidOrNone, trusted : BOOLEAN,
   children : SUBSET Pids, orphans : SUBSET Pids]

\* An entry has a process just when it runs; a start is queued, and SIGKILL
\* sent, only while a stop is pending.
Consistent(s) ==
  /\ (s.state = "running") = (s.child # NoPid)
  /\ s.waiting \/ s.forced => s.stopping # NoPid
  /\ {s.child, s.stopping} \ {NoPid} \subseteq s.children

Fresh == [state |-> "stopped", child |-> NoPid, stopping |-> NoPid,
          forced |-> FALSE, waiting |-> FALSE, blocked |-> FALSE, recording |-> NoPid,
          known |-> NoPid, verified |-> FALSE, saved |-> NoPid, trusted |-> FALSE,
          children |-> {}, orphans |-> {}]

Alive(s) == s.children \cup s.orphans
Unused(s) == Pids \ (Alive(s) \cup {s.known, s.saved, s.recording})

\* isRunning: there is an entry.  (With retryIndefinitely, which both managers
\* set, an entry is only ever stopped as it is deleted.)
IsRunning(s) == s.state # "stopped"

\* What getStatus says.
Status(s) == IF s.blocked THEN "stop_failed" ELSE s.state

\* _processFailed for the current entry: another attempt is scheduled.  How
\* many there were decides only how long it waits: both managers retry with
\* the last delay for ever.
ProcessFailed(s) == [s EXCEPT !.child = NoPid, !.state = "restarting"]

\* _spawnNow for the current entry: the process runs and its record waits for
\* its start time (a record under way for an older one is given up), or it
\* could not be started at all.
SpawnNow(s) ==
  {ProcessFailed(s)} \cup
  (IF Unused(s) = {} THEN {}
   ELSE LET p == Min(Unused(s))
        IN {[s EXCEPT !.child = p, !.state = "running", !.recording = p,
                      !.children = @ \cup {p}]})

\* The launch closure of start.
Launch(s) == SpawnNow([s EXCEPT !.waiting = FALSE, !.state = "restarting"])

\* Fault: a start does not wait for the pending stop.
StartAtOnce(s) == IF s.blocked \/ IsRunning(s) THEN {s} ELSE Launch(s)

\* start.
Start(s) ==
  IF s.blocked \/ IsRunning(s) THEN {s}
  ELSE IF s.stopping # NoPid THEN {[s EXCEPT !.waiting = TRUE]}
  ELSE Launch(s)

\* What start returns.
StartResult(s) ==
  IF s.blocked THEN "blocked"
  ELSE IF IsRunning(s) THEN "running"
  ELSE IF s.stopping # NoPid THEN "queued" ELSE "started"

\* stop: the queued start is invalidated, the entry and its timers are gone,
\* and its process, if it has one, has been asked to terminate.
Stop(s) ==
  [s EXCEPT !.waiting = FALSE, !.state = "stopped", !.child = NoPid,
            !.stopping = IF s.child # NoPid THEN s.child ELSE @,
            !.forced = IF s.child # NoPid THEN FALSE ELSE @]

\* What the promise stop returned resolves to, once Settled: not ok only if
\* the stop was never confirmed.
Settled(s) == s.stopping = NoPid
StopOk(s) == ~s.blocked

\* Removing the record: from the cache, and from the file unless writing fails.
Forget(s) ==
  LET gone == [s EXCEPT !.known = NoPid, !.verified = FALSE, !.recording = NoPid]
  IN {[gone EXCEPT !.saved = NoPid, !.trusted = FALSE]}
     \cup (IF RecordMayFail THEN {gone} ELSE {})

\* release({pid: p}): only the record that still describes p is removed.  A
\* record that is still being looked up is given up, unless the store has one
\* of another process.
Release(s, p) ==
  IF s.known = NoPid THEN {[s EXCEPT !.recording = NoPid]}
  ELSE IF s.known # p THEN {s}
  ELSE Forget(s)

\* record() has its start time, or has given up asking.  When the record
\* cannot be written the process it describes is not supervised any further:
\* it is sent a signal, and a replacement stays blocked.
FailClosed(s, p) ==
  IF s.child # p THEN s
  ELSE [s EXCEPT !.state = "stopped", !.child = NoPid, !.blocked = TRUE]
Recorded(s) ==
  UNION {LET p == s.recording
             kept == [s EXCEPT !.known = p, !.verified = v, !.recording = NoPid]
         IN {[kept EXCEPT !.saved = p, !.trusted = v]}
            \cup (IF RecordMayFail THEN {FailClosed(kept, p)} ELSE {})
         : v \in (IF LookupMayFail THEN BOOLEAN ELSE {TRUE})}

\* The 'exit' event of a child: its record goes; the entry it belongs to
\* restarts it; the stop that waits for it is over and the start queued
\* behind that stop, if it is still the newest, is launched.
Exited(s, p) ==
  UNION {IF r.child = p THEN {ProcessFailed(r)}
         ELSE IF r.stopping = p
           THEN LET done == [r EXCEPT !.stopping = NoPid, !.forced = FALSE]
                IN IF done.waiting THEN Launch(done) ELSE {done}
         ELSE {r}
         : r \in Release([s EXCEPT !.children = @ \ {p}], p)}

\* The two timers of a stop: SIGKILL after the grace period, and giving up.
ForceKill(s) == [s EXCEPT !.forced = TRUE]

\* Fault: a start stays queued behind a stop that timed out.
GiveUpKeepingQueued(s) ==
  {[s EXCEPT !.stopping = NoPid, !.forced = FALSE, !.blocked = TRUE]}

GiveUp(s) ==
  {[s EXCEPT !.stopping = NoPid, !.forced = FALSE, !.waiting = FALSE, !.blocked = TRUE]}

\* confirmGone: no record, or the recorded process is gone (or its pid is
\* another's).
ConfirmGone(s) == s.known = NoPid \/ s.known \notin Alive(s)

\* clearBlockedStop, once the old process is proven gone.
Unblocked(s) ==
  IF s.known = NoPid THEN {[s EXCEPT !.blocked = FALSE, !.recording = NoPid]}
  ELSE Forget([s EXCEPT !.blocked = FALSE])

\* The server dies: its children live on as orphans, and the next one reads
\* the file.
Crashed(s) ==
  [Fresh EXCEPT !.known = s.saved, !.verified = s.trusted, !.saved = s.saved,
                !.trusted = s.trusted, !.orphans = Alive(s)]

\* Processes reclaim() or the sweep may signal: the one a verified record
\* describes.
Provable(s) == IF s.verified THEN {s.known} \cap Alive(s) ELSE {}
=============================================================================
