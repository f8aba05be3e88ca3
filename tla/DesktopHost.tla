------------------------------ MODULE DesktopHost ------------------------------
(***************************************************************************)
(* The desktop application that runs the server, or a site's agent, as its *)
(* child (desktop/main.js): launch, change of mode with a way back,        *)
(* restart of a child that stops, quit, and what the next launch does with *)
(* a child that an earlier session left behind (childrenStore.js,          *)
(* orphanRecovery.js).                                                     *)
(***************************************************************************)
EXTENDS Naturals, FiniteSets

CONSTANTS
  Slots,         \* process ids
  NoSlotUsed,    \* no process
  MaxBorn,       \* bound: processes, of the application and of others
  MaxAppRuns     \* bound: sessions of the application

ASSUME DesktopAssumption ==
  /\ NoSlotUsed \notin Slots /\ {MaxBorn, MaxAppRuns} \subseteq Nat /\ MaxAppRuns > 0

VARIABLES
  os,          \* process id -> the process that has it
  born,        \* processes started so far; a process's number is its start time
  childrenFile,        \* desktop-children.json: kind -> the process on record
  writing,     \* processes whose record() is reading their start time
  mode,        \* the mode in the configuration
  app,         \* "up", "quitting", "exited", "cut" (exited during a launch), "crashed"
  child,       \* serverProcess and agentProcess
  kept,      \* kinds of child that are restarted: hostServerWanted, agentWanted
  mark,        \* process -> its handle's supervised and intentionalStop
  timer,       \* kinds whose restart timer runs
  reviving,    \* a server whose restart waits for it to be ready
  flow,        \* the launch or change of mode under way
  quitting,    \* what quitting waits for
  appRuns, since  \* sessions so far, processes born before this one

desktopVars == <<os, born, childrenFile, writing, mode, app, child, kept, mark, timer, reviving,
                 flow, quitting, appRuns, since>>
Memory == <<child, kept, mark, timer, reviving, flow, quitting>>
Session == <<mode, app, appRuns, since>>

ChildKinds == {"server", "agent"}
AnySlot == Slots \cup {NoSlotUsed}

Vacant == [kind |-> "none", born |-> 0, told |-> FALSE, known |-> FALSE, raced |-> FALSE]
NotOnFile == [slot |-> NoSlotUsed, born |-> 0, verified |-> FALSE]
OsRecords == [slot : AnySlot, born : 0..MaxBorn, verified : BOOLEAN]
Unmarked == [supervised |-> FALSE, intended |-> FALSE]
IdleFlow == [at |-> "none", kind |-> "server", previous |-> "none", undo |-> FALSE,
             todo |-> {}, list |-> [k \in ChildKinds |-> NotOnFile], slot |-> NoSlotUsed]
NoQuit == [at |-> "none", cut |-> FALSE]

DesktopTypeOK ==
  /\ os \in [Slots -> [kind : ChildKinds \cup {"none", "foreign"}, born : 0..MaxBorn,
                       told : BOOLEAN, known : BOOLEAN, raced : BOOLEAN]]
  /\ born \in 0..MaxBorn /\ appRuns \in 1..MaxAppRuns /\ since \in 0..MaxBorn
  /\ childrenFile \in [ChildKinds -> OsRecords] /\ writing \subseteq Slots
  /\ mode \in ChildKinds \cup {"none"} /\ app \in {"up", "quitting", "exited", "cut", "crashed"}
  /\ child \in [ChildKinds -> AnySlot] /\ {kept, timer} \subseteq SUBSET ChildKinds
  /\ mark \in [Slots -> [supervised : BOOLEAN, intended : BOOLEAN]]
  /\ reviving \in AnySlot
  /\ flow.at \in {"none", "stopping", "recovering", "killing", "starting", "waiting", "undoing"}
  /\ flow.kind \in ChildKinds \cup {"client"} /\ flow.previous \in ChildKinds \cup {"none"}
  /\ flow.todo \subseteq ChildKinds /\ flow.undo \in BOOLEAN /\ flow.slot \in AnySlot
  /\ flow.list \in [ChildKinds -> OsRecords]
  /\ quitting \in [at : ChildKinds \cup {"none", "pending"}, cut : BOOLEAN]

ForgetMemory ==
  /\ child' = [k \in ChildKinds |-> NoSlotUsed] /\ kept' = {} /\ timer' = {}
  /\ mark' = [s \in Slots |-> Unmarked] /\ reviving' = NoSlotUsed /\ quitting' = NoQuit
  /\ writing' = {}

\* Started for the first time: no mode has been chosen.
DesktopInit ==
  /\ os = [s \in Slots |-> Vacant] /\ born = 0 /\ childrenFile = [k \in ChildKinds |-> NotOnFile]
  /\ writing = {} /\ mode = "none" /\ app = "up"
  /\ child = [k \in ChildKinds |-> NoSlotUsed] /\ kept = {} /\ timer = {}
  /\ mark = [s \in Slots |-> Unmarked] /\ reviving = NoSlotUsed /\ quitting = NoQuit
  /\ flow = IdleFlow /\ appRuns = 1 /\ since = 0

Running == app \in {"up", "quitting"}

----------------------------------------------------------------------------
(* Processes and their record.                                             *)

Present(s) == s # NoSlotUsed /\ os[s].kind # "none"

\* os with the processes in S told to stop (SIGTERM, later SIGKILL).
Told(S) == [s \in Slots |-> IF s \in S /\ Present(s) THEN [os[s] EXCEPT !.told = TRUE] ELSE os[s]]

\* Bound: an id is not used again while a launch or a restart waits for the child that had it, and
\* not for a child while the record of it is being looked at.
FreeIds == IF born = MaxBorn THEN {} ELSE {s \in Slots : os[s] = Vacant} \ {reviving, flow.slot}

\* The handle of a child that has not ended is marked "supervised" or "intended" to stop.
HandleMarked(s, how) == IF Present(s) THEN [mark EXCEPT ![s][how] = TRUE] ELSE mark

\* spawnChild and record(), which reads the start time and replaces a record() of the kind.  A
\* launch does not look again whether a restart was quicker: that child is lost sight of (raced).
Spawns(k, s) ==
  /\ s \in FreeIds /\ \A j \in ChildKinds : flow.list[j].slot # s
  /\ born' = born + 1
  /\ os' = [x \in Slots |->
              IF x = s THEN [Vacant EXCEPT !.kind = k, !.born = born + 1]
              ELSE IF x = child[k] THEN [os[x] EXCEPT !.raced = TRUE] ELSE os[x]]
  /\ child' = [child EXCEPT ![k] = s]
  /\ writing' = {w \in writing : os[w].kind # k} \cup {s}

\* The record is written; of a process that could not be described only its id.
PutOnFile(s) ==
  /\ Running /\ s \in writing /\ writing' = writing \ {s}
  /\ \E verified \in BOOLEAN :
       childrenFile' = [childrenFile EXCEPT ![os[s].kind] = [slot |-> s, born |-> os[s].born, verified |-> verified]]
  /\ os' = [os EXCEPT ![s].known = TRUE]
  /\ UNCHANGED <<born, Memory, Session>>

\* remove(): whatever it finds, a record() of the kind that is under way is given up.
Forgotten(k, s) ==
  /\ childrenFile' = IF childrenFile[k].slot = s THEN [childrenFile EXCEPT ![k] = NotOnFile] ELSE childrenFile
  /\ writing' = {w \in writing : os[w].kind # k}

\* scheduleHostServerRestart, scheduleAgentRestart: unless it stopped too often.
Schedules(k, wants, running) ==
  timer' \in IF k \in wants /\ running[k] = NoSlotUsed THEN {timer, timer \cup {k}} ELSE {timer}

\* A child ends: by itself, because it was told to, or by force.  Only the session that
\* started it hears of it; a child that was not stopped on purpose is restarted.
ProcessEnds(s) ==
  LET k == os[s].kind
      ours == Running /\ k \in ChildKinds /\ os[s].born > since
      current == ours /\ child[k] = s
      freed == IF current THEN [child EXCEPT ![k] = NoSlotUsed] ELSE child IN
  /\ Present(s) /\ os' = [os EXCEPT ![s] = Vacant] /\ child' = freed
  /\ IF ours THEN Forgotten(k, s) ELSE UNCHANGED <<childrenFile, writing>>
  /\ IF /\ ours /\ ~mark[s].intended
        /\ (k = "server" /\ mark[s].supervised) \/ (k = "agent" /\ current)
     THEN Schedules(k, kept, freed) ELSE UNCHANGED timer
  /\ mark' = [mark EXCEPT ![s] = Unmarked]
  /\ UNCHANGED <<born, kept, reviving, flow, quitting, Session>>

\* Another program gets an id (bound: one that is on record).
ForeignStarts(s) ==
  /\ \E k \in ChildKinds : s \in {childrenFile[k].slot, flow.list[k].slot}
  /\ s \in FreeIds /\ born' = born + 1
  /\ os' = [os EXCEPT ![s] = [Vacant EXCEPT !.kind = "foreign", !.born = born + 1]]
  /\ UNCHANGED <<childrenFile, writing, Memory, Session>>

----------------------------------------------------------------------------
(* Stops and restarts.                                                     *)

\* stopHostServer, stopSiteAgent: no restart, and the child is told.  What waits for it waits
\* until it has ended or, after it was killed, long enough.
Stops(k) ==
  /\ os' = Told({child[k]}) /\ kept' = kept \ {k} /\ timer' = timer \ {k}
  /\ child' = [child EXCEPT ![k] = NoSlotUsed]
  /\ mark' = HandleMarked(child[k], "intended")

\* The timer of a restart; it does not look for what is left of an earlier child.
RestartFires(k) ==
  /\ Running /\ k \in timer /\ timer' = timer \ {k}
  /\ IF k \in kept /\ child[k] = NoSlotUsed
     THEN \E s \in Slots :
            Spawns(k, s) /\ reviving' = IF k = "server" THEN s ELSE reviving
     ELSE UNCHANGED <<os, born, child, writing, reviving>>
  /\ UNCHANGED <<childrenFile, kept, mark, flow, quitting, Session>>

ServerRevived ==
  /\ Running /\ Present(reviving)
  /\ mark' = HandleMarked(reviving, "supervised") /\ reviving' = NoSlotUsed
  /\ UNCHANGED <<os, born, childrenFile, writing, child, kept, timer, flow, quitting, Session>>

\* It did not come back: it is told to stop, and the next try does not wait for it to end.
ServerDidNotRevive ==
  LET freed == IF child["server"] = reviving THEN [child EXCEPT !["server"] = NoSlotUsed]
               ELSE child IN
  /\ Running /\ reviving # NoSlotUsed /\ reviving' = NoSlotUsed
  /\ mark' = HandleMarked(reviving, "intended")
  /\ os' = Told({reviving})
  /\ child' = freed /\ Schedules("server", kept, freed)
  /\ UNCHANGED <<born, childrenFile, writing, kept, flow, quitting, Session>>

----------------------------------------------------------------------------
(* What an earlier session left (recoverOrphans).                          *)

\* Mutant: whoever has the id is taken for the process on record.
SamePid(r) == Present(r.slot)

SameProcess(r) == Present(r.slot) /\ os[r.slot].born = r.born

\* ensureNoOrphans: the records are read once.
Recovers(f) ==
  flow' = [f EXCEPT !.at = "recovering", !.list = childrenFile,
                    !.todo = {k \in ChildKinds : childrenFile[k] # NotOnFile}]

\* The record of kind k has been seen to.
Seen(k) ==
  flow' = [flow EXCEPT !.at = "recovering", !.list[k] = NotOnFile,
                       !.todo = {j \in ChildKinds \ {k} : flow.list[j] # NotOnFile}]

\* A launch that fails shows the setup window; a change stops what it has started and goes
\* back to the mode before.
FailedFlow ==
  IF flow.undo THEN [flow EXCEPT !.at = "undoing", !.todo = {}, !.list = IdleFlow.list, !.slot = NoSlotUsed]
  ELSE IdleFlow

\* A process that is gone, or is another one, is forgotten; one that is known to be ours is told
\* to stop; what cannot be seen, or was never described, stands in the way.
LookAt(k) ==
  LET r == flow.list[k] IN
  /\ Running /\ flow.at = "recovering" /\ k \in flow.todo
  /\ \/ /\ ~Present(r.slot) \/ (r.verified /\ ~SameProcess(r))
        /\ Forgotten(k, r.slot) /\ Seen(k) /\ UNCHANGED os
     \/ /\ r.verified /\ SameProcess(r)
        /\ os' = Told({r.slot}) /\ flow' = [flow EXCEPT !.at = "killing", !.todo = {k}]
        /\ UNCHANGED <<childrenFile, writing>>
     \/ flow' = FailedFlow /\ UNCHANGED <<os, childrenFile, writing>>
  /\ UNCHANGED <<born, child, kept, mark, timer, reviving, quitting, Session>>

\* It has ended, though its id may be another's already; or it is still there in the end.
OrphanEnds ==
  \E k \in flow.todo :
    /\ Running /\ flow.at = "killing"
    /\ \/ ~SameProcess(flow.list[k]) /\ Forgotten(k, flow.list[k].slot) /\ Seen(k)
       \/ flow' = FailedFlow /\ UNCHANGED <<childrenFile, writing>>
    /\ UNCHANGED <<os, born, child, kept, mark, timer, reviving, quitting, Session>>

----------------------------------------------------------------------------
(* Launches and changes of mode.                                           *)

\* launch(), also when the icon is clicked and no window is open.
LaunchMode ==
  /\ app = "up" /\ flow.at = "none" /\ mode # "none"
  /\ IF mode = "server" /\ child["server"] # NoSlotUsed THEN UNCHANGED flow
     ELSE Recovers([IdleFlow EXCEPT !.kind = mode])
  /\ UNCHANGED <<os, born, childrenFile, writing, child, kept, mark, timer, reviving, quitting, Session>>

Active == IF child["server"] # NoSlotUsed \/ "server" \in kept THEN "server"
          ELSE IF child["agent"] # NoSlotUsed \/ "agent" \in kept THEN "agent" ELSE "none"

\* transitionTo: everything else is stopped first.
ChangesMode(k) ==
  /\ app = "up" /\ flow.at = "none" /\ Active # k
  /\ flow' = [IdleFlow EXCEPT !.at = "stopping", !.kind = k, !.previous = Active, !.undo = TRUE,
                              !.todo = ChildKinds \ {k}]
  /\ UNCHANGED <<os, born, childrenFile, writing, child, kept, mark, timer, reviving, quitting, Session>>

StopsForChange ==
  LET k == IF "server" \in flow.todo THEN "server" ELSE "agent" IN
  /\ Running /\ flow.at = "stopping" /\ flow.todo # {} /\ Stops(k)
  /\ flow' = [flow EXCEPT !.todo = @ \ {k}]
  /\ UNCHANGED <<born, childrenFile, writing, reviving, quitting, Session>>

\* start(): a window to another hub, or a child of ours.
StartForChange ==
  /\ Running /\ flow.at = "stopping" /\ flow.todo = {}
  /\ IF flow.kind = "client"
     THEN \/ flow' = IdleFlow /\ mode' = "none"
          \/ flow' = FailedFlow /\ UNCHANGED mode
     ELSE Recovers(flow) /\ UNCHANGED mode
  /\ UNCHANGED <<os, born, childrenFile, writing, child, kept, mark, timer, reviving, quitting,
                 app, appRuns, since>>

\* Nothing is left in the way: the child is spawned, unless the prerequisites are missing.
StartChild ==
  LET k == flow.kind IN
  /\ Running /\ flow.at = "recovering" /\ flow.todo = {}
  /\ \/ /\ k = "server" \/ child[k] = NoSlotUsed
        /\ \E s \in Slots :
             /\ Spawns(k, s)
             /\ flow' = IF k = "server" \/ flow.undo
                        THEN [flow EXCEPT !.at = "waiting", !.slot = s] ELSE IdleFlow
        /\ kept' = IF k = "agent" THEN kept \cup {k} ELSE kept
     \/ /\ k = "agent" /\ child[k] # NoSlotUsed
        /\ flow' = IF flow.undo THEN [flow EXCEPT !.at = "waiting", !.slot = child[k]] ELSE IdleFlow
        /\ UNCHANGED <<os, born, writing, child, kept>>
     \/ flow' = FailedFlow /\ UNCHANGED <<os, born, writing, child, kept>>
  /\ UNCHANGED <<childrenFile, mark, timer, reviving, quitting, Session>>

\* The server answers, the hub accepts the agent.
ChildReady ==
  LET k == flow.kind IN
  /\ Running /\ flow.at = "waiting" /\ Present(flow.slot)
  /\ mark' = IF k = "server" THEN HandleMarked(flow.slot, "supervised") ELSE mark
  /\ kept' = kept \cup (IF k = "server" THEN {k} ELSE {})
  /\ mode' \in IF k = "agent" THEN {k} ELSE {k, mode}  \* a host is saved when it has an administrator
  /\ flow' = IdleFlow
  /\ UNCHANGED <<os, born, childrenFile, writing, child, timer, reviving, quitting, app, appRuns, since>>

\* It does not answer in time: a server is told to stop, an agent is stopped by the way back.
ChildNotReady ==
  LET s == flow.slot IN
  /\ Running /\ flow.at = "waiting" /\ flow' = FailedFlow
  /\ IF flow.kind = "server"
     THEN /\ os' = Told({s}) /\ mark' = HandleMarked(s, "intended")
          /\ child' = IF child["server"] = s THEN [child EXCEPT !["server"] = NoSlotUsed] ELSE child
     ELSE UNCHANGED <<os, mark, child>>
  /\ UNCHANGED <<born, childrenFile, writing, kept, timer, reviving, quitting, Session>>

\* The way back: the target's child is stopped, then restoreTopology starts what was there.
UndoChange ==
  /\ Running /\ flow.at = "undoing"
  /\ IF flow.kind \in ChildKinds THEN Stops(flow.kind) ELSE UNCHANGED <<os, kept, timer, child, mark>>
  /\ flow' = [flow EXCEPT !.at = "starting", !.undo = FALSE]
  /\ UNCHANGED <<born, childrenFile, writing, reviving, quitting, Session>>

Restore ==
  /\ Running /\ flow.at = "starting"
  /\ \/ /\ flow.previous = "server"
        /\ IF child["server"] # NoSlotUsed THEN flow' = IdleFlow
           ELSE Recovers([IdleFlow EXCEPT !.kind = "server", !.previous = "server"])
        /\ UNCHANGED <<os, born, writing, child, kept>>
     \/ /\ flow.previous = "agent" /\ child["agent"] = NoSlotUsed /\ flow' = IdleFlow
        /\ \E s \in Slots : Spawns("agent", s)
        /\ kept' = kept \cup {"agent"}
     \/ /\ flow.previous = "none" \/ (flow.previous = "agent" /\ child["agent"] # NoSlotUsed)
        /\ flow' = IdleFlow /\ UNCHANGED <<os, born, writing, child, kept>>
  /\ UNCHANGED <<childrenFile, mark, timer, reviving, quitting, Session>>

\* desktop:stop-site-agent.
StopAgent ==
  /\ app = "up" /\ Stops("agent") /\ mode' = IF mode = "agent" THEN "none" ELSE mode
  /\ UNCHANGED <<born, childrenFile, writing, reviving, flow, quitting, app, appRuns, since>>

----------------------------------------------------------------------------
(* The end of a session and the next one.                                  *)

\* A change of mode is under way, or its way back.
Changing == flow.undo \/ flow.previous # "none" \/ flow.at = "starting"

\* before-quit.  A launch that is under way is not waited for.
Quit ==
  /\ app = "up" /\ app' = "quitting" /\ kept' = kept \ {"server"}
  /\ quitting' = [NoQuit EXCEPT !.at = "pending", !.cut = flow.at # "none" /\ ~Changing]
  /\ UNCHANGED <<os, born, childrenFile, writing, child, mark, timer, reviving, flow, mode, appRuns, since>>

\* Mutant: the change under way is not waited for.
MayStopAtOnce == TRUE
MayStop == ~Changing

\* stopAll: after the change of mode that is under way the server, then the agent; a stop with
\* nothing to wait for is over at once.
ToStop == CASE quitting.at = "pending" -> IF MayStop THEN ChildKinds ELSE {}
            [] quitting.at = "server" -> {"agent"}
            [] OTHER -> {}

QuitStops(k) ==
  /\ quitting.at # "none" /\ k \in ToStop /\ child[k] # NoSlotUsed
  /\ k = "agent" /\ "server" \in ToStop => child["server"] = NoSlotUsed
  /\ os' = Told({child[k]}) /\ mark' = HandleMarked(child[k], "intended")
  /\ child' = [child EXCEPT ![k] = NoSlotUsed]
  /\ kept' = kept \ {"server", k} /\ timer' = timer \ {"server", k}
  /\ quitting' = [quitting EXCEPT !.at = k]
  /\ UNCHANGED <<born, childrenFile, writing, reviving, flow, Session>>

Exit ==
  /\ quitting.at # "none"
  /\ quitting.at = "pending" => MayStop
  /\ \A k \in ToStop : child[k] = NoSlotUsed
  /\ app' = (IF quitting.cut THEN "cut" ELSE "exited") /\ ForgetMemory /\ flow' = IdleFlow
  /\ UNCHANGED <<os, born, childrenFile, mode, appRuns, since>>

\* A crash or a force-quit: the children live on.
AppCrash ==
  /\ Running /\ app' = "crashed" /\ ForgetMemory /\ flow' = IdleFlow
  /\ UNCHANGED <<os, born, childrenFile, mode, appRuns, since>>

NextSession ==
  /\ ~Running /\ appRuns < MaxAppRuns /\ appRuns' = appRuns + 1
  /\ app' = "up" /\ since' = born
  /\ UNCHANGED <<os, born, childrenFile, writing, Memory, mode>>

DesktopNext ==
  \/ \E s \in Slots : PutOnFile(s) \/ ProcessEnds(s) \/ ForeignStarts(s)
  \/ \E k \in ChildKinds : RestartFires(k) \/ LookAt(k) \/ QuitStops(k)
  \/ \E k \in ChildKinds \cup {"client"} : ChangesMode(k)
  \/ ServerRevived \/ ServerDidNotRevive \/ OrphanEnds
  \/ LaunchMode \/ StopsForChange \/ StartForChange \/ StartChild \/ ChildReady \/ ChildNotReady
  \/ UndoChange \/ Restore \/ StopAgent
  \/ Quit \/ Exit \/ AppCrash \/ NextSession

DesktopSpec == DesktopInit /\ [][DesktopNext]_desktopVars

----------------------------------------------------------------------------
\* "Two Bodun servers fighting over the same phones must never happen": of two children of a
\* kind one was told to stop, was lost before it could be recorded, or is a restart's that
\* a launch has lost sight of.
OneChild ==
  \A s, t \in Slots :
    s # t /\ os[s].kind = os[t].kind /\ os[s].kind \in ChildKinds
    => \E x \in {s, t} : os[x].told \/ ~os[x].known \/ os[x].raced

\* "Only a PROVABLY Bodun process is ever signalled", though its id was given to another.
OnlyOursSignalled == \A s \in Slots : os[s].kind = "foreign" => ~os[s].told

\* A session that was quit leaves no child that was not told to stop, whatever launch, change
\* of mode or restart was under way (a launch that overtakes a restart apart).
QuitLeavesNothing ==
  app = "exited" => \A s \in Slots :
    os[s].kind \in ChildKinds /\ os[s].born > since => os[s].told \/ os[s].raced

ChildrenAreOurs == OneChild /\ OnlyOursSignalled /\ QuitLeavesNothing
=============================================================================
