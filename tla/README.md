# A verification project for the PF phone-farm control plane

PF runs a farm of phones that are operated either by a person (a VA working in a
web console) or by an AI worker that takes tasks from a queue. The central promise
is in the repository's README: *"There must never be two simultaneous input owners
for one device."* The core modules model the part of the server that keeps it: the
task queue, the input leases, the workers and the claims of people. Around them are
modules for the services that keep phones reachable, routed, assigned and accounted
for, for the desktop application that runs the server, and for the operator's page.
TLC checks each of them on small instances, and TLAPS proves the safety properties
for every value of the constants.

All paths below are relative to the repository; `S/` stands for
`system/server/src/`.

## 1. Inventory

The server is one Node.js process. It runs a handler without interruption up to
its next `await`; concurrency is between handlers at their awaits, timers, calls
to phones that take seconds, WebSocket connections that close at any moment, and a
process that can die between any two writes. State lives in in-memory maps, with
snapshots in files or Postgres.

### Core: who may send input to a phone

| Component | State | Operations | What makes it correct |
|---|---|---|---|
| Controller mode (`S/controllerMode.js`) | none (a table) | `nextMode` | a device is in one of six modes and moves only along the table |
| Device lease (`S/deviceLease.js`) | per device: mode, token, pending action | `switchToAI`, `switchToHuman`, `startTask`, `pauseTask`, `resumeTask`, `finishAiTask`, `emergencyStop`, `markError`, `registerPendingAiAction` | a stale token never acts; a handoff waits for the action in flight; a late settlement cannot undo what an operator did meanwhile |
| Task spec (`S/taskSpec.js`) | a task's record | `createTaskSpec`, `isWindowOpen`, `hasWindowExpired`, `hasExecutionExpired` | validated inputs; an expired task neither starts nor acts |
| Task queue and scheduler (`S/taskQueue.js`, `S/schedulerGuard.js`) | tasks in order, `humanHolds`, `queuePaused` | add, cancel, pause, resume, stop, takeover, emergency stop, move, priority, tick, dispatch, report, checkpoint | queue, lease and snapshot agree; one active task per phone; a held phone is left alone; nothing starts early, late or twice |
| Queue snapshot (`S/persistence/taskQueueSnapshotRepository.js`, file and Postgres repositories) | the durable queue | `load`, `save`, `normalizeQueueSnapshot` | a crash is charged to the task's retries; paused ownership survives; a final state stays final |
| Fleet policy (`S/fleetPolicy.js`) | none | `decide` | one worker per account, limits per workspace, provider and fleet |
| Research worker and runner (`S/researchTaskRunner.js`, `S/researchWorker.js`) | `active` launches, the step in hand | `launch`, `runTaskBody`, `runResearchStep` | a stale decision is never carried out; a running task has a worker |
| Platform skill (`S/platformSkill.js`, `S/platformSkillRegistry.js`) | none | `executeSkillAction` | no input before the permission is checked again |
| Human control (`S/index.js`, WebSocket handlers) | claims, sessions, actions in flight | `select_device`, `tap`/`swipe`/..., `release_device`, `switch_to_ai`/`switch_to_human`, close, revocation | a phone is given away only when the last human action has settled |
| Session and approval helpers (`S/researchSession.js`, `S/approvalStore.js`, `S/commentGuard.js`, `S/stateToggle.js`, `S/interventionQueue.js`) | budgets, approvals, the ledger of comments, interventions | `grant`, `consume`, `reserve`, `confirm` | an approval is used once; a comment is not posted twice |

They interact as follows. An operator's order reaches the queue over HTTP or the
WebSocket; the queue changes the task, the lease (same process, a plain call) and
the snapshot (synchronous save) in one stretch. `dispatched` is emitted
synchronously; the research runner launches a worker in the same call, whose first
stretch may already report a result and so dispatch again, recursively. A worker
awaits phone and model, and after each await asks the queue and the lease whether it
still owns the task. A person claims a phone over the WebSocket, which sets the
device's `status` and is refused while the lease is not in `HUMAN`.

### Around the core

| Component | Files in `S/` | State and operations | Correct when |
|---|---|---|---|
| Process supervision | `processSupervisor.js`, `wdaProcessManager.js`, `iproxyManager.js`, `processOwnershipStore.js`, `portReclaimer.js` | per name: child, pending stop, waiting start, restart timer, ownership record; start, stop, restart, reclaim | one process per name; a backoff restart does not race a stop; only our own processes are reclaimed |
| Device provisioning | `deviceProvisioner.js`, `deviceProvisioningStore.js` | runtime map, saved intent, lifecycle queue, poll; attach, detach, start, stop, recover | no process is doubled, lost or left behind; a shutdown and a detach end |
| Port allocation | `portAllocator.js` | reservations | no port belongs to two devices |
| Device drivers | `wdaDevice.js`, `mockDevice.js`, `remoteDevice.js` | readiness, component health, status; probes, process events, operator stops | what the host believes of a phone was said by the processes it has now |
| Site link | `siteLink.js`, `siteAgent.js`, `siteStore.js` | connections, generations, pending calls, streams; connect, replace, call, rotate, delete | what the hub keeps of a site belongs to the link it has now |
| Network routing | `networkRoutingOrchestrator.js`, `tunManager.js`, `pfRuleGenerator.js`, `routingQuarantineStore.js` | routes, tunnels, anchor, host state; start, stop, health check, recovery, quarantine | nothing leaves a host in quarantine; the barrier is lifted only when all is stopped |
| Network enrollment | `networkEnrollmentLock.js`, `autoNetworkEnrollment.js`, `usbNetworkStore.js` | pairing of phone and interface | a pairing rests on evidence that still holds |
| Proxy pool and verification | `proxyPool.js`, `networkVerifier.js` | leases, evidence of protection | a phone that counts as protected leaves by an address of its own |
| Cloud accounts | `cloudApi/`, `services/`, the identity repositories in `db/repositories/` | people, memberships, invitations, tokens, factors, sessions; each request is a sequence of statements | access rests on what is valid now; an invitation and a token are used once |
| Database repositories | `db/repositories/`, `syncCache.js` | approvals, interventions, proxies, assignments, sites, mail, policies as rows; a transaction per call | what a call was told stays true; final rows stay final |
| Research records | `researchStore.js`, `db/repositories/postgresResearchRunRepository.js`, `scripts/migrate-research-to-postgres.js` (beside `S/`) | runs, finds, reviews and the index of posts of an account, as one document | a review sticks to its post |
| Assignments | `assignmentStore.js`, `presenceStore.js` | who works on what, when | nobody is booked twice; closed work stays closed |
| Accounts and sessions | `authStore.js`, `fileSessionStore.js`, `twoFactor.js` | accounts, versions, sessions, tombstones | an administrator remains; a destroyed session is never served |
| Privacy and notification | `privacyRequestStore.js`, `privacyDeletionProcessor.js`, `accountNotificationStore.js`, `notificationOutbox.js` | requests, claims, checkpoints, mails | a removal is real and done once; a mail follows its decision and is not repeated |
| Live view | `streamHub.js`, `mjpegParser.js` | viewers of one source | slow viewers do not hold up others |
| Files | `filePushOrchestrator.js`, `filePushLinkStore.js`, `mediaUploadQuota.js`, `fileStore.js` | links, quota | a link is used once; quota reservations balance |
| Start and stop | `shutdown.js`, `db/startupCoordinator.js`, `hostPreflight.js` | none | migrations run once; shutdown is ordered |
| Desktop application | `desktop/main.js`, `childrenStore.js`, `orphanRecovery.js` | children, mode, restart timers, the file of children | two servers never fight over the phones; only our processes are signalled; quit leaves nothing |
| Web client | `system/client/app.js`, `phoneStage.js` | what the page controls, watches and shows | who can touch sees the phone he touches |

`PROJECT.json` lists each of them with what is modelled or why it is not.

### What is hard here

* A handoff waits for an action that may never settle, and the settlement may come
  after the timeout, an emergency stop or a new task.
* A settlement continues in a microtask queued by a promise; what it finds was
  decided at the time it was queued.
* `tryDispatch` iterates over a device list while the dispatches it makes start
  workers that report and dispatch again.
* Memory, lease and snapshot are changed one after the other with a save that may
  throw in between; each operation chooses a different order.
* The process dies between two saves, and the phone it was driving goes on.
* People claim phones through a field (`status`) that the queue only reads.
* A right, a route, a readiness or a pairing is read before an await and used after it,
  while somebody else withdraws it.
* A ruleset, an answer, a picture or a mail that was made earlier arrives later than the
  one that replaced it.
* A transaction reads, decides and writes without a lock; another commits in between.
* Processes outlive the server that started them, and their ids are given out again.

The hazards are listed one by one, with the properties that would catch them, in
`PROJECT.json`.

## 2. Modules

| Module | Models | Uses |
|---|---|---|
| `ControllerMode` | the transition table | |
| `DeviceLease` | one lease as a record, one operator per call | `ControllerMode` |
| `FleetPolicy` | the policy as a predicate of the running tasks | |
| `TaskQueue` | queue, snapshot, leases, workers, claims and time as one state machine | `DeviceLease`, `FleetPolicy` |
| `TaskQueueInvariant` | the inductive invariant `IInv` | `TaskQueue` |
| `StaleDecisions` | `TaskQueue` with a history variable: whose decision was overtaken | `TaskQueue` |
| `ExclusiveInput` | the abstract promise: input on a phone has one owner at a time | |
| `HumanControl` | claims, inputs, frames, closing and revocation over the WebSocket, beside the AI side of the leases | `DeviceLease`; implements `ExclusiveInput` |
| `ProcessSupervisor` | one supervised process as a record, one operator per method | |
| `Provisioning` | the setup of one phone over its two supervised processes | `ProcessSupervisor` |
| `PhoneDriver` | what the host believes of one phone | |
| `NetworkRouting` | routes, tunnels, the packet filter's anchor, the emergency quarantine | |
| `NetworkEnrollment` | which USB interface belongs to which phone | |
| `PhoneEgress` | proxies, their leases and the evidence of protection | |
| `SiteLink` | the hub and the agent of one site | |
| `SessionStore` | one session in the store of files | |
| `Accounts` | accounts, roles, sessions' versions, decisions and their mails | |
| `NotificationOutbox` | what becomes of a mail that was let go | |
| `AccountDeletion` | one account's deletion, category by category | |
| `Assignments` | who works on what, and when | |
| `DesktopHost` | the desktop application and its children, over sessions and crashes | |
| `OperatorConsole` | the operator's page and the server's end of its WebSocket | |
| `PlatformActions` | likes and comments of one account: approvals, the ledger and its keys, the steps of several workers | |
| `CloudIdentity` | requests of the cloud API on people, memberships, invitations, tokens and sessions | |
| `SharedTables` | the stores with a version in PostgreSQL, call by call | |
| `ResearchRecords` | what research found for one account, in the file, in the table and on the way between | |
| `MCTaskQueue`, `MCStaleDecisions`, `MCHumanControl`, `MCServices` | instances for TLC | |
| `LeaseProofs`, `TaskQueueProofs`, `StaleDecisionsProofs`, `HumanControlProofs`, `NetworkProofs`, `AccountProofs`, `ServiceProofs`, `ConsoleProofs` | the theorems (section 4) | what they are about |

`TaskQueue` sees people as the queue does: a phone's status turns `in-use` and back
(`ClaimDevice`, `ReleaseDevice` in one step each). `HumanControl` opens those steps
and sees the queue as a person does: as calls that move a lease. Both use the same
`DeviceLease`, so a call means the same on either side.

### How `TaskQueue` corresponds to the code

| Variable | In the code |
|---|---|
| `task` | the `tasks` array's records: state, pinned device, priority, `retryCount`, whether a checkpoint exists |
| `order` | the array's order |
| `paused`, `holds` | `queuePaused`, `humanHolds` |
| `disk` | what `repository.save` stored last |
| `lease` | `deviceLease`'s registry; promises that wait on it are the lease's `waiter` |
| `status`, `attached` | `device.status`; the `devices` map's keys |
| `worker` | where the runner's launch for a task is between two awaits |
| `sweep` | the rest of the list `tryDispatch` iterates over |
| `clock` | what the wall clock has done to a task's window, limit and backoff |

*Atomicity.* A stretch of code between two awaits is one action, except where its
inside matters. `tryDispatch` saves per dispatch, so a crash can fall between two of
them: each device offered is a step of its own, and until the sweep is over (`Quiet`)
only the sweep, the workers it launched and `Restart` can take steps. A launched
worker runs its first stretch before the sweep goes on, and the sweep of a report
made there replaces what is left of the outer one: it computes its list from the same
state, and every device the outer list still had and the inner one has not is not
free, so `START_TASK` on it throws and is swallowed, as it does in the code.

*Tokens.* `deviceLease` compares fresh symbols. Only two questions are asked of
them (is the token this worker captured still current; is the token this waiting
continuation captured still current), so the lease records whose answer is yes and
forgets it whenever the code renews the token.

*Settlement.* `Settle` clears the pending action and runs the one continuation
whose token is current; the others find their token stale and do nothing.

*Saves.* A call that saves before it changes memory has no effect when the save
fails. Those that change memory first (dispatch, stop, takeover, emergency stop,
report, tick after add) have a branch for the failing save with exactly what the
code leaves behind. `DiskMayFail` switches these branches.

*Time.* Wall-clock comparisons become the facts they can establish: a window is
early, open or closed; a duration limit has run out; a backoff is still running.

Left out of `TaskQueue`: approvals and the comment ledger, which `PlatformActions` has (here a
refusal by policy is one of the outcomes of a step), the research budget's arithmetic (a session may end at
the top of any iteration), evidence capture, audit records, the spend budget of the
fleet policy, deletion of account data, and the authorization checks in front of the
handlers (`Permitted` fixes their result per task and phone).

### How `HumanControl` corresponds to the code

| Variable | In the code (`S/index.js`) |
|---|---|
| `alive` | the connections whose socket is open; `validateSession`, awaited by every handler, fails behind a close |
| `access` | the phones the session's operator may control at this moment |
| `selected`, `owner`, `status` | the handler's `selected`, `humanOwners`, `device.status` |
| `at`, `target` | where the connection's message handler waits, and for which phone |
| `current`, `liveCurrent` | whether the `selectionGeneration` that handler, or that live frame, captured is still equal |
| `live` | the phone whose live frame is being rendered beside the message handler |
| `ready` | the control path and the network route of a phone |
| `lease`, `held` | the lease registry, `humanHolds` |
| `failures` | the phone's consecutive failures, on which `OFFLINE_AFTER_FAILURES` acts |

A connection's messages are handled one after the other (`actionQueue`), so a
handler is a program counter `at`: `claim` and `takeover` wait for the session or the
handoff, `prepare` for the phone's session, `sent` for the phone's answer, `frame` and
`refresh` for its screen. An action is what runs from one of these awaits to the
next. Only `refresh_live_frame` runs beside them. `selectedAccessActive` asks for the
session and not for the socket: a socket that a browser closed keeps its authority
until its handlers have ended, which is why `Close` leaves `access` alone or empties
it (a session that was invalidated). The close handler waits for the message in hand
(`CloseSettles`).

Devices of other sites (`Remote`) differ in what their driver does with a late answer:
it asks for authorization again after a successful answer only.

Left out: watching without control, live video and audio, which never send input;
rate limits; the contents of inputs.

### How the services correspond to the code

Each service is a module with its own state. Three conventions hold in all of them: an
action is the stretch of code between two awaits (awaits that follow each other with
nothing changed in between are one); a write that may fail has a branch with exactly what
the code leaves behind; and a counter whose name starts with `Max` bounds what
would go on forever (people's requests, crashes, time), never what the code does
about it.

*`ProcessSupervisor` and `Provisioning`.* `sup[kind]` is the supervisor's entry of
xcodebuild or iproxy with the ownership record on disk and the children the operating
system has; `poll` and `op` are where the discovery poll and the serialized lifecycle
operation are; `on`, `enabled` and `intent` are the runtime map, the entry's
`wdaEnabled` and the saved `lifecycleIntent`. `Foreigners` hold the phone or the port at
times. Left out: one phone's ports beside another's, the counters of restarts and of
port recoveries (their exhaustion is a choice), the diagnosis of a failure.
A process is known by id and start time together, as in `processOwnershipStore.js`.

*`PhoneDriver`.* `process` is what the operating system has, `component` and `control`
are `componentHealth`, `readiness` and `startup` those of `wdaDevice.js`, `probes` the
status requests on their way; a request carries a mark for the generation it was asked
in. When the grace for starting ends is a choice.

*`PlatformActions`.* `approval` is the state of an action's latest request, found by its
fingerprint, `ledger` what `CommentLedger` holds within the window, each with its file. Several
workers (`Doers`) act for the account at a time: a resumed task is not held back by the others of
its account (finding 1). `actStep` is where each worker's step waits: `plan` up to the model's
decision, `act` up to the press, `check` up to the look at the result; a toggle that is plainly as
it was is pressed a second time (`maxAttempts`). A decision names a post by its id or its address
(`Targets`); the ledger keeps a comment under the `contentKey` of that moment (`KeyOf`), which is
the address once the record has one. `RecordChanges` is `mergeCandidate` filling it in, or
`locateCandidate` finding another run's record first. `granted`, `taken` and `posted` are history;
`loose` counts steps that left their approval as it was, `shared` those that went ahead while
another step was at the action under the same approval. Left out: the similarity of wordings (two
texts are alike or not), rates, and where a control is found.

*`NetworkRouting`.* `route` is the entry of `routes`, `at` where each of a phone's jobs
waits, `plan` the ruleset a job is about to load, `anchor` what the packet filter has for
each phone, `host` the state in `routingQuarantineStore.js`. `RouteFaults` names what
may go wrong. The four awaits of one load are one; a load that is under way when the host is
blocked may or may not reach the anchor. Left out: a quarantine file that cannot be
written together with its marker, the repair of an unreadable state, the retry of an
unreachable protection.

*`NetworkEnrollment`* has the lock's entries (`enrolling`), the store of pairings (`usb`), the
requests of operators (`clerk`) and the loop's tick; *`PhoneEgress`* the leases (`lease`), the
setting (`switchedOn`), the evidence (`trust`) with its generation (`turn`), and the checks
under way (`probe`). An entry's owner, its cooldown, and the age of evidence are left out.

*`SiteLink`.* Each WebSocket is a link with two ends that open and close on their own and
a queue each way (`toAgent`, `toHub`); `table` is `connections`; `reading` is the message
whose authorization is awaited; `call` says on which link a call went.

*`SessionStore`* has the file, the mark of destruction in the directory and in memory, and
writers and readers between their callbacks.

*`Accounts`* has the file of accounts, who has a session for the current version, the
decisions under way (`review`) and the mails put by for them (`notice`);
*`NotificationOutbox`* a mail's entry and the deliveries under way; *`AccountDeletion`* the
lock on the account, the record of the request, and the removals under way. They model
the repositories that are files. Managers, grants, throttles and secrets are left out.

*`Assignments`* has the board, the staff and the rename under way, in hours, with days of
one length. A save that fails changes nothing.

*`DesktopHost`* has the operating system's processes (`os`), the file of children
(`childrenFile`), the handles of this session (`child`, `mark`, `timer`, `reviving`), and
the launch, change of mode or quit under way. It is more serial than `main.js` in four
places. One launch or change runs at a time. A change of mode begins only while the
application is up: the handlers do not ask whether it is shutting down. A failed write of
the children file, which `childrenStore.js:96` swallows, is left out. The look at an
orphan's identity and its signal are one step, and the second look before the group's
SIGKILL (`orphanRecovery.js:63`) is part of it.

*`OperatorConsole`* has the page (`page`, `stage`), the server's end (`seat`) and the two
queues between them. Decoding is immediate and at most one stream frame is on its way;
screenshot polling, gestures and the AI workspace are left out.

*`CloudIdentity`.* `web` says for each request under way how far it is and what it has read, the
password that a sign-in verified among it; `signedIn` is the table of sessions that still count, each
with the password it was opened `under`; `standing` and `manages` are memberships and their roles. A
transaction that checks again what it changes, and that nothing added beside it escapes
(`markAccepted`), is one step; `issueToken` and the reset are two. A reset writes (`ResetWrites`: the
token, the password, and `ending` on the sessions that its statement finds) and commits
(`ResetCommits`); in between it holds the token, the account and those sessions, others see what was
there, and a session that is inserted is not found: its foreign key takes a lock that the update of
the password does not exclude. A request that ends is rolled back. `confirmTotp` is given any
method, not only the caller's. One organization, founded at the start; `admitted`, `spent`, `cut`,
`crossed` and `raced` are history: `raced` is the password that a reset was setting while a sign-in
went on, and a session keeps it as `late`.

*`SharedTables`.* A behaviour is one of a single table, with the calls of its repository:
`query` is what a call that has read and decided will write (`Command`), `row` what is committed.
With `serial` it is the version in a file, which does the same without an await. `told` is
whom the callers believe to have a row, or the map of `syncCache.js`; `overtaken` says
that something was written on a reading that no longer allowed it. Row locks are not
modelled beyond `SKIP LOCKED`: at READ COMMITTED they order two updates of a row and keep
neither of them from being made. Times are choices; providers, texts and the audit trail are left out.

*`ResearchRecords`.* `filed` and `stored` are the document of one account and one platform,
`saving` the transactions between `loadData` and `saveData`. The two tables of the index are one
function of keys. `past` is what callers were told; `lapped` that a save, a migration or the
cutover replaced a document that had changed meanwhile. A run begins with one find at most (more of
them act as `appendCandidate` does), and finds come without actions.

## 3. Runs

| Run | Instance | Asks |
|---|---|---|
| `one_device` | 2 tasks with windows, limit, retry and backoff, 1 phone, saves fail | nobody acts beside another (`OneActor`: queue and lease agree, one active task, actions in flight registered and never behind a person, held phones idle); records survive (`RecordsAreSound`: what runs is on disk, retries bounded, the array lists each task once); final states stay final; input only while granted; a start only when due; a decision overtaken by anything is never carried out (`StaleDecisionNeverSent`) |
| `two_devices` | 2 research tasks of one account, 2 phones | `IInv`; no start exceeds the fleet's limits |
| `liveness` | 1 research task, 1 phone, every operator order | a running task has a worker; a handoff reaches HUMAN and a drained phone does not stay paused (`LeaseComesBack`) |
| `chaining` | a task that waits for its window and is retried, and its dependent, 1 phone and one that joins late, no operators | the queue is served |
| `people` | 2 connections, 1 phone, access and control paths are revoked | the three records of a claim agree (`ClaimsAgree`); a claim is never stolen, nor lost to an old result; no input of a person under AI; under fairness a closed connection gives its phone up |
| `exclusive_input` | 2 connections, 2 phones, nothing revoked | `HumanControl` implements `ExclusiveInput`; claims and selections agree (`SelectionOwnsDevice`) |
| `provisioning` | 1 phone, 2 process identities, a foreign holder, failing saves, a crash | no process is doubled, lost, forgotten or left behind (`ProcessesAreKept`); a shutdown and a detach end (`LifecycleCompletes`) |
| `services` | the other services, one per behaviour | one property for each service, below |
| `shared_account`, `stopped_restarts`, `stale_ruleset`, `routed_proxy` | one each | the four findings below |

The `services` run puts independent modules side by side: `part` is chosen at the start,
the others rest in their initial states, so the states of the run are the sum and not
the product of theirs. Its properties:

| Property | Of | Says |
|---|---|---|
| `QuarantinedIsSilent`, `LiftedOnlyWhenSafe` | `NetworkRouting` | in quarantine no tunnel runs, not even one whose start was under way; the barrier is lifted only with everything confirmed stopped and the bridge up |
| `PairingIsCurrent` | `NetworkEnrollment` | what a request or a tick records rests on evidence nothing has overtaken (`CommitIsCurrent`), and nothing changes during a quarantine (`IdentityIsFrozen`) |
| `EgressIsOwn` | `PhoneEgress` | a phone that counts as protected was seen at its own proxy's address, which no other protected phone shares |
| `SiteIsCurrent` | `SiteLink` | authorization, phones, waiting calls and streams are of the link the hub has now |
| `DestroyedIsGone` | `SessionStore` | a destroyed session is never served again |
| `AdministratorRemains`, `MailFollowsDecision` | `Accounts` | an administrator remains; a mail is let go with its decision only |
| `NoNeedlessMail` | `NotificationOutbox` | a mail leaves once, but for what is named |
| `ErasureIsReal` | `AccountDeletion` | one worker removes, once, and what is recorded is true |
| `BoardIsHonest` | `Assignments` | nobody is booked twice (but for the two cases named there), begun work is due, closed work stays closed |
| `BeliefIsFounded` | `PhoneDriver` | an open control path was confirmed by the processes the phone has; an idle phone is usable |
| `ChildrenAreOurs` | `DesktopHost` | no two children of a kind fight, only ours are signalled, quit leaves none |
| `SeenOnce` | `PlatformActions` | a human's yes is good for one action, but for steps that were cut off before it could be used up or went ahead beside another one under it; one comment under a content key, one of a wording, whichever workers post them |
| `ConsoleIsTrue` | `OperatorConsole` | who can touch sees the phone he touches; page and server agree when nothing is on its way |
| `AccessIsCurrent` | `CloudIdentity` | a session rests on the password that is there, or met the reset that replaced its own; an invitation makes one member, a token sets one password; members were invited; a manager remains, but for one case; a second factor comes with its codes, but for a request that was cut off |
| `PromisesKept` | `SharedTables` | the versions in files and the mail never write on a stale reading; until a call does, final rows are final, no two rows clash and who was told that a row is theirs has it; a phone has one lease whatever happens |
| `ReviewsStick` | `ResearchRecords` | the keys of a post lead to one entry; a review, a noted action and a finished run stay, always in the file, and in the table until a document that had changed is replaced |

*Why these bounds are enough.* Every conflict the core can have is between two
owners of one phone (two tasks, or a task and a person), between two phones of one
sweep, or between memory and the snapshot: two tasks and two phones give all of
them, and one retry gives the case that is retried and the one that is not. No
counter needs a bound besides: `retries` is bounded by `maxRetries`, the array by the
number of tasks. In `two_devices` the tasks share an account, so that the policy has
something to refuse; both run at once all the same, through a resume (finding 1).

In `HumanControl` a conflict is between two connections, or a connection and the AI, on
one phone, or between the old and the new phone of one connection: hence two
connections with one phone, with everything that can be revoked, and two with two
phones. `OfflineAfter` is 3 in the code; 2 already tells a failure that counts from one
that takes the phone offline, and 1 is used where only that matters. `Revocations`
switches the withdrawal of access and of control paths: `exclusive_input` is stated
without it, since with it the promise fails (section 5, observations).

In the services a conflict is between two requests, a request and a loop, or a call and
its late answer: two of each, with two to four of the events that people, phones and
networks cause. Three events in a row (a request, what overtakes it, and what follows)
are what a stale decision takes; `Max...` constants are chosen so that each module has
them. `RouteFaults` leaves out a bridge that cannot be shut down, which halves the
largest part and is covered by the theorems, proved for every set of faults;
`FailureThreshold` is 3 in the code, and 2 tells a first failure from the last.
`MaxProbes` = 2 lets a request that was sent before a restart be answered beside one of
the processes the phone has now; `MaxMoves` = 6 is what it takes to complete one deletion
and to begin a second. Two rows and two connections give every conflict of the tables: two calls on
one row, and two rows that must not be there together; four calls let two of them meet after two
have set the scene. One id and two addresses let two entries of the index become one, and the review
of one give way to that of the other; four calls are what that takes (two finds, a review, a find
with both keys), two of them transactions in the table. Two founders, somebody to invite and somebody
whose sign-up was cut off are the four kinds of people of `CloudIdentity`; two requests at a time
are what a sign-in beside a reset takes, and three calls are the reset's link, the reset and the
sign-in. Two workers and one post, by its id and its address, let both find one approval or comment
under both keys.

Symmetry is used where the connections and phones are equal and no liveness is checked.

*Deadlock* is checked in the runs of the core. `provisioning`, `services` and three of
the findings' runs say `CHECK_DEADLOCK FALSE`: there the system may really stop, after a
shutdown or a quit, or when the bounded events have all happened.

*Fairness.* `FairSpec` asks that the scheduler's interval fires (`SF(Tick)`: it
waits for the stretch in progress), that a sweep goes on, that a handoff's timer
fires, and that a worker takes its next step: a call to a phone or a model carries a
timeout (`S/wdaDevice.js`, `S/modelProvider.js`), so each await ends. It is strong
fairness because a handler that is due may be held up by other handlers' stretches but
not forever. A session ends at some time because its budget does (`SF(EndSession)`,
`S/researchSession.js`). Nothing is assumed of operators, people, phones or restarts;
`chaining` alone assumes that windows open and backoffs end, which is the passage of time;
it is strong because they do so between two stretches. `HumanControl`'s fairness is weak:
a handler that waits for a phone is answered or times out, a closed connection's last
handler runs when the message in hand is done, the handoff's timer fires. `Provisioning`
asks that its own awaits end (each probe and each wait for a process has a timeout in the
code), that a kill that is due is sent and that its wait ends; nothing of operators or
of processes that resist. The services state no liveness.

Each property has a mutant, a plausible bug in the operator it depends on
(`\* Fault:`, `\* A slip:` or `\* Mutant:` in the modules), under which TLC finds the property violated.

## 4. Proofs

TLC checks a small instance; TLAPS proves a theorem for every value of the constants: any
number of tasks, phones, connections, people, processes and messages, any bound on what goes
wrong. Each component has one inductive invariant, found by strengthening the property until
every step keeps it; TLC checked the harder ones on small instances before they were proved.

| Module | Proves about | Uses |
|---|---|---|
| `LeaseProofs` | lemmas: what each call makes of a lease | `DeviceLease` |
| `TaskQueueProofs` | the queue: who may act on a phone; records, starts and inputs | `TaskQueueInvariant`, `LeaseProofs` |
| `StaleDecisionsProofs` | the queue: decisions that were overtaken | `StaleDecisions`, `TaskQueueProofs` |
| `HumanControlProofs` | claims and inputs of people; the refinement | `HumanControl`, `LeaseProofs` |
| `NetworkProofs` | routes, addresses, enrollment, setup of a phone | `NetworkRouting`, `PhoneEgress`, `NetworkEnrollment`, `Provisioning` |
| `AccountProofs` | accounts, mails, deletion, sessions, the cloud's accounts, research records | `Accounts`, `NotificationOutbox`, `AccountDeletion`, `SessionStore`, `CloudIdentity`, `ResearchRecords` |
| `ServiceProofs` | drivers, sites, assignments, the desktop application, likes and comments, shared tables | `PhoneDriver`, `SiteLink`, `Assignments`, `DesktopHost`, `PlatformActions`, `SharedTables` |
| `ConsoleProofs` | the page of an operator beside the server | `OperatorConsole` |

### What is proved

| Theorem | States | For |
|---|---|---|
| `Invariance` | `IInv` | every queue with `Configured = Devices` |
| `OneActorPerPhone` and its parts | `OneActor`: queue, lease, worker and holds agree about who acts on a phone | the same |
| `RecordsStaySound`, `FinalStatesAreFinal` | `RecordsAreSound`, `FinalStaysFinal` | the same |
| `EveryRunHasAWorker` | `RunningHasWorker` | the same |
| `StartsAreDue`, `StartsAreWithinLimits` | `StartsOnlyWhenDue`, `StartsWithinLimits` | the same |
| `InputIsGranted`, `StaleDecisionsAreDropped` | `InputOnlyWhenGranted`, `StaleDecisionNeverSent` | the same |
| `PeopleTypeCorrectness`, `SelectionsOwnTheirPhones` | `TypeOK`, `SelectionOwnsDevice` | every set of connections and phones, with or without revocations |
| `ClaimsStayRespected` | `ClaimsAreRespected` (`ClaimNeverStolen`, `ClaimKeptWhileEntitled`) | the same |
| `NoInputWhileAIHasThePhone` | `NoInputUnderAI` | the same |
| `ClaimsStayInAgreement` | `ClaimsAgree` | phones of this site (`Remote = {}`) |
| `InputHasOneOwner` | `InputIsExclusive`: `HumanControl` implements `ExclusiveInput` | no revocations |
| `QuarantineSilence`, `SafeLifting` | `QuarantinedIsSilent`, `LiftedOnlyWhenSafe` | every set of faults |
| `ProtectedEgressIsOwn` | `EgressIsOwn` | any phones, proxies and checks |
| `PairingsAreCurrent` | `PairingIsCurrent` | any phones, interfaces and requests |
| `ProvisioningTypeCorrectness`, `ProcessesStayKept` | `ProvTypeOK`, `ProcessesAreKept` | `SlowLookups = FALSE` |
| `AnAdministratorRemains`, `MailsFollowDecisions` | `AdministratorRemains`, `MailFollowsDecision` | any people and decisions |
| `MailsAreNotRepeated` | `NoNeedlessMail` | any mails and deliveries |
| `RecordedErasuresAreReal` | `ErasureIsReal` | any requests and removals |
| `DestroyedSessionsAreGone` | `DestroyedIsGone` | any writers and readers |
| `BeliefsAreFounded` | `BeliefIsFounded` | any threshold and number of probes |
| `SitesAreCurrent` | `SiteIsCurrent` | any links, viewers and calls |
| `BoardsAreHonest` | `BoardIsHonest` | any people, phones and work |
| `ChildrenStayOurs` | `ChildrenAreOurs` | any processes and sessions |
| `ActsAreSeenOnce` | `SeenOnce` (`ApprovedOnce`, `OneComment`) | any workers, posts, wordings, gated kinds and numbers of failures; a post with two keys may get two comments, and `loose` and `shared` exempt what they count |
| `ConsolesAreTrue` | `ConsoleIsTrue` | any phones and messages on their way |
| `AccessStaysCurrent` | `AccessIsCurrent` | any people, invitations, tokens and requests; sessions whose sign-in went on beside a reset, managers' decisions that `crossed` and confirmations that were `cut` are exempted |
| `TablesKeepPromises` | `PromisesKept` | any rows, subjects, holders and connections |
| `ReviewsKeepSticking` | `ReviewsStick` | any posts, runs, finds and transactions |

Beside them stand the invariance theorems they rest on (`RecordsInvariance`,
`PeopleInvariance`, `BarrierInvariance`, ..., one per component).

### From which assumptions

The constants' named assumptions say what the code takes for granted: that nobody is not a
connection, that limits are numbers. Four theorems or groups of them ask for more.

* `Configured = Devices`: every phone is in the configuration. Without it a restart forgets the
  ownership of a paused task whose phone joins later (section 5, observations).
* `Remote = {}` for `ClaimsAgree`: when a phone of another site gives no picture, the error is
  reported without asking whether its connection still has it (section 5, observations), and the
  phone may go offline under somebody else's claim.
* `~Revocations` for the refinement: a withdrawal of access frees a phone at once, with or without
  an input in flight (section 5, observations), and the promise fails.
* `SlowLookups = FALSE` for the setup of a phone: looking up the start time of a process (three
  attempts 100 ms apart) does not outlast a stop (up to seven seconds). The runs check the
  instance with the same value.

### Along which argument

*The queue.* None of the properties is inductive alone. A dispatch uses a device list taken
earlier, so `DeviceOK` says that what is left of a sweep is neither held nor claimed; that it is
also free is decided again by `START_TASK`, which is legal only in modes in which no task is active
(`TaskOK`). A late settlement changes the mode of a phone, so `LeaseOK` ties each continuation that
still counts to the mode it leads out of, and `TaskOK` excludes one from the lease of a paused task.
A worker goes on acting for a task that was taken from it, so `WorkerOK` keeps its action registered,
and `TaskOK` keeps anyone else's action off the lease of an active task: a new task starts only when
nothing is pending. A restart rebuilds ownership from the snapshot, so `QueueOK` is required of both
copies. The proof has one lemma per call on a lease, one for `reportResult`, one for `tick`, one for
operator orders that cancel the holder, and one step per action. `RecordsOK`, proved beside `IInv`,
adds what is on disk: a running task is running there, a final state there is the one in memory, and
a sweep offers each phone once. The action properties follow from both: a start comes from the sweep
or from a worker's report, which decide due time, dependencies and limits again at that moment.
For overtaken decisions the history variable is tied to the token that the worker captured: whatever
overtakes a decision renews it (`Calm` says which calls do not), and only the capture gives one.

*People.* `SelectionOwnsDevice` is inductive with `HandlersOK`: a handler that waits for a phone has
selected that phone or none. `Kept` is what most actions do to the claims, so that each needs one line.
The refinement maps an owner of input to whoever has an action registered in the lease or a request on
its way; a step that ends one input and starts the next is never both, since a person's input begins
only in `HUMAN` with nothing pending.

*Network.* Whoever may say that the host is silent has an account of every tunnel: what a quarantine
or a recovery has still to stop is on its list (`QuarantineCovers`, `RecoveryCovers`), and behind
the barrier a tunnel that is off stays off. A phone's evidence is of its present route, and two
phones known to be behind one address leave by one proxy, or one of them has none (`Apart`). A request to enroll carries a number, and
whatever outdates its evidence takes that number away (`ClerkOK`). A process of a phone is the
entry's, or being stopped, or blocks the port, and is on file or about to be (`KeyOK`); leftovers of
an earlier server are looked at before anything starts.

*Accounts.* Of two decisions that overlap the later one finds the administrators as they are by then,
and whoever takes a role away remains an administrator himself. A mail that left is paid for by its
one claim or by a lapse (`MailsPaid`). A removal has to do what is not recorded yet, and holds its
request alone (`RemovalsOK`). A session's mark counts for longer than anything that could bring the
session back: the file, what is being written and what is being read.

*Services.* An answer that counts came from the processes there are, because each start and end
outdates the others. On a site's link the last message about a viewer decides whether there is a
stream (`StreamsFollow`), and a call waits only on the link the hub has now. Assignments that overlap
did so before, or were moved by one sweep, or by a rename. A child of this session is the one
remembered and on file, or about to be; what is on file besides is an earlier session's. An approval
that can still be used, from memory, from the file or by the step that holds it, leaves room for one
more (`Budget`); what was posted, or is about to be, is in the ledger on disk (`LedgerSound`).

*Cloud accounts.* A request that is past a check may find the opposite when it writes, so the
invariant says of a request only what nothing can take from it (`RequestsSound`): its person has a
password, its manager the role; and of what is committed, that an invitation that admitted
somebody is marked accepted and a token that set a password is marked consumed (`UseIsMarked`),
which is what `markAccepted` and `consume` look at when they write.

*Shared tables.* `CallsFit` says what a call of each kind writes, `RowsFit` which states a table has
and that a row belongs to nobody before it was given; `SerialIsSafe` that a call that runs alone still
finds what it has read. As long as nothing was overtaken a call therefore writes what it was allowed
to, and the promises follow call by call. That a phone has one lease rests on the unique index alone.

*Research records.* In each document, the file's, the table's and those that transactions will save,
keys that lead to an entry agree with the entry's own keys (`IndexOK`), which `Upserted` keeps by
leading every key that shares one to the new entry; and a transaction that is not stale will save
what stands (`Stands`), with what its caller will have been told.

*The page of an operator.* The page forgets a phone before the server hears of it, so agreement at
rest needs an account of every message on its way. Three parts carry it. The picture (`ShowInv`): the
number of a stream belongs to one phone, and behind the picture that follows a claim there is video of
that phone only, or of a stream that is announced later. What the server holds (`HeldInv`): a phone
that was not given up is asked for once, its claim being on its way, served or answered (`ClaimInv`);
what is held was held when each message was sent, or is wanted since; and it is known to the page, or
its release is on its way. What the page shows (`ShownInv`): a phone that is waited for is asked for,
fetched or told of; a phone that is controlled or watched is held, or the message that says otherwise
is on its way; the last word on watching is what the page shows. The third part is claimed only while
no phone is given up without a word (`page.lost = {}`), for such a phone can be answered after all; so
is the agreement that `ConsoleIsTrue` states, but for the picture.

### What stays with TLC

Liveness (`LeaseComesBack`, `QueueIsServed`, `ClosedConnectionFreesPhone`,
`LifecycleCompletes`): the prover does not reason about fairness and `ENABLED`.
`ServicesTypeOK` is the conjunction of the services' type invariants; those that the proofs need are
part of the inductive invariants above, and the whole is only checked. The four runs that find a
violation are counterexamples, for which one instance is enough. The arithmetic of time is that of the models:
what is proved of an hour or a moment is proved of a natural number.

## 5. Findings

1. `shared_account`: resuming a paused task never asks the fleet policy, which
   counts running tasks only. Pause a task, let another of the same account start on a
   second phone, resume the first: two workers operate one account, which
   `S/fleetPolicy.js:8` rules out.
2. `stopped_restarts`: an attach, or an endpoint recovery, reads the saved intent before
   its probes and starts the processes after them without asking again; an operator's
   stop that ran meanwhile is undone (`S/deviceProvisioner.js:668`).
3. `stale_ruleset`: a ruleset is made when an apply is called and loaded four awaits
   later, and applies of two phones are not ordered: the older one can be loaded last and
   take the block of a phone whose route was lost out of the packet filter
   (`S/networkRoutingOrchestrator.js:325`).
4. `routed_proxy`: the proxy pool's routes are given the orchestrator by value before it
   is created, so the check that a phone has a route never refuses, and the proxy of a
   route that is up can be leased to another phone (`S/index.js:2897`).

### Observations without a run of their own

Core. Ownership of a paused task is rebuilt for phones that are in the map when the
queue loads; one that joins later is dispatched to another task while the first is still
paused on it (`S/taskQueue.js:69`): this is why the proofs assume that every phone is
in the configuration. A WDA phone is constructed `offline`, and with a paused task on it
`createTaskQueue` throws at start. `releaseUnauthorizedSelection` (`S/index.js:4157`) frees
a phone at once when access is withdrawn, whether or not an input is in flight. When the
screenshot after an action fails, `sendFrame` takes the phone offline without asking whether
its connection still has it (`S/index.js:4292`), which for a phone of another site nothing else
asks either. An approval is consumed after the action was verified, so a pause in between
leaves it approved (`S/researchWorker.js:199`; the `loose` steps of `PlatformActions`); two resumed
workers of one account can both find it (`S/actionPolicy.js:75`) before either uses it up
(`S/researchWorker.js:206`), although `S/approvalStore.js:5` calls it single-use (`shared`); a post that was
commented under its id gets a second comment once its record has an address, as does one with two
addresses, although `S/commentGuard.js:5` rules out a second comment on the same content, because
the ledger goes by the key of the moment (`S/researchWorker.js:151`); a task that
waits for a human cannot be resumed, though `S/index.js:3386` says that the action runs when it is; intervention items stay open when a task is
cancelled or finished (`S/interventionQueue.js:96` says they close).

Phones. A process that dies while a person has the phone makes the phone `idle` though its
control path is not ready, and the queue may use it for the rest of the grace. A probe
answered while an operator's stop waits makes the phone ready again after the stop.

Network. Automatic enrollment ignores the enrollment lock, a quick replug between two ticks
pairs the wrong interface, and `discover-ip` reads the interface before its authorization.
`DeterministicProxyProvider` picks an exit before an await and takes it after.

Accounts. A rename moves references store by store, and a crash in between leaves some to a
name that does not exist; an approval re-activates an account that is locked for deletion; one
reviewer's abort of a mail shared with another loses the other's; an account locked for
deletion can be left without a request that can be processed (`S/routes/privacyRoutes.js:149`).

Assignments. One sweep that advances two recurring assignments looks at each beside the old
window of the other, and can book a person twice; a rename that fails after it moved work
gives back also what the new name's owner got meanwhile.

Cloud accounts. Two requests for a reset that overlap leave two tokens live, although
`S/db/repositories/emailActionTokenRepository.js:36` says there is never more than one; a
sign-in that verified the old password before a reset commits gets a session that outlives it, be it
inserted after the reset's statement and before its commit or later, although
`S/services/emailActionService.js:74` wants every other session ended (`late` in `CloudIdentity`);
`/me/mfa/confirm` does not compare the method's owner with the caller; two managers
can suspend each other; a second factor counts before its recovery codes are written; nothing routes
the use of a recovery code, the removal of a factor or the withdrawal of an invitation.

Tables. A decision on an approval, or an end of an assignment, that read before another call wrote
can make a final row live again; expired approvals that a failing call had marked are rolled back with it; a
refresh of the policies' cache replaces a value that was set while it loaded (`S/syncCache.js:72`;
its comment says that no write goes missing); a write of a policy that fails leaves the map ahead. Only
the sites' and the notifications' tables are wired into the server.

Research records. Two transactions on one account lose the one that saved first (the `lapped` of
the model); migrating again after the server was switched overwrites what was reviewed since, though
the script calls itself safe to run again; of a post whose id and address were reviewed differently the
id's review counts, also when it is still pending.

Desktop. A second launch during a pending restart starts a second server that is lost sight of
(`desktop/main.js:526`; marked `raced` in the model); a launch under way at quit is not awaited.

Page. If the first picture after a claim fails, the server keeps the claim and the page forgets
it; the first screenshot of the next phone is dropped while the old stream counts as active,
so that the picture is of another phone than the one that is touched (`stage.kept` in
the model); what is left of a wheel's movement goes to the next phone.

## 6. Not modelled

The text and HTTP in front of the queue's operations (`taskCommandRoutes.js`,
`commandParser.js`: pure parsing), the database's pool, its row-level security and the
queue's table, `shutdown.js` and the start-up procedures (sequential, around the operating
system), layout and wording of the page, build and packaging scripts. Not modelled yet, and
within reach: the console's sign-in with its throttles and recovery (`authStore.js`,
`recoveryThrottle.js`), the file push with its links and quota, the provider's leases in the
proxy pool, the sharing of one video source among viewers, port reservations, updates and
backups of the desktop application. `PROJECT.json` says for each component what is left out.

## 7. Plan

The models that remain are those listed as within reach above. Every safety and action property
that a passing run checks is proved, but for the type invariants that no proof needed
(`ServicesTypeOK`); liveness stays with TLC.
