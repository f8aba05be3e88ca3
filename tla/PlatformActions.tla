-------------------------- MODULE PlatformActions --------------------------
(***************************************************************************)
(* What workers do that other people can see: likes and comments of one    *)
(* account, with the approvals of a human (approvalStore.js), the ledger   *)
(* of comments (commentGuard.js) and the workers that decide, press and    *)
(* check across awaits (researchWorker.js, platformSkill.js).              *)
(*                                                                         *)
(* Several workers may act for the account at a time, each with a task on  *)
(* a phone of its own: a resumed task is not held back by the others of    *)
(* its account.  A task may be stopped, and the process that runs them all *)
(* may die, at any await.  Both stores keep what they hold in memory and   *)
(* on disk, and a write may fail after memory has changed.                 *)
(***************************************************************************)
EXTENDS Naturals, FiniteSets

CONSTANTS
  Doers,          \* workers of the account
  Posts, Texts,   \* what can be acted on, and what a comment can say
  NoText,         \* the wording of a like
  GatedKinds,     \* kinds of action whose policy is REQUIRE_APPROVAL
  MaxActSteps,    \* bound: steps of the workers
  MaxMishaps      \* bound: writes that fail, deaths of the process

\* What a decision names a post by: its id on the platform, or its address.
Targets == [post : Posts, by : {"id", "address"}]
Likes == [kind : {"like"}, target : Targets, text : {NoText}]
Comments == [kind : {"comment"}, target : Targets, text : Texts]
Acts == Likes \cup Comments
NoAct == [kind |-> "none"]

\* The ledger keeps a comment by its content key and its wording.
LedgerEntries == [key : Targets, text : Texts]
NotKept == [key |-> "none"]

ASSUME ActAssumption ==
  /\ {MaxActSteps, MaxMishaps} \subseteq Nat /\ GatedKinds \subseteq {"like", "comment"}

VARIABLES
  approval,     \* action -> the state of its latest request, by its fingerprint
  approvalDisk, \* what the file says
  addressed,    \* posts whose record, found by their id, holds their address as well
  ledger,       \* comments recorded within the window
  ledgerDisk,
  actStep,      \* worker -> its step: where it is, for which action, under which entry and
                \* which of the action's approvals, whether the task is still its own, and
                \* how often it pressed
  tallied,      \* steps and mishaps so far
  granted,      \* action -> how often a human approved it; tells one approval from the next
  taken,        \* action -> how many steps went ahead with it
  loose,        \* action -> how many of them left their approval as it was
  shared,       \* action -> how many went ahead while another step was at it, under the same
  posted        \* ledger entry -> how often it was posted within the window

actVars == <<approval, approvalDisk, addressed, ledger, ledgerDisk, actStep, tallied, granted,
             taken, loose, shared, posted>>

ApprovalStates == {"none", "PENDING", "APPROVED", "REJECTED", "EXPIRED", "CONSUMED"}
OpenStates == {"PENDING", "APPROVED"}
Idle == [at |-> "idle", act |-> NoAct, entry |-> NotKept, under |-> 0, owns |-> FALSE,
         presses |-> 0]
Gated(a) == a.kind \in GatedKinds

ActsTypeOK ==
  /\ approval \in [Acts -> ApprovalStates] /\ approvalDisk \in [Acts -> ApprovalStates]
  /\ addressed \subseteq Posts
  /\ ledger \subseteq LedgerEntries /\ ledgerDisk \subseteq LedgerEntries
  /\ actStep \in [Doers -> [at : {"idle", "plan", "act", "check"}, act : Acts \cup {NoAct},
                            entry : LedgerEntries \cup {NotKept}, under : Nat,
                            owns : BOOLEAN, presses : 0..2]]
  /\ tallied \in [steps : 0..MaxActSteps, mishaps : 0..MaxMishaps]
  /\ granted \in [Acts -> Nat] /\ taken \in [Acts -> Nat] /\ loose \in [Acts -> Nat]
  /\ shared \in [Acts -> Nat] /\ posted \in [LedgerEntries -> Nat]

ActsInit ==
  /\ approval = [a \in Acts |-> "none"] /\ approvalDisk = approval
  /\ addressed = {} /\ ledger = {} /\ ledgerDisk = {}
  /\ actStep = [w \in Doers |-> Idle] /\ tallied = [steps |-> 0, mishaps |-> 0]
  /\ granted = [a \in Acts |-> 0] /\ taken = granted /\ loose = granted /\ shared = granted
  /\ posted = [e \in LedgerEntries |-> 0]

Mishap == tallied.mishaps < MaxMishaps /\ tallied' = [tallied EXCEPT !.mishaps = @ + 1]

\* _save: the file holds what memory holds, unless the write fails.
ApprovalsSaved == approvalDisk' = approval' /\ UNCHANGED tallied
ApprovalsNotSaved == Mishap /\ UNCHANGED approvalDisk
LedgerSaved == ledgerDisk' = ledger' /\ UNCHANGED tallied
LedgerNotSaved == Mishap /\ UNCHANGED ledgerDisk

----------------------------------------------------------------------------
\* People, time and the process.

\* decide; nobody is asked twice.
DecideApproval(a, to) ==
  /\ approval[a] = "PENDING" /\ to \in {"APPROVED", "REJECTED"}
  /\ approval' = [approval EXCEPT ![a] = to]
  /\ granted' = IF to = "APPROVED" THEN [granted EXCEPT ![a] = @ + 1] ELSE granted
  /\ ApprovalsSaved \/ ApprovalsNotSaved
  /\ UNCHANGED <<addressed, ledger, ledgerDisk, actStep, taken, loose, shared, posted>>

Past(state) == IF state \in OpenStates THEN "EXPIRED" ELSE state

\* _expire, which every call of the store begins with: what the file holds is past its
\* time as well, saved or not.
Expire(a) ==
  /\ approval[a] \in OpenStates
  /\ approval' = [approval EXCEPT ![a] = "EXPIRED"]
  /\ \/ ApprovalsSaved
     \/ Mishap /\ approvalDisk' = [approvalDisk EXCEPT ![a] = Past(@)]
  /\ UNCHANGED <<addressed, ledger, ledgerDisk, actStep, granted, taken, loose, shared, posted>>

\* A comment leaves the window; a step is over long before.
WindowPasses(e) ==
  /\ e \in ledger /\ \A w \in Doers : actStep[w].entry # e
  /\ ledger' = ledger \ {e} /\ ledgerDisk' = ledgerDisk \ {e}
  /\ posted' = [posted EXCEPT ![e] = 0]
  /\ UNCHANGED <<approval, approvalDisk, addressed, actStep, tallied, granted, taken, loose, shared>>

\* mergeCandidate fills an address in later; a newer run's record, which is found first, may
\* be without it again.
RecordChanges(p) ==
  /\ addressed' \in {addressed \cup {p}, addressed \ {p}}
  /\ UNCHANGED <<approval, approvalDisk, ledger, ledgerDisk, actStep, tallied, granted, taken,
                 loose, shared, posted>>

\* A pause, takeover, stop, a new lease or the loss of the account.
Interrupted(w) ==
  /\ actStep[w].owns
  /\ actStep' = [actStep EXCEPT ![w].owns = FALSE]
  /\ UNCHANGED <<approval, approvalDisk, addressed, ledger, ledgerDisk, tallied, granted, taken,
                 loose, shared, posted>>

\* The steps that are at a under its latest approval.
AtIt(a) == {w \in Doers : actStep[w].act = a /\ actStep[w].under = granted[a]}

\* The process dies, and comes back with what the files say.
WorkerDies ==
  /\ Mishap /\ actStep' = [w \in Doers |-> Idle]
  /\ loose' = [a \in Acts |-> IF Gated(a) /\ AtIt(a) # {} /\ approval[a] = "APPROVED"
                               THEN loose[a] + 1 ELSE loose[a]]
  /\ approval' = approvalDisk /\ ledger' = ledgerDisk
  /\ UNCHANGED <<approvalDisk, addressed, ledgerDisk, granted, taken, shared, posted>>

----------------------------------------------------------------------------
\* The step of a worker (runResearchStep).

StepBegins(w) ==
  /\ actStep[w] = Idle /\ tallied.steps < MaxActSteps
  /\ actStep' = [actStep EXCEPT ![w] = [Idle EXCEPT !.at = "plan", !.owns = TRUE]]
  /\ tallied' = [tallied EXCEPT !.steps = @ + 1]
  /\ UNCHANGED <<approval, approvalDisk, addressed, ledger, ledgerDisk, granted, taken, loose,
                 shared, posted>>

\* The step is over; left: an approval that it went ahead with can be used by another one.
StepOver(w, left) ==
  /\ actStep' = [actStep EXCEPT ![w] = Idle]
  /\ loose' = IF left THEN [loose EXCEPT ![actStep[w].act] = @ + 1] ELSE loose

\* Nobody else is at what w leaves.
LeftBy(w) ==
  LET a == actStep[w].act IN Gated(a) /\ approval[a] = "APPROVED" /\ AtIt(a) = {w}

\* The task is no longer the step's own, it decided nothing others would see, or what it
\* would press is not there.
NothingDone(w) ==
  /\ actStep[w].at \in {"plan", "act"} /\ StepOver(w, LeftBy(w))
  /\ UNCHANGED <<approval, approvalDisk, addressed, ledger, ledgerDisk, tallied, granted, taken,
                 shared, posted>>

\* validateAction: the policy, and the approval of exactly this.
\* Mutant: any open request will do.
AllowedIfOpen(a) == Gated(a) => approval[a] \in OpenStates
Allowed(a) == Gated(a) => approval[a] = "APPROVED"

\* REQUIRES_APPROVAL: request, which gives back the open one; the task waits for a human.
AskApproval(w, a) ==
  /\ actStep[w].at = "plan" /\ actStep[w].owns /\ ~Allowed(a)
  /\ actStep' = [actStep EXCEPT ![w] = Idle]
  /\ IF approval[a] \in OpenStates THEN UNCHANGED <<approval, approvalDisk, tallied>>
     ELSE /\ approval' = [approval EXCEPT ![a] = "PENDING"]
          /\ ApprovalsSaved \/ ApprovalsNotSaved
  /\ UNCHANGED <<addressed, ledger, ledgerDisk, granted, taken, loose, shared, posted>>

\* contentKey: the address of the record that the target finds, or else the id.
KeyOf(t) == IF t.post \in addressed THEN [t EXCEPT !.by = "address"] ELSE t
KeptAs(a) == [key |-> KeyOf(a.target), text |-> a.text]

\* checkComment: neither this key nor this wording, within the window.
\* Mutant: the key is not looked at.
NewWording(e) == \A f \in ledger : f.text # e.text
Fresh(e) == \A f \in ledger : f.key # e.key /\ f.text # e.text

\* The step goes ahead with a; others may be at it under the same approval, which stays
\* approved until one of them is verified.
GoesAhead(w, a, e) ==
  /\ actStep' = [actStep EXCEPT ![w] = [@ EXCEPT !.at = "act", !.act = a, !.entry = e,
                                                !.under = granted[a]]]
  /\ taken' = [taken EXCEPT ![a] = @ + 1]
  /\ shared' = IF AtIt(a) # {} THEN [shared EXCEPT ![a] = @ + 1] ELSE shared

\* A comment is recorded before it is sent; if it cannot be, it is not sent.
Proceed(w, a) ==
  /\ actStep[w].at = "plan" /\ actStep[w].owns /\ Allowed(a)
  /\ IF a \in Comments
     THEN /\ Fresh(KeptAs(a)) /\ ledger' = ledger \cup {KeptAs(a)}
          /\ \/ LedgerSaved /\ GoesAhead(w, a, KeptAs(a))
             \/ LedgerNotSaved /\ actStep' = [actStep EXCEPT ![w] = Idle] /\ UNCHANGED <<taken, shared>>
     ELSE GoesAhead(w, a, NotKept) /\ UNCHANGED <<ledger, ledgerDisk, tallied>>
  /\ UNCHANGED <<approval, approvalDisk, addressed, granted, loose, posted>>

\* execute: the last look at the lease, and the press that counts.  A toggle that is plainly as
\* it was is pressed once more (maxAttempts); a comment is sent once.
Pressed(s, at) == [s EXCEPT !.at = at, !.presses = @ + 1]
Press(w) ==
  LET s == actStep[w] IN
  /\ s.at = "act" /\ s.owns /\ s.presses < 2
  /\ \E at \in {"act", "check"} : /\ s.act \in Comments => at = "check"
                               /\ actStep' = [actStep EXCEPT ![w] = Pressed(@, at)]
  /\ posted' = IF s.act \in Comments THEN [posted EXCEPT ![s.entry] = @ + 1] ELSE posted
  /\ UNCHANGED <<approval, approvalDisk, addressed, ledger, ledgerDisk, tallied, granted, taken,
                 loose, shared>>

\* A toggle that shows what is wanted already is not pressed.
AlreadySo(w) ==
  /\ actStep[w].at = "act" /\ actStep[w].act \in Likes /\ actStep[w].presses = 0
  /\ actStep[w].owns /\ actStep' = [actStep EXCEPT ![w].at = "check"]
  /\ UNCHANGED <<approval, approvalDisk, addressed, ledger, ledgerDisk, tallied, granted, taken,
                 loose, shared, posted>>

\* Mutant: the approval outlives the action.
NotConsumed(w) == UNCHANGED <<approval, approvalDisk, tallied>> /\ StepOver(w, FALSE)

\* consume, if the approval that the step went ahead with can still be.
Consumed(w) ==
  LET a == actStep[w].act IN
  IF Gated(a) /\ approval[a] = "APPROVED" /\ w \in AtIt(a)
  THEN /\ approval' = [approval EXCEPT ![a] = "CONSUMED"]
       /\ \/ ApprovalsSaved /\ StepOver(w, FALSE)
          \/ ApprovalsNotSaved /\ StepOver(w, TRUE)
  ELSE UNCHANGED <<approval, approvalDisk, tallied>> /\ StepOver(w, FALSE)

Verified(w) ==
  /\ actStep[w].at = "check" /\ actStep[w].owns
  /\ Consumed(w)
  /\ UNCHANGED <<addressed, ledger, ledgerDisk, granted, taken, shared, posted>>

\* Not seen on the screen, or the phone is somebody else's by now.
Unconfirmed(w) ==
  /\ actStep[w].at = "check" /\ StepOver(w, LeftBy(w))
  /\ UNCHANGED <<approval, approvalDisk, addressed, ledger, ledgerDisk, tallied, granted, taken,
                 shared, posted>>

ActsNext ==
  \/ \E a \in Acts : \/ Expire(a)
                     \/ \E w \in Doers : AskApproval(w, a) \/ Proceed(w, a)
                     \/ \E to \in {"APPROVED", "REJECTED"} : DecideApproval(a, to)
  \/ \E e \in LedgerEntries : WindowPasses(e)
  \/ \E p \in Posts : RecordChanges(p)
  \/ WorkerDies
  \/ \E w \in Doers : \/ Interrupted(w) \/ StepBegins(w) \/ NothingDone(w) \/ Press(w)
                      \/ AlreadySo(w) \/ Verified(w) \/ Unconfirmed(w)

ActsSpec == ActsInit /\ [][ActsNext]_actVars

----------------------------------------------------------------------------
\* An approval is used once (approvalStore.js:5): steps go ahead with an action behind one as
\* often as humans approved it, and once more at most for each time the approval was left as it
\* was, or another worker's step was at the action under the same approval already.
ApprovedOnce == \A a \in Acts : Gated(a) => taken[a] <= granted[a] + loose[a] + shared[a]

\* However many workers the account has, it posts one comment under a content key, and one of a
\* wording, within the window (checkComment).  A post has two keys when its address comes later
\* than a comment on it, and then has room for two comments.
OneComment ==
  \A e, f \in LedgerEntries :
    /\ posted[e] <= 1
    /\ (posted[e] > 0 /\ posted[f] > 0 /\ (e.key = f.key \/ e.text = f.text)) => e = f

\* What others see is done once: as often as it was agreed to, and no comment twice.
SeenOnce == ApprovedOnce /\ OneComment
=============================================================================
