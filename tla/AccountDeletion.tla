--------------------------- MODULE AccountDeletion ---------------------------
(***************************************************************************)
(* The deletion of one account: the routes that ask for it                 *)
(* (routes/privacyRoutes.js), the lock on the account (authStore.js), the  *)
(* request that is kept for it (privacyRequestStore.js), and the removal,  *)
(* category by category, by an administrator (privacyDeletionProcessor.js, *)
(* its operations in index.js).                                            *)
(*                                                                         *)
(* A right is read across an await, and what it allows is done right after *)
(* it without one: an action is that stretch.  The owner asks from one of  *)
(* its sessions, a person above it from its own.  The assignments and the  *)
(* tasks, whose references are renamed alike, are one category, the two    *)
(* that can only be retained are left out.  The policy is in force.        *)
(***************************************************************************)
EXTENDS Naturals, FiniteSets, Sequences

CONSTANTS
  Sessions,        \* sessions of the account's owner
  Askers,          \* requests to delete that can be under way at once
  Processors,      \* removals that can be under way at once
  NoOne,
  MaxRequests,     \* bound: records of the request store
  MaxMoves,        \* bound: times somebody asks, signs out, starts a removal or
                   \* switches the account on again, and crashes
  DeletionFaults   \* of "store": a record is not written; "crash"

ASSUME DeletionAssumption ==
  /\ {MaxRequests, MaxMoves} \subseteq Nat /\ DeletionFaults \subseteq {"store", "crash"}
  /\ NoOne \notin Sessions \cup Askers \cup Processors

VARIABLES
  lock,       \* privacyDeletionState: "open", "requested", "completed"
  active,     \* the account is switched on
  sessions,   \* the owner's sessions that are good
  erasedFor,  \* privacyDeletionRequestId: the record the account was made anonymous for
  references, \* the name tasks and assignments refer to: "own" or "tombstone"
  request,    \* record -> its state
  asker,      \* asker -> where it is
  processor,  \* removal -> where it is
  moves       \* how many of the moves MaxMoves bounds were made

deletionVars == <<lock, active, sessions, erasedFor, references, request, asker, processor, moves>>

Records == 1..MaxRequests
Categories == <<"access", "account", "references", "audit">>
CategorySet == {Categories[i] : i \in 1..Len(Categories)}

\* unverified   awaiting_identity_verification    waiting   awaiting_account_lock
\* locked       account_locked                    retry     retryable_failed
Open == {"unverified", "waiting", "locked", "processing", "retry"}
Processable == {"locked", "processing", "retry"}

NoRecord == [status |-> "none", token |-> NoOne, progress |-> {}]
NoAsker == [at |-> "none", from |-> NoOne, record |-> 0]
NoProcessor == [at |-> "none", record |-> 0, todo |-> {}]

DeletionTypeOK ==
  /\ lock \in {"open", "requested", "completed"} /\ active \in BOOLEAN
  /\ sessions \subseteq Sessions /\ erasedFor \in 0..MaxRequests
  /\ references \in {"own", "tombstone"}
  /\ request \in [Records -> [status : Open \cup {"none", "failed", "completed"},
                              token : Processors \cup {NoOne},
                              progress : SUBSET CategorySet]]
  /\ asker \in [Askers -> [at : {"none", "checking", "locking"},
                           from : Sessions \cup {NoOne}, record : 0..MaxRequests]]
  /\ processor \in [Processors -> [at : {"none", "planning", "applying"},
                                   record : 0..MaxRequests, todo : SUBSET CategorySet]]
  /\ moves \in 0..MaxMoves

DeletionInit ==
  /\ lock = "open" /\ active = TRUE /\ sessions = Sessions
  /\ erasedFor = 0 /\ references = "own"
  /\ request = [r \in Records |-> NoRecord]
  /\ asker = [a \in Askers |-> NoAsker]
  /\ processor = [p \in Processors |-> NoProcessor]
  /\ moves = 0

Move == moves < MaxMoves /\ moves' = moves + 1
Fails(fault) == fault \in DeletionFaults
Person == <<lock, active, sessions, erasedFor, references>>

----------------------------------------------------------------------------
\* Somebody asks for the deletion.

\* The stored session still stands for the owner.  A person above the owner (NoOne)
\* may ask for what is not yet locked.
MayAsk(from) == IF from = NoOne THEN lock = "open" ELSE from \in sessions /\ active

OpenRecords == {r \in Records : request[r].status \in Open}
FreeRecords == {r \in Records : request[r].status = "none"}

PublicAsk ==
  /\ Move
  /\ \E r \in FreeRecords : request' = [request EXCEPT ![r].status = "unverified"]
  /\ UNCHANGED Person /\ UNCHANGED <<asker, processor>>

Ask(a) ==
  /\ asker[a].at = "none" /\ Move
  /\ \E from \in sessions \cup {NoOne} :
       /\ MayAsk(from)
       /\ asker' = [asker EXCEPT ![a] = [at |-> "checking", from |-> from, record |-> 0]]
  /\ UNCHANGED Person /\ UNCHANGED <<request, processor>>

\* createVerified takes up an open request, or makes one.
IdentityProven(r) ==
  IF OpenRecords # {}
  THEN /\ r \in OpenRecords /\ \A s \in OpenRecords : r <= s
       /\ request' = [request EXCEPT ![r].status = IF @ = "unverified" THEN "waiting" ELSE @]
  ELSE /\ r \in FreeRecords
       /\ request' = [request EXCEPT ![r].status = "waiting"]

AskAllowed(a) ==
  /\ asker[a].at = "checking" /\ MayAsk(asker[a].from)
  /\ \E r \in Records :
       /\ IdentityProven(r)
       /\ asker' = [asker EXCEPT ![a].at = "locking", ![a].record = r]
  /\ UNCHANGED Person /\ UNCHANGED <<processor, moves>>

\* A right that is gone, a wrong password, the last administrator.
AskRefused(a) ==
  /\ asker[a].at = "checking"
  /\ asker' = [asker EXCEPT ![a] = NoAsker]
  /\ UNCHANGED Person /\ UNCHANGED <<request, processor, moves>>

Marked(r, from, to) ==
  IF request[r].status = from THEN [request EXCEPT ![r].status = to] ELSE request

\* lockForDeletion, for an asker that may still ask.
LockAccount(a) ==
  /\ asker[a].at = "locking" /\ MayAsk(asker[a].from)
  /\ lock' = "requested" /\ active' = FALSE /\ sessions' = {}
  /\ UNCHANGED <<erasedFor, references>>

\* The account is locked, then its request is marked.
AccountLocked(a) ==
  /\ LockAccount(a)
  /\ \/ request' = Marked(asker[a].record, "waiting", "locked")
     \/ Fails("store") /\ UNCHANGED request
  /\ asker' = [asker EXCEPT ![a] = NoAsker]
  /\ UNCHANGED <<processor, moves>>

LockRefused(a) ==
  /\ asker[a].at = "locking" /\ (~MayAsk(asker[a].from) \/ Fails("store"))
  /\ request' = Marked(asker[a].record, "waiting", "failed")
  /\ asker' = [asker EXCEPT ![a] = NoAsker]
  /\ UNCHANGED Person /\ UNCHANGED <<processor, moves>>

SignOut(s) ==
  /\ s \in sessions /\ Move /\ sessions' = sessions \ {s}
  /\ UNCHANGED <<lock, active, erasedFor, references, request, asker, processor>>

\* A host approves the account, or switches it on, while it is to be deleted; its
\* owner may then sign in.
SwitchOn ==
  /\ lock = "requested" /\ ~active /\ Move
  /\ active' = TRUE /\ sessions' = Sessions
  /\ UNCHANGED <<lock, erasedFor, references, request, asker, processor>>

----------------------------------------------------------------------------
\* The removal.

CallProcess(p) ==
  /\ processor[p].at = "none" /\ Move
  /\ \E r \in Records :
       /\ request[r].status \in Processable
       /\ processor' = [processor EXCEPT ![p] =
                          [at |-> "planning", record |-> r, todo |-> {}]]
  /\ UNCHANGED Person /\ UNCHANGED <<request, asker>>

\* claimProcessing.
Free(r) == request[r].status \in Processable /\ request[r].token = NoOne

Claimed(p) ==
  LET r == processor[p].record IN
  /\ processor[p].at = "planning" /\ Free(r)
  /\ request' = [request EXCEPT ![r].status = "processing", ![r].token = p]
  /\ processor' = [processor EXCEPT ![p].at = "applying",
                     ![p].todo = CategorySet \ request[r].progress]
  /\ UNCHANGED Person /\ UNCHANGED <<asker, moves>>

\* The right is gone, or another removal holds the request.
PlanRefused(p) ==
  /\ processor[p].at = "planning"
  /\ processor' = [processor EXCEPT ![p] = NoProcessor]
  /\ UNCHANGED Person /\ UNCHANGED <<request, asker, moves>>

\* The category a removal applies next.
NextCategory(p) ==
  LET i == CHOOSE i \in 1..Len(Categories) :
             /\ Categories[i] \in processor[p].todo
             /\ \A j \in 1..(i - 1) : Categories[j] \notin processor[p].todo
  IN Categories[i]

\* Mutant: an account is erased for a second request as well.
ApplyAgain(r, c) ==
  /\ c = "account" => lock = "completed" \/ (lock = "requested" /\ ~active)
  /\ lock' = IF c = "account" THEN "completed" ELSE lock
  /\ erasedFor' = IF c = "account" THEN r ELSE erasedFor
  /\ sessions' = IF c = "access" THEN {} ELSE sessions
  /\ references' = IF c = "references" THEN "tombstone" ELSE references
  /\ UNCHANGED active

\* finalizeOperatorPrivacyDeletion: there is no account of that name after it was made
\* anonymous: that it was, for r, is no error.
Erasable(r) ==
  \/ lock = "completed" /\ erasedFor = r
  \/ lock = "requested" /\ ~active

\* What a category does for request r.
Apply(r, c) ==
  /\ c = "access" => lock # "completed"
  /\ c = "account" => Erasable(r)
  /\ lock' = IF c = "account" THEN "completed" ELSE lock
  /\ erasedFor' = IF c = "account" THEN r ELSE erasedFor
  /\ sessions' = IF c = "access" THEN {} ELSE sessions
  /\ references' = IF c = "references" THEN "tombstone" ELSE references
  /\ UNCHANGED active

\* One category is applied and its checkpoint taken; after the last one the request is
\* completed.
Checkpoint(p) ==
  LET r == processor[p].record
      c == NextCategory(p)
      last == processor[p].todo = {c} IN
  /\ processor[p].at = "applying" /\ Apply(r, c)
  /\ IF request[r].token # p
     THEN /\ processor' = [processor EXCEPT ![p] = NoProcessor]
          /\ UNCHANGED request
     ELSE /\ request' = [request EXCEPT ![r].progress = @ \cup {c},
                                        ![r].status = IF last THEN "completed" ELSE @,
                                        ![r].token = IF last THEN NoOne ELSE @]
          /\ processor' = [processor EXCEPT ![p] =
                             IF last THEN NoProcessor ELSE [processor[p] EXCEPT !.todo = @ \ {c}]]
  /\ UNCHANGED <<asker, moves>>

\* The right is gone, the category could not be applied, or it was and its checkpoint
\* could not be taken.
ApplyFails(p) ==
  LET r == processor[p].record IN
  /\ processor[p].at = "applying"
  /\ \/ UNCHANGED Person
     \/ Fails("store") /\ Apply(r, NextCategory(p))
  /\ request' = IF request[r].token = p
                THEN [request EXCEPT ![r].status = "retry", ![r].token = NoOne]
                ELSE request
  /\ processor' = [processor EXCEPT ![p] = NoProcessor]
  /\ UNCHANGED <<asker, moves>>

\* The process dies, between a write and the next one too, and at its next start the
\* removals it was at are put back (recoverInterrupted).
DeletionCrash ==
  /\ Fails("crash") /\ Move
  /\ \/ UNCHANGED Person
     \/ \E p \in Processors : /\ processor[p].at = "applying"
                              /\ Apply(processor[p].record, NextCategory(p))
     \/ \E a \in Askers : LockAccount(a)
  /\ request' = [r \in Records |-> IF request[r].status = "processing"
                   THEN [request[r] EXCEPT !.status = "retry", !.token = NoOne]
                   ELSE request[r]]
  /\ asker' = [a \in Askers |-> NoAsker]
  /\ processor' = [p \in Processors |-> NoProcessor]

DeletionNext ==
  \/ PublicAsk \/ SwitchOn \/ DeletionCrash
  \/ \E s \in Sessions : SignOut(s)
  \/ \E a \in Askers : \/ Ask(a) \/ AskAllowed(a) \/ AskRefused(a)
                       \/ AccountLocked(a) \/ LockRefused(a)
  \/ \E p \in Processors : CallProcess(p) \/ Claimed(p) \/ PlanRefused(p) \/ Checkpoint(p) \/ ApplyFails(p)

DeletionSpec == DeletionInit /\ [][DeletionNext]_deletionVars

----------------------------------------------------------------------------
\* A request is completed only when the account was made anonymous for it and nothing
\* refers to it by name, whatever failed, was retried or was interrupted on the way.
CompletedIsErased ==
  \A r \in Records : request[r].status = "completed"
    => lock = "completed" /\ erasedFor = r /\ references = "tombstone"

\* One removal at a time works on a request: every category is applied by the one that
\* holds its token.
OneRemoval ==
  \A p \in Processors : processor[p].at = "applying"
    => request[processor[p].record].token = p

\* What the removal has recorded has happened, though the account is switched on, its
\* owner asks again, or the process dies in between.
ProgressIsReal ==
  \A r \in Records :
    /\ "account" \in request[r].progress => lock = "completed" /\ erasedFor = r
    /\ "references" \in request[r].progress => references = "tombstone"

\* A removal is done once, by one worker, and what is recorded of it is true.
ErasureIsReal == CompletedIsErased /\ OneRemoval /\ ProgressIsReal
=============================================================================
