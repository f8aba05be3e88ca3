------------------------------ MODULE Accounts ------------------------------
(***************************************************************************)
(* The operators' accounts (system/server/src/authStore.js), the routes    *)
(* that change them (index.js), and the mails that are put by for them     *)
(* (queue, markCommitted and markAborted of accountNotificationStore.js;   *)
(* NotificationOutbox has what becomes of a mail that is let go).          *)
(*                                                                         *)
(* Every change of an account is one read and one write of the file, made  *)
(* right after the last check of the person who asks for it: the rights    *)
(* are read from the session file across an await, the change follows them *)
(* without one.  A decision on an account has two such checks; between     *)
(* them its mail is held in the outbox.  A session is good for the version *)
(* of the account it was opened with: a change that raises the version     *)
(* ends the sessions.  Managers, grants, names, throttles and the secrets  *)
(* themselves are left out.                                                *)
(***************************************************************************)
EXTENDS Naturals, FiniteSets

CONSTANTS
  Names,
  MainHost,       \* the host whose account the command line tool made
  Reviews,        \* decisions that can be under way at once
  NoKey,
  MaxChanges,     \* bound: changes of accounts
  MaxAsks,        \* bound: decisions asked for
  StoreFails      \* a write of a store may fail

ASSUME AccountsAssumption ==
  /\ MainHost \in Names /\ {MaxChanges, MaxAsks} \subseteq Nat /\ StoreFails \in BOOLEAN
  /\ NoKey \notin Names \X {"received", "approved", "rejected"} \X (0..MaxChanges)

VARIABLES
  acct,     \* name -> its account; status "none" is no account
  signed,   \* who has a session for the current version of the account
  pending,  \* who gave a password, for that version, and owes the second factor
  review,   \* decision -> where it is
  notice,   \* mail -> "none", "held" (pending_account_commit), "aborted", or "let_go"
  changes,  \* how many of the changes MaxChanges bounds have happened
  asks      \* how many of the decisions MaxAsks bounds were asked for

accountVars == <<acct, signed, pending, review, notice, changes, asks>>

Roles == {"va", "admin", "host"}
Decisions == {"approved", "rejected", "banned"}

\* A mail is known by its idempotency key: whom it tells what, and for a decision
\* the accountStatusGeneration it leads to.
Mails == Names \X {"received", "approved", "rejected"} \X (0..MaxChanges)

NoAccount == [status |-> "none", role |-> "va", active |-> FALSE, gen |-> 0]
NoReview == [at |-> "none", by |-> MainHost, of |-> MainHost, to |-> "approved",
             key |-> NoKey]

AccountsTypeOK ==
  /\ acct \in [Names -> [status : Decisions \cup {"none", "pending"}, role : Roles,
                         active : BOOLEAN, gen : 0..MaxChanges]]
  /\ signed \subseteq Names /\ pending \subseteq Names
  /\ review \in [Reviews -> [at : {"none", "asked", "held"}, by : Names, of : Names,
                             to : Decisions, key : Mails \cup {NoKey}]]
  /\ notice \in [Mails -> {"none", "held", "aborted", "let_go"}]
  /\ changes \in 0..MaxChanges /\ asks \in 0..MaxAsks

AccountsInit ==
  /\ \E known \in SUBSET (Names \ {MainHost}) :
       acct = [n \in Names |-> IF n \in known \cup {MainHost}
                               THEN [NoAccount EXCEPT !.status = "approved",
                                                      !.role = "host", !.active = TRUE]
                               ELSE NoAccount]
  /\ signed = {} /\ pending = {}
  /\ review = [r \in Reviews |-> NoReview]
  /\ notice = [k \in Mails |-> "none"]
  /\ changes = 0 /\ asks = 0

----------------------------------------------------------------------------
\* Rights.

Good(a) == a.active /\ a.status = "approved"
IsAdministrator(a) == Good(a) /\ a.role \in {"admin", "host"}
OtherAdministrators(n) == {m \in Names \ {n} : IsAdministrator(acct[m])}

\* The session still stands for a working account that manages accounts.
Authorized(by) == by \in signed /\ IsAdministrator(acct[by])
CanManage(by, n) ==
  /\ acct[n].status # "none"
  /\ acct[by].role = "host" \/ acct[n].role # "host"
Assignable(by) ==
  CASE by = MainHost -> Roles
    [] acct[by].role = "host" -> {"va", "admin"}
    [] OTHER -> {"va"}

\* An account is written; its sessions, and what was begun for one, end if ends.
Change(n, a, ends) ==
  /\ changes < MaxChanges /\ changes' = changes + 1
  /\ acct' = [acct EXCEPT ![n] = a]
  /\ signed' = IF ends THEN signed \ {n} ELSE signed
  /\ pending' = IF ends THEN pending \ {n} ELSE pending

Reviewing == <<review, notice, asks>>

----------------------------------------------------------------------------
\* Accounts come, change and go.

\* createSignupAccount.
SignupAccount == [NoAccount EXCEPT !.status = "pending"]
SignUp(n) ==
  /\ acct[n].status = "none"
  /\ Change(n, SignupAccount, FALSE)
  /\ notice' = [notice EXCEPT ![<<n, "received", 0>>] = "let_go"]
  /\ UNCHANGED <<review, asks>>

\* prunePendingSignupAccounts: thirty days have passed.
Prune(n) ==
  /\ acct[n].status = "pending" /\ Change(n, NoAccount, TRUE)
  /\ UNCHANGED Reviewing

\* createOperatorAccount.
OperatorAccount(role) ==
  [NoAccount EXCEPT !.status = "approved", !.role = role, !.active = TRUE]

\* The first administrator, made on the host itself.
Bootstrap(n) ==
  /\ acct[n].status = "none"
  /\ \A m \in Names : IsAdministrator(acct[m]) => acct[m].role # "admin"
  /\ Change(n, OperatorAccount("admin"), FALSE)
  /\ UNCHANGED Reviewing

CreateAccount(by, n) ==
  /\ Authorized(by) /\ acct[n].status = "none"
  /\ \E role \in Assignable(by) : Change(n, OperatorAccount(role), FALSE)
  /\ UNCHANGED Reviewing

\* flagAndDeactivateOperator.
Flagged(n) == Change(n, [acct[n] EXCEPT !.active = FALSE], TRUE)

\* Somebody without the right changes its own account, or, once there is an admin,
\* asks for the bootstrap again: it is switched off.
FlagSelf(n) ==
  /\ n \in signed /\ Good(acct[n])
  /\ \/ acct[n].role = "va"
     \/ acct[n].role = "host"
        /\ \E m \in Names : IsAdministrator(acct[m]) /\ acct[m].role = "admin"
  /\ Flagged(n)
  /\ UNCHANGED Reviewing

\* updateOperatorAccount accepts a for n when by asks for it.
MayUpdate(by, n, a) ==
  /\ by = n => a = acct[n]
  /\ IsAdministrator(acct[n]) /\ (~a.active \/ a.role = "va") => OtherAdministrators(n) # {}
  /\ n = MainHost => a.role = "host"

\* A role, the switch, or (nothing else changes) a password.
UpdateAccount(by, n) ==
  /\ Authorized(by) /\ CanManage(by, n)
  /\ \E a \in {[acct[n] EXCEPT !.role = role] : role \in Assignable(by)}
             \cup {[acct[n] EXCEPT !.active = on] : on \in BOOLEAN} :
       /\ MayUpdate(by, n, a)
       /\ Change(n, a, a.active # acct[n].active \/ a = acct[n])
  /\ UNCHANGED Reviewing

\* invalidateOperatorSessions, resetOperatorSecondFactor, completeEmailRecovery: only
\* the version of the account changes.
SessionsEnded(n) == Change(n, acct[n], TRUE)
RevokeSessions(by, n) ==
  /\ Authorized(by) /\ CanManage(by, n)
  /\ SessionsEnded(n) /\ UNCHANGED Reviewing
\* Its token was issued to an account that was good; it is taken whatever the account
\* has become.
RecoverByMail(n) ==
  /\ acct[n].status # "none"
  /\ SessionsEnded(n) /\ UNCHANGED Reviewing

GivePassword(n) ==
  /\ Good(acct[n]) /\ n \notin signed \cup pending
  /\ \/ signed' = signed \cup {n} /\ UNCHANGED pending
     \/ pending' = pending \cup {n} /\ UNCHANGED signed
  /\ UNCHANGED <<acct, changes>> /\ UNCHANGED Reviewing

GiveSecondFactor(n) ==
  /\ n \in pending /\ Good(acct[n])
  /\ signed' = signed \cup {n} /\ pending' = pending \ {n}
  /\ UNCHANGED <<acct, changes>> /\ UNCHANGED Reviewing

----------------------------------------------------------------------------
\* A decision on an account.

\* The checks of the route; what is decided about the mail is decided here.
AskReview(r, by, n, to) ==
  /\ asks < MaxAsks /\ asks' = asks + 1
  /\ review[r].at = "none" /\ Authorized(by) /\ CanManage(by, n)
  /\ to # "approved" => by # n
  /\ acct[n].status = "banned" /\ to # "banned" => acct[by].role = "host"
  /\ review' = [review EXCEPT ![r] =
       [at |-> "asked", by |-> by, of |-> n, to |-> to,
        key |-> IF to # "banned" /\ acct[n].status # "banned"
                THEN <<n, to, acct[n].gen + (IF acct[n].status = to THEN 0 ELSE 1)>>
                ELSE NoKey]]
  /\ review'[r].key # NoKey => review'[r].key \in Mails
  /\ UNCHANGED <<acct, signed, pending, notice, changes>>

\* Mutant: the rights are those the person had when it asked.
MayDecideAnyway(v) == acct[v.of].status # "none"

\* authorizeStatusCommit.
MayDecide(v) ==
  /\ Authorized(v.by) /\ CanManage(v.by, v.of)
  /\ acct[v.of].status = "banned" /\ v.to # "banned" => acct[v.by].role = "host"

\* setOperatorAccountStatus refuses the last admin.
LastAdmin(v) ==
  /\ v.to # "approved" /\ Good(acct[v.of]) /\ acct[v.of].role = "admin"
  /\ \A m \in OtherAdministrators(v.of) : acct[m].role # "admin"

\* The entry of mail k goes from one of the states from to the state to.
Moved(k, from, to) ==
  [m \in Mails |-> IF m = k /\ notice[m] \in from THEN to ELSE notice[m]]

\* Mutant: the mail is queued at once.
HoldMailAtOnce(r) ==
  /\ review[r].at = "asked" /\ MayDecide(review[r])
  /\ review' = [review EXCEPT ![r].at = "held"]
  /\ notice' = Moved(review[r].key, {"none", "aborted"}, "let_go")
  /\ UNCHANGED <<acct, signed, pending, changes, asks>>

\* The first check: the mail is put by, or taken up again.
HoldMail(r) ==
  /\ review[r].at = "asked"
  /\ LET k == review[r].key IN
     IF MayDecide(review[r])
     THEN /\ review' = [review EXCEPT ![r].at = "held"]
          /\ notice' = Moved(k, {"none", "aborted"}, "held")
     ELSE /\ review' = [review EXCEPT ![r] = NoReview] /\ UNCHANGED notice
  /\ UNCHANGED <<acct, signed, pending, changes, asks>>

\* The change of the account, made on v's behalf.
Decide(v) ==
  Change(v.of, [acct[v.of] EXCEPT !.status = v.to, !.active = v.to = "approved",
                     !.gen = IF acct[v.of].status = v.to THEN @ ELSE @ + 1], TRUE)

\* The second check, the change and the mail's release; the store may refuse the
\* change, and the release may not be written.
CommitReview(r) ==
  /\ review[r].at = "held"
  /\ MayDecide(review[r]) /\ ~LastAdmin(review[r])
  /\ Decide(review[r])
  /\ \/ notice' = Moved(review[r].key, {"held"}, "let_go")
     \/ StoreFails /\ UNCHANGED notice
  /\ review' = [review EXCEPT ![r] = NoReview] /\ UNCHANGED asks

RefuseReview(r) ==
  /\ review[r].at = "held"
  /\ ~MayDecide(review[r]) \/ LastAdmin(review[r]) \/ StoreFails
  /\ notice' = Moved(review[r].key, {"held"}, "aborted")
  /\ review' = [review EXCEPT ![r] = NoReview]
  /\ UNCHANGED <<acct, signed, pending, changes, asks>>

\* The process dies, between two writes of a decision too; sessions are files.
AccountsCrash ==
  /\ \/ UNCHANGED <<acct, signed, pending, changes>>
     \/ \E r \in Reviews : /\ review[r].at = "held"
                           /\ MayDecide(review[r]) /\ ~LastAdmin(review[r])
                           /\ Decide(review[r])
  /\ review' = [r \in Reviews |-> NoReview]
  /\ UNCHANGED <<notice, asks>>

AccountsNext ==
  \/ \E n \in Names : \/ SignUp(n) \/ Prune(n) \/ Bootstrap(n) \/ FlagSelf(n)
                      \/ GivePassword(n) \/ GiveSecondFactor(n) \/ RecoverByMail(n)
  \/ \E by, n \in Names : \/ CreateAccount(by, n) \/ UpdateAccount(by, n)
                          \/ RevokeSessions(by, n)
                          \/ \E r \in Reviews, to \in Decisions : AskReview(r, by, n, to)
  \/ \E r \in Reviews : HoldMail(r) \/ CommitReview(r) \/ RefuseReview(r)
  \/ AccountsCrash

AccountsSpec == AccountsInit /\ [][AccountsNext]_accountVars

----------------------------------------------------------------------------
\* "The system always keeps at least one active Admin or Host account": whatever two
\* administrators decide about each other, and however late their rights are read.
AdministratorRemains == \E n \in Names : IsAdministrator(acct[n])

\* A decision's mail is let go with that decision and never before or without it,
\* though two reviewers may share one mail and either may fail after it was put by.
MailFollowsDecision ==
  [][notice' # notice =>
       \A k \in Mails : k[2] # "received" /\ notice[k] # "let_go" /\ notice'[k] = "let_go"
         => changes' = changes + 1 /\ acct'[k[1]].status = k[2]]_accountVars
=============================================================================
