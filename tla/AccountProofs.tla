---------------------------- MODULE AccountProofs ----------------------------
(***************************************************************************)
(* Proofs about the services that keep accounts: the accounts themselves,  *)
(* the outbox of their mails, the deletion of an account, the store of     *)
(* sessions, the accounts of the cloud API, and what research found for an *)
(* account of a platform.                                                  *)
(***************************************************************************)
EXTENDS Accounts, NotificationOutbox, AccountDeletion, SessionStore, CloudIdentity, ResearchRecords,
        FiniteSetTheorems, TLAPS

-----------------------------------------------------------------------------
(* Accounts: administrators and the mails of decisions.                    *)

\* A decision under way is another person's, unless it approves, and its mail tells
\* whom it is about what was decided.
ReviewOK(v) ==
  /\ v.at # "none" /\ v.to # "approved" => v.by # v.of
  /\ v.key # NoKey => v.key[1] = v.of /\ v.key[2] = v.to

\* The inductive invariant; a generation counts changes.
AccountsInv ==
  /\ AccountsTypeOK /\ AdministratorRemains
  /\ \A n \in Names : acct[n].gen <= changes
  /\ \A r \in Reviews : ReviewOK(review[r])

AccountRecords ==
  [status : Decisions \cup {"none", "pending"}, role : Roles, active : BOOLEAN, gen : 0..MaxChanges]
ReviewRecords ==
  [at : {"none", "asked", "held"}, by : Names, of : Names, to : Decisions, key : Mails \cup {NoKey}]

\* The account part of the invariant, which Change is about.
AccountPart ==
  /\ acct \in [Names -> AccountRecords]
  /\ signed \subseteq Names /\ pending \subseteq Names /\ changes \in 0..MaxChanges
  /\ \A n \in Names : acct[n].gen <= changes
  /\ AdministratorRemains

\* The decision part.
ReviewPart ==
  /\ review \in [Reviews -> ReviewRecords]
  /\ notice \in [Mails -> {"none", "held", "aborted", "let_go"}]
  /\ asks \in 0..MaxAsks
  /\ \A r \in Reviews : ReviewOK(review[r])

\* The invariant is its two parts.
LEMMA AccountsParts ==
  /\ AccountsInv <=> AccountPart /\ ReviewPart
  /\ AccountsInv' <=> AccountPart' /\ ReviewPart'
BY DEF AccountsInv, AccountsTypeOK, AccountPart, ReviewPart, AccountRecords, ReviewRecords

\* One account is written: an administrator remains if this one was none, still is
\* one, or is not the only one.
LEMMA ChangeLemma ==
  ASSUME AccountPart, NEW n \in Names, NEW a, NEW ends \in BOOLEAN, Change(n, a, ends),
         a \in [status : Decisions \cup {"none", "pending"}, role : Roles, active : BOOLEAN, gen : Nat],
         a.gen <= changes + 1,
         ~IsAdministrator(acct[n]) \/ IsAdministrator(a) \/ OtherAdministrators(n) # {}
  PROVE  AccountPart' /\ changes' = changes + 1 /\ acct'[n] = a
<1>1. /\ acct \in [Names -> AccountRecords]
      /\ changes \in 0..MaxChanges /\ MaxChanges \in Nat
      /\ acct' = [acct EXCEPT ![n] = a] /\ changes < MaxChanges /\ changes' = changes + 1
  BY AccountsAssumption DEF AccountPart, Change
<1>2. a \in AccountRecords
  BY <1>1 DEF AccountRecords
<1>3. /\ acct' \in [Names -> AccountRecords]
      /\ acct'[n] = a /\ \A m \in Names \ {n} : acct'[m] = acct[m]
  BY <1>1, <1>2
<1>4. AdministratorRemains'
  <2>1. \E m \in Names : IsAdministrator(acct'[m])
    <3>1. CASE ~IsAdministrator(acct[n])
      <4>1. PICK m \in Names : IsAdministrator(acct[m])
        BY DEF AccountPart, AdministratorRemains
      <4>2. acct'[m] = acct[m]
        BY <1>3, <3>1, <4>1
      <4> QED BY <4>1, <4>2
    <3>2. CASE IsAdministrator(a)
      BY <1>3, <3>2
    <3>3. CASE OtherAdministrators(n) # {}
      <4>1. PICK m \in Names \ {n} : IsAdministrator(acct[m])
        BY <3>3 DEF OtherAdministrators
      <4>2. acct'[m] = acct[m]
        BY <1>3
      <4> QED BY <4>1, <4>2
    <3> QED BY <3>1, <3>2, <3>3
  <2> QED BY <2>1 DEF AdministratorRemains, IsAdministrator, Good
<1>5. signed' \subseteq Names /\ pending' \subseteq Names /\ changes' \in 0..MaxChanges
  BY <1>1 DEF Change, AccountPart
<1>6. \A m \in Names : acct'[m].gen <= changes'
  <2> SUFFICES ASSUME NEW m \in Names PROVE acct'[m].gen <= changes'
    OBVIOUS
  <2>1. CASE m = n
    BY <1>1, <1>3, <2>1
  <2>2. CASE m # n
    <3>1. acct'[m] = acct[m] /\ acct[m].gen \in Nat /\ acct[m].gen <= changes
      BY <1>1, <1>3, <2>2 DEF AccountPart, AccountRecords
    <3> QED BY <1>1, <3>1
  <2> QED BY <2>1, <2>2
<1> QED BY <1>1, <1>3, <1>4, <1>5, <1>6 DEF AccountPart

\* What is written of an account by the changes that make, delete or switch one.
LEMMA AccountForms ==
  ASSUME AccountPart, NEW n \in Names
  PROVE  LET R == [status : Decisions \cup {"none", "pending"}, role : Roles, active : BOOLEAN, gen : Nat]
         IN /\ acct[n] \in R /\ acct[n].gen <= changes + 1 /\ changes \in Nat
            /\ NoAccount \in R /\ NoAccount.gen = 0
            /\ SignupAccount \in R /\ SignupAccount.gen = 0
            /\ \A role \in Roles : OperatorAccount(role) \in R /\ OperatorAccount(role).gen = 0
            /\ \A role \in Roles : [acct[n] EXCEPT !.role = role] \in R
            /\ \A on \in BOOLEAN : [acct[n] EXCEPT !.active = on] \in R
            /\ acct[n].status \in {"none", "pending"} => ~IsAdministrator(acct[n])
<1>1. /\ acct[n] \in AccountRecords /\ changes \in 0..MaxChanges /\ MaxChanges \in Nat
      /\ acct[n].gen <= changes
  BY AccountsAssumption DEF AccountPart
<1> DEFINE S == Decisions \cup {"none", "pending"}
           R == [status : S, role : Roles, active : BOOLEAN, gen : Nat]
           b == acct[n]
<1>2. b \in R /\ b.gen <= changes + 1 /\ changes \in Nat
  BY <1>1 DEF AccountRecords
<1>3. /\ NoAccount \in R /\ NoAccount.gen = 0
      /\ SignupAccount \in R /\ SignupAccount.gen = 0
      /\ \A role \in Roles : OperatorAccount(role) \in R /\ OperatorAccount(role).gen = 0
  BY DEF NoAccount, SignupAccount, OperatorAccount, Decisions, Roles
<1>4. b.status \in {"none", "pending"} => ~IsAdministrator(b)
  BY DEF IsAdministrator, Good
<1>5. /\ \A role \in Roles : [b EXCEPT !.role = role] \in R
      /\ \A on \in BOOLEAN : [b EXCEPT !.active = on] \in R
  <2> HIDE DEF S, b
  <2> QED BY <1>2
<1> QED BY <1>2, <1>3, <1>4, <1>5

\* The steps that make, prune, flag and update accounts, and end sessions: no step
\* leaves the system without an administrator.
LEMMA AccountSteps ==
  ASSUME AccountPart, NEW n \in Names,
         \/ SignUp(n) \/ Prune(n) \/ Bootstrap(n) \/ FlagSelf(n) \/ RecoverByMail(n)
         \/ \E by \in Names : CreateAccount(by, n) \/ UpdateAccount(by, n) \/ RevokeSessions(by, n)
  PROVE  AccountPart'
<1> DEFINE R == [status : Decisions \cup {"none", "pending"}, role : Roles, active : BOOLEAN, gen : Nat]
<1>1. /\ acct[n] \in R /\ acct[n].gen <= changes + 1 /\ changes \in Nat /\ 0 <= changes + 1
      /\ NoAccount \in R /\ NoAccount.gen = 0
      /\ SignupAccount \in R /\ SignupAccount.gen = 0
      /\ \A role \in Roles : OperatorAccount(role) \in R /\ OperatorAccount(role).gen = 0
      /\ \A role \in Roles : [acct[n] EXCEPT !.role = role] \in R
      /\ \A on \in BOOLEAN : [acct[n] EXCEPT !.active = on] \in R
      /\ acct[n].status \in {"none", "pending"} => ~IsAdministrator(acct[n])
  BY AccountForms, AccountsAssumption DEF AccountPart
<1>2. CASE SignUp(n) \/ Prune(n)
  <2>1. /\ Change(n, SignupAccount, FALSE) \/ Change(n, NoAccount, TRUE)
        /\ acct[n].status \in {"none", "pending"}
    BY <1>2 DEF SignUp, Prune
  <2>2. ~IsAdministrator(acct[n]) BY <1>1, <2>1
  <2>3. CASE Change(n, SignupAccount, FALSE) BY ZenonT(60), <1>1, <2>2, <2>3, ChangeLemma
  <2>4. CASE Change(n, NoAccount, TRUE) BY ZenonT(60), <1>1, <2>2, <2>4, ChangeLemma
  <2> QED BY <2>1, <2>3, <2>4
<1>3. CASE Bootstrap(n) \/ \E by \in Names : CreateAccount(by, n)
  <2>1. PICK role \in Roles : Change(n, OperatorAccount(role), FALSE)
    BY <1>3 DEF Bootstrap, CreateAccount, Assignable, Roles
  <2>2. acct[n].status = "none"
    BY <1>3 DEF Bootstrap, CreateAccount
  <2> QED BY ZenonT(60), <1>1, <2>1, <2>2, ChangeLemma
<1>4. CASE RecoverByMail(n) \/ \E by \in Names : RevokeSessions(by, n)
  <2>1. Change(n, acct[n], TRUE)
    BY <1>4 DEF RecoverByMail, RevokeSessions, SessionsEnded
  <2> QED BY <1>1, <2>1, ChangeLemma
<1>5. CASE FlagSelf(n)
  <2>1. Change(n, [acct[n] EXCEPT !.active = FALSE], TRUE)
    BY <1>5 DEF FlagSelf, Flagged
  <2>2. ~IsAdministrator(acct[n]) \/ OtherAdministrators(n) # {}
    BY <1>5 DEF FlagSelf, IsAdministrator, OtherAdministrators
  <2>3. [acct[n] EXCEPT !.active = FALSE] \in R /\ [acct[n] EXCEPT !.active = FALSE].gen = acct[n].gen
    BY <1>1
  <2> QED BY <1>1, <2>1, <2>2, <2>3, ChangeLemma
<1>6. CASE \E by \in Names : UpdateAccount(by, n)
  <2>1. PICK by \in Names : UpdateAccount(by, n)
    BY <1>6
  <2>2. PICK a \in {[acct[n] EXCEPT !.role = role] : role \in Assignable(by)}
                     \cup {[acct[n] EXCEPT !.active = on] : on \in BOOLEAN} :
          MayUpdate(by, n, a) /\ Change(n, a, a.active # acct[n].active \/ a = acct[n])
    BY <2>1 DEF UpdateAccount
  <2>3. Assignable(by) \subseteq Roles
    BY DEF Assignable, Roles
  <2>4. a \in R /\ a.gen = acct[n].gen /\ a.status = acct[n].status
    BY <1>1, <2>2, <2>3
  <2>5. ~IsAdministrator(acct[n]) \/ IsAdministrator(a) \/ OtherAdministrators(n) # {}
    BY <2>2, <2>4 DEF MayUpdate, IsAdministrator, Good, Roles
  <2>6. (a.active # acct[n].active \/ a = acct[n]) \in BOOLEAN
    OBVIOUS
  <2> QED BY <1>1, <2>2, <2>4, <2>5, <2>6, ChangeLemma
<1> QED BY <1>2, <1>3, <1>4, <1>5, <1>6

\* A decision is another person's, or approves: whoever decides remains an
\* administrator, or becomes one.
LEMMA DecideLemma ==
  ASSUME AccountsInv, NEW r \in Reviews, review[r].at = "held", MayDecide(review[r]), Decide(review[r])
  PROVE  /\ AccountPart' /\ changes' = changes + 1
         /\ acct'[review[r].of].status = review[r].to
<1> DEFINE v == review[r]
           n == v.of
           a == [acct[n] EXCEPT !.status = v.to, !.active = v.to = "approved",
                                !.gen = IF acct[n].status = v.to THEN @ ELSE @ + 1]
<1>1. v \in ReviewRecords /\ ReviewOK(v) /\ v.at = "held" /\ AccountPart
  BY AccountsParts DEF ReviewPart
<1>2. n \in Names /\ v.by \in Names /\ v.to \in Decisions /\ (v.to # "approved" => v.by # n)
  BY <1>1 DEF ReviewRecords, ReviewOK
<1>3. /\ acct[n] \in [status : Decisions \cup {"none", "pending"}, role : Roles, active : BOOLEAN, gen : Nat]
      /\ acct[n].gen <= changes /\ changes \in Nat
  BY <1>1, <1>2, AccountForms DEF AccountPart
<1>4. /\ a \in [status : Decisions \cup {"none", "pending"}, role : Roles, active : BOOLEAN, gen : Nat]
      /\ a.gen <= changes + 1 /\ a.status = v.to /\ a.role = acct[n].role
      /\ a.active <=> v.to = "approved"
  <2> DEFINE b == acct[n]
             t == v.to
             on == t = "approved"
             g == IF b.status = t THEN b.gen ELSE b.gen + 1
             S == Decisions \cup {"none", "pending"}
  <2>1. t \in S /\ on \in BOOLEAN /\ g \in Nat /\ g <= changes + 1
    BY <1>2, <1>3
  <2>2. b \in [status : S, role : Roles, active : BOOLEAN, gen : Nat]
    BY <1>3
  <2>3. a = [b EXCEPT !.status = t, !.active = on, !.gen = g]
    OBVIOUS
  <2> HIDE DEF a, b, t, on, g, S
  <2>4. /\ a \in [status : S, role : Roles, active : BOOLEAN, gen : Nat]
        /\ a.gen = g /\ a.status = t /\ a.role = b.role /\ a.active = on
    BY <2>1, <2>2, <2>3
  <2> QED BY <2>1, <2>4 DEF b, t, on, S
<1>5. ~IsAdministrator(acct[n]) \/ IsAdministrator(a) \/ OtherAdministrators(n) # {}
  <2>1. CASE v.to = "approved"
    BY <1>4, <2>1 DEF IsAdministrator, Good
  <2>2. CASE v.to # "approved"
    BY <1>2, <2>2 DEF MayDecide, Authorized, OtherAdministrators
  <2> QED BY <2>1, <2>2
<1>6. Change(n, a, TRUE)
  BY DEF Decide
<1> HIDE DEF a
<1>7. AccountPart' /\ changes' = changes + 1 /\ acct'[n] = a
  BY <1>1, <1>2, <1>4, <1>5, <1>6, ChangeLemma
<1> QED BY <1>4, <1>7

\* The record a decision starts with is in order.
LEMMA AskLemma ==
  ASSUME AccountsInv, NEW r \in Reviews, NEW by \in Names, NEW n \in Names,
         NEW to \in Decisions, AskReview(r, by, n, to)
  PROVE  ReviewPart'
<1> DEFINE key == IF to # "banned" /\ acct[n].status # "banned"
                  THEN <<n, to, acct[n].gen + (IF acct[n].status = to THEN 0 ELSE 1)>>
                  ELSE NoKey
           w == [at |-> "asked", by |-> by, of |-> n, to |-> to, key |-> key]
<1>1. /\ review' = [review EXCEPT ![r] = w] /\ (to # "approved" => by # n)
      /\ (review'[r].key # NoKey => review'[r].key \in Mails)
      /\ asks < MaxAsks /\ asks' = asks + 1 /\ notice' = notice
  BY DEF AskReview
<1>2. key # NoKey => key[1] = n /\ key[2] = to
  OBVIOUS
<1> HIDE DEF key
<1>3. ReviewPart
  BY AccountsParts
<1>4. review'[r] = w /\ \A q \in Reviews \ {r} : review'[q] = review[q]
  BY <1>1, <1>3 DEF ReviewPart
<1>5. key \in Mails \cup {NoKey}
  BY <1>1, <1>4
<1>6. w \in ReviewRecords /\ ReviewOK(w)
  BY <1>1, <1>2, <1>5 DEF ReviewRecords, ReviewOK
<1> HIDE DEF w
<1>7. review' \in [Reviews -> ReviewRecords] /\ \A q \in Reviews : ReviewOK(review'[q])
  BY <1>1, <1>3, <1>4, <1>6 DEF ReviewPart
<1>8. asks' \in 0..MaxAsks
  BY <1>1, <1>3, AccountsAssumption DEF ReviewPart
<1> QED BY <1>1, <1>3, <1>7, <1>8 DEF ReviewPart

\* A decision that ends, or whose mail is put by, leaves the decisions in order.
LEMMA ReviewLemma ==
  ASSUME ReviewPart, NEW r \in Reviews, UNCHANGED asks,
         notice' \in [Mails -> {"none", "held", "aborted", "let_go"}],
         \/ review' = [review EXCEPT ![r].at = "held"] /\ review[r].at = "asked"
         \/ review' = [review EXCEPT ![r] = NoReview]
  PROVE  ReviewPart'
<1>1. review \in [Reviews -> ReviewRecords] /\ \A q \in Reviews : ReviewOK(review[q])
  BY DEF ReviewPart
<1>2. NoReview \in ReviewRecords /\ ReviewOK(NoReview)
  BY AccountsAssumption DEF NoReview, ReviewRecords, ReviewOK, Decisions
<1>3. CASE review' = [review EXCEPT ![r].at = "held"] /\ review[r].at = "asked"
  <2> DEFINE v == review[r]
             w == [v EXCEPT !.at = "held"]
  <2>1. review' = [review EXCEPT ![r] = w] /\ v.at = "asked"
    BY <1>3
  <2>2. v \in ReviewRecords /\ ReviewOK(v)
    BY <1>1
  <2> HIDE DEF v
  <2>3. w \in ReviewRecords /\ ReviewOK(w)
    BY <2>1, <2>2 DEF ReviewRecords, ReviewOK
  <2> HIDE DEF w
  <2>4. review' \in [Reviews -> ReviewRecords] /\ \A q \in Reviews : ReviewOK(review'[q])
    BY <1>1, <2>1, <2>3
  <2> QED BY <2>4 DEF ReviewPart
<1>4. CASE review' = [review EXCEPT ![r] = NoReview]
  BY <1>1, <1>2, <1>4 DEF ReviewPart
<1> QED BY <1>3, <1>4

\* Moving an entry of the outbox keeps its states.
LEMMA MovedLemma ==
  ASSUME ReviewPart, NEW k, NEW from, NEW to \in {"none", "held", "aborted", "let_go"}
  PROVE  Moved(k, from, to) \in [Mails -> {"none", "held", "aborted", "let_go"}]
BY DEF Moved, ReviewPart

\* The inductive invariant holds at first.
LEMMA AccountsInitially == AccountsInit => AccountsInv
<1> SUFFICES ASSUME AccountsInit PROVE AccountsInv
  OBVIOUS
<1> DEFINE h == [NoAccount EXCEPT !.status = "approved", !.role = "host", !.active = TRUE]
<1>1. PICK known \in SUBSET (Names \ {MainHost}) :
        acct = [n \in Names |-> IF n \in known \cup {MainHost} THEN h ELSE NoAccount]
  BY DEF AccountsInit
<1>2. /\ h \in AccountRecords /\ h.gen = 0 /\ IsAdministrator(h)
      /\ NoAccount \in AccountRecords /\ NoAccount.gen = 0
  <2>1. NoAccount \in AccountRecords /\ NoAccount.gen = 0
    BY AccountsAssumption DEF AccountRecords, NoAccount, Decisions, Roles
  <2>2. /\ h \in AccountRecords /\ h.gen = 0
        /\ h.status = "approved" /\ h.role = "host" /\ h.active = TRUE
    BY <2>1 DEF AccountRecords, Decisions, Roles
  <2> QED BY <2>1, <2>2 DEF IsAdministrator, Good
<1> HIDE DEF h
<1>3. /\ acct \in [Names -> AccountRecords] /\ \A n \in Names : acct[n].gen = 0
      /\ IsAdministrator(acct[MainHost])
  BY <1>1, <1>2, AccountsAssumption
<1>4. AccountPart
  BY <1>3, AccountsAssumption DEF AccountsInit, AccountPart, AdministratorRemains
<1>5. NoReview \in ReviewRecords /\ ReviewOK(NoReview)
  BY AccountsAssumption DEF NoReview, ReviewRecords, ReviewOK, Decisions
<1>6. ReviewPart
  BY <1>5, AccountsAssumption DEF AccountsInit, ReviewPart
<1> QED BY <1>4, <1>6, AccountsParts

\* Every step keeps the inductive invariant.
LEMMA AccountsStep == AccountsInv /\ [AccountsNext]_accountVars => AccountsInv'
<1> SUFFICES ASSUME AccountsInv, [AccountsNext]_accountVars PROVE AccountsInv'
  OBVIOUS
<1>1. AccountPart /\ ReviewPart
  BY AccountsParts
<1>2. ASSUME UNCHANGED <<acct, signed, pending, changes>> PROVE AccountPart'
  BY <1>1, <1>2 DEF AccountPart, AdministratorRemains
<1>3. ASSUME UNCHANGED Reviewing PROVE ReviewPart'
  BY <1>1, <1>3 DEF ReviewPart, Reviewing
<1>4. ASSUME NEW n \in Names, SignUp(n) PROVE AccountsInv'
  <2>1. UNCHANGED <<review, asks>> /\ notice' = [notice EXCEPT ![<<n, "received", 0>>] = "let_go"]
    BY <1>4 DEF SignUp
  <2>2. ReviewPart'
    BY <1>1, <2>1 DEF ReviewPart
  <2>3. AccountPart'
    BY <1>1, <1>4, AccountSteps
  <2> QED BY <2>2, <2>3, AccountsParts
<1>5. ASSUME NEW n \in Names,
             \/ Prune(n) \/ Bootstrap(n) \/ FlagSelf(n) \/ RecoverByMail(n)
             \/ \E by \in Names : CreateAccount(by, n) \/ UpdateAccount(by, n) \/ RevokeSessions(by, n)
      PROVE  AccountsInv'
  <2>1. UNCHANGED Reviewing
    BY <1>5 DEF Prune, Bootstrap, FlagSelf, RecoverByMail, CreateAccount, UpdateAccount, RevokeSessions
  <2>2. AccountPart'
    BY <1>1, <1>5, AccountSteps
  <2> QED BY <1>3, <2>1, <2>2, AccountsParts
<1>6. ASSUME NEW n \in Names, GivePassword(n) \/ GiveSecondFactor(n) PROVE AccountsInv'
  <2>1. UNCHANGED <<acct, changes>> /\ UNCHANGED Reviewing
        /\ signed' \subseteq Names /\ pending' \subseteq Names
    BY <1>1, <1>6 DEF GivePassword, GiveSecondFactor, AccountPart
  <2>2. AccountPart'
    BY <1>1, <2>1 DEF AccountPart, AdministratorRemains
  <2> QED BY <1>3, <2>1, <2>2, AccountsParts
<1>7. ASSUME NEW by \in Names, NEW n \in Names, NEW r \in Reviews, NEW to \in Decisions,
             AskReview(r, by, n, to)
      PROVE  AccountsInv'
  BY <1>2, <1>7, AskLemma, AccountsParts DEF AskReview
<1>8. ASSUME NEW r \in Reviews, HoldMail(r) PROVE AccountsInv'
  <2>1. /\ \/ review' = [review EXCEPT ![r].at = "held"] /\ review[r].at = "asked"
           \/ review' = [review EXCEPT ![r] = NoReview]
        /\ notice' = Moved(review[r].key, {"none", "aborted"}, "held") \/ notice' = notice
        /\ UNCHANGED asks /\ UNCHANGED <<acct, signed, pending, changes>>
    BY <1>8 DEF HoldMail
  <2>2. notice' \in [Mails -> {"none", "held", "aborted", "let_go"}]
    BY <1>1, <2>1, MovedLemma DEF ReviewPart
  <2>3. ReviewPart'
    BY <1>1, <2>1, <2>2, ReviewLemma
  <2> QED BY <1>2, <2>1, <2>3, AccountsParts
<1>9. ASSUME NEW r \in Reviews, CommitReview(r) \/ RefuseReview(r) PROVE AccountsInv'
  <2>1. /\ review' = [review EXCEPT ![r] = NoReview] /\ UNCHANGED asks
        /\ \/ notice' = Moved(review[r].key, {"held"}, "let_go")
           \/ notice' = Moved(review[r].key, {"held"}, "aborted")
           \/ notice' = notice
    BY <1>9 DEF CommitReview, RefuseReview
  <2>2. notice' \in [Mails -> {"none", "held", "aborted", "let_go"}]
    BY <1>1, <2>1, MovedLemma DEF ReviewPart
  <2>3. ReviewPart'
    BY <1>1, <2>1, <2>2, ReviewLemma
  <2>4. AccountPart'
    BY <1>2, <1>9, DecideLemma DEF CommitReview, RefuseReview
  <2> QED BY <2>3, <2>4, AccountsParts
<1>10. CASE AccountsCrash
  <2>1. NoReview \in ReviewRecords /\ ReviewOK(NoReview)
    BY AccountsAssumption DEF NoReview, ReviewRecords, ReviewOK, Decisions
  <2>2. ReviewPart'
    BY <1>1, <1>10, <2>1 DEF AccountsCrash, ReviewPart
  <2>3. AccountPart'
    BY <1>2, <1>10, DecideLemma DEF AccountsCrash
  <2> QED BY <2>2, <2>3, AccountsParts
<1>11. CASE UNCHANGED accountVars
  BY <1>2, <1>3, <1>11, AccountsParts DEF accountVars, Reviewing
<1> QED BY <1>4, <1>5, <1>6, <1>7, <1>8, <1>9, <1>10, <1>11 DEF AccountsNext

\* The inductive invariant holds throughout.
THEOREM AccountsInvariance == AccountsSpec => []AccountsInv
BY AccountsInitially, AccountsStep, PTL DEF AccountsSpec

\* "The system always keeps at least one active Admin or Host account", for any number
\* of people, of decisions under way and of changes.
THEOREM AnAdministratorRemains == AccountsSpec => []AdministratorRemains
<1>1. AccountsInv => AdministratorRemains
  BY DEF AccountsInv
<1> QED BY <1>1, AccountsInvariance, PTL

\* The mail of a decision is let go with that decision, and never before or without it.
THEOREM MailsFollowDecisions == AccountsSpec => MailFollowsDecision
<1> DEFINE Follows ==
             notice' # notice =>
               \A k \in Mails : k[2] # "received" /\ notice[k] # "let_go" /\ notice'[k] = "let_go"
                 => changes' = changes + 1 /\ acct'[k[1]].status = k[2]
<1>1. AccountsInv /\ [AccountsNext]_accountVars => [Follows]_accountVars
  <2> SUFFICES ASSUME AccountsInv, AccountsNext,
                      NEW k \in Mails, k[2] # "received", notice[k] # "let_go", notice'[k] = "let_go"
               PROVE  changes' = changes + 1 /\ acct'[k[1]].status = k[2]
    OBVIOUS
  <2>1. ReviewPart /\ notice \in [Mails -> {"none", "held", "aborted", "let_go"}]
    BY AccountsParts DEF ReviewPart
  <2>2. ASSUME NEW j, NEW from, NEW to, notice' = Moved(j, from, to) PROVE k = j /\ to = "let_go"
    BY <2>1, <2>2 DEF Moved
  <2>3. ~ UNCHANGED notice
    OBVIOUS
  <2>4. ASSUME NEW n \in Names, SignUp(n) PROVE FALSE
    <3>1. notice' = [notice EXCEPT ![<<n, "received", 0>>] = "let_go"]
      BY <2>4 DEF SignUp
    <3>2. k # <<n, "received", 0>>
      OBVIOUS
    <3> QED BY <2>1, <3>1, <3>2
  <2>5. ASSUME NEW r \in Reviews, HoldMail(r) PROVE FALSE
    <3>1. notice' = Moved(review[r].key, {"none", "aborted"}, "held")
      BY <2>3, <2>5 DEF HoldMail
    <3> QED BY <2>2, <3>1
  <2>6. ASSUME NEW r \in Reviews, RefuseReview(r) PROVE FALSE
    <3>1. notice' = Moved(review[r].key, {"held"}, "aborted")
      BY <2>6 DEF RefuseReview
    <3> QED BY <2>2, <3>1
  <2>7. PICK r \in Reviews : CommitReview(r)
    BY ZenonT(90), <2>3, <2>4, <2>5, <2>6
       DEF AccountsNext, Reviewing, Prune, Bootstrap, FlagSelf, RecoverByMail, CreateAccount,
           UpdateAccount, RevokeSessions, GivePassword, GiveSecondFactor, AskReview, AccountsCrash
  <2>8. notice' = Moved(review[r].key, {"held"}, "let_go")
    BY <2>3, <2>7 DEF CommitReview
  <2>9. k = review[r].key /\ k # NoKey
    BY <2>2, <2>8, AccountsAssumption DEF Mails
  <2>10. k[1] = review[r].of /\ k[2] = review[r].to
    BY <2>1, <2>9 DEF ReviewPart, ReviewOK
  <2> QED BY <2>7, <2>10, DecideLemma DEF CommitReview
<1> QED BY <1>1, AccountsInvariance, PTL DEF AccountsSpec, MailFollowsDecision

-----------------------------------------------------------------------------
(* The outbox: how often a mail may still leave.                           *)

\* The deliveries that are sending mail l.
Carriers(l) == {d \in Deliveries : sending[d] = l}

\* Whether a further delivery of an entry may start before another lapse.
Sendable(e) ==
  IF \/ e.state \in {"none", "held", "aborted", "queued", "retry"}
     \/ e.state = "sending" /\ e.over
  THEN 1 ELSE 0

\* What left, what is on its way and what may still start is paid for by lapses.
MailsPaid == \A l \in Letters : sent[l] + Cardinality(Carriers(l)) + Sendable(letter[l]) <= 1 + lapses

Entries == [state : States, tries : 0..MaxAttempts, claim : Deliveries \cup {NoLetter}, over : BOOLEAN]

\* The inductive invariant.
OutboxInv ==
  /\ letter \in [Letters -> Entries]
  /\ sending \in [Deliveries -> Letters \cup {NoLetter}]
  /\ lapses \in 0..MaxLapses
  /\ sent \in [Letters -> Nat]
  /\ MailsPaid

\* Each mail is carried by finitely many deliveries.
LEMMA CarriersCount ==
  \A l : IsFiniteSet(Carriers(l)) /\ Cardinality(Carriers(l)) \in Nat
<1> TAKE l
<1>1. Carriers(l) \subseteq Deliveries /\ IsFiniteSet(Deliveries)
  BY OutboxAssumption DEF Carriers
<1> QED BY <1>1, FS_Subset, FS_CardinalityType

\* A delivery that starts is one more carrier of its mail.
LEMMA CarrierAdded ==
  ASSUME OutboxInv, NEW d \in Deliveries, NEW l \in Letters, sending[d] = NoLetter,
         sending' = [sending EXCEPT ![d] = l]
  PROVE  /\ Cardinality(Carriers(l)') = Cardinality(Carriers(l)) + 1
         /\ \A m \in Letters \ {l} : Carriers(m)' = Carriers(m)
<1>1. l # NoLetter /\ sending \in [Deliveries -> Letters \cup {NoLetter}] /\ NoLetter \notin Letters
  BY OutboxAssumption DEF OutboxInv
<1>2. Carriers(l)' = Carriers(l) \cup {d} /\ d \notin Carriers(l)
  BY <1>1 DEF Carriers
<1>3. \A m \in Letters \ {l} : Carriers(m)' = Carriers(m)
  BY <1>1 DEF Carriers
<1> QED BY ZenonT(60), <1>2, <1>3, CarriersCount, FS_AddElement

\* A delivery that ends is one carrier less of its mail.
LEMMA CarrierRemoved ==
  ASSUME OutboxInv, NEW d \in Deliveries, NEW l \in Letters, sending[d] = l,
         sending' = [sending EXCEPT ![d] = NoLetter]
  PROVE  /\ Cardinality(Carriers(l)') = Cardinality(Carriers(l)) - 1
         /\ \A m \in Letters \ {l} : Carriers(m)' = Carriers(m)
<1>1. sending \in [Deliveries -> Letters \cup {NoLetter}] /\ NoLetter \notin Letters
  BY OutboxAssumption DEF OutboxInv
<1>2. Carriers(l)' = Carriers(l) \ {d} /\ d \in Carriers(l)
  BY <1>1 DEF Carriers
<1>3. \A m \in Letters \ {l} : Carriers(m)' = Carriers(m)
  BY <1>1 DEF Carriers
<1> QED BY SMTT(30), <1>2, <1>3, CarriersCount, FS_RemoveElement

\* An outcome writes the entry of its own mail only, and that at most once sendable
\* again, but not when the mail was sent.
LEMMA CompletedLemma ==
  ASSUME OutboxInv, NEW d \in Deliveries, NEW l \in Letters, sending[d] = l,
         NEW state \in {"sent", "retry", "failed"}
  PROVE  /\ Completed(d, state) \in [Letters -> Entries]
         /\ \A m \in Letters \ {l} : Completed(d, state)[m] = letter[m]
         /\ state = "sent" => Sendable(Completed(d, state)[l]) <= Sendable(letter[l])
<1> DEFINE e == [NoEntry EXCEPT !.state = state, !.tries = letter[l].tries]
<1>1. letter \in [Letters -> Entries] /\ letter[l].tries \in 0..MaxAttempts
  BY DEF OutboxInv, Entries
<1>2. NoEntry \in Entries
  BY OutboxAssumption DEF NoEntry, Entries, States
<1>3. e \in Entries /\ e.state = state
  BY <1>1, <1>2 DEF Entries, States
<1>4. Completed(d, state) = [letter EXCEPT ![l] = e] \/ Completed(d, state) = letter
  BY DEF Completed
<1>5. state = "sent" => Sendable(e) = 0
  BY <1>3 DEF Sendable
<1> HIDE DEF e
<1>6. Sendable(letter[l]) \in {0, 1}
  BY DEF Sendable
<1> QED BY <1>1, <1>3, <1>4, <1>5, <1>6

\* A step that changes no carriers and no count, and at most one entry.
LEMMA EntryLemma ==
  ASSUME OutboxInv, NEW l \in Letters, NEW e \in Entries, letter' = [letter EXCEPT ![l] = e],
         UNCHANGED <<sending, sent>>, lapses' \in {lapses, lapses + 1}, lapses' <= MaxLapses,
         Sendable(letter[l]) = 1 \/ lapses' = lapses + 1
  PROVE  OutboxInv'
<1>1. /\ letter \in [Letters -> Entries] /\ letter'[l] = e
      /\ \A m \in Letters \ {l} : letter'[m] = letter[m]
      /\ letter' \in [Letters -> Entries] /\ lapses \in Nat /\ MaxLapses \in Nat
      /\ sent \in [Letters -> Nat] /\ sent' = sent
  BY OutboxAssumption DEF OutboxInv
<1>2. \A x : Sendable(x) \in {0, 1}
  BY DEF Sendable
<1>3. \A m : Carriers(m)' = Carriers(m)
  BY DEF Carriers
<1>4. MailsPaid'
  <2> SUFFICES ASSUME NEW m \in Letters
               PROVE  sent[m] + Cardinality(Carriers(m)) + Sendable(letter'[m]) <= 1 + lapses'
    BY <1>1, <1>3 DEF MailsPaid
  <2>1. sent[m] + Cardinality(Carriers(m)) + Sendable(letter[m]) <= 1 + lapses
    BY DEF OutboxInv, MailsPaid
  <2>2. sent[m] \in Nat /\ Cardinality(Carriers(m)) \in Nat
        /\ Sendable(letter[m]) \in {0, 1} /\ Sendable(letter'[m]) \in {0, 1}
    BY <1>1, <1>2, CarriersCount
  <2>3. m # l => letter'[m] = letter[m]
    BY <1>1
  <2>4. m = l => Sendable(letter[m]) = 1 \/ lapses' = lapses + 1
    OBVIOUS
  <2>5. lapses' \in {lapses, lapses + 1} /\ lapses \in Nat
    BY <1>1
  <2> QED BY <2>1, <2>2, <2>3, <2>4, <2>5
<1> QED BY <1>1, <1>4 DEF OutboxInv

\* A delivery ends: its mail may be sendable again if it did not leave, or at the price
\* of a lapse.
LEMMA EndsLemma ==
  ASSUME OutboxInv, NEW d \in Deliveries, NEW state \in {"sent", "retry", "failed"},
         NEW out \in BOOLEAN, Ends(d, Completed(d, state), out),
         lapses' \in {lapses, lapses + 1}, lapses' <= MaxLapses,
         ~out \/ state = "sent" \/ lapses' = lapses + 1
  PROVE  OutboxInv'
<1>0. PICK l \in Letters : sending[d] = l
  BY DEF Ends, OutboxInv
<1>1. /\ letter' = Completed(d, state)
      /\ sent' = IF out THEN [sent EXCEPT ![l] = @ + 1] ELSE sent
      /\ sending' = [sending EXCEPT ![d] = NoLetter] /\ sending[d] = l
  BY <1>0 DEF Ends
<1>2. /\ sent \in [Letters -> Nat] /\ lapses \in Nat /\ MaxLapses \in Nat
      /\ sending \in [Deliveries -> Letters \cup {NoLetter}]
  BY OutboxAssumption DEF OutboxInv
<1>3. /\ letter' \in [Letters -> Entries]
      /\ \A m \in Letters \ {l} : letter'[m] = letter[m]
      /\ state = "sent" => Sendable(letter'[l]) <= Sendable(letter[l])
  BY <1>1, CompletedLemma
<1>4. /\ Cardinality(Carriers(l)') = Cardinality(Carriers(l)) - 1
      /\ \A m \in Letters \ {l} : Carriers(m)' = Carriers(m)
  BY <1>1, CarrierRemoved
<1>5. sent' \in [Letters -> Nat] /\ sending' \in [Deliveries -> Letters \cup {NoLetter}]
  BY <1>1, <1>2
<1>6. /\ sent'[l] = IF out THEN sent[l] + 1 ELSE sent[l]
      /\ \A m \in Letters \ {l} : sent'[m] = sent[m]
  BY <1>1, <1>2
<1>7. \A x : Sendable(x) \in {0, 1}
  BY DEF Sendable
<1>8. MailsPaid'
  <2> SUFFICES ASSUME NEW m \in Letters
               PROVE  sent'[m] + Cardinality(Carriers(m)') + Sendable(letter'[m]) <= 1 + lapses'
    BY DEF MailsPaid
  <2>1. sent[m] + Cardinality(Carriers(m)) + Sendable(letter[m]) <= 1 + lapses
    BY DEF OutboxInv, MailsPaid
  <2>2. sent[m] \in Nat /\ Cardinality(Carriers(m)) \in Nat
        /\ Sendable(letter[m]) \in {0, 1} /\ Sendable(letter'[m]) \in {0, 1}
    BY <1>2, <1>7, CarriersCount
  <2>3. CASE m # l
    <3>1. sent'[m] = sent[m] /\ Carriers(m)' = Carriers(m) /\ letter'[m] = letter[m]
      BY <1>3, <1>4, <1>6, <2>3
    <3>2. lapses' >= lapses
      BY <1>2
    <3> QED BY <1>2, <2>1, <2>2, <3>1, <3>2
  <2>4. CASE m = l
    <3>1. /\ sent'[m] = IF out THEN sent[m] + 1 ELSE sent[m]
          /\ Cardinality(Carriers(m)') = Cardinality(Carriers(m)) - 1
          /\ state = "sent" => Sendable(letter'[m]) <= Sendable(letter[m])
      BY <1>3, <1>4, <1>6, <2>4
    <3> QED BY <1>2, <2>1, <2>2, <3>1
  <2> QED BY <2>3, <2>4
<1> QED BY <1>2, <1>3, <1>5, <1>8 DEF OutboxInv

\* Every step keeps what is paid for.
LEMMA OutboxStep == OutboxInv /\ [OutboxNext]_outboxVars => OutboxInv'
<1> SUFFICES ASSUME OutboxInv, [OutboxNext]_outboxVars PROVE OutboxInv'
  OBVIOUS
<1>1. /\ letter \in [Letters -> Entries] /\ lapses \in Nat /\ MaxLapses \in Nat /\ MaxAttempts \in Nat
      /\ lapses <= MaxLapses /\ sent \in [Letters -> Nat]
      /\ sending \in [Deliveries -> Letters \cup {NoLetter}] /\ NoLetter \notin Letters
  BY OutboxAssumption DEF OutboxInv
<1>2. \A x : Sendable(x) \in {0, 1}
  BY DEF Sendable
<1>3. ASSUME NEW l \in Letters, QueueLetter(l) \/ HoldAgain(l) \/ LetGo(l) \/ Abort(l) PROVE OutboxInv'
  <2>1. PICK to \in {"held", "queued", "aborted"} : Entry(l, {"none", "held", "aborted"}, to)
    BY <1>3 DEF QueueLetter, HoldAgain, LetGo, Abort, Entry
  <2> DEFINE b == letter[l]
             e == [b EXCEPT !.state = to]
  <2>2. letter' = [letter EXCEPT ![l] = e] /\ UNCHANGED <<sending, lapses, sent>> /\ Sendable(b) = 1
    BY <2>1 DEF Entry, Sendable
  <2>3. e \in Entries
    <3>1. b \in Entries
      BY <1>1
    <3> HIDE DEF b
    <3> QED BY <3>1 DEF Entries, States
  <2> HIDE DEF e
  <2> QED BY <1>1, <2>2, <2>3, EntryLemma
<1>4. ASSUME NEW l \in Letters, LeaseEnds(l) PROVE OutboxInv'
  <2> DEFINE b == letter[l]
             e == [b EXCEPT !.over = TRUE]
  <2>1. letter' = [letter EXCEPT ![l] = e] /\ UNCHANGED <<sending, sent>>
        /\ lapses' = lapses + 1 /\ lapses' <= MaxLapses
    BY <1>1, <1>4 DEF LeaseEnds, Lapse
  <2>2. e \in Entries
    <3>1. b \in Entries
      BY <1>1
    <3> HIDE DEF b
    <3> QED BY <3>1 DEF Entries
  <2> HIDE DEF e
  <2> QED BY <2>1, <2>2, EntryLemma
<1>5. ASSUME NEW l \in Letters, NEW d \in Deliveries, Claim(d, l) PROVE OutboxInv'
  <2> DEFINE e == [state |-> "sending", tries |-> letter[l].tries + 1, claim |-> d, over |-> FALSE]
  <2>1. /\ letter' = [letter EXCEPT ![l] = e] /\ sending' = [sending EXCEPT ![d] = l]
        /\ sending[d] = NoLetter /\ UNCHANGED <<lapses, sent>>
    BY <1>5 DEF Claim
  <2>2. Sendable(letter[l]) = 1 /\ letter[l].tries < MaxAttempts /\ letter[l].tries \in Nat
    BY <1>1, <1>5 DEF Claim, Claimable, Sendable, Entries
  <2>3. e \in Entries /\ Sendable(e) = 0
    BY <1>1, <2>2 DEF Entries, States, Sendable
  <2> HIDE DEF e
  <2>4. /\ letter' \in [Letters -> Entries] /\ letter'[l] = e
        /\ \A m \in Letters \ {l} : letter'[m] = letter[m]
        /\ sending' \in [Deliveries -> Letters \cup {NoLetter}]
    BY <1>1, <2>1, <2>3
  <2>5. /\ Cardinality(Carriers(l)') = Cardinality(Carriers(l)) + 1
        /\ \A m \in Letters \ {l} : Carriers(m)' = Carriers(m)
    BY <2>1, CarrierAdded
  <2>6. MailsPaid'
    <3> SUFFICES ASSUME NEW m \in Letters
                 PROVE  sent[m] + Cardinality(Carriers(m)') + Sendable(letter'[m]) <= 1 + lapses
      BY <2>1 DEF MailsPaid
    <3>1. sent[m] + Cardinality(Carriers(m)) + Sendable(letter[m]) <= 1 + lapses
      BY DEF OutboxInv, MailsPaid
    <3>2. sent[m] \in Nat /\ Cardinality(Carriers(m)) \in Nat
      BY <1>1, CarriersCount
    <3>3. CASE m = l
      <4>1. Sendable(letter'[m]) = 0 /\ Sendable(letter[m]) = 1
            /\ Cardinality(Carriers(m)') = Cardinality(Carriers(m)) + 1
        BY <2>2, <2>3, <2>4, <2>5, <3>3
      <4> QED BY <1>1, <3>1, <3>2, <4>1
    <3>4. CASE m # l
      BY <2>4, <2>5, <3>1, <3>4
    <3> QED BY <3>3, <3>4
  <2> QED BY <1>1, <2>1, <2>4, <2>6 DEF OutboxInv
<1>6. ASSUME NEW d \in Deliveries, Delivered(d) PROVE OutboxInv'
  <2>1. Ends(d, Completed(d, "sent"), TRUE) /\ lapses' = lapses
    BY <1>6 DEF Delivered
  <2> QED BY <1>1, <2>1, EndsLemma
<1>7. ASSUME NEW d \in Deliveries, Unrecorded(d) \/ NotTaken(d) PROVE OutboxInv'
  <2>1. PICK state \in {"failed", "retry"} : Unsent(d) = Completed(d, state)
    BY DEF Unsent
  <2>2. \/ Ends(d, Completed(d, state), TRUE) /\ lapses' = lapses + 1 /\ lapses' <= MaxLapses
        \/ Ends(d, Completed(d, state), FALSE) /\ lapses' = lapses
    <3>1. CASE Unrecorded(d)
      <4>1. lapses' = lapses + 1 /\ lapses' <= MaxLapses
        BY <1>1, <3>1 DEF Unrecorded, Lapse
      <4>2. Ends(d, Completed(d, state), TRUE)
        BY <2>1, <3>1 DEF Unrecorded
      <4> QED BY <4>1, <4>2
    <3>2. CASE NotTaken(d)
      BY <2>1, <3>2 DEF NotTaken
    <3> QED BY <1>7, <3>1, <3>2
  <2> QED BY <1>1, <2>2, EndsLemma
<1>8. CASE RetryByHand \/ OutboxCrash
  <2> DEFINE q == [NoEntry EXCEPT !.state = "queued"]
  <2>1. NoEntry \in Entries
    BY OutboxAssumption DEF NoEntry, Entries, States
  <2>2. q \in Entries
    BY <2>1 DEF Entries, States
  <2> HIDE DEF q
  <2>3. /\ letter' \in [Letters -> Entries] /\ lapses' = lapses + 1 /\ lapses' <= MaxLapses
        /\ sent' = sent
    BY <1>1, <1>8, <2>2 DEF RetryByHand, OutboxCrash, Lapse, q
  <2>4. /\ sending' \in [Deliveries -> Letters \cup {NoLetter}]
        /\ \A m \in Letters : Carriers(m)' \subseteq Carriers(m)
    BY <1>1, <1>8 DEF RetryByHand, OutboxCrash, Carriers
  <2>5. MailsPaid'
    <3> SUFFICES ASSUME NEW m \in Letters
                 PROVE  sent[m] + Cardinality(Carriers(m)') + Sendable(letter'[m]) <= 1 + lapses'
      BY <2>3 DEF MailsPaid
    <3>1. sent[m] + Cardinality(Carriers(m)) + Sendable(letter[m]) <= 1 + lapses
      BY DEF OutboxInv, MailsPaid
    <3>2. Cardinality(Carriers(m)') <= Cardinality(Carriers(m)) /\ Cardinality(Carriers(m)') \in Nat
      BY <2>4, CarriersCount, FS_Subset, FS_CardinalityType
    <3>3. /\ sent[m] \in Nat /\ Cardinality(Carriers(m)) \in Nat
          /\ Sendable(letter[m]) \in {0, 1} /\ Sendable(letter'[m]) \in {0, 1}
      BY <1>1, <1>2, CarriersCount
    <3> QED BY <1>1, <2>3, <3>1, <3>2, <3>3
  <2> QED BY <1>1, <2>3, <2>4, <2>5 DEF OutboxInv
<1>9. CASE UNCHANGED outboxVars
  BY <1>9 DEF outboxVars, OutboxInv, MailsPaid, Carriers
<1> QED BY <1>3, <1>4, <1>5, <1>6, <1>7, <1>8, <1>9 DEF OutboxNext

\* Whatever lapses, is retried or is lost, what left is paid for.
THEOREM OutboxInvariance == OutboxSpec => []OutboxInv
<1>1. OutboxInit => OutboxInv
  <2> SUFFICES ASSUME OutboxInit PROVE OutboxInv
    OBVIOUS
  <2>1. NoEntry \in Entries /\ Sendable(NoEntry) = 1
    BY OutboxAssumption DEF NoEntry, Entries, States, Sendable
  <2>2. \A l \in Letters : Carriers(l) = {}
    BY OutboxAssumption DEF OutboxInit, Carriers
  <2>3. Cardinality({}) = 0
    BY FS_EmptySet
  <2> QED BY <2>1, <2>2, <2>3, OutboxAssumption DEF OutboxInit, OutboxInv, MailsPaid
<1> QED BY <1>1, OutboxStep, PTL DEF OutboxSpec

\* For any number of mails and of deliveries: a mail leaves once, and once more at most
\* for each lapse.
THEOREM MailsAreNotRepeated == OutboxSpec => []NoNeedlessMail
<1>1. OutboxInv => NoNeedlessMail
  <2> SUFFICES ASSUME OutboxInv, NEW l \in Letters PROVE sent[l] <= 1 + lapses
    BY DEF NoNeedlessMail
  <2>1. sent[l] + Cardinality(Carriers(l)) + Sendable(letter[l]) <= 1 + lapses
    BY DEF OutboxInv, MailsPaid
  <2>2. sent[l] \in Nat /\ lapses \in Nat /\ Cardinality(Carriers(l)) \in Nat /\ Sendable(letter[l]) \in {0, 1}
    BY OutboxAssumption, CarriersCount DEF OutboxInv, Sendable
  <2> QED BY <2>1, <2>2
<1> QED BY <1>1, OutboxInvariance, PTL

-----------------------------------------------------------------------------
(* The deletion: what is recorded of a removal is true.                    *)

Requests == [status : Open \cup {"none", "failed", "completed"}, token : Processors \cup {NoOne},
             progress : SUBSET CategorySet]

\* The account; an erased one stays switched off.
PersonOK ==
  /\ lock \in {"open", "requested", "completed"} /\ active \in BOOLEAN
  /\ sessions \subseteq Sessions /\ erasedFor \in 0..MaxRequests
  /\ references \in {"own", "tombstone"}
  /\ lock = "completed" => ~active

\* A request is completed when everything is recorded; a held one is processed.
RequestsOK ==
  /\ request \in [Records -> Requests]
  /\ \A r \in Records :
       /\ request[r].status = "completed" <=> request[r].progress = CategorySet
       /\ request[r].token # NoOne => request[r].status = "processing"

AskersOK ==
  /\ asker \in [Askers -> [at : {"none", "checking", "locking"},
                           from : Sessions \cup {NoOne}, record : 0..MaxRequests]]
  /\ \A a \in Askers : asker[a].at = "locking" => asker[a].record \in Records

\* What a removal still has to do is what is not recorded yet.
RemovalsOK ==
  /\ processor \in [Processors -> [at : {"none", "planning", "applying"},
                                   record : 0..MaxRequests, todo : SUBSET CategorySet]]
  /\ \A p \in Processors :
       /\ processor[p].at # "none" => processor[p].record \in Records
       /\ processor[p].at = "applying"
            => processor[p].todo = CategorySet \ request[processor[p].record].progress
  /\ OneRemoval

\* The inductive invariant.
DeletionInv ==
  /\ PersonOK /\ RequestsOK /\ AskersOK /\ RemovalsOK /\ ProgressIsReal
  /\ moves \in 0..MaxMoves

\* What the account is after a step agrees with what was recorded before it.
RecordedKept ==
  /\ PersonOK'
  /\ \A r \in Records :
       /\ "account" \in request[r].progress => lock' = "completed" /\ erasedFor' = r
       /\ "references" \in request[r].progress => references' = "tombstone"

\* The four categories.
LEMMA CategoriesAre == CategorySet = {"access", "account", "references", "audit"}
BY DEF CategorySet, Categories

\* The next category is one that is still to be done.
LEMMA NextLemma ==
  ASSUME NEW p \in Processors, processor[p].todo \subseteq CategorySet, processor[p].todo # {}
  PROVE  NextCategory(p) \in processor[p].todo
<1> DEFINE todo == processor[p].todo
           First(i) == /\ Categories[i] \in todo
                       /\ \A j \in 1..(i - 1) : Categories[j] \notin todo
<1>1. /\ Categories[1] = "access" /\ Categories[2] = "account"
      /\ Categories[3] = "references" /\ Categories[4] = "audit" /\ Len(Categories) = 4
  BY DEF Categories
<1>2. Categories[1] \in todo \/ Categories[2] \in todo \/ Categories[3] \in todo \/ Categories[4] \in todo
  BY <1>1, CategoriesAre
<1> HIDE DEF todo
<1>3. \E i \in 1..4 : First(i)
  <2>1. CASE Categories[1] \in todo
    <3>1. First(1)
      BY <2>1
    <3> QED BY <3>1
  <2>2. CASE Categories[1] \notin todo /\ Categories[2] \in todo
    <3>1. First(2)
      BY <2>2
    <3> QED BY <3>1
  <2>3. CASE Categories[1] \notin todo /\ Categories[2] \notin todo /\ Categories[3] \in todo
    <3>1. First(3)
      BY <2>3
    <3> QED BY <3>1
  <2>4. CASE Categories[1] \notin todo /\ Categories[2] \notin todo /\ Categories[3] \notin todo
    <3>1. First(4)
      BY <1>2, <2>4
    <3> QED BY <3>1
  <2> QED BY <2>1, <2>2, <2>3, <2>4
<1>4. First(CHOOSE i \in 1..4 : First(i))
  BY <1>3
<1> HIDE DEF First
<1>5. NextCategory(p) = Categories[CHOOSE i \in 1..4 : First(i)]
  BY <1>1 DEF NextCategory, First, todo
<1> QED BY <1>4, <1>5 DEF First, todo

\* A removal at work knows a category it has not recorded yet.
LEMMA WorkLemma ==
  ASSUME DeletionInv, NEW p \in Processors, processor[p].at = "applying"
  PROVE  LET r == processor[p].record
             c == NextCategory(p)
         IN /\ r \in Records /\ request[r].token = p /\ request[r].status = "processing"
            /\ c \in CategorySet /\ c \notin request[r].progress
            /\ processor[p].todo = CategorySet \ request[r].progress /\ c \in processor[p].todo
<1> DEFINE r == processor[p].record
<1>1. /\ r \in Records /\ request[r].token = p
      /\ processor[p].todo = CategorySet \ request[r].progress
  BY DEF DeletionInv, RemovalsOK, OneRemoval
<1>2. request[r].status = "processing" /\ request[r].progress # CategorySet
  BY <1>1, DeletionAssumption DEF DeletionInv, RequestsOK
<1>3. request[r].progress \subseteq CategorySet
  BY <1>1 DEF DeletionInv, RequestsOK, Requests
<1>4. NextCategory(p) \in processor[p].todo
  BY <1>1, <1>2, <1>3, NextLemma
<1> QED BY <1>1, <1>2, <1>4

\* Applying a category undoes nothing that was recorded.
LEMMA ApplyLemma ==
  ASSUME DeletionInv, NEW r \in Records, NEW c, Apply(r, c)
  PROVE  /\ RecordedKept
         /\ c = "account" => lock' = "completed" /\ erasedFor' = r
         /\ c = "references" => references' = "tombstone"
<1>1. PersonOK'
  BY DeletionAssumption DEF DeletionInv, PersonOK, Apply, Erasable, Records
<1>2. c = "account" => lock' = "completed" /\ erasedFor' = r
  BY DEF Apply
<1>3. c = "references" => references' = "tombstone"
  BY DEF Apply
<1>4. ASSUME NEW q \in Records
      PROVE  /\ "account" \in request[q].progress => lock' = "completed" /\ erasedFor' = q
             /\ "references" \in request[q].progress => references' = "tombstone"
  <2>1. /\ "account" \in request[q].progress => lock = "completed" /\ erasedFor = q
        /\ "references" \in request[q].progress => references = "tombstone"
    BY DEF DeletionInv, ProgressIsReal
  <2> QED BY <2>1 DEF Apply, Erasable
<1> QED BY <1>1, <1>2, <1>3, <1>4 DEF RecordedKept

\* No step of a person undoes what was recorded: nobody can ask once the account is erased.
LEMMA PersonLemma ==
  ASSUME DeletionInv,
         \/ UNCHANGED Person
         \/ \E a \in Askers : LockAccount(a)
         \/ \E s \in sessions : sessions' = sessions \ {s} /\ UNCHANGED <<lock, active, erasedFor, references>>
         \/ lock = "requested" /\ active' = TRUE /\ sessions' = Sessions
            /\ UNCHANGED <<lock, erasedFor, references>>
  PROVE  RecordedKept
<1>1. ASSUME NEW a \in Askers, LockAccount(a) PROVE lock # "completed"
  BY <1>1 DEF LockAccount, MayAsk, DeletionInv, PersonOK
<1>2. PersonOK'
  <2>0. PersonOK
    BY DEF DeletionInv
  <2>1. CASE UNCHANGED Person
    BY <2>0, <2>1 DEF PersonOK, Person
  <2>2. ASSUME NEW a \in Askers, LockAccount(a) PROVE PersonOK'
    BY <2>0, <2>2 DEF PersonOK, LockAccount
  <2>3. ASSUME NEW s \in sessions, sessions' = sessions \ {s},
               UNCHANGED <<lock, active, erasedFor, references>>
        PROVE  PersonOK'
    BY <2>0, <2>3 DEF PersonOK
  <2>4. CASE /\ lock = "requested" /\ active' = TRUE /\ sessions' = Sessions
             /\ UNCHANGED <<lock, erasedFor, references>>
    BY <2>0, <2>4 DEF PersonOK
  <2> QED BY <2>1, <2>2, <2>3, <2>4
<1>3. ASSUME NEW q \in Records
      PROVE  /\ "account" \in request[q].progress => lock' = "completed" /\ erasedFor' = q
             /\ "references" \in request[q].progress => references' = "tombstone"
  <2>1. /\ "account" \in request[q].progress => lock = "completed" /\ erasedFor = q
        /\ "references" \in request[q].progress => references = "tombstone"
    BY DEF DeletionInv, ProgressIsReal
  <2> QED BY <1>1, <2>1 DEF LockAccount, Person
<1> QED BY <1>2, <1>3 DEF RecordedKept

\* A request that is not at work gets another state.
LEMMA StatusLemma ==
  ASSUME RequestsOK, NEW r \in Records, NEW status, request' = [request EXCEPT ![r].status = status],
         \/ status = request[r].status
         \/ /\ status \in {"unverified", "waiting", "locked", "failed"}
            /\ request[r].status \in {"none", "unverified", "waiting"}
  PROVE  /\ RequestsOK'
         /\ \A q \in Records : request'[q].progress = request[q].progress /\ request'[q].token = request[q].token
<1> DEFINE v == request[r]
           w == [v EXCEPT !.status = status]
<1>1. request' = [request EXCEPT ![r] = w]
  OBVIOUS
<1>2. /\ v \in Requests /\ (v.status = "completed" <=> v.progress = CategorySet)
      /\ v.token # NoOne => v.status = "processing"
  BY DEF RequestsOK
<1>3. \/ status = v.status
      \/ /\ status \in {"unverified", "waiting", "locked", "failed"}
         /\ v.status \in {"none", "unverified", "waiting"}
  OBVIOUS
<1> HIDE DEF v
<1>4. /\ w \in Requests /\ w.progress = v.progress /\ w.token = v.token /\ w.status = status
  BY <1>2, <1>3 DEF Requests, Open
<1> HIDE DEF w
<1>5. /\ request' \in [Records -> Requests] /\ request'[r] = w
      /\ \A q \in Records \ {r} : request'[q] = request[q]
  BY <1>1, <1>4 DEF RequestsOK
<1>6. /\ w.status = "completed" <=> w.progress = CategorySet
      /\ w.token # NoOne => w.status = "processing"
  BY <1>2, <1>3, <1>4
<1>7. ASSUME NEW q \in Records
      PROVE  /\ request'[q].progress = request[q].progress /\ request'[q].token = request[q].token
             /\ request'[q].status = "completed" <=> request'[q].progress = CategorySet
             /\ request'[q].token # NoOne => request'[q].status = "processing"
  <2>1. CASE q = r
    BY <1>4, <1>5, <1>6, <2>1 DEF v
  <2>2. CASE q # r
    BY <1>5, <2>2 DEF RequestsOK
  <2> QED BY <2>1, <2>2
<1> QED BY <1>5, <1>7 DEF RequestsOK

\* A step that records nothing and leaves the removals alone.
LEMMA NothingRecorded ==
  ASSUME DeletionInv, RecordedKept, RequestsOK', UNCHANGED processor,
         \A q \in Records : request'[q].progress = request[q].progress /\ request'[q].token = request[q].token
  PROVE  PersonOK' /\ RemovalsOK' /\ ProgressIsReal'
<1>1. ProgressIsReal'
  BY DEF RecordedKept, ProgressIsReal
<1>2. RemovalsOK'
  BY DEF DeletionInv, RemovalsOK, OneRemoval
<1> QED BY <1>1, <1>2 DEF RecordedKept

\* The steps of those who ask, and of the owner.
LEMMA AskSteps ==
  ASSUME DeletionInv,
         \/ PublicAsk \/ SwitchOn \/ \E s \in Sessions : SignOut(s)
         \/ \E a \in Askers : Ask(a) \/ AskAllowed(a) \/ AskRefused(a) \/ AccountLocked(a) \/ LockRefused(a)
  PROVE  DeletionInv'
<1> DEFINE Same == /\ RequestsOK'
                   /\ \A q \in Records : /\ request'[q].progress = request[q].progress
                                         /\ request'[q].token = request[q].token
           Idle(as) == as \in [Askers -> [at : {"none", "checking", "locking"},
                                          from : Sessions \cup {NoOne}, record : 0..MaxRequests]]
<1>1. PersonOK /\ RequestsOK /\ AskersOK /\ moves \in 0..MaxMoves /\ {MaxMoves, MaxRequests} \subseteq Nat
  BY DeletionAssumption DEF DeletionInv
<1>2. ASSUME UNCHANGED request PROVE Same
  BY <1>1, <1>2 DEF RequestsOK
<1>3. ASSUME UNCHANGED asker PROVE AskersOK'
  BY <1>1, <1>3 DEF AskersOK
<1>4. ASSUME Move \/ UNCHANGED moves PROVE moves' \in 0..MaxMoves
  BY <1>1, <1>4 DEF Move
<1>5. ASSUME RecordedKept, Same, AskersOK', UNCHANGED processor, Move \/ UNCHANGED moves
      PROVE  DeletionInv'
  BY <1>4, <1>5, NothingRecorded DEF DeletionInv
<1>6. ASSUME NEW a \in Askers, asker' = [asker EXCEPT ![a] = NoAsker] PROVE AskersOK'
  <2>1. NoAsker \in [at : {"none", "checking", "locking"}, from : Sessions \cup {NoOne}, record : 0..MaxRequests]
        /\ NoAsker.at = "none"
    BY <1>1 DEF NoAsker
  <2> QED BY <1>1, <1>6, <2>1 DEF AskersOK
<1>7. ASSUME NEW r \in Records, NEW from \in {"unverified", "waiting"}, NEW to \in {"locked", "failed"},
             request' = Marked(r, from, to)
      PROVE  Same
  <2>1. CASE request[r].status = from
    BY <1>1, <1>7, <2>1, StatusLemma DEF Marked
  <2>2. CASE request[r].status # from
    BY <1>2, <1>7, <2>2 DEF Marked
  <2> QED BY <2>1, <2>2
<1> HIDE DEF Same
<1>8. CASE PublicAsk
  <2>1. PICK r \in Records : request[r].status = "none" /\ request' = [request EXCEPT ![r].status = "unverified"]
    BY <1>8 DEF PublicAsk, FreeRecords
  <2>2. Same
    BY <1>1, <2>1, StatusLemma DEF Same
  <2> QED BY <1>3, <1>5, <1>8, <2>2, PersonLemma DEF PublicAsk
<1>9. CASE SwitchOn
  <2>1. RecordedKept
    BY <1>9, PersonLemma DEF SwitchOn
  <2> QED BY <1>2, <1>3, <1>5, <1>9, <2>1 DEF SwitchOn
<1>10. ASSUME NEW s \in Sessions, SignOut(s) PROVE DeletionInv'
  <2>1. RecordedKept
    BY <1>10, PersonLemma DEF SignOut
  <2> QED BY <1>2, <1>3, <1>5, <1>10, <2>1 DEF SignOut
<1>11. ASSUME NEW a \in Askers, Ask(a) PROVE DeletionInv'
  <2>1. PICK from \in sessions \cup {NoOne} :
          asker' = [asker EXCEPT ![a] = [at |-> "checking", from |-> from, record |-> 0]]
    BY <1>11 DEF Ask
  <2>2. from \in Sessions \cup {NoOne} /\ 0 \in 0..MaxRequests
    BY <1>1 DEF PersonOK
  <2>3. AskersOK'
    BY <1>1, <2>1, <2>2 DEF AskersOK
  <2> QED BY <1>2, <1>5, <1>11, <2>3, PersonLemma DEF Ask
<1>12. ASSUME NEW a \in Askers, AskAllowed(a) PROVE DeletionInv'
  <2>1. PICK r \in Records : IdentityProven(r) /\ asker' = [asker EXCEPT ![a].at = "locking", ![a].record = r]
    BY <1>12 DEF AskAllowed
  <2>2. Same
    <3>1. CASE OpenRecords # {}
      <4>1. request' = [request EXCEPT ![r].status = IF request[r].status = "unverified" THEN "waiting"
                                                     ELSE request[r].status]
        BY <2>1, <3>1 DEF IdentityProven
      <4>2. CASE request[r].status = "unverified"
        <5>1. request' = [request EXCEPT ![r].status = "waiting"]
          BY <4>1, <4>2
        <5> QED BY <1>1, <4>2, <5>1, StatusLemma DEF Same
      <4>3. CASE request[r].status # "unverified"
        <5>1. request' = [request EXCEPT ![r].status = request[r].status]
          BY <4>1, <4>3
        <5> QED BY <1>1, <5>1, StatusLemma DEF Same
      <4> QED BY <4>2, <4>3
    <3>2. CASE OpenRecords = {}
      <4>1. request[r].status = "none" /\ request' = [request EXCEPT ![r].status = "waiting"]
        BY <2>1, <3>2 DEF IdentityProven, FreeRecords
      <4> QED BY <1>1, <4>1, StatusLemma DEF Same
    <3> QED BY <3>1, <3>2
  <2>3. AskersOK'
    <3> DEFINE v == asker[a]
               w == [v EXCEPT !.at = "locking", !.record = r]
    <3>1. /\ v \in [at : {"none", "checking", "locking"}, from : Sessions \cup {NoOne}, record : 0..MaxRequests]
          /\ r \in 0..MaxRequests
      BY <1>1 DEF AskersOK, Records
    <3>2. /\ asker' = [b \in Askers |-> IF b = a THEN asker'[a] ELSE asker[b]]
          /\ asker'[a] = w
      BY <1>1, <2>1 DEF AskersOK
    <3> HIDE DEF v
    <3>3. /\ w \in [at : {"none", "checking", "locking"}, from : Sessions \cup {NoOne}, record : 0..MaxRequests]
          /\ w.record = r
      BY <3>1
    <3> HIDE DEF w
    <3> QED BY <1>1, <3>2, <3>3 DEF AskersOK
  <2> QED BY <1>5, <1>12, <2>2, <2>3, PersonLemma DEF AskAllowed
<1>13. ASSUME NEW a \in Askers, AskRefused(a) PROVE DeletionInv'
  BY <1>2, <1>5, <1>6, <1>13, PersonLemma DEF AskRefused
<1>14. ASSUME NEW a \in Askers, AccountLocked(a) PROVE DeletionInv'
  <2>1. asker[a].record \in Records /\ LockAccount(a)
    BY <1>1, <1>14 DEF AskersOK, AccountLocked, LockAccount
  <2>2. Same
    BY <1>2, <1>7, <1>14, <2>1 DEF AccountLocked
  <2>3. RecordedKept
    BY <2>1, PersonLemma
  <2> QED BY <1>5, <1>6, <1>14, <2>2, <2>3 DEF AccountLocked
<1>15. ASSUME NEW a \in Askers, LockRefused(a) PROVE DeletionInv'
  <2>1. asker[a].record \in Records
    BY <1>1, <1>15 DEF AskersOK, LockRefused
  <2>2. Same
    BY <1>7, <1>15, <2>1 DEF LockRefused
  <2> QED BY <1>5, <1>6, <1>15, <2>2, PersonLemma DEF LockRefused
<1> QED BY <1>8, <1>9, <1>10, <1>11, <1>12, <1>13, <1>14, <1>15

Removals == [at : {"none", "planning", "applying"}, record : 0..MaxRequests, todo : SUBSET CategorySet]

\* A step of removal p writes at most request r, which nobody but p holds.
LEMMA RemovalLemma ==
  ASSUME DeletionInv, RecordedKept, AskersOK', moves' \in 0..MaxMoves,
         NEW p \in Processors, NEW r \in Records, NEW v \in Requests, NEW w \in Removals,
         request' = [q \in Records |-> IF q = r THEN v ELSE request[q]],
         processor' = [processor EXCEPT ![p] = w],
         v = request[r] \/ request[r].token \in {NoOne, p},
         v.status = "completed" <=> v.progress = CategorySet,
         v.token # NoOne => v.status = "processing",
         "account" \in v.progress => lock' = "completed" /\ erasedFor' = r,
         "references" \in v.progress => references' = "tombstone",
         w.at # "none" => w.record \in Records,
         w.at = "applying" => w.record = r /\ w.todo = CategorySet \ v.progress /\ v.token = p
  PROVE  DeletionInv'
<1>1. RequestsOK /\ RemovalsOK /\ OneRemoval
  BY DEF DeletionInv, RemovalsOK
<1>2. request'[r] = v /\ \A q \in Records \ {r} : request'[q] = request[q]
  OBVIOUS
<1>3. RequestsOK'
  BY <1>1, <1>2 DEF RequestsOK
<1>4. ProgressIsReal'
  <2> SUFFICES ASSUME NEW q \in Records
               PROVE  /\ "account" \in request'[q].progress => lock' = "completed" /\ erasedFor' = q
                      /\ "references" \in request'[q].progress => references' = "tombstone"
    BY DEF ProgressIsReal
  <2> QED BY <1>2 DEF RecordedKept
<1>5. /\ processor' \in [Processors -> Removals] /\ processor'[p] = w
      /\ \A o \in Processors \ {p} : processor'[o] = processor[o]
  BY <1>1 DEF RemovalsOK, Removals
<1>6. ASSUME NEW o \in Processors
      PROVE  /\ processor'[o].at # "none" => processor'[o].record \in Records
             /\ processor'[o].at = "applying"
                  => /\ processor'[o].todo = CategorySet \ request'[processor'[o].record].progress
                     /\ request'[processor'[o].record].token = o
  <2>1. CASE o = p
    BY <1>2, <1>5, <2>1
  <2>2. CASE o # p
    <3>1. processor'[o] = processor[o]
      BY <1>5, <2>2
    <3>2. /\ processor[o].at # "none" => processor[o].record \in Records
          /\ processor[o].at = "applying"
               => /\ processor[o].todo = CategorySet \ request[processor[o].record].progress
                  /\ request[processor[o].record].token = o
      BY <1>1 DEF RemovalsOK, OneRemoval
    <3>3. processor[o].at = "applying" => request'[processor[o].record] = request[processor[o].record]
      BY <1>2, <2>2, <3>2, DeletionAssumption
    <3> QED BY <3>1, <3>2, <3>3
  <2> QED BY <2>1, <2>2
<1>7. RemovalsOK'
  BY <1>5, <1>6 DEF RemovalsOK, OneRemoval, Removals
<1> QED BY <1>3, <1>4, <1>7 DEF DeletionInv, RecordedKept

\* The steps of the removals.
LEMMA RemovalSteps ==
  ASSUME DeletionInv, NEW p \in Processors,
         CallProcess(p) \/ Claimed(p) \/ PlanRefused(p) \/ Checkpoint(p) \/ ApplyFails(p)
  PROVE  DeletionInv'
<1>1. /\ RequestsOK /\ AskersOK /\ RemovalsOK /\ moves \in 0..MaxMoves
      /\ {MaxMoves, MaxRequests} \subseteq Nat
      /\ request \in [Records -> Requests] /\ processor \in [Processors -> Removals]
  BY DeletionAssumption DEF DeletionInv, RequestsOK, RemovalsOK, Removals
<1>2. moves' \in 0..MaxMoves
  <2>1. UNCHANGED moves \/ Move
    BY ZenonT(30) DEF CallProcess, Claimed, PlanRefused, Checkpoint, ApplyFails
  <2> QED BY SMTT(30), <1>1, <2>1 DEF Move
<1>3. AskersOK'
  <2>1. UNCHANGED asker
    BY ZenonT(30) DEF CallProcess, Claimed, PlanRefused, Checkpoint, ApplyFails
  <2> QED BY SMTT(30), <1>1, <2>1 DEF AskersOK
<1>4. NoProcessor \in Removals /\ NoProcessor.at = "none"
  BY <1>1 DEF NoProcessor, Removals
<1>5. ASSUME NEW r \in Records
      PROVE  /\ request[r] \in Requests
             /\ request[r].status = "completed" <=> request[r].progress = CategorySet
             /\ request[r].token # NoOne => request[r].status = "processing"
             /\ request = [q \in Records |-> IF q = r THEN request[r] ELSE request[q]]
  BY <1>1 DEF RequestsOK
<1>6. ASSUME RecordedKept, NEW r \in Records
      PROVE  /\ "account" \in request[r].progress => lock' = "completed" /\ erasedFor' = r
             /\ "references" \in request[r].progress => references' = "tombstone"
  BY <1>6 DEF RecordedKept
<1>7. CASE CallProcess(p)
  <2>1. PICK r \in Records :
          processor' = [processor EXCEPT ![p] = [at |-> "planning", record |-> r, todo |-> {}]]
    BY <1>7 DEF CallProcess
  <2>2. RecordedKept /\ request' = request
    BY <1>7, PersonLemma DEF CallProcess
  <2> DEFINE w == [at |-> "planning", record |-> r, todo |-> {}]
             v == request[r]
  <2>3. w \in Removals /\ w.at = "planning" /\ w.record \in Records
    BY <1>1 DEF Removals, Records
  <2>4. request' = [q \in Records |-> IF q = r THEN v ELSE request[q]]
    BY <1>5, <2>2
  <2>5. processor' = [processor EXCEPT ![p] = w]
    BY <2>1
  <2>6. /\ v \in Requests
        /\ v.status = "completed" <=> v.progress = CategorySet
        /\ v.token # NoOne => v.status = "processing"
    BY <1>5
  <2>7. /\ "account" \in v.progress => lock' = "completed" /\ erasedFor' = r
        /\ "references" \in v.progress => references' = "tombstone"
    BY <1>6, <2>2
  <2>8. v = request[r]
    OBVIOUS
  <2>9. w.at = "applying" => w.record = r /\ w.todo = CategorySet \ v.progress /\ v.token = p
    BY <2>3
  <2> HIDE DEF w, v
  <2> QED BY ZenonT(40), <1>2, <1>3, <2>2, <2>3, <2>4, <2>5, <2>6, <2>7, <2>8, <2>9, RemovalLemma
<1>8. CASE Claimed(p)
  <2> DEFINE r == processor[p].record
             v == request'[r]
             w == processor'[p]
  <2>1. r \in Records
    BY <1>1, <1>8 DEF Claimed, RemovalsOK
  <2>2. RecordedKept
    BY <1>8, PersonLemma DEF Claimed
  <2>3. /\ request[r].token = NoOne /\ request[r].status # "completed"
        /\ request' = [q \in Records |-> IF q = r THEN v ELSE request[q]]
        /\ v = [request[r] EXCEPT !.status = "processing", !.token = p]
    BY <1>1, <1>8, <2>1 DEF Claimed, Free, Processable
  <2>4. /\ processor' = [processor EXCEPT ![p] = w]
        /\ w = [processor[p] EXCEPT !.at = "applying", !.todo = CategorySet \ request[r].progress]
    BY <1>1, <1>8 DEF Claimed
  <2>5. /\ v \in Requests /\ v.status = "processing" /\ v.token = p
        /\ v.progress = request[r].progress
    <3> DEFINE b == request[r]
    <3>1. b \in Requests
      BY <1>1, <2>1
    <3> HIDE DEF b
    <3>2. [b EXCEPT !.status = "processing", !.token = p] \in Requests
          /\ [b EXCEPT !.status = "processing", !.token = p].status = "processing"
          /\ [b EXCEPT !.status = "processing", !.token = p].token = p
          /\ [b EXCEPT !.status = "processing", !.token = p].progress = b.progress
      BY <3>1 DEF Requests, Open
    <3> QED BY <2>3, <3>2 DEF b
  <2>6. /\ w \in Removals /\ w.at = "applying" /\ w.record = r
        /\ w.todo = CategorySet \ request[r].progress
    <3> DEFINE b == processor[p]
               t == CategorySet \ request[r].progress
               e == [b EXCEPT !.at = "applying", !.todo = t]
    <3>1. b \in Removals /\ t \in SUBSET CategorySet
      BY <1>1
    <3>2. b.record = r /\ w = e
      BY <2>4
    <3> HIDE DEF b, t, r, w
    <3>3. e \in Removals /\ e.at = "applying" /\ e.record = r /\ e.todo = t
      BY <3>1, <3>2 DEF Removals
    <3> QED BY <3>2, <3>3 DEF t
  <2>7. v.progress # CategorySet
    BY <1>5, <2>1, <2>3, <2>5
  <2>8. /\ "account" \in v.progress => lock' = "completed" /\ erasedFor' = r
        /\ "references" \in v.progress => references' = "tombstone"
    BY <1>6, <2>1, <2>2, <2>5
  <2>9. /\ request' = [q \in Records |-> IF q = r THEN v ELSE request[q]]
        /\ processor' = [processor EXCEPT ![p] = w]
        /\ r \in Records /\ v \in Requests /\ w \in Removals
        /\ request[r].token \in {NoOne, p}
        /\ v.status = "completed" <=> v.progress = CategorySet
        /\ v.token # NoOne => v.status = "processing"
        /\ w.at # "none" => w.record \in Records
        /\ w.at = "applying" => w.record = r /\ w.todo = CategorySet \ v.progress /\ v.token = p
    BY <2>1, <2>3, <2>4, <2>5, <2>6, <2>7
  <2> HIDE DEF r, v, w
  <2> QED BY <1>2, <1>3, <2>2, <2>8, <2>9, RemovalLemma
<1>9. ASSUME processor' = [processor EXCEPT ![p] = NoProcessor], UNCHANGED request, RecordedKept
      PROVE  DeletionInv'
  <2>1. AskersOK' /\ moves' \in 0..MaxMoves /\ PersonOK' /\ RequestsOK'
    BY <1>1, <1>2, <1>3, <1>9 DEF RequestsOK, RecordedKept
  <2>2. ProgressIsReal'
    BY <1>9 DEF RecordedKept, ProgressIsReal
  <2>3. RemovalsOK'
    BY <1>1, <1>4, <1>9 DEF RemovalsOK, OneRemoval, Removals
  <2> QED BY <2>1, <2>2, <2>3 DEF DeletionInv
<1>10. CASE PlanRefused(p)
  <2>1. RecordedKept
    BY <1>10, PersonLemma DEF PlanRefused
  <2> QED BY <1>9, <1>10, <2>1 DEF PlanRefused
<1>11. CASE Checkpoint(p)
  <2> DEFINE r == processor[p].record
             c == NextCategory(p)
             last == processor[p].todo = {c}
             v == request'[r]
             w == processor'[p]
  <2>1. /\ r \in Records /\ request[r].token = p /\ request[r].status = "processing"
        /\ c \in CategorySet /\ c \notin request[r].progress
        /\ processor[p].todo = CategorySet \ request[r].progress /\ c \in processor[p].todo
    BY ZenonT(30), <1>11, WorkLemma DEF Checkpoint
  <2>2. /\ RecordedKept
        /\ c = "account" => lock' = "completed" /\ erasedFor' = r
        /\ c = "references" => references' = "tombstone"
    BY ZenonT(30), <1>11, <2>1, ApplyLemma DEF Checkpoint
  <2>3. /\ request' = [q \in Records |-> IF q = r THEN v ELSE request[q]]
        /\ v = [request[r] EXCEPT !.progress = request[r].progress \cup {c},
                                  !.status = IF last THEN "completed" ELSE request[r].status,
                                  !.token = IF last THEN NoOne ELSE request[r].token]
    BY ZenonT(30), <1>1, <1>11, <2>1 DEF Checkpoint
  <2>4. /\ processor' = [processor EXCEPT ![p] = w]
        /\ w = IF last THEN NoProcessor
               ELSE [processor[p] EXCEPT !.todo = processor[p].todo \ {c}]
    <3> DEFINE e == [processor[p] EXCEPT !.todo = processor[p].todo \ {c}]
    <3>1. CASE last
      <4>1. processor' = [processor EXCEPT ![p] = NoProcessor]
        BY ZenonT(30), <1>11, <2>1, <3>1 DEF Checkpoint
      <4> QED BY <1>1, <3>1, <4>1
    <3>2. CASE ~last
      <4>1. processor' = [processor EXCEPT ![p] = e]
        BY ZenonT(60), <1>11, <2>1, <3>2 DEF Checkpoint
      <4> HIDE DEF e
      <4>2. processor' = [processor EXCEPT ![p] = w] /\ w = e
        BY <1>1, <4>1
      <4> QED BY SMTT(30), <3>2, <4>2 DEF e
    <3> QED BY <3>1, <3>2
  <2>5. /\ v \in Requests /\ v.progress = request[r].progress \cup {c}
        /\ v.status = IF last THEN "completed" ELSE "processing"
        /\ v.token = IF last THEN NoOne ELSE p
    <3> DEFINE b == request[r]
               g == b.progress \cup {c}
               t == IF last THEN "completed" ELSE b.status
               k == IF last THEN NoOne ELSE b.token
               e == [b EXCEPT !.progress = g, !.status = t, !.token = k]
    <3>1. b \in Requests /\ b.status = "processing" /\ b.token = p /\ v = e
      BY ZenonT(30), <1>1, <2>1, <2>3
    <3>2. g \in SUBSET CategorySet /\ t \in {"completed", "processing"} /\ k \in {NoOne, p}
      BY <2>1, <3>1 DEF Requests
    <3> HIDE DEF b, g, t, k, v
    <3>3. e \in Requests /\ e.progress = g /\ e.status = t /\ e.token = k
      BY <3>1, <3>2 DEF Requests, Open
    <3> QED BY <3>1, <3>3 DEF b, g, t, k
  <2>6. /\ w \in Removals
        /\ w.at # "none" => ~last /\ w.record = r /\ w.todo = processor[p].todo \ {c}
    <3> DEFINE b == processor[p]
               t == b.todo \ {c}
               e == [b EXCEPT !.todo = t]
    <3>1. b \in Removals /\ t \in SUBSET CategorySet /\ b.record = r
          /\ w = IF last THEN NoProcessor ELSE e
      BY <1>1, <2>1, <2>4
    <3> HIDE DEF b, t, r, w, last
    <3>2. e \in Removals /\ e.record = r /\ e.todo = t
      BY <3>1 DEF Removals
    <3> QED BY <1>4, <3>1, <3>2 DEF b, t
  <2>12. last <=> processor[p].todo = {c}
    OBVIOUS
  <2> HIDE DEF r, v, w, c, last
  <2>7. v.status = "completed" <=> v.progress = CategorySet
    <3>1. v.status = "completed" <=> last
      BY <2>5
    <3>2. v.progress = CategorySet <=> last
      <4>1. request[r].progress \subseteq CategorySet
        BY <1>1, <2>1 DEF Requests
      <4> QED BY <2>1, <2>5, <2>12, <4>1
    <3> QED BY <3>1, <3>2
  <2>8. /\ "account" \in v.progress => lock' = "completed" /\ erasedFor' = r
        /\ "references" \in v.progress => references' = "tombstone"
    BY <1>6, <2>1, <2>2, <2>5
  <2>9. w.at = "applying" => w.record = r /\ w.todo = CategorySet \ v.progress /\ v.token = p
    BY <2>1, <2>5, <2>6, <2>12
  <2>10. v.token # NoOne => v.status = "processing"
    BY <2>5
  <2>11. /\ request' = [q \in Records |-> IF q = r THEN v ELSE request[q]]
         /\ processor' = [processor EXCEPT ![p] = w]
         /\ r \in Records /\ v \in Requests /\ w \in Removals
         /\ w.at # "none" => w.record \in Records
         /\ request[r].token \in {NoOne, p}
    BY <2>1, <2>3, <2>4, <2>5, <2>6
  <2> QED BY ZenonT(60), <1>2, <1>3, <2>2, <2>7, <2>8, <2>9, <2>10, <2>11, RemovalLemma
<1>12. CASE ApplyFails(p)
  <2> DEFINE r == processor[p].record
             v == request'[r]
  <2>1. r \in Records /\ request[r].token = p /\ request[r].status = "processing"
    BY <1>12, WorkLemma DEF ApplyFails
  <2>2. RecordedKept
    <3>1. CASE UNCHANGED Person
      BY <3>1, PersonLemma
    <3>2. CASE Apply(r, NextCategory(p))
      BY <2>1, <3>2, ApplyLemma
    <3> QED BY <1>12, <3>1, <3>2 DEF ApplyFails
  <2>3. /\ request' = [q \in Records |-> IF q = r THEN v ELSE request[q]]
        /\ v = [request[r] EXCEPT !.status = "retry", !.token = NoOne]
        /\ processor' = [processor EXCEPT ![p] = NoProcessor]
    BY <1>1, <1>12, <2>1 DEF ApplyFails
  <2>4. /\ v \in Requests /\ v.status = "retry" /\ v.token = NoOne
        /\ v.progress = request[r].progress
    <3> DEFINE b == request[r]
               e == [b EXCEPT !.status = "retry", !.token = NoOne]
    <3>1. b \in Requests /\ v = e
      BY <1>1, <2>1, <2>3
    <3> HIDE DEF b, v
    <3>2. e \in Requests /\ e.status = "retry" /\ e.token = NoOne /\ e.progress = b.progress
      BY <3>1 DEF Requests, Open
    <3> QED BY <3>1, <3>2 DEF b
  <2>5. v.progress # CategorySet
    BY <1>5, <2>1, <2>4
  <2>6. /\ "account" \in v.progress => lock' = "completed" /\ erasedFor' = r
        /\ "references" \in v.progress => references' = "tombstone"
    BY <1>6, <2>1, <2>2, <2>4
  <2> HIDE DEF r, v
  <2> QED BY ZenonT(60), <1>2, <1>3, <1>4, <2>1, <2>2, <2>3, <2>4, <2>5, <2>6, RemovalLemma
<1> QED BY <1>7, <1>8, <1>10, <1>11, <1>12

\* The process dies, between two writes too; at its start the removals are put back.
LEMMA DeletionCrashLemma == DeletionInv /\ DeletionCrash => DeletionInv'
<1> SUFFICES ASSUME DeletionInv, DeletionCrash PROVE DeletionInv'
  OBVIOUS
<1> DEFINE Back(v) == [v EXCEPT !.status = "retry", !.token = NoOne]
<1>1. /\ RequestsOK /\ AskersOK /\ RemovalsOK /\ moves \in 0..MaxMoves
      /\ {MaxMoves, MaxRequests} \subseteq Nat /\ request \in [Records -> Requests]
  BY DeletionAssumption DEF DeletionInv, RequestsOK
<1>2. /\ request' = [r \in Records |-> IF request[r].status = "processing" THEN Back(request[r])
                                       ELSE request[r]]
      /\ asker' = [a \in Askers |-> NoAsker] /\ processor' = [p \in Processors |-> NoProcessor]
      /\ moves' \in 0..MaxMoves
  <2>1. moves' \in 0..MaxMoves
    <3>1. Move
      BY ZenonT(30) DEF DeletionCrash
    <3> QED BY <1>1, <3>1 DEF Move
  <2> QED BY ZenonT(30), <2>1 DEF DeletionCrash
<1>3. ASSUME NEW v \in Requests
      PROVE  /\ Back(v) \in Requests /\ Back(v).status = "retry" /\ Back(v).token = NoOne
             /\ Back(v).progress = v.progress
  BY DEF Requests, Open
<1> HIDE DEF Back
<1>4. ASSUME NEW r \in Records
      PROVE  /\ request'[r] \in Requests /\ request'[r].progress = request[r].progress
             /\ request'[r].status = "completed" <=> request'[r].progress = CategorySet
             /\ request'[r].token # NoOne => request'[r].status = "processing"
  <2>1. /\ request[r] \in Requests
        /\ request[r].status = "completed" <=> request[r].progress = CategorySet
        /\ request[r].token # NoOne => request[r].status = "processing"
    BY <1>1 DEF RequestsOK
  <2>2. CASE request[r].status = "processing"
    <3>1. request'[r] = Back(request[r])
      BY <1>2, <2>2
    <3> QED BY <1>3, <2>1, <2>2, <3>1
  <2>3. CASE request[r].status # "processing"
    <3>1. request'[r] = request[r]
      BY <1>2, <2>3
    <3> QED BY <2>1, <2>3, <3>1
  <2> QED BY <2>2, <2>3
<1>5. request' \in [Records -> Requests]
  BY <1>2, <1>4
<1>6. RequestsOK'
  BY <1>4, <1>5 DEF RequestsOK
<1>7. NoAsker \in [at : {"none", "checking", "locking"}, from : Sessions \cup {NoOne}, record : 0..MaxRequests]
      /\ NoAsker.at = "none" /\ NoProcessor \in Removals /\ NoProcessor.at = "none"
  BY <1>1 DEF NoAsker, NoProcessor, Removals
<1>8. AskersOK' /\ RemovalsOK'
  BY <1>2, <1>7 DEF AskersOK, RemovalsOK, OneRemoval, Removals
<1>9. RecordedKept
  <2>1. CASE UNCHANGED Person \/ \E a \in Askers : LockAccount(a)
    BY <2>1, PersonLemma
  <2>2. ASSUME NEW p \in Processors, processor[p].at = "applying",
               Apply(processor[p].record, NextCategory(p))
        PROVE  RecordedKept
    <3>1. processor[p].record \in Records
      BY <2>2, WorkLemma
    <3> QED BY <2>2, <3>1, ApplyLemma
  <2> QED BY ZenonT(30), <2>1, <2>2 DEF DeletionCrash
<1>10. ProgressIsReal'
  BY <1>4, <1>9 DEF RecordedKept, ProgressIsReal
<1> QED BY <1>2, <1>6, <1>8, <1>9, <1>10 DEF DeletionInv, RecordedKept

\* The inductive invariant holds at first.
LEMMA DeletionInitially == DeletionInit => DeletionInv
<1> SUFFICES ASSUME DeletionInit PROVE DeletionInv
  OBVIOUS
<1>1. {MaxMoves, MaxRequests} \subseteq Nat
  BY DeletionAssumption
<1>2. /\ NoRecord \in Requests /\ NoRecord.status = "none" /\ NoRecord.token = NoOne
      /\ NoRecord.progress = {}
  BY DEF NoRecord, Requests, Open
<1>3. NoAsker \in [at : {"none", "checking", "locking"}, from : Sessions \cup {NoOne}, record : 0..MaxRequests]
      /\ NoAsker.at = "none" /\ NoProcessor \in Removals /\ NoProcessor.at = "none"
  BY <1>1 DEF NoAsker, NoProcessor, Removals
<1>4. {} # CategorySet
  BY CategoriesAre
<1>5. RequestsOK /\ ProgressIsReal
  BY <1>2, <1>4 DEF DeletionInit, RequestsOK, ProgressIsReal
<1>6. AskersOK /\ RemovalsOK
  BY <1>3 DEF DeletionInit, AskersOK, RemovalsOK, OneRemoval, Removals
<1>7. PersonOK /\ moves \in 0..MaxMoves
  BY <1>1 DEF DeletionInit, PersonOK
<1> QED BY <1>5, <1>6, <1>7 DEF DeletionInv

\* Whatever is refused, fails, is interrupted or asked for again, the inductive
\* invariant holds throughout.
THEOREM DeletionInvariance == DeletionSpec => []DeletionInv
<1>1. DeletionInv /\ [DeletionNext]_deletionVars => DeletionInv'
  <2>1. DeletionInv /\ UNCHANGED deletionVars => DeletionInv'
    BY DEF deletionVars, DeletionInv, PersonOK, RequestsOK, AskersOK, RemovalsOK, OneRemoval, ProgressIsReal
  <2> QED BY <2>1, AskSteps, RemovalSteps, DeletionCrashLemma DEF DeletionNext
<1> QED BY <1>1, DeletionInitially, PTL DEF DeletionSpec

\* For any number of requests, askers and removals: a request is completed only when the
\* account is erased for it and nothing refers to it by name, one removal at a time works
\* on it, and what is recorded of it has happened.
THEOREM RecordedErasuresAreReal == DeletionSpec => []ErasureIsReal
<1>1. DeletionInv => ErasureIsReal
  <2> SUFFICES ASSUME DeletionInv PROVE ErasureIsReal
    OBVIOUS
  <2>1. ProgressIsReal /\ OneRemoval
    BY DEF DeletionInv, RemovalsOK
  <2>2. CompletedIsErased
    BY <2>1, CategoriesAre DEF DeletionInv, RequestsOK, ProgressIsReal, CompletedIsErased
  <2> QED BY <2>1, <2>2 DEF ErasureIsReal
<1> QED BY <1>1, DeletionInvariance, PTL

-----------------------------------------------------------------------------
(* Sessions: a destroyed one is gone.                                      *)

\* Whatever of the session is in the file, or on its way there or from there, ends
\* before the mark of its destruction does, as long as that mark counts.
SessionInv ==
  /\ SessionTypeOK /\ DestroyedIsGone
  /\ touched <= clock /\ file <= touched + Ttl
  /\ \A s \in Setters : setter[s].ends <= touched + Ttl
  /\ \A g \in Getters : getter[g].ends <= touched + Ttl /\ (getter[g].after => destroyed)
  /\ destroying => tombstone > clock /\ tombstone > touched + Ttl
  /\ destroyed => tombstone > touched + Ttl \/ (tombstone = 0 /\ clock > touched + Ttl)

SetterRecords == [at : {"none", "writing", "renaming", "unlinking"}, ends : Moments]
GetterRecords == [at : {"none", "reading", "served"}, ends : Moments, after : BOOLEAN]

\* What is said of the clock, the file and the marks.
MarksOK ==
  /\ clock \in 0..MaxTime /\ {file, tombstone, memory, touched} \subseteq Moments
  /\ deaths \in 0..MaxDeaths
  /\ touched <= clock /\ file <= touched + Ttl
  /\ destroying => tombstone > clock /\ tombstone > touched + Ttl
  /\ destroyed => tombstone > touched + Ttl \/ (tombstone = 0 /\ clock > touched + Ttl)

FlagsOK == destroying \in BOOLEAN /\ destroyed \in BOOLEAN

SettersOK ==
  /\ setter \in [Setters -> SetterRecords]
  /\ \A s \in Setters : setter[s].ends <= touched + Ttl

GettersOK ==
  /\ getter \in [Getters -> GetterRecords]
  /\ \A g \in Getters : getter[g].ends <= touched + Ttl /\ (getter[g].after => destroyed)
  /\ DestroyedIsGone

\* The invariant is its parts.
LEMMA SessionParts ==
  /\ SessionInv <=> FlagsOK /\ MarksOK /\ SettersOK /\ GettersOK
  /\ SessionInv' <=> FlagsOK' /\ MarksOK' /\ SettersOK' /\ GettersOK'
BY DEF SessionInv, SessionTypeOK, FlagsOK, MarksOK, SettersOK, GettersOK, SetterRecords, GetterRecords

\* The moments are numbers, and the session ends among them.
LEMMA MomentsLemma ==
  ASSUME MarksOK
  PROVE  /\ {Ttl, MaxTime, MaxDeaths, clock, file, tombstone, memory, touched, deaths} \subseteq Nat
         /\ clock <= MaxTime /\ Ttl > 0 /\ 0 \in Moments
         /\ touched + Ttl \in Moments /\ clock + Ttl \in Moments
         /\ \A t \in Nat : t \in Moments <=> t <= MaxTime + Ttl
         /\ Moments \subseteq Nat
BY SessionAssumption DEF MarksOK, Moments

\* A writer changes: what it writes ends with the session.
LEMMA SetterLemma ==
  ASSUME SettersOK, NEW s \in Setters, NEW w \in SetterRecords, setter' = [setter EXCEPT ![s] = w],
         MarksOK, MarksOK', touched' >= touched, w.ends <= touched' + Ttl
  PROVE  SettersOK'
<1>1. /\ setter' \in [Setters -> SetterRecords] /\ setter'[s] = w
      /\ \A q \in Setters \ {s} : setter'[q] = setter[q]
  BY DEF SettersOK
<1>2. ASSUME NEW q \in Setters PROVE setter'[q].ends <= touched' + Ttl
  <2>1. setter[q].ends <= touched + Ttl /\ setter[q].ends \in Moments
    BY DEF SettersOK, SetterRecords
  <2>2. touched \in Nat /\ touched' \in Nat /\ Ttl \in Nat /\ Moments \subseteq Nat
    <3>1. Ttl \in Nat /\ Moments \subseteq Nat /\ touched \in Nat
      BY MomentsLemma
    <3>2. touched' \in Moments
      BY DEF MarksOK
    <3> QED BY <3>1, <3>2
  <2>3. setter[q].ends <= touched' + Ttl
    <3> DEFINE e == setter[q].ends
               t == touched'
    <3>1. e \in Nat /\ e <= touched + Ttl /\ t >= touched /\ t \in Nat /\ touched \in Nat /\ Ttl \in Nat
      BY <2>1, <2>2
    <3> HIDE DEF e, t
    <3>2. e <= t + Ttl
      BY <3>1
    <3> QED BY <3>2 DEF e, t
  <2> QED BY <1>1, <2>3
<1> QED BY <1>1, <1>2 DEF SettersOK

\* A reader changes: it read no session that outlives it, and is not served one that is
\* destroyed.
LEMMA GetterLemma ==
  ASSUME GettersOK, NEW g \in Getters, NEW w \in GetterRecords, getter' = [getter EXCEPT ![g] = w],
         UNCHANGED <<touched, destroyed>>, w.ends <= touched + Ttl, w.after => destroyed,
         w.at = "served" => ~w.after
  PROVE  GettersOK'
<1>1. /\ getter' \in [Getters -> GetterRecords] /\ getter'[g] = w
      /\ \A q \in Getters \ {g} : getter'[q] = getter[q]
  BY DEF GettersOK
<1> QED BY <1>1 DEF GettersOK, DestroyedIsGone

\* The marks count for longer than anything that could bring the session back.
LEMMA SessionStep == SessionInv /\ [SessionNext]_sessionVars => SessionInv'
<1> SUFFICES ASSUME SessionInv, [SessionNext]_sessionVars PROVE SessionInv'
  OBVIOUS
<1>0. FlagsOK'
  <2>1. FlagsOK
    BY SessionParts
  <2>2. \/ destroying' = destroying \/ destroying' = TRUE \/ destroying' = FALSE
    BY DEF SessionNext, SetStarts, SetWritten, SetRenamed, SetUndone, SetFails, GetStarts, GetReturns,
           GetDone, DestroyStarts, DestroyFails, DestroyEnds, Sweep, PushedOut, SessionCrash, TimePasses,
           Marks, sessionVars
  <2>3. \/ destroyed' = destroyed \/ destroyed' = TRUE
    BY DEF SessionNext, SetStarts, SetWritten, SetRenamed, SetUndone, SetFails, GetStarts, GetReturns,
           GetDone, DestroyStarts, DestroyFails, DestroyEnds, Sweep, PushedOut, SessionCrash, TimePasses,
           Marks, sessionVars
  <2> QED BY <2>1, <2>2, <2>3 DEF FlagsOK
<1>1. MarksOK /\ SettersOK /\ GettersOK
  BY SessionParts
<1>2. /\ {Ttl, MaxTime, MaxDeaths, clock, file, tombstone, memory, touched, deaths} \subseteq Nat
      /\ clock <= MaxTime /\ Ttl > 0 /\ 0 \in Moments
      /\ touched + Ttl \in Moments /\ clock + Ttl \in Moments
      /\ \A t \in Nat : t \in Moments <=> t <= MaxTime + Ttl
      /\ Moments \subseteq Nat
  BY <1>1, MomentsLemma
<1>3. ASSUME UNCHANGED <<setter, touched>> PROVE SettersOK'
  BY <1>1, <1>3 DEF SettersOK
<1>4. ASSUME UNCHANGED <<getter, touched, destroyed>> PROVE GettersOK'
  BY <1>1, <1>4 DEF GettersOK, DestroyedIsGone
<1>5. ASSUME UNCHANGED <<clock, file, tombstone, memory, touched, destroying, destroyed, deaths>> PROVE MarksOK'
  BY <1>1, <1>5 DEF MarksOK
<1>6. IdleSetter \in SetterRecords /\ IdleSetter.ends = 0
         /\ IdleSetter.ends <= touched + Ttl
  BY <1>2 DEF IdleSetter, SetterRecords
<1>7. IdleGetter \in GetterRecords /\ IdleGetter.ends = 0 /\ ~IdleGetter.after /\ IdleGetter.at = "none"
      /\ IdleGetter.ends <= touched + Ttl
  BY <1>2 DEF IdleGetter, GetterRecords
<1>8. ASSUME NEW s \in Setters, NEW at \in {"renaming", "unlinking"}
      PROVE  LET w == [setter[s] EXCEPT !.at = at]
             IN w \in SetterRecords /\ w.ends <= touched + Ttl /\ setter[s].ends \in Moments
                /\ setter[s].ends <= touched + Ttl
  <2> DEFINE b == setter[s]
  <2>1. b \in SetterRecords /\ b.ends <= touched + Ttl
    BY <1>1 DEF SettersOK
  <2> HIDE DEF b
  <2>2. [b EXCEPT !.at = at] \in SetterRecords /\ [b EXCEPT !.at = at].ends = b.ends /\ b.ends \in Moments
    BY <2>1 DEF SetterRecords
  <2> QED BY <2>1, <2>2 DEF b
<1>9. ASSUME NEW s \in Setters, SetStarts(s) PROVE SessionInv'
  <2> DEFINE w == [at |-> "writing", ends |-> touched' + Ttl]
  <2>1. /\ ~Revoked /\ (destroyed => clock < touched + Ttl)
        /\ touched' = IF tombstone = 0 /\ memory = 0 /\ ~destroyed THEN clock ELSE touched
        /\ setter' = [setter EXCEPT ![s] = w]
        /\ UNCHANGED <<clock, file, getter, deaths, tombstone, memory, destroying, destroyed>>
    BY <1>9 DEF SetStarts, Marks
  <2>2. ~destroyed /\ (destroying => touched' = touched) /\ touched' \in Nat
        /\ touched <= touched' /\ touched' <= clock
    BY <1>1, <1>2, <2>1 DEF MarksOK, Revoked
  <2>3. touched' \in Moments /\ touched' + Ttl \in Moments
    BY <1>2, <2>2
  <2>4. file <= touched' + Ttl
    BY <1>1, <1>2, <2>2 DEF MarksOK
  <2>5. MarksOK'
    BY <1>1, <2>1, <2>2, <2>3, <2>4 DEF MarksOK
  <2>6. w \in SetterRecords /\ w.ends <= touched' + Ttl
    BY <1>2, <2>2, <2>3 DEF SetterRecords
  <2> HIDE DEF w
  <2>7. SettersOK'
    BY <1>1, <1>2, <2>1, <2>2, <2>5, <2>6, SetterLemma
  <2>8. GettersOK'
    <3>1. ASSUME NEW g \in Getters PROVE getter[g].ends <= touched' + Ttl
      <4>1. getter[g].ends <= touched + Ttl /\ getter[g].ends \in Nat
        BY <1>1, <1>2 DEF GettersOK, GetterRecords
      <4> QED BY <1>2, <2>2, <4>1
    <3> QED BY <1>1, <2>1, <3>1 DEF GettersOK, DestroyedIsGone
  <2> QED BY <2>5, <2>7, <2>8, <1>0, SessionParts
<1>10. ASSUME NEW s \in Setters, SetWritten(s) \/ SetFails(s) PROVE SessionInv'
  <2>1. /\ \/ setter' = [setter EXCEPT ![s] = IdleSetter]
           \/ setter' = [setter EXCEPT ![s] = [setter[s] EXCEPT !.at = "renaming"]]
        /\ UNCHANGED <<clock, file, touched, getter, deaths, tombstone, memory, destroying, destroyed>>
    BY <1>10 DEF SetWritten, SetFails, Marks
  <2>2. MarksOK' /\ GettersOK'
    BY <1>4, <1>5, <2>1
  <2>3. SettersOK'
    <3> DEFINE w == [setter[s] EXCEPT !.at = "renaming"]
    <3>1. w \in SetterRecords /\ w.ends <= touched' + Ttl /\ IdleSetter.ends <= touched' + Ttl
          /\ touched' >= touched
      <4>1. touched' = touched /\ touched \in Nat
        BY <1>2, <2>1
      <4>2. w \in SetterRecords /\ w.ends <= touched + Ttl
        BY <1>8
      <4> HIDE DEF w
      <4> QED BY <1>6, <4>1, <4>2
    <3>2. setter' = [setter EXCEPT ![s] = IdleSetter] \/ setter' = [setter EXCEPT ![s] = w]
      BY <2>1
    <3> HIDE DEF w
    <3> QED BY <1>1, <1>6, <2>2, <3>1, <3>2, SetterLemma
  <2> QED BY <2>2, <2>3, <1>0, SessionParts
<1>11. ASSUME NEW s \in Setters, SetRenamed(s) \/ SetUndone(s) PROVE SessionInv'
  <2>1. /\ \/ setter' = [setter EXCEPT ![s] = IdleSetter]
           \/ setter' = [setter EXCEPT ![s] = [setter[s] EXCEPT !.at = "unlinking"]]
        /\ file' \in {0, file, setter[s].ends}
        /\ UNCHANGED <<clock, touched, getter, deaths, tombstone, memory, destroying, destroyed>>
    BY <1>11 DEF SetRenamed, SetUndone, Marks
  <2>2. file' \in Moments /\ file' <= touched + Ttl
    <3>1. setter[s].ends \in Moments /\ setter[s].ends <= touched + Ttl
      BY <1>8
    <3> QED BY <1>1, <1>2, <2>1, <3>1 DEF MarksOK
  <2>3. MarksOK' /\ GettersOK'
    BY <1>1, <1>4, <2>1, <2>2 DEF MarksOK
  <2>4. SettersOK'
    <3> DEFINE w == [setter[s] EXCEPT !.at = "unlinking"]
    <3>1. w \in SetterRecords /\ w.ends <= touched' + Ttl /\ IdleSetter.ends <= touched' + Ttl
          /\ touched' >= touched
      <4>1. touched' = touched /\ touched \in Nat
        BY <1>2, <2>1
      <4>2. w \in SetterRecords /\ w.ends <= touched + Ttl
        BY <1>8
      <4> HIDE DEF w
      <4> QED BY <1>6, <4>1, <4>2
    <3>2. setter' = [setter EXCEPT ![s] = IdleSetter] \/ setter' = [setter EXCEPT ![s] = w]
      BY <2>1
    <3> HIDE DEF w
    <3> QED BY <1>1, <1>6, <2>3, <3>1, <3>2, SetterLemma
  <2> QED BY <2>3, <2>4, <1>0, SessionParts
<1>12. ASSUME NEW g \in Getters, GetStarts(g) PROVE SessionInv'
  <2> DEFINE w == [at |-> "reading", ends |-> file, after |-> destroyed]
  <2>1. /\ getter' = [getter EXCEPT ![g] = w]
        /\ UNCHANGED <<clock, file, touched, setter, deaths, tombstone, memory, destroying, destroyed>>
    BY <1>12 DEF GetStarts, Marks
  <2>2. w \in GetterRecords /\ w.ends <= touched + Ttl /\ (w.after => destroyed) /\ w.at # "served"
    BY <1>1, <1>2, SessionParts DEF GetterRecords, MarksOK, FlagsOK
  <2> HIDE DEF w
  <2>3. MarksOK' /\ SettersOK'
    BY <1>3, <1>5, <2>1
  <2>4. GettersOK'
    BY <1>1, <2>1, <2>2, GetterLemma
  <2> QED BY <2>3, <2>4, <1>0, SessionParts
<1>13. ASSUME NEW g \in Getters, GetReturns(g) PROVE SessionInv'
  <2> DEFINE b == getter[g]
             w == [b EXCEPT !.at = "served"]
  <2>1. PICK ends \in {b.ends, file} :
          LET served == ~Revoked /\ ends # 0 /\ ends >= clock IN
          /\ getter' = [getter EXCEPT ![g] = IF served THEN w ELSE IdleGetter]
          /\ file' = IF ~Revoked /\ ends # 0 /\ ends < clock THEN 0 ELSE file
    BY <1>13 DEF GetReturns
  <2>2. UNCHANGED <<clock, touched, setter, deaths, tombstone, memory, destroying, destroyed>>
    BY <1>13 DEF GetReturns, Marks
  <2>3. /\ b \in GetterRecords /\ b.ends <= touched + Ttl /\ (b.after => destroyed)
        /\ ends <= touched + Ttl /\ ends \in Nat
    BY <1>1, <1>2 DEF GettersOK, GetterRecords, MarksOK
  <2>4. w \in GetterRecords /\ w.ends = b.ends /\ w.after = b.after
    <3> HIDE DEF b
    <3> QED BY <2>3 DEF GetterRecords
  <2> HIDE DEF w
  <2>5. ~Revoked /\ ends >= clock => ~destroyed
    BY <1>1, <1>2, <2>3 DEF MarksOK, Revoked
  <2>6. MarksOK' /\ SettersOK'
    <3>1. file' \in {0, file}
      BY <2>1
    <3> QED BY <1>1, <1>2, <1>3, <2>2, <3>1 DEF MarksOK
  <2>7. GettersOK'
    <3>1. CASE ~Revoked /\ ends # 0 /\ ends >= clock
      <4>1. getter' = [getter EXCEPT ![g] = w]
        BY <2>1, <3>1
      <4> QED BY <1>1, <2>2, <2>3, <2>4, <2>5, <3>1, <4>1, GetterLemma
    <3>2. CASE ~(~Revoked /\ ends # 0 /\ ends >= clock)
      <4>1. getter' = [getter EXCEPT ![g] = IdleGetter]
        BY <2>1, <3>2
      <4> QED BY <1>1, <1>2, <1>7, <2>2, <4>1, GetterLemma
    <3> QED BY <3>1, <3>2
  <2> QED BY <2>6, <2>7, <1>0, SessionParts
<1>14. ASSUME NEW g \in Getters, GetDone(g) PROVE SessionInv'
  <2>1. /\ getter' = [getter EXCEPT ![g] = IdleGetter]
        /\ UNCHANGED <<clock, file, touched, setter, deaths, tombstone, memory, destroying, destroyed>>
    BY <1>14 DEF GetDone, Marks
  <2>2. MarksOK' /\ SettersOK'
    BY <1>3, <1>5, <2>1
  <2>3. GettersOK'
    BY <1>1, <1>2, <1>7, <2>1, GetterLemma
  <2> QED BY <2>2, <2>3, <1>0, SessionParts
<1>15. CASE DestroyStarts \/ DestroyFails
  <2>1. /\ UNCHANGED <<clock, file, touched, setter, getter, destroyed, deaths>>
        /\ memory' = clock + Ttl /\ clock > touched /\ ~destroyed
        /\ \/ tombstone' = clock + Ttl
           \/ tombstone' = tombstone /\ (destroying' => destroying)
    BY <1>15 DEF DestroyStarts, DestroyFails, Mark
  <2>2. MarksOK'
    BY <1>1, <1>2, <2>1 DEF MarksOK
  <2> QED BY <1>3, <1>4, <2>1, <2>2, <1>0, SessionParts
<1>16. CASE DestroyEnds
  <2>1. UNCHANGED <<clock, tombstone, memory, touched, setter, getter, deaths>>
        /\ destroying /\ ~destroying' /\ (destroyed => destroyed') /\ file' \in {0, file}
    BY <1>16 DEF DestroyEnds
  <2>2. MarksOK'
    BY <1>1, <1>2, <2>1 DEF MarksOK
  <2>3. GettersOK'
    BY <1>1, <2>1 DEF GettersOK, DestroyedIsGone
  <2> QED BY <1>3, <2>1, <2>2, <2>3, <1>0, SessionParts
<1>17. CASE Sweep \/ PushedOut
  <2>1. /\ memory' \in {0, memory} /\ file' \in {0, file}
        /\ tombstone' = tombstone \/ (tombstone <= clock /\ tombstone' = 0)
        /\ UNCHANGED <<clock, touched, setter, getter, destroying, destroyed, deaths>>
    BY <1>17 DEF Sweep, PushedOut
  <2>2. MarksOK'
    BY <1>1, <1>2, <2>1 DEF MarksOK
  <2> QED BY <1>3, <1>4, <2>1, <2>2, <1>0, SessionParts
<1>18. CASE SessionCrash
  <2>1. /\ memory' = 0 /\ ~destroying' /\ deaths < MaxDeaths /\ deaths' = deaths + 1
        /\ UNCHANGED <<clock, file, tombstone, touched, destroyed>>
        /\ setter' = [s \in Setters |-> IdleSetter] /\ getter' = [g \in Getters |-> IdleGetter]
    BY <1>18 DEF SessionCrash
  <2>2. MarksOK'
    BY <1>1, <1>2, <2>1 DEF MarksOK
  <2>3. SettersOK' /\ GettersOK'
    BY <1>2, <1>6, <1>7, <2>1 DEF SettersOK, GettersOK, DestroyedIsGone
  <2> QED BY <2>2, <2>3, <1>0, SessionParts
<1>19. CASE TimePasses
  <2>1. /\ clock < MaxTime /\ clock' = clock + 1 /\ (destroying => tombstone > clock')
        /\ UNCHANGED <<file, touched, setter, getter, deaths, tombstone, memory, destroying, destroyed>>
    BY <1>19 DEF TimePasses, Marks
  <2>2. MarksOK'
    BY <1>1, <1>2, <2>1 DEF MarksOK
  <2> QED BY <1>3, <1>4, <2>1, <2>2, <1>0, SessionParts
<1>20. CASE UNCHANGED sessionVars
  BY <1>0, <1>3, <1>4, <1>5, <1>20, SessionParts DEF sessionVars
<1> QED BY <1>9, <1>10, <1>11, <1>12, <1>13, <1>14, <1>15, <1>16, <1>17, <1>18, <1>19, <1>20 DEF SessionNext

\* The inductive invariant holds throughout.
THEOREM SessionInvariance == SessionSpec => []SessionInv
<1>1. SessionInit => SessionInv
  <2> SUFFICES ASSUME SessionInit PROVE SessionInv
    OBVIOUS
  <2>1. {Ttl, MaxTime, MaxDeaths} \subseteq Nat /\ Ttl > 0 /\ 0 \in Moments
    BY SessionAssumption DEF Moments
  <2>2. IdleSetter \in SetterRecords /\ IdleSetter.ends = 0
    BY <2>1 DEF IdleSetter, SetterRecords
  <2>3. IdleGetter \in GetterRecords /\ IdleGetter.ends = 0 /\ ~IdleGetter.after /\ IdleGetter.at = "none"
    BY <2>1 DEF IdleGetter, GetterRecords
  <2>4. /\ clock = 0 /\ file = 0 /\ tombstone = 0 /\ memory = 0 /\ touched = 0 /\ deaths = 0
        /\ ~destroying /\ ~destroyed
    BY DEF SessionInit
  <2>5. MarksOK
    BY <2>1, <2>4 DEF MarksOK
  <2>6. FlagsOK
    BY DEF SessionInit, FlagsOK
  <2>7. SettersOK /\ GettersOK
    BY <2>1, <2>2, <2>3 DEF SessionInit, SettersOK, GettersOK, DestroyedIsGone
  <2> QED BY <2>5, <2>6, <2>7, SessionParts
<1> QED BY <1>1, SessionStep, PTL DEF SessionSpec

\* For any number of writers and readers, and however often the marks are lost from memory:
\* a session that was destroyed is served to nobody again.
THEOREM DestroyedSessionsAreGone == SessionSpec => []DestroyedIsGone
<1>1. SessionInv => DestroyedIsGone
  BY DEF SessionInv
<1> QED BY <1>1, SessionInvariance, PTL

-----------------------------------------------------------------------------
(* Cloud accounts: sessions, invitations, managers and second factors.     *)

SignInOps == {"login", "signup"}

\* Who has come so far has an account, and what a request works on is what it is for; who may
\* change something has a role for it.
RequestSound(c) ==
  /\ web[c].at # "idle" => web[c].who \in Humans
  /\ web[c].at \in {"in", "may", "factor", "issue", "join", "accept", "tokens", "confirm", "commit"} =>
       password[web[c].who] > 0
  /\ web[c].at \in {"factor", "issue", "create", "join"} => web[c].op \in SignInOps
  /\ web[c].at = "may" => web[c].who \in manages
  /\ web[c].at = "accept" => web[c].item \in Invites
  /\ web[c].at \in {"confirm", "commit"} => web[c].item \in Resets

RequestsSound == \A c \in WebCalls : RequestSound(c)

\* A token is for somebody who has an account; who resets a password works on their own token, and
\* alone once they write: no other reset of that account, and nobody who would use the token up.
TokenSound(c) ==
  /\ web[c].at \in {"confirm", "commit"} =>
       reset[web[c].item].state # "none" /\ reset[web[c].item].of = web[c].who
  /\ web[c].at = "tokens" => \A t \in web[c].seen : reset[t].state # "none"
AloneSound(c) ==
  web[c].at = "commit" =>
    /\ reset[web[c].item].state # "consumed"
    /\ \A d \in WebCalls : /\ web[d].at = "commit" /\ web[d].who = web[c].who => d = c
                           /\ web[d].at = "tokens" => web[c].item \notin web[d].seen
ResetsSound ==
  /\ \A t \in Resets : reset[t].state # "none" => password[reset[t].of] > 0
  /\ \A c \in WebCalls : TokenSound(c) /\ AloneSound(c)

\* What was signed in, or is being, under a password that is no longer there met the reset that
\* replaced it, or a later one; and while a reset is being written, it ends or has met it.
Rests(p, under, late, ending) ==
  /\ under = password[p] \/ late >= password[p]
  /\ Resetting(p) => ending \/ late >= password[p] + 1

Verified(c) == web[c].op \in SignInOps /\ web[c].at \in {"factor", "issue", "join", "accept"}
SignInsSound == \A c \in WebCalls : Verified(c) => Rests(web[c].who, web[c].under, raced[c], FALSE)
SessionSound(s) == password[s.of] > 0 /\ Rests(s.of, s.under, s.late, s.ending)
SessionsSound == \A s \in signedIn : SessionSound(s)

\* What was used is marked so.
UseIsMarked ==
  /\ \A i \in Invites : admitted[i] # {} => invite[i].state = "accepted"
  /\ \A t \in Resets : spent[t] = 0 \/ (spent[t] = 1 /\ reset[t].state = "consumed")

\* The inductive invariant.
CloudInv ==
  /\ CloudTypeOK /\ RequestsSound /\ ResetsSound /\ SignInsSound /\ SessionsSound
  /\ UseIsMarked /\ AccessIsCurrent

WebPlaces == {"idle", "in", "may", "factor", "issue", "create", "join", "accept", "codes", "tokens",
              "confirm", "commit"}
WebRequests == [op : Ops \cup {"none"}, who : Humans \cup {NoCall}, at : WebPlaces,
                item : Invites \cup Resets \cup {NoCall}, seen : SUBSET Resets, under : Nat]
SessionRecords == [of : Humans, under : Nat, late : Nat, ending : BOOLEAN]
ResetRecords == [state : {"none", "live", "consumed", "expired"}, of : Humans]

CloudDataOK ==
  /\ password \in [Humans -> Nat] /\ standing \in [Humans -> Standings] /\ manages \subseteq Humans
  /\ factor \in [Humans -> {"none", "enrolled", "verified"}] /\ spare \subseteq Humans
  /\ invite \in [Invites -> [state : {"none", "open", "accepted", "expired"}, to : Humans]]
  /\ reset \in [Resets -> ResetRecords]
  /\ signedIn \subseteq SessionRecords /\ begun \in 0..MaxCalls
  /\ admitted \in [Invites -> SUBSET Humans] /\ spent \in [Resets -> Nat]
  /\ cut \subseteq Humans /\ crossed \in BOOLEAN /\ raced \in [WebCalls -> Nat]

LEMMA CloudTypes == CloudTypeOK <=> web \in [WebCalls -> WebRequests] /\ CloudDataOK
  BY DEF CloudTypeOK, CloudDataOK, WebRequests, WebPlaces, SessionRecords, ResetRecords

LEMMA CloudInitLemma == CloudInit => CloudInv
<1> SUFFICES ASSUME CloudInit PROVE CloudInv OBVIOUS
<1> USE CloudAssumption DEF CloudInit, StandingAtStart
<1>1. PICK h \in Humans : h \in Founders OBVIOUS
<1>2. CloudTypeOK
  <2>1. (CHOOSE p \in Humans : TRUE) \in Humans BY <1>1
  <2>2. Idling \in WebRequests BY DEF Idling, WebRequests, WebPlaces, Ops
  <2>3. web \in [WebCalls -> WebRequests] BY <2>2
  <2>4. invite \in [Invites -> [state : {"none", "open", "accepted", "expired"}, to : Humans]]
    BY <2>1
  <2>5. reset \in [Resets -> ResetRecords] BY <2>1 DEF ResetRecords
  <2>6. signedIn \subseteq SessionRecords
    <3> SUFFICES ASSUME NEW s \in signedIn PROVE s \in SessionRecords OBVIOUS
    <3>1. PICK p \in Founders \cup Leftovers : s = Opened(p, 1, 0) OBVIOUS
    <3>2. p \in Humans BY <3>1
    <3>3. s = [of |-> p, under |-> 1, late |-> 0, ending |-> FALSE] BY <3>1 DEF Opened
    <3> QED BY <3>2, <3>3 DEF SessionRecords
  <2>7. /\ password \in [Humans -> Nat] /\ standing \in [Humans -> Standings]
        /\ manages \subseteq Humans /\ begun \in 0..MaxCalls
    BY DEF Standings
  <2>8. /\ factor \in [Humans -> {"none", "enrolled", "verified"}] /\ spare \subseteq Humans
        /\ admitted \in [Invites -> SUBSET Humans] /\ spent \in [Resets -> Nat]
        /\ cut \subseteq Humans /\ crossed \in BOOLEAN /\ raced \in [WebCalls -> Nat]
    OBVIOUS
  <2>9. CloudDataOK BY <2>4, <2>5, <2>6, <2>7, <2>8 DEF CloudDataOK
  <2> QED BY <2>3, <2>9, CloudTypes
<1>i. \A c \in WebCalls : web[c].at = "idle" /\ web[c].op = "none" BY DEF Idling
<1>3. RequestsSound BY <1>i DEF RequestsSound, RequestSound
<1>4. ResetsSound BY <1>i DEF ResetsSound, TokenSound, AloneSound
<1>5. SignInsSound BY <1>i DEF SignInsSound, Verified, SignInOps
<1>6. SessionsSound /\ SessionsAreCurrent
  <2>1. \A p \in Humans : ~Resetting(p) BY <1>i DEF Resetting
  <2>2. ASSUME NEW s \in signedIn
        PROVE  s.of \in Humans /\ s.under = password[s.of] /\ password[s.of] > 0
    BY <2>2 DEF Opened
  <2> QED BY <2>1, <2>2 DEF SessionsSound, SessionSound, Rests, SessionsAreCurrent
<1>7. UseIsMarked BY DEF UseIsMarked
<1>8. UsedOnce BY DEF UsedOnce
<1>9. MembersWereInvited BY DEF MembersWereInvited
<1>10. ManagerRemains BY <1>1 DEF ManagerRemains, ActiveMember
<1>11. FactorHasCodes BY DEF FactorHasCodes
<1> QED BY <1>2, <1>3, <1>4, <1>5, <1>6, <1>7, <1>8, <1>9, <1>10, <1>11 DEF CloudInv, AccessIsCurrent

\* What a transaction marks is the sessions that were there.
LEMMA EndingFrom ==
  ASSUME signedIn \subseteq SessionRecords, NEW p, NEW e \in BOOLEAN, NEW s \in WithEnding(p, e)
  PROVE  \E o \in signedIn : /\ s.of = o.of /\ s.under = o.under /\ s.late = o.late
                             /\ s.ending = (IF o.of = p THEN e ELSE o.ending)
                             /\ s \in SessionRecords
<1>1. PICK o \in signedIn : s = IF o.of = p THEN [o EXCEPT !.ending = e] ELSE o BY DEF WithEnding
<1>2. o \in SessionRecords OBVIOUS
<1>3. CASE o.of = p
  <2>1. s = [o EXCEPT !.ending = e] BY <1>1, <1>3
  <2>2. s.of = o.of /\ s.under = o.under /\ s.late = o.late /\ s.ending = e /\ s \in SessionRecords
    BY <1>2, <2>1 DEF SessionRecords
  <2> QED BY <1>3, <2>2
<1>4. CASE o.of # p BY <1>1, <1>2, <1>4
<1> QED BY <1>3, <1>4

\* How a step moves a request.  Most requests that go on hold nothing; a sign-in that goes on keeps
\* what it read.
Elsewhere(c) ==
  /\ web' = [web EXCEPT ![c] = web'[c]] /\ web'[c] \in WebRequests
  /\ raced' \in [WebCalls -> Nat] /\ \A d \in WebCalls : d # c => raced'[d] = raced[d]
SameSignIn(c) ==
  /\ Verified(c) /\ web'[c].who = web[c].who /\ web'[c].under = web[c].under /\ raced'[c] = raced[c]
Moves(c) ==
  /\ Elsewhere(c) /\ web'[c].at \notin {"tokens", "confirm", "commit"}
  /\ Verified(c)' => \/ SameSignIn(c)
                     \/ \E p \in Humans : LoginReads(c, p)
                     \/ \E i \in Invites : SignupCreates(c, i) /\ password[web[c].who] = 0

CloudMoves ==
  \/ UNCHANGED <<web, raced>>
  \/ \E c \in WebCalls : Moves(c)
  \/ \E c \in WebCalls : ResetWrites(c) /\ Goes(c, "commit")
  \/ \E c \in WebCalls, p \in Humans : ResetAsked(c, p)
  \/ \E c \in WebCalls, t \in Resets : ResetReads(c, t)

\* A request that is over moves so, and so does one that goes on as it is.
LEMMA OverMoves ==
  ASSUME web \in [WebCalls -> WebRequests], raced \in [WebCalls -> Nat], NEW c \in WebCalls,
         CallOver(c), UNCHANGED raced
  PROVE  Moves(c)
<1>1. Idling \in WebRequests BY DEF Idling, WebRequests, WebPlaces, Ops
<1>2. web'[c] = Idling BY DEF CallOver
<1>3. Elsewhere(c) BY <1>1, <1>2 DEF CallOver, Elsewhere
<1>4. web'[c].at = "idle" BY <1>2 DEF Idling
<1> QED BY <1>3, <1>4 DEF Moves, Verified

LEMMA GoesMoves ==
  ASSUME web \in [WebCalls -> WebRequests], raced \in [WebCalls -> Nat], NEW c \in WebCalls,
         NEW at \in WebPlaces \ {"tokens", "confirm", "commit"}, Goes(c, at), UNCHANGED raced,
         at \notin {"factor", "issue", "join", "accept"} \/ Verified(c)
  PROVE  Moves(c)
<1>1. web'[c] = [web[c] EXCEPT !.at = at] BY DEF Goes
<1>2. /\ web'[c] \in WebRequests /\ web'[c].at = at /\ web'[c].op = web[c].op
      /\ web'[c].who = web[c].who /\ web'[c].under = web[c].under
  BY <1>1 DEF WebRequests
<1>3. Elsewhere(c) BY <1>1, <1>2 DEF Goes, Elsewhere
<1> QED BY <1>2, <1>3 DEF Moves, Verified, SameSignIn

LEMMA ArrivalMoves ==
  ASSUME web \in [WebCalls -> WebRequests], raced \in [WebCalls -> Nat], NEW c \in WebCalls,
         NEW op \in Ops, NEW p \in Humans, NEW at \in {"in", "create"}, Arrives(c, op, p, at),
         raced' \in [WebCalls -> Nat], \A d \in WebCalls : d # c => raced'[d] = raced[d]
  PROVE  Moves(c)
<1>1. [Idling EXCEPT !.op = op, !.who = p, !.at = at] \in WebRequests
  BY DEF Idling, WebRequests, WebPlaces, Ops
<1>2. web'[c] = [Idling EXCEPT !.op = op, !.who = p, !.at = at] BY DEF Arrives
<1>3. Elsewhere(c) BY <1>1, <1>2 DEF Arrives, Elsewhere
<1>4. web'[c].at = at BY <1>2 DEF Idling
<1> QED BY <1>3, <1>4 DEF Moves, Verified

LEMMA CountedType == ASSUME begun \in 0..MaxCalls, Counted PROVE begun' \in 0..MaxCalls
  BY CloudAssumption DEF Counted

\* Every step moves one request so, or is one of the three that take or hold a token.
LEMMA CloudMovesStep ==
  ASSUME CloudTypeOK, RequestsSound, [CloudNext]_cloudVars PROVE CloudMoves
<1>w. web \in [WebCalls -> WebRequests] /\ raced \in [WebCalls -> Nat] BY CloudTypes DEF CloudDataOK
<1>d. CloudDataOK BY CloudTypes
<1>s. \A c \in WebCalls : RequestSound(c) BY DEF RequestsSound
<1>1. ASSUME NEW c \in WebCalls, NEW p \in Humans, LoginReads(c, p) PROVE Moves(c)
  <2> DEFINE r == [Idling EXCEPT !.op = "login", !.who = p, !.at = "factor", !.under = password[p]]
  <2>1. password[p] \in Nat BY <1>d DEF CloudDataOK
  <2>2. r \in WebRequests BY <2>1 DEF Idling, WebRequests, WebPlaces, Ops
  <2>3. web' = [web EXCEPT ![c] = r] BY <1>1 DEF LoginReads
  <2>4. raced' = [raced EXCEPT ![c] = IF Resetting(p) THEN password[p] + 1 ELSE 0] BY <1>1 DEF LoginReads
  <2>5. raced' \in [WebCalls -> Nat] /\ \A d \in WebCalls : d # c => raced'[d] = raced[d]
    <3> DEFINE n == IF Resetting(p) THEN password[p] + 1 ELSE 0
    <3>1. n \in Nat BY <2>1
    <3> HIDE DEF n
    <3> QED BY <1>w, <2>4, <3>1 DEF n
  <2>6. r.at = "factor" BY DEF Idling
  <2> HIDE DEF r
  <2>7. web'[c] = r BY <1>w, <2>3
  <2>8. Elsewhere(c) BY <2>2, <2>3, <2>5, <2>7 DEF Elsewhere
  <2> QED BY <1>1, <2>6, <2>7, <2>8 DEF Moves
<1>2. ASSUME NEW c \in WebCalls, LoginAsks(c) PROVE Moves(c)
  <2>1. Verified(c) BY <1>s, <1>2 DEF LoginAsks, RequestSound, Verified
  <2> QED BY <1>w, <1>2, <2>1, OverMoves, GoesMoves DEF LoginAsks, WebPlaces
<1>3. ASSUME NEW c \in WebCalls, SessionIssued(c) PROVE Moves(c)
  BY <1>w, <1>3, OverMoves DEF SessionIssued
<1>4. ASSUME NEW c \in WebCalls, NEW s \in signedIn, NEW op \in Ops, Authenticated(c, s, op) PROVE Moves(c)
  <2>1. s.of \in Humans BY <1>d DEF CloudDataOK, SessionRecords
  <2> QED BY <1>w, <1>4, <2>1, ArrivalMoves DEF Authenticated
<1>5. ASSUME NEW c \in WebCalls, MayManage(c) PROVE Moves(c)
  BY <1>w, <1>5, OverMoves, GoesMoves DEF MayManage, WebPlaces
<1>6. ASSUME NEW c \in WebCalls, NEW p \in Humans, NEW to \in Standings, StandingSet(c, p, to) PROVE Moves(c)
  BY <1>w, <1>6, OverMoves DEF StandingSet
<1>7. ASSUME NEW c \in WebCalls, NEW i \in Invites, NEW p \in Humans, Invited(c, i, p) PROVE Moves(c)
  BY <1>w, <1>7, OverMoves DEF Invited
<1>8. ASSUME NEW c \in WebCalls, NEW i \in Invites, Resolves(c, i) PROVE Moves(c)
  <2>1. web'[c] = [web[c] EXCEPT !.at = "accept", !.item = i] /\ raced' = raced BY <1>w, <1>8 DEF Resolves, WebRequests
  <2>2. /\ web'[c] \in WebRequests /\ web'[c].at = "accept" /\ web'[c].op = web[c].op
        /\ web'[c].who = web[c].who /\ web'[c].under = web[c].under
    <3>1. web[c] \in WebRequests /\ "accept" \in WebPlaces BY <1>w DEF WebPlaces
    <3> QED BY <2>1, <3>1 DEF WebRequests
  <2>3. Elsewhere(c) BY <1>w, <1>8, <2>1, <2>2 DEF Resolves, Elsewhere
  <2>4. Verified(c)' => SameSignIn(c) BY <1>8, <2>1, <2>2 DEF Resolves, Verified, SameSignIn, SignInOps
  <2> QED BY <2>2, <2>3, <2>4 DEF Moves
<1>9. ASSUME NEW c \in WebCalls, NEW manager \in BOOLEAN, Accepts(c, manager) PROVE Moves(c)
  <2>1. CASE CallOver(c) BY <1>w, <1>9, <2>1, OverMoves DEF Accepts
  <2>2. CASE Goes(c, "issue") /\ web[c].op = "signup"
    <3>1. Verified(c) BY <1>9, <2>2 DEF Accepts, Verified, SignInOps
    <3> QED BY <1>w, <1>9, <2>2, <3>1, GoesMoves DEF Accepts, WebPlaces
  <2> QED BY <1>9, <2>1, <2>2 DEF Accepts
<1>10. ASSUME NEW c \in WebCalls, NEW i \in Invites, SignupReads(c, i) PROVE Moves(c)
  <2>1. invite[i].to \in Humans BY <1>d DEF CloudDataOK
  <2>2. raced' \in [WebCalls -> Nat] /\ \A d \in WebCalls : d # c => raced'[d] = raced[d]
    BY <1>w, <1>10 DEF SignupReads
  <2> QED BY <1>w, <1>10, <2>1, <2>2, ArrivalMoves DEF SignupReads, Ops
<1>11. ASSUME NEW c \in WebCalls, NEW i \in Invites, SignupCreates(c, i) PROVE Moves(c)
  <2>1. CASE CallOver(c) BY <1>w, <1>11, <2>1, OverMoves DEF SignupCreates
  <2>2. CASE password[web[c].who] = 0 /\ web' = [web EXCEPT ![c].at = "join", ![c].item = i, ![c].under = 1]
    <3>1. web'[c] = [web[c] EXCEPT !.at = "join", !.item = i, !.under = 1] BY <1>w, <2>2 DEF WebRequests
    <3>2. web'[c] \in WebRequests /\ web'[c].at = "join"
      <4>1. web[c] \in WebRequests BY <1>w
      <4>2. web'[c] = [op |-> web[c].op, who |-> web[c].who, at |-> "join", item |-> i, seen |-> web[c].seen,
                       under |-> 1]
        BY <3>1, <4>1 DEF WebRequests
      <4>3. /\ web[c].op \in Ops \cup {"none"} /\ web[c].who \in Humans \cup {NoCall}
            /\ web[c].seen \in SUBSET Resets
        BY <4>1 DEF WebRequests
      <4>4. "join" \in WebPlaces /\ i \in Invites \cup Resets \cup {NoCall} /\ 1 \in Nat BY DEF WebPlaces
      <4> QED BY <4>2, <4>3, <4>4 DEF WebRequests
    <3>3. Elsewhere(c) BY <1>w, <1>11, <2>2, <3>1, <3>2 DEF SignupCreates, Elsewhere
    <3> QED BY <1>11, <2>2, <3>2, <3>3 DEF Moves
  <2> QED BY <1>11, <2>1, <2>2 DEF SignupCreates
<1>12. ASSUME NEW c \in WebCalls, Enrolls(c) PROVE Moves(c)
  BY <1>w, <1>12, OverMoves DEF Enrolls
<1>13. ASSUME NEW c \in WebCalls, NEW p \in Humans, Confirms(c, p) PROVE Moves(c)
  <2>1. web'[c] = [web[c] EXCEPT !.at = "codes", !.who = p] BY <1>w, <1>13 DEF Confirms, WebRequests
  <2>2. web'[c] \in WebRequests /\ web'[c].at = "codes"
    <3>1. web[c] \in WebRequests /\ "codes" \in WebPlaces BY <1>w DEF WebPlaces
    <3> QED BY <2>1, <3>1 DEF WebRequests
  <2>3. Elsewhere(c) BY <1>w, <1>13, <2>1, <2>2 DEF Confirms, Elsewhere
  <2> QED BY <2>2, <2>3 DEF Moves, Verified
<1>14. ASSUME NEW c \in WebCalls, CodesGiven(c) PROVE Moves(c)
  BY <1>w, <1>14, OverMoves DEF CodesGiven
<1>15. ASSUME NEW c \in WebCalls, NEW t \in Resets, ResetSent(c, t) PROVE Moves(c)
  BY <1>w, <1>15, OverMoves DEF ResetSent
<1>16. ASSUME NEW c \in WebCalls, ResetWrites(c) PROVE Moves(c) \/ (ResetWrites(c) /\ Goes(c, "commit"))
  BY <1>w, <1>16, OverMoves DEF ResetWrites
<1>17. ASSUME NEW c \in WebCalls, ResetCommits(c) PROVE Moves(c)
  BY <1>w, <1>17, OverMoves DEF ResetCommits
<1>18. ASSUME NEW c \in WebCalls, CallEnds(c) PROVE Moves(c)
  BY <1>w, <1>18, OverMoves DEF CallEnds
<1>19. ASSUME NEW c \in WebCalls, NEW s \in signedIn, LoggedOut(c, s) PROVE UNCHANGED <<web, raced>>
  BY <1>19 DEF LoggedOut
<1>20. ASSUME NEW s \in signedIn, SessionLapses(s) PROVE UNCHANGED <<web, raced>>
  BY <1>20 DEF SessionLapses
<1>21. ASSUME NEW i \in Invites, InviteLapses(i) PROVE UNCHANGED <<web, raced>>
  BY <1>21 DEF InviteLapses
<1>22. ASSUME NEW t \in Resets, ResetLapses(t) PROVE UNCHANGED <<web, raced>>
  BY <1>22 DEF ResetLapses
<1>23. CASE UNCHANGED cloudVars BY <1>23 DEF CloudMoves, cloudVars
<1>24. CASE CloudNext
  BY <1>1, <1>2, <1>3, <1>4, <1>5, <1>6, <1>7, <1>8, <1>9, <1>10, <1>11, <1>12, <1>13, <1>14, <1>15, <1>16,
     <1>17, <1>18, <1>19, <1>20, <1>21, <1>22, <1>24 DEF CloudNext, CloudMoves
<1> QED BY <1>23, <1>24

\* What the requests that take or hold a token make of their places.
LEMMA WritesMove ==
  ASSUME web \in [WebCalls -> WebRequests], NEW c \in WebCalls, Goes(c, "commit")
  PROVE  /\ web' = [web EXCEPT ![c] = web'[c]] /\ web'[c] \in WebRequests
         /\ web'[c].at = "commit" /\ web'[c].op = web[c].op /\ web'[c].who = web[c].who
         /\ web'[c].item = web[c].item
<1>1. web[c] \in WebRequests /\ "commit" \in WebPlaces BY DEF WebPlaces
<1>2. web'[c] = [web[c] EXCEPT !.at = "commit"] BY DEF Goes
<1>3. /\ web'[c] \in WebRequests /\ web'[c].at = "commit" /\ web'[c].op = web[c].op
      /\ web'[c].who = web[c].who /\ web'[c].item = web[c].item
  BY <1>1, <1>2 DEF WebRequests
<1> QED BY <1>2, <1>3 DEF Goes

LEMMA AskedMoves ==
  ASSUME web \in [WebCalls -> WebRequests], NEW c \in WebCalls, NEW p \in Humans, ResetAsked(c, p)
  PROVE  /\ web' = [web EXCEPT ![c] = web'[c]] /\ web'[c] \in WebRequests
         /\ web'[c].at = "tokens" /\ web'[c].op = "ask" /\ web'[c].who = p
         /\ web'[c].seen = LiveTokens(p)
<1>1. LiveTokens(p) \in SUBSET Resets BY DEF LiveTokens
<1>2. web'[c] = [Idling EXCEPT !.op = "ask", !.who = p, !.at = "tokens", !.seen = LiveTokens(p)]
  BY DEF ResetAsked
<1>3. web'[c] = [op |-> "ask", who |-> p, at |-> "tokens", item |-> NoCall, seen |-> LiveTokens(p),
                 under |-> 0]
  BY <1>2 DEF Idling
<1>4. web'[c] \in WebRequests BY <1>1, <1>3 DEF WebRequests, WebPlaces, Ops
<1> QED BY <1>2, <1>3, <1>4 DEF ResetAsked

LEMMA ReadsMove ==
  ASSUME web \in [WebCalls -> WebRequests], reset \in [Resets -> ResetRecords], NEW c \in WebCalls,
         NEW t \in Resets, ResetReads(c, t)
  PROVE  /\ web' = [web EXCEPT ![c] = web'[c]] /\ web'[c] \in WebRequests
         /\ web'[c].at = "confirm" /\ web'[c].op = "reset" /\ web'[c].who = reset[t].of
         /\ web'[c].item = t
<1>1. reset[t].of \in Humans BY DEF ResetRecords
<1>2. web'[c] = [Idling EXCEPT !.op = "reset", !.who = reset[t].of, !.at = "confirm", !.item = t]
  BY DEF ResetReads
<1>3. web'[c] = [op |-> "reset", who |-> reset[t].of, at |-> "confirm", item |-> t, seen |-> {}, under |-> 0]
  BY <1>2 DEF Idling
<1>4. web'[c] \in WebRequests BY <1>1, <1>3 DEF WebRequests, WebPlaces, Ops
<1> QED BY <1>2, <1>3, <1>4 DEF ResetReads

LEMMA CloudTypeStep ==
  ASSUME CloudTypeOK, RequestsSound, [CloudNext]_cloudVars PROVE CloudTypeOK'
<1> USE CloudAssumption
<1>w. web \in [WebCalls -> WebRequests] /\ raced \in [WebCalls -> Nat] BY CloudTypes DEF CloudDataOK
<1>s. \A c \in WebCalls : RequestSound(c) BY DEF RequestsSound
<1>d. CloudDataOK BY CloudTypes
<1>m. CloudMoves BY CloudMovesStep
<1>1. web' \in [WebCalls -> WebRequests]
  <2>1. ASSUME NEW c \in WebCalls, web' = [web EXCEPT ![c] = web'[c]], web'[c] \in WebRequests
        PROVE  web' \in [WebCalls -> WebRequests]
    BY <1>w, <2>1
  <2>2. ASSUME NEW c \in WebCalls, Moves(c) PROVE web' \in [WebCalls -> WebRequests]
    BY <2>1, <2>2 DEF Moves, Elsewhere
  <2>3. ASSUME NEW c \in WebCalls, Goes(c, "commit") PROVE web' \in [WebCalls -> WebRequests]
    BY <1>w, <2>1, <2>3, WritesMove
  <2>4. ASSUME NEW c \in WebCalls, NEW p \in Humans, ResetAsked(c, p) PROVE web' \in [WebCalls -> WebRequests]
    BY <1>w, <2>1, <2>4, AskedMoves
  <2>5. ASSUME NEW c \in WebCalls, NEW t \in Resets, ResetReads(c, t) PROVE web' \in [WebCalls -> WebRequests]
    BY <1>w, <1>d, <2>1, <2>5, ReadsMove DEF CloudDataOK
  <2> QED BY <1>w, <1>m, <2>2, <2>3, <2>4, <2>5 DEF CloudMoves
<1>2. raced' \in [WebCalls -> Nat]
  <2>1. ASSUME NEW c \in WebCalls, ResetWrites(c) PROVE raced' \in [WebCalls -> Nat]
    <3>1. CASE raced' = raced BY <1>w, <3>1
    <3>2. CASE raced' = [d \in WebCalls |-> IF SigningIn(d, web[c].who) THEN password[web[c].who] + 1 ELSE raced[d]]
      <4>1. web[c].who \in Humans BY <1>s, <2>1 DEF ResetWrites, RequestSound
      <4>2. password[web[c].who] + 1 \in Nat BY <1>d, <4>1 DEF CloudDataOK
      <4> QED BY <1>w, <3>2, <4>2
    <3> QED BY <2>1, <3>1, <3>2 DEF ResetWrites
  <2>2. ASSUME NEW c \in WebCalls, NEW p \in Humans, ResetAsked(c, p) PROVE raced' \in [WebCalls -> Nat]
    BY <1>w, <2>2 DEF ResetAsked
  <2>3. ASSUME NEW c \in WebCalls, NEW t \in Resets, ResetReads(c, t) PROVE raced' \in [WebCalls -> Nat]
    BY <1>w, <2>3 DEF ResetReads
  <2>4. ASSUME NEW c \in WebCalls, Moves(c) PROVE raced' \in [WebCalls -> Nat]
    BY <2>4 DEF Moves, Elsewhere
  <2> QED BY <1>w, <1>m, <2>1, <2>2, <2>3, <2>4 DEF CloudMoves
<1>3. CloudDataOK'
  <2> USE DEF CloudDataOK
  <2>1. ASSUME NEW c \in WebCalls, LoginAsks(c) \/ MayManage(c) PROVE CloudDataOK'
    BY <1>d, <2>1 DEF LoginAsks, MayManage
  <2>2. ASSUME NEW c \in WebCalls, SessionIssued(c) PROVE CloudDataOK'
    <3>1. web[c].who \in Humans /\ web[c].under \in Nat /\ raced[c] \in Nat
      BY <1>s, <1>w, <2>2 DEF SessionIssued, RequestSound, WebRequests
    <3>2. Opened(web[c].who, web[c].under, raced[c]) \in SessionRecords BY <3>1 DEF Opened, SessionRecords
    <3> QED BY <1>d, <2>2, <3>2 DEF SessionIssued
  <2>3. ASSUME NEW c \in WebCalls, Enrolls(c) PROVE CloudDataOK'
    BY <1>d, <2>3 DEF Enrolls
  <2>4. ASSUME NEW c \in WebCalls, NEW p \in Humans, Confirms(c, p) PROVE CloudDataOK'
    BY <1>d, <2>4 DEF Confirms
  <2>5. ASSUME NEW c \in WebCalls, CodesGiven(c) PROVE CloudDataOK'
    BY <1>s, <1>d, <2>5 DEF CodesGiven, RequestSound
  <2>6. ASSUME NEW c \in WebCalls, CallEnds(c) PROVE CloudDataOK'
    <3>1. signedIn' \subseteq SessionRecords
      <4>1. CASE signedIn' = signedIn BY <1>d, <4>1
      <4>2. CASE signedIn' = WithEnding(web[c].who, FALSE)
        <5>1. ASSUME NEW s \in WithEnding(web[c].who, FALSE) PROVE s \in SessionRecords
          BY <1>d, <5>1, EndingFrom
        <5> QED BY <4>2, <5>1
      <4> QED BY <2>6, <4>1, <4>2 DEF CallEnds
    <3>2. cut' \subseteq Humans
      <4>1. web[c].at = "codes" => web[c].who \in Humans BY <1>s DEF RequestSound
      <4> QED BY <1>d, <2>6, <4>1 DEF CallEnds
    <3>3. UNCHANGED <<password, standing, manages, factor, spare, invite, reset, begun, admitted, spent, crossed, raced>>
      BY <2>6 DEF CallEnds
    <3> QED BY <1>d, <3>1, <3>2, <3>3
  <2>7. ASSUME NEW c \in WebCalls, ResetWrites(c) PROVE CloudDataOK'
    <3>1. signedIn' \subseteq SessionRecords
      <4>1. CASE signedIn' = signedIn BY <1>d, <4>1
      <4>2. CASE signedIn' = SessionsRevoked(web[c].who)
        <5>1. ASSUME NEW s \in WithEnding(web[c].who, TRUE) PROVE s \in SessionRecords
          BY <1>d, <5>1, EndingFrom
        <5> QED BY <4>2, <5>1 DEF SessionsRevoked
      <4> QED BY <2>7, <4>1, <4>2 DEF ResetWrites
    <3>2. UNCHANGED <<password, standing, manages, factor, spare, invite, reset, begun, admitted, spent, cut, crossed>>
      BY <2>7 DEF ResetWrites
    <3> QED BY <1>d, <1>2, <3>1, <3>2
  <2>8. ASSUME NEW c \in WebCalls, ResetCommits(c) PROVE CloudDataOK'
    <3>1. web[c].who \in Humans /\ web[c].item \in Resets BY <1>s, <2>8 DEF ResetCommits, RequestSound
    <3>2. reset' \in [Resets -> ResetRecords]
      <4>1. [reset[web[c].item] EXCEPT !.state = "consumed"] \in ResetRecords BY <1>d, <3>1 DEF ResetRecords
      <4> QED BY <1>d, <2>8, <4>1 DEF ResetCommits
    <3>3. password' \in [Humans -> Nat]
      <4>1. password[web[c].who] + 1 \in Nat BY <1>d, <3>1
      <4> QED BY <1>d, <2>8, <4>1 DEF ResetCommits
    <3>4. spent' \in [Resets -> Nat]
      <4>1. spent[web[c].item] + 1 \in Nat BY <1>d, <3>1
      <4> QED BY <1>d, <2>8, <4>1 DEF ResetCommits
    <3>5. signedIn' \subseteq SessionRecords BY <1>d, <2>8 DEF ResetCommits
    <3>6. UNCHANGED <<standing, manages, factor, spare, invite, begun, admitted, cut, crossed, raced>>
      BY <2>8 DEF ResetCommits
    <3> QED BY <1>d, <3>2, <3>3, <3>4, <3>5, <3>6
  <2>9. ASSUME NEW c \in WebCalls, NEW p \in Humans, LoginReads(c, p) PROVE CloudDataOK'
    <3>1. begun' \in 0..MaxCalls BY <1>d, <2>9, CountedType DEF LoginReads
    <3>2. UNCHANGED <<password, standing, manages, factor, spare, invite, reset, signedIn, admitted, spent, cut, crossed>>
      BY <2>9 DEF LoginReads
    <3> QED BY <1>d, <1>2, <3>1, <3>2
  <2>10. ASSUME NEW c \in WebCalls, NEW p \in Humans, ResetAsked(c, p) PROVE CloudDataOK'
    <3>1. begun' \in 0..MaxCalls BY <1>d, <2>10, CountedType DEF ResetAsked
    <3>2. UNCHANGED <<password, standing, manages, factor, spare, invite, reset, signedIn, admitted, spent, cut, crossed, raced>>
      BY <2>10 DEF ResetAsked
    <3> QED BY <1>d, <3>1, <3>2
  <2>11. ASSUME NEW c \in WebCalls, NEW s \in signedIn, LoggedOut(c, s) PROVE CloudDataOK'
    BY <1>d, <2>11, CountedType DEF LoggedOut
  <2>12. ASSUME NEW c \in WebCalls, NEW s \in signedIn, NEW op \in Ops, Authenticated(c, s, op) PROVE CloudDataOK'
    BY <1>d, <2>12, CountedType DEF Authenticated, Arrives
  <2>13. ASSUME NEW c \in WebCalls, NEW p \in Humans, NEW to \in Standings, StandingSet(c, p, to) PROVE CloudDataOK'
    BY <1>d, <2>13 DEF StandingSet
  <2>14. ASSUME NEW c \in WebCalls, NEW i \in Invites, Resolves(c, i) PROVE CloudDataOK'
    BY <1>d, <2>14 DEF Resolves
  <2>15. ASSUME NEW c \in WebCalls, NEW i \in Invites, SignupReads(c, i) PROVE CloudDataOK'
    <3>1. begun' \in 0..MaxCalls BY <1>d, <2>15, CountedType DEF SignupReads, Arrives
    <3>2. UNCHANGED <<password, standing, manages, factor, spare, invite, reset, signedIn, admitted, spent, cut, crossed>>
      BY <2>15 DEF SignupReads
    <3> QED BY <1>d, <1>2, <3>1, <3>2
  <2>16. ASSUME NEW c \in WebCalls, NEW i \in Invites, SignupCreates(c, i) PROVE CloudDataOK'
    <3>1. password' \in [Humans -> Nat] BY <1>d, <2>16 DEF SignupCreates
    <3> QED BY <1>d, <2>16, <3>1 DEF SignupCreates
  <2>17. ASSUME NEW c \in WebCalls, NEW i \in Invites, NEW p \in Humans, Invited(c, i, p) PROVE CloudDataOK'
    BY <1>d, <2>17 DEF Invited
  <2>18. ASSUME NEW c \in WebCalls, NEW manager \in BOOLEAN, Accepts(c, manager) PROVE CloudDataOK'
    <3>1. web[c].who \in Humans /\ web[c].item \in Invites BY <1>s, <2>18 DEF Accepts, RequestSound
    <3>2. CASE StillOpen(web[c].item) /\ standing[web[c].who] = "none"
      <4>1. standing' \in [Humans -> Standings] BY SMTT(30), <1>d, <2>18, <3>1, <3>2 DEF Accepts, Standings
      <4>2. invite' \in [Invites -> [state : {"none", "open", "accepted", "expired"}, to : Humans]]
        BY <1>d, <2>18, <3>1, <3>2 DEF Accepts
      <4>3. manages' \subseteq Humans BY <1>d, <2>18, <3>1, <3>2 DEF Accepts
      <4>4. admitted' \in [Invites -> SUBSET Humans] BY <1>d, <2>18, <3>1, <3>2 DEF Accepts
      <4>5. UNCHANGED <<password, factor, spare, reset, signedIn, begun, spent, cut, crossed, raced>>
        BY <2>18 DEF Accepts
      <4> QED BY <1>d, <4>1, <4>2, <4>3, <4>4, <4>5
    <3>3. CASE ~(StillOpen(web[c].item) /\ standing[web[c].who] = "none")
      BY <1>d, <2>18, <3>3 DEF Accepts
    <3> QED BY <3>2, <3>3
  <2>19. ASSUME NEW c \in WebCalls, NEW t \in Resets, ResetSent(c, t) PROVE CloudDataOK'
    <3>1. web[c].who \in Humans BY <1>s, <2>19 DEF ResetSent, RequestSound
    <3>2. reset' \in [Resets -> ResetRecords] BY SMTT(30), <1>d, <2>19, <3>1 DEF ResetSent, ResetRecords
    <3> QED BY <1>d, <2>19, <3>2 DEF ResetSent
  <2>20. ASSUME NEW c \in WebCalls, NEW t \in Resets, ResetReads(c, t) PROVE CloudDataOK'
    <3>1. begun' \in 0..MaxCalls BY <1>d, <2>20, CountedType DEF ResetReads
    <3>2. UNCHANGED <<password, standing, manages, factor, spare, invite, reset, signedIn, admitted, spent, cut, crossed, raced>>
      BY <2>20 DEF ResetReads
    <3> QED BY <1>d, <3>1, <3>2
  <2>21. ASSUME NEW s \in signedIn, SessionLapses(s) PROVE CloudDataOK'
    BY <1>d, <2>21, CountedType DEF SessionLapses
  <2>22. ASSUME NEW i \in Invites, InviteLapses(i) PROVE CloudDataOK'
    BY <1>d, <2>22, CountedType DEF InviteLapses
  <2>23. ASSUME NEW t \in Resets, ResetLapses(t) PROVE CloudDataOK'
    <3>1. [reset[t] EXCEPT !.state = "expired"] \in ResetRecords BY <1>d DEF ResetRecords
    <3>2. reset' \in [Resets -> ResetRecords] BY <1>d, <2>23, <3>1 DEF ResetLapses
    <3> QED BY <1>d, <2>23, <3>2, CountedType DEF ResetLapses
  <2>24. CASE UNCHANGED cloudVars BY <1>d, <2>24 DEF cloudVars
  <2> HIDE DEF CloudDataOK
  <2> QED BY <2>1, <2>2, <2>3, <2>4, <2>5, <2>6, <2>7, <2>8, <2>9, <2>10, <2>11, <2>12, <2>13, <2>14, <2>15, <2>16,
             <2>17, <2>18, <2>19, <2>20, <2>21, <2>22, <2>23, <2>24 DEF CloudNext
<1>4. CloudTypeOK' <=> web' \in [WebCalls -> WebRequests] /\ CloudDataOK'
  BY DEF CloudTypeOK, CloudDataOK, WebRequests, WebPlaces, SessionRecords, ResetRecords
<1> QED BY <1>1, <1>3, <1>4

\* Most steps leave the accounts, the members, the invitations and the tokens alone and open no session;
\* these are the others.
CloudRest == UNCHANGED <<password, standing, manages, invite, reset, admitted, spent, crossed>>
             /\ signedIn' \subseteq signedIn
CloudWrites ==
  \/ \E c \in WebCalls : SessionIssued(c)
  \/ \E c \in WebCalls : ResetWrites(c)
  \/ \E c \in WebCalls : ResetCommits(c)
  \/ \E c \in WebCalls : CallEnds(c)
  \/ \E c \in WebCalls, i \in Invites : SignupCreates(c, i)
  \/ \E c \in WebCalls, p \in Humans, to \in Standings : StandingSet(c, p, to)
  \/ \E c \in WebCalls, i \in Invites, p \in Humans : Invited(c, i, p)
  \/ \E c \in WebCalls, manager \in BOOLEAN : Accepts(c, manager)
  \/ \E c \in WebCalls, t \in Resets : ResetSent(c, t)
  \/ \E i \in Invites : InviteLapses(i)
  \/ \E t \in Resets : ResetLapses(t)

\* A step is one of these, or writes none of that.
LEMMA CloudStepCases == ASSUME [CloudNext]_cloudVars PROVE CloudRest \/ CloudWrites
<1>1. ASSUME NEW c \in WebCalls, LoginAsks(c) \/ MayManage(c) PROVE CloudRest
  BY <1>1 DEF CloudRest, LoginAsks, MayManage
<1>2. ASSUME NEW c \in WebCalls, Enrolls(c) \/ CodesGiven(c) PROVE CloudRest
  BY <1>2 DEF CloudRest, Enrolls, CodesGiven
<1>3. ASSUME NEW c \in WebCalls, NEW p \in Humans, Confirms(c, p) PROVE CloudRest
  BY <1>3 DEF CloudRest, Confirms
<1>4. ASSUME NEW c \in WebCalls, NEW p \in Humans, LoginReads(c, p) \/ ResetAsked(c, p) PROVE CloudRest
  BY <1>4 DEF CloudRest, LoginReads, ResetAsked
<1>5. ASSUME NEW c \in WebCalls, NEW s \in signedIn, LoggedOut(c, s) PROVE CloudRest
  BY <1>5 DEF CloudRest, LoggedOut
<1>6. ASSUME NEW c \in WebCalls, NEW s \in signedIn, NEW op \in Ops, Authenticated(c, s, op) PROVE CloudRest
  BY <1>6 DEF CloudRest, Authenticated
<1>7. ASSUME NEW c \in WebCalls, NEW i \in Invites, Resolves(c, i) \/ SignupReads(c, i) PROVE CloudRest
  BY <1>7 DEF CloudRest, Resolves, SignupReads
<1>8. ASSUME NEW c \in WebCalls, NEW t \in Resets, ResetReads(c, t) PROVE CloudRest
  BY <1>8 DEF CloudRest, ResetReads
<1>9. ASSUME NEW s \in signedIn, SessionLapses(s) PROVE CloudRest
  BY <1>9 DEF CloudRest, SessionLapses
<1>10. CASE UNCHANGED cloudVars BY <1>10 DEF CloudRest, cloudVars
<1>11. CASE CloudNext
  <2>1. SUFFICES ASSUME ~CloudRest PROVE CloudWrites OBVIOUS
  <2>2. \/ \E c \in WebCalls : SessionIssued(c) \/ ResetWrites(c) \/ ResetCommits(c) \/ CallEnds(c)
        \/ \E c \in WebCalls, i \in Invites : SignupCreates(c, i)
        \/ \E c \in WebCalls, p \in Humans, to \in Standings : StandingSet(c, p, to)
        \/ \E c \in WebCalls, i \in Invites, p \in Humans : Invited(c, i, p)
        \/ \E c \in WebCalls, manager \in BOOLEAN : Accepts(c, manager)
        \/ \E c \in WebCalls, t \in Resets : ResetSent(c, t)
        \/ \E i \in Invites : InviteLapses(i)
        \/ \E t \in Resets : ResetLapses(t)
    BY <1>1, <1>2, <1>3, <1>4, <1>5, <1>6, <1>7, <1>8, <1>9, <1>11, <2>1 DEF CloudNext
  <2> QED BY <2>2 DEF CloudWrites
<1> QED BY <1>10, <1>11

\* What a request rests on stays while another one is served: accounts stay, and so do roles.
LEMMA CloudRequestsStep ==
  ASSUME CloudTypeOK, RequestsSound, ResetsSound, SessionsSound, [CloudNext]_cloudVars
  PROVE  RequestsSound'
<1>w. web \in [WebCalls -> WebRequests] BY DEF CloudTypeOK, WebRequests, WebPlaces
<1>s. \A c \in WebCalls : RequestSound(c) BY DEF RequestsSound
<1>p. password \in [Humans -> Nat] BY DEF CloudTypeOK
<1>r. reset \in [Resets -> ResetRecords] BY CloudTypes DEF CloudDataOK
<1> DEFINE Grows == manages \subseteq manages' /\ \A h \in Humans : password[h] > 0 => password'[h] > 0
           Kept(c) == web' = [web EXCEPT ![c] = web'[c]]
<1>1. ASSUME Grows, web' = web PROVE RequestsSound'
  BY <1>1 DEF RequestSound, RequestsSound
<1>2. ASSUME Grows, NEW c \in WebCalls, Kept(c), RequestSound(c)' PROVE RequestsSound'
  <2> SUFFICES ASSUME NEW k \in WebCalls, k # c PROVE RequestSound(k)' BY <1>2 DEF RequestsSound
  <2>1. web'[k] = web[k] BY <1>2, <1>w
  <2> QED BY <1>2, <2>1 DEF RequestSound, RequestsSound
<1>3. ASSUME NEW c \in WebCalls, CallOver(c) PROVE Kept(c) /\ RequestSound(c)'
  BY <1>3, <1>w DEF CallOver, RequestSound, Idling
<1>4. ASSUME NEW c \in WebCalls, NEW at \in WebPlaces, Goes(c, at)
      PROVE  /\ Kept(c) /\ web'[c].at = at /\ web'[c].op = web[c].op
             /\ web'[c].who = web[c].who /\ web'[c].item = web[c].item
  BY <1>4, <1>w DEF Goes, WebRequests
<1>5. ASSUME NEW c \in WebCalls, NEW op, NEW p, NEW at, Arrives(c, op, p, at)
      PROVE  Kept(c) /\ web'[c].at = at /\ web'[c].who = p /\ web'[c].op = op
  BY <1>5, <1>w DEF Arrives, Idling
<1>same. ASSUME UNCHANGED <<password, manages>> PROVE Grows BY <1>same
<1> HIDE DEF Grows, Kept
<1>6. ASSUME NEW c \in WebCalls, LoginAsks(c) \/ MayManage(c) \/ SessionIssued(c) \/ Enrolls(c)
               \/ CodesGiven(c) \/ CallEnds(c)
      PROVE  RequestsSound'
  <2>1. Grows BY <1>6, <1>same DEF LoginAsks, MayManage, SessionIssued, Enrolls, CodesGiven, CallEnds
  <2>2. Kept(c) /\ RequestSound(c)'
    <3>1. CASE CallOver(c) BY <1>3, <3>1
    <3>2. CASE Goes(c, "issue") /\ LoginAsks(c)
      BY <1>s, <1>4, <3>2, <1>w DEF WebPlaces, LoginAsks, RequestSound, WebRequests
    <3>3. CASE Goes(c, "may") /\ MayManage(c) /\ web[c].who \in manages
      BY <1>s, <1>4, <3>3, <1>w DEF WebPlaces, MayManage, RequestSound, WebRequests
    <3> QED BY <1>6, <3>1, <3>2, <3>3
        DEF LoginAsks, MayManage, SessionIssued, Enrolls, CodesGiven, CallEnds, RolePermits
  <2> QED BY <1>2, <2>1, <2>2
<1>7. ASSUME NEW c \in WebCalls, ResetWrites(c) PROVE RequestsSound'
  <2>1. Grows BY <1>7, <1>same DEF ResetWrites
  <2>2. CASE CallOver(c) BY <1>2, <1>3, <2>1, <2>2
  <2>3. CASE Goes(c, "commit")
    <3>1. Kept(c) /\ RequestSound(c)' BY <1>s, <1>4, <1>7, <2>3 DEF WebPlaces, ResetWrites, RequestSound
    <3> QED BY <1>2, <2>1, <3>1
  <2> QED BY <1>7, <2>2, <2>3 DEF ResetWrites
<1>8. ASSUME NEW c \in WebCalls, NEW p \in Humans, LoginReads(c, p) PROVE RequestsSound'
  <2>1. Grows BY <1>8, <1>same DEF LoginReads
  <2>2. web'[c] = [Idling EXCEPT !.op = "login", !.who = p, !.at = "factor", !.under = password[p]]
    BY <1>8, <1>w DEF LoginReads
  <2>3. web'[c].op = "login" /\ web'[c].who = p /\ web'[c].at = "factor" BY <2>2 DEF Idling
  <2>4. RequestSound(c)' BY <1>8, <2>3 DEF RequestSound, LoginReads, SignInOps
  <2>5. Kept(c) BY <1>8, <1>w, <2>2 DEF Kept, LoginReads
  <2> QED BY <1>2, <2>1, <2>4, <2>5
<1>9. ASSUME NEW c \in WebCalls, NEW p \in Humans, ResetAsked(c, p) PROVE RequestsSound'
  <2>1. Grows BY <1>9, <1>same DEF ResetAsked
  <2>2. Kept(c) /\ web'[c].at = "tokens" /\ web'[c].who = p BY <1>9, <1>w, AskedMoves DEF Kept
  <2>3. RequestSound(c)' BY <1>9, <2>2 DEF ResetAsked, RequestSound
  <2> QED BY <1>2, <2>1, <2>2, <2>3
<1>10. ASSUME NEW c \in WebCalls, NEW s \in signedIn, NEW op \in Ops, Authenticated(c, s, op)
       PROVE  RequestsSound'
  <2>1. Grows BY <1>10, <1>same DEF Authenticated
  <2>2. Kept(c) /\ RequestSound(c)' 
    <3>1. s.of \in Humans /\ password[s.of] > 0 BY DEF CloudTypeOK, SessionsSound, SessionSound
    <3> QED BY <1>s, <1>5, <1>10, <3>1 DEF Authenticated, RequestSound
  <2> QED BY <1>2, <2>1, <2>2
<1>11. ASSUME NEW c \in WebCalls, NEW i \in Invites, Resolves(c, i) PROVE RequestsSound'
  <2>1. Grows BY <1>11, <1>same DEF Resolves
  <2>2. web'[c] = [web[c] EXCEPT !.at = "accept", !.item = i] BY <1>11, <1>w DEF Resolves, WebRequests
  <2>3. web'[c].at = "accept" /\ web'[c].who = web[c].who /\ web'[c].item = i BY <1>w, <2>2 DEF WebRequests
  <2>4. web[c].who \in Humans /\ password[web[c].who] > 0 /\ password' = password
    BY <1>s, <1>11 DEF Resolves, RequestSound
  <2>5. RequestSound(c)' BY <2>3, <2>4 DEF RequestSound
  <2>6. Kept(c) BY <1>11, <1>w, <2>2 DEF Kept, Resolves
  <2> QED BY <1>2, <2>1, <2>5, <2>6
<1>12. ASSUME NEW c \in WebCalls, NEW i \in Invites, SignupReads(c, i) PROVE RequestsSound'
  <2>1. Grows BY <1>12, <1>same DEF SignupReads
  <2>2. invite[i].to \in Humans BY DEF CloudTypeOK
  <2>3. Kept(c) /\ RequestSound(c)' BY <1>s, <1>5, <1>12, <2>2 DEF SignupReads, RequestSound, SignInOps
  <2> QED BY <1>2, <2>1, <2>3
<1>13. ASSUME NEW c \in WebCalls, NEW i \in Invites, SignupCreates(c, i) PROVE RequestsSound'
  <2>1. Grows BY <1>13, <1>p DEF SignupCreates, Grows
  <2>2. web[c].who \in Humans BY <1>s, <1>13 DEF SignupCreates, RequestSound
  <2>3. CASE CallOver(c) BY <1>2, <1>3, <2>1, <2>3
  <2>4. CASE /\ password' = [password EXCEPT ![web[c].who] = 1]
             /\ web' = [web EXCEPT ![c].at = "join", ![c].item = i, ![c].under = 1]
    <3>0. web'[c] = [web[c] EXCEPT !.at = "join", !.item = i, !.under = 1] BY <2>4, <1>w DEF WebRequests
    <3>1. web'[c].at = "join" /\ web'[c].who = web[c].who /\ web'[c].op = web[c].op
      BY <3>0, <1>w DEF WebRequests
    <3>4. web[c].op \in SignInOps BY <1>s, <1>13 DEF SignupCreates, RequestSound
    <3>2. RequestSound(c)' BY <2>4, <2>2, <3>1, <3>4, <1>p DEF RequestSound
    <3>3. Kept(c) BY <2>4, <1>w DEF Kept
    <3> QED BY <1>2, <2>1, <3>2, <3>3
  <2> QED BY <1>13, <2>3, <2>4 DEF SignupCreates
<1>14. ASSUME NEW c \in WebCalls, CallOver(c), UNCHANGED <<password, manages>> PROVE RequestsSound'
  <2>1. Grows BY <1>14, <1>same
  <2> QED BY <1>2, <1>3, <1>14, <2>1
<1>15. ASSUME NEW c \in WebCalls, NEW manager \in BOOLEAN, Accepts(c, manager)
       PROVE  RequestsSound'
  <2>1. Grows BY <1>15 DEF Accepts, Grows
  <2>2. CASE CallOver(c) BY <1>2, <1>3, <2>1, <2>2
  <2>3. CASE Goes(c, "issue") /\ web[c].op = "signup" /\ web[c].at = "accept" /\ password' = password
    <3>1. Kept(c) /\ RequestSound(c)' BY <1>s, <1>4, <2>3 DEF WebPlaces, RequestSound, SignInOps
    <3> QED BY <1>2, <2>1, <3>1
  <2> QED BY <1>15, <2>2, <2>3 DEF Accepts
<1>16. ASSUME NEW c \in WebCalls, NEW t \in Resets, ResetSent(c, t) PROVE RequestsSound'
  BY <1>2, <1>3, <1>16, <1>same DEF ResetSent
<1>17. ASSUME NEW c \in WebCalls, NEW t \in Resets, ResetReads(c, t) PROVE RequestsSound'
  <2>1. Grows BY <1>17, <1>same DEF ResetReads
  <2>2. reset[t].of \in Humans /\ password[reset[t].of] > 0
    BY <1>r, <1>17 DEF ResetRecords, ResetReads, ResetsSound
  <2>3. /\ Kept(c) /\ web'[c].at = "confirm" /\ web'[c].who = reset[t].of /\ web'[c].item = t
    BY <1>r, <1>w, <1>17, ReadsMove DEF Kept
  <2>4. RequestSound(c)' BY <1>17, <2>2, <2>3 DEF ResetReads, RequestSound
  <2> QED BY <1>2, <2>1, <2>3, <2>4
<1>18. ASSUME NEW c \in WebCalls, NEW s \in signedIn, LoggedOut(c, s) PROVE RequestsSound'
  BY <1>1, <1>18, <1>same DEF LoggedOut
<1>19. ASSUME NEW s \in signedIn, SessionLapses(s) PROVE RequestsSound'
  BY <1>1, <1>19, <1>same DEF SessionLapses
<1>20. ASSUME NEW i \in Invites, InviteLapses(i) PROVE RequestsSound'
  BY <1>1, <1>20, <1>same DEF InviteLapses
<1>21. ASSUME NEW t \in Resets, ResetLapses(t) PROVE RequestsSound'
  BY <1>1, <1>21, <1>same DEF ResetLapses
<1>22. CASE UNCHANGED cloudVars BY <1>1, <1>22, <1>same DEF cloudVars
<1>23. ASSUME NEW c \in WebCalls, ResetCommits(c) PROVE RequestsSound'
  <2>1. Grows BY <1>23, <1>p DEF ResetCommits, Grows
  <2> QED BY <1>2, <1>3, <1>23, <2>1 DEF ResetCommits
<1>24. ASSUME NEW c \in WebCalls, NEW p \in Humans, Confirms(c, p) PROVE RequestsSound'
  <2>1. Grows BY <1>24, <1>same DEF Confirms
  <2>2. web'[c] = [web[c] EXCEPT !.at = "codes", !.who = p] BY <1>24, <1>w DEF Confirms, WebRequests
  <2>3. web'[c].at = "codes" /\ web'[c].who = p BY <1>w, <2>2 DEF WebRequests
  <2>4. RequestSound(c)' BY <2>3 DEF RequestSound
  <2>5. Kept(c) BY <1>24, <1>w, <2>2 DEF Kept, Confirms
  <2> QED BY <1>2, <2>1, <2>4, <2>5
<1> QED BY <1>6, <1>7, <1>8, <1>9, <1>10, <1>11, <1>12, <1>13, <1>14, <1>15, <1>16, <1>17, <1>18, <1>19, <1>20,
           <1>21, <1>22, <1>23, <1>24 DEF CloudNext, Invited, StandingSet

\* Accounts stay.
LEMMA AccountsStay ==
  ASSUME CloudTypeOK, [CloudNext]_cloudVars
  PROVE  \A p \in Humans : password[p] > 0 => password'[p] > 0
<1>p. password \in [Humans -> Nat] BY DEF CloudTypeOK
<1> DEFINE Stay == \A p \in Humans : password[p] > 0 => password'[p] > 0
<1>1. ASSUME password' = password PROVE Stay BY <1>1
<1>2. ASSUME NEW c \in WebCalls, NEW i \in Invites, SignupCreates(c, i) PROVE Stay
  BY <1>p, <1>2 DEF SignupCreates
<1>3. ASSUME NEW c \in WebCalls, ResetCommits(c) PROVE Stay BY <1>p, <1>3 DEF ResetCommits
<1> HIDE DEF Stay
<1>4. ASSUME NEW c \in WebCalls, SessionIssued(c) \/ ResetWrites(c) \/ CallEnds(c) PROVE Stay
  BY <1>1, <1>4 DEF SessionIssued, ResetWrites, CallEnds
<1>5. ASSUME NEW c \in WebCalls, NEW p \in Humans, NEW to \in Standings, StandingSet(c, p, to) PROVE Stay
  BY <1>1, <1>5 DEF StandingSet
<1>6. ASSUME NEW c \in WebCalls, NEW i \in Invites, NEW p \in Humans, Invited(c, i, p) PROVE Stay
  BY <1>1, <1>6 DEF Invited
<1>7. ASSUME NEW c \in WebCalls, NEW manager \in BOOLEAN, Accepts(c, manager) PROVE Stay
  BY <1>1, <1>7 DEF Accepts
<1>8. ASSUME NEW c \in WebCalls, NEW t \in Resets, ResetSent(c, t) PROVE Stay BY <1>1, <1>8 DEF ResetSent
<1>9. ASSUME NEW i \in Invites, InviteLapses(i) PROVE Stay BY <1>1, <1>9 DEF InviteLapses
<1>10. ASSUME NEW t \in Resets, ResetLapses(t) PROVE Stay BY <1>1, <1>10 DEF ResetLapses
<1>11. ASSUME CloudRest PROVE Stay BY <1>1, <1>11 DEF CloudRest
<1>12. Stay BY <1>2, <1>3, <1>4, <1>5, <1>6, <1>7, <1>8, <1>9, <1>10, <1>11, CloudStepCases DEF CloudWrites
<1> QED BY <1>12 DEF Stay

\* A token stays whose it is, and only the request that holds it, and one that saw it live, use it up.
LEMMA TokensStep ==
  ASSUME CloudTypeOK, [CloudNext]_cloudVars
  PROVE  \/ reset' = reset
         \/ \E c \in WebCalls : ResetCommits(c)
         \/ \E c \in WebCalls, t \in Resets : ResetSent(c, t)
         \/ \E t \in Resets : ResetLapses(t)
<1>1. ASSUME NEW c \in WebCalls, SessionIssued(c) \/ ResetWrites(c) \/ CallEnds(c) PROVE reset' = reset
  BY <1>1 DEF SessionIssued, ResetWrites, CallEnds
<1>2. ASSUME NEW c \in WebCalls, NEW i \in Invites, SignupCreates(c, i) PROVE reset' = reset
  BY <1>2 DEF SignupCreates
<1>3. ASSUME NEW c \in WebCalls, NEW p \in Humans, NEW to \in Standings, StandingSet(c, p, to) PROVE reset' = reset
  BY <1>3 DEF StandingSet
<1>4. ASSUME NEW c \in WebCalls, NEW i \in Invites, NEW p \in Humans, Invited(c, i, p) PROVE reset' = reset
  BY <1>4 DEF Invited
<1>5. ASSUME NEW c \in WebCalls, NEW manager \in BOOLEAN, Accepts(c, manager) PROVE reset' = reset
  BY <1>5 DEF Accepts
<1>6. ASSUME NEW i \in Invites, InviteLapses(i) PROVE reset' = reset BY <1>6 DEF InviteLapses
<1>7. CASE CloudRest BY <1>7 DEF CloudRest
<1> QED BY <1>1, <1>2, <1>3, <1>4, <1>5, <1>6, <1>7, CloudStepCases DEF CloudWrites

\* So no step takes a token from the request that holds it, and none comes to hold it beside that one.
LEMMA TokensAlone ==
  ASSUME CloudTypeOK, RequestsSound, ResetsSound, [CloudNext]_cloudVars PROVE ResetsSound'
<1>w. web \in [WebCalls -> WebRequests] BY CloudTypes
<1>r. reset \in [Resets -> ResetRecords] BY CloudTypes DEF CloudDataOK
<1>s. \A c \in WebCalls : RequestSound(c) BY DEF RequestsSound
<1>i. ASSUME NEW c \in WebCalls, web[c].at \in {"confirm", "commit"} PROVE web[c].item \in Resets
  BY <1>s, <1>i DEF RequestSound
<1>n. \A c \in WebCalls : web[c].seen \subseteq Resets BY <1>w DEF WebRequests
<1>t. \A c \in WebCalls : TokenSound(c) /\ AloneSound(c) BY DEF ResetsSound
<1>a. \A p \in Humans : password[p] > 0 => password'[p] > 0 BY AccountsStay
<1>m. CloudMoves BY CloudMovesStep
<1> DEFINE Owned == \A t \in Resets : reset[t].state # "none" => password[reset[t].of] > 0
           Kept(t) == reset'[t].of = reset[t].of /\ reset'[t].state # "none"
           Stays == /\ \A t \in Resets : reset[t].state # "none" => Kept(t)
                    /\ \A c \in WebCalls : web[c].at = "commit" /\ web'[c].at = "commit" =>
                         reset'[web[c].item].state # "consumed"
           Sound == \A c \in WebCalls : (TokenSound(c) /\ AloneSound(c))'
<1>1. ASSUME Stays, NEW c \in WebCalls, \A d \in WebCalls : d # c => web'[d] = web[d],
             web'[c].at \notin {"tokens", "confirm", "commit"}
      PROVE  Sound
  <2> SUFFICES ASSUME NEW k \in WebCalls PROVE (TokenSound(k) /\ AloneSound(k))' OBVIOUS
  <2>1. CASE k = c BY <1>1, <2>1 DEF TokenSound, AloneSound
  <2>2. CASE k # c
    <3>1. web'[k] = web[k] BY <1>1, <2>2
    <3>2. TokenSound(k)'
      <4>1. ASSUME web[k].at \in {"confirm", "commit"}
            PROVE  reset'[web[k].item].state # "none" /\ reset'[web[k].item].of = web[k].who
        <5>1. web[k].item \in Resets BY <1>i, <4>1
        <5>2. reset[web[k].item].state # "none" /\ reset[web[k].item].of = web[k].who
          BY <1>t, <4>1 DEF TokenSound
        <5> QED BY <1>1, <5>1, <5>2
      <4>2. ASSUME web[k].at = "tokens", NEW t \in web[k].seen PROVE reset'[t].state # "none"
        BY <1>1, <1>t, <1>n, <4>2 DEF TokenSound
      <4> QED BY <3>1, <4>1, <4>2 DEF TokenSound
    <3>3. AloneSound(k)'
      <4> SUFFICES ASSUME web[k].at = "commit", NEW d \in WebCalls
                   PROVE  /\ reset'[web[k].item].state # "consumed"
                          /\ web'[d].at = "commit" /\ web'[d].who = web[k].who => d = k
                          /\ web'[d].at = "tokens" => web[k].item \notin web'[d].seen
        BY <3>1 DEF AloneSound
      <4>1. reset'[web[k].item].state # "consumed" BY <1>1, <3>1
      <4>2. web'[d] = web[d] \/ web'[d].at \notin {"tokens", "commit"} BY <1>1
      <4> QED BY <1>t, <4>1, <4>2 DEF AloneSound
    <3> QED BY <3>2, <3>3
  <2> QED BY <2>1, <2>2
<1>2. ASSUME Stays, web' = web PROVE Sound
  <2> SUFFICES ASSUME NEW k \in WebCalls PROVE (TokenSound(k) /\ AloneSound(k))' OBVIOUS
  <2>1. TokenSound(k)'
    <3>1. ASSUME web[k].at \in {"confirm", "commit"}
          PROVE  reset'[web[k].item].state # "none" /\ reset'[web[k].item].of = web[k].who
      <4>1. web[k].item \in Resets BY <1>i, <3>1
      <4>2. reset[web[k].item].state # "none" /\ reset[web[k].item].of = web[k].who
        BY <1>t, <3>1 DEF TokenSound
      <4> QED BY <1>2, <4>1, <4>2
    <3>2. ASSUME web[k].at = "tokens", NEW t \in web[k].seen PROVE reset'[t].state # "none"
      BY <1>2, <1>t, <1>n, <3>2 DEF TokenSound
    <3> QED BY <1>2, <3>1, <3>2 DEF TokenSound
  <2>2. AloneSound(k)'
    <3>1. web[k].at = "commit" => reset'[web[k].item].state # "consumed" BY <1>2
    <3> QED BY <1>t, <1>2, <3>1 DEF AloneSound
  <2> QED BY <2>1, <2>2
<1>same. ASSUME reset' = reset PROVE Stays BY <1>same, <1>t DEF AloneSound
<1>owned. ASSUME reset' = reset PROVE Owned'
  <2> SUFFICES ASSUME NEW t \in Resets, reset[t].state # "none" PROVE password'[reset[t].of] > 0
    BY <1>owned
  <2>1. reset[t].of \in Humans BY <1>r DEF ResetRecords
  <2>2. password[reset[t].of] > 0 BY DEF ResetsSound
  <2> QED BY <1>a, <2>1, <2>2
<1>3. CASE reset' = reset
  <2>1. ASSUME NEW c \in WebCalls, ResetWrites(c), Goes(c, "commit") PROVE Sound
    <3>1. /\ web'[c].at = "commit" /\ web'[c].who = web[c].who /\ web'[c].item = web[c].item
          /\ \A d \in WebCalls : d # c => web'[d] = web[d]
      BY <1>w, <2>1, WritesMove
    <3>2. web[c].at = "confirm" /\ web[c].item \in Resets BY <1>s, <2>1 DEF ResetWrites, RequestSound
    <3>3. reset[web[c].item].state # "consumed" /\ ~Held(web[c].item, web[c].who)
      <4>1. ~CallOver(c)
        <5>1. web'[c] # Idling BY <3>1 DEF Idling
        <5> QED BY <1>w, <5>1 DEF CallOver
      <4> QED BY <2>1, <4>1 DEF ResetWrites
    <3> SUFFICES ASSUME NEW k \in WebCalls PROVE (TokenSound(k) /\ AloneSound(k))' OBVIOUS
    <3>4. TokenSound(k)' BY <1>3, <1>t, <3>1, <3>2 DEF TokenSound
    <3>5. AloneSound(k)'
      <4>1. CASE k = c
        <5>1. \A d \in WebCalls : /\ web'[d].at = "commit" /\ web'[d].who = web[c].who => d = c
                                  /\ web'[d].at = "tokens" => web[c].item \notin web'[d].seen
          BY <3>1, <3>3 DEF Held
        <5> QED BY <1>3, <3>1, <3>3, <4>1, <5>1 DEF AloneSound
      <4>2. CASE k # c
        <5>1. web[k].at = "commit" => web[k].who # web[c].who BY <3>3 DEF Held
        <5>2. web'[k] = web[k] BY <3>1, <4>2
        <5> QED BY <1>3, <1>t, <3>1, <5>1, <5>2 DEF AloneSound
      <4> QED BY <4>1, <4>2
    <3> QED BY <3>4, <3>5
  <2>2. ASSUME NEW c \in WebCalls, NEW p \in Humans, ResetAsked(c, p) PROVE Sound
    <3>1. /\ web'[c].at = "tokens" /\ web'[c].seen = LiveTokens(p)
          /\ \A d \in WebCalls : d # c => web'[d] = web[d]
      BY <1>w, <2>2, AskedMoves
    <3>2. \A d \in WebCalls : web[d].at = "commit" => web[d].item \notin LiveTokens(p) BY <2>2 DEF ResetAsked
    <3> SUFFICES ASSUME NEW k \in WebCalls PROVE (TokenSound(k) /\ AloneSound(k))' OBVIOUS
    <3>3. CASE k = c BY <1>3, <3>1, <3>3 DEF TokenSound, AloneSound, LiveTokens
    <3>4. CASE k # c
      <4>1. web'[k] = web[k] BY <3>1, <3>4
      <4>2. TokenSound(k)' BY <1>3, <1>t, <4>1 DEF TokenSound
      <4>3. AloneSound(k)' BY <1>3, <1>t, <3>1, <3>2, <4>1 DEF AloneSound
      <4> QED BY <4>2, <4>3
    <3> QED BY <3>3, <3>4
  <2>3. ASSUME NEW c \in WebCalls, NEW t \in Resets, ResetReads(c, t) PROVE Sound
    <3>1. /\ web'[c].at = "confirm" /\ web'[c].who = reset[t].of /\ web'[c].item = t
          /\ \A d \in WebCalls : d # c => web'[d] = web[d]
      BY <1>w, <1>r, <2>3, ReadsMove
    <3>2. reset[t].state = "live" BY <2>3 DEF ResetReads
    <3> SUFFICES ASSUME NEW k \in WebCalls PROVE (TokenSound(k) /\ AloneSound(k))' OBVIOUS
    <3>3. CASE k = c BY <1>3, <3>1, <3>2, <3>3 DEF TokenSound, AloneSound
    <3>4. CASE k # c
      <4>1. web'[k] = web[k] BY <3>1, <3>4
      <4>2. TokenSound(k)' BY <1>3, <1>t, <4>1 DEF TokenSound
      <4>3. AloneSound(k)' BY <1>3, <1>t, <3>1, <4>1 DEF AloneSound
      <4> QED BY <4>2, <4>3
    <3> QED BY <3>3, <3>4
  <2>4. ASSUME NEW c \in WebCalls, Moves(c) PROVE Sound
    <3>1. \A d \in WebCalls : d # c => web'[d] = web[d] BY <1>w, <2>4 DEF Moves, Elsewhere
    <3>2. web'[c].at \notin {"tokens", "confirm", "commit"} BY <2>4 DEF Moves
    <3>3. Stays BY <1>3, <1>same
    <3> HIDE DEF Stays, Sound
    <3> QED BY <1>1, <3>1, <3>2, <3>3
  <2>5. ASSUME UNCHANGED <<web, raced>> PROVE Sound
    <3>1. Stays BY <1>3, <1>same
    <3> HIDE DEF Stays, Sound
    <3> QED BY <1>2, <2>5, <3>1
  <2>6. Sound
    <3> HIDE DEF Sound
    <3> QED BY <1>m, <2>1, <2>2, <2>3, <2>4, <2>5 DEF CloudMoves
  <2> QED BY <1>3, <1>owned, <2>6 DEF ResetsSound
<1>4. ASSUME NEW c \in WebCalls, ResetCommits(c) PROVE ResetsSound'
  <2> DEFINE t == web[c].item
  <2>1. web[c].at = "commit" /\ t \in Resets BY <1>s, <1>4 DEF ResetCommits, RequestSound
  <2>2. \A d \in WebCalls : d # c => web'[d] = web[d] BY <1>w, <1>4 DEF ResetCommits, CallOver
  <2>3. web'[c] = Idling BY <1>w, <1>4 DEF ResetCommits, CallOver
  <2>4. reset[t].state # "none" /\ reset[t].of = web[c].who BY <1>t, <2>1 DEF TokenSound
  <2>5. reset' = [reset EXCEPT ![t].state = "consumed"] BY <1>4 DEF ResetCommits
  <2> HIDE DEF t
  <2>6. \A u \in Resets : u # t => reset'[u] = reset[u] BY <1>r, <2>5
  <2>7. reset'[t].state = "consumed" /\ reset'[t].of = reset[t].of BY <1>r, <2>1, <2>5 DEF ResetRecords
  <2>8. Stays
    <3>1. ASSUME NEW u \in Resets, reset[u].state # "none" PROVE Kept(u) BY <2>6, <2>7, <3>1
    <3>2. ASSUME NEW d \in WebCalls, web[d].at = "commit", web'[d].at = "commit"
          PROVE  reset'[web[d].item].state # "consumed"
      <4>1. d # c BY <2>3, <3>2 DEF Idling
      <4>2. web[d].item \in Resets /\ reset[web[d].item].of = web[d].who /\ reset[web[d].item].state # "consumed"
        BY <1>i, <1>t, <3>2 DEF TokenSound, AloneSound
      <4>3. web[d].item # t BY <1>t, <2>1, <2>4, <3>2, <4>1, <4>2 DEF AloneSound
      <4> QED BY <2>6, <4>2, <4>3
    <3> QED BY <3>1, <3>2
  <2>9. web'[c].at = "idle" BY <2>3 DEF Idling
  <2>10. Sound
    <3> HIDE DEF Stays, Sound
    <3> QED BY <1>1, <2>2, <2>8, <2>9
  <2>11. Owned'
    <3> SUFFICES ASSUME NEW u \in Resets, reset'[u].state # "none" PROVE password'[reset'[u].of] > 0 OBVIOUS
    <3>1. reset'[u].of = reset[u].of /\ reset[u].state # "none" BY <2>4, <2>6, <2>7
    <3>2. reset[u].of \in Humans /\ password[reset[u].of] > 0 BY <1>r, <3>1 DEF ResetRecords, ResetsSound
    <3> QED BY <1>a, <3>1, <3>2
  <2> QED BY <2>10, <2>11 DEF ResetsSound
<1>5. ASSUME NEW c \in WebCalls, NEW t \in Resets, ResetSent(c, t) PROVE ResetsSound'
  <2>1. web[c].at = "tokens" /\ reset[t].state = "none" BY <1>5 DEF ResetSent
  <2>2. \A d \in WebCalls : d # c => web'[d] = web[d] BY <1>w, <1>5 DEF ResetSent, CallOver
  <2>3. web'[c] = Idling BY <1>w, <1>5 DEF ResetSent, CallOver
  <2>4. web[c].who \in Humans /\ password[web[c].who] > 0 BY <1>s, <2>1 DEF RequestSound
  <2>5. reset'[t] = [state |-> "live", of |-> web[c].who] BY <1>5 DEF ResetSent
  <2>6. ASSUME NEW u \in Resets, u # t
        PROVE  /\ reset'[u].of = reset[u].of /\ (reset'[u].state = "none" <=> reset[u].state = "none")
               /\ u \notin web[c].seen => reset'[u] = reset[u]
    <3>1. reset[u] \in ResetRecords BY <1>r
    <3>2. reset'[u] = IF u \in web[c].seen /\ reset[u].state # "consumed"
                      THEN [reset[u] EXCEPT !.state = "consumed"] ELSE reset[u]
      BY <1>5, <2>6 DEF ResetSent
    <3>3. CASE u \in web[c].seen /\ reset[u].state # "consumed"
      <4>1. reset'[u].of = reset[u].of /\ reset'[u].state = "consumed" BY <3>1, <3>2, <3>3 DEF ResetRecords
      <4>2. reset[u].state # "none" BY <1>t, <2>1, <3>3 DEF TokenSound
      <4> QED BY <3>3, <4>1, <4>2
    <3>4. CASE ~(u \in web[c].seen /\ reset[u].state # "consumed") BY <3>2, <3>4
    <3> QED BY <3>3, <3>4
  <2>7. Stays
    <3>1. ASSUME NEW u \in Resets, reset[u].state # "none" PROVE Kept(u) BY <2>1, <2>6, <3>1
    <3>2. ASSUME NEW d \in WebCalls, web[d].at = "commit", web'[d].at = "commit"
          PROVE  reset'[web[d].item].state # "consumed"
      <4>1. /\ web[d].item \in Resets /\ reset[web[d].item].state \notin {"none", "consumed"}
            /\ web[d].item \notin web[c].seen
        BY <1>i, <1>t, <2>1, <3>2 DEF TokenSound, AloneSound
      <4>2. web[d].item # t BY <2>1, <4>1
      <4> QED BY <2>6, <4>1, <4>2
    <3> QED BY <3>1, <3>2
  <2>8. web'[c].at = "idle" BY <2>3 DEF Idling
  <2>9. Sound
    <3> HIDE DEF Stays, Sound
    <3> QED BY <1>1, <2>2, <2>7, <2>8
  <2>10. Owned'
    <3> SUFFICES ASSUME NEW u \in Resets, reset'[u].state # "none" PROVE password'[reset'[u].of] > 0 OBVIOUS
    <3>1. CASE u = t BY <1>a, <2>4, <2>5, <3>1
    <3>2. CASE u # t
      <4>1. reset'[u].of = reset[u].of /\ reset[u].state # "none" BY <2>6, <3>2
      <4>2. reset[u].of \in Humans /\ password[reset[u].of] > 0 BY <1>r, <4>1 DEF ResetRecords, ResetsSound
      <4> QED BY <1>a, <4>1, <4>2
    <3> QED BY <3>1, <3>2
  <2> QED BY <2>9, <2>10 DEF ResetsSound
<1>6. ASSUME NEW t \in Resets, ResetLapses(t) PROVE ResetsSound'
  <2>1. web' = web /\ reset[t].state = "live" /\ reset' = [reset EXCEPT ![t].state = "expired"]
    BY <1>6 DEF ResetLapses
  <2>2. \A u \in Resets : u # t => reset'[u] = reset[u] BY <1>r, <2>1
  <2>3. reset'[t].state = "expired" /\ reset'[t].of = reset[t].of BY <1>r, <2>1 DEF ResetRecords
  <2>4. Stays
    <3>1. ASSUME NEW u \in Resets, reset[u].state # "none" PROVE Kept(u) BY <2>2, <2>3, <3>1
    <3>2. ASSUME NEW d \in WebCalls, web[d].at = "commit" PROVE reset'[web[d].item].state # "consumed"
      <4>1. web[d].item \in Resets /\ reset[web[d].item].state # "consumed"
        BY <1>i, <1>t, <3>2 DEF AloneSound
      <4> QED BY <2>2, <2>3, <4>1
    <3> QED BY <3>1, <3>2
  <2>5. Sound
    <3> HIDE DEF Stays, Sound
    <3> QED BY <1>2, <2>1, <2>4
  <2>6. Owned'
    <3> SUFFICES ASSUME NEW u \in Resets, reset'[u].state # "none" PROVE password'[reset'[u].of] > 0 OBVIOUS
    <3>1. reset'[u].of = reset[u].of /\ reset[u].state # "none" BY <2>1, <2>2, <2>3
    <3>2. reset[u].of \in Humans /\ password[reset[u].of] > 0 BY <1>r, <3>1 DEF ResetRecords, ResetsSound
    <3> QED BY <1>a, <3>1, <3>2
  <2> QED BY <2>5, <2>6 DEF ResetsSound
<1> QED BY <1>3, <1>4, <1>5, <1>6, TokensStep

\* Resetting is over, or goes on, where a transaction stays.
LEMMA ResettingStays ==
  ASSUME web \in [WebCalls -> WebRequests], NEW c \in WebCalls, web' = [web EXCEPT ![c] = web'[c]],
         web'[c].at # "commit", NEW p, Resetting(p)'
  PROVE  Resetting(p)
<1>1. PICK d \in WebCalls : web'[d].at = "commit" /\ web'[d].who = p BY DEF Resetting
<1>2. d # c BY <1>1
<1>3. web'[d] = web[d] BY <1>2
<1> QED BY <1>1, <1>3 DEF Resetting

\* What a sign-in read stays true of it while neither the password nor who resets it changes.
LEMMA RestsStay ==
  ASSUME CloudTypeOK, RequestsSound, [CloudNext]_cloudVars, password' = password,
         \A c \in WebCalls : ~(ResetWrites(c) /\ Goes(c, "commit")),
         NEW p, NEW under, NEW late, NEW ending, Rests(p, under, late, ending)
  PROVE  Rests(p, under, late, ending)'
<1>w. web \in [WebCalls -> WebRequests] BY CloudTypes
<1>r. reset \in [Resets -> ResetRecords] BY CloudTypes DEF CloudDataOK
<1>m. CloudMoves BY CloudMovesStep
<1>1. ASSUME NEW c \in WebCalls, web' = [web EXCEPT ![c] = web'[c]], web'[c].at # "commit", Resetting(p)'
      PROVE  Resetting(p)
  BY <1>w, <1>1, ResettingStays
<1>2. ASSUME NEW c \in WebCalls, Moves(c), Resetting(p)' PROVE Resetting(p)
  BY <1>1, <1>2 DEF Moves, Elsewhere
<1>3. ASSUME NEW c \in WebCalls, NEW q \in Humans, ResetAsked(c, q), Resetting(p)' PROVE Resetting(p)
  BY <1>w, <1>1, <1>3, AskedMoves
<1>4. ASSUME NEW c \in WebCalls, NEW t \in Resets, ResetReads(c, t), Resetting(p)' PROVE Resetting(p)
  BY <1>w, <1>r, <1>1, <1>4, ReadsMove
<1>5. ASSUME UNCHANGED <<web, raced>>, Resetting(p)' PROVE Resetting(p) BY <1>5 DEF Resetting
<1>6. Resetting(p)' => Resetting(p) BY <1>m, <1>2, <1>3, <1>4, <1>5 DEF CloudMoves
<1> QED BY <1>6 DEF Rests

\* A transaction that writes is the first that is there for its person, and the last when it ends.
LEMMA ResettingOne ==
  ASSUME web \in [WebCalls -> WebRequests], ResetsSound, NEW c \in WebCalls, web[c].at = "commit",
         CallOver(c), NEW p, p = web[c].who
  PROVE  ~Resetting(p)' /\ Resetting(p)
<1>1. \A d \in WebCalls : web[d].at = "commit" /\ web[d].who = p => d = c
  BY DEF ResetsSound, AloneSound
<1>2. web'[c].at = "idle" /\ \A d \in WebCalls : d # c => web'[d] = web[d] BY DEF CallOver, Idling
<1>3. ~\E d \in WebCalls : web'[d].at = "commit" /\ web'[d].who = p
  <2> SUFFICES ASSUME NEW d \in WebCalls, web'[d].at = "commit", web'[d].who = p PROVE FALSE OBVIOUS
  <2>1. d # c BY <1>2
  <2> QED BY <1>1, <1>2, <2>1
<1>4. Resetting(p) BY DEF Resetting
<1> QED BY <1>3, <1>4 DEF Resetting

\* Which steps change a password, or begin to.
LEMMA PasswordCases ==
  ASSUME [CloudNext]_cloudVars
  PROVE  \/ password' = password /\ \A c \in WebCalls : ~(ResetWrites(c) /\ Goes(c, "commit"))
         \/ \E c \in WebCalls : ResetWrites(c) /\ Goes(c, "commit")
         \/ \E c \in WebCalls : ResetCommits(c)
         \/ \E c \in WebCalls, i \in Invites : SignupCreates(c, i) /\ password[web[c].who] = 0
<1>1. ASSUME NEW c \in WebCalls, SessionIssued(c) \/ ResetWrites(c) \/ CallEnds(c) PROVE password' = password
  BY <1>1 DEF SessionIssued, ResetWrites, CallEnds
<1>2. ASSUME NEW c \in WebCalls, NEW i \in Invites, SignupCreates(c, i)
      PROVE  password' = password \/ password[web[c].who] = 0
  BY <1>2 DEF SignupCreates
<1>3. ASSUME NEW c \in WebCalls, NEW p \in Humans, NEW to \in Standings, StandingSet(c, p, to) PROVE password' = password
  BY <1>3 DEF StandingSet
<1>4. ASSUME NEW c \in WebCalls, NEW i \in Invites, NEW p \in Humans, Invited(c, i, p) PROVE password' = password
  BY <1>4 DEF Invited
<1>5. ASSUME NEW c \in WebCalls, NEW manager \in BOOLEAN, Accepts(c, manager) PROVE password' = password
  BY <1>5 DEF Accepts
<1>6. ASSUME NEW c \in WebCalls, NEW t \in Resets, ResetSent(c, t) PROVE password' = password
  BY <1>6 DEF ResetSent
<1>7. ASSUME NEW i \in Invites, InviteLapses(i) PROVE password' = password BY <1>7 DEF InviteLapses
<1>8. ASSUME NEW t \in Resets, ResetLapses(t) PROVE password' = password BY <1>8 DEF ResetLapses
<1>9. ASSUME CloudRest PROVE password' = password BY <1>9 DEF CloudRest
<1>10. \/ password' = password
       \/ \E c \in WebCalls : ResetCommits(c)
       \/ \E c \in WebCalls, i \in Invites : SignupCreates(c, i) /\ password[web[c].who] = 0
  BY <1>1, <1>2, <1>3, <1>4, <1>5, <1>6, <1>7, <1>8, <1>9, CloudStepCases DEF CloudWrites
<1> QED BY <1>10

\* What a reset that begins to write makes of everything that rests on the password there is.
LEMMA WritesRest ==
  ASSUME CloudTypeOK, RequestsSound, NEW c \in WebCalls, ResetWrites(c), Goes(c, "commit"),
         NEW p, NEW under, NEW late, NEW ending, Rests(p, under, late, ending), p # web[c].who
  PROVE  Rests(p, under, late, ending)'
<1>w. web \in [WebCalls -> WebRequests] BY CloudTypes
<1>1. web'[c].who = web[c].who /\ \A d \in WebCalls : d # c => web'[d] = web[d] BY <1>w, WritesMove
<1>2. Resetting(p)' => Resetting(p) BY <1>1 DEF Resetting
<1> QED BY <1>2 DEF Rests, ResetWrites

\* A commit takes away what did not meet it.
LEMMA CommitsRest ==
  ASSUME CloudTypeOK, RequestsSound, ResetsSound, NEW c \in WebCalls, ResetCommits(c),
         NEW p \in Humans, NEW under, NEW late \in Nat, NEW ending \in BOOLEAN,
         Rests(p, under, late, ending), ~(p = web[c].who /\ ending)
  PROVE  Rests(p, under, late, ending)'
<1>w. web \in [WebCalls -> WebRequests] BY CloudTypes
<1>p. password \in [Humans -> Nat] BY DEF CloudTypeOK
<1>1. web[c].at = "commit" /\ CallOver(c) /\ password' = [password EXCEPT ![web[c].who] = @ + 1]
  BY DEF ResetCommits
<1>2. CASE p = web[c].who
  <2>1. ~Resetting(p)' /\ Resetting(p) BY <1>w, <1>1, <1>2, ResettingOne
  <2>2. late >= password[p] + 1 BY <1>2, <2>1 DEF Rests
  <2>3. password'[p] = password[p] + 1 BY <1>p, <1>1, <1>2
  <2> QED BY <2>1, <2>2, <2>3 DEF Rests
<1>3. CASE p # web[c].who
  <2>1. password'[p] = password[p] BY <1>p, <1>1, <1>3
  <2>2. web'[c].at = "idle" /\ web' = [web EXCEPT ![c] = web'[c]] BY <1>w, <1>1 DEF CallOver, Idling
  <2>3. Resetting(p)' => Resetting(p) BY <1>w, <2>2, ResettingStays
  <2> QED BY <2>1, <2>3 DEF Rests
<1> QED BY <1>2, <1>3

\* A sign-up that makes an account concerns nobody who had one.
LEMMA CreatesRest ==
  ASSUME CloudTypeOK, RequestsSound, NEW c \in WebCalls, NEW i \in Invites, SignupCreates(c, i),
         password[web[c].who] = 0, NEW p \in Humans, NEW under, NEW late, NEW ending,
         password[p] > 0, Rests(p, under, late, ending)
  PROVE  Rests(p, under, late, ending)'
<1>w. web \in [WebCalls -> WebRequests] BY CloudTypes
<1>p. password \in [Humans -> Nat] BY DEF CloudTypeOK
<1>1. /\ password' = [password EXCEPT ![web[c].who] = 1]
      /\ web' = [web EXCEPT ![c].at = "join", ![c].item = i, ![c].under = 1]
  BY DEF SignupCreates
<1>2. web'[c] = [web[c] EXCEPT !.at = "join", !.item = i, !.under = 1] BY <1>w, <1>1 DEF WebRequests
<1>3. web' = [web EXCEPT ![c] = web'[c]] BY <1>w, <1>1, <1>2
<1>4. web'[c].at = "join" /\ web' = [web EXCEPT ![c] = web'[c]] BY <1>w, <1>2, <1>3 DEF WebRequests
<1>5. Resetting(p)' => Resetting(p) BY <1>w, <1>4, ResettingStays
<1>6. p # web[c].who OBVIOUS
<1>7. password'[p] = password[p] BY <1>p, <1>1, <1>6
<1> QED BY <1>5, <1>7 DEF Rests

\* What a reset found when it began to write.
LEMMA WritesHow ==
  ASSUME web \in [WebCalls -> WebRequests], NEW c \in WebCalls, ResetWrites(c), Goes(c, "commit")
  PROVE  /\ web[c].at = "confirm" /\ password' = password /\ signedIn' = SessionsRevoked(web[c].who)
         /\ reset[web[c].item].state # "consumed" /\ ~Held(web[c].item, web[c].who)
         /\ raced' = [d \in WebCalls |-> IF SigningIn(d, web[c].who) THEN password[web[c].who] + 1 ELSE raced[d]]
<1>1. web'[c].at = "commit" BY WritesMove
<1>2. ~CallOver(c) BY <1>1 DEF CallOver, Idling
<1> QED BY <1>2 DEF ResetWrites

\* A sign-in that is under way has verified the password that is there, or has met what replaces it.
LEMMA SignInsStep ==
  ASSUME CloudTypeOK, RequestsSound, ResetsSound, SignInsSound, [CloudNext]_cloudVars
  PROVE  SignInsSound'
<1>w. web \in [WebCalls -> WebRequests] /\ raced \in [WebCalls -> Nat] BY CloudTypes DEF CloudDataOK
<1>r. reset \in [Resets -> ResetRecords] BY CloudTypes DEF CloudDataOK
<1>p. password \in [Humans -> Nat] BY DEF CloudTypeOK
<1>s. \A c \in WebCalls : RequestSound(c) BY DEF RequestsSound
<1>m. CloudMoves BY CloudMovesStep
<1>v. \A c \in WebCalls : Verified(c) => Rests(web[c].who, web[c].under, raced[c], FALSE) BY DEF SignInsSound
<1>h. \A c \in WebCalls : Verified(c) => web[c].who \in Humans /\ password[web[c].who] > 0
  BY <1>s DEF Verified, RequestSound
<1> DEFINE Fine(n) == Rests(web[n].who, web[n].under, raced[n], FALSE)
<1> SUFFICES ASSUME NEW k \in WebCalls, Verified(k)' PROVE Fine(k)' BY DEF SignInsSound
<1>1. CASE password' = password /\ \A c \in WebCalls : ~(ResetWrites(c) /\ Goes(c, "commit"))
  <2>1. ASSUME NEW p, NEW under, NEW late, Rests(p, under, late, FALSE) PROVE Rests(p, under, late, FALSE)'
    BY <1>1, <2>1, RestsStay
  <2>2. ASSUME web'[k] = web[k], raced'[k] = raced[k] PROVE Fine(k)'
    <3>1. Verified(k) BY <2>2 DEF Verified
    <3>2. Rests(web[k].who, web[k].under, raced[k], FALSE) BY <1>v, <3>1
    <3>3. PICK p, under, late : p = web[k].who /\ under = web[k].under /\ late = raced[k] OBVIOUS
    <3>4. Rests(p, under, late, FALSE)' BY <2>1, <3>2, <3>3
    <3> QED BY <2>2, <3>3, <3>4 DEF Rests
  <2>3. ASSUME NEW c \in WebCalls, Moves(c) PROVE Fine(k)'
    <3>1. CASE k # c BY <1>w, <2>2, <2>3, <3>1 DEF Moves, Elsewhere
    <3>2. CASE k = c
      <4>1. CASE SameSignIn(c)
        <5>1. Rests(web[k].who, web[k].under, raced[k], FALSE) BY <1>v, <3>2, <4>1 DEF SameSignIn
        <5>2. PICK p, under, late : p = web[k].who /\ under = web[k].under /\ late = raced[k] OBVIOUS
        <5>3. Rests(p, under, late, FALSE)' BY <2>1, <5>1, <5>2
        <5> QED BY <3>2, <4>1, <5>2, <5>3 DEF SameSignIn, Rests
      <4>2. ASSUME NEW p \in Humans, LoginReads(c, p) PROVE Fine(k)'
        <5>1. web'[c] = [Idling EXCEPT !.op = "login", !.who = p, !.at = "factor", !.under = password[p]]
          BY <1>w, <4>2 DEF LoginReads
        <5>2. web'[c].who = p /\ web'[c].under = password[p] BY <5>1 DEF Idling
        <5>3. PICK under, late : under = password[p] /\ late = raced'[c] OBVIOUS
        <5>4. Resetting(p) => late = password[p] + 1 BY <1>w, <4>2, <5>3 DEF LoginReads
        <5>5. password[p] + 1 \in Nat BY <1>p
        <5>6. Rests(p, under, late, FALSE) BY <5>3, <5>4, <5>5 DEF Rests
        <5>7. Rests(p, under, late, FALSE)' BY <2>1, <5>6
        <5> QED BY <1>1, <3>2, <5>2, <5>3, <5>7 DEF Rests
      <4>3. ASSUME NEW i \in Invites, SignupCreates(c, i), password[web[c].who] = 0 PROVE FALSE
        <5>1. web[c].who \in Humans BY <1>s, <4>3 DEF SignupCreates, RequestSound
        <5>2. password'[web[c].who] = 1 BY <1>p, <4>3, <5>1 DEF SignupCreates
        <5> QED BY <1>1, <4>3, <5>2
      <4> HIDE DEF Fine
      <4> QED BY <2>3, <3>2, <4>1, <4>2, <4>3 DEF Moves
    <3> QED BY <3>1, <3>2
  <2>4. ASSUME NEW c \in WebCalls, NEW p \in Humans, ResetAsked(c, p) PROVE Fine(k)'
    <3>1. web'[c].op = "ask" /\ \A d \in WebCalls : d # c => web'[d] = web[d] BY <1>w, <2>4, AskedMoves
    <3>2. k # c BY <3>1 DEF Verified, SignInOps
    <3> QED BY <2>2, <2>4, <3>1, <3>2 DEF ResetAsked
  <2>5. ASSUME NEW c \in WebCalls, NEW t \in Resets, ResetReads(c, t) PROVE Fine(k)'
    <3>1. web'[c].op = "reset" /\ \A d \in WebCalls : d # c => web'[d] = web[d] BY <1>w, <1>r, <2>5, ReadsMove
    <3>2. k # c BY <3>1 DEF Verified, SignInOps
    <3> QED BY <2>2, <2>5, <3>1, <3>2 DEF ResetReads
  <2>6. CASE UNCHANGED <<web, raced>> BY <2>2, <2>6
  <2> HIDE DEF Fine
  <2> QED BY <1>1, <1>m, <2>3, <2>4, <2>5, <2>6 DEF CloudMoves
<1>2. ASSUME NEW c \in WebCalls, ResetWrites(c), Goes(c, "commit") PROVE Fine(k)'
  <2>1. web'[c].at = "commit" /\ \A d \in WebCalls : d # c => web'[d] = web[d] BY <1>w, <1>2, WritesMove
  <2>2. k # c BY <2>1 DEF Verified
  <2>3. web'[k] = web[k] /\ Verified(k) BY <2>1, <2>2 DEF Verified
  <2>4. /\ raced'[k] = IF SigningIn(k, web[c].who) THEN password[web[c].who] + 1 ELSE raced[k]
        /\ password' = password
    BY <1>w, <1>2, WritesHow
  <2>5. web[k].who \in Humans BY <1>h, <2>3
  <2>6. CASE web[k].who = web[c].who
    <3>1. raced'[k] = password[web[k].who] + 1 BY <2>3, <2>4, <2>6 DEF SigningIn, Verified, SignInOps
    <3> QED BY <1>p, <2>3, <2>4, <2>5, <3>1 DEF Rests
  <2>7. CASE web[k].who # web[c].who
    <3>1. raced'[k] = raced[k] BY <2>4, <2>7 DEF SigningIn
    <3>2. PICK p, under, late : p = web[k].who /\ under = web[k].under /\ late = raced[k] OBVIOUS
    <3>3. Rests(p, under, late, FALSE) BY <1>v, <2>3, <3>2
    <3>4. Rests(p, under, late, FALSE)' BY <1>2, <2>7, <3>2, <3>3, WritesRest
    <3> QED BY <2>3, <3>1, <3>2, <3>4 DEF Rests
  <2> QED BY <2>6, <2>7
<1>3. ASSUME NEW c \in WebCalls, ResetCommits(c) PROVE Fine(k)'
  <2>1. web'[c] = Idling /\ raced' = raced /\ \A d \in WebCalls : d # c => web'[d] = web[d]
    BY <1>w, <1>3 DEF ResetCommits, CallOver
  <2>2. k # c BY <2>1 DEF Verified, Idling
  <2>3. web'[k] = web[k] /\ Verified(k) BY <2>1, <2>2 DEF Verified
  <2>4. PICK p, under, late : p = web[k].who /\ under = web[k].under /\ late = raced[k] OBVIOUS
  <2>5. Rests(p, under, late, FALSE) /\ p \in Humans /\ late \in Nat BY <1>v, <1>h, <1>w, <2>3, <2>4
  <2>6. Rests(p, under, late, FALSE)' BY <1>3, <2>5, CommitsRest
  <2> QED BY <2>1, <2>3, <2>4, <2>6 DEF Rests
<1>4. ASSUME NEW c \in WebCalls, NEW i \in Invites, SignupCreates(c, i), password[web[c].who] = 0 PROVE Fine(k)'
  <2>1. /\ password' = [password EXCEPT ![web[c].who] = 1] /\ raced' = raced
        /\ web' = [web EXCEPT ![c].at = "join", ![c].item = i, ![c].under = 1]
    BY <1>4 DEF SignupCreates
  <2>2. web'[c] = [web[c] EXCEPT !.at = "join", !.item = i, !.under = 1] BY <1>w, <2>1 DEF WebRequests
  <2>3. web'[c].at = "join" /\ web'[c].who = web[c].who /\ web'[c].under = 1 BY <1>w, <2>2 DEF WebRequests
  <2>4. CASE k # c
    <3>1. web'[k] = web[k] /\ Verified(k) BY <1>w, <2>1, <2>4 DEF Verified
    <3>2. PICK p, under, late : p = web[k].who /\ under = web[k].under /\ late = raced[k] OBVIOUS
    <3>3. Rests(p, under, late, FALSE) /\ p \in Humans /\ password[p] > 0 BY <1>v, <1>h, <3>1, <3>2
    <3>4. Rests(p, under, late, FALSE)' BY <1>4, <3>3, CreatesRest
    <3> QED BY <2>1, <3>1, <3>2, <3>4 DEF Rests
  <2>5. CASE k = c
    <3>1. PICK p : p = web[c].who OBVIOUS
    <3>2. p \in Humans BY <1>s, <1>4, <3>1 DEF SignupCreates, RequestSound
    <3>3. password'[p] = 1 BY <1>p, <2>1, <3>1, <3>2
    <3>4. ~Resetting(p) BY <1>s, <1>4, <3>1 DEF Resetting, RequestSound
    <3>5. web' = [web EXCEPT ![c] = web'[c]] BY <1>w, <2>1, <2>2
    <3>6. ~Resetting(p)' BY <1>w, <2>3, <3>4, <3>5, ResettingStays
    <3> QED BY <2>3, <2>5, <3>1, <3>3, <3>6 DEF Rests
  <2> QED BY <2>4, <2>5
<1> HIDE DEF Fine
<1> QED BY <1>1, <1>2, <1>3, <1>4, PasswordCases

\* Where the sessions come from.
LEMMA SessionsFrom ==
  ASSUME CloudTypeOK, [CloudNext]_cloudVars
  PROVE  \/ signedIn' \subseteq signedIn
         \/ \E c \in WebCalls : SessionIssued(c)
         \/ \E c \in WebCalls : ResetWrites(c) /\ Goes(c, "commit")
         \/ \E c \in WebCalls : CallEnds(c) /\ web[c].at = "commit"
<1>1. ASSUME NEW c \in WebCalls, ResetWrites(c) PROVE signedIn' \subseteq signedIn \/ Goes(c, "commit")
  BY <1>1 DEF ResetWrites
<1>2. ASSUME NEW c \in WebCalls, ResetCommits(c) PROVE signedIn' \subseteq signedIn
  BY <1>2 DEF ResetCommits
<1>3. ASSUME NEW c \in WebCalls, CallEnds(c) PROVE signedIn' \subseteq signedIn \/ web[c].at = "commit"
  BY <1>3 DEF CallEnds
<1>4. ASSUME NEW c \in WebCalls, NEW i \in Invites, SignupCreates(c, i) PROVE signedIn' = signedIn
  BY <1>4 DEF SignupCreates
<1>5. ASSUME NEW c \in WebCalls, NEW p \in Humans, NEW to \in Standings, StandingSet(c, p, to) PROVE signedIn' = signedIn
  BY <1>5 DEF StandingSet
<1>6. ASSUME NEW c \in WebCalls, NEW i \in Invites, NEW p \in Humans, Invited(c, i, p) PROVE signedIn' = signedIn
  BY <1>6 DEF Invited
<1>7. ASSUME NEW c \in WebCalls, NEW manager \in BOOLEAN, Accepts(c, manager) PROVE signedIn' = signedIn
  BY <1>7 DEF Accepts
<1>8. ASSUME NEW c \in WebCalls, NEW t \in Resets, ResetSent(c, t) PROVE signedIn' = signedIn
  BY <1>8 DEF ResetSent
<1>9. ASSUME NEW i \in Invites, InviteLapses(i) PROVE signedIn' = signedIn BY <1>9 DEF InviteLapses
<1>10. ASSUME NEW t \in Resets, ResetLapses(t) PROVE signedIn' = signedIn BY <1>10 DEF ResetLapses
<1>11. ASSUME CloudRest PROVE signedIn' \subseteq signedIn BY <1>11 DEF CloudRest
<1> QED BY <1>1, <1>2, <1>3, <1>4, <1>5, <1>6, <1>7, <1>8, <1>9, <1>10, <1>11, CloudStepCases DEF CloudWrites

\* A session that rests on an earlier password met the reset that replaced it.
LEMMA SessionsStep ==
  ASSUME CloudTypeOK, RequestsSound, ResetsSound, SignInsSound, SessionsSound, [CloudNext]_cloudVars
  PROVE  SessionsSound' /\ SessionsAreCurrent'
<1>w. web \in [WebCalls -> WebRequests] /\ raced \in [WebCalls -> Nat] BY CloudTypes DEF CloudDataOK
<1>p. password \in [Humans -> Nat] BY DEF CloudTypeOK
<1>t. signedIn \subseteq SessionRecords BY CloudTypes DEF CloudDataOK
<1>s. \A c \in WebCalls : RequestSound(c) BY DEF RequestsSound
<1>o. \A s \in signedIn : /\ s.of \in Humans /\ s.late \in Nat /\ s.ending \in BOOLEAN
                          /\ password[s.of] > 0 /\ Rests(s.of, s.under, s.late, s.ending)
  BY <1>t DEF SessionsSound, SessionSound, SessionRecords
<1>a. \A p \in Humans : password[p] > 0 => password'[p] > 0 BY AccountsStay
<1> DEFINE Fine == \A s \in signedIn' : s.of \in Humans /\ password'[s.of] > 0 /\ Rests(s.of, s.under, s.late, s.ending)'
<1>1. CASE password' = password /\ \A c \in WebCalls : ~(ResetWrites(c) /\ Goes(c, "commit"))
  <2>1. ASSUME NEW p, NEW under, NEW late, NEW ending, Rests(p, under, late, ending)
        PROVE  Rests(p, under, late, ending)'
    BY <1>1, <2>1, RestsStay
  <2>2. ASSUME signedIn' \subseteq signedIn PROVE Fine BY <1>a, <1>o, <2>1, <2>2
  <2>3. ASSUME NEW c \in WebCalls, SessionIssued(c) PROVE Fine
    <3>1. Verified(c) /\ web[c].who \in Humans /\ password[web[c].who] > 0
      BY <1>s, <2>3 DEF SessionIssued, RequestSound, Verified
    <3>2. PICK n : n = Opened(web[c].who, web[c].under, raced[c]) OBVIOUS
    <3>3. n.of = web[c].who /\ n.under = web[c].under /\ n.late = raced[c] /\ n.ending = FALSE BY <3>2 DEF Opened
    <3>4. Rests(n.of, n.under, n.late, n.ending) BY <3>1, <3>3 DEF SignInsSound
    <3>5. signedIn' = signedIn \cup {n} BY <2>3, <3>2 DEF SessionIssued
    <3> SUFFICES ASSUME NEW s \in signedIn'
                 PROVE  s.of \in Humans /\ password'[s.of] > 0 /\ Rests(s.of, s.under, s.late, s.ending)'
      OBVIOUS
    <3>6. s.of \in Humans /\ password[s.of] > 0 /\ Rests(s.of, s.under, s.late, s.ending)
      BY <1>o, <3>1, <3>3, <3>4, <3>5
    <3> QED BY <1>a, <2>1, <3>6
  <2>4. ASSUME NEW c \in WebCalls, CallEnds(c), web[c].at = "commit" PROVE Fine
    <3>1. PICK p : p = web[c].who OBVIOUS
    <3>2. ~Resetting(p)' BY <1>w, <2>4, <3>1, ResettingOne DEF CallEnds
    <3>3. signedIn' = WithEnding(p, FALSE) BY <2>4, <3>1 DEF CallEnds
    <3> SUFFICES ASSUME NEW s \in signedIn'
                 PROVE  s.of \in Humans /\ password'[s.of] > 0 /\ Rests(s.of, s.under, s.late, s.ending)'
      OBVIOUS
    <3>4. PICK o \in signedIn : /\ s.of = o.of /\ s.under = o.under /\ s.late = o.late
                                /\ s.ending = (IF o.of = p THEN FALSE ELSE o.ending)
      BY <1>t, <3>3, EndingFrom
    <3>5. o.of \in Humans /\ password[o.of] > 0 /\ Rests(o.of, o.under, o.late, o.ending) BY <1>o
    <3>6. Rests(o.of, o.under, o.late, o.ending)' BY <2>1, <3>5
    <3>7. CASE o.of = p BY <1>1, <3>2, <3>4, <3>5, <3>6, <3>7 DEF Rests
    <3>8. CASE o.of # p BY <1>1, <3>4, <3>5, <3>6, <3>8
    <3> QED BY <3>7, <3>8
  <2>5. Fine
    <3> HIDE DEF Fine
    <3> QED BY <1>1, <2>2, <2>3, <2>4, SessionsFrom
  <2> QED BY <2>5 DEF SessionsSound, SessionSound, SessionsAreCurrent, Rests
<1>2. ASSUME NEW c \in WebCalls, ResetWrites(c), Goes(c, "commit") PROVE SessionsSound' /\ SessionsAreCurrent'
  <2>1. PICK p : p = web[c].who OBVIOUS
  <2>2. password' = password /\ signedIn' = WithEnding(p, TRUE) BY <1>w, <1>2, <2>1, WritesHow DEF SessionsRevoked
  <2>3. Fine
    <3> SUFFICES ASSUME NEW s \in signedIn'
                 PROVE  s.of \in Humans /\ password'[s.of] > 0 /\ Rests(s.of, s.under, s.late, s.ending)'
      OBVIOUS
    <3>1. PICK o \in signedIn : /\ s.of = o.of /\ s.under = o.under /\ s.late = o.late
                                /\ s.ending = (IF o.of = p THEN TRUE ELSE o.ending)
      BY <1>t, <2>2, EndingFrom
    <3>2. o.of \in Humans /\ password[o.of] > 0 /\ Rests(o.of, o.under, o.late, o.ending) BY <1>o
    <3>3. CASE o.of = p BY <2>2, <3>1, <3>2, <3>3 DEF Rests
    <3>4. CASE o.of # p
      <4>1. Rests(o.of, o.under, o.late, o.ending)' BY <1>2, <2>1, <3>2, <3>4, WritesRest
      <4> QED BY <2>2, <3>1, <3>2, <3>4, <4>1
    <3> QED BY <3>3, <3>4
  <2> QED BY <2>3 DEF SessionsSound, SessionSound, SessionsAreCurrent, Rests
<1>3. ASSUME NEW c \in WebCalls, ResetCommits(c) PROVE SessionsSound' /\ SessionsAreCurrent'
  <2>1. \A s \in signedIn' : s \in signedIn /\ ~(s.of = web[c].who /\ s.ending) BY <1>3 DEF ResetCommits
  <2>2. Fine BY <1>3, <1>a, <1>o, <2>1, CommitsRest
  <2> QED BY <2>2 DEF SessionsSound, SessionSound, SessionsAreCurrent, Rests
<1>4. ASSUME NEW c \in WebCalls, NEW i \in Invites, SignupCreates(c, i), password[web[c].who] = 0
      PROVE  SessionsSound' /\ SessionsAreCurrent'
  <2>1. signedIn' = signedIn BY <1>4 DEF SignupCreates
  <2>2. Fine BY <1>4, <1>a, <1>o, <2>1, CreatesRest
  <2> QED BY <2>2 DEF SessionsSound, SessionSound, SessionsAreCurrent, Rests
<1> QED BY <1>1, <1>2, <1>3, <1>4, PasswordCases

\* An invitation that was accepted and a token that was used up stay so, and nothing else uses one.
LEMMA UsedOnceStep == ASSUME CloudInv, [CloudNext]_cloudVars PROVE UsedOnce' /\ UseIsMarked'
<1>t. /\ invite \in [Invites -> [state : {"none", "open", "accepted", "expired"}, to : Humans]]
      /\ reset \in [Resets -> [state : {"none", "live", "consumed", "expired"}, of : Humans]]
      /\ admitted \in [Invites -> SUBSET Humans] /\ spent \in [Resets -> Nat]
  BY DEF CloudInv, CloudTypeOK
<1>s. \A c \in WebCalls : RequestSound(c) BY DEF CloudInv, RequestsSound
<1>u. UsedOnce /\ UseIsMarked BY DEF CloudInv, AccessIsCurrent
<1> DEFINE InvitesOnce == /\ \A i \in Invites : \A p, r \in admitted[i] : p = r
                          /\ \A i \in Invites : admitted[i] # {} => invite[i].state = "accepted"
           ResetsOnce == \A t \in Resets : /\ spent[t] <= 1
                                           /\ spent[t] = 0 \/ (spent[t] = 1 /\ reset[t].state = "consumed")
<1>i. InvitesOnce /\ ResetsOnce BY <1>u DEF UsedOnce, UseIsMarked
<1> SUFFICES InvitesOnce' /\ ResetsOnce' BY DEF UsedOnce, UseIsMarked
<1>1. InvitesOnce'
  <2>1. CASE UNCHANGED <<invite, admitted>> BY <1>i, <2>1
  <2>2. ASSUME NEW c \in WebCalls, NEW i \in Invites, NEW p \in Humans, Invited(c, i, p) PROVE InvitesOnce'
    BY <1>i, <1>t, <2>2 DEF Invited
  <2>3. ASSUME NEW i \in Invites, InviteLapses(i) PROVE InvitesOnce'
    BY <1>i, <1>t, <2>3 DEF InviteLapses
  <2>4. ASSUME NEW c \in WebCalls, NEW manager \in BOOLEAN, Accepts(c, manager) PROVE InvitesOnce'
    <3>1. web[c].item \in Invites BY <1>s, <2>4 DEF Accepts, RequestSound
    <3>2. CASE StillOpen(web[c].item) /\ standing[web[c].who] = "none"
      <4>1. admitted[web[c].item] = {} BY <1>i, <3>1, <3>2 DEF StillOpen
      <4>2. /\ invite' = [invite EXCEPT ![web[c].item].state = "accepted"]
            /\ admitted' = [admitted EXCEPT ![web[c].item] = @ \cup {web[c].who}]
        BY <2>4, <3>2 DEF Accepts
      <4>3. ASSUME NEW i \in Invites, i # web[c].item PROVE invite'[i] = invite[i] /\ admitted'[i] = admitted[i]
        BY <1>t, <4>2, <4>3
      <4>4. invite'[web[c].item].state = "accepted" /\ admitted'[web[c].item] = {web[c].who}
        BY <1>t, <3>1, <4>1, <4>2
      <4> QED BY <1>i, <4>3, <4>4
    <3> QED BY <2>1, <2>4, <3>2 DEF Accepts
  <2>5. ASSUME NEW c \in WebCalls, SessionIssued(c) PROVE InvitesOnce'
    BY <2>1, <2>5 DEF SessionIssued
  <2>6. ASSUME NEW c \in WebCalls, ResetWrites(c) \/ ResetCommits(c) \/ CallEnds(c) PROVE InvitesOnce'
    BY <2>1, <2>6 DEF ResetWrites, ResetCommits, CallEnds
  <2>7. ASSUME NEW c \in WebCalls, NEW i \in Invites, SignupCreates(c, i) PROVE InvitesOnce'
    BY <2>1, <2>7 DEF SignupCreates
  <2>8. ASSUME NEW c \in WebCalls, NEW p \in Humans, NEW to \in Standings, StandingSet(c, p, to)
        PROVE  InvitesOnce'
    BY <2>1, <2>8 DEF StandingSet
  <2>9. ASSUME NEW c \in WebCalls, NEW t \in Resets, ResetSent(c, t) PROVE InvitesOnce'
    BY <2>1, <2>9 DEF ResetSent
  <2>10. ASSUME NEW t \in Resets, ResetLapses(t) PROVE InvitesOnce'
    BY <2>1, <2>10 DEF ResetLapses
  <2>11. CASE CloudRest BY <2>1, <2>11 DEF CloudRest
  <2> HIDE DEF InvitesOnce
  <2> QED BY <2>2, <2>3, <2>4, <2>5, <2>6, <2>7, <2>8, <2>9, <2>10, <2>11, CloudStepCases DEF CloudWrites
<1>2. ResetsOnce'
  <2>1. CASE UNCHANGED <<reset, spent>> BY <1>i, <2>1
  <2>2. ASSUME NEW c \in WebCalls, NEW t \in Resets, ResetSent(c, t) PROVE ResetsOnce'
    BY <1>i, <1>t, <2>2 DEF ResetSent
  <2>3. ASSUME NEW t \in Resets, ResetLapses(t) PROVE ResetsOnce'
    BY <1>i, <1>t, <2>3 DEF ResetLapses
  <2>4. ASSUME NEW c \in WebCalls, ResetCommits(c) PROVE ResetsOnce'
    <3>1. web[c].item \in Resets /\ reset[web[c].item].state # "consumed"
      BY <1>s, <2>4 DEF CloudInv, ResetCommits, RequestSound, ResetsSound, AloneSound
    <3>2. spent[web[c].item] = 0 BY <1>i, <3>1
    <3>3. /\ reset' = [reset EXCEPT ![web[c].item].state = "consumed"]
          /\ spent' = [spent EXCEPT ![web[c].item] = @ + 1]
      BY <2>4 DEF ResetCommits
    <3> QED BY <1>i, <1>t, <3>1, <3>2, <3>3
  <2>5. ASSUME NEW c \in WebCalls, SessionIssued(c) \/ ResetWrites(c) \/ CallEnds(c) PROVE ResetsOnce'
    BY <2>1, <2>5 DEF SessionIssued, ResetWrites, CallEnds
  <2>6. ASSUME NEW c \in WebCalls, NEW i \in Invites, SignupCreates(c, i) PROVE ResetsOnce'
    BY <2>1, <2>6 DEF SignupCreates
  <2>7. ASSUME NEW c \in WebCalls, NEW p \in Humans, NEW to \in Standings, StandingSet(c, p, to)
        PROVE  ResetsOnce'
    BY <2>1, <2>7 DEF StandingSet
  <2>8. ASSUME NEW c \in WebCalls, NEW i \in Invites, NEW p \in Humans, Invited(c, i, p) PROVE ResetsOnce'
    BY <2>1, <2>8 DEF Invited
  <2>9. ASSUME NEW c \in WebCalls, NEW manager \in BOOLEAN, Accepts(c, manager) PROVE ResetsOnce'
    BY <2>1, <2>9 DEF Accepts
  <2>10. ASSUME NEW i \in Invites, InviteLapses(i) PROVE ResetsOnce'
    BY <2>1, <2>10 DEF InviteLapses
  <2>11. CASE CloudRest BY <2>1, <2>11 DEF CloudRest
  <2> HIDE DEF ResetsOnce
  <2> QED BY <2>2, <2>3, <2>4, <2>5, <2>6, <2>7, <2>8, <2>9, <2>10, <2>11, CloudStepCases DEF CloudWrites
<1> QED BY <1>1, <1>2

\* Nobody sets a standing where there is none, and no manager loses theirs to themselves.
LEMMA MembersStep == ASSUME CloudInv, [CloudNext]_cloudVars PROVE MembersWereInvited' /\ ManagerRemains'
<1>t. /\ standing \in [Humans -> Standings] /\ manages \subseteq Humans
      /\ admitted \in [Invites -> SUBSET Humans]
  BY DEF CloudInv, CloudTypeOK
<1>s. \A c \in WebCalls : RequestSound(c) BY DEF CloudInv, RequestsSound
<1>m. MembersWereInvited /\ ManagerRemains BY DEF CloudInv, AccessIsCurrent
<1>1. CASE UNCHANGED <<standing, manages, admitted, crossed>>
  BY <1>m, <1>1 DEF MembersWereInvited, ManagerRemains, ActiveMember
<1>2. ASSUME NEW c \in WebCalls, NEW p \in Humans, NEW to \in Standings, StandingSet(c, p, to)
      PROVE  MembersWereInvited' /\ ManagerRemains'
  <2>1. web[c].who \in manages /\ web[c].who \in Humans BY <1>s, <1>2 DEF StandingSet, RequestSound
  <2>2. MembersWereInvited' BY <1>m, <1>t, <1>2 DEF StandingSet, Target, MembersWereInvited
  <2>3. ManagerRemains'
    <3>1. CASE standing[web[c].who] = "active"
      <4>1. standing'[web[c].who] = "active" /\ web[c].who \in manages'
        BY <1>t, <1>2, <2>1, <3>1 DEF StandingSet, Target
      <4> QED BY <4>1 DEF ManagerRemains, ActiveMember
    <3>2. CASE standing[web[c].who] # "active" BY <1>2, <3>2 DEF StandingSet, ManagerRemains, ActiveMember
    <3> QED BY <3>1, <3>2
  <2> QED BY <2>2, <2>3
<1>3. ASSUME NEW c \in WebCalls, NEW manager \in BOOLEAN, Accepts(c, manager)
      PROVE  MembersWereInvited' /\ ManagerRemains'
  <2>1. web[c].item \in Invites /\ web[c].who \in Humans BY <1>s, <1>3 DEF Accepts, RequestSound
  <2>2. CASE StillOpen(web[c].item) /\ standing[web[c].who] = "none"
    <3>1. /\ standing' = [standing EXCEPT ![web[c].who] = "active"] /\ manages \subseteq manages'
          /\ admitted' = [admitted EXCEPT ![web[c].item] = @ \cup {web[c].who}] /\ crossed' = crossed
      BY <1>3, <2>2 DEF Accepts
    <3>2. MembersWereInvited' BY <1>m, <1>t, <2>1, <3>1 DEF MembersWereInvited
    <3>3. ManagerRemains' BY <1>m, <1>t, <2>1, <3>1 DEF ManagerRemains, ActiveMember
    <3> QED BY <3>2, <3>3
  <2> QED BY <1>1, <1>3, <2>2 DEF Accepts
<1>4. ASSUME NEW c \in WebCalls, SessionIssued(c) PROVE MembersWereInvited' /\ ManagerRemains'
  BY <1>1, <1>4 DEF SessionIssued
<1>5. ASSUME NEW c \in WebCalls, ResetWrites(c) \/ ResetCommits(c) \/ CallEnds(c)
      PROVE  MembersWereInvited' /\ ManagerRemains'
  BY <1>1, <1>5 DEF ResetWrites, ResetCommits, CallEnds
<1>6. ASSUME NEW c \in WebCalls, NEW i \in Invites, SignupCreates(c, i)
      PROVE  MembersWereInvited' /\ ManagerRemains'
  BY <1>1, <1>6 DEF SignupCreates
<1>7. ASSUME NEW c \in WebCalls, NEW i \in Invites, NEW p \in Humans, Invited(c, i, p)
      PROVE  MembersWereInvited' /\ ManagerRemains'
  BY <1>1, <1>7 DEF Invited
<1>8. ASSUME NEW c \in WebCalls, NEW t \in Resets, ResetSent(c, t)
      PROVE  MembersWereInvited' /\ ManagerRemains'
  BY <1>1, <1>8 DEF ResetSent
<1>9. ASSUME NEW i \in Invites, InviteLapses(i) PROVE MembersWereInvited' /\ ManagerRemains'
  BY <1>1, <1>9 DEF InviteLapses
<1>10. ASSUME NEW t \in Resets, ResetLapses(t) PROVE MembersWereInvited' /\ ManagerRemains'
  BY <1>1, <1>10 DEF ResetLapses
<1>11. CASE CloudRest BY <1>1, <1>11 DEF CloudRest
<1> QED BY <1>2, <1>3, <1>4, <1>5, <1>6, <1>7, <1>8, <1>9, <1>10, <1>11, CloudStepCases DEF CloudWrites

\* From the moment a factor counts, the request that confirmed it is at its codes.
LEMMA FactorStep == ASSUME CloudInv, [CloudNext]_cloudVars PROVE FactorHasCodes'
<1>t. factor \in [Humans -> {"none", "enrolled", "verified"}] BY DEF CloudInv, CloudTypeOK
<1>w. web \in [WebCalls -> WebRequests] BY DEF CloudInv, CloudTypeOK, WebRequests, WebPlaces
<1> DEFINE AtCodes(p) == \E c \in WebCalls : web[c].at = "codes" /\ web[c].who = p
<1>f. \A p \in Humans : factor[p] = "verified" => p \in spare \cup cut \/ AtCodes(p)
  BY DEF CloudInv, AccessIsCurrent, FactorHasCodes
<1> SUFFICES \A p \in Humans : factor'[p] = "verified" => p \in spare' \cup cut' \/ AtCodes(p)'
  BY DEF FactorHasCodes
<1>1. ASSUME NEW c \in WebCalls, web[c].at # "codes", \A k \in WebCalls : k # c => web'[k] = web[k]
      PROVE  \A p \in Humans : AtCodes(p) => AtCodes(p)'
  BY <1>1
<1> DEFINE Fine == \A p \in Humans : factor'[p] = "verified" => p \in spare' \cup cut' \/ AtCodes(p)'
<1>2. ASSUME UNCHANGED <<factor, spare, cut>>, \A p \in Humans : AtCodes(p) => AtCodes(p)' PROVE Fine
  BY <1>f, <1>2
<1>3. ASSUME UNCHANGED <<factor, spare, cut, web>> PROVE Fine BY <1>f, <1>3
<1>4. ASSUME NEW c \in WebCalls, UNCHANGED <<factor, spare, cut>>, web[c].at # "codes",
             NEW r, web' = [web EXCEPT ![c] = r]
      PROVE  Fine
  BY <1>1, <1>2, <1>4, <1>w
<1>5. ASSUME NEW c \in WebCalls, NEW at, UNCHANGED <<factor, spare, cut>>, web[c].at # "codes",
             CallOver(c) \/ Goes(c, at)
      PROVE  Fine
  BY <1>1, <1>2, <1>5, <1>w DEF CallOver, Goes
<1>6. ASSUME NEW c \in WebCalls, NEW op, NEW p, NEW at, UNCHANGED <<factor, spare, cut>>, Arrives(c, op, p, at)
      PROVE  Fine
  <2>1. web[c].at # "codes" BY <1>6 DEF Arrives, Idling
  <2>2. web' = [web EXCEPT ![c] = [Idling EXCEPT !.op = op, !.who = p, !.at = at]] BY <1>6 DEF Arrives
  <2> QED BY <1>4, <1>6, <2>1, <2>2
<1>7. ASSUME NEW c \in WebCalls, Enrolls(c) PROVE Fine
  <2>1. \A p \in Humans : AtCodes(p) => AtCodes(p)' BY <1>1, <1>7, <1>w DEF Enrolls, CallOver
  <2>2. \A p \in Humans : factor'[p] = "verified" => factor[p] = "verified" BY <1>t, <1>7 DEF Enrolls
  <2> QED BY <1>f, <1>7, <2>1, <2>2 DEF Enrolls
<1>8. ASSUME NEW c \in WebCalls, NEW h \in Humans, Confirms(c, h) PROVE Fine
  <2>1. \A p \in Humans : AtCodes(p) => AtCodes(p)' BY <1>1, <1>8, <1>w DEF Confirms
  <2>2. web'[c] = [web[c] EXCEPT !.at = "codes", !.who = h] BY <1>8, <1>w DEF Confirms, WebRequests
  <2>3. web'[c].at = "codes" /\ web'[c].who = h BY <1>w, <2>2 DEF WebRequests
  <2>4. \A p \in Humans : factor'[p] = "verified" => factor[p] = "verified" \/ p = h
    BY <1>t, <1>8 DEF Confirms
  <2>5. AtCodes(h)' BY <2>3
  <2>6. UNCHANGED <<spare, cut>> BY <1>8 DEF Confirms
  <2> HIDE DEF AtCodes
  <2> QED BY <1>f, <2>1, <2>4, <2>5, <2>6
<1>9. ASSUME NEW c \in WebCalls, CodesGiven(c) \/ CallEnds(c) PROVE Fine
  <2>1. \A p \in Humans : AtCodes(p) => AtCodes(p)' \/ (web[c].at = "codes" /\ p = web[c].who)
    BY <1>9, <1>w DEF CodesGiven, CallEnds, CallOver
  <2> QED BY <1>f, <1>9, <2>1 DEF CodesGiven, CallEnds
<1> HIDE DEF Fine, AtCodes
<1>10. ASSUME NEW c \in WebCalls, LoginAsks(c) \/ SessionIssued(c) \/ MayManage(c) \/ ResetWrites(c)
               \/ ResetCommits(c)
       PROVE  Fine
  BY <1>5, <1>10 DEF LoginAsks, SessionIssued, MayManage, ResetWrites, ResetCommits
<1>11. ASSUME NEW c \in WebCalls, NEW i \in Invites, Resolves(c, i) PROVE Fine
  <2>1. web' = [web EXCEPT ![c] = [web[c] EXCEPT !.at = "accept", !.item = i]] BY <1>11, <1>w DEF Resolves, WebRequests
  <2> QED BY <1>4, <1>11, <2>1 DEF Resolves
<1>12. ASSUME NEW c \in WebCalls, NEW i \in Invites, SignupCreates(c, i) PROVE Fine
  <2>1. CASE CallOver(c) BY <1>5, <1>12, <2>1 DEF SignupCreates
  <2>2. CASE web' = [web EXCEPT ![c].at = "join", ![c].item = i, ![c].under = 1]
    <3>1. web' = [web EXCEPT ![c] = [web[c] EXCEPT !.at = "join", !.item = i, !.under = 1]]
      BY <2>2, <1>w DEF WebRequests
    <3> QED BY <1>4, <1>12, <3>1 DEF SignupCreates
  <2> QED BY <1>12, <2>1, <2>2 DEF SignupCreates
<1>13. ASSUME NEW c \in WebCalls, NEW p \in Humans, NEW to \in Standings, StandingSet(c, p, to) PROVE Fine
  BY <1>5, <1>13 DEF StandingSet
<1>14. ASSUME NEW c \in WebCalls, NEW i \in Invites, NEW p \in Humans, Invited(c, i, p) PROVE Fine
  BY <1>5, <1>14 DEF Invited
<1>15. ASSUME NEW c \in WebCalls, NEW manager \in BOOLEAN, Accepts(c, manager) PROVE Fine
  BY <1>5, <1>15 DEF Accepts
<1>16. ASSUME NEW c \in WebCalls, NEW t \in Resets, ResetSent(c, t) PROVE Fine
  BY <1>5, <1>16 DEF ResetSent
<1>17. ASSUME NEW c \in WebCalls, NEW t \in Resets, ResetReads(c, t) PROVE Fine
  <2>1. web[c].at # "codes" BY <1>17 DEF ResetReads, Idling
  <2>2. web' = [web EXCEPT ![c] = [Idling EXCEPT !.op = "reset", !.who = reset[t].of, !.at = "confirm", !.item = t]]
    BY <1>17 DEF ResetReads
  <2> QED BY <1>4, <1>17, <2>1, <2>2 DEF ResetReads
<1>18. ASSUME NEW c \in WebCalls, NEW p \in Humans, ResetAsked(c, p) PROVE Fine
  <2>1. web[c].at # "codes" BY <1>18 DEF ResetAsked, Idling
  <2>2. web' = [web EXCEPT ![c] = [Idling EXCEPT !.op = "ask", !.who = p, !.at = "tokens",
                                                 !.seen = LiveTokens(p)]]
    BY <1>18 DEF ResetAsked
  <2> QED BY ZenonT(30), <1>4, <1>18, <2>1, <2>2 DEF ResetAsked
<1>19. ASSUME NEW c \in WebCalls, NEW p \in Humans, LoginReads(c, p) PROVE Fine
  <2>1. web[c].at # "codes" BY <1>19 DEF LoginReads, Idling
  <2>2. web' = [web EXCEPT ![c] = [Idling EXCEPT !.op = "login", !.who = p, !.at = "factor",
                                                 !.under = password[p]]]
    BY <1>19 DEF LoginReads
  <2> QED BY <1>4, <1>19, <2>1, <2>2 DEF LoginReads
<1>20. ASSUME NEW c \in WebCalls, NEW s \in signedIn, NEW op \in Ops, Authenticated(c, s, op) PROVE Fine
  BY <1>6, <1>20 DEF Authenticated
<1>21. ASSUME NEW c \in WebCalls, NEW i \in Invites, SignupReads(c, i) PROVE Fine
  BY <1>6, <1>21 DEF SignupReads
<1>22. ASSUME NEW c \in WebCalls, NEW s \in signedIn, LoggedOut(c, s) PROVE Fine
  BY <1>3, <1>22 DEF LoggedOut
<1>23. ASSUME NEW s \in signedIn, SessionLapses(s) PROVE Fine BY <1>3, <1>23 DEF SessionLapses
<1>24. ASSUME NEW i \in Invites, InviteLapses(i) PROVE Fine BY <1>3, <1>24 DEF InviteLapses
<1>25. ASSUME NEW t \in Resets, ResetLapses(t) PROVE Fine BY <1>3, <1>25 DEF ResetLapses
<1>26. ASSUME UNCHANGED cloudVars PROVE Fine
  <2>1. UNCHANGED <<factor, spare, cut, web>> BY <1>26 DEF cloudVars
  <2> QED BY <1>3, <2>1
<1>27. Fine
  BY <1>7, <1>8, <1>9, <1>10, <1>11, <1>12, <1>13, <1>14, <1>15, <1>16, <1>17, <1>18, <1>19, <1>20, <1>21, <1>22, <1>23,
     <1>24, <1>25, <1>26 DEF CloudNext
<1> QED BY <1>27 DEF Fine, AtCodes

\* Whatever requests of whichever people go on beside each other, the invariant holds: a request
\* rests on an account and on its own token, one transaction at a time sets a person's password, and
\* a sign-in or a session rests on the password that is there, unless it met the reset that replaced
\* it.  A sign-in may verify the old password before a reset commits and open its session after the
\* reset looked for sessions: that session is of the second kind, and the theorem does not end it.
THEOREM CloudInvariance == CloudSpec => []CloudInv
<1>1. CloudInit => CloudInv BY CloudInitLemma
<1>2. ASSUME CloudInv, [CloudNext]_cloudVars PROVE CloudInv'
  <2>0. CloudTypeOK /\ RequestsSound /\ ResetsSound /\ SignInsSound /\ SessionsSound BY <1>2 DEF CloudInv
  <2>1. CloudTypeOK' BY <1>2, <2>0, CloudTypeStep
  <2>2. RequestsSound' BY <1>2, <2>0, CloudRequestsStep
  <2>3. ResetsSound' BY <1>2, <2>0, TokensAlone
  <2>4. SignInsSound' BY <1>2, <2>0, SignInsStep
  <2>5. SessionsSound' /\ SessionsAreCurrent' BY <1>2, <2>0, SessionsStep
  <2>6. UsedOnce' /\ UseIsMarked' BY <1>2, UsedOnceStep
  <2>7. MembersWereInvited' /\ ManagerRemains' BY <1>2, MembersStep
  <2>8. FactorHasCodes' BY <1>2, FactorStep
  <2> QED BY <2>1, <2>2, <2>3, <2>4, <2>5, <2>6, <2>7, <2>8 DEF CloudInv, AccessIsCurrent
<1> QED BY <1>1, <1>2, PTL DEF CloudSpec

\* Access to the organization rests on what is valid now, for any number of people, invitations,
\* tokens and requests: a session outlasts the password it was opened under only if its sign-in went
\* on beside the reset that replaced that one, an invitation and a token are used once, members were
\* invited, a manager remains unless two took it from each other, and a factor comes with codes.
THEOREM AccessStaysCurrent == CloudSpec => []AccessIsCurrent
<1>1. CloudInv => AccessIsCurrent BY DEF CloudInv
<1> QED BY <1>1, CloudInvariance, PTL

-----------------------------------------------------------------------------
(* What research found (ResearchRecords)                                   *)

IndexEntries == [keys : SUBSET PostKeys, review : Verdicts]
FindRecords == [run : Runs \cup {NoRun}, keys : SUBSET PostKeys, review : Verdicts, acts : SUBSET Deeds]

\* Aliases agree, and who leads nowhere has no review.
IndexOK(x) ==
  /\ \A k \in PostKeys : \A j \in x[k].keys : x[j] = x[k]
  /\ \A k \in PostKeys : x[k].keys = {} => x[k].review = "pending"

\* What was answered stands, in this record.
Stands(b, p) == DecisionsStand(b, p) /\ NotesStay(b, p)

\* Only what was given an id is in a record.
HandedIn(b, ids) == \A f \in Finds : b.find[f].run # NoRun => f \in ids

\* Whoever saves what is not stale saves what stands; with the file there is no transaction,
\* and an action is noted for a find that has its id.
RecordInv ==
  /\ RecordTypeOK
  /\ IndexOK(filed.index) /\ IndexOK(stored.index) /\ \A s \in Savers : IndexOK(saving[s].book.index)
  /\ HandedIn(filed, handed) /\ HandedIn(stored, handed) /\ \A s \in Savers : HandedIn(saving[s].book, handed)
  /\ place = "file" => ~lapped /\ \A s \in Savers : saving[s].state = "idle"
  /\ \A n \in past.noted : n[1] \in handed
  /\ \A s \in Savers : \A n \in saving[s].past.noted : n[1] \in handed
  /\ ~lapped => /\ Stands(InUse, past)
                /\ \A s \in Savers : saving[s].state = "fresh" => Stands(saving[s].book, saving[s].past)

\* What an entry of the index is.
LEMMA PriorLemma ==
  ASSUME NEW x \in [PostKeys -> IndexEntries], NEW keys \in SUBSET PostKeys PROVE Prior(x, keys) \in IndexEntries
<1> DEFINE Known(kind) == {k \in keys \cap kind : x[k].keys # {}}
<1>1. ASSUME NEW kind, Known(kind) # {} PROVE x[CHOOSE k \in Known(kind) : TRUE] \in IndexEntries
  <2>1. (CHOOSE k \in Known(kind) : TRUE) \in Known(kind) BY <1>1
  <2> HIDE DEF IndexEntries
  <2> QED BY <2>1
<1>2. Unindexed \in IndexEntries BY DEF Unindexed, IndexEntries, Verdicts
<1> HIDE DEF IndexEntries
<1> QED BY <1>1, <1>2 DEF Prior

LEMMA IndexEntryLemma ==
  ASSUME NEW x \in [PostKeys -> IndexEntries], NEW keys \in SUBSET PostKeys, NEW verdict \in Verdicts
  PROVE  /\ EntryOf(x, keys, verdict) \in IndexEntries
         /\ keys \subseteq EntryOf(x, keys, verdict).keys
         /\ EntryOf(x, keys, verdict).review = verdict
BY PriorLemma DEF EntryOf, Filled, IndexEntries

\* An entry is put where all its keys, and all that shared one with it, lead to it.
LEMMA UpsertLemma ==
  ASSUME NEW x \in [PostKeys -> IndexEntries], IndexOK(x), NEW e \in IndexEntries
  PROVE  Upserted(x, e) \in [PostKeys -> IndexEntries] /\ IndexOK(Upserted(x, e))
<1> DEFINE y == Upserted(x, e)
<1>1. y \in [PostKeys -> IndexEntries] BY DEF Upserted
<1>2. \A k \in PostKeys : y[k] = IF LeadsTo(x, k, e) THEN e ELSE x[k] BY DEF Upserted
<1>3. ASSUME NEW k \in PostKeys, NEW j \in y[k].keys PROVE y[j] = y[k]
  <2>1. j \in PostKeys BY <1>1, <1>3 DEF IndexEntries
  <2>2. CASE LeadsTo(x, k, e) BY <1>2, <1>3, <2>1, <2>2 DEF LeadsTo
  <2>3. CASE ~LeadsTo(x, k, e)
    <3>1. x[j] = x[k] /\ j \in x[k].keys BY <1>2, <1>3, <2>3 DEF IndexOK
    <3>2. ~LeadsTo(x, j, e) BY <2>3, <3>1 DEF LeadsTo
    <3> QED BY <1>2, <2>1, <2>3, <3>1, <3>2
  <2> QED BY <2>2, <2>3
<1>4. ASSUME NEW k \in PostKeys, y[k].keys = {} PROVE y[k].review = "pending"
  <2>1. ~LeadsTo(x, k, e) BY <1>2, <1>4 DEF LeadsTo
  <2> QED BY <1>2, <1>4, <2>1 DEF IndexOK
<1> HIDE DEF y
<1>5. IndexOK(y) BY <1>3, <1>4 DEF IndexOK
<1> QED BY <1>1, <1>5 DEF y

\* What was answered is, for every key, a decision.
LEMMA PastsFields == ASSUME NEW p \in Pasts PROVE p.decided \in [PostKeys -> Verdicts]
BY DEF Pasts

\* Books whose index and finds are written anew are books.
LEMMA BooksLemma ==
  ASSUME NEW b \in Books, NEW x \in [PostKeys -> IndexEntries], NEW y \in [Finds -> FindRecords]
  PROVE  [b EXCEPT !.index = x, !.find = y] \in Books
<1>1. Books = [index : [PostKeys -> IndexEntries], find : [Finds -> FindRecords],
               runs : SUBSET Runs, done : SUBSET Runs]
  BY DEF Books, IndexEntries, FindRecords
<1> QED BY <1>1

\* An observation leaves every decision that stood, or says that it gave way.
LEMMA ObservedLemma ==
  ASSUME NEW b \in Books, IndexOK(b.index), NEW p \in Pasts, NEW f \in Finds, NEW found \in FindRecords,
         \A n \in p.noted : n[1] = f => n[2] \in found.acts \/ n[2] \notin b.find[f].acts
  PROVE  /\ Observed(b, f, found) \in Books /\ IndexOK(Observed(b, f, found).index)
         /\ AfterObserved(p, b, found) \in Pasts /\ AfterObserved(p, b, found).noted = p.noted
         /\ \A g \in Finds \ {f} : Observed(b, f, found).find[g] = b.find[g]
         /\ Stands(b, p) => Stands(Observed(b, f, found), AfterObserved(p, b, found))
<1> DEFINE x == b.index
           e == EntryOf(x, found.keys, Carried(x, found))
           yields == {k \in PostKeys : /\ LeadsTo(x, k, e) /\ x[k].keys # {}
                                       /\ x[k] # Prior(x, found.keys) /\ x[k].review # e.review}
           c == Observed(b, f, found)
           q == AfterObserved(p, b, found)
<1>1. x \in [PostKeys -> IndexEntries] /\ found.keys \in SUBSET PostKeys BY DEF Books, IndexEntries, FindRecords
<1>b. b.find \in [Finds -> FindRecords] BY DEF Books, FindRecords
<1>2. Carried(x, found) \in Verdicts BY <1>1, PriorLemma DEF Carried, IndexEntries, FindRecords
<1>3. e \in IndexEntries /\ found.keys \subseteq e.keys /\ e.review = Carried(x, found)
  BY ZenonT(40), <1>1, <1>2, IndexEntryLemma
<1>4. /\ c = [b EXCEPT !.index = Upserted(x, e), !.find[f] = [found EXCEPT !.review = e.review]]
      /\ q.overruled = p.overruled \cup yields /\ q.noted = p.noted /\ q.decided = p.decided
      /\ q.finished = p.finished
      /\ q.missed = (p.missed \/ (/\ e.review = "pending"
                                  /\ \E k \in found.keys \ (p.overruled \cup yields) : p.decided[k] # "pending"))
  BY DEF Observed, AfterObserved, Pasts
<1>5. q = [p EXCEPT !.overruled = q.overruled, !.missed = q.missed] BY DEF AfterObserved, Pasts
<1>6. Upserted(x, e) \in [PostKeys -> IndexEntries] /\ IndexOK(Upserted(x, e)) BY <1>1, <1>3, UpsertLemma
<1> HIDE DEF c, q, e
<1>7. c.index = Upserted(x, e) /\ c.done = b.done /\ c.runs = b.runs
      /\ c.find = [b.find EXCEPT ![f] = [found EXCEPT !.review = e.review]]
  BY <1>4 DEF Books
<1>8. c \in Books
  <2>1. [found EXCEPT !.review = e.review] \in FindRecords BY <1>3 DEF FindRecords, IndexEntries
  <2>2. c.find \in [Finds -> FindRecords] BY <1>b, <1>7, <2>1
  <2>3. c = [b EXCEPT !.index = Upserted(x, e), !.find = c.find] BY <1>4, <1>7
  <2>4. [b EXCEPT !.index = Upserted(x, e), !.find = c.find] \in Books BY <1>6, <2>2, BooksLemma, Zenon
  <2> QED BY <2>3, <2>4, Zenon
<1>9. q \in Pasts /\ \A g \in Finds \ {f} : c.find[g] = b.find[g] BY ZenonT(30), <1>4, <1>5, <1>7 DEF Pasts, Books
<1>10. ASSUME Stands(b, p) PROVE Stands(c, q)
  <2>s. DecisionsStand(b, p) /\ NotesStay(b, p) BY <1>10 DEF Stands
  <2>1. ASSUME NEW k \in PostKeys \ q.overruled, p.decided[k] # "pending", LeadsTo(x, k, e)
        PROVE  e.review = p.decided[k]
    <3>1. k \notin p.overruled /\ k \notin yields BY <1>4, <2>1
    <3>2. x[k].review = p.decided[k] BY <2>s, <2>1, <3>1 DEF DecisionsStand
    <3>3. x[k].keys # {} BY <2>1, <3>2 DEF IndexOK
    <3>4. CASE x[k] = Prior(x, found.keys) BY <1>3, <3>2, <3>3, <3>4 DEF Carried
    <3>5. CASE x[k].review = e.review BY <3>2, <3>5
    <3> QED BY <2>1, <3>1, <3>3, <3>4, <3>5
  <2>2. ASSUME NEW k \in PostKeys \ q.overruled, q.decided[k] # "pending" PROVE c.index[k].review = q.decided[k]
    <3>0. c.index = Upserted(x, e) BY <1>7
    <3>1. c.index[k] = IF LeadsTo(x, k, e) THEN e ELSE x[k] BY <3>0 DEF Upserted
    <3>2. CASE LeadsTo(x, k, e) BY <1>4, <2>1, <2>2, <3>1, <3>2
    <3>3. CASE ~LeadsTo(x, k, e) BY <1>4, <2>s, <2>2, <3>1, <3>3 DEF DecisionsStand
    <3> QED BY <3>2, <3>3
  <2>3. ~q.missed
    <3>1. SUFFICES ASSUME e.review = "pending", NEW k \in found.keys \ (p.overruled \cup yields),
                          p.decided[k] # "pending"
                   PROVE  FALSE
      BY <1>4, <2>s DEF DecisionsStand
    <3>2. k \in PostKeys \ q.overruled /\ LeadsTo(x, k, e) BY <1>1, <1>3, <1>4, <3>1 DEF LeadsTo
    <3> QED BY <2>1, <3>1, <3>2
  <2>4. NotesStay(c, q)
    <3>1. ASSUME NEW n \in p.noted PROVE n[2] \in c.find[n[1]].acts
      <4>1. n[1] \in Finds /\ n[2] \in b.find[n[1]].acts BY <2>s DEF NotesStay, Pasts
      <4>2. CASE n[1] = f BY <1>7, <4>1, <4>2 DEF Books, FindRecords
      <4>3. CASE n[1] # f
        <5>1. c.find[n[1]] = b.find[n[1]] BY <1>9, <4>1, <4>3
        <5> QED BY <4>1, <5>1
      <4> QED BY <4>2, <4>3
    <3> QED BY <1>4, <1>7, <2>s, <3>1 DEF NotesStay
  <2> QED BY <2>2, <2>3, <2>4 DEF Stands, DecisionsStand
<1> QED BY <1>4, <1>6, <1>7, <1>8, <1>9, <1>10 DEF c, q

\* A review holds for every key that leads to the post.
LEMMA ReviewedLemma ==
  ASSUME NEW b \in Books, IndexOK(b.index), NEW p \in Pasts, NEW f \in Finds, NEW to \in Verdicts
  PROVE  /\ Reviewed(b, f, to) \in Books /\ IndexOK(Reviewed(b, f, to).index)
         /\ AfterReviewed(p, b, f, to) \in Pasts /\ AfterReviewed(p, b, f, to).noted = p.noted
         /\ \A g \in Finds : Reviewed(b, f, to).find[g].run = b.find[g].run
         /\ Stands(b, p) => Stands(Reviewed(b, f, to), AfterReviewed(p, b, f, to))
<1> DEFINE x == b.index
           e == EntryOf(x, b.find[f].keys, to)
           c == Reviewed(b, f, to)
           q == AfterReviewed(p, b, f, to)
<1>1. x \in [PostKeys -> IndexEntries] /\ b.find[f].keys \in SUBSET PostKeys BY DEF Books, IndexEntries
<1>2. e \in IndexEntries /\ e.review = to BY ZenonT(40), <1>1, IndexEntryLemma
<1>3. Upserted(x, e) \in [PostKeys -> IndexEntries] /\ IndexOK(Upserted(x, e)) BY <1>1, <1>2, UpsertLemma
<1>4. /\ c.index = Upserted(x, e) /\ c.done = b.done /\ c.runs = b.runs
      /\ c.find = [b.find EXCEPT ![f].review = to]
      /\ c = [b EXCEPT !.index = Upserted(x, e), !.find = c.find]
  BY DEF Reviewed, Books
<1>5. /\ q.decided = [k \in PostKeys |-> IF LeadsTo(x, k, e) THEN to ELSE p.decided[k]]
      /\ q.overruled = {k \in p.overruled : ~LeadsTo(x, k, e)}
      /\ q.noted = p.noted /\ q.finished = p.finished /\ q.missed = p.missed
      /\ q = [p EXCEPT !.decided = q.decided, !.overruled = q.overruled]
  BY DEF AfterReviewed, Pasts
<1> HIDE DEF c, q, e
<1>i. c.index = Upserted(x, e) BY <1>4, Zenon
<1>d. q.decided = [k \in PostKeys |-> IF LeadsTo(x, k, e) THEN to ELSE p.decided[k]] BY <1>5, Zenon
<1>f. c.find = [b.find EXCEPT ![f].review = to] BY <1>4, Zenon
<1>o. q.overruled = {k \in p.overruled : ~LeadsTo(x, k, e)} BY <1>5, Zenon
<1>6. c \in Books
  <2>0. b.find[f] \in FindRecords /\ b.find \in [Finds -> FindRecords] BY DEF Books, FindRecords
  <2>1. c.find \in [Finds -> FindRecords]
    <3>1. [b.find[f] EXCEPT !.review = to] \in FindRecords BY <2>0 DEF FindRecords
    <3> QED BY <1>f, <2>0, <3>1
  <2>2. [b EXCEPT !.index = Upserted(x, e), !.find = c.find] \in Books BY <1>3, <2>1, BooksLemma, Zenon
  <2> QED BY <1>4, <2>2, Zenon
<1>9. ASSUME NEW g \in Finds PROVE c.find[g].run = b.find[g].run
  <2>1. b.find \in [Finds -> FindRecords] BY DEF Books, FindRecords
  <2>2. CASE g = f
    <3>1. c.find[f] = [b.find[f] EXCEPT !.review = to] BY <1>f, <2>1
    <3> QED BY <2>1, <2>2, <3>1 DEF FindRecords
  <2>3. CASE g # f
    <3> QED BY <1>f, <2>1, <2>3
  <2> QED BY <2>2, <2>3
<1>7. q \in Pasts
  <2>1. q.decided \in [PostKeys -> Verdicts]
    <3>1. p.decided \in [PostKeys -> Verdicts] BY PastsFields, Zenon
    <3> HIDE DEF x
    <3> QED BY <1>d, <3>1
  <2> QED BY ZenonT(30), <1>5, <2>1 DEF Pasts
<1>8. ASSUME Stands(b, p) PROVE Stands(c, q)
  <2>s. DecisionsStand(b, p) /\ NotesStay(b, p) BY <1>8 DEF Stands
  <2>1. ASSUME NEW k \in PostKeys \ q.overruled, q.decided[k] # "pending" PROVE c.index[k].review = q.decided[k]
    <3>1. /\ c.index[k] = IF LeadsTo(x, k, e) THEN e ELSE x[k]
          /\ q.decided[k] = IF LeadsTo(x, k, e) THEN to ELSE p.decided[k]
      BY <1>i, <1>d DEF Upserted
    <3>2. CASE LeadsTo(x, k, e) BY ZenonT(40), <1>2, <3>1, <3>2
    <3>3. CASE ~LeadsTo(x, k, e)
      <4>1. k \in PostKeys \ p.overruled BY <1>o, <2>1, <3>3
      <4> QED BY <2>s, <2>1, <3>1, <3>3, <4>1 DEF DecisionsStand
    <3> QED BY <3>2, <3>3
  <2>2. NotesStay(c, q)
    <3>1. ASSUME NEW n \in p.noted PROVE n[2] \in c.find[n[1]].acts
      <4>1. n[1] \in Finds /\ n[2] \in b.find[n[1]].acts BY <2>s DEF NotesStay, Pasts
      <4>a. b.find \in [Finds -> FindRecords] BY DEF Books, FindRecords
      <4>2. CASE n[1] = f
        <5>1. c.find[f] = [b.find[f] EXCEPT !.review = to] BY <1>f, <4>a
        <5>2. b.find[f] \in FindRecords BY <4>a
        <5>3. c.find[f].acts = b.find[f].acts BY <5>1, <5>2 DEF FindRecords
        <5> QED BY <4>1, <4>2, <5>3
      <4>3. CASE n[1] # f
        <5>1. c.find[n[1]] = b.find[n[1]] BY <4>1, <4>3, <1>f, <4>a
        <5> QED BY <4>1, <5>1
      <4> QED BY <4>2, <4>3
    <3> QED BY ZenonT(30), <1>4, <1>5, <2>s, <3>1 DEF NotesStay
  <2> QED BY ZenonT(30), <1>5, <2>s, <2>1, <2>2 DEF Stands, DecisionsStand
<1> QED BY ZenonT(30), <1>3, <1>4, <1>5, <1>6, <1>7, <1>8, <1>9 DEF c, q

\* A call whose record and answer are sound keeps the invariant.
LEMMA RecordingLemma ==
  ASSUME RecordInv, NEW s \in Savers, NEW b \in Books, IndexOK(b.index), NEW p \in Pasts, Recording(s, b, p),
         ~lapped => Stands(b, p), handed \subseteq handed', handed' \subseteq Finds, opened' \subseteq Runs,
         \A n \in p.noted : n[1] \in handed', HandedIn(b, handed')
  PROVE  RecordInv'
<1>t. RecordTypeOK BY DEF RecordInv
<1>1. /\ recordings' \in 0..MaxRecordings /\ stored' = stored /\ place' = place /\ lapped' = lapped
      /\ \/ place = "file" /\ filed' = b /\ past' = p /\ saving' = saving /\ loads' = loads
         \/ /\ place # "file" /\ filed' = filed /\ past' = past /\ loads' \in 0..MaxLoads
            /\ saving' = [saving EXCEPT ![s] = [state |-> "fresh", book |-> b, past |-> p]]
  BY <1>t, RecordAssumption DEF Recording, Tallied, RecordTypeOK
<1>h. /\ HandedIn(filed, handed') /\ HandedIn(stored, handed')
      /\ \A u \in Savers : HandedIn(saving[u].book, handed')
  BY DEF RecordInv, HandedIn
<1>2. CASE place = "file"
  <2>1. filed' = b /\ past' = p /\ saving' = saving /\ loads' = loads BY <1>1, <1>2
  <2>2. RecordTypeOK' BY <1>t, <1>1, <2>1 DEF RecordTypeOK
  <2>3. InUse' = b BY <1>1, <1>2, <2>1 DEF InUse
  <2>4. \A u \in Savers : saving[u].state # "fresh" BY <1>2 DEF RecordInv
  <2> QED BY <1>h, <1>1, <1>2, <2>1, <2>2, <2>3, <2>4 DEF RecordInv
<1>3. CASE place # "file"
  <2>1. /\ filed' = filed /\ past' = past /\ loads' \in 0..MaxLoads
        /\ saving' = [saving EXCEPT ![s] = [state |-> "fresh", book |-> b, past |-> p]]
    BY <1>1, <1>3
  <2>2. RecordTypeOK' BY <1>t, <1>1, <2>1 DEF RecordTypeOK
  <2>3. InUse' = InUse BY <1>1, <2>1 DEF InUse
  <2>4. \A u \in Savers : saving'[u] = IF u = s THEN [state |-> "fresh", book |-> b, past |-> p] ELSE saving[u]
    BY <1>t, <2>1 DEF RecordTypeOK
  <2>5. \A u \in Savers : IndexOK(saving'[u].book.index) BY <2>4 DEF RecordInv
  <2>6. \A u \in Savers : \A n \in saving'[u].past.noted : n[1] \in handed' BY <2>4 DEF RecordInv
  <2>7. ~lapped => \A u \in Savers : saving'[u].state = "fresh" => Stands(saving'[u].book, saving'[u].past)
    BY <2>4 DEF RecordInv
  <2>8. \A n \in past.noted : n[1] \in handed' BY DEF RecordInv
  <2>9. IndexOK(filed.index) /\ IndexOK(stored.index) /\ (~lapped => Stands(InUse, past)) BY DEF RecordInv
  <2>10. \A u \in Savers : HandedIn(saving'[u].book, handed') BY <1>h, <2>4
  <2> HIDE DEF IndexOK, Stands
  <2> QED BY <1>h, <1>1, <1>3, <2>1, <2>2, <2>3, <2>10, <2>5, <2>6, <2>7, <2>8, <2>9 DEF RecordInv
<1> QED BY <1>2, <1>3

\* What is stale is not saved without saying so.
LEMMA TableReplacedLemma ==
  ASSUME RecordInv, NEW b \in Books, IndexOK(b.index), HandedIn(b, handed), stored' = b, filed' = filed, place' = place,
         handed' = handed, opened' = opened, recordings' \in 0..MaxRecordings, loads' = loads,
         NEW p \in Pasts, past' = p, \A n \in p.noted : n[1] \in handed,
         lapped' \in BOOLEAN, place = "file" => lapped' = lapped /\ p = past,
         ~lapped' => ~lapped /\ (place # "file" => Stands(b, p)),
         saving' \in [Savers -> [state : {"idle", "stale"}, book : Books, past : Pasts]],
         \A u \in Savers : saving'[u] = NotSaving
                             \/ /\ saving'[u].book = saving[u].book /\ saving'[u].past = saving[u].past
                                /\ (saving'[u].state = "idle" <=> saving[u].state = "idle")
  PROVE  RecordInv'
<1>t. RecordTypeOK BY DEF RecordInv
<1>1. RecordTypeOK'
  <2>1. saving' \in [Savers -> [state : {"idle", "fresh", "stale"}, book : Books, past : Pasts]] OBVIOUS
  <2> QED BY <1>t, <2>1 DEF RecordTypeOK
<1>2. IndexOK(NotSaving.book.index) /\ HandedIn(NotSaving.book, handed) /\ NotSaving.past.noted = {} /\ NotSaving.state = "idle"
  BY DEF NotSaving, Blank, NothingYet, IndexOK, Unindexed, HandedIn, NoFind
<1>3. \A u \in Savers : /\ IndexOK(saving'[u].book.index) /\ HandedIn(saving'[u].book, handed)
                        /\ \A n \in saving'[u].past.noted : n[1] \in handed
  BY <1>2 DEF RecordInv
<1>4. \A u \in Savers : saving'[u].state # "fresh" OBVIOUS
<1>5. place = "file" => ~lapped' /\ \A u \in Savers : saving'[u].state = "idle" BY <1>2 DEF RecordInv
<1>6. ~lapped' => Stands(InUse', past')
  <2>1. CASE place = "file" BY <2>1 DEF InUse, RecordInv
  <2>2. CASE place # "file" BY <2>2 DEF InUse
  <2> QED BY <2>1, <2>2
<1> HIDE DEF IndexOK, Stands
<1> QED BY <1>1, <1>3, <1>4, <1>5, <1>6 DEF RecordInv

\* What a call changes has its id.
LEMMA HandedLemma ==
  ASSUME NEW b, NEW c, NEW ids, NEW more, HandedIn(b, ids), ids \subseteq more,
         \A g \in Finds : g \in more \/ c.find[g].run = b.find[g].run
  PROVE  HandedIn(c, more)
BY DEF HandedIn

LEMMA RecordStep == RecordInv /\ [RecordNext]_recordVars => RecordInv'
<1> SUFFICES ASSUME RecordInv, [RecordNext]_recordVars PROVE RecordInv' OBVIOUS
<1>t. RecordTypeOK BY DEF RecordInv
<1>u. InUse \in Books /\ IndexOK(InUse.index) /\ past \in Pasts /\ lapped \in BOOLEAN
      /\ (~lapped => Stands(InUse, past)) /\ handed \subseteq Finds /\ opened \subseteq Runs
      /\ \A n \in past.noted : n[1] \in handed
  BY <1>t DEF InUse, RecordInv, RecordTypeOK
<1>x. /\ InUse \in Books /\ IndexOK(InUse.index) /\ past \in Pasts
      /\ ~lapped => Stands(InUse, past)
  BY <1>u
<1>v. HandedIn(InUse, handed) BY DEF InUse, RecordInv
<1>w. \A f \in Finds : InUse.find[f].run # NoRun => f \in handed BY <1>v DEF HandedIn
<1>1. ASSUME NEW s \in Savers, NEW r \in Runs, CreatesRun(s, r) \/ Finalizes(s, r) PROVE RecordInv'
  <2> DEFINE b == IF CreatesRun(s, r) THEN [InUse EXCEPT !.runs = @ \cup {r}]
                                      ELSE [InUse EXCEPT !.done = @ \cup {r}]
             p == IF CreatesRun(s, r) THEN past ELSE [past EXCEPT !.finished = @ \cup {r}]
  <2>1. b \in Books /\ b.index = InUse.index /\ b.find = InUse.find BY <1>u DEF Books
  <2>2. p \in Pasts /\ p.noted = past.noted /\ p.decided = past.decided /\ p.overruled = past.overruled
        /\ p.missed = past.missed /\ (p.finished \subseteq b.done \/ ~(past.finished \subseteq InUse.done))
    BY <1>u DEF Pasts, Books
  <2>3. Recording(s, b, p) /\ handed' = handed /\ opened' \subseteq Runs
    BY <1>u, <1>1 DEF CreatesRun, Finalizes, NewRunId
  <2> HIDE DEF b, p
  <2>4. ~lapped => Stands(b, p) BY <1>u, <2>1, <2>2 DEF Stands, DecisionsStand, NotesStay
  <2>5. IndexOK(b.index) BY <1>u, <2>1
  <2>6. HandedIn(b, handed') BY <1>v, <2>1, <2>3, HandedLemma
  <2> QED BY <1>u, <2>1, <2>2, <2>3, <2>4, <2>5, <2>6, RecordingLemma
<1>2. ASSUME NEW s \in Savers, NEW r \in Runs, NEW f \in Finds, NEW keys \in KeySets,
             CreatesRunWith(s, r, f, keys) \/ AppendsFind(s, r, f, keys)
      PROVE  RecordInv'
  <2> DEFINE b == IF CreatesRunWith(s, r, f, keys) THEN [InUse EXCEPT !.runs = @ \cup {r}] ELSE InUse
             found == NewFind(r, keys)
  <2>1. b \in Books /\ b.index = InUse.index /\ b.find = InUse.find /\ b.done = InUse.done BY <1>u DEF Books
  <2>2. found \in FindRecords BY DEF NewFind, FindRecords, Verdicts, KeySets
  <2>3. /\ Recording(s, Observed(b, f, found), AfterObserved(past, b, found))
        /\ f \notin handed /\ handed' = handed \cup {f} /\ opened' \subseteq Runs
    BY <1>u, <1>2 DEF CreatesRunWith, AppendsFind, NewRunId, NewFindId, NewIn
  <2> HIDE DEF b, found
  <2>4. ~lapped => Stands(b, past) BY <1>u, <2>1 DEF Stands, DecisionsStand, NotesStay
  <2>5. \A n \in past.noted : n[1] # f BY <1>u, <2>3
  <2>6. /\ Observed(b, f, found) \in Books /\ IndexOK(Observed(b, f, found).index)
        /\ \A g \in Finds \ {f} : Observed(b, f, found).find[g] = b.find[g]
        /\ AfterObserved(past, b, found) \in Pasts /\ AfterObserved(past, b, found).noted = past.noted
        /\ ~lapped => Stands(Observed(b, f, found), AfterObserved(past, b, found))
    BY <1>u, <2>1, <2>2, <2>4, <2>5, ObservedLemma
  <2>7. HandedIn(Observed(b, f, found), handed')
    <3>1. \A g \in Finds : g \in handed' \/ Observed(b, f, found).find[g].run = InUse.find[g].run
      BY <2>1, <2>3, <2>6
    <3>2. handed \subseteq handed' BY <2>3
    <3> QED BY <1>v, <3>1, <3>2, HandedLemma
  <2> QED BY <1>u, <2>3, <2>6, <2>7, RecordingLemma
<1>3. ASSUME NEW s \in Savers, NEW r \in Runs, NEW g \in Finds, NEW keys \in KeySets, AppendsTo(s, r, g, keys)
      PROVE  RecordInv'
  <2> DEFINE found == Merged(InUse.find[g], keys)
  <2>1. found \in FindRecords /\ found.acts = InUse.find[g].acts
    BY <1>u DEF Merged, Filled, FindRecords, Books, KeySets
  <2>2. /\ Recording(s, Observed(InUse, g, found), AfterObserved(past, InUse, found))
        /\ handed' = handed /\ opened' = opened
    BY <1>3 DEF AppendsTo
  <2> HIDE DEF found
  <2>3. /\ Observed(InUse, g, found) \in Books /\ IndexOK(Observed(InUse, g, found).index)
        /\ \A h \in Finds \ {g} : Observed(InUse, g, found).find[h] = InUse.find[h]
        /\ AfterObserved(past, InUse, found) \in Pasts /\ AfterObserved(past, InUse, found).noted = past.noted
        /\ ~lapped => Stands(Observed(InUse, g, found), AfterObserved(past, InUse, found))
    <3>1. \A n \in past.noted : n[1] = g => n[2] \in found.acts \/ n[2] \notin InUse.find[g].acts BY <2>1
    <3> QED BY <1>x, <2>1, <3>1, ObservedLemma
  <2>4. g \in handed BY <1>w, <1>3, RecordAssumption DEF AppendsTo, Duplicates
  <2>5. HandedIn(Observed(InUse, g, found), handed')
    <3>1. \A h \in Finds : h \in handed' \/ Observed(InUse, g, found).find[h].run = InUse.find[h].run
      BY <2>2, <2>3, <2>4
    <3>2. handed \subseteq handed' BY <2>2
    <3> QED BY <1>v, <3>1, <3>2, HandedLemma
  <2> QED BY <1>u, <2>2, <2>3, <2>5, RecordingLemma
<1>4. ASSUME NEW s \in Savers, NEW f \in Finds, NEW to \in Verdicts, SetsStatus(s, f, to) PROVE RecordInv'
  <2>1. /\ Recording(s, Reviewed(InUse, f, to), AfterReviewed(past, InUse, f, to))
        /\ handed' = handed /\ opened' = opened
    BY <1>4 DEF SetsStatus
  <2>2. /\ Reviewed(InUse, f, to) \in Books /\ IndexOK(Reviewed(InUse, f, to).index)
        /\ \A g \in Finds : Reviewed(InUse, f, to).find[g].run = InUse.find[g].run
        /\ AfterReviewed(past, InUse, f, to) \in Pasts /\ AfterReviewed(past, InUse, f, to).noted = past.noted
        /\ ~lapped => Stands(Reviewed(InUse, f, to), AfterReviewed(past, InUse, f, to))
    BY <1>x, ReviewedLemma
  <2>3. HandedIn(Reviewed(InUse, f, to), handed') BY <1>v, <2>1, <2>2, HandedLemma
  <2> QED BY <1>u, <2>1, <2>2, <2>3, RecordingLemma
<1>5. ASSUME NEW s \in Savers, NEW f \in Finds, NEW a \in Deeds, Notes(s, f, a) PROVE RecordInv'
  <2> DEFINE b == [InUse EXCEPT !.find[f].acts = @ \cup {a}]
             p == [past EXCEPT !.noted = @ \cup {<<f, a>>}]
  <2>0. f \in handed BY <1>w, <1>5 DEF Notes
  <2>1. /\ b.index = InUse.index /\ b.done = InUse.done /\ b.find = [InUse.find EXCEPT ![f].acts = @ \cup {a}]
        /\ b = [InUse EXCEPT !.find = b.find]
    BY <1>u DEF Books
  <2>2. Recording(s, b, p) /\ handed' = handed /\ opened' = opened BY <1>5 DEF Notes
  <2>3. /\ p.noted = past.noted \cup {<<f, a>>} /\ p.decided = past.decided /\ p.overruled = past.overruled
        /\ p.missed = past.missed /\ p.finished = past.finished /\ p = [past EXCEPT !.noted = p.noted]
    BY <1>u DEF Pasts
  <2> HIDE DEF b, p
  <2>4. b.find \in [Finds -> FindRecords] /\ p.noted \in SUBSET (Finds \X Deeds)
    <3>1. InUse.find \in [Finds -> FindRecords] /\ past.noted \in SUBSET (Finds \X Deeds)
      BY <1>u DEF Books, FindRecords, Pasts
    <3>2. [InUse.find[f] EXCEPT !.acts = @ \cup {a}] \in FindRecords BY <3>1 DEF FindRecords
    <3> HIDE DEF FindRecords
    <3> QED BY <2>1, <2>3, <3>1, <3>2
  <2>5. b \in Books /\ p \in Pasts
    <3>1. b \in Books BY <1>u, <2>1, <2>4 DEF Books, FindRecords
    <3>2. p \in Pasts BY <1>u, <2>3, <2>4 DEF Pasts
    <3> QED BY <3>1, <3>2
  <2>6. \A g \in Finds : /\ b.find[g].run = InUse.find[g].run
                         /\ InUse.find[g].acts \subseteq b.find[g].acts /\ (g = f => a \in b.find[g].acts)
    BY <1>u, <2>1 DEF Books
  <2>7. HandedIn(b, handed') /\ \A n \in p.noted : n[1] \in handed'
    <3>1. HandedIn(b, handed') BY <1>v, <2>2, <2>6, HandedLemma
    <3> QED BY <1>u, <2>0, <2>2, <2>3, <3>1
  <2>8. ~lapped => Stands(b, p)
    <3>1. SUFFICES ASSUME ~lapped PROVE Stands(b, p) OBVIOUS
    <3>2. DecisionsStand(InUse, past) /\ NotesStay(InUse, past) BY <1>u, <3>1 DEF Stands
    <3>3. \A n \in p.noted : n[2] \in b.find[n[1]].acts
      <4>1. ASSUME NEW n \in past.noted PROVE n[2] \in b.find[n[1]].acts
        <5>1. n[1] \in Finds /\ n[2] \in InUse.find[n[1]].acts BY <1>u, <3>2 DEF NotesStay, Pasts
        <5> QED BY <2>6, <5>1
      <4> QED BY <2>3, <2>6, <4>1
    <3> QED BY <2>1, <2>3, <3>2, <3>3 DEF Stands, DecisionsStand, NotesStay
  <2> QED BY <1>u, <2>1, <2>2, <2>5, <2>7, <2>8, RecordingLemma
<1>6. ASSUME NEW s \in Savers, Saves(s) PROVE RecordInv'
  <2>1. saving[s].state # "idle" /\ saving[s].book \in Books /\ saving[s].past \in Pasts
        /\ IndexOK(saving[s].book.index) /\ HandedIn(saving[s].book, handed) /\ place # "file"
    BY <1>t, <1>6 DEF Saves, RecordInv, RecordTypeOK
  <2>2. \A n \in saving[s].past.noted : n[1] \in handed BY DEF RecordInv
  <2>3. lapped' = (lapped \/ saving[s].state = "stale") /\ stored' = saving[s].book /\ past' = saving[s].past
        /\ UNCHANGED <<filed, place, handed, opened, recordings, loads>> /\ saving' = OthersStale(s)
    BY <1>6 DEF Saves
  <2>4. ~lapped' => ~lapped /\ Stands(saving[s].book, saving[s].past)
    BY <1>t, <2>1, <2>3 DEF RecordInv, RecordTypeOK
  <2>5. NotSaving \in [state : {"idle", "stale"}, book : Books, past : Pasts]
    BY DEF NotSaving, Blank, NothingYet, Books, Pasts, Unindexed, NoFind, Verdicts
  <2>6. saving' \in [Savers -> [state : {"idle", "stale"}, book : Books, past : Pasts]]
    BY <1>t, <2>3, <2>5 DEF OthersStale, RecordTypeOK
  <2>7. \A u \in Savers : saving'[u] = NotSaving
                             \/ /\ saving'[u].book = saving[u].book /\ saving'[u].past = saving[u].past
                                /\ (saving'[u].state = "idle" <=> saving[u].state = "idle")
    BY <1>t, <2>3 DEF OthersStale, RecordTypeOK
  <2>8. recordings' \in 0..MaxRecordings /\ lapped' \in BOOLEAN BY <1>t, <2>3 DEF RecordTypeOK
  <2> HIDE DEF NotSaving, IndexOK, Stands
  <2> QED BY <2>1, <2>2, <2>3, <2>4, <2>6, <2>7, <2>8, TableReplacedLemma
<1>7. ASSUME NEW s \in Savers, SaveFails(s) PROVE RecordInv'
  <2>1. saving' = [saving EXCEPT ![s] = NotSaving]
        /\ UNCHANGED <<filed, stored, place, past, handed, opened, recordings, loads, lapped>>
    BY <1>7 DEF SaveFails
  <2>2. NotSaving \in [state : {"idle", "fresh", "stale"}, book : Books, past : Pasts]
    BY DEF NotSaving, Blank, NothingYet, Books, Pasts, Unindexed, NoFind, Verdicts
  <2>3. RecordTypeOK'
    BY <1>t, <2>1, <2>2 DEF RecordTypeOK
  <2>4. \A u \in Savers : saving'[u] = IF u = s THEN NotSaving ELSE saving[u] BY <1>t, <2>1 DEF RecordTypeOK
  <2>5. IndexOK(NotSaving.book.index) /\ HandedIn(NotSaving.book, handed) /\ NotSaving.past.noted = {}
        /\ NotSaving.state = "idle"
    BY DEF NotSaving, Blank, NothingYet, IndexOK, Unindexed, HandedIn, NoFind
  <2>6. \A u \in Savers : /\ IndexOK(saving'[u].book.index) /\ HandedIn(saving'[u].book, handed)
                          /\ \A n \in saving'[u].past.noted : n[1] \in handed
                          /\ place = "file" => saving'[u].state = "idle"
                          /\ ~lapped /\ saving'[u].state = "fresh" => Stands(saving'[u].book, saving'[u].past)
    BY <2>4, <2>5 DEF RecordInv
  <2>7. InUse' = InUse BY <2>1 DEF InUse
  <2> QED BY <2>1, <2>3, <2>6, <2>7 DEF RecordInv
<1>8. CASE Migrates
  <2>1. /\ stored' = filed /\ lapped' = (lapped \/ place = "database")
        /\ recordings' \in 0..MaxRecordings /\ UNCHANGED <<filed, place, past, handed, opened, loads>>
        /\ saving' = [s \in Savers |-> IF saving[s].state = "idle" THEN saving[s]
                                       ELSE [saving[s] EXCEPT !.state = "stale"]]
    BY <1>t, <1>8, RecordAssumption DEF Migrates, Tallied, RecordTypeOK
  <2>2. saving' \in [Savers -> [state : {"idle", "stale"}, book : Books, past : Pasts]]
    BY <1>t, <2>1 DEF RecordTypeOK
  <2>3. \A u \in Savers : /\ saving'[u].book = saving[u].book /\ saving'[u].past = saving[u].past
                          /\ (saving'[u].state = "idle" <=> saving[u].state = "idle")
    BY <1>t, <2>1 DEF RecordTypeOK
  <2>4. filed \in Books /\ IndexOK(filed.index) /\ HandedIn(filed, handed) BY <1>t DEF RecordInv, RecordTypeOK
  <2>5. lapped' \in BOOLEAN /\ (place = "file" => lapped' = lapped)
        /\ (~lapped' => ~lapped /\ place = "file")
    BY <1>t, <2>1 DEF RecordTypeOK
  <2> HIDE DEF IndexOK, Stands
  <2> QED BY <1>u, <2>1, <2>2, <2>3, <2>4, <2>5, TableReplacedLemma
<1>9. CASE CutsOver
  <2>1. /\ place = "file" /\ place' = "database" /\ lapped' = (lapped \/ stored # filed)
        /\ UNCHANGED <<filed, stored, saving, past, handed, opened, recordings, loads>>
    BY <1>9 DEF CutsOver
  <2>2. RecordTypeOK' BY <1>t, <2>1 DEF RecordTypeOK
  <2>3. ~lapped' => InUse' = InUse BY ZenonT(30), <2>1 DEF InUse
  <2> HIDE DEF IndexOK, Stands
  <2> QED BY <2>1, <2>2, <2>3 DEF RecordInv
<1>10. CASE UNCHANGED recordVars
  <2>1. RecordTypeOK' /\ InUse' = InUse BY <1>t, <1>10 DEF recordVars, RecordTypeOK, InUse
  <2> QED BY <1>10, <2>1 DEF recordVars, RecordInv
<1> QED BY <1>1, <1>2, <1>3, <1>4, <1>5, <1>6, <1>7, <1>8, <1>9, <1>10 DEF RecordNext

\* The types of ResearchRecords, and the invariant, hold for every set of posts, finds, runs and
\* transactions and every number of calls.
THEOREM RecordInvariance == RecordSpec => []RecordInv
<1>1. RecordInit => RecordInv
  <2> SUFFICES ASSUME RecordInit PROVE RecordInv OBVIOUS
  <2>1. Blank \in Books /\ NothingYet \in Pasts
    BY DEF Blank, NothingYet, Books, Pasts, Unindexed, NoFind, Verdicts
  <2>2. RecordTypeOK
    <3> HIDE DEF Blank, NothingYet
    <3>1. [state |-> "idle", book |-> Blank, past |-> NothingYet]
            \in [state : {"idle", "fresh", "stale"}, book : Books, past : Pasts]
      BY <2>1
    <3>2. saving \in [Savers -> [state : {"idle", "fresh", "stale"}, book : Books, past : Pasts]]
      BY <3>1 DEF RecordInit, NotSaving
    <3>3. 0 \in 0..MaxRecordings /\ 0 \in 0..MaxLoads BY RecordAssumption
    <3> QED BY <2>1, <3>2, <3>3 DEF RecordInit, RecordTypeOK
  <2>3. IndexOK(Blank.index) /\ HandedIn(Blank, handed) /\ Stands(Blank, NothingYet)
    BY DEF Blank, NothingYet, IndexOK, Unindexed, HandedIn, NoFind, Stands, DecisionsStand, NotesStay
  <2>4. NothingYet.noted = {} BY DEF NothingYet
  <2> HIDE DEF Blank, NothingYet, IndexOK, Stands, HandedIn
  <2> QED BY <2>2, <2>3, <2>4 DEF RecordInit, RecordInv, InUse, NotSaving
<1> QED BY <1>1, RecordStep, PTL DEF RecordSpec

\* A review sticks to the post, and what was noted to its find, with the file always and in the
\* table until a record is saved over one that had changed (researchStore.js).
THEOREM ReviewsKeepSticking == RecordSpec => []ReviewsStick
<1>1. RecordInv => ReviewsStick BY DEF RecordInv, ReviewsStick, IndexOK, AliasesAgree, Stands
<1> QED BY <1>1, RecordInvariance, PTL
=============================================================================
