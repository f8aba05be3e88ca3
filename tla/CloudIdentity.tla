--------------------------- MODULE CloudIdentity ---------------------------
(***************************************************************************)
(* The accounts of the cloud API: people, their membership of the          *)
(* organization, invitations, password resets, second factors and sign-ins *)
(* (createCloudApi.js and the services and repositories it calls).         *)
(*                                                                         *)
(* A request is a sequence of statements of the database with awaits       *)
(* between them; what one of them read may be changed by another request   *)
(* before it writes.  A transaction is one step where its statements       *)
(* check again what they change, and two where they do not, or where what  *)
(* another connection adds between them escapes it; it holds the rows that *)
(* it changed until it ends.                                               *)
(***************************************************************************)
EXTENDS Naturals, FiniteSets

CONSTANTS
  Humans,      \* people, each with one address
  Founders,    \* managers of the organization from the start
  Leftovers,   \* people with an account whose sign-up ended before they became members
  Invites,     \* invitations
  Resets,      \* tokens for a new password
  WebCalls,    \* requests under way
  NoCall,      \* a place where no request is under way
  MaxCalls     \* bound: requests that begin, sessions and links whose time is up

ASSUME CloudAssumption ==
  /\ Founders \subseteq Humans /\ Leftovers \subseteq Humans /\ Founders \cap Leftovers = {}
  /\ Founders # {} /\ MaxCalls \in Nat

VARIABLES
  password,    \* person -> how often their password was set, 0: there is no account
  standing,    \* person -> their membership
  manages,     \* members whose role lets them invite and manage
  factor,      \* person -> their second factor
  spare,       \* people who were given recovery codes
  invite,      \* invitation -> its state, and whose address it went to
  reset,       \* token -> its state, and whose password it is for
  signedIn,    \* sessions that are neither revoked nor expired
  web,         \* place -> the request: what for, by whom, how far, and what it has read
  begun,       \* requests and lapses so far
  admitted,    \* invitation -> who became a member by it
  spent,       \* token -> how often it set a password
  cut,         \* people whose factor was confirmed by a request that ended before their codes
  crossed,     \* a manager's change was written when they were no longer an active member
  raced        \* place -> the password that a reset was setting while the sign-in there went on

cloudVars == <<password, standing, manages, factor, spare, invite, reset, signedIn, web, begun,
               admitted, spent, cut, crossed, raced>>

Standings == {"none", "active", "suspended", "removed"}
Ops == {"login", "signup", "manage", "invite", "accept", "enroll", "ask", "reset"}
Idling == [op |-> "none", who |-> NoCall, at |-> "idle", item |-> NoCall, seen |-> {}, under |-> 0]

CloudTypeOK ==
  /\ password \in [Humans -> Nat] /\ standing \in [Humans -> Standings] /\ manages \subseteq Humans
  /\ factor \in [Humans -> {"none", "enrolled", "verified"}] /\ spare \subseteq Humans
  /\ invite \in [Invites -> [state : {"none", "open", "accepted", "expired"}, to : Humans]]
  /\ reset \in [Resets -> [state : {"none", "live", "consumed", "expired"}, of : Humans]]
  /\ signedIn \subseteq [of : Humans, under : Nat, late : Nat, ending : BOOLEAN]
  /\ web \in [WebCalls -> [op : Ops \cup {"none"}, who : Humans \cup {NoCall},
                           at : {"idle", "in", "may", "factor", "issue", "create", "join", "accept",
                                 "codes", "tokens", "confirm", "commit"},
                           item : Invites \cup Resets \cup {NoCall}, seen : SUBSET Resets, under : Nat]]
  /\ begun \in 0..MaxCalls
  /\ admitted \in [Invites -> SUBSET Humans] /\ spent \in [Resets -> Nat]
  /\ cut \subseteq Humans /\ crossed \in BOOLEAN /\ raced \in [WebCalls -> Nat]

\* A session: whose, under which password, which one a reset was setting meanwhile, and whether a
\* reset that is not committed yet has revoked it.
Opened(p, under, late) == [of |-> p, under |-> under, late |-> late, ending |-> FALSE]

\* Who founded the organization is its first member (createOrganizationWithOwner).
StandingAtStart(p) == IF p \in Founders THEN "active" ELSE "none"

\* Everybody who has an account is signed in.
CloudInit ==
  /\ password = [p \in Humans |-> IF p \in Founders \cup Leftovers THEN 1 ELSE 0]
  /\ standing = [p \in Humans |-> StandingAtStart(p)]
  /\ manages = Founders
  /\ factor = [p \in Humans |-> "none"] /\ spare = {} /\ cut = {}
  /\ invite = [i \in Invites |-> [state |-> "none", to |-> CHOOSE p \in Humans : TRUE]]
  /\ reset = [t \in Resets |-> [state |-> "none", of |-> CHOOSE p \in Humans : TRUE]]
  /\ signedIn = {Opened(p, 1, 0) : p \in Founders \cup Leftovers}
  /\ web = [c \in WebCalls |-> Idling] /\ begun = 0
  /\ admitted = [i \in Invites |-> {}] /\ spent = [t \in Resets |-> 0] /\ crossed = FALSE
  /\ raced = [c \in WebCalls |-> 0]

CallOver(c) == web' = [web EXCEPT ![c] = Idling]
Goes(c, at) == web' = [web EXCEPT ![c].at = at]

Counted == begun < MaxCalls /\ begun' = begun + 1

\* A request arrives and has done its first reading.
Arrives(c, op, p, at) ==
  /\ web[c] = Idling /\ Counted
  /\ web' = [web EXCEPT ![c] = [Idling EXCEPT !.op = op, !.who = p, !.at = at]]

----------------------------------------------------------------------------
\* Signing in and out.

\* A transaction that sets p's password anew is under way.
Resetting(p) == \E c \in WebCalls : web[c].at = "commit" /\ web[c].who = p

\* /login: getByEmail and verifyPassword, by the password that is committed.
LoginReads(c, p) ==
  /\ password[p] > 0 /\ web[c] = Idling /\ Counted
  /\ web' = [web EXCEPT ![c] = [Idling EXCEPT !.op = "login", !.who = p, !.at = "factor",
                                              !.under = password[p]]]
  /\ raced' = [raced EXCEPT ![c] = IF Resetting(p) THEN password[p] + 1 ELSE 0]
  /\ UNCHANGED <<password, standing, manages, factor, spare, invite, reset, signedIn, admitted, spent,
                 cut, crossed>>

\* listActiveMethods and verifyLogin: a verified factor has to be shown.
LoginAsks(c) ==
  /\ web[c].at = "factor"
  /\ \/ Goes(c, "issue")
     \/ factor[web[c].who] = "verified" /\ CallOver(c)
  /\ UNCHANGED <<password, standing, manages, factor, spare, invite, reset, signedIn, begun, admitted,
                 spent, cut, crossed, raced>>

\* issueSession, on a connection of its own; nothing is read again.
SessionIssued(c) ==
  /\ web[c].at = "issue" /\ CallOver(c)
  /\ signedIn' = signedIn \cup {Opened(web[c].who, web[c].under, raced[c])}
  /\ UNCHANGED <<password, standing, manages, factor, spare, invite, reset, begun, admitted, spent, cut,
                 crossed, raced>>

\* A session expires.
SessionLapses(s) ==
  /\ s \in signedIn /\ signedIn' = signedIn \ {s} /\ Counted
  /\ UNCHANGED <<password, standing, manages, factor, spare, invite, reset, web, admitted, spent, cut,
                 crossed, raced>>

\* authenticate: the session is usable and its account is active.
Authenticated(c, s, op) ==
  /\ s \in signedIn /\ op \in {"manage", "invite", "accept", "enroll"}
  /\ Arrives(c, op, s.of, "in")
  /\ UNCHANGED <<password, standing, manages, factor, spare, invite, reset, signedIn, admitted, spent,
                 cut, crossed, raced>>

\* /logout: the session is revoked, unless a reset holds it; another one of the same person may be
\* its equal here.
LoggedOut(c, s) ==
  /\ s \in signedIn /\ ~s.ending /\ web[c] = Idling /\ Counted
  /\ signedIn' \in {signedIn, signedIn \ {s}}
  /\ UNCHANGED <<password, standing, manages, factor, spare, invite, reset, web, admitted, spent, cut,
                 crossed, raced>>

----------------------------------------------------------------------------
\* Members and invitations.

\* requireMembership, and what the member's role permits.
ActiveMember(p) == standing[p] = "active"
RolePermits(p) == p \in manages

\* requirePermission.
MayManage(c) ==
  /\ web[c].at = "in" /\ web[c].op \in {"manage", "invite"}
  /\ IF ActiveMember(web[c].who) /\ RolePermits(web[c].who) THEN Goes(c, "may") ELSE CallOver(c)
  /\ UNCHANGED <<password, standing, manages, factor, spare, invite, reset, signedIn, begun, admitted,
                 spent, cut, crossed, raced>>

\* PATCH members: not one's own standing.
\* Mutant: anybody's.
AnyTarget(by, p) == standing[p] # "none"
Target(by, p) == standing[p] # "none" /\ p # by

StandingSet(c, p, to) ==
  /\ web[c].at = "may" /\ web[c].op = "manage" /\ Target(web[c].who, p)
  /\ to \in {"active", "suspended", "removed"}
  /\ standing' = [standing EXCEPT ![p] = to] /\ CallOver(c)
  /\ crossed' = (crossed \/ ~ActiveMember(web[c].who))
  /\ UNCHANGED <<password, manages, factor, spare, invite, reset, signedIn, begun, admitted, spent, cut,
                 raced>>

\* invite: the invitation and its mail, or neither.
Invited(c, i, p) ==
  /\ web[c].at = "may" /\ web[c].op = "invite" /\ invite[i].state = "none" /\ CallOver(c)
  /\ invite' = [invite EXCEPT ![i] = [state |-> "open", to |-> p]]
  /\ UNCHANGED <<password, standing, manages, factor, spare, reset, signedIn, begun, admitted, spent,
                 cut, crossed, raced>>

InviteLapses(i) ==
  /\ invite[i].state = "open" /\ invite' = [invite EXCEPT ![i].state = "expired"] /\ Counted
  /\ UNCHANGED <<password, standing, manages, factor, spare, reset, signedIn, web, admitted, spent, cut,
                 crossed, raced>>

\* resolveToken: the invitation is there, open and in time.
Resolves(c, i) ==
  /\ \/ web[c].at = "in" /\ web[c].op = "accept"
     \/ web[c].at = "join" /\ web[c].item = i
  /\ invite[i].state = "open" /\ web' = [web EXCEPT ![c].at = "accept", ![c].item = i]
  /\ UNCHANGED <<password, standing, manages, factor, spare, invite, reset, signedIn, begun, admitted,
                 spent, cut, crossed, raced>>

\* markAccepted: neither accepted nor revoked in the meantime, late or not.
\* Mutant: what was read is not looked at again.
StillThere(i) == invite[i].state # "none"
StillOpen(i) == invite[i].state \in {"open", "expired"}

\* acceptInvitation's transaction: the invitation is used up and there is a new member with
\* its role, or neither.
Accepts(c, manager) ==
  LET i == web[c].item  p == web[c].who IN
  /\ web[c].at = "accept"
  /\ IF StillOpen(i) /\ standing[p] = "none"
     THEN /\ invite' = [invite EXCEPT ![i].state = "accepted"]
          /\ standing' = [standing EXCEPT ![p] = "active"]
          /\ manages' = IF manager THEN manages \cup {p} ELSE manages
          /\ admitted' = [admitted EXCEPT ![i] = @ \cup {p}]
          /\ IF web[c].op = "signup" THEN Goes(c, "issue") ELSE CallOver(c)
     ELSE CallOver(c) /\ UNCHANGED <<invite, standing, manages, admitted>>
  /\ UNCHANGED <<password, factor, spare, reset, signedIn, begun, spent, cut, crossed, raced>>

\* /signup-from-invitation, for the address the invitation went to.
SignupReads(c, i) ==
  /\ invite[i].state = "open" /\ Arrives(c, "signup", invite[i].to, "create")
  /\ raced' = [raced EXCEPT ![c] = 0]
  /\ UNCHANGED <<password, standing, manages, factor, spare, invite, reset, signedIn, admitted, spent,
                 cut, crossed>>

\* createWithPrimaryEmail, which stays whatever becomes of the rest; an address has one account.
SignupCreates(c, i) ==
  LET p == web[c].who IN
  /\ web[c].at = "create" /\ invite[i].state # "none" /\ invite[i].to = p
  /\ IF password[p] = 0
     THEN /\ password' = [password EXCEPT ![p] = 1]
          /\ web' = [web EXCEPT ![c].at = "join", ![c].item = i, ![c].under = 1]
     ELSE CallOver(c) /\ UNCHANGED password
  /\ UNCHANGED <<standing, manages, factor, spare, invite, reset, signedIn, begun, admitted, spent, cut,
                 crossed, raced>>

----------------------------------------------------------------------------
\* Second factors.

\* enrollTotp.
Enrolls(c) ==
  /\ web[c].at = "in" /\ web[c].op = "enroll" /\ CallOver(c)
  /\ factor' = [factor EXCEPT ![web[c].who] = IF @ = "none" THEN "enrolled" ELSE @]
  /\ UNCHANGED <<password, standing, manages, spare, invite, reset, signedIn, begun, admitted, spent,
                 cut, crossed, raced>>

\* confirmTotp: the factor counts from here on.  A method and its code are all that is asked for;
\* whose it is, is not compared with who is signed in ...
Confirms(c, p) ==
  /\ web[c].at = "in" /\ web[c].op = "enroll" /\ factor[p] # "none"
  /\ web' = [web EXCEPT ![c].at = "codes", ![c].who = p]
  /\ factor' = [factor EXCEPT ![p] = "verified"]
  /\ UNCHANGED <<password, standing, manages, spare, invite, reset, signedIn, begun, admitted, spent,
                 cut, crossed, raced>>

\* ... and its recovery codes are written after it, one by one.
CodesGiven(c) ==
  /\ web[c].at = "codes" /\ CallOver(c)
  /\ spare' = spare \cup {web[c].who}
  /\ UNCHANGED <<password, standing, manages, factor, invite, reset, signedIn, begun, admitted, spent,
                 cut, crossed, raced>>

----------------------------------------------------------------------------
\* Resetting a password.

\* issueToken's transaction begins with the tokens that are live; it waits for a reset that
\* holds one of them.
LiveTokens(p) == {t \in Resets : reset[t].state = "live" /\ reset[t].of = p}
ResetAsked(c, p) ==
  /\ password[p] > 0 /\ web[c] = Idling /\ Counted
  /\ \A d \in WebCalls : web[d].at = "commit" => web[d].item \notin LiveTokens(p)
  /\ web' = [web EXCEPT ![c] = [Idling EXCEPT !.op = "ask", !.who = p, !.at = "tokens", !.seen = LiveTokens(p)]]
  /\ UNCHANGED <<password, standing, manages, factor, spare, invite, reset, signedIn, admitted, spent,
                 cut, crossed, raced>>

\* It ends: those are used up, and there is a new one and its mail.
ResetSent(c, t) ==
  /\ web[c].at = "tokens" /\ reset[t].state = "none" /\ CallOver(c)
  /\ reset' = [u \in Resets |->
                 IF u = t THEN [state |-> "live", of |-> web[c].who]
                 ELSE IF u \in web[c].seen /\ reset[u].state # "consumed"
                      THEN [reset[u] EXCEPT !.state = "consumed"] ELSE reset[u]]
  /\ UNCHANGED <<password, standing, manages, factor, spare, invite, signedIn, begun, admitted, spent,
                 cut, crossed, raced>>

ResetLapses(t) ==
  /\ reset[t].state = "live" /\ reset' = [reset EXCEPT ![t].state = "expired"] /\ Counted
  /\ UNCHANGED <<password, standing, manages, factor, spare, invite, signedIn, web, admitted, spent,
                 cut, crossed, raced>>

\* resetPassword resolves the token.
ResetReads(c, t) ==
  /\ reset[t].state = "live" /\ web[c] = Idling /\ Counted
  /\ web' = [web EXCEPT ![c] = [Idling EXCEPT !.op = "reset", !.who = reset[t].of, !.at = "confirm",
                                              !.item = t]]
  /\ UNCHANGED <<password, standing, manages, factor, spare, invite, reset, signedIn, admitted, spent,
                 cut, crossed, raced>>

\* What a transaction makes of p's sessions, and a ROLLBACK makes of them again.
WithEnding(p, ending) == {IF s.of = p THEN [s EXCEPT !.ending = ending] ELSE s : s \in signedIn}

\* revokeAllForUser: every session that it finds.
\* Mutant: none.
NoneRevoked(p) == signedIn
SessionsRevoked(p) == WithEnding(p, TRUE)

\* Another transaction holds the token or the account.
Held(t, p) ==
  \E c \in WebCalls : \/ web[c].at = "commit" /\ (web[c].item = t \/ web[c].who = p)
                      \/ web[c].at = "tokens" /\ t \in web[c].seen

SigningIn(c, p) == web[c].op \in {"login", "signup"} /\ web[c].who = p

\* Its transaction: if the token is not used up, it is now, the password is set and the sessions
\* that are there end.
ResetWrites(c) ==
  LET t == web[c].item  p == web[c].who IN
  /\ web[c].at = "confirm"
  /\ IF reset[t].state = "consumed"
     THEN CallOver(c) /\ UNCHANGED <<signedIn, raced>>
     ELSE /\ ~Held(t, p) /\ Goes(c, "commit") /\ signedIn' = SessionsRevoked(p)
          /\ raced' = [d \in WebCalls |-> IF SigningIn(d, p) THEN password[p] + 1 ELSE raced[d]]
  /\ UNCHANGED <<password, standing, manages, factor, spare, invite, reset, begun, admitted, spent, cut,
                 crossed>>

\* COMMIT: from now on others see it.
ResetCommits(c) ==
  LET t == web[c].item  p == web[c].who IN
  /\ web[c].at = "commit" /\ CallOver(c)
  /\ reset' = [reset EXCEPT ![t].state = "consumed"]
  /\ password' = [password EXCEPT ![p] = @ + 1]
  /\ signedIn' = {s \in signedIn : ~(s.of = p /\ s.ending)}
  /\ spent' = [spent EXCEPT ![t] = @ + 1]
  /\ UNCHANGED <<standing, manages, factor, spare, invite, begun, admitted, cut, crossed, raced>>

----------------------------------------------------------------------------
\* A request fails, or the process dies, between two steps; its transaction is rolled back.
CallEnds(c) ==
  /\ web[c] # Idling /\ CallOver(c)
  /\ cut' = IF web[c].at = "codes" THEN cut \cup {web[c].who} ELSE cut
  /\ signedIn' = IF web[c].at = "commit" THEN WithEnding(web[c].who, FALSE) ELSE signedIn
  /\ UNCHANGED <<password, standing, manages, factor, spare, invite, reset, begun, admitted, spent,
                 crossed, raced>>

CloudNext ==
  \/ \E c \in WebCalls :
       \/ LoginAsks(c) \/ SessionIssued(c) \/ MayManage(c) \/ Enrolls(c) \/ CodesGiven(c)
       \/ ResetWrites(c) \/ ResetCommits(c) \/ CallEnds(c)
       \/ \E p \in Humans : LoginReads(c, p) \/ Confirms(c, p) \/ ResetAsked(c, p)
       \/ \E s \in signedIn : \/ LoggedOut(c, s)
                              \/ \E op \in Ops : Authenticated(c, s, op)
       \/ \E p \in Humans, to \in Standings : StandingSet(c, p, to)
       \/ \E i \in Invites : \/ Resolves(c, i) \/ SignupReads(c, i) \/ SignupCreates(c, i)
                             \/ \E p \in Humans : Invited(c, i, p)
       \/ \E manager \in BOOLEAN : Accepts(c, manager)
       \/ \E t \in Resets : ResetSent(c, t) \/ ResetReads(c, t)
  \/ \E s \in signedIn : SessionLapses(s)
  \/ \E i \in Invites : InviteLapses(i)
  \/ \E t \in Resets : ResetLapses(t)

CloudSpec == CloudInit /\ [][CloudNext]_cloudVars

----------------------------------------------------------------------------
\* A session rests on its person's password as it is now.  Only one whose sign-in went on beside the
\* reset that set it, or a later one, outlasts the password it was opened under: resetPassword ends
\* the sessions that its statement finds, and issueSession does not look again.
SessionsAreCurrent ==
  \A s \in signedIn : s.under = password[s.of] \/ s.late >= password[s.of]

\* An invitation makes one member at most, and a token sets one password.
UsedOnce ==
  /\ \A i \in Invites : \A p, r \in admitted[i] : p = r
  /\ \A t \in Resets : spent[t] <= 1

\* Who is a member was there from the start or accepted an invitation.
MembersWereInvited ==
  \A p \in Humans : standing[p] # "none" => p \in Founders \/ \E i \in Invites : p \in admitted[i]

\* Somebody is left who can manage the members, unless two managers took it from each other
\* at the same time.
ManagerRemains == crossed \/ \E p \in manages : ActiveMember(p)

\* A second factor comes with recovery codes, unless its confirmation was cut short.
FactorHasCodes ==
  \A p \in Humans : factor[p] = "verified" =>
    p \in spare \cup cut \/ \E c \in WebCalls : web[c].at = "codes" /\ web[c].who = p

\* Access to the organization rests on what is valid now.
AccessIsCurrent ==
  /\ SessionsAreCurrent /\ UsedOnce /\ MembersWereInvited /\ ManagerRemains /\ FactorHasCodes
=============================================================================
