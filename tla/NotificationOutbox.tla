------------------------- MODULE NotificationOutbox -------------------------
(***************************************************************************)
(* What becomes of a mail of the outbox (accountNotificationStore.js,      *)
(* notificationOutbox.js, notificationDrainLoop.js): deliveries claim it   *)
(* for a lease, send it across an await, and say how it went.              *)
(*                                                                         *)
(* A mail is held, aborted or let go by the change it is about (Accounts   *)
(* says when); here that may happen at any time.  The drain, which is one  *)
(* at a time, and the delivery a route starts for one mail claim from the  *)
(* same store, and nothing but the lease keeps two processes, or a sender  *)
(* that hangs, from sending one mail twice.                                *)
(***************************************************************************)
EXTENDS Naturals, FiniteSets

CONSTANTS
  Letters,        \* mails
  Deliveries,     \* deliveries that can be under way at once
  NoLetter,
  MaxAttempts,    \* maxAttempts
  MaxLapses,      \* bound: leases that end during a delivery, deliveries that are
                  \* not recorded, restarts, retries by hand
  OutboxFails     \* a write of the store may fail

ASSUME OutboxAssumption ==
  /\ {MaxAttempts, MaxLapses} \subseteq Nat /\ OutboxFails \in BOOLEAN
  /\ NoLetter \notin Letters \cup Deliveries /\ IsFiniteSet(Deliveries)

VARIABLES
  letter,    \* mail -> its entry; state "none" is no entry
  sending,   \* delivery -> the mail it is sending
  lapses,    \* how many of the events MaxLapses bounds have happened
  sent       \* mail -> how often it left

outboxVars == <<letter, sending, lapses, sent>>

States == {"none", "held", "aborted", "queued", "sending", "retry", "sent", "failed"}
NoEntry == [state |-> "none", tries |-> 0, claim |-> NoLetter, over |-> FALSE]

OutboxTypeOK ==
  /\ letter \in [Letters -> [state : States, tries : 0..MaxAttempts,
                             claim : Deliveries \cup {NoLetter}, over : BOOLEAN]]
  /\ sending \in [Deliveries -> Letters \cup {NoLetter}]
  /\ lapses \in 0..MaxLapses
  /\ sent \in [Letters -> 0..(MaxLapses + 2)]

OutboxInit ==
  /\ letter = [l \in Letters |-> NoEntry]
  /\ sending = [d \in Deliveries |-> NoLetter]
  /\ lapses = 0 /\ sent = [l \in Letters |-> 0]

Lapse == lapses < MaxLapses /\ lapses' = lapses + 1
Entry(l, from, to) ==
  /\ letter[l].state \in from
  /\ letter' = [letter EXCEPT ![l].state = to]
  /\ UNCHANGED <<sending, lapses, sent>>

\* queue, markCommitted and markAborted.
QueueLetter(l) == \E to \in {"held", "queued"} : Entry(l, {"none"}, to)
HoldAgain(l) == Entry(l, {"aborted"}, "held")
LetGo(l) == Entry(l, {"held"}, "queued")
Abort(l) == Entry(l, {"held"}, "aborted")

----------------------------------------------------------------------------
\* A delivery.

\* Mutant: a mail that is being sent is taken whether or not its lease is over.
ClaimableAnyway(e) == e.tries < MaxAttempts /\ e.state \in {"queued", "retry", "sending"}

\* Mutant: the attempts are not limited.
ClaimableEndlessly(e) == e.state \in {"queued", "retry"} \/ (e.state = "sending" /\ e.over)

Claimable(e) ==
  /\ e.tries < MaxAttempts
  /\ e.state \in {"queued", "retry"} \/ (e.state = "sending" /\ e.over)

Claim(d, l) ==
  /\ sending[d] = NoLetter /\ Claimable(letter[l])
  /\ letter' = [letter EXCEPT ![l] = [state |-> "sending", tries |-> @.tries + 1,
                                      claim |-> d, over |-> FALSE]]
  /\ sending' = [sending EXCEPT ![d] = l]
  /\ UNCHANGED <<lapses, sent>>

LeaseEnds(l) ==
  /\ letter[l].state = "sending" /\ ~letter[l].over /\ Lapse
  /\ letter' = [letter EXCEPT ![l].over = TRUE]
  /\ UNCHANGED <<sending, sent>>

\* completeClaim: only the latest claim of a mail says how it went.
Completed(d, state) ==
  LET l == sending[d] IN
  IF letter[l].state = "sending" /\ letter[l].claim = d
  THEN [letter EXCEPT ![l] = [NoEntry EXCEPT !.state = state, !.tries = letter[l].tries]]
  ELSE letter
Unsent(d) ==
  Completed(d, IF letter[sending[d]].tries >= MaxAttempts THEN "failed" ELSE "retry")

\* The delivery is over; it left if out says so.
Ends(d, entries, out) ==
  /\ sending[d] # NoLetter
  /\ letter' = entries
  /\ sent' = IF out THEN [sent EXCEPT ![sending[d]] = @ + 1] ELSE sent
  /\ sending' = [sending EXCEPT ![d] = NoLetter]

Delivered(d) == Ends(d, Completed(d, "sent"), TRUE) /\ UNCHANGED lapses
\* The mail left and recording it failed: that counts as a failure to send it.
Unrecorded(d) == OutboxFails /\ Ends(d, Unsent(d), TRUE) /\ Lapse
NotTaken(d) == Ends(d, Unsent(d), FALSE) /\ UNCHANGED lapses

\* An administrator retries what failed.
RetryByHand ==
  LET failed == {l \in Letters : letter[l].state \in {"retry", "failed"}} IN
  /\ Lapse /\ failed # {}
  /\ letter' = [l \in Letters |-> IF l \in failed THEN [NoEntry EXCEPT !.state = "queued"]
                                  ELSE letter[l]]
  /\ UNCHANGED <<sending, sent>>

OutboxCrash ==
  /\ Lapse
  /\ sending' = [d \in Deliveries |-> NoLetter]
  /\ UNCHANGED <<letter, sent>>

OutboxNext ==
  \/ \E l \in Letters : \/ QueueLetter(l) \/ HoldAgain(l) \/ LetGo(l) \/ Abort(l)
                        \/ LeaseEnds(l)
                        \/ \E d \in Deliveries : Claim(d, l)
  \/ \E d \in Deliveries : Delivered(d) \/ Unrecorded(d) \/ NotTaken(d)
  \/ RetryByHand \/ OutboxCrash

OutboxSpec == OutboxInit /\ [][OutboxNext]_outboxVars

----------------------------------------------------------------------------
\* A mail leaves once, and once more at most for each lease that ended during its
\* delivery, each delivery that was not recorded, each retry by hand and each restart.
NoNeedlessMail == \A l \in Letters : sent[l] <= 1 + lapses
=============================================================================
