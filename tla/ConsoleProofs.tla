---------------------------- MODULE ConsoleProofs ----------------------------
(***************************************************************************)
(* Proofs about OperatorConsole, the page of an operator and the server,   *)
(* for every number of phones and of messages on their way: the picture is *)
(* of the phone that is touched, and page and server agree when nothing is *)
(* on its way.                                                             *)
(***************************************************************************)
EXTENDS OperatorConsole, SequenceTheorems, TLAPS

\* What the page, the stage, the messages and the seat can be.
ScreenPages ==
  [view : {"fleet", "detail", "media", "other"}, current : AnyScreen, pending : AnyScreen,
   watched : AnyScreen, asking : AnyScreen, active : BOOLEAN, sid : Nat, retry : BOOLEAN,
   lost : SUBSET Screens]
Stages ==
  [mode : {"idle", "control", "watch"}, id : Nat, frames : BOOLEAN, picture : AnyScreen,
   kept : BOOLEAN]
Requests == [kind : UpKinds, p : AnyScreen]
Reports == [kind : DownKinds, p : Screens, id : Nat]
Errands == [kind : {"none", "select", "watch", "input"}, p : AnyScreen]
Seats == [held : AnyScreen, eye : AnyScreen, stream : AnyScreen, seq : Nat, work : Errands]

ConsoleTyped ==
  /\ page \in ScreenPages /\ stage \in Stages /\ seat \in Seats
  /\ inbound \in Seq(Requests) /\ outbound \in Seq(Reports)
  /\ \A i \in 1..Len(inbound) : inbound[i].kind # "stop" => inbound[i].p \in Screens
  /\ seat.work.kind = "none" => seat.work = AtRest
  /\ seat.work.kind # "none" => seat.work.p \in Screens

\* The server serves a phone that is held or one that is watched, and streams that one.
SeatInv ==
  /\ seat.held # NoScreen => seat.eye = NoScreen
  /\ seat.stream \in {NoScreen, seat.held, seat.eye}
  /\ seat.work.kind = "watch" => seat.eye \in {NoScreen, seat.work.p}

\* The page controls, watches or asks to watch.
PageInv ==
  /\ page.current # NoScreen => page.watched = NoScreen
  /\ page.asking # NoScreen => page.watched = NoScreen

Streamed(m) == m.kind \in {"started", "video"}

\* A number is later than the stream on the stage and those that it will be told of before i.
LaterThan(n, i) ==
  stage.id < n /\ \A k \in 1..(i - 1) : outbound[k].kind = "started" => outbound[k].id < n

\* A stream's number belongs to one phone; behind the picture that follows a claim there is video
\* of that phone only, or of a later stream.
StreamInv ==
  /\ stage.id <= seat.seq /\ (seat.stream # NoScreen => seat.seq > 0)
  /\ \A i \in 1..Len(outbound) : Streamed(outbound[i]) =>
       /\ outbound[i].id \in 1..seat.seq
       /\ outbound[i].id = seat.seq => seat.stream \in {NoScreen, outbound[i].p}
  /\ \A i, j \in 1..Len(outbound) :
       Streamed(outbound[i]) /\ Streamed(outbound[j]) /\ outbound[i].id = outbound[j].id =>
         outbound[i].p = outbound[j].p
  /\ \A i \in 1..Len(outbound) : outbound[i].kind = "frame" =>
       /\ seat.stream \in {NoScreen, outbound[i].p} \/ LaterThan(seat.seq, i)
       /\ \A j \in (i + 1)..Len(outbound) : outbound[j].kind = "video" =>
            outbound[j].p = outbound[i].p \/ LaterThan(outbound[j].id, i)

\* The stream on the stage is of the phone that is controlled, and so is the picture.
PictureInv ==
  page.current # NoScreen =>
    /\ seat.seq = stage.id => seat.stream \in {NoScreen, page.current}
    /\ \A i \in 1..Len(outbound) : outbound[i].kind = "video" /\ outbound[i].id = stage.id
         => outbound[i].p = page.current
    /\ stage.mode = "control" /\ ~stage.kept => stage.picture \in {NoScreen, page.current}

ShowInv == SeatInv /\ PageInv /\ StreamInv /\ PictureInv

\* What the page asked for, and what it gave up without a word to the server.
Wanted == {page.pending} \cup page.lost
Claiming(m) == m.kind = "select"
FirstPicture(m) == m.kind = "frame" /\ m.id = 0

\* A phone that was not given up is asked for once: its claim is on its way, or it is being
\* served, or its picture is on its way.
ClaimInv ==
  /\ \A i \in 1..Len(inbound) : Claiming(inbound[i]) =>
       /\ inbound[i].p \in Wanted
       /\ inbound[i].p \notin page.lost =>
            /\ \A j \in 1..Len(inbound) :
                 Claiming(inbound[j]) /\ inbound[j].p = inbound[i].p => j = i
            /\ seat.work # [kind |-> "select", p |-> inbound[i].p]
            /\ \A j \in 1..Len(outbound) : FirstPicture(outbound[j]) => outbound[j].p # inbound[i].p
  /\ seat.work.kind = "select" =>
       /\ seat.work.p \in Wanted
       /\ seat.work.p \notin page.lost =>
            \A j \in 1..Len(outbound) : FirstPicture(outbound[j]) => outbound[j].p # seat.work.p
  /\ \A i \in 1..Len(outbound) : FirstPicture(outbound[i]) =>
       /\ outbound[i].p \in Wanted
       /\ outbound[i].p \notin page.lost =>
            \A j \in 1..Len(outbound) :
              FirstPicture(outbound[j]) /\ outbound[j].p = outbound[i].p => j = i

\* The phone that was held when a message was sent, if the message tells; or none by now.
HeldAfter(m) ==
  IF m.kind \in {"revoked", "watch_started"} THEN {NoScreen}
  ELSE IF m.kind \in {"frame", "closed_phone"} THEN {NoScreen, m.p} ELSE AnyScreen

\* What is held was held when each message on its way was sent, or is wanted since.
HeldSince == \A i \in 1..Len(outbound) : seat.held \in HeldAfter(outbound[i]) \cup Wanted

\* Behind the picture that follows a claim no message tells that another phone is held.
HeldFirst ==
  \A i \in 1..Len(outbound) : FirstPicture(outbound[i]) /\ outbound[i].p \notin page.lost =>
    \A j \in (i + 1)..Len(outbound) :
      seat.held = outbound[i].p => seat.held \in HeldAfter(outbound[j])

\* What is held is known to the page, or is being released.
HeldKnown ==
  \/ seat.held \in {NoScreen, page.current} \cup Wanted
  \/ \E i \in 1..Len(inbound) : inbound[i] = [kind |-> "release", p |-> seat.held]

HeldInv == ClaimInv /\ HeldSince /\ HeldFirst /\ HeldKnown

\* What a message in either direction says of a phone.
SaysGone(m, p) == m.kind \in {"revoked", "closed_phone"} /\ m.p = p
Tells(m, p) == m.kind \in {"frame", "refused", "failed", "watch_failed", "revoked"} /\ m.p = p
Viewing(m) == m.kind \in {"watch", "unwatch"}
NoViewing == \A i \in 1..Len(inbound) : ~Viewing(inbound[i])
Released == \E i \in 1..Len(inbound) : inbound[i].kind = "release"

\* A phone that is waited for is asked for, being fetched, or told of.
WaitInv ==
  /\ page.pending # NoScreen =>
       \/ \E i \in 1..Len(inbound) : inbound[i] = [kind |-> "select", p |-> page.pending]
       \/ seat.work = [kind |-> "select", p |-> page.pending]
       \/ \E i \in 1..Len(outbound) : Tells(outbound[i], page.pending)
  /\ seat.work.kind = "select" =>
       \/ seat.held = seat.work.p
       \/ \E i \in 1..Len(outbound) : outbound[i].kind = "revoked" /\ outbound[i].p = seat.work.p

\* A release comes after whatever it could undo, and before the next claim.
ReleaseInv ==
  /\ page.current # NoScreen => ~Released
  /\ seat.work.kind = "select" => ~Released
  /\ (\E i \in 1..Len(outbound) : FirstPicture(outbound[i])) => ~Released
  /\ \A i \in 1..Len(inbound) : Claiming(inbound[i]) =>
       \A j \in (i + 1)..Len(inbound) : inbound[j].kind # "release"

\* The phone that is controlled is held, or the page will hear that it is gone.
ControlInv ==
  /\ \A i \in 1..Len(outbound) : FirstPicture(outbound[i]) =>
       \/ seat.held = outbound[i].p
       \/ \E j \in (i + 1)..Len(outbound) : SaysGone(outbound[j], outbound[i].p)
  /\ page.pending = NoScreen =>
       \/ page.current \in {NoScreen, seat.held}
       \/ \E i \in 1..Len(outbound) : SaysGone(outbound[i], page.current)

\* A page that watches holds no phone, and will not hear that one was taken from it.
QuietWatch ==
  /\ page.watched # NoScreen =>
       /\ page.pending = NoScreen /\ page.view # "fleet" /\ seat.held = NoScreen
       /\ \A i \in 1..Len(outbound) : outbound[i].kind # "revoked"
  /\ \A i \in 1..Len(outbound) : outbound[i].kind = "watch_started" =>
       \A j \in (i + 1)..Len(outbound) : outbound[j].kind = "revoked" =>
         page.pending # NoScreen /\ \A k \in 1..(i - 1) : ~FirstPicture(outbound[k])

\* The last word on watching is what the page shows or asks to watch.
LastWord ==
  {page.asking, page.watched} # {NoScreen} =>
    \A i \in 1..Len(inbound) :
      Viewing(inbound[i]) /\ (\A j \in (i + 1)..Len(inbound) : ~Viewing(inbound[j]))
        => inbound[i].kind = "watch" /\ inbound[i].p \in {page.asking, page.watched}

\* The phone that is watched is watched by the seat, or the page will hear that it is not.
WatchInv ==
  NoViewing =>
    /\ page.pending = NoScreen /\ page.asking # NoScreen =>
         \/ \E i \in 1..Len(outbound) : outbound[i].kind = "watch_failed" /\ outbound[i].p = page.asking
         \/ \E i \in 1..Len(outbound) :
              /\ outbound[i].kind = "watch_started" /\ outbound[i].p = page.asking
              /\ \/ seat.eye = page.asking
                 \/ \E j \in (i + 1)..Len(outbound) :
                      outbound[j].kind = "watch_stopped" /\ outbound[j].p = page.asking
    /\ page.watched # NoScreen =>
         \/ seat.eye = page.watched
         \/ \E i \in 1..Len(outbound) :
              outbound[i].kind \in {"watch_failed", "watch_stopped"} /\ outbound[i].p = page.watched

\* What the page shows is held, or a message that says otherwise is on its way; a phone that was
\* given up can be answered after all, so this holds as long as there is none.
ShownParts == WaitInv /\ ReleaseInv /\ ControlInv /\ QuietWatch /\ LastWord /\ WatchInv
ShownInv == page.lost = {} => ShownParts

\* The picture, what is held and what is shown: the page and the server in step.
ConsoleInv == ConsoleTyped /\ ShowInv /\ HeldInv /\ ShownInv

------------------------------------------------------------------------------
(* Queues.                                                                 *)

\* A queue that lost its first d messages, and gained some of M.
Goes(q, r, d, M) ==
  /\ d \in {0, 1} /\ d <= Len(q) /\ Len(q) - d <= Len(r)
  /\ \A i \in 1..(Len(q) - d) : r[i] = q[i + d]
  /\ \A i \in (Len(q) - d + 1)..Len(r) : r[i] \in M

\* A queue that stays as it is.
LEMMA SameQueue ==
  ASSUME NEW S, NEW q \in Seq(S), NEW M
  PROVE  Goes(q, q, 0, M)
BY LenProperties DEF Goes

\* A queue that gains a message at its end.
LEMMA LongerQueue ==
  ASSUME NEW S, NEW q \in Seq(S), NEW m \in S
  PROVE  /\ q \o <<m>> \in Seq(S) /\ Len(q \o <<m>>) = Len(q) + 1
         /\ Goes(q, q \o <<m>>, 0, {m}) /\ (q \o <<m>>)[Len(q) + 1] = m
<1>1. <<m>> \in Seq(S) /\ Len(<<m>>) = 1 /\ <<m>>[1] = m
  OBVIOUS
<1>2. Len(q) \in Nat BY LenProperties
<1>3. /\ q \o <<m>> \in Seq(S) /\ Len(q \o <<m>>) = Len(q) + 1
      /\ \A i \in 1..(Len(q) + 1) :
           (q \o <<m>>)[i] = IF i <= Len(q) THEN q[i] ELSE <<m>>[i - Len(q)]
  BY <1>1, ConcatProperties
<1>4. (q \o <<m>>)[Len(q) + 1] = m
  <2>1. Len(q) + 1 \in 1..(Len(q) + 1) /\ ~(Len(q) + 1 <= Len(q)) /\ Len(q) + 1 - Len(q) = 1
    BY <1>2
  <2> QED BY <1>1, <1>3, <2>1
<1>5. \A i \in 1..Len(q) : (q \o <<m>>)[i] = q[i] BY <1>2, <1>3
<1> DEFINE r == q \o <<m>>
<1>6. Len(r) = Len(q) + 1 /\ r[Len(q) + 1] = m /\ \A i \in 1..Len(q) : r[i] = q[i]
  BY <1>3, <1>4, <1>5
<1> HIDE DEF r
<1>7. Goes(q, r, 0, {m}) BY <1>2, <1>6 DEF Goes
<1> QED BY <1>3, <1>4, <1>7 DEF r

\* A queue that gains two messages at its end.
LEMMA TwoLonger ==
  ASSUME NEW S, NEW q \in Seq(S), NEW a \in S, NEW b \in S
  PROVE  /\ q \o (<<a>> \o <<b>>) \in Seq(S) /\ Len(q \o (<<a>> \o <<b>>)) = Len(q) + 2
         /\ Goes(q, q \o (<<a>> \o <<b>>), 0, {a, b})
         /\ (q \o (<<a>> \o <<b>>))[Len(q) + 1] = a /\ (q \o (<<a>> \o <<b>>))[Len(q) + 2] = b
<1> DEFINE t == <<a>> \o <<b>>
           r == q \o t
<1>1. <<a>> \in Seq(S) /\ Len(<<a>>) = 1 /\ <<a>>[1] = a
  OBVIOUS
<1>2. t \in Seq(S) /\ Len(t) = 2 /\ t[2] = b /\ \A i \in 1..1 : t[i] = <<a>>[i]
  BY <1>1, LongerQueue DEF Goes
<1>3. t[1] = a BY <1>1, <1>2
<1>4. Len(q) \in Nat BY LenProperties
<1> HIDE DEF t
<1>5. /\ r \in Seq(S) /\ Len(r) = Len(q) + 2
      /\ \A i \in 1..(Len(q) + 2) : r[i] = IF i <= Len(q) THEN q[i] ELSE t[i - Len(q)]
  <2>1. t \in Seq(S) /\ Len(t) = 2 BY <1>2
  <2>2. /\ r \in Seq(S) /\ Len(r) = Len(q) + Len(t)
        /\ \A i \in 1..(Len(q) + Len(t)) : r[i] = IF i <= Len(q) THEN q[i] ELSE t[i - Len(q)]
    BY <2>1, ConcatProperties
  <2> QED BY <2>1, <2>2
<1> HIDE DEF r
<1>6. r[Len(q) + 1] = a /\ r[Len(q) + 2] = b
  <2>1. /\ Len(q) + 1 \in 1..(Len(q) + 2) /\ Len(q) + 2 \in 1..(Len(q) + 2)
        /\ ~(Len(q) + 1 <= Len(q)) /\ Len(q) + 1 - Len(q) = 1
        /\ ~(Len(q) + 2 <= Len(q)) /\ Len(q) + 2 - Len(q) = 2
    BY <1>4
  <2> QED BY <1>2, <1>3, <1>5, <2>1
<1>7. \A i \in 1..Len(q) : r[i] = q[i] BY <1>4, <1>5
<1>8. Goes(q, r, 0, {a, b})
  <2>1. \A i \in (Len(q) + 1)..(Len(q) + 2) : i = Len(q) + 1 \/ i = Len(q) + 2 BY <1>4
  <2>2. \A i \in (Len(q) + 1)..(Len(q) + 2) : r[i] \in {a, b} BY <1>6, <2>1
  <2> QED BY <1>4, <1>5, <1>7, <2>2 DEF Goes
<1> QED BY <1>5, <1>6, <1>8 DEF r, t

\* A queue that loses its first message.
LEMMA ShorterQueue ==
  ASSUME NEW S, NEW q \in Seq(S), q # <<>>
  PROVE  /\ Tail(q) \in Seq(S) /\ Head(q) = q[1] /\ Len(q) \in Nat \ {0}
         /\ Len(Tail(q)) = Len(q) - 1 /\ Goes(q, Tail(q), 1, {})
<1>1. /\ Tail(q) \in Seq(S) /\ Len(Tail(q)) = Len(q) - 1
      /\ \A i \in 1..Len(Tail(q)) : Tail(q)[i] = q[i + 1]
  BY HeadTailProperties
<1>2. Len(q) \in Nat \ {0} BY EmptySeq
<1>3. Head(q) = q[1] OBVIOUS
<1> QED BY <1>1, <1>2, <1>3 DEF Goes

\* A message of a queue was in it, or is new; one that was not taken is still in it.
LEMMA OldOrNew ==
  ASSUME NEW S, NEW q \in Seq(S), NEW r \in Seq(S), NEW d, NEW M, Goes(q, r, d, M)
  PROVE  /\ d \in {0, 1} /\ Len(q) \in Nat /\ Len(r) \in Nat
         /\ \A i \in 1..Len(r) :
              \/ i <= Len(q) - d /\ i + d \in 1..Len(q) /\ r[i] = q[i + d]
              \/ i > Len(q) - d /\ r[i] \in M
         /\ \A i \in 1..Len(q) : i > d => i - d \in 1..Len(r) /\ r[i - d] = q[i]
<1>1. Len(q) \in Nat /\ Len(r) \in Nat BY LenProperties
<1>2. /\ d \in {0, 1} /\ d <= Len(q) /\ Len(q) - d <= Len(r)
      /\ \A i \in 1..(Len(q) - d) : r[i] = q[i + d]
      /\ \A i \in (Len(q) - d + 1)..Len(r) : r[i] \in M
  BY DEF Goes
<1>3. \A i \in 1..Len(r) :
        \/ i <= Len(q) - d /\ i + d \in 1..Len(q) /\ r[i] = q[i + d]
        \/ i > Len(q) - d /\ r[i] \in M
  BY <1>1, <1>2
<1>4. ASSUME NEW i \in 1..Len(q), i > d PROVE i - d \in 1..Len(r) /\ r[i - d] = q[i]
  <2>1. i - d \in 1..(Len(q) - d) /\ i - d \in 1..Len(r) /\ (i - d) + d = i BY <1>1, <1>2, <1>4
  <2>2. r[i - d] = q[(i - d) + d] BY <1>2, <2>1
  <2> QED BY <2>1, <2>2
<1> QED BY <1>1, <1>2, <1>3, <1>4

\* What is in a queue after d messages were taken and others, of M, were added.
Follows(q, r, d, M) ==
  /\ d \in {0, 1} /\ Len(q) \in Nat /\ Len(r) \in Nat
  /\ \A i \in 1..Len(r) :
       \/ i <= Len(q) - d /\ i + d \in 1..Len(q) /\ r[i] = q[i + d]
       \/ i > Len(q) - d /\ r[i] \in M
  /\ \A i \in 1..Len(q) : i > d => i - d \in 1..Len(r) /\ r[i - d] = q[i]

\* A queue that goes on is followed message by message.
LEMMA FollowsLemma ==
  ASSUME NEW S, NEW q, NEW r, q \in Seq(S), r \in Seq(S), NEW d, NEW M, Goes(q, r, d, M)
  PROVE  Follows(q, r, d, M)
BY OldOrNew DEF Follows

------------------------------------------------------------------------------
(* What is said, heard, served and answered.                               *)

\* What the page says is sent when there is a connection, and is lost otherwise.
LEMMA SaysLemma ==
  ASSUME ConsoleTyped, NEW kind \in UpKinds, NEW p \in AnyScreen, Says(ToServer(kind, p)),
         kind # "stop" => p \in Screens
  PROVE  /\ inbound' \in Seq(Requests)
         /\ \A i \in 1..Len(inbound') : inbound'[i].kind # "stop" => inbound'[i].p \in Screens
         /\ Goes(inbound, inbound', 0, {[kind |-> kind, p |-> p]})
         /\ online => /\ Len(inbound') = Len(inbound) + 1
                      /\ inbound'[Len(inbound) + 1] = [kind |-> kind, p |-> p]
         /\ ~online => inbound' = inbound
<1> DEFINE m == [kind |-> kind, p |-> p]
<1>1. m \in Requests /\ ToServer(kind, p) = <<m>> /\ m.kind = kind /\ m.p = p
  BY DEF Requests, ToServer
<1>2. /\ inbound \in Seq(Requests)
      /\ \A i \in 1..Len(inbound) : inbound[i].kind # "stop" => inbound[i].p \in Screens
  BY DEF ConsoleTyped
<1> HIDE DEF m
<1>3. CASE online
  <2>1. inbound' = inbound \o <<m>> BY <1>1, <1>3 DEF Says
  <2>2. /\ inbound' \in Seq(Requests) /\ Len(inbound') = Len(inbound) + 1
        /\ Goes(inbound, inbound', 0, {m}) /\ inbound'[Len(inbound) + 1] = m
    BY <1>1, <1>2, <2>1, LongerQueue
  <2>3. \A i \in 1..Len(inbound') : \/ i \in 1..Len(inbound) /\ inbound'[i] = inbound[i]
                                    \/ inbound'[i] = m
    BY <1>2, <2>2, OldOrNew
  <2>4. \A i \in 1..Len(inbound') : inbound'[i].kind # "stop" => inbound'[i].p \in Screens
    BY <1>1, <1>2, <2>3
  <2> QED BY <1>3, <2>2, <2>4 DEF m
<1>4. CASE ~online
  <2>1. inbound' = inbound BY <1>4 DEF Says
  <2> QED BY <1>2, <1>4, <2>1, SameQueue
<1> QED BY <1>3, <1>4

\* A page that says nothing.
LEMMA SaysNothing ==
  ASSUME ConsoleTyped, Says(<<>>)
  PROVE  inbound' = inbound
BY ConcatEmptySeq DEF ConsoleTyped, Says

\* What the messages on their way are.
LEMMA MessagesLemma ==
  ASSUME ConsoleTyped
  PROVE  /\ Len(inbound) \in Nat /\ Len(outbound) \in Nat
         /\ \A i \in 1..Len(inbound) : inbound[i] \in Requests
         /\ \A i \in 1..Len(outbound) :
              /\ outbound[i] \in Reports /\ outbound[i].kind \in DownKinds
              /\ outbound[i].p \in Screens /\ outbound[i].id \in Nat
<1>1. inbound \in Seq(Requests) /\ outbound \in Seq(Reports) BY DEF ConsoleTyped
<1>2. /\ Len(inbound) \in Nat /\ Len(outbound) \in Nat
      /\ \A i \in 1..Len(inbound) : inbound[i] \in Requests
      /\ \A i \in 1..Len(outbound) : outbound[i] \in Reports
  BY <1>1, LenProperties
<1> QED BY <1>2 DEF Reports

\* The page hears the first message on its way.
LEMMA HearsLemma ==
  ASSUME ConsoleTyped, NEW kind, Hears(kind)
  PROVE  /\ Len(outbound) \in Nat \ {0} /\ Heard = outbound[1] /\ Heard \in Reports
         /\ Heard.kind = kind /\ Heard.p \in Screens /\ Heard.id \in Nat
         /\ outbound' \in Seq(Reports) /\ Len(outbound') = Len(outbound) - 1
         /\ Goes(outbound, outbound', 1, {}) /\ seat' = seat /\ online' = online
<1>1. outbound \in Seq(Reports) /\ outbound # <<>> /\ outbound' = Tail(outbound)
  BY DEF ConsoleTyped, Hears
<1>2. /\ Len(outbound) \in Nat \ {0} /\ Heard = outbound[1]
      /\ outbound' \in Seq(Reports) /\ Len(outbound') = Len(outbound) - 1
      /\ Goes(outbound, outbound', 1, {})
  BY <1>1, ShorterQueue DEF Heard
<1>3. 1 \in 1..Len(outbound) BY <1>2
<1>4. Heard \in Reports /\ Heard.p \in Screens /\ Heard.id \in Nat BY <1>2, <1>3, MessagesLemma
<1> QED BY <1>2, <1>4 DEF Hears

\* The server serves the first request, when it is at rest, and leaves the page alone.
LEMMA ServesLemma ==
  ASSUME ConsoleTyped, NEW kind, Serves(kind)
  PROVE  /\ Len(inbound) \in Nat \ {0} /\ Asked = inbound[1] /\ Asked \in Requests
         /\ Asked.kind = kind /\ (kind # "stop" => Asked.p \in Screens)
         /\ inbound' \in Seq(Requests) /\ Len(inbound') = Len(inbound) - 1
         /\ \A i \in 1..Len(inbound') : inbound'[i].kind # "stop" => inbound'[i].p \in Screens
         /\ Goes(inbound, inbound', 1, {})
         /\ page' = page /\ stage' = stage /\ seat.work = AtRest /\ seat.work.kind = "none"
<1>1. /\ inbound \in Seq(Requests) /\ inbound # <<>> /\ inbound' = Tail(inbound)
      /\ \A i \in 1..Len(inbound) : inbound[i].kind # "stop" => inbound[i].p \in Screens
  BY DEF ConsoleTyped, Serves
<1>2. /\ Len(inbound) \in Nat \ {0} /\ Asked = inbound[1]
      /\ inbound' \in Seq(Requests) /\ Len(inbound') = Len(inbound) - 1
      /\ Goes(inbound, inbound', 1, {})
  BY <1>1, ShorterQueue DEF Asked
<1>3. 1 \in 1..Len(inbound) BY <1>2
<1>4. Asked \in Requests BY <1>2, <1>3, MessagesLemma
<1>5. Asked.kind = kind BY DEF Serves
<1>6. kind # "stop" => Asked.p \in Screens BY <1>1, <1>2, <1>3, <1>5
<1>7. \A i \in 1..Len(inbound') : i + 1 \in 1..Len(inbound) /\ inbound'[i] = inbound[i + 1]
  BY <1>2 DEF Goes
<1>8. \A i \in 1..Len(inbound') : inbound'[i].kind # "stop" => inbound'[i].p \in Screens
  BY <1>1, <1>7
<1> QED BY <1>2, <1>4, <1>5, <1>6, <1>8 DEF Serves, AtRest

\* An answer goes to the end of what is on its way to the page.
LEMMA AnswersLemma ==
  ASSUME ConsoleTyped, NEW m \in Reports, Answers(<<m>>)
  PROVE  /\ outbound' \in Seq(Reports) /\ Len(outbound') = Len(outbound) + 1
         /\ Goes(outbound, outbound', 0, {m}) /\ outbound'[Len(outbound) + 1] = m
BY ZenonT(60), LongerQueue DEF ConsoleTyped, Answers

------------------------------------------------------------------------------
(* What each step does to what is read.                                    *)

\* What a page and a seat read, part by part.
Reads(pg, view, current, pending, watched, asking, lost) ==
  /\ pg.view = view /\ pg.current = current /\ pg.pending = pending
  /\ pg.watched = watched /\ pg.asking = asking /\ pg.lost = lost
SeatReads(st, grip, eye, stream, seq, work) ==
  /\ st.held = grip /\ st.eye = eye /\ st.stream = stream /\ st.seq = seq /\ st.work = work
Unmoved(pg) ==
  Reads(page', pg.view, pg.current, pg.pending, pg.watched, pg.asking, pg.lost)

\* What the page becomes.
LEMMA PageLemma ==
  ASSUME NEW pg \in ScreenPages
  PROVE  /\ Quiet(pg) \in ScreenPages
         /\ Reads(Quiet(pg), pg.view, pg.current, pg.pending, pg.watched, pg.asking, pg.lost)
         /\ Fleet(pg) \in ScreenPages
         /\ Reads(Fleet(pg), "fleet", pg.current, pg.pending, pg.watched, pg.asking, pg.lost)
         /\ Deselected(pg) \in ScreenPages
         /\ Reads(Deselected(pg), "fleet", NoScreen, NoScreen, pg.watched, pg.asking, pg.lost)
         /\ Unwatched(pg) \in ScreenPages
         /\ Reads(Unwatched(pg), "fleet", pg.current, pg.pending, NoScreen, NoScreen, pg.lost)
<1>1. /\ Quiet(pg) \in ScreenPages
      /\ Reads(Quiet(pg), pg.view, pg.current, pg.pending, pg.watched, pg.asking, pg.lost)
  BY DEF Quiet, ScreenPages, Reads
<1>2. /\ Fleet(pg) \in ScreenPages
      /\ Reads(Fleet(pg), "fleet", pg.current, pg.pending, pg.watched, pg.asking, pg.lost)
  BY DEF Fleet, ScreenPages, Reads
<1>3. /\ Deselected(pg) \in ScreenPages
      /\ Reads(Deselected(pg), "fleet", NoScreen, NoScreen, pg.watched, pg.asking, pg.lost)
  BY <1>1 DEF Deselected, ScreenPages, Reads, AnyScreen
<1>4. /\ Unwatched(pg) \in ScreenPages
      /\ Reads(Unwatched(pg), "fleet", pg.current, pg.pending, NoScreen, NoScreen, pg.lost)
  BY <1>1 DEF Unwatched, ScreenPages, Reads, AnyScreen
<1> QED BY <1>1, <1>2, <1>3, <1>4

\* A page that gave up some phones.
LEMMA LostLemma ==
  ASSUME NEW pg \in ScreenPages, NEW lost \in SUBSET Screens
  PROVE  /\ [pg EXCEPT !.lost = lost] \in ScreenPages
         /\ Reads([pg EXCEPT !.lost = lost], pg.view, pg.current, pg.pending, pg.watched,
                  pg.asking, lost)
BY DEF ScreenPages, Reads

\* What the page waits for can be given up.
LEMMA GivesUpLemma ==
  ASSUME ConsoleTyped
  PROVE  /\ page \in ScreenPages /\ page.lost \in SUBSET Screens
         /\ page.view \in {"fleet", "detail", "media", "other"}
         /\ page.current \in AnyScreen /\ page.pending \in AnyScreen
         /\ page.watched \in AnyScreen /\ page.asking \in AnyScreen
         /\ \A p \in AnyScreen : GivesUp(p) \in SUBSET Screens
BY DEF ConsoleTyped, ScreenPages, GivesUp, AnyScreen

\* The stage when it shows nothing, and when it shows a picture.
LEMMA StageLemma ==
  /\ BlankStage \in Stages /\ BlankStage.mode = "idle" /\ BlankStage.id = 0
  /\ \A st \in Stages : \A p \in AnyScreen :
       /\ Pictured(st, p) \in Stages /\ Pictured(st, p).mode = st.mode
       /\ Pictured(st, p).id = st.id /\ Pictured(st, p).picture = p /\ Pictured(st, p).kept = FALSE
BY ZenonT(30) DEF BlankStage, Stages, Pictured, AnyScreen

\* A step of the operator.
Untold == outbound' = outbound /\ seat' = seat /\ online' = online

\* What is typed stays so when the page is and what it says is.
LEMMA UntoldTyped ==
  ASSUME ConsoleTyped, Untold, page' \in ScreenPages, stage' \in Stages,
         inbound' \in Seq(Requests),
         \A i \in 1..Len(inbound') : inbound'[i].kind # "stop" => inbound'[i].p \in Screens
  PROVE  ConsoleTyped'
BY DEF ConsoleTyped, Untold

\* Opening a phone asks for it, and gives up the phone that was asked for before.
LEMMA OpensPhoneFacts ==
  ASSUME ConsoleTyped, NEW p \in Screens, OpensPhone(p)
  PROVE  /\ ConsoleTyped' /\ Untold /\ stage' = stage /\ page.view = "fleet"
         /\ Says(ToServer("select", p))
         /\ Reads(page', "detail", page.current, IF online THEN p ELSE NoScreen, page.watched,
                  page.asking, GivesUp(page.pending))
<1>1. /\ Says(ToServer("select", p)) /\ stage' = stage /\ page.view = "fleet" /\ Untold
      /\ page' = [page EXCEPT !.view = "detail", !.pending = IF online THEN p ELSE NoScreen,
                              !.lost = GivesUp(page.pending)]
  BY DEF OpensPhone, Clicks, Untold
<1>2. /\ inbound' \in Seq(Requests)
      /\ \A i \in 1..Len(inbound') : inbound'[i].kind # "stop" => inbound'[i].p \in Screens
  BY <1>1, SaysLemma DEF UpKinds, AnyScreen
<1>3. (IF online THEN p ELSE NoScreen) \in AnyScreen BY DEF AnyScreen
<1>4. page \in ScreenPages /\ GivesUp(page.pending) \in SUBSET Screens BY GivesUpLemma
<1>5. /\ page' \in ScreenPages
      /\ Reads(page', "detail", page.current, IF online THEN p ELSE NoScreen, page.watched,
               page.asking, GivesUp(page.pending))
  BY <1>1, <1>3, <1>4 DEF ScreenPages, Reads
<1>6. stage' \in Stages BY <1>1 DEF ConsoleTyped
<1> QED BY <1>1, <1>2, <1>5, <1>6, UntoldTyped

\* Asking to watch a phone ends what was watched.
LEMMA AsksToWatchFacts ==
  ASSUME ConsoleTyped, NEW p \in Screens, AsksToWatch(p)
  PROVE  /\ ConsoleTyped' /\ Untold /\ stage' = stage /\ page.view = "fleet"
         /\ Says(ToServer("watch", p))
         /\ Reads(page', "detail", page.current, page.pending, NoScreen,
                  IF online THEN p ELSE NoScreen, page.lost)
<1>1. /\ Says(ToServer("watch", p)) /\ stage' = stage /\ page.view = "fleet" /\ Untold
      /\ page' = [page EXCEPT !.view = "detail", !.asking = IF online THEN p ELSE NoScreen,
                              !.watched = NoScreen]
  BY DEF AsksToWatch, Clicks, Untold
<1>2. /\ inbound' \in Seq(Requests)
      /\ \A i \in 1..Len(inbound') : inbound'[i].kind # "stop" => inbound'[i].p \in Screens
  BY <1>1, SaysLemma DEF UpKinds, AnyScreen
<1>3. (IF online THEN p ELSE NoScreen) \in AnyScreen BY DEF AnyScreen
<1>4. page \in ScreenPages BY GivesUpLemma
<1>5. /\ page' \in ScreenPages
      /\ Reads(page', "detail", page.current, page.pending, NoScreen,
               IF online THEN p ELSE NoScreen, page.lost)
  BY <1>1, <1>3, <1>4 DEF ScreenPages, Reads, AnyScreen
<1>6. stage' \in Stages BY <1>1 DEF ConsoleTyped
<1> QED BY <1>1, <1>2, <1>5, <1>6, UntoldTyped

\* Opening the media forgets what was asked for.
LEMMA OpensMediaFacts ==
  ASSUME ConsoleTyped, OpensMedia
  PROVE  /\ ConsoleTyped' /\ Untold /\ stage' = stage /\ inbound' = inbound /\ page.view = "fleet"
         /\ Reads(page', "media", page.current, NoScreen, page.watched, NoScreen,
                  GivesUp(page.pending))
<1>1. /\ stage' = stage /\ inbound' = inbound /\ page.view = "fleet" /\ Untold
      /\ page' = [page EXCEPT !.view = "media", !.pending = NoScreen, !.asking = NoScreen,
                              !.lost = GivesUp(page.pending)]
  BY DEF OpensMedia, Clicks, Untold
<1>2. page \in ScreenPages /\ GivesUp(page.pending) \in SUBSET Screens BY GivesUpLemma
<1>3. /\ page' \in ScreenPages
      /\ Reads(page', "media", page.current, NoScreen, page.watched, NoScreen,
               GivesUp(page.pending))
  BY <1>1, <1>2 DEF ScreenPages, Reads, AnyScreen
<1>4. stage' \in Stages /\ inbound' \in Seq(Requests)
      /\ \A i \in 1..Len(inbound') : inbound'[i].kind # "stop" => inbound'[i].p \in Screens
  BY <1>1 DEF ConsoleTyped
<1> QED BY <1>1, <1>3, <1>4, UntoldTyped

\* Leaving a page ends watching; nothing else is given up.
LEMMA LeavesFacts ==
  ASSUME ConsoleTyped, NEW view \in {"fleet", "other"}, Leaves(view)
  PROVE  /\ ConsoleTyped' /\ Untold /\ page.view # "fleet"
         /\ \/ /\ Watching /\ stage' = BlankStage
               /\ Reads(page', view, page.current, page.pending, NoScreen, NoScreen, page.lost)
               /\ \E p \in {page.watched, page.asking} \cap Screens : Says(ToServer("unwatch", p))
            \/ /\ ~Watching /\ stage' = stage
               /\ Reads(page', view, page.current, page.pending, page.watched, page.asking, page.lost)
               /\ inbound' = inbound \/ Says(ToServer("stop", NoScreen))
<1>1. Untold /\ page.view # "fleet" BY DEF Leaves, Clicks, Untold
<1>2. page \in ScreenPages /\ stage \in Stages BY DEF ConsoleTyped
<1>3. CASE Watching
  <2> DEFINE p == IF page.watched # NoScreen THEN page.watched ELSE page.asking
  <2>1. /\ page' = [Unwatched(page) EXCEPT !.view = view] /\ stage' = BlankStage
        /\ Says(ToServer("unwatch", p))
    BY <1>3 DEF Leaves
  <2>2. p \in {page.watched, page.asking} \cap Screens
    BY <1>3, GivesUpLemma DEF Watching, AnyScreen
  <2> HIDE DEF p
  <2>3. /\ page' \in ScreenPages
        /\ Reads(page', view, page.current, page.pending, NoScreen, NoScreen, page.lost)
    <3>1. /\ Unwatched(page) \in ScreenPages
          /\ Reads(Unwatched(page), "fleet", page.current, page.pending, NoScreen, NoScreen, page.lost)
      BY <1>2, PageLemma
    <3> QED BY <2>1, <3>1 DEF ScreenPages, Reads
  <2>4. /\ inbound' \in Seq(Requests)
        /\ \A i \in 1..Len(inbound') : inbound'[i].kind # "stop" => inbound'[i].p \in Screens
    BY <2>1, <2>2, SaysLemma DEF UpKinds, AnyScreen
  <2>5. ConsoleTyped' BY <1>1, <2>1, <2>3, <2>4, UntoldTyped, StageLemma
  <2> QED BY <1>1, <1>3, <2>1, <2>2, <2>3, <2>5
<1>4. CASE ~Watching
  <2>1. /\ stage' = stage
        /\ \/ page' = Fleet(page) /\ Says(StopIfActive(page)) /\ view = "fleet"
           \/ page' = [page EXCEPT !.view = view] /\ inbound' = inbound
    BY <1>4 DEF Leaves
  <2>2. /\ page' \in ScreenPages
        /\ Reads(page', view, page.current, page.pending, page.watched, page.asking, page.lost)
    BY <1>2, <2>1, PageLemma DEF ScreenPages, Reads
  <2>3. inbound' = inbound \/ Says(ToServer("stop", NoScreen))
    BY <2>1, SaysNothing DEF StopIfActive
  <2>4. /\ inbound' \in Seq(Requests)
        /\ \A i \in 1..Len(inbound') : inbound'[i].kind # "stop" => inbound'[i].p \in Screens
    BY <2>3, SaysLemma DEF UpKinds, AnyScreen, ConsoleTyped
  <2>5. ConsoleTyped' BY <1>1, <1>2, <2>1, <2>2, <2>4, UntoldTyped
  <2> QED BY <1>1, <1>4, <2>1, <2>2, <2>3, <2>5
<1> QED BY <1>3, <1>4

\* Releasing the phone says so to the server and clears the stage.
LEMMA ReleasesFacts ==
  ASSUME ConsoleTyped, Releases
  PROVE  /\ ConsoleTyped' /\ Untold /\ stage' = BlankStage
         /\ page.current \in Screens /\ online /\ Says(ToServer("release", page.current))
         /\ Reads(page', "fleet", NoScreen, NoScreen, page.watched, page.asking,
                  GivesUp(page.pending))
<1>1. /\ Untold /\ stage' = BlankStage /\ page.current # NoScreen /\ online
      /\ Says(ToServer("release", page.current))
      /\ page' = [Deselected(page) EXCEPT !.lost = GivesUp(page.pending)]
  BY DEF Releases, Clicks, Untold
<1>2. page \in ScreenPages /\ GivesUp(page.pending) \in SUBSET Screens /\ page.current \in Screens
  BY <1>1, GivesUpLemma DEF AnyScreen
<1>3. /\ Deselected(page) \in ScreenPages
      /\ Reads(Deselected(page), "fleet", NoScreen, NoScreen, page.watched, page.asking, page.lost)
  BY <1>2, PageLemma
<1>4. /\ page' \in ScreenPages
      /\ Reads(page', "fleet", NoScreen, NoScreen, page.watched, page.asking, GivesUp(page.pending))
  BY <1>1, <1>2, <1>3, LostLemma DEF Reads
<1>5. /\ inbound' \in Seq(Requests)
      /\ \A i \in 1..Len(inbound') : inbound'[i].kind # "stop" => inbound'[i].p \in Screens
  BY <1>1, <1>2, SaysLemma DEF UpKinds, AnyScreen
<1> QED BY <1>1, <1>2, <1>4, <1>5, UntoldTyped, StageLemma

\* An input, and the next attempt at a video, leave what is read as it is.
LEMMA TouchesFacts ==
  ASSUME ConsoleTyped, Touches \/ RetriesVideo
  PROVE  /\ ConsoleTyped' /\ Untold /\ stage' = stage /\ Unmoved(page)
         /\ \/ inbound' = inbound
            \/ \E kind \in {"input", "start"}, p \in Screens : Says(ToServer(kind, p))
<1>1. page \in ScreenPages /\ stage \in Stages BY DEF ConsoleTyped
<1>2. CASE Touches
  <2>1. /\ Untold /\ page' = page /\ stage' = stage /\ page.current # NoScreen
        /\ Says(ToServer("input", page.current))
    BY <1>2 DEF Touches, Clicks, Untold, MayInput
  <2>2. page.current \in Screens BY <2>1, GivesUpLemma DEF AnyScreen
  <2>3. /\ inbound' \in Seq(Requests)
        /\ \A i \in 1..Len(inbound') : inbound'[i].kind # "stop" => inbound'[i].p \in Screens
    BY <2>1, <2>2, SaysLemma DEF UpKinds, AnyScreen
  <2> QED BY <1>1, <2>1, <2>2, <2>3, UntoldTyped DEF Unmoved, Reads
<1>3. CASE RetriesVideo
  <2>1. /\ Untold /\ stage' = stage /\ page' = [page EXCEPT !.retry = FALSE]
        /\ Says(IF OnScreen(page) # NoScreen THEN ToServer("start", OnScreen(page)) ELSE <<>>)
    BY <1>3 DEF RetriesVideo, Untold
  <2>2. page' \in ScreenPages /\ Unmoved(page) BY <1>1, <2>1 DEF ScreenPages, Unmoved, Reads
  <2>3. CASE OnScreen(page) = NoScreen
    <3>1. inbound' = inbound BY <2>1, <2>3, SaysNothing
    <3>2. /\ inbound' \in Seq(Requests)
          /\ \A i \in 1..Len(inbound') : inbound'[i].kind # "stop" => inbound'[i].p \in Screens
      BY <3>1 DEF ConsoleTyped
    <3> QED BY <1>1, <2>1, <2>2, <3>1, <3>2, UntoldTyped
  <2>4. CASE OnScreen(page) # NoScreen
    <3>1. OnScreen(page) \in Screens BY <2>4, GivesUpLemma DEF OnScreen, AnyScreen
    <3>2. Says(ToServer("start", OnScreen(page))) BY <2>1, <2>4
    <3>3. /\ inbound' \in Seq(Requests)
          /\ \A i \in 1..Len(inbound') : inbound'[i].kind # "stop" => inbound'[i].p \in Screens
      BY <3>1, <3>2, SaysLemma DEF UpKinds, AnyScreen
    <3> QED BY <1>1, <2>1, <2>2, <3>1, <3>2, <3>3, UntoldTyped
  <2> QED BY <2>3, <2>4
<1> QED BY <1>2, <1>3

\* The requests on their way are typed.
InboundTyped ==
  /\ inbound \in Seq(Requests)
  /\ \A i \in 1..Len(inbound) : inbound[i].kind # "stop" => inbound[i].p \in Screens

\* They stay so when the page says something about a phone, or nothing.
LEMMA InboundLemma ==
  ASSUME ConsoleTyped,
         \/ inbound' = inbound
         \/ Says(ToServer("stop", NoScreen))
         \/ \E p \in Screens : Says(ToServer("start", p))
  PROVE  InboundTyped'
<1>1. InboundTyped BY DEF ConsoleTyped, InboundTyped
<1>2. CASE inbound' = inbound BY <1>1, <1>2 DEF InboundTyped
<1>3. CASE Says(ToServer("stop", NoScreen))
  BY <1>3, SaysLemma DEF InboundTyped, UpKinds, AnyScreen
<1>4. ASSUME NEW p \in Screens, Says(ToServer("start", p)) PROVE InboundTyped'
  BY <1>4, SaysLemma DEF InboundTyped, UpKinds, AnyScreen
<1> QED BY <1>2, <1>3, <1>4

\* What is typed stays so when the page hears a message.
LEMMA HeardTyped ==
  ASSUME ConsoleTyped, NEW kind, Hears(kind), page' \in ScreenPages, stage' \in Stages,
         InboundTyped'
  PROVE  ConsoleTyped'
<1>1. outbound' \in Seq(Reports) /\ seat' = seat BY HearsLemma
<1> QED BY <1>1 DEF ConsoleTyped, InboundTyped

\* A message that changes nothing but what is on its way.
LEMMA HeardNothing ==
  ASSUME ConsoleTyped, NEW kind, Hears(kind), page' = page, stage' = stage, inbound' = inbound
  PROVE  ConsoleTyped' /\ Unmoved(page)
<1>1. InboundTyped' BY InboundLemma
<1>2. page' \in ScreenPages /\ stage' \in Stages BY DEF ConsoleTyped
<1> QED BY <1>1, <1>2, HeardTyped DEF Unmoved, Reads

\* A picture of the phone that was asked for gives control of it; any other is shown at most.
LEMMA HearsFrameFacts ==
  ASSUME ConsoleTyped, HearsFrame
  PROVE  /\ ConsoleTyped' /\ Hears("frame") /\ Heard.p \in Screens /\ stage'.id = stage.id
         /\ \/ /\ Heard.p = page.pending
               /\ Reads(page', page.view, Heard.p, NoScreen, NoScreen, NoScreen,
                        IF Heard.id = 0 THEN page.lost ELSE GivesUp(Heard.p))
               /\ ~stage'.kept => stage'.picture = Heard.p
               /\ inbound' = inbound \/ Says(ToServer("start", Heard.p))
            \/ /\ Heard.p # page.pending /\ inbound' = inbound /\ Unmoved(page)
               /\ stage' = stage \/ (stage'.picture = Heard.p /\ Heard.p = page.current)
<1>1. Hears("frame") /\ Heard.p \in Screens BY HearsLemma DEF HearsFrame
<1>2. /\ page \in ScreenPages /\ stage \in Stages /\ page.lost \in SUBSET Screens
      /\ Heard.p \in AnyScreen /\ GivesUp(Heard.p) \in SUBSET Screens
  BY <1>1, GivesUpLemma DEF ConsoleTyped, AnyScreen
<1>3. CASE Heard.p = page.pending
  <2>1. /\ page' = [Confirmed(Heard.p) EXCEPT !.lost = IF Heard.id = 0 THEN @ ELSE GivesUp(Heard.p)]
        /\ stage' = [IF Dropped THEN [stage EXCEPT !.kept = stage.picture # Heard.p]
                     ELSE Pictured(stage, Heard.p) EXCEPT !.mode = "control"]
        /\ Says(IF Viewed THEN ToServer("start", Heard.p) ELSE <<>>)
    BY <1>3 DEF HearsFrame
  <2>2. /\ Confirmed(Heard.p) \in ScreenPages
        /\ Reads(Confirmed(Heard.p), page.view, Heard.p, NoScreen, NoScreen, NoScreen, page.lost)
    BY <1>2 DEF Confirmed, ScreenPages, Reads, AnyScreen, Viewed
  <2>3. /\ page' \in ScreenPages
        /\ Reads(page', page.view, Heard.p, NoScreen, NoScreen, NoScreen,
                 IF Heard.id = 0 THEN page.lost ELSE GivesUp(Heard.p))
    <3>1. /\ page' = [Confirmed(Heard.p) EXCEPT
                        !.lost = IF Heard.id = 0 THEN page.lost ELSE GivesUp(Heard.p)]
          /\ (IF Heard.id = 0 THEN page.lost ELSE GivesUp(Heard.p)) \in SUBSET Screens
      BY <1>2, <2>1, <2>2 DEF Reads
    <3> QED BY <2>2, <3>1, LostLemma DEF Reads
  <2>4. stage' \in Stages /\ stage'.id = stage.id /\ (~stage'.kept => stage'.picture = Heard.p)
    <3>1. CASE Dropped
      <4>1. stage' = [[stage EXCEPT !.kept = stage.picture # Heard.p] EXCEPT !.mode = "control"]
        BY <2>1, <3>1
      <4> QED BY <1>2, <4>1 DEF Stages
    <3>2. CASE ~Dropped
      <4>1. stage' = [Pictured(stage, Heard.p) EXCEPT !.mode = "control"] BY <2>1, <3>2
      <4> QED BY <1>2, <4>1 DEF Stages, Pictured
    <3> QED BY <3>1, <3>2
  <2>5. inbound' = inbound \/ Says(ToServer("start", Heard.p)) BY <2>1, SaysNothing
  <2>6. InboundTyped' BY <1>1, <2>5, InboundLemma
  <2>7. ConsoleTyped' BY <1>1, <2>3, <2>4, <2>6, HeardTyped
  <2> QED BY <1>1, <1>3, <2>3, <2>4, <2>5, <2>7
<1>4. CASE Heard.p # page.pending
  <2>1. /\ page' = page /\ inbound' = inbound
        /\ \/ stage' = stage
           \/ stage' = Pictured(stage, Heard.p) /\ Heard.p = page.current
    BY <1>4 DEF HearsFrame
  <2>2. stage' \in Stages /\ stage'.id = stage.id
        /\ (stage' = stage \/ (stage'.picture = Heard.p /\ Heard.p = page.current))
    BY <1>2, <2>1, StageLemma
  <2>3. ConsoleTyped' BY <1>1, <1>2, <2>1, <2>2, HeardTyped, InboundLemma
  <2> QED BY <1>1, <1>4, <2>1, <2>2, <2>3 DEF Unmoved, Reads
<1> QED BY <1>3, <1>4

\* An error about the phone asked for, or watched, gives it up.
LEMMA HearsErrorFacts ==
  ASSUME ConsoleTyped, HearsError
  PROVE  /\ ConsoleTyped' /\ Heard.p \in Screens /\ stage' \in {stage, BlankStage}
         /\ \E kind \in {"refused", "failed", "watch_failed"} : Hears(kind)
         /\ inbound' = inbound \/ Says(ToServer("stop", NoScreen))
         /\ \E lost \in SUBSET Screens :
              /\ page.lost \subseteq lost
              /\ Heard.p = page.pending => Heard.p \in lost
              /\ \/ /\ Heard.p = page.asking
                    /\ Reads(page', "fleet", page.current, page.pending, page.watched, NoScreen, lost)
                 \/ /\ Heard.p # page.asking /\ Heard.p = page.watched /\ Heard.kind = "watch_failed"
                    /\ Reads(page', "fleet", page.current, page.pending, NoScreen, NoScreen, lost)
                 \/ /\ Heard.p # page.asking /\ (Heard.p # page.watched \/ Heard.kind # "watch_failed")
                    /\ Heard.p = page.pending /\ page'.pending \in {page.pending, NoScreen}
                    /\ Reads(page', page'.view, page.current, page'.pending, page.watched,
                             page.asking, lost)
                 \/ /\ Heard.p # page.asking /\ (Heard.p # page.watched \/ Heard.kind # "watch_failed")
                    /\ Heard.p # page.pending /\ Unmoved(page) /\ lost = page.lost
                    /\ stage' = stage /\ inbound' = inbound
<1> DEFINE lost == IF Heard.p = page.pending THEN GivesUp(Heard.p) ELSE page.lost
           erred == [page EXCEPT !.lost = lost]
<1>1. PICK kind \in {"refused", "failed", "watch_failed"} :
        /\ Hears(kind)
        /\ CASE Heard.p = page.asking ->
                  /\ page' = Fleet(Quiet([erred EXCEPT !.asking = NoScreen])) /\ stage' = BlankStage
                  /\ UNCHANGED inbound
             [] Heard.p # page.asking /\ Heard.p = page.watched ->
                  /\ UNCHANGED inbound
                  /\ IF kind = "watch_failed" THEN page' = Unwatched(erred) /\ stage' = BlankStage
                     ELSE page' = erred /\ UNCHANGED stage
             [] Heard.p \notin {page.asking, page.watched} /\ Heard.p = page.pending ->
                  LET freed == [erred EXCEPT !.pending = NoScreen] IN
                  /\ UNCHANGED stage
                  /\ IF page.current = NoScreen THEN page' = Fleet(freed) /\ Says(StopIfActive(page))
                     ELSE page' = freed /\ UNCHANGED inbound
             [] OTHER -> UNCHANGED <<page, stage, inbound>>
  <2>1. page \in ScreenPages BY GivesUpLemma
  <2>2. [page EXCEPT !.lost = IF Heard.p = page.pending THEN GivesUp(Heard.p) ELSE @] = erred
    BY <2>1 DEF ScreenPages
  <2> QED BY <2>2 DEF HearsError
<1>2. Heard.p \in Screens /\ Heard.kind = kind BY <1>1, HearsLemma
<1>3. /\ page \in ScreenPages /\ stage \in Stages /\ lost \in SUBSET Screens
      /\ page.lost \subseteq lost /\ (Heard.p = page.pending => Heard.p \in lost)
      /\ (Heard.p # page.pending => lost = page.lost)
  <2>1. NoScreen \notin Screens BY ConsoleAssumption
  <2>2. Heard.p \in GivesUp(Heard.p) /\ page.lost \subseteq GivesUp(Heard.p)
    BY <1>2, <2>1 DEF GivesUp
  <2> QED BY <1>2, <2>2, GivesUpLemma DEF ConsoleTyped, AnyScreen
<1> HIDE DEF lost
<1>4. /\ erred \in ScreenPages
      /\ Reads(erred, page.view, page.current, page.pending, page.watched, page.asking, lost)
  BY <1>3, LostLemma
<1>5. lost = page.lost => erred = page BY <1>3 DEF ScreenPages
<1> HIDE DEF erred
<1>6. CASE Heard.p = page.asking
  <2>1. /\ page' = Fleet(Quiet([erred EXCEPT !.asking = NoScreen])) /\ stage' = BlankStage
        /\ inbound' = inbound
    BY <1>1, <1>6
  <2>2. /\ [erred EXCEPT !.asking = NoScreen] \in ScreenPages
        /\ Reads([erred EXCEPT !.asking = NoScreen], page.view, page.current, page.pending,
                 page.watched, NoScreen, lost)
    BY <1>4 DEF ScreenPages, Reads, AnyScreen
  <2>3. /\ page' \in ScreenPages
        /\ Reads(page', "fleet", page.current, page.pending, page.watched, NoScreen, lost)
    <3> DEFINE given == [erred EXCEPT !.asking = NoScreen]
    <3>1. given \in ScreenPages /\ page' = Fleet(Quiet(given)) BY <2>1, <2>2
    <3>2. Reads(given, page.view, page.current, page.pending, page.watched, NoScreen, lost) BY <2>2
    <3> HIDE DEF given
    <3>3. /\ Quiet(given) \in ScreenPages
          /\ Reads(Quiet(given), given.view, given.current, given.pending, given.watched,
                   given.asking, given.lost)
      BY <3>1, PageLemma
    <3>4. /\ page' \in ScreenPages
          /\ Reads(page', "fleet", Quiet(given).current, Quiet(given).pending,
                   Quiet(given).watched, Quiet(given).asking, Quiet(given).lost)
      BY <3>1, <3>3, PageLemma
    <3> QED BY <3>2, <3>3, <3>4 DEF Reads
  <2>4. ConsoleTyped' BY <1>1, <2>1, <2>3, StageLemma, HeardTyped, InboundLemma
  <2> QED BY <1>1, <1>2, <1>3, <1>6, <2>1, <2>3, <2>4
<1>7. CASE Heard.p # page.asking /\ Heard.p = page.watched /\ kind = "watch_failed"
  <2>1. page' = Unwatched(erred) /\ stage' = BlankStage /\ inbound' = inbound BY <1>1, <1>7
  <2>2. /\ page' \in ScreenPages
        /\ Reads(page', "fleet", page.current, page.pending, NoScreen, NoScreen, lost)
    BY <1>4, <2>1, PageLemma DEF Reads
  <2>3. ConsoleTyped' BY <1>1, <2>1, <2>2, StageLemma, HeardTyped, InboundLemma
  <2> QED BY <1>1, <1>2, <1>3, <1>7, <2>1, <2>2, <2>3
<1>8. CASE Heard.p # page.asking /\ Heard.p = page.watched /\ kind # "watch_failed"
  <2>1. page' = erred /\ stage' = stage /\ inbound' = inbound BY <1>1, <1>8
  <2>2. page' \in ScreenPages BY <1>4, <2>1
  <2>3. ConsoleTyped' BY <1>1, <1>3, <2>1, <2>2, HeardTyped, InboundLemma
  <2>4. CASE Heard.p = page.pending
    BY <1>1, <1>2, <1>3, <1>4, <1>8, <2>1, <2>3, <2>4 DEF Reads
  <2>5. CASE Heard.p # page.pending
    <3>1. Unmoved(page) BY <1>3, <1>5, <2>1, <2>5 DEF Unmoved, Reads
    <3> QED BY <1>1, <1>2, <1>3, <1>8, <2>1, <2>3, <2>5, <3>1
  <2> QED BY <2>4, <2>5
<1>9. CASE Heard.p \notin {page.asking, page.watched} /\ Heard.p = page.pending
  <2> DEFINE freed == [erred EXCEPT !.pending = NoScreen]
  <2>1. /\ stage' = stage
        /\ \/ page' = Fleet(freed) /\ Says(StopIfActive(page))
           \/ page' = freed /\ inbound' = inbound
    BY <1>1, <1>9
  <2>2. /\ freed \in ScreenPages
        /\ Reads(freed, page.view, page.current, NoScreen, page.watched, page.asking, lost)
    BY <1>4 DEF ScreenPages, Reads, AnyScreen
  <2> HIDE DEF freed
  <2>3. /\ page' \in ScreenPages
        /\ \E view : Reads(page', view, page.current, NoScreen, page.watched, page.asking, lost)
    BY <2>1, <2>2, PageLemma DEF Reads
  <2>4. inbound' = inbound \/ Says(ToServer("stop", NoScreen))
    BY <2>1, SaysNothing DEF StopIfActive
  <2>5. ConsoleTyped' BY <1>1, <1>3, <2>1, <2>3, <2>4, HeardTyped, InboundLemma
  <2>6. /\ page'.pending = NoScreen
        /\ Reads(page', page'.view, page.current, page'.pending, page.watched, page.asking, lost)
    BY <2>3 DEF Reads
  <2> QED BY <1>1, <1>2, <1>3, <1>9, <2>1, <2>4, <2>5, <2>6
<1>10. CASE Heard.p \notin {page.asking, page.watched, page.pending}
  <2>1. page' = page /\ stage' = stage /\ inbound' = inbound BY <1>1, <1>10
  <2>2. ConsoleTyped' /\ Unmoved(page) BY <1>1, <2>1, HeardNothing
  <2> QED BY <1>1, <1>2, <1>3, <1>10, <2>1, <2>2
<1> QED BY <1>6, <1>7, <1>8, <1>9, <1>10

\* A phone that was taken away ends control of whatever is controlled or asked for by now.
LEMMA HearsRevokedFacts ==
  ASSUME ConsoleTyped, HearsRevoked
  PROVE  /\ ConsoleTyped' /\ Hears("revoked") /\ inbound' = inbound /\ stage' = BlankStage
         /\ Reads(page', "fleet", NoScreen, NoScreen, page.watched, page.asking,
                  GivesUp(page.pending) \cup ({page.current} \ {NoScreen, Heard.p}))
<1> DEFINE lost == GivesUp(page.pending) \cup ({page.current} \ {NoScreen, Heard.p})
<1>1. /\ Hears("revoked") /\ inbound' = inbound /\ stage' = BlankStage
      /\ page' = [Deselected(page) EXCEPT !.lost = lost]
  BY DEF HearsRevoked
<1>2. page \in ScreenPages /\ lost \in SUBSET Screens BY GivesUpLemma DEF AnyScreen
<1> HIDE DEF lost
<1>3. /\ Deselected(page) \in ScreenPages
      /\ Reads(Deselected(page), "fleet", NoScreen, NoScreen, page.watched, page.asking, page.lost)
  BY <1>2, PageLemma
<1>4. /\ page' \in ScreenPages
      /\ Reads(page', "fleet", NoScreen, NoScreen, page.watched, page.asking, lost)
  BY <1>1, <1>2, <1>3, LostLemma DEF Reads
<1>5. ConsoleTyped' BY <1>1, <1>4, StageLemma, HeardTyped, InboundLemma
<1> QED BY <1>1, <1>4, <1>5 DEF lost

\* A fleet that shows the controlled phone as closed ends control of it.
LEMMA HearsClosedPhoneFacts ==
  ASSUME ConsoleTyped, HearsClosedPhone
  PROVE  /\ ConsoleTyped' /\ Hears("closed_phone") /\ Heard.p \in Screens /\ inbound' = inbound
         /\ \/ /\ Heard.p = page.current /\ stage' = BlankStage
               /\ Reads(page', "fleet", NoScreen, NoScreen, page.watched, page.asking,
                        GivesUp(page.pending) \cup {Heard.p})
            \/ Heard.p # page.current /\ stage' = stage /\ Unmoved(page)
<1>1. Hears("closed_phone") /\ inbound' = inbound BY DEF HearsClosedPhone
<1>2. Heard.p \in Screens BY <1>1, HearsLemma
<1>3. CASE Heard.p = page.current
  <2> DEFINE lost == GivesUp(page.pending) \cup {Heard.p}
  <2>1. page' = [Deselected(page) EXCEPT !.lost = lost] /\ stage' = BlankStage
    BY <1>3 DEF HearsClosedPhone
  <2>2. page \in ScreenPages /\ lost \in SUBSET Screens BY <1>2, GivesUpLemma DEF AnyScreen
  <2> HIDE DEF lost
  <2>3. /\ Deselected(page) \in ScreenPages
        /\ Reads(Deselected(page), "fleet", NoScreen, NoScreen, page.watched, page.asking, page.lost)
    BY <2>2, PageLemma
  <2>4. /\ page' \in ScreenPages
        /\ Reads(page', "fleet", NoScreen, NoScreen, page.watched, page.asking, lost)
    BY <2>1, <2>2, <2>3, LostLemma DEF Reads
  <2>5. ConsoleTyped' BY <1>1, <2>1, <2>4, StageLemma, HeardTyped, InboundLemma
  <2> QED BY <1>1, <1>2, <1>3, <2>1, <2>4, <2>5 DEF lost
<1>4. CASE Heard.p # page.current
  <2>1. page' = page /\ stage' = stage BY <1>4 DEF HearsClosedPhone
  <2> QED BY <1>1, <1>2, <1>4, <2>1, HeardNothing
<1> QED BY <1>3, <1>4

\* What the page hears of a stream, or of what it watches.
HearsStream ==
  HearsStarted \/ HearsBroken \/ HearsUnsupported \/ HearsVideo \/ HearsWatchFrame

\* It changes the stage at most: its stream, or its picture.
LEMMA HearsStreamFacts ==
  ASSUME ConsoleTyped, HearsStream
  PROVE  /\ ConsoleTyped' /\ Unmoved(page) /\ inbound' = inbound
         /\ \E kind \in {"started", "broken", "unsupported", "video", "watch_frame"} :
              /\ Hears(kind)
              /\ \/ stage' = stage
                 \/ /\ kind = "started" /\ Heard.p = OnScreen(page)
                    /\ stage'.id = Heard.id /\ stage'.mode = stage.mode
                    /\ stage'.picture = stage.picture /\ stage'.kept = stage.kept
                 \/ /\ kind \in {"broken", "video", "watch_frame"}
                    /\ stage'.id = stage.id /\ stage'.mode = stage.mode
                    /\ kind = "broken" => stage'.picture = NoScreen
                    /\ kind = "video" => Heard.id = stage.id /\ stage'.picture = Heard.p
                    /\ kind = "watch_frame" => Heard.p = page.watched
<1>1. page \in ScreenPages /\ stage \in Stages BY DEF ConsoleTyped
<1>2. CASE HearsStarted
  <2>1. Hears("started") /\ inbound' = inbound BY <1>2 DEF HearsStarted
  <2>2. Heard.id \in Nat BY <2>1, HearsLemma
  <2>3. CASE Heard.p = OnScreen(page)
    <3>1. /\ page' = [page EXCEPT !.sid = Heard.id, !.active = TRUE]
          /\ stage' = [stage EXCEPT !.id = Heard.id, !.frames = FALSE]
      BY <1>2, <2>3 DEF HearsStarted
    <3>2. page' \in ScreenPages /\ Unmoved(page)
      BY <1>1, <2>2, <3>1 DEF ScreenPages, Unmoved, Reads
    <3>3. /\ stage' \in Stages /\ stage'.id = Heard.id /\ stage'.mode = stage.mode
          /\ stage'.picture = stage.picture /\ stage'.kept = stage.kept
      BY <1>1, <2>2, <3>1 DEF Stages
    <3>4. ConsoleTyped' BY <2>1, <3>2, <3>3, HeardTyped, InboundLemma
    <3> QED BY <2>1, <2>3, <3>2, <3>3, <3>4
  <2>4. CASE Heard.p # OnScreen(page)
    <3>1. page' = page /\ stage' = stage BY <1>2, <2>4 DEF HearsStarted
    <3> QED BY <2>1, <3>1, HeardNothing
  <2> QED BY <2>3, <2>4
<1>3. CASE HearsBroken
  <2>1. Hears("broken") /\ inbound' = inbound BY <1>3 DEF HearsBroken
  <2>2. CASE stage' = Pictured(stage, NoScreen)
    <3>1. page' = page \/ page' = [page EXCEPT !.active = FALSE, !.retry = TRUE]
      BY <1>3, <2>2 DEF HearsBroken
    <3>2. page' \in ScreenPages /\ Unmoved(page) BY <1>1, <3>1 DEF ScreenPages, Unmoved, Reads
    <3>3. /\ stage' \in Stages /\ stage'.id = stage.id /\ stage'.mode = stage.mode
          /\ stage'.picture = NoScreen
      BY <1>1, <2>2, StageLemma DEF AnyScreen
    <3>4. ConsoleTyped' BY <2>1, <3>2, <3>3, HeardTyped, InboundLemma
    <3> QED BY <2>1, <3>2, <3>3, <3>4
  <2>3. CASE stage' # Pictured(stage, NoScreen)
    <3>1. page' = page /\ stage' = stage BY <1>3, <2>3 DEF HearsBroken
    <3> QED BY <2>1, <3>1, HeardNothing
  <2> QED BY <2>2, <2>3
<1>4. CASE HearsUnsupported
  <2>1. /\ Hears("unsupported") /\ inbound' = inbound /\ stage' = stage
        /\ page' = page \/ page' = [page EXCEPT !.active = FALSE, !.sid = 0]
    BY <1>4 DEF HearsUnsupported
  <2>2. /\ [page EXCEPT !.active = FALSE, !.sid = 0] \in ScreenPages
        /\ Reads([page EXCEPT !.active = FALSE, !.sid = 0], page.view, page.current, page.pending,
                 page.watched, page.asking, page.lost)
    BY <1>1 DEF ScreenPages, Reads
  <2>3. page' \in ScreenPages /\ Unmoved(page) BY <1>1, <2>1, <2>2 DEF Unmoved, Reads
  <2>4. ConsoleTyped' BY <1>1, <2>1, <2>3, HeardTyped, InboundLemma
  <2> QED BY <2>1, <2>3, <2>4
<1>5. CASE HearsVideo
  <2>1. Hears("video") /\ inbound' = inbound /\ page' = page BY <1>5 DEF HearsVideo
  <2>2. Heard.p \in AnyScreen BY <2>1, HearsLemma DEF AnyScreen
  <2>3. CASE Heard.id = stage.id
    <3>1. stage' = [Pictured(stage, Heard.p) EXCEPT !.frames = TRUE] BY <1>5, <2>3 DEF HearsVideo
    <3>2. /\ stage' \in Stages /\ stage'.id = stage.id /\ stage'.mode = stage.mode
          /\ stage'.picture = Heard.p
      BY <1>1, <2>2, <3>1 DEF Stages, Pictured
    <3>3. ConsoleTyped' BY <1>1, <2>1, <3>2, HeardTyped, InboundLemma
    <3> QED BY <2>1, <2>3, <3>2, <3>3 DEF Unmoved, Reads
  <2>4. CASE Heard.id # stage.id
    <3>1. stage' = stage BY <1>5, <2>4 DEF HearsVideo
    <3> QED BY <2>1, <3>1, HeardNothing
  <2> QED BY <2>3, <2>4
<1>6. CASE HearsWatchFrame
  <2>1. Hears("watch_frame") /\ inbound' = inbound /\ page' = page BY <1>6 DEF HearsWatchFrame
  <2>2. Heard.p \in AnyScreen BY <2>1, HearsLemma DEF AnyScreen
  <2>3. stage' = stage \/ (Heard.p = page.watched /\ stage' = Pictured(stage, Heard.p))
    BY <1>6 DEF HearsWatchFrame
  <2>4. /\ stage' \in Stages /\ stage'.id = stage.id /\ stage'.mode = stage.mode
        /\ stage' = stage \/ Heard.p = page.watched
    BY <1>1, <2>2, <2>3, StageLemma
  <2>5. ConsoleTyped' BY <1>1, <2>1, <2>4, HeardTyped, InboundLemma
  <2> QED BY <2>1, <2>4, <2>5 DEF Unmoved, Reads
<1> QED BY <1>2, <1>3, <1>4, <1>5, <1>6 DEF HearsStream

\* A watch that was asked for replaces control.
LEMMA HearsWatchStartedFacts ==
  ASSUME ConsoleTyped, HearsWatchStarted
  PROVE  /\ ConsoleTyped' /\ Hears("watch_started") /\ Heard.p \in Screens /\ stage'.id = stage.id
         /\ \/ /\ Heard.p = page.asking /\ Says(ToServer("start", Heard.p))
               /\ Reads(page', "detail", NoScreen, NoScreen, Heard.p, NoScreen,
                        GivesUp(page.pending))
            \/ /\ Heard.p # page.asking /\ stage' = stage /\ inbound' = inbound /\ Unmoved(page)
<1>1. Hears("watch_started") BY DEF HearsWatchStarted
<1>2. Heard.p \in Screens BY <1>1, HearsLemma
<1>3. /\ page \in ScreenPages /\ stage \in Stages /\ Heard.p \in AnyScreen
      /\ GivesUp(page.pending) \in SUBSET Screens
  BY <1>2, GivesUpLemma DEF ConsoleTyped, AnyScreen
<1>4. CASE Heard.p = page.asking
  <2>1. /\ page' = [page EXCEPT !.current = NoScreen, !.pending = NoScreen, !.watched = Heard.p,
                                !.asking = NoScreen, !.view = "detail", !.retry = FALSE,
                                !.lost = GivesUp(page.pending)]
        /\ stage' = [stage EXCEPT !.mode = "watch"] /\ Says(ToServer("start", Heard.p))
    BY <1>4 DEF HearsWatchStarted
  <2>2. /\ page' \in ScreenPages
        /\ Reads(page', "detail", NoScreen, NoScreen, Heard.p, NoScreen, GivesUp(page.pending))
    BY <1>3, <2>1 DEF ScreenPages, Reads, AnyScreen
  <2>3. stage' \in Stages /\ stage'.id = stage.id BY <1>3, <2>1 DEF Stages
  <2>4. InboundTyped' BY <1>2, <2>1, InboundLemma
  <2>5. ConsoleTyped' BY <1>1, <2>2, <2>3, <2>4, HeardTyped
  <2> QED BY <1>1, <1>2, <1>4, <2>1, <2>2, <2>3, <2>5
<1>5. CASE Heard.p # page.asking
  <2>1. page' = page /\ stage' = stage /\ inbound' = inbound BY <1>5 DEF HearsWatchStarted
  <2> QED BY <1>1, <1>2, <1>5, <2>1, HeardNothing
<1> QED BY <1>4, <1>5

\* The end of a watch is the end of what is shown of it.
LEMMA HearsWatchStoppedFacts ==
  ASSUME ConsoleTyped, HearsWatchStopped
  PROVE  /\ ConsoleTyped' /\ Hears("watch_stopped") /\ Heard.p \in Screens /\ inbound' = inbound
         /\ \/ /\ Heard.p = page.watched /\ stage' = BlankStage
               /\ Reads(page', "fleet", page.current, page.pending, NoScreen, NoScreen, page.lost)
            \/ Heard.p # page.watched /\ stage' = stage /\ Unmoved(page)
<1>1. Hears("watch_stopped") /\ inbound' = inbound BY DEF HearsWatchStopped
<1>2. Heard.p \in Screens BY <1>1, HearsLemma
<1>3. CASE Heard.p = page.watched
  <2>1. page' = Unwatched(page) /\ stage' = BlankStage BY <1>3 DEF HearsWatchStopped
  <2>2. page \in ScreenPages BY GivesUpLemma
  <2>3. /\ page' \in ScreenPages
        /\ Reads(page', "fleet", page.current, page.pending, NoScreen, NoScreen, page.lost)
    BY <2>1, <2>2, PageLemma
  <2>4. ConsoleTyped' BY <1>1, <2>1, <2>3, StageLemma, HeardTyped, InboundLemma
  <2> QED BY <1>1, <1>2, <1>3, <2>1, <2>3, <2>4
<1>4. CASE Heard.p # page.watched
  <2>1. page' = page /\ stage' = stage BY <1>4 DEF HearsWatchStopped
  <2> QED BY <1>1, <1>2, <1>4, <2>1, HeardNothing
<1> QED BY <1>3, <1>4

------------------------------------------------------------------------------
(* What the steps of the server do.                                        *)

Report(kind, p, id) == [kind |-> kind, p |-> p, id |-> id]

\* The page will hear m after all that is on its way, or first a and then b.
Adds(m) ==
  /\ outbound' \in Seq(Reports) /\ Len(outbound') = Len(outbound) + 1
  /\ Goes(outbound, outbound', 0, {m}) /\ outbound'[Len(outbound) + 1] = m
AddsTwo(a, b) ==
  /\ outbound' \in Seq(Reports) /\ Len(outbound') = Len(outbound) + 2
  /\ Goes(outbound, outbound', 0, {a, b})
  /\ outbound'[Len(outbound) + 1] = a /\ outbound'[Len(outbound) + 2] = b

\* The server takes the first request, or none.
Takes(kind) ==
  /\ Len(inbound) \in Nat \ {0} /\ inbound[1].kind = kind /\ inbound[1] = Asked
  /\ Goes(inbound, inbound', 1, {})
  /\ page' = page /\ stage' = stage /\ seat.work = AtRest /\ seat.work.kind = "none"
TakesNone == page' = page /\ stage' = stage /\ inbound' = inbound

\* The seat keeps what it has, but for the message that it serves.
SeatKeeps(work) == SeatReads(seat', seat.held, seat.eye, seat.stream, seat.seq, work)

\* What is told in a report of one phone.
LEMMA AddsLemma ==
  ASSUME ConsoleTyped, NEW kind \in DownKinds, NEW p \in Screens, NEW id \in Nat
  PROVE  /\ Report(kind, p, id) \in Reports
         /\ Report(kind, p, id).kind = kind /\ Report(kind, p, id).p = p
         /\ Report(kind, p, id).id = id
         /\ Answers(<<Report(kind, p, id)>>) => Adds(Report(kind, p, id))
         /\ ToPage(kind, p) = <<Report(kind, p, 0)>>
<1>1. /\ Report(kind, p, id) \in Reports
      /\ Report(kind, p, id).kind = kind /\ Report(kind, p, id).p = p
      /\ Report(kind, p, id).id = id
  BY DEF Report, Reports
<1>2. Answers(<<Report(kind, p, id)>>) => Adds(Report(kind, p, id))
  BY <1>1, AnswersLemma DEF Adds
<1>3. ToPage(kind, p) = <<Report(kind, p, 0)>> BY DEF ToPage, Report
<1> QED BY <1>1, <1>2, <1>3

\* What the page is told of a phone comes after all that is on its way.
LEMMA ScreenToldLemma ==
  ASSUME ConsoleTyped, NEW kind \in DownKinds, NEW p \in Screens, Answers(ToPage(kind, p))
  PROVE  Adds(Report(kind, p, 0))
<1>1. ToPage(kind, p) = <<Report(kind, p, 0)>> BY AddsLemma
<1>2. Answers(<<Report(kind, p, 0)>>) BY <1>1
<1>3. 0 \in Nat OBVIOUS
<1> QED BY <1>2, <1>3, AddsLemma

\* The seat without the phone that is held, or the one that is watched.
LEMMA SeatLemma ==
  ASSUME NEW st \in Seats
  PROVE  /\ Freed(st) \in Seats
         /\ SeatReads(Freed(st), NoScreen, st.eye, IF st.stream = st.held THEN NoScreen ELSE st.stream,
                      st.seq, st.work)
         /\ Blind(st) \in Seats
         /\ SeatReads(Blind(st), st.held, NoScreen, IF st.stream = st.eye THEN NoScreen ELSE st.stream,
                      st.seq, st.work)
         /\ \A work \in Errands :
              /\ [st EXCEPT !.work = work] \in Seats
              /\ SeatReads([st EXCEPT !.work = work], st.held, st.eye, st.stream, st.seq, work)
<1>1. NoScreen \in AnyScreen BY DEF AnyScreen
<1>2. ASSUME NEW p
      PROVE  /\ LetsGo(st, p) \in Seats
             /\ SeatReads(LetsGo(st, p), st.held, st.eye, IF st.stream = p THEN NoScreen ELSE st.stream,
                          st.seq, st.work)
  <2>1. CASE st.stream = p
    <3>1. LetsGo(st, p) = [st EXCEPT !.stream = NoScreen] BY <2>1 DEF LetsGo
    <3> QED BY <1>1, <2>1, <3>1 DEF Seats, SeatReads
  <2>2. CASE st.stream # p
    <3>1. LetsGo(st, p) = st BY <2>2 DEF LetsGo
    <3> QED BY <2>2, <3>1 DEF SeatReads
  <2> QED BY <2>1, <2>2
<1>3. /\ Freed(st) \in Seats
      /\ SeatReads(Freed(st), NoScreen, st.eye, IF st.stream = st.held THEN NoScreen ELSE st.stream,
                   st.seq, st.work)
  <2>1. /\ LetsGo(st, st.held) \in Seats
        /\ SeatReads(LetsGo(st, st.held), st.held, st.eye,
                     IF st.stream = st.held THEN NoScreen ELSE st.stream, st.seq, st.work)
    BY <1>2
  <2>2. Freed(st) = [LetsGo(st, st.held) EXCEPT !.held = NoScreen] BY DEF Freed
  <2> HIDE DEF LetsGo
  <2> QED BY <1>1, <2>1, <2>2 DEF Seats, SeatReads
<1>4. /\ Blind(st) \in Seats
      /\ SeatReads(Blind(st), st.held, NoScreen, IF st.stream = st.eye THEN NoScreen ELSE st.stream,
                   st.seq, st.work)
  <2>1. /\ LetsGo(st, st.eye) \in Seats
        /\ SeatReads(LetsGo(st, st.eye), st.held, st.eye,
                     IF st.stream = st.eye THEN NoScreen ELSE st.stream, st.seq, st.work)
    BY <1>2
  <2>2. Blind(st) = [LetsGo(st, st.eye) EXCEPT !.eye = NoScreen] BY DEF Blind
  <2> HIDE DEF LetsGo
  <2> QED BY <1>1, <2>1, <2>2 DEF Seats, SeatReads
<1>5. \A work \in Errands :
        /\ [st EXCEPT !.work = work] \in Seats
        /\ SeatReads([st EXCEPT !.work = work], st.held, st.eye, st.stream, st.seq, work)
  BY DEF Seats, SeatReads
<1> QED BY <1>3, <1>4, <1>5

\* What is typed stays so in a step of the server.
LEMMA ServedTyped ==
  ASSUME ConsoleTyped, page' = page, stage' = stage, seat' \in Seats, outbound' \in Seq(Reports),
         seat'.work.kind = "none" => seat'.work = AtRest,
         seat'.work.kind # "none" => seat'.work.p \in Screens,
         inbound' = inbound \/ (\E kind : Serves(kind))
  PROVE  ConsoleTyped'
<1>1. /\ inbound' \in Seq(Requests)
      /\ \A i \in 1..Len(inbound') : inbound'[i].kind # "stop" => inbound'[i].p \in Screens
  <2>1. CASE inbound' = inbound BY <2>1 DEF ConsoleTyped
  <2>2. ASSUME NEW kind, Serves(kind)
        PROVE  /\ inbound' \in Seq(Requests)
               /\ \A i \in 1..Len(inbound') : inbound'[i].kind # "stop" => inbound'[i].p \in Screens
    BY <2>2, ServesLemma
  <2> QED BY <2>1, <2>2
<1> QED BY <1>1 DEF ConsoleTyped

\* Requests are taken one at a time.
LEMMA TakesLemma ==
  ASSUME ConsoleTyped, NEW kind, Serves(kind)
  PROVE  Takes(kind) /\ (kind # "stop" => Asked.p \in Screens)
BY ServesLemma DEF Takes

\* A step that leaves the seat alone.
LEMMA SeatAlone ==
  ASSUME ConsoleTyped, page' = page, stage' = stage, seat' = seat,
         outbound' = outbound \/ (\E m : Adds(m)),
         inbound' = inbound \/ (\E kind : Serves(kind))
  PROVE  ConsoleTyped'
<1>1. outbound' \in Seq(Reports) BY DEF ConsoleTyped, Adds
<1>2. /\ seat' \in Seats /\ (seat'.work.kind = "none" => seat'.work = AtRest)
      /\ (seat'.work.kind # "none" => seat'.work.p \in Screens)
  BY DEF ConsoleTyped
<1> QED BY <1>1, <1>2, ServedTyped

\* A claim is refused, or ends what was held and watched, and its picture is asked for.
LEMMA ServesSelectFacts ==
  ASSUME ConsoleTyped, SeatInv, ServesSelect
  PROVE  /\ ConsoleTyped' /\ Takes("select") /\ Asked.p \in Screens
         /\ \/ seat' = seat /\ Adds(Report("refused", Asked.p, 0))
            \/ /\ outbound' = outbound
               /\ SeatReads(seat', Asked.p, NoScreen, NoScreen, seat.seq,
                            [kind |-> "select", p |-> Asked.p])
<1>1. Serves("select") BY DEF ServesSelect
<1>2. Takes("select") /\ Asked.p \in Screens /\ page' = page /\ stage' = stage
  BY <1>1, TakesLemma DEF Takes
<1>3. CASE Answers(ToPage("refused", Asked.p)) /\ seat' = seat
  <2>1. Adds(Report("refused", Asked.p, 0)) BY <1>2, <1>3, ScreenToldLemma DEF DownKinds
  <2>2. ConsoleTyped' BY <1>1, <1>2, <1>3, <2>1, SeatAlone
  <2> QED BY <1>2, <1>3, <2>1, <2>2
<1>4. CASE /\ outbound' = outbound
           /\ seat' = [Freed(Blind(seat)) EXCEPT !.held = Asked.p,
                                                 !.work = [kind |-> "select", p |-> Asked.p]]
  <2>1. seat \in Seats /\ outbound' \in Seq(Reports) BY <1>4 DEF ConsoleTyped
  <2>2. /\ Blind(seat) \in Seats
        /\ SeatReads(Blind(seat), seat.held, NoScreen,
                     IF seat.stream = seat.eye THEN NoScreen ELSE seat.stream, seat.seq, seat.work)
    BY <2>1, SeatLemma
  <2> DEFINE free == Freed(Blind(seat))
  <2>3. /\ free \in Seats
        /\ SeatReads(free, NoScreen, Blind(seat).eye,
             IF Blind(seat).stream = Blind(seat).held THEN NoScreen ELSE Blind(seat).stream,
             Blind(seat).seq, Blind(seat).work)
    BY <2>2, SeatLemma
  <2> HIDE DEF free
  <2>4. free.stream = NoScreen /\ free.eye = NoScreen /\ free.seq = seat.seq
    BY <2>2, <2>3 DEF SeatReads, SeatInv
  <2> DEFINE errand == [kind |-> "select", p |-> Asked.p]
  <2>5. errand \in Errands /\ errand.kind = "select" /\ errand.p = Asked.p
    BY <1>2 DEF Errands, AnyScreen
  <2>6. seat' = [free EXCEPT !.held = Asked.p, !.work = errand] BY <1>4 DEF free
  <2> HIDE DEF errand
  <2>7. Asked.p \in AnyScreen BY <1>2 DEF AnyScreen
  <2>8. seat' \in Seats /\ SeatReads(seat', Asked.p, NoScreen, NoScreen, seat.seq, errand)
    BY <2>3, <2>4, <2>5, <2>6, <2>7 DEF Seats, SeatReads
  <2>9. /\ seat'.work.kind = "none" => seat'.work = AtRest
        /\ seat'.work.kind # "none" => seat'.work.p \in Screens
    BY <1>2, <2>5, <2>8 DEF SeatReads
  <2>10. ConsoleTyped' BY <1>1, <1>2, <2>1, <2>8, <2>9, ServedTyped
  <2> QED BY <1>2, <1>4, <2>8, <2>10 DEF errand
<1> QED BY <1>3, <1>4 DEF ServesSelect

\* A watch is refused, or begins for a seat that holds no phone.
LEMMA ServesWatchFacts ==
  ASSUME ConsoleTyped, SeatInv, ServesWatch
  PROVE  /\ ConsoleTyped' /\ Takes("watch") /\ Asked.p \in Screens
         /\ \/ seat' = seat /\ Adds(Report("watch_failed", Asked.p, 0))
            \/ /\ seat.held = NoScreen /\ Adds(Report("watch_started", Asked.p, 0))
               /\ SeatReads(seat', NoScreen, Asked.p,
                            IF seat.eye = Asked.p THEN seat.stream ELSE NoScreen, seat.seq,
                            [kind |-> "watch", p |-> Asked.p])
<1>1. Serves("watch") BY DEF ServesWatch
<1>2. Takes("watch") /\ Asked.p \in Screens /\ page' = page /\ stage' = stage
  BY <1>1, TakesLemma DEF Takes
<1>3. CASE Answers(ToPage("watch_failed", Asked.p)) /\ seat' = seat
  <2>1. Adds(Report("watch_failed", Asked.p, 0)) BY <1>2, <1>3, ScreenToldLemma DEF DownKinds
  <2>2. ConsoleTyped' BY <1>1, <1>2, <1>3, <2>1, SeatAlone
  <2> QED BY <1>2, <1>3, <2>1, <2>2
<1>4. CASE /\ MayWatch /\ Answers(ToPage("watch_started", Asked.p))
           /\ seat' = [(IF seat.eye = Asked.p THEN seat ELSE Blind(seat)) EXCEPT
                         !.eye = Asked.p, !.work = [kind |-> "watch", p |-> Asked.p]]
  <2>1. seat.held = NoScreen /\ Adds(Report("watch_started", Asked.p, 0))
    BY <1>2, <1>4, ScreenToldLemma DEF DownKinds, MayWatch
  <2> DEFINE free == IF seat.eye = Asked.p THEN seat ELSE Blind(seat)
             errand == [kind |-> "watch", p |-> Asked.p]
  <2>2. /\ free \in Seats /\ free.held = NoScreen /\ free.seq = seat.seq
        /\ free.stream = IF seat.eye = Asked.p THEN seat.stream ELSE NoScreen
    <3>1. seat \in Seats BY DEF ConsoleTyped
    <3>2. /\ Blind(seat) \in Seats
          /\ SeatReads(Blind(seat), seat.held, NoScreen,
                       IF seat.stream = seat.eye THEN NoScreen ELSE seat.stream, seat.seq, seat.work)
      BY <3>1, SeatLemma
    <3> QED BY <2>1, <3>1, <3>2 DEF SeatReads, SeatInv
  <2>3. errand \in Errands /\ errand.kind = "watch" /\ errand.p = Asked.p
    BY <1>2 DEF Errands, AnyScreen
  <2>4. seat' = [free EXCEPT !.eye = Asked.p, !.work = errand] BY <1>4
  <2> HIDE DEF free, errand
  <2>5. Asked.p \in AnyScreen BY <1>2 DEF AnyScreen
  <2>6. /\ seat' \in Seats
        /\ SeatReads(seat', NoScreen, Asked.p,
                     IF seat.eye = Asked.p THEN seat.stream ELSE NoScreen, seat.seq, errand)
    BY <2>2, <2>3, <2>4, <2>5 DEF Seats, SeatReads
  <2>7. /\ seat'.work.kind = "none" => seat'.work = AtRest
        /\ seat'.work.kind # "none" => seat'.work.p \in Screens
    BY <1>2, <2>3, <2>6 DEF SeatReads
  <2>8. outbound' \in Seq(Reports) BY <2>1 DEF Adds
  <2>9. ConsoleTyped' BY <1>1, <1>2, <2>6, <2>7, <2>8, ServedTyped
  <2> QED BY <1>2, <2>1, <2>6, <2>9 DEF errand
<1> QED BY <1>3, <1>4 DEF ServesWatch

\* The end of a watch, if it is the one that the seat has.
LEMMA ServesUnwatchFacts ==
  ASSUME ConsoleTyped, SeatInv, ServesUnwatch
  PROVE  /\ ConsoleTyped' /\ Takes("unwatch") /\ Asked.p \in Screens /\ outbound' = outbound
         /\ \/ /\ seat.eye = Asked.p
               /\ SeatReads(seat', seat.held, NoScreen, NoScreen, seat.seq, seat.work)
            \/ seat.eye # Asked.p /\ seat' = seat
<1>1. Serves("unwatch") /\ outbound' = outbound BY DEF ServesUnwatch
<1>2. Takes("unwatch") /\ Asked.p \in Screens /\ page' = page /\ stage' = stage
  BY <1>1, TakesLemma DEF Takes
<1>3. CASE seat.eye # Asked.p
  <2>1. seat' = seat BY <1>3 DEF ServesUnwatch
  <2>2. ConsoleTyped' BY <1>1, <1>2, <2>1, SeatAlone
  <2> QED BY <1>1, <1>2, <1>3, <2>1, <2>2
<1>4. CASE seat.eye = Asked.p
  <2>1. seat' = Blind(seat) /\ seat \in Seats BY <1>4 DEF ServesUnwatch, ConsoleTyped
  <2>2. /\ seat' \in Seats
        /\ SeatReads(seat', seat.held, NoScreen,
                     IF seat.stream = seat.eye THEN NoScreen ELSE seat.stream, seat.seq, seat.work)
    BY <2>1, SeatLemma
  <2>3. seat.eye # NoScreen BY <1>2, <1>4, ConsoleAssumption
  <2>4. (IF seat.stream = seat.eye THEN NoScreen ELSE seat.stream) = NoScreen
    BY <2>3 DEF SeatInv
  <2>5. /\ SeatReads(seat', seat.held, NoScreen, NoScreen, seat.seq, seat.work)
        /\ (seat'.work.kind = "none" => seat'.work = AtRest)
        /\ (seat'.work.kind # "none" => seat'.work.p \in Screens)
    BY <2>2, <2>4 DEF SeatReads, ConsoleTyped
  <2>6. outbound' \in Seq(Reports) BY <1>1 DEF ConsoleTyped
  <2>7. ConsoleTyped' BY <1>1, <1>2, <2>2, <2>5, <2>6, ServedTyped
  <2> QED BY <1>1, <1>2, <1>4, <2>5, <2>7
<1> QED BY <1>3, <1>4

\* A video of a phone that is held or watched gets the next number.
LEMMA ServesStartFacts ==
  ASSUME ConsoleTyped, SeatInv, ServesStart
  PROVE  /\ ConsoleTyped' /\ Takes("start") /\ Asked.p \in Screens
         /\ \/ /\ seat' = seat
               /\ \E kind \in {"refused", "unsupported"} : Adds(Report(kind, Asked.p, 0))
            \/ /\ Asked.p \in {seat.held, seat.eye}
               /\ Adds(Report("started", Asked.p, seat.seq + 1))
               /\ SeatReads(seat', seat.held, seat.eye, Asked.p, seat.seq + 1, seat.work)
<1>1. Serves("start") BY DEF ServesStart
<1>2. Takes("start") /\ Asked.p \in Screens /\ page' = page /\ stage' = stage
  BY <1>1, TakesLemma DEF Takes
<1>3. ASSUME NEW kind \in {"refused", "unsupported"}, Answers(ToPage(kind, Asked.p)), seat' = seat
      PROVE  ConsoleTyped' /\ Adds(Report(kind, Asked.p, 0))
  <2>1. Adds(Report(kind, Asked.p, 0)) BY <1>2, <1>3, ScreenToldLemma DEF DownKinds
  <2>2. ConsoleTyped' BY <1>1, <1>2, <1>3, <2>1, SeatAlone
  <2> QED BY <2>1, <2>2
<1>4. CASE /\ Asked.p \in {seat.held, seat.eye}
           /\ seat' = [seat EXCEPT !.stream = Asked.p, !.seq = @ + 1]
           /\ Answers(<<[kind |-> "started", p |-> Asked.p, id |-> seat.seq + 1]>>)
  <2>1. seat \in Seats /\ seat.seq + 1 \in Nat /\ Asked.p \in AnyScreen
    BY <1>2 DEF ConsoleTyped, Seats, AnyScreen
  <2>2. Adds(Report("started", Asked.p, seat.seq + 1))
    <3>1. Answers(<<Report("started", Asked.p, seat.seq + 1)>>) BY <1>4 DEF Report
    <3> QED BY <1>2, <2>1, <3>1, AddsLemma DEF DownKinds
  <2>3. /\ seat' \in Seats
        /\ SeatReads(seat', seat.held, seat.eye, Asked.p, seat.seq + 1, seat.work)
    BY <1>4, <2>1 DEF Seats, SeatReads
  <2>4. /\ outbound' \in Seq(Reports) /\ (seat'.work.kind = "none" => seat'.work = AtRest)
        /\ (seat'.work.kind # "none" => seat'.work.p \in Screens)
    BY <2>2, <2>3 DEF SeatReads, ConsoleTyped, Adds
  <2>5. ConsoleTyped' BY <1>1, <1>2, <2>3, <2>4, ServedTyped
  <2> QED BY <1>2, <1>4, <2>2, <2>3, <2>5
<1> QED BY <1>2, <1>3, <1>4 DEF ServesStart

\* A video is stopped.
LEMMA ServesStopFacts ==
  ASSUME ConsoleTyped, ServesStop
  PROVE  /\ ConsoleTyped' /\ Takes("stop") /\ outbound' = outbound
         /\ SeatReads(seat', seat.held, seat.eye, NoScreen, seat.seq, seat.work)
<1>1. Serves("stop") /\ outbound' = outbound /\ seat' = [seat EXCEPT !.stream = NoScreen]
  BY DEF ServesStop
<1>2. Takes("stop") /\ page' = page /\ stage' = stage BY <1>1, TakesLemma DEF Takes
<1>3. seat \in Seats /\ outbound' \in Seq(Reports) BY <1>1 DEF ConsoleTyped
<1>4. /\ seat' \in Seats
      /\ SeatReads(seat', seat.held, seat.eye, NoScreen, seat.seq, seat.work)
  BY <1>1, <1>3 DEF Seats, SeatReads, AnyScreen
<1>5. /\ seat'.work.kind = "none" => seat'.work = AtRest
      /\ seat'.work.kind # "none" => seat'.work.p \in Screens
  BY <1>4 DEF SeatReads, ConsoleTyped
<1>6. ConsoleTyped' BY <1>1, <1>2, <1>3, <1>4, <1>5, ServedTyped
<1> QED BY <1>1, <1>2, <1>4, <1>6

\* A refusal, or no answer at all.
NotAnswered(p) == outbound' = outbound \/ Adds(Report("refused", p, 0))

\* An input reaches the phone that is held only.
LEMMA ServesInputFacts ==
  ASSUME ConsoleTyped, ServesInput
  PROVE  /\ ConsoleTyped' /\ Takes("input") /\ Asked.p \in Screens
         /\ \/ /\ Asked.p = seat.held /\ outbound' = outbound
               /\ SeatKeeps([kind |-> "input", p |-> Asked.p])
            \/ Asked.p # seat.held /\ seat' = seat /\ NotAnswered(Asked.p)
<1>1. Serves("input") BY DEF ServesInput
<1>2. Takes("input") /\ Asked.p \in Screens /\ page' = page /\ stage' = stage
  BY <1>1, TakesLemma DEF Takes
<1>3. CASE Asked.p # seat.held
  <2>1. seat' = seat /\ (outbound' = outbound \/ Answers(ToPage("refused", Asked.p)))
    BY <1>3 DEF ServesInput
  <2>2. NotAnswered(Asked.p) BY <1>2, <2>1, ScreenToldLemma DEF NotAnswered, DownKinds
  <2>3. ConsoleTyped' BY <1>1, <1>2, <2>1, <2>2, SeatAlone DEF NotAnswered
  <2> QED BY <1>2, <1>3, <2>1, <2>2, <2>3
<1>4. CASE Asked.p = seat.held
  <2> DEFINE errand == [kind |-> "input", p |-> Asked.p]
  <2>1. seat' = [seat EXCEPT !.work = errand] /\ outbound' = outbound BY <1>4 DEF ServesInput
  <2>2. errand \in Errands /\ errand.kind = "input" /\ errand.p = Asked.p
    BY <1>2 DEF Errands, AnyScreen
  <2>3. seat \in Seats /\ outbound' \in Seq(Reports) BY <2>1 DEF ConsoleTyped
  <2> HIDE DEF errand
  <2>4. seat' \in Seats /\ SeatKeeps(errand) BY <2>1, <2>2, <2>3, SeatLemma DEF SeatKeeps
  <2>5. /\ seat'.work.kind = "none" => seat'.work = AtRest
        /\ seat'.work.kind # "none" => seat'.work.p \in Screens
    BY <1>2, <2>2, <2>4 DEF SeatReads, SeatKeeps
  <2>6. ConsoleTyped' BY <1>1, <1>2, <2>3, <2>4, <2>5, ServedTyped
  <2> QED BY <1>2, <1>4, <2>1, <2>4, <2>6 DEF errand
<1> QED BY <1>3, <1>4

\* The phone that is held is taken from the seat.
SeatFreed(work) ==
  /\ SeatReads(seat', NoScreen, seat.eye, IF seat.stream = seat.held THEN NoScreen ELSE seat.stream,
               seat.seq, work)

\* A release lets the phone go that is held, and no other.
LEMMA ServesReleaseFacts ==
  ASSUME ConsoleTyped, ServesRelease
  PROVE  /\ ConsoleTyped' /\ Takes("release") /\ Asked.p \in Screens
         /\ \/ Asked.p = seat.held /\ outbound' = outbound /\ SeatFreed(seat.work)
            \/ Asked.p # seat.held /\ seat' = seat /\ NotAnswered(Asked.p)
<1>1. Serves("release") BY DEF ServesRelease
<1>2. Takes("release") /\ Asked.p \in Screens /\ page' = page /\ stage' = stage
  BY <1>1, TakesLemma DEF Takes
<1>3. CASE Asked.p # seat.held
  <2>1. seat' = seat /\ (outbound' = outbound \/ Answers(ToPage("refused", Asked.p)))
    BY <1>3 DEF ServesRelease
  <2>2. NotAnswered(Asked.p) BY <1>2, <2>1, ScreenToldLemma DEF NotAnswered, DownKinds
  <2>3. ConsoleTyped' BY <1>1, <1>2, <2>1, <2>2, SeatAlone DEF NotAnswered
  <2> QED BY <1>2, <1>3, <2>1, <2>2, <2>3
<1>4. CASE Asked.p = seat.held
  <2>1. seat' = Freed(seat) /\ outbound' = outbound BY <1>4 DEF ServesRelease
  <2>2. seat \in Seats /\ outbound' \in Seq(Reports) BY <2>1 DEF ConsoleTyped
  <2>3. seat' \in Seats /\ SeatFreed(seat.work) BY <2>1, <2>2, SeatLemma DEF SeatFreed
  <2>4. /\ seat'.work.kind = "none" => seat'.work = AtRest
        /\ seat'.work.kind # "none" => seat'.work.p \in Screens
    BY <2>3 DEF SeatReads, SeatFreed, ConsoleTyped
  <2>5. ConsoleTyped' BY <1>1, <1>2, <2>2, <2>3, <2>4, ServedTyped
  <2> QED BY <1>2, <1>4, <2>1, <2>3, <2>5
<1> QED BY <1>3, <1>4

\* A seat that is at rest is typed.
LEMMA RestTyped ==
  ASSUME ConsoleTyped, TakesNone, seat' \in Seats, outbound' \in Seq(Reports), seat'.work = AtRest
  PROVE  ConsoleTyped'
<1>1. AtRest.kind = "none" BY DEF AtRest
<1> QED BY <1>1, ServedTyped DEF TakesNone

\* The seat of a message that was served.
LEMMA ScreenIdleLemma ==
  ASSUME ConsoleTyped
  PROVE  LET idle == [seat EXCEPT !.work = AtRest] IN
         /\ idle \in Seats /\ SeatReads(idle, seat.held, seat.eye, seat.stream, seat.seq, AtRest)
         /\ Freed(idle) \in Seats
         /\ SeatReads(Freed(idle), NoScreen, seat.eye,
                      IF seat.stream = seat.held THEN NoScreen ELSE seat.stream, seat.seq, AtRest)
         /\ Blind(idle) \in Seats
         /\ SeatReads(Blind(idle), seat.held, NoScreen,
                      IF seat.stream = seat.eye THEN NoScreen ELSE seat.stream, seat.seq, AtRest)
<1> DEFINE idle == [seat EXCEPT !.work = AtRest]
<1>1. seat \in Seats BY DEF ConsoleTyped
<1>2. AtRest \in Errands BY DEF AtRest, Errands, AnyScreen
<1>3. idle \in Seats /\ SeatReads(idle, seat.held, seat.eye, seat.stream, seat.seq, AtRest)
  BY <1>1, <1>2, SeatLemma
<1> HIDE DEF idle
<1>4. /\ Freed(idle) \in Seats
      /\ SeatReads(Freed(idle), NoScreen, idle.eye, IF idle.stream = idle.held THEN NoScreen ELSE idle.stream,
                   idle.seq, idle.work)
      /\ Blind(idle) \in Seats
      /\ SeatReads(Blind(idle), idle.held, NoScreen, IF idle.stream = idle.eye THEN NoScreen ELSE idle.stream,
                   idle.seq, idle.work)
  BY <1>3, SeatLemma
<1>5. /\ SeatReads(Freed(idle), NoScreen, seat.eye,
                   IF seat.stream = seat.held THEN NoScreen ELSE seat.stream, seat.seq, AtRest)
      /\ SeatReads(Blind(idle), seat.held, NoScreen,
                   IF seat.stream = seat.eye THEN NoScreen ELSE seat.stream, seat.seq, AtRest)
  BY <1>3, <1>4 DEF SeatReads
<1> QED BY <1>3, <1>4, <1>5 DEF idle

\* The picture after a claim or an input, or the word that there is none.
LEMMA ShowsFacts ==
  ASSUME ConsoleTyped, Shows
  PROVE  /\ ConsoleTyped' /\ TakesNone /\ seat.work.kind \in {"select", "input"}
         /\ seat.work.p \in Screens
         /\ \/ seat.held # seat.work.p /\ outbound' = outbound /\ SeatKeeps(AtRest)
            \/ seat.held = seat.work.p /\ SeatKeeps(AtRest)
                 /\ \/ outbound' = outbound /\ seat.work.kind = "input"
                    \/ Adds(Report("failed", seat.work.p, 0))
                    \/ Adds(Report("frame", seat.work.p, IF seat.work.kind = "select" THEN 0 ELSE 1))
            \/ /\ seat.held = seat.work.p /\ SeatFreed(AtRest)
               /\ AddsTwo(Report("failed", seat.work.p, 0), Report("closed_phone", seat.work.p, 0))
<1> DEFINE p == seat.work.p
           after == IF seat.work.kind = "select" THEN 0 ELSE 1
           idle == [seat EXCEPT !.work = AtRest]
<1>1. /\ TakesNone /\ seat.work.kind \in {"select", "input"}
      /\ IF seat.held # p THEN seat' = idle /\ outbound' = outbound
         ELSE \/ seat' = idle /\ IF seat.work.kind = "input" /\ seat.stream = p THEN outbound' = outbound
                                 ELSE Answers(<<[kind |-> "frame", p |-> p, id |-> after]>>)
              \/ seat' = idle /\ Answers(ToPage("failed", p))
              \/ seat' = Freed(idle) /\ Answers(ToPage("failed", p) \o ToPage("closed_phone", p))
  BY DEF Shows, TakesNone
<1>2. p \in Screens /\ after \in Nat /\ outbound \in Seq(Reports) BY <1>1 DEF ConsoleTyped
<1>3. /\ idle \in Seats /\ SeatReads(idle, seat.held, seat.eye, seat.stream, seat.seq, AtRest)
      /\ Freed(idle) \in Seats
      /\ SeatReads(Freed(idle), NoScreen, seat.eye,
                   IF seat.stream = seat.held THEN NoScreen ELSE seat.stream, seat.seq, AtRest)
  BY ScreenIdleLemma
<1> HIDE DEF p, after, idle
<1>4. CASE seat.held # p
  <2>1. seat' = idle /\ outbound' = outbound BY <1>1, <1>4
  <2>2. seat' \in Seats /\ SeatKeeps(AtRest) BY <1>3, <2>1 DEF SeatKeeps
  <2>3. outbound' \in Seq(Reports) BY <1>2, <2>1
  <2>4. ConsoleTyped' BY <1>1, <2>2, <2>3, RestTyped DEF SeatKeeps, SeatReads
  <2> QED BY <1>1, <1>2, <1>4, <2>1, <2>2, <2>4 DEF p
<1>5. CASE /\ seat.held = p /\ seat' = idle
           /\ \/ outbound' = outbound /\ seat.work.kind = "input"
              \/ Answers(<<[kind |-> "frame", p |-> p, id |-> after]>>)
              \/ Answers(ToPage("failed", p))
  <2>1. seat' \in Seats /\ SeatKeeps(AtRest) BY <1>3, <1>5 DEF SeatKeeps
  <2>2. \/ outbound' = outbound /\ seat.work.kind = "input"
        \/ Adds(Report("failed", p, 0))
        \/ Adds(Report("frame", p, after))
    <3>1. ASSUME Answers(<<[kind |-> "frame", p |-> p, id |-> after]>>)
          PROVE  Adds(Report("frame", p, after))
      <4>1. Answers(<<Report("frame", p, after)>>) BY <3>1 DEF Report
      <4> QED BY <1>2, <4>1, AddsLemma DEF DownKinds
    <3>2. ASSUME Answers(ToPage("failed", p)) PROVE Adds(Report("failed", p, 0))
      BY <1>2, <3>2, ScreenToldLemma DEF DownKinds
    <3> QED BY <1>5, <3>1, <3>2
  <2>3. outbound' \in Seq(Reports) BY <1>2, <2>2 DEF Adds
  <2>4. ConsoleTyped' BY <1>1, <2>1, <2>3, RestTyped DEF SeatKeeps, SeatReads
  <2> QED BY <1>1, <1>2, <1>5, <2>1, <2>2, <2>4 DEF p, after
<1>6. CASE /\ seat.held = p /\ seat' = Freed(idle)
           /\ Answers(ToPage("failed", p) \o ToPage("closed_phone", p))
  <2>1. seat' \in Seats /\ SeatFreed(AtRest) BY <1>3, <1>6 DEF SeatFreed
  <2> DEFINE a == Report("failed", p, 0)
             b == Report("closed_phone", p, 0)
  <2>2. a \in Reports /\ b \in Reports /\ ToPage("failed", p) = <<a>> /\ ToPage("closed_phone", p) = <<b>>
    <3>1. 0 \in Nat /\ "failed" \in DownKinds /\ "closed_phone" \in DownKinds BY DEF DownKinds
    <3>2. a \in Reports /\ ToPage("failed", p) = <<a>> BY <1>2, <3>1, AddsLemma
    <3>3. b \in Reports /\ ToPage("closed_phone", p) = <<b>> BY <1>2, <3>1, AddsLemma
    <3> QED BY <3>2, <3>3
  <2> HIDE DEF a, b
  <2>3. outbound' = outbound \o (<<a>> \o <<b>>) BY <1>6, <2>2 DEF Answers
  <2>4. AddsTwo(a, b) BY <1>2, <2>2, <2>3, TwoLonger DEF AddsTwo
  <2>5. outbound' \in Seq(Reports) BY <2>4 DEF AddsTwo
  <2>6. ConsoleTyped' BY <1>1, <2>1, <2>5, RestTyped DEF SeatFreed, SeatReads
  <2> QED BY <1>1, <1>2, <1>6, <2>1, <2>4, <2>6 DEF p, a, b
<1> QED BY <1>1, <1>4, <1>5, <1>6

\* The picture of a phone that is watched, or the word that there is none.
LEMMA ShowsWatchedFacts ==
  ASSUME ConsoleTyped, ShowsWatched
  PROVE  /\ ConsoleTyped' /\ TakesNone /\ seat.work.kind = "watch" /\ seat.work.p \in Screens
         /\ \/ /\ SeatKeeps(AtRest)
               /\ IF seat.eye = seat.work.p THEN Adds(Report("watch_frame", seat.work.p, 0))
                  ELSE outbound' = outbound
            \/ /\ Adds(Report("watch_failed", seat.work.p, 0))
               /\ SeatReads(seat', seat.held, NoScreen,
                            IF seat.stream = seat.eye THEN NoScreen ELSE seat.stream, seat.seq, AtRest)
<1> DEFINE p == seat.work.p
           idle == [seat EXCEPT !.work = AtRest]
<1>1. /\ TakesNone /\ seat.work.kind = "watch"
      /\ \/ /\ seat' = idle
            /\ IF seat.eye = p THEN Answers(ToPage("watch_frame", p)) ELSE outbound' = outbound
         \/ seat' = Blind(idle) /\ Answers(ToPage("watch_failed", p))
  BY DEF ShowsWatched, TakesNone
<1>2. p \in Screens /\ outbound \in Seq(Reports) BY <1>1 DEF ConsoleTyped
<1>3. /\ idle \in Seats /\ SeatReads(idle, seat.held, seat.eye, seat.stream, seat.seq, AtRest)
      /\ Blind(idle) \in Seats
      /\ SeatReads(Blind(idle), seat.held, NoScreen,
                   IF seat.stream = seat.eye THEN NoScreen ELSE seat.stream, seat.seq, AtRest)
  BY ScreenIdleLemma
<1> HIDE DEF p, idle
<1>4. CASE /\ seat' = idle
           /\ IF seat.eye = p THEN Answers(ToPage("watch_frame", p)) ELSE outbound' = outbound
  <2>1. seat' \in Seats /\ SeatKeeps(AtRest) BY <1>3, <1>4 DEF SeatKeeps
  <2>2. IF seat.eye = p THEN Adds(Report("watch_frame", p, 0)) ELSE outbound' = outbound
    BY <1>2, <1>4, ScreenToldLemma DEF DownKinds
  <2>3. outbound' \in Seq(Reports) BY <1>2, <2>2 DEF Adds
  <2>4. ConsoleTyped' BY <1>1, <2>1, <2>3, RestTyped DEF SeatKeeps, SeatReads
  <2> QED BY <1>1, <1>2, <2>1, <2>2, <2>4 DEF p
<1>5. CASE seat' = Blind(idle) /\ Answers(ToPage("watch_failed", p))
  <2>1. Adds(Report("watch_failed", p, 0)) BY <1>2, <1>5, ScreenToldLemma DEF DownKinds
  <2>2. /\ seat' \in Seats
        /\ SeatReads(seat', seat.held, NoScreen,
                     IF seat.stream = seat.eye THEN NoScreen ELSE seat.stream, seat.seq, AtRest)
    BY <1>3, <1>5
  <2>3. outbound' \in Seq(Reports) BY <2>1 DEF Adds
  <2>4. ConsoleTyped' BY <1>1, <2>2, <2>3, RestTyped DEF SeatReads
  <2> QED BY <1>1, <1>2, <2>1, <2>2, <2>4 DEF p
<1> QED BY <1>1, <1>4, <1>5

\* What is told of a stream.
LEMMA StreamToldFacts ==
  ASSUME ConsoleTyped, SendsVideo \/ VideoBreaks
  PROVE  /\ ConsoleTyped' /\ TakesNone /\ seat' = seat /\ seat.stream \in Screens
         /\ \/ /\ Adds(Report("video", seat.stream, seat.seq))
               /\ \A i \in 1..Len(outbound) : outbound[i].kind # "video"
            \/ Adds(Report("broken", seat.stream, seat.seq))
<1>1. /\ TakesNone /\ seat' = seat /\ seat.stream # NoScreen
      /\ \/ /\ Answers(<<[kind |-> "video", p |-> seat.stream, id |-> seat.seq]>>)
            /\ \A i \in DOMAIN outbound : outbound[i].kind # "video"
         \/ Answers(<<[kind |-> "broken", p |-> seat.stream, id |-> seat.seq]>>)
  BY DEF SendsVideo, VideoBreaks, TakesNone
<1>2. seat \in Seats /\ outbound \in Seq(Reports) BY DEF ConsoleTyped
<1>3. seat.stream \in Screens /\ seat.seq \in Nat BY <1>1, <1>2 DEF Seats, AnyScreen
<1>4. DOMAIN outbound = 1..Len(outbound) BY <1>2
<1>5. ASSUME NEW kind \in {"video", "broken"},
             Answers(<<[kind |-> kind, p |-> seat.stream, id |-> seat.seq]>>)
      PROVE  Adds(Report(kind, seat.stream, seat.seq))
  <2>1. Answers(<<Report(kind, seat.stream, seat.seq)>>) BY <1>5 DEF Report
  <2> QED BY <1>3, <2>1, AddsLemma DEF DownKinds
<1>6. \/ /\ Adds(Report("video", seat.stream, seat.seq))
         /\ \A i \in 1..Len(outbound) : outbound[i].kind # "video"
      \/ Adds(Report("broken", seat.stream, seat.seq))
  BY <1>1, <1>4, <1>5
<1>7. ConsoleTyped' BY <1>1, <1>6, SeatAlone DEF TakesNone
<1> QED BY <1>1, <1>3, <1>6, <1>7

\* What is taken from the seat, or only looks so, and the page is told.
Taken == AccessRevoked \/ WatchRevoked \/ PhoneLooksClosed

\* The page is told of a phone that is taken from the seat, or that only looks closed.
LEMMA TakenFacts ==
  ASSUME ConsoleTyped, Taken
  PROVE  /\ ConsoleTyped' /\ TakesNone
         /\ \/ /\ seat.held \in Screens /\ SeatFreed(seat.work)
               /\ Adds(Report("revoked", seat.held, 0))
            \/ /\ seat.eye \in Screens /\ Adds(Report("watch_stopped", seat.eye, 0))
               /\ SeatReads(seat', seat.held, NoScreen,
                            IF seat.stream = seat.eye THEN NoScreen ELSE seat.stream, seat.seq,
                            seat.work)
            \/ /\ seat.held \in Screens /\ seat' = seat
               /\ Adds(Report("closed_phone", seat.held, 0))
<1>1. seat \in Seats /\ TakesNone
  BY DEF ConsoleTyped, Taken, AccessRevoked, WatchRevoked, PhoneLooksClosed, TakesNone
<1>2. /\ seat.held # NoScreen => seat.held \in Screens
      /\ seat.eye # NoScreen => seat.eye \in Screens
  BY <1>1 DEF Seats, AnyScreen
<1>3. ASSUME seat' \in Seats, outbound' \in Seq(Reports), seat'.work = seat.work
      PROVE  ConsoleTyped'
  BY <1>1, <1>3, ServedTyped DEF TakesNone, ConsoleTyped
<1>4. CASE AccessRevoked
  <2>1. seat.held \in Screens /\ seat' = Freed(seat) /\ Answers(ToPage("revoked", seat.held))
    BY <1>2, <1>4 DEF AccessRevoked
  <2>2. Adds(Report("revoked", seat.held, 0)) BY <2>1, ScreenToldLemma DEF DownKinds
  <2>3. seat' \in Seats /\ SeatFreed(seat.work) BY <1>1, <2>1, SeatLemma DEF SeatFreed
  <2>4. ConsoleTyped' BY <1>3, <2>2, <2>3 DEF SeatFreed, SeatReads, Adds
  <2> QED BY <1>1, <2>1, <2>2, <2>3, <2>4
<1>5. CASE WatchRevoked
  <2>1. seat.eye \in Screens /\ seat' = Blind(seat) /\ Answers(ToPage("watch_stopped", seat.eye))
    BY <1>2, <1>5 DEF WatchRevoked
  <2>2. Adds(Report("watch_stopped", seat.eye, 0)) BY <2>1, ScreenToldLemma DEF DownKinds
  <2>3. /\ seat' \in Seats
        /\ SeatReads(seat', seat.held, NoScreen,
                     IF seat.stream = seat.eye THEN NoScreen ELSE seat.stream, seat.seq, seat.work)
    BY <1>1, <2>1, SeatLemma
  <2>4. ConsoleTyped' BY <1>3, <2>2, <2>3 DEF SeatReads, Adds
  <2> QED BY <1>1, <2>1, <2>2, <2>3, <2>4
<1>6. CASE PhoneLooksClosed
  <2>1. seat.held \in Screens /\ seat' = seat /\ Answers(ToPage("closed_phone", seat.held))
    BY <1>2, <1>6 DEF PhoneLooksClosed
  <2>2. Adds(Report("closed_phone", seat.held, 0)) BY <2>1, ScreenToldLemma DEF DownKinds
  <2>3. ConsoleTyped' BY <1>1, <1>3, <2>1, <2>2 DEF Adds
  <2> QED BY <1>1, <2>1, <2>2, <2>3
<1> QED BY <1>4, <1>5, <1>6 DEF Taken

\* A connection that is lost leaves nothing.
LEMMA LineDropsFacts ==
  ASSUME ConsoleTyped, LineDrops
  PROVE  /\ ConsoleTyped' /\ inbound' = <<>> /\ outbound' = <<>> /\ seat' = EmptySeat
         /\ stage' = BlankStage
         /\ Reads(page', "fleet", NoScreen, NoScreen, NoScreen, NoScreen, {})
<1>1. /\ inbound' = <<>> /\ outbound' = <<>> /\ seat' = EmptySeat /\ stage' = BlankStage
      /\ page' = [Deselected(page) EXCEPT !.watched = NoScreen, !.asking = NoScreen, !.lost = {}]
  BY DEF LineDrops
<1>2. page \in ScreenPages BY GivesUpLemma
<1>3. /\ Deselected(page) \in ScreenPages
      /\ Reads(Deselected(page), "fleet", NoScreen, NoScreen, page.watched, page.asking, page.lost)
  BY <1>2, PageLemma
<1>4. page' \in ScreenPages /\ Reads(page', "fleet", NoScreen, NoScreen, NoScreen, NoScreen, {})
  BY <1>1, <1>3 DEF ScreenPages, Reads, AnyScreen
<1>5. EmptySeat \in Seats /\ EmptySeat.work = AtRest /\ AtRest.kind = "none"
  BY DEF EmptySeat, Seats, AtRest, Errands, AnyScreen
<1>6. /\ <<>> \in Seq(Requests) /\ <<>> \in Seq(Reports) /\ Len(<<>>) = 0
      /\ \A i \in 1..0 : FALSE
  BY EmptySeq
<1>7. ConsoleTyped' BY <1>1, <1>4, <1>5, <1>6, StageLemma DEF ConsoleTyped
<1> QED BY <1>1, <1>4, <1>7

------------------------------------------------------------------------------
(* The picture is of the phone that is controlled.                         *)

OperatorStep ==
  \/ \E p \in Screens : OpensPhone(p) \/ AsksToWatch(p)
  \/ \E view \in {"fleet", "other"} : Leaves(view)
  \/ OpensMedia \/ Releases \/ Touches \/ RetriesVideo
HeardStep ==
  \/ HearsFrame \/ HearsError \/ HearsRevoked \/ HearsClosedPhone
  \/ HearsStream \/ HearsWatchStarted \/ HearsWatchStopped
ServedStep ==
  \/ ServesSelect \/ ServesWatch \/ ServesUnwatch \/ ServesStart \/ ServesStop \/ ServesInput
  \/ ServesRelease \/ Shows \/ ShowsWatched \/ SendsVideo \/ VideoBreaks \/ Taken

\* The steps of the page and of the server are the steps there are.
LEMMA ConsoleSteps ==
  ASSUME ConsoleNext
  PROVE  OperatorStep \/ HeardStep \/ ServedStep \/ LineDrops \/ Reconnects
BY DEF ConsoleNext, OperatorStep, HeardStep, ServedStep, HearsStream, Taken

\* The stream of the seat stays as it is, or stops.
StreamKept == seat'.seq = seat.seq /\ seat'.stream \in {NoScreen, seat.stream}

\* The page hears nothing new of a stream.
QuietOnStreams ==
  /\ StreamKept
  /\ \/ outbound' = outbound
     \/ \E m : Adds(m) /\ ~Streamed(m) /\ (m.kind = "frame" => seat'.stream \in {NoScreen, m.p})
     \/ \E a, b : /\ AddsTwo(a, b) /\ ~Streamed(a) /\ ~Streamed(b)
                  /\ a.kind # "frame" /\ b.kind # "frame"

\* A stream begins, or its video is sent.
StreamBegins ==
  \E p \in Screens : /\ seat'.stream = p /\ seat'.seq = seat.seq + 1
                     /\ Adds(Report("started", p, seat.seq + 1))
StreamGoesOn ==
  seat' = seat /\ seat.stream \in Screens /\ Adds(Report("video", seat.stream, seat.seq))

\* A step of the server that says one thing, which is not about a stream.
LEMMA QuietReport ==
  ASSUME NEW kind, kind \notin {"started", "video", "frame"}, NEW p, NEW id,
         Adds(Report(kind, p, id)), StreamKept
  PROVE  QuietOnStreams
<1>1. ~Streamed(Report(kind, p, id)) /\ Report(kind, p, id).kind # "frame"
  BY DEF Report, Streamed
<1> QED BY <1>1 DEF QuietOnStreams

\* What a step of the server does to the streams.
LEMMA ServedStreams ==
  ASSUME ConsoleTyped, SeatInv, ServedStep
  PROVE  /\ ConsoleTyped' /\ SeatInv' /\ page' = page /\ stage' = stage
         /\ QuietOnStreams \/ StreamBegins \/ StreamGoesOn
<1>1. CASE ServesSelect
  <2>1. /\ ConsoleTyped' /\ Takes("select") /\ Asked.p \in Screens
        /\ \/ seat' = seat /\ Adds(Report("refused", Asked.p, 0))
           \/ /\ outbound' = outbound
              /\ SeatReads(seat', Asked.p, NoScreen, NoScreen, seat.seq,
                           [kind |-> "select", p |-> Asked.p])
    BY <1>1, ServesSelectFacts
  <2>2. StreamKept BY <2>1 DEF StreamKept, SeatReads
  <2>3. SeatInv' BY <2>1 DEF SeatInv, SeatReads
  <2>4. QuietOnStreams
    <3>1. CASE Adds(Report("refused", Asked.p, 0)) BY <2>2, <3>1, QuietReport
    <3>2. CASE outbound' = outbound BY <2>2, <3>2 DEF QuietOnStreams
    <3> QED BY <2>1, <3>1, <3>2
  <2> QED BY <2>1, <2>3, <2>4 DEF Takes
<1>2. CASE ServesWatch
  <2>1. /\ ConsoleTyped' /\ Takes("watch") /\ Asked.p \in Screens
        /\ \/ seat' = seat /\ Adds(Report("watch_failed", Asked.p, 0))
           \/ /\ seat.held = NoScreen /\ Adds(Report("watch_started", Asked.p, 0))
              /\ SeatReads(seat', NoScreen, Asked.p,
                           IF seat.eye = Asked.p THEN seat.stream ELSE NoScreen, seat.seq,
                           [kind |-> "watch", p |-> Asked.p])
    BY <1>2, ServesWatchFacts
  <2>2. StreamKept BY <2>1 DEF StreamKept, SeatReads
  <2>3. SeatInv' BY <2>1 DEF SeatInv, SeatReads
  <2>4. QuietOnStreams
    <3>1. CASE Adds(Report("watch_failed", Asked.p, 0)) BY <2>2, <3>1, QuietReport
    <3>2. CASE Adds(Report("watch_started", Asked.p, 0)) BY <2>2, <3>2, QuietReport
    <3> QED BY <2>1, <3>1, <3>2
  <2> QED BY <2>1, <2>3, <2>4 DEF Takes
<1>3. CASE ServesUnwatch
  <2>1. /\ ConsoleTyped' /\ Takes("unwatch") /\ Asked.p \in Screens /\ outbound' = outbound
        /\ \/ /\ seat.eye = Asked.p
              /\ SeatReads(seat', seat.held, NoScreen, NoScreen, seat.seq, seat.work)
           \/ seat.eye # Asked.p /\ seat' = seat
    BY <1>3, ServesUnwatchFacts
  <2>2. StreamKept BY <2>1 DEF StreamKept, SeatReads
  <2>3. SeatInv' BY <2>1 DEF SeatInv, SeatReads
  <2> QED BY <2>1, <2>2, <2>3 DEF Takes, QuietOnStreams
<1>4. CASE ServesStart
  <2>1. /\ ConsoleTyped' /\ Takes("start") /\ Asked.p \in Screens
        /\ \/ /\ seat' = seat
              /\ \E kind \in {"refused", "unsupported"} : Adds(Report(kind, Asked.p, 0))
           \/ /\ Asked.p \in {seat.held, seat.eye}
              /\ Adds(Report("started", Asked.p, seat.seq + 1))
              /\ SeatReads(seat', seat.held, seat.eye, Asked.p, seat.seq + 1, seat.work)
    BY <1>4, ServesStartFacts
  <2>2. SeatInv' BY <2>1 DEF SeatInv, SeatReads
  <2>3. CASE seat' = seat /\ \E kind \in {"refused", "unsupported"} : Adds(Report(kind, Asked.p, 0))
    <3>1. StreamKept BY <2>3 DEF StreamKept
    <3>2. QuietOnStreams BY <2>3, <3>1, QuietReport
    <3> QED BY <2>1, <2>2, <3>2 DEF Takes
  <2>4. CASE /\ Adds(Report("started", Asked.p, seat.seq + 1))
             /\ SeatReads(seat', seat.held, seat.eye, Asked.p, seat.seq + 1, seat.work)
    <3>1. StreamBegins BY <2>1, <2>4 DEF StreamBegins, SeatReads
    <3> QED BY <2>1, <2>2, <3>1 DEF Takes
  <2> QED BY <2>1, <2>3, <2>4
<1>5. CASE ServesStop
  <2>1. /\ ConsoleTyped' /\ Takes("stop") /\ outbound' = outbound
        /\ SeatReads(seat', seat.held, seat.eye, NoScreen, seat.seq, seat.work)
    BY <1>5, ServesStopFacts
  <2>2. StreamKept BY <2>1 DEF StreamKept, SeatReads
  <2>3. SeatInv' BY <2>1 DEF SeatInv, SeatReads
  <2> QED BY <2>1, <2>2, <2>3 DEF Takes, QuietOnStreams
<1>6. CASE ServesInput
  <2>1. /\ ConsoleTyped' /\ Takes("input")
        /\ \/ outbound' = outbound /\ SeatKeeps([kind |-> "input", p |-> Asked.p])
           \/ seat' = seat /\ NotAnswered(Asked.p)
    BY <1>6, ServesInputFacts
  <2>2. StreamKept BY <2>1 DEF StreamKept, SeatReads, SeatKeeps
  <2>3. SeatInv' BY <2>1 DEF SeatInv, SeatReads, SeatKeeps
  <2>4. QuietOnStreams
    <3>1. CASE Adds(Report("refused", Asked.p, 0)) BY <2>2, <3>1, QuietReport
    <3>2. CASE outbound' = outbound BY <2>2, <3>2 DEF QuietOnStreams
    <3> QED BY <2>1, <3>1, <3>2 DEF NotAnswered
  <2> QED BY <2>1, <2>3, <2>4 DEF Takes
<1>7. CASE ServesRelease
  <2>1. /\ ConsoleTyped' /\ Takes("release")
        /\ \/ outbound' = outbound /\ SeatFreed(seat.work)
           \/ seat' = seat /\ NotAnswered(Asked.p)
    BY <1>7, ServesReleaseFacts
  <2>2. StreamKept BY <2>1 DEF StreamKept, SeatReads, SeatFreed
  <2>3. SeatInv' BY <2>1 DEF SeatInv, SeatReads, SeatFreed
  <2>4. QuietOnStreams
    <3>1. CASE Adds(Report("refused", Asked.p, 0)) BY <2>2, <3>1, QuietReport
    <3>2. CASE outbound' = outbound BY <2>2, <3>2 DEF QuietOnStreams
    <3> QED BY <2>1, <3>1, <3>2 DEF NotAnswered
  <2> QED BY <2>1, <2>3, <2>4 DEF Takes
<1>8. CASE Shows
  <2> DEFINE p == seat.work.p
             after == IF seat.work.kind = "select" THEN 0 ELSE 1
  <2>1. /\ ConsoleTyped' /\ TakesNone /\ p \in Screens
        /\ \/ outbound' = outbound /\ SeatKeeps(AtRest)
           \/ Adds(Report("failed", p, 0)) /\ SeatKeeps(AtRest)
           \/ Adds(Report("frame", p, after)) /\ SeatKeeps(AtRest) /\ seat.held = p
           \/ /\ SeatFreed(AtRest)
              /\ AddsTwo(Report("failed", p, 0), Report("closed_phone", p, 0))
    BY <1>8, ShowsFacts
  <2> HIDE DEF p, after
  <2>2. StreamKept BY <2>1 DEF StreamKept, SeatReads, SeatFreed, SeatKeeps
  <2>3. AtRest.kind = "none" BY DEF AtRest
  <2>4. SeatInv' BY <2>1, <2>3 DEF SeatInv, SeatReads, SeatFreed, SeatKeeps
  <2>5. QuietOnStreams
    <3>1. CASE outbound' = outbound BY <2>2, <3>1 DEF QuietOnStreams
    <3>2. CASE Adds(Report("failed", p, 0)) BY <2>2, <3>2, QuietReport
    <3>3. CASE Adds(Report("frame", p, after)) /\ SeatKeeps(AtRest) /\ seat.held = p
      <4>1. ~Streamed(Report("frame", p, after)) /\ Report("frame", p, after).p = p
        BY DEF Report, Streamed
      <4>2. seat.held # NoScreen BY <2>1, <3>3, ConsoleAssumption
      <4>3. seat'.stream \in {NoScreen, p}
        BY <3>3, <4>2 DEF SeatKeeps, SeatReads, SeatInv
      <4> QED BY <2>2, <3>3, <4>1, <4>3 DEF QuietOnStreams
    <3>4. CASE AddsTwo(Report("failed", p, 0), Report("closed_phone", p, 0))
      <4>1. /\ ~Streamed(Report("failed", p, 0)) /\ ~Streamed(Report("closed_phone", p, 0))
            /\ Report("failed", p, 0).kind # "frame" /\ Report("closed_phone", p, 0).kind # "frame"
        BY DEF Report, Streamed
      <4> QED BY <2>2, <3>4, <4>1 DEF QuietOnStreams
    <3> QED BY <2>1, <3>1, <3>2, <3>3, <3>4
  <2> QED BY <2>1, <2>4, <2>5 DEF TakesNone
<1>9. CASE ShowsWatched
  <2> DEFINE p == seat.work.p
  <2>1. /\ ConsoleTyped' /\ TakesNone
        /\ \/ SeatKeeps(AtRest) /\ (Adds(Report("watch_frame", p, 0)) \/ outbound' = outbound)
           \/ /\ Adds(Report("watch_failed", p, 0))
              /\ SeatReads(seat', seat.held, NoScreen,
                           IF seat.stream = seat.eye THEN NoScreen ELSE seat.stream, seat.seq, AtRest)
    BY <1>9, ShowsWatchedFacts
  <2> HIDE DEF p
  <2>2. StreamKept BY <2>1 DEF StreamKept, SeatReads, SeatKeeps
  <2>3. AtRest.kind = "none" BY DEF AtRest
  <2>4. SeatInv' BY <2>1, <2>3 DEF SeatInv, SeatReads, SeatKeeps
  <2>5. QuietOnStreams
    <3>1. CASE outbound' = outbound BY <2>2, <3>1 DEF QuietOnStreams
    <3>2. CASE Adds(Report("watch_frame", p, 0)) BY <2>2, <3>2, QuietReport
    <3>3. CASE Adds(Report("watch_failed", p, 0)) BY <2>2, <3>3, QuietReport
    <3> QED BY <2>1, <3>1, <3>2, <3>3
  <2> QED BY <2>1, <2>4, <2>5 DEF TakesNone
<1>10. CASE SendsVideo \/ VideoBreaks
  <2>1. /\ ConsoleTyped' /\ TakesNone /\ seat' = seat /\ seat.stream \in Screens
        /\ \/ Adds(Report("video", seat.stream, seat.seq))
           \/ Adds(Report("broken", seat.stream, seat.seq))
    BY <1>10, StreamToldFacts
  <2>2. StreamKept /\ SeatInv' BY <2>1 DEF StreamKept, SeatInv
  <2>3. CASE Adds(Report("video", seat.stream, seat.seq))
    <3>1. StreamGoesOn BY <2>1, <2>3 DEF StreamGoesOn
    <3> QED BY <2>1, <2>2, <3>1 DEF TakesNone
  <2>4. CASE Adds(Report("broken", seat.stream, seat.seq))
    <3>1. QuietOnStreams BY <2>2, <2>4, QuietReport
    <3> QED BY <2>1, <2>2, <3>1 DEF TakesNone
  <2> QED BY <2>1, <2>3, <2>4
<1>11. CASE Taken
  <2>1. /\ ConsoleTyped' /\ TakesNone
        /\ \/ SeatFreed(seat.work) /\ Adds(Report("revoked", seat.held, 0))
           \/ /\ Adds(Report("watch_stopped", seat.eye, 0))
              /\ SeatReads(seat', seat.held, NoScreen,
                           IF seat.stream = seat.eye THEN NoScreen ELSE seat.stream, seat.seq,
                           seat.work)
           \/ seat' = seat /\ Adds(Report("closed_phone", seat.held, 0))
    BY <1>11, TakenFacts
  <2>2. StreamKept BY <2>1 DEF StreamKept, SeatReads, SeatFreed
  <2>3. SeatInv' BY <2>1 DEF SeatInv, SeatReads, SeatFreed
  <2>4. QuietOnStreams BY <2>1, <2>2, QuietReport
  <2> QED BY <2>1, <2>3, <2>4 DEF TakesNone
<1> QED BY <1>1, <1>2, <1>3, <1>4, <1>5, <1>6, <1>7, <1>8, <1>9, <1>10, <1>11 DEF ServedStep

\* The place of what is said, behind what is on its way.
LEMMA AddedLemma ==
  ASSUME ConsoleTyped, NEW m, Adds(m)
  PROVE  /\ Len(outbound) \in Nat /\ Len(outbound') = Len(outbound) + 1
         /\ \A i \in 1..Len(outbound) : i \in 1..Len(outbound') /\ outbound'[i] = outbound[i]
         /\ \A i \in 1..Len(outbound') :
              \/ i \in 1..Len(outbound) /\ outbound'[i] = outbound[i]
              \/ i = Len(outbound) + 1 /\ outbound'[i] = m
<1>1. Len(outbound) \in Nat BY MessagesLemma
<1> QED BY <1>1 DEF Adds, Goes

\* The same for two messages.
LEMMA AddedTwoLemma ==
  ASSUME ConsoleTyped, NEW a, NEW b, AddsTwo(a, b)
  PROVE  /\ Len(outbound) \in Nat /\ Len(outbound') = Len(outbound) + 2
         /\ \A i \in 1..Len(outbound) : i \in 1..Len(outbound') /\ outbound'[i] = outbound[i]
         /\ \A i \in 1..Len(outbound') :
              \/ i \in 1..Len(outbound) /\ outbound'[i] = outbound[i]
              \/ i = Len(outbound) + 1 /\ outbound'[i] = a
              \/ i = Len(outbound) + 2 /\ outbound'[i] = b
<1>1. Len(outbound) \in Nat BY MessagesLemma
<1> QED BY <1>1 DEF AddsTwo, Goes

\* The messages on their way stay, and one that comes behind them is not about a stream.
LEMMA QuietMessages ==
  ASSUME ConsoleTyped, QuietOnStreams
  PROVE  /\ Len(outbound) \in Nat /\ Len(outbound') \in Nat /\ Len(outbound) <= Len(outbound')
         /\ \A i \in 1..Len(outbound) : i \in 1..Len(outbound') /\ outbound'[i] = outbound[i]
         /\ \A i \in 1..Len(outbound') :
              \/ i \in 1..Len(outbound) /\ outbound'[i] = outbound[i]
              \/ /\ i > Len(outbound) /\ ~Streamed(outbound'[i])
                 /\ outbound'[i].kind = "frame" =>
                      i = Len(outbound') /\ seat'.stream \in {NoScreen, outbound'[i].p}
<1>1. Len(outbound) \in Nat BY MessagesLemma
<1>2. CASE outbound' = outbound BY <1>1, <1>2
<1>3. ASSUME NEW m, Adds(m), ~Streamed(m), m.kind = "frame" => seat'.stream \in {NoScreen, m.p}
      PROVE  /\ Len(outbound') \in Nat /\ Len(outbound) <= Len(outbound')
             /\ \A i \in 1..Len(outbound) : i \in 1..Len(outbound') /\ outbound'[i] = outbound[i]
             /\ \A i \in 1..Len(outbound') :
                  \/ i \in 1..Len(outbound) /\ outbound'[i] = outbound[i]
                  \/ /\ i > Len(outbound) /\ ~Streamed(outbound'[i])
                     /\ outbound'[i].kind = "frame" =>
                          i = Len(outbound') /\ seat'.stream \in {NoScreen, outbound'[i].p}
  BY <1>1, <1>3, AddedLemma
<1>4. ASSUME NEW a, NEW b, AddsTwo(a, b), ~Streamed(a), ~Streamed(b),
             a.kind # "frame", b.kind # "frame"
      PROVE  /\ Len(outbound') \in Nat /\ Len(outbound) <= Len(outbound')
             /\ \A i \in 1..Len(outbound) : i \in 1..Len(outbound') /\ outbound'[i] = outbound[i]
             /\ \A i \in 1..Len(outbound') :
                  \/ i \in 1..Len(outbound) /\ outbound'[i] = outbound[i]
                  \/ i > Len(outbound) /\ ~Streamed(outbound'[i]) /\ outbound'[i].kind # "frame"
  BY <1>1, <1>4, AddedTwoLemma
<1> QED BY <1>1, <1>2, <1>3, <1>4 DEF QuietOnStreams

\* The same after a step.
LaterNow(n, i) ==
  stage'.id < n /\ \A k \in 1..(i - 1) : outbound'[k].kind = "started" => outbound'[k].id < n

\* What is later than the messages before i stays so while those stay.
LEMMA LaterStays ==
  ASSUME stage' = stage, NEW n, NEW i \in Nat, LaterThan(n, i), Len(outbound) \in Nat,
         i <= Len(outbound) + 1, \A k \in 1..Len(outbound) : outbound'[k] = outbound[k]
  PROVE  LaterNow(n, i)
BY DEF LaterThan, LaterNow

\* The streams, when the page hears nothing new of them.
LEMMA QuietStreamInv ==
  ASSUME ConsoleTyped, ConsoleTyped', StreamInv, QuietOnStreams, stage' = stage
  PROVE  StreamInv'
<1>1. /\ Len(outbound) \in Nat /\ Len(outbound') \in Nat /\ Len(outbound) <= Len(outbound')
      /\ \A i \in 1..Len(outbound) : i \in 1..Len(outbound') /\ outbound'[i] = outbound[i]
      /\ \A i \in 1..Len(outbound') :
           \/ i \in 1..Len(outbound) /\ outbound'[i] = outbound[i]
           \/ /\ i > Len(outbound) /\ ~Streamed(outbound'[i])
              /\ outbound'[i].kind = "frame" =>
                   i = Len(outbound') /\ seat'.stream \in {NoScreen, outbound'[i].p}
  BY QuietMessages
<1>2. seat'.seq = seat.seq /\ seat'.stream \in {NoScreen, seat.stream}
  BY DEF QuietOnStreams, StreamKept
<1>3. stage'.id <= seat'.seq /\ (seat'.stream # NoScreen => seat'.seq > 0)
  BY <1>2 DEF StreamInv
<1>4. \A i \in 1..Len(outbound') : Streamed(outbound'[i]) =>
        /\ outbound'[i].id \in 1..seat'.seq
        /\ outbound'[i].id = seat'.seq => seat'.stream \in {NoScreen, outbound'[i].p}
  BY <1>1, <1>2 DEF StreamInv
<1>5. \A i, j \in 1..Len(outbound') :
        Streamed(outbound'[i]) /\ Streamed(outbound'[j]) /\ outbound'[i].id = outbound'[j].id =>
          outbound'[i].p = outbound'[j].p
  BY SMTT(30), <1>1 DEF StreamInv
<1>6. ASSUME NEW i \in 1..Len(outbound'), outbound'[i].kind = "frame"
      PROVE  /\ seat'.stream \in {NoScreen, outbound'[i].p} \/ LaterNow(seat.seq, i)
             /\ \A j \in (i + 1)..Len(outbound') : outbound'[j].kind = "video" =>
                  outbound'[j].p = outbound'[i].p \/ LaterNow(outbound'[j].id, i)
  <2>1. CASE i \in 1..Len(outbound) /\ outbound'[i] = outbound[i]
    <3>1. seat'.stream \in {NoScreen, outbound'[i].p} \/ LaterNow(seat.seq, i)
      <4>1. seat.stream \in {NoScreen, outbound[i].p} \/ LaterThan(seat.seq, i)
        BY <1>6, <2>1 DEF StreamInv
      <4>2. LaterThan(seat.seq, i) => LaterNow(seat.seq, i) BY <1>1, <2>1, <1>2, LaterStays DEF LaterThan, LaterNow
      <4> QED BY <1>2, <2>1, <4>1, <4>2
    <3>2. ASSUME NEW j \in (i + 1)..Len(outbound'), outbound'[j].kind = "video"
          PROVE  outbound'[j].p = outbound'[i].p \/ LaterNow(outbound'[j].id, i)
      <4>1. j \in 1..Len(outbound') BY <1>1, <2>1, <3>2
      <4>2. j \in (i + 1)..Len(outbound) /\ outbound'[j] = outbound[j]
        BY <1>1, <2>1, <3>2, <4>1 DEF Streamed
      <4>3. outbound[j].p = outbound[i].p \/ LaterThan(outbound[j].id, i)
        BY <1>6, <2>1, <3>2, <4>2 DEF StreamInv
      <4>4. LaterThan(outbound[j].id, i) => LaterNow(outbound'[j].id, i)
        BY SMTT(30), <1>1, <2>1, <4>2 DEF LaterThan, LaterNow
      <4> QED BY <2>1, <4>2, <4>3, <4>4
    <3> QED BY <3>1, <3>2
  <2>2. CASE i = Len(outbound') /\ seat'.stream \in {NoScreen, outbound'[i].p}
    BY <1>1, <2>2
  <2> QED BY <1>1, <1>6, <2>1, <2>2
<1>7. \A i \in 1..Len(outbound') : outbound'[i].kind = "frame" =>
        /\ seat'.stream \in {NoScreen, outbound'[i].p} \/ LaterNow(seat.seq, i)
        /\ \A j \in (i + 1)..Len(outbound') : outbound'[j].kind = "video" =>
             outbound'[j].p = outbound'[i].p \/ LaterNow(outbound'[j].id, i)
  BY <1>6
<1> QED BY <1>2, <1>3, <1>4, <1>5, <1>7 DEF StreamInv, LaterThan, LaterNow

\* The picture, when the page hears nothing new of a stream.
LEMMA QuietPicture ==
  ASSUME ConsoleTyped, PictureInv, QuietOnStreams, stage' = stage, page' = page
  PROVE  PictureInv'
<1>1. \A i \in 1..Len(outbound') :
        \/ i \in 1..Len(outbound) /\ outbound'[i] = outbound[i]
        \/ outbound'[i].kind # "video"
  BY QuietMessages DEF Streamed
<1>2. seat'.seq = seat.seq /\ seat'.stream \in {NoScreen, seat.stream}
  BY DEF QuietOnStreams, StreamKept
<1> QED BY <1>1, <1>2 DEF PictureInv

\* A stream that begins is later than all that the page knows or will be told.
LEMMA BeginsStreamInv ==
  ASSUME ConsoleTyped, StreamInv, StreamBegins, stage' = stage
  PROVE  StreamInv'
<1>1. PICK p \in Screens : /\ seat'.stream = p /\ seat'.seq = seat.seq + 1
                           /\ Adds(Report("started", p, seat.seq + 1))
  BY DEF StreamBegins
<1> DEFINE m == Report("started", p, seat.seq + 1)
<1>2. m.kind = "started" /\ m.p = p /\ m.id = seat.seq + 1 BY DEF Report
<1>3. seat.seq \in Nat /\ stage.id \in Nat BY DEF ConsoleTyped, Seats, Stages
<1> HIDE DEF m
<1>4. /\ Len(outbound) \in Nat /\ Len(outbound') = Len(outbound) + 1
      /\ \A i \in 1..Len(outbound) : i \in 1..Len(outbound') /\ outbound'[i] = outbound[i]
      /\ \A i \in 1..Len(outbound') :
           \/ i \in 1..Len(outbound) /\ outbound'[i] = outbound[i]
           \/ i = Len(outbound) + 1 /\ outbound'[i] = m
  BY <1>1, AddedLemma DEF m
<1>5. stage'.id <= seat'.seq /\ (seat'.stream # NoScreen => seat'.seq > 0)
  BY <1>1, <1>3 DEF StreamInv
<1>6. \A i \in 1..Len(outbound) : Streamed(outbound[i]) => outbound[i].id \in 1..seat.seq
  BY DEF StreamInv
<1>7. \A i \in 1..Len(outbound') : Streamed(outbound'[i]) =>
        /\ outbound'[i].id \in 1..seat'.seq
        /\ outbound'[i].id = seat'.seq => seat'.stream \in {NoScreen, outbound'[i].p}
  BY SMTT(30), <1>1, <1>2, <1>3, <1>4, <1>6
<1>8. \A i, j \in 1..Len(outbound') :
        Streamed(outbound'[i]) /\ Streamed(outbound'[j]) /\ outbound'[i].id = outbound'[j].id =>
          outbound'[i].p = outbound'[j].p
  <2>1. \A i, j \in 1..Len(outbound) :
          Streamed(outbound[i]) /\ Streamed(outbound[j]) /\ outbound[i].id = outbound[j].id =>
            outbound[i].p = outbound[j].p
    BY DEF StreamInv
  <2>2. \A i \in 1..Len(outbound) : Streamed(outbound[i]) => outbound[i].id # m.id
    BY <1>2, <1>3, <1>6
  <2> QED BY <1>4, <2>1, <2>2
<1>9. ASSUME NEW i \in 1..Len(outbound'), outbound'[i].kind = "frame"
      PROVE  /\ LaterNow(seat'.seq, i)
             /\ \A j \in (i + 1)..Len(outbound') : outbound'[j].kind = "video" =>
                  outbound'[j].p = outbound'[i].p \/ LaterNow(outbound'[j].id, i)
  <2>1. i \in 1..Len(outbound) /\ outbound'[i] = outbound[i] BY <1>2, <1>4, <1>9
  <2>2. LaterNow(seat'.seq, i)
    <3>1. stage'.id < seat'.seq BY <1>1, <1>3 DEF StreamInv
    <3>2. ASSUME NEW k \in 1..(i - 1), outbound'[k].kind = "started"
          PROVE  outbound'[k].id < seat'.seq
      <4>1. k \in 1..Len(outbound) /\ outbound'[k] = outbound[k] BY <1>4, <2>1
      <4>2. outbound[k].id \in 1..seat.seq BY <1>6, <3>2, <4>1 DEF Streamed
      <4> QED BY <1>1, <1>3, <4>1, <4>2
    <3> QED BY <3>1, <3>2 DEF LaterNow
  <2>3. ASSUME NEW j \in (i + 1)..Len(outbound'), outbound'[j].kind = "video"
        PROVE  outbound'[j].p = outbound'[i].p \/ LaterNow(outbound'[j].id, i)
    <3>1. j \in (i + 1)..Len(outbound) /\ outbound'[j] = outbound[j] BY <1>2, <1>4, <2>1, <2>3
    <3>2. outbound[j].p = outbound[i].p \/ LaterThan(outbound[j].id, i)
      BY <1>9, <2>1, <2>3, <3>1 DEF StreamInv
    <3>3. LaterThan(outbound[j].id, i) => LaterNow(outbound'[j].id, i)
      BY <1>4, <2>1, <3>1 DEF LaterThan, LaterNow
    <3> QED BY <2>1, <3>1, <3>2, <3>3
  <2> QED BY <2>2, <2>3
<1>10. \A i \in 1..Len(outbound') : outbound'[i].kind = "frame" =>
         /\ LaterNow(seat'.seq, i)
         /\ \A j \in (i + 1)..Len(outbound') : outbound'[j].kind = "video" =>
              outbound'[j].p = outbound'[i].p \/ LaterNow(outbound'[j].id, i)
  BY <1>9
<1> QED BY <1>5, <1>7, <1>8, <1>10 DEF StreamInv, LaterThan, LaterNow

\* Its number is not that of the stream on the stage.
LEMMA BeginsPicture ==
  ASSUME ConsoleTyped, StreamInv, PictureInv, StreamBegins, stage' = stage, page' = page
  PROVE  PictureInv'
<1>1. PICK p \in Screens : /\ seat'.stream = p /\ seat'.seq = seat.seq + 1
                           /\ Adds(Report("started", p, seat.seq + 1))
  BY DEF StreamBegins
<1>2. Report("started", p, seat.seq + 1).kind = "started" BY DEF Report
<1>3. \A i \in 1..Len(outbound') :
        \/ i \in 1..Len(outbound) /\ outbound'[i] = outbound[i]
        \/ outbound'[i].kind # "video"
  BY <1>1, <1>2, AddedLemma
<1>4. seat'.seq # stage'.id BY <1>1 DEF StreamInv, ConsoleTyped, Seats, Stages
<1> QED BY <1>3, <1>4 DEF PictureInv

\* The video that is sent is of the phone that the seat streams, under its number.
LEMMA GoesOnStreamInv ==
  ASSUME ConsoleTyped, StreamInv, StreamGoesOn, stage' = stage
  PROVE  StreamInv'
<1> DEFINE m == Report("video", seat.stream, seat.seq)
<1>1. seat' = seat /\ seat.stream \in Screens /\ Adds(m) BY DEF StreamGoesOn
<1>2. m.kind = "video" /\ m.p = seat.stream /\ m.id = seat.seq BY DEF Report
<1>3. seat.seq \in Nat /\ seat.stream # NoScreen
  BY <1>1, ConsoleAssumption DEF ConsoleTyped, Seats
<1> HIDE DEF m
<1>4. /\ Len(outbound) \in Nat /\ Len(outbound') = Len(outbound) + 1
      /\ \A i \in 1..Len(outbound) : i \in 1..Len(outbound') /\ outbound'[i] = outbound[i]
      /\ \A i \in 1..Len(outbound') :
           \/ i \in 1..Len(outbound) /\ outbound'[i] = outbound[i]
           \/ i = Len(outbound) + 1 /\ outbound'[i] = m
  BY <1>1, AddedLemma
<1>5. stage'.id <= seat'.seq /\ seat'.seq > 0 BY <1>1, <1>3 DEF StreamInv
<1>6. \A i \in 1..Len(outbound) : Streamed(outbound[i]) =>
        /\ outbound[i].id \in 1..seat.seq
        /\ outbound[i].id = seat.seq => outbound[i].p = seat.stream
  BY <1>3 DEF StreamInv
<1>7. \A i \in 1..Len(outbound') : Streamed(outbound'[i]) =>
        /\ outbound'[i].id \in 1..seat'.seq
        /\ outbound'[i].id = seat'.seq => outbound'[i].p = seat'.stream
  BY <1>1, <1>2, <1>3, <1>4, <1>5, <1>6
<1>8. \A i, j \in 1..Len(outbound') :
        Streamed(outbound'[i]) /\ Streamed(outbound'[j]) /\ outbound'[i].id = outbound'[j].id =>
          outbound'[i].p = outbound'[j].p
  <2>1. \A i, j \in 1..Len(outbound) :
          Streamed(outbound[i]) /\ Streamed(outbound[j]) /\ outbound[i].id = outbound[j].id =>
            outbound[i].p = outbound[j].p
    BY DEF StreamInv
  <2>2. \A i \in 1..Len(outbound) :
          Streamed(outbound[i]) /\ outbound[i].id = m.id => outbound[i].p = m.p
    BY <1>2, <1>6
  <2> QED BY <1>4, <2>1, <2>2
<1>9. ASSUME NEW i \in 1..Len(outbound'), outbound'[i].kind = "frame"
      PROVE  /\ seat'.stream \in {NoScreen, outbound'[i].p} \/ LaterNow(seat'.seq, i)
             /\ \A j \in (i + 1)..Len(outbound') : outbound'[j].kind = "video" =>
                  outbound'[j].p = outbound'[i].p \/ LaterNow(outbound'[j].id, i)
  <2>1. i \in 1..Len(outbound) /\ outbound'[i] = outbound[i] BY <1>2, <1>4, <1>9
  <2>2. seat.stream = outbound[i].p \/ LaterThan(seat.seq, i)
    BY <1>3, <1>9, <2>1 DEF StreamInv
  <2>3. LaterThan(seat.seq, i) => LaterNow(seat.seq, i)
    BY <1>4, <2>1 DEF LaterThan, LaterNow
  <2>4. ASSUME NEW j \in (i + 1)..Len(outbound'), outbound'[j].kind = "video"
        PROVE  outbound'[j].p = outbound'[i].p \/ LaterNow(outbound'[j].id, i)
    <3>1. j \in 1..Len(outbound') BY <1>4, <2>1, <2>4
    <3>2. CASE j = Len(outbound) + 1 /\ outbound'[j] = m
      BY <1>2, <2>1, <2>2, <2>3, <3>2
    <3>3. CASE j \in 1..Len(outbound) /\ outbound'[j] = outbound[j]
      <4>1. j \in (i + 1)..Len(outbound) BY <2>1, <2>4, <3>3
      <4>2. outbound[j].p = outbound[i].p \/ LaterThan(outbound[j].id, i)
        BY <1>9, <2>1, <2>4, <3>3, <4>1 DEF StreamInv
      <4>3. LaterThan(outbound[j].id, i) => LaterNow(outbound'[j].id, i)
        BY <1>4, <2>1, <3>3 DEF LaterThan, LaterNow
      <4> QED BY <2>1, <3>3, <4>2, <4>3
    <3> QED BY <1>4, <3>1, <3>2, <3>3
  <2> QED BY <1>1, <2>1, <2>2, <2>3, <2>4
<1>10. \A i \in 1..Len(outbound') : outbound'[i].kind = "frame" =>
         /\ seat'.stream \in {NoScreen, outbound'[i].p} \/ LaterNow(seat'.seq, i)
         /\ \A j \in (i + 1)..Len(outbound') : outbound'[j].kind = "video" =>
              outbound'[j].p = outbound'[i].p \/ LaterNow(outbound'[j].id, i)
  BY <1>9
<1> QED BY <1>5, <1>7, <1>8, <1>10 DEF StreamInv, LaterThan, LaterNow

\* If that is the stream on the stage, it is of the phone that is controlled.
LEMMA GoesOnPicture ==
  ASSUME ConsoleTyped, PictureInv, StreamGoesOn, stage' = stage, page' = page
  PROVE  PictureInv'
<1> DEFINE m == Report("video", seat.stream, seat.seq)
<1>1. seat' = seat /\ seat.stream # NoScreen /\ Adds(m)
  BY ConsoleAssumption DEF StreamGoesOn
<1>2. m.p = seat.stream /\ m.id = seat.seq BY DEF Report
<1> HIDE DEF m
<1>3. \A i \in 1..Len(outbound') :
        \/ i \in 1..Len(outbound) /\ outbound'[i] = outbound[i]
        \/ outbound'[i] = m
  BY <1>1, AddedLemma
<1>4. page.current # NoScreen /\ m.id = stage.id => m.p = page.current
  BY <1>1, <1>2 DEF PictureInv
<1> QED BY <1>1, <1>3, <1>4 DEF PictureInv

\* The picture stays that of the phone in every step of the server.
LEMMA ServedShow ==
  ASSUME ConsoleTyped, ShowInv, ServedStep
  PROVE  ConsoleTyped' /\ ShowInv'
<1>1. /\ ConsoleTyped' /\ SeatInv' /\ page' = page /\ stage' = stage
      /\ QuietOnStreams \/ StreamBegins \/ StreamGoesOn
  BY ServedStreams DEF ShowInv
<1>2. PageInv' BY <1>1 DEF ShowInv, PageInv
<1>3. StreamInv'
  BY <1>1, QuietStreamInv, BeginsStreamInv, GoesOnStreamInv DEF ShowInv
<1>4. PictureInv' BY <1>1, QuietPicture, BeginsPicture, GoesOnPicture DEF ShowInv
<1> QED BY <1>1, <1>2, <1>3, <1>4 DEF ShowInv

\* The stage as the operator leaves it.
LEMMA UntoldShow ==
  ASSUME ConsoleTyped, ShowInv, Untold, stage' = stage \/ stage' = BlankStage,
         page'.current \in {NoScreen, page.current}, PageInv'
  PROVE  ShowInv'
<1>1. outbound' = outbound /\ seat' = seat BY DEF Untold
<1>2. seat.seq \in Nat /\ stage.id \in Nat BY DEF ConsoleTyped, Seats, Stages
<1>3. BlankStage.id = 0 /\ BlankStage.mode = "idle" BY DEF BlankStage
<1>4. SeatInv' BY <1>1 DEF ShowInv, SeatInv
<1>5. stage'.id \in {stage.id, 0} /\ stage'.id <= seat.seq
  BY <1>2, <1>3 DEF ShowInv, StreamInv
<1>6. \A n \in Nat : \A i : LaterThan(n, i) => LaterNow(n, i)
  BY <1>1, <1>2, <1>5 DEF LaterThan, LaterNow
<1>7. StreamInv'
  <2>1. \A i \in 1..Len(outbound) : outbound[i].kind = "frame" =>
          /\ seat.stream \in {NoScreen, outbound[i].p} \/ LaterNow(seat.seq, i)
          /\ \A j \in (i + 1)..Len(outbound) : outbound[j].kind = "video" =>
               outbound[j].p = outbound[i].p \/ LaterNow(outbound[j].id, i)
    <3>1. \A i \in 1..Len(outbound) : \A j \in (i + 1)..Len(outbound) : outbound[j].id \in Nat
      BY MessagesLemma
    <3> QED BY <1>2, <1>6, <3>1 DEF ShowInv, StreamInv
  <2>2. /\ seat.stream # NoScreen => seat.seq > 0
        /\ \A i \in 1..Len(outbound) : Streamed(outbound[i]) =>
             /\ outbound[i].id \in 1..seat.seq
             /\ outbound[i].id = seat.seq => seat.stream \in {NoScreen, outbound[i].p}
        /\ \A i, j \in 1..Len(outbound) :
             Streamed(outbound[i]) /\ Streamed(outbound[j]) /\ outbound[i].id = outbound[j].id =>
               outbound[i].p = outbound[j].p
    BY DEF ShowInv, StreamInv
  <2> QED BY <1>1, <1>5, <2>1, <2>2 DEF StreamInv, LaterThan, LaterNow
<1>8. PictureInv'
  <2>1. CASE page'.current = NoScreen BY <2>1 DEF PictureInv
  <2>2. CASE stage' = stage /\ page'.current = page.current
    BY <1>1, <2>2 DEF ShowInv, PictureInv
  <2>3. CASE stage' = BlankStage
    <3>1. seat.seq = 0 => seat.stream = NoScreen BY DEF ShowInv, StreamInv
    <3>2. \A i \in 1..Len(outbound) : outbound[i].kind = "video" => outbound[i].id # 0
      BY DEF ShowInv, StreamInv, Streamed
    <3> QED BY <1>1, <1>3, <2>3, <3>1, <3>2 DEF PictureInv
  <2> QED BY <2>1, <2>2, <2>3
<1> QED BY <1>4, <1>7, <1>8 DEF ShowInv

\* The picture stays that of the phone in every step of the operator.
LEMMA OperatorShow ==
  ASSUME ConsoleTyped, ShowInv, OperatorStep
  PROVE  ConsoleTyped' /\ ShowInv'
<1>1. PageInv BY DEF ShowInv
<1>2. ASSUME NEW p \in Screens, OpensPhone(p) PROVE ConsoleTyped' /\ ShowInv'
  <2>1. /\ ConsoleTyped' /\ Untold /\ stage' = stage
        /\ Reads(page', "detail", page.current, IF online THEN p ELSE NoScreen, page.watched,
                 page.asking, GivesUp(page.pending))
    BY <1>2, OpensPhoneFacts
  <2>2. PageInv' /\ page'.current = page.current BY <1>1, <2>1 DEF Reads, PageInv
  <2> QED BY <2>1, <2>2, UntoldShow
<1>3. ASSUME NEW p \in Screens, AsksToWatch(p) PROVE ConsoleTyped' /\ ShowInv'
  <2>1. /\ ConsoleTyped' /\ Untold /\ stage' = stage
        /\ Reads(page', "detail", page.current, page.pending, NoScreen,
                 IF online THEN p ELSE NoScreen, page.lost)
    BY <1>3, AsksToWatchFacts
  <2>2. PageInv' /\ page'.current = page.current BY <1>1, <2>1 DEF Reads, PageInv
  <2> QED BY <2>1, <2>2, UntoldShow
<1>4. ASSUME NEW view \in {"fleet", "other"}, Leaves(view) PROVE ConsoleTyped' /\ ShowInv'
  <2>1. /\ ConsoleTyped' /\ Untold /\ stage' \in {stage, BlankStage}
        /\ \/ Reads(page', view, page.current, page.pending, NoScreen, NoScreen, page.lost)
           \/ Reads(page', view, page.current, page.pending, page.watched, page.asking, page.lost)
    BY <1>4, LeavesFacts
  <2>2. PageInv' /\ page'.current = page.current BY <1>1, <2>1 DEF Reads, PageInv
  <2> QED BY <2>1, <2>2, UntoldShow
<1>5. CASE OpensMedia
  <2>1. /\ ConsoleTyped' /\ Untold /\ stage' = stage
        /\ Reads(page', "media", page.current, NoScreen, page.watched, NoScreen,
                 GivesUp(page.pending))
    BY <1>5, OpensMediaFacts
  <2>2. PageInv' /\ page'.current = page.current BY <1>1, <2>1 DEF Reads, PageInv
  <2> QED BY <2>1, <2>2, UntoldShow
<1>6. CASE Releases
  <2>1. /\ ConsoleTyped' /\ Untold /\ stage' = BlankStage
        /\ Reads(page', "fleet", NoScreen, NoScreen, page.watched, page.asking,
                 GivesUp(page.pending))
    BY <1>6, ReleasesFacts
  <2>2. PageInv' /\ page'.current = NoScreen BY <1>1, <2>1 DEF Reads, PageInv
  <2> QED BY <2>1, <2>2, UntoldShow
<1>7. CASE Touches \/ RetriesVideo
  <2>1. ConsoleTyped' /\ Untold /\ stage' = stage /\ Unmoved(page) BY <1>7, TouchesFacts
  <2>2. PageInv' /\ page'.current = page.current BY <1>1, <2>1 DEF Unmoved, Reads, PageInv
  <2> QED BY <2>1, <2>2, UntoldShow
<1> QED BY <1>2, <1>3, <1>4, <1>5, <1>6, <1>7 DEF OperatorStep

\* The messages on their way, after the first one was heard.
LEMMA HeardLemma ==
  ASSUME ConsoleTyped, NEW kind, Hears(kind)
  PROVE  /\ Len(outbound) \in Nat \ {0} /\ Len(outbound') \in Nat /\ Len(outbound') = Len(outbound) - 1
         /\ \A i \in 1..Len(outbound') : i + 1 \in 1..Len(outbound) /\ outbound'[i] = outbound[i + 1]
         /\ \A i \in 2..Len(outbound) : i - 1 \in 1..Len(outbound') /\ outbound'[i - 1] = outbound[i]
         /\ Heard = outbound[1] /\ 1 \in 1..Len(outbound) /\ seat' = seat
<1>1. /\ Len(outbound) \in Nat \ {0} /\ Heard = outbound[1] /\ Len(outbound') = Len(outbound) - 1
      /\ Goes(outbound, outbound', 1, {}) /\ seat' = seat
  BY HearsLemma
<1>2. \A i \in 1..Len(outbound') : i + 1 \in 1..Len(outbound) /\ outbound'[i] = outbound[i + 1]
  BY <1>1 DEF Goes
<1>3. ASSUME NEW i \in 2..Len(outbound)
      PROVE  i - 1 \in 1..Len(outbound') /\ outbound'[i - 1] = outbound[i]
  <2>1. i - 1 \in 1..Len(outbound') /\ (i - 1) + 1 = i BY <1>1
  <2> QED BY <1>2, <2>1
<1> QED BY <1>1, <1>2, <1>3

\* The streams, when the page hears a message: the stage may take the number it is told.
LEMMA HeardStreamInv ==
  ASSUME ConsoleTyped, StreamInv, NEW kind, Hears(kind), stage'.id \in Nat,
         stage'.id \in {stage.id, 0} \/ (kind = "started" /\ stage'.id = Heard.id)
  PROVE  StreamInv'
<1>1. /\ Len(outbound) \in Nat \ {0} /\ Len(outbound') \in Nat /\ Len(outbound') = Len(outbound) - 1
      /\ \A i \in 1..Len(outbound') : i + 1 \in 1..Len(outbound) /\ outbound'[i] = outbound[i + 1]
      /\ Heard = outbound[1] /\ 1 \in 1..Len(outbound) /\ seat' = seat
  BY HeardLemma
<1>2. seat.seq \in Nat /\ stage.id \in Nat BY DEF ConsoleTyped, Seats, Stages
<1>3. Heard.kind = kind BY HearsLemma
<1>4. kind = "started" => Heard.id \in 1..seat.seq BY <1>1, <1>3 DEF StreamInv, Streamed
<1>5. stage'.id <= seat'.seq /\ (seat'.stream # NoScreen => seat'.seq > 0)
  BY <1>1, <1>2, <1>4 DEF StreamInv
<1>6. \A i \in 1..Len(outbound') : Streamed(outbound'[i]) =>
        /\ outbound'[i].id \in 1..seat'.seq
        /\ outbound'[i].id = seat'.seq => seat'.stream \in {NoScreen, outbound'[i].p}
  BY <1>1 DEF StreamInv
<1>7. \A i, j \in 1..Len(outbound') :
        Streamed(outbound'[i]) /\ Streamed(outbound'[j]) /\ outbound'[i].id = outbound'[j].id =>
          outbound'[i].p = outbound'[j].p
  BY SMTT(30), <1>1 DEF StreamInv
<1>8. ASSUME NEW n \in Nat, NEW i \in 1..Len(outbound'), LaterThan(n, i + 1) PROVE LaterNow(n, i)
  <2>1. stage'.id < n
    <3>1. 1 \in 1..((i + 1) - 1) BY <1>1
    <3>2. kind = "started" => Heard.id < n BY <1>1, <1>3, <1>8, <3>1 DEF LaterThan
    <3>3. stage.id < n BY <1>8 DEF LaterThan
    <3> QED BY <1>2, <3>2, <3>3
  <2>2. ASSUME NEW k \in 1..(i - 1), outbound'[k].kind = "started" PROVE outbound'[k].id < n
    <3>1. k \in 1..Len(outbound') /\ k + 1 \in 1..((i + 1) - 1) BY <1>1
    <3>2. outbound'[k] = outbound[k + 1] BY <1>1, <3>1
    <3> QED BY <1>8, <2>2, <3>1, <3>2 DEF LaterThan
  <2> QED BY <2>1, <2>2 DEF LaterNow
<1>9. ASSUME NEW i \in 1..Len(outbound'), outbound'[i].kind = "frame"
      PROVE  /\ seat'.stream \in {NoScreen, outbound'[i].p} \/ LaterNow(seat'.seq, i)
             /\ \A j \in (i + 1)..Len(outbound') : outbound'[j].kind = "video" =>
                  outbound'[j].p = outbound'[i].p \/ LaterNow(outbound'[j].id, i)
  <2>1. i + 1 \in 1..Len(outbound) /\ outbound'[i] = outbound[i + 1] BY <1>1
  <2>2. seat.stream \in {NoScreen, outbound[i + 1].p} \/ LaterThan(seat.seq, i + 1)
    BY <1>9, <2>1 DEF StreamInv
  <2>3. ASSUME NEW j \in (i + 1)..Len(outbound'), outbound'[j].kind = "video"
        PROVE  outbound'[j].p = outbound'[i].p \/ LaterNow(outbound'[j].id, i)
    <3>1. j \in 1..Len(outbound') /\ j + 1 \in ((i + 1) + 1)..Len(outbound) BY <1>1
    <3>2. outbound'[j] = outbound[j + 1] BY <1>1, <3>1
    <3>3. outbound[j + 1].p = outbound[i + 1].p \/ LaterThan(outbound[j + 1].id, i + 1)
      BY <1>9, <2>1, <2>3, <3>1, <3>2 DEF StreamInv
    <3>4. outbound[j + 1].id \in Nat BY <1>1, <3>1, MessagesLemma
    <3> QED BY SMTT(30), <1>8, <2>1, <3>2, <3>3, <3>4
  <2> QED BY <1>1, <1>2, <1>8, <2>1, <2>2, <2>3
<1>10. \A i \in 1..Len(outbound') : outbound'[i].kind = "frame" =>
         /\ seat'.stream \in {NoScreen, outbound'[i].p} \/ LaterNow(seat'.seq, i)
         /\ \A j \in (i + 1)..Len(outbound') : outbound'[j].kind = "video" =>
              outbound'[j].p = outbound'[i].p \/ LaterNow(outbound'[j].id, i)
  BY <1>9
<1> QED BY <1>5, <1>6, <1>7, <1>10 DEF StreamInv, LaterThan, LaterNow

\* The picture, while the phone that is controlled stays or is let go, and the stage keeps its
\* stream or is blank.
LEMMA HeardPicture ==
  ASSUME ConsoleTyped, StreamInv, PictureInv, NEW kind, Hears(kind),
         page'.current \in {NoScreen, page.current},
         \/ stage' = BlankStage
         \/ /\ stage'.id = stage.id
            /\ page'.current # NoScreen /\ stage'.mode = "control" /\ ~stage'.kept =>
                 stage'.picture \in {NoScreen, page.current}
  PROVE  PictureInv'
<1>1. /\ \A i \in 1..Len(outbound') : i + 1 \in 1..Len(outbound) /\ outbound'[i] = outbound[i + 1]
      /\ seat' = seat
  BY HeardLemma
<1>2. CASE page'.current = NoScreen BY <1>2 DEF PictureInv
<1>3. CASE page'.current # NoScreen /\ stage' = BlankStage
  <2>1. stage'.id = 0 /\ stage'.mode = "idle" BY <1>3 DEF BlankStage
  <2>2. seat.seq = 0 => seat.stream = NoScreen BY DEF StreamInv
  <2>3. \A i \in 1..Len(outbound) : outbound[i].kind = "video" => outbound[i].id # 0
    BY DEF StreamInv, Streamed
  <2>4. \A i \in 1..Len(outbound') : outbound'[i].kind = "video" => outbound'[i].id # 0
    BY <1>1, <2>3
  <2> QED BY <1>1, <2>1, <2>2, <2>4 DEF PictureInv
<1>4. CASE /\ page'.current # NoScreen /\ stage'.id = stage.id
           /\ stage'.mode = "control" /\ ~stage'.kept => stage'.picture \in {NoScreen, page.current}
  <2>1. page'.current = page.current /\ page.current # NoScreen BY <1>4
  <2>2. seat.seq = stage.id => seat.stream \in {NoScreen, page.current}
    BY <2>1 DEF PictureInv
  <2>3. \A i \in 1..Len(outbound) : outbound[i].kind = "video" /\ outbound[i].id = stage.id
          => outbound[i].p = page.current
    BY <2>1 DEF PictureInv
  <2>4. \A i \in 1..Len(outbound') : outbound'[i].kind = "video" /\ outbound'[i].id = stage.id
          => outbound'[i].p = page.current
    BY <1>1, <2>3
  <2> QED BY <1>1, <1>4, <2>1, <2>2, <2>4 DEF PictureInv
<1> QED BY <1>2, <1>3, <1>4

\* Control begins with a picture of the phone, and with its streams behind that picture only.
LEMMA ConfirmedPicture ==
  ASSUME ConsoleTyped, StreamInv, Hears("frame"), stage'.id = stage.id, page'.current = Heard.p,
         ~stage'.kept => stage'.picture = Heard.p
  PROVE  PictureInv'
<1>1. /\ \A i \in 1..Len(outbound') : i + 1 \in 1..Len(outbound) /\ outbound'[i] = outbound[i + 1]
      /\ Len(outbound) \in Nat \ {0} /\ Len(outbound') \in Nat
      /\ Heard = outbound[1] /\ 1 \in 1..Len(outbound) /\ seat' = seat
  BY HeardLemma
<1>2. outbound[1].kind = "frame" BY <1>1, HearsLemma
<1>3. seat.seq \in Nat /\ stage.id \in Nat BY DEF ConsoleTyped, Seats, Stages
<1>4. seat.seq = stage.id => seat.stream \in {NoScreen, Heard.p}
  <2>1. seat.stream \in {NoScreen, outbound[1].p} \/ LaterThan(seat.seq, 1)
    BY <1>1, <1>2 DEF StreamInv
  <2> QED BY <1>1, <1>3, <2>1 DEF LaterThan
<1>5. ASSUME NEW i \in 1..Len(outbound'), outbound'[i].kind = "video", outbound'[i].id = stage.id
      PROVE  outbound'[i].p = Heard.p
  <2>1. i + 1 \in (1 + 1)..Len(outbound) /\ outbound'[i] = outbound[i + 1] BY <1>1
  <2>2. outbound[i + 1].p = outbound[1].p \/ LaterThan(outbound[i + 1].id, 1)
    BY <1>1, <1>2, <1>5, <2>1 DEF StreamInv
  <2> QED BY <1>1, <1>3, <1>5, <2>1, <2>2 DEF LaterThan
<1> QED BY <1>1, <1>4, <1>5 DEF PictureInv

\* A stream that the page takes is of the phone that it controls.
LEMMA StartedPicture ==
  ASSUME ConsoleTyped, StreamInv, PictureInv, Hears("started"), Heard.p = OnScreen(page),
         page'.current = page.current, stage'.id = Heard.id, stage'.mode = stage.mode,
         stage'.picture = stage.picture, stage'.kept = stage.kept
  PROVE  PictureInv'
<1>1. /\ \A i \in 1..Len(outbound') : i + 1 \in 1..Len(outbound) /\ outbound'[i] = outbound[i + 1]
      /\ Heard = outbound[1] /\ 1 \in 1..Len(outbound) /\ seat' = seat
  BY HeardLemma
<1>2. outbound[1].kind = "started" BY <1>1, HearsLemma
<1>3. CASE page.current = NoScreen BY <1>3 DEF PictureInv
<1>4. CASE page.current # NoScreen
  <2>1. Heard.p = page.current BY <1>4 DEF OnScreen
  <2>2. seat.seq = Heard.id => seat.stream \in {NoScreen, Heard.p}
    BY <1>1, <1>2 DEF StreamInv, Streamed
  <2>3. \A i \in 1..Len(outbound') : outbound'[i].kind = "video" /\ outbound'[i].id = Heard.id
          => outbound'[i].p = Heard.p
    BY <1>1, <1>2 DEF StreamInv, Streamed
  <2> QED BY <1>1, <1>4, <2>1, <2>2, <2>3 DEF PictureInv
<1> QED BY <1>3, <1>4

\* The picture stays that of the phone whatever the page hears.
LEMMA HeardShow ==
  ASSUME ConsoleTyped, ShowInv, HeardStep
  PROVE  ConsoleTyped' /\ ShowInv'
<1>1. SeatInv /\ PageInv /\ StreamInv /\ PictureInv BY DEF ShowInv
<1>2. ASSUME NEW kind, Hears(kind) PROVE SeatInv'
  <2>1. seat' = seat BY <1>2, HeardLemma
  <2> QED BY <1>1, <2>1 DEF SeatInv
<1>3. BlankStage.id = 0 BY DEF BlankStage
<1>4. ASSUME NEW kind, Hears(kind), ConsoleTyped', stage'.id \in {stage.id, 0} PROVE StreamInv'
  <2>1. stage'.id \in Nat BY <1>4 DEF ConsoleTyped, Stages
  <2> QED BY <1>1, <1>4, <2>1, HeardStreamInv
<1>5. CASE HearsFrame
  <2>1. /\ ConsoleTyped' /\ Hears("frame") /\ Heard.p \in Screens /\ stage'.id = stage.id
        /\ \/ /\ Reads(page', page.view, Heard.p, NoScreen, NoScreen, NoScreen,
                       IF Heard.id = 0 THEN page.lost ELSE GivesUp(Heard.p))
              /\ ~stage'.kept => stage'.picture = Heard.p
           \/ Unmoved(page) /\ (stage' = stage \/ (stage'.picture = Heard.p /\ Heard.p = page.current))
    BY <1>5, HearsFrameFacts
  <2>2. SeatInv' /\ StreamInv' BY <1>2, <1>4, <2>1
  <2>3. PageInv' BY <1>1, <2>1 DEF PageInv, Reads, Unmoved
  <2>4. PictureInv'
    <3>1. CASE /\ Reads(page', page.view, Heard.p, NoScreen, NoScreen, NoScreen,
                        IF Heard.id = 0 THEN page.lost ELSE GivesUp(Heard.p))
               /\ ~stage'.kept => stage'.picture = Heard.p
      <4>1. page'.current = Heard.p BY <3>1 DEF Reads
      <4> QED BY <1>1, <2>1, <3>1, <4>1, ConfirmedPicture
    <3>2. CASE Unmoved(page) /\ (stage' = stage \/ (stage'.picture = Heard.p /\ Heard.p = page.current))
      <4>1. page'.current = page.current BY <3>2 DEF Unmoved, Reads
      <4>2. page'.current # NoScreen /\ stage'.mode = "control" /\ ~stage'.kept =>
              stage'.picture \in {NoScreen, page.current}
        BY <1>1, <3>2, <4>1 DEF PictureInv
      <4> QED BY <1>1, <2>1, <4>1, <4>2, HeardPicture
    <3> QED BY <2>1, <3>1, <3>2
  <2> QED BY <2>1, <2>2, <2>3, <2>4 DEF ShowInv
<1>6. ASSUME NEW kind, Hears(kind), ConsoleTyped', PageInv',
             page'.current \in {NoScreen, page.current}, stage' = stage \/ stage' = BlankStage
      PROVE  ShowInv'
  <2>1. stage'.id \in {stage.id, 0} BY <1>3, <1>6
  <2>2. page'.current # NoScreen /\ stage' = stage /\ stage'.mode = "control" /\ ~stage'.kept =>
          stage'.picture \in {NoScreen, page.current}
    BY <1>1, <1>6 DEF PictureInv
  <2>3. PictureInv' BY <1>1, <1>6, <2>2, HeardPicture
  <2> QED BY <1>2, <1>4, <1>6, <2>1, <2>3 DEF ShowInv
<1>7. CASE HearsError
  <2>1. /\ ConsoleTyped' /\ stage' \in {stage, BlankStage} /\ (\E kind : Hears(kind))
        /\ \E lost :
             \/ Reads(page', "fleet", page.current, page.pending, page.watched, NoScreen, lost)
             \/ Reads(page', "fleet", page.current, page.pending, NoScreen, NoScreen, lost)
             \/ Reads(page', page'.view, page.current, page'.pending, page.watched, page.asking, lost)
             \/ Unmoved(page)
    BY <1>7, HearsErrorFacts
  <2>2. PageInv' /\ page'.current = page.current BY <1>1, <2>1 DEF PageInv, Reads, Unmoved
  <2> QED BY <1>6, <2>1, <2>2
<1>8. CASE HearsRevoked
  <2>1. /\ ConsoleTyped' /\ Hears("revoked") /\ stage' = BlankStage
        /\ Reads(page', "fleet", NoScreen, NoScreen, page.watched, page.asking,
                 GivesUp(page.pending) \cup ({page.current} \ {NoScreen, Heard.p}))
    BY <1>8, HearsRevokedFacts
  <2>2. PageInv' /\ page'.current = NoScreen BY <1>1, <2>1 DEF PageInv, Reads
  <2> QED BY <1>6, <2>1, <2>2
<1>9. CASE HearsClosedPhone
  <2>1. /\ ConsoleTyped' /\ Hears("closed_phone") /\ (stage' = stage \/ stage' = BlankStage)
        /\ \/ Reads(page', "fleet", NoScreen, NoScreen, page.watched, page.asking,
                    GivesUp(page.pending) \cup {Heard.p})
           \/ Unmoved(page)
    BY <1>9, HearsClosedPhoneFacts
  <2>2. PageInv' /\ page'.current \in {NoScreen, page.current}
    BY <1>1, <2>1 DEF PageInv, Reads, Unmoved
  <2> QED BY <1>6, <2>1, <2>2
<1>10. CASE HearsStream
  <2>1. ConsoleTyped' /\ Unmoved(page) BY <1>10, HearsStreamFacts
  <2>2. PICK kind \in {"started", "broken", "unsupported", "video", "watch_frame"} :
          /\ Hears(kind)
          /\ \/ stage' = stage
             \/ /\ kind = "started" /\ Heard.p = OnScreen(page)
                /\ stage'.id = Heard.id /\ stage'.mode = stage.mode
                /\ stage'.picture = stage.picture /\ stage'.kept = stage.kept
             \/ /\ kind \in {"broken", "video", "watch_frame"}
                /\ stage'.id = stage.id /\ stage'.mode = stage.mode
                /\ kind = "broken" => stage'.picture = NoScreen
                /\ kind = "video" => Heard.id = stage.id /\ stage'.picture = Heard.p
                /\ kind = "watch_frame" => Heard.p = page.watched
    BY <1>10, HearsStreamFacts
  <2>3. PageInv' /\ page'.current = page.current BY <1>1, <2>1 DEF PageInv, Unmoved, Reads
  <2>4. CASE stage' = stage BY <1>6, <2>1, <2>2, <2>3, <2>4
  <2>5. CASE /\ kind = "started" /\ Heard.p = OnScreen(page)
             /\ stage'.id = Heard.id /\ stage'.mode = stage.mode
             /\ stage'.picture = stage.picture /\ stage'.kept = stage.kept
    <3>1. PictureInv' BY <1>1, <2>2, <2>3, <2>5, StartedPicture
    <3>2. stage'.id \in Nat BY <2>1 DEF ConsoleTyped, Stages
    <3>3. StreamInv' BY <1>1, <2>2, <2>5, <3>2, HeardStreamInv
    <3> QED BY <1>2, <2>1, <2>2, <2>3, <3>1, <3>3 DEF ShowInv
  <2>6. CASE /\ kind \in {"broken", "video", "watch_frame"}
             /\ stage'.id = stage.id /\ stage'.mode = stage.mode
             /\ kind = "broken" => stage'.picture = NoScreen
             /\ kind = "video" => Heard.id = stage.id /\ stage'.picture = Heard.p
             /\ kind = "watch_frame" => Heard.p = page.watched
    <3>1. Heard = outbound[1] /\ 1 \in 1..Len(outbound) /\ Heard.kind = kind /\ Heard.p # NoScreen
      BY <2>2, HearsLemma, HeardLemma, ConsoleAssumption
    <3>2. page.current # NoScreen => stage'.picture \in {NoScreen, page.current}
      <4>1. CASE kind = "broken" BY <2>6, <4>1
      <4>2. CASE kind = "video" BY <1>1, <2>6, <3>1, <4>2 DEF PictureInv
      <4>3. CASE kind = "watch_frame" BY <1>1, <2>6, <3>1, <4>3 DEF PageInv
      <4> QED BY <2>6, <4>1, <4>2, <4>3
    <3>3. PictureInv' BY <1>1, <2>2, <2>3, <2>6, <3>2, HeardPicture
    <3>4. StreamInv' BY <1>4, <2>1, <2>2, <2>6
    <3> QED BY <1>2, <2>1, <2>2, <2>3, <3>3, <3>4 DEF ShowInv
  <2> QED BY <2>2, <2>4, <2>5, <2>6
<1>11. CASE HearsWatchStarted
  <2>1. /\ ConsoleTyped' /\ Hears("watch_started") /\ stage'.id = stage.id
        /\ \/ Reads(page', "detail", NoScreen, NoScreen, Heard.p, NoScreen, GivesUp(page.pending))
           \/ stage' = stage /\ Unmoved(page)
    BY <1>11, HearsWatchStartedFacts
  <2>2. PageInv' BY <1>1, <2>1 DEF PageInv, Reads, Unmoved
  <2>3. CASE stage' = stage /\ Unmoved(page)
    <3>1. page'.current = page.current BY <2>3 DEF Unmoved, Reads
    <3> QED BY <1>6, <2>1, <2>2, <2>3, <3>1
  <2>4. CASE Reads(page', "detail", NoScreen, NoScreen, Heard.p, NoScreen, GivesUp(page.pending))
    <3>1. page'.current = NoScreen BY <2>4 DEF Reads
    <3>2. PictureInv' BY <3>1 DEF PictureInv
    <3>3. SeatInv' /\ StreamInv' BY <1>2, <1>4, <2>1
    <3> QED BY <2>1, <2>2, <3>2, <3>3 DEF ShowInv
  <2> QED BY <2>1, <2>3, <2>4
<1>12. CASE HearsWatchStopped
  <2>1. /\ ConsoleTyped' /\ Hears("watch_stopped") /\ (stage' = stage \/ stage' = BlankStage)
        /\ \/ Reads(page', "fleet", page.current, page.pending, NoScreen, NoScreen, page.lost)
           \/ Unmoved(page)
    BY <1>12, HearsWatchStoppedFacts
  <2>2. PageInv' /\ page'.current = page.current BY <1>1, <2>1 DEF PageInv, Reads, Unmoved
  <2> QED BY <1>6, <2>1, <2>2
<1> QED BY <1>5, <1>7, <1>8, <1>9, <1>10, <1>11, <1>12 DEF HeardStep

------------------------------------------------------------------------------
(* A console at its start, and one that rests.                             *)

\* Nothing is shown, asked for, held, or on its way.
ConsoleEmpty ==
  /\ inbound = <<>> /\ outbound = <<>> /\ seat = EmptySeat /\ stage = BlankStage
  /\ Reads(page, "fleet", NoScreen, NoScreen, NoScreen, NoScreen, {})

\* Then everything holds that is said of what is.
LEMMA EmptyConsole ==
  ASSUME ConsoleEmpty
  PROVE  ShowInv /\ HeldInv /\ ShownParts
<1>1. /\ Len(inbound) = 0 /\ Len(outbound) = 0 /\ \A i \in 1..0 : FALSE
      /\ seat.held = NoScreen /\ seat.eye = NoScreen /\ seat.stream = NoScreen /\ seat.seq = 0
      /\ seat.work.kind = "none" /\ stage.id = 0
      /\ page.current = NoScreen /\ page.pending = NoScreen /\ page.watched = NoScreen
      /\ page.asking = NoScreen
  BY DEF ConsoleEmpty, EmptySeat, BlankStage, AtRest, Reads
<1>2. ShowInv BY <1>1 DEF ShowInv, SeatInv, PageInv, StreamInv, PictureInv
<1>3. HeldInv BY <1>1 DEF HeldInv, ClaimInv, HeldSince, HeldFirst, HeldKnown
<1>4. WaitInv /\ ReleaseInv /\ ControlInv BY <1>1 DEF WaitInv, ReleaseInv, ControlInv
<1>5. QuietWatch /\ LastWord /\ WatchInv BY <1>1 DEF QuietWatch, LastWord, WatchInv
<1> QED BY <1>2, <1>3, <1>4, <1>5 DEF ShownParts

\* The same after a step.
LEMMA EmptyConsoleNext ==
  ASSUME ConsoleEmpty'
  PROVE  ShowInv' /\ HeldInv' /\ ShownParts'
<1>1. /\ Len(inbound') = 0 /\ Len(outbound') = 0 /\ \A i \in 1..0 : FALSE
      /\ seat'.held = NoScreen /\ seat'.eye = NoScreen /\ seat'.stream = NoScreen /\ seat'.seq = 0
      /\ seat'.work.kind = "none" /\ stage'.id = 0
      /\ page'.current = NoScreen /\ page'.pending = NoScreen /\ page'.watched = NoScreen
      /\ page'.asking = NoScreen
  BY DEF ConsoleEmpty, EmptySeat, BlankStage, AtRest, Reads
<1>2. ShowInv' BY <1>1 DEF ShowInv, SeatInv, PageInv, StreamInv, PictureInv
<1>3. HeldInv' BY <1>1 DEF HeldInv, ClaimInv, HeldSince, HeldFirst, HeldKnown
<1>4. WaitInv' /\ ReleaseInv' /\ ControlInv' BY <1>1 DEF WaitInv, ReleaseInv, ControlInv
<1>5. QuietWatch' /\ LastWord' /\ WatchInv' BY <1>1 DEF QuietWatch, LastWord, WatchInv
<1> QED BY <1>2, <1>3, <1>4, <1>5 DEF ShownParts

\* At the start the console is empty.
LEMMA ConsoleStart ==
  ASSUME ConsoleInit
  PROVE  ConsoleTyped /\ ConsoleEmpty
<1>1. /\ page = PageAtStart /\ stage = BlankStage /\ seat = EmptySeat
      /\ inbound = <<>> /\ outbound = <<>>
  BY DEF ConsoleInit
<1>2. page \in ScreenPages /\ Reads(page, "fleet", NoScreen, NoScreen, NoScreen, NoScreen, {})
  BY <1>1 DEF PageAtStart, ScreenPages, Reads, AnyScreen
<1>3. seat \in Seats /\ seat.work = AtRest /\ AtRest.kind = "none"
  BY <1>1 DEF EmptySeat, Seats, AtRest, Errands, AnyScreen
<1>4. inbound \in Seq(Requests) /\ outbound \in Seq(Reports) /\ Len(inbound) = 0
  BY <1>1, EmptySeq
<1>5. ConsoleTyped BY <1>1, <1>2, <1>3, <1>4, StageLemma DEF ConsoleTyped
<1> QED BY <1>1, <1>2, <1>5 DEF ConsoleEmpty

\* Nothing changes but whether the page is connected.
LEMMA ConsoleStill ==
  ASSUME ConsoleInv, page' = page, stage' = stage, inbound' = inbound, outbound' = outbound,
         seat' = seat
  PROVE  ConsoleInv'
<1>1. ConsoleTyped' BY DEF ConsoleInv, ConsoleTyped
<1>2. ShowInv' BY DEF ConsoleInv, ShowInv, SeatInv, PageInv, StreamInv, LaterThan, PictureInv
<1>3. HeldInv'
  <2>1. HeldInv BY DEF ConsoleInv
  <2>2. ClaimInv' BY ZenonT(60), <2>1 DEF HeldInv, ClaimInv, Wanted
  <2>3. HeldSince' BY <2>1 DEF HeldInv, HeldSince, Wanted, HeldAfter
  <2>4. HeldFirst' /\ HeldKnown' BY <2>1 DEF HeldInv, HeldFirst, HeldKnown, Wanted, HeldAfter
  <2> QED BY <2>2, <2>3, <2>4 DEF HeldInv
<1>4. ShownParts => ShownParts'
  <2>1. (WaitInv => WaitInv') /\ (ReleaseInv => ReleaseInv') BY DEF WaitInv, ReleaseInv, Released
  <2>2. (ControlInv => ControlInv') /\ (QuietWatch => QuietWatch') BY DEF ControlInv, QuietWatch
  <2>3. LastWord => LastWord' BY DEF LastWord
  <2>4. WatchInv => WatchInv' BY DEF WatchInv, NoViewing
  <2> QED BY <2>1, <2>2, <2>3, <2>4 DEF ShownParts
<1>5. ShownInv' BY <1>4 DEF ConsoleInv, ShownInv
<1> QED BY <1>1, <1>2, <1>3, <1>5 DEF ConsoleInv

------------------------------------------------------------------------------
(* What the server holds.                                                  *)

\* What the page waited for, it waits for or has given up.
Remembers ==
  page.lost \subseteq page'.lost /\ page.pending \in {NoScreen} \cup Wanted'

\* Both queues go on: what is taken is taken from their heads, what is new is of M and of N.
QueuesGo(d, M, e, N) ==
  /\ inbound' \in Seq(Requests) /\ outbound' \in Seq(Reports)
  /\ Goes(inbound, inbound', d, M) /\ Goes(outbound, outbound', e, N)

\* What is wanted stays so.
LEMMA WantedLemma ==
  ASSUME ConsoleTyped, Remembers
  PROVE  \A p \in Screens : p \in Wanted => p \in Wanted'
BY ConsoleAssumption DEF Remembers, Wanted

\* The messages of both queues, old and new.
LEMMA QueuesLemma ==
  ASSUME ConsoleTyped, NEW d, NEW M, NEW e, NEW N, QueuesGo(d, M, e, N)
  PROVE  /\ d \in {0, 1} /\ e \in {0, 1}
         /\ Len(inbound) \in Nat /\ Len(inbound') \in Nat
         /\ Len(outbound) \in Nat /\ Len(outbound') \in Nat
         /\ \A i \in 1..Len(inbound') :
              \/ i <= Len(inbound) - d /\ i + d \in 1..Len(inbound) /\ inbound'[i] = inbound[i + d]
              \/ i > Len(inbound) - d /\ inbound'[i] \in M
         /\ \A i \in 1..Len(inbound) :
              i > d => i - d \in 1..Len(inbound') /\ inbound'[i - d] = inbound[i]
         /\ \A i \in 1..Len(outbound') :
              \/ i <= Len(outbound) - e /\ i + e \in 1..Len(outbound) /\ outbound'[i] = outbound[i + e]
              \/ i > Len(outbound) - e /\ outbound'[i] \in N
         /\ \A i \in 1..Len(outbound) :
              i > e => i - e \in 1..Len(outbound') /\ outbound'[i - e] = outbound[i]
<1>1. inbound \in Seq(Requests) /\ outbound \in Seq(Reports) BY DEF ConsoleTyped
<1>2. /\ inbound' \in Seq(Requests) /\ outbound' \in Seq(Reports)
      /\ Goes(inbound, inbound', d, M) /\ Goes(outbound, outbound', e, N)
  BY DEF QueuesGo
<1>3. /\ d \in {0, 1} /\ Len(inbound) \in Nat /\ Len(inbound') \in Nat
      /\ \A i \in 1..Len(inbound') :
           \/ i <= Len(inbound) - d /\ i + d \in 1..Len(inbound) /\ inbound'[i] = inbound[i + d]
           \/ i > Len(inbound) - d /\ inbound'[i] \in M
      /\ \A i \in 1..Len(inbound) :
           i > d => i - d \in 1..Len(inbound') /\ inbound'[i - d] = inbound[i]
  <2>1. Follows(inbound, inbound', d, M) BY <1>1, <1>2, FollowsLemma
  <2> QED BY <2>1 DEF Follows
<1>4. /\ e \in {0, 1} /\ Len(outbound) \in Nat /\ Len(outbound') \in Nat
      /\ \A i \in 1..Len(outbound') :
           \/ i <= Len(outbound) - e /\ i + e \in 1..Len(outbound) /\ outbound'[i] = outbound[i + e]
           \/ i > Len(outbound) - e /\ outbound'[i] \in N
      /\ \A i \in 1..Len(outbound) :
           i > e => i - e \in 1..Len(outbound') /\ outbound'[i - e] = outbound[i]
  <2>1. Follows(outbound, outbound', e, N) BY <1>1, <1>2, FollowsLemma
  <2> QED BY <2>1 DEF Follows
<1> QED BY <1>3, <1>4

\* A phone is asked for once while no claim is made and no picture follows one.
LEMMA ClaimStill ==
  ASSUME ConsoleTyped, ClaimInv, Remembers, NEW d, NEW M, NEW e, NEW N, QueuesGo(d, M, e, N),
         \A m \in M : ~Claiming(m), \A m \in N : ~FirstPicture(m),
         seat'.work.kind = "select" => seat'.work = seat.work
  PROVE  ClaimInv'
<1>1. /\ d \in {0, 1} /\ e \in {0, 1}
      /\ Len(inbound) \in Nat /\ Len(inbound') \in Nat
      /\ Len(outbound) \in Nat /\ Len(outbound') \in Nat
      /\ \A i \in 1..Len(inbound') : Claiming(inbound'[i]) =>
           i + d \in 1..Len(inbound) /\ inbound'[i] = inbound[i + d]
      /\ \A i \in 1..Len(outbound') : FirstPicture(outbound'[i]) =>
           i + e \in 1..Len(outbound) /\ outbound'[i] = outbound[i + e]
  BY QueuesLemma
<1>2. \A p \in Screens : p \in Wanted => p \in Wanted' BY WantedLemma
<1>3. page.lost \subseteq page'.lost BY DEF Remembers
<1>4. /\ \A i \in 1..Len(inbound) : Claiming(inbound[i]) => inbound[i].p \in Screens
      /\ \A i \in 1..Len(outbound) : outbound[i].p \in Screens
      /\ seat.work.kind = "select" => seat.work.p \in Screens
  BY MessagesLemma DEF ConsoleTyped, Claiming
<1>5. /\ seat.work.kind = "select" =>
           /\ seat.work.p \in Wanted
           /\ seat.work.p \notin page.lost =>
                \A j \in 1..Len(outbound) : FirstPicture(outbound[j]) => outbound[j].p # seat.work.p
      /\ \A i \in 1..Len(outbound) : FirstPicture(outbound[i]) =>
           /\ outbound[i].p \in Wanted
           /\ outbound[i].p \notin page.lost =>
                \A j \in 1..Len(outbound) :
                  FirstPicture(outbound[j]) /\ outbound[j].p = outbound[i].p => j = i
  BY DEF ClaimInv
<1>6. ASSUME NEW i \in 1..Len(inbound'), Claiming(inbound'[i])
      PROVE  /\ inbound'[i].p \in Wanted'
             /\ inbound'[i].p \notin page'.lost =>
                  /\ \A j \in 1..Len(inbound') :
                       Claiming(inbound'[j]) /\ inbound'[j].p = inbound'[i].p => j = i
                  /\ seat'.work # [kind |-> "select", p |-> inbound'[i].p]
                  /\ \A j \in 1..Len(outbound') :
                       FirstPicture(outbound'[j]) => outbound'[j].p # inbound'[i].p
  <2>1. i + d \in 1..Len(inbound) /\ inbound'[i] = inbound[i + d] /\ Claiming(inbound[i + d])
    BY <1>1, <1>6
  <2>2. /\ inbound[i + d].p \in Wanted
        /\ inbound[i + d].p \notin page.lost =>
             /\ \A j \in 1..Len(inbound) :
                  Claiming(inbound[j]) /\ inbound[j].p = inbound[i + d].p => j = i + d
             /\ seat.work # [kind |-> "select", p |-> inbound[i + d].p]
             /\ \A j \in 1..Len(outbound) :
                  FirstPicture(outbound[j]) => outbound[j].p # inbound[i + d].p
    BY <2>1 DEF ClaimInv
  <2>3. ASSUME inbound'[i].p \notin page'.lost
        PROVE  /\ \A j \in 1..Len(inbound') :
                    Claiming(inbound'[j]) /\ inbound'[j].p = inbound'[i].p => j = i
               /\ seat'.work # [kind |-> "select", p |-> inbound'[i].p]
               /\ \A j \in 1..Len(outbound') :
                    FirstPicture(outbound'[j]) => outbound'[j].p # inbound'[i].p
    <3>1. inbound[i + d].p \notin page.lost BY <1>3, <2>1, <2>3
    <3>2. \A j \in 1..Len(inbound') :
            Claiming(inbound'[j]) /\ inbound'[j].p = inbound'[i].p => j = i
      <4>1. \A j \in 1..Len(inbound') :
              Claiming(inbound'[j]) /\ inbound'[j].p = inbound'[i].p => j + d = i + d
        BY <1>1, <2>1, <2>2, <3>1
      <4> QED BY <1>1, <4>1
    <3>3. seat'.work # [kind |-> "select", p |-> inbound'[i].p] BY <2>1, <2>2, <3>1
    <3>4. \A j \in 1..Len(outbound') : FirstPicture(outbound'[j]) => outbound'[j].p # inbound'[i].p
      BY <1>1, <2>1, <2>2, <3>1
    <3> QED BY <3>2, <3>3, <3>4
  <2> QED BY <1>2, <1>4, <2>1, <2>2, <2>3
<1>7. seat'.work.kind = "select" =>
        /\ seat'.work.p \in Wanted'
        /\ seat'.work.p \notin page'.lost =>
             \A j \in 1..Len(outbound') : FirstPicture(outbound'[j]) => outbound'[j].p # seat'.work.p
  BY SMTT(30), <1>1, <1>2, <1>3, <1>4, <1>5
<1>8. ASSUME NEW i \in 1..Len(outbound'), FirstPicture(outbound'[i])
      PROVE  /\ outbound'[i].p \in Wanted'
             /\ outbound'[i].p \notin page'.lost =>
                  \A j \in 1..Len(outbound') :
                    FirstPicture(outbound'[j]) /\ outbound'[j].p = outbound'[i].p => j = i
  <2>1. i + e \in 1..Len(outbound) /\ outbound'[i] = outbound[i + e] BY <1>1, <1>8
  <2>2. outbound'[i].p \in Wanted' BY <1>2, <1>4, <1>5, <1>8, <2>1
  <2>3. ASSUME outbound'[i].p \notin page'.lost, NEW j \in 1..Len(outbound'),
               FirstPicture(outbound'[j]), outbound'[j].p = outbound'[i].p
        PROVE  j = i
    <3>1. j + e \in 1..Len(outbound) /\ outbound'[j] = outbound[j + e] BY <1>1, <2>3
    <3>2. j + e = i + e BY <1>3, <1>5, <1>8, <2>1, <2>3, <3>1
    <3> QED BY <1>1, <3>2
  <2> QED BY <2>2, <2>3
<1> QED BY <1>6, <1>7, <1>8 DEF ClaimInv

\* What is held was told, while the messages that are new tell of it or nothing is held.
LEMMA SinceStill ==
  ASSUME ConsoleTyped, HeldSince, HeldFirst, Remembers, NEW d, NEW M, NEW e, NEW N,
         QueuesGo(d, M, e, N), \A m \in N : ~FirstPicture(m),
         seat'.held \in {NoScreen, seat.held},
         \A m \in N : seat'.held # NoScreen => seat'.held \in HeldAfter(m)
  PROVE  HeldSince' /\ HeldFirst'
<1>1. /\ e \in {0, 1} /\ Len(outbound) \in Nat /\ Len(outbound') \in Nat
      /\ \A i \in 1..Len(outbound') :
           \/ i + e \in 1..Len(outbound) /\ outbound'[i] = outbound[i + e]
           \/ outbound'[i] \in N
  BY QueuesLemma
<1>2. \A m : NoScreen \in HeldAfter(m) BY DEF HeldAfter, AnyScreen
<1>3. seat'.held # NoScreen => seat'.held = seat.held /\ seat.held \in Screens
  BY DEF ConsoleTyped, Seats, AnyScreen
<1>4. ASSUME NEW i \in 1..Len(outbound')
      PROVE  seat'.held \in HeldAfter(outbound'[i]) \cup Wanted'
  <2>1. CASE seat'.held = NoScreen BY <1>2, <2>1
  <2>2. CASE outbound'[i] \in N BY <1>2, <2>2
  <2>3. CASE /\ seat'.held # NoScreen
             /\ i + e \in 1..Len(outbound) /\ outbound'[i] = outbound[i + e]
    <3>1. seat.held \in HeldAfter(outbound[i + e]) \cup Wanted BY <2>3 DEF HeldSince
    <3>2. seat.held \in Wanted => seat.held \in Wanted' BY <1>3, <2>3, WantedLemma
    <3> QED BY <1>3, <2>3, <3>1, <3>2
  <2> QED BY <1>1, <2>1, <2>2, <2>3
<1>5. ASSUME NEW i \in 1..Len(outbound'), FirstPicture(outbound'[i]),
             outbound'[i].p \notin page'.lost, NEW j \in (i + 1)..Len(outbound'),
             seat'.held = outbound'[i].p
      PROVE  seat'.held \in HeldAfter(outbound'[j])
  <2>1. CASE seat'.held = NoScreen BY <1>2, <2>1
  <2>2. CASE seat'.held # NoScreen
    <3>1. i + e \in 1..Len(outbound) /\ outbound'[i] = outbound[i + e] BY <1>1, <1>5
    <3>2. outbound[i + e].p \notin page.lost BY <1>5, <3>1 DEF Remembers
    <3>3. j \in 1..Len(outbound') BY <1>1, <1>5
    <3>4. CASE outbound'[j] \in N BY <2>2, <3>4
    <3>5. CASE j + e \in 1..Len(outbound) /\ outbound'[j] = outbound[j + e]
      <4>1. j + e \in ((i + e) + 1)..Len(outbound) BY <1>1, <1>5, <3>1, <3>5
      <4>2. seat.held = outbound[i + e].p BY <1>3, <1>5, <2>2, <3>1
      <4>3. FirstPicture(outbound[i + e]) BY <1>5, <3>1
      <4>4. seat.held \in HeldAfter(outbound[j + e])
        BY <3>1, <3>2, <4>1, <4>2, <4>3 DEF HeldFirst
      <4> QED BY <1>3, <2>2, <3>5, <4>4
    <3> QED BY <1>1, <3>3, <3>4, <3>5
  <2> QED BY <2>1, <2>2
<1> QED BY <1>4, <1>5 DEF HeldSince, HeldFirst

\* What is held is known, while the page keeps control and no release of it is served.
LEMMA KnownStill ==
  ASSUME ConsoleTyped, HeldKnown, Remembers, NEW d, NEW M, NEW e, NEW N, QueuesGo(d, M, e, N),
         page'.current = page.current, seat'.held \in {NoScreen, seat.held},
         d = 1 /\ seat'.held # NoScreen => inbound[1] # [kind |-> "release", p |-> seat.held]
  PROVE  HeldKnown'
<1>1. /\ d \in {0, 1} /\ Len(inbound) \in Nat
      /\ \A i \in 1..Len(inbound) : i > d => i - d \in 1..Len(inbound') /\ inbound'[i - d] = inbound[i]
  BY QueuesLemma
<1>2. CASE seat'.held = NoScreen BY <1>2 DEF HeldKnown
<1>3. CASE seat'.held # NoScreen
  <2>1. seat'.held = seat.held /\ seat.held \in Screens BY <1>3 DEF ConsoleTyped, Seats, AnyScreen
  <2>2. CASE seat.held \in {NoScreen, page.current} \cup Wanted
    <3>1. seat.held \in Wanted => seat.held \in Wanted' BY <2>1, WantedLemma
    <3> QED BY <1>3, <2>1, <2>2, <3>1 DEF HeldKnown
  <2>3. ASSUME NEW i \in 1..Len(inbound), inbound[i] = [kind |-> "release", p |-> seat.held]
        PROVE  HeldKnown'
    <3>1. i > d BY <1>1, <1>3, <2>3
    <3>2. i - d \in 1..Len(inbound') /\ inbound'[i - d] = [kind |-> "release", p |-> seat'.held]
      BY <1>1, <2>1, <2>3, <3>1
    <3> QED BY <3>2 DEF HeldKnown
  <2> QED BY <2>2, <2>3 DEF HeldKnown
<1> QED BY <1>2, <1>3

\* What is held stays in step with what the page knows.
LEMMA HeldStill ==
  ASSUME ConsoleTyped, HeldInv, HeldKnown', Remembers, NEW d, NEW M, NEW e, NEW N,
         QueuesGo(d, M, e, N), \A m \in M : ~Claiming(m), \A m \in N : ~FirstPicture(m),
         seat'.work.kind = "select" => seat'.work = seat.work,
         seat'.held \in {NoScreen, seat.held},
         \A m \in N : seat'.held # NoScreen => seat'.held \in HeldAfter(m)
  PROVE  HeldInv'
<1>1. ClaimInv' BY ClaimStill DEF HeldInv
<1>2. HeldSince' /\ HeldFirst' BY SinceStill DEF HeldInv
<1> QED BY <1>1, <1>2 DEF HeldInv

\* What is said about a phone, or not at all, makes no claim.
LEMMA SaysGoes ==
  ASSUME ConsoleTyped, NEW kind \in UpKinds \ {"select", "release"}, NEW p \in AnyScreen,
         kind # "stop" => p \in Screens,
         inbound' = inbound \/ Says(ToServer(kind, p))
  PROVE  /\ inbound' \in Seq(Requests) /\ Goes(inbound, inbound', 0, {[kind |-> kind, p |-> p]})
         /\ ~Claiming([kind |-> kind, p |-> p])
<1>1. inbound \in Seq(Requests) BY DEF ConsoleTyped
<1>2. CASE inbound' = inbound BY <1>1, <1>2, SameQueue DEF Claiming
<1>3. CASE Says(ToServer(kind, p)) BY <1>3, SaysLemma DEF Claiming
<1> QED BY <1>2, <1>3

\* The page's steps that make no claim and end no control.
LEMMA UntoldHeld ==
  ASSUME ConsoleTyped, HeldInv, Untold, Remembers, page'.current = page.current,
         NEW kind \in UpKinds \ {"select", "release"}, NEW p \in AnyScreen,
         kind # "stop" => p \in Screens,
         inbound' = inbound \/ Says(ToServer(kind, p))
  PROVE  HeldInv'
<1> DEFINE m == [kind |-> kind, p |-> p]
<1>1. inbound' \in Seq(Requests) /\ Goes(inbound, inbound', 0, {m}) /\ ~Claiming(m) BY SaysGoes
<1>2. outbound \in Seq(Reports) /\ outbound' = outbound /\ seat' = seat
  BY DEF ConsoleTyped, Untold
<1> HIDE DEF m
<1>3. QueuesGo(0, {m}, 0, {}) BY <1>1, <1>2, SameQueue DEF QueuesGo
<1>4. HeldKnown' BY <1>2, <1>3, KnownStill DEF HeldInv
<1> QED BY <1>1, <1>2, <1>3, <1>4, HeldStill

\* A page that gives up what it waits for has given up all that it wanted.
LEMMA GivenUpLemma ==
  ASSUME ConsoleTyped, GivesUp(page.pending) \subseteq page'.lost
  PROVE  Remembers /\ \A p \in Screens : p \in Wanted => p \in page'.lost
<1>1. page.lost \subseteq page'.lost /\ (page.pending # NoScreen => page.pending \in page'.lost)
  BY DEF GivesUp
<1> QED BY <1>1, ConsoleAssumption DEF Remembers, Wanted

\* A page that keeps what it waits for.
LEMMA KeepsLemma ==
  ASSUME page'.lost = page.lost, page'.pending = page.pending
  PROVE  Remembers
BY DEF Remembers, Wanted

\* A phone that is opened is asked for once: whatever was asked for before is given up.
LEMMA OpensPhoneHeld ==
  ASSUME ConsoleTyped, HeldInv, NEW p \in Screens, OpensPhone(p), online
  PROVE  HeldInv'
<1> DEFINE m == [kind |-> "select", p |-> p]
<1>1. /\ Untold /\ Says(ToServer("select", p))
      /\ Reads(page', "detail", page.current, p, page.watched, page.asking, GivesUp(page.pending))
  BY OpensPhoneFacts
<1>2. m.kind = "select" /\ m.p = p OBVIOUS
<1>3. p \in AnyScreen /\ "select" \in UpKinds BY DEF AnyScreen, UpKinds
<1>4. /\ inbound' \in Seq(Requests) /\ Goes(inbound, inbound', 0, {m})
      /\ Len(inbound') = Len(inbound) + 1
  BY <1>1, <1>3, SaysLemma
<1> HIDE DEF m
<1>5. outbound' = outbound /\ seat' = seat /\ outbound \in Seq(Reports)
  BY <1>1 DEF Untold, ConsoleTyped
<1>6. page'.pending = p /\ page'.current = page.current /\ page'.lost = GivesUp(page.pending)
  BY <1>1 DEF Reads
<1>7. Remembers /\ \A q \in Screens : q \in Wanted => q \in page'.lost BY <1>6, GivenUpLemma
<1>8. QueuesGo(0, {m}, 0, {}) BY <1>4, <1>5, SameQueue DEF QueuesGo
<1>9. /\ Len(inbound) \in Nat
      /\ \A i \in 1..Len(inbound') :
           \/ i \in 1..Len(inbound) /\ inbound'[i] = inbound[i]
           \/ i > Len(inbound) /\ inbound'[i] = m
  BY <1>8, QueuesLemma
<1>10. HeldKnown' BY <1>5, <1>6, <1>7, <1>8, KnownStill DEF HeldInv
<1>11. HeldSince' /\ HeldFirst' BY <1>5, <1>7, <1>8, SinceStill DEF HeldInv
<1>12. /\ \A i \in 1..Len(inbound) : Claiming(inbound[i]) => inbound[i].p \in page'.lost
       /\ \A i \in 1..Len(outbound) : FirstPicture(outbound[i]) => outbound[i].p \in page'.lost
       /\ seat.work.kind = "select" => seat.work.p \in page'.lost
  <2>1. /\ \A i \in 1..Len(inbound) : Claiming(inbound[i]) => inbound[i].p \in Screens \cap Wanted
        /\ \A i \in 1..Len(outbound) : FirstPicture(outbound[i]) => outbound[i].p \in Screens \cap Wanted
        /\ seat.work.kind = "select" => seat.work.p \in Screens \cap Wanted
    BY MessagesLemma DEF HeldInv, ClaimInv, ConsoleTyped, Claiming
  <2> QED BY <1>7, <2>1
<1>13. p \in Wanted' /\ page'.lost \subseteq Wanted' BY <1>6 DEF Wanted
<1>14. ASSUME NEW i \in 1..Len(inbound'), Claiming(inbound'[i])
       PROVE  /\ inbound'[i].p \in Wanted'
              /\ inbound'[i].p \notin page'.lost =>
                   /\ \A j \in 1..Len(inbound') :
                        Claiming(inbound'[j]) /\ inbound'[j].p = inbound'[i].p => j = i
                   /\ seat'.work # [kind |-> "select", p |-> inbound'[i].p]
                   /\ \A j \in 1..Len(outbound') :
                        FirstPicture(outbound'[j]) => outbound'[j].p # inbound'[i].p
  <2>1. CASE i \in 1..Len(inbound) /\ inbound'[i] = inbound[i] BY <1>12, <1>13, <1>14, <2>1
  <2>2. CASE i > Len(inbound) /\ inbound'[i] = m
    <3>1. i = Len(inbound) + 1 BY <1>4, <1>9, <2>2
    <3>2. ASSUME NEW j \in 1..Len(inbound'), Claiming(inbound'[j]), inbound'[j].p = p,
                 p \notin page'.lost
          PROVE  j = i
      <4>1. ~(j \in 1..Len(inbound) /\ inbound'[j] = inbound[j]) BY <1>12, <3>2
      <4> QED BY <1>4, <1>9, <3>1, <4>1
    <3>3. seat.work = [kind |-> "select", p |-> p] => p \in page'.lost BY <1>12
    <3> QED BY <1>2, <1>5, <1>12, <1>13, <2>2, <3>2, <3>3
  <2> QED BY <1>9, <2>1, <2>2
<1>15. ClaimInv' BY <1>5, <1>12, <1>13, <1>14 DEF ClaimInv
<1> QED BY <1>10, <1>11, <1>15 DEF HeldInv

\* What is held stays in step in every step of the operator.
LEMMA OperatorHeld ==
  ASSUME ConsoleTyped, HeldInv, OperatorStep
  PROVE  HeldInv'
<1>1. NoScreen \in AnyScreen /\ Screens \subseteq AnyScreen
  BY DEF AnyScreen
<1>2. ASSUME NEW p \in Screens, OpensPhone(p) PROVE HeldInv'
  <2>1. CASE online BY <1>2, <2>1, OpensPhoneHeld
  <2>2. CASE ~online
    <3>1. /\ Untold /\ Says(ToServer("select", p))
          /\ Reads(page', "detail", page.current, NoScreen, page.watched, page.asking,
                   GivesUp(page.pending))
      BY <1>2, <2>2, OpensPhoneFacts
    <3>2. inbound' = inbound BY <2>2, <3>1 DEF Says
    <3>3. Remembers /\ page'.current = page.current BY <3>1, GivenUpLemma DEF Reads
    <3>4. "stop" \in UpKinds \ {"select", "release"} BY DEF UpKinds
    <3> QED BY <1>1, <3>1, <3>2, <3>3, <3>4, UntoldHeld
  <2> QED BY <2>1, <2>2
<1>3. ASSUME NEW p \in Screens, AsksToWatch(p) PROVE HeldInv'
  <2>1. /\ Untold /\ Says(ToServer("watch", p))
        /\ Reads(page', "detail", page.current, page.pending, NoScreen,
                 IF online THEN p ELSE NoScreen, page.lost)
    BY <1>3, AsksToWatchFacts
  <2>2. Remembers /\ page'.current = page.current BY <2>1, KeepsLemma DEF Reads
  <2>3. "watch" \in UpKinds \ {"select", "release"} BY DEF UpKinds
  <2> QED BY <1>1, <2>1, <2>2, <2>3, UntoldHeld
<1>4. ASSUME NEW view \in {"fleet", "other"}, Leaves(view) PROVE HeldInv'
  <2>1. /\ Untold
        /\ \/ /\ Reads(page', view, page.current, page.pending, NoScreen, NoScreen, page.lost)
              /\ \E p \in Screens : Says(ToServer("unwatch", p))
           \/ /\ Reads(page', view, page.current, page.pending, page.watched, page.asking, page.lost)
              /\ inbound' = inbound \/ Says(ToServer("stop", NoScreen))
    BY <1>4, LeavesFacts
  <2>2. Remembers /\ page'.current = page.current BY <2>1, KeepsLemma DEF Reads
  <2>3. "unwatch" \in UpKinds \ {"select", "release"} /\ "stop" \in UpKinds \ {"select", "release"}
    BY DEF UpKinds
  <2>4. CASE \E p \in Screens : Says(ToServer("unwatch", p))
    BY <1>1, <2>1, <2>2, <2>3, <2>4, UntoldHeld
  <2>5. CASE inbound' = inbound \/ Says(ToServer("stop", NoScreen))
    BY <1>1, <2>1, <2>2, <2>3, <2>5, UntoldHeld
  <2> QED BY <2>1, <2>4, <2>5
<1>5. CASE OpensMedia
  <2>1. /\ Untold /\ inbound' = inbound
        /\ Reads(page', "media", page.current, NoScreen, page.watched, NoScreen,
                 GivesUp(page.pending))
    BY <1>5, OpensMediaFacts
  <2>2. Remembers /\ page'.current = page.current BY <2>1, GivenUpLemma DEF Reads
  <2>3. "stop" \in UpKinds \ {"select", "release"} BY DEF UpKinds
  <2> QED BY <1>1, <2>1, <2>2, <2>3, UntoldHeld
<1>6. CASE Releases
  <2> DEFINE m == [kind |-> "release", p |-> page.current]
  <2>1. /\ Untold /\ online /\ page.current \in Screens /\ Says(ToServer("release", page.current))
        /\ Reads(page', "fleet", NoScreen, NoScreen, page.watched, page.asking,
                 GivesUp(page.pending))
    BY <1>6, ReleasesFacts
  <2>2. Remembers BY <2>1, GivenUpLemma DEF Reads
  <2>3. "release" \in UpKinds BY DEF UpKinds
  <2>4. /\ inbound' \in Seq(Requests) /\ Goes(inbound, inbound', 0, {m})
        /\ Len(inbound') = Len(inbound) + 1 /\ inbound'[Len(inbound) + 1] = m
    BY <1>1, <2>1, <2>3, SaysLemma
  <2>5. ~Claiming(m) BY DEF Claiming
  <2>6. outbound' = outbound /\ seat' = seat /\ outbound \in Seq(Reports)
    BY <2>1 DEF Untold, ConsoleTyped
  <2> HIDE DEF m
  <2>7. QueuesGo(0, {m}, 0, {}) BY <2>4, <2>6, SameQueue DEF QueuesGo
  <2>8. HeldKnown'
    <3>1. CASE seat.held = page.current
      <4>1. Len(inbound) \in Nat BY MessagesLemma
      <4>2. Len(inbound) + 1 \in 1..Len(inbound') BY <2>4, <4>1
      <4>3. inbound'[Len(inbound) + 1] = [kind |-> "release", p |-> seat'.held]
        BY <2>4, <2>6, <3>1 DEF m
      <4> QED BY <4>2, <4>3 DEF HeldKnown
    <3>2. CASE seat.held \in {NoScreen} \cup Wanted
      <4>1. seat.held \in AnyScreen BY DEF ConsoleTyped, Seats
      <4>2. seat.held \in {NoScreen} \cup Wanted' BY <2>2, <3>2, <4>1, WantedLemma DEF AnyScreen
      <4> QED BY <2>6, <4>2 DEF HeldKnown
    <3>3. ASSUME NEW i \in 1..Len(inbound), inbound[i] = [kind |-> "release", p |-> seat.held]
          PROVE  HeldKnown'
      <4>1. Len(inbound) \in Nat BY MessagesLemma
      <4>2. i \in 1..Len(inbound') /\ inbound'[i] = inbound[i] BY <2>4, <4>1 DEF Goes
      <4> QED BY <2>6, <3>3, <4>2 DEF HeldKnown
    <3>4. \/ seat.held \in {NoScreen, page.current} \cup Wanted
          \/ \E i \in 1..Len(inbound) : inbound[i] = [kind |-> "release", p |-> seat.held]
      BY DEF HeldInv, HeldKnown
    <3> QED BY <3>1, <3>2, <3>3, <3>4
  <2> QED BY <2>2, <2>5, <2>6, <2>7, <2>8, HeldStill
<1>7. CASE Touches \/ RetriesVideo
  <2>1. /\ Untold /\ Unmoved(page)
        /\ \/ inbound' = inbound
           \/ \E kind \in {"input", "start"}, p \in Screens : Says(ToServer(kind, p))
    BY <1>7, TouchesFacts
  <2>2. Remembers /\ page'.current = page.current BY <2>1, KeepsLemma DEF Unmoved, Reads
  <2>3. {"input", "start", "stop"} \subseteq UpKinds \ {"select", "release"} BY DEF UpKinds
  <2>4. CASE inbound' = inbound BY <1>1, <2>1, <2>2, <2>3, <2>4, UntoldHeld
  <2>5. ASSUME NEW kind \in {"input", "start"}, NEW p \in Screens, Says(ToServer(kind, p))
        PROVE  HeldInv'
    BY <1>1, <2>1, <2>2, <2>3, <2>5, UntoldHeld
  <2> QED BY <2>1, <2>4, <2>5
<1> QED BY <1>2, <1>3, <1>4, <1>5, <1>6, <1>7 DEF OperatorStep

\* What is held stays in step when the page hears a message and remembers what it waited for.
LEMMA HeardHeldStill ==
  ASSUME ConsoleTyped, HeldInv, NEW kind, Hears(kind), Remembers, HeldKnown',
         NEW word \in UpKinds \ {"select", "release"}, NEW p \in AnyScreen,
         word # "stop" => p \in Screens,
         inbound' = inbound \/ Says(ToServer(word, p))
  PROVE  HeldInv'
<1> DEFINE m == [kind |-> word, p |-> p]
<1>1. inbound' \in Seq(Requests) /\ Goes(inbound, inbound', 0, {m}) /\ ~Claiming(m) BY SaysGoes
<1> HIDE DEF m
<1>2. outbound' \in Seq(Reports) /\ Goes(outbound, outbound', 1, {}) /\ seat' = seat BY HearsLemma
<1>3. QueuesGo(0, {m}, 1, {}) BY <1>1, <1>2 DEF QueuesGo
<1> QED BY <1>1, <1>2, <1>3, HeldStill

\* What is held is known while the page keeps control.
LEMMA HeardKnownStill ==
  ASSUME ConsoleTyped, HeldInv, NEW kind, Hears(kind), Remembers, page'.current = page.current,
         NEW word \in UpKinds \ {"select", "release"}, NEW p \in AnyScreen,
         word # "stop" => p \in Screens,
         inbound' = inbound \/ Says(ToServer(word, p))
  PROVE  HeldInv'
<1> DEFINE m == [kind |-> word, p |-> p]
<1>1. inbound' \in Seq(Requests) /\ Goes(inbound, inbound', 0, {m}) BY SaysGoes
<1> HIDE DEF m
<1>2. outbound' \in Seq(Reports) /\ Goes(outbound, outbound', 1, {}) /\ seat' = seat BY HearsLemma
<1>3. QueuesGo(0, {m}, 1, {}) BY <1>1, <1>2 DEF QueuesGo
<1>4. HeldKnown' BY <1>2, <1>3, KnownStill DEF HeldInv
<1> QED BY <1>4, HeardHeldStill

\* A message tells what was held when it was sent, or it is wanted since.
LEMMA ToldHeld ==
  ASSUME ConsoleTyped, HeldInv, NEW kind, Hears(kind), Remembers
  PROVE  /\ kind \in {"revoked", "watch_started"} => seat'.held \in {NoScreen} \cup Wanted'
         /\ kind \in {"frame", "closed_phone"} => seat'.held \in {NoScreen, Heard.p} \cup Wanted'
<1>1. Heard = outbound[1] /\ 1 \in 1..Len(outbound) /\ seat' = seat /\ Heard.kind = kind
  BY HeardLemma, HearsLemma
<1>2. seat.held \in HeldAfter(Heard) \cup Wanted BY <1>1 DEF HeldInv, HeldSince
<1>3. seat.held \in Wanted => seat.held \in {NoScreen} \cup Wanted'
  BY WantedLemma DEF ConsoleTyped, Seats, AnyScreen
<1>4. kind \in {"revoked", "watch_started"} => HeldAfter(Heard) = {NoScreen} BY <1>1 DEF HeldAfter
<1>5. kind \in {"frame", "closed_phone"} => HeldAfter(Heard) = {NoScreen, Heard.p}
  BY <1>1 DEF HeldAfter
<1> QED BY <1>1, <1>2, <1>3, <1>4, <1>5

\* Control that begins with the picture that follows the claim: there is no other claim of that
\* phone, and no message behind the picture tells that another is held.
LEMMA ConfirmedHeld ==
  ASSUME ConsoleTyped, HeldInv, Hears("frame"), Heard.p = page.pending, Heard.id = 0,
         Heard.p \notin page.lost,
         page'.current = Heard.p, page'.pending = NoScreen, page'.lost = page.lost,
         inbound' = inbound \/ Says(ToServer("start", Heard.p))
  PROVE  HeldInv'
<1> DEFINE p == Heard.p
           m == [kind |-> "start", p |-> p]
<1>1. p \in Screens /\ p \in AnyScreen /\ Heard.kind = "frame" BY HearsLemma DEF AnyScreen
<1>2. "start" \in UpKinds \ {"select", "release"} BY DEF UpKinds
<1>3. inbound' \in Seq(Requests) /\ Goes(inbound, inbound', 0, {m}) /\ ~Claiming(m)
  BY <1>1, <1>2, SaysGoes
<1>4. outbound' \in Seq(Reports) /\ Goes(outbound, outbound', 1, {}) /\ seat' = seat BY HearsLemma
<1>5. Heard = outbound[1] /\ 1 \in 1..Len(outbound) BY HeardLemma
<1> HIDE DEF m
<1>6. QueuesGo(0, {m}, 1, {}) BY <1>3, <1>4 DEF QueuesGo
<1>7. /\ Len(outbound) \in Nat
      /\ \A i \in 1..Len(inbound') : Claiming(inbound'[i]) =>
           i \in 1..Len(inbound) /\ inbound'[i] = inbound[i]
      /\ \A i \in 1..Len(outbound') : i + 1 \in 2..Len(outbound) /\ outbound'[i] = outbound[i + 1]
  BY SMTT(30), <1>3, <1>6, QueuesLemma
<1>8. FirstPicture(outbound[1]) /\ outbound[1].p = p BY <1>1, <1>5 DEF FirstPicture
<1>9. Wanted = {p} \cup page.lost /\ page'.lost \subseteq Wanted' BY DEF Wanted
<1> HIDE DEF p
<1>10. \A i \in 1..Len(inbound) : Claiming(inbound[i]) => inbound[i].p \in page.lost
  BY <1>5, <1>8, <1>9 DEF HeldInv, ClaimInv
<1>11. seat.work.kind = "select" => seat.work.p \in page.lost
  BY <1>5, <1>8, <1>9 DEF HeldInv, ClaimInv
<1>12. \A i \in 2..Len(outbound) : FirstPicture(outbound[i]) => outbound[i].p \in page.lost
  <2>1. ASSUME NEW i \in 2..Len(outbound), FirstPicture(outbound[i]) PROVE outbound[i].p \in page.lost
    <3>1. i \in 1..Len(outbound) /\ i # 1 BY <1>7
    <3>2. outbound[i].p \in Wanted BY <2>1, <3>1 DEF HeldInv, ClaimInv
    <3>3. outbound[i].p \notin page.lost => 1 = i
      BY <1>5, <1>8, <1>9, <2>1, <3>1, <3>2 DEF HeldInv, ClaimInv
    <3> QED BY <3>1, <3>3
  <2> QED BY <2>1
<1>13. ClaimInv'
  <2>1. \A i \in 1..Len(inbound') : Claiming(inbound'[i]) => inbound'[i].p \in page'.lost
    BY <1>7, <1>10
  <2>2. \A i \in 1..Len(outbound') : FirstPicture(outbound'[i]) => outbound'[i].p \in page'.lost
    BY <1>7, <1>12
  <2>3. seat'.work.kind = "select" => seat'.work.p \in page'.lost BY <1>4, <1>11
  <2> QED BY <1>9, <2>1, <2>2, <2>3 DEF ClaimInv
<1>14. seat.held \in {NoScreen, p} \cup page.lost
  <2>1. seat.held \in HeldAfter(outbound[1]) \cup Wanted BY <1>5 DEF HeldInv, HeldSince
  <2>2. HeldAfter(outbound[1]) = {NoScreen, p} BY <1>1, <1>5, <1>8 DEF HeldAfter
  <2> QED BY <1>9, <2>1, <2>2
<1>15. HeldKnown' BY <1>4, <1>9, <1>14 DEF HeldKnown, p
<1>16. HeldFirst'
  <2>1. \A i \in 1..Len(outbound') : FirstPicture(outbound'[i]) => outbound'[i].p \in page'.lost
    BY <1>7, <1>12
  <2> QED BY <2>1 DEF HeldFirst
<1>17. HeldSince'
  <2>1. ASSUME NEW i \in 1..Len(outbound')
        PROVE  seat'.held \in HeldAfter(outbound'[i]) \cup Wanted'
    <3>1. i + 1 \in (1 + 1)..Len(outbound) /\ outbound'[i] = outbound[i + 1] BY <1>7
    <3>2. CASE seat.held = p
      <4>1. outbound[1].p \notin page.lost BY <1>8 DEF p
      <4>2. seat.held \in HeldAfter(outbound[i + 1])
        BY <1>5, <1>8, <3>1, <3>2, <4>1 DEF HeldInv, HeldFirst
      <4> QED BY <1>4, <3>1, <4>2
    <3>3. CASE seat.held = NoScreen
      <4>1. NoScreen \in HeldAfter(outbound'[i]) BY DEF HeldAfter, AnyScreen
      <4> QED BY <1>4, <3>3, <4>1
    <3> QED BY <1>4, <1>9, <1>14, <3>2, <3>3
  <2> QED BY <2>1 DEF HeldSince
<1> QED BY <1>13, <1>15, <1>16, <1>17 DEF HeldInv

\* What is held stays in step whatever the page hears.
LEMMA HeardHeld ==
  ASSUME ConsoleTyped, HeldInv, HeardStep
  PROVE  HeldInv'
<1>1. /\ "start" \in UpKinds \ {"select", "release"} /\ "stop" \in UpKinds \ {"select", "release"}
      /\ NoScreen \in AnyScreen /\ Screens \subseteq AnyScreen
  BY DEF UpKinds, AnyScreen
<1>2. CASE HearsFrame
  <2>1. /\ Hears("frame") /\ Heard.p \in Screens
        /\ \/ /\ Heard.p = page.pending
              /\ Reads(page', page.view, Heard.p, NoScreen, NoScreen, NoScreen,
                       IF Heard.id = 0 THEN page.lost ELSE GivesUp(Heard.p))
              /\ inbound' = inbound \/ Says(ToServer("start", Heard.p))
           \/ inbound' = inbound /\ Unmoved(page)
    BY <1>2, HearsFrameFacts
  <2>2. CASE inbound' = inbound /\ Unmoved(page)
    <3>1. Remembers /\ page'.current = page.current BY <2>2, KeepsLemma DEF Unmoved, Reads
    <3> QED BY <1>1, <2>1, <2>2, <3>1, HeardKnownStill
  <2>3. CASE /\ Heard.p = page.pending
             /\ Reads(page', page.view, Heard.p, NoScreen, NoScreen, NoScreen,
                      IF Heard.id = 0 THEN page.lost ELSE GivesUp(Heard.p))
             /\ inbound' = inbound \/ Says(ToServer("start", Heard.p))
    <3>1. /\ page'.current = Heard.p /\ page'.pending = NoScreen
          /\ page'.lost = IF Heard.id = 0 THEN page.lost ELSE GivesUp(Heard.p)
      BY <2>3 DEF Reads
    <3>2. CASE Heard.id = 0 /\ Heard.p \notin page.lost
      BY <2>1, <2>3, <3>1, <3>2, ConfirmedHeld
    <3>3. CASE ~(Heard.id = 0 /\ Heard.p \notin page.lost)
      <4>1. Remembers
        <5>1. CASE Heard.id # 0 BY <2>3, <3>1, <5>1, GivenUpLemma
        <5>2. CASE Heard.id = 0 BY <2>3, <3>1, <3>3, <5>2 DEF Remembers, Wanted
        <5> QED BY <5>1, <5>2
      <4>2. seat'.held \in {NoScreen, Heard.p} \cup Wanted' BY <2>1, <4>1, ToldHeld
      <4>3. HeldKnown' BY <3>1, <4>2 DEF HeldKnown
      <4> QED BY <1>1, <2>1, <2>3, <4>1, <4>3, HeardHeldStill
    <3> QED BY <3>2, <3>3
  <2> QED BY <2>1, <2>2, <2>3
<1>3. CASE HearsError
  <2>1. /\ \E kind \in {"refused", "failed", "watch_failed"} : Hears(kind)
        /\ inbound' = inbound \/ Says(ToServer("stop", NoScreen))
    BY <1>3, HearsErrorFacts
  <2>2. PICK lost \in SUBSET Screens :
          /\ page.lost \subseteq lost
          /\ Heard.p = page.pending => Heard.p \in lost
          /\ \/ /\ Heard.p = page.asking
                /\ Reads(page', "fleet", page.current, page.pending, page.watched, NoScreen, lost)
             \/ /\ Heard.p # page.asking /\ Heard.p = page.watched /\ Heard.kind = "watch_failed"
                /\ Reads(page', "fleet", page.current, page.pending, NoScreen, NoScreen, lost)
             \/ /\ Heard.p # page.asking /\ (Heard.p # page.watched \/ Heard.kind # "watch_failed")
                /\ Heard.p = page.pending /\ page'.pending \in {page.pending, NoScreen}
                /\ Reads(page', page'.view, page.current, page'.pending, page.watched,
                         page.asking, lost)
             \/ /\ Heard.p # page.asking /\ (Heard.p # page.watched \/ Heard.kind # "watch_failed")
                /\ Heard.p # page.pending /\ Unmoved(page) /\ lost = page.lost
                /\ stage' = stage /\ inbound' = inbound
    BY <1>3, HearsErrorFacts
  <2>3. /\ page.lost \subseteq page'.lost /\ page'.current = page.current
        /\ page'.pending = page.pending \/ page.pending \in page'.lost
    BY <2>2 DEF Reads, Unmoved
  <2>4. Remembers BY <2>3 DEF Remembers, Wanted
  <2> QED BY <1>1, <2>1, <2>3, <2>4, HeardKnownStill
<1>4. CASE HearsRevoked
  <2>1. /\ Hears("revoked") /\ inbound' = inbound
        /\ Reads(page', "fleet", NoScreen, NoScreen, page.watched, page.asking,
                 GivesUp(page.pending) \cup ({page.current} \ {NoScreen, Heard.p}))
    BY <1>4, HearsRevokedFacts
  <2>2. Remembers BY <2>1, GivenUpLemma DEF Reads
  <2>3. HeldKnown' BY <2>1, <2>2, ToldHeld DEF HeldKnown
  <2> QED BY <1>1, <2>1, <2>2, <2>3, HeardHeldStill
<1>5. CASE HearsClosedPhone
  <2>1. /\ Hears("closed_phone") /\ inbound' = inbound
        /\ \/ /\ Heard.p = page.current
              /\ Reads(page', "fleet", NoScreen, NoScreen, page.watched, page.asking,
                       GivesUp(page.pending) \cup {Heard.p})
           \/ Heard.p # page.current /\ Unmoved(page)
    BY <1>5, HearsClosedPhoneFacts
  <2>2. CASE Unmoved(page)
    <3>1. Remembers /\ page'.current = page.current BY <2>2, KeepsLemma DEF Unmoved, Reads
    <3> QED BY <1>1, <2>1, <3>1, HeardKnownStill
  <2>3. CASE Reads(page', "fleet", NoScreen, NoScreen, page.watched, page.asking,
                   GivesUp(page.pending) \cup {Heard.p})
    <3>1. page'.lost = GivesUp(page.pending) \cup {Heard.p} BY <2>3 DEF Reads
    <3>2. Remembers /\ Heard.p \in Wanted' BY <3>1, GivenUpLemma DEF Wanted
    <3>3. seat'.held \in {NoScreen, Heard.p} \cup Wanted' BY <2>1, <3>2, ToldHeld
    <3>4. HeldKnown' BY <3>2, <3>3 DEF HeldKnown
    <3> QED BY <1>1, <2>1, <3>2, <3>4, HeardHeldStill
  <2> QED BY <2>1, <2>2, <2>3
<1>6. CASE HearsStream
  <2>1. Unmoved(page) /\ inbound' = inbound /\ \E kind : Hears(kind)
    BY <1>6, HearsStreamFacts
  <2>2. Remembers /\ page'.current = page.current BY <2>1, KeepsLemma DEF Unmoved, Reads
  <2> QED BY <1>1, <2>1, <2>2, HeardKnownStill
<1>7. CASE HearsWatchStarted
  <2>1. /\ Hears("watch_started") /\ Heard.p \in Screens
        /\ \/ /\ Says(ToServer("start", Heard.p))
              /\ Reads(page', "detail", NoScreen, NoScreen, Heard.p, NoScreen,
                       GivesUp(page.pending))
           \/ inbound' = inbound /\ Unmoved(page)
    BY <1>7, HearsWatchStartedFacts
  <2>2. CASE inbound' = inbound /\ Unmoved(page)
    <3>1. Remembers /\ page'.current = page.current BY <2>2, KeepsLemma DEF Unmoved, Reads
    <3> QED BY <1>1, <2>1, <2>2, <3>1, HeardKnownStill
  <2>3. CASE /\ Says(ToServer("start", Heard.p))
             /\ Reads(page', "detail", NoScreen, NoScreen, Heard.p, NoScreen, GivesUp(page.pending))
    <3>1. Remembers BY <2>3, GivenUpLemma DEF Reads
    <3>2. HeldKnown' BY <2>1, <3>1, ToldHeld DEF HeldKnown
    <3> QED BY <1>1, <2>1, <2>3, <3>1, <3>2, HeardHeldStill
  <2> QED BY <2>1, <2>2, <2>3
<1>8. CASE HearsWatchStopped
  <2>1. /\ Hears("watch_stopped") /\ inbound' = inbound
        /\ \/ Reads(page', "fleet", page.current, page.pending, NoScreen, NoScreen, page.lost)
           \/ Unmoved(page)
    BY <1>8, HearsWatchStoppedFacts
  <2>2. Remembers /\ page'.current = page.current BY <2>1, KeepsLemma DEF Unmoved, Reads
  <2> QED BY <1>1, <2>1, <2>2, HeardKnownStill
<1> QED BY <1>2, <1>3, <1>4, <1>5, <1>6, <1>7, <1>8 DEF HeardStep

\* A message that is no picture of a claim, and tells of what is held.
SaysOfHeld(m) == ~FirstPicture(m) /\ (seat'.held # NoScreen => seat'.held \in HeldAfter(m))

\* The page will hear no picture of a claim, and nothing else of what is held.
HeldTold ==
  \/ outbound' = outbound
  \/ \E m : Adds(m) /\ SaysOfHeld(m)
  \/ \E a, b : AddsTwo(a, b) /\ SaysOfHeld(a) /\ SaysOfHeld(b)

\* A message that tells nothing of what is held.
LEMMA SaysLittle ==
  ASSUME ConsoleTyped', NEW kind, kind \notin {"frame", "closed_phone", "revoked", "watch_started"},
         NEW p, NEW id
  PROVE  SaysOfHeld(Report(kind, p, id))
<1>1. Report(kind, p, id).kind = kind BY DEF Report
<1>2. seat'.held \in AnyScreen BY DEF ConsoleTyped, Seats
<1> QED BY <1>1, <1>2 DEF SaysOfHeld, FirstPicture, HeldAfter

\* What is held stays in step while the server claims nothing.
LEMMA ServedHeldStill ==
  ASSUME ConsoleTyped, ConsoleTyped', HeldInv, page' = page, HeldTold,
         seat'.held \in {NoScreen, seat.held},
         seat'.work.kind = "select" => seat'.work = seat.work,
         \/ inbound' = inbound
         \/ /\ Goes(inbound, inbound', 1, {})
            /\ seat'.held # NoScreen => inbound[1] # [kind |-> "release", p |-> seat.held]
  PROVE  HeldInv'
<1>1. /\ inbound \in Seq(Requests) /\ outbound \in Seq(Reports)
      /\ inbound' \in Seq(Requests) /\ outbound' \in Seq(Reports)
  BY DEF ConsoleTyped
<1>2. Remembers BY KeepsLemma
<1>3. PICK N : /\ Goes(outbound, outbound', 0, N)
               /\ \A m \in N : SaysOfHeld(m)
  <2>1. CASE outbound' = outbound
    <3>1. Goes(outbound, outbound', 0, {}) /\ \A n \in {} : SaysOfHeld(n) BY <1>1, <2>1, SameQueue
    <3> QED BY <3>1
  <2>2. ASSUME NEW m, Adds(m), SaysOfHeld(m)
        PROVE  \E N : Goes(outbound, outbound', 0, N) /\ \A n \in N : SaysOfHeld(n)
    <3>1. Goes(outbound, outbound', 0, {m}) /\ \A n \in {m} : SaysOfHeld(n) BY <2>2 DEF Adds
    <3> QED BY <3>1
  <2>3. ASSUME NEW a, NEW b, AddsTwo(a, b), SaysOfHeld(a), SaysOfHeld(b)
        PROVE  \E N : Goes(outbound, outbound', 0, N) /\ \A n \in N : SaysOfHeld(n)
    <3>1. Goes(outbound, outbound', 0, {a, b}) /\ \A n \in {a, b} : SaysOfHeld(n)
      BY <2>3 DEF AddsTwo
    <3> QED BY <3>1
  <2> QED BY <2>1, <2>2, <2>3 DEF HeldTold
<1>4. PICK d \in {0, 1} :
        /\ Goes(inbound, inbound', d, {})
        /\ d = 1 /\ seat'.held # NoScreen => inbound[1] # [kind |-> "release", p |-> seat.held]
  <2>1. CASE inbound' = inbound
    <3>1. Goes(inbound, inbound', 0, {}) BY <1>1, <2>1, SameQueue
    <3> QED BY <3>1
  <2>2. CASE /\ Goes(inbound, inbound', 1, {})
             /\ seat'.held # NoScreen => inbound[1] # [kind |-> "release", p |-> seat.held]
    BY <2>2
  <2> QED BY <2>1, <2>2
<1>5. QueuesGo(d, {}, 0, N) BY <1>1, <1>3, <1>4 DEF QueuesGo
<1>6. HeldKnown' BY <1>2, <1>4, <1>5, KnownStill DEF HeldInv
<1>7. /\ \A m \in N : ~FirstPicture(m)
      /\ \A m \in N : seat'.held # NoScreen => seat'.held \in HeldAfter(m)
  BY <1>3 DEF SaysOfHeld
<1>8. \A m \in {} : ~Claiming(m) OBVIOUS
<1> QED BY <1>2, <1>5, <1>6, <1>7, <1>8, HeldStill

\* The same when a request that is no release is taken.
LEMMA TakenHeldStill ==
  ASSUME ConsoleTyped, ConsoleTyped', HeldInv, NEW kind, Takes(kind), kind # "release", HeldTold,
         seat'.held \in {NoScreen, seat.held}, seat'.work.kind = "select" => seat'.work = seat.work
  PROVE  HeldInv'
<1>1. page' = page /\ Goes(inbound, inbound', 1, {}) /\ inbound[1].kind # "release" BY DEF Takes
<1> QED BY <1>1, ServedHeldStill

\* A claim that is served was made once.
LEMMA ServesSelectHeld ==
  ASSUME ConsoleTyped, ConsoleTyped', HeldInv, Takes("select"), Asked.p \in Screens,
         outbound' = outbound,
         SeatReads(seat', Asked.p, NoScreen, NoScreen, seat.seq, [kind |-> "select", p |-> Asked.p])
  PROVE  HeldInv'
<1> DEFINE p == Asked.p
<1>1. /\ Len(inbound) \in Nat \ {0} /\ inbound[1].kind = "select" /\ inbound[1].p = p
      /\ Goes(inbound, inbound', 1, {}) /\ page' = page /\ 1 \in 1..Len(inbound)
  BY DEF Takes
<1>2. /\ seat'.held = p /\ seat'.work.kind = "select" /\ seat'.work.p = p
      /\ seat'.work = [kind |-> "select", p |-> p]
  BY DEF SeatReads
<1> HIDE DEF p
<1>3. /\ inbound \in Seq(Requests) /\ outbound \in Seq(Reports) /\ inbound' \in Seq(Requests)
  BY DEF ConsoleTyped
<1>4. QueuesGo(1, {}, 0, {}) BY <1>1, <1>3, SameQueue DEF QueuesGo
<1>5. \A i \in 1..Len(inbound') : i + 1 \in 1..Len(inbound) /\ i + 1 # 1 /\ inbound'[i] = inbound[i + 1]
  <2>1. Len(inbound) \in Nat /\ Len(inbound') \in Nat
    BY <1>4, QueuesLemma
  <2> QED BY <1>1, <2>1 DEF Goes
<1>6. Wanted' = Wanted /\ page'.lost = page.lost BY <1>1 DEF Wanted
<1>7. /\ p \in Wanted
      /\ p \notin page.lost =>
           /\ \A j \in 1..Len(inbound) : Claiming(inbound[j]) /\ inbound[j].p = p => j = 1
           /\ \A j \in 1..Len(outbound) : FirstPicture(outbound[j]) => outbound[j].p # p
  <2>1. Claiming(inbound[1]) BY <1>1 DEF Claiming
  <2> QED BY <1>1, <2>1 DEF HeldInv, ClaimInv
<1>8. ASSUME NEW i \in 1..Len(inbound'), Claiming(inbound'[i])
      PROVE  /\ inbound'[i].p \in Wanted
             /\ inbound'[i].p \notin page.lost =>
                  /\ \A j \in 1..Len(inbound') :
                       Claiming(inbound'[j]) /\ inbound'[j].p = inbound'[i].p => j = i
                  /\ seat'.work # [kind |-> "select", p |-> inbound'[i].p]
                  /\ \A j \in 1..Len(outbound) :
                       FirstPicture(outbound[j]) => outbound[j].p # inbound'[i].p
  <2>1. i + 1 \in 1..Len(inbound) /\ i + 1 # 1 /\ inbound'[i] = inbound[i + 1] BY <1>5
  <2>2. /\ inbound[i + 1].p \in Wanted
        /\ inbound[i + 1].p \notin page.lost =>
             /\ \A j \in 1..Len(inbound) :
                  Claiming(inbound[j]) /\ inbound[j].p = inbound[i + 1].p => j = i + 1
             /\ \A j \in 1..Len(outbound) :
                  FirstPicture(outbound[j]) => outbound[j].p # inbound[i + 1].p
    BY <1>8, <2>1 DEF HeldInv, ClaimInv
  <2>3. inbound[i + 1].p = p => p \in page.lost BY <1>7, <1>8, <2>1
  <2>4. inbound'[i].p \notin page.lost => seat'.work # [kind |-> "select", p |-> inbound'[i].p]
    BY <1>2, <2>1, <2>3
  <2>5. ASSUME inbound'[i].p \notin page.lost, NEW j \in 1..Len(inbound'),
               Claiming(inbound'[j]), inbound'[j].p = inbound'[i].p
        PROVE  j = i
    <3>1. j + 1 \in 1..Len(inbound) /\ inbound'[j] = inbound[j + 1] BY <1>5
    <3>2. j + 1 = i + 1 BY <2>1, <2>2, <2>5, <3>1
    <3> QED BY <3>2
  <2> QED BY <2>1, <2>2, <2>4, <2>5
<1>9. ClaimInv'
  <2>1. \A i \in 1..Len(outbound) : FirstPicture(outbound[i]) =>
          /\ outbound[i].p \in Wanted
          /\ outbound[i].p \notin page.lost =>
               \A j \in 1..Len(outbound) :
                 FirstPicture(outbound[j]) /\ outbound[j].p = outbound[i].p => j = i
    BY DEF HeldInv, ClaimInv
  <2> QED BY <1>2, <1>6, <1>7, <1>8, <2>1 DEF ClaimInv
<1>10. HeldSince' /\ HeldKnown' BY <1>2, <1>6, <1>7 DEF HeldSince, HeldKnown
<1>11. HeldFirst' BY <1>2, <1>6, <1>7 DEF HeldFirst
<1> QED BY <1>9, <1>10, <1>11 DEF HeldInv

\* A picture follows the claim that was served, once.
LEMMA ShowsHeld ==
  ASSUME ConsoleTyped, ConsoleTyped', HeldInv, TakesNone, seat.work.kind = "select",
         seat.work.p \in Screens, seat.held = seat.work.p, SeatKeeps(AtRest),
         Adds(Report("frame", seat.work.p, 0))
  PROVE  HeldInv'
<1> DEFINE p == seat.work.p
           m == Report("frame", p, 0)
<1>1. m.kind = "frame" /\ m.p = p /\ m.id = 0 BY DEF Report
<1>2. seat'.held = p /\ seat'.work.kind = "none" BY DEF SeatKeeps, SeatReads, AtRest
<1>3. page' = page /\ inbound' = inbound BY DEF TakesNone
<1> HIDE DEF m
<1>4. /\ Len(outbound) \in Nat /\ Len(outbound') = Len(outbound) + 1
      /\ \A i \in 1..Len(outbound) : i \in 1..Len(outbound') /\ outbound'[i] = outbound[i]
      /\ \A i \in 1..Len(outbound') :
           \/ i \in 1..Len(outbound) /\ outbound'[i] = outbound[i]
           \/ i = Len(outbound) + 1 /\ outbound'[i] = m
  BY AddedLemma DEF m
<1>5. Wanted' = Wanted /\ page'.lost = page.lost BY <1>3 DEF Wanted
<1>6. /\ p \in Wanted
      /\ p \notin page.lost =>
           \A j \in 1..Len(outbound) : FirstPicture(outbound[j]) => outbound[j].p # p
  BY DEF HeldInv, ClaimInv
<1>7. p \notin page.lost =>
        \A i \in 1..Len(inbound) : Claiming(inbound[i]) => inbound[i].p # p
  <2>1. seat.work = [kind |-> "select", p |-> p]
    <3>1. seat.work \in Errands BY DEF ConsoleTyped, Seats
    <3> QED BY <3>1 DEF Errands
  <2> QED BY <2>1 DEF HeldInv, ClaimInv
<1> HIDE DEF p
<1>8. ClaimInv'
  <2>1. ASSUME NEW i \in 1..Len(inbound), Claiming(inbound[i])
        PROVE  /\ inbound[i].p \in Wanted
               /\ inbound[i].p \notin page.lost =>
                    /\ \A j \in 1..Len(inbound) :
                         Claiming(inbound[j]) /\ inbound[j].p = inbound[i].p => j = i
                    /\ \A j \in 1..Len(outbound') :
                         FirstPicture(outbound'[j]) => outbound'[j].p # inbound[i].p
    <3>1. /\ inbound[i].p \in Wanted
          /\ inbound[i].p \notin page.lost =>
               /\ \A j \in 1..Len(inbound) :
                    Claiming(inbound[j]) /\ inbound[j].p = inbound[i].p => j = i
               /\ \A j \in 1..Len(outbound) :
                    FirstPicture(outbound[j]) => outbound[j].p # inbound[i].p
      BY <2>1 DEF HeldInv, ClaimInv
    <3>2. inbound[i].p \notin page.lost => inbound[i].p # p BY <1>7, <2>1
    <3> QED BY <1>1, <1>4, <3>1, <3>2
  <2>2. ASSUME NEW i \in 1..Len(outbound'), FirstPicture(outbound'[i])
        PROVE  /\ outbound'[i].p \in Wanted
               /\ outbound'[i].p \notin page.lost =>
                    \A j \in 1..Len(outbound') :
                      FirstPicture(outbound'[j]) /\ outbound'[j].p = outbound'[i].p => j = i
    <3>1. CASE i \in 1..Len(outbound) /\ outbound'[i] = outbound[i]
      <4>1. /\ outbound[i].p \in Wanted
            /\ outbound[i].p \notin page.lost =>
                 \A j \in 1..Len(outbound) :
                   FirstPicture(outbound[j]) /\ outbound[j].p = outbound[i].p => j = i
        BY <2>2, <3>1 DEF HeldInv, ClaimInv
      <4>2. outbound[i].p \notin page.lost => outbound[i].p # p BY <1>6, <2>2, <3>1
      <4> QED BY <1>1, <1>4, <3>1, <4>1, <4>2
    <3>2. CASE i = Len(outbound) + 1 /\ outbound'[i] = m
      BY <1>1, <1>4, <1>6, <3>2
    <3> QED BY <1>4, <3>1, <3>2
  <2> QED BY SMTT(30), <1>2, <1>3, <1>5, <2>1, <2>2 DEF ClaimInv
<1>9. HeldSince' BY <1>2, <1>5, <1>6 DEF HeldSince
<1>10. HeldKnown' BY <1>2, <1>5, <1>6 DEF HeldKnown
<1>11. ASSUME NEW i \in 1..Len(outbound'), FirstPicture(outbound'[i]),
              outbound'[i].p \notin page.lost, NEW j \in (i + 1)..Len(outbound'),
              seat'.held = outbound'[i].p
       PROVE  seat'.held \in HeldAfter(outbound'[j])
  <2>1. i \in 1..Len(outbound) /\ outbound'[i] = outbound[i] BY <1>4, <1>11
  <2>2. outbound[i].p # p BY <1>6, <1>11, <2>1
  <2> QED BY <1>2, <1>11, <2>1, <2>2
<1>12. HeldFirst' BY <1>5, <1>11 DEF HeldFirst
<1> QED BY <1>8, <1>9, <1>10, <1>12 DEF HeldInv

\* One message is told.
LEMMA OneTold ==
  ASSUME NEW m, Adds(m), SaysOfHeld(m)
  PROVE  HeldTold
BY DEF HeldTold

\* A message of which the server tells the phone that it holds, or held until now.
LEMMA SaysHeld ==
  ASSUME NEW kind \in {"frame", "closed_phone", "revoked"}, NEW p, NEW id,
         kind = "revoked" => seat'.held = NoScreen, kind = "frame" => id # 0,
         seat'.held \in {NoScreen, p}
  PROVE  SaysOfHeld(Report(kind, p, id))
<1>1. Report(kind, p, id).kind = kind /\ Report(kind, p, id).p = p /\ Report(kind, p, id).id = id
  BY DEF Report
<1> QED BY <1>1 DEF SaysOfHeld, FirstPicture, HeldAfter

\* NotAnswered, or refused.
LEMMA UnansweredHeld ==
  ASSUME ConsoleTyped', NEW p, NotAnswered(p)
  PROVE  HeldTold
<1>1. SaysOfHeld(Report("refused", p, 0)) BY SaysLittle
<1> QED BY <1>1, OneTold DEF NotAnswered, HeldTold

\* What is held stays in step with what the page wants, when the server does anything.
LEMMA ServedHeld ==
  ASSUME ConsoleTyped, SeatInv, HeldInv, ServedStep
  PROVE  HeldInv'
<1>1. CASE ServesSelect
  <2>1. /\ ConsoleTyped' /\ Takes("select") /\ Asked.p \in Screens
        /\ \/ seat' = seat /\ Adds(Report("refused", Asked.p, 0))
           \/ /\ outbound' = outbound
              /\ SeatReads(seat', Asked.p, NoScreen, NoScreen, seat.seq,
                           [kind |-> "select", p |-> Asked.p])
    BY <1>1, ServesSelectFacts
  <2>2. CASE seat' = seat /\ Adds(Report("refused", Asked.p, 0))
    <3>1. HeldTold BY <2>1, <2>2, SaysLittle, OneTold
    <3> QED BY <2>1, <2>2, <3>1, TakenHeldStill
  <2>3. CASE /\ outbound' = outbound
             /\ SeatReads(seat', Asked.p, NoScreen, NoScreen, seat.seq,
                          [kind |-> "select", p |-> Asked.p])
    BY <2>1, <2>3, ServesSelectHeld
  <2> QED BY <2>1, <2>2, <2>3
<1>2. CASE ServesWatch
  <2>1. /\ ConsoleTyped' /\ Takes("watch")
        /\ \/ seat' = seat /\ Adds(Report("watch_failed", Asked.p, 0))
           \/ /\ seat.held = NoScreen /\ Adds(Report("watch_started", Asked.p, 0))
              /\ seat'.held = NoScreen /\ seat'.work = [kind |-> "watch", p |-> Asked.p]
    BY <1>2, ServesWatchFacts DEF SeatReads
  <2>2. CASE seat' = seat /\ Adds(Report("watch_failed", Asked.p, 0))
    <3>1. HeldTold BY <2>1, <2>2, SaysLittle, OneTold
    <3> QED BY <2>1, <2>2, <3>1, TakenHeldStill
  <2>3. CASE /\ seat.held = NoScreen /\ Adds(Report("watch_started", Asked.p, 0))
             /\ seat'.held = NoScreen /\ seat'.work = [kind |-> "watch", p |-> Asked.p]
    <3>1. SaysOfHeld(Report("watch_started", Asked.p, 0))
      <4>1. Report("watch_started", Asked.p, 0).kind = "watch_started" BY DEF Report
      <4> QED BY <2>3, <4>1 DEF SaysOfHeld, FirstPicture
    <3>2. HeldTold BY <2>3, <3>1, OneTold
    <3>3. seat'.work.kind # "select" BY <2>3
    <3> QED BY <2>1, <2>3, <3>2, <3>3, TakenHeldStill
  <2> QED BY <2>1, <2>2, <2>3
<1>3. CASE ServesUnwatch
  <2>1. /\ ConsoleTyped' /\ Takes("unwatch") /\ outbound' = outbound
        /\ seat'.held = seat.held /\ seat'.work = seat.work
    BY <1>3, ServesUnwatchFacts DEF SeatReads
  <2> QED BY <2>1, TakenHeldStill DEF HeldTold
<1>4. CASE ServesStart
  <2>1. /\ ConsoleTyped' /\ Takes("start")
        /\ seat'.held = seat.held /\ seat'.work = seat.work
        /\ \E kind \in {"refused", "unsupported", "started"}, id \in {0, seat.seq + 1} :
             Adds(Report(kind, Asked.p, id))
    BY <1>4, ServesStartFacts DEF SeatReads
  <2>2. HeldTold BY <2>1, SaysLittle, OneTold
  <2> QED BY <2>1, <2>2, TakenHeldStill
<1>5. CASE ServesStop
  <2>1. /\ ConsoleTyped' /\ Takes("stop") /\ outbound' = outbound
        /\ seat'.held = seat.held /\ seat'.work = seat.work
    BY <1>5, ServesStopFacts DEF SeatReads
  <2> QED BY <2>1, TakenHeldStill DEF HeldTold
<1>6. CASE ServesInput
  <2>1. /\ ConsoleTyped' /\ Takes("input")
        /\ \/ /\ outbound' = outbound
              /\ SeatKeeps([kind |-> "input", p |-> Asked.p])
           \/ seat' = seat /\ NotAnswered(Asked.p)
    BY <1>6, ServesInputFacts
  <2>2. CASE seat' = seat /\ NotAnswered(Asked.p)
    <3>1. HeldTold BY <2>1, <2>2, UnansweredHeld
    <3> QED BY <2>1, <2>2, <3>1, TakenHeldStill
  <2>3. CASE outbound' = outbound /\ SeatKeeps([kind |-> "input", p |-> Asked.p])
    <3>1. seat'.held = seat.held /\ seat'.work.kind = "input" BY <2>3 DEF SeatKeeps, SeatReads
    <3>2. HeldTold BY <2>3 DEF HeldTold
    <3>3. seat'.work.kind # "select" BY <3>1
    <3> QED BY <2>1, <3>1, <3>2, <3>3, TakenHeldStill
  <2> QED BY <2>1, <2>2, <2>3
<1>7. CASE ServesRelease
  <2>1. /\ ConsoleTyped' /\ Takes("release")
        /\ \/ Asked.p = seat.held /\ outbound' = outbound /\ SeatFreed(seat.work)
           \/ Asked.p # seat.held /\ seat' = seat /\ NotAnswered(Asked.p)
    BY <1>7, ServesReleaseFacts
  <2>2. page' = page /\ Goes(inbound, inbound', 1, {}) /\ inbound[1] = Asked BY <2>1 DEF Takes
  <2>3. CASE Asked.p = seat.held /\ outbound' = outbound /\ SeatFreed(seat.work)
    <3>1. seat'.held = NoScreen /\ seat'.work = seat.work BY <2>3 DEF SeatFreed, SeatReads
    <3>2. HeldTold BY <2>3 DEF HeldTold
    <3> QED BY <2>1, <2>2, <3>1, <3>2, ServedHeldStill
  <2>4. CASE Asked.p # seat.held /\ seat' = seat /\ NotAnswered(Asked.p)
    <3>1. HeldTold BY <2>1, <2>4, UnansweredHeld
    <3>2. inbound[1] # [kind |-> "release", p |-> seat.held] BY <2>2, <2>4
    <3> QED BY <2>1, <2>2, <2>4, <3>1, <3>2, ServedHeldStill
  <2> QED BY <2>1, <2>3, <2>4
<1>8. CASE Shows
  <2> DEFINE p == seat.work.p
             id == IF seat.work.kind = "select" THEN 0 ELSE 1
  <2>1. /\ ConsoleTyped' /\ TakesNone /\ seat.work.kind \in {"select", "input"} /\ p \in Screens
        /\ \/ seat.held # p /\ outbound' = outbound /\ SeatKeeps(AtRest)
           \/ seat.held = p /\ SeatKeeps(AtRest) /\ outbound' = outbound
           \/ seat.held = p /\ SeatKeeps(AtRest) /\ Adds(Report("failed", p, 0))
           \/ seat.held = p /\ SeatKeeps(AtRest) /\ Adds(Report("frame", p, id))
           \/ /\ seat.held = p /\ SeatFreed(AtRest)
              /\ AddsTwo(Report("failed", p, 0), Report("closed_phone", p, 0))
    BY <1>8, ShowsFacts
  <2>2. page' = page /\ inbound' = inbound BY <2>1 DEF TakesNone
  <2>3. /\ SeatKeeps(AtRest) => seat'.held = seat.held /\ seat'.work.kind # "select"
        /\ SeatFreed(AtRest) => seat'.held = NoScreen /\ seat'.work.kind # "select"
    BY DEF SeatKeeps, SeatFreed, SeatReads, AtRest
  <2>4. HeldTold /\ (SeatKeeps(AtRest) \/ SeatFreed(AtRest)) => HeldInv'
    BY <2>1, <2>2, <2>3, ServedHeldStill
  <2>5. CASE SeatKeeps(AtRest) /\ outbound' = outbound BY <2>4, <2>5 DEF HeldTold
  <2>6. CASE SeatKeeps(AtRest) /\ Adds(Report("failed", p, 0))
    <3>1. HeldTold BY <2>1, <2>6, SaysLittle, OneTold
    <3> QED BY <2>4, <2>6, <3>1
  <2>7. CASE seat.held = p /\ SeatKeeps(AtRest) /\ Adds(Report("frame", p, id))
    <3>1. CASE seat.work.kind = "select"
      <4>1. Adds(Report("frame", p, 0)) BY <2>7, <3>1
      <4> QED BY <2>1, <2>7, <3>1, <4>1, ShowsHeld
    <3>2. CASE seat.work.kind # "select"
      <4>1. Adds(Report("frame", p, 1)) BY <2>7, <3>2
      <4>2. SaysOfHeld(Report("frame", p, 1)) BY <2>3, <2>7, SaysHeld
      <4>3. HeldTold BY <4>1, <4>2, OneTold
      <4> QED BY <2>4, <2>7, <4>3
    <3> QED BY <3>1, <3>2
  <2>8. CASE /\ seat.held = p /\ SeatFreed(AtRest)
             /\ AddsTwo(Report("failed", p, 0), Report("closed_phone", p, 0))
    <3>1. SaysOfHeld(Report("failed", p, 0)) BY <2>1, SaysLittle
    <3>2. SaysOfHeld(Report("closed_phone", p, 0)) BY <2>3, <2>8, SaysHeld
    <3>3. HeldTold BY <2>8, <3>1, <3>2 DEF HeldTold
    <3> QED BY <2>4, <2>8, <3>3
  <2> QED BY <2>1, <2>5, <2>6, <2>7, <2>8
<1>9. CASE ShowsWatched
  <2>1. /\ ConsoleTyped' /\ TakesNone
        /\ seat'.held = seat.held /\ seat'.work = AtRest
        /\ \/ outbound' = outbound
           \/ \E kind \in {"watch_frame", "watch_failed"} : Adds(Report(kind, seat.work.p, 0))
    BY <1>9, ShowsWatchedFacts DEF SeatKeeps, SeatReads
  <2>2. HeldTold
    <3>1. \A kind \in {"watch_frame", "watch_failed"} : SaysOfHeld(Report(kind, seat.work.p, 0))
      BY <2>1, SaysLittle
    <3> QED BY <2>1, <3>1 DEF HeldTold
  <2>3. page' = page /\ inbound' = inbound BY <2>1 DEF TakesNone
  <2>4. seat'.work.kind # "select" BY <2>1 DEF AtRest
  <2> QED BY <2>1, <2>2, <2>3, <2>4, ServedHeldStill
<1>10. CASE SendsVideo \/ VideoBreaks
  <2>1. /\ ConsoleTyped' /\ TakesNone /\ seat' = seat
        /\ \E kind \in {"video", "broken"} : Adds(Report(kind, seat.stream, seat.seq))
    BY <1>10, StreamToldFacts
  <2>2. HeldTold
    <3>1. \A kind \in {"video", "broken"} : SaysOfHeld(Report(kind, seat.stream, seat.seq))
      BY <2>1, SaysLittle
    <3> QED BY <2>1, <3>1 DEF HeldTold
  <2>3. page' = page /\ inbound' = inbound BY <2>1 DEF TakesNone
  <2> QED BY <2>1, <2>2, <2>3, ServedHeldStill
<1>11. CASE Taken
  <2>1. /\ ConsoleTyped' /\ TakesNone /\ seat'.work = seat.work
        /\ \/ seat'.held = NoScreen /\ Adds(Report("revoked", seat.held, 0))
           \/ seat'.held = seat.held /\ Adds(Report("watch_stopped", seat.eye, 0))
           \/ seat'.held = seat.held /\ Adds(Report("closed_phone", seat.held, 0))
    BY <1>11, TakenFacts DEF SeatFreed, SeatReads
  <2>2. HeldTold
    <3>1. CASE seat'.held = NoScreen /\ Adds(Report("revoked", seat.held, 0))
      BY <3>1, SaysHeld, OneTold
    <3>2. CASE Adds(Report("watch_stopped", seat.eye, 0))
      BY <2>1, <3>2, SaysLittle, OneTold
    <3>3. CASE seat'.held = seat.held /\ Adds(Report("closed_phone", seat.held, 0))
      BY <3>3, SaysHeld, OneTold
    <3> QED BY <2>1, <3>1, <3>2, <3>3
  <2>3. page' = page /\ inbound' = inbound BY <2>1 DEF TakesNone
  <2> QED BY <2>1, <2>2, <2>3, ServedHeldStill
<1> QED BY <1>1, <1>2, <1>3, <1>4, <1>5, <1>6, <1>7, <1>8, <1>9, <1>10, <1>11 DEF ServedStep

------------------------------------------------------------------------------
(* What the page shows, while nothing is given up.                         *)

\* Then what is asked for, fetched or told of is the phone that is waited for.
LEMMA NoneLost ==
  ASSUME ConsoleTyped, ClaimInv, page.lost = {}
  PROVE  /\ \A i \in 1..Len(inbound) : Claiming(inbound[i]) =>
              /\ inbound[i].p = page.pending /\ page.pending # NoScreen
              /\ \A j \in 1..Len(outbound) : ~FirstPicture(outbound[j])
         /\ seat.work.kind = "select" =>
              /\ seat.work.p = page.pending /\ page.pending # NoScreen
              /\ \A j \in 1..Len(outbound) : ~FirstPicture(outbound[j])
         /\ \A i \in 1..Len(outbound) : FirstPicture(outbound[i]) =>
              outbound[i].p = page.pending /\ page.pending # NoScreen
<1>1. \A p : p \in Wanted => p = page.pending BY DEF Wanted
<1>2. NoScreen \notin Screens BY ConsoleAssumption
<1>3. \A j \in 1..Len(outbound) : FirstPicture(outbound[j]) =>
        outbound[j].p = page.pending /\ page.pending # NoScreen
  BY <1>1, <1>2, MessagesLemma DEF ClaimInv
<1>4. ASSUME NEW i \in 1..Len(inbound), Claiming(inbound[i])
      PROVE  /\ inbound[i].p = page.pending /\ page.pending # NoScreen
             /\ \A j \in 1..Len(outbound) : ~FirstPicture(outbound[j])
  <2>1. inbound[i].p \in Screens BY <1>4 DEF ConsoleTyped, Claiming
  <2>2. inbound[i].p = page.pending BY <1>1, <1>4 DEF ClaimInv
  <2>3. \A j \in 1..Len(outbound) : FirstPicture(outbound[j]) => outbound[j].p # inbound[i].p
    BY <1>4 DEF ClaimInv
  <2> QED BY <1>2, <1>3, <2>1, <2>2, <2>3
<1>5. ASSUME seat.work.kind = "select"
      PROVE  /\ seat.work.p = page.pending /\ page.pending # NoScreen
             /\ \A j \in 1..Len(outbound) : ~FirstPicture(outbound[j])
  <2>1. seat.work.p \in Screens BY <1>5 DEF ConsoleTyped
  <2>2. seat.work.p = page.pending BY <1>1, <1>5 DEF ClaimInv
  <2>3. \A j \in 1..Len(outbound) : FirstPicture(outbound[j]) => outbound[j].p # seat.work.p
    BY <1>5 DEF ClaimInv
  <2> QED BY <1>2, <1>3, <2>1, <2>2, <2>3
<1> QED BY <1>3, <1>4, <1>5

\* A phone is waited for while nothing that was asked for it goes without a word.
LEMMA WaitStill ==
  ASSUME ConsoleTyped, WaitInv, NEW d, NEW M, NEW e, NEW N, QueuesGo(d, M, e, N),
         page'.pending \in {NoScreen, page.pending}, d = 1 => ~Claiming(inbound[1]),
         seat'.work = seat.work \/ (seat.work.kind # "select" /\ seat'.work.kind # "select"),
         e = 1 /\ page'.pending # NoScreen => ~Tells(outbound[1], page.pending),
         e = 1 /\ seat.work.kind = "select" => outbound[1].kind # "revoked",
         \/ seat'.held = seat.held
         \/ \E i \in 1..Len(outbound') : outbound'[i].kind = "revoked" /\ outbound'[i].p = seat.held
         \/ seat'.work.kind # "select"
  PROVE  WaitInv'
<1>1. /\ d \in {0, 1} /\ e \in {0, 1}
      /\ Len(inbound) \in Nat /\ Len(outbound) \in Nat
      /\ \A i \in 1..Len(inbound) :
           i > d => i - d \in 1..Len(inbound') /\ inbound'[i - d] = inbound[i]
      /\ \A i \in 1..Len(outbound) :
           i > e => i - e \in 1..Len(outbound') /\ outbound'[i - e] = outbound[i]
  BY QueuesLemma
<1>2. \A i \in 1..Len(inbound) : \A p : inbound[i] = [kind |-> "select", p |-> p] =>
        \E j \in 1..Len(inbound') : inbound'[j] = [kind |-> "select", p |-> p]
  <2>1. ASSUME NEW i \in 1..Len(inbound), NEW p, inbound[i] = [kind |-> "select", p |-> p]
        PROVE  \E j \in 1..Len(inbound') : inbound'[j] = [kind |-> "select", p |-> p]
    <3>1. Claiming(inbound[i]) BY <2>1 DEF Claiming
    <3>2. i > d BY <1>1, <2>1, <3>1
    <3> QED BY <1>1, <2>1, <3>2
  <2> QED BY ZenonT(30), <2>1
<1>3. ASSUME page'.pending # NoScreen
      PROVE  \/ \E i \in 1..Len(inbound') : inbound'[i] = [kind |-> "select", p |-> page'.pending]
             \/ seat'.work = [kind |-> "select", p |-> page'.pending]
             \/ \E i \in 1..Len(outbound') : Tells(outbound'[i], page'.pending)
  <2>1. page'.pending = page.pending BY <1>3
  <2>2. \/ \E i \in 1..Len(inbound) : inbound[i] = [kind |-> "select", p |-> page.pending]
        \/ seat.work = [kind |-> "select", p |-> page.pending]
        \/ \E i \in 1..Len(outbound) : Tells(outbound[i], page.pending)
    BY <1>3, <2>1 DEF WaitInv
  <2>3. CASE \E i \in 1..Len(inbound) : inbound[i] = [kind |-> "select", p |-> page.pending]
    BY <1>2, <2>1, <2>3
  <2>4. CASE seat.work = [kind |-> "select", p |-> page.pending]
    BY <2>1, <2>4
  <2>5. ASSUME NEW i \in 1..Len(outbound), Tells(outbound[i], page.pending)
        PROVE  \E j \in 1..Len(outbound') : Tells(outbound'[j], page'.pending)
    <3>1. i > e BY <1>1, <1>3, <2>5
    <3> QED BY <1>1, <2>1, <2>5, <3>1
  <2> QED BY <2>2, <2>3, <2>4, <2>5
<1>4. ASSUME seat'.work.kind = "select"
      PROVE  \/ seat'.held = seat'.work.p
             \/ \E i \in 1..Len(outbound') :
                  outbound'[i].kind = "revoked" /\ outbound'[i].p = seat'.work.p
  <2>1. seat'.work = seat.work /\ seat.work.kind = "select" BY <1>4
  <2>2. \/ seat.held = seat.work.p
        \/ \E i \in 1..Len(outbound) : outbound[i].kind = "revoked" /\ outbound[i].p = seat.work.p
    BY <2>1 DEF WaitInv
  <2>3. CASE seat.held = seat.work.p BY <1>4, <2>1, <2>3
  <2>4. ASSUME NEW i \in 1..Len(outbound), outbound[i].kind = "revoked", outbound[i].p = seat.work.p
        PROVE  \E j \in 1..Len(outbound') :
                 outbound'[j].kind = "revoked" /\ outbound'[j].p = seat'.work.p
    <3>1. i > e BY <1>1, <2>1, <2>4
    <3> QED BY <1>1, <2>1, <2>4, <3>1
  <2> QED BY <2>2, <2>3, <2>4
<1> QED BY <1>3, <1>4 DEF WaitInv

\* Nothing is released anew.
LEMMA ReleaseStill ==
  ASSUME ConsoleTyped, ReleaseInv, NEW d, NEW M, NEW e, NEW N, QueuesGo(d, M, e, N),
         page'.current \in {NoScreen, page.current}, \A m \in M : m.kind # "release",
         \A m \in N : ~FirstPicture(m), seat'.work.kind = "select" => seat.work.kind = "select"
  PROVE  ReleaseInv'
<1>1. /\ d \in {0, 1} /\ e \in {0, 1}
      /\ Len(inbound) \in Nat /\ Len(inbound') \in Nat
      /\ \A i \in 1..Len(inbound') :
           \/ i <= Len(inbound) - d /\ i + d \in 1..Len(inbound) /\ inbound'[i] = inbound[i + d]
           \/ i > Len(inbound) - d /\ inbound'[i] \in M
      /\ \A i \in 1..Len(outbound') : FirstPicture(outbound'[i]) =>
           i + e \in 1..Len(outbound) /\ outbound'[i] = outbound[i + e]
  BY QueuesLemma
<1>2. \A i \in 1..Len(inbound') : inbound'[i].kind = "release" =>
        i + d \in 1..Len(inbound) /\ inbound'[i] = inbound[i + d]
  BY <1>1
<1>3. Released' => Released BY <1>2 DEF Released
<1>4. (\E i \in 1..Len(outbound') : FirstPicture(outbound'[i])) =>
        \E i \in 1..Len(outbound) : FirstPicture(outbound[i])
  BY <1>1
<1>5. ASSUME NEW i \in 1..Len(inbound'), Claiming(inbound'[i]),
             NEW j \in (i + 1)..Len(inbound'), inbound'[j].kind = "release"
      PROVE  FALSE
  <2>1. j \in 1..Len(inbound') /\ i + d < j + d BY <1>1
  <2>2. /\ j <= Len(inbound) - d /\ j + d \in 1..Len(inbound) /\ inbound'[j] = inbound[j + d]
    BY <1>1, <1>5, <2>1
  <2>3. i + d \in 1..Len(inbound) /\ inbound'[i] = inbound[i + d]
    BY SMTT(30), <1>1, <2>1, <2>2
  <2>4. j + d \in (i + d + 1)..Len(inbound) BY <1>1, <2>1, <2>2, <2>3
  <2> QED BY <1>5, <2>2, <2>3, <2>4 DEF ReleaseInv
<1>6. \A i \in 1..Len(inbound') : Claiming(inbound'[i]) =>
        \A j \in (i + 1)..Len(inbound') : inbound'[j].kind # "release"
  BY <1>5
<1>7. /\ page.current # NoScreen => ~Released
      /\ seat.work.kind = "select" => ~Released
      /\ (\E i \in 1..Len(outbound) : FirstPicture(outbound[i])) => ~Released
  BY DEF ReleaseInv
<1>8. /\ page'.current # NoScreen => ~Released'
      /\ seat'.work.kind = "select" => ~Released'
      /\ (\E i \in 1..Len(outbound') : FirstPicture(outbound'[i])) => ~Released'
  BY <1>3, <1>4, <1>7
<1> QED BY <1>6, <1>8 DEF ReleaseInv

\* The phone that is controlled stays held, or the page will hear that it is gone.
LEMMA ControlStill ==
  ASSUME ConsoleTyped, ControlInv, NEW d, NEW M, NEW e, NEW N, QueuesGo(d, M, e, N),
         \A m \in N : ~FirstPicture(m), page'.current \in {NoScreen, page.current},
         page'.pending = NoScreen => page.pending = NoScreen \/ page'.current = NoScreen,
         e = 1 /\ page'.current # NoScreen => ~SaysGone(outbound[1], page.current),
         \/ seat'.held = seat.held
         \/ \E i \in 1..Len(outbound') : i > Len(outbound) - e /\ SaysGone(outbound'[i], seat.held)
  PROVE  ControlInv'
<1>1. /\ e \in {0, 1} /\ Len(outbound) \in Nat /\ Len(outbound') \in Nat
      /\ \A i \in 1..Len(outbound') : FirstPicture(outbound'[i]) =>
           i <= Len(outbound) - e /\ i + e \in 1..Len(outbound) /\ outbound'[i] = outbound[i + e]
      /\ \A i \in 1..Len(outbound) :
           i > e => i - e \in 1..Len(outbound') /\ outbound'[i - e] = outbound[i]
  BY QueuesLemma
<1>2. ASSUME NEW i \in 1..Len(outbound'), FirstPicture(outbound'[i])
      PROVE  \/ seat'.held = outbound'[i].p
             \/ \E j \in (i + 1)..Len(outbound') : SaysGone(outbound'[j], outbound'[i].p)
  <2>1. i <= Len(outbound) - e /\ i + e \in 1..Len(outbound) /\ outbound'[i] = outbound[i + e]
    BY <1>1, <1>2
  <2>2. \/ seat.held = outbound[i + e].p
        \/ \E j \in (i + e + 1)..Len(outbound) : SaysGone(outbound[j], outbound[i + e].p)
    BY <1>2, <2>1 DEF ControlInv
  <2>3. CASE seat.held = outbound[i + e].p
    <3>1. CASE seat'.held = seat.held BY <2>1, <2>3, <3>1
    <3>2. ASSUME NEW j \in 1..Len(outbound'), j > Len(outbound) - e, SaysGone(outbound'[j], seat.held)
          PROVE  \E k \in (i + 1)..Len(outbound') : SaysGone(outbound'[k], outbound'[i].p)
      <4>1. j \in (i + 1)..Len(outbound') BY <1>1, <2>1, <3>2
      <4> QED BY <2>1, <2>3, <3>2, <4>1
    <3> QED BY <3>1, <3>2
  <2>4. ASSUME NEW j \in (i + e + 1)..Len(outbound), SaysGone(outbound[j], outbound[i + e].p)
        PROVE  \E k \in (i + 1)..Len(outbound') : SaysGone(outbound'[k], outbound'[i].p)
    <3>1. /\ j \in 1..Len(outbound) /\ j > e BY <1>1, <2>1
    <3>2. j - e \in (i + 1)..Len(outbound') /\ outbound'[j - e] = outbound[j]
      BY <1>1, <2>1, <3>1
    <3> QED BY <2>1, <2>4, <3>2
  <2> QED BY <2>2, <2>3, <2>4
<1>3. ASSUME page'.pending = NoScreen, page'.current # NoScreen
      PROVE  \/ page'.current = seat'.held
             \/ \E i \in 1..Len(outbound') : SaysGone(outbound'[i], page'.current)
  <2>1. page'.current = page.current /\ page.pending = NoScreen BY <1>3
  <2>2. \/ page.current = seat.held
        \/ \E i \in 1..Len(outbound) : SaysGone(outbound[i], page.current)
    BY <1>3, <2>1 DEF ControlInv
  <2>3. CASE page.current = seat.held BY <2>1, <2>3
  <2>4. ASSUME NEW i \in 1..Len(outbound), SaysGone(outbound[i], page.current)
        PROVE  \E j \in 1..Len(outbound') : SaysGone(outbound'[j], page'.current)
    <3>1. i > e BY <1>1, <1>3, <2>4
    <3> QED BY <1>1, <2>1, <2>4, <3>1
  <2> QED BY <2>2, <2>3, <2>4
<1> QED BY <1>2, <1>3 DEF ControlInv

\* A page that goes on watching holds no phone still, and hears of none that was taken.
LEMMA QuietStill ==
  ASSUME ConsoleTyped, QuietWatch, NEW d, NEW M, NEW e, NEW N, QueuesGo(d, M, e, N),
         \A m \in N : m.kind # "revoked",
         \/ page'.watched = NoScreen
         \/ /\ page'.watched = page.watched /\ page'.pending = page.pending
            /\ page'.view = page.view /\ seat'.held \in {NoScreen, seat.held},
         page.pending # NoScreen => page'.pending # NoScreen
  PROVE  QuietWatch'
<1>1. /\ e \in {0, 1} /\ Len(outbound) \in Nat /\ Len(outbound') \in Nat
      /\ \A i \in 1..Len(outbound') :
           \/ i <= Len(outbound) - e /\ i + e \in 1..Len(outbound) /\ outbound'[i] = outbound[i + e]
           \/ i > Len(outbound) - e /\ outbound'[i] \in N
  BY QueuesLemma
<1>2. \A i \in 1..Len(outbound') : outbound'[i].kind = "revoked" =>
        i <= Len(outbound) - e /\ i + e \in 1..Len(outbound) /\ outbound'[i] = outbound[i + e]
  BY <1>1
<1>3. ASSUME page'.watched # NoScreen
      PROVE  /\ page'.pending = NoScreen /\ page'.view # "fleet" /\ seat'.held = NoScreen
             /\ \A i \in 1..Len(outbound') : outbound'[i].kind # "revoked"
  <2>1. /\ page'.watched = page.watched /\ page'.pending = page.pending
        /\ page'.view = page.view /\ seat'.held \in {NoScreen, seat.held}
    BY <1>3
  <2>2. /\ page.pending = NoScreen /\ page.view # "fleet" /\ seat.held = NoScreen
        /\ \A i \in 1..Len(outbound) : outbound[i].kind # "revoked"
    BY <1>3, <2>1 DEF QuietWatch
  <2> QED BY <1>2, <2>1, <2>2
<1>4. ASSUME NEW i \in 1..Len(outbound'), outbound'[i].kind = "watch_started",
             NEW j \in (i + 1)..Len(outbound'), outbound'[j].kind = "revoked"
      PROVE  page'.pending # NoScreen /\ \A k \in 1..(i - 1) : ~FirstPicture(outbound'[k])
  <2>1. /\ j \in 1..Len(outbound') /\ i < j BY <1>1
  <2>2. j <= Len(outbound) - e /\ j + e \in 1..Len(outbound) /\ outbound'[j] = outbound[j + e]
    BY <1>2, <1>4, <2>1
  <2>3. \A k \in 1..i : k \in 1..Len(outbound') /\ k + e \in 1..Len(outbound) /\ outbound'[k] = outbound[k + e]
    BY SMTT(30), <1>1, <2>1, <2>2
  <2>4. i \in 1..i /\ i + e \in 1..Len(outbound) /\ outbound'[i] = outbound[i + e] BY <1>1, <2>3
  <2>5. j + e \in (i + e + 1)..Len(outbound) BY <1>1, <2>1, <2>2, <2>4
  <2>6. page.pending # NoScreen /\ \A k \in 1..(i + e - 1) : ~FirstPicture(outbound[k])
    <3>1. \A a \in 1..Len(outbound) : outbound[a].kind = "watch_started" =>
            \A b \in (a + 1)..Len(outbound) : outbound[b].kind = "revoked" =>
              page.pending # NoScreen /\ \A k \in 1..(a - 1) : ~FirstPicture(outbound[k])
      BY DEF QuietWatch
    <3>2. \E a \in 1..Len(outbound) : a = i + e /\ outbound[a].kind = "watch_started"
      BY <1>4, <2>4
    <3>3. PICK a \in 1..Len(outbound) : a = i + e /\ outbound[a].kind = "watch_started" BY <3>2
    <3>4. j + e \in (a + 1)..Len(outbound) /\ outbound[j + e].kind = "revoked"
      BY <1>4, <2>2, <2>5, <3>3
    <3>5. page.pending # NoScreen /\ \A k \in 1..(a - 1) : ~FirstPicture(outbound[k])
      BY <3>1, <3>3, <3>4
    <3> QED BY <1>1, <3>3, <3>5
  <2>7. ASSUME NEW k \in 1..(i - 1) PROVE ~FirstPicture(outbound'[k])
    <3>1. k \in 1..i /\ k + e \in 1..(i + e - 1) BY <1>1
    <3> QED BY <2>3, <2>6, <3>1
  <2> QED BY <2>6, <2>7
<1> QED BY <1>3, <1>4 DEF QuietWatch

\* The last word on watching stays what it was, or there is none.
LEMMA LastStill ==
  ASSUME ConsoleTyped, LastWord, NEW d, NEW M, NEW e, NEW N, QueuesGo(d, M, e, N),
         \/ page'.asking = NoScreen /\ page'.watched = NoScreen
         \/ /\ {page'.asking, page'.watched} = {page.asking, page.watched}
            /\ \A m \in M : ~Viewing(m)
  PROVE  LastWord'
<1>1. /\ d \in {0, 1} /\ Len(inbound) \in Nat /\ Len(inbound') \in Nat
      /\ \A i \in 1..Len(inbound') :
           \/ i <= Len(inbound) - d /\ i + d \in 1..Len(inbound) /\ inbound'[i] = inbound[i + d]
           \/ i > Len(inbound) - d /\ inbound'[i] \in M
      /\ \A i \in 1..Len(inbound) :
           i > d => i - d \in 1..Len(inbound') /\ inbound'[i - d] = inbound[i]
  BY QueuesLemma
<1>2. ASSUME {page'.asking, page'.watched} # {NoScreen}, NEW i \in 1..Len(inbound'),
             Viewing(inbound'[i]), \A j \in (i + 1)..Len(inbound') : ~Viewing(inbound'[j])
      PROVE  inbound'[i].kind = "watch" /\ inbound'[i].p \in {page'.asking, page'.watched}
  <2>1. /\ {page'.asking, page'.watched} = {page.asking, page.watched}
        /\ \A m \in M : ~Viewing(m)
    BY <1>2
  <2>2. i + d \in 1..Len(inbound) /\ inbound'[i] = inbound[i + d] BY <1>1, <1>2, <2>1
  <2>3. ASSUME NEW j \in (i + d + 1)..Len(inbound) PROVE ~Viewing(inbound[j])
    <3>1. /\ j \in 1..Len(inbound) /\ j > d BY <1>1, <2>2
    <3>2. j - d \in (i + 1)..Len(inbound') /\ inbound'[j - d] = inbound[j]
      BY <1>1, <3>1
    <3> QED BY <1>2, <3>2
  <2> QED BY <1>2, <2>1, <2>2, <2>3 DEF LastWord
<1> QED BY <1>2 DEF LastWord

\* The phone that is watched stays watched, or the page will hear that it is not.
LEMMA WatchStill ==
  ASSUME ConsoleTyped, WatchInv, NEW d, NEW M, NEW e, NEW N, QueuesGo(d, M, e, N),
         \/ page'.asking = NoScreen /\ page'.watched = NoScreen
         \/ /\ page'.asking = page.asking /\ page'.watched = page.watched
            /\ page.pending # NoScreen => page'.pending # NoScreen
            /\ d = 1 => ~Viewing(inbound[1])
            /\ e = 1 => /\ outbound[1].kind = "watch_failed" =>
                             outbound[1].p \notin {page.asking, page.watched}
                        /\ outbound[1].kind = "watch_started" => outbound[1].p # page.asking
                        /\ outbound[1].kind = "watch_stopped" => outbound[1].p # page.watched
            /\ \/ seat'.eye = seat.eye
               \/ \E i \in 1..Len(outbound') :
                    /\ i > Len(outbound) - e /\ outbound'[i].p = seat.eye
                    /\ outbound'[i].kind \in {"watch_failed", "watch_stopped"}
  PROVE  WatchInv'
<1>1. CASE page'.asking = NoScreen /\ page'.watched = NoScreen BY <1>1 DEF WatchInv
<1>2. CASE ~(page'.asking = NoScreen /\ page'.watched = NoScreen)
  <2>1. /\ page'.asking = page.asking /\ page'.watched = page.watched
        /\ page.pending # NoScreen => page'.pending # NoScreen
        /\ d = 1 => ~Viewing(inbound[1])
        /\ e = 1 => /\ outbound[1].kind = "watch_failed" =>
                         outbound[1].p \notin {page.asking, page.watched}
                    /\ outbound[1].kind = "watch_started" => outbound[1].p # page.asking
                    /\ outbound[1].kind = "watch_stopped" => outbound[1].p # page.watched
        /\ \/ seat'.eye = seat.eye
           \/ \E i \in 1..Len(outbound') :
                /\ i > Len(outbound) - e /\ outbound'[i].p = seat.eye
                /\ outbound'[i].kind \in {"watch_failed", "watch_stopped"}
    BY <1>2
  <2>2. /\ d \in {0, 1} /\ Len(inbound) \in Nat
        /\ \A i \in 1..Len(inbound) :
             i > d => i - d \in 1..Len(inbound') /\ inbound'[i - d] = inbound[i]
        /\ e \in {0, 1} /\ Len(outbound) \in Nat /\ Len(outbound') \in Nat
        /\ \A i \in 1..Len(outbound) :
             i > e => i - e \in 1..Len(outbound') /\ outbound'[i - e] = outbound[i]
    BY QueuesLemma
  <2>3. ASSUME NoViewing' PROVE NoViewing
    <3>1. ASSUME NEW i \in 1..Len(inbound) PROVE ~Viewing(inbound[i])
      <4>1. CASE i > d BY <2>2, <2>3, <4>1 DEF NoViewing
      <4>2. CASE ~(i > d) BY <2>1, <2>2, <4>2
      <4> QED BY <4>1, <4>2
    <3> QED BY <3>1 DEF NoViewing
  <2>4. ASSUME NoViewing', page'.pending = NoScreen, page'.asking # NoScreen
        PROVE  \/ \E i \in 1..Len(outbound') :
                    outbound'[i].kind = "watch_failed" /\ outbound'[i].p = page'.asking
               \/ \E i \in 1..Len(outbound') :
                    /\ outbound'[i].kind = "watch_started" /\ outbound'[i].p = page'.asking
                    /\ \/ seat'.eye = page'.asking
                       \/ \E j \in (i + 1)..Len(outbound') :
                            outbound'[j].kind = "watch_stopped" /\ outbound'[j].p = page'.asking
    <3>1. \/ \E i \in 1..Len(outbound) :
               outbound[i].kind = "watch_failed" /\ outbound[i].p = page.asking
          \/ \E i \in 1..Len(outbound) :
               /\ outbound[i].kind = "watch_started" /\ outbound[i].p = page.asking
               /\ \/ seat.eye = page.asking
                  \/ \E j \in (i + 1)..Len(outbound) :
                       outbound[j].kind = "watch_stopped" /\ outbound[j].p = page.asking
      BY <2>1, <2>3, <2>4 DEF WatchInv
    <3>2. ASSUME NEW i \in 1..Len(outbound), outbound[i].kind = "watch_failed",
                 outbound[i].p = page.asking
          PROVE  \E j \in 1..Len(outbound') :
                   outbound'[j].kind = "watch_failed" /\ outbound'[j].p = page'.asking
      <4>1. i > e BY <2>1, <2>2, <3>2
      <4> QED BY <2>1, <2>2, <3>2, <4>1
    <3>3. ASSUME NEW i \in 1..Len(outbound), outbound[i].kind = "watch_started",
                 outbound[i].p = page.asking,
                 \/ seat.eye = page.asking
                 \/ \E j \in (i + 1)..Len(outbound) :
                      outbound[j].kind = "watch_stopped" /\ outbound[j].p = page.asking
          PROVE  \/ \E j \in 1..Len(outbound') :
                      outbound'[j].kind = "watch_failed" /\ outbound'[j].p = page'.asking
                 \/ \E k \in 1..Len(outbound') :
                      /\ outbound'[k].kind = "watch_started" /\ outbound'[k].p = page'.asking
                      /\ \/ seat'.eye = page'.asking
                         \/ \E j \in (k + 1)..Len(outbound') :
                              outbound'[j].kind = "watch_stopped" /\ outbound'[j].p = page'.asking
      <4>1. i > e BY <2>1, <2>2, <3>3
      <4>2. i - e \in 1..Len(outbound') /\ outbound'[i - e] = outbound[i] /\ i - e <= Len(outbound) - e
        BY <2>2, <4>1
      <4>3. CASE seat.eye = page.asking /\ seat'.eye = seat.eye
        BY <2>1, <3>3, <4>2, <4>3
      <4>4. ASSUME seat.eye = page.asking, NEW j \in 1..Len(outbound'), j > Len(outbound) - e,
                   outbound'[j].p = seat.eye, outbound'[j].kind \in {"watch_failed", "watch_stopped"}
            PROVE  \/ outbound'[j].kind = "watch_failed" /\ outbound'[j].p = page'.asking
                   \/ /\ outbound'[j].kind = "watch_stopped" /\ outbound'[j].p = page'.asking
                      /\ j \in ((i - e) + 1)..Len(outbound')
        <5>1. j \in ((i - e) + 1)..Len(outbound') BY <2>2, <4>2, <4>4
        <5> QED BY <2>1, <4>4, <5>1
      <4>5. ASSUME NEW j \in (i + 1)..Len(outbound), outbound[j].kind = "watch_stopped",
                   outbound[j].p = page.asking
            PROVE  /\ j - e \in ((i - e) + 1)..Len(outbound')
                   /\ outbound'[j - e].kind = "watch_stopped" /\ outbound'[j - e].p = page'.asking
        <5>1. j \in 1..Len(outbound) /\ j > e BY <2>2, <4>1
        <5>2. j - e \in 1..Len(outbound') /\ outbound'[j - e] = outbound[j] BY <2>2, <5>1
        <5> QED BY <2>1, <2>2, <4>5, <5>2
      <4> QED BY <2>1, <3>3, <4>2, <4>3, <4>4, <4>5
    <3> QED BY <3>1, <3>2, <3>3
  <2>5. ASSUME NoViewing', page'.watched # NoScreen
        PROVE  \/ seat'.eye = page'.watched
               \/ \E i \in 1..Len(outbound') :
                    /\ outbound'[i].kind \in {"watch_failed", "watch_stopped"}
                    /\ outbound'[i].p = page'.watched
    <3>1. \/ seat.eye = page.watched
          \/ \E i \in 1..Len(outbound) :
               /\ outbound[i].kind \in {"watch_failed", "watch_stopped"}
               /\ outbound[i].p = page.watched
      BY <2>1, <2>3, <2>5 DEF WatchInv
    <3>2. CASE seat.eye = page.watched BY <2>1, <3>2
    <3>3. ASSUME NEW i \in 1..Len(outbound), outbound[i].p = page.watched,
                 outbound[i].kind \in {"watch_failed", "watch_stopped"}
          PROVE  \E j \in 1..Len(outbound') :
                   /\ outbound'[j].kind \in {"watch_failed", "watch_stopped"}
                   /\ outbound'[j].p = page'.watched
      <4>1. i > e BY <2>1, <2>2, <3>3
      <4> QED BY <2>1, <2>2, <3>3, <4>1
    <3> QED BY <3>1, <3>2, <3>3
  <2> QED BY <2>4, <2>5 DEF WatchInv
<1> QED BY <1>1, <1>2

\* A page that gave nothing up waited for nothing.
LEMMA NotGivenUp ==
  ASSUME GivesUp(page.pending) = {}
  PROVE  page.pending = NoScreen /\ page.lost = {}
BY DEF GivesUp

\* What the operator's steps keep when they end no control and ask to watch nothing.
LEMMA UntoldShown ==
  ASSUME ConsoleTyped, ShownParts, Untold, page'.current \in {NoScreen, page.current},
         \/ page'.pending = page.pending
         \/ page.pending = NoScreen /\ page'.pending # NoScreen /\ page.watched = NoScreen,
         NEW m, inbound' \in Seq(Requests), Goes(inbound, inbound', 0, {m}), m.kind # "release",
         \/ page'.asking = NoScreen /\ page'.watched = NoScreen
         \/ /\ page'.asking = page.asking /\ page'.watched = page.watched /\ ~Viewing(m)
            /\ page'.view = page.view \/ page.watched = NoScreen
  PROVE  ReleaseInv' /\ ControlInv' /\ QuietWatch' /\ LastWord' /\ WatchInv'
<1>1. seat' = seat /\ outbound' = outbound BY DEF Untold
<1>2. QueuesGo(0, {m}, 0, {}) BY <1>1, SameQueue DEF ConsoleTyped, QueuesGo
<1>3. \A n \in {m} : n.kind # "release" OBVIOUS
<1>4. ReleaseInv' BY <1>1, <1>2, <1>3, ReleaseStill DEF ShownParts
<1>5. ControlInv' BY <1>1, <1>2, ControlStill DEF ShownParts
<1>6. QuietWatch'
  <2>1. page.pending # NoScreen => page'.pending # NoScreen OBVIOUS
  <2>2. \/ page'.watched = NoScreen
        \/ /\ page'.watched = page.watched /\ page'.pending = page.pending
           /\ page'.view = page.view /\ seat'.held \in {NoScreen, seat.held}
    BY <1>1
  <2> QED BY <1>2, <2>1, <2>2, QuietStill DEF ShownParts
<1>7. LastWord'
  <2>1. \/ page'.asking = NoScreen /\ page'.watched = NoScreen
        \/ /\ {page'.asking, page'.watched} = {page.asking, page.watched}
           /\ \A n \in {m} : ~Viewing(n)
    OBVIOUS
  <2> QED BY <1>2, <2>1, LastStill DEF ShownParts
<1>8. WatchInv'
  <2>1. page.pending # NoScreen => page'.pending # NoScreen OBVIOUS
  <2> QED BY <1>1, <1>2, <2>1, WatchStill DEF ShownParts
<1> QED BY <1>4, <1>5, <1>6, <1>7, <1>8

\* And what waits goes on waiting.
LEMMA UntoldWait ==
  ASSUME ConsoleTyped, WaitInv, Untold, page'.pending \in {NoScreen, page.pending},
         NEW m, inbound' \in Seq(Requests), Goes(inbound, inbound', 0, {m})
  PROVE  WaitInv'
<1>1. seat' = seat /\ outbound' = outbound BY DEF Untold
<1>2. QueuesGo(0, {m}, 0, {}) BY <1>1, SameQueue DEF ConsoleTyped, QueuesGo
<1> QED BY <1>1, <1>2, WaitStill

\* A phone that is opened is asked for.
LEMMA OpensPhoneShown ==
  ASSUME ConsoleTyped, ShownParts, NEW p \in Screens, OpensPhone(p), page'.lost = {}
  PROVE  ShownParts'
<1>1. /\ Untold /\ page.view = "fleet" /\ Says(ToServer("select", p))
      /\ page'.current = page.current /\ page'.pending = (IF online THEN p ELSE NoScreen)
      /\ page'.watched = page.watched /\ page'.asking = page.asking
      /\ page'.lost = GivesUp(page.pending)
  BY OpensPhoneFacts DEF Reads
<1>2. page.pending = NoScreen BY <1>1, NotGivenUp
<1>3. page.watched = NoScreen BY <1>1 DEF ShownParts, QuietWatch
<1> DEFINE m == [kind |-> "select", p |-> p]
<1>4. /\ inbound' \in Seq(Requests) /\ Goes(inbound, inbound', 0, {m})
      /\ online => /\ Len(inbound') = Len(inbound) + 1
                   /\ inbound'[Len(inbound) + 1] = m
  <2>1. "select" \in UpKinds /\ p \in AnyScreen BY DEF UpKinds, AnyScreen
  <2> QED BY <1>1, <2>1, SaysLemma
<1>5. m.kind = "select" /\ ~Viewing(m) BY DEF Viewing
<1>6. p # NoScreen BY ConsoleAssumption
<1> HIDE DEF m
<1>7. ReleaseInv' /\ ControlInv' /\ QuietWatch' /\ LastWord' /\ WatchInv'
  <2>1. \/ page'.pending = page.pending
        \/ page.pending = NoScreen /\ page'.pending # NoScreen /\ page.watched = NoScreen
    BY <1>1, <1>2, <1>3, <1>6
  <2> QED BY <1>1, <1>3, <1>4, <1>5, <2>1, UntoldShown
<1>8. WaitInv'
  <2>1. CASE online
    <3>1. seat' = seat /\ outbound' = outbound /\ page'.pending = p BY <1>1, <2>1 DEF Untold
    <3>2. Len(inbound) + 1 \in 1..Len(inbound') /\ inbound'[Len(inbound) + 1] = m
      BY <1>4, <2>1, MessagesLemma
    <3>3. \E i \in 1..Len(inbound') : inbound'[i] = [kind |-> "select", p |-> page'.pending]
      BY <3>1, <3>2 DEF m
    <3>4. seat.work.kind = "select" =>
            \/ seat.held = seat.work.p
            \/ \E i \in 1..Len(outbound) : outbound[i].kind = "revoked" /\ outbound[i].p = seat.work.p
      BY DEF ShownParts, WaitInv
    <3> QED BY <3>1, <3>3, <3>4 DEF WaitInv
  <2>2. CASE ~online
    <3>1. page'.pending = NoScreen BY <1>1, <2>2
    <3> QED BY <1>1, <1>4, <3>1, UntoldWait DEF ShownParts
  <2> QED BY <2>1, <2>2
<1> QED BY <1>7, <1>8 DEF ShownParts

\* A phone that is asked to be watched is the last word on watching.
LEMMA AsksToWatchShown ==
  ASSUME ConsoleTyped, ShownParts, NEW p \in Screens, AsksToWatch(p)
  PROVE  ShownParts'
<1>1. /\ Untold /\ Says(ToServer("watch", p))
      /\ page'.current = page.current /\ page'.pending = page.pending
      /\ page'.watched = NoScreen /\ page'.asking = (IF online THEN p ELSE NoScreen)
  BY AsksToWatchFacts DEF Reads
<1> DEFINE m == [kind |-> "watch", p |-> p]
<1>2. /\ inbound' \in Seq(Requests) /\ Goes(inbound, inbound', 0, {m})
      /\ online => /\ Len(inbound') = Len(inbound) + 1
                   /\ inbound'[Len(inbound) + 1] = m
  <2>1. "watch" \in UpKinds /\ p \in AnyScreen BY DEF UpKinds, AnyScreen
  <2> QED BY <1>1, <2>1, SaysLemma
<1>3. m.kind = "watch" /\ m.p = p /\ Viewing(m) BY DEF Viewing
<1> HIDE DEF m
<1>4. WaitInv' BY <1>1, <1>2, UntoldWait DEF ShownParts
<1>5. CASE ~online
  <2>1. page'.asking = NoScreen BY <1>1, <1>5
  <2>2. m.kind # "release" BY <1>3
  <2>3. ReleaseInv' /\ ControlInv' /\ QuietWatch' /\ LastWord' /\ WatchInv'
    BY <1>1, <1>2, <2>1, <2>2, UntoldShown
  <2> QED BY <1>4, <2>3 DEF ShownParts
<1>6. CASE online
  <2>1. seat' = seat /\ outbound' = outbound BY <1>1 DEF Untold
  <2>2. QueuesGo(0, {m}, 0, {}) BY <1>2, <2>1, SameQueue DEF ConsoleTyped, QueuesGo
  <2>3. ReleaseInv'
    <3>1. \A n \in {m} : n.kind # "release" BY <1>3
    <3> QED BY <1>1, <2>1, <2>2, <3>1, ReleaseStill DEF ShownParts
  <2>4. ControlInv' BY <1>1, <2>1, <2>2, ControlStill DEF ShownParts
  <2>5. QuietWatch' BY <1>1, <2>2, QuietStill DEF ShownParts
  <2>6. Len(inbound) \in Nat /\ Len(inbound') = Len(inbound) + 1 /\ inbound'[Len(inbound) + 1] = m
    BY <1>2, <1>6, MessagesLemma
  <2>7. LastWord'
    <3>1. ASSUME NEW i \in 1..Len(inbound'), \A j \in (i + 1)..Len(inbound') : ~Viewing(inbound'[j])
          PROVE  inbound'[i].kind = "watch" /\ inbound'[i].p \in {page'.asking, page'.watched}
      <4>1. CASE i = Len(inbound) + 1 BY <1>1, <1>3, <1>6, <2>6, <4>1
      <4>2. CASE i # Len(inbound) + 1
        <5>1. Len(inbound) + 1 \in (i + 1)..Len(inbound') BY <2>6, <4>2
        <5> QED BY <1>3, <2>6, <3>1, <5>1
      <4> QED BY <4>1, <4>2
    <3> QED BY <3>1 DEF LastWord
  <2>8. WatchInv'
    <3>1. ~NoViewing'
      <4>1. Len(inbound) + 1 \in 1..Len(inbound') BY <2>6
      <4> QED BY <1>3, <2>6, <4>1 DEF NoViewing
    <3> QED BY <3>1 DEF WatchInv
  <2> QED BY <1>4, <2>3, <2>4, <2>5, <2>7, <2>8 DEF ShownParts
<1> QED BY <1>5, <1>6

\* A release that is sent comes last, and the page controls nothing.
LEMMA ReleasesShown ==
  ASSUME ConsoleTyped, PageInv, ClaimInv, ShownParts, Releases, page'.lost = {}
  PROVE  ShownParts'
<1>1. /\ Untold /\ page.current \in Screens /\ Says(ToServer("release", page.current))
      /\ page'.current = NoScreen /\ page'.pending = NoScreen
      /\ page'.watched = page.watched /\ page'.asking = page.asking
      /\ page'.lost = GivesUp(page.pending)
  BY ReleasesFacts DEF Reads
<1>2. page.pending = NoScreen /\ page.lost = {} BY <1>1, NotGivenUp
<1>3. page.watched = NoScreen BY <1>1, ConsoleAssumption DEF PageInv
<1> DEFINE m == [kind |-> "release", p |-> page.current]
<1>4. inbound' \in Seq(Requests) /\ Goes(inbound, inbound', 0, {m})
  <2>1. "release" \in UpKinds /\ page.current \in AnyScreen BY <1>1 DEF UpKinds, AnyScreen
  <2> QED BY <1>1, <2>1, SaysLemma
<1>5. ~Viewing(m) /\ ~Claiming(m) BY DEF Viewing, Claiming
<1> HIDE DEF m
<1>6. seat' = seat /\ outbound' = outbound BY <1>1 DEF Untold
<1>7. QueuesGo(0, {m}, 0, {}) BY <1>4, <1>6, SameQueue DEF ConsoleTyped, QueuesGo
<1>8. WaitInv' BY <1>1, <1>4, UntoldWait DEF ShownParts
<1>9. ReleaseInv'
  <2>1. /\ \A i \in 1..Len(inbound) : ~Claiming(inbound[i])
        /\ seat.work.kind # "select"
        /\ \A i \in 1..Len(outbound) : ~FirstPicture(outbound[i])
    BY <1>2, NoneLost
  <2>2. \A i \in 1..Len(inbound') : ~Claiming(inbound'[i])
    BY SMTT(30), <1>5, <1>7, <2>1, QueuesLemma
  <2> QED BY <1>1, <1>6, <2>1, <2>2 DEF ReleaseInv
<1>10. ControlInv' BY <1>1, <1>2, <1>6, <1>7, ControlStill DEF ShownParts
<1>11. QuietWatch' BY <1>1, <1>2, <1>3, <1>7, QuietStill DEF ShownParts
<1>12. LastWord'
  <2>1. \A n \in {m} : ~Viewing(n) BY <1>5
  <2>2. {page'.asking, page'.watched} = {page.asking, page.watched} BY <1>1
  <2> QED BY <1>7, <2>1, <2>2, LastStill DEF ShownParts
<1>13. WatchInv' BY <1>1, <1>2, <1>6, <1>7, WatchStill DEF ShownParts
<1> QED BY <1>8, <1>9, <1>10, <1>11, <1>12, <1>13 DEF ShownParts

\* What is shown stays true while the operator gives nothing up.
LEMMA OperatorShown ==
  ASSUME ConsoleTyped, PageInv, ClaimInv, ShownParts, OperatorStep, page'.lost = {}
  PROVE  ShownParts'
<1>1. ASSUME NEW p \in Screens, OpensPhone(p) PROVE ShownParts' BY <1>1, OpensPhoneShown
<1>2. ASSUME NEW p \in Screens, AsksToWatch(p) PROVE ShownParts' BY <1>2, AsksToWatchShown
<1>3. CASE Releases BY <1>3, ReleasesShown
<1>4. ASSUME Untold, page'.current = page.current, page'.pending = page.pending,
             NEW kind \in UpKinds \ {"select", "release"}, NEW p \in AnyScreen,
             kind # "stop" => p \in Screens, inbound' = inbound \/ Says(ToServer(kind, p)),
             \/ page'.asking = NoScreen /\ page'.watched = NoScreen
             \/ /\ page'.asking = page.asking /\ page'.watched = page.watched
                /\ kind \notin {"watch", "unwatch"}
                /\ page'.view = page.view \/ page.watched = NoScreen
      PROVE  ShownParts'
  <2> DEFINE m == [kind |-> kind, p |-> p]
  <2>1. inbound' \in Seq(Requests) /\ Goes(inbound, inbound', 0, {m}) BY <1>4, SaysGoes
  <2>2. m.kind # "release" /\ (kind \notin {"watch", "unwatch"} => ~Viewing(m))
    BY <1>4 DEF Viewing
  <2> HIDE DEF m
  <2>3. WaitInv' BY <1>4, <2>1, UntoldWait DEF ShownParts
  <2>4. ReleaseInv' /\ ControlInv' /\ QuietWatch' /\ LastWord' /\ WatchInv'
    BY <1>4, <2>1, <2>2, UntoldShown
  <2> QED BY <2>3, <2>4 DEF ShownParts
<1>5. NoScreen \in AnyScreen /\ Screens \subseteq AnyScreen BY DEF AnyScreen
<1>6. /\ "stop" \in UpKinds \ {"select", "release"} /\ "unwatch" \in UpKinds \ {"select", "release"}
      /\ {"input", "start"} \subseteq UpKinds \ {"select", "release"}
  BY DEF UpKinds
<1>7. CASE OpensMedia
  <2>1. /\ Untold /\ inbound' = inbound /\ page.view = "fleet"
        /\ page'.current = page.current /\ page'.pending = NoScreen
        /\ page'.watched = page.watched /\ page'.asking = NoScreen
        /\ page'.lost = GivesUp(page.pending)
    BY <1>7, OpensMediaFacts DEF Reads
  <2>2. page.pending = NoScreen BY <2>1, NotGivenUp
  <2>3. page.watched = NoScreen BY <2>1 DEF ShownParts, QuietWatch
  <2> QED BY <1>4, <1>5, <1>6, <2>1, <2>2, <2>3
<1>8. ASSUME NEW view \in {"fleet", "other"}, Leaves(view) PROVE ShownParts'
  <2>1. /\ Untold
        /\ \/ /\ Reads(page', view, page.current, page.pending, NoScreen, NoScreen, page.lost)
              /\ \E p \in {page.watched, page.asking} \cap Screens : Says(ToServer("unwatch", p))
           \/ /\ ~Watching
              /\ Reads(page', view, page.current, page.pending, page.watched, page.asking, page.lost)
              /\ inbound' = inbound \/ Says(ToServer("stop", NoScreen))
    BY <1>8, LeavesFacts
  <2>2. ASSUME Reads(page', view, page.current, page.pending, NoScreen, NoScreen, page.lost),
               NEW p \in Screens, Says(ToServer("unwatch", p))
        PROVE  ShownParts'
    <3>1. /\ page'.current = page.current /\ page'.pending = page.pending
          /\ page'.asking = NoScreen /\ page'.watched = NoScreen
      BY <2>2 DEF Reads
    <3> QED BY <1>4, <1>5, <1>6, <2>1, <2>2, <3>1
  <2>3. CASE /\ ~Watching
             /\ Reads(page', view, page.current, page.pending, page.watched, page.asking, page.lost)
             /\ inbound' = inbound \/ Says(ToServer("stop", NoScreen))
    <3>1. /\ page'.current = page.current /\ page'.pending = page.pending
          /\ page'.asking = NoScreen /\ page'.watched = NoScreen
      BY <2>3 DEF Reads, Watching
    <3> QED BY <1>4, <1>5, <1>6, <2>1, <2>3, <3>1
  <2> QED BY <2>1, <2>2, <2>3
<1>9. CASE Touches \/ RetriesVideo
  <2>1. /\ Untold /\ Unmoved(page)
        /\ \/ inbound' = inbound
           \/ \E kind \in {"input", "start"}, p \in Screens : Says(ToServer(kind, p))
    BY <1>9, TouchesFacts
  <2>2. /\ page'.current = page.current /\ page'.pending = page.pending /\ page'.view = page.view
        /\ page'.asking = page.asking /\ page'.watched = page.watched
    BY <2>1 DEF Unmoved, Reads
  <2>3. CASE inbound' = inbound
    <3>1. "stop" \notin {"watch", "unwatch"} OBVIOUS
    <3> QED BY <1>4, <1>5, <1>6, <2>1, <2>2, <2>3, <3>1
  <2>4. ASSUME NEW kind \in {"input", "start"}, NEW p \in Screens, Says(ToServer(kind, p))
        PROVE  ShownParts'
    <3>1. kind \in UpKinds \ {"select", "release"} /\ p \in AnyScreen BY <1>5, <1>6, <2>4
    <3>2. kind \notin {"watch", "unwatch"} BY <2>4
    <3> QED BY <1>4, <2>1, <2>2, <2>4, <3>1, <3>2
  <2> QED BY <2>1, <2>3, <2>4
<1> QED BY <1>1, <1>2, <1>3, <1>7, <1>8, <1>9 DEF OperatorStep

\* The message that is heard, and what is left to hear.
LEMMA HeardGoes ==
  ASSUME ConsoleTyped, NEW kind, Hears(kind), NEW word \in {"start", "stop"}, NEW p \in AnyScreen,
         word # "stop" => p \in Screens, inbound' = inbound \/ Says(ToServer(word, p))
  PROVE  /\ \E m : /\ QueuesGo(0, {m}, 1, {})
                   /\ m.kind # "release" /\ ~Viewing(m)
         /\ seat' = seat /\ 1 \in 1..Len(outbound) /\ outbound[1] = Heard /\ outbound[1].kind = kind
<1> DEFINE m == [kind |-> word, p |-> p]
<1>1. word \in UpKinds \ {"select", "release"} BY DEF UpKinds
<1>2. inbound' \in Seq(Requests) /\ Goes(inbound, inbound', 0, {m}) BY <1>1, SaysGoes
<1>3. m.kind # "release" /\ ~Viewing(m) BY DEF Viewing
<1> HIDE DEF m
<1>4. /\ Heard = outbound[1] /\ Heard.kind = kind /\ outbound' \in Seq(Reports)
      /\ Goes(outbound, outbound', 1, {}) /\ seat' = seat
  BY HearsLemma
<1>5. QueuesGo(0, {m}, 1, {}) BY <1>2, <1>4 DEF QueuesGo
<1>6. 1 \in 1..Len(outbound) BY HeardLemma
<1> QED BY <1>3, <1>4, <1>5, <1>6

\* What a message leaves true that gives no control and starts no watching.
LEMMA HeardShownStill ==
  ASSUME ConsoleTyped, ShownParts, NEW kind, Hears(kind),
         NEW word \in {"start", "stop"}, NEW p \in AnyScreen,
         word # "stop" => p \in Screens, inbound' = inbound \/ Says(ToServer(word, p)),
         page'.current \in {NoScreen, page.current}, page'.pending = page.pending,
         Tells(Heard, page.pending) => page.pending = NoScreen,
         SaysGone(Heard, page.current) => page'.current = NoScreen,
         kind = "revoked" => seat.work.kind # "select",
         \/ page'.asking = NoScreen /\ page'.watched = NoScreen
         \/ /\ page'.asking = page.asking /\ page'.watched = page.watched
            /\ page'.view = page.view \/ page.watched = NoScreen
            /\ kind = "watch_failed" => Heard.p \notin {page.asking, page.watched}
            /\ kind = "watch_started" => Heard.p # page.asking
            /\ kind = "watch_stopped" => Heard.p # page.watched
  PROVE  ShownParts'
<1>1. /\ \E m : /\ QueuesGo(0, {m}, 1, {})
                /\ m.kind # "release" /\ ~Viewing(m)
      /\ seat' = seat /\ outbound[1] = Heard /\ outbound[1].kind = kind
  BY HeardGoes
<1>2. PICK m : QueuesGo(0, {m}, 1, {}) /\ m.kind # "release" /\ ~Viewing(m) BY <1>1
<1>3. \A n \in {m} : n.kind # "release" /\ ~Viewing(n) BY <1>2
<1>4. WaitInv' BY <1>1, <1>2, WaitStill DEF ShownParts
<1>5. ReleaseInv'
  <2>1. \A n \in {m} : n.kind # "release" BY <1>3
  <2> QED BY <1>1, <1>2, <2>1, ReleaseStill DEF ShownParts
<1>6. ControlInv'
  <2>1. page'.current # NoScreen => ~SaysGone(outbound[1], page.current) BY <1>1
  <2> QED BY <1>1, <1>2, <2>1, ControlStill DEF ShownParts
<1>7. QuietWatch'
  <2>1. \/ page'.watched = NoScreen
        \/ /\ page'.watched = page.watched /\ page'.pending = page.pending
           /\ page'.view = page.view /\ seat'.held \in {NoScreen, seat.held}
    BY <1>1
  <2> QED BY <1>2, <2>1, QuietStill DEF ShownParts
<1>8. LastWord'
  <2>1. \/ page'.asking = NoScreen /\ page'.watched = NoScreen
        \/ /\ {page'.asking, page'.watched} = {page.asking, page.watched}
           /\ \A n \in {m} : ~Viewing(n)
    BY <1>3
  <2> QED BY <1>2, <2>1, LastStill DEF ShownParts
<1>9. WatchInv'
  <2>1. \/ page'.asking = NoScreen /\ page'.watched = NoScreen
        \/ /\ page'.asking = page.asking /\ page'.watched = page.watched
           /\ outbound[1].kind = "watch_failed" => outbound[1].p \notin {page.asking, page.watched}
           /\ outbound[1].kind = "watch_started" => outbound[1].p # page.asking
           /\ outbound[1].kind = "watch_stopped" => outbound[1].p # page.watched
    BY <1>1
  <2>2. page.pending # NoScreen => page'.pending # NoScreen OBVIOUS
  <2> QED BY <1>1, <1>2, <2>1, <2>2, WatchStill DEF ShownParts
<1> QED BY <1>4, <1>5, <1>6, <1>7, <1>8, <1>9 DEF ShownParts

\* The picture that follows a claim gives control of a phone that is held, or soon said to be gone.
LEMMA ConfirmedShown ==
  ASSUME ConsoleTyped, ShownParts, Hears("frame"), Heard.id = 0, Heard.p = page.pending,
         page'.current = Heard.p, page'.pending = NoScreen, page'.watched = NoScreen,
         page'.asking = NoScreen, inbound' = inbound \/ Says(ToServer("start", Heard.p))
  PROVE  ShownParts'
<1>1. Heard.p \in Screens /\ Heard.p \in AnyScreen BY HearsLemma DEF AnyScreen
<1>2. /\ \E m : /\ QueuesGo(0, {m}, 1, {})
                /\ m.kind # "release" /\ ~Viewing(m)
      /\ seat' = seat /\ 1 \in 1..Len(outbound) /\ outbound[1] = Heard /\ outbound[1].kind = "frame"
  BY <1>1, HeardGoes
<1>3. PICK m : QueuesGo(0, {m}, 1, {}) /\ m.kind # "release" /\ ~Viewing(m) BY <1>2
<1>4. FirstPicture(outbound[1]) /\ outbound[1].p = page'.current BY <1>2 DEF FirstPicture
<1>5. /\ Len(inbound) \in Nat /\ Len(inbound') \in Nat
      /\ Len(outbound) \in Nat /\ Len(outbound') \in Nat
      /\ \A i \in 1..Len(inbound') :
           \/ i \in 1..Len(inbound) /\ inbound'[i] = inbound[i]
           \/ i > Len(inbound) /\ inbound'[i].kind # "release"
      /\ \A i \in 1..Len(outbound') : i + 1 \in 1..Len(outbound) /\ outbound'[i] = outbound[i + 1]
      /\ \A i \in 2..Len(outbound) : i - 1 \in 1..Len(outbound') /\ outbound'[i - 1] = outbound[i]
  <2>1. /\ Len(inbound) \in Nat /\ Len(inbound') \in Nat
        /\ \A i \in 1..Len(inbound') :
             \/ i <= Len(inbound) - 0 /\ i + 0 \in 1..Len(inbound) /\ inbound'[i] = inbound[i + 0]
             \/ i > Len(inbound) - 0 /\ inbound'[i] \in {m}
    BY <1>3, QueuesLemma
  <2>2. \A i \in 1..Len(inbound') :
           \/ i \in 1..Len(inbound) /\ inbound'[i] = inbound[i]
           \/ i > Len(inbound) /\ inbound'[i].kind # "release"
    BY <1>3, <2>1
  <2>3. /\ Len(outbound) \in Nat /\ Len(outbound') \in Nat
        /\ \A i \in 1..Len(outbound') : i + 1 \in 1..Len(outbound) /\ outbound'[i] = outbound[i + 1]
        /\ \A i \in 2..Len(outbound) : i - 1 \in 1..Len(outbound') /\ outbound'[i - 1] = outbound[i]
    BY HeardLemma
  <2> QED BY <2>1, <2>2, <2>3
<1>6. WaitInv' BY <1>2, <1>3, WaitStill DEF ShownParts
<1>7. ReleaseInv'
  <2>1. ~Released BY <1>2, <1>4 DEF ShownParts, ReleaseInv
  <2>2. \A i \in 1..Len(inbound') : inbound'[i].kind # "release" BY <1>5, <2>1 DEF Released
  <2> QED BY <1>5, <2>2 DEF ReleaseInv, Released
<1>8. ControlInv'
  <2>1. \/ seat.held = page'.current
        \/ \E j \in 2..Len(outbound) : SaysGone(outbound[j], page'.current)
    <3>1. \/ seat.held = outbound[1].p
          \/ \E j \in (1 + 1)..Len(outbound) : SaysGone(outbound[j], outbound[1].p)
      BY <1>2, <1>4 DEF ShownParts, ControlInv
    <3> QED BY <1>4, <3>1
  <2>2. \/ seat'.held = page'.current
        \/ \E j \in 1..Len(outbound') : SaysGone(outbound'[j], page'.current)
    BY <1>2, <1>5, <2>1
  <2>3. ASSUME NEW i \in 1..Len(outbound'), FirstPicture(outbound'[i])
        PROVE  \/ seat'.held = outbound'[i].p
               \/ \E j \in (i + 1)..Len(outbound') : SaysGone(outbound'[j], outbound'[i].p)
    <3>1. i + 1 \in 1..Len(outbound) /\ outbound'[i] = outbound[i + 1] BY <1>5
    <3>2. \/ seat.held = outbound[i + 1].p
          \/ \E j \in (i + 1 + 1)..Len(outbound) : SaysGone(outbound[j], outbound[i + 1].p)
      BY <2>3, <3>1 DEF ShownParts, ControlInv
    <3>3. ASSUME NEW j \in (i + 1 + 1)..Len(outbound), SaysGone(outbound[j], outbound[i + 1].p)
          PROVE  j - 1 \in (i + 1)..Len(outbound') /\ SaysGone(outbound'[j - 1], outbound'[i].p)
      <4>1. j \in 2..Len(outbound) BY <1>5
      <4>2. j - 1 \in 1..Len(outbound') /\ outbound'[j - 1] = outbound[j] BY <1>5, <4>1
      <4> QED BY <1>5, <3>1, <3>3, <4>2
    <3> QED BY <1>2, <3>1, <3>2, <3>3
  <2> QED BY <2>2, <2>3 DEF ControlInv
<1>9. QuietWatch'
  <2>1. ASSUME NEW i \in 1..Len(outbound'), outbound'[i].kind = "watch_started",
               NEW j \in (i + 1)..Len(outbound'), outbound'[j].kind = "revoked"
        PROVE  FALSE
    <3>1. j \in 1..Len(outbound') BY <1>5
    <3>2. PICK a \in 1..Len(outbound) : a = i + 1 /\ outbound[a].kind = "watch_started"
      BY SMTT(30), <1>5, <2>1
    <3>3. PICK b \in 1..Len(outbound) : b = j + 1 /\ outbound[b].kind = "revoked"
      BY SMTT(30), <1>5, <2>1, <3>1
    <3>4. b \in (a + 1)..Len(outbound) BY <1>5, <3>2, <3>3
    <3>5. \A k \in 1..(a - 1) : ~FirstPicture(outbound[k])
      BY <3>2, <3>3, <3>4 DEF ShownParts, QuietWatch
    <3>6. 1 \in 1..(a - 1) BY <1>5, <3>2
    <3> QED BY <1>4, <3>5, <3>6
  <2> QED BY <2>1 DEF QuietWatch
<1>10. LastWord' BY <1>3, LastStill DEF ShownParts
<1>11. WatchInv' BY DEF WatchInv
<1> QED BY <1>6, <1>7, <1>8, <1>9, <1>10, <1>11 DEF ShownParts

\* A page that starts to watch holds no phone, and is watched for or will hear that it is not.
LEMMA WatchStartedShown ==
  ASSUME ConsoleTyped, PageInv, HeldSince, ShownParts, page.lost = {}, Hears("watch_started"),
         Heard.p = page.asking, page.pending = NoScreen,
         page'.current = NoScreen, page'.pending = NoScreen, page'.watched = Heard.p,
         page'.asking = NoScreen, page'.view = "detail", Says(ToServer("start", Heard.p))
  PROVE  ShownParts'
<1>1. Heard.p \in Screens /\ Heard.p \in AnyScreen /\ Heard.p # NoScreen
  BY HearsLemma, ConsoleAssumption DEF AnyScreen
<1>2. /\ \E m : /\ QueuesGo(0, {m}, 1, {})
                /\ m.kind # "release" /\ ~Viewing(m)
      /\ seat' = seat /\ 1 \in 1..Len(outbound)
      /\ outbound[1] = Heard /\ outbound[1].kind = "watch_started"
  BY <1>1, HeardGoes
<1>3. PICK m : QueuesGo(0, {m}, 1, {}) /\ m.kind # "release" /\ ~Viewing(m) BY <1>2
<1>4. \A n \in {m} : n.kind # "release" /\ ~Viewing(n) BY <1>3
<1>5. page.watched = NoScreen BY <1>1 DEF PageInv
<1>6. /\ Len(outbound) \in Nat /\ Len(outbound') \in Nat
      /\ \A i \in 1..Len(outbound') : i + 1 \in 1..Len(outbound) /\ outbound'[i] = outbound[i + 1]
      /\ \A i \in 2..Len(outbound) : i - 1 \in 1..Len(outbound') /\ outbound'[i - 1] = outbound[i]
  BY HeardLemma
<1>7. WaitInv' BY <1>2, <1>3, WaitStill DEF ShownParts
<1>8. ReleaseInv'
  <2>1. \A n \in {m} : n.kind # "release" BY <1>4
  <2> QED BY <1>2, <1>3, <2>1, ReleaseStill DEF ShownParts
<1>9. ControlInv' BY <1>2, <1>3, ControlStill DEF ShownParts
<1>10. QuietWatch'
  <2>1. seat.held = NoScreen
    <3>1. seat.held \in HeldAfter(outbound[1]) \cup Wanted BY <1>2 DEF HeldSince
    <3>2. HeldAfter(outbound[1]) = {NoScreen} BY <1>2 DEF HeldAfter
    <3>3. Wanted = {NoScreen} BY DEF Wanted
    <3> QED BY <3>1, <3>2, <3>3
  <2>2. ASSUME NEW i \in 1..Len(outbound'), outbound'[i].kind = "revoked" PROVE FALSE
    <3>1. PICK b \in 1..Len(outbound) : b = i + 1 /\ outbound[b].kind = "revoked"
      BY <1>6, <2>2
    <3>2. b \in (1 + 1)..Len(outbound) BY <1>6, <3>1
    <3> QED BY <1>2, <3>1, <3>2 DEF ShownParts, QuietWatch
  <2>3. \A i \in 1..Len(outbound') : \A j \in (i + 1)..Len(outbound') : j \in 1..Len(outbound')
    BY <1>6
  <2> QED BY <1>2, <2>1, <2>2, <2>3 DEF QuietWatch
<1>11. LastWord'
  <2>1. {page'.asking, page'.watched} = {page.asking, page.watched} BY <1>5
  <2>2. \A n \in {m} : ~Viewing(n) BY <1>4
  <2> QED BY <1>3, <2>1, <2>2, LastStill DEF ShownParts
<1>12. WatchInv'
  <2>1. ASSUME NoViewing' PROVE NoViewing
    <3>1. \A i \in 1..Len(inbound) : i > 0 => i - 0 \in 1..Len(inbound') /\ inbound'[i - 0] = inbound[i]
      BY <1>3, QueuesLemma
    <3>2. \A i \in 1..Len(inbound) : i \in 1..Len(inbound') /\ inbound'[i] = inbound[i] BY <3>1
    <3> QED BY <2>1, <3>2 DEF NoViewing
  <2>2. ASSUME NoViewing'
        PROVE  \/ seat'.eye = page'.watched
               \/ \E i \in 1..Len(outbound') :
                    /\ outbound'[i].kind \in {"watch_failed", "watch_stopped"}
                    /\ outbound'[i].p = page'.watched
    <3>1. \/ \E i \in 1..Len(outbound) :
               outbound[i].kind = "watch_failed" /\ outbound[i].p = page.asking
          \/ \E i \in 1..Len(outbound) :
               /\ outbound[i].kind = "watch_started" /\ outbound[i].p = page.asking
               /\ \/ seat.eye = page.asking
                  \/ \E j \in (i + 1)..Len(outbound) :
                       outbound[j].kind = "watch_stopped" /\ outbound[j].p = page.asking
      BY <1>1, <2>1, <2>2 DEF ShownParts, WatchInv
    <3>2. ASSUME NEW i \in 2..Len(outbound), outbound[i].p = page.asking,
                 outbound[i].kind \in {"watch_failed", "watch_stopped"}
          PROVE  \E j \in 1..Len(outbound') :
                   /\ outbound'[j].kind \in {"watch_failed", "watch_stopped"}
                   /\ outbound'[j].p = page'.watched
      BY <1>6, <3>2
    <3>3. ASSUME NEW i \in 1..Len(outbound), outbound[i].kind = "watch_failed",
                 outbound[i].p = page.asking
          PROVE  i \in 2..Len(outbound)
      BY <1>2, <1>6, <3>3
    <3>4. \A i \in 1..Len(outbound) : \A j \in (i + 1)..Len(outbound) : j \in 2..Len(outbound)
      BY <1>6
    <3>5. CASE seat.eye = page.asking BY <1>2, <3>5
    <3> QED BY <3>1, <3>2, <3>3, <3>4, <3>5
  <2> QED BY <2>2 DEF WatchInv
<1> QED BY <1>7, <1>8, <1>9, <1>10, <1>11, <1>12 DEF ShownParts

\* What is shown stays true with every message that makes the page give nothing up.
LEMMA HeardShown ==
  ASSUME ConsoleTyped, PageInv, HeldInv, ShownParts, HeardStep, page.lost = {}, page'.lost = {}
  PROVE  ShownParts'
<1>1. /\ NoScreen \in AnyScreen /\ Screens \subseteq AnyScreen /\ NoScreen \notin Screens
      /\ "stop" \in {"start", "stop"} /\ "start" \in {"start", "stop"}
  BY ConsoleAssumption DEF AnyScreen
<1>2. ASSUME NEW kind, Hears(kind), Unmoved(page), inbound' = inbound,
             Tells(Heard, page.pending) => page.pending = NoScreen,
             ~SaysGone(Heard, page.current), kind # "revoked",
             kind = "watch_failed" => Heard.p \notin {page.asking, page.watched},
             kind = "watch_started" => Heard.p # page.asking,
             kind = "watch_stopped" => Heard.p # page.watched
      PROVE  ShownParts'
  <2>1. /\ page'.current = page.current /\ page'.pending = page.pending /\ page'.view = page.view
        /\ page'.asking = page.asking /\ page'.watched = page.watched
    BY <1>2 DEF Unmoved, Reads
  <2> QED BY <1>1, <1>2, <2>1, HeardShownStill
<1>3. CASE HearsFrame
  <2>1. /\ Hears("frame") /\ Heard.p \in Screens
        /\ \/ /\ Heard.p = page.pending
              /\ Reads(page', page.view, Heard.p, NoScreen, NoScreen, NoScreen,
                       IF Heard.id = 0 THEN page.lost ELSE GivesUp(Heard.p))
              /\ inbound' = inbound \/ Says(ToServer("start", Heard.p))
           \/ Heard.p # page.pending /\ inbound' = inbound /\ Unmoved(page)
    BY <1>3, HearsFrameFacts
  <2>2. CASE /\ Heard.p = page.pending
             /\ Reads(page', page.view, Heard.p, NoScreen, NoScreen, NoScreen,
                      IF Heard.id = 0 THEN page.lost ELSE GivesUp(Heard.p))
             /\ inbound' = inbound \/ Says(ToServer("start", Heard.p))
    <3>1. /\ page'.current = Heard.p /\ page'.pending = NoScreen /\ page'.watched = NoScreen
          /\ page'.asking = NoScreen
          /\ page'.lost = IF Heard.id = 0 THEN page.lost ELSE GivesUp(Heard.p)
      BY <2>2 DEF Reads
    <3>2. Heard.id = 0
      <4>1. Heard.p \in GivesUp(Heard.p) BY <1>1, <2>1 DEF GivesUp
      <4> QED BY <3>1, <4>1
    <3> QED BY <2>1, <2>2, <3>1, <3>2, ConfirmedShown
  <2>3. CASE Heard.p # page.pending /\ inbound' = inbound /\ Unmoved(page)
    <3>1. Heard.kind = "frame" BY <2>1, HearsLemma
    <3>2. ~Tells(Heard, page.pending) /\ ~SaysGone(Heard, page.current)
      BY <2>3, <3>1 DEF Tells, SaysGone
    <3> QED BY <1>2, <2>1, <2>3, <3>2
  <2> QED BY <2>1, <2>2, <2>3
<1>4. CASE HearsError
  <2>1. PICK kind \in {"refused", "failed", "watch_failed"} : Hears(kind)
    BY <1>4, HearsErrorFacts
  <2>2. Heard.kind = kind /\ Heard.p \in Screens BY <2>1, HearsLemma
  <2>3. /\ inbound' = inbound \/ Says(ToServer("stop", NoScreen))
        /\ \E lost \in SUBSET Screens :
             /\ Heard.p = page.pending => Heard.p \in lost
             /\ \/ /\ Heard.p = page.asking
                   /\ Reads(page', "fleet", page.current, page.pending, page.watched, NoScreen, lost)
                \/ /\ Heard.p # page.asking /\ Heard.p = page.watched /\ Heard.kind = "watch_failed"
                   /\ Reads(page', "fleet", page.current, page.pending, NoScreen, NoScreen, lost)
                \/ /\ Heard.p = page.pending /\ page'.lost = lost
                \/ /\ Heard.p # page.asking /\ (Heard.p # page.watched \/ Heard.kind # "watch_failed")
                   /\ Heard.p # page.pending /\ Unmoved(page) /\ lost = page.lost
                   /\ inbound' = inbound
    BY <1>4, HearsErrorFacts DEF Reads
  <2>4. /\ Heard.p # page.pending
        /\ \/ /\ Heard.p = page.asking /\ page'.watched = page.watched /\ page'.asking = NoScreen
              /\ page'.current = page.current /\ page'.pending = page.pending
           \/ /\ page'.watched = NoScreen /\ page'.asking = NoScreen
              /\ page'.current = page.current /\ page'.pending = page.pending
           \/ /\ Heard.p # page.asking /\ (Heard.p # page.watched \/ Heard.kind # "watch_failed")
              /\ Unmoved(page) /\ inbound' = inbound
    BY <2>3 DEF Reads
  <2>5. ~Tells(Heard, page.pending) /\ ~SaysGone(Heard, page.current)
    BY <2>1, <2>2, <2>4 DEF Tells, SaysGone
  <2>6. kind # "revoked" BY <2>1
  <2>7. ASSUME page'.watched = NoScreen, page'.asking = NoScreen,
               page'.current = page.current, page'.pending = page.pending
        PROVE  ShownParts'
    BY <1>1, <2>1, <2>3, <2>5, <2>6, <2>7, HeardShownStill
  <2>8. CASE /\ Heard.p = page.asking /\ page'.watched = page.watched /\ page'.asking = NoScreen
             /\ page'.current = page.current /\ page'.pending = page.pending
    <3>1. page.watched = NoScreen BY <1>1, <2>2, <2>8 DEF PageInv
    <3> QED BY <2>7, <2>8, <3>1
  <2>9. CASE /\ Heard.p # page.asking /\ (Heard.p # page.watched \/ Heard.kind # "watch_failed")
             /\ Unmoved(page) /\ inbound' = inbound
    <3>1. /\ kind = "watch_failed" => Heard.p \notin {page.asking, page.watched}
          /\ kind # "watch_started" /\ kind # "watch_stopped"
      BY <2>1, <2>2, <2>9
    <3> QED BY <1>2, <2>1, <2>5, <2>6, <2>9, <3>1
  <2> QED BY <2>4, <2>7, <2>8, <2>9
<1>5. CASE HearsRevoked
  <2>1. /\ Hears("revoked") /\ inbound' = inbound
        /\ page'.current = NoScreen /\ page'.pending = NoScreen /\ page'.watched = page.watched
        /\ page'.asking = page.asking
        /\ page'.lost = GivesUp(page.pending) \cup ({page.current} \ {NoScreen, Heard.p})
    BY <1>5, HearsRevokedFacts DEF Reads
  <2>2. page.pending = NoScreen
    <3>1. GivesUp(page.pending) = {} BY <2>1
    <3> QED BY <3>1, NotGivenUp
  <2>3. seat.work.kind # "select" BY <2>2, NoneLost DEF HeldInv
  <2>4. page.watched = NoScreen
    <3>1. Heard.kind = "revoked" /\ Heard = outbound[1] /\ 1 \in 1..Len(outbound)
      BY <2>1, HearsLemma, HeardLemma
    <3> QED BY <3>1 DEF ShownParts, QuietWatch
  <2>5. /\ "revoked" # "watch_failed" /\ "revoked" # "watch_started" /\ "revoked" # "watch_stopped"
    OBVIOUS
  <2> QED BY <1>1, <2>1, <2>2, <2>3, <2>4, <2>5, HeardShownStill
<1>6. CASE HearsClosedPhone
  <2>1. /\ Hears("closed_phone") /\ Heard.p \in Screens /\ inbound' = inbound
        /\ \/ /\ Heard.p = page.current
              /\ page'.lost = GivesUp(page.pending) \cup {Heard.p}
           \/ Heard.p # page.current /\ Unmoved(page)
    BY <1>6, HearsClosedPhoneFacts DEF Reads
  <2>2. Heard.p # page.current /\ Unmoved(page) BY <2>1
  <2>3. Heard.kind = "closed_phone" BY <2>1, HearsLemma
  <2>4. ~Tells(Heard, page.pending) /\ ~SaysGone(Heard, page.current)
    BY <2>2, <2>3 DEF Tells, SaysGone
  <2> QED BY <1>2, <2>1, <2>2, <2>4
<1>7. CASE HearsStream
  <2>1. PICK kind \in {"started", "broken", "unsupported", "video", "watch_frame"} : Hears(kind)
    BY <1>7, HearsStreamFacts
  <2>2. Unmoved(page) /\ inbound' = inbound BY <1>7, HearsStreamFacts
  <2>3. Heard.kind = kind BY <2>1, HearsLemma
  <2>4. ~Tells(Heard, page.pending) /\ ~SaysGone(Heard, page.current)
    BY <2>1, <2>3 DEF Tells, SaysGone
  <2>5. kind \notin {"revoked", "watch_failed", "watch_started", "watch_stopped"} BY <2>1
  <2> QED BY <1>2, <2>1, <2>2, <2>4, <2>5
<1>8. CASE HearsWatchStarted
  <2>1. /\ Hears("watch_started") /\ Heard.p \in Screens
        /\ \/ /\ Heard.p = page.asking /\ Says(ToServer("start", Heard.p))
              /\ page'.view = "detail" /\ page'.current = NoScreen /\ page'.pending = NoScreen
              /\ page'.watched = Heard.p /\ page'.asking = NoScreen
              /\ page'.lost = GivesUp(page.pending)
           \/ Heard.p # page.asking /\ inbound' = inbound /\ Unmoved(page)
    BY <1>8, HearsWatchStartedFacts DEF Reads
  <2>2. CASE /\ Heard.p = page.asking /\ Says(ToServer("start", Heard.p))
             /\ page'.view = "detail" /\ page'.current = NoScreen /\ page'.pending = NoScreen
             /\ page'.watched = Heard.p /\ page'.asking = NoScreen
             /\ page'.lost = GivesUp(page.pending)
    <3>1. page.pending = NoScreen BY <2>2, NotGivenUp
    <3> QED BY <2>1, <2>2, <3>1, WatchStartedShown DEF HeldInv
  <2>3. CASE Heard.p # page.asking /\ inbound' = inbound /\ Unmoved(page)
    <3>1. Heard.kind = "watch_started" BY <2>1, HearsLemma
    <3>2. ~Tells(Heard, page.pending) /\ ~SaysGone(Heard, page.current)
      BY <3>1 DEF Tells, SaysGone
    <3> QED BY <1>2, <2>1, <2>3, <3>2
  <2> QED BY <2>1, <2>2, <2>3
<1>9. CASE HearsWatchStopped
  <2>1. /\ Hears("watch_stopped") /\ Heard.p \in Screens /\ inbound' = inbound
        /\ \/ /\ Heard.p = page.watched /\ page'.current = page.current
              /\ page'.pending = page.pending /\ page'.watched = NoScreen /\ page'.asking = NoScreen
           \/ Heard.p # page.watched /\ Unmoved(page)
    BY <1>9, HearsWatchStoppedFacts DEF Reads
  <2>2. Heard.kind = "watch_stopped" BY <2>1, HearsLemma
  <2>3. ~Tells(Heard, page.pending) /\ ~SaysGone(Heard, page.current)
    BY <2>2 DEF Tells, SaysGone
  <2>4. CASE /\ page'.current = page.current
             /\ page'.pending = page.pending /\ page'.watched = NoScreen /\ page'.asking = NoScreen
    <3>1. "watch_stopped" # "revoked" OBVIOUS
    <3> QED BY <1>1, <2>1, <2>3, <2>4, <3>1, HeardShownStill
  <2>5. CASE Heard.p # page.watched /\ Unmoved(page)
    BY <1>2, <2>1, <2>3, <2>5
  <2> QED BY <2>1, <2>4, <2>5
<1> QED BY <1>3, <1>4, <1>5, <1>6, <1>7, <1>8, <1>9 DEF HeardStep

\* What the server's steps keep while the page hears of every phone that is let go.
LEMMA ServedRest ==
  ASSUME ConsoleTyped, ShownParts, page' = page, NEW d, NEW N, QueuesGo(d, {}, 0, N),
         d = 1 => ~Viewing(inbound[1]), \A m \in N : ~FirstPicture(m),
         seat'.work.kind = "select" => seat.work.kind = "select",
         \/ seat'.held = seat.held
         \/ \E i \in (Len(outbound) + 1)..Len(outbound') : SaysGone(outbound'[i], seat.held),
         \/ seat'.eye = seat.eye
         \/ \E i \in (Len(outbound) + 1)..Len(outbound') :
              outbound'[i].kind \in {"watch_failed", "watch_stopped"} /\ outbound'[i].p = seat.eye
  PROVE  ReleaseInv' /\ ControlInv' /\ LastWord' /\ WatchInv'
<1>1. Len(outbound) \in Nat BY MessagesLemma
<1>2. \A i \in (Len(outbound) + 1)..Len(outbound') :
        i \in 1..Len(outbound') /\ i > Len(outbound) - 0
  BY <1>1
<1>3. ReleaseInv'
  <2>1. \A m \in {} : m.kind # "release" OBVIOUS
  <2> QED BY <2>1, ReleaseStill DEF ShownParts
<1>4. ControlInv'
  <2>1. \/ seat'.held = seat.held
        \/ \E i \in 1..Len(outbound') : i > Len(outbound) - 0 /\ SaysGone(outbound'[i], seat.held)
    BY <1>2
  <2>2. page'.current \in {NoScreen, page.current} /\ (page'.pending = NoScreen => page.pending = NoScreen)
    OBVIOUS
  <2> QED BY <2>1, <2>2, ControlStill DEF ShownParts
<1>5. LastWord'
  <2>1. /\ {page'.asking, page'.watched} = {page.asking, page.watched}
        /\ \A m \in {} : ~Viewing(m)
    OBVIOUS
  <2> QED BY <2>1, LastStill DEF ShownParts
<1>6. WatchInv'
  <2>1. \/ seat'.eye = seat.eye
        \/ \E i \in 1..Len(outbound') :
             /\ i > Len(outbound) - 0 /\ outbound'[i].p = seat.eye
             /\ outbound'[i].kind \in {"watch_failed", "watch_stopped"}
    BY <1>2
  <2>2. /\ page'.asking = page.asking /\ page'.watched = page.watched
        /\ page.pending # NoScreen => page'.pending # NoScreen
    OBVIOUS
  <2> QED BY <2>1, <2>2, WatchStill DEF ShownParts
<1> QED BY <1>3, <1>4, <1>5, <1>6

\* And a page that watches stays quiet, while no phone is claimed and none is revoked.
LEMMA ServedQuiet ==
  ASSUME ConsoleTyped, ShownParts, page' = page, NEW d, NEW N, QueuesGo(d, {}, 0, N),
         \A m \in N : m.kind # "revoked", seat'.held \in {NoScreen, seat.held}
  PROVE  QuietWatch'
<1>1. /\ page'.watched = page.watched /\ page'.pending = page.pending /\ page'.view = page.view
      /\ page.pending # NoScreen => page'.pending # NoScreen
  OBVIOUS
<1> QED BY <1>1, QuietStill DEF ShownParts

\* And a page that waits is answered, while no claim is served.
LEMMA ServedWait ==
  ASSUME ConsoleTyped, ShownParts, page' = page, NEW d, NEW N, QueuesGo(d, {}, 0, N),
         d = 1 => ~Claiming(inbound[1]),
         seat'.work = seat.work \/ (seat.work.kind # "select" /\ seat'.work.kind # "select"),
         \/ seat'.held = seat.held
         \/ \E i \in 1..Len(outbound') : outbound'[i].kind = "revoked" /\ outbound'[i].p = seat.held
         \/ seat'.work.kind # "select"
  PROVE  WaitInv'
<1>1. page'.pending \in {NoScreen, page.pending} OBVIOUS
<1> QED BY <1>1, WaitStill DEF ShownParts

\* How the queues go on when the server serves.
LEMMA ServedGoes ==
  ASSUME ConsoleTyped, ConsoleTyped', NEW N, Goes(outbound, outbound', 0, N)
  PROVE  /\ inbound' = inbound => QueuesGo(0, {}, 0, N)
         /\ \A kind : Takes(kind) => /\ QueuesGo(1, {}, 0, N) /\ page' = page /\ 1 \in 1..Len(inbound)
                                     /\ inbound[1] = Asked /\ inbound[1].kind = kind
                                     /\ seat.work.kind = "none"
<1>1. /\ inbound \in Seq(Requests) /\ inbound' \in Seq(Requests) /\ outbound' \in Seq(Reports)
  BY DEF ConsoleTyped
<1>2. ASSUME inbound' = inbound PROVE QueuesGo(0, {}, 0, N)
  <2>1. Goes(inbound, inbound', 0, {}) BY <1>1, <1>2, SameQueue
  <2> QED BY <1>1, <2>1 DEF QueuesGo
<1>3. ASSUME NEW kind, Takes(kind)
      PROVE  /\ QueuesGo(1, {}, 0, N) /\ page' = page /\ 1 \in 1..Len(inbound)
             /\ inbound[1] = Asked /\ inbound[1].kind = kind /\ seat.work.kind = "none"
  <2>1. /\ Goes(inbound, inbound', 1, {}) /\ page' = page /\ Len(inbound) \in Nat \ {0}
        /\ inbound[1] = Asked /\ inbound[1].kind = kind /\ seat.work.kind = "none"
    BY <1>3 DEF Takes
  <2>2. QueuesGo(1, {}, 0, N) BY <1>1, <2>1 DEF QueuesGo
  <2>3. 1 \in 1..Len(inbound) BY <2>1
  <2> QED BY <2>1, <2>2, <2>3
<1> QED BY <1>2, <1>3

\* The server tells one message at most.
LEMMA OneToldGoes ==
  ASSUME ConsoleTyped, NEW m, outbound' = outbound \/ Adds(m)
  PROVE  Goes(outbound, outbound', 0, {m})
<1>1. outbound \in Seq(Reports) BY DEF ConsoleTyped
<1> QED BY <1>1, SameQueue DEF Adds

\* What a step of the server leaves true that gives and takes no phone.
LEMMA ServedShownStill ==
  ASSUME ConsoleTyped, ConsoleTyped', ShownParts,
         TakesNone \/ (\E kind \in UpKinds \ {"select", "watch", "unwatch"} : Takes(kind)),
         NEW m, outbound' = outbound \/ Adds(m), ~FirstPicture(m), m.kind # "revoked",
         seat'.held = seat.held,
         seat'.work = seat.work \/ (seat.work.kind # "select" /\ seat'.work.kind # "select"),
         \/ seat'.eye = seat.eye
         \/ Adds(m) /\ m.kind \in {"watch_failed", "watch_stopped"} /\ m.p = seat.eye
  PROVE  ShownParts'
<1>1. Goes(outbound, outbound', 0, {m}) BY OneToldGoes
<1>2. page' = page BY DEF TakesNone, Takes
<1>3. PICK d \in {0, 1} : /\ QueuesGo(d, {}, 0, {m})
                          /\ d = 1 => ~Claiming(inbound[1]) /\ ~Viewing(inbound[1])
  <2>1. CASE TakesNone
    <3>1. inbound' = inbound BY <2>1 DEF TakesNone
    <3>2. QueuesGo(0, {}, 0, {m}) BY <1>1, <3>1, ServedGoes
    <3> QED BY <3>2
  <2>2. ASSUME NEW kind \in UpKinds \ {"select", "watch", "unwatch"}, Takes(kind)
        PROVE  QueuesGo(1, {}, 0, {m}) /\ ~Claiming(inbound[1]) /\ ~Viewing(inbound[1])
    <3>1. QueuesGo(1, {}, 0, {m}) /\ inbound[1].kind = kind BY <1>1, <2>2, ServedGoes
    <3>2. ~Claiming(inbound[1]) /\ ~Viewing(inbound[1]) BY <2>2, <3>1 DEF Claiming, Viewing
    <3> QED BY <3>1, <3>2
  <2> QED BY <2>1, <2>2
<1>4. (\A n \in {m} : ~FirstPicture(n)) /\ (\A n \in {m} : n.kind # "revoked") OBVIOUS
<1>5. \/ seat'.eye = seat.eye
      \/ \E i \in (Len(outbound) + 1)..Len(outbound') :
           outbound'[i].kind \in {"watch_failed", "watch_stopped"} /\ outbound'[i].p = seat.eye
  <2>1. ASSUME Adds(m), m.kind \in {"watch_failed", "watch_stopped"}, m.p = seat.eye
        PROVE  \E i \in (Len(outbound) + 1)..Len(outbound') :
                 outbound'[i].kind \in {"watch_failed", "watch_stopped"} /\ outbound'[i].p = seat.eye
    <3>1. Len(outbound) + 1 \in (Len(outbound) + 1)..Len(outbound') /\ outbound'[Len(outbound) + 1] = m
      BY <2>1, MessagesLemma DEF Adds
    <3> QED BY <2>1, <3>1
  <2> QED BY <2>1
<1>6. seat'.work.kind = "select" => seat.work.kind = "select" OBVIOUS
<1>7. ReleaseInv' /\ ControlInv' /\ LastWord' /\ WatchInv'
  BY <1>2, <1>3, <1>4, <1>5, <1>6, ServedRest
<1>8. QuietWatch' BY <1>2, <1>3, <1>4, ServedQuiet
<1>9. WaitInv' BY <1>2, <1>3, ServedWait
<1> QED BY <1>7, <1>8, <1>9 DEF ShownParts

\* A claim that is served, or refused.
LEMMA ServesSelectShown ==
  ASSUME ConsoleTyped, SeatInv, ClaimInv, ShownParts, page.lost = {}, ServesSelect
  PROVE  ShownParts'
<1> DEFINE p == Asked.p
           m == Report("refused", p, 0)
<1>1. /\ ConsoleTyped' /\ Takes("select") /\ p \in Screens
      /\ \/ seat' = seat /\ Adds(m)
         \/ /\ outbound' = outbound
            /\ seat'.held = p /\ seat'.work = [kind |-> "select", p |-> p]
  BY ServesSelectFacts DEF SeatReads
<1>2. m.kind = "refused" /\ m.p = p /\ ~FirstPicture(m) BY DEF Report, FirstPicture
<1> HIDE DEF m
<1>3. Goes(outbound, outbound', 0, {m}) BY <1>1, OneToldGoes
<1>4. /\ QueuesGo(1, {}, 0, {m}) /\ page' = page /\ 1 \in 1..Len(inbound)
      /\ inbound[1].p = p /\ inbound[1].kind = "select" /\ seat.work.kind = "none"
  BY <1>1, <1>3, ServedGoes
<1> HIDE DEF p
<1>5. Claiming(inbound[1]) /\ ~Viewing(inbound[1]) BY <1>4 DEF Claiming, Viewing
<1>6. /\ page.pending = p /\ page.pending # NoScreen
      /\ \A j \in 1..Len(outbound) : ~FirstPicture(outbound[j])
  BY <1>4, <1>5, NoneLost
<1>7. (\A n \in {m} : ~FirstPicture(n)) /\ (\A n \in {m} : n.kind # "revoked") BY <1>2
<1>8. CASE seat' = seat /\ Adds(m)
  <2>1. ReleaseInv' /\ ControlInv' /\ LastWord' /\ WatchInv'
    BY <1>4, <1>5, <1>7, <1>8, ServedRest
  <2>2. QuietWatch' BY <1>4, <1>7, <1>8, ServedQuiet
  <2>3. WaitInv'
    <3>1. Len(outbound) + 1 \in 1..Len(outbound') /\ outbound'[Len(outbound) + 1] = m
      BY <1>8, MessagesLemma DEF Adds
    <3>2. Tells(m, page'.pending) BY <1>2, <1>4, <1>6 DEF Tells
    <3>3. seat'.work.kind # "select" BY <1>4, <1>8
    <3> QED BY <3>1, <3>2, <3>3 DEF WaitInv
  <2> QED BY <2>1, <2>2, <2>3 DEF ShownParts
<1>9. CASE /\ outbound' = outbound
           /\ seat'.held = p /\ seat'.work = [kind |-> "select", p |-> p]
  <2>1. page.watched = NoScreen BY <1>6 DEF ShownParts, QuietWatch
  <2>2. WaitInv' BY <1>4, <1>6, <1>9 DEF WaitInv
  <2>3. ~Released'
    <3>1. /\ Len(inbound) \in Nat /\ Len(inbound') \in Nat
          /\ \A i \in 1..Len(inbound') :
               \/ i <= Len(inbound) - 1 /\ i + 1 \in 1..Len(inbound) /\ inbound'[i] = inbound[i + 1]
               \/ i > Len(inbound) - 1 /\ inbound'[i] \in {}
      BY ZenonT(60), <1>4, QueuesLemma
    <3>2. \A j \in (1 + 1)..Len(inbound) : inbound[j].kind # "release"
      BY <1>4, <1>5 DEF ShownParts, ReleaseInv
    <3>3. \A i \in 1..Len(inbound') : i + 1 \in (1 + 1)..Len(inbound) /\ inbound'[i] = inbound[i + 1]
      BY <3>1
    <3> QED BY <3>2, <3>3 DEF Released
  <2>4. ReleaseInv'
    <3>1. Len(inbound') \in Nat BY <1>4, QueuesLemma
    <3> QED BY <2>3, <3>1 DEF ReleaseInv, Released
  <2>5. ControlInv' BY <1>4, <1>6, <1>9 DEF ControlInv
  <2>6. QuietWatch'
    <3>1. page'.watched = NoScreen /\ page'.pending # NoScreen BY <1>4, <1>6, <2>1
    <3> QED BY <1>4, <1>7, <3>1, QuietStill DEF ShownParts
  <2>7. LastWord'
    <3>1. /\ {page'.asking, page'.watched} = {page.asking, page.watched}
          /\ \A n \in {} : ~Viewing(n)
      BY <1>4
    <3> QED BY <1>4, <3>1, LastStill DEF ShownParts
  <2>8. WatchInv' BY <1>4, <1>6, <2>1 DEF WatchInv
  <2> QED BY <2>2, <2>4, <2>5, <2>6, <2>7, <2>8 DEF ShownParts
<1> QED BY <1>1, <1>8, <1>9

\* A phone that is released was controlled no more.
LEMMA ReleasedShown ==
  ASSUME ConsoleTyped, ConsoleTyped', ShownParts, Takes("release"), outbound' = outbound,
         SeatFreed(seat.work)
  PROVE  ShownParts'
<1>1. seat'.held = NoScreen /\ seat'.eye = seat.eye /\ seat'.work = seat.work
  BY DEF SeatFreed, SeatReads
<1>2. Goes(outbound, outbound', 0, {}) BY SameQueue DEF ConsoleTyped
<1>3. /\ QueuesGo(1, {}, 0, {}) /\ page' = page /\ 1 \in 1..Len(inbound)
      /\ inbound[1].kind = "release" /\ seat.work.kind = "none"
  BY <1>2, ServedGoes
<1>4. ~Claiming(inbound[1]) /\ ~Viewing(inbound[1]) BY <1>3 DEF Claiming, Viewing
<1>5. Released BY <1>3 DEF Released
<1>6. page.current = NoScreen /\ \A i \in 1..Len(outbound) : ~FirstPicture(outbound[i])
  BY <1>5 DEF ShownParts, ReleaseInv
<1>7. /\ \A m \in {} : ~FirstPicture(m) /\ m.kind # "revoked" /\ m.kind # "release" /\ ~Viewing(m)
      /\ seat'.work.kind = "select" => seat.work.kind = "select"
  BY <1>1
<1>8. WaitInv' BY <1>1, <1>3, <1>4, ServedWait
<1>9. ReleaseInv' BY <1>3, <1>7, ReleaseStill DEF ShownParts
<1>10. ControlInv' BY <1>3, <1>6 DEF ControlInv
<1>11. QuietWatch' BY <1>1, <1>3, <1>7, ServedQuiet
<1>12. LastWord'
  <2>1. {page'.asking, page'.watched} = {page.asking, page.watched} BY <1>3
  <2> QED BY <1>3, <1>7, <2>1, LastStill DEF ShownParts
<1>13. WatchInv'
  <2>1. page'.asking = page.asking /\ page'.watched = page.watched /\ page'.pending = page.pending
    BY <1>3
  <2> QED BY <1>1, <1>3, <1>4, <2>1, WatchStill DEF ShownParts
<1> QED BY <1>8, <1>9, <1>10, <1>11, <1>12, <1>13 DEF ShownParts

\* The last word on watching, when it is served, is of the phone that the page asks to watch.
LEMMA WatchLast ==
  ASSUME ConsoleTyped, ConsoleTyped', LastWord, NEW kind \in {"watch", "unwatch"}, Takes(kind),
         NoViewing', {page.asking, page.watched} # {NoScreen}
  PROVE  kind = "watch" /\ Asked.p \in {page.asking, page.watched}
<1>1. /\ Len(inbound) \in Nat \ {0} /\ inbound[1].kind = kind /\ inbound[1] = Asked
      /\ Goes(inbound, inbound', 1, {})
  BY DEF Takes
<1>2. 1 \in 1..Len(inbound) /\ Viewing(inbound[1]) BY <1>1 DEF Viewing
<1>3. \A j \in (1 + 1)..Len(inbound) : ~Viewing(inbound[j])
  <2>1. /\ Len(inbound) - 1 <= Len(inbound')
        /\ \A i \in 1..(Len(inbound) - 1) : inbound'[i] = inbound[i + 1]
    BY <1>1 DEF Goes
  <2>2. ASSUME NEW j \in (1 + 1)..Len(inbound) PROVE ~Viewing(inbound[j])
    <3>1. PICK i \in 1..(Len(inbound) - 1) : j = i + 1
      <4>1. j - 1 \in 1..(Len(inbound) - 1) /\ j = (j - 1) + 1 BY <1>1
      <4> QED BY <4>1
    <3>2. i \in 1..Len(inbound') /\ inbound'[i] = inbound[j]
      <4>1. Len(inbound') \in Nat BY LenProperties DEF ConsoleTyped
      <4> QED BY <1>1, <2>1, <3>1, <4>1
    <3> QED BY <3>2 DEF NoViewing
  <2> QED BY <2>2
<1> QED BY <1>1, <1>2, <1>3 DEF LastWord

\* A phone that is asked to be watched is watched, or the page will hear that it is not.
LEMMA ServesWatchShown ==
  ASSUME ConsoleTyped, SeatInv, PageInv, ShownParts, ServesWatch
  PROVE  ShownParts'
<1>1. /\ ConsoleTyped' /\ Takes("watch") /\ Asked.p \in Screens
      /\ \E kind \in {"watch_failed", "watch_started"} :
           /\ Adds(Report(kind, Asked.p, 0))
           /\ kind = "watch_started" => seat'.eye = Asked.p
      /\ seat'.held = seat.held /\ seat'.work.kind # "select"
  <2>1. /\ ConsoleTyped' /\ Takes("watch") /\ Asked.p \in Screens
        /\ \/ seat' = seat /\ Adds(Report("watch_failed", Asked.p, 0))
           \/ /\ seat.held = NoScreen /\ Adds(Report("watch_started", Asked.p, 0))
              /\ seat'.held = NoScreen /\ seat'.eye = Asked.p
              /\ seat'.work = [kind |-> "watch", p |-> Asked.p]
    BY ServesWatchFacts DEF SeatReads
  <2>2. seat.work.kind = "none" BY <2>1 DEF Takes
  <2> QED BY <2>1, <2>2
<1>2. PICK kind \in {"watch_failed", "watch_started"} :
        Adds(Report(kind, Asked.p, 0)) /\ (kind = "watch_started" => seat'.eye = Asked.p)
  BY <1>1
<1> DEFINE m == Report(kind, Asked.p, 0)
<1>3. m.kind = kind /\ m.p = Asked.p /\ ~FirstPicture(m) /\ m.kind # "revoked"
  BY DEF Report, FirstPicture
<1>4. Adds(m) BY <1>2
<1> HIDE DEF m
<1>5. Goes(outbound, outbound', 0, {m}) BY <1>4, OneToldGoes
<1>6. /\ QueuesGo(1, {}, 0, {m}) /\ page' = page /\ 1 \in 1..Len(inbound)
      /\ inbound[1] = Asked /\ inbound[1].kind = "watch" /\ seat.work.kind = "none"
  BY <1>1, <1>5, ServedGoes
<1>7. ~Claiming(inbound[1]) BY <1>6 DEF Claiming
<1>8. /\ \A n \in {m} : ~FirstPicture(n) /\ n.kind # "revoked"
      /\ \A n \in {} : n.kind # "release" /\ ~Viewing(n)
  BY <1>3
<1>9. /\ page'.asking = page.asking /\ page'.watched = page.watched
      /\ page'.pending = page.pending /\ page'.current = page.current
  BY <1>6
<1>10. WaitInv' BY <1>1, <1>6, <1>7, ServedWait
<1>11. ReleaseInv' BY <1>1, <1>6, <1>8, <1>9, ReleaseStill DEF ShownParts
<1>12. ControlInv' BY <1>1, <1>6, <1>8, <1>9, ControlStill DEF ShownParts
<1>13. QuietWatch' BY <1>1, <1>6, <1>8, ServedQuiet
<1>14. LastWord' BY <1>6, <1>8, <1>9, LastStill DEF ShownParts
<1>15. WatchInv'
  <2>1. Len(outbound) + 1 \in 1..Len(outbound') /\ outbound'[Len(outbound) + 1] = m
    BY <1>4, MessagesLemma DEF Adds
  <2>2. Asked.p # NoScreen BY <1>1, ConsoleAssumption
  <2>3. page.asking # NoScreen => page.watched = NoScreen BY DEF PageInv
  <2>4. ASSUME NoViewing', {page.asking, page.watched} # {NoScreen}
        PROVE  Asked.p \in {page.asking, page.watched}
    BY <1>1, <2>4, WatchLast DEF ShownParts
  <2>5. ASSUME NoViewing', page'.asking # NoScreen
        PROVE  \/ \E i \in 1..Len(outbound') :
                    outbound'[i].kind = "watch_failed" /\ outbound'[i].p = page'.asking
               \/ \E i \in 1..Len(outbound') :
                    /\ outbound'[i].kind = "watch_started" /\ outbound'[i].p = page'.asking
                    /\ seat'.eye = page'.asking
    <3>1. Asked.p = page'.asking BY <1>9, <2>2, <2>3, <2>4, <2>5
    <3> QED BY <1>2, <1>3, <2>1, <3>1
  <2>6. ASSUME NoViewing', page'.watched # NoScreen
        PROVE  \/ seat'.eye = page'.watched
               \/ \E i \in 1..Len(outbound') :
                    /\ outbound'[i].kind \in {"watch_failed", "watch_stopped"}
                    /\ outbound'[i].p = page'.watched
    <3>1. Asked.p = page'.watched BY <1>9, <2>2, <2>3, <2>4, <2>6
    <3> QED BY <1>2, <1>3, <2>1, <3>1
  <2> QED BY <2>5, <2>6 DEF WatchInv
<1> QED BY <1>10, <1>11, <1>12, <1>13, <1>14, <1>15 DEF ShownParts

\* Watching that ends was not asked for again.
LEMMA ServesUnwatchShown ==
  ASSUME ConsoleTyped, SeatInv, ShownParts, ServesUnwatch
  PROVE  ShownParts'
<1>1. /\ ConsoleTyped' /\ Takes("unwatch") /\ outbound' = outbound
      /\ seat'.held = seat.held /\ seat'.work = seat.work
  BY ServesUnwatchFacts DEF SeatReads
<1>2. Goes(outbound, outbound', 0, {}) BY <1>1, SameQueue DEF ConsoleTyped
<1>3. /\ QueuesGo(1, {}, 0, {}) /\ page' = page /\ inbound[1].kind = "unwatch"
  BY <1>1, <1>2, ServedGoes
<1>4. ~Claiming(inbound[1]) BY <1>3 DEF Claiming
<1>5. \A n \in {} : ~FirstPicture(n) /\ n.kind # "revoked" /\ n.kind # "release" /\ ~Viewing(n)
  OBVIOUS
<1>6. /\ page'.asking = page.asking /\ page'.watched = page.watched
      /\ page'.pending = page.pending /\ page'.current = page.current
  BY <1>3
<1>7. WaitInv' BY <1>1, <1>3, <1>4, ServedWait
<1>8. ReleaseInv' BY <1>1, <1>3, <1>5, <1>6, ReleaseStill DEF ShownParts
<1>9. ControlInv' BY <1>1, <1>3, <1>5, <1>6, ControlStill DEF ShownParts
<1>10. QuietWatch' BY <1>1, <1>3, <1>5, ServedQuiet
<1>11. LastWord' BY <1>3, <1>5, <1>6, LastStill DEF ShownParts
<1>12. WatchInv'
  <2>1. NoViewing' => page.asking = NoScreen /\ page.watched = NoScreen
    <3>1. ASSUME NoViewing', {page.asking, page.watched} # {NoScreen} PROVE FALSE
      BY <1>1, <3>1, WatchLast DEF ShownParts
    <3> QED BY <3>1
  <2> QED BY <1>6, <2>1 DEF WatchInv
<1> QED BY <1>7, <1>8, <1>9, <1>10, <1>11, <1>12 DEF ShownParts

\* A phone that was asked for is answered for when its picture was tried.
LEMMA ShowsWait ==
  ASSUME ConsoleTyped, ClaimInv, ShownParts, page.lost = {}, page' = page,
         seat.work.kind = "select", seat'.work.kind # "select",
         \E i \in 1..Len(outbound') : Tells(outbound'[i], seat.work.p)
  PROVE  WaitInv'
<1>1. seat.work.p = page.pending BY NoneLost
<1> QED BY <1>1 DEF WaitInv

\* A phone whose picture does not come is let go, or not held any more: the page will hear of it.
LEMMA ShowsNothingShown ==
  ASSUME ConsoleTyped, ClaimInv, ShownParts, page.lost = {}, ConsoleTyped', TakesNone,
         seat.work.p \in Screens,
         \/ /\ SeatKeeps(AtRest)
            /\ \/ seat.held # seat.work.p /\ outbound' = outbound
               \/ Adds(Report("failed", seat.work.p, 0))
               \/ outbound' = outbound /\ seat.work.kind = "input"
         \/ /\ seat.held = seat.work.p /\ SeatFreed(AtRest)
            /\ AddsTwo(Report("failed", seat.work.p, 0), Report("closed_phone", seat.work.p, 0))
  PROVE  ShownParts'
<1> DEFINE p == seat.work.p
           a == Report("failed", p, 0)
           b == Report("closed_phone", p, 0)
<1>1. /\ a.kind = "failed" /\ a.p = p /\ ~FirstPicture(a)
      /\ b.kind = "closed_phone" /\ b.p = p /\ ~FirstPicture(b)
  BY DEF Report, FirstPicture
<1>2. \/ /\ SeatKeeps(AtRest)
         /\ \/ seat.held # p /\ outbound' = outbound
            \/ Adds(a)
            \/ outbound' = outbound /\ seat.work.kind = "input"
      \/ seat.held = p /\ SeatFreed(AtRest) /\ AddsTwo(a, b)
  OBVIOUS
<1> HIDE DEF a, b
<1>3. Goes(outbound, outbound', 0, {a, b}) /\ Len(outbound) \in Nat /\ Len(outbound') \in Nat
  <2>1. /\ outbound \in Seq(Reports) /\ outbound' \in Seq(Reports) BY DEF ConsoleTyped
  <2>2. CASE outbound' = outbound
    <3>1. Goes(outbound, outbound', 0, {a, b}) BY <2>1, <2>2, SameQueue
    <3> QED BY <2>1, <3>1, LenProperties
  <2>3. CASE Adds(a)
    <3>1. Goes(outbound, outbound', 0, {a, b}) BY <2>3 DEF Adds, Goes
    <3> QED BY <2>1, <3>1, LenProperties
  <2>4. CASE AddsTwo(a, b)
    <3>1. Goes(outbound, outbound', 0, {a, b}) BY <2>4 DEF AddsTwo
    <3> QED BY <2>1, <3>1, LenProperties
  <2> QED BY <1>2, <2>2, <2>3, <2>4
<1>4. page' = page /\ inbound' = inbound BY DEF TakesNone
<1>5. QueuesGo(0, {}, 0, {a, b}) BY <1>3, <1>4, ServedGoes
<1>6. /\ seat'.held \in {NoScreen, seat.held} /\ seat'.eye = seat.eye /\ seat'.work = AtRest
      /\ seat'.work.kind # "select"
  BY <1>2 DEF SeatKeeps, SeatFreed, SeatReads, AtRest
<1>7. /\ \A m \in {a, b} : ~FirstPicture(m) /\ m.kind # "revoked"
  BY <1>1
<1>8. QuietWatch' BY <1>4, <1>5, <1>6, <1>7, ServedQuiet
<1>9. ReleaseInv' /\ ControlInv' /\ LastWord' /\ WatchInv'
  <2>1. \/ seat'.held = seat.held
        \/ \E i \in (Len(outbound) + 1)..Len(outbound') : SaysGone(outbound'[i], seat.held)
    <3>1. CASE SeatKeeps(AtRest) BY <3>1 DEF SeatKeeps, SeatReads
    <3>2. CASE seat.held = p /\ AddsTwo(a, b)
      <4>1. /\ Len(outbound) + 2 \in (Len(outbound) + 1)..Len(outbound')
            /\ outbound'[Len(outbound) + 2] = b
        BY <1>3, <3>2 DEF AddsTwo
      <4>2. SaysGone(b, seat.held) BY <1>1, <3>2 DEF SaysGone
      <4> QED BY <4>1, <4>2
    <3> QED BY <1>2, <3>1, <3>2
  <2> QED BY <1>4, <1>5, <1>6, <1>7, <2>1, ServedRest
<1>10. WaitInv'
  <2>1. CASE seat.work.kind = "select"
    <3>1. \E i \in 1..Len(outbound') : Tells(outbound'[i], p)
      <4>1. CASE seat.held # p /\ outbound' = outbound
        <5>1. PICK i \in 1..Len(outbound) : outbound[i].kind = "revoked" /\ outbound[i].p = p
          BY <2>1, <4>1 DEF ShownParts, WaitInv
        <5> QED BY <4>1, <5>1 DEF Tells
      <4>2. CASE Adds(a) \/ AddsTwo(a, b)
        <5>1. Len(outbound) + 1 \in 1..Len(outbound') /\ outbound'[Len(outbound) + 1] = a
          BY <1>3, <4>2 DEF Adds, AddsTwo
        <5>2. Tells(a, p) BY <1>1 DEF Tells
        <5> QED BY <5>1, <5>2
      <4>3. seat.work.kind # "input" BY <2>1
      <4> QED BY <1>2, <4>1, <4>2, <4>3
    <3> QED BY <1>4, <1>6, <2>1, <3>1, ShowsWait
  <2>2. CASE seat.work.kind # "select"
    BY <1>4, <1>5, <1>6, <2>2, ServedWait
  <2> QED BY <2>1, <2>2
<1> QED BY <1>8, <1>9, <1>10 DEF ShownParts

\* The picture that follows a claim is of the phone that is held and waited for.
LEMMA ShowsPictureShown ==
  ASSUME ConsoleTyped, ClaimInv, ShownParts, page.lost = {}, ConsoleTyped', TakesNone,
         seat.work.kind = "select", seat.held = seat.work.p, SeatKeeps(AtRest),
         Adds(Report("frame", seat.work.p, 0))
  PROVE  ShownParts'
<1> DEFINE p == seat.work.p
           m == Report("frame", p, 0)
<1>1. m.kind = "frame" /\ m.p = p BY DEF Report
<1>2. Adds(m) OBVIOUS
<1> HIDE DEF m
<1>3. Goes(outbound, outbound', 0, {m}) BY <1>2, OneToldGoes
<1>4. page' = page /\ inbound' = inbound BY DEF TakesNone
<1>5. QueuesGo(0, {}, 0, {m}) BY <1>3, <1>4, ServedGoes
<1>6. seat'.held = p /\ seat'.held = seat.held /\ seat'.eye = seat.eye /\ seat'.work.kind # "select"
  BY DEF SeatKeeps, SeatReads, AtRest
<1>7. /\ p = page.pending /\ page.pending # NoScreen
      /\ \A j \in 1..Len(outbound) : ~FirstPicture(outbound[j])
  BY NoneLost
<1>8. /\ Len(outbound) \in Nat /\ Len(outbound') = Len(outbound) + 1
      /\ \A i \in 1..Len(outbound') :
           \/ i \in 1..Len(outbound) /\ outbound'[i] = outbound[i]
           \/ i = Len(outbound) + 1 /\ outbound'[i] = m
  BY <1>2, AddedLemma
<1>9. WaitInv'
  <2>1. Len(outbound) + 1 \in 1..Len(outbound') /\ outbound'[Len(outbound) + 1] = m
    BY <1>2, <1>8 DEF Adds
  <2>2. Tells(m, seat.work.p) BY <1>1 DEF Tells
  <2> QED BY <1>4, <1>6, <2>1, <2>2, ShowsWait
<1>10. ReleaseInv'
  <2>1. ~Released BY DEF ShownParts, ReleaseInv
  <2>2. \A i \in 1..Len(inbound) : Claiming(inbound[i]) =>
          \A j \in (i + 1)..Len(inbound) : inbound[j].kind # "release"
    BY DEF ShownParts, ReleaseInv
  <2> QED BY <1>4, <2>1, <2>2 DEF ReleaseInv, Released
<1>11. ControlInv'
  <2>1. \A i \in 1..Len(outbound') : FirstPicture(outbound'[i]) => outbound'[i].p = p
    BY <1>1, <1>7, <1>8
  <2> QED BY <1>4, <1>6, <1>7, <2>1 DEF ControlInv
<1>12. QuietWatch'
  <2>1. \A n \in {m} : n.kind # "revoked" BY <1>1
  <2> QED BY <1>4, <1>5, <1>6, <2>1, ServedQuiet
<1>13. LastWord'
  <2>1. /\ {page'.asking, page'.watched} = {page.asking, page.watched}
        /\ \A n \in {} : ~Viewing(n)
    BY <1>4
  <2> QED BY <1>5, <2>1, LastStill DEF ShownParts
<1>14. WatchInv'
  <2>1. page'.asking = page.asking /\ page'.watched = page.watched /\ page'.pending = page.pending
    BY <1>4
  <2> QED BY <1>5, <1>6, <2>1, WatchStill DEF ShownParts
<1> QED BY <1>9, <1>10, <1>11, <1>12, <1>13, <1>14 DEF ShownParts

\* A phone that is revoked was held, and waited for since the last time that watching started.
LEMMA RevokedShown ==
  ASSUME ConsoleTyped, HeldInv, ShownParts, page.lost = {}, ConsoleTyped', TakesNone,
         seat.held \in Screens, SeatFreed(seat.work), Adds(Report("revoked", seat.held, 0))
  PROVE  ShownParts'
<1> DEFINE m == Report("revoked", seat.held, 0)
<1>1. m.kind = "revoked" /\ m.p = seat.held /\ ~FirstPicture(m) BY DEF Report, FirstPicture
<1>2. Adds(m) OBVIOUS
<1> HIDE DEF m
<1>3. Goes(outbound, outbound', 0, {m}) BY <1>2, OneToldGoes
<1>4. page' = page /\ inbound' = inbound BY DEF TakesNone
<1>5. QueuesGo(0, {}, 0, {m}) BY <1>3, <1>4, ServedGoes
<1>6. seat'.held = NoScreen /\ seat'.eye = seat.eye /\ seat'.work = seat.work
  BY DEF SeatFreed, SeatReads
<1>7. /\ Len(outbound) \in Nat /\ Len(outbound') = Len(outbound) + 1
      /\ \A i \in 1..Len(outbound') :
           \/ i \in 1..Len(outbound) /\ outbound'[i] = outbound[i]
           \/ i = Len(outbound) + 1 /\ outbound'[i] = m
      /\ outbound'[Len(outbound) + 1] = m
  BY <1>2, AddedLemma DEF Adds
<1>8. seat.held # NoScreen BY ConsoleAssumption
<1>9. WaitInv'
  <2>1. Len(outbound) + 1 \in 1..Len(outbound') BY <1>7
  <2> QED BY <1>1, <1>4, <1>5, <1>6, <1>7, <2>1, ServedWait
<1>10. ReleaseInv' /\ ControlInv' /\ LastWord' /\ WatchInv'
  <2>1. Len(outbound) + 1 \in (Len(outbound) + 1)..Len(outbound') /\ SaysGone(m, seat.held)
    BY <1>1, <1>7 DEF SaysGone
  <2>2. \A n \in {m} : ~FirstPicture(n) BY <1>1
  <2> QED BY <1>4, <1>5, <1>6, <1>7, <2>1, <2>2, ServedRest
<1>11. QuietWatch'
  <2>1. page.watched = NoScreen BY <1>8 DEF ShownParts, QuietWatch
  <2>2. ASSUME NEW i \in 1..Len(outbound'), outbound'[i].kind = "watch_started",
               NEW j \in (i + 1)..Len(outbound'), outbound'[j].kind = "revoked"
        PROVE  page.pending # NoScreen /\ \A k \in 1..(i - 1) : ~FirstPicture(outbound'[k])
    <3>1. j \in 1..Len(outbound') /\ i \in 1..Len(outbound) /\ outbound'[i] = outbound[i]
      BY <1>7
    <3>2. \A k \in 1..(i - 1) : k \in 1..Len(outbound) /\ outbound'[k] = outbound[k]
      BY <1>7, <3>1
    <3>3. CASE j \in 1..Len(outbound) /\ outbound'[j] = outbound[j]
      <4>1. j \in (i + 1)..Len(outbound) BY <3>3
      <4>2. page.pending # NoScreen /\ \A k \in 1..(i - 1) : ~FirstPicture(outbound[k])
        BY <2>2, <3>1, <3>3, <4>1 DEF ShownParts, QuietWatch
      <4> QED BY <3>2, <4>2
    <3>4. CASE j = Len(outbound) + 1
      <4>1. HeldAfter(outbound[i]) = {NoScreen} BY <2>2, <3>1 DEF HeldAfter
      <4>2. seat.held = page.pending
        <5>1. seat.held \in HeldAfter(outbound[i]) \cup Wanted BY <3>1 DEF HeldInv, HeldSince
        <5> QED BY <1>8, <4>1, <5>1 DEF Wanted
      <4>3. ASSUME NEW k \in 1..(i - 1), FirstPicture(outbound[k]) PROVE FALSE
        <5>1. k \in 1..Len(outbound) /\ i \in (k + 1)..Len(outbound) BY <1>7, <3>1
        <5>2. outbound[k].p = seat.held BY <4>2, <4>3, <5>1, NoneLost DEF HeldInv
        <5>3. seat.held \in HeldAfter(outbound[i])
          BY <4>3, <5>1, <5>2 DEF HeldInv, HeldFirst
        <5> QED BY <1>8, <4>1, <5>3
      <4> QED BY <1>8, <3>2, <4>2, <4>3
    <3> QED BY <1>7, <3>1, <3>3, <3>4
  <2> QED BY <1>4, <2>1, <2>2 DEF QuietWatch
<1> QED BY <1>9, <1>10, <1>11 DEF ShownParts

\* What is shown stays true whatever the server does.
LEMMA ServedShown ==
  ASSUME ConsoleTyped, SeatInv, PageInv, HeldInv, ShownParts, page.lost = {}, ServedStep
  PROVE  ShownParts'
<1>1. CASE ServesSelect BY <1>1, ServesSelectShown DEF HeldInv
<1>2. CASE ServesWatch BY <1>2, ServesWatchShown
<1>3. CASE ServesUnwatch BY <1>3, ServesUnwatchShown
<1>4. {"start", "stop", "input", "release"} \subseteq UpKinds \ {"select", "watch", "unwatch"}
  BY DEF UpKinds
<1>5. \A kind, p, id : /\ Report(kind, p, id).kind = kind /\ Report(kind, p, id).p = p
                       /\ kind # "frame" => ~FirstPicture(Report(kind, p, id))
                       /\ ~FirstPicture(Report(kind, p, 1))
  BY DEF Report, FirstPicture
<1>6. CASE ServesStart
  <2>1. /\ ConsoleTyped' /\ Takes("start")
        /\ seat'.held = seat.held /\ seat'.eye = seat.eye /\ seat'.work = seat.work
        /\ \E kind \in {"refused", "unsupported", "started"}, id \in {0, seat.seq + 1} :
             Adds(Report(kind, Asked.p, id))
    BY <1>6, ServesStartFacts DEF SeatReads
  <2>2. PICK kind \in {"refused", "unsupported", "started"}, id \in {0, seat.seq + 1} :
          Adds(Report(kind, Asked.p, id))
    BY <2>1
  <2>3. /\ ~FirstPicture(Report(kind, Asked.p, id)) /\ Report(kind, Asked.p, id).kind # "revoked"
    BY <1>5, <2>2
  <2> QED BY <1>4, <2>1, <2>2, <2>3, ServedShownStill
<1>7. CASE ServesStop
  <2>1. /\ ConsoleTyped' /\ Takes("stop") /\ outbound' = outbound
        /\ seat'.held = seat.held /\ seat'.eye = seat.eye /\ seat'.work = seat.work
    BY <1>7, ServesStopFacts DEF SeatReads
  <2>2. ~FirstPicture(Report("refused", NoScreen, 0)) /\ Report("refused", NoScreen, 0).kind # "revoked"
    BY <1>5
  <2> QED BY <1>4, <2>1, <2>2, ServedShownStill
<1>8. CASE ServesInput
  <2>1. /\ ConsoleTyped' /\ Takes("input")
        /\ seat'.held = seat.held /\ seat'.eye = seat.eye
        /\ seat'.work = seat.work \/ seat'.work.kind = "input"
        /\ outbound' = outbound \/ Adds(Report("refused", Asked.p, 0))
    BY <1>8, ServesInputFacts DEF SeatKeeps, SeatReads, NotAnswered
  <2>2. ~FirstPicture(Report("refused", Asked.p, 0)) /\ Report("refused", Asked.p, 0).kind # "revoked"
    BY <1>5
  <2>3. seat.work.kind = "none" BY <2>1 DEF Takes
  <2>4. seat'.work = seat.work \/ (seat.work.kind # "select" /\ seat'.work.kind # "select")
    BY <2>1, <2>3
  <2> QED BY <1>4, <2>1, <2>2, <2>4, ServedShownStill
<1>9. CASE ServesRelease
  <2>1. /\ ConsoleTyped' /\ Takes("release")
        /\ \/ outbound' = outbound /\ SeatFreed(seat.work)
           \/ seat' = seat /\ NotAnswered(Asked.p)
    BY <1>9, ServesReleaseFacts
  <2>2. CASE outbound' = outbound /\ SeatFreed(seat.work) BY <2>1, <2>2, ReleasedShown
  <2>3. CASE seat' = seat /\ NotAnswered(Asked.p)
    <3>1. outbound' = outbound \/ Adds(Report("refused", Asked.p, 0)) BY <2>3 DEF NotAnswered
    <3>2. ~FirstPicture(Report("refused", Asked.p, 0)) /\ Report("refused", Asked.p, 0).kind # "revoked"
      BY <1>5
    <3> QED BY <1>4, <2>1, <2>3, <3>1, <3>2, ServedShownStill
  <2> QED BY <2>1, <2>2, <2>3
<1>10. CASE Shows
  <2> DEFINE p == seat.work.p
             id == IF seat.work.kind = "select" THEN 0 ELSE 1
  <2>1. /\ ConsoleTyped' /\ TakesNone /\ seat.work.kind \in {"select", "input"} /\ p \in Screens
        /\ \/ seat.held # p /\ outbound' = outbound /\ SeatKeeps(AtRest)
           \/ SeatKeeps(AtRest) /\ outbound' = outbound /\ seat.work.kind = "input"
           \/ SeatKeeps(AtRest) /\ Adds(Report("failed", p, 0))
           \/ seat.held = p /\ SeatKeeps(AtRest) /\ Adds(Report("frame", p, id))
           \/ /\ seat.held = p /\ SeatFreed(AtRest)
              /\ AddsTwo(Report("failed", p, 0), Report("closed_phone", p, 0))
    BY <1>10, ShowsFacts
  <2>2. CASE seat.held = p /\ SeatKeeps(AtRest) /\ Adds(Report("frame", p, id))
    <3>1. CASE seat.work.kind = "select"
      <4>1. Adds(Report("frame", p, 0)) BY <2>2, <3>1
      <4> QED BY <2>1, <2>2, <3>1, <4>1, ShowsPictureShown DEF HeldInv
    <3>2. CASE seat.work.kind # "select"
      <4>1. Adds(Report("frame", p, 1)) BY <2>2, <3>2
      <4>2. ~FirstPicture(Report("frame", p, 1)) /\ Report("frame", p, 1).kind # "revoked" BY <1>5
      <4>3. seat'.held = seat.held /\ seat'.eye = seat.eye /\ seat'.work.kind # "select"
        BY <2>2 DEF SeatKeeps, SeatReads, AtRest
      <4> QED BY <2>1, <3>2, <4>1, <4>2, <4>3, ServedShownStill
    <3> QED BY <3>1, <3>2
  <2>3. CASE ~(seat.held = p /\ SeatKeeps(AtRest) /\ Adds(Report("frame", p, id)))
    BY <2>1, <2>3, ShowsNothingShown DEF HeldInv
  <2> QED BY <2>2, <2>3
<1>11. CASE ShowsWatched
  <2>1. /\ ConsoleTyped' /\ TakesNone /\ seat.work.kind = "watch"
        /\ seat'.held = seat.held /\ seat'.work = AtRest
        /\ \/ /\ seat'.eye = seat.eye
              /\ outbound' = outbound \/ Adds(Report("watch_frame", seat.work.p, 0))
           \/ seat'.eye = NoScreen /\ Adds(Report("watch_failed", seat.work.p, 0))
    BY <1>11, ShowsWatchedFacts DEF SeatKeeps, SeatReads
  <2>2. seat.work.kind # "select" /\ seat'.work.kind # "select" BY <2>1 DEF AtRest
  <2>3. CASE /\ seat'.eye = seat.eye
             /\ outbound' = outbound \/ Adds(Report("watch_frame", seat.work.p, 0))
    <3>1. /\ ~FirstPicture(Report("watch_frame", seat.work.p, 0))
          /\ Report("watch_frame", seat.work.p, 0).kind # "revoked"
      BY <1>5
    <3> QED BY <2>1, <2>2, <2>3, <3>1, ServedShownStill
  <2>4. CASE seat'.eye = NoScreen /\ Adds(Report("watch_failed", seat.work.p, 0))
    <3> DEFINE m == Report("watch_failed", seat.work.p, 0)
    <3>1. ~FirstPicture(m) /\ m.kind = "watch_failed" /\ m.p = seat.work.p BY <1>5
    <3>2. Adds(m) BY <2>4
    <3> HIDE DEF m
    <3>3. \/ seat'.eye = seat.eye
          \/ Adds(m) /\ m.kind \in {"watch_failed", "watch_stopped"} /\ m.p = seat.eye
      BY <2>1, <2>4, <3>1, <3>2 DEF SeatInv
    <3>4. m.kind # "revoked" BY <3>1
    <3> QED BY <2>1, <2>2, <3>1, <3>2, <3>3, <3>4, ServedShownStill
  <2> QED BY <2>1, <2>3, <2>4
<1>12. CASE SendsVideo \/ VideoBreaks
  <2>1. /\ ConsoleTyped' /\ TakesNone /\ seat' = seat
        /\ \E kind \in {"video", "broken"} : Adds(Report(kind, seat.stream, seat.seq))
    BY <1>12, StreamToldFacts
  <2>2. PICK kind \in {"video", "broken"} : Adds(Report(kind, seat.stream, seat.seq)) BY <2>1
  <2>3. /\ ~FirstPicture(Report(kind, seat.stream, seat.seq))
        /\ Report(kind, seat.stream, seat.seq).kind # "revoked"
    BY <1>5, <2>2
  <2> QED BY <2>1, <2>2, <2>3, ServedShownStill
<1>13. CASE Taken
  <2>1. /\ ConsoleTyped' /\ TakesNone
        /\ \/ /\ seat.held \in Screens /\ SeatFreed(seat.work)
              /\ Adds(Report("revoked", seat.held, 0))
           \/ /\ Adds(Report("watch_stopped", seat.eye, 0))
              /\ seat'.held = seat.held /\ seat'.work = seat.work
           \/ seat' = seat /\ Adds(Report("closed_phone", seat.held, 0))
    BY <1>13, TakenFacts DEF SeatReads
  <2>2. CASE /\ seat.held \in Screens /\ SeatFreed(seat.work)
             /\ Adds(Report("revoked", seat.held, 0))
    BY <2>1, <2>2, RevokedShown
  <2>3. CASE /\ Adds(Report("watch_stopped", seat.eye, 0))
             /\ seat'.held = seat.held /\ seat'.work = seat.work
    <3> DEFINE m == Report("watch_stopped", seat.eye, 0)
    <3>1. ~FirstPicture(m) /\ m.kind = "watch_stopped" /\ m.p = seat.eye BY <1>5
    <3>2. Adds(m) BY <2>3
    <3> HIDE DEF m
    <3>3. m.kind # "revoked" BY <3>1
    <3> QED BY <2>1, <2>3, <3>1, <3>2, <3>3, ServedShownStill
  <2>4. CASE seat' = seat /\ Adds(Report("closed_phone", seat.held, 0))
    <3>1. /\ ~FirstPicture(Report("closed_phone", seat.held, 0))
          /\ Report("closed_phone", seat.held, 0).kind # "revoked"
      BY <1>5
    <3> QED BY <2>1, <2>4, <3>1, ServedShownStill
  <2> QED BY <2>1, <2>2, <2>3, <2>4
<1> QED
  BY <1>1, <1>2, <1>3, <1>6, <1>7, <1>8, <1>9, <1>10, <1>11, <1>12, <1>13 DEF ServedStep

\* What the page gave up it does not forget while the connection lasts.
LEMMA LostStays ==
  ASSUME ConsoleTyped, SeatInv, OperatorStep \/ HeardStep \/ ServedStep
  PROVE  page.lost \subseteq page'.lost
<1>1. \A p : page.lost \subseteq GivesUp(p) BY DEF GivesUp
<1>2. CASE OperatorStep
  <2>1. ASSUME NEW p \in Screens, OpensPhone(p) PROVE page.lost \subseteq page'.lost
    BY <1>1, <2>1, OpensPhoneFacts DEF Reads
  <2>2. ASSUME NEW p \in Screens, AsksToWatch(p) PROVE page.lost \subseteq page'.lost
    BY <2>2, AsksToWatchFacts DEF Reads
  <2>3. ASSUME NEW view \in {"fleet", "other"}, Leaves(view) PROVE page.lost \subseteq page'.lost
    <3>1. page'.lost = page.lost BY <2>3, LeavesFacts DEF Reads
    <3> QED BY <3>1
  <2>4. CASE OpensMedia BY <1>1, <2>4, OpensMediaFacts DEF Reads
  <2>5. CASE Releases BY <1>1, <2>5, ReleasesFacts DEF Reads
  <2>6. CASE Touches \/ RetriesVideo BY <2>6, TouchesFacts DEF Unmoved, Reads
  <2> QED BY <1>2, <2>1, <2>2, <2>3, <2>4, <2>5, <2>6 DEF OperatorStep
<1>3. CASE HeardStep
  <2>1. CASE HearsFrame
    <3>1. page'.lost \in {page.lost, GivesUp(Heard.p)}
      BY <2>1, HearsFrameFacts DEF Unmoved, Reads
    <3> QED BY <1>1, <3>1
  <2>2. CASE HearsError
    <3>1. \E lost : page.lost \subseteq lost /\ (page'.lost = lost \/ page'.lost = page.lost)
      BY <2>2, HearsErrorFacts DEF Unmoved, Reads
    <3> QED BY <3>1
  <2>3. CASE HearsRevoked
    <3>1. page'.lost = GivesUp(page.pending) \cup ({page.current} \ {NoScreen, Heard.p})
      BY <2>3, HearsRevokedFacts DEF Reads
    <3> QED BY <1>1, <3>1
  <2>4. CASE HearsClosedPhone
    <3>1. page'.lost \in {page.lost, GivesUp(page.pending) \cup {Heard.p}}
      BY <2>4, HearsClosedPhoneFacts DEF Unmoved, Reads
    <3> QED BY <1>1, <3>1
  <2>5. CASE HearsStream BY <2>5, HearsStreamFacts DEF Unmoved, Reads
  <2>6. CASE HearsWatchStarted
    <3>1. page'.lost \in {page.lost, GivesUp(page.pending)}
      BY <2>6, HearsWatchStartedFacts DEF Unmoved, Reads
    <3> QED BY <1>1, <3>1
  <2>7. CASE HearsWatchStopped
    <3>1. page'.lost = page.lost BY <2>7, HearsWatchStoppedFacts DEF Unmoved, Reads
    <3> QED BY <3>1
  <2> QED BY <1>3, <2>1, <2>2, <2>3, <2>4, <2>5, <2>6, <2>7 DEF HeardStep
<1>4. CASE ServedStep
  <2>1. page' = page
    <3>1. CASE ServesSelect BY <3>1 DEF ServesSelect, Serves
    <3>2. CASE ServesWatch BY <3>2 DEF ServesWatch, Serves
    <3>3. CASE ServesUnwatch BY <3>3 DEF ServesUnwatch, Serves
    <3>4. CASE ServesStart BY <3>4 DEF ServesStart, Serves
    <3>5. CASE ServesStop BY <3>5 DEF ServesStop, Serves
    <3>6. CASE ServesInput BY <3>6 DEF ServesInput, Serves
    <3>7. CASE ServesRelease BY <3>7 DEF ServesRelease, Serves
    <3>8. CASE Shows BY <3>8, ShowsFacts DEF TakesNone
    <3>9. CASE ShowsWatched BY <3>9, ShowsWatchedFacts DEF TakesNone
    <3>10. CASE SendsVideo \/ VideoBreaks BY <3>10, StreamToldFacts DEF TakesNone
    <3>11. CASE Taken BY <3>11, TakenFacts DEF TakesNone
    <3> QED BY <1>4, <3>1, <3>2, <3>3, <3>4, <3>5, <3>6, <3>7, <3>8, <3>9, <3>10, <3>11
            DEF ServedStep
  <2> QED BY <2>1
<1> QED BY <1>2, <1>3, <1>4

\* Every step of the page, the server and the connection keeps the page and the seat in step.
LEMMA ConsoleInvStep ==
  ASSUME ConsoleInv, ConsoleNext
  PROVE  ConsoleInv'
<1>1. ConsoleTyped /\ ShowInv /\ HeldInv /\ ShownInv BY DEF ConsoleInv
<1>2. SeatInv /\ PageInv /\ ClaimInv BY <1>1 DEF ShowInv, HeldInv
<1>3. ASSUME OperatorStep \/ HeardStep \/ ServedStep PROVE ConsoleInv'
  <2>1. ConsoleTyped' /\ ShowInv' BY <1>1, <1>3, OperatorShow, HeardShow, ServedShow
  <2>2. HeldInv' BY <1>1, <1>2, <1>3, OperatorHeld, HeardHeld, ServedHeld
  <2>3. ASSUME page'.lost = {} PROVE ShownParts'
    <3>1. page.lost = {} BY <1>1, <1>2, <1>3, <2>3, LostStays
    <3>2. ShownParts BY <1>1, <3>1 DEF ShownInv
    <3> QED BY <1>1, <1>2, <1>3, <2>3, <3>1, <3>2, OperatorShown, HeardShown, ServedShown
  <2>4. ShownInv' BY <2>3 DEF ShownInv
  <2> QED BY <2>1, <2>2, <2>4 DEF ConsoleInv
<1>4. CASE LineDrops
  <2>1. ConsoleTyped' /\ ConsoleEmpty' BY <1>1, <1>4, LineDropsFacts DEF ConsoleEmpty
  <2> QED BY <2>1, EmptyConsoleNext DEF ConsoleInv, ShownInv
<1>5. CASE Reconnects BY <1>5, ConsoleStill DEF Reconnects
<1> QED BY <1>3, <1>4, <1>5, ConsoleSteps

\* What is said of the page and of the server when nothing is on its way.
LEMMA ConsoleTruth ==
  ASSUME ConsoleInv
  PROVE  ConsoleIsTrue
<1>1. PictureIsOfThePhone
  <2>1. ASSUME MayInput, ~stage.kept PROVE stage.picture \in {NoScreen, page.current}
    BY <2>1 DEF ConsoleInv, ShowInv, PictureInv, MayInput
  <2> QED BY <2>1 DEF PictureIsOfThePhone
<1>2. ASSUME NothingOnItsWay
      PROVE  /\ Len(inbound) = 0 /\ Len(outbound) = 0 /\ seat.work.kind = "none"
             /\ seat.work = AtRest /\ NoViewing
  BY <1>2 DEF NothingOnItsWay, AtRest, NoViewing
<1>3. HeldIsShown
  <2>1. ASSUME NothingOnItsWay
        PROVE  seat.held \in {NoScreen, page.current, page.pending} \cup page.lost
    <3>1. HeldKnown BY DEF ConsoleInv, HeldInv
    <3> QED BY <1>2, <2>1, <3>1 DEF HeldKnown, Wanted
  <2> QED BY <2>1 DEF HeldIsShown
<1>4. ShownIsHeld
  <2>1. ASSUME NothingOnItsWay, page.lost = {}
        PROVE  /\ page.current \in {NoScreen, seat.held}
               /\ page.watched \in {NoScreen, seat.eye}
    <3>1. WaitInv /\ ControlInv /\ QuietWatch /\ WatchInv
      BY <2>1 DEF ConsoleInv, ShownInv, ShownParts
    <3>2. page.pending = NoScreen
      <4>1. seat.work # [kind |-> "select", p |-> page.pending]
        BY <1>2, <2>1
      <4> QED BY <1>2, <2>1, <3>1, <4>1 DEF WaitInv
    <3>3. page.current \in {NoScreen, seat.held} BY <1>2, <2>1, <3>1, <3>2 DEF ControlInv
    <3>4. page.watched \in {NoScreen, seat.eye} BY <1>2, <2>1, <3>1 DEF WatchInv
    <3> QED BY <3>3, <3>4
  <2> QED BY <2>1 DEF ShownIsHeld
<1> QED BY <1>1, <1>3, <1>4 DEF ConsoleIsTrue

\* The page (client/app.js), its stage (phoneStage.js), the messages in both directions and the
\* selection and streams that the server keeps of the connection (index.js) stay in step.
THEOREM ConsoleInvariance == ConsoleSpec => []ConsoleInv
<1>1. ConsoleInit => ConsoleInv
  BY ConsoleStart, EmptyConsole DEF ConsoleInv, ShownInv
<1>2. ConsoleInv /\ [ConsoleNext]_consoleVars => ConsoleInv'
  <2>1. ASSUME ConsoleInv, UNCHANGED consoleVars PROVE ConsoleInv'
    BY <2>1, ConsoleStill DEF consoleVars
  <2> QED BY <2>1, ConsoleInvStep
<1> QED BY <1>1, <1>2, PTL DEF ConsoleSpec

\* Whoever can touch sees the phone that the server will send the touch to, and when nothing is on
\* its way the page controls and watches only what the server holds for it, and the other way round.
THEOREM ConsolesAreTrue == ConsoleSpec => []ConsoleIsTrue
BY ConsoleInvariance, ConsoleTruth, PTL

==============================================================================
