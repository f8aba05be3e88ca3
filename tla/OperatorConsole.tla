---------------------------- MODULE OperatorConsole ----------------------------
(***************************************************************************)
(* An operator's page (client/app.js, client/phoneStage.js) and the other  *)
(* end of its WebSocket (index.js): what the page believes it controls or  *)
(* watches, the picture it shows, and what the server holds for it.  Both  *)
(* change at once on a click, and learn of each other by messages.         *)
(***************************************************************************)
EXTENDS Naturals, Sequences

CONSTANTS
  Screens,     \* phones
  NoScreen,    \* none of them
  MaxClicks,   \* bound: what the operator does
  MaxUpsets    \* bound: what goes wrong

ASSUME ConsoleAssumption ==
  NoScreen \notin Screens /\ {MaxClicks, MaxUpsets} \subseteq Nat

VARIABLES
  page,     \* currentView, currentDeviceId, pendingDeviceId, watchedDeviceId, ..., streamActive
  stage,    \* PhoneStage: its mode, stream and picture
  inbound, outbound, \* messages on their way
  seat,     \* the server's side: selected, watched, the stream and the message being served
  online,   \* the WebSocket is open
  clicks, upsets

consoleVars == <<page, stage, inbound, outbound, seat, online, clicks, upsets>>

AnyScreen == Screens \cup {NoScreen}

BlankStage == [mode |-> "idle", id |-> 0, frames |-> FALSE, picture |-> NoScreen, kept |-> FALSE]
PageAtStart == [view |-> "fleet", current |-> NoScreen, pending |-> NoScreen, watched |-> NoScreen,
                asking |-> NoScreen, active |-> FALSE, sid |-> 0, retry |-> FALSE, lost |-> {}]
AtRest == [kind |-> "none", p |-> NoScreen]
EmptySeat ==
  [held |-> NoScreen, eye |-> NoScreen, stream |-> NoScreen, seq |-> 0, work |-> AtRest]

UpKinds == {"select", "watch", "unwatch", "start", "stop", "input", "release"}
DownKinds == {"frame", "refused", "failed", "watch_failed", "revoked", "started", "video", "broken",
              "unsupported", "watch_started", "watch_frame", "watch_stopped", "closed_phone"}

ConsoleTypeOK ==
  /\ page.view \in {"fleet", "detail", "media", "other"}
  /\ {page.current, page.pending, page.watched, page.asking} \subseteq AnyScreen
  /\ page.active \in BOOLEAN /\ page.retry \in BOOLEAN /\ page.sid \in Nat
  /\ page.lost \subseteq Screens
  /\ stage.mode \in {"idle", "control", "watch"} /\ stage.id \in Nat /\ stage.frames \in BOOLEAN
  /\ stage.picture \in AnyScreen /\ stage.kept \in BOOLEAN
  /\ \A i \in DOMAIN inbound : inbound[i].kind \in UpKinds /\ inbound[i].p \in AnyScreen
  /\ \A i \in DOMAIN outbound :
       outbound[i].kind \in DownKinds /\ outbound[i].p \in AnyScreen /\ outbound[i].id \in Nat
  /\ {seat.held, seat.eye, seat.stream, seat.work.p} \subseteq AnyScreen /\ seat.seq \in Nat
  /\ seat.work.kind \in {"none", "select", "watch", "input"}
  /\ online \in BOOLEAN
  /\ clicks \in 0..MaxClicks /\ upsets \in 0..MaxUpsets

ConsoleInit ==
  /\ page = PageAtStart /\ stage = BlankStage /\ seat = EmptySeat
  /\ inbound = <<>> /\ outbound = <<>>
  /\ online = TRUE /\ clicks = 0 /\ upsets = 0

----------------------------------------------------------------------------
(* What the page does with its state.                                      *)

ToServer(kind, p) == <<[kind |-> kind, p |-> p]>>

\* safeSend: nothing is sent without a connection.
Says(msgs) == inbound' = IF online THEN inbound \o msgs ELSE inbound

\* The phone that a message about a stream, or a request for one, is about.
OnScreen(pg) == IF pg.current # NoScreen THEN pg.current ELSE pg.watched

\* resetStreamState, and with it the stage.
Quiet(pg) == [pg EXCEPT !.active = FALSE, !.sid = 0, !.retry = FALSE]

\* showFleetView: a video that counts as active is stopped.
Fleet(pg) ==
  [pg EXCEPT !.view = "fleet", !.active = FALSE, !.sid = IF pg.active THEN 0 ELSE @]
StopIfActive(pg) == IF pg.active THEN ToServer("stop", NoScreen) ELSE <<>>

\* deselect and stopWatching.
Deselected(pg) == [Quiet(pg) EXCEPT !.view = "fleet", !.current = NoScreen, !.pending = NoScreen]
Unwatched(pg) == [Quiet(pg) EXCEPT !.view = "fleet", !.watched = NoScreen, !.asking = NoScreen]

\* A phone that the page has asked for and no longer waits for (to state the properties).
GivesUp(p) == page.lost \cup ({p} \ {NoScreen})

\* renderFrame: while a video counts as active and has shown a frame, a screenshot is dropped.
Dropped == page.active /\ stage.frames
Pictured(st, p) == [st EXCEPT !.picture = p, !.kept = FALSE]

----------------------------------------------------------------------------
(* What the operator does.                                                 *)

Clicks == clicks < MaxClicks /\ clicks' = clicks + 1 /\ UNCHANGED <<outbound, seat, online, upsets>>

\* selectDevice, from a card of the fleet.
OpensPhone(p) ==
  /\ Clicks /\ page.view = "fleet" /\ Says(ToServer("select", p)) /\ UNCHANGED stage
  /\ page' = [page EXCEPT !.view = "detail", !.pending = IF online THEN p ELSE NoScreen,
                          !.lost = GivesUp(page.pending)]

\* requestDeviceWatch.
AsksToWatch(p) ==
  /\ Clicks /\ page.view = "fleet" /\ Says(ToServer("watch", p)) /\ UNCHANGED stage
  /\ page' = [page EXCEPT !.view = "detail", !.asking = IF online THEN p ELSE NoScreen,
                          !.watched = NoScreen]

\* openMediaWorkspace: what was asked for is forgotten.
OpensMedia ==
  /\ Clicks /\ page.view = "fleet" /\ UNCHANGED <<stage, inbound>>
  /\ page' = [page EXCEPT !.view = "media", !.pending = NoScreen, !.asking = NoScreen,
                          !.lost = GivesUp(page.pending)]

\* Back to the fleet, or to another page: watching is over, control is not.
Watching == {page.watched, page.asking} # {NoScreen}
Leaves(view) ==
  /\ Clicks /\ page.view \notin {"fleet", view}
  /\ IF Watching
     THEN /\ page' = [Unwatched(page) EXCEPT !.view = view] /\ stage' = BlankStage
          /\ LET p == IF page.watched # NoScreen THEN page.watched ELSE page.asking IN
             Says(ToServer("unwatch", p))
     ELSE /\ UNCHANGED stage
          /\ IF view = "fleet" THEN page' = Fleet(page) /\ Says(StopIfActive(page))
             ELSE page' = [page EXCEPT !.view = view] /\ UNCHANGED inbound

Releases ==
  /\ Clicks /\ page.view = "detail" /\ page.current # NoScreen /\ online
  /\ Says(ToServer("release", page.current)) /\ stage' = BlankStage
  /\ page' = [Deselected(page) EXCEPT !.lost = GivesUp(page.pending)]

\* sendStageInput: never while another phone is being asked for.
MayInput ==
  /\ page.view = "detail" /\ stage.mode = "control"
  /\ page.current # NoScreen /\ page.pending = NoScreen
Touches == Clicks /\ MayInput /\ Says(ToServer("input", page.current)) /\ UNCHANGED <<page, stage>>

\* scheduleStreamRetry: wherever the operator is by now.
RetriesVideo ==
  /\ page.retry /\ page' = [page EXCEPT !.retry = FALSE]
  /\ Says(IF OnScreen(page) # NoScreen THEN ToServer("start", OnScreen(page)) ELSE <<>>)
  /\ UNCHANGED <<stage, outbound, seat, online, clicks, upsets>>

----------------------------------------------------------------------------
(* What the page does with a message.                                      *)

Heard == Head(outbound)
Hears(kind) ==
  /\ outbound # <<>> /\ Heard.kind = kind /\ outbound' = Tail(outbound)
  /\ UNCHANGED <<seat, online, clicks, upsets>>

\* confirmSelection.
Viewed == page.view \in {"detail", "media"}
Confirmed(p) == [page EXCEPT !.current = p, !.pending = NoScreen, !.watched = NoScreen,
                             !.asking = NoScreen, !.retry = @ /\ ~Viewed]

\* A picture confirms what is pending, and is drawn; one that followed an input, sent before the
\* phone was released and opened again, confirms it too soon.
HearsFrame ==
  /\ Hears("frame")
  /\ \/ /\ Heard.p = page.pending
        /\ page' = [Confirmed(Heard.p) EXCEPT !.lost = IF Heard.id = 0 THEN @ ELSE GivesUp(Heard.p)]
        /\ stage' = [IF Dropped THEN [stage EXCEPT !.kept = stage.picture # Heard.p]
                     ELSE Pictured(stage, Heard.p) EXCEPT !.mode = "control"]
        /\ Says(IF Viewed THEN ToServer("start", Heard.p) ELSE <<>>)
     \/ /\ Heard.p # page.pending /\ UNCHANGED <<page, inbound>>
        /\ stage' = IF Heard.p = page.current /\ page.pending = NoScreen /\ ~Dropped
                    THEN Pictured(stage, Heard.p) ELSE stage

\* An error is taken for one about what is asked for, watched, pending or controlled, in this
\* order; whichever it is, nothing more will come of what is pending.
HearsError ==
  LET erred == [page EXCEPT !.lost = IF Heard.p = page.pending THEN GivesUp(Heard.p) ELSE @] IN
  \E kind \in {"refused", "failed", "watch_failed"} :
    /\ Hears(kind)
    /\ CASE Heard.p = page.asking ->
              /\ page' = Fleet(Quiet([erred EXCEPT !.asking = NoScreen])) /\ stage' = BlankStage
              /\ UNCHANGED inbound
         [] Heard.p # page.asking /\ Heard.p = page.watched ->
              /\ UNCHANGED inbound
              /\ IF kind = "watch_failed" THEN page' = Unwatched(erred) /\ stage' = BlankStage
                 ELSE page' = erred /\ UNCHANGED stage
         [] Heard.p \notin {page.asking, page.watched} /\ Heard.p = page.pending ->
              LET freed == [erred EXCEPT !.pending = NoScreen] IN
              /\ UNCHANGED stage
              /\ IF page.current = NoScreen THEN page' = Fleet(freed) /\ Says(StopIfActive(page))
                 ELSE page' = freed /\ UNCHANGED inbound
         [] OTHER -> UNCHANGED <<page, stage, inbound>>

\* device_access_revoked: whatever is controlled or pending by now is let go.
HearsRevoked ==
  /\ Hears("revoked") /\ UNCHANGED inbound /\ stage' = BlankStage
  /\ page' = [Deselected(page) EXCEPT
                !.lost = GivesUp(page.pending) \cup ({page.current} \ {NoScreen, Heard.p})]

\* The fleet shows the phone that is controlled, or watched, as one that cannot be opened.
HearsClosedPhone ==
  /\ Hears("closed_phone") /\ UNCHANGED inbound
  /\ IF Heard.p = page.current
     THEN /\ page' = [Deselected(page) EXCEPT !.lost = GivesUp(page.pending) \cup {Heard.p}]
          /\ stage' = BlankStage
     ELSE UNCHANGED <<page, stage>>

\* handleStreamMessage.
HearsStarted ==
  /\ Hears("started") /\ UNCHANGED inbound
  /\ IF Heard.p = OnScreen(page)
     THEN /\ page' = [page EXCEPT !.sid = Heard.id, !.active = TRUE]
          /\ stage' = [stage EXCEPT !.id = Heard.id, !.frames = FALSE]
     ELSE UNCHANGED <<page, stage>>

HearsBroken ==
  /\ Hears("broken") /\ UNCHANGED inbound
  /\ IF Heard.p = OnScreen(page) /\ Heard.id = page.sid
     THEN /\ \/ page' = [page EXCEPT !.active = FALSE, !.retry = TRUE]  \* closed
             \/ UNCHANGED page                                          \* reconnecting
          /\ stage' = Pictured(stage, NoScreen)
     ELSE UNCHANGED <<page, stage>>

HearsUnsupported ==
  /\ Hears("unsupported") /\ UNCHANGED <<inbound, stage>>
  /\ page' = IF Heard.p = OnScreen(page) THEN [page EXCEPT !.active = FALSE, !.sid = 0] ELSE page

\* handleBinary: a frame of another stream is dropped.
HearsVideo ==
  /\ Hears("video") /\ UNCHANGED <<page, inbound>>
  /\ stage' = IF Heard.id # stage.id THEN stage
              ELSE [Pictured(stage, Heard.p) EXCEPT !.frames = TRUE]

\* confirmWatch.
HearsWatchStarted ==
  /\ Hears("watch_started")
  /\ IF Heard.p = page.asking
     THEN /\ page' = [page EXCEPT !.current = NoScreen, !.pending = NoScreen, !.watched = Heard.p,
                                  !.asking = NoScreen, !.view = "detail", !.retry = FALSE,
                                  !.lost = GivesUp(page.pending)]
          /\ stage' = [stage EXCEPT !.mode = "watch"] /\ Says(ToServer("start", Heard.p))
     ELSE UNCHANGED <<page, stage, inbound>>

HearsWatchFrame ==
  /\ Hears("watch_frame") /\ UNCHANGED <<page, inbound>>
  /\ stage' = IF Heard.p = page.watched /\ ~Dropped THEN Pictured(stage, Heard.p) ELSE stage

HearsWatchStopped ==
  /\ Hears("watch_stopped") /\ UNCHANGED inbound
  /\ IF Heard.p = page.watched THEN page' = Unwatched(page) /\ stage' = BlankStage
     ELSE UNCHANGED <<page, stage>>

----------------------------------------------------------------------------
(* The server, one message of the connection at a time.                    *)

ToPage(kind, p) == <<[kind |-> kind, p |-> p, id |-> 0]>>
Answers(msgs) == outbound' = outbound \o msgs
Asked == Head(inbound)
Serves(kind) ==
  /\ seat.work = AtRest /\ inbound # <<>> /\ Asked.kind = kind /\ inbound' = Tail(inbound)
  /\ UNCHANGED <<page, stage, online, clicks, upsets>>

\* stopStream with the claim or the watch it belongs to.
LetsGo(st, p) == IF st.stream = p THEN [st EXCEPT !.stream = NoScreen] ELSE st
Freed(st) == [LetsGo(st, st.held) EXCEPT !.held = NoScreen]
Blind(st) == [LetsGo(st, st.eye) EXCEPT !.eye = NoScreen]

\* claimDevice: refused, or claimed and its picture asked for.
ServesSelect ==
  /\ Serves("select")
  /\ \/ Answers(ToPage("refused", Asked.p)) /\ UNCHANGED seat
     \/ /\ UNCHANGED outbound
        /\ seat' = [Freed(Blind(seat)) EXCEPT !.held = Asked.p,
                                              !.work = [kind |-> "select", p |-> Asked.p]]

\* Mutant: an operator who controls a phone may watch another.
MayAlwaysWatch == TRUE
MayWatch == seat.held = NoScreen

ServesWatch ==
  /\ Serves("watch")
  /\ \/ Answers(ToPage("watch_failed", Asked.p)) /\ UNCHANGED seat
     \/ /\ MayWatch /\ Answers(ToPage("watch_started", Asked.p))
        /\ seat' = [(IF seat.eye = Asked.p THEN seat ELSE Blind(seat)) EXCEPT
                      !.eye = Asked.p, !.work = [kind |-> "watch", p |-> Asked.p]]

ServesUnwatch ==
  /\ Serves("unwatch") /\ UNCHANGED outbound
  /\ seat' = IF seat.eye = Asked.p THEN Blind(seat) ELSE seat

ServesStart ==
  /\ Serves("start")
  /\ IF Asked.p \notin {seat.held, seat.eye}
     THEN Answers(ToPage("refused", Asked.p)) /\ UNCHANGED seat
     ELSE \/ Answers(ToPage("unsupported", Asked.p)) /\ UNCHANGED seat
          \/ /\ seat' = [seat EXCEPT !.stream = Asked.p, !.seq = @ + 1]
             /\ Answers(<<[kind |-> "started", p |-> Asked.p, id |-> seat.seq + 1]>>)

ServesStop == Serves("stop") /\ seat' = [seat EXCEPT !.stream = NoScreen] /\ UNCHANGED outbound

\* Only for the phone that is held; without one there is no answer, while watching a refusal.
ServesInput ==
  /\ Serves("input")
  /\ IF Asked.p = seat.held
     THEN seat' = [seat EXCEPT !.work = [kind |-> "input", p |-> Asked.p]] /\ UNCHANGED outbound
     ELSE /\ UNCHANGED seat
          /\ IF seat.held = NoScreen /\ seat.eye = NoScreen THEN UNCHANGED outbound
             ELSE Answers(ToPage("refused", Asked.p))

ServesRelease ==
  /\ Serves("release")
  /\ IF Asked.p = seat.held THEN seat' = Freed(seat) /\ UNCHANGED outbound
     ELSE /\ UNCHANGED seat
          /\ IF seat.held = NoScreen /\ seat.eye = NoScreen THEN UNCHANGED outbound
             ELSE Answers(ToPage("refused", Asked.p))

\* sendFrame, afterAction: the picture after a claim or an input, unless video shows it anyway; or
\* the phone did not answer, and after a run of failures it is offline and let go.
Shows ==
  LET p == seat.work.p
      after == IF seat.work.kind = "select" THEN 0 ELSE 1
      idle == [seat EXCEPT !.work = AtRest] IN
  /\ seat.work.kind \in {"select", "input"}
  /\ UNCHANGED <<page, stage, inbound, online, clicks, upsets>>
  /\ IF seat.held # p THEN seat' = idle /\ UNCHANGED outbound
     ELSE \/ seat' = idle /\ IF seat.work.kind = "input" /\ seat.stream = p THEN UNCHANGED outbound
                             ELSE Answers(<<[kind |-> "frame", p |-> p, id |-> after]>>)
          \/ seat' = idle /\ Answers(ToPage("failed", p))
          \/ seat' = Freed(idle) /\ Answers(ToPage("failed", p) \o ToPage("closed_phone", p))

ShowsWatched ==
  LET p == seat.work.p
      idle == [seat EXCEPT !.work = AtRest] IN
  /\ seat.work.kind = "watch" /\ UNCHANGED <<page, stage, inbound, online, clicks, upsets>>
  /\ \/ /\ seat' = idle
        /\ IF seat.eye = p THEN Answers(ToPage("watch_frame", p)) ELSE UNCHANGED outbound
     \/ seat' = Blind(idle) /\ Answers(ToPage("watch_failed", p))

----------------------------------------------------------------------------
(* What happens to the phone, the account and the connection.              *)

Upset == upsets < MaxUpsets /\ upsets' = upsets + 1

\* deliverStreamFrame (bound: one on its way).
SendsVideo ==
  /\ seat.stream # NoScreen /\ \A i \in DOMAIN outbound : outbound[i].kind # "video"
  /\ Answers(<<[kind |-> "video", p |-> seat.stream, id |-> seat.seq]>>)
  /\ UNCHANGED <<page, stage, inbound, seat, online, clicks, upsets>>

VideoBreaks ==
  /\ Upset /\ seat.stream # NoScreen
  /\ Answers(<<[kind |-> "broken", p |-> seat.stream, id |-> seat.seq]>>)
  /\ UNCHANGED <<page, stage, inbound, seat, online, clicks>>

\* revokeSelectedAccess, also while the phone is being asked for a picture.
AccessRevoked ==
  /\ Upset /\ seat.held # NoScreen /\ seat' = Freed(seat) /\ Answers(ToPage("revoked", seat.held))
  /\ UNCHANGED <<page, stage, inbound, online, clicks>>

WatchRevoked ==
  /\ Upset /\ seat.eye # NoScreen /\ seat' = Blind(seat)
  /\ Answers(ToPage("watch_stopped", seat.eye))
  /\ UNCHANGED <<page, stage, inbound, online, clicks>>

\* A probe finds the phone offline, or its tunnel outbound, while it is held.
PhoneLooksClosed ==
  /\ Upset /\ seat.held # NoScreen /\ Answers(ToPage("closed_phone", seat.held))
  /\ UNCHANGED <<page, stage, inbound, seat, online, clicks>>

\* The connection is lost with what is on its way; the server lets go what it held.
LineDrops ==
  /\ Upset /\ online /\ online' = FALSE /\ inbound' = <<>> /\ outbound' = <<>>
  /\ seat' = EmptySeat /\ stage' = BlankStage
  /\ page' = [Deselected(page) EXCEPT !.watched = NoScreen, !.asking = NoScreen, !.lost = {}]
  /\ UNCHANGED clicks

Reconnects ==
  /\ ~online /\ online' = TRUE /\ UNCHANGED <<page, stage, inbound, outbound, seat, clicks, upsets>>

ConsoleNext ==
  \/ \E p \in Screens : OpensPhone(p) \/ AsksToWatch(p)
  \/ \E view \in {"fleet", "other"} : Leaves(view)
  \/ OpensMedia \/ Releases \/ Touches \/ RetriesVideo
  \/ HearsFrame \/ HearsError \/ HearsRevoked \/ HearsClosedPhone \/ HearsStarted \/ HearsBroken
  \/ HearsUnsupported \/ HearsVideo \/ HearsWatchStarted \/ HearsWatchFrame \/ HearsWatchStopped
  \/ ServesSelect \/ ServesWatch \/ ServesUnwatch \/ ServesStart \/ ServesStop \/ ServesInput
  \/ ServesRelease \/ Shows \/ ShowsWatched
  \/ SendsVideo \/ VideoBreaks \/ AccessRevoked \/ WatchRevoked \/ PhoneLooksClosed
  \/ LineDrops \/ Reconnects

ConsoleSpec == ConsoleInit /\ [][ConsoleNext]_consoleVars

----------------------------------------------------------------------------
NothingOnItsWay == inbound = <<>> /\ outbound = <<>> /\ seat.work = AtRest

\* Who can touch sees the phone he touches, or nothing: except for a screenshot that was dropped
\* because the video of another phone still counted as active.
PictureIsOfThePhone ==
  MayInput /\ ~stage.kept => stage.picture \in {NoScreen, page.current}

\* When nothing is on its way the page controls and watches only what the server holds for it,
\* unless it stopped waiting for a phone before the picture that follows its claim came.
ShownIsHeld ==
  NothingOnItsWay /\ page.lost = {} => /\ page.current \in {NoScreen, seat.held}
                              /\ page.watched \in {NoScreen, seat.eye}

\* And the server holds nothing that the page does not show or wait for, except for such a phone.
HeldIsShown ==
  NothingOnItsWay => seat.held \in {NoScreen, page.current, page.pending} \cup page.lost

\* The page and the server agree on who controls what, and the picture is of that phone.
ConsoleIsTrue == PictureIsOfThePhone /\ ShownIsHeld /\ HeldIsShown
=============================================================================
