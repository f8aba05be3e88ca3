------------------------------- MODULE SiteLink -------------------------------
(***************************************************************************)
(* The link between the hub (siteLink.js, siteStore.js, siteRoutes.js) and *)
(* the agent of one site (siteAgent.js) that has one phone.                *)
(*                                                                         *)
(* Each WebSocket is a link of its own with two ends, which open and close *)
(* on their own, and a queue each way; what is under way when the network  *)
(* fails may be delivered or lost.  The hub checks a link's authorization  *)
(* across an await of the store, when the link is made and for every       *)
(* message, while an administrator removes the site or rotates its token.  *)
(* A repository that answers late covers the one that is a file.           *)
(***************************************************************************)
EXTENDS Naturals, FiniteSets, Sequences

CONSTANTS
  SiteCalls,      \* actions the hub asks of the phone
  Viewers,        \* live video streams operators open
  Silence,        \* no message
  MaxLinks,       \* bound: WebSockets the agent opens
  MaxSiteEvents   \* bound: changes of the token, the site, the phone and the network

ASSUME SiteLinkAssumption ==
  {MaxLinks, MaxSiteEvents} \subseteq Nat /\ SiteCalls \cap Viewers = {}

VARIABLES
  site,        \* the site is in the store
  secret,      \* the token in the store
  held,        \* the token the agent has
  generation,  \* authorizationGenerations of the site
  admin,       \* what an administrator has stored and not yet applied to the hub
  link,        \* WebSocket -> its two ends and the generation it was asked for at
  table,       \* connections: the site's link, or 0
  toAgent, toHub,
  reading,     \* link -> the message whose authorization is being checked
  phone,       \* the hub's RemoteDevice: "unknown", "offline" or "idle"
  wanted,      \* streams operators watch
  call,        \* call -> how it stands, and on which link it went
  agent,       \* the agent: its link, streams, calls at work, phone, last summary
  siteEvents   \* how many of the events MaxSiteEvents bounds have happened

siteVars == <<site, secret, held, generation, admin, link, table, toAgent, toHub, reading,
              phone, wanted, call, agent, siteEvents>>

Links == 1..MaxLinks
ToHub == {<<"devices", ready>> : ready \in BOOLEAN} \cup {<<"result", c>> : c \in SiteCalls}
ToAgent == {<<"rpc", c>> : c \in SiteCalls}
           \cup {<<kind, v>> : kind \in {"stream_open", "stream_close"}, v \in Viewers}

SiteTypeOK ==
  /\ site \in BOOLEAN /\ {secret, held, generation} \subseteq 0..MaxSiteEvents
  /\ admin \in {"none", "rotated", "removed"}
  /\ link \in [Links -> [hub : {"none", "verifying", "verified", "denied", "open",
                                "closing", "closed"},
                         end : {"none", "connecting", "open", "closed"},
                         gen : 0..MaxSiteEvents, up : BOOLEAN]]
  /\ table \in 0..MaxLinks
  /\ \A k \in Links : \A i \in 1..Len(toAgent[k]) : toAgent[k][i] \in ToAgent
  /\ \A k \in Links : \A i \in 1..Len(toHub[k]) : toHub[k][i] \in ToHub
  /\ reading \in [Links -> ToHub \cup {Silence}]
  /\ phone \in {"unknown", "offline", "idle"} /\ wanted \subseteq Viewers
  /\ call \in [SiteCalls -> [at : {"none", "pending", "answered", "offline", "timeout"},
                             on : 0..MaxLinks]]
  /\ agent \in [on : 0..MaxLinks, streams : SUBSET Viewers, work : SUBSET SiteCalls,
                ready : BOOLEAN, told : BOOLEAN \cup {Silence}]
  /\ siteEvents \in 0..MaxSiteEvents

SiteInit ==
  /\ site = TRUE /\ secret = 0 /\ held = 0 /\ generation = 0 /\ admin = "none"
  /\ link = [k \in Links |-> [hub |-> "none", end |-> "none", gen |-> 0, up |-> TRUE]]
  /\ table = 0
  /\ toAgent = [k \in Links |-> <<>>] /\ toHub = [k \in Links |-> <<>>]
  /\ reading = [k \in Links |-> Silence]
  /\ phone = "unknown" /\ wanted = {}
  /\ call = [c \in SiteCalls |-> [at |-> "none", on |-> 0]]
  /\ agent = [on |-> 0, streams |-> {}, work |-> {}, ready |-> FALSE, told |-> Silence]
  /\ siteEvents = 0

SiteEvent == siteEvents < MaxSiteEvents /\ siteEvents' = siteEvents + 1
Store == <<site, secret, held, generation, admin>>
HubState == <<phone, wanted, call>>
Wires == <<toAgent, toHub, reading>>

\* Its WebSocket is in the state OPEN, seen from the hub.
Online == table # 0 /\ link[table].hub = "open"
\* The hub sends message m if the site is online.
Sent(m) == IF Online THEN [toAgent EXCEPT ![table] = Append(@, m)] ELSE toAgent
\* ws.close() of the site's link.
CutLinks == IF Online THEN [link EXCEPT ![table].hub = "closing"] ELSE link

----------------------------------------------------------------------------
\* A link is made.

AgentConnects(k) ==
  /\ agent.on = 0 /\ link[k].end = "none"
  /\ \A j \in 1..(k - 1) : link[j].end # "none"
  /\ agent' = [agent EXCEPT !.on = k]
  /\ link' = [link EXCEPT ![k].end = "connecting", ![k].hub = "verifying",
                          ![k].gen = generation]
  /\ UNCHANGED <<table, siteEvents>> /\ UNCHANGED Store /\ UNCHANGED HubState /\ UNCHANGED Wires

\* verifyToken.
TokenVerified(k) ==
  /\ link[k].hub = "verifying"
  /\ link' = [link EXCEPT ![k].hub = IF site /\ held = secret THEN "verified" ELSE "denied"]
  /\ UNCHANGED <<table, agent, siteEvents>>
  /\ UNCHANGED Store /\ UNCHANGED HubState /\ UNCHANGED Wires

\* Mutant: the generation is not compared after the await.
AcceptableAnyway(k) == link[k].hub = "verified"
Acceptable(k) == link[k].hub = "verified" /\ link[k].gen = generation

Refuse(k) ==
  /\ link[k].hub \in {"verified", "denied"} /\ ~Acceptable(k)
  /\ link' = [link EXCEPT ![k].hub = "closed"]
  /\ UNCHANGED <<table, agent, siteEvents>>
  /\ UNCHANGED Store /\ UNCHANGED HubState /\ UNCHANGED Wires

\* _accept: the older link is closed, the streams are opened again.
Accept(k) ==
  /\ Acceptable(k)
  /\ link' = [CutLinks EXCEPT ![k].hub = "open"]
  /\ table' = k
  /\ \E order \in {s \in [1..Cardinality(wanted) -> wanted] :
                     \A v \in wanted : \E i \in DOMAIN s : s[i] = v} :
       toAgent' = [toAgent EXCEPT ![k] = [i \in DOMAIN order |-> <<"stream_open", order[i]>>]]
  /\ UNCHANGED <<toHub, reading, agent, siteEvents>> /\ UNCHANGED Store /\ UNCHANGED HubState

AgentOpened(k) ==
  /\ link[k].end = "connecting" /\ link[k].hub \in {"open", "closing"} /\ link[k].up
  /\ link' = [link EXCEPT ![k].end = "open"]
  /\ toHub' = [toHub EXCEPT ![k] = Append(@, <<"devices", agent.ready>>)]
  /\ agent' = [agent EXCEPT !.told = Silence]
  /\ UNCHANGED <<table, toAgent, reading, siteEvents>> /\ UNCHANGED Store /\ UNCHANGED HubState

----------------------------------------------------------------------------
\* A link ends.

NetworkFails(k) ==
  /\ link[k].end \in {"connecting", "open"} /\ link[k].up /\ SiteEvent
  /\ link' = [link EXCEPT ![k].up = FALSE]
  /\ UNCHANGED <<table, agent>> /\ UNCHANGED Store /\ UNCHANGED HubState /\ UNCHANGED Wires

AgentClosed(k) ==
  /\ link[k].end \in {"connecting", "open"}
  /\ ~link[k].up \/ link[k].hub \in {"closing", "closed"}
  /\ link' = [link EXCEPT ![k].end = "closed"]
  /\ agent' = [agent EXCEPT !.on = 0, !.streams = {}]
  /\ UNCHANGED <<table, siteEvents>> /\ UNCHANGED Store /\ UNCHANGED HubState /\ UNCHANGED Wires

HubMayClose(k) ==
  /\ link[k].hub \in {"open", "closing"}
  /\ link[k].hub = "closing" \/ link[k].end = "closed" \/ ~link[k].up

\* _onClose: nothing that went on the link is answered any more; the phone is offline
\* unless a newer link has come.
HubClosed(k) ==
  /\ HubMayClose(k)
  /\ link' = [link EXCEPT ![k].hub = "closed"]
  /\ table' = IF table = k THEN 0 ELSE table
  /\ call' = [c \in SiteCalls |-> IF call[c].at = "pending" /\ call[c].on = k
                                  THEN [call[c] EXCEPT !.at = "offline"] ELSE call[c]]
  /\ phone' = IF table = k /\ phone = "idle" THEN "offline" ELSE phone
  /\ UNCHANGED <<wanted, agent, siteEvents>> /\ UNCHANGED Store /\ UNCHANGED Wires

----------------------------------------------------------------------------
\* Messages to the hub.

\* The agent's phone changes, and a summary is sent if it tells something new.
PhoneChanges ==
  /\ SiteEvent
  /\ agent' = [agent EXCEPT !.ready = ~@]
  /\ UNCHANGED <<link, table>> /\ UNCHANGED Store /\ UNCHANGED HubState /\ UNCHANGED Wires

AgentSends(k, m) ==
  toHub' = IF k # 0 /\ link[k].end = "open" THEN [toHub EXCEPT ![k] = Append(@, m)] ELSE toHub

SendSummary ==
  /\ agent.on # 0 /\ link[agent.on].end = "open" /\ agent.told # agent.ready
  /\ agent' = [agent EXCEPT !.told = agent.ready]
  /\ AgentSends(agent.on, <<"devices", agent.ready>>)
  /\ UNCHANGED <<link, table, toAgent, reading, siteEvents>>
  /\ UNCHANGED Store /\ UNCHANGED HubState

\* The link is the site's, and its authorization was not withdrawn.
Current(k) == table = k /\ link[k].gen = generation

HubReads(k) ==
  /\ link[k].hub \in {"open", "closing"} /\ reading[k] = Silence /\ toHub[k] # <<>>
  /\ toHub' = [toHub EXCEPT ![k] = Tail(@)]
  /\ reading' = [reading EXCEPT ![k] = IF Current(k) THEN Head(toHub[k]) ELSE Silence]
  /\ UNCHANGED <<link, table, toAgent, agent, siteEvents>>
  /\ UNCHANGED Store /\ UNCHANGED HubState

\* _syncDevices, and the answer to a call.
Handled(k, m) ==
  /\ phone' = IF m[1] = "devices"
              THEN (IF m[2] /\ Online THEN "idle" ELSE "offline") ELSE phone
  /\ call' = IF m[1] = "result" /\ call[m[2]].at = "pending" /\ call[m[2]].on = k
             THEN [call EXCEPT ![m[2]].at = "answered"] ELSE call

HubHandles(k) ==
  /\ reading[k] # Silence
  /\ IF Current(k) THEN Handled(k, reading[k]) ELSE UNCHANGED <<phone, call>>
  /\ reading' = [reading EXCEPT ![k] = Silence]
  /\ UNCHANGED <<wanted, link, table, toAgent, toHub, agent, siteEvents>> /\ UNCHANGED Store

----------------------------------------------------------------------------
\* Calls and streams.

CallPhone(c) ==
  /\ call[c].at = "none" /\ phone # "unknown"
  /\ call' = [call EXCEPT ![c] = IF Online THEN [at |-> "pending", on |-> table]
                                 ELSE [at |-> "offline", on |-> 0]]
  /\ toAgent' = Sent(<<"rpc", c>>)
  /\ UNCHANGED <<phone, wanted, link, table, toHub, reading, agent, siteEvents>>
  /\ UNCHANGED Store

CallTimesOut(c) ==
  /\ call[c].at = "pending" /\ call' = [call EXCEPT ![c].at = "timeout"]
  /\ UNCHANGED <<phone, wanted, link, table, agent, siteEvents>>
  /\ UNCHANGED Store /\ UNCHANGED Wires

OpenStream(v) ==
  /\ v \notin wanted /\ phone # "unknown" /\ SiteEvent
  /\ wanted' = wanted \cup {v} /\ toAgent' = Sent(<<"stream_open", v>>)
  /\ UNCHANGED <<phone, call, link, table, toHub, reading, agent>> /\ UNCHANGED Store

CloseStream(v) ==
  /\ v \in wanted
  /\ wanted' = wanted \ {v} /\ toAgent' = Sent(<<"stream_close", v>>)
  /\ UNCHANGED <<phone, call, link, table, toHub, reading, agent, siteEvents>>
  /\ UNCHANGED Store

AgentReads(k) ==
  /\ link[k].end = "open" /\ toAgent[k] # <<>>
  /\ LET m == Head(toAgent[k]) IN
     agent' = [agent EXCEPT
                 !.work = IF m[1] = "rpc" THEN @ \cup {m[2]} ELSE @,
                 !.streams = CASE m[1] = "stream_open" -> @ \cup {m[2]}
                               [] m[1] = "stream_close" -> @ \ {m[2]}
                               [] OTHER -> @]
  /\ toAgent' = [toAgent EXCEPT ![k] = Tail(@)]
  /\ UNCHANGED <<link, table, toHub, reading, siteEvents>>
  /\ UNCHANGED Store /\ UNCHANGED HubState

\* The answer goes out on the link the agent has by then.
AgentDone(c) ==
  /\ c \in agent.work
  /\ agent' = [agent EXCEPT !.work = @ \ {c}]
  /\ AgentSends(agent.on, <<"result", c>>)
  /\ UNCHANGED <<link, table, toAgent, reading, siteEvents>>
  /\ UNCHANGED Store /\ UNCHANGED HubState

----------------------------------------------------------------------------
\* An administrator.

RotateToken ==
  /\ site /\ admin = "none" /\ SiteEvent
  /\ secret' = secret + 1 /\ admin' = "rotated"
  /\ UNCHANGED <<site, held, generation, link, table, agent>>
  /\ UNCHANGED HubState /\ UNCHANGED Wires

\* disconnect.
CutOff ==
  /\ admin = "rotated" /\ admin' = "none"
  /\ generation' = generation + 1 /\ link' = CutLinks
  /\ UNCHANGED <<site, secret, held, table, agent, siteEvents>>
  /\ UNCHANGED HubState /\ UNCHANGED Wires

RemoveFromStore ==
  /\ site /\ admin = "none" /\ SiteEvent
  /\ site' = FALSE /\ admin' = "removed"
  /\ UNCHANGED <<secret, held, generation, link, table, agent>>
  /\ UNCHANGED HubState /\ UNCHANGED Wires

\* removeSite.
ForgetSite ==
  /\ admin = "removed" /\ admin' = "none"
  /\ generation' = generation + 1 /\ link' = CutLinks
  /\ phone' = "unknown" /\ wanted' = {}
  /\ UNCHANGED <<site, secret, held, table, call, agent, siteEvents>> /\ UNCHANGED Wires

CreateSite ==
  /\ ~site /\ admin = "none" /\ SiteEvent
  /\ site' = TRUE /\ secret' = secret + 1
  /\ UNCHANGED <<held, generation, admin, link, table, agent>>
  /\ UNCHANGED HubState /\ UNCHANGED Wires

\* Somebody gives the agent the new token.
GiveToken ==
  /\ agent.on = 0 /\ held # secret /\ held' = secret
  /\ UNCHANGED <<site, secret, generation, admin, link, table, agent, siteEvents>>
  /\ UNCHANGED HubState /\ UNCHANGED Wires

SiteNext ==
  \/ \E k \in Links : \/ AgentConnects(k) \/ TokenVerified(k) \/ Refuse(k) \/ Accept(k)
                      \/ AgentOpened(k) \/ NetworkFails(k) \/ AgentClosed(k) \/ HubClosed(k)
                      \/ HubReads(k) \/ HubHandles(k) \/ AgentReads(k)
  \/ \E c \in SiteCalls : CallPhone(c) \/ CallTimesOut(c) \/ AgentDone(c)
  \/ \E v \in Viewers : OpenStream(v) \/ CloseStream(v)
  \/ PhoneChanges \/ SendSummary
  \/ RotateToken \/ CutOff \/ RemoveFromStore \/ ForgetSite \/ CreateSite \/ GiveToken

SiteSpec == SiteInit /\ [][SiteNext]_siteVars

----------------------------------------------------------------------------
\* A link that works was authorized by the site and the token there are now, though
\* either changed while the hub was asking for it.
LinkIsAuthorized == Online => link[table].gen = generation

\* A site that was removed has no phone on the hub, whatever was on its way from the
\* agent, and without a link no phone is offered as ready.
RemovedStaysGone ==
  /\ ~site /\ admin = "none" => phone = "unknown"
  /\ table = 0 => phone # "idle"

\* A call waits only for a link that may still answer it: it never hangs on one that
\* is gone, also when a newer one took its place before it was seen to close.
PendingHasLink ==
  \A c \in SiteCalls : call[c].at = "pending" => link[call[c].on].hub \in {"open", "closing"}

\* With nothing under way the agent streams what is watched, no more and no less,
\* through lost links, reconnections and viewers that come and go meanwhile.
StreamsMatch ==
  Online /\ link[table].end = "open" /\ toAgent[table] = <<>> => agent.streams = wanted

\* What the hub keeps of a site is of the link it has now: the authorization, the
\* phones, the calls that wait and the streams.
SiteIsCurrent == LinkIsAuthorized /\ RemovedStaysGone /\ PendingHasLink /\ StreamsMatch
=============================================================================
