---------------------------- MODULE SharedTables ----------------------------
(***************************************************************************)
(* The stores with a version in PostgreSQL: approvals, interventions, the  *)
(* proxy pool, assignments, sites, mail and policies (db/repositories).    *)
(*                                                                         *)
(* A call is a transaction at READ COMMITTED: it reads, decides, and then  *)
(* writes; what others commit in between, it does not see.  The version in *)
(* a file does the same without an await: one call at a time.  A behaviour *)
(* is one of a single table.                                               *)
(***************************************************************************)
EXTENDS Naturals, FiniteSets

CONSTANTS
  TableRows,      \* ids of rows
  Subjects,       \* what an approval or intervention is about, when an assignment is, a site's name
  Holders,        \* people, phones, tokens, values: what a row can be given to
  Connections,    \* connections, each with one call under way
  NoHolder,
  Keep,           \* a column that an UPDATE leaves as it is
  MaxTableCalls   \* bound: calls

ASSUME TableAssumption ==
  /\ MaxTableCalls \in Nat /\ Subjects # {} /\ NoHolder \notin Holders \cup Connections
  /\ Keep \notin Subjects \cup Holders \cup Connections \cup {NoHolder}
  /\ Holders \cap Connections = {}

VARIABLES
  relation,   \* the table of this behaviour
  serial,     \* the version in a file: one call at a time
  row,        \* id -> what is committed
  query,      \* connection -> the call under way: what it will write, and where
  called,     \* calls so far
  told,       \* <<id, holder>>: who was told that the row is theirs, and nothing since took it
              \* away.  Of policies: the map that is read without waiting
  ended,      \* ids of rows that were in a final state
  overtaken   \* something was written although what had been read no longer allowed it

tableVars == <<relation, serial, row, query, called, told, ended, overtaken>>

Tables == {"approvals", "interventions", "proxies", "assignments", "sites", "mail", "policies"}
ApprovalRowStates == {"PENDING", "APPROVED", "REJECTED", "EXPIRED", "CONSUMED"}
InterventionStates == {"OPEN", "CLAIMED", "RESOLVED"}
ProxyStates == {"FREE", "LEASED"}
WorkStates == {"assigned", "in_progress", "completed", "cancelled", "expired"}
MailStates == {"held", "queued", "sending", "retry", "failed", "lost", "aborted", "sent"}
RowStates == ApprovalRowStates \cup InterventionStates \cup ProxyStates \cup WorkStates
               \cup MailStates \cup {"none", "there"}
ASSUME KeepAssumption == Keep \notin RowStates

LiveStates == {"PENDING", "APPROVED", "OPEN", "CLAIMED", "LEASED", "assigned", "in_progress"}
FinalStates == {"REJECTED", "EXPIRED", "CONSUMED", "RESOLVED", "completed", "cancelled", "expired", "sent"}

SomeSubject == CHOOSE s \in Subjects : TRUE
NoRow == [state |-> "none", subject |-> SomeSubject, by |-> NoHolder]

CallKinds ==
  {"none", "insert", "decide", "claim", "resolve", "remove", "lease", "free", "start", "complete", "end",
   "recur", "reassign", "move", "rename", "rotate", "update", "mail", "save", "refresh"}

\* A call writes the columns state, subject and by of its rows, frees the rows of also, and
\* was made by who; seen is what a refresh has read.
Command(op, rows, also, who, state, subject, by) ==
  [op |-> op, rows |-> rows, also |-> also, who |-> who, state |-> state, subject |-> subject, by |-> by,
   seen |-> {}]
Writing(op, rows, state, subject, by) == Command(op, rows, {}, NoHolder, state, subject, by)
NoCalls == Writing("none", {}, Keep, Keep, Keep)

TableTypeOK ==
  /\ relation \in Tables /\ serial \in BOOLEAN
  /\ row \in [TableRows -> [state : RowStates, subject : Subjects, by : Holders \cup Connections \cup {NoHolder}]]
  /\ query \in [Connections -> [op : CallKinds, rows : SUBSET TableRows, also : SUBSET TableRows,
                         who : Holders \cup {NoHolder}, state : RowStates \cup {Keep},
                         subject : Subjects \cup {Keep}, by : Holders \cup {NoHolder, Keep},
                         seen : SUBSET (TableRows \X Holders)]]
  /\ called \in 0..MaxTableCalls
  /\ told \subseteq TableRows \X Holders /\ ended \subseteq TableRows /\ overtaken \in BOOLEAN

\* Mail and policies have no version that does one call at a time.
TableInit ==
  /\ relation \in Tables /\ serial \in BOOLEAN /\ (relation \in {"mail", "policies"} => ~serial)
  /\ row = [r \in TableRows |-> NoRow] /\ query = [l \in Connections |-> NoCalls] /\ called = 0
  /\ told = {} /\ ended = {} /\ overtaken = FALSE

Live(r) == row[r].state \in LiveStates

\* Two rows that must not be there together: open for the same subject, at the same time for
\* the same person, leased to the same phone.
ClashesWith(x, y) ==
  /\ {x.state, y.state} \subseteq LiveStates
  /\ x.subject = y.subject
  /\ x.by = y.by \/ {x.state, y.state} \cap {"LEASED", "assigned", "in_progress"} = {}

\* What a call makes of a row.
AsWritten(k, r) ==
  IF r \in k.also THEN [row[r] EXCEPT !.state = IF @ = "none" THEN @ ELSE "FREE", !.by = NoHolder]
  ELSE IF r \notin k.rows THEN row[r]
  ELSE IF k.state = "none" THEN NoRow
  ELSE IF row[r].state = "none" /\ k.op \notin {"insert", "save"} THEN row[r]
  ELSE [state |-> IF k.state = Keep THEN row[r].state ELSE k.state,
        subject |-> IF k.subject = Keep THEN row[r].subject ELSE k.subject,
        by |-> IF k.by = Keep THEN row[r].by ELSE k.by]

\* No other row is in the way of what r will be.
Fits(k, r) == \A q \in TableRows \ {r} : ~ClashesWith(row[q], AsWritten(k, r))

----------------------------------------------------------------------------
\* The calls of each table, and what they have to find.

\* A row of an id of its own, which nobody else has.
Inserts(r, state, subject, by) == Writing("insert", {r}, state, subject, by)

\* request and decide.
ApprovalCalls ==
  {Inserts(r, "PENDING", s, NoHolder) : r \in TableRows, s \in Subjects}
    \cup {Writing("decide", {r}, to, Keep, Keep) : r \in TableRows, to \in {"APPROVED", "REJECTED"}}

\* open, claim and resolve.
InterventionCalls ==
  {Inserts(r, "OPEN", s, NoHolder) : r \in TableRows, s \in Subjects}
    \cup {Command("claim", {r}, {}, p, "CLAIMED", Keep, p) : r \in TableRows, p \in Holders}
    \cup {Writing("resolve", {r}, "RESOLVED", Keep, Keep) : r \in TableRows}

\* create, remove and assignToDevice, which frees what the phone has.
LeasedTo(d) == {r \in TableRows : row[r].state = "LEASED" /\ row[r].by = d}
ProxyCalls ==
  {Inserts(r, "FREE", SomeSubject, NoHolder) : r \in TableRows}
    \cup {Writing("remove", {r}, "none", Keep, Keep) : r \in TableRows}
    \cup {Command("lease", {r}, LeasedTo(d) \ {r}, d, "LEASED", Keep, d) :
            r \in TableRows, d \in Holders}
    \cup {Command("free", {}, LeasedTo(d), d, Keep, Keep, Keep) : d \in Holders}

\* create, setStatus, the next occurrence of what is completed or missed, reassign, reschedule,
\* expireDue and renamePrincipal.
WorkOf(p) == {r \in TableRows : row[r].state # "none" /\ row[r].by = p}
AssignmentCalls ==
  {Inserts(r, "assigned", s, p) : r \in TableRows, s \in Subjects, p \in Holders}
    \cup {Writing("start", {r}, "in_progress", Keep, Keep) : r \in TableRows}
    \cup {Writing("complete", {r}, "completed", Keep, Keep) : r \in TableRows}
    \cup {Writing("end", {r}, to, Keep, Keep) : r \in TableRows, to \in {"cancelled", "expired"}}
    \cup {Writing("recur", {r}, "assigned", s, Keep) : r \in TableRows, s \in Subjects}
    \cup {Writing("reassign", {r}, "assigned", Keep, p) : r \in TableRows, p \in Holders}
    \cup {Writing("move", {r}, Keep, s, Keep) : r \in TableRows, s \in Subjects}
    \cup {Command("rename", WorkOf(p), {}, p, Keep, Keep, q) : p \in Holders, q \in Holders}

\* create, whose id is chosen by who makes it, rotate and update.
SiteRowCalls ==
  {Inserts(r, "there", SomeSubject, k) : r \in TableRows, k \in Holders}
    \cup {Writing("rotate", {r}, Keep, Keep, k) : r \in TableRows, k \in Holders}
    \cup {Writing("update", {r}, Keep, s, Keep) : r \in TableRows, s \in Subjects}

CallsOf ==
  CASE relation = "approvals" -> ApprovalCalls
    [] relation = "interventions" -> InterventionCalls
    [] relation = "proxies" -> ProxyCalls
    [] relation = "assignments" -> AssignmentCalls
    [] relation = "sites" -> SiteRowCalls
    [] OTHER -> {}

\* claim: nobody else has it.
\* Mutant: whoever comes last has it.
NotResolved(k, r) == row[r].state \in {"OPEN", "CLAIMED"}
FreeToClaim(k, r) == row[r].state = "OPEN" \/ (row[r].state = "CLAIMED" /\ row[r].by = k.who)

\* What a call has to find, for a row it writes.
Allows(k, r) ==
  CASE k.op = "insert" -> row[r].state = "none" /\ Fits(k, r)
    [] k.op = "decide" -> row[r].state = "PENDING"
    [] k.op = "claim" -> FreeToClaim(k, r)
    [] k.op = "resolve" -> row[r].state \in {"OPEN", "CLAIMED"}
    [] k.op = "remove" -> row[r].state = "FREE"
    [] k.op = "lease" -> row[r].state = "FREE" \/ (row[r].state = "LEASED" /\ row[r].by = k.who)
    [] k.op = "start" -> row[r].state = "assigned"
    [] k.op = "complete" -> row[r].state = "in_progress"
    [] k.op = "end" -> Live(r)
    [] k.op \in {"recur", "reassign", "move"} -> Live(r) /\ Fits(k, r)
    [] k.op = "rename" -> row[r].by = k.who
    [] k.op \in {"rotate", "update"} -> row[r].state # "none"
    [] OTHER -> FALSE

\* And for what it frees; a renaming goes to a name nobody has.
MayWrite(k) ==
  /\ \A r \in k.rows : Allows(k, r)
  /\ k.op \in {"lease", "free"} => k.also = LeasedTo(k.who) \ k.rows
  /\ k.op = "rename" => WorkOf(k.who) = k.rows /\ WorkOf(k.by) = {}

Count == called < MaxTableCalls /\ called' = called + 1
Alone == serial => \A l \in Connections : query[l] = NoCalls

\* The ids that calls under way will insert are random, except a site's.
Reserved == IF relation = "sites" THEN {} ELSE UNION {query[l].rows : l \in {m \in Connections : query[m].op = "insert"}}

----------------------------------------------------------------------------
\* A call reads, and decides.
CallReads(l) ==
  /\ query[l] = NoCalls /\ Alone /\ Count
  /\ \E k \in CallsOf :
       /\ MayWrite(k) /\ (k.op = "insert" => k.rows \cap Reserved = {})
       /\ query' = [query EXCEPT ![l] = k]
  /\ UNCHANGED <<relation, serial, row, told, ended, overtaken>>

\* Who is told that a row is theirs, and who no longer has one.
Tells(k) == IF k.op \in {"insert", "claim", "lease", "reassign", "rename", "rotate"}
            THEN (k.rows \X {k.by}) \cap (TableRows \X Holders) ELSE {}
TakenBy(k) ==
  CASE k.op \in {"insert", "resolve", "complete", "end", "reassign", "rename", "rotate"} ->
         k.rows \X Holders
    [] k.op \in {"lease", "free"} -> k.also \X {k.who}
    [] OTHER -> {}

\* The unique index on the phone of a lease, and the primary key.
\* Mutant: there is no index.
AnyIndex(k) == TRUE
IndexHolds(k) ==
  /\ k.op = "insert" => \A r \in k.rows : row[r].state = "none"
  /\ k.op = "lease" => LeasedTo(k.who) \subseteq k.rows \cup k.also

\* It writes, whatever others have committed by now.
CallWrites(l) ==
  LET k == query[l] IN
  /\ k.op \notin {"none", "mail", "save", "refresh"} /\ IndexHolds(k)
  /\ row' = [r \in TableRows |-> AsWritten(k, r)]
  /\ told' = (told \ TakenBy(k)) \cup Tells(k)
  /\ ended' = ended \cup {r \in TableRows : AsWritten(k, r).state \in FinalStates}
  /\ overtaken' = (overtaken \/ ~MayWrite(k))
  /\ query' = [query EXCEPT ![l] = NoCalls]
  /\ UNCHANGED <<relation, serial, called>>

\* An error, a violated index, a lost connection: rolled back.
CallFails(l) ==
  /\ query[l].op \notin {"none", "save"}
  /\ query' = [query EXCEPT ![l] = NoCalls]
  /\ UNCHANGED <<relation, serial, row, called, told, ended, overtaken>>

----------------------------------------------------------------------------
\* Single statements, which look at what they change.
Statement(rows, from, to) ==
  /\ Alone /\ rows # {} /\ \A r \in rows : row[r].state \in from
  /\ row' = [r \in TableRows |-> IF r \in rows THEN [row[r] EXCEPT !.state = to] ELSE row[r]]
  /\ ended' = IF to \in FinalStates THEN ended \cup rows ELSE ended
  /\ UNCHANGED <<relation, serial, query, called, overtaken>>

\* consume, and the expiry that every call begins with.
Consume(r) == Statement({r}, {"APPROVED"}, "CONSUMED")
ApprovalStatement(r) ==
  /\ relation = "approvals" /\ UNCHANGED told
  /\ Consume(r) \/ Statement({r}, {"PENDING", "APPROVED"}, "EXPIRED")

\* resolveForTask.
TaskMovesOn(s) ==
  LET rows == {r \in TableRows : row[r].state \in {"OPEN", "CLAIMED"} /\ row[r].subject = s} IN
  /\ relation = "interventions" /\ Statement(rows, {"OPEN", "CLAIMED"}, "RESOLVED")
  /\ told' = told \ (rows \X Holders)

\* remove of a site.
SiteRemoved(r) ==
  /\ relation = "sites" /\ Alone /\ row[r].state # "none"
  /\ row' = [row EXCEPT ![r] = NoRow] /\ told' = told \ ({r} \X Holders)
  /\ UNCHANGED <<relation, serial, query, called, ended, overtaken>>

\* queue, once for each key; what was aborted can be held again.  markCommitted, markAborted,
\* markSent, markFailed, retryEligible.
MailMoves ==
  {<<{"none", "aborted"}, "held">>, <<{"none"}, "queued">>, <<{"held"}, "queued">>,
   <<{"held"}, "aborted">>, <<{"queued", "retry", "failed"}, "sent">>,
   <<{"queued", "retry"}, "failed">>, <<{"retry", "failed", "lost"}, "queued">>}

MailStatement(r) ==
  /\ relation = "mail"
  /\ \E move \in MailMoves : Statement({r}, move[1], move[2])
  /\ UNCHANGED told

\* claimNext, of what is due or whose claim has run out; rows that others lock are skipped.
MailClaimed(l, r) ==
  /\ relation = "mail" /\ query[l] = NoCalls /\ Count
  /\ row[r].state \in {"queued", "retry", "failed", "sending"}
  /\ row' = [row EXCEPT ![r].state = "sending", ![r].by = l]
  /\ query' = [query EXCEPT ![l] = Writing("mail", {r}, Keep, Keep, Keep)]
  /\ UNCHANGED <<relation, serial, told, ended, overtaken>>

\* Mutant: the claim is not looked at.
AnyClaim(l, r) == TRUE
OwnClaim(l, r) == row[r].state = "sending" /\ row[r].by = l

\* completeClaim: only with the claim it was given.
MailCompleted(l, to) ==
  /\ query[l].op = "mail" /\ to \in {"sent", "retry", "lost"}
  /\ row' = [r \in TableRows |->
               IF r \in query[l].rows /\ OwnClaim(l, r)
               THEN [row[r] EXCEPT !.state = to, !.by = NoHolder] ELSE row[r]]
  /\ ended' = IF to = "sent" THEN ended \cup {r \in query[l].rows : OwnClaim(l, r)} ELSE ended
  /\ query' = [query EXCEPT ![l] = NoCalls]
  /\ UNCHANGED <<relation, serial, called, told, overtaken>>

----------------------------------------------------------------------------
\* Policies: a map that is read without waiting, and writes that follow it.

\* set and clear: the map at once, and a write under way.
PolicyChanges(l, r, v) ==
  /\ relation = "policies" /\ query[l] = NoCalls /\ Count
  /\ IF v = NoHolder
     THEN /\ \E t \in told : t[1] = r
          /\ told' = told \ ({r} \X Holders)
          /\ query' = [query EXCEPT ![l] = Writing("save", {r}, "none", Keep, Keep)]
     ELSE /\ told' = (told \ ({r} \X Holders)) \cup {<<r, v>>}
          /\ query' = [query EXCEPT ![l] = Writing("save", {r}, "there", Keep, v)]
  /\ UNCHANGED <<relation, serial, row, ended, overtaken>>

\* What a write will leave is what the map says.
UpToDate(k) ==
  \A r \in k.rows : (k.rows \X Holders) \cap told = IF k.state = "none" THEN {} ELSE {<<r, k.by>>}

\* The row is written; it is too late when the map has moved on, and nothing will follow.
PolicySaved(l) ==
  LET k == query[l] IN
  /\ k.op = "save"
  /\ row' = [r \in TableRows |-> AsWritten(k, r)]
  /\ query' = [query EXCEPT ![l] = NoCalls]
  /\ overtaken' = (overtaken \/ ~\E m \in Connections : query[m].op = "save" /\ query[m].rows = k.rows
                                                   /\ UpToDate(query[m]))
  /\ UNCHANGED <<relation, serial, called, told, ended>>

\* A write fails: it is reported, and the map stays ahead.
PolicyNotSaved(l) ==
  /\ query[l].op = "save" /\ overtaken' = TRUE
  /\ query' = [query EXCEPT ![l] = NoCalls]
  /\ UNCHANGED <<relation, serial, row, called, told, ended>>

\* refresh: the rows are read ...
RefreshReads(l) ==
  /\ relation = "policies" /\ query[l] = NoCalls /\ Count
  /\ query' = [query EXCEPT ![l] = [NoCalls EXCEPT !.op = "refresh",
       !.seen = {t \in TableRows \X Holders : row[t[1]].by = t[2]}]]
  /\ UNCHANGED <<relation, serial, row, told, ended, overtaken>>

\* ... and become the map, whatever was set in the meantime.
RefreshDone(l) ==
  /\ query[l].op = "refresh" /\ told' = query[l].seen
  /\ query' = [query EXCEPT ![l] = NoCalls]
  /\ overtaken' = (overtaken \/ query[l].seen # told)
  /\ UNCHANGED <<relation, serial, row, called, ended>>

TableNext ==
  \/ \E l \in Connections :
       \/ CallReads(l) \/ CallWrites(l) \/ CallFails(l)
       \/ \E r \in TableRows : \/ MailClaimed(l, r)
                               \/ \E v \in Holders \cup {NoHolder} : PolicyChanges(l, r, v)
       \/ \E to \in MailStates : MailCompleted(l, to)
       \/ PolicySaved(l) \/ PolicyNotSaved(l) \/ RefreshReads(l) \/ RefreshDone(l)
  \/ \E r \in TableRows : ApprovalStatement(r) \/ SiteRemoved(r) \/ MailStatement(r)
  \/ \E s \in Subjects : TaskMovesOn(s)

TableSpec == TableInit /\ [][TableNext]_tableVars

----------------------------------------------------------------------------
\* What has ended stays as it is.
EndsAreFinal == \A r \in ended : row[r].state \in FinalStates

\* No two rows are open for one subject, booked for one person at a time, or leased to one phone.
OneEach == \A q, r \in TableRows : q # r => ~ClashesWith(row[q], row[r])

\* Who was told that a row is theirs has it.
ToldIsTrue == relation # "policies" => \A t \in told : row[t[1]].by = t[2]

\* With no write of it under way, a row says what the map says.
MapIsSaved ==
  relation = "policies" =>
    \A r \in TableRows : \/ \E l \in Connections : query[l].op = "save" /\ r \in query[l].rows
                         \/ {v \in Holders : <<r, v>> \in told} = {row[r].by} \ {NoHolder}

\* What the tables promise holds until a call writes on what others have changed; one call at a
\* time, or with statements that look at what they change, none does.  A phone has one lease,
\* and what was mailed is not mailed again, whatever happens.
PromisesKept ==
  /\ serial \/ relation = "mail" => ~overtaken
  /\ ~overtaken => EndsAreFinal /\ OneEach /\ ToldIsTrue /\ MapIsSaved
  /\ relation = "proxies" => OneEach
=============================================================================
