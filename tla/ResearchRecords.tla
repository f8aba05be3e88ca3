-------------------------- MODULE ResearchRecords --------------------------
(***************************************************************************)
(* What research found for one account: its runs, what each of them found, *)
(* the review a person gave it, and the index that recognizes a post when  *)
(* another run finds it again (researchStore.js).                          *)
(*                                                                         *)
(* The version in a file reads, changes and writes the whole record        *)
(* without an await.  The one in PostgreSQL loads it, changes it and saves *)
(* it, in a transaction without a lock; a script copies the file into the  *)
(* table before the server is switched to it, or again after.              *)
(***************************************************************************)
EXTENDS Naturals

CONSTANTS
  PostIds,       \* ids of posts on their platform
  PostUrls,      \* addresses of posts
  Finds,         \* what runs find, in the order it gets its id
  Runs,          \* runs, likewise
  NoRun,
  Deeds,         \* what was done to a post on its platform
  Savers,        \* transactions under way
  MaxRecordings, \* bound: calls and migrations
  MaxLoads       \* bound: calls that are transactions

ASSUME RecordAssumption ==
  /\ PostIds \cap PostUrls = {} /\ NoRun \notin Runs
  /\ Finds \subseteq Nat /\ Runs \subseteq Nat /\ MaxRecordings \in Nat /\ MaxLoads \in Nat

VARIABLES
  filed,       \* the record in the file
  stored,      \* the record in the table
  place,       \* the version the server uses
  saving,      \* transaction -> the record it will save, and whether another was saved since it loaded
  past,        \* of the record in use: what was answered
  handed,      \* finds that have been given an id
  opened,      \* runs that have
  recordings,  \* calls and migrations so far
  loads,       \* and transactions
  lapped       \* a record was saved over one that had changed since

recordVars == <<filed, stored, place, saving, past, handed, opened, recordings, loads, lapped>>

PostKeys == PostIds \cup PostUrls
Verdicts == {"pending", "confirmed", "removed"}

\* What an observation tells of a post: its id, its address, both or neither.
KeySets == {ks \in SUBSET PostKeys : \A j, k \in ks : {j, k} \subseteq PostIds \/ {j, k} \subseteq PostUrls => j = k}

NoFind == [run |-> NoRun, keys |-> {}, review |-> "pending", acts |-> {}]
Unindexed == [keys |-> {}, review |-> "pending"]

\* A record, and what its callers were told: the last review of each key, the keys whose
\* review gave way to that of another key of the same post, the actions noted, the runs
\* finished, and whether a post that was reviewed came up as new.
Blank == [index |-> [k \in PostKeys |-> Unindexed], find |-> [f \in Finds |-> NoFind], runs |-> {}, done |-> {}]
NothingYet == [decided |-> [k \in PostKeys |-> "pending"], overruled |-> {}, noted |-> {}, finished |-> {},
               missed |-> FALSE]

Books == [index : [PostKeys -> [keys : SUBSET PostKeys, review : Verdicts]],
          find : [Finds -> [run : Runs \cup {NoRun}, keys : SUBSET PostKeys, review : Verdicts,
                            acts : SUBSET Deeds]],
          runs : SUBSET Runs, done : SUBSET Runs]
Pasts == [decided : [PostKeys -> Verdicts], overruled : SUBSET PostKeys, noted : SUBSET (Finds \X Deeds),
          finished : SUBSET Runs, missed : BOOLEAN]

RecordTypeOK ==
  /\ filed \in Books /\ stored \in Books /\ place \in {"file", "database"}
  /\ saving \in [Savers -> [state : {"idle", "fresh", "stale"}, book : Books, past : Pasts]]
  /\ past \in Pasts /\ handed \subseteq Finds /\ opened \subseteq Runs
  /\ recordings \in 0..MaxRecordings /\ loads \in 0..MaxLoads /\ lapped \in BOOLEAN

NotSaving == [state |-> "idle", book |-> Blank, past |-> NothingYet]

RecordInit ==
  /\ filed = Blank /\ stored = Blank /\ place = "file" /\ saving = [s \in Savers |-> NotSaving]
  /\ past = NothingYet /\ handed = {} /\ opened = {} /\ recordings = 0 /\ loads = 0 /\ lapped = FALSE

InUse == IF place = "file" THEN filed ELSE stored

----------------------------------------------------------------------------
\* The index.

\* findIndexEntry: by id, else by address.
Prior(x, keys) ==
  LET known(kind) == {k \in keys \cap kind : x[k].keys # {}} IN
  IF known(PostIds) # {} THEN x[CHOOSE k \in known(PostIds) : TRUE]
  ELSE IF known(PostUrls) # {} THEN x[CHOOSE k \in known(PostUrls) : TRUE]
  ELSE Unindexed

\* An id or an address that is missing is taken from what is known.
Filled(keys, more) ==
  keys \cup {k \in more : \/ k \in PostIds /\ keys \cap PostIds = {}
                          \/ k \in PostUrls /\ keys \cap PostUrls = {}}

EntryOf(x, keys, review) == [keys |-> Filled(keys, Prior(x, keys).keys), review |-> review]

\* upsertIndexEntry: every key of the entry leads to it, and every key that led to one with
\* a key in common.
\* Mutant: only its own keys do.
OwnKeysOnly(x, k, e) == k \in e.keys
LeadsTo(x, k, e) == k \in e.keys \/ x[k].keys \cap e.keys # {}
Upserted(x, e) == [k \in PostKeys |-> IF LeadsTo(x, k, e) THEN e ELSE x[k]]

\* indexCandidate: only a person changes the review of a post that is known.
\* Mutant: a find brings its own.
ItsOwn(x, found) == found.review
Carried(x, found) == IF Prior(x, found.keys).keys # {} THEN Prior(x, found.keys).review ELSE found.review

----------------------------------------------------------------------------
\* What the calls make of a record, and of what was answered.

Observed(b, f, found) ==
  LET e == EntryOf(b.index, found.keys, Carried(b.index, found)) IN
  [b EXCEPT !.index = Upserted(b.index, e), !.find[f] = [found EXCEPT !.review = e.review]]

AfterObserved(p, b, found) ==
  LET e == EntryOf(b.index, found.keys, Carried(b.index, found))
      yields == {k \in PostKeys : /\ LeadsTo(b.index, k, e) /\ b.index[k].keys # {}
                                   /\ b.index[k] # Prior(b.index, found.keys) /\ b.index[k].review # e.review}
  IN [p EXCEPT !.overruled = @ \cup yields,
               !.missed = @ \/ (/\ e.review = "pending"
                                /\ \E k \in found.keys \ (p.overruled \cup yields) : p.decided[k] # "pending")]

\* setCandidateStatus: for the find, and for the post.
Reviewed(b, f, to) ==
  [b EXCEPT !.index = Upserted(b.index, EntryOf(b.index, b.find[f].keys, to)),
            !.find[f].review = to]

AfterReviewed(p, b, f, to) ==
  LET e == EntryOf(b.index, b.find[f].keys, to) IN
  [p EXCEPT !.decided = [k \in PostKeys |-> IF LeadsTo(b.index, k, e) THEN to ELSE p.decided[k]],
            !.overruled = {k \in p.overruled : ~LeadsTo(b.index, k, e)}]

\* candidateRecord, and mergeCandidate, which fills in what is missing.
NewFind(r, keys) == [run |-> r, keys |-> keys, review |-> "pending", acts |-> {}]
Merged(found, keys) == [found EXCEPT !.keys = Filled(@, keys)]
Duplicates(b, r, keys) == {g \in Finds : b.find[g].run = r /\ b.find[g].keys \cap keys # {}}

----------------------------------------------------------------------------
Tallied == recordings < MaxRecordings /\ recordings' = recordings + 1

\* A call: the file is written at once; a transaction has loaded, and will save.
Recording(s, b, p) ==
  /\ Tallied
  /\ IF place = "file" THEN filed' = b /\ past' = p /\ UNCHANGED <<saving, loads>>
     ELSE /\ saving[s].state = "idle" /\ loads < MaxLoads /\ loads' = loads + 1
          /\ saving' = [saving EXCEPT ![s] = [state |-> "fresh", book |-> b, past |-> p]]
          /\ UNCHANGED <<filed, past>>
  /\ UNCHANGED <<stored, place, lapped>>

\* A new id.
NewIn(ids, given, i) == i \in ids \ given /\ \A j \in ids \ given : i <= j
NewFindId(f) == NewIn(Finds, handed, f) /\ handed' = handed \cup {f}
NewRunId(r) == NewIn(Runs, opened, r) /\ opened' = opened \cup {r}

\* createRun; with what it found already.
CreatesRun(s, r) ==
  /\ NewRunId(r) /\ Recording(s, [InUse EXCEPT !.runs = @ \cup {r}], past)
  /\ UNCHANGED handed
CreatesRunWith(s, r, f, keys) ==
  LET b == [InUse EXCEPT !.runs = @ \cup {r}]  found == NewFind(r, keys) IN
  /\ NewRunId(r) /\ NewFindId(f)
  /\ Recording(s, Observed(b, f, found), AfterObserved(past, b, found))

\* appendCandidate: a find of its own, or one more observation of a find of the run.
AppendsFind(s, r, f, keys) ==
  LET found == NewFind(r, keys) IN
  /\ r \in InUse.runs /\ Duplicates(InUse, r, keys) = {} /\ NewFindId(f)
  /\ Recording(s, Observed(InUse, f, found), AfterObserved(past, InUse, found))
  /\ UNCHANGED opened
AppendsTo(s, r, g, keys) ==
  LET found == Merged(InUse.find[g], keys) IN
  /\ r \in InUse.runs /\ g \in Duplicates(InUse, r, keys)
  /\ Recording(s, Observed(InUse, g, found), AfterObserved(past, InUse, found))
  /\ UNCHANGED <<handed, opened>>

SetsStatus(s, f, to) ==
  /\ InUse.find[f].run # NoRun /\ to \in {"confirmed", "removed"}
  /\ Recording(s, Reviewed(InUse, f, to), AfterReviewed(past, InUse, f, to))
  /\ UNCHANGED <<handed, opened>>

\* recordPlatformAction: once.
Notes(s, f, a) ==
  /\ InUse.find[f].run # NoRun /\ a \notin InUse.find[f].acts
  /\ Recording(s, [InUse EXCEPT !.find[f].acts = @ \cup {a}],
                [past EXCEPT !.noted = @ \cup {<<f, a>>}])
  /\ UNCHANGED <<handed, opened>>

\* finalizeRun.
Finalizes(s, r) ==
  /\ r \in InUse.runs
  /\ Recording(s, [InUse EXCEPT !.done = @ \cup {r}], [past EXCEPT !.finished = @ \cup {r}])
  /\ UNCHANGED <<handed, opened>>

\* What was loaded before another record came into the table is stale.
OthersStale(s) ==
  [u \in Savers |-> IF u = s THEN NotSaving
                    ELSE IF saving[u].state = "idle" THEN saving[u] ELSE [saving[u] EXCEPT !.state = "stale"]]

\* saveData, whatever is in the table by now.
Saves(s) ==
  /\ saving[s].state # "idle" /\ stored' = saving[s].book /\ past' = saving[s].past
  /\ saving' = OthersStale(s) /\ lapped' = (lapped \/ saving[s].state = "stale")
  /\ UNCHANGED <<filed, place, handed, opened, recordings, loads>>

SaveFails(s) ==
  /\ saving[s].state # "idle" /\ saving' = [saving EXCEPT ![s] = NotSaving]
  /\ UNCHANGED <<filed, stored, place, past, handed, opened, recordings, loads, lapped>>

\* migrateResearchToPostgres: the file's record replaces the table's.
Migrates ==
  /\ filed # stored /\ stored' = filed /\ Tallied
  /\ saving' = [s \in Savers |-> IF saving[s].state = "idle" THEN saving[s]
                                 ELSE [saving[s] EXCEPT !.state = "stale"]]
  /\ lapped' = (lapped \/ place = "database")
  /\ UNCHANGED <<filed, place, past, handed, opened, loads>>

\* The server is started with the other version.
CutsOver ==
  /\ place = "file" /\ place' = "database" /\ lapped' = (lapped \/ stored # filed)
  /\ UNCHANGED <<filed, stored, saving, past, handed, opened, recordings, loads>>

RecordNext ==
  \/ \E s \in Savers :
       \/ Saves(s) \/ SaveFails(s)
       \/ \E r \in Runs : \/ CreatesRun(s, r) \/ Finalizes(s, r)
                          \/ \E f \in Finds, keys \in KeySets :
                               CreatesRunWith(s, r, f, keys) \/ AppendsFind(s, r, f, keys)
                                 \/ AppendsTo(s, r, f, keys)
       \/ \E f \in Finds : \/ \E to \in Verdicts : SetsStatus(s, f, to)
                           \/ \E a \in Deeds : Notes(s, f, a)
  \/ Migrates \/ CutsOver

RecordSpec == RecordInit /\ [][RecordNext]_recordVars

----------------------------------------------------------------------------
\* Whatever key leads to an entry, its own keys lead there too.
AliasesAgree(b) == \A k \in PostKeys : \A j \in b.index[k].keys : b.index[j] = b.index[k]

\* A key that a person reviewed has that review, unless it turned out to belong to a post
\* with another one, and no find with it came up as new.
DecisionsStand(b, p) ==
  /\ \A k \in PostKeys \ p.overruled : p.decided[k] # "pending" => b.index[k].review = p.decided[k]
  /\ ~p.missed

\* What was noted is in its find, and a run that was finished is.
NotesStay(b, p) ==
  /\ \A n \in p.noted : n[2] \in b.find[n[1]].acts
  /\ p.finished \subseteq b.done

\* A review sticks to the post: always with the file, and in the table until a record is saved
\* over one that had changed since.
ReviewsStick ==
  /\ AliasesAgree(filed) /\ AliasesAgree(stored)
  /\ place = "file" => ~lapped
  /\ ~lapped => DecisionsStand(InUse, past) /\ NotesStay(InUse, past)
=============================================================================
