---------------------------- MODULE Assignments ----------------------------
(***************************************************************************)
(* Who works on what, and when: assignmentStore.js and the routes that     *)
(* change it.  Every request first sweeps the board (expireAssignments),   *)
(* and so does the scheduler; a recurring assignment moves to its next     *)
(* window, one that is given once expires.  A person's account can be      *)
(* renamed meanwhile, which moves their assignments before the account.    *)
(*                                                                         *)
(* Time is a number of hours, a window a record of its two ends, and a day *)
(* has the same length everywhere: zonedRecurrence.js, which keeps the     *)
(* hour on the wall across a change of clocks, is abstracted to adding the *)
(* step.  A save that fails leaves the board as it was, in memory and on   *)
(* disk, and a restart reads back what was saved.  Instructions, history,  *)
(* and the scope of managers are left out.                                 *)
(***************************************************************************)
EXTENDS Naturals, FiniteSets

CONSTANTS
  Work,       \* assignments there may be
  People,      \* usernames
  Bookable,   \* phones an assignment may be about
  Unset,      \* no phone, no window, no name
  StartHours,     \* hours an assignment may be asked to start at
  Long,       \* how long its window then is
  Steps,      \* hours between two windows of a recurring assignment; 0 is "once"
  LastHour, MaxChangesOfWork

ASSUME WorkAssumption ==
  /\ StartHours \subseteq Nat /\ Steps \subseteq Nat /\ Long \in Nat \ {0}
  /\ LastHour \in Nat /\ MaxChangesOfWork \in Nat
  /\ Unset \notin Bookable /\ Unset \notin [start : Nat, end : Nat]

VARIABLES
  hour,         \* the time
  assignments,  \* id -> the assignment, for those that were created
  staff,        \* usernames that have an account
  renaming,     \* the rename under way: from, to, and whether work was moved
  workChanges   \* how many requests MaxChangesOfWork bounds were made

assignmentVars == <<hour, assignments, staff, renaming, workChanges>>

NoRenaming == [from |-> Unset, to |-> Unset, moved |-> FALSE]

Windows == {[start |-> s, end |-> s + Long] : s \in StartHours} \cup {Unset}

AssignmentTypeOK ==
  /\ hour \in 0..LastHour
  /\ DOMAIN assignments \subseteq Work
  /\ \A id \in DOMAIN assignments : LET work == assignments[id] IN
       /\ work.assignee \in People /\ work.phone \in Bookable \cup {Unset}
       /\ work.window = Unset \/ (work.window.start < work.window.end)
       /\ work.exclusive \in BOOLEAN /\ work.step \in Steps
       /\ work.status \in {"assigned", "in_progress", "completed", "cancelled", "expired"}
  /\ staff \subseteq People
  /\ renaming = NoRenaming \/ {renaming.from, renaming.to} \subseteq People
  /\ workChanges \in 0..MaxChangesOfWork

AssignmentInit ==
  /\ hour = 0
  /\ assignments = [id \in {} |-> Unset]
  /\ staff \in {s \in SUBSET People : Cardinality(s) = Cardinality(People) - 1}
  /\ renaming = NoRenaming
  /\ workChanges = 0

----------------------------------------------------------------------------
(* The board                                                               *)

IsActive(work) == work.status \in {"assigned", "in_progress"}

\* Two assignments want the same phone, or the same person, at the same time.
Collide(one, other) ==
  /\ one.exclusive /\ other.exclusive
  /\ one.window # Unset /\ other.window # Unset
  /\ one.window.start < other.window.end /\ other.window.start < one.window.end
  /\ (one.phone # Unset /\ one.phone = other.phone) \/ one.assignee = other.assignee

\* A slip: only the phone is looked at.
OverlapsOnPhone(board, candidate, id) ==
  \E other \in DOMAIN board \ {id} :
    IsActive(board[other]) /\ board[other].phone # Unset /\ board[other].phone = candidate.phone
      /\ Collide(candidate, board[other])

\* assertNoOverlap(candidate, id) throws.
Overlaps(board, candidate, id) ==
  \E other \in DOMAIN board \ {id} : IsActive(board[other]) /\ Collide(candidate, board[other])

\* The first later window that is not over.
Advanced(window, step) ==
  LET later(k) == window.end + k * step > hour
      first == CHOOSE k \in 1..(hour + 1) : later(k) /\ \A j \in 1..(k - 1) : ~later(j)
  IN [start |-> window.start + first * step, end |-> window.end + first * step]

Due(work) == IsActive(work) /\ work.window # Unset /\ work.window.end <= hour

\* A recurring assignment at its next window, to be taken up again.
TakenUpAgain(work) == [work EXCEPT !.status = "assigned", !.window = Advanced(@, work.step)]

\* One assignment after expireDue.  The overlap is looked for among the
\* assignments as they were before the sweep.
AfterSweep(id) ==
  LET work == assignments[id] IN
  CASE ~Due(work) -> work
    [] Due(work) /\ work.step = 0 -> [work EXCEPT !.status = "expired"]
    [] OTHER -> IF Overlaps(assignments, TakenUpAgain(work), id) THEN work ELSE TakenUpAgain(work)

Swept == [id \in DOMAIN assignments |-> AfterSweep(id)]

----------------------------------------------------------------------------
(* Requests                                                                *)

\* The scheduler's sweep, the list, and a request that is refused.
SweepBoard == assignments' = Swept /\ UNCHANGED <<hour, staff, renaming, workChanges>>

ARequest ==
  /\ workChanges < MaxChangesOfWork
  /\ workChanges' = workChanges + 1
  /\ UNCHANGED <<hour, staff, renaming>>

\* The assignment is put on the swept board, unless it overlaps.
Put(id, work) ==
  /\ ~Overlaps(Swept, work, id)
  /\ assignments' = [other \in DOMAIN assignments \cup {id} |-> IF other = id THEN work ELSE Swept[other]]

Create(id, assignee, phone, window, exclusive, step) ==
  /\ ARequest
  /\ id \notin DOMAIN assignments
  /\ assignee \in staff
  /\ window = Unset => step = 0
  /\ window # Unset => window.end > hour
  /\ Put(id, [assignee |-> assignee, phone |-> phone, window |-> window, exclusive |-> exclusive,
              step |-> step, status |-> "assigned"])

\* A status is set without looking at the board.
PutStatus(id, status) == assignments' = [Swept EXCEPT ![id].status = status]

StartWork(id) ==
  /\ ARequest
  /\ id \in DOMAIN assignments
  /\ LET work == Swept[id] IN
       /\ work.status = "assigned"
       /\ work.window # Unset => work.window.start <= hour
  /\ PutStatus(id, "in_progress")

CompleteWork(id) ==
  /\ ARequest
  /\ id \in DOMAIN assignments
  /\ Swept[id].status = "in_progress"
  /\ IF Swept[id].step = 0 THEN PutStatus(id, "completed") ELSE Put(id, TakenUpAgain(Swept[id]))

CancelWork(id) ==
  /\ ARequest
  /\ id \in DOMAIN assignments
  /\ IsActive(Swept[id])
  /\ PutStatus(id, "cancelled")

Reassign(id, assignee) ==
  /\ ARequest
  /\ id \in DOMAIN assignments
  /\ assignee \in staff
  /\ LET work == Swept[id] IN
       /\ IsActive(work) /\ work.assignee # assignee
       /\ Put(id, [work EXCEPT !.assignee = assignee, !.status = "assigned"])

Reschedule(id, window, exclusive) ==
  /\ ARequest
  /\ id \in DOMAIN assignments
  /\ LET work == Swept[id] IN
       /\ IsActive(work)
       /\ window = Unset => work.step = 0
       /\ window # Unset =>
            /\ window.end > hour
            /\ work.status = "in_progress" => window.start <= hour
       /\ Put(id, [work EXCEPT !.window = window, !.exclusive = exclusive])

----------------------------------------------------------------------------
(* People                                                                  *)

\* assignmentStore.renamePrincipal: the board is neither swept nor looked at.
MovesTo(from, to) ==
  assignments' = [id \in DOMAIN assignments |->
    IF assignments[id].assignee = from THEN [assignments[id] EXCEPT !.assignee = to] ELSE assignments[id]]

\* A rename was asked for a name nobody has.
RenameAsked(from, to) ==
  /\ renaming = NoRenaming
  /\ workChanges < MaxChangesOfWork
  /\ from \in staff /\ to \notin staff
  /\ renaming' = [from |-> from, to |-> to, moved |-> FALSE]
  /\ workChanges' = workChanges + 1
  /\ UNCHANGED <<hour, assignments, staff>>

\* The person's work is moved to the name they will have.
RenameMovesWork ==
  /\ renaming # NoRenaming /\ ~renaming.moved
  /\ MovesTo(renaming.from, renaming.to)
  /\ renaming' = [renaming EXCEPT !.moved = TRUE]
  /\ UNCHANGED <<hour, staff, workChanges>>

\* The account has its new name.
RenameCommits ==
  /\ renaming.moved
  /\ renaming.from \in staff /\ renaming.to \notin staff
  /\ staff' = (staff \ {renaming.from}) \cup {renaming.to}
  /\ renaming' = NoRenaming
  /\ UNCHANGED <<hour, assignments, workChanges>>

\* The name is taken, or the manager may no longer: the work is moved back.
RenameFails ==
  /\ renaming # NoRenaming
  /\ IF renaming.moved THEN MovesTo(renaming.to, renaming.from) ELSE UNCHANGED assignments
  /\ renaming' = NoRenaming
  /\ UNCHANGED <<hour, staff, workChanges>>

\* Somebody gets an account.
Joins(name) ==
  /\ name \notin staff
  /\ staff' = staff \cup {name}
  /\ UNCHANGED <<hour, assignments, renaming, workChanges>>

\* An hour passes, whether the scheduler ran or not: the host may sleep.
HourPasses ==
  /\ hour < LastHour
  /\ hour' = hour + 1
  /\ UNCHANGED <<assignments, staff, renaming, workChanges>>

AssignmentNext ==
  \/ SweepBoard \/ HourPasses
  \/ \E id \in Work, name \in People, phone \in Bookable \cup {Unset}, window \in Windows,
        exclusive \in BOOLEAN, step \in Steps : Create(id, name, phone, window, exclusive, step)
  \/ \E id \in Work : StartWork(id) \/ CompleteWork(id) \/ CancelWork(id)
  \/ \E id \in Work, name \in People : Reassign(id, name)
  \/ \E id \in Work, window \in Windows, exclusive \in BOOLEAN : Reschedule(id, window, exclusive)
  \/ \E from \in People, to \in People : RenameAsked(from, to)
  \/ RenameMovesWork \/ RenameCommits \/ RenameFails
  \/ \E name \in People : Joins(name)

AssignmentSpec == AssignmentInit /\ [][AssignmentNext]_assignmentVars

----------------------------------------------------------------------------
(* What the board promises                                                 *)

Clash(one, other) == IsActive(one) /\ IsActive(other) /\ Collide(one, other)

\* Nobody is booked twice by what somebody asks for: two assignments that come
\* to collide in a step were both moved by one sweep, each looked at beside the
\* other's old window, or one was given the other's person by a rename.
NeverBookedTwice ==
  [][\A one, other \in DOMAIN assignments' :
       one # other /\ Clash(assignments'[one], assignments'[other]) =>
         \/ {one, other} \subseteq DOMAIN assignments /\ Clash(assignments[one], assignments[other])
         \/ {one, other} \subseteq DOMAIN assignments
              /\ Due(assignments[one]) /\ Due(assignments[other])
         \/ renaming' # renaming]_assignmentVars

\* Work somebody has begun has a window that has begun, whatever the
\* assignment was moved to since (reschedule, the sweep, a recurrence).
BegunIsDue ==
  \A id \in DOMAIN assignments : LET work == assignments[id] IN
    work.status = "in_progress" /\ work.window # Unset => work.window.start <= hour

\* An assignment that was closed is never opened, moved or given to another.
ClosedIsClosed ==
  [][\A id \in DOMAIN assignments : ~IsActive(assignments[id]) =>
       id \in DOMAIN assignments'
         /\ [assignments'[id] EXCEPT !.assignee = Unset] = [assignments[id] EXCEPT !.assignee = Unset]
         /\ (assignments'[id].assignee # assignments[id].assignee => renaming' # renaming)]_assignmentVars

\* The board is honest: nobody is booked twice, work that was begun is due, and
\* what was closed stays closed (assignmentStore.js).
BoardIsHonest == NeverBookedTwice /\ []BegunIsDue /\ ClosedIsClosed

============================================================================
