----------------------------- MODULE SessionStore -----------------------------
(***************************************************************************)
(* One session of the store of files (fileSessionStore.js): it is written  *)
(* by the requests that use it, each over several callbacks, and destroyed *)
(* in between.  Time is counted in steps; a session is not destroyed in    *)
(* the step it was last used in, and it and the mark of its destruction    *)
(* are kept for the same time.                                             *)
(***************************************************************************)
EXTENDS Naturals, FiniteSets

CONSTANTS
  Setters,       \* set() or touch() under way at once
  Getters,       \* get() under way at once
  Ttl,           \* maxAge of the cookie, and tombstoneTtlMs
  MaxTime,       \* bound: steps of time
  MaxDeaths      \* bound: crashes

ASSUME SessionAssumption == {Ttl, MaxTime, MaxDeaths} \subseteq Nat /\ Ttl > 0

VARIABLES
  clock,
  file,        \* when the session in the file ends; 0 is no file
  tombstone,   \* when the mark in the directory ends
  memory,      \* when the mark in memory ends
  touched,     \* when the session was last used
  setter,      \* writer -> where it is, and when what it writes ends
  getter,      \* reader -> where it is, what it read, and if destroy had succeeded before
  destroying,  \* destroy() is removing the file
  destroyed,   \* a call of destroy() succeeded
  deaths

sessionVars == <<clock, file, tombstone, memory, touched, setter, getter, destroying,
                 destroyed, deaths>>

Moments == 0..(MaxTime + Ttl)
IdleSetter == [at |-> "none", ends |-> 0]
IdleGetter == [at |-> "none", ends |-> 0, after |-> FALSE]

SessionTypeOK ==
  /\ clock \in 0..MaxTime /\ {file, tombstone, memory, touched} \subseteq Moments
  /\ setter \in [Setters -> [at : {"none", "writing", "renaming", "unlinking"}, ends : Moments]]
  /\ getter \in [Getters -> [at : {"none", "reading", "served"}, ends : Moments,
                             after : BOOLEAN]]
  /\ destroying \in BOOLEAN /\ destroyed \in BOOLEAN /\ deaths \in 0..MaxDeaths

SessionInit ==
  /\ clock = 0 /\ file = 0 /\ tombstone = 0 /\ memory = 0 /\ touched = 0
  /\ setter = [s \in Setters |-> IdleSetter]
  /\ getter = [g \in Getters |-> IdleGetter]
  /\ destroying = FALSE /\ destroyed = FALSE /\ deaths = 0

\* _isRevoked; an end that has come is no mark.
Revoked == memory > clock \/ tombstone > clock

Marks == <<tombstone, memory, destroying, destroyed>>

----------------------------------------------------------------------------
\* set().

SetStarts(s) ==
  /\ setter[s].at = "none" /\ ~Revoked
  /\ destroyed => clock < touched + Ttl   \* a cookie is no longer sent after its end
  /\ touched' = IF tombstone = 0 /\ memory = 0 /\ ~destroyed THEN clock ELSE touched
  /\ setter' = [setter EXCEPT ![s] = [at |-> "writing", ends |-> touched' + Ttl]]
  /\ UNCHANGED <<clock, file, getter, deaths>> /\ UNCHANGED Marks

SetWritten(s) ==
  /\ setter[s].at = "writing"
  /\ setter' = [setter EXCEPT ![s] = IF Revoked THEN IdleSetter ELSE [@ EXCEPT !.at = "renaming"]]
  /\ UNCHANGED <<clock, file, touched, getter, deaths>> /\ UNCHANGED Marks

SetRenamed(s) ==
  /\ setter[s].at = "renaming"
  /\ file' = setter[s].ends
  /\ setter' = [setter EXCEPT ![s] = IF Revoked THEN [@ EXCEPT !.at = "unlinking"] ELSE IdleSetter]
  /\ UNCHANGED <<clock, touched, getter, deaths>> /\ UNCHANGED Marks

\* The file is removed, or cannot be.
SetUndone(s) ==
  /\ setter[s].at = "unlinking"
  /\ file' \in {0, file}
  /\ setter' = [setter EXCEPT ![s] = IdleSetter]
  /\ UNCHANGED <<clock, touched, getter, deaths>> /\ UNCHANGED Marks

SetFails(s) ==
  /\ setter[s].at \in {"writing", "renaming"}
  /\ setter' = [setter EXCEPT ![s] = IdleSetter]
  /\ UNCHANGED <<clock, file, touched, getter, deaths>> /\ UNCHANGED Marks

----------------------------------------------------------------------------
\* get().

GetStarts(g) ==
  /\ getter[g].at = "none" /\ ~Revoked
  /\ getter' = [getter EXCEPT ![g] = [at |-> "reading", ends |-> file, after |-> destroyed]]
  /\ UNCHANGED <<clock, file, touched, setter, deaths>> /\ UNCHANGED Marks

\* The file was read at any time since; an old one is removed.
GetReturns(g) ==
  /\ getter[g].at = "reading"
  /\ \E ends \in {getter[g].ends, file} :
       LET served == ~Revoked /\ ends # 0 /\ ends >= clock IN
       /\ getter' = [getter EXCEPT ![g] = IF served THEN [@ EXCEPT !.at = "served"] ELSE IdleGetter]
       /\ file' = IF ~Revoked /\ ends # 0 /\ ends < clock THEN 0 ELSE file
  /\ UNCHANGED <<clock, touched, setter, deaths>> /\ UNCHANGED Marks

GetDone(g) ==
  /\ getter[g].at = "served" /\ getter' = [getter EXCEPT ![g] = IdleGetter]
  /\ UNCHANGED <<clock, file, touched, setter, deaths>> /\ UNCHANGED Marks

----------------------------------------------------------------------------
\* destroy() and what forgets.

\* Mutant: the mark is kept in memory only.
MarkInMemory ==
  /\ memory' = clock + Ttl /\ UNCHANGED tombstone

\* The mark, in memory and in the directory.
Mark ==
  /\ memory' = clock + Ttl /\ tombstone' = clock + Ttl

DestroyStarts ==
  /\ ~destroying /\ ~destroyed /\ file # 0 /\ clock > touched
  /\ Mark /\ destroying' = TRUE
  /\ UNCHANGED <<clock, file, touched, setter, getter, destroyed, deaths>>

\* The mark could not be written: the call fails.
DestroyFails ==
  /\ ~destroying /\ ~destroyed /\ file # 0 /\ clock > touched
  /\ memory' = clock + Ttl
  /\ UNCHANGED <<clock, file, tombstone, touched, setter, getter, destroying, destroyed, deaths>>

DestroyEnds ==
  /\ destroying /\ destroying' = FALSE
  /\ \/ file' = 0 /\ destroyed' = TRUE
     \/ UNCHANGED <<file, destroyed>>
  /\ UNCHANGED <<clock, tombstone, memory, touched, setter, getter, deaths>>

\* sweep().
Sweep ==
  /\ memory' = IF memory <= clock THEN 0 ELSE memory
  /\ tombstone' = IF tombstone <= clock THEN 0 ELSE tombstone
  /\ file' = IF file <= clock THEN 0 ELSE file
  /\ <<memory', tombstone', file'>> # <<memory, tombstone, file>>
  /\ UNCHANGED <<clock, touched, setter, getter, destroying, destroyed, deaths>>

\* maxMemoryRevocations: other sessions push the mark out of memory.
PushedOut ==
  /\ memory # 0 /\ memory' = 0
  /\ UNCHANGED <<clock, file, tombstone, touched, setter, getter, destroying, destroyed, deaths>>

SessionCrash ==
  /\ deaths < MaxDeaths /\ deaths' = deaths + 1
  /\ memory' = 0 /\ destroying' = FALSE
  /\ setter' = [s \in Setters |-> IdleSetter]
  /\ getter' = [g \in Getters |-> IdleGetter]
  /\ UNCHANGED <<clock, file, tombstone, touched, destroyed>>

\* No write and no removal takes as long as a session is kept.
TimePasses ==
  /\ clock < MaxTime /\ clock' = clock + 1
  /\ destroying => tombstone > clock'
  /\ \A s \in Setters : setter[s].at # "none" => setter[s].ends > clock'
  /\ UNCHANGED <<file, touched, setter, getter, deaths>> /\ UNCHANGED Marks

SessionNext ==
  \/ \E s \in Setters : SetStarts(s) \/ SetWritten(s) \/ SetRenamed(s) \/ SetUndone(s) \/ SetFails(s)
  \/ \E g \in Getters : GetStarts(g) \/ GetReturns(g) \/ GetDone(g)
  \/ DestroyStarts \/ DestroyFails \/ DestroyEnds
  \/ Sweep \/ PushedOut \/ SessionCrash \/ TimePasses

SessionSpec == SessionInit /\ [][SessionNext]_sessionVars

----------------------------------------------------------------------------
\* Once destroy() has succeeded nobody is served the session again: not from a write
\* that was under way and lands later, nor after a restart, when memory has let go of
\* the mark, or when the mark itself has ended.
DestroyedIsGone == \A g \in Getters : getter[g].at = "served" => ~getter[g].after
=============================================================================
