----------------------------- MODULE MCServices -----------------------------
(***************************************************************************)
(* The services around the core, side by side in one instance for TLC.     *)
(* They share no state: a behaviour is one of a single service, chosen at  *)
(* the start, and the others rest in their initial states.                 *)
(***************************************************************************)
EXTENDS NetworkRouting, Accounts, NotificationOutbox, AccountDeletion, SiteLink,
        SessionStore, NetworkEnrollment, PhoneEgress, DesktopHost, OperatorConsole,
        Assignments, PhoneDriver, PlatformActions, CloudIdentity, SharedTables,
        ResearchRecords

VARIABLE part

Parts == {"routing", "accounts", "outbox", "deletion", "site", "sessions", "enrollment",
          "egress", "desktop", "console", "assignments", "driver", "acts", "cloud", "tables",
          "records"}

\* The services that are not p leave their variables alone.
OthersRest(p) ==
  /\ p # "routing" => UNCHANGED routeVars
  /\ p # "accounts" => UNCHANGED accountVars
  /\ p # "outbox" => UNCHANGED outboxVars
  /\ p # "deletion" => UNCHANGED deletionVars
  /\ p # "site" => UNCHANGED siteVars
  /\ p # "sessions" => UNCHANGED sessionVars
  /\ p # "enrollment" => UNCHANGED enrollVars
  /\ p # "egress" => UNCHANGED egressVars
  /\ p # "desktop" => UNCHANGED desktopVars
  /\ p # "console" => UNCHANGED consoleVars
  /\ p # "assignments" => UNCHANGED assignmentVars
  /\ p # "driver" => UNCHANGED driverVars
  /\ p # "acts" => UNCHANGED actVars
  /\ p # "cloud" => UNCHANGED cloudVars
  /\ p # "tables" => UNCHANGED tableVars
  /\ p # "records" => UNCHANGED recordVars

\* One of the initial states of each service that rests.
Resting(p) ==
  /\ p # "accounts" => \A n \in Names \ {MainHost} : acct[n].status = "none"
  /\ p # "assignments" => staff = CHOOSE s \in SUBSET People : Cardinality(s) = Cardinality(People) - 1
  /\ p # "tables" => relation = "sites" /\ serial

ServicesInit ==
  /\ part \in Parts
  /\ RouteInit /\ AccountsInit /\ OutboxInit /\ DeletionInit /\ SiteInit /\ SessionInit
  /\ EnrollInit /\ EgressInit /\ DesktopInit /\ ConsoleInit /\ AssignmentInit /\ DriverInit
  /\ ActsInit /\ CloudInit /\ TableInit /\ RecordInit
  /\ Resting(part)
  /\ lease = CHOOSE l \in [Proxies -> Handhelds] : OnePhoneEach(l)  \* the others only differ in names

ServicesNext ==
  /\ UNCHANGED part /\ OthersRest(part)
  /\ \/ part = "routing" /\ RouteNext
     \/ part = "accounts" /\ AccountsNext
     \/ part = "outbox" /\ OutboxNext
     \/ part = "deletion" /\ DeletionNext
     \/ part = "site" /\ SiteNext
     \/ part = "sessions" /\ SessionNext
     \/ part = "enrollment" /\ EnrollNext
     \/ part = "egress" /\ EgressNext
     \/ part = "desktop" /\ DesktopNext
     \/ part = "console" /\ ConsoleNext
     \/ part = "assignments" /\ AssignmentNext
     \/ part = "driver" /\ DriverNext
     \/ part = "acts" /\ ActsNext
     \/ part = "cloud" /\ CloudNext
     \/ part = "tables" /\ TableNext
     \/ part = "records" /\ RecordNext

ServicesVars == <<part, routeVars, accountVars, outboxVars, deletionVars, siteVars, sessionVars,
                  enrollVars, egressVars, desktopVars, consoleVars, assignmentVars,
                  driverVars, actVars, cloudVars, tableVars, recordVars>>

ServicesSpec == ServicesInit /\ [][ServicesNext]_ServicesVars

\* The service that runs keeps the types of its variables.
ServicesTypeOK ==
  CASE part = "routing" -> RouteTypeOK
    [] part = "accounts" -> AccountsTypeOK
    [] part = "outbox" -> OutboxTypeOK
    [] part = "deletion" -> DeletionTypeOK
    [] part = "site" -> SiteTypeOK
    [] part = "sessions" -> SessionTypeOK
    [] part = "enrollment" -> EnrollTypeOK
    [] part = "egress" -> EgressTypeOK
    [] part = "desktop" -> DesktopTypeOK
    [] part = "console" -> ConsoleTypeOK
    [] part = "assignments" -> AssignmentTypeOK
    [] part = "driver" -> DriverTypeOK
    [] part = "acts" -> ActsTypeOK
    [] part = "cloud" -> CloudTypeOK
    [] part = "tables" -> TableTypeOK
    [] part = "records" -> RecordTypeOK
=============================================================================
