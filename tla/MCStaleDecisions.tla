------------------------- MODULE MCStaleDecisions -------------------------
(***************************************************************************)
(* StaleDecisions on the instances of MCTaskQueue.                         *)
(***************************************************************************)
EXTENDS StaleDecisions, MCTaskQueue
=============================================================================
