--------------------------- MODULE MCCommandIntake ---------------------------
(***************************************************************************)
(* Instances of CommandIntake.  Queues of one entry are full soon, and the *)
(* cache is large enough not to evict within a connection.                 *)
(***************************************************************************)
EXTENDS CommandIntake
=============================================================================
