-------------------------- MODULE MCCommandSupervisor --------------------------
(***************************************************************************)
(* The instance of supervisor.cfg: two descendants, one of which may       *)
(* escape or hold the pipe while the other stays in the group.             *)
(***************************************************************************)
EXTENDS CommandSupervisor
=============================================================================
