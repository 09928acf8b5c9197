------------------------------- MODULE MCService -------------------------------
(***************************************************************************)
(* The instance of service.cfg: a delayed connect goroutine can meet the   *)
(* next connection and the shutdown, and rollbacks are partial.            *)
(***************************************************************************)
EXTENDS Service
=============================================================================
