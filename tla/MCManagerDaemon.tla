-------------------------- MODULE MCManagerDaemon --------------------------
(***************************************************************************)
(* ManagerDaemon for TLC.  Two applications are the least that shows a     *)
(* late exit callback of the first beside the second.                      *)
(***************************************************************************)
EXTENDS ManagerDaemon
=============================================================================
