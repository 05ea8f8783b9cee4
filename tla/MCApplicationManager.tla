------------------------ MODULE MCApplicationManager ------------------------
(***************************************************************************)
(* ApplicationManager for TLC; the instances are in MCApplicationManager   *)
(* .cfg, MCUndetected.cfg, MCStopGroup.cfg and MCOldApplication.cfg.  Two  *)
(* launches are the least that shows a late monitor of the first beside a  *)
(* live second; the theorems of RuntimeProofs hold for any number.         *)
(***************************************************************************)
EXTENDS ApplicationManager
=============================================================================
