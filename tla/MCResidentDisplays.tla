------------------------- MODULE MCResidentDisplays -------------------------
(* One display of systemd and one managed display.  config/services.json   *)
(* names no companion; one is given here so that a swap is covered.        *)
EXTENDS ResidentDisplays, TLC

CONSTANTS tesserae, ragnar

MCShortPress == (tesserae :> "swap") @@ (ragnar :> "menu")
MCCompanion  == (tesserae :> ragnar) @@ (ragnar :> None)
=============================================================================
