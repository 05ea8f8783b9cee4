----------------------------- MODULE MCButtons -----------------------------
(* Two keys, two applications one after the other, a socket of one event.  *)
EXTENDS Buttons
=============================================================================
