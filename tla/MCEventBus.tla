---------------------------- MODULE MCEventBus -----------------------------
(* Two threads, a queue of one entry, and workers that are replaced twice. *)
EXTENDS EventBus
=============================================================================
