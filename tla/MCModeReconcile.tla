-------------------------- MODULE MCModeReconcile --------------------------
(* The mode reconciler with one media container.                           *)
EXTENDS ModeReconcile

MCMedia == <<"rocky-media-radarr">>
=============================================================================
