-------------------------- MODULE MCMiniPcTransfer --------------------------
(* A folder of two files; a new version of one has the size of the old.    *)
EXTENDS MiniPcTransfer, TLC

CONSTANTS album, m1, m2, x, y, new

MCNameOf     == album :> album
MCSize       == (x :> 1) @@ (y :> 2) @@ (new :> 1)
MCDownloaded == album :> ((m1 :> x) @@ (m2 :> y))
=============================================================================
