---------------------------- MODULE MCRuntimeState ----------------------------
EXTENDS RuntimeState
=============================================================================
