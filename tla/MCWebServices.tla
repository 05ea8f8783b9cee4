---------------------------- MODULE MCWebServices ----------------------------
\* The HTTP servers that answer on threads of their own: the Switch server, the
\* console's file requests and the console's rate limiter.  They share nothing.
EXTENDS SwitchTransfer, ConsoleFiles, ConsoleGate, TLC

VARIABLE kind \* which of the three it is; the others take no step

MCJumps == {-3, 3}

MCInit ==
  /\ kind \in {"switch", "files", "gate"}
  /\ Init /\ FilesInit /\ GateInit
  /\ kind # "switch" => card = [f \in Files |-> None]
  /\ kind # "files" => nearby

MCNext ==
  \/ kind = "switch" /\ Next /\ UNCHANGED <<fileVars, gateVars, kind>>
  \/ kind = "files" /\ FilesNext /\ UNCHANGED <<vars, gateVars, kind>>
  \/ kind = "gate" /\ GateNext /\ UNCHANGED <<vars, fileVars, kind>>

MCSpec == MCInit /\ [][MCNext]_<<vars, fileVars, gateVars, kind>>

\* The jobs and the files of the Switch server are alike.
Symmetry == Permutations(Jobs) \cup Permutations(Files)
=============================================================================
