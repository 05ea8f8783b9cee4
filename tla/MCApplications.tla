---------------------------- MODULE MCApplications ----------------------------
\* The launcher runs one application at a time: one on the SDK, or a plain one.
\* What the command line runs is apart from both.
EXTENDS ButtonApps, PlainApps, ProcessRecord

VARIABLE kind \* which of the three it is; the others take no step

\* Entries whose pages behave alike are here once; their order is no matter.
MCItems == [
  torrentz      |-> <<"qbt", "vpn", "back">>,
  print_lab     |-> <<"isp_prep", "klipper_status", "back">>,
  mode_selector |-> <<"safe", "torrent_fortress", "back">>,
  entertainment |-> <<"transfer-stack", "radarr">>]

MCPages == <<3, 2>>

\* The preparation that is asked for, withdrawn and asked for again takes four.
EnoughPresses == presses' <= IF app' = "print_lab" THEN MaxPresses ELSE MaxPresses - 1

MCInit ==
  /\ kind \in {"buttons", "plain", "recorded"}
  /\ Init /\ PlainInit /\ RecordInit
  /\ kind # "plain" => program = "reader" /\ shelf = {}
  /\ kind # "buttons" => app = "torrentz"
  /\ kind # "recorded" => ~up

MCNext ==
  \/ kind = "buttons" /\ Next /\ EnoughPresses /\ UNCHANGED <<plainVars, recordVars, kind>>
  \/ kind = "plain" /\ PlainNext /\ UNCHANGED <<vars, recordVars, kind>>
  \/ kind = "recorded" /\ RecordNext /\ UNCHANGED <<vars, plainVars, kind>>

MCSpec == MCInit /\ [][MCNext]_<<vars, plainVars, recordVars, kind>>
=============================================================================
