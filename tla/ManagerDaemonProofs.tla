------------------------- MODULE ManagerDaemonProofs -------------------------
(***************************************************************************)
(* The daemon keeps the one foreground application to itself and leaves    *)
(* none behind: proved for any number of launches and any faults.          *)
(*                                                                         *)
(* Only the main thread launches, and only beside a process that has       *)
(* ended, so whatever lives is the manager's process (OneLive).  A monitor *)
(* forgets no process but its own, which was reaped (MonitorsAgree).  Hence *)
(* what stop() picked is all that can be alive when it returns, and it was *)
(* seen to end or was sent SIGKILL (StopKnows).                            *)
(***************************************************************************)
EXTENDS ManagerDaemon, TLAPS

StopPlaces == {"stop", "picking", "terminating", "killing", "stopped"}

Flags ==
  /\ running \in BOOLEAN /\ menuVisible \in BOOLEAN /\ settling \in BOOLEAN
  /\ transition \in BOOLEAN /\ manual \in BOOLEAN /\ prep \in BOOLEAN

(* Where the main thread is, and what it will do after a stop. *)
Places ==
  /\ pc \in {"idle", "route", "opening", "launching", "launched", "stop",
             "picking", "terminating", "killing", "stopped", "prep", "show",
             "flagged", "ending", "closing", "ended"}
  /\ press \in Presses \cup {NoPress}
  /\ after \in {"none", "show", "prep", "closing", "ended"}
  /\ pc \in StopPlaces => after # "none"
  /\ manual => pc \in StopPlaces \ {"stop"}
  /\ target # 0 => pc \in {"terminating", "killing", "stopped"}

(* Applications are numbered as they are spawned. *)
Numbered ==
  /\ spawned \in 0 .. MaxLaunches
  /\ process \in 0 .. spawned
  /\ activeApp \in 0 .. spawned
  /\ target \in 0 .. spawned
  /\ doomed \in SUBSET (1 .. spawned)
  /\ leader \in [Handles -> {"unborn", "running", "zombie", "reaped"}]
  /\ monitor \in [Handles -> {"none", "waiting", "woken", "exited", "superseded",
                              "asleep", "show", "flagged", "ending", "done"}]
  /\ \A h \in Handles : h > spawned => leader[h] = "unborn" /\ monitor[h] = "none"
  /\ \A h \in 1 .. spawned : leader[h] # "unborn"

(* A process that was reaped was reaped by its monitor, which is past its  *)
(* wait; past the comparison of generations the manager has forgotten it.  *)
MonitorsAgree ==
  \A h \in Handles :
    /\ leader[h] = "reaped" <=> monitor[h] \notin {"none", "waiting"}
    /\ monitor[h] \notin {"none", "waiting", "woken"} => process # h

OneLive == \A h \in Handles : Live(h) => h = process

(* What a stop works on is all that may run, and what a stop leaves alive  *)
(* was sent SIGKILL.                                                       *)
StopKnows ==
  /\ pc \in {"terminating", "killing"} => target # 0 /\ process \in {0, target}
  /\ pc = "killing" => target \in doomed
  /\ pc \in {"stopped", "ended"} => \A h \in Handles : Live(h) => h \in doomed

IInv == Flags /\ Places /\ Numbered /\ MonitorsAgree /\ OneLive /\ StopKnows

-----------------------------------------------------------------------------
(* What is known of a process                                              *)

LEMMA Idle ==
  ASSUME Numbered, OneLive, ~ IsRunning
  PROVE  \A h \in Handles : ~ Live(h)
BY ConstantsAssumption DEF Numbered, OneLive, IsRunning, Polled, Live, Handles

LEMMA Stopped ==
  ASSUME Numbered, OneLive, StopKnows, pc \in {"terminating", "killing"}, Polled(target)
  PROVE  \A h \in Handles : ~ Live(h)
BY ConstantsAssumption DEF Numbered, OneLive, StopKnows, Polled, Live, Handles

-----------------------------------------------------------------------------
(* Steps of the main thread that launch and signal nothing                 *)

LEMMA HandlerKeeps ==
  ASSUME IInv, Handler \/ OpenFails \/ HideMenu \/ LaunchRefused \/ LaunchFails \/ LaunchBound
  PROVE  IInv'
<1>0. Flags /\ Places /\ Numbered /\ MonitorsAgree /\ OneLive /\ StopKnows
  BY DEF IInv
<1>1. /\ UNCHANGED <<manager, monitor, target, manual, running, activeApp, settling, transition, prep>>
      /\ menuVisible' \in BOOLEAN
  BY <1>0 DEF Flags, Handler, Press, RouteForward, RouteOpen, RouteNothingToStop, RouteStop,
       RoutePrep, OpenFails, HideMenu, LaunchRefused, LaunchFails, LaunchBound, GoTo, daemon
<1>2. /\ pc \in {"idle", "route", "opening", "launching"}
      /\ pc' \in {"idle", "route", "opening", "launching", "show", "stop"}
      /\ press' \in Presses \cup {NoPress}
      /\ after' \in {"none", "show", "prep", "closing", "ended"}
      /\ pc' = "stop" => after' # "none"
  BY <1>0 DEF Places, Handler, Press, RouteForward, RouteOpen, RouteNothingToStop, RouteStop,
       RoutePrep, OpenFails, HideMenu, LaunchRefused, LaunchFails, LaunchBound, GoTo,
       Destination, AfterFailure, AfterRefusal
<1>3. Flags'
  BY <1>0, <1>1 DEF Flags
<1>4. Places'
  BY <1>0, <1>1, <1>2 DEF Places, StopPlaces
<1>5. Numbered' /\ MonitorsAgree' /\ OneLive'
  BY <1>0, <1>1 DEF Numbered, MonitorsAgree, OneLive, Live, manager
<1>6. StopKnows'
  BY <1>2 DEF StopKnows
<1> QED
  BY <1>3, <1>4, <1>5, <1>6 DEF IInv

LEMMA StoppingKeeps ==
  ASSUME IInv, StopBegins \/ StopPicks \/ StopSeesExit \/ StopGivesUp \/ StopReturns
  PROVE  IInv'
<1>0. Flags /\ Places /\ Numbered /\ MonitorsAgree /\ OneLive /\ StopKnows
  BY DEF IInv
<1>1. /\ UNCHANGED <<daemon, manager, monitor>>
      /\ manual' \in BOOLEAN
  BY <1>0 DEF Flags, StopBegins, StopPicks, StopSeesExit, StopGivesUp, StopReturns, GoTo
<1>2. Places' /\ target' \in 0 .. spawned
  BY <1>0 DEF Places, StopPlaces, Numbered, StopBegins, StopPicks, StopSeesExit, StopGivesUp, StopReturns,
       GoTo, IsRunning
<1>3. Flags' /\ Numbered' /\ MonitorsAgree' /\ OneLive'
  BY <1>0, <1>1, <1>2 DEF Flags, Numbered, MonitorsAgree, OneLive, Live, manager, daemon
<1>4. StopKnows'
  <2>1. CASE StopBegins
    BY <2>1 DEF StopKnows, StopBegins
  <2>2. CASE StopPicks
    BY <1>0, <1>1, <2>2, Idle DEF StopKnows, StopPicks, IsRunning, Live, manager
  <2>3. CASE StopSeesExit
    BY <1>0, <1>1, <2>3, Stopped DEF StopKnows, StopSeesExit, GoTo, Live, manager
  <2>4. CASE StopGivesUp
    BY <1>0, <1>1, <2>4 DEF StopKnows, StopGivesUp, GoTo, Live, manager, OneLive, Handles
  <2>5. CASE StopReturns
    BY <1>0, <1>1, <2>5 DEF StopKnows, StopReturns, Live, manager, Places
  <2> QED
    BY <2>1, <2>2, <2>3, <2>4, <2>5
<1> QED
  BY <1>2, <1>3, <1>4 DEF IInv

LEMMA EndingKeeps ==
  ASSUME IInv, Activated \/ EnterPrep \/ LoopEnds \/ ContextCloses
  PROVE  IInv'
<1>0. Flags /\ Places /\ Numbered /\ MonitorsAgree /\ OneLive /\ StopKnows
  BY DEF IInv
<1>1. /\ UNCHANGED <<running, transition, manager, monitor, target, manual>>
      /\ menuVisible' \in BOOLEAN /\ settling' \in BOOLEAN /\ prep' \in BOOLEAN
      /\ activeApp' \in 0 .. spawned
  <2>1. 0 \in 0 .. spawned /\ spawned \in 0 .. spawned /\ activeApp \in 0 .. spawned
    BY <1>0, ConstantsAssumption DEF Numbered
  <2> QED
    BY <1>0, <2>1 DEF Flags, Activated, EnterPrep, LoopEnds, ContextCloses, GoTo, daemon
<1>2. Places'
  BY <1>0 DEF Places, StopPlaces, Activated, EnterPrep, LoopEnds, ContextCloses, GoTo
<1>3. Flags' /\ Numbered' /\ MonitorsAgree' /\ OneLive'
  BY <1>0, <1>1 DEF Flags, Numbered, MonitorsAgree, OneLive, Live, manager
<1>4. StopKnows'
  BY <1>0, <1>1, Idle DEF StopKnows, Activated, EnterPrep, LoopEnds, ContextCloses, GoTo, Live, manager
<1> QED
  BY <1>2, <1>3, <1>4 DEF IInv

-----------------------------------------------------------------------------
(* Launching and killing                                                   *)

(* What is launched is alone: whatever ran before has ended. *)
LEMMA LaunchKeeps ==
  ASSUME IInv, Launch
  PROVE  IInv'
<1>0. Flags /\ Places /\ Numbered /\ MonitorsAgree /\ OneLive /\ StopKnows
  BY DEF IInv
<1> DEFINE h == spawned + 1
<1>1. /\ h \in Handles /\ spawned' = h /\ process' = h /\ spawned \in Nat
      /\ leader' = [leader EXCEPT ![h] = "running"]
      /\ leader[h] = "unborn" /\ monitor[h] = "none"
      /\ \A g \in Handles : ~ Live(g)
      /\ UNCHANGED <<daemon, doomed, target, manual>>
      /\ monitor' = monitor \/ monitor' = [monitor EXCEPT ![h] = "waiting"]
  BY <1>0, Idle, ConstantsAssumption DEF Launch, Numbered, Handles, GoTo
<1> HIDE DEF h
<1>2. Flags' /\ Places'
  BY <1>0, <1>1 DEF Flags, Places, StopPlaces, Launch, GoTo, AfterFailure, daemon
<1>3. /\ \A g \in Handles : g # h => leader'[g] = leader[g] /\ monitor'[g] = monitor[g]
      /\ leader'[h] = "running" /\ monitor'[h] \in {"none", "waiting"}
  BY <1>0, <1>1 DEF Numbered
<1>4. Numbered'
  <2>1. /\ leader' \in [Handles -> {"unborn", "running", "zombie", "reaped"}]
        /\ monitor' \in [Handles -> {"none", "waiting", "woken", "exited", "superseded",
                                     "asleep", "show", "flagged", "ending", "done"}]
    BY <1>0, <1>1 DEF Numbered
  <2>2. \A g \in Handles : g > h => leader'[g] = "unborn" /\ monitor'[g] = "none"
    BY <1>0, <1>1, <1>3 DEF Numbered, Handles, h
  <2>3. \A g \in 1 .. h : leader'[g] # "unborn"
    BY <1>0, <1>1, <1>3, ConstantsAssumption DEF Numbered, Handles, h
  <2>4. /\ spawned' \in 0 .. MaxLaunches /\ process' \in 0 .. spawned' /\ activeApp' \in 0 .. spawned'
        /\ target' \in 0 .. spawned' /\ doomed' \in SUBSET (1 .. spawned')
    BY <1>0, <1>1, ConstantsAssumption DEF Numbered, Handles, h, daemon
  <2> QED
    BY <1>1, <2>1, <2>2, <2>3, <2>4 DEF Numbered
<1>5. MonitorsAgree'
  <2>1. ASSUME NEW g \in Handles, g # h
        PROVE  /\ leader'[g] = "reaped" <=> monitor'[g] \notin {"none", "waiting"}
               /\ process' # g
    BY <1>0, <1>1, <1>3, <2>1 DEF MonitorsAgree
  <2> QED
    BY <1>1, <1>3, <2>1 DEF MonitorsAgree
<1>6. OneLive'
  BY <1>1, <1>3 DEF OneLive, Live
<1>7. StopKnows'
  BY DEF StopKnows, Launch, GoTo, AfterFailure
<1> QED
  BY <1>2, <1>4, <1>5, <1>6, <1>7 DEF IInv

LEMMA EscalatesKeeps ==
  ASSUME IInv, StopEscalates
  PROVE  IInv'
<1>0. Flags /\ Places /\ Numbered /\ MonitorsAgree /\ OneLive /\ StopKnows
  BY DEF IInv
<1>1. target \in 1 .. spawned /\ pc' = "killing"
  BY <1>0 DEF StopEscalates, StopKnows, Numbered, GoTo
<1>2. Flags' /\ Places'
  BY <1>0 DEF Flags, Places, StopPlaces, StopEscalates, GoTo, daemon
<1>3. Numbered' /\ MonitorsAgree' /\ OneLive'
  BY <1>0, <1>1 DEF StopEscalates, GoTo, Numbered, MonitorsAgree, OneLive, Live, daemon
<1>4. StopKnows'
  BY <1>0, <1>1 DEF StopEscalates, StopKnows, GoTo
<1> QED
  BY <1>2, <1>3, <1>4 DEF IInv

-----------------------------------------------------------------------------
(* show_menu(), in whatever thread                                         *)

LEMMA ShowKeeps ==
  ASSUME IInv, NEW t \in Threads, ShowMenu(t)
  PROVE  IInv'
<1>0. Flags /\ Places /\ Numbered /\ MonitorsAgree /\ OneLive /\ StopKnows
  BY DEF IInv
<1>1. /\ UNCHANGED <<running, manager>>
      /\ activeApp' \in {0, activeApp}
      /\ menuVisible' \in BOOLEAN /\ settling' \in BOOLEAN /\ prep' \in BOOLEAN /\ transition' \in BOOLEAN
  BY <1>0 DEF Flags, ShowMenu, ShowBegins, ShowAborts, ShowRenders, ShowFails, ShowEnds,
       TransitionAfterShow, daemon
<1>2. PICK from \in {"show", "flagged", "ending"}, to \in {"flagged", "ending", "idle"},
           next \in {"flagged", "ending", "done"} : At(t, from) /\ Move(t, to, next)
  BY DEF ShowMenu, ShowBegins, ShowAborts, ShowRenders, ShowFails, ShowEnds
<1>3. CASE t = 0
  <2>1. /\ pc \in {"show", "flagged", "ending"} /\ pc' \in {"flagged", "ending", "idle"}
        /\ press' = NoPress /\ after' \in {"none", after} /\ UNCHANGED <<target, manual, monitor>>
    BY <1>2, <1>3 DEF At, Move, GoTo
  <2>2. Flags' /\ Places'
    BY <1>0, <1>1, <2>1 DEF Flags, Places, StopPlaces
  <2>3. Numbered' /\ MonitorsAgree' /\ OneLive' /\ StopKnows'
    BY <1>0, <1>1, <2>1 DEF Numbered, MonitorsAgree, OneLive, Live, StopKnows, manager
  <2> QED
    BY <2>2, <2>3 DEF IInv
<1>4. CASE t # 0
  <2>1. /\ t \in Handles /\ monitor[t] \in {"show", "flagged", "ending"}
        /\ monitor' = [monitor EXCEPT ![t] = next] /\ UNCHANGED main
    BY <1>2, <1>4 DEF At, Move, Threads
  <2>2. Flags' /\ Places' /\ StopKnows'
    BY <1>0, <1>1, <2>1 DEF Flags, Places, StopKnows, Live, main, manager
  <2>3. t <= spawned /\ spawned \in Nat
    BY <1>0, <2>1 DEF Numbered, Handles
  <2>4. Numbered'
    BY <1>0, <1>1, <1>2, <2>1, <2>3 DEF Numbered, Handles, main, manager
  <2>5. MonitorsAgree' /\ OneLive'
    BY <1>0, <1>1, <1>2, <2>1 DEF Numbered, MonitorsAgree, OneLive, Live, manager
  <2> QED
    BY <2>2, <2>4, <2>5 DEF IInv
<1> QED
  BY <1>3, <1>4

-----------------------------------------------------------------------------
(* The monitors and the applications                                       *)

LEMMA MonitorKeeps ==
  ASSUME IInv, NEW h \in Handles, MonitorStep(h)
  PROVE  IInv'
<1>0. Flags /\ Places /\ Numbered /\ MonitorsAgree /\ OneLive /\ StopKnows
  BY DEF IInv
<1>1. UNCHANGED <<daemon, main, spawned, doomed>>
  BY DEF MonitorStep, MonitorWakes, MonitorClears, CallbackChecks, CallbackWakes, manager
<1>2. Flags' /\ Places'
  BY <1>0, <1>1 DEF Flags, Places, daemon, main
<1>3. monitor[h] # "none" /\ h <= spawned /\ h \in Nat /\ spawned \in Nat
  BY <1>0 DEF Numbered, Handles, MonitorStep, MonitorWakes, MonitorClears, CallbackChecks, CallbackWakes
<1>4. CASE MonitorWakes(h)
  <2>1. Numbered'
    BY <1>0, <1>1, <1>3, <1>4 DEF Numbered, MonitorWakes, Handles, daemon, main
  <2>2. MonitorsAgree'
    BY <1>0, <1>4 DEF Numbered, MonitorsAgree, MonitorWakes
  <2>3. OneLive' /\ StopKnows'
    BY <1>0, <1>1, <1>4 DEF Numbered, OneLive, StopKnows, Live, MonitorWakes, main
  <2> QED
    BY <1>2, <2>1, <2>2, <2>3 DEF IInv
<1>5. CASE MonitorClears(h)
  <2>1. leader' = leader /\ leader[h] = "reaped"
    BY <1>0, <1>5 DEF MonitorClears, MonitorsAgree
  <2>0. /\ process' \in {0, process} /\ (process = h => process' = 0)
        /\ monitor' \in {[monitor EXCEPT ![h] = "exited"], [monitor EXCEPT ![h] = "superseded"]}
    BY <1>5 DEF MonitorClears
  <2>2. Numbered'
    <3>1. process' \in 0 .. spawned
      BY <1>0, <1>3, <2>0 DEF Numbered
    <3> QED
      BY <1>0, <1>1, <1>3, <2>0, <2>1, <3>1 DEF Numbered, Handles, daemon, main
  <2>3. MonitorsAgree'
    <3>1. \A g \in Handles : g # 0
      BY DEF Handles
    <3>2. process' # h
      BY <2>0, <3>1
    <3>3. monitor'[h] \in {"exited", "superseded"} /\ \A g \in Handles : g # h => monitor'[g] = monitor[g]
      BY <1>0, <2>0 DEF Numbered
    <3> QED
      BY <1>0, <2>0, <2>1, <3>1, <3>2, <3>3 DEF MonitorsAgree
  <2>4. OneLive' /\ StopKnows'
    BY <1>0, <1>1, <1>5, <2>1 DEF Numbered, OneLive, StopKnows, Live, MonitorClears, main
  <2> QED
    BY <1>2, <2>2, <2>3, <2>4 DEF IInv
<1>6. CASE CallbackChecks(h) \/ CallbackWakes(h)
  <2>1. Numbered'
    BY <1>0, <1>1, <1>3, <1>6 DEF Numbered, CallbackChecks, CallbackWakes, Handles, daemon, main, manager
  <2>2. MonitorsAgree'
    BY <1>0, <1>6 DEF Numbered, MonitorsAgree, CallbackChecks, CallbackWakes, manager
  <2>3. OneLive' /\ StopKnows'
    BY <1>0, <1>1, <1>6 DEF OneLive, StopKnows, Live, CallbackChecks, CallbackWakes, main, manager
  <2> QED
    BY <1>2, <2>1, <2>2, <2>3 DEF IInv
<1> QED
  BY <1>4, <1>5, <1>6 DEF MonitorStep

LEMMA OthersKeep ==
  ASSUME IInv, (\E h \in Handles : AppExits(h)) \/ Settle \/ Shutdown \/ UNCHANGED vars
  PROVE  IInv'
<1>0. Flags /\ Places /\ Numbered /\ MonitorsAgree /\ OneLive /\ StopKnows
  BY DEF IInv
<1>1. CASE \E h \in Handles : AppExits(h)
  <2>1. PICK h \in Handles : AppExits(h)
    BY <1>1
  <2>2. /\ UNCHANGED <<daemon, main, process, spawned, doomed, monitor>>
        /\ leader[h] = "running" /\ leader' = [leader EXCEPT ![h] = "zombie"]
    BY <2>1 DEF AppExits, Live
  <2>3. Flags' /\ Places'
    BY <1>0, <2>2 DEF Flags, Places, daemon, main
  <2>4. Numbered'
    BY <1>0, <2>2 DEF Numbered, Handles, daemon, main
  <2>5. MonitorsAgree' /\ OneLive' /\ StopKnows'
    BY <1>0, <2>2 DEF Numbered, MonitorsAgree, OneLive, StopKnows, Live, main
  <2> QED
    BY <2>3, <2>4, <2>5 DEF IInv
<1>2. CASE Settle \/ Shutdown \/ UNCHANGED vars
  <2>1. UNCHANGED <<activeApp, main, manager, monitor>> /\ Flags'
    BY <1>0, <1>2 DEF Flags, Settle, Shutdown, vars, daemon, main
  <2>2. Places' /\ Numbered' /\ MonitorsAgree' /\ OneLive' /\ StopKnows'
    BY <1>0, <2>1 DEF Places, Numbered, MonitorsAgree, OneLive, StopKnows, Live, main, manager
  <2> QED
    BY <2>1, <2>2 DEF IInv
<1> QED
  BY <1>1, <1>2

-----------------------------------------------------------------------------
(* The theorems                                                            *)

LEMMA InitHolds == Init => IInv
<1> SUFFICES ASSUME Init PROVE IInv
  OBVIOUS
<1>1. Flags /\ Places
  BY DEF Init, Flags, Places, StopPlaces
<1>2. Numbered
  BY ConstantsAssumption DEF Init, Numbered, Handles
<1>3. MonitorsAgree /\ OneLive /\ StopKnows
  BY DEF Init, MonitorsAgree, OneLive, StopKnows, Live
<1> QED
  BY <1>1, <1>2, <1>3 DEF IInv

LEMMA StepKeeps == IInv /\ [Next]_vars => IInv'
<1> SUFFICES ASSUME IInv, [Next]_vars PROVE IInv'
  OBVIOUS
<1>1. CASE Handler
  BY <1>1, HandlerKeeps
<1>2. CASE Activation
  BY <1>2, HandlerKeeps, LaunchKeeps, EndingKeeps DEF Activation
<1>3. CASE Stopping
  BY <1>3, StoppingKeeps, EscalatesKeeps, EndingKeeps DEF Stopping
<1>4. CASE \E t \in Threads : ShowMenu(t)
  BY <1>4, ShowKeeps
<1>5. CASE \E h \in Handles : MonitorStep(h)
  BY <1>5, MonitorKeeps
<1>6. CASE (\E h \in Handles : AppExits(h)) \/ Settle \/ Shutdown \/ UNCHANGED vars
  BY <1>6, OthersKeep
<1>7. CASE LoopEnds \/ ContextCloses
  BY <1>7, EndingKeeps
<1> QED
  BY <1>1, <1>2, <1>3, <1>4, <1>5, <1>6, <1>7 DEF Next

(* The inductive invariant holds in every reachable state. *)
THEOREM Invariant == Spec => []IInv
<1> QED
  BY InitHolds, StepKeeps, PTL DEF Spec

(* The types of the daemon's flags and threads; a manual stop and its      *)
(* target are in progress only while the main thread is inside stop().     *)
THEOREM TypeCorrect == Spec => []TypeOK
<1>1. IInv => TypeOK
  <2> SUFFICES ASSUME IInv PROVE TypeOK
    OBVIOUS
  <2>1. {running, menuVisible, settling, transition, manual, prep} \subseteq BOOLEAN
    BY Zenon DEF IInv, Flags
  <2>2. {activeApp, target, process, spawned} \subseteq 0 .. MaxLaunches
    BY ConstantsAssumption DEF IInv, Numbered
  <2> QED
    BY <2>1, <2>2 DEF IInv, Places, StopPlaces, Numbered, TypeOK
<1> QED
  BY <1>1, Invariant, PTL

(* run() and context.close(): a daemon that ended has left no application  *)
(* that was not sent SIGKILL.                                              *)
THEOREM NothingLeft == Spec => []ShutdownLeavesNothing
<1>1. IInv => ShutdownLeavesNothing
  BY DEF IInv, StopKnows, ShutdownLeavesNothing, Alive
<1> QED
  BY <1>1, Invariant, PTL

-----------------------------------------------------------------------------
(* The refinement                                                          *)

(* The abstract slot, as the instance names it. *)
Lives == {h \in Handles : Live(h)}
Told  == [h \in Handles |->
            IF monitor[h] \in {"none", "waiting", "woken", "exited", "superseded"} THEN 0 ELSE 1]

LEMMA InitMaps == Init => Slot!Init
BY ConstantsAssumption DEF Init, Slot!Init, Slot!Runs, Live, Handles

(* A step that starts, ends, reaps or announces nothing is a stutter. *)
LEMMA Stutters ==
  ASSUME UNCHANGED <<spawned, process>>,
         \A h \in Handles : Live(h)' = Live(h),
         Told' = Told
  PROVE  UNCHANGED Slot!vars
BY DEF Told, Slot!vars

LEMMA QuietStutters ==
  ASSUME IInv,
         \/ Handler \/ Stopping \/ Settle \/ Shutdown \/ LoopEnds \/ ContextCloses \/ UNCHANGED vars
         \/ OpenFails \/ HideMenu \/ LaunchRefused \/ LaunchFails \/ LaunchBound \/ Activated
  PROVE  UNCHANGED Slot!vars
<1>1. UNCHANGED <<process, spawned, leader, monitor>>
  BY DEF Handler, Press, RouteForward, RouteOpen, RouteNothingToStop, RouteStop, RoutePrep,
       Stopping, StopBegins, StopPicks, StopSeesExit, StopEscalates, StopGivesUp, StopReturns,
       EnterPrep, Settle, Shutdown, LoopEnds, ContextCloses, OpenFails, HideMenu, LaunchRefused,
       LaunchFails, LaunchBound, Activated, vars, manager
<1> QED
  BY <1>1, Stutters DEF Told, Live

LEMMA ShowStutters ==
  ASSUME IInv, NEW t \in Threads, ShowMenu(t)
  PROVE  UNCHANGED Slot!vars
<1>1. UNCHANGED <<process, spawned, leader>>
  BY DEF ShowMenu, ShowBegins, ShowAborts, ShowRenders, ShowFails, ShowEnds, manager
<1>2. Told' = Told
  <2>1. CASE t = 0
    BY <2>1 DEF Told, ShowMenu, ShowBegins, ShowAborts, ShowRenders, ShowFails, ShowEnds, Move
  <2>2. CASE t # 0
    <3>1. PICK next \in {"flagged", "ending", "done"} :
            /\ monitor[t] \in {"show", "flagged", "ending"}
            /\ monitor' = [monitor EXCEPT ![t] = next]
      BY <2>2 DEF ShowMenu, ShowBegins, ShowAborts, ShowRenders, ShowFails, ShowEnds, Move, At
    <3>2. monitor \in [Handles -> {"none", "waiting", "woken", "exited", "superseded",
                                   "asleep", "show", "flagged", "ending", "done"}]
      BY DEF IInv, Numbered
    <3>3. \A h \in Handles : h # t => monitor'[h] = monitor[h]
      BY <3>1, <3>2
    <3>4. t \in Handles => monitor'[t] \in {"flagged", "ending", "done"}
      BY <3>1, <3>2
    <3> QED
      BY <3>1, <3>3, <3>4 DEF Told
  <2> QED
    BY <2>1, <2>2
<1> QED
  BY <1>1, <1>2, Stutters DEF Live

LEMMA LaunchStarts ==
  ASSUME IInv, Launch
  PROVE  Slot!Start
<1>1. /\ Numbered /\ OneLive
      /\ monitor[spawned + 1] = "none"
      /\ spawned + 1 \in Handles
  BY ConstantsAssumption DEF IInv, Launch, Numbered, Handles
<1>2. {h \in Handles : Live(h)} = {}
  BY <1>1, Idle DEF Launch
<1>3. {h \in Handles : Live(h)}' = {spawned + 1}
  BY <1>1, <1>2 DEF Launch, Live, Numbered
<1>4. Told' = Told
  BY <1>1 DEF Launch, Numbered, Told
<1> QED
  BY <1>1, <1>2, <1>3, <1>4 DEF Slot!Start, Launch, Told

(* Only its own monitor frees the slot, and only an application that it    *)
(* has seen to end and forgotten is announced.                             *)
LEMMA MonitorMaps ==
  ASSUME IInv, NEW h \in Handles, MonitorStep(h) \/ AppExits(h)
  PROVE  Slot!Vacate \/ Slot!End(h) \/ Slot!Announce(h) \/ UNCHANGED Slot!vars
<1>0. Numbered /\ MonitorsAgree
  BY DEF IInv
<1>1. CASE MonitorWakes(h)
  <2>1. Told' = Told
    BY <1>0, <1>1 DEF MonitorWakes, Numbered, Told
  <2>2. \A g \in Handles : Live(g)' = Live(g)
    BY <1>0, <1>1 DEF MonitorWakes, Numbered, Live
  <2> QED
    BY <1>1, <2>1, <2>2, Stutters DEF MonitorWakes
<1>2. CASE MonitorClears(h)
  <2>1. Told' = Told
    BY <1>0, <1>2 DEF MonitorClears, Numbered, Told
  <2>2. \A g \in Handles : Live(g)' = Live(g)
    BY <1>2 DEF MonitorClears, Live
  <2>3. CASE process = h
    <3>1. h # 0 /\ ~ Live(h)
      BY <1>0, <1>2, <2>3 DEF MonitorClears, MonitorsAgree, Handles, Live
    <3>2. {g \in Handles : Live(g)}' = {g \in Handles : Live(g)}
      BY <2>2
    <3> QED
      BY <1>2, <2>1, <2>3, <3>1, <3>2 DEF Slot!Vacate, MonitorClears, Told
  <2>4. CASE process # h
    BY <1>2, <2>1, <2>2, <2>4, Stutters DEF MonitorClears
  <2> QED
    BY <2>3, <2>4
<1>3. CASE CallbackChecks(h)
  <2>1. monitor[h] = "exited" /\ monitor' \in {[monitor EXCEPT ![h] = "done"], [monitor EXCEPT ![h] = "asleep"]}
    BY <1>3 DEF CallbackChecks
  <2>2. Told[h] = 0 /\ Told' = [Told EXCEPT ![h] = 1]
    BY <1>0, <2>1 DEF Numbered, Told
  <2>3. h \in 1 .. spawned /\ ~ Live(h) /\ h # process
    BY <1>0, <2>1 DEF Numbered, MonitorsAgree, Handles, Live
  <2>4. UNCHANGED <<spawned, process, leader>>
    BY <1>3 DEF CallbackChecks, manager
  <2>5. {g \in Handles : Live(g)}' = {g \in Handles : Live(g)}
    BY <2>4 DEF Live
  <2> QED
    BY <2>2, <2>3, <2>4, <2>5 DEF Slot!Announce, Told
<1>4. CASE CallbackWakes(h)
  <2>1. Told' = Told
    BY <1>0, <1>4 DEF CallbackWakes, Numbered, Told
  <2> QED
    BY <1>4, <2>1, Stutters DEF CallbackWakes, Live, manager
<1>5. CASE AppExits(h)
  <2>1. {g \in Handles : Live(g)}' = {g \in Handles : Live(g)} \ {h}
    BY <1>0, <1>5 DEF AppExits, Live, Numbered
  <2> QED
    BY <1>5, <2>1 DEF Slot!End, AppExits
<1> QED
  BY <1>1, <1>2, <1>3, <1>4, <1>5 DEF MonitorStep

(* The daemon implements ForegroundSlot: it launches only beside dead      *)
(* applications, and the end of each is handled at most once, after it.    *)
THEOREM ImplementsSlot == Spec => SlotSpec
<1>1. IInv /\ [Next]_vars => [Slot!Next]_(Slot!vars)
  <2> SUFFICES ASSUME IInv, [Next]_vars PROVE Slot!Next \/ UNCHANGED Slot!vars
    OBVIOUS
  <2>1. CASE \E h \in Handles : MonitorStep(h) \/ AppExits(h)
    BY <2>1, MonitorMaps DEF Slot!Next, Slot!Runs, Handles
  <2>2. CASE Launch
    BY <2>2, LaunchStarts DEF Slot!Next
  <2>3. CASE \E t \in Threads : ShowMenu(t)
    BY <2>3, ShowStutters
  <2>4. CASE ~ \/ \E h \in Handles : MonitorStep(h) \/ AppExits(h)
               \/ Launch
               \/ \E t \in Threads : ShowMenu(t)
    BY <2>4, QuietStutters DEF Next, Activation
  <2> QED
    BY <2>1, <2>2, <2>3, <2>4
<1> QED
  BY <1>1, InitMaps, Invariant, PTL DEF Spec, SlotSpec, Slot!Spec

(* What the abstract slot keeps: what runs owns it, and what was announced *)
(* is an earlier run.                                                      *)
SlotInv(n, s, l, a) ==
  /\ n \in 0 .. MaxLaunches /\ s \in 0 .. n
  /\ l \subseteq {s} \ {0}
  /\ a \in [1 .. MaxLaunches -> {0, 1}]
  /\ \A r \in 1 .. MaxLaunches : a[r] = 1 => r <= n /\ r # s

LEMMA SlotKeeps ==
  ASSUME NEW n, NEW s, NEW l, NEW a, SlotInv(n, s, l, a), NEW n2, NEW s2, NEW l2, NEW a2,
         \/ /\ n < MaxLaunches /\ n2 = n + 1 /\ s2 = n + 1 /\ l2 = {n + 1} /\ a2 = a
         \/ n2 = n /\ s2 = s /\ a2 = a /\ l2 \subseteq l
         \/ s \notin l /\ s2 = 0 /\ n2 = n /\ l2 = l /\ a2 = a
         \/ \E r \in 1 .. n : r # s /\ a2 = [a EXCEPT ![r] = 1] /\ n2 = n /\ s2 = s /\ l2 = l
         \/ s2 = 0 /\ l2 = {} /\ n2 = n /\ a2 = a
  PROVE  SlotInv(n2, s2, l2, a2)
<1>1. MaxLaunches \in Nat /\ n \in 0 .. MaxLaunches /\ s \in 0 .. n /\ l \subseteq {s} \ {0}
      /\ a \in [1 .. MaxLaunches -> {0, 1}] /\ \A r \in 1 .. MaxLaunches : a[r] = 1 => r <= n /\ r # s
  BY ConstantsAssumption DEF SlotInv
<1>2. CASE n < MaxLaunches /\ n2 = n + 1 /\ s2 = n + 1 /\ l2 = {n + 1} /\ a2 = a
  <2>1. n2 \in 0 .. MaxLaunches /\ s2 \in 0 .. n2 /\ l2 \subseteq {s2} \ {0}
    BY <1>1, <1>2
  <2>2. \A r \in 1 .. MaxLaunches : a[r] = 1 => r <= n2 /\ r # s2
    BY <1>1, <1>2
  <2> QED
    BY <1>1, <1>2, <2>1, <2>2 DEF SlotInv
<1>3. CASE n2 = n /\ s2 = s /\ a2 = a /\ l2 \subseteq l
  <2>1. l2 \subseteq {s2} \ {0}
    BY <1>1, <1>3
  <2> QED
    BY <1>1, <1>3, <2>1 DEF SlotInv
<1>4. CASE s \notin l /\ s2 = 0 /\ n2 = n /\ l2 = l /\ a2 = a
  <2>1. l2 \subseteq {s2} \ {0} /\ s2 \in 0 .. n2
    BY <1>1, <1>4
  <2>2. \A r \in 1 .. MaxLaunches : a[r] = 1 => r <= n2 /\ r # s2
    BY <1>1, <1>4
  <2> QED
    BY <1>1, <1>4, <2>1, <2>2 DEF SlotInv
<1>5. CASE \E r \in 1 .. n : r # s /\ a2 = [a EXCEPT ![r] = 1] /\ n2 = n /\ s2 = s /\ l2 = l
  <2>1. PICK r \in 1 .. n : r # s /\ a2 = [a EXCEPT ![r] = 1] /\ n2 = n /\ s2 = s /\ l2 = l
    BY <1>5
  <2>2. a2 \in [1 .. MaxLaunches -> {0, 1}]
    BY <1>1, <2>1
  <2>3. \A q \in 1 .. MaxLaunches : a2[q] = 1 => q = r \/ a[q] = 1
    BY <1>1, <2>1
  <2>4. \A q \in 1 .. MaxLaunches : a2[q] = 1 => q <= n /\ q # s
    BY <1>1, <2>1, <2>3
  <2> QED
    BY <1>1, <2>1, <2>2, <2>4 DEF SlotInv
<1>6. CASE s2 = 0 /\ l2 = {} /\ n2 = n /\ a2 = a
  <2>1. l2 \subseteq {s2} \ {0} /\ s2 \in 0 .. n2
    BY <1>1, <1>6
  <2>2. \A r \in 1 .. MaxLaunches : a[r] = 1 => r <= n2 /\ r # s2
    BY <1>1, <1>6
  <2> QED
    BY <1>1, <1>6, <2>1, <2>2 DEF SlotInv
<1> QED
  BY <1>2, <1>3, <1>4, <1>5, <1>6

LEMMA SlotInvStep ==
  ASSUME SlotInv(spawned, process, Lives, Told), Slot!Next \/ UNCHANGED Slot!vars
  PROVE  SlotInv(spawned, process, Lives, Told)'
<1>1. PICK l : l = Lives
  OBVIOUS
<1>2. PICK k : k = Lives'
  OBVIOUS
<1>3. PICK a : a = Told
  OBVIOUS
<1>4. PICK b : b = Told'
  OBVIOUS
<1>5. SlotInv(spawned, process, l, a)
  BY <1>1, <1>3
<1>6. \/ /\ spawned < MaxLaunches /\ spawned' = spawned + 1 /\ process' = spawned + 1 /\ k = {spawned + 1} /\ b = a
      \/ spawned' = spawned /\ process' = process /\ b = a /\ k \subseteq l
      \/ process \notin l /\ process' = 0 /\ spawned' = spawned /\ k = l /\ b = a
      \/ \E r \in 1 .. spawned : /\ r # process /\ b = [a EXCEPT ![r] = 1] /\ spawned' = spawned
                                 /\ process' = process /\ k = l
      \/ process' = 0 /\ k = {} /\ spawned' = spawned /\ b = a
  BY <1>1, <1>2, <1>3, <1>4
     DEF Slot!Next, Slot!vars, Slot!Start, Slot!Vacate, Slot!Forget, Slot!End, Slot!Announce, Slot!Runs, Lives, Told
<1>7. SlotInv(spawned', process', k, b)
  BY <1>5, <1>6, SlotKeeps
<1> QED
  BY <1>2, <1>4, <1>7 DEF SlotInv

(* The promise of the abstract slot, kept here: two applications never run *)
(* at once, and the end of each is handled at most once and after it.        *)
THEOREM PromiseKept == Spec => []Slot!Promise
<1>1. Slot!Init => SlotInv(spawned, process, Lives, Told)
  BY ConstantsAssumption DEF Slot!Init, Slot!Runs, SlotInv, Lives, Told
<1>2. SlotInv(spawned, process, Lives, Told) /\ [Slot!Next]_(Slot!vars)
        => SlotInv(spawned, process, Lives, Told)'
  BY SlotInvStep
<1>3. SlotInv(spawned, process, Lives, Told) => Slot!Promise
  BY ConstantsAssumption DEF SlotInv, Slot!Promise, Slot!Runs, Lives, Told
<1> QED
  BY <1>1, <1>2, <1>3, ImplementsSlot, PTL DEF SlotSpec, Slot!Spec

=============================================================================
