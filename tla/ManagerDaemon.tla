--------------------------- MODULE ManagerDaemon ---------------------------
(***************************************************************************)
(* manager/daemon.py, class ManagerDaemon: the launcher, the two buttons   *)
(* and the foreground application.  The main thread handles one press at a *)
(* time and is the only caller of the ApplicationManager; the monitor      *)
(* thread of every application calls _handle_application_exit.  Both run   *)
(* show_menu(), and only what they do under _state_lock is one step.       *)
(*                                                                         *)
(* The manager is reduced to what the daemon can see of it (process, one   *)
(* monitor per application, the escalation of stop()); ApplicationManager  *)
(* .tla is the whole of it, and both implement ForegroundSlot.  The        *)
(* applications are plain ones: the resident displays (pwnagotchi,         *)
(* tesserae, ragnar), which systemd runs, are not in this module.          *)
(***************************************************************************)
EXTENDS Naturals, FiniteSets

CONSTANTS
  MaxLaunches,    \* bound: applications started over a behaviour
  CloseOutcomes,  \* what menu.close() may do in hide_menu(): "ok", "raises"
  Faults          \* which of "render", "launch", "record" may fail

ASSUME ConstantsAssumption ==
  /\ MaxLaunches \in Nat
  /\ CloseOutcomes \subseteq {"ok", "raises"}
  /\ Faults \subseteq {"render", "launch", "record"}

Handles == 1 .. MaxLaunches
Keys    == {"navigate", "select"}
Holds   == {"short", "long", "verylong"}

NoPress == [key |-> "none", hold |-> "none"]
Presses == [key : Keys, hold : Holds]

VARIABLES
  running,     \* self.running
  menuVisible, \* self.menu_visible
  activeApp,   \* self.active_app_id, as the handle launched for it; 0: None
  settling,    \* the active display has not settled yet
  transition,  \* self._menu_transition_in_progress
  manual,      \* self._manual_stop_in_progress
  prep,        \* released for hardware preparation
  pc,          \* where the main thread is
  press,       \* the ButtonEvent it is handling
  after,       \* what it does when _stop_active_application() returned
  target,      \* the Popen stop() works on
  process,     \* the manager's _process
  spawned,     \* applications spawned so far
  leader,      \* the process of each application
  doomed,      \* the applications that were sent SIGKILL
  monitor      \* where the monitor thread of each application is

daemon  == <<running, menuVisible, activeApp, settling, transition, prep>>
main    == <<pc, press, after, target, manual>>
manager == <<process, spawned, leader, doomed>>
vars    == <<daemon, main, manager, monitor>>

Init ==
  /\ running = TRUE
  /\ menuVisible = TRUE
  /\ activeApp = 0
  /\ settling = FALSE
  /\ transition = FALSE
  /\ manual = FALSE
  /\ prep = FALSE
  /\ pc = "show"
  /\ press = NoPress
  /\ after = "none"
  /\ target = 0
  /\ process = 0
  /\ spawned = 0
  /\ leader = [h \in Handles |-> "unborn"]
  /\ doomed = {}
  /\ monitor = [h \in Handles |-> "none"]

(* Popen.poll() # None; the monitor's wait() owns the reaping if there is  *)
(* a monitor.                                                              *)
Polled(h) ==
  \/ leader[h] = "reaped"
  \/ leader[h] = "zombie" /\ monitor[h] = "none"

IsRunning == process # 0 /\ ~Polled(process)

(* _app_is_running(): a visible launcher counts as no application. *)
AppIsRunning == ~menuVisible /\ IsRunning

Live(h) == leader[h] = "running"

(* A handler keeps its event until it shows the launcher or returns, and   *)
(* what it stopped the application for until it returns.                   *)
GoTo(place) ==
  /\ pc' = place
  /\ press' = IF place \in {"opening", "launching"} THEN press ELSE NoPress
  /\ after' = IF place = "idle" THEN "none" ELSE after
  /\ UNCHANGED <<target, manual>>

-----------------------------------------------------------------------------
(* Button handlers: handle_navigation() and handle_select()                *)

(* A failed activation: handle_select() shows the launcher with a message, *)
(* handle_navigation() only logs.                                          *)
AfterFailure == IF press.key = "select" THEN "show" ELSE "idle"

(* Mutant of Destination: no recovery of a hidden launcher. *)
NoRecovery == "route"

(* A hidden launcher with nothing running is brought back first. *)
Destination == IF ~menuVisible /\ ~AppIsRunning THEN "show" ELSE "route"

(* The checks at the head of both handlers.  Presses that are dropped here *)
(* change nothing.                                                         *)
Press(p) ==
  /\ pc = "idle" /\ running
  /\ ~transition
  /\ ~(settling /\ ~menuVisible /\ activeApp # 0 /\ p.hold # "verylong"
        /\ AppIsRunning)
  /\ press' = p
  /\ pc' = Destination
  /\ UNCHANGED <<daemon, after, target, manual, manager, monitor>>

(* A short press moves the selection or is forwarded to the application; a *)
(* long one is forwarded when the launcher is hidden.                      *)
RouteForward ==
  /\ pc = "route"
  /\ press.hold = "short" \/ (press.hold = "long" /\ ~menuVisible)
  /\ GoTo("idle")
  /\ UNCHANGED <<daemon, manager, monitor>>

(* A long press on a launcher item: _activate_selected_menu_item(). *)
RouteOpen ==
  /\ pc = "route"
  /\ press.hold = "long" /\ menuVisible
  /\ GoTo("opening")
  /\ UNCHANGED <<daemon, manager, monitor>>

(* "No application running" *)
RouteNothingToStop ==
  /\ pc = "route"
  /\ press.hold = "verylong" /\ menuVisible
  /\ GoTo("show")
  /\ UNCHANGED <<daemon, manager, monitor>>

(* handle_navigation() stops only what runs, handle_select() anyway. *)
RouteStop ==
  /\ pc = "route"
  /\ press.hold = "verylong" /\ ~menuVisible
  /\ IF press.key = "select" \/ AppIsRunning
     THEN pc' = "stop" /\ after' = "show"
     ELSE pc' = "idle" /\ UNCHANGED after
  /\ press' = NoPress
  /\ UNCHANGED <<daemon, target, manual, manager, monitor>>

(* The active application had asked for hardware preparation. *)
RoutePrep ==
  /\ pc = "route"
  /\ press.hold = "verylong" /\ ~menuVisible
  /\ activeApp # 0
  /\ pc' = "stop"
  /\ after' = "prep"
  /\ press' = NoPress
  /\ UNCHANGED <<daemon, target, manual, manager, monitor>>

-----------------------------------------------------------------------------
(* _activate_service()                                                     *)

(* menu.render("Starting ...") or the mode change before it raises. *)
OpenFails ==
  /\ pc = "opening"
  /\ "render" \in Faults
  /\ GoTo(AfterFailure)
  /\ UNCHANGED <<daemon, manager, monitor>>

(* hide_menu(): the flag first, menu.close() last and unprotected. *)
HideMenu ==
  /\ pc = "opening"
  /\ menuVisible' = FALSE
  /\ \E outcome \in IF menuVisible THEN CloseOutcomes ELSE {"ok"} :
       GoTo(IF outcome = "ok" THEN "launching" ELSE AfterFailure)
  /\ UNCHANGED <<running, activeApp, settling, transition, prep, manager,
                 monitor>>

(* Mutant of AfterRefusal: show the launcher whatever is running. *)
ShowAnyway == "show"

(* ApplicationAlreadyRunning: handle_select() redraws a visible launcher. *)
AfterRefusal == IF menuVisible THEN AfterFailure ELSE "idle"

LaunchRefused ==
  /\ pc = "launching"
  /\ IsRunning
  /\ GoTo(AfterRefusal)
  /\ UNCHANGED <<daemon, manager, monitor>>

LaunchFails ==
  /\ pc = "launching"
  /\ ~IsRunning
  /\ "launch" \in Faults
  /\ GoTo(AfterFailure)
  /\ UNCHANGED <<daemon, manager, monitor>>

(* launch(); with a fault "record" the process runs, unmonitored, but the  *)
(* call raises.                                                            *)
Launch ==
  LET h == spawned + 1 IN
  /\ pc = "launching"
  /\ ~IsRunning
  /\ spawned < MaxLaunches
  /\ spawned' = h
  /\ process' = h
  /\ leader' = [leader EXCEPT ![h] = "running"]
  /\ \/ monitor' = [monitor EXCEPT ![h] = "waiting"] /\ GoTo("launched")
     \/ "record" \in Faults /\ UNCHANGED monitor /\ GoTo(AfterFailure)
  /\ UNCHANGED <<daemon, doomed>>

(* Past the bound an activation counts as a failed one. *)
LaunchBound ==
  /\ pc = "launching"
  /\ ~IsRunning
  /\ spawned = MaxLaunches
  /\ GoTo(AfterFailure)
  /\ UNCHANGED <<daemon, manager, monitor>>

Activated ==
  /\ pc = "launched"
  /\ activeApp' = spawned
  /\ settling' = TRUE
  /\ GoTo("idle")
  /\ UNCHANGED <<running, menuVisible, transition, prep, manager, monitor>>

(* RESIDENT_DISPLAY_SETTLE_SECONDS passed. *)
Settle ==
  /\ settling
  /\ settling' = FALSE
  /\ UNCHANGED <<running, menuVisible, activeApp, transition, prep, main,
                 manager, monitor>>

-----------------------------------------------------------------------------
(* _stop_active_application() and, inside it, ApplicationManager.stop()    *)

StopBegins ==
  /\ pc = "stop"
  /\ manual' = TRUE
  /\ pc' = "picking"
  /\ UNCHANGED <<daemon, press, after, target, manager, monitor>>

StopPicks ==
  /\ pc = "picking"
  /\ IF IsRunning
     THEN /\ pc' = "terminating"
          /\ target' = process
     ELSE pc' = "stopped" /\ UNCHANGED target
  /\ UNCHANGED <<daemon, press, after, manual, manager, monitor>>

StopSeesExit ==
  /\ pc \in {"terminating", "killing"}
  /\ Polled(target)
  /\ GoTo("stopped")
  /\ UNCHANGED <<daemon, manager, monitor>>

StopEscalates ==
  /\ pc = "terminating"
  /\ ~Polled(target)
  /\ doomed' = doomed \cup {target}
  /\ GoTo("killing")
  /\ UNCHANGED <<daemon, process, spawned, leader, monitor>>

StopGivesUp ==
  /\ pc = "killing"
  /\ ~Polled(target)
  /\ GoTo("stopped")
  /\ UNCHANGED <<daemon, manager, monitor>>

StopReturns ==
  /\ pc = "stopped"
  /\ manual' = FALSE
  /\ target' = 0
  /\ pc' = after
  /\ UNCHANGED <<daemon, press, after, manager, monitor>>

(* The rest of _enter_isp_prep_mode(). *)
EnterPrep ==
  /\ pc = "prep"
  /\ menuVisible' = FALSE
  /\ activeApp' = 0
  /\ settling' = FALSE
  /\ prep' = TRUE
  /\ GoTo("idle")
  /\ UNCHANGED <<running, transition, manager, monitor>>

-----------------------------------------------------------------------------
(* show_menu(), by the main thread (t = 0) or by a monitor thread (t = h)  *)

Threads == {0} \cup Handles

At(t, place) == IF t = 0 THEN pc = place ELSE monitor[t] = place

Move(t, mainPlace, monitorPlace) ==
  IF t = 0
  THEN GoTo(mainPlace) /\ UNCHANGED monitor
  ELSE monitor' = [monitor EXCEPT ![t] = monitorPlace] /\ UNCHANGED main

(* The daemon process exists as long as its main thread. *)
Alive == pc # "ended"

ShowBegins(t) ==
  /\ Alive /\ At(t, "show")
  /\ transition' = TRUE
  /\ Move(t, "flagged", "flagged")
  /\ UNCHANGED <<running, menuVisible, activeApp, settling, prep, manager>>

(* The locked part; a daemon that is stopping only leaves. *)
ShowAborts(t) ==
  /\ Alive /\ At(t, "flagged")
  /\ ~running
  /\ Move(t, "ending", "ending")
  /\ UNCHANGED <<daemon, manager>>

ShowRenders(t) ==
  /\ Alive /\ At(t, "flagged")
  /\ running
  /\ prep' = FALSE
  /\ menuVisible' = TRUE
  /\ activeApp' = 0
  /\ settling' = FALSE
  /\ Move(t, "ending", "ending")
  /\ UNCHANGED <<running, transition, manager>>

ShowFails(t) ==
  /\ Alive /\ At(t, "flagged")
  /\ running
  /\ "render" \in Faults
  /\ prep' = FALSE
  /\ menuVisible' = FALSE
  /\ Move(t, "ending", "ending")
  /\ UNCHANGED <<running, activeApp, settling, transition, manager>>

(* Mutant of TransitionAfterShow: cleared only behind a drawn launcher. *)
ClearedIfDrawn == transition /\ ~menuVisible

TransitionAfterShow == FALSE

ShowEnds(t) ==
  /\ Alive /\ At(t, "ending")
  /\ transition' = TransitionAfterShow
  /\ Move(t, "idle", "done")
  /\ UNCHANGED <<running, menuVisible, activeApp, settling, prep, manager>>

-----------------------------------------------------------------------------
(* The monitor threads, and _handle_application_exit() called from them    *)

MonitorWakes(h) ==
  /\ Alive
  /\ monitor[h] = "waiting"
  /\ leader[h] = "zombie"
  /\ leader' = [leader EXCEPT ![h] = "reaped"]
  /\ monitor' = [monitor EXCEPT ![h] = "woken"]
  /\ UNCHANGED <<daemon, main, process, spawned, doomed>>

(* Mutant of MonitorClears: no generation check. *)
MonitorClearsAny(h) ==
  /\ Alive
  /\ monitor[h] = "woken"
  /\ process' = 0
  /\ monitor' = [monitor EXCEPT ![h] = "exited"]
  /\ UNCHANGED <<daemon, main, spawned, leader, doomed>>

(* Superseded by a newer launch, or the manager forgets the application. *)
MonitorClears(h) ==
  /\ Alive
  /\ monitor[h] = "woken"
  /\ IF process = h
     THEN process' = 0 /\ monitor' = [monitor EXCEPT ![h] = "exited"]
     ELSE UNCHANGED process /\ monitor' = [monitor EXCEPT ![h] = "superseded"]
  /\ UNCHANGED <<daemon, main, spawned, leader, doomed>>

(* "The long-press handler will restore the menu itself." *)
CallbackDefers == ~running \/ manual \/ menuVisible

CallbackChecks(h) ==
  /\ Alive
  /\ monitor[h] = "exited"
  /\ monitor' = [monitor EXCEPT ![h] = IF CallbackDefers THEN "done"
                                       ELSE "asleep"]
  /\ UNCHANGED <<daemon, main, manager>>

(* The sleep is over; the exit is published and show_menu() called. *)
CallbackWakes(h) ==
  /\ Alive
  /\ monitor[h] = "asleep"
  /\ monitor' = [monitor EXCEPT ![h] = "show"]
  /\ UNCHANGED <<daemon, main, manager>>

-----------------------------------------------------------------------------
(* The applications, and the end of the daemon                             *)

AppExits(h) ==
  /\ Alive
  /\ Live(h)
  /\ leader' = [leader EXCEPT ![h] = "zombie"]
  /\ UNCHANGED <<daemon, main, process, spawned, doomed, monitor>>

(* SIGTERM or SIGINT: shutdown(). *)
Shutdown ==
  /\ Alive /\ running
  /\ running' = FALSE
  /\ UNCHANGED <<menuVisible, activeApp, settling, transition, prep, main,
                 manager, monitor>>

(* Mutant of LoopEnds: close without stopping the application. *)
LoopEndsAtOnce ==
  /\ pc = "idle" /\ ~running
  /\ pc' = "ended"
  /\ UNCHANGED <<daemon, press, after, target, manual, manager,
                 monitor>>

(* run() leaves the button loop and stops what still runs. *)
LoopEnds ==
  /\ pc = "idle" /\ ~running
  /\ IF IsRunning
     THEN pc' = "stop" /\ after' = "closing"
     ELSE pc' = "closing" /\ UNCHANGED after
  /\ UNCHANGED <<daemon, press, target, manual, manager, monitor>>

(* context.close(): the manager's close() is one more stop(). *)
ContextCloses ==
  /\ pc = "closing"
  /\ IF IsRunning
     THEN pc' = "picking" /\ after' = "ended"
     ELSE pc' = "ended" /\ UNCHANGED after
  /\ UNCHANGED <<daemon, press, target, manual, manager, monitor>>

-----------------------------------------------------------------------------
Handler ==
  \/ \E p \in Presses : Press(p)
  \/ RouteForward
  \/ RouteOpen
  \/ RouteNothingToStop
  \/ RouteStop
  \/ RoutePrep

Activation ==
  \/ OpenFails
  \/ HideMenu
  \/ LaunchRefused
  \/ LaunchFails
  \/ Launch
  \/ LaunchBound
  \/ Activated

Stopping ==
  \/ StopBegins
  \/ StopPicks
  \/ StopSeesExit
  \/ StopEscalates
  \/ StopGivesUp
  \/ StopReturns
  \/ EnterPrep

ShowMenu(t) ==
  \/ ShowBegins(t)
  \/ ShowAborts(t)
  \/ ShowRenders(t)
  \/ ShowFails(t)
  \/ ShowEnds(t)

MonitorStep(h) ==
  \/ MonitorWakes(h)
  \/ MonitorClears(h)
  \/ CallbackChecks(h)
  \/ CallbackWakes(h)

Next ==
  \/ Handler
  \/ Activation
  \/ Stopping
  \/ \E t \in Threads : ShowMenu(t)
  \/ \E h \in Handles : MonitorStep(h) \/ AppExits(h)
  \/ Settle
  \/ Shutdown
  \/ LoopEnds
  \/ ContextCloses

Spec == Init /\ [][Next]_vars

(***************************************************************************)
(* Threads keep running and timers end.  Press alone is up to the user.    *)
(***************************************************************************)
Routing == RouteForward \/ RouteOpen \/ RouteNothingToStop \/ RouteStop
             \/ RoutePrep

Fairness ==
  /\ WF_vars(Routing)
  /\ WF_vars(Activation)
  /\ WF_vars(Stopping)
  /\ \A t \in Threads : WF_vars(ShowMenu(t))
  /\ \A h \in Handles : WF_vars(MonitorStep(h))
  /\ \A h \in Handles : WF_vars(h \in doomed /\ AppExits(h))
  /\ WF_vars(Settle)
  /\ WF_vars(LoopEnds)
  /\ WF_vars(ContextCloses)

(* The user keeps trying the long and the very long press of one button,   *)
(* and the panel does not fail forever.                                    *)
Perseverance ==
  /\ \A d \in {"long", "verylong"} :
       SF_vars(Press([key |-> "navigate", hold |-> d]))
  /\ SF_vars(ShowRenders(0))
  /\ SF_vars(press.key = "navigate" /\ HideMenu)

FairSpec == Spec /\ Fairness /\ Perseverance
-----------------------------------------------------------------------------
(* Properties                                                              *)

TypeOK ==
  /\ {running, menuVisible, settling, transition, manual, prep} \subseteq BOOLEAN
  /\ {activeApp, target, process, spawned} \subseteq 0 .. MaxLaunches
  /\ pc \in {"idle", "route", "opening", "launching", "launched", "stop",
             "picking", "terminating", "killing", "stopped", "prep", "show",
             "flagged", "ending", "closing", "ended"}
  /\ press \in Presses \cup {NoPress}
  /\ after \in {"none", "show", "prep", "closing", "ended"}
  /\ leader \in [Handles -> {"unborn", "running", "zombie", "reaped"}]
  /\ monitor \in [Handles -> {"none", "waiting", "woken", "exited", "superseded",
                              "asleep", "show", "flagged", "ending", "done"}]
  /\ manual => pc \in {"picking", "terminating", "killing", "stopped"}
  /\ target # 0 => pc \in {"terminating", "killing", "stopped"}
  /\ doomed \in SUBSET (1 .. spawned)

(* The daemon keeps what ForegroundSlot promises, as ApplicationManager    *)
(* alone does: whatever the buttons and the exit callbacks do, it launches *)
(* only beside dead applications and handles no exit twice.                *)
Slot == INSTANCE ForegroundSlot WITH
  MaxRuns   <- MaxLaunches,
  started   <- spawned,
  slot      <- process,
  live      <- {h \in Handles : Live(h)},
  announced <- [h \in Handles |->
                  IF monitor[h] \in {"none", "waiting", "woken", "exited",
                                     "superseded"}
                  THEN 0 ELSE 1]

SlotSpec == Slot!Spec

(* A hidden launcher with no application behind it does not last: an exit  *)
(* callback or the recovery branch of the next press brings it back,       *)
(* after a crash, a failed launch, a failed render or hardware preparation.*)
LauncherReturns ==
  (~menuVisible /\ ~\E h \in Handles : Live(h))
    ~> (menuVisible \/ (\E h \in Handles : Live(h)) \/ ~running)

(* Buttons are not ignored forever: every menu transition ends, however    *)
(* the show_menu() calls of the main and the monitor threads overlap.      *)
TransitionEnds == transition ~> (~transition \/ ~Alive)

(* ROCKY_ARCHITECTURE.md: applications must not disable the universal Home *)
(* behavior.  An application ends if the user perseveres, even one that    *)
(* ignores SIGTERM, that nothing monitors, or that a late callback has     *)
(* drawn the launcher over.                                                *)
NoAppOutOfReach ==
  \A h \in Handles : Live(h) ~> (~Live(h) \/ ~Alive)

(* A stopped daemon leaves no application that was not sent SIGKILL.       *)
ShutdownLeavesNothing ==
  ~Alive => \A h \in Handles : Live(h) => h \in doomed

(* The comment in _handle_application_exit: "The long-press handler will   *)
(* restore the menu itself."  No exit callback sets out to show the        *)
(* launcher while a handler that stopped the application is on its way to  *)
(* show it or to hand the hardware over.                                   *)
ManualStopOwnsMenu ==
  [][\A h \in Handles :
       monitor[h] = "exited" /\ monitor'[h] = "asleep"
         => after \notin {"show", "prep"}]_vars

(* ROCKY_ARCHITECTURE.md: "Only one runtime-controlled display owner should*)
(* access the e-paper hardware at a time."  No launcher is drawn over an   *)
(* application that has not even been sent SIGKILL.  Where it falls, a     *)
(* menu.close() is presupposed that lets activations reach launch().       *)
OneDisplayOwner ==
  menuVisible => \A h \in Handles : Live(h) => h \in doomed

(* ROCKY_ARCHITECTURE.md: "Long hold on either button: open the selected   *)
(* application".  An activation that began leads to a new application.     *)
HoldOpens ==
  \A n \in 0 .. MaxLaunches - 1 :
    (pc = "opening" /\ spawned = n /\ running) ~> (spawned > n \/ ~running)
=============================================================================
