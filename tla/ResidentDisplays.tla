-------------------------- MODULE ResidentDisplays --------------------------
(***************************************************************************)
(* manager/daemon.py: the resident displays.  They are programs that stay  *)
(* loaded while the launcher or another program owns the panel: units of   *)
(* systemd (pwnagotchi, tesserae), or programs recorded in the process     *)
(* manager's state file (ragnar).  Whoever needs the panel first pauses    *)
(* the others: freezes, stops or terminates them; what was frozen is       *)
(* thawed to come back.                                                    *)
(*                                                                         *)
(* Thread "main" handles the presses; thread "exit" is the callback of an  *)
(* application that ended.  Both run show_menu(), which pauses every       *)
(* display.  What runs is asked from systemd, one second old answers are   *)
(* used again, and a question that fails is answered "unknown".            *)
(***************************************************************************)
EXTENDS Naturals, FiniteSets

CONSTANTS
  None,
  Displays,      \* services with display_owner and resident_display
  Managed,       \* those with a command: not units of systemd
  StopsForMenu,  \* menu_priority_action is "stop", or pause_strategy "terminate"
  Freezes,       \* freeze_services and thaw_services are given
  PausesUnits,   \* pause_services and resume_services are given
  ShortPress,    \* [Displays -> {"forward", "menu", "swap"}]
  Companion,     \* display_switch_target, or None
  Faults,        \* calls that may fail
  MaxEvents      \* bound: what other programs do to the displays

(* In config/services.json every display that is not stopped is frozen: the*)
(* strategies that send SIGSTOP are not modelled.                          *)
ASSUME DisplaysAssumption ==
  /\ None \notin Displays \cup {"plain"} /\ "plain" \notin Displays
  /\ {Managed, StopsForMenu, Freezes, PausesUnits} \subseteq SUBSET Displays
  /\ Freezes \subseteq PausesUnits
  /\ Managed \cap PausesUnits = {}
  /\ Displays \ StopsForMenu \subseteq Freezes
  /\ ShortPress \in [Displays -> {"forward", "menu", "swap"}]
  /\ Companion \in [Displays -> Displays \cup {None}]
  /\ Faults \subseteq {"pause", "resume", "status", "render", "close", "launch"}
  /\ MaxEvents \in Nat

Threads == {"main", "exit"}
Holds   == {"short", "long", "verylong"}
Plain   == "plain"     \* any application of the ApplicationManager
Status  == {"active", "activating", "inactive", "unknown"}

VARIABLES
  unit,        \* what the program of a display really does
  cache,       \* _systemd_status_cache: the last answer, or None
  suppressed,  \* _suppressed_resident_exit_until, before its deadline
  menuVisible, \* self.menu_visible
  activeApp,   \* self.active_app_id
  settling,    \* the active display has not settled yet
  transition,  \* self._menu_transition_in_progress
  app,         \* the application the ApplicationManager runs, or None
  thread,      \* where each thread is, and the locals it needs later
  events,      \* what other programs did so far
  excused,     \* history: displays a call failed to pause, an answer passed
               \* over, or another program started or disturbed
  overtaken    \* history: displays opened while an exit callback in
               \* show_menu() no longer looks at them, or has just drawn

shown == <<menuVisible, activeApp, settling, transition>>
world == <<unit, cache, suppressed, app, events>>
marks == <<excused, overtaken>>
vars  == <<shown, world, thread, marks>>

(* todo: displays a quiesce loop still has to look at; then: what follows  *)
(* the loop; victim: the display being paused; back: what asked for the    *)
(* pause; target: the display being opened.                                *)
Idle == [pc |-> "idle", todo |-> {}, then |-> "none", victim |-> None,
         back |-> "none", target |-> None]

Init ==
  /\ unit = [d \in Displays |-> "inactive"]
  /\ cache = [d \in Displays |-> None]
  /\ suppressed = {}
  /\ menuVisible = TRUE
  /\ activeApp = None
  /\ settling = FALSE
  /\ transition = FALSE
  /\ app = None
  /\ thread = [t \in Threads |-> Idle]
  /\ events = 0
  /\ excused = {}
  /\ overtaken = {}

Draws(d)  == unit[d] = "active"
Exists(d) == unit[d] \in {"active", "frozen"}

(* A frozen unit is "active" to systemctl is-active. *)
TrueStatus(d) == IF Exists(d) THEN "active" ELSE unit[d]

(* _mode_service_status(): the cache if it has not expired (it may have at *)
(* any moment), systemd, or an exception.  For a managed display           *)
(* _managed_process_matches() asks the process table.                      *)
Answers(d) ==
  {TrueStatus(d)}
    \cup (IF d \in Managed THEN {}
          ELSE ({cache[d]} \ {None})
                 \cup (IF "status" \in Faults THEN {"unknown"} ELSE {}))

(* An "unknown" is kept as well, but need not be remembered here: as long  *)
(* as questions may fail, the next one may, too.                           *)
Ask(d, answer) ==
  /\ answer \in Answers(d)
  /\ cache' = IF d \in Managed THEN cache
              ELSE [cache EXCEPT ![d] = IF answer = "unknown" THEN None ELSE answer]

(* _run_systemctl() ends with _clear_runtime_caches(). *)
ClearCaches == cache' = [d \in Displays |-> None]

At(t, place)   == thread[t].pc = place
GoTo(t, place) == thread' = [thread EXCEPT ![t].pc = place]
Becomes(t, r)  == thread' = [thread EXCEPT ![t] = r]

Shows(t) == Becomes(t, [Idle EXCEPT !.pc = "show"])

LoopOver(ds, then, target) ==
  [Idle EXCEPT !.pc = "quiesce", !.todo = ds, !.then = then, !.target = target]

PauseOf(d, back) == [Idle EXCEPT !.pc = "pause", !.victim = d, !.back = back]

(* A call that was to pause display d does, or fails. *)
CallPauses(d, state) ==
  /\ unit' = [unit EXCEPT ![d] = state]
  /\ excused' = excused \ {d}
  /\ overtaken' = overtaken \ {d}

CallFails(d) ==
  /\ "pause" \in Faults
  /\ excused' = excused \cup {d}
  /\ overtaken' = overtaken \ {d}
  /\ UNCHANGED unit

(* What an exception does: handle_select() and a swap show the launcher,   *)
(* handle_navigation() only logs it.                                       *)
Raises == \E place \in {"idle", "show"} : Becomes("main", [Idle EXCEPT !.pc = place])

(* hide_menu() is called while the launcher is visible.  Its last line,    *)
(* menu.close(), raises in this commit whenever it is reached; what follows*)
(* a hide_menu() presupposes a close() that may succeed.                   *)
CloseRaises ==
  /\ menuVisible /\ "close" \in Faults
  /\ Raises
  /\ UNCHANGED <<app, activeApp, settling>>

(* application_manager.launch(): refused beside a running application. *)
Launch(a) ==
  \/ /\ app = None
     /\ app' = a /\ activeApp' = a /\ settling' = TRUE
     /\ Becomes("main", Idle)
  \/ /\ app # None \/ "launch" \in Faults
     /\ Raises
     /\ UNCHANGED <<app, activeApp, settling>>

-----------------------------------------------------------------------------
(* The presses: the heads of handle_navigation() and handle_select(), and  *)
(* _handle_resident_display_button()                                       *)

Pressed == At("main", "idle") /\ ~transition

(* Mutant of HoldParks: the hold is not taken away from the program. *)
HoldForwards(hold) == FALSE

(* A hold over a resident display brings the launcher back whatever the    *)
(* display is configured to do with a short press.                         *)
HoldParks(hold) == hold # "short" \/ ShortPress[activeApp] = "menu"

(* _app_is_running() with the launcher hidden: the ApplicationManager's, or*)
(* a unit of systemd.  A managed display that was resumed is neither.      *)
AppIsRunning(answer) ==
  app # None \/ (activeApp \in Displays \ Managed /\ answer = "active")

(* With no application running the launcher was lost, and comes back.  A   *)
(* very long press is never ignored; what is forwarded changes nothing.    *)
Press(hold) ==
  /\ Pressed /\ ~menuVisible
  /\ \E answer \in Status :
       /\ IF activeApp \in Displays THEN Ask(activeApp, answer)
          ELSE answer = "inactive" /\ UNCHANGED cache
       /\ \/ /\ ~AppIsRunning(answer)
             /\ GoTo("main", "show")
             /\ UNCHANGED suppressed
          \/ /\ AppIsRunning(answer) /\ answer = "active" /\ ~settling
             /\ \E back \in {"park", "swap"} :
                  /\ IF HoldParks(hold) THEN back = "park"
                     ELSE ShortPress[activeApp] = "swap"
                            /\ Companion[activeApp] # None /\ back = "swap"
                  /\ Becomes("main", PauseOf(activeApp, back))
             /\ suppressed' = suppressed \cup (Managed \cap {activeApp})
          \/ /\ AppIsRunning(answer) /\ (answer # "active" \/ settling)
             /\ hold = "verylong"
             /\ GoTo("main", "stopapp")
             /\ UNCHANGED suppressed
  /\ UNCHANGED <<shown, unit, app, events, marks>>

(* _stop_active_application(): a display of systemd that is the active one *)
(* is stopped, whatever the ApplicationManager runs.                       *)
StopActiveUnit ==
  /\ At("main", "stopapp")
  /\ activeApp \in Displays \ Managed
  /\ ClearCaches
  /\ CallPauses(activeApp, "inactive") \/ CallFails(activeApp)
  /\ GoTo("main", "show")
  /\ UNCHANGED <<shown, suppressed, app, events>>

(* Otherwise the application is; the exit callback leaves the launcher to  *)
(* this handler, unless it looks too late.                                 *)
StopApplication ==
  /\ At("main", "stopapp")
  /\ activeApp \notin Displays \ Managed
  /\ app' = None
  /\ \E late \in IF app # None /\ At("exit", "idle") THEN BOOLEAN ELSE {FALSE} :
       thread' = [thread EXCEPT !["main"].pc = "show",
                                !["exit"].pc = IF late THEN "show" ELSE @]
  /\ UNCHANGED <<shown, unit, cache, suppressed, events, marks>>

(* A long press on a resident item of the launcher:                        *)
(* _resume_service_to_foreground() first pauses the competitors.           *)
OpenDisplay(d) ==
  /\ Pressed /\ menuVisible
  /\ Becomes("main", LoopOver(Displays \ {d}, "resume", d))
  /\ UNCHANGED <<shown, world, marks>>

(* A long press on any other program: _activate_service(). *)
OpenApplication ==
  /\ Pressed /\ menuVisible
  /\ menuVisible' = FALSE
  /\ CloseRaises \/ Launch(Plain)
  /\ UNCHANGED <<transition, unit, cache, suppressed, events, marks>>

(* A very long press on a resident item: _stop_selected_menu_item(). *)
StopSelected(d) ==
  /\ Pressed /\ menuVisible
  /\ \E answer \in Status :
       /\ Ask(d, answer)
       /\ IF answer = "active" THEN Becomes("main", PauseOf(d, "stop"))
          ELSE GoTo("main", "show")
  /\ UNCHANGED <<shown, unit, suppressed, app, events, marks>>

-----------------------------------------------------------------------------
(* _quiesce_other_resident_displays() and _quiesce_all_resident_displays() *)

(* Mutant of NeedsPause: only units of systemd are paused. *)
NeedsPauseUnit(d, answer) == answer = "active" /\ d \notin Managed

NeedsPause(d, answer) == answer = "active"

(* A display that draws or is about to and is passed over, for a stale or  *)
(* a failed answer or because it is still activating, is excused; any      *)
(* other that was looked at has no excuse left.                            *)
QuiesceLook(t, d) ==
  /\ At(t, "quiesce")
  /\ d \in thread[t].todo
  /\ \E answer \in Status :
       /\ Ask(d, answer)
       /\ IF NeedsPause(d, answer)
          THEN /\ thread' = [thread EXCEPT ![t].todo = @ \ {d}, ![t].pc = "pause",
                               ![t].victim = d, ![t].back = "quiesce"]
               /\ suppressed' = IF thread[t].then \in {"show", "render"}
                                THEN suppressed \cup (Managed \cap {d})
                                ELSE suppressed
               /\ UNCHANGED marks
          ELSE /\ thread' = [thread EXCEPT ![t].todo = @ \ {d}]
               /\ excused' = IF answer # "active" /\ unit[d] \in {"active", "activating"}
                              THEN excused \cup {d} ELSE excused \ {d}
               /\ overtaken' = overtaken \ {d}
               /\ UNCHANGED suppressed
  /\ UNCHANGED <<shown, unit, app, events>>

QuiesceDone(t) ==
  /\ At(t, "quiesce")
  /\ thread[t].todo = {}
  /\ Becomes(t, [Idle EXCEPT !.pc = thread[t].then, !.target = thread[t].target])
  /\ UNCHANGED <<shown, world, marks>>

-----------------------------------------------------------------------------
(* _pause_resident_display_service() and _stop_resident_display_service()  *)

(* Both loops ignore the result; a hold shows the launcher either way, and *)
(* only a display that was paused is followed by its companion.            *)
PauseReturns(t, ok) ==
  LET d == thread[t].victim IN
  CASE thread[t].back = "quiesce" ->
         thread' = [thread EXCEPT ![t].pc = "quiesce", ![t].victim = None,
                                  ![t].back = "none"]
    [] thread[t].back = "park" /\ ok ->
         Becomes(t, LoopOver(Displays \ {d}, "show", None))
    [] thread[t].back = "swap" /\ ok ->
         Becomes(t, LoopOver(Displays \ {Companion[d]}, "resume", Companion[d]))
    [] OTHER -> Shows(t)

(* A stop is asked for by the launcher, or is how the display gives way:   *)
(* systemctl stop, or SIGTERM and SIGKILL to a managed one.                *)
Stops(t) == thread[t].back = "stop" \/ thread[t].victim \in StopsForMenu

PauseByStop(t) ==
  /\ At(t, "pause")
  /\ Stops(t)
  /\ IF thread[t].victim \in Managed THEN UNCHANGED cache ELSE ClearCaches
  /\ \/ CallPauses(thread[t].victim, "inactive") /\ PauseReturns(t, TRUE)
     \/ CallFails(thread[t].victim) /\ PauseReturns(t, FALSE)
  /\ UNCHANGED <<shown, suppressed, app, events>>

(* systemctl freeze; a unit that is not there cannot be frozen. *)
PauseByFreeze(t) ==
  LET d == thread[t].victim IN
  /\ At(t, "pause")
  /\ ~Stops(t) /\ d \in Freezes
  /\ ClearCaches
  /\ \/ Exists(d) /\ CallPauses(d, "frozen") /\ PauseReturns(t, TRUE)
     \/ /\ "pause" \in Faults \/ ~Exists(d)
        /\ GoTo(t, "pausestop")
        /\ UNCHANGED <<unit, marks>>
  /\ UNCHANGED <<shown, suppressed, app, events>>

(* systemctl stop of the pause units, then _await_systemd_service_state(). *)
PauseByUnits(t) ==
  /\ At(t, "pausestop")
  /\ ClearCaches
  /\ \/ CallPauses(thread[t].victim, "inactive") /\ GoTo(t, "awaitdown")
     \/ CallFails(thread[t].victim) /\ PauseReturns(t, FALSE)
  /\ UNCHANGED <<shown, suppressed, app, events>>

(* "unknown" is taken for inactive. *)
AwaitDown(t) ==
  /\ At(t, "awaitdown")
  /\ \E answer \in Status :
       /\ Ask(thread[t].victim, answer)
       /\ PauseReturns(t, answer \in {"inactive", "unknown"})
  /\ UNCHANGED <<shown, unit, suppressed, app, events, marks>>

-----------------------------------------------------------------------------
(* _resume_service_to_foreground(), _resume_resident_display_service() and *)
(* _activate_systemd_display_service()                                     *)

Target == thread["main"].target

(* hide_menu(), then the display that exists is resumed and another one    *)
(* started, which pauses the competitors once more.                        *)
Resume ==
  /\ At("main", "resume")
  /\ menuVisible' = FALSE
  /\ \/ /\ \E answer \in Status :
             /\ Ask(Target, answer)
             /\ IF answer = "active" THEN GoTo("main", "thaw")
                ELSE IF Target \in Managed THEN GoTo("main", "launch")
                ELSE Becomes("main", LoopOver(Displays \ {Target}, "activate", Target))
        /\ UNCHANGED <<app, activeApp, settling>>
     \/ CloseRaises /\ UNCHANGED cache
  /\ UNCHANGED <<transition, unit, suppressed, events, marks>>

(* A launcher that an exit callback has drawn meanwhile is hidden again,   *)
(* before a managed display is launched as any application                 *)
LaunchManaged ==
  /\ At("main", "launch")
  /\ menuVisible' = FALSE
  /\ CloseRaises \/ Launch(Target)
  /\ UNCHANGED <<transition, unit, cache, suppressed, events, marks>>

(* and before a unit is started.                                           *)
Activate ==
  /\ At("main", "activate")
  /\ menuVisible' = FALSE
  /\ \/ GoTo("main", "start") /\ UNCHANGED <<app, activeApp, settling>>
     \/ CloseRaises
  /\ UNCHANGED <<transition, unit, cache, suppressed, events, marks>>

(* The owner from now on, unless an exit callback in show_menu() may have  *)
(* passed it already, or has drawn the launcher since it was hidden.       *)
Comes(d, state) ==
  /\ unit' = [unit EXCEPT ![d] = state]
  /\ excused' = excused \ {d}
  /\ overtaken' = IF thread["exit"].pc \in {"idle", "show", "ending"} /\ ~menuVisible
                  THEN overtaken \ {d}
                  ELSE overtaken \cup {d}

(* systemctl thaw, or SIGCONT. *)
Thaw ==
  /\ At("main", "thaw")
  /\ IF Target \in Managed THEN UNCHANGED cache ELSE ClearCaches
  /\ \/ /\ Exists(Target)
        /\ Comes(Target, "active")
        /\ GoTo("main", "opened")
     \/ /\ "resume" \in Faults \/ ~Exists(Target)
        /\ IF Target \in Managed THEN Shows("main")
           ELSE GoTo("main", IF Target \in PausesUnits THEN "resumestart" ELSE "start")
        /\ UNCHANGED <<unit, marks>>
  /\ UNCHANGED <<shown, suppressed, app, events>>

(* systemctl start; it does nothing for a unit that is frozen. *)
StartUnit(place, next) ==
  /\ At("main", place)
  /\ ClearCaches
  /\ \/ /\ \E state \in IF Exists(Target) THEN {unit[Target]}
                        ELSE {"active", "activating"} :
             Comes(Target, state)
        /\ GoTo("main", next)
     \/ /\ "resume" \in Faults
        /\ IF place = "start" THEN Shows("main") ELSE GoTo("main", "start")
        /\ UNCHANGED <<unit, marks>>
  /\ UNCHANGED <<shown, suppressed, app, events>>

ResumeStarts == StartUnit("resumestart", "awaitup")
Starts       == StartUnit("start", "opened")

AwaitUp ==
  /\ At("main", "awaitup")
  /\ \E answer \in Status :
       /\ Ask(Target, answer)
       /\ GoTo("main", IF answer \in {"active", "activating"} THEN "opened"
                       ELSE "start")
  /\ UNCHANGED <<shown, unit, suppressed, app, events, marks>>

Opened ==
  /\ At("main", "opened")
  /\ activeApp' = Target
  /\ settling' = TRUE
  /\ Becomes("main", Idle)
  /\ UNCHANGED <<menuVisible, transition, world, marks>>

-----------------------------------------------------------------------------
(* show_menu()                                                             *)

(* Mutant of Reclaims: the launcher is drawn without taking the panel. *)
ReclaimsApplication == activeApp = "plain"

(* should_reclaim_display *)
Reclaims == ~menuVisible \/ activeApp # None

ShowBegins(t) ==
  /\ At(t, "show")
  /\ transition' = TRUE
  /\ Becomes(t, IF Reclaims THEN LoopOver(Displays, "render", None)
                ELSE [Idle EXCEPT !.pc = "render"])
  /\ UNCHANGED <<menuVisible, activeApp, settling, world, marks>>

ShowRenders(t) ==
  /\ At(t, "render")
  /\ menuVisible' = TRUE
  /\ activeApp' = None
  /\ settling' = FALSE
  /\ GoTo(t, "ending")
  /\ UNCHANGED <<transition, world, marks>>

ShowFails(t) ==
  /\ At(t, "render")
  /\ "render" \in Faults
  /\ menuVisible' = FALSE
  /\ GoTo(t, "ending")
  /\ UNCHANGED <<activeApp, settling, transition, world, marks>>

ShowEnds(t) ==
  /\ At(t, "ending")
  /\ transition' = FALSE
  /\ Becomes(t, Idle)
  /\ UNCHANGED <<menuVisible, activeApp, settling, world, marks>>

-----------------------------------------------------------------------------
(* The application, the other users of systemd, and time                   *)

(* _handle_application_exit(): a visible launcher stays, and the exit of a *)
(* display that was just paused is passed over.                            *)
ApplicationExits ==
  /\ app # None
  /\ At("exit", "idle")
  /\ app' = None
  /\ \/ (menuVisible \/ app \in suppressed \/ At("main", "stopapp")) /\ UNCHANGED thread
     \/ ~menuVisible /\ app \notin suppressed /\ GoTo("exit", "show")
  /\ UNCHANGED <<shown, unit, cache, suppressed, events, marks>>

(* The console, the command line or Restart=on-failure starts a display    *)
(* without asking the daemon.                                              *)
OthersStart(d) ==
  /\ events < MaxEvents
  /\ unit[d] \in {"inactive", "activating"}
  /\ unit' = [unit EXCEPT ![d] = "active"]
  /\ excused' = excused \cup {d}
  /\ overtaken' = overtaken \ {d}
  /\ events' = events + 1
  /\ UNCHANGED <<shown, cache, suppressed, app, thread>>

(* It is stopped by others, or crashes and waits for its restart. *)
OthersStop(d) ==
  /\ events < MaxEvents
  /\ Exists(d)
  /\ \/ /\ unit' = [unit EXCEPT ![d] = "inactive"]
        /\ excused' = excused \ {d}
     \/ /\ d \notin Managed
        /\ unit' = [unit EXCEPT ![d] = "activating"]
        /\ excused' = excused \cup {d}
  /\ overtaken' = overtaken \ {d}
  /\ events' = events + 1
  /\ UNCHANGED <<shown, cache, suppressed, app, thread>>

(* A unit that is activating comes up. *)
ComesUp(d) ==
  /\ unit[d] = "activating"
  /\ unit' = [unit EXCEPT ![d] = "active"]
  /\ UNCHANGED <<shown, cache, suppressed, app, events, thread, marks>>

(* Four seconds after the pause. *)
SuppressionExpires(d) ==
  /\ d \in suppressed
  /\ suppressed' = suppressed \ {d}
  /\ UNCHANGED <<shown, unit, cache, app, events, thread, marks>>

Settle ==
  /\ settling
  /\ settling' = FALSE
  /\ UNCHANGED <<menuVisible, activeApp, transition, world, thread, marks>>

-----------------------------------------------------------------------------
Quiesce(t) == QuiesceDone(t) \/ \E d \in Displays : QuiesceLook(t, d)

Pause(t) ==
  \/ PauseByStop(t)
  \/ PauseByFreeze(t)
  \/ PauseByUnits(t)
  \/ AwaitDown(t)

Show(t) == ShowBegins(t) \/ ShowRenders(t) \/ ShowFails(t) \/ ShowEnds(t)

Open ==
  \/ Resume
  \/ LaunchManaged
  \/ Activate
  \/ Thaw
  \/ ResumeStarts
  \/ AwaitUp
  \/ Starts
  \/ Opened

Others(d) ==
  \/ OthersStart(d)
  \/ OthersStop(d)
  \/ ComesUp(d)
  \/ SuppressionExpires(d)

Next ==
  \/ \E hold \in Holds : Press(hold)
  \/ \E d \in Displays : OpenDisplay(d) \/ StopSelected(d) \/ Others(d)
  \/ OpenApplication
  \/ StopActiveUnit
  \/ StopApplication
  \/ \E t \in Threads : Quiesce(t) \/ Pause(t) \/ Show(t)
  \/ Open
  \/ ApplicationExits
  \/ Settle

Spec == Init /\ [][Next]_vars

(***************************************************************************)
(* Every call returns (systemctl has a timeout), time passes, the user     *)
(* keeps holding a button, and the panel does not fail forever.            *)
(***************************************************************************)
Fairness ==
  /\ \A t \in Threads : WF_vars(Quiesce(t) \/ Pause(t) \/ Show(t))
  /\ WF_vars(Open \/ StopActiveUnit \/ StopApplication)
  /\ WF_vars(Settle)
  /\ SF_vars(\E t \in Threads : ShowRenders(t))
  /\ SF_vars(Press("verylong"))

FairSpec == Spec /\ Fairness
-----------------------------------------------------------------------------
(* Properties                                                              *)

Places == {"idle", "stopapp", "quiesce", "pause", "pausestop", "awaitdown",
           "resume", "launch", "activate", "thaw", "resumestart", "awaitup", "start",
           "opened", "show", "render", "ending"}

TypeOK ==
  /\ unit \in [Displays -> {"inactive", "activating", "active", "frozen"}]
  /\ cache \in [Displays -> Status \cup {None}]
  /\ suppressed \subseteq Managed
  /\ {menuVisible, settling, transition} \subseteq BOOLEAN
  /\ activeApp \in Displays \cup {None, "plain"}
  /\ app \in Managed \cup {None, "plain"}
  /\ thread \in [Threads ->
                   [pc : Places, todo : SUBSET Displays,
                    then : {"none", "resume", "activate", "show", "render"},
                    victim : Displays \cup {None},
                    back : {"none", "quiesce", "park", "swap", "stop"},
                    target : Displays \cup {None}]]
  /\ events \in 0 .. MaxEvents
  /\ excused \subseteq Displays
  /\ overtaken \subseteq Displays

(* ROCKY_ARCHITECTURE.md: "Only one runtime-controlled display owner       *)
(* should access the e-paper hardware at a time."  Two resident displays   *)
(* draw at once only if a call failed to pause one of them, a wrong answer *)
(* or a slow start let it be passed over, or other programs started or     *)
(* disturbed it.                                                           *)
OneDraws ==
  \A d, e \in Displays : d # e /\ Draws(d) /\ Draws(e)
                           => excused \cap {d, e} # {}

(* Nor does one draw over a visible launcher, but for the same reasons and *)
(* for one more: it was opened while the exit callback of an application   *)
(* was in show_menu(), past its look at the displays, or had just drawn    *)
(* the launcher that the opening had hidden.                               *)
LauncherOwnsPanel ==
  menuVisible => \A d \in Displays : Draws(d) => d \in excused \cup overtaken

(* ROCKY_ARCHITECTURE.md, universal Home behaviour: a user who keeps       *)
(* holding the button gets the launcher back from any display, also one    *)
(* that was not paused, died, hangs in its start or never settles.         *)
HomeReturns == ~menuVisible ~> menuVisible
=============================================================================
