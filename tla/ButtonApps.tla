----------------------------- MODULE ButtonApps -----------------------------
(***************************************************************************)
(* The applications that are built on the SDK and draw their own pages:    *)
(* Torrentz, Print Lab, Modes and Entertainment, one process at a time.    *)
(*                                                                         *)
(* Sources: manager/sdk/base_app.py, manager/sdk/button_app.py, apps/      *)
(* torrentz.py, print_lab.py, mode_selector.py and entertainment.py, and   *)
(* the hardware preparation of manager/daemon.py that Print Lab asks for.  *)
(*                                                                         *)
(* The main thread of a process sets up, then polls and redraws in a loop; *)
(* the thread of its button client handles presses and redraws too.  What  *)
(* a page shows is read, and the mark that it must be redrawn is taken     *)
(* back, under a lock; the panel is written outside it.  The daemon's main *)
(* thread forwards presses, stops the application and enters hardware      *)
(* preparation; the thread of its exit callback brings the launcher back.  *)
(***************************************************************************)
EXTENDS Integers, Sequences

CONSTANTS
  Items,       \* each application the launcher offers -> the entries of its menu
  MaxPresses,  \* bound: presses the operator makes
  MaxLaunches, \* bound: launches
  MaxEvents    \* bound: changes of what is polled, failures, kills

Apps == DOMAIN Items

ASSUME AppsAssumption == Apps \subseteq {"torrentz", "print_lab", "mode_selector", "entertainment"}
ASSUME BoundsAssumption == MaxPresses \in Nat /\ MaxLaunches \in Nat /\ MaxEvents \in Nat

VARIABLES
  app,        \* the application this process is
  thread,     \* the main and the button thread: step, image taken, force
  running,    \* RockyApp.running; FALSE before run() sets it
  open,       \* the display is open
  ui,         \* what the pages are drawn from, kept under _lock
  dirty,      \* _dirty
  signature,  \* _last_render_signature
  panel,      \* what the panel shows
  stale,      \* ghost: why the panel may lag (see PanelIsCurrent)
  queue,      \* presses on their way to the button thread
  world,      \* what the applications poll: state.json, or the services' status
  request,    \* isp-prep-request.json is there
  told,       \* the manager has sent SIGTERM
  signalled,  \* the signal was delivered
  daemon,     \* what the daemon's main thread does
  active,     \* active_app_id names the application
  visible,    \* menu_visible
  entering,   \* the hold that is being handled asked for hardware preparation
  prepared,   \* hardware-prep-state.json is there
  callback,   \* the exit callback's thread
  presses, launches, events

process == <<app, thread, running, open, ui, dirty, signature, stale, told, signalled>>
manager == <<daemon, active, visible, entering, prepared, callback>>
bounds  == <<presses, launches, events>>
vars    == <<process, panel, queue, world, request, manager, bounds>>

Can   == events < MaxEvents
Noted == events' = events + 1

-----------------------------------------------------------------------------
(* Pages.                                                                  *)

\* Only Entertainment draws without the lock.
Unlocked == app = "entertainment"

\* sel: selected_index + 1.  status: a message in the footer.  data: the polled
\* snapshot.  qr: the cached code.  current: the mode the selector takes for set.
FirstPage == [page |-> "menu", sel |-> 1, status |-> FALSE, data |-> 0, qr |-> FALSE, current |-> 1]

\* render_image(): the parts of `u` that the page shows.  Only the menu shows the
\* selection, and the page of a code has no footer.
Footed(u, code) == [u EXCEPT !.sel = IF u.page = "menu" THEN @ ELSE 1,
                             !.status = @ /\ u.page # code, !.qr = @ /\ u.page = code]

TorrentzView(u) == Footed(u, "qbt")

PrintLabView(u) == [Footed(u, "mainsail") EXCEPT !.data = IF u.page = "klipper_status" THEN @ ELSE 0]

ModesView(u) == u

\* Entertainment looks for its data where the published state does not have it,
\* so it never shows any.
EntertainmentView(u) == [u EXCEPT !.data = 0]

View(u) == CASE app = "torrentz"      -> TorrentzView(u)
             [] app = "print_lab"     -> PrintLabView(u)
             [] app = "mode_selector" -> ModesView(u)
             [] app = "entertainment" -> EntertainmentView(u)

Blank == [FirstPage EXCEPT !.page = "none"]

\* The cached code is fetched again when there is none, or its target changed:
\* that of Torrentz comes with the data.
Codes(u, data) == IF u.qr /\ (u.data = data \/ app = "print_lab") THEN {TRUE} ELSE BOOLEAN
HasCode        == app \in {"torrentz", "print_lab"}

\* _poll_state(), _poll_service_snapshot(): what `u` may be afterwards.
Polled(u) == {[u EXCEPT !.data = world, !.qr = c] : c \in IF HasCode THEN Codes(u, world) ELSE {FALSE}}

\* A poll marks a redraw when the data changed, and not when only the code came.
PollMarks(u, v) == u.data # v.data

\* A code that came, or was lost, on the page that shows it.
ShownCodeChanged(u, v) == View(u).qr # View(v).qr /\ ~PollMarks(u, v)

-----------------------------------------------------------------------------
(* Presses: on_button() and the handlers it calls.                         *)

Buttons == {"up", "down", "hold"}

Moved(u, b) ==
  LET n == Len(Items[app])
  IN [u EXCEPT !.sel = IF b = "up" THEN IF @ = 1 THEN n ELSE @ - 1 ELSE IF @ = n THEN 1 ELSE @ + 1,
               !.status = @ /\ app = "mode_selector"]

\* up and down leave any other page.
Left(u) == [u EXCEPT !.page = "menu", !.status = FALSE]

Selected(u) == Items[app][u.sel]

\* A hold in the menu opens a page, "back" asks to stop; on a page it refreshes,
\* goes back, or in Print Lab arms hardware preparation.
TorrentzHold(u) ==
  IF u.page # "menu" THEN [u EXCEPT !.status = TRUE]
  ELSE [u EXCEPT !.page = IF Selected(u) = "back" THEN @ ELSE Selected(u), !.status = FALSE]

PrintLabHold(u) ==
  CASE u.page = "menu" ->
         [u EXCEPT !.status = FALSE,
                   !.page = CASE Selected(u) = "back" -> @
                              [] Selected(u) = "isp_prep" -> "isp_prep_confirm"
                              [] OTHER -> Selected(u)]
    [] u.page \in {"mainsail", "isp_pins"} -> [u EXCEPT !.page = "menu"]
    [] u.page = "isp_prep_confirm" -> [u EXCEPT !.page = "isp_prep_armed", !.status = TRUE]
    [] OTHER -> [u EXCEPT !.status = TRUE]

\* Modes writes its request (see ModeReconcile), and stays.
ModesHold(u) ==
  IF Selected(u) = "back" THEN u ELSE [u EXCEPT !.status = TRUE, !.current = u.sel]

EntertainmentHold(u) == [u EXCEPT !.page = "detail"]

Hold(u) == CASE app = "torrentz"      -> TorrentzHold(u)
             [] app = "print_lab"     -> PrintLabHold(u)
             [] app = "mode_selector" -> ModesHold(u)
             [] app = "entertainment" -> EntertainmentHold(u)

Pressed(u, b) == IF b = "hold" THEN Hold(u) ELSE IF u.page = "menu" THEN Moved(u, b) ELSE Left(u)

\* Torrentz and the status page of Print Lab poll on a hold.
PressPolls(u, b) ==
  /\ b = "hold"
  /\ \/ app = "torrentz" /\ ~(u.page = "menu" /\ Selected(u) = "back")
     \/ /\ app = "print_lab"
        /\ u.page = "klipper_status" \/ (u.page = "menu" /\ Selected(u) = "klipper_status")

GoesBack(u, b) == b = "hold" /\ u.page = "menu" /\ Selected(u) = "back"

\* The request file of hardware preparation: written by the hold that arms it.
Arms(u, b) == app = "print_lab" /\ b = "hold" /\ u.page = "isp_prep_confirm"

\* Mutant: leaving the armed page keeps the request.
Disarmed(u, b) == FALSE

\* _clear_isp_prep_request() of up and down.
Disarms(u, b) == u.page = "isp_prep_armed" /\ b # "hold"

-----------------------------------------------------------------------------
(* Rendering: _render_if_needed(), and _render() of Entertainment.         *)

Idle == [step |-> "idle", image |-> Blank, force |-> FALSE]
Main == thread.main
At(t, step) == thread' = [thread EXCEPT ![t].step = step]

Other(t)    == IF t = "main" THEN "button" ELSE "main"
InFlight(t) == thread[t].step \in {"compare", "show", "sign"}

\* Where a thread goes on when it has nothing to show.
After(t) == IF t = "main" THEN "loop" ELSE "idle"

\* Mutant: the page alone stands for the image.
SamePage(image, last) == image.page = last.page

\* The hash of the image is the last one.
Same(image, last) == image = last

\* Under the lock: nothing marked, the same image as the last, or one to show.
Take(t) ==
  /\ thread[t].step = "render" /\ ~Unlocked
  /\ LET image == View(ui)
         force == thread[t].force
         shows == force \/ (dirty /\ ~Same(image, signature))
     IN /\ thread' = [thread EXCEPT ![t] =
             IF shows /\ open THEN [step |-> "show", image |-> image, force |-> FALSE]
             ELSE [Idle EXCEPT !.step = After(t)]]
        /\ dirty' = FALSE
        /\ stale' = IF InFlight(Other(t)) THEN stale \/ dirty \/ force ELSE stale /\ ~(shows /\ open)
  /\ UNCHANGED <<app, running, open, ui, signature, told, signalled, panel, queue, world, request, manager, bounds>>

\* Entertainment draws first and looks at the mark last.
Draw ==
  /\ Main.step = "render" /\ Unlocked
  /\ thread' = [thread EXCEPT !.main.step = "compare", !.main.image = View(ui)]
  /\ stale' = FALSE
  /\ UNCHANGED <<app, running, open, ui, dirty, signature, told, signalled, panel, queue, world, request, manager, bounds>>

Compare ==
  /\ Main.step = "compare"
  /\ LET same == ~Main.force /\ Same(Main.image, signature)
     IN /\ dirty' = (dirty /\ ~same)
        /\ At("main", IF same THEN "loop" ELSE "show")
  /\ UNCHANGED <<app, running, open, ui, signature, stale, told, signalled, panel, queue, world, request, manager, bounds>>

\* display.show()
Show(t) ==
  /\ thread[t].step = "show"
  /\ panel' = thread[t].image
  /\ At(t, "sign")
  /\ UNCHANGED <<app, running, open, ui, dirty, signature, stale, told, signalled, queue, world, request, manager, bounds>>

\* The image shown becomes the last one.
Sign(t) ==
  /\ thread[t].step = "sign"
  /\ signature' = thread[t].image
  /\ dirty' = (dirty /\ ~Unlocked)
  /\ thread' = [thread EXCEPT ![t] = [Idle EXCEPT !.step = After(t)]]
  /\ UNCHANGED <<app, running, open, ui, stale, told, signalled, panel, queue, world, request, manager, bounds>>

\* A failure to show on the button thread is logged; the mark is gone already.
ShowFails ==
  /\ thread.button.step = "show" /\ Can /\ Noted
  /\ At("button", "idle")
  /\ stale' = TRUE
  /\ UNCHANGED <<app, running, open, ui, dirty, signature, told, signalled, panel, queue, world, request, manager, presses, launches>>

-----------------------------------------------------------------------------
(* The main thread: RockyApp.run()                                         *)

\* install_signal_handlers()
Installs ==
  /\ Main.step = "start"
  /\ At("main", "signals")
  /\ UNCHANGED <<app, running, open, ui, dirty, signature, stale, told, signalled, panel, queue, world, request, manager, bounds>>

\* running = True: a stop requested just before is forgotten.
Runs ==
  /\ Main.step = "signals"
  /\ running' = TRUE
  /\ At("main", "setup")
  /\ UNCHANGED <<app, open, ui, dirty, signature, stale, told, signalled, panel, queue, world, request, manager, bounds>>

\* setup() of Print Lab clears it first.
SetUpLeaves == request /\ app # "print_lab"

SetsUp ==
  /\ Main.step = "setup"
  /\ request' = SetUpLeaves
  /\ open' = TRUE
  /\ At("main", "poll")
  /\ UNCHANGED <<app, running, ui, dirty, signature, stale, told, signalled, panel, queue, world, manager, bounds>>

\* The first poll, and the first drawing, which is forced.
SetUpPolls ==
  /\ Main.step = "poll"
  /\ ui' \in IF Unlocked \/ app = "mode_selector" THEN {ui} ELSE Polled(ui)
  /\ dirty' = (dirty \/ Unlocked \/ PollMarks(ui, ui'))
  /\ thread' = [thread EXCEPT !.main.step = "render", !.main.force = TRUE]
  /\ UNCHANGED <<app, running, open, signature, stale, told, signalled, panel, queue, world, request, manager, bounds>>

\* while self.running
Loops ==
  /\ Main.step = "loop"
  /\ At("main", IF running THEN "update" ELSE "cleanup")
  /\ UNCHANGED <<app, running, open, ui, dirty, signature, stale, told, signalled, panel, queue, world, request, manager, bounds>>

\* update(), under the lock: a message runs out, and every so often a poll.
\* Modes and Entertainment poll every time.
Update ==
  /\ Main.step = "update"
  /\ \E spent \in {ui, [ui EXCEPT !.status = FALSE]} :
       /\ ui' \in Polled(spent) \cup IF HasCode THEN {spent} ELSE {}
       /\ dirty' = (dirty \/ spent # ui \/ PollMarks(spent, ui'))
       /\ stale' = (stale \/ ShownCodeChanged(spent, ui'))
  /\ At("main", IF Unlocked /\ ~dirty' THEN "loop" ELSE "render")
  /\ UNCHANGED <<app, running, open, signature, told, signalled, panel, queue, world, request, manager, bounds>>

\* An exception of setup(), update() or the panel: on_error(), then cleanup().
Fails ==
  /\ Main.step \in {"poll", "update", "show"} /\ Can /\ Noted
  /\ At("main", "cleanup")
  /\ UNCHANGED <<app, running, open, ui, dirty, signature, stale, told, signalled, panel, queue, world, request, manager, presses, launches>>

\* The process is over: its threads, and the sockets with the presses in them.
Ended ==
  /\ thread' = [main |-> [Idle EXCEPT !.step = "ended"], button |-> Idle]
  /\ running' = FALSE /\ open' = FALSE
  /\ queue' = <<>>
  /\ callback' = "due"

\* cleanup() clears the request and puts the panel to sleep.
CleansUp ==
  /\ Main.step = "cleanup"
  /\ request' = (request /\ app # "print_lab")
  /\ Ended
  /\ UNCHANGED <<app, ui, dirty, signature, stale, told, signalled, panel, world, daemon, active, visible,
                 entering, prepared, bounds>>

\* SIGTERM before the handlers are there ends the process at once; afterwards
\* it is request_stop().
SignalArrives ==
  /\ told /\ ~signalled /\ Main.step # "ended"
  /\ IF Main.step = "start"
       THEN Ended /\ UNCHANGED signalled
       ELSE running' = FALSE /\ signalled' = TRUE /\ UNCHANGED <<thread, open, queue, callback>>
  /\ UNCHANGED <<app, ui, dirty, signature, stale, told, panel, world, request, daemon, active, visible,
                 entering, prepared, bounds>>

\* A process that is not over after stop_timeout is killed: a code that is being
\* fetched takes as long, and a signal that run() lost is never signalled.
Killed ==
  /\ told /\ Main.step # "ended" /\ Can /\ Noted
  /\ Ended
  /\ UNCHANGED <<app, ui, dirty, signature, stale, told, signalled, panel, world, request, daemon, active, visible,
                 entering, prepared, presses, launches>>

-----------------------------------------------------------------------------
(* The button thread.                                                      *)

\* Before setup() Modes has no items, and its handler raises.
Ready == app # "mode_selector" \/ open

Handle ==
  /\ thread.button.step = "idle" /\ queue # <<>> /\ Main.step # "ended"
  /\ queue' = Tail(queue)
  /\ LET b == Head(queue)
     IN IF ~Ready THEN UNCHANGED <<thread, running, ui, dirty, stale, request>>
        ELSE /\ ui' \in IF PressPolls(ui, b) THEN {Pressed(v, b) : v \in Polled(ui)} ELSE {Pressed(ui, b)}
             /\ running' = (running /\ ~GoesBack(ui, b))
             /\ dirty' = (dirty \/ ~(app = "mode_selector" /\ GoesBack(ui, b)))
             /\ request' = ((request /\ ~Disarms(ui, b)) \/ Arms(ui, b))
             /\ stale' = (stale \/ (Unlocked /\ InFlight("main")))
             /\ At("button", IF Unlocked THEN "idle" ELSE "render")
  /\ UNCHANGED <<app, open, signature, told, signalled, panel, world, manager, bounds>>

-----------------------------------------------------------------------------
(* What is polled, and the daemon.                                         *)

WorldChanges ==
  /\ Can /\ Noted
  /\ world' = 1 - world
  /\ UNCHANGED <<process, panel, queue, request, manager, presses, launches>>

Alive == Main.step # "ended"
Free  == daemon = "idle"

\* handle_navigation(), handle_down_navigation(): taps and holds are forwarded.
Press(b) ==
  /\ Free /\ ~visible /\ Alive /\ presses < MaxPresses
  /\ presses' = presses + 1
  /\ queue' = Append(queue, b)
  /\ UNCHANGED <<process, panel, world, request, manager, launches, events>>

\* A very long hold: _consume_isp_prep_request(), then _stop_active_application().
Consumes == request /\ active /\ app = "print_lab"

VeryLongHold ==
  /\ Free /\ ~visible /\ Alive /\ presses < MaxPresses
  /\ presses' = presses + 1
  /\ entering' = Consumes
  /\ request' = (request /\ ~Consumes)
  /\ daemon' = "stopping"
  /\ told' = TRUE
  /\ UNCHANGED <<app, thread, running, open, ui, dirty, signature, stale, signalled, panel, queue, world,
                 active, visible, prepared, callback, launches, events>>

StopReturns ==
  /\ daemon = "stopping" /\ ~Alive
  /\ daemon' = "stopped"
  /\ UNCHANGED <<process, panel, queue, world, request, active, visible, entering, prepared, callback, bounds>>

\* show_menu() also removes the state file of hardware preparation.
ShowsMenu ==
  /\ visible' = TRUE /\ active' = FALSE /\ prepared' = FALSE
  /\ panel' = Blank

\* _enter_isp_prep_mode(), once the application was told to stop.
EntersPrep ==
  /\ daemon = "stopped" /\ entering
  /\ visible' = FALSE /\ active' = FALSE /\ prepared' = TRUE
  /\ daemon' = "idle" /\ entering' = FALSE
  /\ UNCHANGED <<process, panel, queue, world, request, callback, bounds>>

ReturnsToMenu ==
  /\ daemon = "stopped" /\ ~entering
  /\ ShowsMenu
  /\ daemon' = "idle"
  /\ UNCHANGED <<process, queue, world, request, entering, callback, bounds>>

\* A press over a hidden launcher without an application.
Recovers ==
  /\ Free /\ ~visible /\ ~Alive /\ presses < MaxPresses
  /\ presses' = presses + 1
  /\ ShowsMenu
  /\ UNCHANGED <<process, queue, world, request, daemon, entering, callback, launches, events>>

\* _handle_application_exit(): a manual stop or a drawn launcher ends it.
CallbackLooks ==
  /\ callback = "due"
  /\ callback' = IF daemon = "stopping" \/ visible THEN "none" ELSE "shows"
  /\ UNCHANGED <<process, panel, queue, world, request, daemon, active, visible, entering, prepared, bounds>>

CallbackShows ==
  /\ callback = "shows"
  /\ ShowsMenu
  /\ callback' = "none"
  /\ UNCHANGED <<process, queue, world, request, daemon, entering, bounds>>

NewProcess(a) ==
  /\ app' = a
  /\ thread' = [main |-> [Idle EXCEPT !.step = "start"], button |-> Idle]
  /\ running' = FALSE /\ open' = FALSE
  /\ ui' = FirstPage /\ dirty' = TRUE /\ signature' = Blank
  /\ stale' = FALSE /\ told' = FALSE /\ signalled' = FALSE

\* Late exit callbacks of an earlier launch are the subject of ManagerDaemon.
Launch(a) ==
  /\ Free /\ visible /\ ~Alive /\ callback = "none" /\ launches < MaxLaunches
  /\ launches' = launches + 1
  /\ visible' = FALSE /\ active' = TRUE
  /\ NewProcess(a)
  /\ UNCHANGED <<panel, queue, world, request, daemon, entering, prepared, callback, presses, events>>

-----------------------------------------------------------------------------
\* The launcher is drawn and nothing was launched yet; __init__() has removed
\* the files of hardware preparation.
Init ==
  /\ app \in Apps
  /\ thread = [main |-> [Idle EXCEPT !.step = "ended"], button |-> Idle]
  /\ running = FALSE /\ open = FALSE
  /\ ui = FirstPage /\ dirty = TRUE /\ signature = Blank /\ panel = Blank
  /\ stale = FALSE /\ queue = <<>> /\ world = 0 /\ request = FALSE
  /\ told = FALSE /\ signalled = FALSE
  /\ daemon = "idle" /\ active = FALSE /\ visible = TRUE
  /\ entering = FALSE /\ prepared = FALSE /\ callback = "none"
  /\ presses = 0 /\ launches = 0 /\ events = 0

Next ==
  \/ \E t \in {"main", "button"} : Take(t) \/ Show(t) \/ Sign(t)
  \/ Draw \/ Compare \/ ShowFails
  \/ Installs \/ Runs \/ SetsUp \/ SetUpPolls \/ Loops \/ Update \/ Fails \/ CleansUp
  \/ SignalArrives \/ Killed \/ Handle \/ WorldChanges
  \/ \E b \in Buttons : Press(b)
  \/ VeryLongHold \/ StopReturns \/ EntersPrep \/ ReturnsToMenu \/ Recovers
  \/ CallbackLooks \/ CallbackShows
  \/ \E a \in Apps : Launch(a)

Spec == Init /\ [][Next]_vars

-----------------------------------------------------------------------------
Up    == Main.step \in {"loop", "update"}
Quiet == Up /\ ~dirty /\ \A t \in {"main", "button"} : thread[t].step \notin {"render", "show", "sign"}

\* When no redraw is marked and neither thread is drawing, the panel shows the
\* page the application is on.  Four things may leave it behind until the next
\* redraw: one thread drew while the other had an image in flight, a code arrived on the
\* page that shows it, the button thread failed to show, and a press came while
\* Entertainment, which draws without the lock, was drawing.
PanelIsCurrent == Quiet /\ ~visible /\ ~stale => panel = View(ui)

\* A very long hold enters hardware preparation only from Print Lab's armed page,
\* however cancels, stops, kills and launches interleave: unless the process
\* that it hits has not yet got round to clearing what a killed one left.
PrepWasArmed ==
  [][daemon' = "stopping" /\ entering' /\ ~entering =>
       \/ ui.page = "isp_prep_armed"
       \/ Main.step \in {"start", "signals", "setup"}]_vars

\* "Launcher will not reclaim the display.": the armed page of Print Lab says
\* that it is safe to unplug the panel.
LauncherStaysAway == [][prepared => ~visible']_vars
=============================================================================
