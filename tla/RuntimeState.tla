---------------------------- MODULE RuntimeState ----------------------------
(***************************************************************************)
(* The settings file of network and transfers, which the console rewrites  *)
(* and the daemon polls, and /run/rocky/state.json, in which the daemon    *)
(* publishes those settings, what it observes of the containers, and which *)
(* application is in the foreground.                                       *)
(*                                                                         *)
(* Sources: manager/runtime/network_transfer.py, manager/api/state_store.py*)
(* and their callers in manager/daemon.py and manager/web/console.py.      *)
(*                                                                         *)
(* The console builds a NetworkTransferConfig per request: it reads the    *)
(* whole file, changes one section and writes the whole file through one   *)
(* temporary name that every request shares.  The daemon's main thread     *)
(* polls between buttons; a monitor thread per launch runs the exit        *)
(* callback.  The publisher's methods hold its lock, so each is one step.  *)
(***************************************************************************)
EXTENDS Integers, FiniteSets

CONSTANTS
  Apps,        \* applications of the launcher
  NoApp,       \* no application
  MaxHandlers, \* bound: updates the console handles at once
  MaxAsked,    \* bound: updates of the settings and launches the operator asks for
  MaxEvents    \* bound: failures, kills and changes of containers

ASSUME NoAppAssumption == NoApp \notin Apps
ASSUME BoundsAssumption ==
  MaxHandlers \in Nat \ {0} /\ {MaxAsked, MaxEvents} \subseteq Nat

VARIABLES
  file,       \* network-transfer.json: its text and its time of change
  temporary,  \* .network-transfer.json.tmp
  stamp,      \* the last time of change given to a file
  request,    \* Handlers -> the update a console thread is making
  updates,    \* updates sent so far
  saved,      \* ghost: the settings that sequential updates have put together
  overlapped, \* ghost: two updates are, or were since the last quiet moment, under way
  facts,      \* what docker answers: the tunnel runs, the engine exists
  on,         \* the daemon process runs
  config,     \* NetworkTransferConfig._config of the daemon
  loaded,     \* _last_loaded_mtime_ns; 0 for None
  poll,       \* where the daemon's poll is, and the text it has read
  raced,      \* ghost: the file changed between the poll's read and its stat
  signature,  \* _last_published_config_signature
  inMemory,   \* RuntimeStatePublisher._state
  published,  \* /run/rocky/state.json
  failed,     \* ghost: the last attempt to publish failed
  task,       \* what the main thread does, and with which application
  watcher,    \* launch -> step of that launch's monitor thread
  launches,   \* applications launched so far
  running,    \* the foreground process
  visible,    \* menu_visible
  manual,     \* _manual_stop_in_progress
  mixed,      \* ghost: an exit callback ran while a launch was being announced
  events      \* failures, kills and changes so far

files    == <<file, temporary, stamp>>
console  == <<request, updates, saved, overlapped>>
polling  == <<config, loaded, poll, raced, signature>>
state    == <<inMemory, published, failed>>
display  == <<task, watcher, launches, running, visible, manual, mixed>>
stateVars == <<files, console, facts, on, polling, state, display, events>>

-----------------------------------------------------------------------------
(* Settings.  One value per section stands for what the section holds.     *)

Sections == {"network", "transfer"}

\* update_network() and update_transfer() check the names of the sections only:
\* a section that is not an object is accepted.  Updates away from the defaults.
Offered == [network |-> {"gluetun", "malformed"}, transfer |-> {"usb"}]

DefaultConfig == [network |-> "none", transfer |-> "internal"]

\* A file's text is settings, Empty (just truncated), Torn (cut or mixed), or the file is Missing.
Settings == [network : {"none", "gluetun", "malformed"}, transfer : {"internal", "usb"}]
Texts    == [whole : BOOLEAN, is : Settings \cup {"Empty", "Torn", "Missing"}]
Text(s)  == [whole |-> TRUE, is |-> s]
Broken(b) == [whole |-> FALSE, is |-> b]
IsMissing(text) == ~text.whole /\ text.is = "Missing"

\* reload(): anything that is not a JSON object counts as no settings at all.
Load(text) == IF text.whole THEN text.is ELSE DefaultConfig

\* Mutant: loaded once, never again.
ChangedFirst(mtime, last) == last = 0 /\ mtime # 0

\* reload_if_changed(): another time of change than the one last loaded.
Changed(mtime, last) == mtime # last

\* Mutant: the request's section over the defaults.
MergedAlone(text, section, value) == [DefaultConfig EXCEPT ![section] = value]

\* _merge(): the section of the request over the snapshot just loaded.
Merged(text, section, value) == [Load(text) EXCEPT ![section] = value]

-----------------------------------------------------------------------------
(* What the daemon derives from the settings and from docker's answers.    *)

Usable(c) == c.network # "malformed"

\* NetworkManager.state_snapshot(): how traffic leaves, and whether the tunnel is up.
TransportMode(c) == IF c.network = "none" THEN "direct" ELSE "vpn"
Connected(c, f)  == c.network = "gluetun" /\ f.tunnel

\* TransferManager._stack_status(): the first thing that is missing.
Problem(c, f) ==
  IF c.network = "gluetun" /\ ~f.tunnel THEN "no tunnel"
  ELSE IF ~f.engine THEN "no engine" ELSE "none"

\* The destination's directories were just made, so the engine alone decides.
Healthy(c, f) == f.engine

\* _infrastructure_state()
Infrastructure(c, f) ==
  [transport |-> TransportMode(c), connected |-> Connected(c, f),
   problem |-> Problem(c, f), healthy |-> Healthy(c, f), destination |-> c.transfer]

NotObserved == [transport |-> "direct", connected |-> FALSE, problem |-> "none",
                healthy |-> FALSE, destination |-> "none"]

-----------------------------------------------------------------------------
(* Publishing.                                                             *)

DefaultState == [infrastructure |-> NotObserved, foreground |-> NoApp, launcher |-> TRUE,
                 active |-> NoApp]

Noted == events' = events + 1
Can   == events < MaxEvents

\* update() merges, then writes a file of its own and renames it.  A write that
\* fails leaves the old file, and _publish_runtime_state() only logs it.
Publish(m) ==
  /\ inMemory' = m
  /\ \/ published' = m /\ failed' = FALSE /\ UNCHANGED events
     \/ Can /\ Noted /\ failed' = TRUE /\ UNCHANGED published

\* set_foreground_application(publish=False)
Foreground(m, app) == [m EXCEPT !.foreground = app, !.launcher = (app = NoApp)]

\* Mutant: the application stays the active one.
AtLauncherKeeps(m) == Foreground(m, NoApp)

\* What show_menu() publishes once the launcher is drawn.
AtLauncher(m) == [Foreground(m, NoApp) EXCEPT !.active = NoApp]

-----------------------------------------------------------------------------
\* A thread per request: which of the free ones it is makes no difference.
Handlers == 1..MaxHandlers

Idle   == [step |-> "idle", section |-> "network", value |-> "none", text |-> DefaultConfig, fd |-> "none"]
NoTask == [step |-> "idle", app |-> NoApp]
NoPoll == [step |-> "idle", text |-> Broken("Missing"), at |-> 0]

\* No settings were ever saved; the daemon's constructor has published once.
StateInit ==
  /\ file = [text |-> Broken("Missing"), mtime |-> 0]
  /\ temporary = Broken("Missing")
  /\ stamp = 0
  /\ request = [h \in Handlers |-> Idle]
  /\ updates = 0
  /\ saved = DefaultConfig
  /\ overlapped = FALSE
  /\ facts = [tunnel |-> FALSE, engine |-> TRUE]
  /\ on = TRUE
  /\ config = DefaultConfig
  /\ loaded = 0
  /\ poll = NoPoll
  /\ raced = FALSE
  /\ signature = Infrastructure(DefaultConfig, facts)
  /\ inMemory = [DefaultState EXCEPT !.infrastructure = signature]
  /\ published = inMemory
  /\ failed = FALSE
  /\ task = [step |-> "menu", app |-> NoApp]
  /\ watcher = [n \in 1..MaxAsked |-> "none"]
  /\ launches = 0
  /\ running = NoApp
  /\ visible = FALSE
  /\ manual = FALSE
  /\ mixed = FALSE
  /\ events = 0

-----------------------------------------------------------------------------
(* The console: handle_update_network_config, handle_update_transfer_config*)

Active(h) == request[h].step # "idle"

\* A request ends; when it was the last one under way, the file as it is then
\* is what later updates build on.
Ends(h, text) ==
  /\ request' = [request EXCEPT ![h] = Idle]
  /\ IF \A g \in Handlers \ {h} : ~Active(g)
       THEN overlapped' = FALSE /\ saved' = IF overlapped THEN Load(text) ELSE saved
       ELSE UNCHANGED <<overlapped, saved>>

\* NetworkTransferConfig() reads the file; update_*() merges in memory.
Update(h, section, value) ==
  /\ ~Active(h) /\ (\A g \in Handlers : g < h => Active(g)) /\ launches + updates < MaxAsked
  /\ updates' = updates + 1
  /\ request' = [request EXCEPT ![h] =
       [step |-> "open", section |-> section, value |-> value,
        text |-> Merged(file.text, section, value), fd |-> "none"]]
  /\ overlapped' = (overlapped \/ \E g \in Handlers : Active(g))
  /\ UNCHANGED <<files, saved, facts, on, polling, state, display, events>>

\* _write(): write_text() truncates the temporary file, or makes it.
OpenTemporary(h) ==
  /\ request[h].step = "open"
  /\ temporary' = Broken("Empty")
  /\ request' = [request EXCEPT ![h].step = "write", ![h].fd = "temporary"]
  /\ UNCHANGED <<file, stamp, updates, saved, overlapped, facts, on, polling, state, display, events>>

\* What a file holds once `text` was written at its start: what another request
\* wrote there before may be longer.
Over(old, text) ==
  LET longer == IF old.whole THEN old.is # text ELSE old.is # "Empty"
  IN {Text(text)} \cup (IF longer THEN {Broken("Torn")} ELSE {})

\* The text goes to the file that was opened, whatever its name is by now.
WriteTemporary(h) ==
  /\ request[h].step = "write"
  /\ request' = [request EXCEPT ![h].step = "replace", ![h].fd = "none"]
  /\ CASE request[h].fd = "temporary" ->
            /\ temporary' \in Over(temporary, request[h].text)
            /\ UNCHANGED <<file, stamp>>
       [] request[h].fd = "file" ->
            /\ \E t \in Over(file.text, request[h].text) : file' = [text |-> t, mtime |-> stamp + 1]
            /\ stamp' = stamp + 1
            /\ UNCHANGED temporary
       [] OTHER -> UNCHANGED files
  /\ UNCHANGED <<updates, saved, overlapped, facts, on, polling, state, display, events>>

\* os.replace(): other requests that hold the temporary file open now hold the
\* settings file.  It raises when another request has moved the temporary file.
Replace(h) ==
  /\ request[h].step = "replace"
  /\ IF IsMissing(temporary)
       THEN /\ Ends(h, file.text)
            /\ UNCHANGED files
       ELSE /\ file' = [text |-> temporary, mtime |-> stamp + 1]
            /\ stamp' = stamp + 1
            /\ temporary' = Broken("Missing")
            /\ LET rest == [g \in Handlers |->
                     [request[g] EXCEPT !.fd =
                        CASE @ = "temporary" -> "file" [] @ = "file" -> "gone" [] OTHER -> @]]
                   last == \A g \in Handlers \ {h} : ~Active(g)
               IN /\ request' = [rest EXCEPT ![h] = Idle]
                  /\ overlapped' = (overlapped /\ ~last)
                  /\ saved' = IF overlapped THEN (IF last THEN Load(temporary) ELSE saved)
                              ELSE [saved EXCEPT ![request[h].section] = request[h].value]
  /\ UNCHANGED <<updates, facts, on, polling, state, display, events>>

\* OSError while writing: the client gets an error, the temporary file stays cut.
WriteFails(h) ==
  /\ request[h].step = "write" /\ request[h].fd = "temporary" /\ Can /\ Noted
  /\ temporary' = Broken("Torn")
  /\ Ends(h, file.text)
  /\ UNCHANGED <<file, stamp, updates, facts, on, polling, state, display>>

\* The console is killed: its threads vanish between any two steps.
ConsoleKilled ==
  /\ \E h \in Handlers : Active(h)
  /\ Can /\ Noted
  /\ request' = [h \in Handlers |-> Idle]
  /\ overlapped' = FALSE
  /\ saved' = IF overlapped THEN Load(file.text) ELSE saved
  /\ UNCHANGED <<files, updates, facts, on, polling, state, display>>

-----------------------------------------------------------------------------
(* The daemon's poll, between two buttons of its main thread.              *)

Free == on /\ task.step = "idle"

\* reload_if_changed(): stat and compare.
PollLooks ==
  /\ Free /\ poll.step = "idle"
  /\ poll' = [poll EXCEPT !.step = IF Changed(file.mtime, loaded) THEN "read" ELSE "publish"]
  /\ UNCHANGED <<files, console, facts, on, config, loaded, raced, signature, state, display, events>>

\* reload(): read the text.
PollReads ==
  /\ on /\ poll.step = "read"
  /\ poll' = [step |-> "stamp", text |-> file.text, at |-> file.mtime]
  /\ UNCHANGED <<files, console, facts, on, config, loaded, raced, signature, state, display, events>>

\* reload(): then ask for the time of change, of the file that is there now.
\* Text that is not JSON leaves None, so that the next poll reads again.
PollStamps ==
  /\ on /\ poll.step = "stamp"
  /\ loaded' = IF poll.text.whole THEN file.mtime ELSE 0
  /\ raced' = (poll.text.whole /\ poll.at # file.mtime)
  /\ config' = Load(poll.text)
  /\ poll' = [NoPoll EXCEPT !.step = "publish"]
  /\ UNCHANGED <<files, console, facts, on, signature, state, display, events>>

\* The rest of _publish_reconciled_infrastructure_state().  The signature is
\* noted before the attempt to publish.  Malformed settings raise on the way.
PollPublishes ==
  /\ on /\ poll.step = "publish"
  /\ poll' = NoPoll
  /\ IF Usable(config) /\ Infrastructure(config, facts) # signature
       THEN /\ signature' = Infrastructure(config, facts)
            /\ Publish([inMemory EXCEPT !.infrastructure = Infrastructure(config, facts)])
       ELSE UNCHANGED <<signature, state, events>>
  /\ UNCHANGED <<files, console, facts, on, config, loaded, raced, display>>

\* docker: a container comes or goes.
ContainersChange ==
  /\ Can /\ Noted
  /\ \E what \in {"tunnel", "engine"} : facts' = [facts EXCEPT ![what] = ~@]
  /\ UNCHANGED <<files, console, on, polling, state, display>>

\* Other publications, of the mode thread or of a mode change, carry what is in memory.
ModePublishes ==
  /\ on /\ Can /\ Noted
  /\ published' = inMemory
  /\ failed' = FALSE
  /\ UNCHANGED <<files, console, facts, on, polling, inMemory, display>>

-----------------------------------------------------------------------------
(* The main thread: _activate_service, the Home hold, show_menu.           *)

Busy(n) == watcher[n] \notin {"none", "done"}
At(step, app) == task' = [step |-> step, app |-> app]

\* hide_menu(), under the state lock.
HideMenu(app) ==
  /\ Free /\ poll.step = "idle" /\ visible /\ launches + updates < MaxAsked
  /\ visible' = FALSE
  /\ Publish([inMemory EXCEPT !.launcher = FALSE])
  /\ At("launch", app)
  /\ mixed' = \E n \in DOMAIN watcher : Busy(n)
  /\ UNCHANGED <<files, console, facts, on, polling, watcher, launches, running, manual>>

\* application_manager.launch() spawns the process and its monitor, or raises.
Launch ==
  /\ on /\ task.step = "launch"
  /\ \/ /\ running' = task.app
        /\ launches' = launches + 1
        /\ watcher' = [watcher EXCEPT ![launches + 1] = "waits"]
        /\ At("set", task.app)
     \/ At("menu", NoApp) /\ UNCHANGED <<running, launches, watcher>>
  /\ UNCHANGED <<files, console, facts, on, polling, state, visible, manual, mixed, events>>

\* set_foreground_application("...", publish=False)
Announce ==
  /\ on /\ task.step = "set"
  /\ inMemory' = Foreground(inMemory, task.app)
  /\ At("publish", task.app)
  /\ UNCHANGED <<files, console, facts, on, polling, published, failed, watcher, launches,
                 running, visible, manual, mixed, events>>

\* _publish_runtime_state() gathers the mode first; meanwhile others may publish.
PublishStarted ==
  /\ on /\ task.step = "publish"
  /\ Publish([inMemory EXCEPT !.active = task.app])
  /\ At("idle", NoApp)
  /\ UNCHANGED <<files, console, facts, on, polling, watcher, launches, running, visible, manual, mixed>>

\* A Home hold: _stop_active_application() raises the flag and kills.
HomeHold ==
  /\ Free /\ poll.step = "idle" /\ ~visible /\ running # NoApp
  /\ manual' = TRUE
  /\ At("stopping", NoApp)
  /\ UNCHANGED <<files, console, facts, on, polling, state, watcher, launches, running, visible, mixed, events>>

StopReturns ==
  /\ on /\ task.step = "stopping" /\ running = NoApp
  /\ manual' = FALSE
  /\ At("menu", NoApp)
  /\ UNCHANGED <<files, console, facts, on, polling, state, watcher, launches, running, visible, mixed, events>>

\* A press over a hidden launcher without an application brings it back.
Recover ==
  /\ Free /\ poll.step = "idle" /\ ~visible /\ running = NoApp
  /\ At("menu", NoApp)
  /\ UNCHANGED <<files, console, facts, on, polling, state, watcher, launches, running, visible, manual, mixed, events>>

\* show_menu() under the state lock: the launcher is drawn, or stays hidden.
ShowMenu ==
  \/ /\ visible' = TRUE
     /\ Publish(AtLauncher(inMemory))
  \/ /\ Can /\ Noted
     /\ visible' = FALSE
     /\ UNCHANGED state

MainShowsMenu ==
  /\ on /\ task.step = "menu"
  /\ ShowMenu
  /\ At("idle", NoApp)
  /\ UNCHANGED <<files, console, facts, on, polling, watcher, launches, running, manual, mixed>>

-----------------------------------------------------------------------------
(* The monitor threads: _handle_application_exit                           *)

\* The foreground process ends, of itself or because it was stopped.
ApplicationEnds ==
  /\ running # NoApp
  /\ running' = NoApp
  /\ watcher' = [watcher EXCEPT ![launches] = "looks"]
  /\ mixed' = (mixed \/ task.step \in {"set", "publish"})
  /\ UNCHANGED <<files, console, facts, on, polling, state, task, launches, visible, manual, events>>

WatcherAt(n, step) == watcher' = [watcher EXCEPT ![n] = step]

\* Under the state lock: a manual stop, or a drawn launcher, ends the callback.
WatcherLooks(n) ==
  /\ on /\ watcher[n] = "looks"
  /\ WatcherAt(n, IF manual \/ visible THEN "done" ELSE "sets")
  /\ UNCHANGED <<files, console, facts, on, polling, state, task, launches, running, visible, manual, mixed, events>>

WatcherSets(n) ==
  /\ on /\ watcher[n] = "sets"
  /\ inMemory' = Foreground(inMemory, NoApp)
  /\ WatcherAt(n, "publishes")
  /\ UNCHANGED <<files, console, facts, on, polling, published, failed, task, launches, running,
                 visible, manual, mixed, events>>

WatcherPublishes(n) ==
  /\ on /\ watcher[n] = "publishes"
  /\ Publish([inMemory EXCEPT !.active = NoApp])
  /\ WatcherAt(n, "menu")
  /\ UNCHANGED <<files, console, facts, on, polling, task, launches, running, visible, manual, mixed>>

WatcherShowsMenu(n) ==
  /\ on /\ watcher[n] = "menu"
  /\ ShowMenu
  /\ WatcherAt(n, "done")
  /\ UNCHANGED <<files, console, facts, on, polling, task, launches, running, manual, mixed>>

-----------------------------------------------------------------------------
(* The daemon's process.                                                   *)

\* ManagerDaemon(): reload, first publication, then run() shows the launcher.
\* Malformed settings raise in the constructor: systemd tries again later.
DaemonStarts ==
  /\ ~on
  /\ Usable(Load(file.text))
  /\ on' = TRUE
  /\ config' = Load(file.text)
  /\ loaded' = IF file.text.whole THEN file.mtime ELSE 0
  /\ raced' = FALSE
  /\ poll' = NoPoll
  /\ signature' = Infrastructure(Load(file.text), facts)
  /\ Publish([DefaultState EXCEPT !.infrastructure = Infrastructure(Load(file.text), facts)])
  /\ At("menu", NoApp)
  /\ UNCHANGED <<files, console, facts, watcher, launches, running, visible, manual, mixed>>

\* The daemon is killed, or stopped: systemd ends every process of the unit.
\* A stop publishes once more before the process ends.
DaemonEnds ==
  /\ on /\ Can /\ Noted
  /\ on' = FALSE
  /\ running' = NoApp /\ visible' = FALSE /\ manual' = FALSE /\ mixed' = FALSE
  /\ task' = NoTask /\ poll' = NoPoll
  /\ watcher' = [n \in DOMAIN watcher |-> IF n <= launches THEN "done" ELSE "none"]
  /\ inMemory' = DefaultState
  /\ \/ UNCHANGED published
     \/ task.step = "idle" /\ published' = [AtLauncher(inMemory) EXCEPT !.launcher = FALSE]
  /\ failed' = FALSE
  /\ UNCHANGED <<files, console, facts, config, loaded, raced, signature, launches>>

-----------------------------------------------------------------------------
ConsoleStep(h) == OpenTemporary(h) \/ WriteTemporary(h) \/ Replace(h)

PollStep == PollReads \/ PollStamps \/ PollPublishes

MainStep == Launch \/ Announce \/ PublishStarted \/ StopReturns \/ MainShowsMenu

WatcherStep(n) == WatcherLooks(n) \/ WatcherSets(n) \/ WatcherPublishes(n) \/ WatcherShowsMenu(n)

StateNext ==
  \/ \E h \in Handlers : \/ \E s \in Sections : \E v \in Offered[s] : Update(h, s, v)
                        \/ ConsoleStep(h) \/ WriteFails(h)
  \/ ConsoleKilled \/ ContainersChange \/ ModePublishes
  \/ PollLooks \/ PollStep \/ MainStep
  \/ \E a \in Apps : HideMenu(a)
  \/ HomeHold \/ Recover \/ ApplicationEnds
  \/ \E n \in DOMAIN watcher : WatcherStep(n)
  \/ DaemonStarts \/ DaemonEnds

\* Threads that are not blocked go on; the button loop asks for the poll between
\* any two presses, so that no stream of presses keeps it away (SF); a
\* process that was told to stop ends, and a daemon that is down is started again.
StateFairness ==
  /\ \A h \in Handlers : WF_stateVars(ConsoleStep(h))
  /\ SF_stateVars(PollLooks) /\ WF_stateVars(PollStep) /\ WF_stateVars(MainStep) /\ WF_stateVars(DaemonStarts)
  /\ WF_stateVars(manual /\ ApplicationEnds)
  /\ \A n \in 1..MaxAsked : WF_stateVars(WatcherStep(n))

StateSpec == StateInit /\ [][StateNext]_stateVars /\ StateFairness

-----------------------------------------------------------------------------
\* Updates made one after the other build on each other: the settings file
\* holds them all, whole, whatever fails or is killed in between.  Only updates
\* that overlap may lose a section or cut the file, because they share the
\* temporary name.
SettingsSurvive == ~overlapped => Load(file.text) = saved

Quiet == on /\ task.step = "idle" /\ \A n \in DOMAIN watcher : watcher[n] \in {"none", "waits", "done"}

\* When no thread is at work and the panel is not blank, the published foreground application and
\* the published active application are the one that runs, unless an exit
\* callback met a launch that was still being announced or a publication failed.
ForegroundIsTrue ==
  Quiet /\ ~mixed /\ ~failed /\ (visible \/ running # NoApp) =>
    published.foreground = running /\ published.active = running /\ published.launcher = visible

\* The settings last saved and the containers' state reach the published file.
\* What can keep them from it for good: malformed settings, a file replaced
\* between the poll's read and its stat, and a publication that failed after
\* its signature was noted.
Reached ==
  \/ ~Usable(Load(file.text)) \/ raced \/ failed
  \/ published.infrastructure = Infrastructure(Load(file.text), facts)

SettingsArrive == <>[](Free => Reached)
=============================================================================
