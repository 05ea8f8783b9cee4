# Rocky Runtime: a TLA+ project

The repository is the runtime of a small appliance: an Orange Pi Zero 2W with an
e-paper panel and two keys. A **manager daemon** draws a launcher on the panel,
turns key presses into gestures, starts one **foreground application** at a time
and gives it the panel, and enforces the **mode** (which containers run) that the
operator asks for on the device or in a web console. The modules here model the
parts that run concurrently and decide what happens to the panel, to the
applications and to the containers. TLC checks them on small instances, and
TLAPS proves every safety property that the passing runs check, for every value
of the constants.

    tlc -workers 2 -config MCEventBus.cfg MCEventBus     # a run (see "Runs")
    tlapm EventBusProofs.tla                             # its proofs

A property that names an *excuse*, a history variable, says what the code keeps
outside the case the excuse stands for. Section 3 lists every excuse with the
hazard it takes out: those outcomes are possible, and no run claims otherwise.

`PROJECT.json` maps every definition to the lines it models, and lists the runs,
the mutants (one plausible bug per property, which the run must catch), the
hazards, the findings and the theorems.

## 1. Inventory

Threads and processes first, because they are where the difficulty is:

    kernel ──key events──▶ main thread of the daemon ──calls──▶ ApplicationManager
                            │  ▲   │   (menu, modes)              │ spawns
              sendall()     │  │   │ docker start/stop            ▼
    ButtonServer ◀──────────┘  │   ▼                         application process
        ▲ accept thread        │  containers                      │ exits
        └──── sockets ── application's client thread              ▼
                               └──────── exit callback ─── its monitor thread
    main thread ──systemctl freeze/thaw/start──▶ resident displays
    main thread ──▶ /run/rocky/state.json ──▶ console, applications
    web console (own process, a thread per request) ──▶ current-mode.json,
                  network-transfer.json, workspaces, docker
    mode selector (an application) ──▶ current-mode.json
    command line, daemon, recovery ──▶ runtime/state.json, the programs it records
    transfer servers (own processes, a thread per request and per job) ──▶
                  downloads, the mini PC over ssh, the Switch's card
    event bus: publishers ─▶ queue ─▶ worker thread ─▶ subscribers

| component | source | state | operations | what makes it correct |
|---|---|---|---|---|
| Application manager | `manager/runtime/application_manager.py` | `_process`, `_service`, `_stopping`, `_generation`, `active_application.json`, a monitor thread per application | launch, stop, close, monitor, recover_stale_state | one live application; the record names the live one; one truthful exit event each; a stopped application dies |
| Manager daemon | `manager/daemon.py` | `running`, `menu_visible`, `active_app_id`, settling, `_menu_transition_in_progress`, `_manual_stop_in_progress` | two button handlers, show/hide menu, activation, manual stop, exit callback, shutdown | the launcher comes back; buttons do not stay ignored; Home ends any application; shutdown leaves none |
| Mode reconciler | `manager/daemon.py` 430-940, `apps/mode_selector.py`, `manager/web/console.py` | `current-mode.json`, the status cache, the containers | poll, request, enforce | tunnel before transfer, transfer stopped before tunnel, the last request wins |
| Buttons | `manager/button_service.py`, `manager/runtime/button_protocol.py`, `manager/sdk/button_app.py` | press and release times, clients and their sockets | handle_event, publish, accept, client loop | a gesture is the true hold; Home is not lost |
| Event bus | `manager/runtime/event_bus.py` | `_running`, `_worker`, the bounded queue and its unfinished count | publish, start, stop, wait_until_idle | a running bus is served; idle means done; stop returns |
| Resident displays | `manager/daemon.py` 1643-1904, 2447-2927 | units under systemd, suppressed callbacks, the status cache | freeze, thaw, park, pause, resume, swap | one program draws; nobody draws over the launcher; Home leads back |
| Menu service, display manager | `manager/menu_service.py`, `manager/runtime/display_manager.py` | pages, selection, the open panel | render, prepare_for_app, close | the panel is released before it is handed on |
| State publisher | `manager/api/state_store.py` | `/run/rocky/state.json` | update, set_foreground_application | what is published is what is so |
| Network and transfer config | `manager/runtime/network_transfer.py` | one JSON file and its mtime | load, reload_if_changed, update_* | no lost update; the daemon comes to know it |
| Transfer tools | `scripts/mini_pc_transfer_control.py`, `scripts/switch_transfer_server.py`, `scripts/ns_usbloader_*.py` | jobs, `.partial` files | copy, verify, delete, merge, upload, eject | nothing is deleted that was not copied; nothing is cut under its own name; retries deliver |
| Web console | `manager/web/console.py` | rate limits, proxy tokens, workspaces | requests, docker actions, files | mode requests are whole and seen; files are not lost by accident; answers are true; limits hold |
| Process manager | `manager/process_manager.py`, `manager/state.py`, `tools/runtime_recovery.py` | `runtime/state.json` | start, stop, recover | a program that runs is recorded |
| Applications on the SDK | `manager/sdk/`, `apps/torrentz.py`, `print_lab.py`, `entertainment.py`, `mode_selector.py` | pages, a dirty mark, a signature | setup, poll, press, redraw, cleanup | the panel shows the page; preparation is entered only when asked for |
| Plain applications | `apps/reader.py`, `apps/tesserae.py` | a page, a tag | draw, turn, poll | the page is kept; the frame shown is the tag's |
| Catalog, plugins, config | `manager/runtime/service_catalog.py`, `plugin_manager.py`, ... | none of their own | load, validate | valid input is accepted as written |
| Event logger, CLI, probes, set-up scripts, unit files | `manager/cli/`, `tools/`, `systemd/` | none | print, probe, set up | input and output only |

Hard behaviours, each listed with its line in `PROJECT.json` "hazards":

- *Interleaving.* The monitor thread of an application that is over runs beside
  the launch or stop of the next; `show_menu()` runs on two threads at once; a
  bus is restarted while a stop of it is half done; an application draws on two
  threads; every HTTP server answers on a thread per request, and looks at a
  file before it replaces it.
- *Stale state.* Container statuses up to a second old and a mode up to half a
  minute old decide what is started; the manual-stop flag is read after it was
  cleared; presses are handled seconds after they were made.
- *Failure.* A process that runs although its launch raised; containers whose
  command failed; a request file that is half written; a helper that ignores
  SIGTERM; the daemon dying while its application lives on; a unit that was not
  paused; a copy that was cut short, a card that is pulled out.
- *Shared files.* `runtime/state.json` and `network-transfer.json` are rewritten
  whole, by several threads and programs, each through one temporary name.
- *Blocking and limits.* A full socket blocks the main thread, a full queue
  meets a sentinel, a tunnel is waited for a limited number of rounds.

## 2. Modules

| module | models |
|---|---|
| `ForegroundSlot` | abstract specification: one slot, one live application, each end announced at most once and only when it is over |
| `ApplicationManager` | the application manager, with the daemon's death and restart |
| `ManagerDaemon` | launcher, buttons, activation, manual stop, exit callbacks, shutdown |
| `ModeReconcile` | the request file, its writers and the reconciler |
| `Buttons` | key events, gestures, the button server and its clients |
| `EventBus` | the asynchronous side of the event bus |
| `ResidentDisplays` | the displays that systemd runs, and how they take turns with the launcher and an application |
| `MiniPcTransfer`, `SwitchTransfer` | the jobs of the two transfer servers |
| `RuntimeState` | the settings, the published state, and who writes them |
| `ButtonApps`, `PlainApps` | the applications with and without buttons |
| `ProcessRecord` | the programs of the command line and their record |
| `ConsoleFiles`, `ConsoleGate` | the console's file requests and its rate limiter |
| `RuntimeProofs` | the theorems about `ApplicationManager` and `RuntimeState` |
| `ManagerDaemonProofs`, `ModeReconcileProofs`, `EventBusProofs`, `ResidentDisplaysProofs` | those about the module they are named after |
| `ButtonsAndMiniPcProofs` | those about `Buttons` and `MiniPcTransfer` |
| `ApplicationsProofs` | those about `ButtonApps`, `PlainApps` and `ProcessRecord` |
| `WebServicesProofs` | those about `SwitchTransfer`, `ConsoleFiles` and `ConsoleGate` |
| `MC*` | the instances TLC checks |

`ApplicationManager` and `ManagerDaemon` both implement `ForegroundSlot`
(`Slot == INSTANCE ForegroundSlot WITH ...`, property `SlotSpec`). This is how
they compose: the daemon's module keeps of the manager only what the daemon can
see of it, and the abstract specification is what both keep to.

### ApplicationManager

`launch()` and a monitor's bookkeeping hold the RLock; `stop()` holds it only to
pick its target. So `launch()` is two steps under `lock` (spawn, record) because
the write may fail or the daemon die between them, a monitor's clean-up is one,
and `stop()` is pick, SIGTERM, wait, SIGKILL, wait, with everybody else in
between. A *handle* is one `Popen` object. `Polled(h)` is `Popen.poll()`: while
the monitor sits in `wait()` it owns the reaping, and `poll()` answers None
until it has stored the code. `Crash` loses the memory and keeps the
processes and the file; `Restart` does what `recover_stale_state()` and the
sweep in `bin/start-manager` do. Refused launches raise before any write and are
stutters. `terminate_stale_process()` and `_publish_event()` are never called.

### ManagerDaemon

The main thread handles one press at a time (`pc`), the monitor thread of each
application calls `_handle_application_exit` (`monitor[h]`), and only what the
code does under `_state_lock` is one step. Actions are named for the code's
branches: `RouteStop` is the very long press, `OpenFails`, `HideMenu`,
`LaunchRefused`, `Launch` the parts of `_activate_service()`, `StopBegins` to
`StopReturns` those of `_stop_active_application()`, `ShowBegins(t)` to
`ShowEnds(t)` those of `show_menu()` on thread t. `CloseOutcomes` and `Faults`
say what may fail. As committed `CloseOutcomes` is `{"raises"}` (see findings);
the passing run has `{"ok", "raises"}`, so its results hold with and without a
repair. Resident displays are the subject of `ResidentDisplays`, hardware
preparation after its entry and the published payload those of `ButtonApps` and
`RuntimeState`.

### ModeReconcile

A pass of the main thread is a `plan`, the sequence of goals the code visits for
a mode, and each goal is looked at (`Look`, through the cache), commanded
(`Call`) and, for the tunnel, waited for (`Wait`). The request is a mode or
`"torn"`, what a reader sees while a plain `write_text` has truncated the file;
the console replaces the file instead, which orphans a writer that holds the old
one open. `doubt` is a history variable: the units that changed, or whose command
or inspection failed, since the reconciler last looked. It appears in properties
only: what the reconciler does is checked against what it could know.

### Buttons

Time is a clock in ticks. `kernel` is what evdev has queued, with the kernel's
times; the main thread classifies a release by the difference of the two times
(`ReadsRelease`), drops bounces (`ReadsBounce`), and sends to each client in turn
(`SendTo`, blocked while the socket is full). Every key event carries the true
hold for comparison; no step reads it. The accept thread, the applications'
client threads, hanging and ending applications, and connections whose client is
gone before it is accepted interleave with it.

### EventBus

A worker is known by the number of its `start()`. Every point between two lock
regions of `publish()` and `stop()` is a value of `call[t].at`, and subscribers
may call the bus from the worker. `accepted`, `done` and `evicted` are history
variables. `Take` of a sentinel and its `task_done()` are one step.

### ResidentDisplays

Here the units are in front and the plain application behind: `unit[d]` is what
systemd has (inactive, activating, active, frozen), `cache[d]` what the daemon
last heard. The quiesce loops, pausing, parking, thawing, starting and the swap of
a short press are walked by two threads, the main one and that of an exit
callback. A status answer may be a second old or fail; systemctl may fail; units
may be started behind the daemon, die, or hang in their start.

`Press` is the heads of the two button handlers with the launcher hidden. What
`_app_is_running()` says decides: a managed display that is back after SIGCONT
is no application to it, so any press over one recovers the launcher; over a unit
that answers, a press is forwarded, parks or swaps; and over one that does not
settle only a very long press acts, by stopping (`StopActiveUnit` the unit when a
unit is the active display, `StopApplication` the manager's process otherwise).
`hide_menu()` ends in `menu.close()`, which raises in this commit whenever it is
reached; every step that calls it has both outcomes (`CloseRaises`), so the
results hold with and without a repair.

`excused` is a history variable: a display gets into it when a call for it failed,
an answer was wrong, the loops passed over it while it was activating, or somebody
else started it; it gets out when a loop looked and found that no pause was
needed, or paused it. `overtaken` is another: the displays that were opened while
the exit callback of an application was in `show_menu()` past its look at the
displays, or had just drawn the launcher that the opening had hidden.

Exit callbacks are suppressed for managed displays only. `Ragnar`'s
state is taken from `runtime/state.json`, which only the command line writes
(`ProcessRecord`), so for a process that the daemon itself launched
`_managed_process_matches` is false and it is stopped as any application is.
Not modelled: pausing by SIGSTOP, and `pause_services` without
`freeze_services`. No display of `config/services.json` uses either.

### MiniPcTransfer

A job scans the paths it was asked for, looks at each file on the mini PC,
copies what is missing or has another size, and compares sizes again; `Request`
threads ask for deletions, which need a verified job or equal sizes.
Abstractions: one host; the configuration is the destination folder; a copy that
was cut short has a size of its own; the verification of all paths is one step.
A path is a folder with members. `doubt` holds the paths whose sides others
changed since the sizes were compared, whose name was sent again meanwhile, or
for which equal sizes hid different contents.

### SwitchTransfer

`merge_copy()` file by file: clear the old `.partial`, write it, flush, unlink
the target (with replace), rename, go on; the card may be pulled out, mounted
again, ejected, filled, and jobs killed between any two of these. Uploads write
in place. The card is looked for once per selected source, so the later files of a
folder go on without it, and a sync that times out ends the job as failed.
Two jobs on one file share its `.partial`, about which nothing is
promised: `shared` names those files. A job whose card went away goes on into the
empty mount point: `astray`.

### RuntimeState

Console threads load, merge, write the temporary and rename; the daemon's
`reload_if_changed()` reads, then asks for the time of change; `_poll_config`
publishes when the signature changed, noting it first. A launch writes the
foreground application in two steps, and so do the exit callback and the menu.
`overlapped`, `mixed`, `raced` and `failed` are history variables for the excuses
that the properties name. Each section of the settings is one value; two writes
have different times of change; the publication of a mode is an event.

### ButtonApps, PlainApps, ProcessRecord

`ButtonApps` is one process at a time of the SDK: `run()` from the installation
of the signal handlers to `cleanup()`, the main loop's poll and redraw, the
button thread's press and redraw, and for Print Lab the file by which it asks the
daemon for hardware preparation, with the daemon's side of it. What happens under
an application's lock is one step, and so is `display.show`. Entertainment draws
without a lock; it reads `published.state.*`, which the daemon's file does not
have, so it never shows data. Late exit callbacks of earlier launches are left to
`ManagerDaemon`.

`PlainApps` has the Reader, whose signal handlers set an integer that the loop
takes (a signal before they are installed kills it), and the Tesserae client,
which keeps the tag of the last frame that had one. Tags are honest: one tag, one
frame. The server goes up and down, changes its frame, its envelope and whether
it tags frames at any time; `bare` remembers the frame that came without a tag
after the last that had one. Starts, kills, new documents, panels that fail, which
ends `main()` where the code does not catch it, and every answer interleave.

`ProcessRecord` has the commands `start` and `stop`, the daemon's termination of a
recorded display and the recovery, each a process that loads, waits and
saves; a record that is read while it is written counts as idle. A program is
its process group, and numbers are not used again: that `stop` after a reboot
may signal a stranger is out of the model, and so is that the recovery signals the
recorded process alone and may leave helpers of its group alive.

### ConsoleFiles, ConsoleGate

Each request looks, then acts, and answers (with its audit line) at last.
A workspace holds files and trees one level deep; temporary files are forgotten when their
request ends; `mkdir` is asked for at the top only, and what is at the top is not moved
into trees. Requests that are refused before they look change nothing and are
left out. `nearby` says whether the staging directory of deletions is on the
workspace's file system; when it is not, `os.replace` fails, so every delete fails
and changes nothing.

`ConsoleGate` is one bucket. Threads read the clock before they take the lock;
the clock may be set. Time is in half seconds so that the rounding of
`retry_after` shows.

### Composition

`ApplicationManager` and `ManagerDaemon` meet in `ForegroundSlot`. The daemon and
what it publishes meet in `RuntimeState`, the daemon and Print Lab in
`ButtonApps`, command line, daemon and recovery in `ProcessRecord`, console and daemon in
`ModeReconcile` and `RuntimeState`. `MCApplications` and `MCWebServices` put modules
that share nothing side by side: `kind` picks the one that takes steps, so
that one run covers them.

## 3. Runs

| run | expects | what it shows |
|---|---|---|
| `app_manager` | pass | two threads, two applications (one forks a helper), one death of the daemon: one live application, a right record, truthful events, every exit announced, stopped applications die, `ForegroundSlot` implemented |
| `manager_daemon` | pass | two applications, every press, renders, launches and `menu.close()` fail: the launcher returns, transitions end, Home works, shutdown leaves nothing |
| `exit_undetected` | violation | an application whose state file could not be written ends unnoticed |
| `menu_close` | violation | with `MenuService.close()` as committed no activation reaches `launch()` |
| `mode_reconcile` | pass | tunnel before transfer, transfer down before tunnel, the last request wins |
| `buttons` | pass | gestures are the true holds; Home ends an application unless it hangs behind a full socket |
| `event_bus` | pass | a running bus is served, idle means done, accepted events are served, stops return |
| `resident_displays` | pass | two displays draw only where one is `excused`, one over the launcher only where it is `excused` or `overtaken`; a held button leads back to the launcher |
| `mini_pc_transfer` | pass | nothing is deleted whose copy is not there; retries deliver |
| `runtime_state` | pass | sequential updates survive; the foreground is published right; settings arrive |
| `applications` | pass | the panel shows the page; preparation is entered only from the armed page; the page is kept; the last frame read is shown; a program that runs is recorded |
| `web_services` | pass | targets are whole; completed copies are there; old or new is kept; files are not lost; answers are true; the rate limit holds and its wait is enough |

Each property of a passing run has a mutant: a definition of the model in the form
that a plausible slip in the code would give it (a guard dropped, a flag kept, a
wrong comparison). TLC finds the property violated with the mutant in place, under
the run's own configuration.

A violation run checks one statement of a document, comment or docstring that
the code does not keep; it is quoted under "findings" in `PROJECT.json`. Seven more
configurations are not among the runs and reproduce what section 5 says with
their module: `MCStopGroup`, `MCOldApplication` (with `MCApplicationManager`),
`MCManualStop`, `MCDisplayOwner` (`MCManagerDaemon`), `MCModeTorn` (`MCModeReconcile`),
`MCButtonsHome` (`MCButtons`) and `MCHardwarePrep` (`MCApplications`).
The runs check no `TypeOK`: each that a module states is proved (section 4). In
modules without one the inductive invariants of the proofs state the types.

**Excuses.** What a property leaves out, because the code does it; the hazard is
then not covered by the run, and its entry in `PROJECT.json` says so.

| property | leaves out | when |
|---|---|---|
| `OneDraws`, `LauncherOwnsPanel` | `excused` | a display was not paused (failed call, wrong or late answer, activating) or others started it |
| `LauncherOwnsPanel` | `overtaken` | a display was opened while an exit callback was drawing the launcher |
| `DeletedIsKept` | `doubt` | a destination changed after the verification, or its name was sent again |
| `SettingsSurvive` | `overlapped` | two updates of the settings overlap |
| `ForegroundIsTrue` | `mixed`, `failed` | an exit callback crosses a launch; the last publication failed |
| `SettingsArrive` | `raced`, `failed` | a change between the poll's read and its stat; a failed publication |
| `PanelIsCurrent` | `stale` | two images were in flight at once |
| `PrepWasArmed` | `setup` | a process killed earlier left its request, and the new one has not removed it yet |
| `TagIsShown` | `unshown` | a frame that was read could not be shown |
| `NeverForgotten` | `forgotten`, `crossed` | a display was started anew while the daemon waited for the old one; writers of the record crossed |
| `TargetsWhole`, `OldOrNew`, `CompletedIsThere` | `shared` | two jobs, or a job and an upload, write one file |
| `CompletedIsThere` | `astray` | the card went away while the job ran |
| `NothingIsLost` | `doomed` | it was deleted or overwritten on purpose, or two requests met at one destination |
| `AnswersAreTrue` | foreign changes | another request changed the workspace meanwhile |
| `TunnelFirst`, `TransferLeavesFirst` | `doubt` | the unit changed, or a command or inspection of it failed, since the reconciler looked |
| `WindowHolds` | an overtaken request | between its reading of the clock and the lock another was let in |
| `HomeEndsReader` | a hanging client | it does not read and its socket is full |

`PlaceIsKept` says nothing of a page signal that comes between the take of the
Reader's integer and its reset: it is lost.

**Bounds.** Every bound is a constant with `Max` in its name, or named below.

- *ApplicationManager*, `MaxLaunches = 2`, `MaxCrashes = 1`: the code relates an
  application to the one before it only (one generation number is compared with
  the current one), so a late monitor needs two applications; two callers give
  two overlapping stops. The theorems have no such bound.
- *ManagerDaemon*, `MaxLaunches = 2`: a callback of the first application beside
  the second. Past the bound an activation counts as one that failed.
- *ModeReconcile*, `MaxEdits = 2` (a request overtaken by another, in place or
  by replacement), `MaxFaults = 1` (one failing command, inspection, write or
  foreign docker command, at any point), `WaitRounds = 2` for the code's 15: one
  round that is not the last and one that is. One media container stands for
  the list, whose members are handled alike and independently. Three of the
  modes operators ask for and two of those that launcher entries ask for give
  every kind of goal.
- *Buttons*, `Debounce = 1`, `LongPress = 2`, `VeryLongPress = 3` ticks: the
  smallest numbers in the order of 0.08, 0.9 and 3.6 s; `MaxClock = 3` lets a
  very long hold complete, and bounces happen within a tick. `BufferSize = 1`:
  full and empty are what matter. `MaxApps = 2`: the client of an application that
  ended beside that of the next.
- *EventBus*, `QueueSize = 1`: the queue is full as soon as it is not empty, the
  hardest case for `stop()`. `MaxStarts = 3`: a bus replaced twice while its
  first worker lives. `MaxEvents = 3`: one on a worker, one queued, one refused.

The longest runs are `applications` (2.5 million distinct states, for all five of
its programs), `web_services` (1.6 million) and `resident_displays` (0.4 million, with
a liveness property).

- *ResidentDisplays*: one display that is frozen and one that is terminated, with
  the first given the second as companion, so that a swap happens
  (`config/services.json` names none). `MaxEvents = 1`: one death, hang in the
  start, stop or start by others, at any point; calls fail and answers are wrong
  any number of times.
- *MiniPcTransfer*: a folder of two files, because a job goes on after the first
  has failed; three contents of which two have one size, so that sizes can
  deceive; two destinations, two jobs (overlapping, or a retry), one request,
  `MaxEvents = 1`.
- *SwitchTransfer*: two files, two jobs, an upload, `MaxEvents = 1` (one ejection,
  pull, kill, failure or deletion); every initial card of old files and none.
- *RuntimeState*: `MaxHandlers = 2` (overlap), `MaxAsked = 2` (an update built on
  another, or a launch beside one), `MaxEvents = 1`.
- *ButtonApps*: `MaxPresses = 4` for Print Lab, whose preparation takes that many,
  3 for the others; `MaxLaunches = 2` (a process after a killed one). *PlainApps*:
  two documents, three turns (a wrap and one more), three frames, five upsets
  (start, stop or kill, start again, and two changes). *ProcessRecord*: one command
  at a time beside the daemon and the recovery, three programs, one trouble. Two
  commands at once, two programs and no trouble pass too (3.4 million states).
- *ConsoleFiles*: two threads, two requests, one mishap; three requests pass too,
  in some four minutes. *ConsoleGate*: a limit of two in a window of two seconds,
  seven half seconds, one setting of the clock by three either way: the window
  passes, and one and a half windows can be jumped.

`CHECK_DEADLOCK FALSE` where the model really stops: the daemon ends
(`manager_daemon`), or what is bounded is used up (clock, presses, launches,
publications, jobs, requests).

**Fairness**, and why the code justifies it:

- *ApplicationManager*: a thread inside `launch()` or `stop()` goes on, since its
  loops have deadlines; monitor threads run; a process that was sent SIGKILL
  ends. Nothing makes an application exit or obey SIGTERM.
- *ManagerDaemon*: the same for threads and timers. `Perseverance` is about the
  environment: whoever wants the launcher back keeps pressing, and the panel and
  `menu.close()` do not fail for ever. Strong fairness, because a press is
  ignored during transitions and settling.
- *ModeReconcile*: the main thread runs (it polls once a second), a write that
  began goes on unless it fails, time passes (cached statuses expire). Docker and
  the operators owe nothing; that their doings are bounded is what "nobody
  writes or commands any more" means in `ModeEnforced`.
- *Buttons*: main, accept and client threads run. Applications may hang or end;
  the user owes nothing.
- *EventBus*: calls and workers go on, and subscribers return. Subscribers that
  call `stop(drain=True)` wait for the very event they handle and never return;
  `SubscribersDrain = FALSE` states that assumption.

- *ResidentDisplays*: threads go on inside their loops, which have deadlines;
  settling ends with time. The renders of both threads together do not fail for ever, and the user holds the
  button again and again (strong, because presses during transitions are
  dropped). Units owe nothing: they may hang, die or stay deaf.
- *MiniPcTransfer*: jobs and requests go on (scp and ssh end or time out, and may
  fail); whoever wants a path on the mini PC selects it again and, strong
  because the ids of jobs are taken for a while and come free again. Failures are
  bounded.
- *RuntimeState*: console threads, the daemon's threads and polls go on, the
  poll strongly since the main loop asks for it between any two presses; an
  application that was told to stop ends; a daemon that is down is started again.
  The last is an assumption: the daemon's unit is not in the repository.

The other modules check safety only. For the plain applications and the
transfers to the Switch that is a matter of cost, not of principle.

## 4. Proofs

Every invariant and every action property of a passing run is proved, and the
refinement of `ForegroundSlot` by both its modules: for any number of threads,
launches, daemon deaths, requests, faults, events, workers, displays, files, jobs,
presses, documents and programs. None of the properties is inductive. Each
component has an inductive invariant that implies them, one lemma per action (or
per group of actions that touch the same), and a theorem `Spec => []...` from
which the others follow.

Components that share a proof module share nothing else: where both extend it,
their names are distinct, and each argument stands by itself.

| module | theorem | of | assumes |
|---|---|---|---|
| `RuntimeProofs` | `TypeCorrect` | `ApplicationManager`'s `TypeOK` | `ConstantsAssumption`: swept and forking services are services, bounds are naturals, `NoOne` and `NoService` are no callers and services |
| | `OneApplication` | `OneLiveApplication` | |
| | `AlwaysRecorded` | `RecordedWhileAlive` | |
| | `TruthfulEvents` | `EventIsTruthful` | |
| | `ImplementsSlot`, `PromiseKept` | `SlotSpec`, `Slot!Promise` | |
| | `SettingsSurvived` | `SettingsSurvive` | `BoundsAssumption`: there is a handler |
| | `ForegroundWasTrue` | `ForegroundIsTrue` | `NoAppAssumption`: no application has the name of none |
| `ManagerDaemonProofs` | `TypeCorrect` | `TypeOK` | `ConstantsAssumption`: faults and outcomes of `close()` are among those named |
| | `NothingLeft` | `ShutdownLeavesNothing` | |
| | `ImplementsSlot`, `PromiseKept` | `SlotSpec`, `Slot!Promise` | |
| `ModeReconcileProofs` | `TypeCorrect` | `TypeOK` | media containers are none of the other units; bounds are naturals |
| | `TunnelBeforeTransfer` | `TunnelFirst` | |
| | `TransferBeforeTunnel` | `TransferLeavesFirst` | |
| `EventBusProofs` | `TypeCorrect` | `TypeOK` | callers are not numbers; a positive queue size and number of workers |
| | `AlwaysServed` | `SomeoneServes` | |
| | `IdleMeansDone` | `IdleIsDone` | |
| `ResidentDisplaysProofs` | `TypeCorrect` | `TypeOK` | `DisplaysAssumption`: displays that the daemon terminates are not among those it pauses |
| | `OneDrawsAtATime` | `OneDraws` | |
| | `LauncherAlone` | `LauncherOwnsPanel` | |
| `ButtonsAndMiniPcProofs` | `TypeCorrect` | `Buttons`' `TypeOK` | `TimeAssumption`: debounce below long press below very long press; `SizeAssumption`: a socket holds something |
| | `GestureTrue` | `GestureIsHold` | |
| | `MiniPcTypeCorrect` | `MiniPcTypeOK` | `MiniPcAssumption`: every path has a name, contents have positive sizes, one destination is the default, `None` and `"part"` are no contents |
| | `DeletedWasKept` | `DeletedIsKept` | |
| `ApplicationsProofs` | `PanelCurrent` | `PanelIsCurrent` | `AppsAssumption`: the applications are among the four; their menus are any |
| | `PreparationArmed` | `PrepWasArmed` | |
| | `PlaceKept` | `PlaceIsKept` | `PagesAssumption`: documents are numbered, and each has a page |
| | `TagShown` | `TagIsShown` | |
| | `NeverForgot` | `NeverForgotten` | `ProcessRecordAssumption`: daemon and recovery are no commands |
| `WebServicesProofs` | `CardTypeCorrect` | `SwitchTransfer`'s `TypeOK` | `SwitchAssumption`: files, jobs, the upload handler and the states of a file have distinct names |
| | `WholeTargets` | `TargetsWhole` | |
| | `CompletedStays` | `CompletedIsThere` | |
| | `OldOrNewKept` | `OldOrNew` | |
| | `NothingLost` | `NothingIsLost` | `ConsoleFilesAssumption`: no name in a tree is the tree itself |
| | `TrueAnswers` | `AnswersAreTrue` | |
| | `WindowsHold` | `WindowHolds` | `GateAssumption`: limit and window are positive, the clock moves by integers |
| | `WaitsAreEnough` | `WaitIsEnough` | |

*ApplicationManager.* The heart is `GenerationNamesProcess`: among the monitors
that have not cleaned up yet, the one that carries the current generation is the
one that watches `_process`, so the comparison in `_monitor_process`
(application_manager.py:397) passes exactly when the process the monitor watched
still owns the slot. Without it a late monitor could clear its successor. Around
it: `SlotHoldsTheLive` (a live application of this daemon is `_process`, which
gives `OneLiveApplication`), `MemoryAgrees` (`_service` and `_stopping` are about
`_process`: `EventIsTruthful` needs that `launch()` clears the flag),
`LaunchInProgress` (the half-made state under the lock), `MonitorsAgree` (where a
monitor is tells whether its process was reaped), `DownHoldsNothing` and
`FutureUntouched` (a dead daemon has no threads, an unborn handle no state). The
refinement maps every action to a step of `ForegroundSlot` or a stutter.

*ModeReconcile.* Two facts meet. `Ordered(plan)`, shown once for what `Goals(m)`
builds and kept by taking the tail: a plan waits for the tunnel or commands it,
not both, and stops it only after the transfer. And `CacheAgrees`: a cached status
is so, or its unit is in doubt, because every docker command drops the caches and
whoever else commands docker puts the unit in doubt. Hence what the pass saw of
the tunnel stays true or gets in doubt (`TunnelKept`), and a pass that will
still stop the tunnel but is through with qBittorrent has stopped it
(`TransferLeft`). The length of a pass and the age of its statuses do not matter.

*EventBus.* `Served` is an account of threads: the workers alive are at least as
many as the sentinels in the queue plus the stops that still owe one, and one
more while the bus runs. A stop moves the surplus worker to its debt, puts it in
the queue or gives it up; a worker that takes a sentinel pays both sides; a
sentinel thrown out by another stop only helps. `NothingLost` says where an
accepted event is, `Counted` that `unfinished_tasks` is the queue plus the busy
workers; together they give `IdleIsDone`.

*SwitchTransfer.* All about files on which no two writers met. At most one running
job was asked for such a file (`Alone`), because a second one, or an upload, puts
it into `shared`; so its `.partial` is as the job at it left it (`Progress`), and
what is renamed is whole. While the card stays in, which it was from a job's first
file on, what the job is through with is on the card (`Through`). `OldOrNew` is about two states: the step that unlinks
the old file is taken only with a whole `.partial` beside it.

*Buttons.* `Paired` looks at one key at a time: every release that waits in the
kernel's queue finds the press that began its hold, before it in the queue with
no other event of the key between, or, once that was read, in `press_times`. A
key that is still held has the same of its future release. A dropped bounce keeps
this, since the next press overwrites what it left; so it does not matter how
late the main thread reads.

*ManagerDaemon.* Only the main thread launches, and beside a process that ended:
whatever lives is the manager's process (`OneLive`). A monitor forgets no process
but its own, which it has reaped (`MonitorsAgree`). So what a stop picked is all
that may be alive when it returns, and that was seen to end or sent SIGKILL
(`StopKnows`). The refinement maps every action to a step of `ForegroundSlot`
or a stutter; with `RuntimeProofs` both sides of the interface are
proved against it. What the abstract slot is good for is its `Promise`, an
invariant of it (`SlotInv`), which both therefore keep (`PromiseKept`).

*ResidentDisplays.* A display is *safe* unless it is up without an excuse, and
*covered* unless it is up without an excuse and was not overtaken either. Only
opening one makes a display unsafe, and then all others are safe (`AtMostOne`); it
makes one uncovered only while the launcher is hidden and no exit callback has
looked at the displays. A visible launcher finds all of them covered (`Owner`).
What a thread is through with is `Fine`: safe to the main thread, which alone
opens displays, and covered to the exit callback, beside which one may be opened.
This is what a loop carries (`Guarded`) to the opening or the drawing that
follows it; and whatever shows the launcher has looked at each display. The proof
takes any number of displays and any configuration of them, where the run has two.

*ConsoleFiles.* A rename, and an upload that may not overwrite, carry in `seen`
that there was nothing at their destination (`Fits`), so what they replace came
later. `Knows` says how the workspace came from the one the request began with, step
by step, as long as nobody else changed it; `before` forgets that workspace when
somebody does. The rest are facts about the workspace: what each of the code's
system calls adds, removes and keeps, that a parent made before a rename does not
matter to it, and that an upload's temporary file leaves no trace.

*ConsoleGate.* The bucket is what is left at the end of the list of all that were
let in (`SameEnd`), and what is gone from it was dropped by a later request, and so
is older than its window, unless a request was overtaken between its reading and
the lock (`Dropped`). So a window with more than the limit in it would have had
its oldest entry in the bucket when the last came. `ToldEnough` is the same bound
from the client's side: once the time it was told has passed, with a second for
the rounding, the entry it waited for is out. The minimum of the bucket is taken by
well-founded induction over the naturals, from the library.

*RuntimeState.* Two invariants over disjoint variables. `SettingsInv`: while no two
updates overlapped, at most one is active, the file holds what was saved, and the
text in hand is that with one section changed (`Alone`). `DisplayInv`: what is
in memory is published but between the two halves of an announcement
(`Announced`), and as long as no exit callback met a launch only the last
launched is monitored (`Apart`) and the state names what runs (`Truthful`).

*MiniPcTransfer.* A path is `Confirmed` when it has a whole copy at a destination,
or is in doubt. Jobs that are complete and requests that are about to delete carry
only confirmed paths (`JobFits`, `RequestFits`). What could take a confirmation
away is a copy over the same name; a job that copies leaves the file a part, which no
size equals, and puts the namesakes in doubt where they were whole
(`Receives`), and of two jobs at one file the second finds the first there
(`Crossed`). So a step that deletes finds the copy, or the doubt.

*ButtonApps.* `Drawn` is the stretch from the first drawing to the end of the loop.
In it, while no excuse stands, one thread at most has an image in flight
(`Excused`); this image is the page unless a redraw is marked, and when none is in
flight the panel shows the last signature. The two halves hold each other up: a
mark is taken back only with the image in hand or when the image is the last one
shown, and a press or a poll that changes the page marks it. That nothing else
changes the page is a fact about the pages (`OnlyTheCode`), shown for each
application. `ThreadsFit` says where the threads may be together, `InTurn` what
holds of Entertainment, which draws without the lock. For the preparation,
`RequestFits`: past its setup, Print Lab's request is there on the armed page
only, whatever a killed process left before.

*PlainApps.* From opening a document to the end of a drawing the Reader is at the
page at which it would open again (`AtSavedPlace`), and between drawings it shows
it (`ShowsPlace`). The frame the Tesserae client read last (`LastRead`), which is
the one its tag names unless one came without a tag since, is on its way to the
panel (`OnItsWay`), and otherwise the one the panel shows (`TagOnPanel`); the step
that takes a new tag is the one that has the frame in hand.

*ProcessRecord.* A process may overwrite only what is *safe*: a program that ended,
one known to be lost, or one whose command another has crossed. A process that was
not crossed finds in the record what it loaded or what is safe (`RecordFits`), finds
the temporary file as it left it (`TemporaryFits`), and writes its own child or
what is as safe (`Writes`). Programs only age, and excuses only grow, so safety
stays (`Ages`). Hence a live program that nobody lost is the recorded one or the
child of a command under way (`Kept`). Any number of commands may run, where the
run has one at a time.

*Only model-checked*: the liveness properties (`ExitAnnounced`, `StoppedAppDies`,
`LauncherReturns`, `TransitionEnds`, `NoAppOutOfReach`, `ModeEnforced`,
`HomeEndsReader`, `AcceptedIsServed`, `StopReturns`, `HomeReturns`,
`RetriesDeliver`, `SettingsArrive`): fairness and ENABLED are out of the prover's
reach.

## 5. Findings

With a run:

- `exit_undetected`: `launch()` raises with its process running when the state
  file cannot be written, and starts no monitor: the application's exit is never
  announced. In this commit no activation of the daemon gets as far as
  `launch()` (`menu_close`); the defect is the manager's own.
- `menu_close`: `MenuService.close()` calls a method `DisplayManager` lacks.

With a configuration of their own:

- `MCStopGroup`: the docstring of `stop()` promises the end of the application
  *and its child processes*; the wait looks at the leader alone.
- `MCOldApplication`: startup deletes the record of an application that outlived
  its daemon; only what `bin/start-manager` knows by name is killed.
- `MCDisplayOwner`: what the same failure does to the daemon, provided that
  `menu.close()` is repaired (the configuration lets it succeed): the launcher is
  drawn over the live application.
- `MCManualStop`: `_stop_active_application()` clears the flag in its `finally`,
  before the exit callback reads it, so both draw the launcher.
- `MCModeTorn`: an unreadable request selects `torrent_fortress`.
- `MCButtonsHome`: a blocking `sendall()` comes before the stop it announces.
- `MCHardwarePrep`: Print Lab's armed page says "Launcher will not reclaim the
  display."; when it is stopped for the preparation, the exit callback may.

Seen while modelling:

- The reconciler takes a container that runs for one that is healthy, although
  the comment at daemon.py:784 says "wait for healthy"; this is why the model
  has no `healthy`.
- `torrent_fortress` leaves a running qBittorrent alone when the tunnel did not
  come up; `entertainment` stops it.
- `_start_mode_reconcile_thread()` is never called: the main thread reconciles,
  and a pass that waits for the tunnel delays every press by up to half a minute.
- Overrides of a request written by the console between the selector's read and
  its write are lost.
- An event put after a `stop()` ended the last worker stays in the queue until
  the next `start()`; `AcceptedIsServed` is about a bus that is left running.
- `ManagerDaemon` treats sending a press to the application as a step that
  returns; `Buttons` shows when it does not.
- A key's times are CLOCK_REALTIME: a step of the clock makes releases look like
  bounces or like long holds. The model's clock only advances.
- A resident display that is activating when the quiesce loop looks, or whose
  status was stale or not to be had, comes up over the launcher.
- So does one that a press opens while the exit callback of an application is in
  `show_menu()` past its look at the displays: the callback draws the launcher and
  clears `active_app_id` over the display, without any failure.
- A managed display that was resumed by SIGCONT does not count as running
  (`_app_is_running()` knows the ApplicationManager's process and units only), so
  any press over it recovers the launcher instead of being forwarded.
- `_stop_active_application()` stops the active unit and leaves the
  ApplicationManager's application alone when both are there.
- A thaw that fails falls back to `systemctl start`, which does nothing to a frozen
  unit and counts as success.
- A publication that failed is not repeated: its signature was noted before, so
  only the next change repairs the file.
- Two updates of the settings at once lose a section, or cut the file.
- A frame that the Tesserae client fetched but failed to show is not fetched
  again until the server has a newer one.
- A frame without a tag is shown beside the tag of an older one, which the client
  keeps (`new_etag or etag`, tesserae.py:325): a server that returns to that older
  frame then answers that nothing changed, and the panel stays behind.
- A client that waits exactly `retry_after` seconds is refused once more: the
  number is rounded down and the bound of the window is strict.
- A request overtaken between its reading of the clock and the lock may exceed
  the limit by one.
- A delete that failed or was killed leaves its target in the staging directory,
  gone from the workspace; with `/tmp` on another file system no delete works.
- `clear_state` compares the mode, not the process: a display started anew while
  the daemon waited for the old one runs on unrecorded. The recovery detaches
  programs it does not know by name, and `start()` goes on when `stop()` failed.
- Uploads to the Switch are written in place; a cut one has its own name.

## 6. Not modelled

Pure input and output (page layout, panel driver, CLI, probes, set-up scripts,
event logger, HTTP plumbing, terminal, pages) and pure loading and validation
(catalog, plugins, manifests, runtime status). In the modelled components:

- the bus: subscriptions (patterns, once) and history;
- buttons: the loss of the input device, `ButtonServer.stop()` and reconnection,
  a clock that is set;
- the mode: the published payload and the override flags;
- the console: actions on managed services and containers other than the mode,
  launches of applications and media (which change the mode first and are not
  undone when the start fails), the proxy and its tokens;
- transfers: mounting over MTP, the NS-USBLoader wrapper;
- applications: the diagnostic screen; the reader's and the Tesserae client's
  liveness;
- the status part of what is published (docker, network, history), one value here.

## 7. Plan

1. `EventBus`: once-subscriptions. `Buttons`: loss of the device, clock steps.
2. The console's launches of applications against the mode they ask for; its
   proxy tokens.
3. An abstract `PanelOwner` that `ManagerDaemon` and `ResidentDisplays` both
   implement.
