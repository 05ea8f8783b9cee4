------------------------- MODULE ApplicationManager -------------------------
(***************************************************************************)
(* manager/runtime/application_manager.py: the one object that starts,     *)
(* stops and watches foreground applications.  launch() and the bookkeeping*)
(* of the monitor thread run under its RLock; stop() takes the lock only   *)
(* to pick its target, then signals and polls without it, so launches,     *)
(* exits, monitors and other stops interleave with it.  The daemon process *)
(* may die at any point; applications are session leaders and outlive it.  *)
(*                                                                         *)
(* A handle h \in Handles is one Popen object (and its pid): the h-th      *)
(* process ever spawned.  Refused launches (ApplicationAlreadyRunning, no  *)
(* command, missing directory, failing Popen) raise before any state is    *)
(* written: they are stuttering steps.                                     *)
(***************************************************************************)
EXTENDS Naturals, FiniteSets

CONSTANTS
  Callers,      \* the daemon threads that call launch() and stop()
  Services,     \* the configured applications
  Swept,        \* the services whose leftovers bin/start-manager kills by name
  Forking,      \* the services that run helpers in their process group
  MaxLaunches,  \* bound: processes spawned over a whole behaviour
  MaxCrashes,   \* bound: times the daemon process ends
  NoOne,        \* the lock is free
  NoService     \* self._service is None

ASSUME ConstantsAssumption ==
  /\ Swept \subseteq Services
  /\ Forking \subseteq Services
  /\ MaxLaunches \in Nat
  /\ MaxCrashes \in Nat
  /\ NoOne \notin Callers
  /\ NoService \notin Services

Handles == 1 .. MaxLaunches

VARIABLES
  up,          \* the daemon process exists
  crashes,     \* times it ended so far (bounded by MaxCrashes)
  lock,        \* holder of self._lock between two steps: a caller in launch()
  process,     \* self._process: a handle, 0 for None
  service,     \* self._service
  stopping,    \* self._stopping
  generation,  \* self._generation
  stateFile,   \* active_application.json: the recorded handle, 0 if no file
  pc,          \* where each caller is in launch() or stop()
  target,      \* the Popen a caller's stop() works on, 0 outside stop()
  monitor,     \* where the monitor thread of each handle is
  monitorGen,  \* the generation argument of that thread
  spawned,     \* processes spawned so far
  owned,       \* the handles this incarnation of the daemon spawned
  leader,      \* the spawned process itself
  child,       \* whether another member of its process group is alive
  signalled,   \* the strongest signal the group was sent
  svc,         \* the service a handle was launched for
  stopAsked,   \* history: the handles for which a stop() decided to signal
  exitEvent,   \* the event a monitor built, NoEvent before
  reported     \* history: how often on_exit was called for a handle

memory  == <<process, service, stopping, generation>>
threads == <<lock, pc, target, monitor, monitorGen, exitEvent>>
world   == <<spawned, owned, leader, child, signalled, svc>>
history == <<stopAsked, reported>>
vars    == <<up, crashes, stateFile, memory, threads, world, history>>

NoEvent == [service |-> NoService, stopped |-> FALSE]
Events  == [service : Services \cup {NoService}, stopped : BOOLEAN]

Init ==
  /\ up = TRUE
  /\ crashes = 0
  /\ lock = NoOne
  /\ process = 0
  /\ service = NoService
  /\ stopping = FALSE
  /\ generation = 0
  /\ stateFile = 0
  /\ pc = [c \in Callers |-> "idle"]
  /\ target = [c \in Callers |-> 0]
  /\ monitor = [h \in Handles |-> "none"]
  /\ monitorGen = [h \in Handles |-> 0]
  /\ spawned = 0
  /\ owned = {}
  /\ leader = [h \in Handles |-> "unborn"]
  /\ child = [h \in Handles |-> FALSE]
  /\ signalled = [h \in Handles |-> "none"]
  /\ svc = [h \in Handles |-> NoService]
  /\ stopAsked = {}
  /\ exitEvent = [h \in Handles |-> NoEvent]
  /\ reported = [h \in Handles |-> 0]

(***************************************************************************)
(* Popen.poll() # None.  While the monitor sits in wait() it holds the     *)
(* Popen's waitpid lock and poll() answers None until wait() has stored    *)
(* the return code; with no monitor poll() reaps the process itself.       *)
(***************************************************************************)
Polled(h) ==
  \/ leader[h] = "reaped"
  \/ leader[h] = "zombie" /\ monitor[h] = "none"

(* Mutant of IsRunning: believe the state file instead of the Popen. *)
RunningByFile == stateFile # 0 /\ ~Polled(stateFile)

IsRunning == process # 0 /\ ~Polled(process)

(* Mutant of StoppingAtLaunch: launch() forgets to clear the flag. *)
StoppingKept == stopping

(* A stop() whose target was superseded before its monitor ran has left    *)
(* _stopping set; launch() clears it.                                      *)
StoppingAtLaunch == FALSE

(* Mutant of LaunchGeneration: the number before the increment. *)
StaleGeneration == generation - 1

LaunchGeneration == generation

(* Mutant of EscalationSignal: ask nicely again. *)
AskAgain == "TERM"

EscalationSignal == "KILL"

(* Mutant of IsCurrent: drop the generation check. *)
AnyGeneration(h) == TRUE

(* No launch() happened since the one this monitor belongs to. *)
IsCurrent(h) == monitorGen[h] = generation

-----------------------------------------------------------------------------
(* launch()                                                                *)

(* From taking the lock to the bumped generation. *)
Spawn(c, s) ==
  LET h == spawned + 1 IN
  /\ up /\ lock = NoOne /\ pc[c] = "idle"
  /\ ~IsRunning
  /\ spawned < MaxLaunches
  /\ lock' = c
  /\ pc' = [pc EXCEPT ![c] = "launching"]
  /\ spawned' = h
  /\ owned' = owned \cup {h}
  /\ leader' = [leader EXCEPT ![h] = "running"]
  /\ child' = [child EXCEPT ![h] = s \in Forking]
  /\ svc' = [svc EXCEPT ![h] = s]
  /\ process' = h
  /\ service' = s
  /\ stopping' = StoppingAtLaunch
  /\ generation' = generation + 1
  /\ UNCHANGED <<up, crashes, stateFile, target, monitor, monitorGen,
                 exitEvent, signalled, history>>

(* _write_state() succeeded: start the monitor, return the process. *)
Record(c) ==
  /\ pc[c] = "launching"
  /\ stateFile' = process
  /\ monitor' = [monitor EXCEPT ![process] = "waiting"]
  /\ monitorGen' = [monitorGen EXCEPT ![process] = LaunchGeneration]
  /\ lock' = NoOne
  /\ pc' = [pc EXCEPT ![c] = "idle"]
  /\ UNCHANGED <<up, crashes, memory, target, exitEvent, world, history>>

(* _write_state() raised: launch() propagates it, nothing is undone. *)
RecordFails(c) ==
  /\ pc[c] = "launching"
  /\ lock' = NoOne
  /\ pc' = [pc EXCEPT ![c] = "idle"]
  /\ UNCHANGED <<up, crashes, stateFile, memory, target, monitor, monitorGen,
                 exitEvent, world, history>>

-----------------------------------------------------------------------------
(* stop(), and close() which only calls it                                 *)

StopNothing(c) ==
  /\ up /\ lock = NoOne /\ pc[c] = "idle"
  /\ process = 0
  /\ stateFile' = 0
  /\ UNCHANGED <<up, crashes, memory, threads, world, history>>

(* A process that already polls dead is left to its monitor: stop() only   *)
(* returns its code.                                                       *)
StopDead(c) ==
  /\ up /\ lock = NoOne /\ pc[c] = "idle"
  /\ process # 0 /\ ~IsRunning
  /\ UNCHANGED vars

StopBegin(c) ==
  /\ up /\ lock = NoOne /\ pc[c] = "idle"
  /\ IsRunning
  /\ stopping' = TRUE
  /\ target' = [target EXCEPT ![c] = process]
  /\ pc' = [pc EXCEPT ![c] = "stopping"]
  /\ stopAsked' = stopAsked \cup {process}
  /\ UNCHANGED <<up, crashes, stateFile, process, service, generation, lock,
                 monitor, monitorGen, exitEvent, world, reported>>

StopDone(c) ==
  /\ pc' = [pc EXCEPT ![c] = "idle"]
  /\ target' = [target EXCEPT ![c] = 0]
  /\ UNCHANGED <<lock, monitor, monitorGen, exitEvent>>

(* killpg(): a group that is gone is not signalled, a SIGKILL not undone.  *)
SignalGroup(h, sig) ==
  signalled' = [signalled EXCEPT ![h] =
                  IF @ = "KILL" \/ (leader[h] = "reaped" /\ ~child[h])
                  THEN @ ELSE sig]

SendTerm(c) ==
  /\ pc[c] = "stopping"
  /\ SignalGroup(target[c], "TERM")
  /\ pc' = [pc EXCEPT ![c] = "terminating"]
  /\ UNCHANGED <<up, crashes, stateFile, memory, lock, target, monitor,
                 monitorGen, exitEvent, spawned, owned, leader, child, svc,
                 history>>

(* _wait_for_exit() saw the process end, after SIGTERM or after SIGKILL. *)
SeesExit(c) ==
  /\ pc[c] \in {"terminating", "killing"}
  /\ Polled(target[c])
  /\ StopDone(c)
  /\ UNCHANGED <<up, crashes, stateFile, memory, world, history>>

(* stop_timeout passed: SIGKILL. *)
Escalate(c) ==
  /\ pc[c] = "terminating"
  /\ ~Polled(target[c])
  /\ SignalGroup(target[c], EscalationSignal)
  /\ pc' = [pc EXCEPT ![c] = "killing"]
  /\ UNCHANGED <<up, crashes, stateFile, memory, lock, target, monitor,
                 monitorGen, exitEvent, spawned, owned, leader, child, svc,
                 history>>

(* kill_timeout passed: give up. *)
GiveUp(c) ==
  /\ pc[c] = "killing"
  /\ ~Polled(target[c])
  /\ StopDone(c)
  /\ UNCHANGED <<up, crashes, stateFile, memory, world, history>>

-----------------------------------------------------------------------------
(* _monitor_process()                                                      *)

MonitorWakes(h) ==
  /\ monitor[h] = "waiting"
  /\ leader[h] = "zombie"
  /\ leader' = [leader EXCEPT ![h] = "reaped"]
  /\ monitor' = [monitor EXCEPT ![h] = "woken"]
  /\ UNCHANGED <<up, crashes, stateFile, memory, lock, pc, target, monitorGen,
                 exitEvent, spawned, owned, child, signalled, svc, history>>

(* A newer launch owns the manager by now: return without a word. *)
MonitorSuperseded(h) ==
  /\ monitor[h] = "woken"
  /\ lock = NoOne
  /\ ~IsCurrent(h)
  /\ monitor' = [monitor EXCEPT ![h] = "done"]
  /\ UNCHANGED <<up, crashes, stateFile, memory, lock, pc, target, monitorGen,
                 exitEvent, world, history>>

MonitorClears(h) ==
  /\ monitor[h] = "woken"
  /\ lock = NoOne
  /\ IsCurrent(h)
  /\ exitEvent' = [exitEvent EXCEPT ![h] =
                     [service |-> service, stopped |-> stopping]]
  /\ process' = 0
  /\ service' = NoService
  /\ stopping' = FALSE
  /\ stateFile' = 0
  /\ monitor' = [monitor EXCEPT ![h] = "reporting"]
  /\ UNCHANGED <<up, crashes, generation, lock, pc, target, monitorGen, world,
                 history>>

(* on_exit(event), outside the lock. *)
MonitorReports(h) ==
  /\ monitor[h] = "reporting"
  /\ reported' = [reported EXCEPT ![h] = @ + 1]
  /\ monitor' = [monitor EXCEPT ![h] = "done"]
  /\ UNCHANGED <<up, crashes, stateFile, memory, lock, pc, target, monitorGen,
                 exitEvent, world, stopAsked>>

-----------------------------------------------------------------------------
(* The applications                                                        *)

(* It exits by itself, crashes, or obeys a signal; init reaps an orphan. *)
LeaderExits(h) ==
  /\ leader[h] = "running"
  /\ leader' = [leader EXCEPT ![h] = IF h \in owned THEN "zombie" ELSE "reaped"]
  /\ UNCHANGED <<up, crashes, stateFile, memory, threads, spawned, owned,
                 child, signalled, svc, history>>

ChildExits(h) ==
  /\ child[h]
  /\ child' = [child EXCEPT ![h] = FALSE]
  /\ UNCHANGED <<up, crashes, stateFile, memory, threads, spawned, owned,
                 leader, signalled, svc, history>>

-----------------------------------------------------------------------------
(* The daemon process                                                      *)

(* The daemon ends with whatever it was doing: its threads and memory are  *)
(* gone, its zombies go to init, the applications and the file stay.       *)
Crash ==
  /\ up
  /\ crashes < MaxCrashes
  /\ up' = FALSE
  /\ crashes' = crashes + 1
  /\ lock' = NoOne
  /\ process' = 0
  /\ service' = NoService
  /\ stopping' = FALSE
  /\ generation' = 0
  /\ pc' = [c \in Callers |-> "idle"]
  /\ target' = [c \in Callers |-> 0]
  /\ monitor' = [h \in Handles |-> "none"]
  /\ monitorGen' = [h \in Handles |-> 0]
  /\ exitEvent' = [h \in Handles |-> NoEvent]
  /\ owned' = {}
  /\ leader' = [h \in Handles |->
                  IF leader[h] = "zombie" THEN "reaped" ELSE leader[h]]
  /\ UNCHANGED <<stateFile, spawned, child, signalled, svc, history>>

(* bin/start-manager kills the leftovers it knows by command line, then    *)
(* the new ApplicationManager runs recover_stale_state(): whatever the     *)
(* file names, it only deletes the file.                                   *)
Restart ==
  /\ ~up
  /\ up' = TRUE
  /\ leader' = [h \in Handles |->
                  IF svc[h] \in Swept THEN "reaped" ELSE leader[h]]
  /\ stateFile' = 0
  /\ UNCHANGED <<crashes, memory, threads, spawned, owned, child, signalled,
                 svc, history>>

-----------------------------------------------------------------------------
CallerStep(c) ==
  \/ \E s \in Services : Spawn(c, s)
  \/ Record(c)
  \/ RecordFails(c)
  \/ StopNothing(c)
  \/ StopDead(c)
  \/ StopBegin(c)
  \/ SendTerm(c)
  \/ SeesExit(c)
  \/ Escalate(c)
  \/ GiveUp(c)

MonitorStep(h) ==
  \/ MonitorWakes(h)
  \/ MonitorSuperseded(h)
  \/ MonitorClears(h)
  \/ MonitorReports(h)

AppStep(h) ==
  \/ LeaderExits(h)
  \/ ChildExits(h)

Next ==
  \/ \E c \in Callers : CallerStep(c)
  \/ \E h \in Handles : MonitorStep(h) \/ AppStep(h)
  \/ Crash
  \/ Restart

Spec == Init /\ [][Next]_vars

(***************************************************************************)
(* Threads keep running; the loops of stop() end by exit or by deadline;   *)
(* the kernel carries out a SIGKILL.  Nothing makes an application exit on *)
(* SIGTERM, nobody has to call launch() or stop(), and no write is bound   *)
(* to succeed.                                                             *)
(***************************************************************************)
Finish(c) ==
  \/ Record(c)
  \/ RecordFails(c)
  \/ SendTerm(c)
  \/ SeesExit(c)
  \/ Escalate(c)
  \/ GiveUp(c)

Killed(h) == signalled[h] = "KILL" /\ LeaderExits(h)

Fairness ==
  /\ \A c \in Callers : WF_vars(Finish(c))
  /\ \A h \in Handles : WF_vars(MonitorStep(h)) /\ WF_vars(Killed(h))

FairSpec == Spec /\ Fairness

-----------------------------------------------------------------------------
(* Properties                                                              *)

TypeOK ==
  /\ up \in BOOLEAN
  /\ crashes \in 0 .. MaxCrashes
  /\ lock \in Callers \cup {NoOne}
  /\ process \in 0 .. MaxLaunches
  /\ service \in Services \cup {NoService}
  /\ stopping \in BOOLEAN
  /\ generation \in 0 .. MaxLaunches
  /\ stateFile \in 0 .. MaxLaunches
  /\ pc \in [Callers -> {"idle", "launching", "stopping", "terminating",
                         "killing"}]
  /\ \A c \in Callers : pc[c] = "launching" <=> lock = c
  /\ target \in [Callers -> 0 .. MaxLaunches]
  /\ monitor \in [Handles -> {"none", "waiting", "woken", "reporting", "done"}]
  /\ monitorGen \in [Handles -> 0 .. MaxLaunches]
  /\ spawned \in 0 .. MaxLaunches
  /\ owned \in SUBSET (1 .. spawned)
  /\ leader \in [Handles -> {"unborn", "running", "zombie", "reaped"}]
  /\ child \in [Handles -> BOOLEAN]
  /\ signalled \in [Handles -> {"none", "TERM", "KILL"}]
  /\ svc \in [Handles -> Services \cup {NoService}]
  /\ stopAsked \in SUBSET Handles
  /\ exitEvent \in [Handles -> Events]
  /\ reported \in [Handles -> Nat]

(* At most one application this daemon launched is alive, whatever stops,  *)
(* late monitors and relaunches are in flight: the display has one owner.  *)
OneLiveApplication ==
  \A g, h \in owned :
    leader[g] = "running" /\ leader[h] = "running" => g = h

(* From the end of its launch until it exits, a watched application is the *)
(* one active_application.json records: no late monitor of an earlier      *)
(* application and no stop() deletes or keeps the wrong record.            *)
RecordedWhileAlive ==
  \A h \in Handles :
    monitor[h] = "waiting" /\ leader[h] = "running" => stateFile = h

(* An exit event names the service of the very process that ended, is built*)
(* only after it ended, and says stopped_by_manager exactly when a stop()  *)
(* decided to signal that process: not because of a stop meant for an      *)
(* earlier one, and not forgotten because of a relaunch.                   *)
EventIsTruthful ==
  \A h \in Handles :
    monitor[h] = "reporting" =>
      /\ leader[h] = "reaped"
      /\ exitEvent[h] = [service |-> svc[h], stopped |-> h \in stopAsked]

(* What the manager does is what ForegroundSlot promises: a launch only    *)
(* into a slot whose application is dead, and no exit announced twice or   *)
(* for the application that owns the slot.                                 *)
Slot == INSTANCE ForegroundSlot WITH
  MaxRuns   <- MaxLaunches,
  started   <- spawned,
  slot      <- process,
  live      <- {h \in owned : leader[h] = "running"},
  announced <- reported

SlotSpec == Slot!Spec

(* A watched application's exit is announced, unless a newer launch took   *)
(* the manager over first or the daemon itself ended.                      *)
ExitAnnounced ==
  \A h \in Handles :
    (monitor[h] = "waiting" /\ leader[h] = "zombie")
      ~> (reported[h] = 1 \/ process > h \/ ~up)

(* The class's docstring: "notify the launcher when an app exits".  The     *)
(* same of every application that this daemon started, watched or not:     *)
(* launch() starts no monitor when it could not write the state file.      *)
ExitNotified ==
  \A h \in Handles :
    (h \in owned /\ leader[h] = "zombie")
      ~> (reported[h] = 1 \/ process > h \/ ~up)

(* stop() does not leave its application alive: if SIGTERM is ignored the  *)
(* escalation comes, unless the daemon ends in between.                    *)
StoppedAppDies ==
  \A h \in Handles :
    (\E c \in Callers : target[c] = h) ~> (leader[h] # "running" \/ ~up)

(* The docstring of stop(): "Stop the active application and its child     *)
(* processes."  When stop() returns because the application exited, nothing*)
(* of its process group is left.                                           *)
StopEndsGroup ==
  [][\A c \in Callers :
       pc[c] \in {"terminating", "killing"} /\ pc'[c] = "idle" /\ up'
         => ~child'[target[c]]]_vars

(* tools/runtime_recovery.py: on a new manager startup an old foreground   *)
(* application does not retain the display.                                *)
NoOldApplicationAfterStartup ==
  up => \A h \in Handles \ owned : leader[h] # "running"
=============================================================================
