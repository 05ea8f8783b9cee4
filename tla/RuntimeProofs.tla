---------------------------- MODULE RuntimeProofs ----------------------------
(***************************************************************************)
(* What the daemon runs and what it says of it: the application manager,   *)
(* for any callers, services and bounds, and the settings and the state    *)
(* that are published, for any updates, launches and failures.             *)
(***************************************************************************)
EXTENDS ApplicationManager, RuntimeState, TLAPS

-----------------------------------------------------------------------------
(* ApplicationManager: its type invariant, the safety invariants, and that *)
(* it implements ForegroundSlot.  All rest on one inductive invariant, IInv.*)

(* Handles not spawned yet are untouched. *)
FutureUntouched ==
  \A h \in Handles : h > spawned =>
    /\ leader[h] = "unborn"
    /\ monitor[h] = "none"
    /\ reported[h] = 0
    /\ svc[h] = NoService
    /\ h \notin stopAsked

(* A dead daemon has no lock, threads or processes of its own. *)
DownHoldsNothing ==
  ~up => owned = {} /\ lock = NoOne

(* Only the handle in self._process can be alive: the heart of the proof.  *)
SlotHoldsTheLive ==
  /\ process # 0 => process \in owned
  /\ \A h \in owned : leader[h] = "running" => h = process

(* What launch() holds between spawning and recording. *)
LaunchInProgress ==
  lock # NoOne => process # 0 /\ monitor[process] = "none"

(* A monitor belongs to this daemon, and the state of its thread agrees    *)
(* with the process it waits for.                                          *)
MonitorsAgree ==
  \A h \in Handles :
    /\ monitor[h] # "none" => h \in owned
    /\ monitor[h] \in {"woken", "reporting"} => leader[h] = "reaped"
    /\ h \in owned /\ monitor[h] # "done" => reported[h] = 0

(* Among unfinished monitors the current generation picks out the handle   *)
(* in self._process: this is why the check in _monitor_process suffices.   *)
GenerationNamesProcess ==
  /\ generation <= spawned
  /\ \A h \in Handles :
       /\ monitor[h] # "none" => monitorGen[h] <= generation
       /\ monitor[h] \in {"waiting", "woken"} =>
            (monitorGen[h] = generation <=> h = process)
       /\ monitor[h] \in {"reporting", "done"} => h # process

(* self._service and self._stopping are those of self._process. *)
MemoryAgrees ==
  process # 0 =>
    /\ service = svc[process]
    /\ stopping <=> process \in stopAsked

IInv ==
  /\ TypeOK
  /\ FutureUntouched
  /\ DownHoldsNothing
  /\ SlotHoldsTheLive
  /\ LaunchInProgress
  /\ MonitorsAgree
  /\ GenerationNamesProcess
  /\ MemoryAgrees
  /\ RecordedWhileAlive
  /\ EventIsTruthful

-----------------------------------------------------------------------------
(* One lemma per action; the actions that only move a caller through       *)
(* stop(), end a failed launch or end a helper process share QuietStep.    *)

LEMMA QuietStep ==
  ASSUME IInv, TypeOK', lock' \in {lock, NoOne},
         UNCHANGED <<up, stateFile, memory, monitor, monitorGen, exitEvent,
                     spawned, owned, leader, svc, history>>
  PROVE  IInv'
<1> USE DEF memory, history
<1>1. (FutureUntouched /\ DownHoldsNothing /\ SlotHoldsTheLive)'
  BY DEF IInv, FutureUntouched, DownHoldsNothing, SlotHoldsTheLive
<1>2. (LaunchInProgress /\ MonitorsAgree /\ GenerationNamesProcess)'
  BY DEF IInv, LaunchInProgress, MonitorsAgree, GenerationNamesProcess
<1>3. (MemoryAgrees /\ RecordedWhileAlive /\ EventIsTruthful)'
  BY DEF IInv, MemoryAgrees, RecordedWhileAlive, EventIsTruthful
<1> QED
  BY <1>1, <1>2, <1>3 DEF IInv

(* launch() up to the new generation number. *)
LEMMA SpawnStep ==
  ASSUME IInv, NEW c \in Callers, NEW s \in Services, Spawn(c, s)
  PROVE  IInv'
<1> USE ConstantsAssumption DEF Handles, memory, threads, world, history
<1>1. TypeOK'
  <2>1. ~(\E d \in Callers : pc[d] = "launching")
    BY DEF IInv, TypeOK, Spawn
  <2>2. (\A d \in Callers : pc[d] = "launching" <=> lock = d)'
    BY <2>1 DEF IInv, TypeOK, Spawn
  <2>3. generation' \in 0 .. MaxLaunches /\ spawned' \in 0 .. MaxLaunches
    BY DEF IInv, TypeOK, GenerationNamesProcess, Spawn
  <2>4. owned' \in SUBSET (1 .. spawned')
    BY DEF IInv, TypeOK, Spawn
  <2>5. child' \in [Handles -> BOOLEAN]
    BY DEF IInv, TypeOK, Spawn
  <2>6. /\ leader' \in [Handles -> {"unborn", "running", "zombie", "reaped"}]
        /\ svc' \in [Handles -> Services \cup {NoService}]
        /\ pc' \in [Callers -> {"idle", "launching", "stopping", "terminating",
                                "killing"}]
    BY DEF IInv, TypeOK, Spawn
  <2>7. process' \in 0 .. MaxLaunches
    BY DEF IInv, TypeOK, Spawn
  <2>8. stopping' \in BOOLEAN
    BY DEF Spawn, StoppingAtLaunch
  <2> QED
    BY <2>2, <2>3, <2>4, <2>5, <2>6, <2>7, <2>8 DEF IInv, TypeOK, Spawn
<1>2. FutureUntouched'
  BY DEF IInv, Spawn, FutureUntouched, TypeOK
<1>3. DownHoldsNothing'
  BY DEF IInv, Spawn, DownHoldsNothing, TypeOK
<1>4. SlotHoldsTheLive'
  BY DEF IInv, Spawn, IsRunning, Polled, SlotHoldsTheLive, TypeOK
<1>5. LaunchInProgress'
  BY DEF IInv, Spawn, LaunchInProgress, FutureUntouched, TypeOK
<1>6. MonitorsAgree'
  BY DEF IInv, Spawn, MonitorsAgree, FutureUntouched, TypeOK
<1>7. GenerationNamesProcess'
  BY DEF IInv, Spawn, GenerationNamesProcess, FutureUntouched, TypeOK
<1>8. MemoryAgrees'
  BY DEF IInv, Spawn, StoppingAtLaunch, MemoryAgrees, FutureUntouched, TypeOK
<1>9. RecordedWhileAlive'
  BY DEF IInv, Spawn, RecordedWhileAlive, FutureUntouched, TypeOK
<1>10. EventIsTruthful'
  BY DEF IInv, Spawn, EventIsTruthful, FutureUntouched, TypeOK
<1> QED
  BY <1>1, <1>2, <1>3, <1>4, <1>5, <1>6, <1>7, <1>8, <1>9, <1>10 DEF IInv

(* launch() from the state file to the monitor thread. *)
LEMMA RecordStep ==
  ASSUME IInv, NEW c \in Callers, Record(c)
  PROVE  IInv'
<1> USE ConstantsAssumption DEF Handles, memory, threads, world, history
<1>1. TypeOK'
  BY DEF IInv, Record, LaunchGeneration, TypeOK
<1>2. FutureUntouched'
  BY DEF IInv, Record, LaunchGeneration, FutureUntouched, SlotHoldsTheLive,
         TypeOK
<1>3. DownHoldsNothing'
  BY DEF IInv, Record, LaunchGeneration, DownHoldsNothing, TypeOK
<1>4. SlotHoldsTheLive'
  BY DEF IInv, Record, LaunchGeneration, SlotHoldsTheLive, TypeOK
<1>5. LaunchInProgress'
  BY DEF IInv, Record, LaunchGeneration, LaunchInProgress, TypeOK
<1>6. MonitorsAgree'
  BY DEF IInv, Record, LaunchGeneration, MonitorsAgree, SlotHoldsTheLive,
         LaunchInProgress, TypeOK
<1>7. GenerationNamesProcess'
  BY DEF IInv, Record, LaunchGeneration, GenerationNamesProcess, TypeOK
<1>8. MemoryAgrees'
  BY DEF IInv, Record, LaunchGeneration, MemoryAgrees, TypeOK
<1>9. RecordedWhileAlive'
  BY DEF IInv, Record, LaunchGeneration, RecordedWhileAlive, SlotHoldsTheLive,
         MonitorsAgree, TypeOK
<1>10. EventIsTruthful'
  BY DEF IInv, Record, LaunchGeneration, EventIsTruthful, TypeOK
<1> QED
  BY <1>1, <1>2, <1>3, <1>4, <1>5, <1>6, <1>7, <1>8, <1>9, <1>10 DEF IInv

(* stop() with nothing to stop. *)
LEMMA StopNothingStep ==
  ASSUME IInv, NEW c \in Callers, StopNothing(c)
  PROVE  IInv'
<1> USE ConstantsAssumption DEF Handles, memory, threads, world, history
<1>1. TypeOK'
  BY DEF IInv, StopNothing, TypeOK
<1>2. FutureUntouched'
  BY DEF IInv, StopNothing, FutureUntouched, TypeOK
<1>3. DownHoldsNothing'
  BY DEF IInv, StopNothing, DownHoldsNothing, TypeOK
<1>4. SlotHoldsTheLive'
  BY DEF IInv, StopNothing, SlotHoldsTheLive, TypeOK
<1>5. LaunchInProgress'
  BY DEF IInv, StopNothing, LaunchInProgress, TypeOK
<1>6. MonitorsAgree'
  BY DEF IInv, StopNothing, MonitorsAgree, TypeOK
<1>7. GenerationNamesProcess'
  BY DEF IInv, StopNothing, GenerationNamesProcess, TypeOK
<1>8. MemoryAgrees'
  BY DEF IInv, StopNothing, MemoryAgrees, TypeOK
<1>9. RecordedWhileAlive'
  BY DEF IInv, StopNothing, RecordedWhileAlive, SlotHoldsTheLive,
         MonitorsAgree, TypeOK
<1>10. EventIsTruthful'
  BY DEF IInv, StopNothing, EventIsTruthful, TypeOK
<1> QED
  BY <1>1, <1>2, <1>3, <1>4, <1>5, <1>6, <1>7, <1>8, <1>9, <1>10 DEF IInv

(* stop() picking its target. *)
LEMMA StopBeginStep ==
  ASSUME IInv, NEW c \in Callers, StopBegin(c)
  PROVE  IInv'
<1> USE ConstantsAssumption DEF Handles, memory, threads, world, history
<1>1. TypeOK'
  BY DEF IInv, StopBegin, IsRunning, Polled, TypeOK
<1>2. FutureUntouched'
  BY DEF IInv, StopBegin, IsRunning, Polled, FutureUntouched,
         SlotHoldsTheLive, TypeOK
<1>3. DownHoldsNothing'
  BY DEF IInv, StopBegin, IsRunning, Polled, DownHoldsNothing, TypeOK
<1>4. SlotHoldsTheLive'
  BY DEF IInv, StopBegin, IsRunning, Polled, SlotHoldsTheLive, TypeOK
<1>5. LaunchInProgress'
  BY DEF IInv, StopBegin, IsRunning, Polled, LaunchInProgress, TypeOK
<1>6. MonitorsAgree'
  BY DEF IInv, StopBegin, IsRunning, Polled, MonitorsAgree, TypeOK
<1>7. GenerationNamesProcess'
  BY DEF IInv, StopBegin, IsRunning, Polled, GenerationNamesProcess, TypeOK
<1>8. MemoryAgrees'
  BY DEF IInv, StopBegin, IsRunning, Polled, MemoryAgrees, TypeOK
<1>9. RecordedWhileAlive'
  BY DEF IInv, StopBegin, IsRunning, Polled, RecordedWhileAlive, TypeOK
<1>10. EventIsTruthful'
  BY DEF IInv, StopBegin, IsRunning, Polled, EventIsTruthful, TypeOK
<1> QED
  BY <1>1, <1>2, <1>3, <1>4, <1>5, <1>6, <1>7, <1>8, <1>9, <1>10 DEF IInv

(* wait() returning in the monitor. *)
LEMMA MonitorWakesStep ==
  ASSUME IInv, NEW h \in Handles, MonitorWakes(h)
  PROVE  IInv'
<1> USE ConstantsAssumption DEF Handles, memory, threads, world, history
<1>1. TypeOK'
  BY DEF IInv, MonitorWakes, TypeOK
<1>2. FutureUntouched'
  BY DEF IInv, MonitorWakes, FutureUntouched, TypeOK
<1>3. DownHoldsNothing'
  BY DEF IInv, MonitorWakes, DownHoldsNothing, TypeOK
<1>4. SlotHoldsTheLive'
  BY DEF IInv, MonitorWakes, SlotHoldsTheLive, TypeOK
<1>5. LaunchInProgress'
  BY DEF IInv, MonitorWakes, LaunchInProgress, TypeOK
<1>6. MonitorsAgree'
  BY DEF IInv, MonitorWakes, MonitorsAgree, TypeOK
<1>7. GenerationNamesProcess'
  BY DEF IInv, MonitorWakes, GenerationNamesProcess, TypeOK
<1>8. MemoryAgrees'
  BY DEF IInv, MonitorWakes, MemoryAgrees, TypeOK
<1>9. RecordedWhileAlive'
  BY DEF IInv, MonitorWakes, RecordedWhileAlive, TypeOK
<1>10. EventIsTruthful'
  BY DEF IInv, MonitorWakes, EventIsTruthful, TypeOK
<1> QED
  BY <1>1, <1>2, <1>3, <1>4, <1>5, <1>6, <1>7, <1>8, <1>9, <1>10 DEF IInv

(* A monitor that finds a newer generation. *)
LEMMA MonitorSupersededStep ==
  ASSUME IInv, NEW h \in Handles, MonitorSuperseded(h)
  PROVE  IInv'
<1> USE ConstantsAssumption DEF Handles, memory, threads, world, history
<1>1. TypeOK'
  BY DEF IInv, MonitorSuperseded, IsCurrent, TypeOK
<1>2. FutureUntouched'
  BY DEF IInv, MonitorSuperseded, IsCurrent, FutureUntouched, TypeOK
<1>3. DownHoldsNothing'
  BY DEF IInv, MonitorSuperseded, IsCurrent, DownHoldsNothing, TypeOK
<1>4. SlotHoldsTheLive'
  BY DEF IInv, MonitorSuperseded, IsCurrent, SlotHoldsTheLive, TypeOK
<1>5. LaunchInProgress'
  BY DEF IInv, MonitorSuperseded, IsCurrent, LaunchInProgress, TypeOK
<1>6. MonitorsAgree'
  BY DEF IInv, MonitorSuperseded, IsCurrent, MonitorsAgree, TypeOK
<1>7. GenerationNamesProcess'
  BY DEF IInv, MonitorSuperseded, IsCurrent, GenerationNamesProcess, TypeOK
<1>8. MemoryAgrees'
  BY DEF IInv, MonitorSuperseded, IsCurrent, MemoryAgrees, TypeOK
<1>9. RecordedWhileAlive'
  BY DEF IInv, MonitorSuperseded, IsCurrent, RecordedWhileAlive, TypeOK
<1>10. EventIsTruthful'
  BY DEF IInv, MonitorSuperseded, IsCurrent, EventIsTruthful, TypeOK
<1> QED
  BY <1>1, <1>2, <1>3, <1>4, <1>5, <1>6, <1>7, <1>8, <1>9, <1>10 DEF IInv

(* A monitor that clears the slot. *)
LEMMA MonitorClearsStep ==
  ASSUME IInv, NEW h \in Handles, MonitorClears(h)
  PROVE  IInv'
<1> USE ConstantsAssumption DEF Handles, memory, threads, world, history
<1>1. TypeOK'
  <2>1. [service |-> service, stopped |-> stopping] \in Events
    BY DEF IInv, TypeOK, Events
  <2>2. exitEvent' \in [Handles -> Events]
    BY <2>1 DEF IInv, TypeOK, MonitorClears
  <2>3. stopping' \in BOOLEAN
    BY DEF MonitorClears
  <2> QED
    BY <2>2, <2>3 DEF IInv, TypeOK, MonitorClears
<1>2. FutureUntouched'
  BY DEF IInv, MonitorClears, IsCurrent, FutureUntouched, TypeOK
<1>3. DownHoldsNothing'
  BY DEF IInv, MonitorClears, IsCurrent, DownHoldsNothing, TypeOK
<1>4. SlotHoldsTheLive'
  BY DEF IInv, MonitorClears, IsCurrent, SlotHoldsTheLive, MonitorsAgree,
         GenerationNamesProcess, TypeOK
<1>5. LaunchInProgress'
  BY DEF IInv, MonitorClears, IsCurrent, LaunchInProgress, TypeOK
<1>6. MonitorsAgree'
  BY DEF IInv, MonitorClears, IsCurrent, MonitorsAgree, TypeOK
<1>7. GenerationNamesProcess'
  BY DEF IInv, MonitorClears, IsCurrent, GenerationNamesProcess, TypeOK
<1>8. MemoryAgrees'
  BY DEF IInv, MonitorClears, IsCurrent, MemoryAgrees, TypeOK
<1>9. RecordedWhileAlive'
  BY DEF IInv, MonitorClears, IsCurrent, RecordedWhileAlive, SlotHoldsTheLive,
         MonitorsAgree, GenerationNamesProcess, TypeOK
<1>10. EventIsTruthful'
  BY DEF IInv, MonitorClears, IsCurrent, Events, NoEvent, EventIsTruthful,
         MonitorsAgree, GenerationNamesProcess, MemoryAgrees, TypeOK
<1> QED
  BY <1>1, <1>2, <1>3, <1>4, <1>5, <1>6, <1>7, <1>8, <1>9, <1>10 DEF IInv

(* The exit callback. *)
LEMMA MonitorReportsStep ==
  ASSUME IInv, NEW h \in Handles, MonitorReports(h)
  PROVE  IInv'
<1> USE ConstantsAssumption DEF Handles, memory, threads, world, history
<1>1. TypeOK'
  BY DEF IInv, MonitorReports, TypeOK
<1>2. FutureUntouched'
  BY DEF IInv, MonitorReports, FutureUntouched, TypeOK
<1>3. DownHoldsNothing'
  BY DEF IInv, MonitorReports, DownHoldsNothing, TypeOK
<1>4. SlotHoldsTheLive'
  BY DEF IInv, MonitorReports, SlotHoldsTheLive, TypeOK
<1>5. LaunchInProgress'
  BY DEF IInv, MonitorReports, LaunchInProgress, TypeOK
<1>6. MonitorsAgree'
  BY DEF IInv, MonitorReports, MonitorsAgree, TypeOK
<1>7. GenerationNamesProcess'
  BY DEF IInv, MonitorReports, GenerationNamesProcess, TypeOK
<1>8. MemoryAgrees'
  BY DEF IInv, MonitorReports, MemoryAgrees, TypeOK
<1>9. RecordedWhileAlive'
  BY DEF IInv, MonitorReports, RecordedWhileAlive, TypeOK
<1>10. EventIsTruthful'
  BY DEF IInv, MonitorReports, EventIsTruthful, TypeOK
<1> QED
  BY <1>1, <1>2, <1>3, <1>4, <1>5, <1>6, <1>7, <1>8, <1>9, <1>10 DEF IInv

(* An application exiting. *)
LEMMA LeaderExitsStep ==
  ASSUME IInv, NEW h \in Handles, LeaderExits(h)
  PROVE  IInv'
<1> USE ConstantsAssumption DEF Handles, memory, threads, world, history
<1>1. TypeOK'
  BY DEF IInv, LeaderExits, TypeOK
<1>2. FutureUntouched'
  BY DEF IInv, LeaderExits, FutureUntouched, TypeOK
<1>3. DownHoldsNothing'
  BY DEF IInv, LeaderExits, DownHoldsNothing, TypeOK
<1>4. SlotHoldsTheLive'
  BY DEF IInv, LeaderExits, SlotHoldsTheLive, TypeOK
<1>5. LaunchInProgress'
  BY DEF IInv, LeaderExits, LaunchInProgress, TypeOK
<1>6. MonitorsAgree'
  BY DEF IInv, LeaderExits, MonitorsAgree, TypeOK
<1>7. GenerationNamesProcess'
  BY DEF IInv, LeaderExits, GenerationNamesProcess, TypeOK
<1>8. MemoryAgrees'
  BY DEF IInv, LeaderExits, MemoryAgrees, TypeOK
<1>9. RecordedWhileAlive'
  BY DEF IInv, LeaderExits, RecordedWhileAlive, TypeOK
<1>10. EventIsTruthful'
  BY DEF IInv, LeaderExits, EventIsTruthful, TypeOK
<1> QED
  BY <1>1, <1>2, <1>3, <1>4, <1>5, <1>6, <1>7, <1>8, <1>9, <1>10 DEF IInv

(* The daemon process ending. *)
LEMMA CrashStep ==
  ASSUME IInv, Crash
  PROVE  IInv'
<1> USE ConstantsAssumption DEF Handles, memory, threads, world, history
<1>1. TypeOK'
  <2>1. NoEvent \in Events
    BY DEF NoEvent, Events
  <2>2. /\ pc' \in [Callers -> {"idle", "launching", "stopping", "terminating",
                                "killing"}]
        /\ exitEvent' \in [Handles -> Events]
        /\ leader' \in [Handles -> {"unborn", "running", "zombie", "reaped"}]
    BY <2>1 DEF IInv, TypeOK, Crash
  <2>3. (\A d \in Callers : pc[d] = "launching" <=> lock = d)'
    BY DEF Crash
  <2>4. stopping' \in BOOLEAN /\ up' \in BOOLEAN
    BY DEF Crash
  <2>5. crashes' \in 0 .. MaxCrashes
    BY DEF IInv, TypeOK, Crash
  <2>6. /\ monitor' \in [Handles -> {"none", "waiting", "woken", "reporting", "done"}]
        /\ monitorGen' \in [Handles -> 0 .. MaxLaunches]
        /\ target' \in [Callers -> 0 .. MaxLaunches]
    BY DEF Crash
  <2>7. /\ lock' \in Callers \cup {NoOne}
        /\ service' \in Services \cup {NoService}
        /\ owned' \in SUBSET (1 .. spawned')
    BY DEF Crash
  <2>8. /\ process' \in 0 .. MaxLaunches
        /\ generation' \in 0 .. MaxLaunches
    BY DEF Crash
  <2>9. UNCHANGED <<stateFile, spawned, child, signalled, svc, stopAsked, reported>>
    BY DEF Crash
  <2> QED
    BY <2>2, <2>3, <2>4, <2>5, <2>6, <2>7, <2>8, <2>9 DEF IInv, TypeOK
<1>2. FutureUntouched'
  BY DEF IInv, Crash, FutureUntouched, TypeOK
<1>3. DownHoldsNothing'
  BY DEF IInv, Crash, DownHoldsNothing, TypeOK
<1>4. SlotHoldsTheLive'
  BY DEF IInv, Crash, SlotHoldsTheLive, TypeOK
<1>5. LaunchInProgress'
  BY DEF IInv, Crash, LaunchInProgress, TypeOK
<1>6. MonitorsAgree'
  BY DEF IInv, Crash, MonitorsAgree, TypeOK
<1>7. GenerationNamesProcess'
  BY DEF IInv, Crash, GenerationNamesProcess, TypeOK
<1>8. MemoryAgrees'
  BY DEF IInv, Crash, MemoryAgrees, TypeOK
<1>9. RecordedWhileAlive'
  BY DEF IInv, Crash, RecordedWhileAlive, TypeOK
<1>10. EventIsTruthful'
  BY DEF IInv, Crash, Events, NoEvent, EventIsTruthful, TypeOK
<1> QED
  BY <1>1, <1>2, <1>3, <1>4, <1>5, <1>6, <1>7, <1>8, <1>9, <1>10 DEF IInv

(* Its next start. *)
LEMMA RestartStep ==
  ASSUME IInv, Restart
  PROVE  IInv'
<1> USE ConstantsAssumption DEF Handles, memory, threads, world, history
<1>1. TypeOK'
  BY DEF IInv, Restart, TypeOK
<1>2. FutureUntouched'
  BY DEF IInv, Restart, FutureUntouched, TypeOK
<1>3. DownHoldsNothing'
  BY DEF IInv, Restart, DownHoldsNothing, TypeOK
<1>4. SlotHoldsTheLive'
  BY DEF IInv, Restart, SlotHoldsTheLive, TypeOK
<1>5. LaunchInProgress'
  BY DEF IInv, Restart, LaunchInProgress, TypeOK
<1>6. MonitorsAgree'
  BY DEF IInv, Restart, MonitorsAgree, TypeOK
<1>7. GenerationNamesProcess'
  BY DEF IInv, Restart, GenerationNamesProcess, TypeOK
<1>8. MemoryAgrees'
  BY DEF IInv, Restart, MemoryAgrees, TypeOK
<1>9. RecordedWhileAlive'
  BY DEF IInv, Restart, RecordedWhileAlive, MonitorsAgree, DownHoldsNothing,
         TypeOK
<1>10. EventIsTruthful'
  BY DEF IInv, Restart, EventIsTruthful, TypeOK
<1> QED
  BY <1>1, <1>2, <1>3, <1>4, <1>5, <1>6, <1>7, <1>8, <1>9, <1>10 DEF IInv

(* Every step of the specification preserves the invariant. *)
LEMMA InvariantStep == IInv /\ [Next]_vars => IInv'
<1> SUFFICES ASSUME IInv, [Next]_vars PROVE IInv'
  OBVIOUS
<1> USE ConstantsAssumption DEF Handles, memory, threads, world, history
<1>1. ASSUME NEW c \in Callers, NEW s \in Services, Spawn(c, s) PROVE IInv'
  BY <1>1, SpawnStep
<1>2. ASSUME NEW c \in Callers, Record(c) PROVE IInv'
  BY <1>2, RecordStep
<1>3. ASSUME NEW c \in Callers, StopNothing(c) PROVE IInv'
  BY <1>3, StopNothingStep
<1>4. ASSUME NEW c \in Callers, StopBegin(c) PROVE IInv'
  BY <1>4, StopBeginStep
<1>5. ASSUME NEW c \in Callers, RecordFails(c) PROVE IInv'
  <2>1. TypeOK'
    BY <1>5 DEF RecordFails, IInv, TypeOK
  <2> QED
    BY <1>5, <2>1, QuietStep DEF RecordFails
<1>6. ASSUME NEW c \in Callers, StopDead(c) PROVE IInv'
  <2>1. TypeOK'
    BY <1>6 DEF StopDead, vars, IInv, TypeOK
  <2> QED
    BY <1>6, <2>1, QuietStep DEF StopDead, vars
<1>7. ASSUME NEW c \in Callers, SendTerm(c) PROVE IInv'
  <2>1. TypeOK'
    BY <1>7 DEF SendTerm, SignalGroup, IInv, TypeOK
  <2> QED
    BY <1>7, <2>1, QuietStep DEF SendTerm
<1>8. ASSUME NEW c \in Callers, SeesExit(c) PROVE IInv'
  <2>1. TypeOK'
    BY <1>8 DEF SeesExit, StopDone, IInv, TypeOK
  <2> QED
    BY <1>8, <2>1, QuietStep DEF SeesExit, StopDone
<1>9. ASSUME NEW c \in Callers, Escalate(c) PROVE IInv'
  <2>1. TypeOK'
    BY <1>9 DEF Escalate, SignalGroup, EscalationSignal, IInv, TypeOK
  <2> QED
    BY <1>9, <2>1, QuietStep DEF Escalate
<1>10. ASSUME NEW c \in Callers, GiveUp(c) PROVE IInv'
  <2>1. TypeOK'
    BY <1>10 DEF GiveUp, StopDone, IInv, TypeOK
  <2> QED
    BY <1>10, <2>1, QuietStep DEF GiveUp, StopDone
<1>11. ASSUME NEW h \in Handles, MonitorWakes(h) PROVE IInv'
  BY <1>11, MonitorWakesStep
<1>12. ASSUME NEW h \in Handles, MonitorSuperseded(h) PROVE IInv'
  BY <1>12, MonitorSupersededStep
<1>13. ASSUME NEW h \in Handles, MonitorClears(h) PROVE IInv'
  BY <1>13, MonitorClearsStep
<1>14. ASSUME NEW h \in Handles, MonitorReports(h) PROVE IInv'
  BY <1>14, MonitorReportsStep
<1>15. ASSUME NEW h \in Handles, LeaderExits(h) PROVE IInv'
  BY <1>15, LeaderExitsStep
<1>16. ASSUME NEW h \in Handles, ChildExits(h) PROVE IInv'
  <2>1. TypeOK'
    BY <1>16 DEF ChildExits, IInv, TypeOK
  <2> QED
    BY <1>16, <2>1, QuietStep DEF ChildExits
<1>17. ASSUME Crash PROVE IInv'
  BY <1>17, CrashStep
<1>18. ASSUME Restart PROVE IInv'
  BY <1>18, RestartStep
<1>19. ASSUME UNCHANGED vars PROVE IInv'
  <2>1. TypeOK'
    BY <1>19 DEF vars, IInv, TypeOK
  <2> QED
    BY <1>19, <2>1, QuietStep DEF vars
<1> QED
  BY <1>1, <1>2, <1>3, <1>4, <1>5, <1>6, <1>7, <1>8, <1>9, <1>10, <1>11,
         <1>12, <1>13, <1>14, <1>15, <1>16, <1>17, <1>18, <1>19
     DEF Next, CallerStep, MonitorStep, AppStep

LEMMA InvariantInit == Init => IInv
<1> SUFFICES ASSUME Init PROVE IInv
  OBVIOUS
<1> USE ConstantsAssumption DEF Init, Handles
<1>1. TypeOK
  <2>1. NoEvent \in Events
    BY DEF NoEvent, Events
  <2>2. exitEvent \in [Handles -> Events] /\ up \in BOOLEAN /\ stopping \in BOOLEAN
    BY <2>1
  <2>3. \A c \in Callers : pc[c] = "launching" <=> lock = c
    OBVIOUS
  <2> QED
    BY <2>2, <2>3 DEF TypeOK
<1>2. FutureUntouched /\ DownHoldsNothing /\ SlotHoldsTheLive /\ LaunchInProgress
  BY DEF FutureUntouched, DownHoldsNothing, SlotHoldsTheLive, LaunchInProgress
<1>3. MonitorsAgree /\ GenerationNamesProcess /\ MemoryAgrees
  BY DEF MonitorsAgree, GenerationNamesProcess, MemoryAgrees
<1>4. RecordedWhileAlive /\ EventIsTruthful
  BY DEF RecordedWhileAlive, EventIsTruthful
<1> QED
  BY <1>1, <1>2, <1>3, <1>4 DEF IInv

LEMMA Invariant == Spec => []IInv
<1> QED
  BY InvariantInit, InvariantStep, PTL DEF Spec

-----------------------------------------------------------------------------
(* Every variable of the manager keeps its type, and the lock is held by   *)
(* exactly the caller that is inside launch().                             *)
THEOREM TypeCorrect == Spec => []TypeOK
<1>1. IInv => TypeOK
  BY DEF IInv
<1> QED
  BY <1>1, Invariant, PTL

(* However many launches, stops, late monitors and daemon deaths there are,*)
(* at most one application launched by the running daemon is alive.        *)
THEOREM OneApplication == Spec => []OneLiveApplication
<1>1. IInv => OneLiveApplication
  BY DEF IInv, SlotHoldsTheLive, OneLiveApplication
<1> QED
  BY <1>1, Invariant, PTL

(* While a watched application lives, active_application.json names it.    *)
THEOREM AlwaysRecorded == Spec => []RecordedWhileAlive
<1>1. IInv => RecordedWhileAlive
  BY DEF IInv
<1> QED
  BY <1>1, Invariant, PTL

(* on_exit is told the right service and the right stopped_by_manager.     *)
THEOREM TruthfulEvents == Spec => []EventIsTruthful
<1>1. IInv => EventIsTruthful
  BY DEF IInv
<1> QED
  BY <1>1, Invariant, PTL

-----------------------------------------------------------------------------
(* The refinement: initial states map to initial states, steps to steps.   *)

LEMMA SlotInit == Init => Slot!Init
  BY DEF Init, Slot!Init, Handles, Slot!Runs

SlotLive == {h \in owned : leader[h] = "running"}
slotVars == <<spawned, process, SlotLive, reported>>

(* Steps that touch neither the slot nor a living application.             *)
LEMMA SlotStutter ==
  ASSUME UNCHANGED <<spawned, process, reported>>, UNCHANGED SlotLive
  PROVE  UNCHANGED Slot!vars
  BY DEF Slot!vars, SlotLive

LEMMA SlotStep == IInv /\ [Next]_vars => [Slot!Next]_Slot!vars
<1> SUFFICES ASSUME IInv, [Next]_vars PROVE [Slot!Next]_Slot!vars
  OBVIOUS
<1> USE ConstantsAssumption DEF Handles, memory, threads, world, history, Slot!Runs
<1>1. ASSUME NEW c \in Callers, NEW s \in Services, Spawn(c, s) PROVE Slot!Start
  <2>1. \A h \in owned : leader[h] # "running"
    <3>1. process = 0 \/ leader[process] # "running"
      BY <1>1 DEF Spawn, IsRunning, Polled
    <3>2. 0 \notin owned
      BY DEF IInv, TypeOK
    <3> QED
      BY <3>1, <3>2 DEF IInv, SlotHoldsTheLive
  <2>2. SlotLive = {}
    BY <2>1 DEF SlotLive
  <2>3. spawned + 1 \in Handles /\ spawned + 1 \notin owned
    BY <1>1 DEF Spawn, IInv, TypeOK
  <2>4. leader'[spawned + 1] = "running" /\ owned' = owned \cup {spawned + 1}
    BY <1>1, <2>3 DEF Spawn, IInv, TypeOK
  <2>5. \A h \in owned : leader'[h] # "running"
    BY <1>1, <2>1, <2>3 DEF Spawn, IInv, TypeOK
  <2>6. SlotLive' = {spawned + 1}
    BY <2>4, <2>5 DEF SlotLive
  <2> QED
    BY <1>1, <2>2, <2>6 DEF Spawn, Slot!Start, SlotLive
<1>2. ASSUME NEW h \in Handles, MonitorClears(h) PROVE Slot!Vacate
  <2>1. process = h /\ leader[h] = "reaped" /\ h # 0
    BY <1>2 DEF MonitorClears, IsCurrent, IInv, MonitorsAgree, GenerationNamesProcess
  <2> QED
    BY <1>2, <2>1 DEF MonitorClears, Slot!Vacate
<1>3. ASSUME NEW h \in Handles, MonitorReports(h) PROVE Slot!Announce(h)
  <2>1. h \in 1 .. spawned /\ leader[h] = "reaped" /\ reported[h] = 0 /\ h # process
    BY <1>3 DEF MonitorReports, IInv, TypeOK, FutureUntouched, MonitorsAgree,
                GenerationNamesProcess
  <2> QED
    BY <1>3, <2>1 DEF MonitorReports, IInv, TypeOK, Slot!Announce
<1>4. ASSUME NEW h \in Handles, LeaderExits(h), h \in owned PROVE Slot!End(h)
  BY <1>4 DEF LeaderExits, IInv, TypeOK, Slot!End
<1>5. ASSUME NEW h \in Handles, LeaderExits(h), h \notin owned
      PROVE  UNCHANGED Slot!vars
  <2>1. UNCHANGED SlotLive
    BY <1>5 DEF LeaderExits, IInv, TypeOK, SlotLive
  <2> QED
    BY <1>5, <2>1, SlotStutter DEF LeaderExits
<1>6. ASSUME NEW h \in Handles, MonitorWakes(h) PROVE UNCHANGED Slot!vars
  <2>1. UNCHANGED SlotLive
    BY <1>6 DEF MonitorWakes, IInv, TypeOK, SlotLive
  <2> QED
    BY <1>6, <2>1, SlotStutter DEF MonitorWakes
<1>7. CASE Crash
  BY <1>7 DEF Crash, Slot!Next, Slot!Forget
<1>8. CASE Restart
  <2>1. SlotLive = {} /\ SlotLive' = {}
    BY <1>8 DEF Restart, IInv, DownHoldsNothing, SlotLive
  <2> QED
    BY <1>8, <2>1, SlotStutter DEF Restart
<1>9. ASSUME NEW c \in Callers, CallerStep(c), ~(\E s \in Services : Spawn(c, s))
      PROVE  UNCHANGED Slot!vars
  <2>1. UNCHANGED <<spawned, process, reported, owned, leader>>
    BY <1>9 DEF CallerStep, Record, RecordFails, StopNothing, StopDead, StopBegin,
                SendTerm, SeesExit, Escalate, GiveUp, vars
  <2> QED
    BY <2>1, SlotStutter DEF SlotLive
<1>10. ASSUME NEW h \in Handles, MonitorSuperseded(h) \/ ChildExits(h)
       PROVE  UNCHANGED Slot!vars
  <2>1. UNCHANGED <<spawned, process, reported, owned, leader>>
    BY <1>10 DEF MonitorSuperseded, ChildExits
  <2> QED
    BY <2>1, SlotStutter DEF SlotLive
<1>11. CASE UNCHANGED vars
  BY <1>11, SlotStutter DEF vars, SlotLive
<1> QED
  BY <1>1, <1>2, <1>3, <1>4, <1>5, <1>6, <1>7, <1>8, <1>9, <1>10, <1>11
     DEF Next, MonitorStep, AppStep, Slot!Next

(* The manager implements the abstract slot: no launch over a live         *)
(* application, no end announced early or twice.                           *)
THEOREM ImplementsSlot == Spec => SlotSpec
<1> QED
  BY SlotInit, SlotStep, Invariant, PTL DEF Spec, SlotSpec, Slot!Spec

LiveOnes == {h \in owned : leader[h] = "running"}

(* What the abstract slot keeps: what runs owns it, and what was announced *)
(* is an earlier run.                                                      *)
SlotInv(n, s, l, a) ==
  /\ n \in 0 .. MaxLaunches /\ s \in 0 .. n
  /\ l \subseteq {s} \ {0}
  /\ a \in [1 .. MaxLaunches -> {0, 1}]
  /\ \A r \in 1 .. MaxLaunches : a[r] = 1 => r <= n /\ r # s

LEMMA SlotKeeps ==
  ASSUME NEW n, NEW s, NEW l, NEW a, SlotInv(n, s, l, a), NEW n2, NEW s2, NEW l2, NEW a2,
         \/ /\ n < MaxLaunches /\ n2 = n + 1 /\ s2 = n + 1 /\ l2 = {n + 1} /\ a2 = a
         \/ n2 = n /\ s2 = s /\ a2 = a /\ l2 \subseteq l
         \/ s \notin l /\ s2 = 0 /\ n2 = n /\ l2 = l /\ a2 = a
         \/ \E r \in 1 .. n : r # s /\ a2 = [a EXCEPT ![r] = 1] /\ n2 = n /\ s2 = s /\ l2 = l
         \/ s2 = 0 /\ l2 = {} /\ n2 = n /\ a2 = a
  PROVE  SlotInv(n2, s2, l2, a2)
<1>1. MaxLaunches \in Nat /\ n \in 0 .. MaxLaunches /\ s \in 0 .. n /\ l \subseteq {s} \ {0}
      /\ a \in [1 .. MaxLaunches -> {0, 1}] /\ \A r \in 1 .. MaxLaunches : a[r] = 1 => r <= n /\ r # s
  BY ConstantsAssumption DEF SlotInv
<1>2. CASE n < MaxLaunches /\ n2 = n + 1 /\ s2 = n + 1 /\ l2 = {n + 1} /\ a2 = a
  <2>1. n2 \in 0 .. MaxLaunches /\ s2 \in 0 .. n2 /\ l2 \subseteq {s2} \ {0}
    BY <1>1, <1>2
  <2>2. \A r \in 1 .. MaxLaunches : a[r] = 1 => r <= n2 /\ r # s2
    BY <1>1, <1>2
  <2> QED
    BY <1>1, <1>2, <2>1, <2>2 DEF SlotInv
<1>3. CASE n2 = n /\ s2 = s /\ a2 = a /\ l2 \subseteq l
  <2>1. l2 \subseteq {s2} \ {0}
    BY <1>1, <1>3
  <2> QED
    BY <1>1, <1>3, <2>1 DEF SlotInv
<1>4. CASE s \notin l /\ s2 = 0 /\ n2 = n /\ l2 = l /\ a2 = a
  <2>1. l2 \subseteq {s2} \ {0} /\ s2 \in 0 .. n2
    BY <1>1, <1>4
  <2>2. \A r \in 1 .. MaxLaunches : a[r] = 1 => r <= n2 /\ r # s2
    BY <1>1, <1>4
  <2> QED
    BY <1>1, <1>4, <2>1, <2>2 DEF SlotInv
<1>5. CASE \E r \in 1 .. n : r # s /\ a2 = [a EXCEPT ![r] = 1] /\ n2 = n /\ s2 = s /\ l2 = l
  <2>1. PICK r \in 1 .. n : r # s /\ a2 = [a EXCEPT ![r] = 1] /\ n2 = n /\ s2 = s /\ l2 = l
    BY <1>5
  <2>2. a2 \in [1 .. MaxLaunches -> {0, 1}]
    BY <1>1, <2>1
  <2>3. \A q \in 1 .. MaxLaunches : a2[q] = 1 => q = r \/ a[q] = 1
    BY <1>1, <2>1
  <2>4. \A q \in 1 .. MaxLaunches : a2[q] = 1 => q <= n /\ q # s
    BY <1>1, <2>1, <2>3
  <2> QED
    BY <1>1, <2>1, <2>2, <2>4 DEF SlotInv
<1>6. CASE s2 = 0 /\ l2 = {} /\ n2 = n /\ a2 = a
  <2>1. l2 \subseteq {s2} \ {0} /\ s2 \in 0 .. n2
    BY <1>1, <1>6
  <2>2. \A r \in 1 .. MaxLaunches : a[r] = 1 => r <= n2 /\ r # s2
    BY <1>1, <1>6
  <2> QED
    BY <1>1, <1>6, <2>1, <2>2 DEF SlotInv
<1> QED
  BY <1>2, <1>3, <1>4, <1>5, <1>6

LEMMA SlotInvStep ==
  ASSUME SlotInv(spawned, process, LiveOnes, reported), Slot!Next \/ UNCHANGED Slot!vars
  PROVE  SlotInv(spawned, process, LiveOnes, reported)'
<1>1. PICK l : l = LiveOnes
  OBVIOUS
<1>2. PICK k : k = LiveOnes'
  OBVIOUS
<1>3. PICK a : a = reported
  OBVIOUS
<1>4. PICK b : b = reported'
  OBVIOUS
<1>5. SlotInv(spawned, process, l, a)
  BY <1>1, <1>3
<1>6. \/ /\ spawned < MaxLaunches /\ spawned' = spawned + 1 /\ process' = spawned + 1 /\ k = {spawned + 1} /\ b = a
      \/ spawned' = spawned /\ process' = process /\ b = a /\ k \subseteq l
      \/ process \notin l /\ process' = 0 /\ spawned' = spawned /\ k = l /\ b = a
      \/ \E r \in 1 .. spawned : /\ r # process /\ b = [a EXCEPT ![r] = 1] /\ spawned' = spawned
                                 /\ process' = process /\ k = l
      \/ process' = 0 /\ k = {} /\ spawned' = spawned /\ b = a
  BY <1>1, <1>2, <1>3, <1>4
     DEF Slot!Next, Slot!vars, Slot!Start, Slot!Vacate, Slot!Forget, Slot!End, Slot!Announce, Slot!Runs, LiveOnes
<1>7. SlotInv(spawned', process', k, b)
  BY <1>5, <1>6, SlotKeeps
<1> QED
  BY <1>2, <1>4, <1>7 DEF SlotInv

(* The promise of the abstract slot, kept here: two applications never run *)
(* at once, and the end of each is announced at most once and after it.        *)
THEOREM PromiseKept == Spec => []Slot!Promise
<1>1. Slot!Init => SlotInv(spawned, process, LiveOnes, reported)
  BY ConstantsAssumption DEF Slot!Init, Slot!Runs, SlotInv, LiveOnes
<1>2. SlotInv(spawned, process, LiveOnes, reported) /\ [Slot!Next]_(Slot!vars)
        => SlotInv(spawned, process, LiveOnes, reported)'
  BY SlotInvStep
<1>3. SlotInv(spawned, process, LiveOnes, reported) => Slot!Promise
  BY ConstantsAssumption DEF SlotInv, Slot!Promise, Slot!Runs, LiveOnes
<1> QED
  BY <1>1, <1>2, <1>3, ImplementsSlot, PTL DEF SlotSpec, Slot!Spec

-----------------------------------------------------------------------------
(* RuntimeState.  An update that is alone finds the files as it left them  *)
(* (Alone).  The state names the application that runs (Truthful), as long *)
(* as no exit callback has met a launch: then only the last launched is    *)
(* monitored (Monitored, Apart), and what is in memory is published but    *)
(* between the two halves of an announcement (Announced).                  *)

-----------------------------------------------------------------------------
(* The settings file.                                                      *)

IsRequest(q) ==
  /\ q = [step |-> q.step, section |-> q.section, value |-> q.value, text |-> q.text, fd |-> q.fd]
  /\ q.step \in {"idle", "open", "write", "replace"}

(* What one update has at hand while it is alone: the settings it read with *)
(* its section changed, and the temporary file as it left it.              *)
Alone(q, tmp, settings) ==
  /\ q.step # "idle" => q.text = [settings EXCEPT ![q.section] = q.value]
  /\ q.step = "write" => q.fd = "temporary" /\ tmp = Broken("Empty")
  /\ q.step = "replace" => tmp = Text(q.text)

SettingsInv ==
  /\ request = [h \in Handlers |-> request[h]] /\ \A h \in Handlers : IsRequest(request[h])
  /\ overlapped \in BOOLEAN
  /\ ~overlapped => /\ Load(file.text) = saved
                    /\ \A g, h \in Handlers : Active(g) /\ Active(h) => g = h
                    /\ \A h \in Handlers : Alone(request[h], temporary, saved)

-----------------------------------------------------------------------------
(* The foreground application.                                             *)

IsState(m) ==
  m \in [infrastructure : {m.infrastructure}, foreground : Apps \cup {NoApp}, launcher : BOOLEAN,
         active : Apps \cup {NoApp}]

(* The state says that this application is there, or the launcher. *)
Says(m, app) == m.foreground = app /\ m.active = app /\ (m.launcher <=> app = NoApp)

AfterExit == {"looks", "sets", "publishes", "menu"}

DisplayType ==
  /\ task \in [step : {"idle", "menu", "launch", "set", "publish", "stopping"}, app : Apps \cup {NoApp}]
  /\ watcher \in [1..MaxAsked -> {"none", "waits", "done"} \cup AfterExit]
  /\ launches \in 0..MaxAsked /\ updates \in Nat
  /\ running \in Apps \cup {NoApp} /\ {on, visible, manual, mixed, failed} \subseteq BOOLEAN
  /\ IsState(inMemory)
  /\ task.step = "launch" => launches < MaxAsked
  /\ task.step \in {"launch", "set", "publish"} => task.app \in Apps
  /\ \A n \in 1..MaxAsked : n > launches => watcher[n] = "none"

(* The last launched runs under its monitor, and nothing without the daemon. *)
Monitored ==
  /\ running # NoApp => launches > 0 /\ watcher[launches] = "waits"
  /\ ~on => running = NoApp

(* Only between the two halves of an announcement is something unpublished. *)
Announced ==
  on /\ ~failed => \/ published = inMemory
                   \/ task.step = "publish"
                   \/ \E n \in 1..MaxAsked : watcher[n] = "publishes"

(* While no exit callback has met a launch. *)
Apart ==
  /\ \A n \in 1..MaxAsked : watcher[n] = "waits" => n = launches /\ running # NoApp
  /\ \A n \in 1..MaxAsked : watcher[n] \in AfterExit => running = NoApp

Truthful ==
  /\ task.step = "launch" => /\ running = NoApp /\ ~visible /\ ~inMemory.launcher
                             /\ \A n \in 1..MaxAsked : ~Busy(n)
  /\ task.step \in {"set", "publish"} => running = task.app /\ ~visible /\ ~inMemory.launcher
  /\ task.step = "publish" => inMemory.foreground = task.app
  /\ task.step = "menu" => running = NoApp
  /\ task.step \in {"idle", "stopping"} /\ running # NoApp => Says(inMemory, running) /\ ~visible
  /\ visible => Says(inMemory, NoApp) /\ running = NoApp

DisplayInv == DisplayType /\ Monitored /\ Announced /\ (~mixed => Apart /\ Truthful)

-----------------------------------------------------------------------------
LEMMA TextIs ==
  ASSUME NEW x
  PROVE  Load(Text(x)) = x /\ ~IsMissing(Text(x)) /\ Over(Broken("Empty"), x) = {Text(x)}
BY DEF Load, Text, IsMissing, Over, Broken

Goes(q, s, f) == [[q EXCEPT !.step = s] EXCEPT !.fd = f]

LEMMA RequestIs ==
  ASSUME NEW q, IsRequest(q), NEW s \in {"idle", "open", "write", "replace"}, NEW f
  PROVE  /\ Goes(q, s, f).step = s /\ Goes(q, s, f).fd = f
         /\ Goes(q, s, f).section = q.section /\ Goes(q, s, f).value = q.value
         /\ Goes(q, s, f).text = q.text /\ IsRequest(Goes(q, s, f))
<1>1. PICK a, b, c, d, e : q = [step |-> a, section |-> b, value |-> c, text |-> d, fd |-> e]
  BY DEF IsRequest
<1>2. /\ q.section = b /\ q.value = c /\ q.text = d
      /\ Goes(q, s, f) = [step |-> s, section |-> b, value |-> c, text |-> d, fd |-> f]
  <2>1. PICK p : p = [q EXCEPT !.step = s]
    OBVIOUS
  <2>3. p = [step |-> s, section |-> b, value |-> c, text |-> d, fd |-> e]
    BY <1>1, <2>1
  <2>4. Goes(q, s, f) = [p EXCEPT !.fd = f]
    BY <2>1, Zenon DEF Goes
  <2>2. Goes(q, s, f) = [step |-> s, section |-> b, value |-> c, text |-> d, fd |-> f]
    BY <2>3, <2>4
  <2> QED
    BY <1>1, <2>2
<1>3. PICK r : r = Goes(q, s, f)
  OBVIOUS
<1>4. /\ r.step = s /\ r.section = b /\ r.value = c /\ r.text = d /\ r.fd = f
      /\ r = [step |-> s, section |-> b, value |-> c, text |-> d, fd |-> f]
  BY <1>2, <1>3
<1>5. IsRequest(r)
  BY <1>4 DEF IsRequest
<1> QED
  BY <1>2, <1>3, <1>4, <1>5

LEMMA IdleIs == IsRequest(Idle) /\ Idle.step = "idle"
BY DEF IsRequest, Idle

(* Whoever ends alone leaves the file as the others expect it. *)
LEMMA EndsKeeps ==
  ASSUME SettingsInv, NEW h \in Handlers, Active(h), Ends(h, file.text), UNCHANGED file
  PROVE  SettingsInv'
<1>1. /\ request' = [request EXCEPT ![h] = Idle] /\ request = [g \in Handlers |-> request[g]]
      /\ \A g \in Handlers : IsRequest(request[g])
  BY DEF Ends, SettingsInv
<1>2. request'[h] = Idle /\ \A g \in Handlers : g # h => request'[g] = request[g]
  BY <1>1
<1>3. request' = [g \in Handlers |-> request'[g]] /\ \A g \in Handlers : IsRequest(request'[g])
  BY <1>1, <1>2, IdleIs
<1>4. CASE \A g \in Handlers \ {h} : ~Active(g)
  <2>1. overlapped' = FALSE /\ saved' = IF overlapped THEN Load(file.text) ELSE saved
    BY <1>4 DEF Ends
  <2>2. Load(file.text) = saved'
    BY <2>1 DEF SettingsInv
  <2>3. \A g \in Handlers : request'[g].step = "idle"
    BY <1>2, <1>4, IdleIs DEF Active
  <2> QED
    BY <1>3, <2>1, <2>2, <2>3 DEF SettingsInv, Alone, Active
<1>5. CASE ~\A g \in Handlers \ {h} : ~Active(g)
  <2>1. overlapped /\ overlapped' = overlapped /\ overlapped \in BOOLEAN
    BY <1>5 DEF Ends, SettingsInv
  <2> QED
    BY <1>3, <2>1 DEF SettingsInv
<1> QED
  BY <1>4, <1>5

LEMMA UpdateKeeps ==
  ASSUME SettingsInv, NEW h \in Handlers, NEW s, NEW v, Update(h, s, v)
  PROVE  SettingsInv'
<1> DEFINE q == [step |-> "open", section |-> s, value |-> v, text |-> Merged(file.text, s, v),
                 fd |-> "none"]
<1>1. /\ request' = [request EXCEPT ![h] = q] /\ request = [g \in Handlers |-> request[g]]
      /\ \A g \in Handlers : IsRequest(request[g])
      /\ file' = file /\ temporary' = temporary /\ saved' = saved
      /\ overlapped' = (overlapped \/ \E g \in Handlers : Active(g))
  BY DEF Update, SettingsInv, files
<1>2. IsRequest(q) /\ q.step = "open"
  BY DEF IsRequest
<1>3. q.text = [Load(file.text) EXCEPT ![q.section] = q.value]
  BY DEF Merged
<1> HIDE DEF q
<1>4. request'[h] = q /\ \A g \in Handlers : g # h => request'[g] = request[g]
  BY <1>1
<1>5. request' = [g \in Handlers |-> request'[g]] /\ \A g \in Handlers : IsRequest(request'[g])
  BY <1>1, <1>2, <1>4
<1>6. overlapped' \in BOOLEAN
  BY <1>1
<1>7. ASSUME ~overlapped'
      PROVE  /\ Load(file'.text) = saved'
             /\ \A g, k \in Handlers : Active(g)' /\ Active(k)' => g = k
             /\ \A g \in Handlers : Alone(request'[g], temporary', saved')
  <2>1. Load(file.text) = saved /\ \A g \in Handlers : request[g].step = "idle"
    BY <1>1, <1>7 DEF SettingsInv, Active
  <2>2. \A g \in Handlers : g # h => request'[g].step = "idle"
    BY <1>4, <2>1
  <2>3. Alone(q, temporary', saved')
    BY <1>1, <1>2, <1>3, <2>1 DEF Alone
  <2>4. \A g \in Handlers : Alone(request'[g], temporary', saved')
    BY <1>4, <2>2, <2>3 DEF Alone
  <2> QED
    BY <1>1, <2>1, <2>2, <2>4 DEF Active
<1> QED
  BY <1>5, <1>6, <1>7 DEF SettingsInv

(* A step of one update that leaves the settings file as it is. *)
LEMMA OneMovesKeeps ==
  ASSUME SettingsInv, NEW h \in Handlers, Active(h),
         NEW s \in {"write", "replace"}, NEW f,
         request' = [request EXCEPT ![h].step = s, ![h].fd = f],
         UNCHANGED <<saved, overlapped>>,
         ~overlapped => /\ file' = file
                        /\ s = "write" => f = "temporary" /\ temporary' = Broken("Empty")
                        /\ s = "replace" => temporary' = Text(request[h].text)
  PROVE  SettingsInv'
<1>1. /\ request = [g \in Handlers |-> request[g]] /\ \A g \in Handlers : IsRequest(request[g])
  BY DEF SettingsInv
<1>2. PICK q : q = Goes(request[h], s, f)
  OBVIOUS
<1>3. request'[h] = q /\ \A g \in Handlers : g # h => request'[g] = request[g]
  BY <1>1, <1>2 DEF Goes
<1>4. /\ IsRequest(q) /\ q.step = s /\ q.fd = f /\ q.section = request[h].section
      /\ q.value = request[h].value /\ q.text = request[h].text
  <2>1. s \in {"idle", "open", "write", "replace"}
    OBVIOUS
  <2> QED
    BY <1>1, <1>2, <2>1, RequestIs
<1>5. request' = [g \in Handlers |-> request'[g]] /\ \A g \in Handlers : IsRequest(request'[g])
  BY <1>1, <1>3, <1>4
<1>6. ASSUME ~overlapped
      PROVE  /\ Load(file'.text) = saved'
             /\ \A g, k \in Handlers : Active(g)' /\ Active(k)' => g = k
             /\ \A g \in Handlers : Alone(request'[g], temporary', saved')
  <2>1. /\ Load(file.text) = saved /\ \A g \in Handlers : g # h => request[g].step = "idle"
        /\ Alone(request[h], temporary, saved)
    BY <1>6 DEF SettingsInv, Active
  <2>2. \A g \in Handlers : g # h => request'[g].step = "idle"
    BY <1>3, <2>1
  <2>3. Alone(q, temporary', saved')
    <3>1. q.text = [saved EXCEPT ![q.section] = q.value]
      BY <1>4, <2>1 DEF Alone, Active
    <3> QED
      BY <1>4, <1>6, <3>1 DEF Alone
  <2>4. \A g \in Handlers : Alone(request'[g], temporary', saved')
    BY <1>3, <2>2, <2>3 DEF Alone
  <2> QED
    BY <1>6, <2>1, <2>2, <2>4 DEF Active
<1> QED
  BY <1>5, <1>6 DEF SettingsInv

LEMMA OpenKeeps ==
  ASSUME SettingsInv, NEW h \in Handlers, OpenTemporary(h)
  PROVE  SettingsInv'
<1>1. /\ request' = [request EXCEPT ![h].step = "write", ![h].fd = "temporary"] /\ Active(h)
      /\ temporary' = Broken("Empty") /\ UNCHANGED <<file, saved, overlapped>>
  BY DEF OpenTemporary, Active
<1> QED
  BY <1>1, OneMovesKeeps

LEMMA WriteKeeps ==
  ASSUME SettingsInv, NEW h \in Handlers, WriteTemporary(h)
  PROVE  SettingsInv'
<1>1. /\ request' = [request EXCEPT ![h].step = "replace", ![h].fd = "none"] /\ Active(h)
      /\ UNCHANGED <<saved, overlapped>> /\ request[h].step = "write"
  BY DEF WriteTemporary, Active
<1>2. ASSUME ~overlapped
      PROVE  file' = file /\ temporary' = Text(request[h].text)
  <2>1. request[h].fd = "temporary" /\ temporary = Broken("Empty")
    BY <1>1, <1>2 DEF SettingsInv, Alone
  <2>2. temporary' \in Over(temporary, request[h].text) /\ file' = file
    BY <2>1 DEF WriteTemporary
  <2> QED
    BY <2>1, <2>2, TextIs
<1> QED
  BY <1>1, <1>2, OneMovesKeeps

LEMMA ReplaceKeeps ==
  ASSUME SettingsInv, NEW h \in Handlers, Replace(h)
  PROVE  SettingsInv'
<1>1. request[h].step = "replace" /\ Active(h)
  BY DEF Replace, Active
<1>2. CASE IsMissing(temporary)
  BY <1>1, <1>2, EndsKeeps DEF Replace, files
<1>3. CASE ~IsMissing(temporary)
  <2> DEFINE fd(g) == CASE request[g].fd = "temporary" -> "file" [] request[g].fd = "file" -> "gone"
                        [] OTHER -> request[g].fd
             others == [g \in Handlers |-> [request[g] EXCEPT !.fd = fd(g)]]
             last == \A g \in Handlers \ {h} : ~Active(g)
  <2>1. /\ file' = [text |-> temporary, mtime |-> stamp + 1]
        /\ request' = [others EXCEPT ![h] = Idle]
        /\ overlapped' = (overlapped /\ ~last)
        /\ saved' = IF overlapped THEN (IF last THEN Load(temporary) ELSE saved)
                    ELSE [saved EXCEPT ![request[h].section] = request[h].value]
    BY <1>3 DEF Replace
  <2>2. \A g \in Handlers : IsRequest(request[g])
    BY DEF SettingsInv
  <2>3. ASSUME NEW g \in Handlers, g # h
        PROVE  IsRequest(request'[g]) /\ request'[g].step = request[g].step
    <3>1. request'[g] = [request[g] EXCEPT !.fd = fd(g)]
      BY <2>1, <2>3
    <3>2. PICK x : x = fd(g)
      OBVIOUS
    <3>3. request[g].step \in {"idle", "open", "write", "replace"} /\ IsRequest(request[g])
      BY <2>2 DEF IsRequest
    <3>4. request'[g] = Goes(request[g], request[g].step, x)
      <4>1. [request[g] EXCEPT !.step = request[g].step] = request[g]
        BY <2>2 DEF IsRequest
      <4> QED
        BY <3>1, <3>2, <4>1 DEF Goes
    <3> QED
      BY <3>3, <3>4, RequestIs
  <2>4. request'[h] = Idle
    BY <2>1
  <2>5. request' = [g \in Handlers |-> request'[g]]
    BY <2>1
  <2>6. \A g \in Handlers : IsRequest(request'[g])
    BY <2>3, <2>4, IdleIs
  <2> HIDE DEF others
  <2>7. ASSUME ~overlapped'
        PROVE  /\ Load(file'.text) = saved'
               /\ \A g, k \in Handlers : Active(g)' /\ Active(k)' => g = k
               /\ \A g \in Handlers : Alone(request'[g], temporary', saved')
    <3>1. CASE overlapped
      <4>1. last /\ saved' = Load(temporary)
        BY <2>1, <2>7, <3>1
      <4>2. \A g \in Handlers : request'[g].step = "idle"
        BY <2>3, <2>4, <4>1, IdleIs DEF Active
      <4> QED
        BY <2>1, <4>1, <4>2 DEF Active, Alone
    <3>2. CASE ~overlapped
      <4>1. /\ Load(file.text) = saved /\ \A g \in Handlers : g # h => request[g].step = "idle"
            /\ Alone(request[h], temporary, saved)
        BY <1>1, <3>2 DEF SettingsInv, Active
      <4>2. \A g \in Handlers : request'[g].step = "idle"
        BY <2>3, <2>4, <4>1, IdleIs
      <4>3. Load(temporary) = [saved EXCEPT ![request[h].section] = request[h].value]
        BY <1>1, <4>1, TextIs DEF Alone
      <4> QED
        BY <2>1, <3>2, <4>2, <4>3 DEF Active, Alone
    <3> QED
      BY <3>1, <3>2
  <2>8. overlapped' \in BOOLEAN
    BY <2>1
  <2> QED
    BY <2>5, <2>6, <2>7, <2>8 DEF SettingsInv
<1> QED
  BY <1>2, <1>3

LEMMA ConsoleKilledKeeps ==
  ASSUME SettingsInv, ConsoleKilled
  PROVE  SettingsInv'
<1>1. /\ request' = [h \in Handlers |-> Idle] /\ overlapped' = FALSE /\ file' = file
      /\ saved' = IF overlapped THEN Load(file.text) ELSE saved
  BY DEF ConsoleKilled, files
<1>2. Load(file.text) = saved'
  BY <1>1 DEF SettingsInv
<1>3. \A h \in Handlers : request'[h] = Idle
  BY <1>1
<1> QED
  BY <1>1, <1>2, <1>3, IdleIs DEF SettingsInv, Alone, Active

LEMMA SettingsStep ==
  ASSUME SettingsInv, [StateNext]_stateVars
  PROVE  SettingsInv'
<1>1. ASSUME UNCHANGED <<files, console>>
      PROVE  SettingsInv'
  BY <1>1 DEF files, console, SettingsInv, Active
<1>2. ASSUME NEW h \in Handlers, NEW s \in Sections, NEW v \in Offered[s], Update(h, s, v)
      PROVE  SettingsInv'
  BY <1>2, UpdateKeeps
<1>3. ASSUME NEW h \in Handlers, ConsoleStep(h)
      PROVE  SettingsInv'
  BY <1>3, OpenKeeps, WriteKeeps, ReplaceKeeps DEF ConsoleStep
<1>4. ASSUME NEW h \in Handlers, WriteFails(h)
      PROVE  SettingsInv'
  BY <1>4, EndsKeeps DEF WriteFails, Active
<1>5. CASE ConsoleKilled
  BY <1>5, ConsoleKilledKeeps
<1>6. CASE ContainersChange \/ ModePublishes \/ PollLooks \/ PollStep
  BY <1>1, <1>6 DEF ContainersChange, ModePublishes, PollLooks, PollStep, PollReads, PollStamps,
     PollPublishes
<1>7. CASE MainStep \/ HomeHold \/ Recover \/ ApplicationEnds \/ DaemonStarts \/ DaemonEnds
  BY <1>1, <1>7 DEF MainStep, Launch, Announce, PublishStarted, StopReturns, MainShowsMenu, HomeHold,
     Recover, ApplicationEnds, DaemonStarts, DaemonEnds
<1>8. ASSUME NEW a \in Apps, HideMenu(a)
      PROVE  SettingsInv'
  BY <1>1, <1>8 DEF HideMenu
<1>9. ASSUME NEW n \in DOMAIN watcher, WatcherStep(n)
      PROVE  SettingsInv'
  BY <1>1, <1>9 DEF WatcherStep, WatcherLooks, WatcherSets, WatcherPublishes, WatcherShowsMenu
<1>10. CASE UNCHANGED stateVars
  BY <1>1, <1>10 DEF stateVars
<1> QED
  BY <1>2, <1>3, <1>4, <1>5, <1>6, <1>7, <1>8, <1>9, <1>10 DEF StateNext

(* Updates made one after the other build on each other, whatever fails or *)
(* is killed in between: for any number of updates, handlers and failures. *)
THEOREM SettingsSurvived == StateSpec => []SettingsSurvive
<1>1. StateInit => SettingsInv
  <2> SUFFICES ASSUME StateInit PROVE SettingsInv
    OBVIOUS
  <2>1. /\ request = [h \in Handlers |-> Idle] /\ overlapped = FALSE /\ saved = DefaultConfig
        /\ file = [text |-> Broken("Missing"), mtime |-> 0]
    BY DEF StateInit
  <2>2. Load(file.text) = saved
    BY <2>1 DEF Load, Broken
  <2>3. \A h \in Handlers : request[h] = Idle
    BY <2>1
  <2> QED
    BY <2>1, <2>2, <2>3, IdleIs DEF SettingsInv, Alone, Active
<1>2. SettingsInv /\ [StateNext]_stateVars => SettingsInv'
  BY SettingsStep
<1>3. SettingsInv => SettingsSurvive
  BY DEF SettingsInv, SettingsSurvive
<1> QED
  BY <1>1, <1>2, <1>3, PTL DEF StateSpec

-----------------------------------------------------------------------------
LEMMA BoundIs == MaxAsked \in Nat
BY BoundsAssumption

LEMMA ForegroundIs ==
  ASSUME NEW m, IsState(m), NEW app \in Apps \cup {NoApp}
  PROVE  /\ IsState(Foreground(m, app)) /\ Foreground(m, app).foreground = app
         /\ Foreground(m, app).launcher <=> app = NoApp
         /\ Foreground(m, app).active = m.active
<1>1. PICK l \in BOOLEAN : l = (app = NoApp)
  OBVIOUS
<1>2. Foreground(m, app) = [m EXCEPT !.foreground = app, !.launcher = l]
  BY <1>1, Zenon DEF Foreground
<1>3. PICK i : i = m.infrastructure /\ m \in [infrastructure : {i}, foreground : Apps \cup {NoApp},
                                             launcher : BOOLEAN, active : Apps \cup {NoApp}]
  BY DEF IsState
<1>4. PICK n : n = [m EXCEPT !.foreground = app, !.launcher = l]
  OBVIOUS
<1>5. /\ n \in [infrastructure : {i}, foreground : Apps \cup {NoApp}, launcher : BOOLEAN,
               active : Apps \cup {NoApp}]
      /\ n.foreground = app /\ n.launcher = l /\ n.active = m.active
  BY <1>3, <1>4
<1>6. IsState(n)
  BY <1>5 DEF IsState
<1> QED
  BY <1>1, <1>2, <1>4, <1>5, <1>6, Zenon

LEMMA ActiveIs ==
  ASSUME NEW m, IsState(m), NEW x \in Apps \cup {NoApp}, NEW n, n = [m EXCEPT !.active = x]
  PROVE  IsState(n) /\ n.active = x /\ n.foreground = m.foreground /\ n.launcher = m.launcher
BY DEF IsState

LEMMA ObservedIs ==
  ASSUME NEW m, IsState(m), NEW x, NEW n, n = [m EXCEPT !.infrastructure = x]
  PROVE  IsState(n) /\ n.active = m.active /\ n.foreground = m.foreground /\ n.launcher = m.launcher
BY DEF IsState

LEMMA HiddenIs ==
  ASSUME NEW m, IsState(m), NEW n, n = [m EXCEPT !.launcher = FALSE]
  PROVE  IsState(n) /\ ~n.launcher
BY DEF IsState

LEMMA AtLauncherIs ==
  ASSUME NEW m, IsState(m)
  PROVE  IsState(AtLauncher(m)) /\ Says(AtLauncher(m), NoApp)
<1>1. PICK p : p = Foreground(m, NoApp)
  OBVIOUS
<1>2. PICK n : n = [p EXCEPT !.active = NoApp]
  OBVIOUS
<1>3. AtLauncher(m) = n
  BY <1>1, <1>2, Zenon DEF AtLauncher
<1>4. IsState(p) /\ p.foreground = NoApp /\ p.launcher
  BY <1>1, ForegroundIs
<1>5. IsState(n) /\ n.active = NoApp /\ n.foreground = p.foreground /\ n.launcher = p.launcher
  BY <1>2, <1>4 DEF IsState
<1> QED
  BY <1>3, <1>4, <1>5 DEF Says

LEMMA WatcherIs ==
  ASSUME DisplayType, NEW n \in 1..MaxAsked, NEW s \in {"none", "waits", "done"} \cup AfterExit,
         watcher' = [watcher EXCEPT ![n] = s]
  PROVE  /\ watcher' \in [1..MaxAsked -> {"none", "waits", "done"} \cup AfterExit]
         /\ watcher'[n] = s /\ \A k \in 1..MaxAsked : k # n => watcher'[k] = watcher[k]
BY DEF DisplayType

LEMMA PublishIs ==
  ASSUME NEW m, Publish(m)
  PROVE  /\ inMemory' = m /\ failed' \in BOOLEAN
         /\ ~failed' => published' = inMemory'
BY DEF Publish

LEMMA HideMenuKeeps ==
  ASSUME DisplayInv, NEW a \in Apps, HideMenu(a)
  PROVE  DisplayInv'
<1>1. PICK m : m = [inMemory EXCEPT !.launcher = FALSE]
  OBVIOUS
<1>2. /\ inMemory' = m /\ failed' \in BOOLEAN
      /\ ~failed' => published' = inMemory'
  BY <1>1, PublishIs DEF HideMenu
<1>3. IsState(m) /\ ~m.launcher
  BY <1>1, HiddenIs DEF DisplayInv, DisplayType
<1>4. /\ visible' = FALSE /\ task' = [step |-> "launch", app |-> a]
      /\ mixed' = \E n \in DOMAIN watcher : Busy(n)
      /\ UNCHANGED <<on, watcher, launches, running, manual, updates>>
      /\ launches + updates < MaxAsked
  BY DEF HideMenu, At, console
<1>5. DisplayType'
  <2>1. launches' < MaxAsked
    BY <1>4, BoundIs DEF DisplayInv, DisplayType
  <2>2. task'.step = "launch" /\ task'.app = a
    BY <1>4
  <2> QED
    BY <1>2, <1>3, <1>4, <2>1, <2>2 DEF DisplayInv, DisplayType
<1>6. Monitored' /\ Announced'
  BY <1>2, <1>4 DEF DisplayInv, Monitored, Announced
<1>7. ASSUME ~mixed'
      PROVE  Apart' /\ Truthful'
  <2>1. \A n \in 1..MaxAsked : ~Busy(n)
    BY <1>4, <1>7 DEF DisplayInv, DisplayType
  <2>2. running = NoApp
    BY <2>1, BoundIs DEF DisplayInv, DisplayType, Monitored, Busy
  <2>3. Apart'
    BY <1>4, <2>1, <2>2 DEF Apart, Busy, AfterExit
  <2>4. Truthful'
    BY <1>2, <1>3, <1>4, <2>1, <2>2 DEF Truthful, Busy
  <2> QED
    BY <2>3, <2>4
<1> QED
  BY <1>5, <1>6, <1>7 DEF DisplayInv

LEMMA LaunchKeeps ==
  ASSUME DisplayInv, Launch
  PROVE  DisplayInv'
<1>1. /\ task.step = "launch" /\ on
      /\ UNCHANGED <<on, inMemory, published, failed, visible, manual, mixed, updates>>
  BY DEF Launch, state, console
<1>2. /\ DisplayType /\ Monitored /\ Announced /\ (~mixed => Apart /\ Truthful)
      /\ task.app \in Apps /\ launches < MaxAsked /\ launches \in 0..MaxAsked
  BY <1>1 DEF DisplayInv, DisplayType
<1>3. CASE /\ running' = task.app /\ launches' = launches + 1
           /\ watcher' = [watcher EXCEPT ![launches + 1] = "waits"] /\ At("set", task.app)
  <2>1. PICK n \in 1..MaxAsked : n = launches + 1
    BY <1>2, BoundIs
  <2>2. /\ watcher' \in [1..MaxAsked -> {"none", "waits", "done"} \cup AfterExit]
        /\ watcher'[n] = "waits" /\ \A k \in 1..MaxAsked : k # n => watcher'[k] = watcher[k]
    BY <1>2, <1>3, <2>1, WatcherIs
  <2>3. task' = [step |-> "set", app |-> task.app] /\ task'.step = "set" /\ task'.app = task.app
    BY <1>3 DEF At
  <2>4. task' \in [step : {"idle", "menu", "launch", "set", "publish", "stopping"}, app : Apps \cup {NoApp}]
    BY <1>2, <2>3
  <2>5. DisplayType'
    <3>1. launches' \in 0..MaxAsked
      BY <1>2, <1>3, BoundIs
    <3>2. \A k \in 1..MaxAsked : k > launches' => watcher'[k] = "none"
      BY <1>2, <1>3, <2>1, <2>2 DEF DisplayType
    <3> QED
      BY <1>1, <1>2, <1>3, <2>2, <2>3, <2>4, <3>1, <3>2 DEF DisplayType
  <2>6. Monitored'
    BY <1>1, <1>2, <1>3, <2>1, <2>2 DEF Monitored
  <2>7. Announced'
    <3>1. \A k \in 1..MaxAsked : watcher[k] = "publishes" => watcher'[k] = "publishes"
      BY <1>2, <2>1, <2>2 DEF DisplayType
    <3> QED
      BY <1>1, <1>2, <3>1 DEF Announced
  <2>8. ASSUME ~mixed
        PROVE  Apart' /\ Truthful'
    <3>1. /\ running = NoApp /\ ~visible /\ ~inMemory.launcher /\ running' # NoApp
          /\ \A k \in 1..MaxAsked : watcher[k] \in {"none", "done"}
      BY <1>1, <1>2, <1>3, <2>8, NoAppAssumption DEF Truthful, Busy
    <3>2. Apart'
      BY <1>3, <2>1, <2>2, <3>1 DEF Apart, AfterExit
    <3>3. Truthful'
      BY <1>1, <1>3, <2>3, <3>1 DEF Truthful
    <3> QED
      BY <3>2, <3>3
  <2> QED
    BY <1>1, <2>5, <2>6, <2>7, <2>8 DEF DisplayInv
<1>4. CASE At("menu", NoApp) /\ UNCHANGED <<running, launches, watcher>>
  <2>1. task' = [step |-> "menu", app |-> NoApp] /\ task'.step = "menu" /\ task'.app = NoApp
    BY <1>4 DEF At
  <2>2. DisplayType'
    BY <1>1, <1>2, <1>4, <2>1 DEF DisplayType
  <2>3. Monitored' /\ Announced'
    BY <1>1, <1>2, <1>4 DEF Monitored, Announced
  <2>4. ASSUME ~mixed
        PROVE  Apart' /\ Truthful'
    BY <1>1, <1>2, <1>4, <2>1, <2>4 DEF Apart, Truthful
  <2> QED
    BY <1>1, <2>2, <2>3, <2>4 DEF DisplayInv
<1> QED
  BY <1>3, <1>4 DEF Launch

LEMMA AnnounceKeeps ==
  ASSUME DisplayInv, Announce
  PROVE  DisplayInv'
<1>1. /\ task.step = "set" /\ inMemory' = Foreground(inMemory, task.app)
      /\ task' = [step |-> "publish", app |-> task.app]
      /\ UNCHANGED <<on, published, failed, watcher, launches, running, visible, manual, mixed, updates>>
  BY DEF Announce, At, console
<1>2. /\ DisplayType /\ Monitored /\ (~mixed => Apart /\ Truthful) /\ task.app \in Apps /\ IsState(inMemory)
  BY <1>1 DEF DisplayInv, DisplayType
<1>3. IsState(inMemory') /\ inMemory'.foreground = task.app /\ ~inMemory'.launcher
  BY <1>1, <1>2, ForegroundIs, NoAppAssumption
<1>4. task'.step = "publish" /\ task'.app = task.app
  BY <1>1
<1>5. DisplayType'
  BY <1>1, <1>2, <1>3, <1>4 DEF DisplayType
<1>6. Monitored' /\ Announced'
  BY <1>1, <1>2, <1>4 DEF Monitored, Announced
<1>7. ASSUME ~mixed
      PROVE  Apart' /\ Truthful'
  BY <1>1, <1>2, <1>3, <1>4, <1>7 DEF Apart, Truthful
<1> QED
  BY <1>1, <1>5, <1>6, <1>7 DEF DisplayInv

LEMMA PublishStartedKeeps ==
  ASSUME DisplayInv, PublishStarted
  PROVE  DisplayInv'
<1>1. /\ task.step = "publish" /\ task' = [step |-> "idle", app |-> NoApp]
      /\ UNCHANGED <<on, watcher, launches, running, visible, manual, mixed, updates>>
  BY DEF PublishStarted, At, console
<1>2. /\ DisplayType /\ Monitored /\ (~mixed => Apart /\ Truthful) /\ task.app \in Apps /\ IsState(inMemory)
  BY <1>1 DEF DisplayInv, DisplayType
<1>3. PICK m : m = [inMemory EXCEPT !.active = task.app]
  OBVIOUS
<1>4. /\ inMemory' = m /\ failed' \in BOOLEAN
      /\ ~failed' => published' = inMemory'
  BY <1>3, PublishIs DEF PublishStarted
<1>5. /\ IsState(m) /\ m.active = task.app /\ m.foreground = inMemory.foreground
      /\ m.launcher = inMemory.launcher
  BY <1>2, <1>3 DEF IsState
<1>6. task'.step = "idle"
  BY <1>1
<1>7. DisplayType'
  BY <1>1, <1>2, <1>4, <1>5 DEF DisplayType
<1>8. Monitored' /\ Announced'
  BY <1>1, <1>2, <1>4 DEF Monitored, Announced
<1>9. ASSUME ~mixed
      PROVE  Apart' /\ Truthful'
  BY <1>1, <1>2, <1>4, <1>5, <1>6, <1>9, NoAppAssumption DEF Apart, Truthful, Says
<1> QED
  BY <1>1, <1>7, <1>8, <1>9 DEF DisplayInv

LEMMA ShowMenuIs ==
  ASSUME DisplayInv, ShowMenu
  PROVE  /\ IsState(inMemory') /\ visible' \in BOOLEAN /\ failed' \in BOOLEAN
         /\ visible' => Says(inMemory', NoApp)
         /\ \/ ~failed' => published' = inMemory'
            \/ UNCHANGED <<inMemory, published, failed>>
<1>1. IsState(inMemory) /\ failed \in BOOLEAN
  BY DEF DisplayInv, DisplayType
<1>2. CASE visible' = TRUE /\ Publish(AtLauncher(inMemory))
  BY <1>1, <1>2, PublishIs, AtLauncherIs
<1>3. CASE visible' = FALSE /\ UNCHANGED state
  BY <1>1, <1>3 DEF state
<1> QED
  BY <1>2, <1>3 DEF ShowMenu

LEMMA MainShowsMenuKeeps ==
  ASSUME DisplayInv, MainShowsMenu
  PROVE  DisplayInv'
<1>1. /\ task.step = "menu" /\ task' = [step |-> "idle", app |-> NoApp] /\ ShowMenu
      /\ UNCHANGED <<on, watcher, launches, running, manual, mixed, updates>>
  BY DEF MainShowsMenu, At, console
<1>2. DisplayType /\ Monitored /\ Announced /\ (~mixed => Apart /\ Truthful)
  BY DEF DisplayInv
<1>3. /\ IsState(inMemory') /\ visible' \in BOOLEAN /\ failed' \in BOOLEAN
      /\ visible' => Says(inMemory', NoApp)
      /\ \/ ~failed' => published' = inMemory'
         \/ UNCHANGED <<inMemory, published, failed>>
  BY <1>1, ShowMenuIs
<1>4. task'.step = "idle"
  BY <1>1
<1>5. DisplayType'
  BY <1>1, <1>2, <1>3 DEF DisplayType
<1>6. Monitored' /\ Announced'
  BY <1>1, <1>2, <1>3 DEF Monitored, Announced
<1>7. ASSUME ~mixed
      PROVE  Apart' /\ Truthful'
  BY <1>1, <1>2, <1>3, <1>4, <1>7 DEF Apart, Truthful
<1> QED
  BY <1>1, <1>5, <1>6, <1>7 DEF DisplayInv

(* The main thread goes from one step to another. *)
LEMMA TaskKeeps ==
  ASSUME DisplayInv, HomeHold \/ StopReturns \/ Recover
  PROVE  DisplayInv'
<1>1. /\ UNCHANGED <<on, inMemory, published, failed, watcher, launches, running, visible, mixed, updates>>
      /\ manual' \in BOOLEAN
  BY DEF HomeHold, StopReturns, Recover, state, console, DisplayInv, DisplayType
<1>2. DisplayType /\ Monitored /\ Announced /\ (~mixed => Apart /\ Truthful)
  BY DEF DisplayInv
<1>3. \/ task.step = "idle" /\ task' = [step |-> "stopping", app |-> NoApp]
      \/ running = NoApp /\ task.step \in {"idle", "stopping"} /\ task' = [step |-> "menu", app |-> NoApp]
  BY DEF HomeHold, StopReturns, Recover, Free, At
<1>4. DisplayType'
  BY <1>1, <1>2, <1>3 DEF DisplayType
<1>5. Monitored' /\ Announced'
  BY <1>1, <1>2, <1>3 DEF Monitored, Announced
<1>6. ASSUME ~mixed
      PROVE  Apart' /\ Truthful'
  BY <1>1, <1>2, <1>3, <1>6 DEF Apart, Truthful
<1> QED
  BY <1>1, <1>4, <1>5, <1>6 DEF DisplayInv

LEMMA ApplicationEndsKeeps ==
  ASSUME DisplayInv, ApplicationEnds
  PROVE  DisplayInv'
<1>1. /\ running # NoApp /\ running' = NoApp /\ watcher' = [watcher EXCEPT ![launches] = "looks"]
      /\ mixed' = (mixed \/ task.step \in {"set", "publish"})
      /\ UNCHANGED <<on, inMemory, published, failed, task, launches, visible, manual, updates>>
  BY DEF ApplicationEnds, state, console
<1>2. DisplayType /\ Monitored /\ Announced /\ (~mixed => Apart /\ Truthful)
  BY DEF DisplayInv
<1>3. PICK n \in 1..MaxAsked : n = launches /\ watcher[n] = "waits"
  BY <1>1, <1>2, BoundIs DEF DisplayType, Monitored
<1>4. /\ watcher' \in [1..MaxAsked -> {"none", "waits", "done"} \cup AfterExit]
      /\ watcher'[n] = "looks" /\ \A k \in 1..MaxAsked : k # n => watcher'[k] = watcher[k]
  BY <1>1, <1>2, <1>3, WatcherIs DEF AfterExit
<1>5. mixed' \in BOOLEAN
  BY <1>1
<1>6. DisplayType'
  BY <1>1, <1>2, <1>3, <1>4, <1>5, BoundIs DEF DisplayType
<1>7. Monitored'
  BY <1>1 DEF Monitored
<1>8. Announced'
  BY <1>1, <1>2, <1>3, <1>4 DEF Announced
<1>9. ASSUME ~mixed'
      PROVE  Apart' /\ Truthful'
  <2>1. ~mixed /\ task.step \notin {"set", "publish"} /\ Apart /\ Truthful
    BY <1>1, <1>2, <1>9
  <2>2. Apart'
    BY <1>1, <1>3, <1>4, <2>1 DEF Apart, AfterExit
  <2>3. Truthful'
    BY <1>1, <2>1 DEF Truthful
  <2> QED
    BY <2>2, <2>3
<1> QED
  BY <1>6, <1>7, <1>8, <1>9 DEF DisplayInv

(* A watcher past the exit goes on: nothing runs and nothing is announced, *)
(* unless a launch has met it.                                             *)
LEMMA WatcherKeeps ==
  ASSUME DisplayInv, NEW n \in DOMAIN watcher, NEW s \in {"done"} \cup AfterExit,
         watcher[n] \in AfterExit, WatcherAt(n, s),
         UNCHANGED <<on, task, launches, running, manual, mixed, updates>>,
         IsState(inMemory'), visible' \in BOOLEAN, failed' \in BOOLEAN,
         s = "publishes" \/ (~failed' => published' = inMemory')
           \/ (UNCHANGED <<inMemory, published, failed>> /\ watcher[n] # "publishes"),
         (visible => Says(inMemory, NoApp)) => (visible' => Says(inMemory', NoApp))
  PROVE  DisplayInv'
<1>1. /\ DisplayType /\ Monitored /\ Announced /\ (~mixed => Apart /\ Truthful)
      /\ n \in 1..MaxAsked /\ watcher' = [watcher EXCEPT ![n] = s]
  BY DEF DisplayInv, DisplayType, WatcherAt
<1>2. /\ watcher' \in [1..MaxAsked -> {"none", "waits", "done"} \cup AfterExit]
      /\ watcher'[n] = s /\ \A k \in 1..MaxAsked : k # n => watcher'[k] = watcher[k]
  BY <1>1, WatcherIs
<1>3. DisplayType'
  BY <1>1, <1>2 DEF DisplayType, AfterExit
<1>4. Monitored'
  BY <1>1, <1>2 DEF Monitored, AfterExit
<1>5. Announced'
  BY <1>1, <1>2 DEF Announced
<1>6. ASSUME ~mixed
      PROVE  Apart' /\ Truthful'
  <2>1. running = NoApp /\ Apart /\ Truthful
    BY <1>1, <1>6 DEF Apart
  <2>2. Apart'
    BY <1>2, <2>1 DEF Apart, AfterExit
  <2>3. task.step \notin {"launch", "set", "publish"}
    BY <1>1, <2>1, NoAppAssumption DEF Truthful, Busy, AfterExit, DisplayType
  <2>4. Truthful'
    BY <2>1, <2>3 DEF Truthful
  <2> QED
    BY <2>2, <2>4
<1> QED
  BY <1>3, <1>4, <1>5, <1>6 DEF DisplayInv

LEMMA WatcherStepKeeps ==
  ASSUME DisplayInv, NEW n \in DOMAIN watcher, WatcherStep(n)
  PROVE  DisplayInv'
<1>1. IsState(inMemory) /\ visible \in BOOLEAN /\ failed \in BOOLEAN
  BY DEF DisplayInv, DisplayType
<1>2. CASE WatcherLooks(n)
  <2>1. PICK s \in {"done", "sets"} : WatcherAt(n, s)
    BY <1>2 DEF WatcherLooks
  <2>2. /\ UNCHANGED <<on, task, launches, running, manual, mixed, updates>> /\ watcher[n] = "looks"
        /\ UNCHANGED <<inMemory, published, failed, visible>>
    BY <1>2 DEF WatcherLooks, state, console
  <2> QED
    BY <1>1, <2>1, <2>2, WatcherKeeps DEF AfterExit
<1>3. CASE WatcherSets(n)
  <2>1. /\ WatcherAt(n, "publishes") /\ watcher[n] = "sets" /\ inMemory' = Foreground(inMemory, NoApp)
        /\ UNCHANGED <<on, task, launches, running, manual, mixed, updates, published, failed, visible>>
    BY <1>3 DEF WatcherSets, console
  <2>2. IsState(inMemory') /\ (Says(inMemory, NoApp) => Says(inMemory', NoApp))
    BY <1>1, <2>1, ForegroundIs DEF Says
  <2> QED
    BY <1>1, <2>1, <2>2, WatcherKeeps DEF AfterExit
<1>4. CASE WatcherPublishes(n)
  <2>1. PICK m : m = [inMemory EXCEPT !.active = NoApp]
    OBVIOUS
  <2>2. /\ WatcherAt(n, "menu") /\ watcher[n] = "publishes" /\ Publish(m)
        /\ UNCHANGED <<on, task, launches, running, manual, mixed, updates, visible>>
    BY <1>4, <2>1 DEF WatcherPublishes, console
  <2>3. IsState(m) /\ (Says(inMemory, NoApp) => Says(m, NoApp))
    BY <1>1, <2>1 DEF IsState, Says
  <2>4. inMemory' = m /\ failed' \in BOOLEAN /\ (~failed' => published' = inMemory')
    BY <2>2, PublishIs
  <2> QED
    BY <1>1, <2>2, <2>3, <2>4, WatcherKeeps DEF AfterExit
<1>5. CASE WatcherShowsMenu(n)
  <2>1. /\ WatcherAt(n, "done") /\ watcher[n] = "menu" /\ ShowMenu
        /\ UNCHANGED <<on, task, launches, running, manual, mixed, updates>>
    BY <1>5 DEF WatcherShowsMenu, console
  <2> QED
    BY <1>1, <2>1, ShowMenuIs, WatcherKeeps DEF AfterExit
<1> QED
  BY <1>2, <1>3, <1>4, <1>5 DEF WatcherStep

LEMMA DaemonStartsKeeps ==
  ASSUME DisplayInv, DaemonStarts
  PROVE  DisplayInv'
<1>1. PICK m : m = [DefaultState EXCEPT !.infrastructure = Infrastructure(Load(file.text), facts)]
  OBVIOUS
<1>2. /\ ~on /\ on' = TRUE /\ task' = [step |-> "menu", app |-> NoApp] /\ Publish(m)
      /\ UNCHANGED <<watcher, launches, running, visible, manual, mixed, updates>>
  BY <1>1 DEF DaemonStarts, At, console
<1>3. /\ DisplayType /\ Monitored /\ (~mixed => Apart /\ Truthful) /\ running = NoApp
  BY <1>2 DEF DisplayInv, Monitored
<1>4. IsState(m) /\ Says(m, NoApp)
  <2>1. PICK i : i = Infrastructure(Load(file.text), facts)
    OBVIOUS
  <2>2. m = [DefaultState EXCEPT !.infrastructure = i]
    BY <1>1, <2>1
  <2>3. PICK j : j = NotObserved
    OBVIOUS
  <2>4. DefaultState = [infrastructure |-> j, foreground |-> NoApp, launcher |-> TRUE, active |-> NoApp]
    BY <2>3, Zenon DEF DefaultState
  <2>5. IsState(DefaultState) /\ Says(DefaultState, NoApp)
    BY <2>4 DEF IsState, Says
  <2> QED
    BY <2>2, <2>5 DEF IsState, Says
<1>5. inMemory' = m /\ failed' \in BOOLEAN /\ (~failed' => published' = inMemory')
  BY <1>2, PublishIs
<1>6. DisplayType'
  BY <1>2, <1>3, <1>4, <1>5 DEF DisplayType
<1>7. Monitored' /\ Announced'
  BY <1>2, <1>3, <1>5 DEF Monitored, Announced
<1>8. ASSUME ~mixed
      PROVE  Apart' /\ Truthful'
  BY <1>2, <1>3, <1>4, <1>5, <1>8 DEF Apart, Truthful
<1> QED
  BY <1>2, <1>6, <1>7, <1>8 DEF DisplayInv

LEMMA DaemonEndsKeeps ==
  ASSUME DisplayInv, DaemonEnds
  PROVE  DisplayInv'
<1>1. /\ on' = FALSE /\ running' = NoApp /\ visible' = FALSE /\ manual' = FALSE /\ mixed' = FALSE
      /\ task' = NoTask /\ inMemory' = DefaultState /\ failed' = FALSE
      /\ watcher' = [n \in DOMAIN watcher |-> IF n <= launches THEN "done" ELSE "none"]
      /\ UNCHANGED <<launches, updates>> /\ DisplayType
  BY DEF DaemonEnds, console, DisplayInv
<1>2. IsState(inMemory')
  <2>1. PICK j : j = NotObserved
    OBVIOUS
  <2>2. DefaultState = [infrastructure |-> j, foreground |-> NoApp, launcher |-> TRUE, active |-> NoApp]
    BY <2>1, Zenon DEF DefaultState
  <2> QED
    BY <1>1, <2>2 DEF IsState
<1>3. /\ task'.step = "idle" /\ task' \in [step : {"idle", "menu", "launch", "set", "publish", "stopping"},
                                          app : Apps \cup {NoApp}]
  BY <1>1 DEF NoTask
<1>4. /\ watcher' \in [1..MaxAsked -> {"none", "waits", "done"} \cup AfterExit]
      /\ \A n \in 1..MaxAsked : watcher'[n] \in {"none", "done"} /\ (n > launches => watcher'[n] = "none")
  BY <1>1, BoundIs DEF DisplayType
<1>5. DisplayType'
  BY <1>1, <1>2, <1>3, <1>4 DEF DisplayType
<1>6. Monitored' /\ Announced'
  BY <1>1 DEF Monitored, Announced
<1>7. Apart' /\ Truthful'
  BY <1>1, <1>3, <1>4 DEF Apart, Truthful, AfterExit
<1> QED
  BY <1>5, <1>6, <1>7 DEF DisplayInv

LEMMA PollPublishesKeeps ==
  ASSUME DisplayInv, PollPublishes
  PROVE  DisplayInv'
<1>1. UNCHANGED <<on, task, watcher, launches, running, visible, manual, mixed, updates>>
  BY DEF PollPublishes, display, console
<1>2. DisplayType /\ Monitored /\ Announced /\ (~mixed => Apart /\ Truthful) /\ IsState(inMemory)
  BY DEF DisplayInv, DisplayType
<1>3. CASE UNCHANGED state
  BY <1>1, <1>2, <1>3 DEF DisplayInv, DisplayType, Monitored, Announced, Apart, Truthful, Busy, state
<1>4. CASE Publish([inMemory EXCEPT !.infrastructure = Infrastructure(config, facts)])
  <2>1. PICK m : m = [inMemory EXCEPT !.infrastructure = Infrastructure(config, facts)]
    OBVIOUS
  <2>2. inMemory' = m /\ failed' \in BOOLEAN /\ (~failed' => published' = inMemory')
    BY <1>4, <2>1, PublishIs
  <2>3. /\ IsState(m) /\ m.active = inMemory.active /\ m.foreground = inMemory.foreground
        /\ m.launcher = inMemory.launcher
    BY <1>2, <2>1, ObservedIs
  <2>4. DisplayType'
    BY <1>1, <1>2, <2>2, <2>3 DEF DisplayType
  <2>5. Monitored' /\ Announced'
    BY <1>1, <1>2, <2>2 DEF Monitored, Announced
  <2>6. ASSUME ~mixed
        PROVE  Apart' /\ Truthful'
    BY <1>1, <1>2, <2>2, <2>3, <2>6 DEF Apart, Truthful, Says, Busy
  <2> QED
    BY <1>1, <2>4, <2>5, <2>6 DEF DisplayInv
<1> QED
  BY <1>3, <1>4 DEF PollPublishes

LEMMA DisplayStep ==
  ASSUME DisplayInv, [StateNext]_stateVars
  PROVE  DisplayInv'
<1>1. ASSUME UNCHANGED <<on, display, inMemory>>, updates' \in Nat,
             UNCHANGED <<published, failed>> \/ (published' = inMemory /\ failed' = FALSE)
      PROVE  DisplayInv'
  <2>1. /\ on' = on /\ inMemory' = inMemory /\ running' = running /\ visible' = visible
        /\ manual' = manual /\ mixed' = mixed /\ task' = task /\ watcher' = watcher
        /\ launches' = launches
    BY <1>1 DEF display
  <2>2. DisplayType /\ failed' \in BOOLEAN
    BY <1>1 DEF DisplayInv, DisplayType
  <2>3. DisplayType'
    <3>1. IsState(inMemory')
      BY <2>1, <2>2 DEF DisplayType
    <3>2. {on', visible', manual', mixed', failed'} \subseteq BOOLEAN
      BY <2>1, <2>2 DEF DisplayType
    <3> QED
      BY <1>1, <2>1, <2>2, <3>1, <3>2, Zenon DEF DisplayType
  <2>4. Monitored'
    BY <2>1 DEF DisplayInv, Monitored
  <2>5. Announced'
    BY <1>1, <2>1 DEF DisplayInv, Announced
  <2>6. ASSUME ~mixed
        PROVE  Apart' /\ Truthful'
    BY <2>1, <2>6 DEF DisplayInv, Apart, Truthful, Busy
  <2> QED
    BY <2>1, <2>3, <2>4, <2>5, <2>6 DEF DisplayInv
<1>2. updates \in Nat
  BY DEF DisplayInv, DisplayType
<1>3. ASSUME NEW h \in Handlers, NEW s \in Sections, NEW v \in Offered[s], Update(h, s, v)
      PROVE  DisplayInv'
  BY <1>1, <1>2, <1>3 DEF Update, state
<1>4. ASSUME NEW h \in Handlers, ConsoleStep(h) \/ WriteFails(h)
      PROVE  DisplayInv'
  BY <1>1, <1>2, <1>4 DEF ConsoleStep, OpenTemporary, WriteTemporary, Replace, WriteFails, state
<1>5. CASE ConsoleKilled \/ ContainersChange \/ ModePublishes \/ PollLooks \/ PollReads \/ PollStamps
  BY <1>1, <1>2, <1>5 DEF ConsoleKilled, ContainersChange, ModePublishes, PollLooks, PollReads, PollStamps,
     state, console
<1>6. CASE PollPublishes
  BY <1>6, PollPublishesKeeps
<1>7. CASE MainStep \/ HomeHold \/ Recover
  BY <1>7, LaunchKeeps, AnnounceKeeps, PublishStartedKeeps, MainShowsMenuKeeps, TaskKeeps DEF MainStep
<1>8. CASE ApplicationEnds \/ DaemonStarts \/ DaemonEnds
  BY <1>8, ApplicationEndsKeeps, DaemonStartsKeeps, DaemonEndsKeeps
<1>9. ASSUME NEW a \in Apps, HideMenu(a)
      PROVE  DisplayInv'
  BY <1>9, HideMenuKeeps
<1>10. ASSUME NEW n \in DOMAIN watcher, WatcherStep(n)
       PROVE  DisplayInv'
  BY <1>10, WatcherStepKeeps
<1>11. CASE UNCHANGED stateVars
  BY <1>1, <1>2, <1>11 DEF stateVars, state, console
<1> QED
  BY <1>3, <1>4, <1>5, <1>6, <1>7, <1>8, <1>9, <1>10, <1>11 DEF StateNext, PollStep

LEMMA DisplayInit == ASSUME StateInit PROVE DisplayInv
<1>1. PICK i : i = signature
  OBVIOUS
<1>2. /\ on = TRUE /\ inMemory = [DefaultState EXCEPT !.infrastructure = i] /\ published = inMemory
      /\ failed = FALSE /\ task = [step |-> "menu", app |-> NoApp]
      /\ watcher = [n \in 1..MaxAsked |-> "none"] /\ launches = 0 /\ updates = 0
      /\ running = NoApp /\ visible = FALSE /\ manual = FALSE /\ mixed = FALSE
  BY <1>1 DEF StateInit
<1>3. IsState(inMemory)
  <2>1. PICK j : j = NotObserved
    OBVIOUS
  <2>2. DefaultState = [infrastructure |-> j, foreground |-> NoApp, launcher |-> TRUE, active |-> NoApp]
    BY <2>1, Zenon DEF DefaultState
  <2>3. IsState(DefaultState)
    BY <2>2 DEF IsState
  <2> QED
    BY <1>2, <2>3, ObservedIs
<1>4. task.step = "menu" /\ \A n \in 1..MaxAsked : watcher[n] = "none"
  BY <1>2
<1>5. DisplayType
  <2>1. task \in [step : {"idle", "menu", "launch", "set", "publish", "stopping"}, app : Apps \cup {NoApp}]
    BY <1>2
  <2>2. watcher \in [1..MaxAsked -> {"none", "waits", "done"} \cup AfterExit]
    BY <1>2
  <2>3. launches \in 0..MaxAsked /\ updates \in Nat
    BY <1>2, BoundIs
  <2>4. {on, visible, manual, mixed, failed} \subseteq BOOLEAN /\ running \in Apps \cup {NoApp}
    BY <1>2
  <2>5. \A n \in 1..MaxAsked : n > launches => watcher[n] = "none"
    BY <1>4
  <2> QED
    BY <1>3, <1>4, <2>1, <2>2, <2>3, <2>4, <2>5 DEF DisplayType
<1>6. Monitored /\ Announced /\ Apart /\ Truthful
  BY <1>2, <1>4 DEF Monitored, Announced, Apart, Truthful, AfterExit
<1> QED
  BY <1>5, <1>6 DEF DisplayInv

LEMMA DisplayInvImplies == ASSUME DisplayInv PROVE ForegroundIsTrue
<1> SUFFICES ASSUME Quiet, ~mixed, ~failed, visible \/ running # NoApp
             PROVE  /\ published.foreground = running /\ published.active = running
                    /\ published.launcher = visible
  BY DEF ForegroundIsTrue
<1>1. /\ DisplayType /\ Announced /\ Truthful /\ on /\ task.step = "idle"
      /\ \A n \in 1..MaxAsked : watcher[n] \in {"none", "waits", "done"}
  BY DEF DisplayInv, DisplayType, Quiet
<1>2. published = inMemory
  BY <1>1 DEF Announced
<1>3. Says(inMemory, running) /\ visible \in BOOLEAN /\ inMemory.launcher \in BOOLEAN
      /\ (visible <=> running = NoApp)
  BY <1>1 DEF Truthful, DisplayType, IsState
<1> QED
  BY <1>2, <1>3 DEF Says

(* When no thread is at work and the panel is not blank, what is published *)
(* is what runs, unless an exit callback met a launch or a publication     *)
(* failed: for any number of applications, launches and failures.          *)
THEOREM ForegroundWasTrue == StateSpec => []ForegroundIsTrue
<1>1. StateInit => DisplayInv
  BY DisplayInit
<1>2. DisplayInv /\ [StateNext]_stateVars => DisplayInv'
  BY DisplayStep
<1>3. DisplayInv => ForegroundIsTrue
  BY DisplayInvImplies
<1> QED
  BY <1>1, <1>2, <1>3, PTL DEF StateSpec
=============================================================================
