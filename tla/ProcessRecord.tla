---------------------------- MODULE ProcessRecord ----------------------------
(***************************************************************************)
(* The programs that the command line starts and stops (manager/app.py,    *)
(* process_manager.py), and the one record of them, runtime/state.json     *)
(* (state.py).  The daemon reads and clears that record when a resident    *)
(* display gives way, and bin/start-manager recovers it before a daemon is *)
(* started (tools/runtime_recovery.py).  Each is a process of its own: no  *)
(* lock orders them, and all write through one temporary file, state.tmp.  *)
(*                                                                         *)
(* A program is its process group; process numbers are not used again.     *)
(* The recovery signals the recorded process alone: what of its group may  *)
(* outlive it is not modelled.                                             *)
(***************************************************************************)
EXTENDS Naturals, FiniteSets

CONSTANTS
  Commands,    \* the processes of the command line that may be there at once
  MaxPrograms, \* bound
  MaxTroubles    \* bound: kills, reboots, refused signals

ASSUME ProcessRecordAssumption ==
  /\ MaxPrograms \in Nat /\ MaxTroubles \in Nat
  /\ {"daemon", "recovery"} \cap Commands = {}

Actors == Commands \cup {"daemon", "recovery"}

Modes    == {"ragnar", "torrentz"}
Resident == "ragnar"
Known    == {"ragnar"} \* KNOWN_ABANDONED_PATTERNS

None == 0
Pids == 1 .. MaxPrograms

VARIABLES
  group,   \* [Pids -> its mode, "none" or "ended"]
  record,    \* runtime/state.json
  temporary, \* state.tmp
  act,       \* what each process is doing
  up,        \* the daemon runs
  troubles,
  forgotten  \* history: programs that were lost in one of the ways that are known

recordVars == <<group, record, temporary, act, up, troubles, forgotten>>

Content(mode, pid) == [mode |-> mode, pid |-> pid]
Stopped == Content("idle", None)
Unread  == Content("unread", None) \* a file that is empty or mixed up
NoFile  == Content("absent", None)

\* StateStore.load(), _load_managed_process_state() and read_state()
Load == IF record = Unread THEN Stopped ELSE record

Lives(p) == p \in Pids /\ group[p] \in Modes
Living   == {p \in Pids : Lives(p)}

\* file: which file the descriptor leads to; crossed: another process wrote the
\* record since this one read it, or writes it at the same time.
NoAct == [pc |-> "idle", mode |-> "idle", pid |-> None, child |-> None,
          text |-> NoFile, file |-> "closed", crossed |-> FALSE]

RecordInit ==
  /\ group = [p \in Pids |-> "none"]
  /\ record = Stopped
  /\ temporary = NoFile
  /\ act = [t \in Actors |-> NoAct]
  /\ up \in BOOLEAN
  /\ troubles = 0
  /\ forgotten = {}

Busy(t)     == act[t].pc # "idle"
In(t, pc)   == act[t].pc = pc
Becomes(t, a) == act' = [act EXCEPT ![t] = a]
Saves(t, text) == [act[t] EXCEPT !.pc = "open", !.pid = None, !.text = text]
Trouble == troubles < MaxTroubles /\ troubles' = troubles + 1

fileVars == <<record, temporary>>
rest     == <<up, troubles, forgotten>>

-----------------------------------------------------------------------------
(* save(): state.tmp is opened, which empties it, written, and renamed     *)

Saving == {t \in Actors : act[t].pc \in {"write", "replace"}}

OpenTemporary(t) ==
  LET both == IF Saving = {} THEN {} ELSE Saving \cup {t} IN
  /\ In(t, "open")
  /\ temporary' = Unread
  /\ act' = [u \in Actors |->
       [act[u] EXCEPT !.crossed = @ \/ u \in both,
                      !.pc   = IF u = t THEN "write" ELSE @,
                      !.file = IF u = t THEN "temporary" ELSE @]]
  /\ UNCHANGED <<group, record, rest>>

\* What is longer than what is written over it leaves its end behind.
Over(old, text) == IF old = Unread THEN {text} ELSE {text, Unread}

WriteTemporary(t) ==
  /\ In(t, "write")
  /\ CASE act[t].file = "temporary" -> temporary' \in Over(temporary, act[t].text) /\ UNCHANGED record
       [] act[t].file = "record"    -> record' \in Over(record, act[t].text) /\ UNCHANGED temporary
       [] OTHER                     -> UNCHANGED fileVars
  /\ Becomes(t, [act[t] EXCEPT !.pc = "replace", !.text = NoFile])
  /\ UNCHANGED <<group, rest>>

\* The descriptors of the others follow the file.
Renamed(file) ==
  CASE file = "temporary" -> "record"
    [] file = "record"    -> "removed"
    [] OTHER              -> file

\* stop() goes on to start what start() was asked for.
Continues(t) ==
  CASE t = "recovery" -> [NoAct EXCEPT !.pc = "sweep"]
    [] t \in Commands /\ act[t].mode # "idle" /\ act[t].child = None ->
         [NoAct EXCEPT !.pc = "popen", !.mode = act[t].mode]
    [] OTHER -> NoAct

ForgetsIfCrossed(t) == forgotten' = forgotten \cup (IF act[t].crossed THEN Living ELSE {})

ReplaceRecord(t) ==
  /\ In(t, "replace")
  /\ temporary # NoFile
  /\ record' = temporary
  /\ temporary' = NoFile
  /\ act' = [u \in Actors |->
       IF u = t THEN Continues(t)
       ELSE [act[u] EXCEPT !.file = Renamed(@), !.crossed = Busy(u)]]
  /\ ForgetsIfCrossed(t)
  /\ UNCHANGED <<group, up, troubles>>

\* Somebody else has renamed it: an error of the command line, or of the
\* recovery, with which start-manager ends too; the daemon logs it.
ReplaceFails(t) ==
  /\ In(t, "replace")
  /\ temporary = NoFile
  /\ Becomes(t, NoAct)
  /\ ForgetsIfCrossed(t)
  /\ UNCHANGED <<group, fileVars, up, troubles>>

-----------------------------------------------------------------------------
(* ProcessManager                                                          *)

\* start(mode), or stop() when the mode is "idle"
Command(c, mode) ==
  /\ ~Busy(c)
  /\ Becomes(c, [NoAct EXCEPT !.pc = "load", !.mode = mode])
  /\ UNCHANGED <<group, fileVars, rest>>

LoadForStop(c) ==
  /\ In(c, "load")
  /\ LET a == IF Lives(Load.pid) THEN [act[c] EXCEPT !.pc = "term", !.pid = Load.pid]
              ELSE Saves(c, Stopped) IN
     Becomes(c, [a EXCEPT !.crossed = FALSE])
  /\ UNCHANGED <<group, fileVars, rest>>

\* The signal is refused: stop() records the error, and start() goes on.
StopFails(c) ==
  /\ In(c, "term") /\ Lives(act[c].pid)
  /\ Trouble
  /\ Becomes(c, Saves(c, Load))
  /\ forgotten' = forgotten \cup {act[c].pid}
  /\ UNCHANGED <<group, fileVars, up>>

Popen(c) ==
  LET free == {p \in Pids : group[p] = "none"} IN
  /\ In(c, "popen")
  /\ \/ \E p \in free :
          /\ \A q \in free : p <= q
          /\ group' = [group EXCEPT ![p] = act[c].mode]
          /\ Becomes(c, [act[c] EXCEPT !.pc = "settle", !.child = p])
     \/ Becomes(c, NoAct) /\ UNCHANGED group
  /\ UNCHANGED <<fileVars, rest>>

\* Two seconds later.
Settle(c) ==
  LET p == act[c].child IN
  /\ In(c, "settle")
  /\ Becomes(c, Saves(c, Content(act[c].mode, IF Lives(p) THEN p ELSE None)))
  /\ UNCHANGED <<group, fileVars, rest>>

CommandKilled(c) ==
  /\ Busy(c) /\ Trouble
  /\ Becomes(c, NoAct)
  /\ forgotten' = forgotten \cup ({act[c].child} \ {None})
  /\ UNCHANGED <<group, fileVars, up>>

-----------------------------------------------------------------------------
(* SIGTERM, the wait, SIGKILL: stop(), terminate_process() and             *)
(* _terminate_managed_resident_display()                                   *)

\* What follows once the program is gone.
AfterKill(t) == IF t = "daemon" THEN [act[t] EXCEPT !.pc = "clear"] ELSE Saves(t, Stopped)

\* It has ended since it was looked at: for the daemon that is a failure.
Term(t) ==
  /\ In(t, "term")
  /\ Becomes(t, IF Lives(act[t].pid) THEN [act[t] EXCEPT !.pc = "wait"]
                ELSE IF t = "daemon" THEN NoAct ELSE AfterKill(t))
  /\ UNCHANGED <<group, fileVars, rest>>

\* _managed_process_matches() reads the record anew and asks for the process in it.
Matches == Load.mode = Resident /\ Lives(Load.pid)
StillThere(t) == IF t = "daemon" THEN Matches ELSE Lives(act[t].pid)

WaitEnds(t) ==
  /\ In(t, "wait")
  /\ ~StillThere(t)
  /\ Becomes(t, AfterKill(t))
  /\ UNCHANGED <<group, fileVars, rest>>

Kill(t) ==
  /\ In(t, "wait")
  /\ StillThere(t)
  /\ IF Lives(act[t].pid)
     THEN group' = [group EXCEPT ![act[t].pid] = "ended"] /\ Becomes(t, AfterKill(t))
     ELSE Becomes(t, NoAct) /\ UNCHANGED group
  /\ UNCHANGED <<fileVars, rest>>

-----------------------------------------------------------------------------
(* The daemon: a resident display gives way                                *)

Terminate ==
  /\ up /\ ~Busy("daemon")
  /\ Load.mode = Resident
  /\ Becomes("daemon", [NoAct EXCEPT !.pc = IF Matches THEN "term" ELSE "clear",
                                     !.pid = Load.pid])
  /\ UNCHANGED <<group, fileVars, rest>>

\* Mutant: the record is cleared whatever is in it by now.
ClearsAny(r) == TRUE
Clears(r) == r.mode = Resident

\* The record is looked at once more, for its mode but not for its process.
Clear ==
  /\ In("daemon", "clear")
  /\ IF Clears(Load)
     THEN /\ Becomes("daemon", [Saves("daemon", Stopped) EXCEPT !.crossed = FALSE])
          /\ forgotten' = forgotten \cup
               (IF Load.mode = Resident /\ Load.pid # act["daemon"].pid THEN {Load.pid} ELSE {})
     ELSE Becomes("daemon", NoAct) /\ UNCHANGED forgotten
  /\ UNCHANGED <<group, fileVars, up, troubles>>

-----------------------------------------------------------------------------
(* bin/start-manager, which is alone by its lock                           *)

StartManager ==
  /\ ~up /\ ~Busy("recovery")
  /\ Becomes("recovery", [NoAct EXCEPT !.pc = "load"])
  /\ UNCHANGED <<group, fileVars, rest>>

\* clean_recorded_process(): one that is not known is detached.
Recover ==
  LET p == Load.pid IN
  /\ In("recovery", "load")
  /\ IF Lives(p) /\ group[p] \in Known
     THEN Becomes("recovery", [NoAct EXCEPT !.pc = "term", !.pid = p]) /\ UNCHANGED forgotten
     ELSE /\ Becomes("recovery", [NoAct EXCEPT !.pc = "open", !.text = Stopped])
          /\ forgotten' = forgotten \cup (Living \cap {p})
  /\ UNCHANGED <<group, fileVars, up, troubles>>

\* pkill -TERM and -KILL, and the daemon is started.
Sweep ==
  /\ In("recovery", "sweep")
  /\ group' = [p \in Pids |-> IF group[p] = Resident THEN "ended" ELSE group[p]]
  /\ Becomes("recovery", NoAct)
  /\ up' = TRUE
  /\ UNCHANGED <<fileVars, troubles, forgotten>>

DaemonDies ==
  /\ up /\ Trouble
  /\ up' = FALSE
  /\ Becomes("daemon", NoAct)
  /\ UNCHANGED <<group, fileVars, forgotten>>

-----------------------------------------------------------------------------
ProgramEnds(p) ==
  /\ Lives(p)
  /\ group' = [group EXCEPT ![p] = "ended"]
  /\ UNCHANGED <<fileVars, act, rest>>

\* The files are on the disk.
Reboot ==
  /\ Trouble
  /\ group' = [p \in Pids |-> IF Lives(p) THEN "ended" ELSE group[p]]
  /\ act' = [t \in Actors |-> NoAct]
  /\ up' = FALSE
  /\ UNCHANGED <<fileVars, forgotten>>

RecordNext ==
  \/ \E c \in Commands :
       \/ \E mode \in Modes \cup {"idle"} : Command(c, mode)
       \/ LoadForStop(c) \/ StopFails(c) \/ Popen(c) \/ Settle(c) \/ CommandKilled(c)
  \/ \E t \in Actors :
       \/ OpenTemporary(t) \/ WriteTemporary(t) \/ ReplaceRecord(t) \/ ReplaceFails(t)
       \/ Term(t) \/ WaitEnds(t) \/ Kill(t)
  \/ Terminate \/ Clear
  \/ StartManager \/ Recover \/ Sweep \/ DaemonDies
  \/ \E p \in Pids : ProgramEnds(p)
  \/ Reboot

RecordSpec == RecordInit /\ [][RecordNext]_recordVars
-----------------------------------------------------------------------------
(* Properties                                                              *)

(* A program that runs is the recorded one, so that it can be stopped,     *)
(* once the command that started it has ended.  It is lost only in the     *)
(* ways that are known: its stop was refused, its command was killed, the  *)
(* recovery did not know it, the daemon cleared the record of a resident   *)
(* display that had been started anew meanwhile, or two processes wrote    *)
(* the record at once or upon what the other had replaced.                 *)
NeverForgotten ==
  \A p \in Living \ forgotten :
    Load.pid = p \/ \E c \in Commands : act[c].child = p
=============================================================================
