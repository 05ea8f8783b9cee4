--------------------------- MODULE SwitchTransfer ---------------------------
(***************************************************************************)
(* scripts/switch_transfer_server.py: completed downloads are copied to    *)
(* the Switch's SD card while it is mounted over USB.  A copy job has a    *)
(* thread of its own and writes each file under the name .<file>.partial   *)
(* before it renames it; uploads are written in place; anybody may mount,  *)
(* eject, delete sources or start another job at any moment.               *)
(*                                                                         *)
(* A name on the card is nothing, an old file, a new one, a cut one, or    *)
(* the file that a job or an upload is writing.                            *)
(***************************************************************************)
EXTENDS Naturals, FiniteSets

CONSTANTS
  None,
  Files,      \* files of the completed downloads, and their names on the card
  Jobs,       \* ids of jobs
  Upload,     \* the handler of an upload
  MaxEvents   \* bound: what the user, the card and systemd do

ASSUME SwitchAssumption ==
  /\ Upload \notin Jobs /\ None \notin Files \cup Jobs \cup {Upload}
  /\ (Jobs \cup {Upload, None}) \cap {"old", "new", "cut"} = {}
  /\ MaxEvents \in Nat

Writers == Jobs \cup {Upload}

VARIABLES
  source,     \* files that are among the completed downloads
  card,       \* the files of the card
  partial,    \* the .partial files of the card
  mount,      \* "absent", "plugged" or "mounted"
  job,        \* TRANSFER_JOBS, and where the thread of each job is
  upload,     \* the file that handle_upload() writes, or None
  eject,      \* where handle_eject() is
  events,
  shared,     \* history: files that two jobs running at once were asked for,
              \* or that were uploaded
  astray      \* history: jobs whose card went away while they ran

vars == <<source, card, partial, mount, job, upload, eject, events, shared, astray>>

NoJob == [pc |-> "none", todo |-> {}, file |-> None, replace |-> FALSE,
          asked |-> {}, status |-> "none"]

Init ==
  /\ source = Files
  /\ card \in [Files -> {None, "old"}]
  /\ partial = [f \in Files |-> None]
  /\ mount = "plugged"
  /\ job = [j \in Jobs |-> NoJob]
  /\ upload = None
  /\ eject = "none"
  /\ events = 0
  /\ shared = {}
  /\ astray = {}

Event    == events < MaxEvents /\ events' = events + 1
Whole(c) == c \in {"old", "new"}
At(j, p) == job[j].pc = p

(* switch_mount(): what lsblk and lsusb show. *)
Mounted == mount = "mounted"

Running(j) == job[j].status = "running"

(* What becomes of the names of a file when its writer is done. *)
Settled(names, w, state) ==
  [f \in Files |-> IF names[f] = w THEN state ELSE names[f]]

-----------------------------------------------------------------------------
(* handle_copy() and run_copy_job()                                        *)

(* The record of a job that ended stands for the one of a new id. *)
HandleCopy(j, fs, replace) ==
  /\ ~Running(j)
  /\ fs # {} /\ fs \subseteq source
  /\ job' = [job EXCEPT ![j] = [NoJob EXCEPT !.pc = "next", !.todo = fs, !.asked = fs,
                                  !.replace = replace, !.status = "running"]]
  /\ astray' = astray \ {j}
  /\ shared' = shared \cup {f \in fs : \E k \in Jobs : Running(k) /\ f \in job[k].asked}
  /\ UNCHANGED <<source, card, partial, mount, upload, eject, events>>

Ended(j, status) == [NoJob EXCEPT !.pc = "ended", !.status = status]

(* Mutant of Fails: the job goes on with the next file. *)
FailsSoftly(j) ==
  /\ job' = [job EXCEPT ![j].pc = "next", ![j].file = None]
  /\ card' = Settled(card, j, "cut")
  /\ partial' = Settled(partial, j, "cut")

(* An exception ends the job; the file it was writing is cut. *)
Fails(j) ==
  /\ job' = [job EXCEPT ![j] = Ended(j, "failed")]
  /\ card' = Settled(card, j, "cut")
  /\ partial' = Settled(partial, j, "cut")

(* resolve_switch_target_root() looks for the card once for each selected  *)
(* item: the files after the first may be of the same folder, and then a   *)
(* card that is gone is not noticed here, nor the files on it.  Head of    *)
(* copy_file(): one that exists is left alone unless it is to be replaced. *)
NextFile(j, f) ==
  /\ At(j, "next")
  /\ f \in job[j].todo
  /\ \/ (~Mounted \/ f \notin source) /\ Fails(j)
     \/ /\ f \in source /\ (Mounted \/ job[j].todo # job[j].asked)
        /\ UNCHANGED <<card, partial>>
        /\ IF Mounted /\ card[f] # None /\ ~job[j].replace
           THEN job' = [job EXCEPT ![j].todo = @ \ {f}]
           ELSE job' = [job EXCEPT ![j].pc = "clear", ![j].todo = @ \ {f},
                                   ![j].file = f]
  /\ UNCHANGED <<source, mount, upload, eject, events, shared, astray>>

(* A file that was in a folder and is not found any more is no error. *)
PassOver(j, f) ==
  /\ At(j, "next")
  /\ f \in job[j].todo \ source
  /\ job' = [job EXCEPT ![j].todo = @ \ {f}, ![j].asked = @ \ {f}]
  /\ UNCHANGED <<source, card, partial, mount, upload, eject, events, shared, astray>>

(* Mutant of Cleared: the target makes room before it is written again. *)
ClearedToo(f) ==
  /\ partial' = [partial EXCEPT ![f] = None]
  /\ card' = [card EXCEPT ![f] = None]

Cleared(f) == partial' = [partial EXCEPT ![f] = None] /\ UNCHANGED card

(* A card that is gone: the folder cannot be made, or it is made on the    *)
(* disk under the mount point and the file goes there.                     *)
Clear(j) ==
  LET f == job[j].file IN
  /\ At(j, "clear")
  /\ \/ /\ Mounted
        /\ Cleared(f)
        /\ job' = [job EXCEPT ![j].pc = "open"]
     \/ ~Mounted /\ Fails(j)
     \/ /\ ~Mounted
        /\ job' = [job EXCEPT ![j].pc = "next", ![j].file = None]
        /\ UNCHANGED <<card, partial>>
  /\ UNCHANGED <<source, mount, upload, eject, events, shared, astray>>

(* Mutant of Opened: no partial file. *)
OpenedInPlace(j, f) == card' = [card EXCEPT ![f] = j] /\ UNCHANGED partial

Opened(j, f) == partial' = [partial EXCEPT ![f] = j] /\ UNCHANGED card

(* open("wb") truncates a file that another job has just made there: from  *)
(* now on it is whole when this job has written it.                        *)
Open(j) ==
  LET f == job[j].file IN
  /\ At(j, "open")
  /\ IF Mounted /\ f \in source
     THEN /\ Opened(j, f)
          /\ job' = [job EXCEPT ![j].pc = "write"]
     ELSE Fails(j)
  /\ UNCHANGED <<source, mount, upload, eject, events, shared, astray>>

(* Chunk by chunk, then fsync(). *)
Write(j) ==
  /\ At(j, "write")
  /\ IF Mounted
     THEN /\ card' = Settled(card, j, "new")
          /\ partial' = Settled(partial, j, "new")
          /\ job' = [job EXCEPT ![j].pc = "unlink"]
     ELSE Fails(j)
  /\ UNCHANGED <<source, mount, upload, eject, events, shared, astray>>

(* The card is full, or takes no more. *)
WriteFails(j) ==
  /\ At(j, "write")
  /\ Event
  /\ Fails(j)
  /\ UNCHANGED <<source, mount, upload, eject, shared, astray>>

Unlink(j) ==
  LET f == job[j].file IN
  /\ At(j, "unlink")
  /\ IF Mounted
     THEN /\ card' = [card EXCEPT ![f] = IF job[j].replace THEN None ELSE @]
          /\ job' = [job EXCEPT ![j].pc = "rename"]
          /\ UNCHANGED partial
     ELSE Fails(j)
  /\ UNCHANGED <<source, mount, upload, eject, events, shared, astray>>

Renamed(f) ==
  /\ card' = [card EXCEPT ![f] = partial[f]]
  /\ partial' = [partial EXCEPT ![f] = None]

(* os.replace(); then copystat(), which needs the source once more. *)
Rename(j) ==
  LET f == job[j].file IN
  /\ At(j, "rename")
  /\ IF Mounted /\ partial[f] # None
     THEN /\ Renamed(f)
          /\ job' = [job EXCEPT ![j] = IF f \in source
                                       THEN [@ EXCEPT !.pc = "next", !.file = None]
                                       ELSE Ended(j, "failed")]
     ELSE Fails(j)
  /\ UNCHANGED <<source, mount, upload, eject, events, shared, astray>>

(* sync, and the job is completed; a sync that takes too long fails it. *)
Complete(j) ==
  /\ At(j, "next")
  /\ job[j].todo = {}
  /\ \E status \in {"completed", "failed"} : job' = [job EXCEPT ![j] = Ended(j, status)]
  /\ UNCHANGED <<source, card, partial, mount, upload, eject, events, shared, astray>>

-----------------------------------------------------------------------------
(* handle_upload(), handle_delete(), handle_mount() and handle_eject()     *)

HandleUpload(f) ==
  /\ upload = None
  /\ Event
  /\ Mounted /\ card[f] = None
  /\ upload' = f
  /\ card' = [card EXCEPT ![f] = Upload]
  /\ shared' = shared \cup {f}
  /\ UNCHANGED <<source, partial, mount, job, eject, astray>>

(* It may be cut, and is left as it is. *)
UploadEnds ==
  /\ upload # None
  /\ \E state \in {"new", "cut"} : card' = Settled(card, Upload, state)
  /\ upload' = None
  /\ UNCHANGED <<source, partial, mount, job, eject, events, shared, astray>>

HandleDelete(f) ==
  /\ Event
  /\ f \in source
  /\ source' = source \ {f}
  /\ UNCHANGED <<card, partial, mount, job, upload, eject, shared, astray>>

HandleMount ==
  /\ mount = "plugged"
  /\ mount' = "mounted"
  /\ UNCHANGED <<source, card, partial, job, upload, eject, events, shared, astray>>

(* A card with open files cannot be unmounted. *)
Busy == upload # None \/ \E j \in Jobs : At(j, "write")

(* sync first; the jobs go on. *)
EjectBegins ==
  /\ eject \in {"none", "safe", "unsafe"}
  /\ mount # "absent"
  /\ Event
  /\ eject' = "unmount"
  /\ UNCHANGED <<source, card, partial, mount, job, upload, shared, astray>>

GoesAway == astray' = astray \cup {j \in Jobs : Running(j)}

(* gio, then umount; safe_to_disconnect says what a last look finds. *)
EjectUnmounts ==
  /\ eject = "unmount"
  /\ IF Mounted /\ Busy THEN UNCHANGED <<mount, astray>>
     ELSE mount' = (IF Mounted THEN "plugged" ELSE mount) /\ GoesAway
  /\ eject' = "poweroff"
  /\ UNCHANGED <<source, card, partial, job, upload, events, shared>>

(* udisksctl power-off refuses a disk that is mounted. *)
EjectEnds ==
  /\ eject = "poweroff"
  /\ mount' = IF mount = "plugged" THEN "absent" ELSE mount
  /\ eject' = IF Mounted THEN "unsafe" ELSE "safe"
  /\ UNCHANGED <<source, card, partial, job, upload, events, shared, astray>>

-----------------------------------------------------------------------------
(* The card is pulled out: what was being written is cut. *)
Pulled ==
  /\ mount # "absent"
  /\ Event
  /\ mount' = "absent"
  /\ card' = [f \in Files |-> IF card[f] \in Writers THEN "cut" ELSE card[f]]
  /\ partial' = [f \in Files |-> IF partial[f] \in Writers THEN "cut" ELSE partial[f]]
  /\ job' = [j \in Jobs |-> IF At(j, "write") THEN Ended(j, "failed") ELSE job[j]]
  /\ GoesAway
  /\ UNCHANGED <<source, upload, eject, shared>>

PluggedIn ==
  /\ mount = "absent"
  /\ mount' = "plugged"
  /\ UNCHANGED <<source, card, partial, job, upload, eject, events, shared, astray>>

Downloaded(f) ==
  /\ f \notin source
  /\ Event
  /\ source' = source \cup {f}
  /\ UNCHANGED <<card, partial, mount, job, upload, eject, shared, astray>>

(* The service is killed and started again; the card stays mounted. *)
Killed ==
  /\ Event
  /\ card' = [f \in Files |-> IF card[f] \in Writers THEN "cut" ELSE card[f]]
  /\ partial' = [f \in Files |-> IF partial[f] \in Writers THEN "cut" ELSE partial[f]]
  /\ job' = [j \in Jobs |-> NoJob]
  /\ upload' = None
  /\ eject' = "none"
  /\ UNCHANGED <<source, mount, shared, astray>>

-----------------------------------------------------------------------------
JobStep(j) ==
  \/ \E f \in Files : NextFile(j, f) \/ PassOver(j, f)
  \/ Clear(j)
  \/ Open(j)
  \/ Write(j)
  \/ Unlink(j)
  \/ Rename(j)
  \/ Complete(j)

Handler ==
  \/ \E f \in Files : HandleUpload(f) \/ HandleDelete(f)
  \/ UploadEnds
  \/ HandleMount
  \/ EjectBegins
  \/ EjectUnmounts
  \/ EjectEnds

Next ==
  \/ \E j \in Jobs, fs \in SUBSET Files, replace \in BOOLEAN : HandleCopy(j, fs, replace)
  \/ \E j \in Jobs : JobStep(j) \/ WriteFails(j)
  \/ Handler
  \/ \E f \in Files : Downloaded(f)
  \/ Pulled
  \/ PluggedIn
  \/ Killed

Spec == Init /\ [][Next]_vars
-----------------------------------------------------------------------------
(* Properties                                                              *)

TypeOK ==
  /\ source \subseteq Files
  /\ card \in [Files -> {None, "old", "new", "cut"} \cup Writers]
  /\ partial \in [Files -> {None, "new", "cut"} \cup Jobs]
  /\ mount \in {"absent", "plugged", "mounted"}
  /\ job \in [Jobs ->
       [pc : {"none", "next", "clear", "open", "write", "unlink", "rename", "ended"},
        todo : SUBSET Files, file : Files \cup {None}, replace : BOOLEAN,
        asked : SUBSET Files, status : {"none", "running", "completed", "failed"}]]
  /\ \A j \in Jobs : job[j].file # None =>
       job[j].pc \in {"clear", "open", "write", "unlink", "rename"}
  /\ upload \in Files \cup {None}
  /\ eject \in {"none", "unmount", "poweroff", "safe", "unsafe"}
  /\ events \in 0 .. MaxEvents
  /\ shared \subseteq Files
  /\ astray \subseteq Jobs

(* merge_copy() renames only what it has written and flushed: whatever was *)
(* pulled out, killed, full or deleted, a file under its own name is whole,*)
(* unless an upload or two jobs wrote it.                                  *)
TargetsWhole ==
  \A f \in Files : card[f] # None /\ ~Whole(card[f]) => f \in shared

(* "transfer complete and synced": the files of a completed job are on the *)
(* card, whole, unless the card went away while it ran or two writers met. *)
CompletedIsThere ==
  [][\A j \in Jobs :
       Running(j) /\ job'[j].status = "completed"
         => \/ j \in astray
            \/ \A f \in job[j].asked : Whole(card[f]) \/ f \in shared]_vars

(* A replacing copy has the old file or the whole new one on the card at   *)
(* every moment, under one of the two names; the only way to lose both is  *)
(* to take away what a copy that was stopped between unlink and rename has *)
(* left as .partial.                                                       *)
OldOrNew ==
  [][\A f \in Files :
       Whole(card[f]) \/ Whole(partial[f])
         => \/ Whole(card'[f]) \/ Whole(partial'[f])
            \/ f \in shared
            \/ card[f] = None /\ \E j \in Jobs : At(j, "clear") /\ job[j].file = f]_vars
=============================================================================
