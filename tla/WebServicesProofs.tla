-------------------------- MODULE WebServicesProofs --------------------------
(***************************************************************************)
(* The three services of the web: what the transfer server leaves on the   *)
(* Switch's card, what the console's file requests do to the workspace, and*)
(* whom the console's rate limiter lets in.  Proved for any number of      *)
(* files, jobs, threads, requests and mishaps.                             *)
(***************************************************************************)
EXTENDS SwitchTransfer, ConsoleFiles, ConsoleGate, WellFoundedInduction, TLAPS

-----------------------------------------------------------------------------
(* merge_copy() and the card (SwitchTransfer).                             *)
(*                                                                         *)
(* The argument is about the files on which no two writers met.  Such a    *)
(* file has at most one running job (Alone), which finds its .partial as   *)
(* it left it (Progress); so what is renamed is whole, and what a job that *)
(* kept its card is through with stays on the card (Through).              *)

JobPlaces == {"none", "next", "clear", "open", "write", "unlink", "rename", "ended"}
AtFile == {"clear", "open", "write", "unlink", "rename"}

JobRecord ==
  [pc : JobPlaces, todo : SUBSET Files, file : Files \cup {None}, replace : BOOLEAN,
   asked : SUBSET Files, status : {"none", "running", "completed", "failed"}]

(* A job runs from its first file to its last, and has a file at hand      *)
(* exactly in between, one that it was asked for and has still to deliver. *)
JobShape ==
  \A j \in Jobs :
    /\ Running(j) <=> job[j].pc \in {"next"} \cup AtFile
    /\ job[j].file # None <=> job[j].pc \in AtFile
    /\ job[j].file # None => job[j].file \in job[j].asked \ job[j].todo
    /\ job[j].todo \subseteq job[j].asked

(* Two jobs that run were not asked for one file, unless it is shared. *)
Alone ==
  \A j, k \in Jobs : \A f \in job[j].asked \cap job[k].asked :
    Running(j) /\ Running(k) /\ f \notin shared => j = k

(* The .partial of the file at hand is as the job has left it. *)
Progress ==
  \A j \in Jobs : job[j].file # None /\ job[j].file \notin shared =>
    /\ At(j, "open") => partial[job[j].file] = None
    /\ At(j, "write") => partial[job[j].file] = j
    /\ At(j, "unlink") \/ At(j, "rename") => partial[job[j].file] = "new"

(* A job whose card did not go away has it mounted from its first file on, *)
(* and the files that it is through with are on it.                        *)
Through ==
  \A j \in Jobs : Running(j) /\ j \notin astray =>
    /\ job[j].todo # job[j].asked => Mounted
    /\ \A f \in job[j].asked \ job[j].todo :
         f = job[j].file \/ f \in shared \/ Whole(card[f])

CardInv == TypeOK /\ JobShape /\ Alone /\ TargetsWhole /\ Progress /\ Through

-----------------------------------------------------------------------------
(* What the definitions say of one job and one file                        *)

(* Names are no jobs, and no state of a file is the name of one. *)
LEMMA Names ==
  /\ None \notin Files /\ None \notin Writers
  /\ None \notin {"old", "new", "cut"}
  /\ "old" \notin Writers /\ "new" \notin Writers /\ "cut" \notin Writers
  /\ Upload \notin Jobs /\ Upload \in Writers /\ Jobs \subseteq Writers
BY SwitchAssumption DEF Writers

LEMMA NoJobIs ==
  /\ NoJob \in JobRecord
  /\ NoJob.pc = "none" /\ NoJob.file = None /\ NoJob.todo = {} /\ NoJob.asked = {}
  /\ NoJob.status = "none"
BY DEF NoJob, JobRecord, JobPlaces

LEMMA EndedIs ==
  ASSUME NEW j, NEW s \in {"failed", "completed"}
  PROVE  /\ Ended(j, s) \in JobRecord
         /\ Ended(j, s).pc = "ended" /\ Ended(j, s).file = None
         /\ Ended(j, s).todo = {} /\ Ended(j, s).asked = {} /\ Ended(j, s).status = s
BY DEF Ended, NoJob, JobRecord, JobPlaces

-----------------------------------------------------------------------------
(* One lemma for each step of a job, and for what happens to all of them   *)

(* An exception ends job j: what it was writing is cut. *)
LEMMA FailsKeeps ==
  ASSUME CardInv, NEW j \in Jobs, Running(j), Fails(j),
         UNCHANGED <<source, mount, upload, eject, shared, astray>>, events' \in 0 .. MaxEvents
  PROVE  CardInv'
<1>0. TypeOK /\ JobShape /\ Alone /\ TargetsWhole /\ Progress /\ Through
  BY DEF CardInv
<1>1. TypeOK'
  BY <1>0, Names, EndedIs
    DEF TypeOK, Fails, Settled, At, JobRecord, JobPlaces, AtFile
<1>2. JobShape'
  BY <1>0, Names, EndedIs
    DEF TypeOK, JobShape, Fails, Settled, At, JobRecord, AtFile, Running
<1>3. Alone'
  BY <1>0, Names, EndedIs
    DEF TypeOK, JobShape, Alone, Fails, Settled, At, JobRecord, AtFile, Running
<1>4. TargetsWhole'
  BY <1>0, Names, EndedIs
    DEF TypeOK, JobShape, Progress, TargetsWhole, Whole, Fails, Settled, At, JobRecord, AtFile, Running
<1>5. Progress'
  BY <1>0, Names, EndedIs
    DEF TypeOK, JobShape, Alone, Progress, Fails, Settled, At, JobRecord, AtFile, Running
<1>6. Through'
  BY <1>0, Names, EndedIs
    DEF TypeOK, JobShape, Alone, TargetsWhole, Whole, Through, Mounted, Fails, Settled, At, JobRecord, AtFile, Running
<1> QED
  BY <1>1, <1>2, <1>3, <1>4, <1>5, <1>6 DEF CardInv

(* What another running job was asked for becomes shared. *)
LEMMA HandleCopyKeeps ==
  ASSUME CardInv, NEW j \in Jobs, NEW fs \in SUBSET Files, NEW replace \in BOOLEAN,
         HandleCopy(j, fs, replace)
  PROVE  CardInv'
<1>0. TypeOK /\ JobShape /\ Alone /\ TargetsWhole /\ Progress /\ Through
  BY DEF CardInv
<1>1. TypeOK'
  BY <1>0, Names
    DEF TypeOK, HandleCopy, NoJob, At, JobRecord, JobPlaces, AtFile
<1>2. JobShape'
  BY <1>0, Names
    DEF TypeOK, JobShape, HandleCopy, NoJob, At, JobRecord, AtFile, Running
<1>3. Alone'
  BY <1>0, Names
    DEF TypeOK, JobShape, Alone, HandleCopy, NoJob, At, JobRecord, AtFile, Running
<1>4. TargetsWhole'
  BY <1>0, Names
    DEF TypeOK, JobShape, Progress, TargetsWhole, Whole, HandleCopy, NoJob, At, JobRecord, AtFile, Running
<1>5. Progress'
  BY <1>0, Names
    DEF TypeOK, JobShape, Alone, Progress, HandleCopy, NoJob, At, JobRecord, AtFile, Running
<1>6. Through'
  BY <1>0, Names
    DEF TypeOK, JobShape, Alone, TargetsWhole, Whole, Through, Mounted, HandleCopy, NoJob, At, JobRecord, AtFile, Running
<1> QED
  BY <1>1, <1>2, <1>3, <1>4, <1>5, <1>6 DEF CardInv

(* A file that is there already is through as it is. *)
LEMMA NextFileKeeps ==
  ASSUME CardInv, NEW j \in Jobs, NEW f \in Files, NextFile(j, f), ~ Fails(j)
  PROVE  CardInv'
<1>0. TypeOK /\ JobShape /\ Alone /\ TargetsWhole /\ Progress /\ Through
  BY DEF CardInv
<1>1. TypeOK'
  BY <1>0, Names
    DEF TypeOK, NextFile, At, JobRecord, JobPlaces, AtFile
<1>2. JobShape'
  BY <1>0, Names
    DEF TypeOK, JobShape, NextFile, At, JobRecord, AtFile, Running
<1>3. Alone'
  <2>1. \A k \in Jobs : job'[k].asked = job[k].asked /\ job'[k].status = job[k].status
    BY <1>0 DEF TypeOK, JobRecord, NextFile
  <2>2. UNCHANGED shared
    BY DEF NextFile
  <2> QED
    BY <1>0, <2>1, <2>2 DEF Alone, Running
<1>4. TargetsWhole'
  BY <1>0, Names
    DEF TypeOK, JobShape, Progress, TargetsWhole, Whole, NextFile, At, JobRecord, AtFile, Running
<1>5. Progress'
  BY <1>0, Names
    DEF TypeOK, JobShape, Alone, Progress, NextFile, At, JobRecord, AtFile, Running
<1>6. Through'
  BY <1>0, Names
    DEF TypeOK, JobShape, Alone, TargetsWhole, Whole, Through, Mounted, NextFile, At, JobRecord, AtFile, Running
<1> QED
  BY <1>1, <1>2, <1>3, <1>4, <1>5, <1>6 DEF CardInv

(* What was passed over was not asked for. *)
LEMMA PassOverKeeps ==
  ASSUME CardInv, NEW j \in Jobs, NEW f \in Files, PassOver(j, f)
  PROVE  CardInv'
<1>0. TypeOK /\ JobShape /\ Alone /\ TargetsWhole /\ Progress /\ Through
  BY DEF CardInv
<1>1. TypeOK'
  <2>1. job[j] \in JobRecord
    BY <1>0 DEF TypeOK, JobRecord, JobPlaces
  <2>2. job' \in [Jobs -> JobRecord]
    BY <1>0, <2>1, Names
      DEF TypeOK, JobShape, PassOver, At, JobRecord, JobPlaces, AtFile
  <2> QED
    BY <1>0, <2>2, Names
      DEF TypeOK, JobShape, PassOver, At, JobRecord, JobPlaces, AtFile
<1>2. JobShape'
  BY <1>0, Names
    DEF TypeOK, JobShape, PassOver, At, JobRecord, AtFile, Running
<1>3. Alone'
  BY <1>0, Names
    DEF TypeOK, JobShape, Alone, PassOver, At, JobRecord, AtFile, Running
<1>4. TargetsWhole'
  BY <1>0, Names
    DEF TypeOK, JobShape, Progress, TargetsWhole, Whole, PassOver, At, JobRecord, AtFile, Running
<1>5. Progress'
  BY <1>0, Names
    DEF TypeOK, JobShape, Alone, Progress, PassOver, At, JobRecord, AtFile, Running
<1>6. Through'
  BY <1>0, Names
    DEF TypeOK, JobShape, Alone, TargetsWhole, Whole, Through, Mounted, PassOver, At, JobRecord, AtFile, Running
<1> QED
  BY <1>1, <1>2, <1>3, <1>4, <1>5, <1>6 DEF CardInv

(* A job that gives up its file without an error has lost its card before. *)
LEMMA ClearKeeps ==
  ASSUME CardInv, NEW j \in Jobs, Clear(j), ~ Fails(j)
  PROVE  CardInv'
<1>0. TypeOK /\ JobShape /\ Alone /\ TargetsWhole /\ Progress /\ Through
  BY DEF CardInv
<1>1. TypeOK'
  BY <1>0, Names
    DEF TypeOK, Clear, Cleared, At, JobRecord, JobPlaces, AtFile
<1>2. JobShape'
  BY <1>0, Names
    DEF TypeOK, JobShape, Clear, Cleared, At, JobRecord, AtFile, Running
<1>3. Alone'
  BY <1>0, Names
    DEF TypeOK, JobShape, Alone, Clear, Cleared, At, JobRecord, AtFile, Running
<1>4. TargetsWhole'
  BY <1>0, Names
    DEF TypeOK, JobShape, Progress, TargetsWhole, Whole, Clear, Cleared, At, JobRecord, AtFile, Running
<1>5. Progress'
  BY <1>0, Names
    DEF TypeOK, JobShape, Alone, Progress, Clear, Cleared, At, JobRecord, AtFile, Running
<1>6. Through'
  BY <1>0, Names
    DEF TypeOK, JobShape, Alone, TargetsWhole, Whole, Through, Mounted, Clear, Cleared, At, JobRecord, AtFile, Running
<1> QED
  BY <1>1, <1>2, <1>3, <1>4, <1>5, <1>6 DEF CardInv

LEMMA OpenKeeps ==
  ASSUME CardInv, NEW j \in Jobs, Open(j), ~ Fails(j)
  PROVE  CardInv'
<1>0. TypeOK /\ JobShape /\ Alone /\ TargetsWhole /\ Progress /\ Through
  BY DEF CardInv
<1>1. TypeOK'
  BY <1>0, Names
    DEF TypeOK, Open, Opened, At, JobRecord, JobPlaces, AtFile
<1>2. JobShape'
  BY <1>0, Names
    DEF TypeOK, JobShape, Open, Opened, At, JobRecord, AtFile, Running
<1>3. Alone'
  BY <1>0, Names
    DEF TypeOK, JobShape, Alone, Open, Opened, At, JobRecord, AtFile, Running
<1>4. TargetsWhole'
  BY <1>0, Names
    DEF TypeOK, JobShape, Progress, TargetsWhole, Whole, Open, Opened, At, JobRecord, AtFile, Running
<1>5. Progress'
  BY <1>0, Names
    DEF TypeOK, JobShape, Alone, Progress, Open, Opened, At, JobRecord, AtFile, Running
<1>6. Through'
  BY <1>0, Names
    DEF TypeOK, JobShape, Alone, TargetsWhole, Whole, Through, Mounted, Open, Opened, At, JobRecord, AtFile, Running
<1> QED
  BY <1>1, <1>2, <1>3, <1>4, <1>5, <1>6 DEF CardInv

LEMMA JobWriteKeeps ==
  ASSUME CardInv, NEW j \in Jobs, Write(j), ~ Fails(j)
  PROVE  CardInv'
<1>0. TypeOK /\ JobShape /\ Alone /\ TargetsWhole /\ Progress /\ Through
  BY DEF CardInv
<1>1. TypeOK'
  BY <1>0, Names
    DEF TypeOK, Write, Settled, At, JobRecord, JobPlaces, AtFile
<1>2. JobShape'
  BY <1>0, Names
    DEF TypeOK, JobShape, Write, Settled, At, JobRecord, AtFile, Running
<1>3. Alone'
  BY <1>0, Names
    DEF TypeOK, JobShape, Alone, Write, Settled, At, JobRecord, AtFile, Running
<1>4. TargetsWhole'
  BY <1>0, Names
    DEF TypeOK, JobShape, Progress, TargetsWhole, Whole, Write, Settled, At, JobRecord, AtFile, Running
<1>5. Progress'
  BY <1>0, Names
    DEF TypeOK, JobShape, Alone, Progress, Write, Settled, At, JobRecord, AtFile, Running
<1>6. Through'
  BY <1>0, Names
    DEF TypeOK, JobShape, Alone, TargetsWhole, Whole, Through, Mounted, Write, Settled, At, JobRecord, AtFile, Running
<1> QED
  BY <1>1, <1>2, <1>3, <1>4, <1>5, <1>6 DEF CardInv

LEMMA UnlinkKeeps ==
  ASSUME CardInv, NEW j \in Jobs, Unlink(j), ~ Fails(j)
  PROVE  CardInv'
<1>0. TypeOK /\ JobShape /\ Alone /\ TargetsWhole /\ Progress /\ Through
  BY DEF CardInv
<1>1. TypeOK'
  <2>1. job[j] \in JobRecord
    BY <1>0 DEF TypeOK, JobRecord, JobPlaces
  <2>2. job' \in [Jobs -> JobRecord]
    BY <1>0, <2>1, Names
      DEF TypeOK, JobShape, Unlink, At, JobRecord, JobPlaces, AtFile
  <2> QED
    BY <1>0, <2>2, Names
      DEF TypeOK, JobShape, Unlink, At, JobRecord, JobPlaces, AtFile
<1>2. JobShape'
  BY <1>0, Names
    DEF TypeOK, JobShape, Unlink, At, JobRecord, AtFile, Running
<1>3. Alone'
  BY <1>0, Names
    DEF TypeOK, JobShape, Alone, Unlink, At, JobRecord, AtFile, Running
<1>4. TargetsWhole'
  BY <1>0, Names
    DEF TypeOK, JobShape, Progress, TargetsWhole, Whole, Unlink, At, JobRecord, AtFile, Running
<1>5. Progress'
  BY <1>0, Names
    DEF TypeOK, JobShape, Alone, Progress, Unlink, At, JobRecord, AtFile, Running
<1>6. Through'
  BY <1>0, Names
    DEF TypeOK, JobShape, Alone, TargetsWhole, Whole, Through, Mounted, Unlink, At, JobRecord, AtFile, Running
<1> QED
  BY <1>1, <1>2, <1>3, <1>4, <1>5, <1>6 DEF CardInv

(* What is renamed is new, as Progress says of the file at hand. *)
LEMMA RenameKeeps ==
  ASSUME CardInv, NEW j \in Jobs, Rename(j), job[j].file \in source, ~ Fails(j)
  PROVE  CardInv'
<1>0. TypeOK /\ JobShape /\ Alone /\ TargetsWhole /\ Progress /\ Through
  BY DEF CardInv
<1>A. /\ At(j, "rename") /\ Mounted /\ Renamed(job[j].file)
      /\ job' = [job EXCEPT ![j] = [job[j] EXCEPT !.pc = "next", !.file = None]]
      /\ UNCHANGED <<source, mount, upload, eject, events, shared, astray>>
  BY DEF Rename
<1>1. TypeOK'
  <2>1. job[j] \in JobRecord
    BY <1>0 DEF TypeOK, JobRecord, JobPlaces
  <2>2. job' \in [Jobs -> JobRecord]
    BY <1>0, <1>A, <2>1, Names
      DEF TypeOK, JobShape, Renamed, At, JobRecord, JobPlaces, AtFile
  <2> QED
    BY <1>0, <1>A, <2>2, Names
      DEF TypeOK, JobShape, Renamed, At, JobRecord, JobPlaces, AtFile
<1>2. JobShape'
  BY <1>0, <1>A, Names
    DEF TypeOK, JobShape, Renamed, At, JobRecord, AtFile, Running
<1>3. Alone'
  BY <1>0, <1>A, Names
    DEF TypeOK, JobShape, Alone, Renamed, At, JobRecord, AtFile, Running
<1>4. TargetsWhole'
  BY <1>0, <1>A, Names
    DEF TypeOK, JobShape, Progress, TargetsWhole, Whole, Renamed, At, JobRecord, AtFile, Running
<1>5. Progress'
  BY <1>0, <1>A, Names
    DEF TypeOK, JobShape, Alone, Progress, Renamed, At, JobRecord, AtFile, Running
<1>6. Through'
  BY <1>0, <1>A, Names
    DEF TypeOK, JobShape, Alone, TargetsWhole, Whole, Progress, Through, Mounted, Renamed, At, JobRecord, AtFile, Running
<1> QED
  BY <1>1, <1>2, <1>3, <1>4, <1>5, <1>6 DEF CardInv

(* copystat() raises: the file is there all the same. *)
LEMMA RenameEndsKeeps ==
  ASSUME CardInv, NEW j \in Jobs, Rename(j), job[j].file \notin source, ~ Fails(j)
  PROVE  CardInv'
<1>0. TypeOK /\ JobShape /\ Alone /\ TargetsWhole /\ Progress /\ Through
  BY DEF CardInv
<1>1. TypeOK'
  BY <1>0, Names, EndedIs
    DEF TypeOK, Rename, Renamed, At, JobRecord, JobPlaces, AtFile
<1>2. JobShape'
  BY <1>0, Names, EndedIs
    DEF TypeOK, JobShape, Rename, Renamed, At, JobRecord, AtFile, Running
<1>3. Alone'
  BY <1>0, Names, EndedIs
    DEF TypeOK, JobShape, Alone, Rename, Renamed, At, JobRecord, AtFile, Running
<1>4. TargetsWhole'
  BY <1>0, Names, EndedIs
    DEF TypeOK, JobShape, Progress, TargetsWhole, Whole, Rename, Renamed, At, JobRecord, AtFile, Running
<1>5. Progress'
  BY <1>0, Names, EndedIs
    DEF TypeOK, JobShape, Alone, Progress, Rename, Renamed, At, JobRecord, AtFile, Running
<1>6. Through'
  BY <1>0, Names, EndedIs
    DEF TypeOK, JobShape, Alone, TargetsWhole, Whole, Through, Mounted, Rename, Renamed, At, JobRecord, AtFile, Running
<1> QED
  BY <1>1, <1>2, <1>3, <1>4, <1>5, <1>6 DEF CardInv

LEMMA CompleteKeeps ==
  ASSUME CardInv, NEW j \in Jobs, Complete(j)
  PROVE  CardInv'
<1>0. TypeOK /\ JobShape /\ Alone /\ TargetsWhole /\ Progress /\ Through
  BY DEF CardInv
<1>1. TypeOK'
  BY <1>0, Names, EndedIs
    DEF TypeOK, Complete, At, JobRecord, JobPlaces, AtFile
<1>2. JobShape'
  BY <1>0, Names, EndedIs
    DEF TypeOK, JobShape, Complete, At, JobRecord, AtFile, Running
<1>3. Alone'
  BY <1>0, Names, EndedIs
    DEF TypeOK, JobShape, Alone, Complete, At, JobRecord, AtFile, Running
<1>4. TargetsWhole'
  BY <1>0, Names, EndedIs
    DEF TypeOK, JobShape, Progress, TargetsWhole, Whole, Complete, At, JobRecord, AtFile, Running
<1>5. Progress'
  BY <1>0, Names, EndedIs
    DEF TypeOK, JobShape, Alone, Progress, Complete, At, JobRecord, AtFile, Running
<1>6. Through'
  BY <1>0, Names, EndedIs
    DEF TypeOK, JobShape, Alone, TargetsWhole, Whole, Through, Mounted, Complete, At, JobRecord, AtFile, Running
<1> QED
  BY <1>1, <1>2, <1>3, <1>4, <1>5, <1>6 DEF CardInv

(* A file that is uploaded is shared from then on. *)
LEMMA HandleUploadKeeps ==
  ASSUME CardInv, NEW f \in Files, HandleUpload(f)
  PROVE  CardInv'
<1>0. TypeOK /\ JobShape /\ Alone /\ TargetsWhole /\ Progress /\ Through
  BY DEF CardInv
<1>1. TypeOK'
  BY <1>0, Names, SwitchAssumption
    DEF TypeOK, HandleUpload, Event, At, JobRecord, JobPlaces, AtFile
<1>2. JobShape'
  BY <1>0, Names
    DEF TypeOK, JobShape, HandleUpload, Event, At, JobRecord, AtFile, Running
<1>3. Alone'
  BY <1>0, Names
    DEF TypeOK, JobShape, Alone, HandleUpload, Event, At, JobRecord, AtFile, Running
<1>4. TargetsWhole'
  BY <1>0, Names
    DEF TypeOK, JobShape, Progress, TargetsWhole, Whole, HandleUpload, Event, At, JobRecord, AtFile, Running
<1>5. Progress'
  BY <1>0, Names
    DEF TypeOK, JobShape, Alone, Progress, HandleUpload, Event, At, JobRecord, AtFile, Running
<1>6. Through'
  BY <1>0, Names
    DEF TypeOK, JobShape, Alone, TargetsWhole, Whole, Through, Mounted, HandleUpload, Event, At, JobRecord, AtFile, Running
<1> QED
  BY <1>1, <1>2, <1>3, <1>4, <1>5, <1>6 DEF CardInv

LEMMA UploadEndsKeeps ==
  ASSUME CardInv, UploadEnds
  PROVE  CardInv'
<1>0. TypeOK /\ JobShape /\ Alone /\ TargetsWhole /\ Progress /\ Through
  BY DEF CardInv
<1>1. TypeOK'
  BY <1>0, Names
    DEF TypeOK, UploadEnds, Settled, At, JobRecord, JobPlaces, AtFile
<1>2. JobShape'
  BY <1>0, Names
    DEF TypeOK, JobShape, UploadEnds, Settled, At, JobRecord, AtFile, Running
<1>3. Alone'
  BY <1>0, Names
    DEF TypeOK, JobShape, Alone, UploadEnds, Settled, At, JobRecord, AtFile, Running
<1>4. TargetsWhole'
  BY <1>0, Names
    DEF TypeOK, JobShape, Progress, TargetsWhole, Whole, UploadEnds, Settled, At, JobRecord, AtFile, Running
<1>5. Progress'
  BY <1>0, Names
    DEF TypeOK, JobShape, Alone, Progress, UploadEnds, Settled, At, JobRecord, AtFile, Running
<1>6. Through'
  BY <1>0, Names
    DEF TypeOK, JobShape, Alone, TargetsWhole, Whole, Through, Mounted, UploadEnds, Settled, At, JobRecord, AtFile, Running
<1> QED
  BY <1>1, <1>2, <1>3, <1>4, <1>5, <1>6 DEF CardInv

(* Whoever runs while the card is unmounted goes astray. *)
LEMMA EjectUnmountsKeeps ==
  ASSUME CardInv, EjectUnmounts
  PROVE  CardInv'
<1>0. TypeOK /\ JobShape /\ Alone /\ TargetsWhole /\ Progress /\ Through
  BY DEF CardInv
<1>1. TypeOK'
  BY <1>0, Names
    DEF TypeOK, EjectUnmounts, GoesAway, At, JobRecord, JobPlaces, AtFile
<1>2. JobShape'
  BY <1>0, Names
    DEF TypeOK, JobShape, EjectUnmounts, GoesAway, At, JobRecord, AtFile, Running
<1>3. Alone'
  BY <1>0, Names
    DEF TypeOK, JobShape, Alone, EjectUnmounts, GoesAway, At, JobRecord, AtFile, Running
<1>4. TargetsWhole'
  BY <1>0, Names
    DEF TypeOK, JobShape, Progress, TargetsWhole, Whole, EjectUnmounts, GoesAway, At, JobRecord, AtFile, Running
<1>5. Progress'
  BY <1>0, Names
    DEF TypeOK, JobShape, Alone, Progress, EjectUnmounts, GoesAway, At, JobRecord, AtFile, Running
<1>6. Through'
  BY <1>0, Names
    DEF TypeOK, JobShape, Alone, TargetsWhole, Whole, Through, Mounted, EjectUnmounts, GoesAway, At, JobRecord, AtFile, Running
<1> QED
  BY <1>1, <1>2, <1>3, <1>4, <1>5, <1>6 DEF CardInv

(* Only names that are being written are cut. *)
LEMMA PulledKeeps ==
  ASSUME CardInv, Pulled
  PROVE  CardInv'
<1>0. TypeOK /\ JobShape /\ Alone /\ TargetsWhole /\ Progress /\ Through
  BY DEF CardInv
<1>1. TypeOK'
  BY <1>0, Names, EndedIs, SwitchAssumption
    DEF TypeOK, Pulled, GoesAway, Event, At, JobRecord, JobPlaces, AtFile
<1>2. JobShape'
  BY <1>0, Names, EndedIs
    DEF TypeOK, JobShape, Pulled, GoesAway, Event, At, JobRecord, AtFile, Running
<1>3. Alone'
  BY <1>0, Names, EndedIs
    DEF TypeOK, JobShape, Alone, Pulled, GoesAway, Event, At, JobRecord, AtFile, Running
<1>4. TargetsWhole'
  BY <1>0, Names, EndedIs
    DEF TypeOK, JobShape, Progress, TargetsWhole, Whole, Pulled, GoesAway, Event, At, JobRecord, AtFile, Running
<1>5. Progress'
  BY <1>0, Names, EndedIs
    DEF TypeOK, JobShape, Alone, Progress, Pulled, GoesAway, Event, At, JobRecord, AtFile, Running
<1>6. Through'
  BY <1>0, Names, EndedIs
    DEF TypeOK, JobShape, Alone, TargetsWhole, Whole, Through, Mounted, Pulled, GoesAway, Event, At, JobRecord, AtFile, Running
<1> QED
  BY <1>1, <1>2, <1>3, <1>4, <1>5, <1>6 DEF CardInv

LEMMA ServerKilledKeeps ==
  ASSUME CardInv, Killed
  PROVE  CardInv'
<1>0. TypeOK /\ JobShape /\ Alone /\ TargetsWhole /\ Progress /\ Through
  BY DEF CardInv
<1>1. TypeOK'
  BY <1>0, Names, NoJobIs, SwitchAssumption
    DEF TypeOK, Killed, Event, At, JobRecord, JobPlaces, AtFile
<1>2. JobShape'
  BY <1>0, Names, NoJobIs
    DEF TypeOK, JobShape, Killed, Event, At, JobRecord, AtFile, Running
<1>3. Alone'
  BY <1>0, Names, NoJobIs
    DEF TypeOK, JobShape, Alone, Killed, Event, At, JobRecord, AtFile, Running
<1>4. TargetsWhole'
  BY <1>0, Names, NoJobIs
    DEF TypeOK, JobShape, Progress, TargetsWhole, Whole, Killed, Event, At, JobRecord, AtFile, Running
<1>5. Progress'
  BY <1>0, Names, NoJobIs
    DEF TypeOK, JobShape, Alone, Progress, Killed, Event, At, JobRecord, AtFile, Running
<1>6. Through'
  BY <1>0, Names, NoJobIs
    DEF TypeOK, JobShape, Alone, TargetsWhole, Whole, Through, Mounted, Killed, Event, At, JobRecord, AtFile, Running
<1> QED
  BY <1>1, <1>2, <1>3, <1>4, <1>5, <1>6 DEF CardInv

(* What changes no file and no job; the card comes back only by being mounted. *)
LEMMA OthersKeep ==
  ASSUME CardInv, \/ \E f \in Files : HandleDelete(f) \/ Downloaded(f)
         \/ HandleMount \/ EjectBegins \/ EjectEnds \/ PluggedIn
         \/ UNCHANGED vars
  PROVE  CardInv'
<1>0. TypeOK /\ JobShape /\ Alone /\ TargetsWhole /\ Progress /\ Through
  BY DEF CardInv
<1>1. TypeOK'
  BY <1>0, Names, SwitchAssumption
    DEF TypeOK, HandleDelete, Downloaded, HandleMount, EjectBegins, EjectEnds, PluggedIn, vars, Event, At, JobRecord, JobPlaces, AtFile
<1>2. JobShape'
  BY <1>0, Names
    DEF TypeOK, JobShape, HandleDelete, Downloaded, HandleMount, EjectBegins, EjectEnds, PluggedIn, vars, Event, At, JobRecord, AtFile, Running
<1>3. Alone'
  BY <1>0, Names
    DEF TypeOK, JobShape, Alone, HandleDelete, Downloaded, HandleMount, EjectBegins, EjectEnds, PluggedIn, vars, Event, At, JobRecord, AtFile, Running
<1>4. TargetsWhole'
  BY <1>0, Names
    DEF TypeOK, JobShape, Progress, TargetsWhole, Whole, HandleDelete, Downloaded, HandleMount, EjectBegins, EjectEnds, PluggedIn, vars, Event, At, JobRecord, AtFile, Running
<1>5. Progress'
  BY <1>0, Names
    DEF TypeOK, JobShape, Alone, Progress, HandleDelete, Downloaded, HandleMount, EjectBegins, EjectEnds, PluggedIn, vars, Event, At, JobRecord, AtFile, Running
<1>6. Through'
  BY <1>0, Names
    DEF TypeOK, JobShape, Alone, TargetsWhole, Whole, Through, Mounted, HandleDelete, Downloaded, HandleMount, EjectBegins, EjectEnds, PluggedIn, vars, Event, At, JobRecord, AtFile, Running
<1> QED
  BY <1>1, <1>2, <1>3, <1>4, <1>5, <1>6 DEF CardInv

-----------------------------------------------------------------------------
(* The theorems                                                            *)

LEMMA CardInitHolds == Init => CardInv
BY Names, NoJobIs, SwitchAssumption
   DEF Init, CardInv, TypeOK, JobShape, Alone, TargetsWhole, Progress, Through, Whole,
       JobRecord, JobPlaces, AtFile, Running, At

(* Each step of a job either is an exception or has its lemma. *)
LEMMA JobStepKeeps ==
  ASSUME CardInv, NEW j \in Jobs, JobStep(j) \/ WriteFails(j)
  PROVE  CardInv'
<1>1. CASE Fails(j) /\ ~ Complete(j) /\ (\A f \in Files : ~ PassOver(j, f))
  <2>1. Running(j)
    BY <1>1 DEF CardInv, JobShape, AtFile, At, JobStep, NextFile, Clear, Open, Write, Unlink, Rename, WriteFails
  <2>2. UNCHANGED <<source, mount, upload, eject, shared, astray>>
    BY <1>1 DEF JobStep, NextFile, Clear, Open, Write, Unlink, Rename, WriteFails
  <2>3. events' \in 0 .. MaxEvents
    <3>1. events \in 0 .. MaxEvents
      BY DEF CardInv, TypeOK
    <3>2. events' = events \/ (events < MaxEvents /\ events' = events + 1)
      BY <1>1 DEF JobStep, NextFile, Clear, Open, Write, Unlink, Rename, WriteFails, Event
    <3> QED
      BY <3>1, <3>2, SwitchAssumption
  <2> QED
    BY <1>1, <2>1, <2>2, <2>3, FailsKeeps
<1>2. CASE WriteFails(j) /\ ~ Fails(j)
  BY <1>2 DEF WriteFails
<1>3. CASE \E f \in Files : (NextFile(j, f) /\ ~ Fails(j)) \/ PassOver(j, f)
  BY <1>3, NextFileKeeps, PassOverKeeps
<1>4. CASE Complete(j)
  BY <1>4, CompleteKeeps
<1>5. CASE (Clear(j) \/ Open(j) \/ Write(j) \/ Unlink(j)) /\ ~ Fails(j)
  BY <1>5, ClearKeeps, OpenKeeps, JobWriteKeeps, UnlinkKeeps
<1>6. CASE Rename(j) /\ ~ Fails(j)
  BY <1>6, RenameKeeps, RenameEndsKeeps
<1> QED
  BY <1>1, <1>2, <1>3, <1>4, <1>5, <1>6 DEF JobStep

LEMMA CardStepKeeps == CardInv /\ [Next]_vars => CardInv'
<1> SUFFICES ASSUME CardInv, [Next]_vars PROVE CardInv'
  OBVIOUS
<1>1. CASE \E j \in Jobs, fs \in SUBSET Files, replace \in BOOLEAN : HandleCopy(j, fs, replace)
  BY <1>1, HandleCopyKeeps
<1>2. CASE \E j \in Jobs : JobStep(j) \/ WriteFails(j)
  BY <1>2, JobStepKeeps
<1>3. CASE (\E f \in Files : HandleUpload(f)) \/ UploadEnds
  BY <1>3, HandleUploadKeeps, UploadEndsKeeps
<1>4. CASE EjectUnmounts
  BY <1>4, EjectUnmountsKeeps
<1>5. CASE Pulled
  BY <1>5, PulledKeeps
<1>6. CASE Killed
  BY <1>6, ServerKilledKeeps
<1>7. CASE \/ \E f \in Files : HandleDelete(f) \/ Downloaded(f)
           \/ HandleMount \/ EjectBegins \/ EjectEnds \/ PluggedIn
           \/ UNCHANGED vars
  BY <1>7, OthersKeep
<1> QED
  BY <1>1, <1>2, <1>3, <1>4, <1>5, <1>6, <1>7 DEF Next, Handler

(* The inductive invariant holds in every reachable state. *)
THEOREM CardInvariant == Spec => []CardInv
<1> QED
  BY CardInitHolds, CardStepKeeps, PTL DEF Spec

(* Jobs, names of the card and handlers are what the code makes of them. *)
THEOREM CardTypeCorrect == Spec => []TypeOK
<1>1. CardInv => TypeOK
  BY DEF CardInv
<1> QED
  BY <1>1, CardInvariant, PTL

(* merge_copy(): a file under its own name is whole, unless an upload or   *)
(* two jobs wrote it.                                                      *)
THEOREM WholeTargets == Spec => []TargetsWhole
<1>1. CardInv => TargetsWhole
  BY DEF CardInv
<1> QED
  BY <1>1, CardInvariant, PTL

(* "transfer complete and synced": a job that says so and kept its card    *)
(* has every file on it that it did not share.                             *)
THEOREM CompletedStays == Spec => CompletedIsThere
<1> DEFINE Delivered ==
      \A j \in Jobs :
        Running(j) /\ job'[j].status = "completed"
          => \/ j \in astray
             \/ \A f \in job[j].asked : Whole(card[f]) \/ f \in shared
<1>1. CardInv /\ [Next]_vars => [Delivered]_vars
  <2> SUFFICES ASSUME CardInv, [Next]_vars, NEW j \in Jobs,
                      Running(j), job'[j].status = "completed", j \notin astray,
                      NEW f \in job[j].asked
               PROVE  Whole(card[f]) \/ f \in shared
    BY DEF Delivered
  <2>1. Complete(j)
    <3> USE DEF CardInv, TypeOK, JobRecord, Running, At
    <3>1. ASSUME NEW k \in Jobs, Fails(k) PROVE FALSE
      BY <3>1, EndedIs DEF Fails
    <3>2. ASSUME NEW k \in Jobs, NEW fs \in SUBSET Files, NEW replace \in BOOLEAN,
                 HandleCopy(k, fs, replace)
          PROVE  FALSE
      BY <3>2 DEF HandleCopy
    <3>3. ASSUME NEW k \in Jobs, JobStep(k) \/ WriteFails(k), ~ Complete(k) PROVE FALSE
      <4>1. ASSUME NEW g \in Files, NextFile(k, g) \/ PassOver(k, g) PROVE FALSE
        BY <3>1, <4>1 DEF NextFile, PassOver
      <4>2. ~ (Clear(k) \/ Open(k) \/ Write(k) \/ Unlink(k) \/ WriteFails(k))
        BY <3>1 DEF Clear, Open, Write, Unlink, WriteFails
      <4>3. ~ Rename(k)
        <5>1. ASSUME Rename(k), ~ Fails(k), job[k].file \in source PROVE FALSE
          <6>1. job' = [job EXCEPT ![k] = [job[k] EXCEPT !.pc = "next", !.file = None]]
            BY <5>1 DEF Rename
          <6> QED
            BY <6>1
        <5>2. ASSUME Rename(k), ~ Fails(k), job[k].file \notin source PROVE FALSE
          BY <5>2, EndedIs DEF Rename
        <5> QED
          BY <3>1, <5>1, <5>2
      <4> QED
        BY <3>3, <4>1, <4>2, <4>3 DEF JobStep
    <3>4. ASSUME NEW k \in Jobs, Complete(k) PROVE k = j
      BY <3>4 DEF Complete
    <3>5. ~ (Handler \/ PluggedIn \/ (\E g \in Files : Downloaded(g)) \/ UNCHANGED vars)
      BY DEF Handler, HandleUpload, HandleDelete, UploadEnds, HandleMount, EjectBegins,
             EjectUnmounts, EjectEnds, PluggedIn, Downloaded, vars
    <3>6. ~ Pulled
      BY EndedIs DEF Pulled
    <3>7. ~ Killed
      BY NoJobIs DEF Killed
    <3> QED
      BY <3>2, <3>3, <3>4, <3>5, <3>6, <3>7 DEF Next
  <2>2. job[j].todo = {} /\ job[j].file = None
    BY <2>1 DEF Complete, At, CardInv, JobShape, AtFile
  <2>3. f \in Files
    BY DEF CardInv, TypeOK, JobRecord
  <2> QED
    BY <2>2, <2>3, Names DEF CardInv, Through
<1> QED
  BY <1>1, CardInvariant, PTL DEF Spec, CompletedIsThere

(* A file that two names hold stays under one of them in every step. *)
LEMMA KeptByJob ==
  ASSUME CardInv, NEW j \in Jobs, JobStep(j) \/ WriteFails(j),
         NEW f \in Files \ shared, Whole(card[f]) \/ Whole(partial[f]),
         ~ (card[f] = None /\ At(j, "clear") /\ job[j].file = f)
  PROVE  Whole(card'[f]) \/ Whole(partial'[f])
<1> USE Names
<1>0. TypeOK /\ JobShape /\ TargetsWhole /\ Progress
  BY DEF CardInv
<1>1. CASE Fails(j)
  BY <1>0, <1>1 DEF Fails, Settled, Whole, TypeOK
<1>2. CASE \E g \in Files : (NextFile(j, g) /\ ~ Fails(j)) \/ PassOver(j, g)
  BY <1>2 DEF NextFile, PassOver
<1>3. CASE Clear(j) /\ ~ Fails(j)
  BY <1>0, <1>3 DEF Clear, Cleared, Whole, TypeOK, TargetsWhole
<1>4. CASE Open(j) /\ ~ Fails(j)
  <2>1. job[j].file \in Files /\ At(j, "open")
    BY <1>0, <1>4 DEF Open, At, TypeOK, JobRecord, JobShape, AtFile
  <2>2. UNCHANGED card /\ partial' = [partial EXCEPT ![job[j].file] = j]
    BY <1>4 DEF Open, Opened
  <2>3. CASE f = job[j].file
    BY <1>0, <2>1, <2>2, <2>3 DEF Progress, Whole
  <2>4. CASE f # job[j].file
    BY <1>0, <2>1, <2>2, <2>4 DEF TypeOK
  <2> QED
    BY <2>3, <2>4
<1>5. CASE Write(j) /\ ~ Fails(j)
  BY <1>0, <1>5 DEF Write, Settled, Whole, TypeOK
<1>6. CASE Unlink(j) /\ ~ Fails(j)
  BY <1>0, <1>6 DEF Unlink, At, Whole, TypeOK, JobRecord, JobShape, AtFile, Progress
<1>7. CASE Rename(j) /\ ~ Fails(j)
  <2>1. At(j, "rename") /\ Renamed(job[j].file)
    BY <1>7 DEF Rename
  <2> QED
    BY <1>0, <2>1 DEF Renamed, At, Whole, TypeOK, JobRecord, JobShape, AtFile, Progress
<1>8. CASE Complete(j)
  BY <1>8 DEF Complete
<1>9. CASE WriteFails(j) /\ ~ Fails(j)
  BY <1>9 DEF WriteFails
<1> QED
  BY <1>1, <1>2, <1>3, <1>4, <1>5, <1>6, <1>7, <1>8, <1>9 DEF JobStep

(* A replacing copy: the old file or the whole new one is on the card at   *)
(* every moment, under one of the two names.                               *)
THEOREM OldOrNewKept == Spec => OldOrNew
<1> DEFINE Kept ==
      \A f \in Files :
        Whole(card[f]) \/ Whole(partial[f])
          => \/ Whole(card'[f]) \/ Whole(partial'[f])
             \/ f \in shared
             \/ card[f] = None /\ \E j \in Jobs : At(j, "clear") /\ job[j].file = f
<1>1. CardInv /\ [Next]_vars => [Kept]_vars
  <2> SUFFICES ASSUME CardInv, [Next]_vars, NEW f \in Files \ shared,
                      Whole(card[f]) \/ Whole(partial[f]),
                      ~ (card[f] = None /\ \E j \in Jobs : At(j, "clear") /\ job[j].file = f)
               PROVE  Whole(card'[f]) \/ Whole(partial'[f])
    BY DEF Kept
  <2> USE Names DEF CardInv, TypeOK
  <2>1. CASE \E j \in Jobs : JobStep(j) \/ WriteFails(j)
    BY <2>1, KeptByJob
  <2>2. CASE \E g \in Files : HandleUpload(g)
    BY <2>2 DEF HandleUpload, Whole
  <2>3. CASE UploadEnds
    BY <2>3 DEF UploadEnds, Settled, Whole
  <2>4. CASE Pulled \/ Killed
    BY <2>4 DEF Pulled, Killed, Whole
  <2>5. CASE \/ \E j \in Jobs, fs \in SUBSET Files, replace \in BOOLEAN : HandleCopy(j, fs, replace)
             \/ \E g \in Files : HandleDelete(g) \/ Downloaded(g)
             \/ HandleMount \/ EjectBegins \/ EjectUnmounts \/ EjectEnds \/ PluggedIn
             \/ UNCHANGED vars
    BY <2>5 DEF HandleCopy, HandleDelete, Downloaded, HandleMount, EjectBegins, EjectUnmounts,
                EjectEnds, PluggedIn, vars
  <2> QED
    BY <2>1, <2>2, <2>3, <2>4, <2>5 DEF Next, Handler
<1> QED
  BY <1>1, CardInvariant, PTL DEF Spec, OldOrNew

-----------------------------------------------------------------------------
(* The console's file requests (ConsoleFiles) lose nothing by accident and *)
(* answer truly.                                                           *)
(*                                                                         *)
(* A rename, and an upload that may not overwrite, have seen nothing at    *)
(* their destination (Fits); so what they replace came there later, or is  *)
(* nothing.  As long as nobody else changes the workspace, it is at every  *)
(* step what the request has made of it so far (Knows).                    *)

Slots == Kids \cup {Itself}

Nodes == [kind : {"none", "file", "tree"}, files : [Slots -> Nat], temps : SUBSET Threads]

(* A tree holds files under the names in it only, a file only itself. *)
NodeOK(n) ==
  /\ n.kind # "tree" => \A k \in Kids : n.files[k] = 0
  /\ n.kind # "file" => n.files[Itself] = 0
  /\ n.kind = "none" => n.temps = {}

Disks == {d \in [Tops -> Nodes] : \A x \in Tops : NodeOK(d[x])}

Works ==
  [pc : {"idle", "mkdir", "parent", "move", "stage", "remove", "write", "replace", "answer"},
   op : {"none", "mkdir", "rename", "delete", "upload"},
   path : Places \cup {Itself}, to : Places \cup {Itself}, number : Nat, overwrite : BOOLEAN,
   seen : Nat, answer : {"none", "ok", "error"}, left : BOOLEAN, before : SUBSET Disks]

(* What a request is, wherever it is. *)
Fits(w) ==
  /\ w.pc = "idle" => w.before = {}
  /\ w.pc = "mkdir" => w.op = "mkdir" /\ w.path \in Places /\ w.path.kid = Itself
  /\ w.pc \in {"parent", "move"} =>
       /\ w.op = "rename" /\ w.path \in Places /\ w.to \in Places
       /\ w.path.kid = Itself => w.to.kid = Itself
       /\ w.seen = 0
  /\ w.pc \in {"stage", "remove"} => w.op = "delete" /\ w.path \in Places
  /\ w.pc \in {"write", "replace"} =>
       /\ w.op = "upload" /\ w.path \in Places /\ w.to = w.path
       /\ ~ w.overwrite => w.seen = 0

(* The workspace d with the temporary file of thread t beside p. *)
WithTemporary(t, d, p) ==
  IF p.kid = Itself THEN d ELSE [ParentMade(d, p) EXCEPT ![p.top].temps = @ \cup {t}]

SameFiles(d, b) == \A x \in Tops : d[x].files = b[x].files

(* How the workspace d came from b, where request w began, if nobody else  *)
(* changed it.                                                             *)
Knows(t, d, w) ==
  \A b \in w.before :
    /\ \A x \in Tops : t \notin b[x].temps
    /\ w.pc \in {"mkdir", "parent", "stage", "write"} => d = b
    /\ w.pc = "move" => d = ParentMade(b, w.to)
    /\ w.pc = "remove" => d = Without(b, w.path)
    /\ w.pc = "replace" => d = WithTemporary(t, b, w.path)
    /\ w.pc = "answer" => IF w.answer = "ok" THEN d = Requested(w, b)
                          ELSE SameFiles(d, b) \/ (w.op = "delete" /\ w.left)

TempsOwned(d, ws) == \A x \in Tops, t \in Threads : t \in d[x].temps => ws[t].pc = "replace"

FilesInv ==
  /\ disk \in Disks /\ requests \in Nat
  /\ work \in [Threads -> Works]
  /\ \A t \in Threads : Fits(work[t]) /\ Knows(t, disk, work[t])
  /\ TempsOwned(disk, work)

-----------------------------------------------------------------------------
(* The workspace                                                           *)

(* The file of d at each place is somewhere in e, or among cs. *)
Keeps(d, e, cs) ==
  \A x \in Tops, k \in Slots :
    d[x].files[k] # 0 => \/ \E y \in Tops, l \in Slots : e[y].files[l] = d[x].files[k]
                         \/ d[x].files[k] \in cs

TempsFrom(d, e) == \A x \in Tops : \A u \in e[x].temps : \E y \in Tops : u \in d[y].temps

LEMMA PresentIs ==
  ASSUME NEW d, NEW c
  PROVE  c \in Present(d) <=> c # 0 /\ \E x \in Tops, k \in Slots : d[x].files[k] = c
<1>1. DOMAIN NoFiles = Slots
  BY DEF NoFiles, Slots
<1>2. ASSUME c \in Present(d)
      PROVE  c # 0 /\ \E x \in Tops, k \in Slots : d[x].files[k] = c
  <2>1. PICK F \in {{d[x].files[k] : k \in DOMAIN NoFiles} : x \in Tops} : c # 0 /\ c \in F
    BY <1>2, Zenon DEF Present
  <2>2. PICK x \in Tops : F = {d[x].files[k] : k \in DOMAIN NoFiles}
    BY <2>1
  <2>3. c # 0 /\ c \in {d[x].files[k] : k \in DOMAIN NoFiles}
    BY <2>1, <2>2
  <2> QED
    BY <1>1, <2>3
<1>3. ASSUME c # 0, NEW x \in Tops, NEW k \in Slots, d[x].files[k] = c
      PROVE  c \in Present(d)
  <2>1. PICK F : F = {d[x].files[l] : l \in DOMAIN NoFiles}
    OBVIOUS
  <2>2. c \in F
    BY <1>1, <1>3, <2>1
  <2>3. F \in {{d[y].files[l] : l \in DOMAIN NoFiles} : y \in Tops}
    BY <2>1, Zenon
  <2> QED
    BY <1>3, <2>2, <2>3, Zenon DEF Present
<1> QED
  BY <1>2, <1>3

LEMMA NothingGone ==
  ASSUME NEW d, NEW e, NEW cs, Keeps(d, e, cs), NEW c \in Present(d)
  PROVE  c \in Present(e) \cup cs
<1>1. PICK x \in Tops, k \in Slots : c # 0 /\ d[x].files[k] = c
  BY PresentIs
<1>2. c \in cs \/ \E y \in Tops, l \in Slots : e[y].files[l] = c
  BY <1>1 DEF Keeps
<1> QED
  BY <1>1, <1>2, PresentIs

LEMMA SameKept ==
  ASSUME NEW d, NEW e, NEW cs, SameFiles(e, d)
  PROVE  Keeps(d, e, cs)
BY DEF SameFiles, Keeps

LEMMA NodesAre ==
  /\ Itself \in Slots /\ Kids \subseteq Slots
  /\ Absent \in Nodes /\ NodeOK(Absent) /\ Absent.kind = "none" /\ Absent.temps = {}
  /\ Tree \in Nodes /\ NodeOK(Tree) /\ Tree.kind = "tree" /\ Tree.temps = {}
  /\ Tree.files = NoFiles /\ Absent.files = NoFiles /\ \A k \in Slots : NoFiles[k] = 0
  /\ \A c \in Nat : /\ File(c) \in Nodes /\ NodeOK(File(c))
                    /\ File(c).files[Itself] = c /\ File(c).temps = {}
<1>1. /\ NoFiles \in [Slots -> Nat] /\ \A k \in Slots : NoFiles[k] = 0
      /\ Itself \in Slots /\ Kids \subseteq Slots
  BY DEF NoFiles, Slots
<1>2. ASSUME NEW c \in Nat
      PROVE  /\ File(c) \in Nodes /\ NodeOK(File(c))
             /\ File(c).files[Itself] = c /\ File(c).temps = {}
  <2>1. PICK f : f = [NoFiles EXCEPT ![Itself] = c]
    OBVIOUS
  <2>2. f \in [Slots -> Nat] /\ f[Itself] = c /\ \A k \in Kids : f[k] = 0
    BY <1>1, <2>1, ConsoleFilesAssumption
  <2>3. File(c) = [kind |-> "file", files |-> f, temps |-> {}]
    BY <2>1 DEF File, Node
  <2> QED
    BY <2>2, <2>3 DEF Nodes, NodeOK
<1> QED
  BY <1>1, <1>2 DEF Absent, Tree, Node, Nodes, NodeOK, Slots

LEMMA DiskIs ==
  ASSUME NEW d \in Disks, NEW x \in Tops
  PROVE  /\ d[x] \in Nodes /\ NodeOK(d[x])
         /\ d[x].kind \in {"none", "file", "tree"}
         /\ d[x].files \in [Slots -> Nat] /\ d[x].temps \in SUBSET Threads
         /\ d[x].kind = "none" => d[x].files = NoFiles /\ d[x].temps = {}
<1>1. d[x] \in Nodes /\ NodeOK(d[x])
  BY DEF Disks
<1>2. d[x].files \in [Slots -> Nat] /\ d[x].temps \in SUBSET Threads /\ d[x].kind \in {"none", "file", "tree"}
  BY <1>1 DEF Nodes
<1>3. ASSUME d[x].kind = "none"
      PROVE  d[x].files = NoFiles /\ d[x].temps = {}
  <2>1. \A k \in Slots : d[x].files[k] = 0
    BY <1>1, <1>3 DEF NodeOK, Slots
  <2> QED
    BY <1>1, <1>2, <1>3, <2>1 DEF NodeOK, NoFiles, Slots
<1> QED
  BY <1>1, <1>2, <1>3

Put(d, x, n)        == [d EXCEPT ![x] = n]
PutFile(d, x, k, c) == [d EXCEPT ![x].files[k] = c]

(* One entry of the workspace replaced. *)
LEMMA PutIs ==
  ASSUME NEW d \in Disks, NEW x \in Tops, NEW n \in Nodes, NodeOK(n)
  PROVE  LET e == Put(d, x, n) IN
         e \in Disks /\ e[x] = n /\ \A y \in Tops \ {x} : e[y] = d[y]
BY DEF Disks, Put

(* One file of a tree replaced, removed or added. *)
LEMMA FileIs ==
  ASSUME NEW d \in Disks, NEW x \in Tops, NEW k \in Kids, NEW c \in Nat,
         d[x].kind = "tree" \/ c = 0
  PROVE  LET e == PutFile(d, x, k, c) IN
         /\ e \in Disks
         /\ e[x].files[k] = c
         /\ \A y \in Tops \ {x} : e[y] = d[y]
         /\ \A l \in Slots \ {k} : e[x].files[l] = d[x].files[l]
         /\ \A y \in Tops : e[y].temps = d[y].temps
         /\ e[x].kind = d[x].kind
<1>1. PICK n : n = [d[x] EXCEPT !.files[k] = c]
  OBVIOUS
<1>2. PICK f : f = [d[x].files EXCEPT ![k] = c]
  OBVIOUS
<1>3. k \in Slots /\ k # Itself
  BY ConsoleFilesAssumption DEF Slots
<1>4. d[x] = [kind |-> d[x].kind, files |-> d[x].files, temps |-> d[x].temps]
  BY DiskIs DEF Nodes
<1>5. n = [kind |-> d[x].kind, files |-> f, temps |-> d[x].temps]
  BY <1>1, <1>2, <1>4
<1>6. /\ f \in [Slots -> Nat] /\ f[k] = c
      /\ \A l \in Slots \ {k} : f[l] = d[x].files[l]
  BY <1>2, <1>3, DiskIs
<1>7. n \in Nodes
  BY <1>5, <1>6, DiskIs DEF Nodes
<1>8. NodeOK(n)
  <2>1. NodeOK(d[x])
    BY DiskIs
  <2> QED
    BY <1>3, <1>5, <1>6, <2>1 DEF NodeOK, Slots
<1>9. PICK e : e = Put(d, x, n)
  OBVIOUS
<1>10. e \in Disks /\ e[x] = n /\ \A y \in Tops \ {x} : e[y] = d[y]
  BY <1>7, <1>8, <1>9, PutIs
<1>11. PutFile(d, x, k, c) = e
  BY <1>1, <1>9 DEF Put, PutFile
<1> QED
  BY <1>5, <1>6, <1>10, <1>11

LEMMA ParentIs ==
  ASSUME NEW d \in Disks, NEW p \in Places
  PROVE  LET e == ParentMade(d, p) IN
         /\ e \in Disks
         /\ SameFiles(e, d)
         /\ \A x \in Tops : e[x].temps = d[x].temps
         /\ \A x \in Tops : e[x].kind = "file" <=> d[x].kind = "file"
         /\ \A x \in Tops \ {p.top} : e[x] = d[x]
         /\ p.kid # Itself => e[p.top].kind # "none"
         /\ ParentMade(e, p) = e
<1>0. p.top \in Tops
  BY DEF Places
<1>1. CASE p.kid # Itself /\ d[p.top].kind = "none"
  <2>1. PICK e : e = Put(d, p.top, Tree)
    OBVIOUS
  <2>2. ParentMade(d, p) = e
    BY <1>1, <2>1 DEF ParentMade, Put
  <2>3. e \in Disks /\ e[p.top] = Tree /\ \A y \in Tops \ {p.top} : e[y] = d[y]
    BY <1>0, <2>1, PutIs, NodesAre
  <2>4. ParentMade(e, p) = e
    BY <2>3, NodesAre DEF ParentMade
  <2>5. d[p.top].files = Tree.files /\ d[p.top].temps = Tree.temps
    BY <1>0, <1>1, DiskIs, NodesAre
  <2> QED
    BY <1>0, <1>1, <2>2, <2>3, <2>4, <2>5, NodesAre DEF SameFiles
<1>2. CASE ~ (p.kid # Itself /\ d[p.top].kind = "none")
  <2>1. ParentMade(d, p) = d
    BY <1>2 DEF ParentMade
  <2> QED
    BY <1>2, <2>1 DEF SameFiles
<1> QED
  BY <1>1, <1>2

LEMMA WithoutIs ==
  ASSUME NEW d \in Disks, NEW p \in Places
  PROVE  LET e == Without(d, p) IN
         /\ e \in Disks
         /\ \A x \in Tops : e[x].temps \subseteq d[x].temps
         /\ \A x \in Tops \ {p.top} : e[x] = d[x]
         /\ p.kid = Itself => e[p.top] = Absent
         /\ p.kid # Itself => /\ e[p.top].kind = d[p.top].kind
                              /\ \A l \in Slots \ {p.kid} : e[p.top].files[l] = d[p.top].files[l]
<1>0. p.top \in Tops /\ p.kid \in Slots
  BY DEF Places, Slots
<1>1. CASE p.kid = Itself
  <2>1. Without(d, p) = Put(d, p.top, Absent)
    BY <1>1 DEF Without, Put
  <2> QED
    BY <1>0, <1>1, <2>1, PutIs, NodesAre
<1>2. CASE p.kid # Itself
  <2>1. Without(d, p) = PutFile(d, p.top, p.kid, 0)
    BY <1>2 DEF Without, PutFile
  <2>2. p.kid \in Kids
    BY <1>0, <1>2 DEF Slots
  <2> QED
    BY <1>0, <1>2, <2>1, <2>2, FileIs
<1> QED
  BY <1>1, <1>2

LEMMA WithIs ==
  ASSUME NEW d \in Disks, NEW p \in Places, NEW c \in Nat,
         p.kid # Itself => d[p.top].kind # "file"
  PROVE  LET e == With(d, p, c) IN
         /\ e \in Disks
         /\ \A x \in Tops : e[x].temps \subseteq d[x].temps
         /\ e[p.top].files[p.kid] = c
         /\ \A x \in Tops \ {p.top} : e[x] = d[x]
         /\ p.kid # Itself => \A l \in Slots \ {p.kid} : e[p.top].files[l] = d[p.top].files[l]
<1>0. p.top \in Tops /\ p.kid \in Slots
  BY DEF Places, Slots
<1>1. CASE p.kid = Itself
  <2>1. With(d, p, c) = Put(d, p.top, File(c))
    BY <1>1 DEF With, Put
  <2>2. /\ File(c) \in Nodes /\ NodeOK(File(c))
        /\ File(c).files[Itself] = c /\ File(c).temps = {}
    BY NodesAre
  <2> QED
    BY <1>0, <1>1, <2>1, <2>2, PutIs
<1>2. CASE p.kid # Itself
  <2>0. PICK m : m = ParentMade(d, p)
    OBVIOUS
  <2>1. With(d, p, c) = PutFile(m, p.top, p.kid, c)
    BY <1>2, <2>0 DEF With, PutFile
  <2>2. p.kid \in Kids
    BY <1>0, <1>2 DEF Slots
  <2>3. /\ m \in Disks /\ SameFiles(m, d) /\ \A x \in Tops : m[x].temps = d[x].temps
        /\ \A x \in Tops \ {p.top} : m[x] = d[x]
        /\ m[p.top].kind # "none" /\ m[p.top].kind # "file"
    BY <1>0, <1>2, <2>0, ParentIs
  <2>4. m[p.top].kind = "tree"
    BY <1>0, <2>3, DiskIs
  <2>5. PICK e : e = PutFile(m, p.top, p.kid, c)
    OBVIOUS
  <2>6. /\ e \in Disks
        /\ e[p.top].files[p.kid] = c
        /\ \A y \in Tops \ {p.top} : e[y] = m[y]
        /\ \A l \in Slots \ {p.kid} : e[p.top].files[l] = m[p.top].files[l]
        /\ \A y \in Tops : e[y].temps = m[y].temps
    BY <1>0, <2>2, <2>3, <2>4, <2>5, FileIs
  <2> QED
    BY <1>0, <1>2, <2>1, <2>3, <2>5, <2>6 DEF SameFiles
<1> QED
  BY <1>1, <1>2

(* os.replace() of what a rename moves: nothing goes but what was at the   *)
(* destination.                                                            *)
LEMMA MovedIs ==
  ASSUME disk \in Disks, NEW p \in Places, NEW q \in Places,
         p.kid = Itself => q.kid = Itself, CanMove(p, q)
  PROVE  LET e == Moved(disk, p, q) IN
         /\ e \in Disks
         /\ TempsFrom(disk, e)
         /\ Keeps(disk, e, {ContentAt(disk, q)})
<1>0. /\ p.top \in Tops /\ p.kid \in Slots /\ q.top \in Tops /\ q.kid \in Slots
      /\ p.kid # Itself => p.kid \in Kids
      /\ q.kid # Itself => q.kid \in Kids
  BY DEF Places, Slots
<1>1. CASE disk[p.top].kind = "tree" /\ p.kid = Itself
  <2>1. disk[q.top] \in {Absent, Tree}
    BY <1>1 DEF CanMove, IsTree
  <2>2. PICK m : m = Put(disk, p.top, Absent)
    OBVIOUS
  <2>3. PICK n : n = disk[p.top]
    OBVIOUS
  <2>4. PICK e : e = Put(m, q.top, n)
    OBVIOUS
  <2>5. Moved(disk, p, q) = e
    BY <1>1, <2>2, <2>3, <2>4 DEF Moved, Put
  <2>6. m \in Disks /\ m[p.top] = Absent /\ \A y \in Tops \ {p.top} : m[y] = disk[y]
    <3>1. Absent \in Nodes /\ NodeOK(Absent)
      BY NodesAre
    <3> QED
      BY <1>0, <2>2, <3>1, PutIs
  <2>7. n \in Nodes /\ NodeOK(n)
    BY <1>0, <2>3, DiskIs
  <2>8. e \in Disks /\ e[q.top] = n /\ \A y \in Tops \ {q.top} : e[y] = m[y]
    BY <1>0, <2>4, <2>6, <2>7, PutIs
  <2>9. TempsFrom(disk, e)
    BY <1>0, <2>3, <2>6, <2>8, NodesAre DEF TempsFrom
  <2>10. \A k \in Slots : disk[q.top].files[k] = 0
    BY <2>1, NodesAre
  <2>11. Keeps(disk, e, {ContentAt(disk, q)})
    BY <1>0, <2>3, <2>6, <2>8, <2>10 DEF Keeps
  <2> QED
    BY <2>5, <2>8, <2>9, <2>11
<1>2. CASE ~ (disk[p.top].kind = "tree" /\ p.kid = Itself)
  <2>1. PICK m : m = Without(disk, p)
    OBVIOUS
  <2>2. PICK c : c = disk[p.top].files[p.kid]
    OBVIOUS
  <2>3. PICK e : e = With(m, q, c)
    OBVIOUS
  <2>4. Moved(disk, p, q) = e
    BY <1>2, <2>1, <2>2, <2>3 DEF Moved, ContentAt
  <2>5. /\ m \in Disks
        /\ \A x \in Tops : m[x].temps \subseteq disk[x].temps
        /\ \A x \in Tops \ {p.top} : m[x] = disk[x]
        /\ p.kid = Itself => m[p.top] = Absent
        /\ p.kid # Itself => /\ m[p.top].kind = disk[p.top].kind
                             /\ \A l \in Slots \ {p.kid} : m[p.top].files[l] = disk[p.top].files[l]
    BY <2>1, WithoutIs
  <2>6. c \in Nat
    BY <1>0, <2>2, DiskIs
  <2>7. TakesFile(q)
    BY <1>2 DEF CanMove, IsTree
  <2>8. q.kid # Itself => m[q.top].kind # "file"
    BY <1>0, <2>5, <2>7, NodesAre DEF TakesFile
  <2>9. /\ e \in Disks
        /\ \A x \in Tops : e[x].temps \subseteq m[x].temps
        /\ e[q.top].files[q.kid] = c
        /\ \A x \in Tops \ {q.top} : e[x] = m[x]
        /\ q.kid # Itself => \A l \in Slots \ {q.kid} : e[q.top].files[l] = m[q.top].files[l]
    BY <2>3, <2>5, <2>6, <2>8, WithIs
  <2>10. TempsFrom(disk, e)
    BY <2>5, <2>9 DEF TempsFrom
  <2>11. ASSUME NEW x \in Tops, NEW k \in Slots, disk[x].files[k] # 0,
                x # q.top \/ k # q.kid
         PROVE  \E y \in Tops, l \in Slots : e[y].files[l] = disk[x].files[k]
    <3>1. CASE x = p.top /\ k = p.kid
      BY <1>0, <2>2, <2>9, <3>1
    <3>2. CASE x = p.top /\ k # p.kid
      <4>1. p.kid # Itself
        <5>1. CASE p.kid = Itself
          <6>1. disk[x].kind # "tree"
            BY <1>2, <3>2, <5>1
          <6>2. k \in Kids
            BY <3>2, <5>1 DEF Slots
          <6> QED
            BY <2>11, <6>1, <6>2, DiskIs DEF NodeOK
        <5> QED
          BY <5>1
      <4>2. disk[x].kind = "tree"
        <5>1. Exists(p)
          BY DEF CanMove
        <5>2. disk[p.top].files[p.kid] # 0 /\ p.kid \in Kids
          BY <1>0, <4>1, <5>1 DEF Exists, ContentAt
        <5> QED
          BY <3>2, <5>2, DiskIs DEF NodeOK
      <4>3. m[x].files[k] = disk[x].files[k]
        BY <2>5, <3>2, <4>1
      <4>4. CASE x # q.top
        BY <2>9, <4>3, <4>4
      <4>5. CASE x = q.top
        <5>1. q.kid # Itself
          BY <2>7, <4>2, <4>5 DEF TakesFile
        <5>2. k # q.kid
          BY <2>11, <4>5
        <5> QED
          BY <2>9, <4>3, <4>5, <5>1, <5>2
      <4> QED
        BY <4>4, <4>5
    <3>3. CASE x # p.top
      <4>1. m[x] = disk[x]
        BY <2>5, <3>3
      <4>2. CASE x # q.top
        BY <2>9, <4>1, <4>2
      <4>3. CASE x = q.top
        <5>1. k # q.kid
          BY <2>11, <4>3
        <5>2. q.kid # Itself
          <6>1. CASE q.kid = Itself
            <7>1. disk[x].kind # "tree"
              BY <2>7, <4>3, <6>1 DEF TakesFile
            <7>2. k \in Kids
              BY <5>1, <6>1 DEF Slots
            <7> QED
              BY <2>11, <7>1, <7>2, DiskIs DEF NodeOK
          <6> QED
            BY <6>1
        <5> QED
          BY <2>9, <4>1, <4>3, <5>1, <5>2
      <4> QED
        BY <4>2, <4>3
    <3> QED
      BY <3>1, <3>2, <3>3
  <2>12. Keeps(disk, e, {ContentAt(disk, q)})
    BY <1>0, <2>11 DEF Keeps, ContentAt
  <2> QED
    BY <2>4, <2>9, <2>10, <2>12
<1> QED
  BY <1>1, <1>2

(* The parent that a rename made does not matter to what it moves. *)
LEMMA MoveAfterParent ==
  ASSUME NEW b \in Disks, NEW p \in Places, NEW q \in Places,
         p.kid = Itself => q.kid = Itself,
         disk = ParentMade(b, q), CanMove(p, q)
  PROVE  Moved(disk, p, q) = Moved(b, p, q)
<1>0. /\ p.top \in Tops /\ p.kid \in Slots /\ q.top \in Tops
      /\ p.kid # Itself => p.kid \in Kids
  BY DEF Places, Slots
<1>1. CASE ~ (q.kid # Itself /\ b[q.top].kind = "none")
  BY <1>1 DEF ParentMade
<1>2. CASE q.kid # Itself /\ b[q.top].kind = "none"
  <2>1. disk = [b EXCEPT ![q.top] = Tree]
    BY <1>2 DEF ParentMade
  <2>2. p.kid # Itself /\ p.kid \in Kids
    BY <1>0, <1>2
  <2>3. disk[q.top] = Tree /\ \A x \in Tops \ {q.top} : disk[x] = b[x]
    BY <1>0, <2>1, NodesAre DEF Disks
  <2>4. p.top # q.top
    <3>1. disk[p.top].files[p.kid] # 0
      BY <2>2 DEF CanMove, Exists, ContentAt
    <3> QED
      BY <1>0, <2>3, <3>1, NodesAre
  <2>5. PICK c : c = b[p.top].files[p.kid]
    OBVIOUS
  <2>6. ContentAt(disk, p) = c /\ ContentAt(b, p) = c
    BY <1>0, <2>3, <2>4, <2>5 DEF ContentAt
  <2>7. PICK n : n = [b[p.top] EXCEPT !.files[p.kid] = 0]
    OBVIOUS
  <2>8. disk \in Disks /\ b \in [Tops -> Nodes] /\ disk \in [Tops -> Nodes]
    <3>1. disk \in Disks
      BY ParentIs
    <3> QED
      BY <3>1 DEF Disks
  <2>9. PICK e : e = [b EXCEPT ![p.top] = n]
    OBVIOUS
  <2>10. Without(b, p) = e
    BY <2>2, <2>7, <2>9 DEF Without
  <2>11. PICK g : g = [disk EXCEPT ![p.top] = n]
    OBVIOUS
  <2>12. Without(disk, p) = g
    BY <1>0, <2>2, <2>3, <2>4, <2>7, <2>11 DEF Without
  <2>13. /\ e[q.top].kind = "none" /\ g[q.top].kind = "tree"
    BY <1>0, <1>2, <2>3, <2>4, <2>8, <2>9, <2>11, NodesAre
  <2>14. g = [e EXCEPT ![q.top] = Tree]
    <3>1. e \in [Tops -> Nodes] /\ g \in [Tops -> Nodes]
      BY <2>8, <2>10, <2>12, WithoutIs DEF Disks
    <3>2. PICK h : h = [e EXCEPT ![q.top] = Tree]
      OBVIOUS
    <3>3. h \in [Tops -> Nodes]
      BY <3>1, <3>2, NodesAre
    <3>4. \A x \in Tops : g[x] = h[x]
      BY <1>0, <2>3, <2>4, <2>8, <2>9, <2>11, <3>1, <3>2
    <3>5. g = h
      BY <3>1, <3>3, <3>4
    <3> QED
      BY <3>2, <3>5
  <2>15. ParentMade(e, q) = g /\ ParentMade(g, q) = g
    BY <1>2, <2>13, <2>14 DEF ParentMade
  <2>16. With(e, q, c) = With(g, q, c)
    BY <1>2, <2>15 DEF With
  <2>17. Moved(b, p, q) = With(e, q, c) /\ Moved(disk, p, q) = With(g, q, c)
    BY <2>2, <2>6, <2>10, <2>12 DEF Moved
  <2> QED
    BY <2>16, <2>17
<1> QED
  BY <1>1, <1>2

(* The temporary file of an upload, made and removed. *)
LEMMA TemporaryIs ==
  ASSUME NEW t \in Threads, NEW d \in Disks, NEW p \in Places
  PROVE  LET e == WithTemporary(t, d, p) IN
         /\ e \in Disks
         /\ SameFiles(e, d)
         /\ \A x \in Tops : e[x].temps \subseteq d[x].temps \cup {t}
         /\ \A x \in Tops : e[x].kind = "file" <=> d[x].kind = "file"
<1>0. p.top \in Tops
  BY DEF Places
<1>1. CASE p.kid = Itself
  BY <1>1 DEF WithTemporary, SameFiles
<1>2. CASE p.kid # Itself
  <2>1. PICK m : m = ParentMade(d, p)
    OBVIOUS
  <2>2. PICK n : n = [m[p.top] EXCEPT !.temps = @ \cup {t}]
    OBVIOUS
  <2>3. PICK e : e = Put(m, p.top, n)
    OBVIOUS
  <2>4. WithTemporary(t, d, p) = e
    BY <1>2, <2>1, <2>2, <2>3 DEF WithTemporary, Put
  <2>5. /\ m \in Disks /\ SameFiles(m, d) /\ \A x \in Tops : m[x].temps = d[x].temps
        /\ \A x \in Tops : m[x].kind = "file" <=> d[x].kind = "file"
        /\ m[p.top].kind # "none"
    BY <1>2, <2>1, ParentIs
  <2>6. m[p.top] \in Nodes /\ NodeOK(m[p.top])
    BY <1>0, <2>5, DiskIs
  <2>7. n = [kind |-> m[p.top].kind, files |-> m[p.top].files, temps |-> m[p.top].temps \cup {t}]
    BY <2>2, <2>6 DEF Nodes
  <2>8. n \in Nodes
    BY <2>6, <2>7 DEF Nodes
  <2>9. NodeOK(n)
    BY <2>5, <2>6, <2>7 DEF NodeOK
  <2>10. e \in Disks /\ e[p.top] = n /\ \A y \in Tops \ {p.top} : e[y] = m[y]
    BY <1>0, <2>3, <2>5, <2>8, <2>9, PutIs
  <2>11. \A x \in Tops : /\ e[x].files = m[x].files /\ e[x].kind = m[x].kind
                         /\ e[x].temps \subseteq m[x].temps \cup {t}
    BY <2>7, <2>10
  <2> QED
    BY <2>4, <2>5, <2>10, <2>11 DEF SameFiles
<1> QED
  BY <1>1, <1>2

WithoutTemps(S) == [x \in Tops |-> [disk[x] EXCEPT !.temps = @ \ S]]

LEMMA CleanedIs ==
  ASSUME disk \in Disks, NEW S \in SUBSET Threads
  PROVE  LET e == WithoutTemps(S) IN
         /\ e \in Disks
         /\ SameFiles(e, disk)
         /\ \A x \in Tops : e[x].temps = disk[x].temps \ S /\ e[x].kind = disk[x].kind
<1>0. PICK e : e = WithoutTemps(S)
  OBVIOUS
<1>1. ASSUME NEW x \in Tops
      PROVE  /\ e[x] \in Nodes /\ NodeOK(e[x])
             /\ e[x].files = disk[x].files /\ e[x].kind = disk[x].kind
             /\ e[x].temps = disk[x].temps \ S
  <2>1. disk[x] \in Nodes /\ NodeOK(disk[x])
    BY DiskIs
  <2>2. e[x] = [kind |-> disk[x].kind, files |-> disk[x].files, temps |-> disk[x].temps \ S]
    BY <1>0, <2>1 DEF Nodes, WithoutTemps
  <2>3. e[x] \in Nodes
    BY <2>1, <2>2 DEF Nodes
  <2> QED
    BY <2>1, <2>2, <2>3 DEF NodeOK
<1>2. e \in [Tops -> Nodes]
  BY <1>0, <1>1 DEF WithoutTemps
<1> QED
  BY <1>0, <1>1, <1>2 DEF Disks, SameFiles

(* Without its temporary file, the workspace is as it was before the       *)
(* upload, its parent included.                                            *)
LEMMA CleanedAgain ==
  ASSUME NEW t \in Threads, NEW b \in Disks, NEW p \in Places,
         \A x \in Tops : t \notin b[x].temps,
         disk = WithTemporary(t, b, p), disk \in Disks
  PROVE  Cleaned(t) = IF p.kid = Itself THEN b ELSE ParentMade(b, p)
<1>0. p.top \in Tops
  BY DEF Places
<1>1. PICK m : m = IF p.kid = Itself THEN b ELSE ParentMade(b, p)
  OBVIOUS
<1>2. m \in Disks /\ \A x \in Tops : m[x].temps = b[x].temps
  BY <1>1, ParentIs
<1>3. ASSUME NEW x \in Tops
      PROVE  [disk[x] EXCEPT !.temps = @ \ {t}] = m[x]
  <2>1. m[x] \in Nodes /\ t \notin m[x].temps
    BY <1>2, DiskIs
  <2>2. m[x] = [kind |-> m[x].kind, files |-> m[x].files, temps |-> m[x].temps]
    BY <2>1 DEF Nodes
  <2>3. CASE disk[x] = m[x]
    BY <2>1, <2>2, <2>3
  <2>4. CASE disk[x] # m[x]
    <3>1. disk = [m EXCEPT ![p.top].temps = @ \cup {t}]
      BY <1>1, <2>4 DEF WithTemporary
    <3>2. x = p.top
      BY <1>0, <1>2, <2>4, <3>1 DEF Disks
    <3>3. disk[x] = [m[x] EXCEPT !.temps = @ \cup {t}]
      BY <1>0, <1>2, <3>1, <3>2 DEF Disks
    <3>4. disk[x] = [kind |-> m[x].kind, files |-> m[x].files, temps |-> m[x].temps \cup {t}]
      BY <2>2, <3>3
    <3>5. [disk[x] EXCEPT !.temps = @ \ {t}]
          = [kind |-> m[x].kind, files |-> m[x].files, temps |-> (m[x].temps \cup {t}) \ {t}]
      BY <3>4
    <3>6. (m[x].temps \cup {t}) \ {t} = m[x].temps
      BY <2>1
    <3> QED
      BY <2>2, <3>5, <3>6
  <2> QED
    BY <2>3, <2>4
<1>4. Cleaned(t) = m
  BY <1>2, <1>3 DEF Cleaned, Disks
<1> QED
  BY <1>1, <1>4

-----------------------------------------------------------------------------
(* Steps in general                                                        *)

LEMMA WorkIs ==
  ASSUME FilesInv, NEW t \in Threads
  PROVE  /\ work[t] \in Works /\ Fits(work[t]) /\ Knows(t, disk, work[t])
         /\ work[t].before \subseteq Disks
         /\ work[t].pc # "replace" => \A x \in Tops : t \notin disk[x].temps
         /\ \A x \in Tops : disk[x].temps \subseteq Threads
<1>1. work[t] \in Works /\ Fits(work[t]) /\ Knows(t, disk, work[t])
  BY DEF FilesInv
<1>2. work[t].before \subseteq Disks
  BY <1>1 DEF Works
<1>3. work[t].pc # "replace" => \A x \in Tops : t \notin disk[x].temps
  BY DEF FilesInv, TempsOwned
<1>4. \A x \in Tops : disk[x].temps \subseteq Threads
  BY DiskIs DEF FilesInv
<1> QED
  BY <1>1, <1>2, <1>3, <1>4

(* The temporary files in d are those of threads other than t,             *)
OthersOnly(t, d) ==
  \A x \in Tops : \A u \in d[x].temps : u # t /\ \E y \in Tops : u \in disk[y].temps

(* or, when it is about to replace its destination, its own.               *)
Owned(t, d, w) ==
  \A x \in Tops : \A u \in d[x].temps :
    \/ u # t /\ \E y \in Tops : u \in disk[y].temps
    \/ u = t /\ w.pc = "replace"

LEMMA GoesKeeps ==
  ASSUME FilesInv, NEW t \in Threads, NEW d \in Disks, NEW w \in Works, Goes(t, d, w),
         Fits(w), Knows(t, d, w), Owned(t, d, w), requests' \in Nat
  PROVE  FilesInv'
<1>1. ASSUME NEW u \in Threads \ {t}
      PROVE  /\ work'[u] \in Works /\ Fits(work'[u]) /\ Knows(u, d, work'[u])
             /\ work'[u].pc = work[u].pc
  <2>1. work[u] \in Works /\ Fits(work[u]) /\ Knows(u, disk, work[u])
    BY WorkIs
  <2>2. CASE d # disk /\ ~ Idle(u)
    <3>1. work'[u] = [work[u] EXCEPT !.before = {}]
      BY <2>2 DEF Goes
    <3>2. PICK r : r = [work[u] EXCEPT !.before = {}]
      OBVIOUS
    <3>3. r \in Works /\ r.before = {} /\ r.pc = work[u].pc
      BY <2>1, <3>2 DEF Works
    <3>4. Fits(r)
      <4>1. /\ r.op = work[u].op /\ r.path = work[u].path /\ r.to = work[u].to
            /\ r.seen = work[u].seen /\ r.overwrite = work[u].overwrite
        BY <2>1, <3>2 DEF Works
      <4> QED
        BY <2>1, <3>3, <4>1 DEF Fits
    <3>5. Knows(u, d, r)
      BY <3>3 DEF Knows
    <3> QED
      BY <3>1, <3>2, <3>3, <3>4, <3>5
  <2>3. CASE ~ (d # disk /\ ~ Idle(u))
    <3>1. work'[u] = work[u]
      BY <2>3 DEF Goes
    <3>2. Knows(u, d, work[u])
      <4>1. CASE d = disk
        BY <2>1, <4>1
      <4>2. CASE Idle(u)
        <5>1. work[u].before = {}
          BY <2>1, <4>2 DEF Idle, Fits
        <5> QED
          BY <5>1 DEF Knows
      <4> QED
        BY <2>3, <4>1, <4>2
    <3> QED
      BY <2>1, <3>1, <3>2
  <2> QED
    BY <2>2, <2>3
<1>2. work'[t] = w /\ disk' = d
  BY DEF Goes
<1>3. \A u \in Threads : work'[u] \in Works /\ Fits(work'[u]) /\ Knows(u, disk', work'[u])
  BY <1>1, <1>2
<1>4. work' \in [Threads -> Works]
  <2>1. work' = [u \in Threads |-> work'[u]]
    BY DEF Goes
  <2> QED
    BY <1>3, <2>1
<1>5. \A x \in Tops, u \in Threads : u \in disk'[x].temps => work'[u].pc = "replace"
  BY <1>1, <1>2 DEF Owned, FilesInv, TempsOwned
<1> QED
  BY <1>2, <1>3, <1>4, <1>5 DEF FilesInv, Fits, Knows, TempsOwned

LEMMA OwnedIs ==
  ASSUME FilesInv, NEW t \in Threads, work[t].pc # "replace", NEW d, TempsFrom(disk, d)
  PROVE  OthersOnly(t, d) /\ \A w : Owned(t, d, w)
BY WorkIs DEF OthersOnly, Owned, TempsFrom

LEMMA NoRequestIs ==
  /\ NoRequest \in Works /\ NoRequest.before = {} /\ NoRequest.pc = "idle"
  /\ Fits(NoRequest) /\ \A t, d : Knows(t, d, NoRequest)
<1>1. NoRequest.before = {} /\ NoRequest.pc = "idle"
  BY DEF NoRequest
<1>2. NoRequest \in Works
  BY DEF NoRequest, Works
<1> QED
  BY <1>1, <1>2 DEF Fits, Knows

LEMMA RaisedKeeps ==
  ASSUME FilesInv, NEW t \in Threads, Raised(t), work[t].pc # "replace", UNCHANGED requests
  PROVE  FilesInv'
<1>1. Owned(t, disk, NoRequest)
  BY OwnedIs DEF TempsFrom
<1> QED
  BY <1>1, NoRequestIs, GoesKeeps DEF Raised, FilesInv

(* A request that says so has done what it was asked. *)
LEMMA DoneKeeps ==
  ASSUME FilesInv, NEW t \in Threads, NEW d \in Disks, Done(t, d), UNCHANGED requests,
         OthersOnly(t, d),
         \A b \in work[t].before : d = Requested(work[t], b),
         \A b \in work[t].before : \A x \in Tops : t \notin b[x].temps
  PROVE  FilesInv'
<1>1. PICK w : w = [work[t] EXCEPT !.pc = "answer", !.answer = "ok"]
  OBVIOUS
<1>2. /\ w \in Works /\ w.pc = "answer" /\ w.answer = "ok" /\ w.before = work[t].before
      /\ w.op = work[t].op /\ w.path = work[t].path /\ w.to = work[t].to
      /\ w.number = work[t].number
  BY <1>1, WorkIs DEF Works
<1>3. \A b : Requested(w, b) = Requested(work[t], b)
  BY <1>2 DEF Requested
<1>4. Knows(t, d, w)
  BY <1>2, <1>3 DEF Knows
<1>5. Fits(w)
  BY <1>2 DEF Fits
<1>6. Goes(t, d, w)
  BY <1>1 DEF Done
<1>7. Owned(t, d, w)
  BY DEF OthersOnly, Owned
<1> QED
  BY <1>2, <1>4, <1>5, <1>6, <1>7, GoesKeeps DEF FilesInv

(* One that reports an error has changed no file. *)
LEMMA FailedKeeps ==
  ASSUME FilesInv, NEW t \in Threads, NEW d \in Disks, Failed(t, d), UNCHANGED requests,
         OthersOnly(t, d),
         \A b \in work[t].before : SameFiles(d, b),
         \A b \in work[t].before : \A x \in Tops : t \notin b[x].temps
  PROVE  FilesInv'
<1>1. PICK w : w = [work[t] EXCEPT !.pc = "answer", !.answer = "error"]
  OBVIOUS
<1>2. /\ w \in Works /\ w.pc = "answer" /\ w.answer = "error" /\ w.before = work[t].before
  BY <1>1, WorkIs DEF Works
<1>4. Knows(t, d, w)
  BY <1>2 DEF Knows
<1>5. Fits(w)
  BY <1>2 DEF Fits
<1>6. Goes(t, d, w)
  BY <1>1 DEF Failed
<1>7. Owned(t, d, w)
  BY DEF OthersOnly, Owned
<1> QED
  BY <1>2, <1>4, <1>5, <1>6, <1>7, GoesKeeps DEF FilesInv

-----------------------------------------------------------------------------
(* The actions                                                             *)

LEMMA AskKeeps ==
  ASSUME FilesInv, NEW t \in Threads, NEW w \in Works, Ask(t, w), Fits(w),
         \/ w.before = {}
         \/ (\A b \in w.before : b = disk) /\ w.pc \in {"mkdir", "parent", "stage", "write"}
  PROVE  FilesInv' /\ disk' = disk
<1>1. Goes(t, disk, w) /\ requests' \in Nat /\ work[t].pc = "idle"
  BY DEF Ask, FilesInv, Idle
<1>2. Owned(t, disk, w)
  BY <1>1, OwnedIs DEF TempsFrom
<1>3. Knows(t, disk, w)
  BY <1>1, WorkIs DEF Knows
<1>4. disk' = disk
  BY <1>1 DEF Goes
<1> QED
  BY <1>1, <1>2, <1>3, <1>4, GoesKeeps DEF FilesInv

LEMMA AbsentIs ==
  ASSUME disk \in Disks, NEW p \in Places, ~ Exists(p)
  PROVE  ContentAt(disk, p) = 0 /\ (p.kid = Itself => disk[p.top].kind = "none")
<1>1. p.top \in Tops
  BY DEF Places
<1>2. CASE p.kid = Itself
  <2>1. disk[p.top].kind = "none"
    BY <1>2 DEF Exists
  <2> QED
    BY <1>1, <1>2, <2>1, DiskIs DEF NodeOK, ContentAt
<1>3. CASE p.kid # Itself
  BY <1>3 DEF Exists
<1> QED
  BY <1>2, <1>3

Begun(w, op, p, q, overwrite, pc) ==
  /\ w \in Works /\ w.pc = pc /\ w.op = op /\ w.path = p /\ w.to = q
  /\ w.overwrite = overwrite /\ w.seen = ContentAt(disk, q)
  /\ \A b \in w.before : b = disk

LEMMA BeginIs ==
  ASSUME FilesInv, NEW t, NEW op \in {"mkdir", "rename", "delete", "upload"},
         NEW p \in Places, NEW q \in Places, NEW overwrite \in BOOLEAN,
         NEW pc \in {"mkdir", "parent", "stage", "write"}
  PROVE  Begun(Begin(t, op, p, q, overwrite, pc), op, p, q, overwrite, pc)
<1>1. PICK n \in Nat : n = ContentAt(disk, q)
  <2>1. q.top \in Tops /\ q.kid \in Slots
    BY DEF Places, Slots
  <2> QED
    BY <2>1, DiskIs DEF ContentAt, FilesInv
<1>5. PICK m \in Nat : m = requests + 1
  BY DEF FilesInv
<1>2. {disk} \in SUBSET Disks
  BY DEF FilesInv
<1>3. PICK w : w = [NoRequest EXCEPT !.pc = pc, !.op = op, !.path = p, !.to = q, !.number = m,
                                     !.overwrite = overwrite, !.seen = n, !.before = {disk}]
  OBVIOUS
<1>4. Begin(t, op, p, q, overwrite, pc) = w
  BY <1>1, <1>5, <1>3 DEF Begin
<1>6. /\ w \in Works /\ w.pc = pc /\ w.op = op /\ w.path = p /\ w.to = q
      /\ w.overwrite = overwrite /\ w.seen = n /\ (\A b \in w.before : b = disk)
  BY <1>2, <1>3, NoRequestIs DEF Works
<1> QED
  BY <1>1, <1>4, <1>6 DEF Begun

LEMMA ConflictIs ==
  ASSUME FilesInv
  PROVE  Conflict \in Works /\ Conflict.before = {} /\ Fits(Conflict)
<1>1. PICK n \in Nat : n = requests + 1
  BY DEF FilesInv
<1>2. Conflict = [NoRequest EXCEPT !.pc = "answer", !.answer = "error", !.number = n]
  BY <1>1 DEF Conflict
<1>3. Conflict \in Works /\ Conflict.before = {} /\ Conflict.pc = "answer"
  BY <1>2, NoRequestIs DEF Works
<1> QED
  BY <1>3 DEF Fits

Asks(t) ==
  \/ \E x \in Tops : HandleMkdir(t, [top |-> x, kid |-> Itself])
  \/ \E p, q \in Places : (p.kid = Itself => q.kid = Itself) /\ HandleRename(t, p, q)
  \/ \E p \in Places : DeleteRequest(t, p)
  \/ \E p \in Places, overwrite \in BOOLEAN : UploadRequest(t, p, overwrite)

LEMMA AsksKeep ==
  ASSUME FilesInv, NEW t \in Threads, Asks(t)
  PROVE  FilesInv' /\ disk' = disk
<1>0. ASSUME Ask(t, Conflict)
      PROVE  FilesInv' /\ disk' = disk
  BY <1>0, ConflictIs, AskKeeps
<1>1. CASE \E x \in Tops : HandleMkdir(t, [top |-> x, kid |-> Itself])
  <2>1. PICK x \in Tops : HandleMkdir(t, [top |-> x, kid |-> Itself])
    BY <1>1
  <2>2. PICK p : p = [top |-> x, kid |-> Itself]
    OBVIOUS
  <2>3. p \in Places /\ p.kid = Itself /\ HandleMkdir(t, p)
    BY <2>1, <2>2 DEF Places
  <2>4. CASE Exists(p)
    BY <1>0, <2>3, <2>4 DEF HandleMkdir
  <2>5. CASE ~ Exists(p)
    <3>1. PICK w : w = Begin(t, "mkdir", p, p, FALSE, "mkdir")
      OBVIOUS
    <3>2. Ask(t, w)
      BY <2>3, <2>5, <3>1 DEF HandleMkdir
    <3>3. Begun(w, "mkdir", p, p, FALSE, "mkdir")
      BY <2>3, <3>1, BeginIs
    <3>4. Fits(w)
      BY <2>3, <3>3 DEF Fits, Begun
    <3> QED
      BY <3>2, <3>3, <3>4, AskKeeps DEF Begun
  <2> QED
    BY <2>4, <2>5
<1>2. CASE \E p, q \in Places : (p.kid = Itself => q.kid = Itself) /\ HandleRename(t, p, q)
  <2>1. PICK p \in Places, q \in Places :
          (p.kid = Itself => q.kid = Itself) /\ HandleRename(t, p, q)
    BY <1>2
  <2>2. CASE Exists(q)
    BY <1>0, <2>1, <2>2 DEF HandleRename, Occupied
  <2>3. CASE ~ Exists(q)
    <3>1. PICK w : w = Begin(t, "rename", p, q, FALSE, "parent")
      OBVIOUS
    <3>2. Ask(t, w)
      BY <2>1, <2>3, <3>1 DEF HandleRename, Occupied
    <3>3. Begun(w, "rename", p, q, FALSE, "parent")
      BY <2>1, <3>1, BeginIs
    <3>4. Fits(w)
      BY <2>1, <2>3, <3>3, AbsentIs DEF Fits, Begun, FilesInv
    <3> QED
      BY <3>2, <3>3, <3>4, AskKeeps DEF Begun
  <2> QED
    BY <2>2, <2>3
<1>3. CASE \E p \in Places : DeleteRequest(t, p)
  <2>1. PICK p \in Places : DeleteRequest(t, p)
    BY <1>3
  <2>2. PICK w : w = Begin(t, "delete", p, p, FALSE, "stage")
    OBVIOUS
  <2>3. Ask(t, w)
    BY <2>1, <2>2 DEF DeleteRequest
  <2>4. Begun(w, "delete", p, p, FALSE, "stage")
    BY <2>1, <2>2, BeginIs
  <2>5. Fits(w)
    BY <2>1, <2>4 DEF Fits, Begun
  <2> QED
    BY <2>3, <2>4, <2>5, AskKeeps DEF Begun
<1>4. CASE \E p \in Places, overwrite \in BOOLEAN : UploadRequest(t, p, overwrite)
  <2>1. PICK p \in Places, overwrite \in BOOLEAN : UploadRequest(t, p, overwrite)
    BY <1>4
  <2>2. CASE Exists(p) /\ ~ overwrite
    BY <1>0, <2>1, <2>2 DEF UploadRequest
  <2>3. CASE ~ (Exists(p) /\ ~ overwrite)
    <3>1. PICK w : w = Begin(t, "upload", p, p, overwrite, "write")
      OBVIOUS
    <3>2. Ask(t, w)
      BY <2>1, <2>3, <3>1 DEF UploadRequest
    <3>3. Begun(w, "upload", p, p, overwrite, "write")
      BY <2>1, <3>1, BeginIs
    <3>4. Fits(w)
      BY <2>1, <2>3, <3>3, AbsentIs DEF Fits, Begun, FilesInv
    <3> QED
      BY <3>2, <3>3, <3>4, AskKeeps DEF Begun
  <2> QED
    BY <2>2, <2>3
<1> QED
  BY <1>1, <1>2, <1>3, <1>4 DEF Asks

LEMMA FilesInitHolds == FilesInit => FilesInv
<1> SUFFICES ASSUME FilesInit PROVE FilesInv
  OBVIOUS
<1>1. Album \in Nodes /\ NodeOK(Album) /\ Album.temps = {}
  <2>1. PICK f : f = [k \in DOMAIN NoFiles |-> IF k \in Kids THEN 1 ELSE 0]
    OBVIOUS
  <2>2. f \in [Slots -> Nat] /\ f[Itself] = 0
    BY <2>1, ConsoleFilesAssumption DEF NoFiles, Slots
  <2>3. Album = [kind |-> "tree", files |-> f, temps |-> {}]
    BY <2>1 DEF Album, Tree, Node
  <2> QED
    BY <2>2, <2>3 DEF Nodes, NodeOK
<1>2. ASSUME NEW x \in Tops
      PROVE  disk[x] \in Nodes /\ NodeOK(disk[x]) /\ disk[x].temps = {}
  <2>1. disk[x] \in {Album, File(2), Absent}
    BY DEF FilesInit, Tops
  <2> QED
    BY <1>1, <2>1, NodesAre
<1>3. disk \in Disks
  <2>1. disk \in [Tops -> {Album, File(2), Absent}]
    BY DEF FilesInit, Tops
  <2> QED
    BY <1>2, <2>1 DEF Disks
<1>4. work \in [Threads -> Works] /\ \A t \in Threads : work[t] = NoRequest
  BY NoRequestIs DEF FilesInit
<1> QED
  BY <1>2, <1>3, <1>4, NoRequestIs DEF FilesInv, TempsOwned, FilesInit

(* What is known when a request is at one of its steps. *)
LEMMA AtIs ==
  ASSUME FilesInv, NEW t \in Threads
  PROVE  /\ disk \in Disks
         /\ \A b \in work[t].before : b \in Disks /\ \A x \in Tops : t \notin b[x].temps
         /\ In(t, "mkdir") => /\ work[t].op = "mkdir" /\ work[t].path \in Places
                              /\ work[t].path.kid = Itself
         /\ In(t, "parent") \/ In(t, "move") =>
              /\ work[t].op = "rename" /\ work[t].path \in Places /\ work[t].to \in Places
              /\ work[t].path.kid = Itself => work[t].to.kid = Itself
              /\ work[t].seen = 0
         /\ In(t, "stage") \/ In(t, "remove") => work[t].op = "delete" /\ work[t].path \in Places
         /\ In(t, "write") \/ In(t, "replace") =>
              /\ work[t].op = "upload" /\ work[t].path \in Places /\ work[t].to = work[t].path
              /\ ~ work[t].overwrite => work[t].seen = 0
BY WorkIs DEF FilesInv, Knows, Fits, In

LEMMA StayIs ==
  ASSUME FilesInv, NEW t \in Threads
  PROVE  /\ SameFiles(disk, disk) /\ TempsFrom(disk, disk)
         /\ work[t].pc # "replace" => OthersOnly(t, disk)
         /\ \A cs : Keeps(disk, disk, cs)
BY SameKept, OwnedIs DEF SameFiles, TempsFrom

LEMMA MkdirKeeps ==
  ASSUME FilesInv, NEW t \in Threads, Mkdir(t)
  PROVE  FilesInv' /\ Keeps(disk, disk', doomed')
<1>1. /\ In(t, "mkdir") /\ work[t].pc = "mkdir" /\ UNCHANGED requests
  BY DEF Mkdir, In
<1>2. PICK p \in Places : p = work[t].path /\ p.kid = Itself /\ p.top \in Tops
  BY <1>1, AtIs DEF Places
<1>3. \A b \in work[t].before : disk = b
  BY <1>1, WorkIs DEF Knows
<1>4. CASE ~ Exists(p) /\ Done(t, [disk EXCEPT ![p.top] = Tree])
  <2>1. PICK e : e = Put(disk, p.top, Tree)
    OBVIOUS
  <2>2. e \in Disks /\ e[p.top] = Tree /\ \A y \in Tops \ {p.top} : e[y] = disk[y]
    BY <1>2, <2>1, AtIs, PutIs, NodesAre
  <2>3. disk[p.top].files = NoFiles /\ disk[p.top].temps = {}
    BY <1>2, <1>4, AtIs, AbsentIs, DiskIs
  <2>4. SameFiles(e, disk) /\ TempsFrom(disk, e)
    BY <2>2, <2>3, NodesAre DEF SameFiles, TempsFrom
  <2>5. Done(t, e)
    BY <1>4, <2>1 DEF Put
  <2>6. \A b \in work[t].before : e = Requested(work[t], b)
    BY <1>1, <1>2, <1>3, <2>1, AtIs DEF Requested, Put
  <2>7. disk' = e
    BY <2>5 DEF Done, Goes
  <2> QED
    BY <1>1, <2>2, <2>4, <2>5, <2>6, <2>7, AtIs, DoneKeeps, SameKept, OwnedIs
<1>5. CASE Failed(t, disk)
  <2>1. \A b \in work[t].before : SameFiles(disk, b)
    BY <1>3 DEF SameFiles
  <2>2. disk' = disk
    BY <1>5 DEF Failed, Goes
  <2> QED
    BY <1>1, <1>5, <2>1, <2>2, AtIs, StayIs, FailedKeeps
<1> QED
  BY <1>2, <1>4, <1>5 DEF Mkdir

LEMMA ParentKeeps ==
  ASSUME FilesInv, NEW t \in Threads, RenameParent(t)
  PROVE  FilesInv' /\ Keeps(disk, disk', doomed')
<1>1. /\ In(t, "parent") /\ work[t].pc = "parent" /\ UNCHANGED requests
  BY DEF RenameParent, In
<1>2. PICK q \in Places : q = work[t].to
  BY <1>1, AtIs
<1>3. \A b \in work[t].before : disk = b /\ \A x \in Tops : t \notin b[x].temps
  BY <1>1, WorkIs DEF Knows
<1>4. CASE Goes(t, ParentMade(disk, q), [work[t] EXCEPT !.pc = "move"])
  <2>1. PICK w : w = [work[t] EXCEPT !.pc = "move"]
    OBVIOUS
  <2>2. PICK e : e = ParentMade(disk, q)
    OBVIOUS
  <2>3. /\ w \in Works /\ w.pc = "move" /\ w.before = work[t].before
        /\ w.op = work[t].op /\ w.path = work[t].path /\ w.to = work[t].to
        /\ w.seen = work[t].seen
    BY <2>1, WorkIs DEF Works
  <2>4. Fits(w)
    BY <1>1, <2>3, AtIs DEF Fits
  <2>5. e \in Disks /\ SameFiles(e, disk) /\ TempsFrom(disk, e)
    BY <2>2, AtIs, ParentIs DEF TempsFrom
  <2>6. Knows(t, e, w)
    BY <1>2, <1>3, <2>2, <2>3 DEF Knows
  <2>7. Goes(t, e, w) /\ disk' = e
    BY <1>4, <2>1, <2>2 DEF Goes
  <2>8. Owned(t, e, w)
    BY <1>1, <2>5, OwnedIs
  <2> QED
    BY <1>1, <2>3, <2>4, <2>5, <2>6, <2>7, <2>8, GoesKeeps, SameKept DEF FilesInv
<1>5. CASE Raised(t)
  <2>1. disk' = disk
    BY <1>5 DEF Raised, Goes
  <2> QED
    BY <1>1, <1>5, <2>1, RaisedKeeps, StayIs
<1> QED
  BY <1>2, <1>4, <1>5 DEF RenameParent

(* What replaces nothing that was seen dooms whatever it replaces. *)
LEMMA ReplacesIs ==
  ASSUME FilesInv, NEW t \in Threads, Replaces(t), NEW q, q = work[t].to,
         ~ work[t].overwrite => work[t].seen = 0,
         NEW e, Keeps(disk, e, {ContentAt(disk, q)})
  PROVE  Keeps(disk, e, doomed')
<1>1. ContentAt(disk, q) # 0 => ContentAt(disk, q) \in doomed'
  BY DEF Replaces
<1> QED
  BY <1>1 DEF Keeps

LEMMA MoveKeeps ==
  ASSUME FilesInv, NEW t \in Threads, RenameMove(t)
  PROVE  FilesInv' /\ Keeps(disk, disk', doomed')
<1>1. /\ In(t, "move") /\ work[t].pc = "move" /\ UNCHANGED requests
  BY DEF RenameMove, In
<1>2. PICK p \in Places, q \in Places :
        /\ p = work[t].path /\ q = work[t].to /\ work[t].seen = 0 /\ work[t].op = "rename"
        /\ p.kid = Itself => q.kid = Itself
  BY <1>1, AtIs
<1>3. \A b \in work[t].before : disk = ParentMade(b, q)
  BY <1>1, <1>2, WorkIs DEF Knows
<1>4. CASE CanMove(p, q) /\ Done(t, Moved(disk, p, q)) /\ Replaces(t)
  <2>1. PICK e : e = Moved(disk, p, q)
    OBVIOUS
  <2>2. e \in Disks /\ TempsFrom(disk, e) /\ Keeps(disk, e, {ContentAt(disk, q)})
    BY <1>2, <1>4, <2>1, AtIs, MovedIs
  <2>3. \A b \in work[t].before : e = Requested(work[t], b)
    <3>1. \A b \in work[t].before : e = Moved(b, p, q)
      BY <1>2, <1>3, <1>4, <2>1, AtIs, MoveAfterParent
    <3> QED
      BY <1>2, <3>1 DEF Requested
  <2>4. Done(t, e) /\ disk' = e
    BY <1>4, <2>1 DEF Done, Goes
  <2>5. Keeps(disk, e, doomed')
    BY <1>2, <1>4, <2>2, ReplacesIs
  <2> QED
    BY <1>1, <2>2, <2>3, <2>4, <2>5, AtIs, DoneKeeps, OwnedIs
<1>5. CASE Failed(t, disk)
  <2>1. \A b \in work[t].before : SameFiles(disk, b)
    BY <1>2, <1>3, AtIs, ParentIs
  <2>2. disk' = disk
    BY <1>5 DEF Failed, Goes
  <2> QED
    BY <1>1, <1>5, <2>1, <2>2, AtIs, StayIs, FailedKeeps
<1> QED
  BY <1>2, <1>4, <1>5 DEF RenameMove

LEMMA StageKeeps ==
  ASSUME FilesInv, NEW t \in Threads, Stage(t)
  PROVE  FilesInv' /\ Keeps(disk, disk', doomed')
<1>1. /\ In(t, "stage") /\ work[t].pc = "stage" /\ UNCHANGED requests
  BY DEF Stage, In
<1>2. PICK p \in Places : p = work[t].path /\ p.top \in Tops /\ p.kid \in Slots
  BY <1>1, AtIs DEF Places, Slots
<1>3. \A b \in work[t].before : disk = b /\ \A x \in Tops : t \notin b[x].temps
  BY <1>1, WorkIs DEF Knows
<1>4. CASE Staged(t) /\ doomed' = doomed \cup Inside(p)
  <2>1. PICK w : w = [work[t] EXCEPT !.pc = "remove"]
    OBVIOUS
  <2>2. PICK e : e = Without(disk, p)
    OBVIOUS
  <2>3. /\ w \in Works /\ w.pc = "remove" /\ w.before = work[t].before
        /\ w.op = work[t].op /\ w.path = work[t].path
    BY <2>1, WorkIs DEF Works
  <2>4. Fits(w)
    BY <1>1, <2>3, AtIs DEF Fits
  <2>5. /\ e \in Disks
        /\ \A x \in Tops : e[x].temps \subseteq disk[x].temps
        /\ \A x \in Tops \ {p.top} : e[x] = disk[x]
        /\ p.kid # Itself => \A l \in Slots \ {p.kid} : e[p.top].files[l] = disk[p.top].files[l]
    BY <2>2, AtIs, WithoutIs
  <2>6. Knows(t, e, w)
    BY <1>2, <1>3, <2>2, <2>3 DEF Knows
  <2>7. Goes(t, e, w) /\ disk' = e
    BY <1>2, <1>4, <2>1, <2>2 DEF Staged, Goes
  <2>8. Owned(t, e, w)
    BY <1>1, <2>5, OwnedIs DEF TempsFrom
  <2>9. Keeps(disk, e, doomed')
    <3>1. DOMAIN NoFiles = Slots
      BY DEF NoFiles, Slots
    <3>2. \A k \in Slots : p.kid = Itself \/ k = p.kid =>
            disk[p.top].files[k] = 0 \/ disk[p.top].files[k] \in Inside(p)
      BY <3>1 DEF Inside
    <3> QED
      BY <1>2, <1>4, <2>5, <3>2 DEF Keeps
  <2> QED
    BY <1>1, <2>3, <2>4, <2>5, <2>6, <2>7, <2>8, <2>9, GoesKeeps DEF FilesInv
<1>5. CASE Failed(t, disk)
  <2>1. \A b \in work[t].before : SameFiles(disk, b)
    BY <1>3 DEF SameFiles
  <2>2. disk' = disk
    BY <1>5 DEF Failed, Goes
  <2> QED
    BY <1>1, <1>5, <2>1, <2>2, AtIs, StayIs, FailedKeeps
<1> QED
  BY <1>2, <1>4, <1>5 DEF Stage

LEMMA RemoveKeeps ==
  ASSUME FilesInv, NEW t \in Threads, Remove(t)
  PROVE  FilesInv' /\ Keeps(disk, disk', doomed')
<1>1. /\ In(t, "remove") /\ work[t].pc = "remove" /\ UNCHANGED requests
  BY DEF Remove, In
<1>2. \A b \in work[t].before : disk = Requested(work[t], b)
  BY <1>1, AtIs, WorkIs DEF Knows, Requested
<1>3. CASE Done(t, disk)
  <2>1. disk' = disk
    BY <1>3 DEF Done, Goes
  <2> QED
    BY <1>1, <1>2, <1>3, <2>1, AtIs, StayIs, DoneKeeps
<1>4. CASE Goes(t, disk, [work[t] EXCEPT !.pc = "answer", !.answer = "error", !.left = TRUE])
  <2>1. PICK w : w = [work[t] EXCEPT !.pc = "answer", !.answer = "error", !.left = TRUE]
    OBVIOUS
  <2>2. /\ w \in Works /\ w.pc = "answer" /\ w.answer = "error" /\ w.before = work[t].before
        /\ w.op = "delete" /\ w.left
    BY <1>1, <2>1, AtIs, WorkIs DEF Works
  <2>3. Fits(w)
    BY <2>2 DEF Fits
  <2>4. Knows(t, disk, w)
    BY <2>2, AtIs DEF Knows
  <2>5. Goes(t, disk, w) /\ disk' = disk
    BY <1>4, <2>1 DEF Goes
  <2>6. Owned(t, disk, w)
    BY <1>1, StayIs, OwnedIs
  <2> QED
    BY <1>1, <2>2, <2>3, <2>4, <2>5, <2>6, AtIs, StayIs, GoesKeeps DEF FilesInv
<1> QED
  BY <1>3, <1>4 DEF Remove

LEMMA RequestWriteKeeps ==
  ASSUME FilesInv, NEW t \in Threads, WriteUpload(t)
  PROVE  FilesInv' /\ Keeps(disk, disk', doomed')
<1>1. /\ In(t, "write") /\ work[t].pc = "write" /\ UNCHANGED requests
  BY DEF WriteUpload, In
<1>2. PICK p \in Places : p = work[t].path
  BY <1>1, AtIs
<1>3. \A b \in work[t].before : disk = b /\ \A x \in Tops : t \notin b[x].temps
  BY <1>1, WorkIs DEF Knows
<1>4. CASE Goes(t, Temporary(t, p), [work[t] EXCEPT !.pc = "replace"])
  <2>1. PICK w : w = [work[t] EXCEPT !.pc = "replace"]
    OBVIOUS
  <2>2. PICK e : e = WithTemporary(t, disk, p)
    OBVIOUS
  <2>3. /\ w \in Works /\ w.pc = "replace" /\ w.before = work[t].before
        /\ w.op = work[t].op /\ w.path = work[t].path /\ w.to = work[t].to
        /\ w.seen = work[t].seen /\ w.overwrite = work[t].overwrite
    BY <2>1, WorkIs DEF Works
  <2>4. Fits(w)
    BY <1>1, <2>3, AtIs DEF Fits
  <2>5. /\ e \in Disks /\ SameFiles(e, disk)
        /\ \A x \in Tops : e[x].temps \subseteq disk[x].temps \cup {t}
    BY <2>2, AtIs, TemporaryIs
  <2>6. Knows(t, e, w)
    BY <1>2, <1>3, <2>2, <2>3 DEF Knows
  <2>7. Goes(t, e, w) /\ disk' = e
    BY <1>4, <2>1, <2>2 DEF Goes, Temporary, WithTemporary
  <2>8. Owned(t, e, w)
    BY <1>1, <2>3, <2>5, WorkIs DEF Owned
  <2> QED
    BY <1>1, <2>3, <2>4, <2>5, <2>6, <2>7, <2>8, GoesKeeps, SameKept DEF FilesInv
<1>5. CASE Failed(t, disk)
  <2>1. \A b \in work[t].before : SameFiles(disk, b)
    BY <1>3 DEF SameFiles
  <2>2. disk' = disk
    BY <1>5 DEF Failed, Goes
  <2> QED
    BY <1>1, <1>5, <2>1, <2>2, AtIs, StayIs, FailedKeeps
<1>6. CASE Failed(t, ParentMade(disk, p))
  <2>1. PICK e : e = ParentMade(disk, p)
    OBVIOUS
  <2>2. e \in Disks /\ SameFiles(e, disk) /\ TempsFrom(disk, e)
    BY <2>1, AtIs, ParentIs DEF TempsFrom
  <2>3. \A b \in work[t].before : SameFiles(e, b)
    BY <1>3, <2>2
  <2>4. Failed(t, e) /\ disk' = e
    BY <1>6, <2>1 DEF Failed, Goes
  <2> QED
    BY <1>1, <2>2, <2>3, <2>4, AtIs, SameKept, FailedKeeps, OwnedIs
<1> QED
  BY <1>2, <1>4, <1>5, <1>6 DEF WriteUpload

LEMMA ReplaceKeeps ==
  ASSUME FilesInv, NEW t \in Threads, ReplaceUpload(t)
  PROVE  FilesInv' /\ Keeps(disk, disk', doomed')
<1>1. /\ In(t, "replace") /\ work[t].pc = "replace" /\ UNCHANGED requests
  BY DEF ReplaceUpload, In
<1>2. PICK p \in Places : /\ p = work[t].path /\ p = work[t].to /\ work[t].op = "upload"
                          /\ ~ work[t].overwrite => work[t].seen = 0
                          /\ p.top \in Tops /\ p.kid \in Slots
  BY <1>1, AtIs DEF Places, Slots
<1>3. \A b \in work[t].before : disk = WithTemporary(t, b, p)
  BY <1>1, <1>2, WorkIs DEF Knows
<1>4. PICK m : m = Cleaned(t)
  OBVIOUS
<1>5. /\ m \in Disks /\ SameFiles(m, disk)
      /\ \A x \in Tops : m[x].temps = disk[x].temps \ {t} /\ m[x].kind = disk[x].kind
  <2>1. m = WithoutTemps({t}) /\ {t} \in SUBSET Threads
    BY <1>4 DEF Cleaned, WithoutTemps
  <2> QED
    BY <2>1, AtIs, CleanedIs
<1>6. CASE TakesFile(p) /\ Done(t, With(Cleaned(t), p, 2 + work[t].number)) /\ Replaces(t)
  <2>1. PICK c \in Nat : c = 2 + work[t].number
    BY WorkIs DEF Works
  <2>2. PICK e : e = With(m, p, c)
    OBVIOUS
  <2>3. p.kid # Itself => m[p.top].kind # "file"
    BY <1>2, <1>5, <1>6 DEF TakesFile
  <2>4. /\ e \in Disks
        /\ \A x \in Tops : e[x].temps \subseteq m[x].temps
        /\ \A x \in Tops \ {p.top} : e[x] = m[x]
        /\ p.kid # Itself => \A l \in Slots \ {p.kid} : e[p.top].files[l] = m[p.top].files[l]
    BY <1>5, <2>2, <2>3, WithIs
  <2>5. OthersOnly(t, e)
    BY <1>5, <2>4 DEF OthersOnly
  <2>6. \A b \in work[t].before : e = Requested(work[t], b)
    <3>1. ASSUME NEW b \in work[t].before
          PROVE  e = With(b, p, c)
      <4>1. b \in Disks /\ disk = WithTemporary(t, b, p) /\ \A x \in Tops : t \notin b[x].temps
        BY <1>3, AtIs
      <4>2. m = IF p.kid = Itself THEN b ELSE ParentMade(b, p)
        BY <1>4, <4>1, AtIs, CleanedAgain
      <4>3. ParentMade(ParentMade(b, p), p) = ParentMade(b, p)
        BY <4>1, ParentIs
      <4> QED
        BY <2>2, <4>2, <4>3 DEF With
    <3> QED
      BY <1>2, <2>1, <3>1 DEF Requested
  <2>7. Done(t, e) /\ disk' = e
    BY <1>4, <1>6, <2>1, <2>2 DEF Done, Goes
  <2>8. Keeps(disk, e, {ContentAt(disk, p)})
    <3>1. ASSUME NEW x \in Tops, NEW k \in Slots, disk[x].files[k] # 0,
                 x # p.top \/ k # p.kid
          PROVE  e[x].files[k] = disk[x].files[k]
      <4>1. m[x].files = disk[x].files
        BY <1>5 DEF SameFiles
      <4>2. CASE x # p.top
        BY <2>4, <4>1, <4>2
      <4>3. CASE x = p.top /\ p.kid # Itself
        BY <2>4, <3>1, <4>1, <4>3
      <4>4. ~ (x = p.top /\ p.kid = Itself)
        <5> SUFFICES ASSUME x = p.top, p.kid = Itself PROVE FALSE
          OBVIOUS
        <5>1. disk[x].kind # "tree"
          BY <1>6 DEF TakesFile
        <5>2. k \in Kids
          BY <3>1 DEF Slots
        <5> QED
          BY <3>1, <5>1, <5>2, AtIs, DiskIs DEF NodeOK
      <4> QED
        BY <4>2, <4>3, <4>4
    <3> QED
      BY <1>2, <3>1 DEF Keeps, ContentAt
  <2>9. Keeps(disk, e, doomed')
    BY <1>2, <1>6, <2>8, ReplacesIs
  <2> QED
    BY <1>1, <2>4, <2>5, <2>6, <2>7, <2>9, AtIs, DoneKeeps
<1>7. CASE Failed(t, Cleaned(t))
  <2>1. \A b \in work[t].before : SameFiles(m, b)
    <3>1. \A b \in work[t].before : SameFiles(disk, b)
      BY <1>3, AtIs, TemporaryIs
    <3> QED
      BY <1>5, <3>1 DEF SameFiles
  <2>2. OthersOnly(t, m)
    BY <1>5 DEF OthersOnly
  <2>3. Failed(t, m) /\ disk' = m
    BY <1>4, <1>7 DEF Failed, Goes
  <2> QED
    BY <1>1, <1>5, <2>1, <2>2, <2>3, AtIs, SameKept, FailedKeeps
<1> QED
  BY <1>2, <1>6, <1>7 DEF ReplaceUpload

LEMMA AnswerKeeps ==
  ASSUME FilesInv, NEW t \in Threads, Answer(t)
  PROVE  FilesInv' /\ disk' = disk
<1>1. Goes(t, disk, NoRequest) /\ work[t].pc = "answer" /\ UNCHANGED <<disk, requests>>
  BY DEF Answer, In, Goes, FilesInv
<1>2. Owned(t, disk, NoRequest)
  BY <1>1, StayIs, OwnedIs
<1> QED
  BY <1>1, <1>2, AtIs, NoRequestIs, GoesKeeps DEF FilesInv

LEMMA RequestKilledKeeps ==
  ASSUME FilesInv, ConsoleKilled
  PROVE  FilesInv' /\ Keeps(disk, disk', doomed')
<1>1. disk' = WithoutTemps(Threads)
  <2>1. ASSUME NEW x \in Tops
        PROVE  [disk[x] EXCEPT !.temps = {}] = [disk[x] EXCEPT !.temps = @ \ Threads]
    <3>1. disk[x].temps \ Threads = {}
      BY DiskIs DEF FilesInv
    <3> QED
      BY <3>1
  <2> QED
    BY <2>1 DEF ConsoleKilled, WithoutTemps
<1>2. /\ disk' \in Disks /\ SameFiles(disk', disk)
      /\ \A x \in Tops : disk'[x].temps = disk[x].temps \ Threads
  BY <1>1, CleanedIs DEF FilesInv
<1>3. \A x \in Tops : disk'[x].temps = {}
  BY <1>2, DiskIs DEF FilesInv
<1>4. work' \in [Threads -> Works] /\ \A t \in Threads : work'[t] = NoRequest
  BY NoRequestIs DEF ConsoleKilled
<1>5. \A t \in Threads : Fits(work'[t]) /\ Knows(t, disk', work'[t])
  BY <1>4, NoRequestIs
<1>6. requests' \in Nat
  BY DEF ConsoleKilled, FilesInv
<1>7. FilesInv'
  BY <1>2, <1>3, <1>4, <1>5, <1>6 DEF FilesInv, Fits, Knows, TempsOwned
<1> QED
  BY <1>2, <1>7, SameKept

LEMMA FilesStepKeeps ==
  ASSUME FilesInv, [FilesNext]_fileVars
  PROVE  FilesInv' /\ Keeps(disk, disk', doomed')
<1>0. ASSUME disk' = disk
      PROVE  Keeps(disk, disk', doomed')
  BY <1>0 DEF Keeps
<1>1. CASE \E t \in Threads : Asks(t)
  BY <1>0, <1>1, AsksKeep
<1>2. CASE \E t \in Threads : Mkdir(t) \/ RenameParent(t) \/ RenameMove(t)
  BY <1>2, MkdirKeeps, ParentKeeps, MoveKeeps
<1>3. CASE \E t \in Threads : Stage(t) \/ Remove(t) \/ WriteUpload(t) \/ ReplaceUpload(t)
  BY <1>3, StageKeeps, RemoveKeeps, RequestWriteKeeps, ReplaceKeeps
<1>4. CASE \E t \in Threads : Answer(t)
  BY <1>0, <1>4, AnswerKeeps
<1>5. CASE ConsoleKilled
  BY <1>5, RequestKilledKeeps
<1>6. CASE UNCHANGED fileVars
  <2>1. FilesInv'
    BY <1>6 DEF FilesInv, Fits, Knows, TempsOwned, fileVars
  <2> QED
    BY <1>0, <1>6, <2>1 DEF fileVars
<1> QED
  BY <1>1, <1>2, <1>3, <1>4, <1>5, <1>6 DEF FilesNext, Asks

(* The inductive invariant holds in every reachable state. *)
THEOREM FilesInvariant == FilesSpec => []FilesInv
<1> QED
  BY FilesInitHolds, FilesStepKeeps, PTL DEF FilesSpec

(* rename, delete and upload: what a file holds stays in the workspace     *)
(* until it is deleted or overwritten on purpose, or two requests met.     *)
THEOREM NothingLost == FilesSpec => NothingIsLost
<1>1. ASSUME FilesInv, [FilesNext]_fileVars
      PROVE  [\A c \in Present(disk) : c \in Present(disk') \cup doomed']_fileVars
  BY <1>1, FilesStepKeeps, NothingGone
<1> QED
  BY <1>1, FilesInvariant, PTL DEF FilesSpec, NothingIsLost

(* What the console answers is so, unless somebody else changed the        *)
(* workspace meanwhile.                                                    *)
THEOREM TrueAnswers == FilesSpec => AnswersAreTrue
<1>1. ASSUME FilesInv, NEW t \in Threads, Answer(t), NEW d \in work[t].before
      PROVE  IF work[t].answer = "ok"
               THEN disk = Requested(work[t], d)
               ELSE \/ \A x \in Tops : disk[x].files = d[x].files
                    \/ work[t].op = "delete" /\ work[t].left
  BY <1>1, WorkIs DEF Answer, In, Knows, SameFiles
<1>2. ASSUME FilesInv
      PROVE  [\A t \in Threads :
                Answer(t) =>
                  \A d \in work[t].before :
                    IF work[t].answer = "ok"
                      THEN disk = Requested(work[t], d)
                      ELSE \/ \A x \in Tops : disk[x].files = d[x].files
                           \/ work[t].op = "delete" /\ work[t].left]_fileVars
  BY <1>1, <1>2
<1> QED
  BY <1>2, FilesInvariant, PTL DEF FilesSpec, AnswersAreTrue

-----------------------------------------------------------------------------
(* The console's rate limiter (ConsoleGate).                               *)
(*                                                                         *)
(* The bucket ends with the last entries there were (SameEnd), and one that*)
(* has left it was too old for a later one (Dropped): so of Limit + 1      *)
(* entries none of which was overtaken, the last dropped the first.        *)

W == Half(Window)

Entry == [at : Int, late : BOOLEAN]

GateType ==
  /\ time \in Int
  /\ bucket \in Seq(Int) /\ Len(bucket) <= Limit
  /\ reading \in [Workers -> SUBSET Int]
  /\ told \subseteq [since : Int, wait : Int]
  /\ entries \in Seq(Entry)

(* A request has one reading. *)
OneReading == \A w \in Workers : \A a, b \in reading[w] : a = b

(* The bucket b ends with the last entries es, so many of them as it has *)
(* room for.                                                             *)
EndsWith(b, es) ==
  \A i \in 1 .. Len(es) :
    i > Len(es) - Len(b) => es[i].at = b[i - Len(es) + Len(b)]

(* An entry that is no longer in the bucket was dropped by a later one, and *)
(* all that followed it read later still, unless they were overtaken.       *)
DroppedFrom(b, es) ==
  \A i \in 1 .. Len(es) :
    i <= Len(es) - Len(b) /\ (\A j \in i + 1 .. Len(es) : ~es[j].late)
      => es[i].at < es[Len(es)].at - W

SameEnd == EndsWith(bucket, entries)
Dropped == DroppedFrom(bucket, entries)

NotEmpty == entries # <<>> => bucket # <<>>

(* Once the time to wait has passed, the oldest request is out of the window. *)
ToldEnough ==
  \A r \in told : bucket # <<>> /\ r.since + Half(r.wait + 1) > bucket[1] + W

GateInv == GateType /\ OneReading /\ SameEnd /\ Dropped /\ NotEmpty /\ ToldEnough

LEMMA WindowIs == W \in Nat /\ W = Half(Window) /\ Limit \in Nat \ {0}
  BY GateAssumption DEF W, Half

LEMMA MinIs ==
  ASSUME NEW S \in SUBSET Nat, S # {}
  PROVE  Min(S) \in S /\ \A y \in S : Min(S) <= y
<1>1. PICK x \in S : \A y \in S : <<y, x>> \notin OpToRel(<, Nat)
  BY NatLessThanWellFounded, WFMin
<1>2. \A y \in S : x <= y
  <2> SUFFICES ASSUME NEW y \in S PROVE x <= y
    OBVIOUS
  <2>1. ~(y < x)
    BY <1>1 DEF OpToRel
  <2> QED
    BY <2>1
<1> QED
  BY <1>2 DEF Min

LEMMA MaxIs ==
  ASSUME NEW x \in Int
  PROVE  Max({1, x}) \in Int /\ Max({1, x}) >= x
<1>1. \E m \in {1, x} : \A y \in {1, x} : m >= y
  <2>1. CASE x >= 1
    BY <2>1
  <2>2. CASE ~(x >= 1)
    BY <2>2
  <2> QED
    BY <2>1, <2>2
<1>2. Max({1, x}) \in {1, x} /\ \A y \in {1, x} : Max({1, x}) >= y
  BY <1>1 DEF Max
<1> QED
  BY <1>2

(* Recent() takes away readings from the head of the bucket, and only such *)
(* as are older than the window.                                           *)
WithoutSome(k, now, b) ==
  /\ b \in Seq(Int)
  /\ Len(b) = Len(bucket) - k
  /\ \A i \in 1 .. Len(b) : b[i] = bucket[i + k]
  /\ \A i \in 1 .. k : bucket[i] < now - W
  /\ k = 0 => b = bucket
  /\ k = 0 /\ bucket # <<>> => bucket[1] >= now - W

LEMMA RecentIs ==
  ASSUME GateType, NEW now \in Int
  PROVE  \E k \in 0 .. Len(bucket) : WithoutSome(k, now, Recent(now))
<1>1. PICK young : young = {i \in DOMAIN bucket : bucket[i] >= now - Half(Window)}
  OBVIOUS
<1>2. bucket \in Seq(Int) /\ W \in Nat /\ W = Half(Window)
  BY WindowIs DEF GateType
<1>3. DOMAIN bucket = 1 .. Len(bucket) /\ Len(bucket) \in Nat
  BY <1>2
<1>4. \A i \in 1 .. Len(bucket) : bucket[i] \in Int
  BY <1>2
<1>5. CASE young = {}
  <2>1. Recent(now) = <<>>
    BY <1>1, <1>5 DEF Recent
  <2>2. \A i \in 1 .. Len(bucket) : bucket[i] < now - W
    BY <1>1, <1>2, <1>3, <1>4, <1>5
  <2>3. WithoutSome(Len(bucket), now, <<>>)
    BY <1>2, <1>3, <2>2 DEF WithoutSome
  <2> QED
    BY <1>3, <2>1, <2>3
<1>6. CASE young # {}
  <2>1. young \in SUBSET Nat
    BY <1>1, <1>3
  <2>2. PICK m : m = Min(young)
    OBVIOUS
  <2>3. m \in young /\ \A y \in young : m <= y
    BY <1>6, <2>1, <2>2, MinIs
  <2>4. m \in 1 .. Len(bucket) /\ bucket[m] >= now - W
    BY <1>1, <1>2, <1>3, <2>3
  <2>5. Recent(now) = SubSeq(bucket, m, Len(bucket))
    BY <1>1, <1>6, <2>2 DEF Recent
  <2>6. \A i \in 1 .. m - 1 : bucket[i] < now - W
    BY <1>1, <1>2, <1>3, <1>4, <2>3, <2>4
  <2>7. PICK b : b = SubSeq(bucket, m, Len(bucket))
    OBVIOUS
  <2>8. b \in Seq(Int) /\ Len(b) = Len(bucket) - (m - 1)
    BY <1>2, <1>3, <2>4, <2>7
  <2>9. \A i \in 1 .. Len(b) : b[i] = bucket[i + (m - 1)]
    BY <1>2, <1>3, <2>4, <2>7, <2>8
  <2>10. m - 1 = 0 => b = bucket
    BY <1>2, <1>3, <2>8, <2>9
  <2>11. WithoutSome(m - 1, now, b)
    BY <1>2, <1>3, <2>4, <2>6, <2>8, <2>9, <2>10 DEF WithoutSome
  <2> QED
    BY <1>3, <2>4, <2>5, <2>7, <2>11
<1> QED
  BY <1>5, <1>6

LEMMA GateInitHolds == GateInit => GateInv
<1> SUFFICES ASSUME GateInit PROVE GateInv
  OBVIOUS
<1>1. GateType
  BY WindowIs DEF GateInit, GateType
<1> QED
  BY <1>1 DEF GateInit, GateInv, OneReading, SameEnd, Dropped, EndsWith, DroppedFrom, NotEmpty, ToldEnough

(* Nothing but the readings and the clock. *)
LEMMA GateReadKeeps ==
  ASSUME GateInv, UNCHANGED <<bucket, told, entries>>, time' \in Int,
         reading' \in [Workers -> SUBSET Int], OneReading'
  PROVE  GateInv'
<1>1. GateType'
  BY DEF GateInv, GateType
<1> QED
  BY <1>1 DEF GateInv, SameEnd, Dropped, EndsWith, DroppedFrom, NotEmpty, ToldEnough

LEMMA RequireKeeps ==
  ASSUME GateInv, NEW w \in Workers, RequireRateLimit(w)
  PROVE  GateInv'
<1>1. time' \in Int /\ reading' \in [Workers -> SUBSET Int]
  BY DEF GateInv, GateType, RequireRateLimit
<1>2. OneReading'
  BY DEF GateInv, GateType, OneReading, RequireRateLimit
<1> QED
  BY <1>1, <1>2, GateReadKeeps DEF RequireRateLimit

LEMMA LaterKeeps ==
  ASSUME GateInv, Later
  PROVE  GateInv'
<1>1. time' \in Int /\ reading' \in [Workers -> SUBSET Int] /\ OneReading'
  BY DEF GateInv, GateType, OneReading, Later
<1> QED
  BY <1>1, GateReadKeeps DEF Later

(* What the clock says from now on says nothing of what was let in before. *)
LEMMA ClockSetKeeps ==
  ASSUME GateInv, ClockSet
  PROVE  GateInv'
<1>1. GateType'
  BY GateAssumption DEF GateInv, GateType, ClockSet
<1> QED
  BY <1>1 DEF GateInv, OneReading, SameEnd, Dropped, EndsWith, DroppedFrom, NotEmpty, ToldEnough, ClockSet

-----------------------------------------------------------------------------
(* A refused request leaves the bucket as it is: it never holds more than  *)
(* Limit readings, so that a full one has lost none.                       *)
LEMMA RefusedIs ==
  ASSUME GateType, NEW now \in Int, Full(Recent(now))
  PROVE  Recent(now) = bucket /\ bucket # <<>> /\ bucket[1] >= now - W
<1>1. PICK k \in 0 .. Len(bucket) : WithoutSome(k, now, Recent(now))
  BY RecentIs
<1>2. PICK b : b = Recent(now)
  OBVIOUS
<1>3. Len(b) = Len(bucket) - k /\ Len(b) >= Limit /\ Len(bucket) <= Limit /\ Len(bucket) \in Nat
  BY <1>1, <1>2 DEF WithoutSome, Full, GateType
<1>4. k = 0 /\ Len(bucket) >= 1
  BY <1>3, WindowIs
<1>5. bucket # <<>>
  BY <1>4
<1> QED
  BY <1>1, <1>2, <1>4, <1>5 DEF WithoutSome

LEMMA RetryIs ==
  ASSUME NEW b \in Seq(Int), b # <<>>, NEW now \in Int
  PROVE  /\ RetryAfter(b, now) \in Int
         /\ now + Half(RetryAfter(b, now) + 1) > b[1] + W
<1>1. PICK first \in Int : first = b[1]
  OBVIOUS
<1>2. PICK v \in Nat : v = W
  BY WindowIs
<1>3. PICK x \in Int : x = first + v - now
  OBVIOUS
<1>4. PICK y \in Int : y = x \div 2 /\ 2 * y >= x - 1
  OBVIOUS
<1>5. PICK r : r = RetryAfter(b, now)
  OBVIOUS
<1>6. r \in Int /\ r >= y
  BY <1>1, <1>2, <1>3, <1>4, <1>5, MaxIs, WindowIs DEF RetryAfter
<1>7. 2 * y >= x - 1
  BY <1>4
<1>8. now + 2 * (r + 1) > first + v
  BY <1>3, <1>6, <1>7
<1> QED
  BY <1>1, <1>2, <1>5, <1>6, <1>8 DEF Half

LEMMA RefuseKeeps ==
  ASSUME GateInv, NEW w \in Workers, Allow(w),
         NEW now \in reading[w], Full(Recent(now))
  PROVE  GateInv' /\ bucket' = bucket
<1>1. now \in Int /\ \A n \in reading[w] : n = now
  BY DEF GateInv, GateType, OneReading
<1>2. /\ bucket' = Recent(now)
      /\ told' \in {told, {[since |-> now, wait |-> RetryAfter(Recent(now), now)]}}
      /\ entries' = entries
  BY <1>1 DEF Allow
<1>3. Recent(now) = bucket /\ bucket # <<>>
  BY <1>1, RefusedIs DEF GateInv
<1>4. bucket' = bucket
  BY <1>2, <1>3
<1>5. told' \in {told, {[since |-> now, wait |-> RetryAfter(bucket, now)]}}
  BY <1>2, <1>3
<1>6. /\ RetryAfter(bucket, now) \in Int
      /\ now + Half(RetryAfter(bucket, now) + 1) > bucket[1] + W
  BY <1>1, <1>3, RetryIs DEF GateInv, GateType
<1>7. ToldEnough'
  <2> SUFFICES ASSUME NEW r \in told'
               PROVE  bucket' # <<>> /\ r.since + Half(r.wait + 1) > bucket'[1] + W
    BY DEF ToldEnough
  <2>1. CASE r \in told
    BY <1>3, <1>4, <2>1 DEF GateInv, ToldEnough
  <2>2. CASE r = [since |-> now, wait |-> RetryAfter(bucket, now)]
    BY <1>3, <1>4, <1>6, <2>2
  <2> QED
    BY <1>5, <2>1, <2>2
<1>8. told' \subseteq [since : Int, wait : Int]
  BY <1>1, <1>5, <1>6 DEF GateInv, GateType
<1>9. reading' = [reading EXCEPT ![w] = {}] /\ time' = time
  BY DEF Allow
<1>10. GateType'
  BY <1>2, <1>4, <1>8, <1>9 DEF GateInv, GateType
<1>11. OneReading'
  BY <1>9 DEF GateInv, GateType, OneReading
<1>12. SameEnd' /\ Dropped' /\ NotEmpty'
  BY <1>2, <1>4 DEF GateInv, SameEnd, Dropped, EndsWith, DroppedFrom, NotEmpty
<1> QED
  BY <1>4, <1>7, <1>10, <1>11, <1>12 DEF GateInv

-----------------------------------------------------------------------------
(* A request that is let in.                                               *)

AllEntries(now) == Append(entries, [at |-> now, late |-> Overtaken(now)])

LEMMA AllEntriesAre ==
  ASSUME GateType, NEW now \in Int
  PROVE  /\ AllEntries(now) \in Seq(Entry)
         /\ Len(AllEntries(now)) = Len(entries) + 1
         /\ \A i \in 1 .. Len(entries) : AllEntries(now)[i] = entries[i]
         /\ AllEntries(now)[Len(entries) + 1] = [at |-> now, late |-> Overtaken(now)]
<1>1. [at |-> now, late |-> Overtaken(now)] \in Entry
  BY DEF Entry, Overtaken
<1>2. entries \in Seq(Entry)
  BY DEF GateType
<1> QED
  BY <1>1, <1>2 DEF AllEntries

(* LastOf() takes away the head, or nothing. *)
LEMMA LastOfIs ==
  ASSUME NEW s \in Seq(Entry)
  PROVE  /\ LastOf(s) \in Seq(Entry)
         /\ Len(LastOf(s)) <= Len(s)
         /\ Len(s) > 0 => Len(LastOf(s)) > 0
         /\ \A i \in 1 .. Len(LastOf(s)) : LastOf(s)[i] = s[i + (Len(s) - Len(LastOf(s)))]
<1>1. CASE Len(s) > Limit + 1
  <2>1. LastOf(s) = Tail(s) /\ s # <<>> /\ Len(s) > 1
    BY <1>1, WindowIs DEF LastOf
  <2>2. PICK u : u = Tail(s)
    OBVIOUS
  <2>3. u \in Seq(Entry) /\ Len(u) = Len(s) - 1 /\ \A i \in 1 .. Len(u) : u[i] = s[i + 1]
    BY <2>1, <2>2
  <2>4. Len(s) - Len(u) = 1
    BY <2>3
  <2> QED
    BY <2>1, <2>2, <2>3, <2>4
<1>2. CASE ~(Len(s) > Limit + 1)
  <2>1. LastOf(s) = s
    BY <1>2 DEF LastOf
  <2> QED
    BY <2>1
<1> QED
  BY <1>1, <1>2

LEMMA ShorterHolds ==
  ASSUME NEW b \in Seq(Int), NEW s \in Seq(Entry), NEW u \in Seq(Entry),
         Len(u) <= Len(s), Len(s) > 0 => Len(u) > 0,
         \A i \in 1 .. Len(u) : u[i] = s[i + (Len(s) - Len(u))],
         EndsWith(b, s), DroppedFrom(b, s)
  PROVE  EndsWith(b, u) /\ DroppedFrom(b, u)
<1>0. Len(s) \in Nat /\ Len(u) \in Nat /\ Len(s) - Len(u) \in Nat
  OBVIOUS
<1>1. PICK d \in Nat : d = Len(s) - Len(u)
  BY <1>0
<1>2. PICK n \in Nat, m \in Nat : n = Len(u) /\ m = Len(b)
  OBVIOUS
<1>3. Len(s) = n + d /\ \A i \in 1 .. n : u[i] = s[i + d]
  BY <1>1, <1>2
<1>4. EndsWith(b, u)
  <2> SUFFICES ASSUME NEW i \in 1 .. n, i > n - m PROVE u[i].at = b[i - n + m]
    BY <1>2 DEF EndsWith
  <2>1. i + d \in 1 .. n + d /\ i + d > (n + d) - m
    BY <1>1
  <2>2. s[i + d].at = b[(i + d) - (n + d) + m]
    BY <1>2, <1>3, <2>1 DEF EndsWith
  <2>3. (i + d) - (n + d) + m = i - n + m
    BY <1>1, <1>2
  <2> QED
    BY <1>3, <2>2, <2>3
<1>5. DroppedFrom(b, u)
  <2> SUFFICES ASSUME NEW i \in 1 .. n, i <= n - m, \A j \in i + 1 .. n : ~u[j].late
               PROVE  u[i].at < u[n].at - W
    BY <1>2 DEF DroppedFrom
  <2>1. i + d \in 1 .. n + d /\ i + d <= (n + d) - m /\ n \in 1 .. n
    BY <1>1, <1>2
  <2>2. ASSUME NEW j \in (i + d) + 1 .. n + d
        PROVE  ~s[j].late
    <3>1. j - d \in i + 1 .. n /\ (j - d) + d = j /\ j - d \in 1 .. n
      BY <1>1, <1>2
    <3> QED
      BY <1>3, <3>1
  <2>3. s[i + d].at < s[n + d].at - W
    BY <1>2, <1>3, <2>1, <2>2 DEF DroppedFrom
  <2> QED
    BY <1>3, <2>1, <2>3
<1> QED
  BY <1>4, <1>5

LEMMA AdmittedIs ==
  ASSUME GateInv, NEW now \in Int, ~Full(Recent(now))
  PROVE  /\ Append(Recent(now), now) \in Seq(Int)
         /\ Len(Append(Recent(now), now)) \in 1 .. Limit
         /\ EndsWith(Append(Recent(now), now), AllEntries(now))
         /\ DroppedFrom(Append(Recent(now), now), AllEntries(now))
<1>0. GateType /\ EndsWith(bucket, entries) /\ DroppedFrom(bucket, entries) /\ NotEmpty
  BY DEF GateInv, SameEnd, Dropped
<1>1. PICK k \in 0 .. Len(bucket) : WithoutSome(k, now, Recent(now))
  BY <1>0, RecentIs
<1>2. PICK r : r = Recent(now)
  OBVIOUS
<1>3. PICK n \in Nat, m \in Nat : n = Len(entries) /\ m = Len(bucket)
  BY <1>0 DEF GateType
<1>4. /\ r \in Seq(Int) /\ Len(r) = m - k
      /\ \A i \in 1 .. m - k : r[i] = bucket[i + k]
      /\ \A i \in 1 .. k : bucket[i] < now - W
      /\ k \in 0 .. m
  BY <1>1, <1>2, <1>3 DEF WithoutSome
<1>5. m - k < Limit
  BY <1>2, <1>4, WindowIs DEF Full
<1>6. PICK b : b = Append(r, now)
  OBVIOUS
<1>7. /\ b \in Seq(Int) /\ Len(b) = m - k + 1
      /\ \A i \in 1 .. m - k : b[i] = bucket[i + k]
      /\ b[m - k + 1] = now
  <2>1. b \in Seq(Int) /\ Len(b) = Len(r) + 1 /\ b[Len(r) + 1] = now
    BY <1>4, <1>6
  <2>2. \A i \in 1 .. Len(r) : b[i] = r[i]
    BY <1>4, <1>6
  <2> QED
    BY <1>4, <2>1, <2>2
<1>8. Len(b) \in 1 .. Limit
  BY <1>3, <1>4, <1>5, <1>7, WindowIs
<1>9. PICK s : s = AllEntries(now)
  OBVIOUS
<1>10. /\ s \in Seq(Entry) /\ Len(s) = n + 1
       /\ \A i \in 1 .. n : s[i] = entries[i]
       /\ s[n + 1].at = now /\ s[n + 1].late = Overtaken(now)
  <2>1. /\ s \in Seq(Entry) /\ Len(s) = Len(entries) + 1
        /\ \A i \in 1 .. Len(entries) : s[i] = entries[i]
        /\ s[Len(entries) + 1] = [at |-> now, late |-> Overtaken(now)]
    BY <1>0, <1>9, AllEntriesAre
  <2>2. s[n + 1] = [at |-> now, late |-> Overtaken(now)]
    BY <1>3, <2>1
  <2>3. s[n + 1].at = now /\ s[n + 1].late = Overtaken(now)
    BY <2>2
  <2> QED
    BY <1>3, <2>1, <2>3
<1>11. EndsWith(b, s)
  <2> SUFFICES ASSUME NEW i \in 1 .. n + 1, i > (n + 1) - (m - k + 1)
               PROVE  s[i].at = b[i - (n + 1) + (m - k + 1)]
    BY <1>7, <1>10 DEF EndsWith
  <2>1. i - (n + 1) + (m - k + 1) = i - n + m - k
    BY <1>3, <1>4
  <2>2. CASE i = n + 1
    <3>1. i - n + m - k = m - k + 1
      BY <1>3, <1>4, <2>2
    <3> QED
      BY <1>7, <1>10, <2>1, <2>2, <3>1
  <2>3. CASE i \in 1 .. n
    <3>1. i > n - m /\ i - n + m - k \in 1 .. m - k
      BY <1>3, <1>4, <2>3
    <3>2. (i - n + m - k) + k = i - n + m
      BY <1>3, <1>4
    <3>3. entries[i].at = bucket[i - n + m]
      BY <1>0, <1>3, <2>3, <3>1 DEF EndsWith
    <3> QED
      BY <1>7, <1>10, <2>1, <2>3, <3>1, <3>2, <3>3
  <2> QED
    BY <1>3, <2>2, <2>3
<1>12. DroppedFrom(b, s)
  <2> SUFFICES ASSUME NEW i \in 1 .. n + 1, i <= (n + 1) - (m - k + 1),
                      \A j \in i + 1 .. n + 1 : ~s[j].late
               PROVE  s[i].at < s[n + 1].at - W
    BY <1>7, <1>10 DEF DroppedFrom
  <2>1. i \in 1 .. n /\ i <= n - m + k
    BY <1>3, <1>4
  <2>2. n + 1 \in i + 1 .. n + 1
    BY <1>3
  <2>3. ~Overtaken(now)
    BY <1>10, <2>2
  <2>4. m > 0 /\ now \in Int /\ DOMAIN bucket = 1 .. m
    BY <1>0, <1>3, <2>1 DEF NotEmpty, GateType
  <2>5. bucket \in Seq(Int) /\ \A p \in 1 .. m : bucket[p] \in Int /\ bucket[p] <= now
    <3>1. bucket \in Seq(Int)
      BY <1>0 DEF GateType
    <3>2. \A p \in 1 .. m : bucket[p] \in Int
      BY <1>3, <3>1
    <3>3. \A p \in 1 .. m : ~(bucket[p] > now)
      BY <2>3, <2>4 DEF Overtaken
    <3> QED
      BY <2>4, <3>1, <3>2, <3>3
  <2>6. CASE i <= n - m
    <3>1. \A j \in i + 1 .. n : ~entries[j].late
      BY <1>3, <1>10
    <3>2. entries[i].at < entries[n].at - W
      BY <1>0, <1>3, <2>1, <2>6, <3>1 DEF DroppedFrom
    <3>3. entries[n].at = bucket[m]
      <4>1. n \in 1 .. n /\ n > n - m /\ n - n + m = m
        BY <1>3, <2>1, <2>4
      <4> QED
        BY <1>0, <1>3, <4>1 DEF EndsWith
    <3>4. entries[i].at \in Int /\ bucket[m] \in Int /\ bucket[m] <= now
      <4>1. entries \in Seq(Entry)
        BY <1>0 DEF GateType
      <4>2. entries[i] \in Entry
        BY <1>3, <2>1, <4>1
      <4>3. m \in 1 .. m
        BY <1>3, <2>4
      <4> QED
        BY <2>5, <4>2, <4>3 DEF Entry
    <3>5. entries[i].at < now - W
      BY <3>2, <3>3, <3>4, WindowIs
    <3> QED
      BY <1>10, <2>1, <3>5
  <2>7. CASE i > n - m
    <3>1. i - n + m \in 1 .. k
      BY <1>3, <1>4, <2>1, <2>7
    <3>2. entries[i].at = bucket[i - n + m]
      BY <1>0, <1>3, <2>1, <2>7 DEF EndsWith
    <3> QED
      BY <1>4, <1>10, <2>1, <3>1, <3>2
  <2> QED
    BY <1>3, <2>1, <2>6, <2>7
<1> QED
  BY <1>2, <1>6, <1>7, <1>8, <1>9, <1>11, <1>12

LEMMA AdmitKeeps ==
  ASSUME GateInv, NEW w \in Workers, Allow(w),
         NEW now \in reading[w], ~Full(Recent(now))
  PROVE  /\ GateInv' /\ WindowHolds'
         /\ bucket' # <<>> /\ bucket'[Len(bucket')] = now
<1>1. now \in Int /\ \A n \in reading[w] : n = now
  BY DEF GateInv, GateType, OneReading
<1>2. PICK b : b = Append(Recent(now), now)
  OBVIOUS
<1>3. PICK s : s = AllEntries(now)
  OBVIOUS
<1>4. /\ bucket' = b /\ entries' = LastOf(s) /\ told' = {}
      /\ reading' = [reading EXCEPT ![w] = {}] /\ time' = time
  BY <1>1, <1>2, <1>3 DEF Allow, AllEntries
<1>5. b \in Seq(Int) /\ Len(b) \in 1 .. Limit /\ EndsWith(b, s) /\ DroppedFrom(b, s)
  BY <1>1, <1>2, <1>3, AdmittedIs
<1>6. s \in Seq(Entry) /\ Len(s) = Len(entries) + 1
  BY <1>1, <1>3, AllEntriesAre DEF GateInv
<1>7. PICK u : u = LastOf(s)
  OBVIOUS
<1>8. /\ u \in Seq(Entry) /\ Len(u) <= Len(s)
      /\ Len(s) > 0 => Len(u) > 0
      /\ \A i \in 1 .. Len(u) : u[i] = s[i + (Len(s) - Len(u))]
  BY <1>6, <1>7, LastOfIs
<1>9. EndsWith(b, u) /\ DroppedFrom(b, u)
  BY <1>5, <1>6, <1>8, ShorterHolds
<1>10. b # <<>> /\ Len(b) <= Limit
  BY <1>5
<1>11. GateType'
  BY <1>4, <1>5, <1>7, <1>8, <1>10 DEF GateInv, GateType
<1>12. OneReading'
  BY <1>4 DEF GateInv, GateType, OneReading
<1>13. GateInv'
  BY <1>4, <1>7, <1>9, <1>10, <1>11, <1>12
  DEF GateInv, SameEnd, Dropped, NotEmpty, ToldEnough
<1>14. WindowHolds'
  <2> SUFFICES ASSUME Len(u) = Limit + 1, \A i \in DOMAIN u : ~u[i].late
               PROVE  u[Limit + 1].at - u[1].at > W
    BY <1>4, <1>7 DEF WindowHolds, W
  <2>1. 1 \in 1 .. Len(u) /\ 1 <= Len(u) - Len(b) /\ Limit + 1 \in 1 .. Len(u)
    BY <1>5, WindowIs
  <2>2. \A j \in 1 + 1 .. Len(u) : ~u[j].late
    BY <1>8
  <2>3. u[1].at < u[Len(u)].at - W
    BY <1>9, <2>1, <2>2 DEF DroppedFrom
  <2>4. u[1].at \in Int /\ u[Limit + 1].at \in Int
    <3>1. u[1] \in Entry /\ u[Limit + 1] \in Entry
      BY <1>8, <2>1
    <3> QED
      BY <3>1 DEF Entry
  <2> QED
    BY <2>3, <2>4, WindowIs
<1>15. Recent(now) \in Seq(Int)
  BY <1>1, RecentIs DEF GateInv, WithoutSome
<1>16. b[Len(b)] = now
  BY <1>1, <1>2, <1>15
<1> QED
  BY <1>4, <1>10, <1>13, <1>14, <1>16

LEMMA WindowFromEntries ==
  ASSUME WindowHolds, entries' = entries \/ entries' = <<>>
  PROVE  WindowHolds'
<1>1. CASE entries' = entries
  BY <1>1 DEF WindowHolds
<1>2. CASE entries' = <<>>
  BY <1>2, WindowIs DEF WindowHolds
<1> QED
  BY <1>1, <1>2

LEMMA GateStepKeeps ==
  GateInv /\ WindowHolds /\ [GateNext]_gateVars => GateInv' /\ WindowHolds'
<1> SUFFICES ASSUME GateInv, WindowHolds, [GateNext]_gateVars
             PROVE  GateInv' /\ WindowHolds'
  OBVIOUS
<1>1. ASSUME NEW w \in Workers, RequireRateLimit(w)
      PROVE  GateInv' /\ WindowHolds'
  BY <1>1, RequireKeeps, WindowFromEntries DEF RequireRateLimit
<1>2. ASSUME NEW w \in Workers, Allow(w)
      PROVE  GateInv' /\ WindowHolds'
  <2>1. PICK now \in reading[w] :
          Full(Recent(now)) => entries' = entries
    BY <1>2 DEF Allow
  <2>2. CASE Full(Recent(now))
    BY <1>2, <2>1, <2>2, RefuseKeeps, WindowFromEntries
  <2>3. CASE ~Full(Recent(now))
    BY <1>2, <2>3, AdmitKeeps
  <2> QED
    BY <2>2, <2>3
<1>3. CASE Later
  BY <1>3, LaterKeeps, WindowFromEntries DEF Later
<1>4. CASE ClockSet
  BY <1>4, ClockSetKeeps, WindowFromEntries DEF ClockSet
<1>5. CASE UNCHANGED gateVars
  <2>1. time' \in Int /\ reading' \in [Workers -> SUBSET Int] /\ OneReading'
    BY <1>5 DEF gateVars, GateInv, GateType, OneReading
  <2> QED
    BY <1>5, <2>1, GateReadKeeps, WindowFromEntries DEF gateVars
<1> QED
  BY <1>1, <1>2, <1>3, <1>4, <1>5 DEF GateNext

LEMMA GateInvariant == GateSpec => [](GateInv /\ WindowHolds)
<1>1. GateInit => WindowHolds
  BY WindowIs DEF GateInit, WindowHolds
<1> QED
  BY <1>1, GateInitHolds, GateStepKeeps, PTL DEF GateSpec

(* No window of RateLimiter holds more requests than the limit, whatever   *)
(* the number of threads, the limit, the window and the clock's jumps.     *)
THEOREM WindowsHold == GateSpec => []WindowHolds
  BY GateInvariant, PTL

WaitsEnough ==
  \A w \in Workers : \A r \in told, now \in reading[w] :
    reading'[w] = {} /\ now >= r.since + Half(r.wait + 1)
      => bucket' # <<>> /\ bucket'[Len(bucket')] = now

LEMMA StepWaits == GateInv /\ [GateNext]_gateVars => WaitsEnough
<1> SUFFICES ASSUME GateInv, [GateNext]_gateVars,
                    NEW w \in Workers, NEW r \in told, NEW now \in reading[w],
                    reading'[w] = {}, now >= r.since + Half(r.wait + 1)
             PROVE  bucket' # <<>> /\ bucket'[Len(bucket')] = now
  BY DEF WaitsEnough
<1>1. Allow(w)
  <2>1. reading[w] # {} /\ reading' # reading
    OBVIOUS
  <2>2. ASSUME NEW v \in Workers, RequireRateLimit(v) PROVE FALSE
    BY <2>1, <2>2 DEF RequireRateLimit, GateInv, GateType
  <2>3. ASSUME NEW v \in Workers, Allow(v) PROVE v = w
    BY <2>1, <2>3 DEF Allow, GateInv, GateType
  <2> QED
    BY <2>1, <2>2, <2>3 DEF GateNext, Later, ClockSet, gateVars
<1>2. now \in Int /\ r \in [since : Int, wait : Int]
  BY DEF GateInv, GateType
<1>3. bucket # <<>> /\ r.since + Half(r.wait + 1) > bucket[1] + W
  BY DEF GateInv, ToldEnough
<1>4. bucket[1] \in Int /\ GateType
  BY <1>3 DEF GateInv, GateType
<1>5. bucket[1] < now - W
  BY <1>2, <1>3, <1>4, WindowIs DEF Half
<1>6. ~Full(Recent(now))
  BY <1>2, <1>4, <1>5, RefusedIs, WindowIs
<1> QED
  BY <1>1, <1>6, AdmitKeeps

(* A client of the console that waits one second longer than RateLimiter   *)
(* told it, and had no other request let in, is let in.                    *)
THEOREM WaitsAreEnough == GateSpec => WaitIsEnough
<1>1. GateInv /\ [GateNext]_gateVars => [WaitsEnough]_gateVars
  BY StepWaits
<1> QED
  BY <1>1, GateInvariant, PTL DEF GateSpec, WaitIsEnough, WaitsEnough
=============================================================================
