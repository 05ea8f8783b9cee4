--------------------------- MODULE MiniPcTransfer ---------------------------
(***************************************************************************)
(* scripts/mini_pc_transfer_control.py: files of the folder of completed   *)
(* downloads are sent to the mini PC by scp, one thread per job; what a    *)
(* job has verified, or what the mini PC shows with the same size, may     *)
(* then be deleted here.  Every HTTP request has a thread of its own, and  *)
(* nothing but the table of jobs is locked.                                *)
(*                                                                         *)
(* A path is a folder of the completed downloads, or a file, which is a    *)
(* folder with one member.  On the mini PC it is stored under its last     *)
(* name.  One host is given: the job reads its destination once.           *)
(***************************************************************************)
EXTENDS Naturals, FiniteSets, Functions

CONSTANTS
  None,
  Paths,        \* what can be selected
  Members,      \* names of the files in a folder
  Names,        \* last names of paths
  NameOf,       \* [Paths -> Names]
  Contents,     \* what a file may hold
  Downloaded,   \* the completed downloads at the start
  Size,         \* [Contents -> positive numbers]
  Dests,        \* destination folders on the mini PC
  DefaultDest,  \* DEFAULT_CONFIG["destination"]
  Jobs, Requests,
  MaxEvents     \* bound: what others do, and failing calls

ASSUME MiniPcAssumption ==
  /\ NameOf \in [Paths -> Names]
  /\ Size \in [Contents -> Nat \ {0}]
  /\ Downloaded \in [Paths -> [Members -> Contents \cup {None}]]
  /\ DefaultDest \in Dests
  /\ None \notin Contents \cup Paths \cup Members
  /\ "part" \notin Contents
  /\ MaxEvents \in Nat

VARIABLES
  local,    \* [Paths -> [Members -> Contents or None]]
  remote,   \* [Dests -> [Names -> [Members -> Contents, "part" or None]]]
  config,   \* the destination in the file, or None while it is rewritten
  job,      \* JOBS, and where the thread of each job is
  request,  \* the handlers that delete
  events,
  doubt     \* history: paths whose copy on the mini PC others may have changed

miniPcVars == <<local, remote, config, job, request, events, doubt>>

NoJob == [pc |-> "none", paths |-> {}, dest |-> None, todo |-> {}, file |-> None,
          size |-> 0, sends |-> None, status |-> "none", verified |-> FALSE, deleted |-> FALSE]

Free == [pc |-> "free", kind |-> "none", job |-> None, dest |-> None, todo |-> {},
         path |-> None]

MiniPcInit ==
  /\ local = Downloaded
  /\ remote = [d \in Dests |-> [n \in Names |-> [m \in Members |-> None]]]
  /\ config \in Dests
  /\ job = [j \in Jobs |-> NoJob]
  /\ request = [r \in Requests |-> Free]
  /\ events = 0
  /\ doubt = {}

(* A copy that was cut short is shorter than any file; by how much is left *)
(* out.                                                                    *)
SizeOf(c)     == IF c \in Contents THEN Size[c] ELSE 0
FolderSize(f) == SumFunction([m \in Members |-> SizeOf(f[m])])
Present(f)    == \E m \in Members : f[m] # None
Exists(p)     == Present(local[p])
Copy(d, p)    == remote[d][NameOf[p]]

(* The rows of iter_source_files(). *)
SourceFiles(ps) == {f \in ps \X Members : local[f[1]][f[2]] # None}

Event == events < MaxEvents /\ events' = events + 1

(* load_config(): a file that is being rewritten, or was left so, does not *)
(* parse, and the defaults are taken without a word.                       *)
LoadConfig == IF config = None THEN DefaultDest ELSE config

(* remote_size_bytes() raises for a folder that is not there. *)
SameSize(d, p) == /\ Exists(p)
                  /\ Present(Copy(d, p))
                  /\ FolderSize(local[p]) = FolderSize(Copy(d, p))

(* History: the sizes of these paths were compared.  Equal sizes that hide *)
(* another content, or a copy that another job is sending right now, leave *)
(* a doubt.                                                                *)
Confirm(d, ps) ==
  doubt' = (doubt \ ps) \cup
    {p \in ps : \/ SameSize(d, p) /\ Copy(d, p) # local[p]
               \/ \E k \in Jobs : /\ job[k].pc = "copying"
                                  /\ NameOf[job[k].file[1]] = NameOf[p]}

-----------------------------------------------------------------------------
(* start_transfer() and run_job()                                          *)

(* The record of an older job that ended stands for the one of a new id.   *)
StartTransfer(j, ps) ==
  /\ job[j].status # "running"
  /\ \A r \in Requests : request[r].job # j
  /\ ps # {}
  /\ job' = [job EXCEPT ![j] = [NoJob EXCEPT !.pc = "scan", !.paths = ps,
                                             !.status = "running"]]
  /\ UNCHANGED <<local, remote, config, request, events, doubt>>

Ended(j, status) == [NoJob EXCEPT !.pc = "ended", !.paths = job[j].paths,
                                  !.status = status, !.verified = status = "completed"]

(* An exception anywhere in the transfer ends the job. *)
Fails(j) == job' = [job EXCEPT ![j] = Ended(j, "failed")]

At(j, place) == job[j].pc = place

(* transfer_with_resume(): the sources are listed once. *)
Scan(j) ==
  /\ At(j, "scan")
  /\ IF \A p \in job[j].paths : Exists(p)
     THEN job' = [job EXCEPT ![j].pc = "look", ![j].dest = LoadConfig,
                             ![j].todo = SourceFiles(job[j].paths)]
     ELSE Fails(j)
  /\ UNCHANGED <<local, remote, config, request, events, doubt>>

(* Mutant of Skips: what is there is not sent again. *)
SkipsAny(existing, size) == existing # None

Skips(existing, size) == existing # None /\ SizeOf(existing) = size

(* A question that ssh does not answer counts as "not there". *)
Look(j, f) ==
  LET p == f[1]
      m == f[2]
      Existing == Copy(job[j].dest, p)[m]
  IN
  /\ At(j, "look")
  /\ f \in job[j].todo
  /\ IF local[p][m] = None THEN Fails(j) /\ UNCHANGED events
     ELSE \/ /\ Skips(Existing, SizeOf(local[p][m]))
             /\ job' = [job EXCEPT ![j].todo = @ \ {f}]
             /\ UNCHANGED events
          \/ /\ (~Skips(Existing, SizeOf(local[p][m])) /\ UNCHANGED events) \/ Event
             /\ job' = [job EXCEPT ![j].pc = "copy", ![j].file = f,
                                   ![j].size = SizeOf(local[p][m])]
  /\ UNCHANGED <<local, remote, config, request, doubt>>

Slot(j)   == <<job[j].dest, NameOf[job[j].file[1]], job[j].file[2]>>
Put(s, c) == remote' = [remote EXCEPT ![s[1]][s[2]][s[3]] = c]

(* scp opens the source and truncates the copy.  One that is sent over a   *)
(* whole file, or while another job is sending it, is in doubt.            *)
CopyBegins(j) ==
  LET p == job[j].file[1]
      m == job[j].file[2]
      Old == Copy(job[j].dest, p)[m]
  IN
  /\ At(j, "copy")
  /\ IF local[p][m] = None THEN Fails(j) /\ UNCHANGED <<remote, doubt>>
     ELSE /\ job' = [job EXCEPT ![j].pc = "copying", ![j].sends = local[p][m]]
          /\ Put(Slot(j), "part")
          /\ doubt' = IF \/ Old \in Contents
                         \/ \E k \in Jobs \ {j} : At(k, "copying") /\ Slot(k) = Slot(j)
                      THEN doubt \cup {q \in Paths : NameOf[q] = NameOf[p]}
                      ELSE doubt
  /\ UNCHANGED <<local, config, request, events>>

CopyEnds(j) ==
  /\ At(j, "copying")
  /\ Put(Slot(j), job[j].sends)
  /\ job' = [job EXCEPT ![j].pc = "check", ![j].sends = None]
  /\ UNCHANGED <<local, config, request, events, doubt>>

(* scp or the making of the folder fails. *)
CopyFails(j) ==
  /\ job[j].pc \in {"copy", "copying"}
  /\ Event
  /\ Fails(j)
  /\ UNCHANGED <<local, remote, config, request, doubt>>

(* The size is compared with that of the look before the copy. *)
Check(j) ==
  LET s    == Slot(j)
      Same == SizeOf(remote[s[1]][s[2]][s[3]]) = job[j].size
  IN
  /\ At(j, "check")
  /\ \/ /\ Same
        /\ job' = [job EXCEPT ![j].pc = "look", ![j].todo = @ \ {job[j].file},
                              ![j].file = None, ![j].size = 0]
        /\ UNCHANGED events
     \/ /\ (~Same /\ UNCHANGED events) \/ Event
        /\ Fails(j)
  /\ UNCHANGED <<local, remote, config, request, doubt>>

-----------------------------------------------------------------------------
(* verify_remote_transfer()                                                *)

(* Mutant of Verified: any copy of the name will do. *)
VerifiedIfThere(d, ps) == \A p \in ps : Exists(p) /\ Present(Copy(d, p))

Verified(d, ps) == \A p \in ps : SameSize(d, p)

(* The destination is read again. *)
Verify(j) ==
  /\ At(j, "look")
  /\ job[j].todo = {}
  /\ \/ /\ Verified(LoadConfig, job[j].paths)
        /\ job' = [job EXCEPT ![j] = Ended(j, "completed")]
        /\ Confirm(LoadConfig, job[j].paths)
        /\ UNCHANGED events
     \/ /\ (~Verified(LoadConfig, job[j].paths) /\ UNCHANGED events) \/ Event
        /\ job' = [job EXCEPT ![j] = Ended(j, "verify_failed")]
        /\ UNCHANGED doubt
  /\ UNCHANGED <<local, remote, config, request>>

-----------------------------------------------------------------------------
(* delete_after_verify() and delete_exported_paths()                       *)

MayDelete(j) ==
  ~job[j].deleted /\ job[j].status = "completed" /\ job[j].verified

DeleteAfterVerify(r, j) ==
  /\ request[r].pc = "free"
  /\ MayDelete(j)
  /\ request' = [request EXCEPT ![r] =
                   [Free EXCEPT !.pc = "next", !.kind = "verified", !.job = j,
                                !.todo = job[j].paths]]
  /\ UNCHANGED <<local, remote, config, job, events, doubt>>

DeleteExported(r, ps) ==
  /\ request[r].pc = "free"
  /\ ps # {}
  /\ request' = [request EXCEPT ![r] =
                   [Free EXCEPT !.pc = "next", !.kind = "exported",
                                !.dest = LoadConfig, !.todo = ps]]
  /\ UNCHANGED <<local, remote, config, job, events, doubt>>

Ends(r) == request' = [request EXCEPT ![r] = Free]

AllowsDelete(kind, p, d) == kind = "verified" \/ SameSize(d, p)

(* Path by path.  A source that is missing, or a size that differs, ends   *)
(* the request and leaves what was deleted before.                         *)
DeleteNext(r, p) ==
  /\ request[r].pc = "next"
  /\ p \in request[r].todo
  /\ IF Exists(p) /\ AllowsDelete(request[r].kind, p, request[r].dest)
     THEN /\ request' = [request EXCEPT ![r].pc = "remove", ![r].path = p,
                                        ![r].todo = @ \ {p}]
          /\ IF request[r].kind = "exported" THEN Confirm(request[r].dest, {p})
             ELSE UNCHANGED doubt
     ELSE Ends(r) /\ UNCHANGED doubt
  /\ UNCHANGED <<local, remote, config, job, events>>

(* unlink() or rmtree(), file by file. *)
Remove(r, m) ==
  LET p == request[r].path IN
  /\ request[r].pc = "remove"
  /\ local[p][m] # None
  /\ local' = [local EXCEPT ![p][m] = None]
  /\ UNCHANGED <<remote, config, job, request, events, doubt>>

Removed(r) ==
  /\ request[r].pc = "remove"
  /\ ~Exists(request[r].path)
  /\ request' = [request EXCEPT ![r].pc = "next", ![r].path = None]
  /\ UNCHANGED <<local, remote, config, job, events, doubt>>

Deleted(r) ==
  /\ request[r].pc = "next"
  /\ request[r].todo = {}
  /\ Ends(r)
  /\ job' = IF request[r].kind = "verified"
            THEN [job EXCEPT ![request[r].job].deleted = TRUE] ELSE job
  /\ UNCHANGED <<local, remote, config, events, doubt>>

-----------------------------------------------------------------------------
(* save_config() and the world                                             *)

SaveBegins ==
  /\ config # None
  /\ Event
  /\ config' = None
  /\ UNCHANGED <<local, remote, job, request, doubt>>

SaveEnds(d) ==
  /\ config = None
  /\ config' = d
  /\ UNCHANGED <<local, remote, job, request, events, doubt>>

(* A download ends, or the file is replaced. *)
Arrives(p, m, c) ==
  /\ Event
  /\ \A q \in Paths, n \in Members : local[q][n] # c
  /\ \A d \in Dests, n \in Names, o \in Members : remote[d][n][o] # c
  /\ local' = [local EXCEPT ![p][m] = c]
  /\ doubt' = doubt \cup {p}
  /\ UNCHANGED <<remote, config, job, request>>

(* The Switch server or the console deletes it here, or it is moved on     *)
(* over there.                                                             *)
RemovedHere(p, m) ==
  /\ Event
  /\ local[p][m] # None
  /\ local' = [local EXCEPT ![p][m] = None]
  /\ doubt' = doubt \cup {p}
  /\ UNCHANGED <<remote, config, job, request>>

RemovedThere(d, n, m) ==
  /\ Event
  /\ remote[d][n][m] \in Contents
  /\ remote' = [remote EXCEPT ![d][n][m] = None]
  /\ doubt' = doubt \cup {p \in Paths : NameOf[p] = n}
  /\ UNCHANGED <<local, config, job, request>>

(* The service is killed and started again: the jobs are forgotten. *)
Killed ==
  /\ Event
  /\ job' = [j \in Jobs |-> NoJob]
  /\ request' = [r \in Requests |-> Free]
  /\ UNCHANGED <<local, remote, config, doubt>>

-----------------------------------------------------------------------------
JobStep(j) ==
  \/ Scan(j)
  \/ \E f \in job[j].todo : Look(j, f)
  \/ CopyBegins(j)
  \/ CopyEnds(j)
  \/ Check(j)
  \/ Verify(j)

RequestStep(r) ==
  \/ \E p \in Paths : DeleteNext(r, p)
  \/ \E m \in Members : Remove(r, m)
  \/ Removed(r)
  \/ Deleted(r)

Others ==
  \/ SaveBegins
  \/ \E p \in Paths, m \in Members, c \in Contents : Arrives(p, m, c)
  \/ \E p \in Paths, m \in Members : RemovedHere(p, m)
  \/ \E d \in Dests, n \in Names, m \in Members : RemovedThere(d, n, m)
  \/ Killed

MiniPcNext ==
  \/ \E j \in Jobs, ps \in SUBSET Paths : StartTransfer(j, ps)
  \/ \E j \in Jobs : JobStep(j) \/ CopyFails(j)
  \/ \E r \in Requests, j \in Jobs : DeleteAfterVerify(r, j)
  \/ \E r \in Requests, ps \in SUBSET Paths : DeleteExported(r, ps)
  \/ \E r \in Requests : RequestStep(r)
  \/ \E d \in Dests : SaveEnds(d)
  \/ Others

MiniPcSpec == MiniPcInit /\ [][MiniPcNext]_miniPcVars

(***************************************************************************)
(* Every call of ssh and scp returns, and the user selects every path      *)
(* again and again.                                                        *)
(***************************************************************************)
MiniPcFairness ==
  /\ \A j \in Jobs : WF_miniPcVars(JobStep(j))
  /\ \A r \in Requests : WF_miniPcVars(RequestStep(r))
  /\ \A p \in Paths : SF_miniPcVars(\E j \in Jobs : StartTransfer(j, {p}))

MiniPcFairSpec == MiniPcSpec /\ MiniPcFairness
-----------------------------------------------------------------------------
(* Properties                                                              *)

MiniPcTypeOK ==
  /\ local \in [Paths -> [Members -> Contents \cup {None}]]
  /\ remote \in [Dests -> [Names -> [Members -> Contents \cup {"part", None}]]]
  /\ config \in Dests \cup {None}
  /\ job \in [Jobs ->
       [pc : {"none", "scan", "look", "copy", "copying", "check", "ended"},
        paths : SUBSET Paths, dest : Dests \cup {None},
        todo : SUBSET (Paths \X Members), file : (Paths \X Members) \cup {None},
        size : Nat, sends : Contents \cup {None},
        status : {"none", "running", "completed", "failed", "verify_failed"},
        verified : BOOLEAN, deleted : BOOLEAN]]
  /\ request \in [Requests ->
       [pc : {"free", "next", "remove"}, kind : {"none", "verified", "exported"},
        job : Jobs \cup {None}, dest : Dests \cup {None}, todo : SUBSET Paths,
        path : Paths \cup {None}]]
  /\ events \in 0 .. MaxEvents
  /\ doubt \subseteq Paths
  /\ \A j \in Jobs : job[j].verified <=> job[j].status = "completed"

(* The page promises that deletion is "only enabled after a completed      *)
(* transfer verifies the remote path".  No file leaves this machine whose  *)
(* content is not on the mini PC, whatever was cut short, killed, retried, *)
(* configured or asked twice; unless others changed one of the two sides   *)
(* since the sizes were compared, another job sent the name again, or the  *)
(* equal sizes hid different files.                                        *)
DeletedIsKept ==
  [][\A p \in Paths, m \in Members :
       local[p][m] # None /\ local'[p][m] = None
         => \/ p \in doubt'
            \/ \E d \in Dests : Copy(d, p)[m] = local[p][m]]_miniPcVars

(* "scp-resume-missing-or-mismatched": whatever was cut short, failed or   *)
(* killed, who selects a path again and again gets it to the mini PC.      *)
RetriesDeliver ==
  \A p \in Paths :
    []<>(\/ ~Exists(p) \/ p \in doubt
         \/ \E d \in Dests : \A m \in Members :
              local[p][m] # None => Copy(d, p)[m] = local[p][m])
=============================================================================
