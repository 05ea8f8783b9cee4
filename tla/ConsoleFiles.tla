---------------------------- MODULE ConsoleFiles ----------------------------
(***************************************************************************)
(* The file requests of web/console.py: /mkdir, /rename, /delete and       *)
(* /upload.  ThreadingHTTPServer gives each request a thread; each looks   *)
(* at the workspace first and changes it afterwards, and between the two   *)
(* another may change it.                                                  *)
(*                                                                         *)
(* A workspace holds files, and trees of files one level deep.  What is    *)
(* in a file is a number, 0 where there is none.  Temporary files are      *)
(* forgotten when their request ends, whoever removes them.                *)
(***************************************************************************)
EXTENDS Naturals, FiniteSets

CONSTANTS
  Threads,
  Kids,        \* names within a tree
  MaxRequests, \* bound
  MaxMishaps   \* bound: failing system calls, kills

Tops   == {"album", "note", "free"}
Itself == "."

ASSUME ConsoleFilesAssumption ==
  MaxRequests \in Nat /\ MaxMishaps \in Nat /\ Itself \notin Kids

Places == [top : Tops, kid : Kids \cup {Itself}]

VARIABLES
  disk,     \* the workspace
  nearby,   \* the staging directory is on the workspace's file system
  work,     \* the request of each thread
  requests, \* requests so far; they number what is uploaded, too
  mishaps,
  doomed    \* history: contents that a request was allowed to remove, or that came
            \* to its destination while it was under way

fileVars == <<disk, nearby, work, requests, mishaps, doomed>>

-----------------------------------------------------------------------------
(* The workspace                                                           *)

Node(kind, files) == [kind |-> kind, files |-> files, temps |-> {}]
NoFiles == [k \in Kids \cup {Itself} |-> 0]
Absent  == Node("none", NoFiles)
Tree    == Node("tree", NoFiles)
File(c) == Node("file", [NoFiles EXCEPT ![Itself] = c])

Album   == [Tree EXCEPT !.files = [k \in DOMAIN NoFiles |-> IF k \in Kids THEN 1 ELSE 0]]

ContentAt(d, p) == d[p.top].files[p.kid]
Exists(p) == IF p.kid = Itself THEN disk[p.top].kind # "none" ELSE ContentAt(disk, p) # 0
IsTree(p) == p.kid = Itself /\ disk[p.top].kind = "tree"

\* mkdir(parents=True, exist_ok=True) of the parent: not when that is a file.
ParentMade(d, p) ==
  IF p.kid # Itself /\ d[p.top].kind = "none" THEN [d EXCEPT ![p.top] = Tree] ELSE d
ParentUsable(p)  == p.kid # Itself => disk[p.top].kind # "file"

Without(d, p) ==
  IF p.kid = Itself THEN [d EXCEPT ![p.top] = Absent] ELSE [d EXCEPT ![p.top].files[p.kid] = 0]
With(d, p, c) ==
  IF p.kid = Itself THEN [d EXCEPT ![p.top] = File(c)]
  ELSE [ParentMade(d, p) EXCEPT ![p.top].files[p.kid] = c]
Moved(d, p, q) ==
  IF d[p.top].kind = "tree" /\ p.kid = Itself
    THEN [d EXCEPT ![p.top] = Absent, ![q.top] = d[p.top]]
    ELSE With(Without(d, p), q, ContentAt(d, p))

\* os.replace() puts a file where no tree is, a tree where nothing is or an
\* empty tree.
TakesFile(q) == IF q.kid = Itself THEN disk[q.top].kind # "tree" ELSE disk[q.top].kind = "tree"
CanMove(p, q) ==
  /\ Exists(p)
  /\ IF IsTree(p) THEN disk[q.top] \in {Absent, Tree} ELSE TakesFile(q)

Inside(p) == {disk[p.top].files[k] : k \in IF p.kid = Itself THEN DOMAIN NoFiles ELSE {p.kid}} \ {0}
Present(d) == (UNION {{d[x].files[k] : k \in DOMAIN NoFiles} : x \in Tops}) \ {0}

-----------------------------------------------------------------------------
(* Requests                                                                *)

NoRequest == [pc |-> "idle", op |-> "none", path |-> Itself, to |-> Itself, number |-> 0,
              overwrite |-> FALSE, seen |-> 0, answer |-> "none", left |-> FALSE,
              before |-> {}]

FilesInit ==
  /\ disk = [x \in Tops |-> CASE x = "album" -> Album
                              [] x = "note"  -> File(2)
                              [] x = "free"  -> Absent]
  /\ nearby \in BOOLEAN
  /\ work = [t \in Threads |-> NoRequest]
  /\ requests = 0
  /\ mishaps = 0
  /\ doomed = {}

Mishap == mishaps < MaxMishaps /\ mishaps' = mishaps + 1
Idle(t) == work[t].pc = "idle"
In(t, pc) == work[t].pc = pc

\* Thread t goes on with w and leaves the disk as d; what the disk was before
\* is of no use any more to the others that are under way.
Goes(t, d, w) ==
  /\ disk' = d
  /\ work' = [u \in Threads |->
       IF u = t THEN w
       ELSE IF d # disk /\ ~Idle(u) THEN [work[u] EXCEPT !.before = {}] ELSE work[u]]

\* The audit event follows, then the answer.
Done(t, d)   == Goes(t, d, [work[t] EXCEPT !.pc = "answer", !.answer = "ok"])
Failed(t, d) == Goes(t, d, [work[t] EXCEPT !.pc = "answer", !.answer = "error"])
\* An exception that no handler catches: the connection is closed.
Raised(t)    == Goes(t, disk, NoRequest)

Begin(t, op, p, q, overwrite, pc) ==
  [NoRequest EXCEPT !.pc = pc, !.op = op, !.path = p, !.to = q, !.number = requests + 1,
                    !.overwrite = overwrite, !.seen = ContentAt(disk, q), !.before = {disk}]
Conflict == [NoRequest EXCEPT !.pc = "answer", !.answer = "error", !.number = requests + 1]

\* What is refused at the first look, and whether that is audited: conflicts are.
Ask(t, w) ==
  /\ Idle(t) /\ requests < MaxRequests
  /\ requests' = requests + 1
  /\ Goes(t, disk, w)
  /\ UNCHANGED <<nearby, mishaps, doomed>>

HandleMkdir(t, p) ==
  Ask(t, IF Exists(p) THEN Conflict ELSE Begin(t, "mkdir", p, p, FALSE, "mkdir"))

Mkdir(t) ==
  LET p == work[t].path IN
  /\ In(t, "mkdir")
  /\ \/ ~Exists(p) /\ Done(t, [disk EXCEPT ![p.top] = Tree]) /\ UNCHANGED mishaps
     \/ Exists(p) /\ Failed(t, disk) /\ UNCHANGED mishaps
     \/ Mishap /\ Failed(t, disk)
  /\ UNCHANGED <<nearby, requests, doomed>>

\* Mutant: nobody looks what the destination is.
Unheeded(q) == FALSE
Occupied(q) == Exists(q)

HandleRename(t, p, q) ==
  Exists(p) /\ Ask(t, IF Occupied(q) THEN Conflict
                     ELSE Begin(t, "rename", p, q, FALSE, "parent"))

\* The parents of the destination are made before the try.
RenameParent(t) ==
  LET q == work[t].to IN
  /\ In(t, "parent")
  /\ \/ /\ ParentUsable(q)
        /\ Goes(t, ParentMade(disk, q), [work[t] EXCEPT !.pc = "move"])
        /\ UNCHANGED mishaps
     \/ ~ParentUsable(q) /\ Raised(t) /\ UNCHANGED mishaps
     \/ Mishap /\ Raised(t)
  /\ UNCHANGED <<nearby, requests, doomed>>

\* What is replaced: wanted so, or not seen when the destination was looked at.
Replaces(t) ==
  LET old == ContentAt(disk, work[t].to) IN
  doomed' = doomed \cup (IF work[t].overwrite \/ old # work[t].seen THEN {old} ELSE {})

RenameMove(t) ==
  LET p == work[t].path
      q == work[t].to IN
  /\ In(t, "move")
  /\ \/ CanMove(p, q) /\ Done(t, Moved(disk, p, q)) /\ Replaces(t) /\ UNCHANGED mishaps
     \/ ~CanMove(p, q) /\ Failed(t, disk) /\ UNCHANGED <<doomed, mishaps>>
     \/ Mishap /\ Failed(t, disk) /\ UNCHANGED doomed
  /\ UNCHANGED <<nearby, requests>>

DeleteRequest(t, p) == Exists(p) /\ Ask(t, Begin(t, "delete", p, p, FALSE, "stage"))

\* _stage_for_delete(): one rename, possible only within a file system.
CanStage(p) == nearby /\ Exists(p)
\* Mutant: removed where it is, one entry after the other.
RemovedInPlace(t) ==
  LET top == work[t].path.top IN
  Goes(t, [disk EXCEPT ![top].files = NoFiles], [work[t] EXCEPT !.pc = "remove"])
Staged(t) == Goes(t, Without(disk, work[t].path), [work[t] EXCEPT !.pc = "remove"])

Stage(t) ==
  LET p == work[t].path IN
  /\ In(t, "stage")
  /\ \/ CanStage(p) /\ Staged(t) /\ doomed' = doomed \cup Inside(p)
     \/ ~CanStage(p) /\ Failed(t, disk) /\ UNCHANGED doomed
  /\ UNCHANGED <<nearby, requests, mishaps>>

\* _remove_tree() of what was staged; what it cannot remove stays staged.
Remove(t) ==
  /\ In(t, "remove")
  /\ \/ Done(t, disk) /\ UNCHANGED mishaps
     \/ /\ Mishap
        /\ Goes(t, disk, [work[t] EXCEPT !.pc = "answer", !.answer = "error", !.left = TRUE])
  /\ UNCHANGED <<nearby, requests, doomed>>

UploadRequest(t, p, overwrite) ==
  ~IsTree(p) /\ Ask(t, IF Exists(p) /\ ~overwrite THEN Conflict
                      ELSE Begin(t, "upload", p, p, overwrite, "write"))

\* _atomic_write_bytes(): the temporary file is made beside the destination,
Temporary(t, p) ==
  IF p.kid = Itself THEN disk ELSE [ParentMade(disk, p) EXCEPT ![p.top].temps = @ \cup {t}]

WriteUpload(t) ==
  LET p == work[t].path IN
  /\ In(t, "write")
  /\ \/ /\ ParentUsable(p)
        /\ Goes(t, Temporary(t, p), [work[t] EXCEPT !.pc = "replace"])
        /\ UNCHANGED mishaps
     \/ ~ParentUsable(p) /\ Failed(t, disk) /\ UNCHANGED mishaps
     \/ Mishap /\ ParentUsable(p) /\ Failed(t, ParentMade(disk, p))
  /\ UNCHANGED <<nearby, requests, doomed>>

\* and is looked for beside it when it replaces the destination.
Cleaned(t) == [x \in Tops |-> [disk[x] EXCEPT !.temps = @ \ {t}]]
TemporaryThere(t, p) == p.kid = Itself \/ t \in disk[p.top].temps

ReplaceUpload(t) ==
  LET p    == work[t].path
      can  == TakesFile(p) /\ TemporaryThere(t, p) IN
  /\ In(t, "replace")
  /\ \/ can /\ Done(t, With(Cleaned(t), p, 2 + work[t].number)) /\ Replaces(t) /\ UNCHANGED mishaps
     \/ ~can /\ Failed(t, Cleaned(t)) /\ UNCHANGED <<doomed, mishaps>>
     \/ Mishap /\ Failed(t, Cleaned(t)) /\ UNCHANGED doomed
  /\ UNCHANGED <<nearby, requests>>

\* The audit event is written to memory and to its file, then the client is told.
Answer(t) ==
  /\ In(t, "answer")
  /\ work' = [work EXCEPT ![t] = NoRequest]
  /\ UNCHANGED <<disk, nearby, requests, mishaps, doomed>>

ConsoleKilled ==
  /\ Mishap
  /\ work' = [t \in Threads |-> NoRequest]
  /\ disk' = [x \in Tops |-> [disk[x] EXCEPT !.temps = {}]]
  /\ UNCHANGED <<nearby, requests, doomed>>

\* Trees stay at the top: nothing is moved from there into another tree.
FilesNext ==
  \/ \E t \in Threads :
       \/ \E x \in Tops : HandleMkdir(t, [top |-> x, kid |-> Itself])
       \/ \E p, q \in Places : (p.kid = Itself => q.kid = Itself) /\ HandleRename(t, p, q)
       \/ \E p \in Places : DeleteRequest(t, p)
       \/ \E p \in Places, overwrite \in BOOLEAN : UploadRequest(t, p, overwrite)
       \/ Mkdir(t) \/ RenameParent(t) \/ RenameMove(t) \/ Stage(t) \/ Remove(t)
       \/ WriteUpload(t) \/ ReplaceUpload(t) \/ Answer(t)
  \/ ConsoleKilled

FilesSpec == FilesInit /\ [][FilesNext]_fileVars
-----------------------------------------------------------------------------
(* Properties                                                              *)

(* Nothing is lost by accident: what a file holds stays somewhere in the   *)
(* workspace until it is deleted or overwritten on purpose -- or until two *)
(* requests meet at one destination, which rename and upload look at       *)
(* before they replace it.                                                 *)
NothingIsLost == [][\A c \in Present(disk) : c \in Present(disk') \cup doomed']_fileVars

Requested(w, d) ==
  CASE w.op = "mkdir"  -> [d EXCEPT ![w.path.top] = Tree]
    [] w.op = "rename" -> Moved(d, w.path, w.to)
    [] w.op = "delete" -> Without(d, w.path)
    [] w.op = "upload" -> With(d, w.path, 2 + w.number)

(* A request during which nobody else changed the workspace has done what  *)
(* it was asked when it says so, and changed no file when it reports an    *)
(* error, whichever of its steps failed; the exception is a delete whose   *)
(* staged tree resists, which is gone from the workspace all the same.     *)
AnswersAreTrue ==
  [][\A t \in Threads :
       Answer(t) =>
         \A d \in work[t].before :
           IF work[t].answer = "ok"
             THEN disk = Requested(work[t], d)
             ELSE \/ \A x \in Tops : disk[x].files = d[x].files
                  \/ work[t].op = "delete" /\ work[t].left]_fileVars
=============================================================================
