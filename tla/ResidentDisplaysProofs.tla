----------------------- MODULE ResidentDisplaysProofs -----------------------
(***************************************************************************)
(* One display draws: proved for any number of displays, any configuration *)
(* of them, any faults and any interference.                               *)
(*                                                                         *)
(* A display is safe unless it is up without an excuse, and covered unless *)
(* it is up without an excuse and was not overtaken either.  Only the      *)
(* opening of a display makes one unsafe, and then all others are safe; it *)
(* makes one uncovered only while the launcher is hidden and no exit       *)
(* callback has looked at the displays.  Whatever shows the launcher has   *)
(* looked at each of them (Guarded), or found the launcher visible.        *)
(***************************************************************************)
EXTENDS ResidentDisplays, TLAPS

Up(d)      == unit[d] \in {"active", "activating"}
Safe(d)    == Up(d) => d \in excused
Covered(d) == Up(d) => d \in excused \/ d \in overtaken

(* What thread t can be sure of: only the main thread opens displays. *)
Fine(t, d) == IF t = "main" THEN Safe(d) ELSE Covered(d)

ThreadRecord ==
  [pc : Places, todo : SUBSET Displays,
   then : {"none", "resume", "activate", "show", "render"},
   victim : Displays \cup {None},
   back : {"none", "quiesce", "park", "swap", "stop"},
   target : Displays \cup {None}]

Pausing == {"pause", "pausestop", "awaitdown"}
Opening == {"resume", "launch", "activate", "thaw", "resumestart", "awaitup", "start", "opened"}

(* Thread r is in a quiesce loop, or pauses a display for one. *)
Loops(r) == r.pc = "quiesce" \/ (r.pc \in Pausing /\ r.back = "quiesce")

(* What a thread knows at each of its places. *)
Shape(r) ==
  /\ r.pc \in Pausing => r.victim \in Displays /\ r.back # "none"
  /\ r.back = "swap" /\ r.pc \in Pausing => Companion[r.victim] # None
  /\ Loops(r) => /\ r.then # "none"
                 /\ r.then \in {"resume", "activate"} => r.target \in Displays
                 /\ r.then = "activate" => r.target \notin Managed
                 /\ r.then = "render" => r.target = None
  /\ r.pc \in Opening => r.target \in Displays
  /\ r.pc = "launch" => r.target \in Managed
  /\ r.pc \in {"activate", "resumestart", "awaitup", "start"} => r.target \notin Managed

Types ==
  /\ unit \in [Displays -> {"inactive", "activating", "active", "frozen"}]
  /\ cache \in [Displays -> Status \cup {None}]
  /\ suppressed \subseteq Managed
  /\ menuVisible \in BOOLEAN /\ settling \in BOOLEAN /\ transition \in BOOLEAN
  /\ activeApp \in Displays \cup {None, "plain"}
  /\ app \in Managed \cup {None, "plain"}
  /\ events \in 0 .. MaxEvents
  /\ excused \subseteq Displays
  /\ overtaken \subseteq Displays
  /\ \A d \in Managed : unit[d] # "activating"

ThreadsOK ==
  /\ thread \in [Threads -> ThreadRecord]
  /\ \A t \in Threads : Shape(thread[t])

(* What is in the hands of the thread and may still be up. *)
Pending(r) == r.todo \cup {r.target} \cup (IF r.pc \in {"pause", "pausestop"} THEN {r.victim} ELSE {})

(* The displays that thread t, at r, has been through with. *)
Guarded(t, r) ==
  /\ Loops(r) /\ r.then # "show" => \A e \in Displays \ Pending(r) : Fine(t, e)
  /\ r.pc \in Opening => \A e \in Displays \ {r.target} : Fine(t, e)
  /\ r.pc = "render" => \A e \in Displays : Covered(e)

AllGuarded == \A t \in Threads : Guarded(t, thread[t])

AtMostOne == \A d, e \in Displays : d # e => Safe(d) \/ Safe(e)

Owner == menuVisible => \A d \in Displays : Covered(d)

IInv == Types /\ ThreadsOK /\ AllGuarded /\ AtMostOne /\ Owner

-----------------------------------------------------------------------------
(* Threads and what they hold                                              *)

LEMMA NamesAre ==
  /\ None \notin Displays /\ "plain" \notin Displays /\ None # "plain"
  /\ Managed \subseteq Displays /\ PausesUnits \cap Managed = {}
  /\ ShortPress \in [Displays -> {"forward", "menu", "swap"}]
  /\ Companion \in [Displays -> Displays \cup {None}]
  /\ MaxEvents \in Nat
BY DisplaysAssumption

LEMMA FineIs ==
  ASSUME NEW t \in Threads, NEW d
  PROVE  /\ Safe(d) => Covered(d) /\ Fine(t, d)
         /\ Fine(t, d) => Covered(d)
         /\ Fine("main", d) => Safe(d)
BY DEF Safe, Covered, Fine, Threads

LEMMA IdleIs ==
  /\ Idle \in ThreadRecord /\ Shape(Idle) /\ \A t \in Threads : Guarded(t, Idle)
  /\ Idle.pc = "idle"
BY DEF Idle, ThreadRecord, Shape, Guarded, Loops, Pausing, Opening, Places

(* A thread that shows the launcher next needs to know nothing. *)
LEMMA PlainIs ==
  ASSUME NEW place \in {"show", "ending", "idle", "stopapp"}, NEW r \in ThreadRecord
  PROVE  LET q == [r EXCEPT !.pc = place] IN
         /\ q \in ThreadRecord /\ Shape(q) /\ q.pc = place
         /\ \A t \in Threads : Guarded(t, q)
BY DEF ThreadRecord, Shape, Guarded, Loops, Pausing, Opening, Places

LEMMA PauseIs ==
  ASSUME NEW d \in Displays, NEW back \in {"park", "swap", "stop"},
         back = "swap" => Companion[d] # None
  PROVE  /\ PauseOf(d, back) \in ThreadRecord /\ Shape(PauseOf(d, back))
         /\ \A t \in Threads : Guarded(t, PauseOf(d, back))
BY DEF PauseOf, Idle, ThreadRecord, Shape, Guarded, Loops, Pausing, Opening, Places

(* A loop that looks at every other display has passed none. *)
LEMMA LoopIs ==
  ASSUME NEW ds \in SUBSET Displays, NEW then \in {"resume", "activate", "show", "render"},
         NEW target \in Displays \cup {None},
         then \in {"resume", "activate"} => target \in Displays,
         then = "activate" => target \notin Managed,
         then = "render" => target = None,
         then = "show" \/ Displays \ ds \subseteq {target}
  PROVE  LET r == LoopOver(ds, then, target) IN
         /\ r \in ThreadRecord /\ Shape(r) /\ r.pc = "quiesce"
         /\ \A t \in Threads : Guarded(t, r)
<1> DEFINE r == LoopOver(ds, then, target)
<1>1. /\ r.pc = "quiesce" /\ r.todo = ds /\ r.then = then /\ r.target = target /\ r.back = "none"
      /\ r \in ThreadRecord
  BY DEF LoopOver, Idle, ThreadRecord, Places
<1> HIDE DEF r
<1>2. Shape(r)
  BY <1>1 DEF Shape, Loops, Pausing, Opening
<1>3. \A t \in Threads : Guarded(t, r)
  BY <1>1 DEF Guarded, Loops, Pausing, Opening, Pending
<1> QED
  BY <1>1, <1>2, <1>3 DEF r

LEMMA ThreadMoves ==
  ASSUME ThreadsOK, NEW t \in Threads, NEW r \in ThreadRecord, Shape(r),
         thread' = [thread EXCEPT ![t] = r]
  PROVE  ThreadsOK' /\ thread'[t] = r /\ \A u \in Threads \ {t} : thread'[u] = thread[u]
<1>1. thread' \in [Threads -> ThreadRecord] /\ thread'[t] = r /\ \A u \in Threads \ {t} : thread'[u] = thread[u]
  BY DEF ThreadsOK
<1> QED
  BY <1>1 DEF ThreadsOK, Shape, Loops

(* What changes no record changes no shape. *)
LEMMA ThreadsStay == ASSUME ThreadsOK, thread' = thread PROVE ThreadsOK'
BY DEF ThreadsOK, Shape, Loops

(* The answer of systemd to a question is a status, and is remembered. *)
LEMMA AskIs ==
  ASSUME Types, NEW d \in Displays, NEW answer \in Status, Ask(d, answer)
  PROVE  cache' \in [Displays -> Status \cup {None}]
BY DEF Types, Ask, Answers, TrueStatus, Exists, Status

-----------------------------------------------------------------------------
(* How the invariant is kept                                               *)

(* No display becomes unsafe or uncovered: every step but the opening. *)
Steady ==
  \A d \in Displays : (Safe(d) => Safe(d)') /\ (Covered(d) => Covered(d)')

LEMMA SteadyIs ==
  ASSUME UNCHANGED <<unit, marks>>
  PROVE  /\ Steady
         /\ \A d \in Displays : (Safe(d)' <=> Safe(d)) /\ (Covered(d)' <=> Covered(d))
BY DEF Steady, Safe, Covered, Up, marks

(* What a thread is sure of stays so while others take steady steps. *)
LEMMA GuardStays ==
  ASSUME Steady, NEW t \in Threads, NEW r, Guarded(t, r)
  PROVE  Guarded(t, r)'
BY DEF Steady, Guarded, Fine, Loops, Pending

(* In a steady step it matters only what the thread that moves knows then, *)
(* and that the launcher comes up beside covered displays.                 *)
LEMMA ThreadSteps ==
  ASSUME IInv, Types', Steady, NEW t \in Threads, NEW r \in ThreadRecord, Shape(r),
         thread' = [thread EXCEPT ![t] = r], Guarded(t, r)',
         \/ menuVisible' \in {FALSE, menuVisible}
         \/ \A d \in Displays : Covered(d)
  PROVE  IInv'
<1>1. ThreadsOK' /\ thread'[t] = r /\ \A u \in Threads \ {t} : thread'[u] = thread[u]
  BY ThreadMoves DEF IInv
<1>2. ASSUME NEW u \in Threads PROVE Guarded(u, thread[u])'
  <2>1. CASE u = t
    BY <1>1, <2>1 DEF Guarded, Fine, Loops, Pending
  <2>2. CASE u # t
    <3>1. Guarded(u, thread[u]) /\ thread'[u] = thread[u]
      BY <1>1, <2>2 DEF IInv, AllGuarded
    <3>2. PICK q : q = thread[u]
      OBVIOUS
    <3>3. Guarded(u, q)'
      BY <3>1, <3>2, GuardStays
    <3> QED
      BY <3>1, <3>2, <3>3 DEF Guarded, Fine, Loops, Pending
  <2> QED
    BY <2>1, <2>2
<1>3. AtMostOne'
  BY DEF IInv, AtMostOne, Steady
<1>4. Owner'
  BY DEF IInv, Owner, Steady, Types
<1> QED
  BY <1>1, <1>2, <1>3, <1>4 DEF IInv, AllGuarded

(* The same when no thread moves. *)
LEMMA OthersStep ==
  ASSUME IInv, Types', Steady, thread' = thread, menuVisible' \in {FALSE, menuVisible}
  PROVE  IInv'
<1>1. PICK r : r = thread["main"]
  OBVIOUS
<1>2. r \in ThreadRecord /\ Shape(r) /\ thread' = [thread EXCEPT !["main"] = r] /\ Guarded("main", r)
  BY <1>1 DEF IInv, ThreadsOK, AllGuarded, Threads
<1>3. Guarded("main", r)'
  BY <1>2, GuardStays DEF Threads
<1> QED
  BY <1>2, <1>3, ThreadSteps DEF Threads

(* A thread goes on with record r, and no display is touched. *)
LEMMA MoveSteps ==
  ASSUME IInv, Types', NEW t \in Threads, NEW r \in ThreadRecord, Shape(r), Guarded(t, r),
         thread' = [thread EXCEPT ![t] = r],
         UNCHANGED <<unit, marks>>,
         \/ menuVisible' \in {FALSE, menuVisible}
         \/ \A d \in Displays : Covered(d)
  PROVE  IInv'
<1>1. Steady
  BY SteadyIs
<1>2. Guarded(t, r)'
  BY <1>1, GuardStays
<1> QED
  BY <1>1, <1>2, ThreadSteps

(* The thread may go on with some record that it can vouch for. *)
GoesOn(t) ==
  \E r \in ThreadRecord : Shape(r) /\ Guarded(t, r) /\ thread' = [thread EXCEPT ![t] = r]

LEMMA ShowsIs ==
  ASSUME ThreadsOK, NEW t \in Threads, NEW place \in {"show", "ending", "idle", "stopapp"},
         \/ GoTo(t, place)
         \/ Becomes(t, [Idle EXCEPT !.pc = place])
         \/ Shows(t)
  PROVE  GoesOn(t)
<1>1. thread[t] \in ThreadRecord /\ Idle \in ThreadRecord
  BY IdleIs DEF ThreadsOK
<1>2. CASE GoTo(t, place)
  BY <1>1, <1>2, PlainIs DEF GoTo, GoesOn
<1>3. CASE Becomes(t, [Idle EXCEPT !.pc = place])
  BY <1>1, <1>3, PlainIs DEF Becomes, GoesOn
<1>4. CASE Shows(t)
  BY <1>1, <1>4, PlainIs DEF Shows, Becomes, GoesOn
<1> QED
  BY <1>2, <1>3, <1>4

LEMMA RaisesIs == ASSUME ThreadsOK, Raises PROVE GoesOn("main")
<1>1. PICK place \in {"idle", "show"} : Becomes("main", [Idle EXCEPT !.pc = place])
  BY DEF Raises
<1> QED
  BY <1>1, ShowsIs DEF Threads

(* A launch, refused or not, opens no resident display. *)
LEMMA LaunchIs ==
  ASSUME Types, ThreadsOK, NEW a \in Managed \cup {"plain"}, CloseRaises \/ Launch(a)
  PROVE  /\ GoesOn("main")
         /\ app' \in Managed \cup {None, "plain"} /\ settling' \in BOOLEAN
         /\ activeApp' \in Displays \cup {None, "plain"}
<1>1. CASE CloseRaises
  BY <1>1, RaisesIs DEF CloseRaises, Types
<1>2. CASE Launch(a)
  <2>1. Raises \/ Becomes("main", Idle)
    BY <1>2 DEF Launch
  <2>2. Becomes("main", Idle) => GoesOn("main")
    BY IdleIs DEF Becomes, GoesOn, Threads
  <2>3. /\ app' \in Managed \cup {None, "plain"} /\ settling' \in BOOLEAN
        /\ activeApp' \in Displays \cup {None, "plain"}
    BY <1>2, NamesAre DEF Launch, Types
  <2> QED
    BY <2>1, <2>2, <2>3, RaisesIs
<1> QED
  BY <1>1, <1>2


(* Such a step that touches no display keeps the invariant. *)
LEMMA GoesOnSteps ==
  ASSUME IInv, Types', NEW t \in Threads, GoesOn(t), UNCHANGED <<unit, marks>>,
         \/ menuVisible' \in {FALSE, menuVisible}
         \/ \A d \in Displays : Covered(d)
  PROVE  IInv'
BY MoveSteps DEF GoesOn

-----------------------------------------------------------------------------
(* The presses, and how an application ends                                *)

LEMMA PressKeeps ==
  ASSUME IInv, NEW hold \in Holds, Press(hold)
  PROVE  IInv'
<1>0. Types /\ ThreadsOK
  BY DEF IInv
<1>1. PICK answer \in Status :
       /\ IF activeApp \in Displays THEN Ask(activeApp, answer)
          ELSE answer = "inactive" /\ UNCHANGED cache
       /\ \/ /\ ~AppIsRunning(answer)
             /\ GoTo("main", "show")
             /\ UNCHANGED suppressed
          \/ /\ AppIsRunning(answer) /\ answer = "active" /\ ~settling
             /\ \E back \in {"park", "swap"} :
                  /\ IF HoldParks(hold) THEN back = "park"
                     ELSE ShortPress[activeApp] = "swap"
                            /\ Companion[activeApp] # None /\ back = "swap"
                  /\ Becomes("main", PauseOf(activeApp, back))
             /\ suppressed' = suppressed \cup (Managed \cap {activeApp})
          \/ /\ AppIsRunning(answer) /\ (answer # "active" \/ settling)
             /\ hold = "verylong"
             /\ GoTo("main", "stopapp")
             /\ UNCHANGED suppressed
  BY DEF Press
<1>2. UNCHANGED <<shown, unit, app, events, marks>>
  BY DEF Press
<1>3. cache' \in [Displays -> Status \cup {None}]
  <2>1. CASE activeApp \in Displays
    BY <1>0, <1>1, <2>1, AskIs
  <2>2. CASE activeApp \notin Displays
    BY <1>0, <1>1, <2>2 DEF Types
  <2> QED
    BY <2>1, <2>2
<1>4. Types'
  <2>1. suppressed' \subseteq Managed
    BY <1>0, <1>1 DEF Types
  <2> QED
    BY <1>0, <1>2, <1>3, <2>1 DEF Types, shown, marks
<1>5. \/ GoTo("main", "show") \/ GoTo("main", "stopapp")
      \/ /\ activeApp \in Displays
         /\ \E back \in {"park", "swap"} : /\ back = "swap" => Companion[activeApp] # None
                                           /\ Becomes("main", PauseOf(activeApp, back))
  BY <1>1
<1>6. GoesOn("main")
  <2>1. CASE GoTo("main", "show") \/ GoTo("main", "stopapp")
    BY <1>0, <2>1, ShowsIs DEF Threads
  <2>2. CASE /\ activeApp \in Displays
             /\ \E back \in {"park", "swap"} : /\ back = "swap" => Companion[activeApp] # None
                                               /\ Becomes("main", PauseOf(activeApp, back))
    BY <2>2, PauseIs DEF Becomes, GoesOn, Threads
  <2> QED
    BY <1>5, <2>1, <2>2
<1> QED
  BY <1>2, <1>4, <1>6, GoesOnSteps DEF shown, Threads

LEMMA SelectKeeps ==
  ASSUME IInv, NEW d \in Displays, OpenDisplay(d) \/ StopSelected(d)
  PROVE  IInv'
<1>0. Types /\ ThreadsOK
  BY DEF IInv
<1>1. CASE OpenDisplay(d)
  <2>1. Types' /\ UNCHANGED <<unit, marks, menuVisible>>
    BY <1>0, <1>1 DEF OpenDisplay, Types, shown, world, marks
  <2>2. GoesOn("main")
    <3>1. LET r == LoopOver(Displays \ {d}, "resume", d) IN
          r \in ThreadRecord /\ Shape(r) /\ \A t \in Threads : Guarded(t, r)
      BY LoopIs
    <3> QED
      BY <1>1, <3>1 DEF OpenDisplay, Becomes, GoesOn, Threads
  <2> QED
    BY <2>1, <2>2, GoesOnSteps DEF Threads
<1>2. CASE StopSelected(d)
  <2>1. PICK answer \in Status : /\ Ask(d, answer)
                                 /\ IF answer = "active" THEN Becomes("main", PauseOf(d, "stop"))
                                    ELSE GoTo("main", "show")
    BY <1>2 DEF StopSelected
  <2>2. Types' /\ UNCHANGED <<unit, marks, menuVisible>>
    BY <1>0, <1>2, <2>1, AskIs DEF StopSelected, Types, shown, marks
  <2>3. GoesOn("main")
    <3>1. CASE GoTo("main", "show")
      BY <1>0, <3>1, ShowsIs DEF Threads
    <3>2. CASE Becomes("main", PauseOf(d, "stop"))
      BY <3>2, PauseIs DEF Becomes, GoesOn, Threads
    <3> QED
      BY <2>1, <3>1, <3>2
  <2> QED
    BY <2>2, <2>3, GoesOnSteps DEF Threads
<1> QED
  BY <1>1, <1>2

(* A call that pauses a display or fails to: it is down, or excused. *)
LEMMA CallIs ==
  ASSUME Types, NEW d \in Displays,
         \/ \E state \in {"inactive", "frozen"} : CallPauses(d, state)
         \/ CallFails(d)
  PROVE  /\ unit' \in [Displays -> {"inactive", "activating", "active", "frozen"}]
         /\ \A e \in Managed : unit'[e] # "activating"
         /\ excused' \subseteq Displays /\ overtaken' \subseteq Displays
         /\ Steady
         /\ Safe(d)' /\ \A t \in Threads : Fine(t, d)'
<1>1. /\ unit' \in [Displays -> {"inactive", "activating", "active", "frozen"}]
      /\ \A e \in Managed : unit'[e] # "activating"
      /\ excused' \subseteq Displays /\ overtaken' \subseteq Displays
  BY NamesAre DEF Types, CallPauses, CallFails
<1>2. /\ ~Up(d)' \/ d \in excused'
      /\ \A e \in Displays \ {d} : /\ Up(e)' <=> Up(e)
                                   /\ e \in excused' <=> e \in excused
                                   /\ e \in overtaken' <=> e \in overtaken
  BY DEF Types, CallPauses, CallFails, Up
<1> QED
  BY <1>1, <1>2 DEF Steady, Safe, Covered, Fine

LEMMA StopUnitKeeps ==
  ASSUME IInv, StopActiveUnit
  PROVE  IInv'
<1>0. Types /\ ThreadsOK /\ activeApp \in Displays
  BY DEF IInv, StopActiveUnit
<1>1. Types' /\ Steady
  BY <1>0, CallIs DEF StopActiveUnit, Types, ClearCaches, shown
<1>2. GoesOn("main")
  BY <1>0, ShowsIs DEF StopActiveUnit, Threads
<1>3. PICK r \in ThreadRecord : Shape(r) /\ Guarded("main", r) /\ thread' = [thread EXCEPT !["main"] = r]
  BY <1>2 DEF GoesOn
<1>4. Guarded("main", r)' /\ menuVisible' = menuVisible
  BY <1>1, <1>3, GuardStays DEF Threads, StopActiveUnit, shown
<1> QED
  BY <1>1, <1>3, <1>4, ThreadSteps DEF Threads

(* The one step that moves both threads. *)
LEMMA StopApplicationKeeps ==
  ASSUME IInv, StopApplication
  PROVE  IInv'
<1>0. Types /\ ThreadsOK
  BY DEF IInv
<1>1. PICK late \in IF app # None /\ At("exit", "idle") THEN BOOLEAN ELSE {FALSE} :
        thread' = [thread EXCEPT !["main"].pc = "show",
                                 !["exit"].pc = IF late THEN "show" ELSE @]
  BY DEF StopApplication
<1>2. Types' /\ UNCHANGED <<unit, marks, menuVisible>>
  BY <1>0 DEF StopApplication, Types, shown, marks
<1>3. Steady
  BY <1>2, SteadyIs
<1>4. PICK r : r = [thread["main"] EXCEPT !.pc = "show"]
  OBVIOUS
<1>5. PICK q : q = [thread["exit"] EXCEPT !.pc = IF late THEN "show" ELSE @]
  OBVIOUS
<1>6. thread' = [thread EXCEPT !["main"] = r, !["exit"] = q]
  BY <1>1, <1>4, <1>5 DEF ThreadsOK, Threads
<1>7. r \in ThreadRecord /\ Shape(r) /\ Guarded("main", r)
  BY <1>0, <1>4, PlainIs DEF ThreadsOK, Threads
<1>8. q \in ThreadRecord /\ Shape(q) /\ Guarded("exit", q)
  <2>1. CASE late
    BY <1>0, <1>5, <2>1, PlainIs DEF ThreadsOK, Threads
  <2>2. CASE ~late
    <3>1. q = thread["exit"]
      BY <1>0, <1>5, <2>2 DEF ThreadsOK, Threads, ThreadRecord
    <3> QED
      BY <3>1 DEF IInv, ThreadsOK, AllGuarded, Threads
  <2> QED
    BY <2>1, <2>2
<1>9. /\ thread' \in [Threads -> ThreadRecord]
      /\ thread'["main"] = r /\ thread'["exit"] = q
  BY <1>0, <1>6, <1>7, <1>8 DEF ThreadsOK, Threads
<1>10. ThreadsOK'
  BY <1>7, <1>8, <1>9 DEF ThreadsOK, Threads, Shape, Loops
<1>11. AllGuarded'
  <2>1. Guarded("main", r)' /\ Guarded("exit", q)'
    BY <1>3, <1>7, <1>8, GuardStays DEF Threads
  <2> QED
    BY <1>9, <2>1 DEF AllGuarded, Threads, Guarded, Fine, Loops, Pending
<1>12. AtMostOne' /\ Owner'
  BY <1>2, <1>3 DEF IInv, AtMostOne, Owner, Steady
<1> QED
  BY <1>2, <1>10, <1>11, <1>12 DEF IInv

LEMMA ApplicationKeeps ==
  ASSUME IInv, OpenApplication \/ ApplicationExits
  PROVE  IInv'
<1>0. Types /\ ThreadsOK
  BY DEF IInv
<1>1. CASE OpenApplication
  <2>1. CloseRaises \/ Launch("plain")
    BY <1>1 DEF OpenApplication, Plain
  <2>2. /\ GoesOn("main")
        /\ app' \in Managed \cup {None, "plain"} /\ settling' \in BOOLEAN
        /\ activeApp' \in Displays \cup {None, "plain"}
    BY <1>0, <2>1, LaunchIs
  <2>3. Types' /\ menuVisible' = FALSE /\ UNCHANGED <<unit, marks>>
    BY <1>0, <1>1, <2>2 DEF OpenApplication, Types, marks
  <2> QED
    BY <2>2, <2>3, GoesOnSteps DEF Threads
<1>2. CASE ApplicationExits
  <2>1. Types' /\ UNCHANGED <<unit, marks, menuVisible>>
    BY <1>0, <1>2 DEF ApplicationExits, Types, shown, marks
  <2>2. CASE thread' = thread
    BY <2>1, <2>2, SteadyIs, OthersStep
  <2>3. CASE GoTo("exit", "show")
    BY <1>0, <2>1, <2>3, ShowsIs, GoesOnSteps DEF Threads
  <2> QED
    BY <1>2, <2>2, <2>3 DEF ApplicationExits
<1> QED
  BY <1>1, <1>2

-----------------------------------------------------------------------------
(* Pausing displays, in whatever thread                                    *)

(* Where a pause returns to knows of the other displays what the pause     *)
(* knew, once the one it paused is safe.                                   *)
LEMMA PauseReturnsTo ==
  ASSUME ThreadsOK, NEW t \in Threads, thread[t].pc \in Pausing, NEW ok \in BOOLEAN,
         PauseReturns(t, ok)
  PROVE  \E r \in ThreadRecord :
           /\ Shape(r) /\ thread' = [thread EXCEPT ![t] = r]
           /\ r.pc \in {"quiesce", "show"}
           /\ Loops(r) /\ r.then # "show" =>
                \/ Displays \subseteq Pending(r)
                \/ /\ Loops(thread[t]) /\ thread[t].then # "show"
                   /\ \A e \in Pending(thread[t]) \ Pending(r) :
                        thread[t].pc # "awaitdown" /\ e = thread[t].victim
<1> DEFINE w == thread[t]
           d == w.victim
<1>0. w \in ThreadRecord /\ Shape(w) /\ d \in Displays
  BY DEF ThreadsOK, Shape
<1>1. CASE w.back = "quiesce"
  <2> DEFINE r == [w EXCEPT !.pc = "quiesce", !.victim = None, !.back = "none"]
  <2>1. thread' = [thread EXCEPT ![t] = r]
    BY <1>1 DEF PauseReturns
  <2>2. /\ r \in ThreadRecord /\ r.pc = "quiesce" /\ r.todo = w.todo /\ r.target = w.target
        /\ r.then = w.then
    BY <1>0 DEF ThreadRecord, Places
  <2> HIDE DEF r
  <2>3. Shape(r)
    BY <1>0, <1>1, <2>2 DEF Shape, Loops, Pausing, Opening
  <2>4. Loops(w) /\ \A e \in Pending(w) \ Pending(r) : w.pc # "awaitdown" /\ e = d
    BY <1>1, <2>2 DEF Loops, Pending
  <2> HIDE DEF w, d
  <2> QED
    BY <2>1, <2>2, <2>3, <2>4 DEF w, d
<1>2. CASE w.back = "park" /\ ok
  <2>1. thread' = [thread EXCEPT ![t] = LoopOver(Displays \ {d}, "show", None)]
    BY <1>2 DEF PauseReturns, Becomes
  <2> DEFINE r == LoopOver(Displays \ {d}, "show", None)
  <2>2. r \in ThreadRecord /\ Shape(r) /\ r.pc = "quiesce"
    BY LoopIs
  <2>3. r.then = "show"
    BY DEF LoopOver, Idle
  <2> QED
    BY <2>1, <2>2, <2>3
<1>3. CASE w.back = "swap" /\ ok
  <2>1. Companion[d] \in Displays
    BY <1>0, <1>3, NamesAre DEF Shape
  <2> DEFINE r == LoopOver(Displays \ {Companion[d]}, "resume", Companion[d])
  <2>2. thread' = [thread EXCEPT ![t] = r]
    BY <1>3 DEF PauseReturns, Becomes
  <2>3. r \in ThreadRecord /\ Shape(r) /\ r.pc = "quiesce"
    BY <2>1, LoopIs
  <2>4. r.todo = Displays \ {Companion[d]} /\ r.target = Companion[d]
    BY DEF LoopOver, Idle
  <2>5. Displays \subseteq Pending(r)
    BY <2>4 DEF Pending
  <2> HIDE DEF r
  <2> QED
    BY <2>2, <2>3, <2>5
<1>4. CASE ~ (w.back = "quiesce") /\ ~ (w.back = "park" /\ ok) /\ ~ (w.back = "swap" /\ ok)
  <2> DEFINE r == [Idle EXCEPT !.pc = "show"]
  <2>1. thread' = [thread EXCEPT ![t] = r]
    BY <1>4 DEF PauseReturns, Shows, Becomes
  <2>2. r \in ThreadRecord /\ Shape(r) /\ r.pc = "show"
    BY IdleIs, PlainIs
  <2>3. ~ Loops(r)
    BY <2>2 DEF Loops, Pausing
  <2> HIDE DEF r
  <2> QED
    BY <2>1, <2>2, <2>3
<1> QED
  BY <1>1, <1>2, <1>3, <1>4

(* The end of a pause. *)
LEMMA ReturnSteps ==
  ASSUME IInv, Types', NEW t \in Threads, thread[t].pc \in Pausing, NEW ok \in BOOLEAN,
         PauseReturns(t, ok), UNCHANGED menuVisible, Steady,
         NEW d, d = thread[t].victim, thread[t].pc # "awaitdown" => Fine(t, d)'
  PROVE  IInv'
<1>1. PICK r \in ThreadRecord :
           /\ Shape(r) /\ thread' = [thread EXCEPT ![t] = r]
           /\ r.pc \in {"quiesce", "show"}
           /\ Loops(r) /\ r.then # "show" =>
                \/ Displays \subseteq Pending(r)
                \/ /\ Loops(thread[t]) /\ thread[t].then # "show"
                   /\ \A e \in Pending(thread[t]) \ Pending(r) :
                        thread[t].pc # "awaitdown" /\ e = thread[t].victim
  BY PauseReturnsTo DEF IInv
<1>2. PICK w : w = thread[t]
  OBVIOUS
<1>3. Guarded(t, w)'
  BY <1>2, GuardStays DEF IInv, AllGuarded
<1>4. ASSUME Loops(r), r.then # "show", NEW e \in Displays \ Pending(r)
      PROVE  Fine(t, e)'
  <2>1. Loops(w) /\ w.then # "show"
    BY <1>1, <1>2, <1>4
  <2>2. CASE e \notin Pending(w)
    BY <1>3, <2>1, <2>2 DEF Guarded, Loops, Pending
  <2>3. CASE e \in Pending(w)
    BY <1>1, <1>2, <1>4, <2>3
  <2> QED
    BY <2>2, <2>3
<1>5. r.pc \notin Opening \cup {"render"}
  BY <1>1 DEF Opening
<1>6. Guarded(t, r)'
  BY <1>4, <1>5 DEF Guarded, Loops, Pending, Opening
<1> QED
  BY <1>1, <1>6, ThreadSteps

(* A display that is passed over although it is up is excused; one that is *)
(* to be paused is at hand.                                                *)
LEMMA LookKeeps ==
  ASSUME IInv, NEW t \in Threads, NEW d \in Displays, QuiesceLook(t, d)
  PROVE  IInv'
<1>w. PICK w : w = thread[t]
  OBVIOUS
<1>0. Types /\ ThreadsOK /\ w \in ThreadRecord /\ Shape(w) /\ w.pc = "quiesce" /\ d \in w.todo
  BY <1>w DEF IInv, ThreadsOK, QuiesceLook, At
<1>1. PICK answer \in Status :
       /\ Ask(d, answer)
       /\ IF NeedsPause(d, answer)
          THEN /\ thread' = [thread EXCEPT ![t].todo = @ \ {d}, ![t].pc = "pause",
                               ![t].victim = d, ![t].back = "quiesce"]
               /\ suppressed' = IF thread[t].then \in {"show", "render"}
                                THEN suppressed \cup (Managed \cap {d})
                                ELSE suppressed
               /\ UNCHANGED marks
          ELSE /\ thread' = [thread EXCEPT ![t].todo = @ \ {d}]
               /\ excused' = IF answer # "active" /\ unit[d] \in {"active", "activating"}
                              THEN excused \cup {d} ELSE excused \ {d}
               /\ overtaken' = overtaken \ {d}
               /\ UNCHANGED suppressed
  BY DEF QuiesceLook
<1>2. UNCHANGED <<unit, menuVisible, app, activeApp, settling, transition, events>>
  BY DEF QuiesceLook, shown
<1>3. Types'
  <2>1. cache' \in [Displays -> Status \cup {None}]
    BY <1>0, <1>1, AskIs
  <2>2. suppressed' \subseteq Managed /\ excused' \subseteq Displays /\ overtaken' \subseteq Displays
    BY <1>0, <1>1 DEF Types, marks
  <2> QED
    BY <1>0, <1>2, <2>1, <2>2 DEF Types
<1>4. CASE NeedsPause(d, answer)
  <2>0. PICK r : r = [w EXCEPT !.todo = @ \ {d}, !.pc = "pause", !.victim = d, !.back = "quiesce"]
    OBVIOUS
  <2>1. thread' = [thread EXCEPT ![t] = r] /\ UNCHANGED <<unit, marks>>
    BY <2>0, <1>w, <1>1, <1>2, <1>4
  <2>2. /\ r \in ThreadRecord /\ r.pc = "pause" /\ r.todo = w.todo \ {d} /\ r.victim = d
        /\ r.back = "quiesce" /\ r.then = w.then /\ r.target = w.target
    BY <2>0, <1>0 DEF ThreadRecord, Places
  <2>3. Shape(r)
    BY <1>0, <2>2 DEF Shape, Loops, Pausing, Opening
  <2>4. Guarded(t, r)
    <3>1. Loops(w) /\ Pending(w) \subseteq Pending(r)
      BY <1>0, <2>2 DEF Loops, Pending
    <3>2. Guarded(t, w)
      BY <1>w DEF IInv, AllGuarded
    <3> QED
      BY <2>2, <3>1, <3>2 DEF Guarded, Loops, Pending, Opening
  <2> QED
    BY <1>2, <1>3, <2>1, <2>2, <2>3, <2>4, MoveSteps
<1>5. CASE ~ NeedsPause(d, answer)
  <2>0. PICK r : r = [w EXCEPT !.todo = @ \ {d}]
    OBVIOUS
  <2>1. thread' = [thread EXCEPT ![t] = r]
    BY <2>0, <1>w, <1>1, <1>5
  <2>2. /\ r \in ThreadRecord /\ r.pc = "quiesce" /\ r.todo = w.todo \ {d}
        /\ r.then = w.then /\ r.target = w.target
    BY <2>0, <1>0 DEF ThreadRecord, Places
  <2>3. Shape(r)
    BY <1>0, <2>2 DEF Shape, Loops, Pausing, Opening
  <2>4. /\ answer # "active" /\ excused' = IF Up(d) THEN excused \cup {d} ELSE excused \ {d}
        /\ overtaken' = overtaken \ {d}
    BY <1>1, <1>5 DEF NeedsPause, Up
  <2>5. /\ Up(d)' => d \in excused'
        /\ \A e \in Displays : Up(e)' <=> Up(e)
        /\ \A e \in Displays \ {d} : /\ e \in excused' <=> e \in excused
                                     /\ e \in overtaken' <=> e \in overtaken
    BY <1>0, <1>2, <2>4 DEF Up, Types
  <2>6. Fine(t, d)' /\ Steady
    BY <2>5 DEF Safe, Covered, Fine, Steady
  <2>7. Guarded(t, r)'
    <3>1. Loops(w) /\ Pending(w) \subseteq Pending(r) \cup {d}
      BY <1>0, <2>2 DEF Loops, Pending
    <3>2. Guarded(t, w)'
      BY <1>w, <2>6, GuardStays DEF IInv, AllGuarded
    <3>3. r.then # "show" => \A e \in Displays \ Pending(r) : Fine(t, e)'
      BY <2>2, <2>6, <3>1, <3>2 DEF Guarded, Loops, Pending
    <3> QED
      BY <2>2, <3>3 DEF Guarded, Loops, Pending, Opening
  <2> QED
    BY <1>2, <1>3, <2>1, <2>2, <2>3, <2>6, <2>7, ThreadSteps
<1> QED
  BY <1>4, <1>5

LEMMA QuiesceDoneKeeps ==
  ASSUME IInv, NEW t \in Threads, QuiesceDone(t)
  PROVE  IInv'
<1>w. PICK w : w = thread[t]
  OBVIOUS
<1>r. PICK r : r = [Idle EXCEPT !.pc = w.then, !.target = w.target]
  OBVIOUS
<1>0. Types /\ ThreadsOK /\ w \in ThreadRecord /\ Shape(w) /\ w.pc = "quiesce" /\ w.todo = {}
  BY <1>w DEF IInv, ThreadsOK, QuiesceDone, At
<1>1. thread' = [thread EXCEPT ![t] = r] /\ UNCHANGED <<shown, world, marks>>
  BY <1>r, <1>w DEF QuiesceDone, Becomes
<1>2. w.then \in {"resume", "activate", "show", "render"}
  BY <1>0 DEF Shape, Loops, ThreadRecord
<1>3. r \in ThreadRecord /\ r.pc = w.then /\ r.target = w.target /\ r.then = "none" /\ r.back = "none"
  BY <1>r, <1>0, <1>2, IdleIs DEF Idle, ThreadRecord, Places
<1>4. Shape(r) /\ ~ Loops(r)
  BY <1>0, <1>2, <1>3 DEF Shape, Loops, Pausing, Opening
<1>5. Types'
  BY <1>0, <1>1 DEF Types, shown, world, marks
<1>6. Guarded(t, r)
  <2>1. Guarded(t, w)
    BY <1>w DEF IInv, AllGuarded
  <2>2. w.then # "show" => \A e \in Displays \ {w.target} : Fine(t, e)
    BY <1>0, <2>1 DEF Guarded, Loops, Pending
  <2>3. w.then = "render" => \A e \in Displays : Covered(e)
    BY <1>0, <2>2, NamesAre, FineIs DEF Shape, Loops
  <2> QED
    BY <1>2, <1>3, <1>4, <2>2, <2>3 DEF Guarded, Loops, Pending, Opening
<1> QED
  BY <1>1, <1>3, <1>4, <1>5, <1>6, MoveSteps DEF shown, world

LEMMA PauseKeeps ==
  ASSUME IInv, NEW t \in Threads, Pause(t)
  PROVE  IInv'
<1>w. PICK w : w = thread[t]
  OBVIOUS
<1>d. PICK d : d = w.victim
  OBVIOUS
<1>0. Types /\ ThreadsOK /\ w \in ThreadRecord /\ Shape(w) /\ w.pc \in Pausing /\ d \in Displays
  BY <1>w, <1>d DEF IInv, ThreadsOK, Pause, PauseByStop, PauseByFreeze, PauseByUnits, AwaitDown, At, Pausing, Shape
<1>1. UNCHANGED <<shown, suppressed, app, events>>
  BY DEF Pause, PauseByStop, PauseByFreeze, PauseByUnits, AwaitDown
<1>2. CASE AwaitDown(t)
  <2>1. PICK answer \in Status : /\ Ask(d, answer)
                                 /\ PauseReturns(t, answer \in {"inactive", "unknown"})
    BY <1>2, <1>w, <1>d DEF AwaitDown
  <2>2. Types' /\ UNCHANGED <<unit, marks>>
    BY <1>0, <1>1, <1>2, <2>1, AskIs DEF AwaitDown, Types, shown, marks
  <2>3. Steady /\ thread[t].pc = "awaitdown"
    BY <1>2, <2>2, SteadyIs DEF AwaitDown, At
  <2>4. \E ok \in BOOLEAN : PauseReturns(t, ok)
    <3> DEFINE down == answer \in {"inactive", "unknown"}
    <3>1. down \in BOOLEAN /\ PauseReturns(t, down)
      BY <2>1
    <3> HIDE DEF down
    <3> QED
      BY <3>1
  <2> QED
    BY <1>0, <1>1, <1>w, <1>d, <2>2, <2>3, <2>4, ReturnSteps DEF shown
<1>3. CASE ~ AwaitDown(t)
  <2>1. cache' \in [Displays -> Status \cup {None}]
    BY <1>0, <1>3 DEF Types, Pause, PauseByStop, PauseByFreeze, PauseByUnits, ClearCaches
  <2>2. CASE /\ (\E state \in {"inactive", "frozen"} : CallPauses(d, state)) \/ CallFails(d)
             /\ (\E ok \in BOOLEAN : PauseReturns(t, ok)) \/ GoTo(t, "awaitdown")
    <3>1. Types' /\ Steady /\ Fine(t, d)'
      BY <1>0, <1>1, <2>1, <2>2, CallIs DEF Types, shown
    <3>2. CASE \E ok \in BOOLEAN : PauseReturns(t, ok)
      BY <1>0, <1>1, <1>w, <1>d, <3>1, <3>2, ReturnSteps DEF shown
    <3>3. CASE GoTo(t, "awaitdown")
      <4>0. PICK r : r = [w EXCEPT !.pc = "awaitdown"]
        OBVIOUS
      <4>1. thread' = [thread EXCEPT ![t] = r]
        BY <4>0, <3>3, <1>w DEF GoTo
      <4>2. /\ r \in ThreadRecord /\ r.pc = "awaitdown" /\ r.todo = w.todo /\ r.victim = w.victim
            /\ r.back = w.back /\ r.then = w.then /\ r.target = w.target
        BY <4>0, <1>0 DEF ThreadRecord, Places
      <4>3. Shape(r)
        BY <1>0, <4>2 DEF Shape, Loops, Pausing, Opening
      <4>4. Guarded(t, r)'
        <5>1. Guarded(t, w)'
          BY <1>w, <3>1, GuardStays DEF IInv, AllGuarded
        <5>2. /\ Loops(r) => Loops(w)
              /\ Pending(w) \subseteq Pending(r) \cup {d}
          BY <1>0, <1>d, <4>2 DEF Loops, Pending, Pausing
        <5>3. Loops(r) /\ r.then # "show" => \A e \in Displays \ Pending(r) : Fine(t, e)'
          BY <3>1, <4>2, <5>1, <5>2 DEF Guarded, Loops, Pending
        <5> QED
          BY <4>2, <5>3 DEF Guarded, Loops, Pending, Opening
      <4> QED
        BY <1>1, <3>1, <4>1, <4>2, <4>3, <4>4, ThreadSteps DEF shown
    <3> QED
      BY <2>2, <3>2, <3>3
  <2>3. CASE w.pc = "pause" /\ GoTo(t, "pausestop") /\ UNCHANGED <<unit, marks>>
    <3>0. PICK r : r = [w EXCEPT !.pc = "pausestop"]
      OBVIOUS
    <3>1. thread' = [thread EXCEPT ![t] = r] /\ w.pc = "pause"
      BY <3>0, <2>3, <1>w DEF GoTo
    <3>2. /\ r \in ThreadRecord /\ r.pc = "pausestop" /\ r.todo = w.todo /\ r.victim = w.victim
          /\ r.back = w.back /\ r.then = w.then /\ r.target = w.target
      BY <3>0, <1>0 DEF ThreadRecord, Places
    <3>3. Shape(r)
      BY <1>0, <3>1, <3>2 DEF Shape, Loops, Pausing, Opening
    <3>4. Types'
      BY <1>0, <1>1, <2>1, <2>3 DEF Types, shown, marks
    <3>5. Guarded(t, r)
      <4>1. Guarded(t, w)
        BY <1>w DEF IInv, AllGuarded
      <4>2. (Loops(r) <=> Loops(w)) /\ Pending(w) = Pending(r)
        BY <3>1, <3>2 DEF Loops, Pending, Pausing
      <4>3. Loops(r) /\ r.then # "show" => \A e \in Displays \ Pending(r) : Fine(t, e)
        BY <3>2, <4>1, <4>2 DEF Guarded
      <4> QED
        BY <3>2, <4>3 DEF Guarded, Opening
    <3> QED
      BY <1>1, <2>3, <3>1, <3>2, <3>3, <3>4, <3>5, MoveSteps DEF shown
  <2> QED
    BY <1>3, <1>w, <1>d, <2>2, <2>3 DEF Pause, PauseByStop, PauseByFreeze, PauseByUnits, At
<1> QED
  BY <1>2, <1>3

-----------------------------------------------------------------------------
(* Opening a display                                                       *)

(* From one place of the opening to another. *)
LEMMA OpeningIs ==
  ASSUME IInv, thread["main"].pc \in Opening, NEW place \in Opening \ {"resume"},
         place = "launch" => thread["main"].target \in Managed,
         place \in {"activate", "resumestart", "awaitup", "start"} => thread["main"].target \notin Managed,
         GoTo("main", place)
  PROVE  GoesOn("main")
<1>1. PICK w : w = thread["main"]
  OBVIOUS
<1>2. w \in ThreadRecord /\ Shape(w) /\ Guarded("main", w)
  BY <1>1 DEF IInv, ThreadsOK, AllGuarded, Threads
<1>3. w.target \in Displays /\ \A e \in Displays \ {w.target} : Fine("main", e)
  BY <1>1, <1>2 DEF Shape, Guarded
<1>4. PICK r : r = [w EXCEPT !.pc = place]
  OBVIOUS
<1>5. r \in ThreadRecord /\ r.pc = place /\ r.target = w.target
  BY <1>2, <1>4 DEF ThreadRecord, Places, Opening
<1>6. thread' = [thread EXCEPT !["main"] = r]
  BY <1>1, <1>4 DEF GoTo
<1>7. Shape(r) /\ Guarded("main", r)
  BY <1>1, <1>3, <1>5 DEF Shape, Guarded, Loops, Pausing, Opening
<1> QED
  BY <1>5, <1>6, <1>7 DEF GoesOn

LEMMA ResumeKeeps ==
  ASSUME IInv, Resume
  PROVE  IInv'
<1>w. PICK w : w = thread["main"]
  OBVIOUS
<1>0. Types /\ ThreadsOK /\ w.pc = "resume" /\ w.target \in Displays
  BY <1>w DEF IInv, ThreadsOK, Threads, Resume, At, Shape, Opening
<1>1. CASE CloseRaises /\ UNCHANGED cache
  <2>1. Types' /\ menuVisible' = FALSE /\ UNCHANGED <<unit, marks>>
    BY <1>0, <1>1 DEF Resume, CloseRaises, Types, marks
  <2> QED
    BY <1>0, <1>1, <2>1, RaisesIs, GoesOnSteps DEF CloseRaises, Threads
<1>2. CASE ~ (CloseRaises /\ UNCHANGED cache)
  <2>1. PICK answer \in Status :
         /\ Ask(w.target, answer)
         /\ IF answer = "active" THEN GoTo("main", "thaw")
            ELSE IF w.target \in Managed THEN GoTo("main", "launch")
            ELSE Becomes("main", LoopOver(Displays \ {w.target}, "activate", w.target))
    BY <1>2, <1>w DEF Resume, Target
  <2>2. Types' /\ menuVisible' = FALSE /\ UNCHANGED <<unit, marks>>
    BY <1>0, <1>2, <2>1, AskIs DEF Resume, Types, marks
  <2>3. CASE GoTo("main", "thaw") \/ (w.target \in Managed /\ GoTo("main", "launch"))
    <3>1. GoesOn("main")
      BY <1>0, <1>w, <2>3, OpeningIs DEF Opening
    <3> QED
      BY <2>2, <3>1, GoesOnSteps DEF Threads
  <2>4. CASE w.target \notin Managed /\ Becomes("main", LoopOver(Displays \ {w.target}, "activate", w.target))
    <3>1. LET r == LoopOver(Displays \ {w.target}, "activate", w.target)
          IN  r \in ThreadRecord /\ Shape(r) /\ \A t \in Threads : Guarded(t, r)
      BY <1>0, <2>4, LoopIs
    <3>2. GoesOn("main")
      BY <2>4, <3>1 DEF Becomes, GoesOn, Threads
    <3> QED
      BY <2>2, <3>2, GoesOnSteps DEF Threads
  <2> QED
    BY <2>1, <2>3, <2>4
<1> QED
  BY <1>1, <1>2

LEMMA LaunchKeeps ==
  ASSUME IInv, LaunchManaged
  PROVE  IInv'
<1>1. Types /\ ThreadsOK /\ Target \in Managed
  BY DEF IInv, ThreadsOK, Threads, LaunchManaged, At, Shape, Target
<1>2. CloseRaises \/ Launch(Target)
  BY DEF LaunchManaged
<1>3. /\ GoesOn("main")
      /\ app' \in Managed \cup {None, "plain"} /\ settling' \in BOOLEAN
      /\ activeApp' \in Displays \cup {None, "plain"}
  BY <1>1, <1>2, LaunchIs
<1>4. Types' /\ menuVisible' = FALSE /\ UNCHANGED <<unit, marks>>
  BY <1>1, <1>3 DEF LaunchManaged, Types, marks
<1> QED
  BY <1>3, <1>4, GoesOnSteps DEF Threads

LEMMA ActivateKeeps ==
  ASSUME IInv, Activate
  PROVE  IInv'
<1>1. /\ Types /\ ThreadsOK
      /\ thread["main"].pc = "activate" /\ thread["main"].target \notin Managed
  BY DEF IInv, ThreadsOK, Threads, Activate, At, Shape
<1>2. Types' /\ menuVisible' = FALSE /\ UNCHANGED <<unit, marks>>
  BY <1>1 DEF Activate, CloseRaises, Types, marks
<1>3. GoesOn("main")
  <2>1. CASE GoTo("main", "start")
    BY <1>1, <2>1, OpeningIs DEF Opening
  <2>2. CASE CloseRaises
    BY <1>1, <2>2, RaisesIs DEF CloseRaises
  <2> QED
    BY <2>1, <2>2 DEF Activate
<1> QED
  BY <1>2, <1>3, GoesOnSteps DEF Threads

(* The display that comes up is the one that may not be safe, and is       *)
(* covered unless the launcher is hidden and no exit callback knows of it. *)
LEMMA ComesKeeps ==
  ASSUME IInv, Types', NEW r \in ThreadRecord, Shape(r), r.pc \in {"opened", "awaitup"},
         r.target \in Displays, thread["main"].target = r.target, thread["main"].pc \in Opening,
         thread' = [thread EXCEPT !["main"] = r],
         UNCHANGED menuVisible,
         NEW state, Comes(r.target, state)
  PROVE  IInv'
<1> DEFINE d == r.target
<1>0. Types /\ ThreadsOK /\ Guarded("main", thread["main"]) /\ Owner
  BY DEF IInv, AllGuarded, Threads
<1>1. ThreadsOK' /\ thread'["main"] = r /\ thread'["exit"] = thread["exit"]
  BY <1>0, ThreadMoves DEF Threads
<1>2. \A e \in Displays \ {d} : Safe(e)
  BY <1>0, FineIs DEF Guarded, Threads
<1>3. /\ \A e \in Displays \ {d} : /\ Up(e)' <=> Up(e)
                                   /\ e \in excused' <=> e \in excused
                                   /\ e \in overtaken' <=> e \in overtaken
      /\ (thread["exit"].pc \in {"idle", "show", "ending"} /\ ~menuVisible) \/ d \in overtaken'
  BY <1>0 DEF Comes, Up, Types
<1>4. \A e \in Displays \ {d} : Safe(e)' /\ Covered(e)'
  BY <1>2, <1>3 DEF Safe, Covered
<1>5. Guarded("main", r)'
  BY <1>4 DEF Guarded, Fine, Loops, Pausing, Opening
<1>6. PICK q : q = thread["exit"]
  OBVIOUS
<1>7. CASE d \in overtaken'
  <2>1. \A e \in Displays : Covered(e)'
    BY <1>4, <1>7 DEF Covered
  <2>2. Guarded("exit", q)'
    BY <2>1 DEF Guarded, Fine
  <2> QED
    BY <1>1, <1>4, <1>5, <1>6, <2>1, <2>2
       DEF IInv, AllGuarded, AtMostOne, Owner, Threads, Guarded, Fine, Loops, Pending
<1>8. CASE thread["exit"].pc \in {"idle", "show", "ending"} /\ ~menuVisible
  <2>1. Guarded("exit", q)'
    BY <1>6, <1>8 DEF Guarded, Loops, Pausing, Opening
  <2>2. ~ menuVisible'
    BY <1>8
  <2> QED
    BY <1>1, <1>4, <1>5, <1>6, <2>1, <2>2
       DEF IInv, AllGuarded, AtMostOne, Owner, Threads, Guarded, Fine, Loops, Pending
<1> QED
  BY <1>3, <1>7, <1>8

LEMMA ComesIs ==
  ASSUME Types, NEW d \in Displays, NEW state \in {"inactive", "activating", "active", "frozen"},
         d \in Managed => state # "activating", Comes(d, state)
  PROVE  /\ unit' \in [Displays -> {"inactive", "activating", "active", "frozen"}]
         /\ \A e \in Managed : unit'[e] # "activating"
         /\ excused' \subseteq Displays /\ overtaken' \subseteq Displays
BY NamesAre DEF Types, Comes

LEMMA ThawKeeps ==
  ASSUME IInv, Thaw
  PROVE  IInv'
<1> DEFINE w == thread["main"]
<1>0. Types /\ ThreadsOK /\ w \in ThreadRecord /\ Shape(w) /\ w.pc = "thaw" /\ w.target \in Displays
  BY DEF IInv, ThreadsOK, Threads, Thaw, At, Shape, Opening
<1>1. /\ UNCHANGED <<shown, suppressed, app, events>>
      /\ cache' \in [Displays -> Status \cup {None}]
  BY <1>0 DEF Thaw, Types, ClearCaches
<1>2. CASE Comes(w.target, "active") /\ GoTo("main", "opened")
  <2>1. PICK r : r = [w EXCEPT !.pc = "opened"]
    OBVIOUS
  <2>2. r \in ThreadRecord /\ r.pc = "opened" /\ r.target = w.target
    BY <1>0, <2>1 DEF ThreadRecord, Places
  <2>3. thread' = [thread EXCEPT !["main"] = r]
    BY <1>2, <2>1 DEF GoTo
  <2>4. Shape(r)
    BY <1>0, <2>2 DEF Shape, Loops, Pausing, Opening
  <2>5. Types'
    BY <1>0, <1>1, <1>2, ComesIs DEF Types, shown
  <2>6. Comes(r.target, "active")
    BY <1>2, <2>2
  <2> QED
    BY <1>0, <1>1, <2>2, <2>3, <2>4, <2>5, <2>6, ComesKeeps DEF shown, Opening
<1>3. CASE UNCHANGED <<unit, marks>> /\ \E place \in {"resumestart", "start"} :
             w.target \notin Managed /\ GoTo("main", place)
  <2>1. Types'
    BY <1>0, <1>1, <1>3 DEF Types, shown, marks
  <2>2. GoesOn("main")
    BY <1>0, <1>3, OpeningIs DEF Opening
  <2> QED
    BY <1>1, <1>3, <2>1, <2>2, GoesOnSteps DEF shown, Threads
<1>4. CASE UNCHANGED <<unit, marks>> /\ Shows("main")
  <2>1. Types'
    BY <1>0, <1>1, <1>4 DEF Types, shown, marks
  <2>2. GoesOn("main")
    BY <1>0, <1>4, ShowsIs DEF Threads
  <2> QED
    BY <1>1, <1>4, <2>1, <2>2, GoesOnSteps DEF shown, Threads
<1> QED
  BY <1>2, <1>3, <1>4, NamesAre DEF Thaw, Target

LEMMA StartKeeps ==
  ASSUME IInv, ResumeStarts \/ Starts
  PROVE  IInv'
<1> DEFINE w == thread["main"]
<1>0. PICK place \in {"resumestart", "start"}, next \in {"awaitup", "opened"} : StartUnit(place, next)
  BY DEF ResumeStarts, Starts
<1>1. /\ Types /\ ThreadsOK /\ w \in ThreadRecord /\ Shape(w) /\ w.pc = place
      /\ w.target \in Displays /\ w.target \notin Managed
  BY <1>0 DEF IInv, ThreadsOK, Threads, StartUnit, At, Shape, Opening
<1>2. /\ UNCHANGED <<shown, suppressed, app, events>>
      /\ cache' \in [Displays -> Status \cup {None}]
  BY <1>0, <1>1 DEF StartUnit, Types, ClearCaches
<1>3. CASE GoTo("main", next) /\ \E state \in {"active", "activating", "frozen"} : Comes(w.target, state)
  <2>1. PICK r : r = [w EXCEPT !.pc = next]
    OBVIOUS
  <2>2. r \in ThreadRecord /\ r.pc = next /\ r.target = w.target
    BY <1>1, <2>1 DEF ThreadRecord, Places
  <2>3. thread' = [thread EXCEPT !["main"] = r]
    BY <1>3, <2>1 DEF GoTo
  <2>4. Shape(r)
    BY <1>1, <2>2 DEF Shape, Loops, Pausing, Opening
  <2>5. PICK state \in {"active", "activating", "frozen"} : Comes(r.target, state)
    BY <1>3, <2>2
  <2>6. Types'
    BY <1>1, <1>2, <2>2, <2>5, ComesIs DEF Types, shown
  <2> QED
    BY <1>1, <1>2, <2>2, <2>3, <2>4, <2>5, <2>6, ComesKeeps DEF shown, Opening
<1>4. CASE UNCHANGED <<unit, marks>> /\ (GoTo("main", "start") \/ Shows("main"))
  <2>1. Types'
    BY <1>1, <1>2, <1>4 DEF Types, shown, marks
  <2>2. CASE GoTo("main", "start")
    <3>1. GoesOn("main")
      BY <1>1, <2>2, OpeningIs DEF Opening
    <3> QED
      BY <1>2, <1>4, <2>1, <3>1, GoesOnSteps DEF shown, Threads
  <2>3. CASE Shows("main")
    BY <1>1, <1>2, <1>4, <2>1, <2>3, ShowsIs, GoesOnSteps DEF shown, Threads
  <2> QED
    BY <1>4, <2>2, <2>3
<1> QED
  BY <1>0, <1>1, <1>3, <1>4 DEF StartUnit, Target, Exists

LEMMA OpenedKeeps ==
  ASSUME IInv, AwaitUp \/ Opened
  PROVE  IInv'
<1> DEFINE w == thread["main"]
<1>0. /\ Types /\ ThreadsOK /\ w.pc \in {"awaitup", "opened"}
      /\ w.target \in Displays /\ (w.pc = "awaitup" => w.target \notin Managed)
  BY DEF IInv, ThreadsOK, Threads, AwaitUp, Opened, At, Shape, Opening
<1>1. CASE AwaitUp
  <2>1. PICK answer \in Status : /\ Ask(w.target, answer)
                                 /\ GoTo("main", IF answer \in {"active", "activating"} THEN "opened" ELSE "start")
    BY <1>1 DEF AwaitUp, Target
  <2>2. Types' /\ UNCHANGED <<unit, marks, menuVisible>>
    BY <1>0, <1>1, <2>1, AskIs DEF AwaitUp, Types, shown, marks
  <2>3. (GoTo("main", "opened") \/ GoTo("main", "start")) /\ w.pc = "awaitup"
    BY <1>1, <2>1 DEF AwaitUp, At
  <2>4. GoesOn("main")
    BY <1>0, <2>3, OpeningIs DEF Opening
  <2> QED
    BY <2>2, <2>4, GoesOnSteps DEF Threads
<1>2. CASE Opened
  <2>1. Types' /\ UNCHANGED <<unit, marks, menuVisible>>
    BY <1>0, <1>2 DEF Opened, Target, Types, world, marks
  <2>2. GoesOn("main")
    BY <1>2, IdleIs DEF Opened, Becomes, GoesOn, Threads
  <2> QED
    BY <2>1, <2>2, GoesOnSteps DEF Threads
<1> QED
  BY <1>1, <1>2

-----------------------------------------------------------------------------
(* show_menu()                                                             *)

(* Without a reclaim the launcher is visible already, and owns the panel. *)
LEMMA ShowBeginsKeeps ==
  ASSUME IInv, NEW t \in Threads, ShowBegins(t)
  PROVE  IInv'
<1>0. Types /\ Owner
  BY DEF IInv
<1>1. Types' /\ UNCHANGED <<menuVisible, unit, marks>>
  BY <1>0 DEF ShowBegins, Types, world, marks
<1>2. GoesOn(t)
  <2>1. CASE Reclaims
    <3>1. LET r == LoopOver(Displays, "render", None) IN
          r \in ThreadRecord /\ Shape(r) /\ Guarded(t, r)
      BY LoopIs
    <3> QED
      BY <2>1, <3>1 DEF ShowBegins, Becomes, GoesOn
  <2>2. CASE ~ Reclaims
    <3>1. PICK r : r = [Idle EXCEPT !.pc = "render"]
      OBVIOUS
    <3>2. r \in ThreadRecord /\ r.pc = "render"
      BY <3>1 DEF Idle, ThreadRecord, Places
    <3>3. \A d \in Displays : Covered(d)
      BY <1>0, <2>2 DEF Reclaims, Owner
    <3>4. Shape(r) /\ Guarded(t, r)
      BY <3>2, <3>3 DEF Shape, Guarded, Loops, Pausing, Opening
    <3> QED
      BY <2>2, <3>1, <3>2, <3>4 DEF ShowBegins, Becomes, GoesOn
  <2> QED
    BY <2>1, <2>2
<1> QED
  BY <1>1, <1>2, GoesOnSteps

(* The launcher is drawn when every display is covered. *)
LEMMA RenderKeeps ==
  ASSUME IInv, NEW t \in Threads, ShowRenders(t) \/ ShowFails(t)
  PROVE  IInv'
<1>0. Types /\ ThreadsOK /\ Guarded(t, thread[t]) /\ thread[t].pc = "render"
  BY DEF IInv, AllGuarded, ShowRenders, ShowFails, At
<1>1. Types' /\ UNCHANGED <<unit, marks>>
  BY <1>0 DEF ShowRenders, ShowFails, Types, world, marks
<1>2. \A d \in Displays : Covered(d)
  BY <1>0 DEF Guarded
<1>3. GoesOn(t)
  BY <1>0, ShowsIs DEF ShowRenders, ShowFails
<1> QED
  BY <1>1, <1>2, <1>3, GoesOnSteps

LEMMA ShowEndsKeeps ==
  ASSUME IInv, NEW t \in Threads, ShowEnds(t)
  PROVE  IInv'
<1>1. Types' /\ UNCHANGED <<menuVisible, unit, marks>>
  BY DEF IInv, ShowEnds, Types, world, marks
<1>2. GoesOn(t)
  BY IdleIs DEF ShowEnds, Becomes, GoesOn
<1> QED
  BY <1>1, <1>2, GoesOnSteps

-----------------------------------------------------------------------------
(* The other users of systemd, and time                                    *)

(* What others start or disturb is excused. *)
LEMMA OthersKeep ==
  ASSUME IInv, (\E d \in Displays : Others(d)) \/ Settle \/ UNCHANGED vars
  PROVE  IInv'
<1>0. Types
  BY DEF IInv
<1>1. UNCHANGED <<menuVisible, thread>>
  BY DEF Others, OthersStart, OthersStop, ComesUp, SuppressionExpires, Settle, vars, shown, world
<1>2. Types' /\ Steady
  <2>1. CASE \E d \in Displays : OthersStart(d)
    BY <1>0, <2>1, NamesAre DEF OthersStart, Types, Steady, Safe, Covered, Up, shown
  <2>2. CASE \E d \in Displays : OthersStop(d)
    BY <1>0, <2>2, NamesAre DEF OthersStop, Types, Steady, Safe, Covered, Up, shown
  <2>3. CASE \E d \in Displays : ComesUp(d)
    BY <1>0, <2>3 DEF ComesUp, Types, Steady, Safe, Covered, Up, shown, marks
  <2>4. CASE (\E d \in Displays : SuppressionExpires(d)) \/ Settle \/ UNCHANGED vars
    <3>1. Types' /\ UNCHANGED <<unit, marks>>
      BY <1>0, <2>4 DEF SuppressionExpires, Settle, vars, Types, shown, world, marks
    <3> QED
      BY <3>1, SteadyIs
  <2> QED
    BY <2>1, <2>2, <2>3, <2>4 DEF Others
<1> QED
  BY <1>1, <1>2, OthersStep

-----------------------------------------------------------------------------
(* The theorems                                                            *)

LEMMA InitHolds == Init => IInv
<1> SUFFICES ASSUME Init PROVE IInv
  OBVIOUS
<1>1. Types
  <2>1. /\ unit \in [Displays -> {"inactive", "activating", "active", "frozen"}]
        /\ \A d \in Managed : unit[d] # "activating"
    BY NamesAre DEF Init
  <2>2. cache \in [Displays -> Status \cup {None}] /\ suppressed \subseteq Managed
        /\ excused \subseteq Displays /\ overtaken \subseteq Displays
    BY DEF Init
  <2>3. menuVisible \in BOOLEAN /\ settling \in BOOLEAN /\ transition \in BOOLEAN
    BY DEF Init
  <2>4. activeApp = None /\ app = None /\ events = 0
    BY DEF Init
  <2>5. events \in 0 .. MaxEvents
    BY <2>4, NamesAre
  <2> QED
    BY <2>1, <2>2, <2>3, <2>4, <2>5 DEF Types
<1>2. ThreadsOK /\ AllGuarded
  BY IdleIs DEF Init, ThreadsOK, AllGuarded, Threads
<1>3. \A d \in Displays : Safe(d) /\ Covered(d)
  BY DEF Init, Safe, Covered, Up
<1> QED
  BY <1>1, <1>2, <1>3 DEF IInv, AtMostOne, Owner

LEMMA StepKeeps == IInv /\ [Next]_vars => IInv'
<1> SUFFICES ASSUME IInv, [Next]_vars PROVE IInv'
  OBVIOUS
<1>1. CASE \E hold \in Holds : Press(hold)
  BY <1>1, PressKeeps
<1>2. CASE \E d \in Displays : OpenDisplay(d) \/ StopSelected(d)
  BY <1>2, SelectKeeps
<1>3. CASE StopActiveUnit \/ StopApplication \/ OpenApplication \/ ApplicationExits
  BY <1>3, StopUnitKeeps, StopApplicationKeeps, ApplicationKeeps
<1>4. CASE \E t \in Threads : Quiesce(t)
  BY <1>4, LookKeeps, QuiesceDoneKeeps DEF Quiesce
<1>5. CASE \E t \in Threads : Pause(t)
  BY <1>5, PauseKeeps
<1>6. CASE \E t \in Threads : Show(t)
  BY <1>6, ShowBeginsKeeps, RenderKeeps, ShowEndsKeeps DEF Show
<1>7. CASE Open
  BY <1>7, ResumeKeeps, LaunchKeeps, ActivateKeeps, ThawKeeps, StartKeeps, OpenedKeeps DEF Open
<1>8. CASE (\E d \in Displays : Others(d)) \/ Settle \/ UNCHANGED vars
  BY <1>8, OthersKeep
<1> QED
  BY <1>1, <1>2, <1>3, <1>4, <1>5, <1>6, <1>7, <1>8 DEF Next

(* The inductive invariant holds in every reachable state. *)
THEOREM Invariant == Spec => []IInv
<1> QED
  BY InitHolds, StepKeeps, PTL DEF Spec

(* The types of the displays, of what the daemon remembers of them and of  *)
(* its two threads.                                                        *)
THEOREM TypeCorrect == Spec => []TypeOK
<1>1. IInv => TypeOK
  <2> SUFFICES ASSUME IInv PROVE TypeOK
    OBVIOUS
  <2>1. {menuVisible, settling, transition} \subseteq BOOLEAN
    BY Zenon DEF IInv, Types
  <2> QED
    BY <2>1 DEF IInv, Types, ThreadsOK, ThreadRecord, TypeOK
<1> QED
  BY <1>1, Invariant, PTL

(* Two displays draw at once only if one of them was not paused for a      *)
(* failed call, was passed over for a wrong answer or a slow start, or was *)
(* started or disturbed behind the daemon's back.                          *)
THEOREM OneDrawsAtATime == Spec => []OneDraws
<1>1. IInv => OneDraws
  BY DEF IInv, AtMostOne, Safe, Up, OneDraws, Draws
<1> QED
  BY <1>1, Invariant, PTL

(* show_menu(): one draws over a visible launcher only for these reasons,  *)
(* or because it was opened while the exit callback of an application was  *)
(* in show_menu(), past its look at the displays, or had just drawn the    *)
(* launcher that the opening had hidden.                                   *)
THEOREM LauncherAlone == Spec => []LauncherOwnsPanel
<1>1. IInv => LauncherOwnsPanel
  BY DEF IInv, Owner, Covered, Up, LauncherOwnsPanel, Draws
<1> QED
  BY <1>1, Invariant, PTL
=============================================================================
