--------------------------- MODULE ForegroundSlot ---------------------------
(***************************************************************************)
(* What the runtime promises about foreground applications, with no word   *)
(* of threads, locks, signals or files: one slot, at most one live         *)
(* application in it, and every application's end announced at most once   *)
(* and only after it is over.  ApplicationManager.tla implements this      *)
(* specification (see Slot there).                                         *)
(***************************************************************************)
EXTENDS Naturals

CONSTANT MaxRuns   \* bound: application runs started over a whole behaviour

Runs == 1 .. MaxRuns

VARIABLES
  started,    \* how many runs were started so far; run r is the r-th of them
  slot,       \* the run that owns the slot, 0 when nobody does
  live,       \* the runs this instance of the runtime started that still run
  announced   \* announced[r]: how often the end of run r was announced

vars == <<started, slot, live, announced>>

Init ==
  /\ started = 0
  /\ slot = 0
  /\ live = {}
  /\ announced = [r \in Runs |-> 0]

(* A run may start only when no earlier run of this instance is alive. *)
Start ==
  /\ started < MaxRuns
  /\ live = {}
  /\ started' = started + 1
  /\ slot' = started + 1
  /\ live' = {started + 1}
  /\ UNCHANGED announced

End(r) ==
  /\ r \in live
  /\ live' = live \ {r}
  /\ UNCHANGED <<started, slot, announced>>

(* The owner's end is noticed: the slot is free again. *)
Vacate ==
  /\ slot # 0
  /\ slot \notin live
  /\ slot' = 0
  /\ UNCHANGED <<started, live, announced>>

Announce(r) ==
  /\ r \in 1 .. started
  /\ r \notin live
  /\ r # slot
  /\ announced[r] = 0
  /\ announced' = [announced EXCEPT ![r] = 1]
  /\ UNCHANGED <<started, slot, live>>

(* The runtime itself dies: it owns nothing any more. *)
Forget ==
  /\ slot' = 0
  /\ live' = {}
  /\ UNCHANGED <<started, announced>>

Next ==
  \/ Start
  \/ Vacate
  \/ Forget
  \/ \E r \in Runs : End(r) \/ Announce(r)

Spec == Init /\ [][Next]_vars

(* What the rest of the runtime may rely on: two applications never run at *)
(* once, the one that runs owns the slot, and no end is announced twice or *)
(* of an application that runs or owns the slot, then or ever after.       *)
Promise ==
  /\ \A r, s \in live : r = s
  /\ live \subseteq {slot}
  /\ \A r \in Runs : announced[r] <= 1 /\ (announced[r] = 1 => r \notin live /\ r # slot)
=============================================================================
