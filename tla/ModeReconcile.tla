--------------------------- MODULE ModeReconcile ---------------------------
(***************************************************************************)
(* The mode reconciler of the manager daemon (manager/daemon.py): the      *)
(* operator asks for a mode in runtime/config/current-mode.json, from the  *)
(* web console, from the mode selector on the device or by opening a       *)
(* launcher entry that wants a mode of its own; the main thread of the     *)
(* daemon reads the file once a second, and starts and stops containers    *)
(* until they are what the mode says. Docker is changed by others too.     *)
(*                                                                         *)
(* Abstractions: a container is "up" or "stopped" (the code's 'healthy'    *)
(* and 'running' are never told apart by the reconciler), the request is   *)
(* the mode it selects, or "torn" while a plain write has truncated it,    *)
(* and the age of a cached status is the step CacheExpires.                *)
(***************************************************************************)
EXTENDS Integers, Sequences

CONSTANTS Media,          \* the media containers, in the order they are handled
          Requests,       \* modes an operator asks for in the console or on the device
          MenuModes,      \* modes that launcher entries ask for (activate_mode)
          WaitRounds,     \* looks at a tunnel that was just started (15 in the code)
          MaxEdits,       \* bound: requests written
          MaxFaults       \* bound: docker misbehaving, or commanded by others

ASSUME WaitAssumption == WaitRounds \in Nat \ {0}
ASSUME BoundAssumption == MaxEdits \in Nat /\ MaxFaults \in Nat

Gluetun == "rocky-transfer-gluetun"
Qbt     == "rocky-transfer-qbittorrent"
Pihole  == "rocky-pihole"
Printer == "klipper"      \* stands for klipper, moonraker and nginx, systemd units

ASSUME MediaAssumption == Media \in Seq(STRING \ {Gluetun, Qbt, Pihole, Printer})

Catalog == {"safe", "torrent_fortress", "entertainment", "pihole_only",
            "daily_driver", "print_lab"}

Units == {Gluetun, Qbt, Pihole, Printer} \cup {Media[i] : i \in 1..Len(Media)}
State == {"up", "stopped"}
Seen  == State \cup {"unknown"}

VARIABLES request,   \* current-mode.json: a mode, or "torn"
          writer,    \* a plain write under way: who writes what, to which inode
          units,     \* what runs, really
          cache,     \* _docker_status_cache, "none" when absent or expired
          plan,      \* what is left of the pass of the main thread
          step,      \* where it is in the first goal of the plan
          tunnel,    \* gluetun_health, the local variable of the pass
          rounds,    \* rounds left of the wait for the tunnel
          doubt,     \* history: units that may not be what the reconciler last knew
          edits, faults

vars == <<request, writer, units, cache, plan, step, tunnel, rounds, doubt,
          edits, faults>>

NoWriter == [who |-> "nobody", mode |-> "safe", orphan |-> FALSE]

----------------------------------------------------------------------------
(* What a mode demands: the goals of a pass, in the order of the code.     *)

Goal(u, w) == [unit |-> u, want |-> w]
EachMedia(w) == [i \in 1..Len(Media) |-> Goal(Media[i], w)]

\* Mutant: the tunnel is stopped before what runs behind it.
TunnelStopsFirst(m) ==
    IF m = "safe" THEN <<Goal(Qbt, "off"), Goal(Gluetun, "on")>>
    ELSE IF m = "torrent_fortress"
      THEN <<Goal(Gluetun, "tunnel"), Goal(Qbt, "on_behind_tunnel")>>
    ELSE IF m = "entertainment"
      THEN <<Goal(Gluetun, "tunnel"), Goal(Qbt, "only_behind_tunnel")>>
    ELSE <<Goal(Gluetun, "off"), Goal(Qbt, "off")>>

TransferGoals(m) ==
    CASE m = "safe" ->
           <<Goal(Qbt, "off"), Goal(Gluetun, "on")>>
      [] m = "torrent_fortress" ->
           <<Goal(Gluetun, "tunnel"), Goal(Qbt, "on_behind_tunnel")>>
      [] m = "entertainment" ->
           <<Goal(Gluetun, "tunnel"), Goal(Qbt, "only_behind_tunnel")>>
      [] m \in {"pihole_only", "daily_driver"} ->
           <<Goal(Qbt, "off"), Goal(Gluetun, "off")>>
      [] m = "print_lab" ->
           <<Goal(Qbt, "off"), Goal(Gluetun, "off"), Goal(Printer, "on")>>

\* _reconcile_mode_actions(): Pi-hole first, in every mode.
Goals(m) ==
    <<Goal(Pihole, "on")>>
      \o (IF m \in Catalog
            THEN TransferGoals(m) \o EachMedia(IF m = "entertainment" THEN "on" ELSE "off")
            ELSE <<>>)

\* The mode a reader of the file sees: an unreadable file gives the built-in
\* request, a mode that is not in the catalog gives safe.
Effective(r) ==
    IF r = "torn" THEN "torrent_fortress"
    ELSE IF r \in Catalog THEN r ELSE "safe"

\* Mutant: the transfer is started whatever was seen of the tunnel.
WishWithoutTunnel(g) ==
    CASE g.want \in {"off"}     -> "stopped"
      [] g.want = "observe"     -> "as_it_is"
      [] OTHER                  -> "up"

\* What the first goal asks of its unit, given what was seen of the tunnel.
Wish(g) ==
    CASE g.want \in {"on", "tunnel"}      -> "up"
      [] g.want = "off"                  -> "stopped"
      [] g.want = "on_behind_tunnel"     -> IF tunnel = "up" THEN "up" ELSE "as_it_is"
      [] g.want = "only_behind_tunnel"   -> IF tunnel = "up" THEN "up" ELSE "stopped"
      [] OTHER                           -> "as_it_is"

----------------------------------------------------------------------------
Init ==
    /\ request \in Requests
    /\ writer = NoWriter
    /\ units \in [Units -> State]
    /\ cache = [u \in Units |-> "none"]
    /\ plan = <<>> /\ step = "look" /\ tunnel = "unknown" /\ rounds = 0
    /\ doubt = Units
    /\ edits = 0 /\ faults = 0

----------------------------------------------------------------------------
(* The writers of the request.                                             *)

\* The console replaces the file: whoever holds the old one open goes on
\* writing to a file that nobody will read.
ConsoleRequests(m) ==
    /\ edits < MaxEdits
    /\ edits' = edits + 1
    /\ request' = m
    /\ writer' = [writer EXCEPT !.orphan = writer.who # "nobody"]
    /\ UNCHANGED <<units, cache, plan, step, tunnel, rounds, doubt, faults>>

\* write_text(): the file is truncated when it is opened.
Truncate(who, m) ==
    /\ edits < MaxEdits
    /\ writer = NoWriter
    /\ edits' = edits + 1
    /\ request' = "torn"
    /\ writer' = [who |-> who, mode |-> m, orphan |-> FALSE]

\* The mode selector, a foreground application.
SelectorOpens(m) ==
    /\ Truncate("selector", m)
    /\ UNCHANGED <<units, cache, plan, step, tunnel, rounds, doubt, faults>>

Written == IF writer.orphan THEN request ELSE writer.mode

SelectorWrites ==
    /\ writer.who = "selector"
    /\ request' = Written
    /\ writer' = NoWriter
    /\ UNCHANGED <<units, cache, plan, step, tunnel, rounds, doubt, edits, faults>>

\* The writer is killed, the disk is full, the power goes, in the middle of it:
\* nothing restores the file.
WriteFails ==
    /\ writer.who # "nobody"
    /\ faults < MaxFaults
    /\ faults' = faults + 1
    /\ writer' = NoWriter
    /\ UNCHANGED <<request, units, cache, plan, step, tunnel, rounds, doubt, edits>>

----------------------------------------------------------------------------
(* The main thread.                                                        *)

Idle == plan = <<>> /\ writer.who # "daemon"

Begin(goals) ==
    /\ plan' = goals
    /\ step' = "look"
    /\ tunnel' = "unknown"
    /\ rounds' = 0

\* _button_loop_should_continue(): the payload that is resolved first looks at
\* the media containers. Its signature holds the time, so it always differs.
Poll ==
    /\ Idle
    /\ Begin(EachMedia("observe") \o Goals(Effective(request)))
    /\ UNCHANGED <<request, writer, units, cache, doubt, edits, faults>>

\* A launcher entry that wants a mode: _request_mode_change() does nothing when
\* the request it reads selects that mode already.
MenuOpens(m) ==
    /\ Idle
    /\ (IF request = "torn" THEN "torrent_fortress" ELSE request) # m
    /\ Truncate("daemon", m)
    /\ UNCHANGED <<units, cache, plan, step, tunnel, rounds, doubt, faults>>

\* ... and when it was written, enforces it without reading the file again.
MenuWrites ==
    /\ writer.who = "daemon"
    /\ request' = Written
    /\ writer' = NoWriter
    /\ cache' = [u \in Units |-> "none"]
    /\ Begin(Goals(writer.mode))
    /\ UNCHANGED <<units, doubt, edits, faults>>

\* docker inspect: a time-out is "unknown", an error of docker is "stopped".
Inspect(u, s) ==
    \/ /\ s = units[u]
       /\ doubt' = doubt \ {u}
       /\ UNCHANGED faults
    \/ /\ s \in {"unknown", "stopped"} \ {units[u]}
       /\ u # Printer
       /\ faults < MaxFaults
       /\ faults' = faults + 1
       /\ doubt' = doubt \cup {u}

\* _docker_container_health(): a status of less than a second ago is not asked again.
Status(u, s) ==
    \/ /\ cache[u] # "none"
       /\ s = cache[u]
       /\ UNCHANGED <<cache, doubt, faults>>
    \/ /\ cache[u] = "none"
       /\ Inspect(u, s)
       /\ cache' = IF u = Printer THEN cache ELSE [cache EXCEPT ![u] = s]

MustCall(g, s) ==
    \/ Wish(g) = "up" /\ s = "stopped"
    \/ Wish(g) = "stopped" /\ s # "stopped"

\* What is published before the pass raises: the pass is left to the next poll.
PollFails ==
    /\ plan # <<>>
    /\ Head(plan).want = "observe"
    /\ faults < MaxFaults
    /\ faults' = faults + 1
    /\ plan' = <<>>
    /\ UNCHANGED <<request, writer, units, cache, step, tunnel, rounds, doubt, edits>>

\* The goal leaves its unit alone, whatever it runs as.
Skip ==
    /\ plan # <<>>
    /\ step = "look"
    /\ Head(plan).want # "observe"
    /\ Wish(Head(plan)) = "as_it_is"
    /\ plan' = Tail(plan)
    /\ UNCHANGED <<request, writer, units, cache, step, tunnel, rounds, doubt, edits, faults>>

Look ==
    /\ plan # <<>>
    /\ step = "look"
    /\ LET g == Head(plan) IN
       /\ g.want = "observe" \/ Wish(g) # "as_it_is"
       /\ \E s \in Seen :
            /\ Status(g.unit, s)
            /\ tunnel' = IF g.want = "tunnel" THEN s ELSE tunnel
            /\ IF MustCall(g, s)
                 THEN step' = "call" /\ plan' = plan
                 ELSE step' = "look" /\ plan' = Tail(plan)
    /\ UNCHANGED <<request, writer, units, rounds, edits>>

\* The caches are dropped after every call, obeyed or not.
CacheAfterCall == [u \in Units |-> "none"]

\* _docker_ensure(): its result is not looked at.
Call ==
    /\ plan # <<>>
    /\ step = "call"
    /\ LET g == Head(plan) IN
       /\ \/ /\ units' = [units EXCEPT ![g.unit] = Wish(g)]
             /\ doubt' = doubt \ {g.unit}
             /\ UNCHANGED faults
          \/ /\ faults < MaxFaults
             /\ faults' = faults + 1
             /\ doubt' = doubt \cup {g.unit}
             /\ UNCHANGED units
       /\ cache' = IF g.unit = Printer THEN cache ELSE CacheAfterCall
       /\ IF g.want = "tunnel"
            THEN step' = "wait" /\ rounds' = WaitRounds /\ plan' = plan
            ELSE step' = "look" /\ rounds' = 0 /\ plan' = Tail(plan)
    /\ UNCHANGED <<request, writer, tunnel, edits>>

WaitIsOver(s) == s = "up" \/ rounds = 1

\* One round of the wait: two seconds later no cached status is young enough.
Wait ==
    /\ plan # <<>>
    /\ step = "wait"
    /\ \E s \in Seen :
         /\ Inspect(Gluetun, s)
         /\ cache' = [u \in Units |-> IF u = Gluetun THEN s ELSE "none"]
         /\ tunnel' = s
         /\ rounds' = rounds - 1
         /\ IF WaitIsOver(s)
              THEN step' = "look" /\ plan' = Tail(plan)
              ELSE UNCHANGED <<step, plan>>
    /\ UNCHANGED <<request, writer, units, edits>>

----------------------------------------------------------------------------
(* Time, and everybody else who commands docker: the console's docker      *)
(* actions, a shell, a container that dies.                                *)

\* Mutant: a cached status stays valid until the next docker call.
CacheNeverExpires(u) == FALSE

CacheExpires(u) ==
    /\ cache[u] # "none"
    /\ cache' = [cache EXCEPT ![u] = "none"]
    /\ UNCHANGED <<request, writer, units, plan, step, tunnel, rounds, doubt, edits, faults>>

OthersChange(u) ==
    /\ faults < MaxFaults
    /\ faults' = faults + 1
    /\ units' = [units EXCEPT ![u] = CHOOSE s \in State : s # units[u]]
    /\ doubt' = doubt \cup {u}
    /\ UNCHANGED <<request, writer, cache, plan, step, tunnel, rounds, edits>>

----------------------------------------------------------------------------
Next ==
    \/ \E m \in Requests : ConsoleRequests(m) \/ SelectorOpens(m)
    \/ \E m \in MenuModes : MenuOpens(m)
    \/ SelectorWrites \/ WriteFails \/ MenuWrites
    \/ Poll \/ PollFails \/ Skip \/ Look \/ Call \/ Wait
    \/ \E u \in Units : CacheExpires(u) \/ OthersChange(u)

Spec == Init /\ [][Next]_vars

\* The main thread runs on, a write that began goes on, and time passes.
Fairness ==
    /\ WF_vars(Poll) /\ WF_vars(Skip) /\ WF_vars(Look) /\ WF_vars(Call) /\ WF_vars(Wait)
    /\ WF_vars(MenuWrites) /\ WF_vars(SelectorWrites)
    /\ \A u \in Units : WF_vars(CacheExpires(u))

FairSpec == Spec /\ Fairness

----------------------------------------------------------------------------
Wants == {"on", "off", "tunnel", "on_behind_tunnel", "only_behind_tunnel", "observe"}

\* Types of the state; a wait never runs more rounds than the loop has.
TypeOK ==
    /\ request \in Requests \cup MenuModes \cup {"torn"}
    /\ writer \in {NoWriter} \cup
                   [who : {"selector", "daemon"}, mode : Requests \cup MenuModes, orphan : BOOLEAN]
    /\ units \in [Units -> State]
    /\ cache \in [Units -> Seen \cup {"none"}]
    /\ plan \in Seq([unit : Units, want : Wants])
    /\ step \in {"look", "call", "wait"}
    /\ tunnel \in Seen
    /\ rounds \in 0..WaitRounds
    /\ step = "wait" => rounds > 0
    /\ doubt \subseteq Units
    /\ edits \in 0..MaxEdits
    /\ faults \in 0..MaxFaults

\* qBittorrent is started behind the tunnel only: when the reconciler starts it,
\* gluetun runs, unless somebody else or a failing docker changed that behind the
\* reconciler's back (a unit others touched is in doubt until it is looked at).
TunnelFirst ==
    [][ units[Qbt] = "stopped" /\ units'[Qbt] = "up" /\ Qbt \notin doubt'
          => units[Gluetun] = "up" \/ Gluetun \in doubt ]_vars

\* The tunnel is taken down only after the transfer: when the reconciler stops
\* gluetun, qBittorrent is stopped, with the same exception.
TransferLeavesFirst ==
    [][ units[Gluetun] = "up" /\ units'[Gluetun] = "stopped" /\ Gluetun \notin doubt'
          => units[Qbt] = "stopped" \/ Qbt \in doubt ]_vars

\* The containers are what mode m says, whoever started them.
Enforced(m) ==
    /\ units[Pihole] = "up"
    /\ units[Qbt] = IF m \in {"torrent_fortress", "entertainment"} THEN "up" ELSE "stopped"
    /\ units[Gluetun] = IF m \in {"safe", "torrent_fortress", "entertainment"} THEN "up" ELSE "stopped"
    /\ m = "print_lab" => units[Printer] = "up"
    /\ \A i \in 1..Len(Media) :
         units[Media[i]] = IF m = "entertainment" THEN "up" ELSE "stopped"

\* The mode asked for wins in the end: once nobody writes the request or commands
\* docker any more, the containers become what the request says and stay so, whatever
\* was read from a cache, enforced from an older request or failed on the way.
ModeEnforced == <>[]Enforced(Effective(request))

\* "Safe mode keeps the VPN tunnel up while leaving transfer disabled": where
\* nobody asks for a mode with transfers, the reconciler never starts them.
TransferOnlyOnRequest ==
    [][ (Requests \cup MenuModes) \cap {"torrent_fortress", "entertainment"} = {}
          => ~ (units[Qbt] = "stopped" /\ units'[Qbt] = "up" /\ Qbt \notin doubt') ]_vars

=============================================================================
