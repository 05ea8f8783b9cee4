------------------------ MODULE ModeReconcileProofs ------------------------
(***************************************************************************)
(* Theorems about the mode reconciler, for any list of media containers,   *)
(* any modes asked for and any number of requests and of faults: the       *)
(* order of the tunnel and the transfer.                                   *)
(***************************************************************************)
EXTENDS ModeReconcile, TLAPS

AllGoals == [unit : Units, want : Wants]

\* Goals that are about neither the tunnel nor the transfer.
Aside(p) == \A i \in 1..Len(p) : p[i].unit \notin {Gluetun, Qbt} /\ p[i].want # "tunnel"

\* A plan waits for the tunnel or commands it, not both, and it stops the tunnel only
\* after the transfer.
Ordered(p) ==
    /\ \A i \in 1..Len(p) :
         /\ p[i].want = "tunnel" => p[i].unit = Gluetun
         /\ p[i].unit = Gluetun => p[i].want \in {"on", "off", "tunnel"}
         /\ p[i].unit = Qbt => p[i].want \in {"off", "on_behind_tunnel", "only_behind_tunnel"}
    /\ \A i, j \in 1..Len(p) :
         /\ p[i].want = "tunnel" /\ p[j].unit = Gluetun => p[j].want = "tunnel"
         /\ p[i].unit = Gluetun /\ p[i].want = "off" /\ p[j].unit = Qbt
              => p[j].want = "off" /\ j < i

\* What a plan says of the transfer.
StopsTunnel(p)   == \E i \in 1..Len(p) : p[i].unit = Gluetun /\ p[i].want = "off"
HasTransfer(p)   == \E i \in 1..Len(p) : p[i].unit = Qbt

\* A command or a wait is about the first goal, which wants something of its unit.
StepMatches ==
    step # "look" =>
      /\ plan # <<>>
      /\ Head(plan).want # "observe"
      /\ Wish(Head(plan)) \in State
      /\ step = "wait" => Head(plan).want = "tunnel"

\* What a cache says is so, or in doubt.
CacheAgrees ==
    /\ cache[Printer] = "none"
    /\ \A u \in Units : cache[u] \in State => units[u] = cache[u] \/ u \in doubt

\* Once the tunnel was seen, the pass commands gluetun no more.
TunnelGoals ==
    tunnel # "unknown" => \A i \in 1..Len(plan) : plan[i].unit = Gluetun => plan[i].want = "tunnel"

\* What a pass saw up is up, or in doubt.
TunnelKept == tunnel = "up" => units[Gluetun] = "up" \/ Gluetun \in doubt

\* A pass that will stop the tunnel and is through with the transfer has stopped it.
TransferLeft ==
    StopsTunnel(plan) /\ ~ HasTransfer(plan) => units[Qbt] = "stopped" \/ Qbt \in doubt

IInv ==
    /\ TypeOK
    /\ Ordered(plan)
    /\ StepMatches
    /\ CacheAgrees
    /\ TunnelGoals
    /\ TunnelKept
    /\ TransferLeft

USE WaitAssumption, BoundAssumption, MediaAssumption

----------------------------------------------------------------------------
(* Plans.                                                                  *)

\* The units of the media are units, and none of the others.
LEMMA MediaUnits ==
  /\ {Gluetun, Qbt, Pihole, Printer} \subseteq Units
  /\ \A i \in 1..Len(Media) : Media[i] \in Units /\ Media[i] \notin {Gluetun, Qbt, Pihole, Printer}
<1>1. \A i \in 1..Len(Media) : Media[i] \in STRING \ {Gluetun, Qbt, Pihole, Printer}
  OBVIOUS
<1> QED
  BY <1>1 DEF Units

\* Goals about the media are beside the transfer.
LEMMA MediaAside ==
  ASSUME NEW w \in {"on", "off", "observe"}
  PROVE  EachMedia(w) \in Seq(AllGoals) /\ Aside(EachMedia(w))
<1>1. EachMedia(w) \in Seq(AllGoals)
  BY MediaUnits DEF EachMedia, Goal, AllGoals, Wants
<1>2. \A i \in 1..Len(EachMedia(w)) : i \in 1..Len(Media) /\ EachMedia(w)[i] = Goal(Media[i], w)
  BY DEF EachMedia
<1>3. \A i \in 1..Len(EachMedia(w)) :
        i \in 1..Len(Media) /\ EachMedia(w)[i].unit = Media[i] /\ EachMedia(w)[i].want = w
  <2> SUFFICES ASSUME NEW i \in 1..Len(EachMedia(w))
               PROVE  i \in 1..Len(Media) /\ EachMedia(w)[i].unit = Media[i] /\ EachMedia(w)[i].want = w
    OBVIOUS
  <2>1. i \in 1..Len(Media) /\ EachMedia(w)[i] = [unit |-> Media[i], want |-> w]
    BY <1>2 DEF Goal
  <2> QED
    BY <2>1
<1>4. Aside(EachMedia(w))
  BY <1>3, MediaUnits DEF Aside
<1> QED
  BY <1>1, <1>4

\* Goals aside, before or after a plan, leave its order as it is.
LEMMA AsideBefore ==
  ASSUME NEW p \in Seq(AllGoals), NEW q \in Seq(AllGoals), Aside(p), Ordered(q), StopsTunnel(q) => HasTransfer(q)
  PROVE  /\ p \o q \in Seq(AllGoals) /\ Ordered(p \o q)
         /\ StopsTunnel(p \o q) => HasTransfer(p \o q)
<1> DEFINE r == p \o q
<1>1. r \in Seq(AllGoals) /\ Len(r) = Len(p) + Len(q) /\ Len(p) \in Nat /\ Len(q) \in Nat
  OBVIOUS
<1>2. \A i \in 1..Len(r) : IF i <= Len(p) THEN i \in 1..Len(p) /\ r[i] = p[i]
                                         ELSE i - Len(p) \in 1..Len(q) /\ r[i] = q[i - Len(p)]
  OBVIOUS
<1>3. \A j \in 1..Len(q) : j + Len(p) \in 1..Len(r) /\ r[j + Len(p)] = q[j]
  OBVIOUS
<1> HIDE DEF r
<1>4. \A i \in 1..Len(r) : r[i].unit \in {Gluetun, Qbt} \/ r[i].want = "tunnel"
        => i \in Nat /\ i - Len(p) \in 1..Len(q) /\ r[i] = q[i - Len(p)]
  BY <1>2 DEF Aside
<1>5. Ordered(r)
  <2>1. ASSUME NEW i \in 1..Len(r)
        PROVE  /\ r[i].want = "tunnel" => r[i].unit = Gluetun
               /\ r[i].unit = Gluetun => r[i].want \in {"on", "off", "tunnel"}
               /\ r[i].unit = Qbt => r[i].want \in {"off", "on_behind_tunnel", "only_behind_tunnel"}
    BY <1>4 DEF Ordered
  <2>2. ASSUME NEW i \in 1..Len(r), NEW j \in 1..Len(r)
        PROVE  /\ r[i].want = "tunnel" /\ r[j].unit = Gluetun => r[j].want = "tunnel"
               /\ r[i].unit = Gluetun /\ r[i].want = "off" /\ r[j].unit = Qbt
                    => r[j].want = "off" /\ j - Len(p) < i - Len(p)
    <3> DEFINE a == i - Len(p)
               b == j - Len(p)
    <3>1. CASE (r[i].unit = Gluetun \/ r[i].want = "tunnel") /\ r[j].unit \in {Gluetun, Qbt}
      <4>1. a \in 1..Len(q) /\ b \in 1..Len(q) /\ r[i] = q[a] /\ r[j] = q[b]
        BY <3>1, <1>4
      <4> HIDE DEF a, b
      <4>2. /\ q[a].want = "tunnel" /\ q[b].unit = Gluetun => q[b].want = "tunnel"
            /\ q[a].unit = Gluetun /\ q[a].want = "off" /\ q[b].unit = Qbt
                 => q[b].want = "off" /\ b < a
        BY <4>1 DEF Ordered
      <4> QED
        BY <4>1, <4>2 DEF a, b
    <3>2. CASE ~ ((r[i].unit = Gluetun \/ r[i].want = "tunnel") /\ r[j].unit \in {Gluetun, Qbt})
      BY <3>2
    <3> QED
      BY <3>1, <3>2
  <2>3. \A i, j \in 1..Len(r) : j - Len(p) < i - Len(p) => j < i
    BY <1>1
  <2> QED
    BY <2>1, <2>2, <2>3 DEF Ordered
<1>6. StopsTunnel(r) => HasTransfer(r)
  <2> SUFFICES ASSUME StopsTunnel(r)
               PROVE  HasTransfer(r)
    OBVIOUS
  <2>1. StopsTunnel(q)
    BY <1>4 DEF StopsTunnel
  <2> QED
    BY <2>1, <1>3 DEF HasTransfer
<1> QED
  BY <1>1, <1>5, <1>6 DEF r

\* The same with the goals aside at the end.
LEMMA AsideAfter ==
  ASSUME NEW p \in Seq(AllGoals), NEW q \in Seq(AllGoals), Aside(q), Ordered(p), StopsTunnel(p) => HasTransfer(p)
  PROVE  /\ p \o q \in Seq(AllGoals) /\ Ordered(p \o q)
         /\ StopsTunnel(p \o q) => HasTransfer(p \o q)
<1> DEFINE r == p \o q
<1>1. r \in Seq(AllGoals) /\ Len(r) = Len(p) + Len(q) /\ Len(p) \in Nat /\ Len(q) \in Nat
  OBVIOUS
<1>2. \A i \in 1..Len(r) : IF i <= Len(p) THEN i \in 1..Len(p) /\ r[i] = p[i]
                                         ELSE i - Len(p) \in 1..Len(q) /\ r[i] = q[i - Len(p)]
  OBVIOUS
<1>3. \A i \in 1..Len(p) : i \in 1..Len(r) /\ r[i] = p[i]
  OBVIOUS
<1> HIDE DEF r
<1>4. \A i \in 1..Len(r) : r[i].unit \in {Gluetun, Qbt} \/ r[i].want = "tunnel"
        => i \in 1..Len(p) /\ r[i] = p[i]
  BY <1>2 DEF Aside
<1>5. Ordered(r)
  BY <1>4 DEF Ordered
<1>6. StopsTunnel(r) => HasTransfer(r)
  <2> SUFFICES ASSUME StopsTunnel(r)
               PROVE  HasTransfer(r)
    OBVIOUS
  <2>1. StopsTunnel(p)
    BY <1>4 DEF StopsTunnel
  <2> QED
    BY <2>1, <1>3 DEF HasTransfer
<1> QED
  BY <1>1, <1>5, <1>6 DEF r

\* The goals of a mode about transfers, mode by mode.
LEMMA TransferOrdered ==
  ASSUME NEW m \in Catalog
  PROVE  /\ TransferGoals(m) \in Seq(AllGoals) /\ Ordered(TransferGoals(m))
         /\ StopsTunnel(TransferGoals(m)) => HasTransfer(TransferGoals(m))
<1> DEFINE p == TransferGoals(m)
<1>1. CASE m = "safe"
  <2>1. p = <<Goal(Qbt, "off"), Goal(Gluetun, "on")>>
    BY <1>1 DEF TransferGoals
  <2>2. p \in Seq(AllGoals)
    BY <2>1, MediaUnits DEF Goal, AllGoals, Wants
  <2>3. Ordered(p) /\ ~ StopsTunnel(p)
    BY <2>1 DEF Ordered, StopsTunnel, Goal, Gluetun, Qbt
  <2> QED
    BY <2>2, <2>3
<1>2. CASE m = "torrent_fortress"
  <2>1. p = <<Goal(Gluetun, "tunnel"), Goal(Qbt, "on_behind_tunnel")>>
    BY <1>2 DEF TransferGoals
  <2>2. p \in Seq(AllGoals)
    BY <2>1, MediaUnits DEF Goal, AllGoals, Wants
  <2>3. Ordered(p) /\ ~ StopsTunnel(p)
    BY <2>1 DEF Ordered, StopsTunnel, Goal, Gluetun, Qbt
  <2> QED
    BY <2>2, <2>3
<1>3. CASE m = "entertainment"
  <2>1. p = <<Goal(Gluetun, "tunnel"), Goal(Qbt, "only_behind_tunnel")>>
    BY <1>3 DEF TransferGoals
  <2>2. p \in Seq(AllGoals)
    BY <2>1, MediaUnits DEF Goal, AllGoals, Wants
  <2>3. Ordered(p) /\ ~ StopsTunnel(p)
    BY <2>1 DEF Ordered, StopsTunnel, Goal, Gluetun, Qbt
  <2> QED
    BY <2>2, <2>3
<1>4. CASE m \in {"pihole_only", "daily_driver"}
  <2>1. p = <<Goal(Qbt, "off"), Goal(Gluetun, "off")>>
    BY <1>4 DEF TransferGoals
  <2>2. p \in Seq(AllGoals)
    BY <2>1, MediaUnits DEF Goal, AllGoals, Wants
  <2>3. Ordered(p) /\ HasTransfer(p)
    BY <2>1 DEF Ordered, HasTransfer, Goal, Gluetun, Qbt
  <2> QED
    BY <2>2, <2>3
<1>5. CASE m = "print_lab"
  <2>1. p = <<Goal(Qbt, "off"), Goal(Gluetun, "off"), Goal(Printer, "on")>>
    BY <1>5 DEF TransferGoals
  <2>2. p \in Seq(AllGoals)
    BY <2>1, MediaUnits DEF Goal, AllGoals, Wants
  <2>3. Ordered(p) /\ HasTransfer(p)
    BY <2>1 DEF Ordered, HasTransfer, Goal, Gluetun, Qbt, Printer
  <2> QED
    BY <2>2, <2>3
<1> QED
  BY <1>1, <1>2, <1>3, <1>4, <1>5 DEF Catalog

\* A plan as a pass begins with it.
Fresh(p) == p \in Seq(AllGoals) /\ Ordered(p) /\ (StopsTunnel(p) => HasTransfer(p))

\* A pass begins with a plan of that kind, whatever the mode is called.
LEMMA GoalsFresh ==
  ASSUME NEW m
  PROVE  Fresh(Goals(m)) /\ Fresh(EachMedia("observe") \o Goals(m))
<1>1. <<Goal(Pihole, "on")>> \in Seq(AllGoals) /\ Aside(<<Goal(Pihole, "on")>>)
  BY MediaUnits DEF Goal, AllGoals, Wants, Aside, Gluetun, Qbt, Pihole
<1>2. Fresh(<<>>)
  BY DEF Fresh, Ordered, StopsTunnel
<1> DEFINE media == EachMedia(IF m = "entertainment" THEN "on" ELSE "off")
           later == IF m \in Catalog THEN TransferGoals(m) \o media ELSE <<>>
<1>3. media \in Seq(AllGoals) /\ Aside(media)
  BY MediaAside
<1>4. Fresh(later)
  <2>1. CASE m \in Catalog
    BY <2>1, <1>3, TransferOrdered, AsideAfter DEF Fresh
  <2>2. CASE m \notin Catalog
    BY <2>2, <1>2
  <2> QED
    BY <2>1, <2>2
<1>5. Goals(m) = <<Goal(Pihole, "on")>> \o later
  BY DEF Goals
<1> HIDE DEF later, media
<1>6. Fresh(Goals(m))
  BY <1>1, <1>4, <1>5, AsideBefore DEF Fresh
<1>7. Fresh(EachMedia("observe") \o Goals(m))
  BY <1>6, MediaAside, AsideBefore DEF Fresh
<1> QED
  BY <1>6, <1>7

\* What is left of a plan is ordered as the plan is.
LEMMA TailOrdered ==
  ASSUME NEW p \in Seq(AllGoals), p # <<>>, Ordered(p)
  PROVE  /\ Tail(p) \in Seq(AllGoals) /\ Ordered(Tail(p))
         /\ Head(p) = p[1] /\ 1 \in 1..Len(p) /\ Head(p) \in AllGoals
         /\ \A i \in 1..Len(Tail(p)) : i + 1 \in 1..Len(p) /\ Tail(p)[i] = p[i + 1]
         /\ \A i \in 1..Len(p) : i # 1 => i - 1 \in 1..Len(Tail(p)) /\ p[i] = Tail(p)[i - 1]
<1> DEFINE r == Tail(p)
<1>1. /\ r \in Seq(AllGoals) /\ Len(r) = Len(p) - 1 /\ Len(p) \in Nat
      /\ Head(p) = p[1] /\ 1 \in 1..Len(p) /\ Head(p) \in AllGoals
      /\ \A i \in 1..Len(r) : i + 1 \in 1..Len(p) /\ r[i] = p[i + 1]
  OBVIOUS
<1>2. \A i \in 1..Len(p) : i # 1 => i - 1 \in 1..Len(r) /\ p[i] = r[i - 1]
  BY <1>1
<1> HIDE DEF r
<1>3. Ordered(r)
  <2>1. ASSUME NEW i \in 1..Len(r)
        PROVE  /\ r[i].want = "tunnel" => r[i].unit = Gluetun
               /\ r[i].unit = Gluetun => r[i].want \in {"on", "off", "tunnel"}
               /\ r[i].unit = Qbt => r[i].want \in {"off", "on_behind_tunnel", "only_behind_tunnel"}
    BY <1>1 DEF Ordered
  <2>2. ASSUME NEW i \in 1..Len(r), NEW j \in 1..Len(r)
        PROVE  /\ r[i].want = "tunnel" /\ r[j].unit = Gluetun => r[j].want = "tunnel"
               /\ r[i].unit = Gluetun /\ r[i].want = "off" /\ r[j].unit = Qbt
                    => r[j].want = "off" /\ j + 1 < i + 1
    <3> DEFINE a == i + 1
               b == j + 1
    <3>1. a \in 1..Len(p) /\ b \in 1..Len(p) /\ r[i] = p[a] /\ r[j] = p[b]
      BY <1>1
    <3> HIDE DEF a, b
    <3>2. /\ p[a].want = "tunnel" /\ p[b].unit = Gluetun => p[b].want = "tunnel"
          /\ p[a].unit = Gluetun /\ p[a].want = "off" /\ p[b].unit = Qbt
               => p[b].want = "off" /\ b < a
      BY <3>1 DEF Ordered
    <3> QED
      BY <3>1, <3>2 DEF a, b
  <2>3. \A i, j \in 1..Len(r) : j + 1 < i + 1 => j < i
    BY <1>1
  <2> QED
    BY <2>1, <2>2, <2>3 DEF Ordered
<1> QED
  BY <1>1, <1>2, <1>3 DEF r

----------------------------------------------------------------------------
(* One lemma per action, or per group of actions that touch the same.      *)

\* Writers of the request touch neither the pass nor the containers.
LEMMA QuietStep ==
  ASSUME IInv, TypeOK', UNCHANGED <<units, cache, plan, step, tunnel, doubt>>
  PROVE  IInv'
  BY DEF IInv, Ordered, StepMatches, Wish, CacheAgrees, TunnelGoals, TunnelKept, TransferLeft,
         StopsTunnel, HasTransfer

\* Requests are written, or fail to be.
LEMMA WriterStep ==
  ASSUME IInv,
         \/ \E m \in Requests : ConsoleRequests(m) \/ SelectorOpens(m)
         \/ \E m \in MenuModes : MenuOpens(m)
         \/ SelectorWrites \/ WriteFails
  PROVE  IInv'
<1>1. UNCHANGED <<units, cache, plan, step, tunnel, doubt>>
  BY DEF ConsoleRequests, SelectorOpens, MenuOpens, SelectorWrites, WriteFails
<1>2. UNCHANGED rounds
  BY DEF ConsoleRequests, SelectorOpens, MenuOpens, SelectorWrites, WriteFails
<1> DEFINE Writers == {NoWriter} \cup
                        [who : {"selector", "daemon"}, mode : Requests \cup MenuModes, orphan : BOOLEAN]
           Sorted == /\ request' \in Requests \cup MenuModes \cup {"torn"}
                     /\ writer' \in Writers
                     /\ edits' \in 0..MaxEdits
                     /\ faults' \in 0..MaxFaults
<1>3. ASSUME NEW m \in Requests, ConsoleRequests(m)
      PROVE  Sorted
  <2>1. writer' \in Writers
    <3>1. CASE writer = NoWriter
      BY <1>3, <3>1 DEF ConsoleRequests, NoWriter
    <3>2. CASE writer # NoWriter
      BY <1>3, <3>2 DEF IInv, TypeOK, ConsoleRequests
    <3> QED
      BY <3>1, <3>2
  <2> QED
    BY <1>3, <2>1 DEF IInv, TypeOK, ConsoleRequests
<1>4. ASSUME NEW m \in Requests, SelectorOpens(m)
      PROVE  Sorted
  BY <1>4 DEF IInv, TypeOK, SelectorOpens, Truncate
<1>5. ASSUME NEW m \in MenuModes, MenuOpens(m)
      PROVE  Sorted
  BY <1>5 DEF IInv, TypeOK, MenuOpens, Truncate
<1>6. ASSUME SelectorWrites
      PROVE  Sorted
  BY <1>6 DEF IInv, TypeOK, SelectorWrites, Written, NoWriter
<1>7. ASSUME WriteFails
      PROVE  Sorted
  BY <1>7 DEF IInv, TypeOK, WriteFails
<1>8. Sorted
  BY <1>3, <1>4, <1>5, <1>6, <1>7
<1> QED
  BY <1>1, <1>2, <1>8, QuietStep DEF IInv, TypeOK

\* A pass begins: nothing is known of the tunnel yet.
LEMMA BeginStep ==
  ASSUME IInv, TypeOK', NEW p, Fresh(p), Begin(p), UNCHANGED <<units, doubt>>,
         \/ UNCHANGED cache
         \/ cache' = [u \in Units |-> "none"]
  PROVE  IInv'
<1>1. plan' = p /\ step' = "look" /\ tunnel' = "unknown"
  BY DEF Begin
<1>2. Ordered(plan)' /\ TransferLeft'
  BY <1>1 DEF Fresh, Ordered, TransferLeft, StopsTunnel, HasTransfer
<1>3. StepMatches' /\ TunnelGoals' /\ TunnelKept'
  BY <1>1 DEF StepMatches, TunnelGoals, TunnelKept
<1>4. CacheAgrees'
  BY MediaUnits DEF IInv, CacheAgrees, State
<1> QED
  BY <1>2, <1>3, <1>4 DEF IInv

\* The poll begins a pass for the request it reads.
LEMMA PollStep ==
  ASSUME IInv, Poll
  PROVE  IInv'
<1> DEFINE p == EachMedia("observe") \o Goals(Effective(request))
<1>1. Fresh(p)
  BY GoalsFresh
<1>2. Begin(p) /\ UNCHANGED <<request, writer, units, cache, doubt, edits, faults>>
  BY DEF Poll
<1> HIDE DEF p
<1>3. TypeOK'
  BY <1>1, <1>2 DEF IInv, TypeOK, Begin, Fresh, AllGoals, Seen
<1> QED
  BY <1>1, <1>2, <1>3, BeginStep

\* A launcher entry begins one for its own mode.
LEMMA MenuWritesStep ==
  ASSUME IInv, MenuWrites
  PROVE  IInv'
<1> DEFINE p == Goals(writer.mode)
<1>1. Fresh(p)
  BY GoalsFresh
<1>2. /\ Begin(p) /\ UNCHANGED <<units, doubt, edits, faults>>
      /\ cache' = [u \in Units |-> "none"] /\ writer' = NoWriter
      /\ request' = Written /\ writer # NoWriter
  BY DEF MenuWrites, NoWriter
<1>3. request' \in Requests \cup MenuModes \cup {"torn"}
  BY <1>2 DEF IInv, TypeOK, Written
<1> HIDE DEF p
<1>4. TypeOK'
  BY <1>1, <1>2, <1>3 DEF IInv, TypeOK, Begin, Fresh, AllGoals, Seen
<1> QED
  BY <1>1, <1>2, <1>4, BeginStep

\* What is published before the pass raised: the plan is dropped.
LEMMA PollFailsStep ==
  ASSUME IInv, PollFails
  PROVE  IInv'
<1>1. /\ plan' = <<>> /\ step = "look" /\ faults' \in 0..MaxFaults
      /\ UNCHANGED <<request, writer, units, cache, step, tunnel, rounds, doubt, edits>>
  BY DEF IInv, TypeOK, StepMatches, PollFails
<1>2. plan' \in Seq(AllGoals)
  BY <1>1
<1>3. TypeOK'
  BY <1>1, <1>2 DEF IInv, TypeOK, AllGoals
<1>4. Ordered(plan)' /\ TransferLeft' /\ TunnelGoals'
  BY <1>1 DEF Ordered, TransferLeft, StopsTunnel, TunnelGoals
<1>5. StepMatches' /\ CacheAgrees' /\ TunnelKept'
  BY <1>1 DEF IInv, StepMatches, CacheAgrees, TunnelKept
<1> QED
  BY <1>3, <1>4, <1>5 DEF IInv

\* A cached status gets too old.
LEMMA ExpiresStep ==
  ASSUME IInv, NEW v \in Units, CacheExpires(v)
  PROVE  IInv'
<1>1. /\ cache' = [cache EXCEPT ![v] = "none"]
      /\ UNCHANGED <<request, writer, units, plan, step, tunnel, rounds, doubt, edits, faults>>
  BY DEF CacheExpires
<1>2. TypeOK'
  BY <1>1 DEF IInv, TypeOK
<1>3. CacheAgrees'
  BY <1>1, MediaUnits DEF IInv, TypeOK, CacheAgrees, State
<1>4. Ordered(plan)' /\ StepMatches' /\ TunnelGoals' /\ TunnelKept' /\ TransferLeft'
  BY <1>1 DEF IInv, Ordered, StepMatches, Wish, TunnelGoals, TunnelKept, TransferLeft, StopsTunnel, HasTransfer
<1> QED
  BY <1>2, <1>3, <1>4 DEF IInv

\* Others change a unit: it is in doubt from then on.
LEMMA OthersStep ==
  ASSUME IInv, NEW v \in Units, OthersChange(v)
  PROVE  IInv'
<1>1. /\ faults' \in 0..MaxFaults /\ doubt' = doubt \cup {v}
      /\ units' \in [Units -> State] /\ \A u \in Units : u # v => units'[u] = units[u]
      /\ UNCHANGED <<request, writer, cache, plan, step, tunnel, rounds, edits>>
  <2>1. (CHOOSE s \in State : s # units[v]) \in State
    BY DEF State
  <2> QED
    BY <2>1 DEF IInv, TypeOK, OthersChange
<1>2. TypeOK'
  BY <1>1 DEF IInv, TypeOK
<1>3. CacheAgrees' /\ TunnelKept'
  BY <1>1, MediaUnits DEF IInv, CacheAgrees, TunnelKept
<1>4. Ordered(plan)' /\ StepMatches' /\ TunnelGoals'
  BY <1>1 DEF IInv, Ordered, StepMatches, Wish, TunnelGoals
<1>5. TransferLeft'
  BY <1>1, MediaUnits DEF IInv, TransferLeft, StopsTunnel, HasTransfer
<1> QED
  BY <1>2, <1>3, <1>4, <1>5 DEF IInv

----------------------------------------------------------------------------
(* The steps of a pass.                                                    *)

\* The next goal: what is left, and what the first goal was.
LEMMA Advanced ==
  ASSUME IInv, plan # <<>>
  PROVE  LET g == Head(plan)  rest == Tail(plan) IN
         /\ g \in AllGoals /\ g = plan[1] /\ 1 \in 1..Len(plan)
         /\ rest \in Seq(AllGoals) /\ Ordered(rest)
         /\ (\A i \in 1..Len(plan) : plan[i].unit = Gluetun => plan[i].want = "tunnel")
              => \A i \in 1..Len(rest) : rest[i].unit = Gluetun => rest[i].want = "tunnel"
         /\ StopsTunnel(rest) => StopsTunnel(plan)
         /\ g.unit # Qbt /\ ~ HasTransfer(rest) => ~ HasTransfer(plan)
         /\ g.unit = Qbt /\ StopsTunnel(rest) => g.want = "off"
<1> DEFINE rest == Tail(plan)
<1>1. plan \in Seq(AllGoals) /\ Ordered(plan)
  BY DEF IInv, TypeOK, AllGoals
<1>2. /\ rest \in Seq(AllGoals) /\ Ordered(rest)
      /\ Head(plan) = plan[1] /\ 1 \in 1..Len(plan) /\ Head(plan) \in AllGoals
      /\ \A i \in 1..Len(rest) : i + 1 \in 1..Len(plan) /\ rest[i] = plan[i + 1]
      /\ \A i \in 1..Len(plan) : i # 1 => i - 1 \in 1..Len(rest) /\ plan[i] = rest[i - 1]
  BY <1>1, TailOrdered
<1> HIDE DEF rest
<1>3. (\A i \in 1..Len(plan) : plan[i].unit = Gluetun => plan[i].want = "tunnel")
        => \A i \in 1..Len(rest) : rest[i].unit = Gluetun => rest[i].want = "tunnel"
  BY <1>2
<1>4. StopsTunnel(rest) => StopsTunnel(plan)
  BY <1>2 DEF StopsTunnel
<1>5. Head(plan).unit # Qbt /\ ~ HasTransfer(rest) => ~ HasTransfer(plan)
  BY <1>2 DEF HasTransfer
<1>6. Head(plan).unit = Qbt /\ StopsTunnel(rest) => Head(plan).want = "off"
  BY <1>1, <1>2, <1>4 DEF StopsTunnel, Ordered
<1> QED
  BY <1>2, <1>3, <1>4, <1>5, <1>6 DEF rest

\* The first goal tells the unit: the tunnel's goal is about gluetun, and a goal about
\* gluetun in a pass that knows of the tunnel is the tunnel's.
LEMMA FirstGoal ==
  ASSUME IInv, plan # <<>>
  PROVE  LET g == Head(plan) IN
         /\ g.want = "tunnel" => g.unit = Gluetun
         /\ g.unit = Gluetun => g.want \in {"on", "off", "tunnel"}
         /\ g.unit = Qbt => g.want \in {"off", "on_behind_tunnel", "only_behind_tunnel"}
         /\ g.want = "tunnel" => \A i \in 1..Len(plan) : plan[i].unit = Gluetun => plan[i].want = "tunnel"
         /\ tunnel # "unknown" /\ g.unit = Gluetun => g.want = "tunnel"
         /\ g.unit = Gluetun /\ g.want = "off" => StopsTunnel(plan) /\ ~ HasTransfer(plan)
<1>1. Head(plan) = plan[1] /\ 1 \in 1..Len(plan) /\ Ordered(plan) /\ TunnelGoals
  BY Advanced DEF IInv
<1>2. plan[1].unit = Gluetun /\ plan[1].want = "off" => StopsTunnel(plan) /\ ~ HasTransfer(plan)
  <2>1. \A j \in 1..Len(plan) : ~ (j < 1)
    OBVIOUS
  <2> QED
    BY <1>1, <2>1 DEF Ordered, StopsTunnel, HasTransfer
<1> QED
  BY <1>1, <1>2 DEF Ordered, TunnelGoals

\* What a look at a unit tells, and what it leaves in doubt.
LEMMA InspectTells ==
  ASSUME IInv, NEW u \in Units, NEW s, Inspect(u, s)
  PROVE  /\ s \in Seen /\ doubt' \subseteq Units /\ faults' \in 0..MaxFaults
         /\ s \in State => units[u] = s \/ u \in doubt'
         /\ \A v \in Units \ {u} : v \in doubt' <=> v \in doubt
<1>1. CASE s = units[u] /\ doubt' = doubt \ {u} /\ UNCHANGED faults
  BY <1>1 DEF IInv, TypeOK, Seen
<1>2. CASE /\ s \in {"unknown", "stopped"} \ {units[u]} /\ faults < MaxFaults
           /\ faults' = faults + 1 /\ doubt' = doubt \cup {u}
  BY <1>2 DEF IInv, TypeOK, Seen, State
<1> QED
  BY <1>1, <1>2 DEF Inspect

\* The same through the cache.
LEMMA StatusTells ==
  ASSUME IInv, NEW u \in Units, NEW s \in Seen, Status(u, s), UNCHANGED units
  PROVE  /\ doubt' \subseteq Units /\ faults' \in 0..MaxFaults
         /\ cache' \in [Units -> Seen \cup {"none"}] /\ CacheAgrees'
         /\ s \in State => units[u] = s \/ u \in doubt'
         /\ \A v \in Units \ {u} : v \in doubt' <=> v \in doubt
<1>1. CASE cache[u] # "none" /\ s = cache[u] /\ UNCHANGED <<cache, doubt, faults>>
  BY <1>1 DEF IInv, TypeOK, CacheAgrees
<1>2. CASE cache[u] = "none" /\ Inspect(u, s) /\ cache' = IF u = Printer THEN cache ELSE [cache EXCEPT ![u] = s]
  <2>1. /\ doubt' \subseteq Units /\ faults' \in 0..MaxFaults
        /\ s \in State => units[u] = s \/ u \in doubt'
        /\ \A v \in Units \ {u} : v \in doubt' <=> v \in doubt
    BY <1>2, InspectTells
  <2>2. cache' \in [Units -> Seen \cup {"none"}]
    BY <1>2 DEF IInv, TypeOK
  <2>3. \A v \in Units : v # u => cache'[v] = cache[v]
    BY <1>2 DEF IInv, TypeOK
  <2>4. cache'[u] \in {"none", s} /\ (u = Printer => cache'[u] = "none")
    BY <1>2 DEF IInv, TypeOK
  <2>5. CacheAgrees'
    BY <2>1, <2>3, <2>4, MediaUnits DEF IInv, CacheAgrees, State
  <2> QED
    BY <2>1, <2>2, <2>5
<1> QED
  BY <1>1, <1>2 DEF Status

\* A goal that leaves its unit alone.
LEMMA SkipStep ==
  ASSUME IInv, Skip
  PROVE  IInv'
<1> DEFINE g == Head(plan)
<1>1. /\ plan # <<>> /\ Wish(g) = "as_it_is" /\ plan' = Tail(plan) /\ step = "look"
      /\ UNCHANGED <<request, writer, units, cache, step, tunnel, rounds, doubt, edits, faults>>
  BY DEF Skip
<1>2. TypeOK' /\ Ordered(plan)'
  BY <1>1, Advanced DEF IInv, TypeOK, AllGoals, Ordered
<1>3. StepMatches' /\ CacheAgrees' /\ TunnelKept'
  BY <1>1 DEF IInv, StepMatches, CacheAgrees, TunnelKept
<1>4. TunnelGoals'
  BY <1>1, Advanced DEF IInv, TunnelGoals
<1>5. TransferLeft'
  <2>1. g.want # "off"
    BY <1>1 DEF Wish
  <2> QED
    BY <1>1, <2>1, Advanced DEF IInv, TransferLeft, StopsTunnel, HasTransfer
<1> QED
  BY <1>2, <1>3, <1>4, <1>5 DEF IInv

\* A look at the unit of the first goal: it is as wanted, or will be commanded.
LEMMA LookStep ==
  ASSUME IInv, Look
  PROVE  IInv'
<1> DEFINE g == Head(plan)
<1>1. /\ plan # <<>> /\ step = "look"
      /\ UNCHANGED <<request, writer, units, rounds, edits>>
  BY DEF Look
<1>2. PICK s \in Seen :
        /\ Status(g.unit, s)
        /\ tunnel' = IF g.want = "tunnel" THEN s ELSE tunnel
        /\ IF MustCall(g, s) THEN step' = "call" /\ plan' = plan ELSE step' = "look" /\ plan' = Tail(plan)
  BY DEF Look
<1>3. g \in AllGoals /\ g.unit \in Units /\ Gluetun \in Units /\ Qbt \in Units /\ Gluetun # Qbt
  BY <1>1, Advanced, MediaUnits DEF AllGoals, Gluetun, Qbt
<1>4. /\ doubt' \subseteq Units /\ faults' \in 0..MaxFaults
      /\ cache' \in [Units -> Seen \cup {"none"}] /\ CacheAgrees'
      /\ s \in State => units[g.unit] = s \/ g.unit \in doubt'
      /\ \A v \in Units \ {g.unit} : v \in doubt' <=> v \in doubt
  BY <1>1, <1>2, <1>3, StatusTells
<1>5. TypeOK'
  <2>1. plan' \in Seq(AllGoals)
    BY <1>1, <1>2, Advanced DEF IInv, TypeOK, AllGoals
  <2>2. step' \in {"look", "call"} /\ tunnel' \in Seen
    BY <1>2 DEF IInv, TypeOK
  <2> QED
    BY <1>1, <1>4, <2>1, <2>2 DEF IInv, TypeOK, AllGoals
<1>6. Ordered(plan)'
  <2>1. CASE plan' = plan
    BY <2>1 DEF IInv, Ordered
  <2>2. CASE plan' = Tail(plan)
    BY <1>1, <2>2, Advanced DEF Ordered
  <2> QED
    BY <1>1, <1>2, <2>1, <2>2
<1>7. StepMatches'
  <2> SUFFICES ASSUME MustCall(g, s), step' = "call", plan' = plan
               PROVE  StepMatches'
    BY <1>2 DEF StepMatches
  <2>1. g.want # "observe" /\ Wish(g) \in State
    BY DEF MustCall, Wish, State
  <2>2. Wish(g)' \in State
    BY <1>2, <2>1 DEF Wish, State
  <2> QED
    BY <1>1, <2>1, <2>2 DEF StepMatches
<1>8. TunnelGoals'
  <2>1. tunnel' # "unknown" => \A i \in 1..Len(plan) : plan[i].unit = Gluetun => plan[i].want = "tunnel"
    BY <1>1, <1>2, FirstGoal DEF IInv, TunnelGoals
  <2> QED
    BY <1>1, <1>2, <2>1, Advanced DEF TunnelGoals
<1>9. TunnelKept'
  <2>1. CASE g.want = "tunnel"
    BY <1>1, <1>2, <1>4, <2>1, FirstGoal DEF TunnelKept, State
  <2>2. CASE g.want # "tunnel"
    <3>1. tunnel' = tunnel /\ (tunnel = "up" => g.unit # Gluetun)
      BY <1>1, <1>2, <2>2, FirstGoal
    <3> QED
      BY <1>1, <1>3, <1>4, <3>1 DEF IInv, TunnelKept
  <2> QED
    BY <2>1, <2>2
<1>10. TransferLeft'
  <2>1. CASE g.unit = Qbt
    <3>1. CASE MustCall(g, s)
      <4>1. HasTransfer(plan)'
        BY <1>1, <1>2, <2>1, <3>1, Advanced DEF HasTransfer
      <4> QED
        BY <4>1 DEF TransferLeft
    <3>2. CASE ~ MustCall(g, s)
      <4>1. g.want = "off" => s = "stopped"
        BY <3>2 DEF MustCall, Wish
      <4>2. StopsTunnel(plan)' => g.want = "off"
        BY <1>1, <1>2, <2>1, <3>2, Advanced DEF StopsTunnel
      <4> QED
        BY <1>1, <1>4, <2>1, <4>1, <4>2 DEF TransferLeft, State
    <3> QED
      BY <3>1, <3>2
  <2>2. CASE g.unit # Qbt
    <3>1. StopsTunnel(plan)' /\ ~ HasTransfer(plan)' => StopsTunnel(plan) /\ ~ HasTransfer(plan)
      BY <1>1, <1>2, <2>2, Advanced DEF StopsTunnel, HasTransfer
    <3> QED
      BY <1>1, <1>3, <1>4, <2>2, <3>1 DEF IInv, TransferLeft
  <2> QED
    BY <2>1, <2>2
<1> QED
  BY <1>4, <1>5, <1>6, <1>7, <1>8, <1>9, <1>10 DEF IInv

\* A command is obeyed, or its unit is in doubt.
LEMMA CallStep ==
  ASSUME IInv, Call
  PROVE  IInv'
<1> DEFINE g == Head(plan)
<1>1. /\ plan # <<>> /\ step = "call"
      /\ UNCHANGED <<request, writer, tunnel, edits>>
  BY DEF Call
<1>2. \/ units' = [units EXCEPT ![g.unit] = Wish(g)] /\ doubt' = doubt \ {g.unit} /\ UNCHANGED faults
      \/ /\ faults < MaxFaults /\ faults' = faults + 1
         /\ doubt' = doubt \cup {g.unit} /\ UNCHANGED units
  BY DEF Call
<1>3. /\ cache' = IF g.unit = Printer THEN cache ELSE CacheAfterCall
      /\ IF g.want = "tunnel"
           THEN step' = "wait" /\ rounds' = WaitRounds /\ plan' = plan
           ELSE step' = "look" /\ rounds' = 0 /\ plan' = Tail(plan)
  BY DEF Call
<1>4. /\ g \in AllGoals /\ g.unit \in Units /\ Gluetun \in Units /\ Qbt \in Units /\ Gluetun # Qbt
      /\ Wish(g) \in State /\ g.want # "observe"
  BY <1>1, Advanced, MediaUnits DEF AllGoals, Gluetun, Qbt, IInv, StepMatches
<1>5. /\ units' \in [Units -> State] /\ doubt' \subseteq Units /\ faults' \in 0..MaxFaults
      /\ units'[g.unit] = Wish(g) \/ g.unit \in doubt'
      /\ \A v \in Units \ {g.unit} : units'[v] = units[v] /\ (v \in doubt' <=> v \in doubt)
  <2>1. CASE units' = [units EXCEPT ![g.unit] = Wish(g)] /\ doubt' = doubt \ {g.unit} /\ UNCHANGED faults
    BY <1>4, <2>1 DEF IInv, TypeOK
  <2>2. CASE faults < MaxFaults /\ faults' = faults + 1 /\ doubt' = doubt \cup {g.unit} /\ UNCHANGED units
    BY <1>4, <2>2 DEF IInv, TypeOK
  <2> QED
    BY <1>2, <2>1, <2>2
<1>6. TypeOK'
  <2>1. plan' \in Seq(AllGoals)
    BY <1>1, <1>3, Advanced DEF IInv, TypeOK, AllGoals
  <2>2. cache' \in [Units -> Seen \cup {"none"}]
    BY <1>3 DEF IInv, TypeOK, CacheAfterCall
  <2>3. step' \in {"look", "wait"} /\ rounds' \in 0..WaitRounds /\ (step' = "wait" => rounds' > 0)
    BY <1>3
  <2> QED
    BY <1>1, <1>5, <2>1, <2>2, <2>3 DEF IInv, TypeOK, AllGoals
<1>7. Ordered(plan)'
  <2>1. CASE plan' = plan
    BY <2>1 DEF IInv, Ordered
  <2>2. CASE plan' = Tail(plan)
    BY <1>1, <2>2, Advanced DEF Ordered
  <2> QED
    BY <1>1, <1>3, <2>1, <2>2
<1>8. StepMatches'
  BY <1>1, <1>3, <1>4 DEF StepMatches, Wish, State
<1>9. CacheAgrees'
  <2>1. CASE g.unit = Printer
    BY <1>3, <1>5, <2>1 DEF IInv, CacheAgrees, State
  <2>2. CASE g.unit # Printer
    BY <1>3, <2>2, MediaUnits DEF CacheAgrees, CacheAfterCall, State
  <2> QED
    BY <2>1, <2>2
<1>10. TunnelGoals'
  BY <1>1, <1>3, Advanced DEF IInv, TunnelGoals
<1>11. TunnelKept'
  <2>1. CASE tunnel = "up" /\ g.unit = Gluetun
    <3>1. Wish(g) = "up"
      BY <1>1, <2>1, FirstGoal DEF Wish
    <3> QED
      BY <1>5, <2>1, <3>1 DEF TunnelKept
  <2>2. CASE tunnel # "up" \/ g.unit # Gluetun
    BY <1>1, <1>4, <1>5, <2>2 DEF IInv, TunnelKept
  <2> QED
    BY <2>1, <2>2
<1>12. TransferLeft'
  <2>1. CASE g.unit = Qbt
    <3>1. g.want # "tunnel" /\ plan' = Tail(plan)
      BY <1>1, <1>3, <1>4, <2>1, FirstGoal
    <3>2. StopsTunnel(plan)' => g.want = "off"
      BY <1>1, <2>1, <3>1, Advanced DEF StopsTunnel
    <3>3. g.want = "off" => Wish(g) = "stopped"
      BY DEF Wish
    <3> QED
      BY <1>5, <2>1, <3>2, <3>3 DEF TransferLeft
  <2>2. CASE g.unit # Qbt
    <3>1. StopsTunnel(plan)' /\ ~ HasTransfer(plan)' => StopsTunnel(plan) /\ ~ HasTransfer(plan)
      BY <1>1, <1>3, <2>2, Advanced DEF StopsTunnel, HasTransfer
    <3> QED
      BY <1>4, <1>5, <2>2, <3>1 DEF IInv, TransferLeft
  <2> QED
    BY <2>1, <2>2
<1> QED
  BY <1>6, <1>7, <1>8, <1>9, <1>10, <1>11, <1>12 DEF IInv

\* One more look at the tunnel.
LEMMA WaitStep ==
  ASSUME IInv, Wait
  PROVE  IInv'
<1> DEFINE g == Head(plan)
<1>1. /\ plan # <<>> /\ step = "wait" /\ rounds' = rounds - 1
      /\ UNCHANGED <<request, writer, units, edits>>
  BY DEF Wait
<1>2. PICK s \in Seen :
        /\ Inspect(Gluetun, s)
        /\ cache' = [u \in Units |-> IF u = Gluetun THEN s ELSE "none"]
        /\ tunnel' = s
        /\ IF WaitIsOver(s) THEN step' = "look" /\ plan' = Tail(plan) ELSE UNCHANGED <<step, plan>>
  BY DEF Wait
<1>3. g.want = "tunnel" /\ g.unit = Gluetun /\ g.want # "observe"
  BY <1>1, FirstGoal DEF IInv, StepMatches
<1>4. Gluetun \in Units /\ Qbt \in Units /\ Printer \in Units /\ Gluetun # Qbt /\ Gluetun # Printer
  BY MediaUnits DEF Gluetun, Qbt, Printer
<1>5. /\ doubt' \subseteq Units /\ faults' \in 0..MaxFaults
      /\ s \in State => units[Gluetun] = s \/ Gluetun \in doubt'
      /\ \A v \in Units \ {Gluetun} : v \in doubt' <=> v \in doubt
  BY <1>2, <1>4, InspectTells
<1>6. TypeOK'
  <2>1. plan' \in Seq(AllGoals)
    BY <1>1, <1>2, Advanced DEF IInv, TypeOK, AllGoals
  <2>2. cache' \in [Units -> Seen \cup {"none"}]
    BY <1>2
  <2>3. rounds' \in 0..WaitRounds
    BY <1>1 DEF IInv, TypeOK
  <2>4. step' \in {"look", "wait"} /\ (step' = "wait" => rounds' > 0)
    BY <1>1, <1>2 DEF IInv, TypeOK, WaitIsOver
  <2> QED
    BY <1>1, <1>2, <1>5, <2>1, <2>2, <2>3, <2>4 DEF IInv, TypeOK, AllGoals
<1>7. Ordered(plan)'
  <2>1. CASE plan' = plan
    BY <2>1 DEF IInv, Ordered
  <2>2. CASE plan' = Tail(plan)
    BY <1>1, <2>2, Advanced DEF Ordered
  <2> QED
    BY <1>1, <1>2, <2>1, <2>2
<1>8. StepMatches'
  BY <1>1, <1>2, <1>3 DEF StepMatches, Wish, State
<1>9. CacheAgrees'
  BY <1>1, <1>2, <1>4, <1>5 DEF CacheAgrees, State
<1>10. TunnelGoals'
  <2>1. \A i \in 1..Len(plan) : plan[i].unit = Gluetun => plan[i].want = "tunnel"
    BY <1>1, <1>3, FirstGoal
  <2> QED
    BY <1>1, <1>2, <2>1, Advanced DEF TunnelGoals
<1>11. TunnelKept'
  BY <1>1, <1>2, <1>5 DEF TunnelKept, State
<1>12. TransferLeft'
  <2>1. StopsTunnel(plan)' /\ ~ HasTransfer(plan)' => StopsTunnel(plan) /\ ~ HasTransfer(plan)
    BY <1>1, <1>2, <1>3, <1>4, Advanced DEF StopsTunnel, HasTransfer
  <2> QED
    BY <1>1, <1>4, <1>5, <2>1 DEF IInv, TransferLeft
<1> QED
  BY <1>6, <1>7, <1>8, <1>9, <1>10, <1>11, <1>12 DEF IInv

----------------------------------------------------------------------------
(* The theorems.                                                           *)

\* The daemon begins with no pass and everything in doubt.
LEMMA InitHolds ==
  ASSUME Init
  PROVE  IInv
<1>1. plan \in Seq(AllGoals)
  BY DEF Init
<1>2. TypeOK
  BY <1>1 DEF Init, TypeOK, AllGoals, Seen
<1>3. Ordered(plan) /\ TransferLeft
  BY DEF Init, Ordered, TransferLeft, StopsTunnel
<1>4. StepMatches /\ CacheAgrees /\ TunnelGoals /\ TunnelKept
  BY MediaUnits DEF Init, StepMatches, CacheAgrees, TunnelGoals, TunnelKept, State
<1> QED
  BY <1>2, <1>3, <1>4 DEF IInv

\* Every step keeps the invariant.
LEMMA StepHolds ==
  ASSUME IInv, [Next]_vars
  PROVE  IInv'
<1>1. CASE UNCHANGED vars
  <2>1. TypeOK'
    BY <1>1 DEF IInv, TypeOK, vars
  <2> QED
    BY <1>1, <2>1, QuietStep DEF vars
<1>2. CASE \/ \E m \in Requests : ConsoleRequests(m) \/ SelectorOpens(m)
           \/ \E m \in MenuModes : MenuOpens(m)
           \/ SelectorWrites \/ WriteFails
  BY <1>2, WriterStep
<1>3. CASE MenuWrites \/ Poll \/ PollFails
  BY <1>3, MenuWritesStep, PollStep, PollFailsStep
<1>4. CASE Skip \/ Look \/ Call \/ Wait
  BY <1>4, SkipStep, LookStep, CallStep, WaitStep
<1>5. CASE \E u \in Units : CacheExpires(u) \/ OthersChange(u)
  BY <1>5, ExpiresStep, OthersStep
<1> QED
  BY <1>1, <1>2, <1>3, <1>4, <1>5 DEF Next

\* The invariant behind the theorems: what a pass saw of the tunnel stays so or gets in
\* doubt, and a pass that will stop the tunnel has stopped the transfer before.
THEOREM Invariant == Spec => []IInv
  BY InitHolds, StepHolds, PTL DEF Spec

\* Type correctness; a wait for the tunnel never runs out of rounds unnoticed.
THEOREM TypeCorrect == Spec => []TypeOK
<1>1. IInv => TypeOK
  BY DEF IInv
<1> QED
  BY <1>1, Invariant, PTL

\* A unit that changes and is not in doubt was commanded by the first goal.
LEMMA Commanded ==
  ASSUME IInv, [Next]_vars, NEW u \in Units, units'[u] # units[u], u \notin doubt'
  PROVE  /\ plan # <<>> /\ Head(plan).unit = u /\ Head(plan) \in AllGoals
         /\ units'[u] = Wish(Head(plan))
<1>1. units' # units
  OBVIOUS
<1>2. ~ UNCHANGED vars
  BY <1>1 DEF vars
<1>3. ~ \E v \in Units : CacheExpires(v) \/ OthersChange(v)
  <2>1. \A v \in Units : ~ CacheExpires(v)
    BY <1>1 DEF CacheExpires
  <2>2. ASSUME NEW v \in Units, OthersChange(v)
        PROVE  FALSE
    BY <2>2 DEF OthersChange, IInv, TypeOK
  <2> QED
    BY <2>1, <2>2
<1>4. Call
  BY <1>1, <1>2, <1>3 DEF Next, ConsoleRequests, SelectorOpens, MenuOpens, SelectorWrites, WriteFails,
     MenuWrites, Poll, PollFails, Skip, Look, Wait
<1>5. plan # <<>> /\ Head(plan) \in AllGoals
  BY <1>4, Advanced DEF Call
<1>6. units' = [units EXCEPT ![Head(plan).unit] = Wish(Head(plan))]
  BY <1>1, <1>4 DEF Call
<1> QED
  BY <1>5, <1>6 DEF IInv, TypeOK, AllGoals

\* The reconciler starts qBittorrent only behind a tunnel that runs, or that somebody
\* else or a failing docker put in doubt: whatever was read from the cache, and
\* however many requests, faults and media containers there are.
THEOREM TunnelBeforeTransfer == Spec => TunnelFirst
<1>1. ASSUME IInv, [Next]_vars, units[Qbt] = "stopped", units'[Qbt] = "up", Qbt \notin doubt'
      PROVE  units[Gluetun] = "up" \/ Gluetun \in doubt
  <2>1. plan # <<>> /\ Head(plan).unit = Qbt /\ Wish(Head(plan)) = "up"
    BY <1>1, Commanded, MediaUnits
  <2>2. Head(plan).want \in {"off", "on_behind_tunnel", "only_behind_tunnel"}
    BY <1>1, <2>1, FirstGoal
  <2>3. tunnel = "up"
    BY <2>1, <2>2 DEF Wish
  <2> QED
    BY <1>1, <2>3 DEF IInv, TunnelKept
<1>2. IInv /\ [Next]_vars =>
        [units[Qbt] = "stopped" /\ units'[Qbt] = "up" /\ Qbt \notin doubt'
           => units[Gluetun] = "up" \/ Gluetun \in doubt]_vars
  BY <1>1
<1> QED
  BY <1>2, Invariant, PTL DEF Spec, TunnelFirst

\* The reconciler stops gluetun only when the transfer is stopped, or in doubt.
THEOREM TransferBeforeTunnel == Spec => TransferLeavesFirst
<1>1. ASSUME IInv, [Next]_vars, units[Gluetun] = "up", units'[Gluetun] = "stopped", Gluetun \notin doubt'
      PROVE  units[Qbt] = "stopped" \/ Qbt \in doubt
  <2>1. plan # <<>> /\ Head(plan).unit = Gluetun /\ Wish(Head(plan)) = "stopped"
    BY <1>1, Commanded, MediaUnits
  <2>2. Head(plan).want = "off"
    BY <1>1, <2>1, FirstGoal DEF Wish
  <2> QED
    BY <1>1, <2>1, <2>2, FirstGoal DEF IInv, TransferLeft
<1>2. IInv /\ [Next]_vars =>
        [units[Gluetun] = "up" /\ units'[Gluetun] = "stopped" /\ Gluetun \notin doubt'
           => units[Qbt] = "stopped" \/ Qbt \in doubt]_vars
  BY <1>1
<1> QED
  BY <1>2, Invariant, PTL DEF Spec, TransferLeavesFirst

=============================================================================
