------------------------ MODULE ButtonsAndMiniPcProofs -----------------------
(***************************************************************************)
(* Two components that share no name and no state, each with its own       *)
(* invariant: the buttons, and the transfers of the mini PC.               *)
(***************************************************************************)
EXTENDS Buttons, MiniPcTransfer, TLAPS

-----------------------------------------------------------------------------
(* Buttons: a gesture is what the user did, for any debounce and hold      *)
(* times, any number of applications and key events.                       *)
(*                                                                         *)
(* The argument is about one key at a time.  Every release that waits in   *)
(* the kernel's queue finds its own press: in the queue before it, with    *)
(* no event of the key between, or, when that was read, in press_times.    *)
(* A bounce does not disturb this: it forgets a release, but the next      *)
(* press overwrites what it left.                                          *)

Times == {Never} \cup 0 .. MaxClock

KeyEvents == [key : Keys, value : {0, 1}, time : 0 .. MaxClock, hold : 0 .. MaxClock]

(* Event i of the queue q, of key k, is a press, and the last event of the *)
(* key before position n.                                                  *)
PressBefore(q, k, i, n) ==
  /\ i \in 1 .. Len(q) /\ i < n
  /\ q[i].key = k /\ q[i].value = 1
  /\ \A j \in i + 1 .. Len(q) : j < n => q[j].key # k

NoneBefore(q, k, n) == \A j \in 1 .. Len(q) : j < n => q[j].key # k

(* The press that an event at position n would end was made at time t. *)
Since(q, times, k, n, t) ==
  \/ \E i \in 1 .. Len(q) : PressBefore(q, k, i, n) /\ q[i].time = t
  \/ NoneBefore(q, k, n) /\ times[k] = t

KeysOK ==
  /\ clock \in 0 .. MaxClock
  /\ down \in [Keys -> Times]
  /\ \A k \in Keys : down[k] <= clock
  /\ pressTimes \in [Keys -> Times]
  /\ lastRelease \in [Keys -> Times]
  /\ kernel \in Seq(KeyEvents)

(* Each release finds its press, and so will that of a key that is held. *)
Paired ==
  /\ \A n \in 1 .. Len(kernel) : kernel[n].value = 0 =>
       Since(kernel, pressTimes, kernel[n].key, n, kernel[n].time - kernel[n].hold)
       /\ kernel[n].hold <= kernel[n].time
  /\ \A k \in Keys : down[k] # Never => Since(kernel, pressTimes, k, Len(kernel) + 1, down[k])

MainRecord == [pc : {"wait", "send", "stop"}, event : Gestures \cup {"none"},
               todo : SUBSET Apps, dead : SUBSET Apps]

SocketsOK ==
  /\ main \in MainRecord
  /\ clients \subseteq Apps
  /\ main.todo \cup main.dead \subseteq clients
  /\ \A c \in clients : conn[c] \in {"open", "closed"}
  /\ buffer \in [Apps -> Seq(Gestures \cup {"none"})]
  /\ \A a \in Apps : Len(buffer[a]) <= BufferSize
  /\ conn \in [Apps -> Connections]
  /\ app \in Apps /\ life \in {"runs", "hangs", "gone"}

IInv == KeysOK /\ Paired /\ SocketsOK

-----------------------------------------------------------------------------
(* Queues                                                                  *)

LEMMA TailIs ==
  ASSUME NEW S, NEW q \in Seq(S), q # <<>>
  PROVE  /\ Tail(q) \in Seq(S) /\ Head(q) = q[1] /\ q[1] \in S
         /\ Len(Tail(q)) = Len(q) - 1 /\ Len(q) \in Nat \ {0}
         /\ \A i \in 1 .. Len(q) - 1 : Tail(q)[i] = q[i + 1]
OBVIOUS

LEMMA AppendIs ==
  ASSUME NEW S, NEW q \in Seq(S), NEW e \in S
  PROVE  /\ Append(q, e) \in Seq(S)
         /\ Len(Append(q, e)) = Len(q) + 1 /\ Len(q) \in Nat
         /\ \A i \in 1 .. Len(q) : Append(q, e)[i] = q[i]
         /\ Append(q, e)[Len(q) + 1] = e
OBVIOUS

(* What was added behind a position does not matter to it. *)
LEMMA SinceAppend ==
  ASSUME NEW S, NEW q \in Seq(S), NEW e \in S, NEW times, NEW k, NEW n \in 1 .. Len(q) + 1, NEW t,
         Since(q, times, k, n, t)
  PROVE  Since(Append(q, e), times, k, n, t)
<1>1. /\ Len(Append(q, e)) = Len(q) + 1 /\ Len(q) \in Nat
      /\ \A i \in 1 .. Len(q) : Append(q, e)[i] = q[i]
  BY AppendIs
<1>2. CASE NoneBefore(q, k, n) /\ times[k] = t
  BY <1>1, <1>2 DEF Since, NoneBefore
<1>3. CASE \E i \in 1 .. Len(q) : PressBefore(q, k, i, n) /\ q[i].time = t
  <2>1. PICK i \in 1 .. Len(q) : PressBefore(q, k, i, n) /\ q[i].time = t
    BY <1>3
  <2>2. PressBefore(Append(q, e), k, i, n) /\ Append(q, e)[i].time = t
    BY <1>1, <2>1 DEF PressBefore
  <2> QED
    BY <1>1, <2>2 DEF Since
<1> QED
  BY <1>2, <1>3 DEF Since

(* The end of the queue sees over an event of another key. *)
LEMMA SinceOver ==
  ASSUME NEW S, NEW q \in Seq(S), NEW e \in S, NEW times, NEW k, NEW t,
         e.key # k, Since(q, times, k, Len(q) + 1, t)
  PROVE  Since(Append(q, e), times, k, Len(q) + 2, t)
<1>1. /\ Len(Append(q, e)) = Len(q) + 1 /\ Len(q) \in Nat
      /\ \A i \in 1 .. Len(q) : Append(q, e)[i] = q[i]
      /\ Append(q, e)[Len(q) + 1] = e
  BY AppendIs
<1>2. CASE NoneBefore(q, k, Len(q) + 1) /\ times[k] = t
  BY <1>1, <1>2 DEF Since, NoneBefore
<1>3. CASE \E i \in 1 .. Len(q) : PressBefore(q, k, i, Len(q) + 1) /\ q[i].time = t
  <2>1. PICK i \in 1 .. Len(q) : PressBefore(q, k, i, Len(q) + 1) /\ q[i].time = t
    BY <1>3
  <2>2. PressBefore(Append(q, e), k, i, Len(q) + 2) /\ Append(q, e)[i].time = t
    BY <1>1, <2>1 DEF PressBefore
  <2> QED
    BY <1>1, <2>2 DEF Since
<1> QED
  BY <1>2, <1>3 DEF Since

(* The first event is read: a press is found in press_times from then on, *)
(* and nothing behind a release goes back beyond it.                      *)
LEMMA SinceTail ==
  ASSUME NEW S, NEW q \in Seq(S), q # <<>>, NEW times, NEW new, NEW k, NEW t,
         NEW n \in 2 .. Len(q) + 1, Since(q, times, k, n, t),
         IF q[1].key # k THEN new[k] = times[k] ELSE q[1].value = 1 => new[k] = q[1].time
  PROVE  Since(Tail(q), new, k, n - 1, t)
<1>1. /\ Len(Tail(q)) = Len(q) - 1 /\ Len(q) \in Nat \ {0}
      /\ \A i \in 1 .. Len(q) - 1 : Tail(q)[i] = q[i + 1]
  BY TailIs
<1>2. CASE NoneBefore(q, k, n) /\ times[k] = t
  <2>1. q[1].key # k
    BY <1>1, <1>2 DEF NoneBefore
  <2>2. NoneBefore(Tail(q), k, n - 1)
    BY <1>1, <1>2 DEF NoneBefore
  <2> QED
    BY <1>2, <2>1, <2>2 DEF Since
<1>3. CASE \E i \in 1 .. Len(q) : PressBefore(q, k, i, n) /\ q[i].time = t
  <2>1. PICK i \in 1 .. Len(q) : PressBefore(q, k, i, n) /\ q[i].time = t
    BY <1>3
  <2>2. CASE i = 1
    <3>1. NoneBefore(Tail(q), k, n - 1)
      BY <1>1, <2>1, <2>2 DEF PressBefore, NoneBefore
    <3>2. new[k] = t
      BY <2>1, <2>2 DEF PressBefore
    <3> QED
      BY <3>1, <3>2 DEF Since
  <2>3. CASE i # 1
    <3>1. PressBefore(Tail(q), k, i - 1, n - 1) /\ Tail(q)[i - 1].time = t
      BY <1>1, <2>1, <2>3 DEF PressBefore
    <3>2. i - 1 \in 1 .. Len(Tail(q))
      BY <1>1, <2>1, <2>3
    <3> QED
      BY <3>1, <3>2 DEF Since
  <2> QED
    BY <2>2, <2>3
<1> QED
  BY <1>2, <1>3 DEF Since

-----------------------------------------------------------------------------
(* The keys, and the main thread reading them                              *)

LEMMA NeverIs == Never \in Int /\ Never < 0 /\ MaxClock \in Nat
BY TimeAssumption, SizeAssumption DEF Never

LEMMA KeyDownKeeps ==
  ASSUME KeysOK, Paired, NEW k \in Keys, KeyDown(k)
  PROVE  KeysOK' /\ Paired'
<1> DEFINE e == KeyEvent(k, 1, 0)
<1>1. e \in KeyEvents /\ e.key = k /\ e.value = 1 /\ e.time = clock
  BY NeverIs DEF KeyEvent, KeyEvents, KeysOK
<1>2. /\ kernel' = Append(kernel, e) /\ UNCHANGED <<clock, inputVars>>
      /\ down' = [down EXCEPT ![k] = clock]
  BY DEF KeyDown
<1>3. /\ kernel \in Seq(KeyEvents) /\ kernel' \in Seq(KeyEvents)
      /\ Len(kernel') = Len(kernel) + 1 /\ Len(kernel) \in Nat
      /\ \A i \in 1 .. Len(kernel) : kernel'[i] = kernel[i]
      /\ kernel'[Len(kernel) + 1] = e
  BY <1>1, <1>2, AppendIs DEF KeysOK
<1> HIDE DEF e
<1>4. KeysOK'
  BY <1>2, <1>3, NeverIs DEF KeysOK, Times, inputVars
<1>5. ASSUME NEW n \in 1 .. Len(kernel'), kernel'[n].value = 0
      PROVE  /\ Since(kernel', pressTimes', kernel'[n].key, n, kernel'[n].time - kernel'[n].hold)
             /\ kernel'[n].hold <= kernel'[n].time
  <2>1. n \in 1 .. Len(kernel) /\ kernel'[n] = kernel[n]
    BY <1>1, <1>3, <1>5
  <2>2. /\ Since(kernel, pressTimes, kernel[n].key, n, kernel[n].time - kernel[n].hold)
        /\ kernel[n].hold <= kernel[n].time
    BY <1>5, <2>1 DEF Paired
  <2>3. Since(Append(kernel, e), pressTimes, kernel[n].key, n, kernel[n].time - kernel[n].hold)
    BY <1>1, <1>3, <2>1, <2>2, SinceAppend
  <2> QED
    BY <1>2, <2>1, <2>2, <2>3 DEF inputVars
<1>6. ASSUME NEW k2 \in Keys, down'[k2] # Never
      PROVE  Since(kernel', pressTimes', k2, Len(kernel') + 1, down'[k2])
  <2>1. CASE k2 = k
    <3>1. down'[k2] = clock
      BY <1>2, <2>1 DEF KeysOK
    <3>2. PressBefore(kernel', k2, Len(kernel) + 1, Len(kernel') + 1)
      BY <1>1, <1>3, <2>1 DEF PressBefore
    <3> QED
      BY <1>1, <1>3, <3>1, <3>2 DEF Since
  <2>2. CASE k2 # k
    <3>1. down'[k2] = down[k2]
      BY <1>2, <2>2 DEF KeysOK
    <3>2. Since(kernel, pressTimes, k2, Len(kernel) + 1, down[k2])
      BY <1>6, <3>1 DEF Paired
    <3>3. Since(Append(kernel, e), pressTimes, k2, Len(kernel) + 2, down[k2])
      BY <1>1, <1>3, <2>2, <3>2, SinceOver
    <3> QED
      BY <1>2, <1>3, <3>1, <3>3 DEF inputVars
  <2> QED
    BY <2>1, <2>2
<1> QED
  BY <1>4, <1>5, <1>6 DEF Paired

(* The press of the release is the one the key is held since. *)
LEMMA KeyUpKeeps ==
  ASSUME KeysOK, Paired, NEW k \in Keys, KeyUp(k)
  PROVE  KeysOK' /\ Paired'
<1> DEFINE e == KeyEvent(k, 0, clock - down[k])
<1>0. down[k] \in 0 .. MaxClock /\ down[k] <= clock /\ clock \in 0 .. MaxClock /\ down[k] # Never
  BY DEF KeyUp, KeysOK, Times
<1>1. e \in KeyEvents /\ e.key = k /\ e.time - e.hold = down[k] /\ e.hold <= e.time
  BY <1>0, NeverIs DEF KeyEvent, KeyEvents
<1>2. /\ kernel' = Append(kernel, e) /\ UNCHANGED <<clock, inputVars>>
      /\ down' = [down EXCEPT ![k] = Never]
  BY DEF KeyUp
<1>3. /\ kernel \in Seq(KeyEvents) /\ kernel' \in Seq(KeyEvents)
      /\ Len(kernel') = Len(kernel) + 1 /\ Len(kernel) \in Nat
      /\ \A i \in 1 .. Len(kernel) : kernel'[i] = kernel[i]
      /\ kernel'[Len(kernel) + 1] = e
  BY <1>1, <1>2, AppendIs DEF KeysOK
<1> HIDE DEF e
<1>4. KeysOK'
  BY <1>0, <1>2, <1>3, NeverIs DEF KeysOK, Times, inputVars
<1>5. ASSUME NEW n \in 1 .. Len(kernel'), kernel'[n].value = 0
      PROVE  /\ Since(kernel', pressTimes', kernel'[n].key, n, kernel'[n].time - kernel'[n].hold)
             /\ kernel'[n].hold <= kernel'[n].time
  <2>1. CASE n \in 1 .. Len(kernel)
    <3>1. kernel'[n] = kernel[n]
      BY <1>3, <2>1
    <3>2. /\ Since(kernel, pressTimes, kernel[n].key, n, kernel[n].time - kernel[n].hold)
          /\ kernel[n].hold <= kernel[n].time
      BY <1>5, <2>1, <3>1 DEF Paired
    <3>3. Since(Append(kernel, e), pressTimes, kernel[n].key, n, kernel[n].time - kernel[n].hold)
      BY <1>1, <1>3, <2>1, <3>2, SinceAppend
    <3> QED
      BY <1>2, <3>1, <3>2, <3>3 DEF inputVars
  <2>2. CASE n = Len(kernel) + 1
    <3>1. Since(kernel, pressTimes, k, Len(kernel) + 1, down[k])
      BY <1>0 DEF Paired
    <3>2. Since(Append(kernel, e), pressTimes, k, Len(kernel) + 1, down[k])
      BY <1>1, <1>3, <3>1, SinceAppend
    <3> QED
      BY <1>1, <1>2, <1>3, <2>2, <3>2 DEF inputVars
  <2> QED
    BY <1>3, <2>1, <2>2
<1>6. ASSUME NEW k2 \in Keys, down'[k2] # Never
      PROVE  Since(kernel', pressTimes', k2, Len(kernel') + 1, down'[k2])
  <2>1. k2 # k /\ down'[k2] = down[k2]
    BY <1>2, <1>6 DEF KeysOK
  <2>2. Since(kernel, pressTimes, k2, Len(kernel) + 1, down[k2])
    BY <1>6, <2>1 DEF Paired
  <2>3. Since(Append(kernel, e), pressTimes, k2, Len(kernel) + 2, down[k2])
    BY <1>1, <1>3, <2>1, <2>2, SinceOver
  <2> QED
    BY <1>2, <1>3, <2>1, <2>3 DEF inputVars
<1> QED
  BY <1>4, <1>5, <1>6 DEF Paired

(* The main thread takes the first event: a press with its time, a release *)
(* in any way.                                                             *)
LEMMA ReadKeeps ==
  ASSUME KeysOK, Paired, kernel # <<>>, kernel' = Tail(kernel), UNCHANGED <<clock, down>>,
         pressTimes' \in [Keys -> Times], lastRelease' \in [Keys -> Times],
         \A k \in Keys : IF kernel[1].key # k THEN pressTimes'[k] = pressTimes[k]
                         ELSE kernel[1].value = 1 => pressTimes'[k] = kernel[1].time
  PROVE  KeysOK' /\ Paired'
<1>1. /\ kernel \in Seq(KeyEvents) /\ kernel' \in Seq(KeyEvents)
      /\ Len(kernel') = Len(kernel) - 1 /\ Len(kernel) \in Nat \ {0}
      /\ \A i \in 1 .. Len(kernel) - 1 : kernel'[i] = kernel[i + 1] /\ kernel'[i] \in KeyEvents
  BY TailIs DEF KeysOK
<1>2. KeysOK'
  BY <1>1 DEF KeysOK
<1>3. ASSUME NEW n \in 1 .. Len(kernel'), kernel'[n].value = 0
      PROVE  /\ Since(kernel', pressTimes', kernel'[n].key, n, kernel'[n].time - kernel'[n].hold)
             /\ kernel'[n].hold <= kernel'[n].time
  <2>1. n + 1 \in 2 .. Len(kernel) + 1 /\ n + 1 \in 1 .. Len(kernel) /\ kernel'[n] = kernel[n + 1]
        /\ kernel'[n].key \in Keys
    BY <1>1 DEF KeyEvents
  <2> DEFINE k == kernel'[n].key
             t == kernel'[n].time - kernel'[n].hold
  <2>2. Since(kernel, pressTimes, k, n + 1, t) /\ kernel'[n].hold <= kernel'[n].time
    BY <1>3, <2>1 DEF Paired
  <2>3. k \in Keys /\ (n + 1) - 1 = n
    BY <2>1
  <2> HIDE DEF k, t
  <2>4. Since(Tail(kernel), pressTimes', k, n + 1 - 1, t)
    BY <1>1, <2>1, <2>2, <2>3, SinceTail
  <2> QED
    BY <2>2, <2>3, <2>4 DEF k, t
<1>4. ASSUME NEW k \in Keys, down'[k] # Never
      PROVE  Since(kernel', pressTimes', k, Len(kernel') + 1, down'[k])
  <2>1. Since(kernel, pressTimes, k, Len(kernel) + 1, down[k])
    BY <1>4 DEF Paired
  <2>2. Len(kernel) + 1 \in 2 .. Len(kernel) + 1 /\ Len(kernel) + 1 - 1 = Len(kernel') + 1
    BY <1>1
  <2>3. Since(Tail(kernel), pressTimes', k, Len(kernel) + 1 - 1, down[k])
    BY <1>1, <2>1, <2>2, SinceTail
  <2> QED
    BY <2>2, <2>3
<1> QED
  BY <1>2, <1>3, <1>4 DEF Paired

(* handle_event(): the hold it computes is the true one. *)
LEMMA HeldIsHold ==
  ASSUME KeysOK, Paired, kernel # <<>>, kernel[1].value = 0
  PROVE  LET e    == Head(kernel)
             from == IF pressTimes[e.key] = Never THEN EventTime(e) ELSE pressTimes[e.key]
             held == IF EventTime(e) < from THEN 0 ELSE EventTime(e) - from
         IN  held = e.hold
<1>1. Head(kernel) = kernel[1] /\ kernel[1] \in KeyEvents /\ 1 \in 1 .. Len(kernel)
  BY TailIs DEF KeysOK
<1>2. /\ Since(kernel, pressTimes, kernel[1].key, 1, kernel[1].time - kernel[1].hold)
      /\ kernel[1].hold <= kernel[1].time
  BY <1>1 DEF Paired
<1>3. pressTimes[kernel[1].key] = kernel[1].time - kernel[1].hold
  BY <1>1, <1>2 DEF Since, PressBefore
<1> QED
  BY <1>1, <1>2, <1>3, NeverIs DEF EventTime, KeyEvents

LEMMA ReadsKeep ==
  ASSUME KeysOK, Paired, ReadsPress \/ ReadsBounce \/ ReadsRelease
  PROVE  KeysOK' /\ Paired'
<1>1. /\ kernel # <<>> /\ Head(kernel) = kernel[1] /\ kernel[1] \in KeyEvents
      /\ pressTimes \in [Keys -> Times] /\ lastRelease \in [Keys -> Times]
  BY TailIs DEF KeysOK, ReadsPress, ReadsBounce, ReadsRelease
<1>2. CASE ReadsPress
  BY <1>1, <1>2, ReadKeeps DEF ReadsPress, EventTime, KeyEvents, Times
<1>3. CASE ReadsBounce
  <2>1. kernel[1].value # 1
    BY <1>1, <1>3 DEF ReadsBounce
  <2> QED
    BY <1>1, <1>3, <2>1, ReadKeeps DEF ReadsBounce, inputVars
<1>4. CASE ReadsRelease
  <2>1. /\ kernel[1].value = 0
        /\ lastRelease' = [lastRelease EXCEPT ![kernel[1].key] = kernel[1].time]
        /\ pressTimes' = [pressTimes EXCEPT ![kernel[1].key] = Never]
    BY <1>1, <1>4 DEF ReadsRelease, EventTime
  <2> QED
    BY <1>1, <1>4, <2>1, ReadKeeps DEF ReadsRelease, KeyEvents, Times
<1> QED
  BY <1>2, <1>3, <1>4

-----------------------------------------------------------------------------
(* The server, its sockets and the application                             *)

LEMMA ReleaseSockets ==
  ASSUME KeysOK, SocketsOK, ReadsRelease
  PROVE  SocketsOK'
<1>1. \E class \in Gestures : Route(class)
  BY DEF ReadsRelease, Class, Gestures
<1>2. PICK class \in Gestures : Route(class)
  BY <1>1
<1>3. UNCHANGED socketVars
  BY DEF ReadsRelease
<1>4. CASE AppRuns
  BY <1>2, <1>3, <1>4 DEF SocketsOK, MainRecord, Route, socketVars, appVars
<1>5. CASE ~ AppRuns
  <2>1. app' \in Apps /\ life' \in {"runs", "hangs", "gone"} /\ main' = Waiting
    BY <1>2, <1>5, SizeAssumption DEF SocketsOK, Route, appVars, Apps
  <2> QED
    BY <1>3, <2>1 DEF SocketsOK, MainRecord, Waiting, socketVars
<1> QED
  BY <1>4, <1>5

LEMMA SendKeeps ==
  ASSUME SocketsOK, NEW c \in Apps, SendTo(c)
  PROVE  SocketsOK'
<1>1. main.event \in Gestures \cup {"none"} /\ main \in MainRecord /\ c \in clients
  BY DEF SocketsOK, MainRecord, SendTo
<1>2. CASE conn[c] = "closed" /\ main' = [main EXCEPT !.todo = @ \ {c}, !.dead = @ \cup {c}] /\ UNCHANGED buffer
  BY <1>1, <1>2 DEF SocketsOK, MainRecord, SendTo, appVars
<1>3. CASE /\ Len(buffer[c]) < BufferSize
           /\ buffer' = [buffer EXCEPT ![c] = Append(@, main.event)]
           /\ main' = [main EXCEPT !.todo = @ \ {c}]
  <2>1. buffer[c] \in Seq(Gestures \cup {"none"}) /\ BufferSize \in Nat
    BY SizeAssumption DEF SocketsOK
  <2>2. /\ Append(buffer[c], main.event) \in Seq(Gestures \cup {"none"})
        /\ Len(Append(buffer[c], main.event)) <= BufferSize
    BY <1>1, <1>3, <2>1, AppendIs
  <2>3. /\ buffer' \in [Apps -> Seq(Gestures \cup {"none"})]
        /\ \A a \in Apps : Len(buffer'[a]) <= BufferSize
    BY <1>3, <2>2 DEF SocketsOK
  <2> QED
    BY <1>1, <1>3, <2>3 DEF SocketsOK, MainRecord, SendTo, appVars
<1> QED
  BY <1>2, <1>3 DEF SendTo

(* The application's end closes its connection and empties its socket. *)
LEMMA EndSockets ==
  ASSUME SocketsOK, main' \in MainRecord, main'.todo \cup main'.dead \subseteq clients,
         life' = "gone", UNCHANGED <<clients, app>>,
         conn' = [conn EXCEPT ![app] = Closed(@)],
         buffer' = [buffer EXCEPT ![app] = <<>>]
  PROVE  SocketsOK'
<1>1. /\ app \in Apps /\ conn[app] \in Connections /\ Closed(conn[app]) \in Connections
      /\ conn[app] \in {"open", "closed"} => Closed(conn[app]) = "closed"
  BY DEF SocketsOK, Closed, Connections
<1>2. conn' \in [Apps -> Connections] /\ \A c \in clients : conn'[c] \in {"open", "closed"}
  BY <1>1 DEF SocketsOK
<1>3. /\ buffer' \in [Apps -> Seq(Gestures \cup {"none"})]
      /\ \A a \in Apps : Len(buffer'[a]) <= BufferSize
  <2>1. <<>> \in Seq(Gestures \cup {"none"}) /\ Len(<<>>) = 0
    OBVIOUS
  <2> QED
    BY <1>1, <2>1, SizeAssumption DEF SocketsOK
<1> QED
  BY <1>2, <1>3 DEF SocketsOK

LEMMA HandlesKeeps ==
  ASSUME SocketsOK, Handles
  PROVE  SocketsOK'
<1>1. app \in Apps /\ buffer[app] \in Seq(Gestures \cup {"none"}) /\ buffer[app] # <<>>
  BY DEF SocketsOK, Handles
<1>2. Tail(buffer[app]) \in Seq(Gestures \cup {"none"}) /\ Len(Tail(buffer[app])) <= BufferSize
  <2>1. Len(buffer[app]) <= BufferSize /\ BufferSize \in Nat
    BY <1>1, SizeAssumption DEF SocketsOK
  <2> QED
    BY <1>1, <2>1, TailIs
<1>3. /\ buffer' \in [Apps -> Seq(Gestures \cup {"none"})]
      /\ \A a \in Apps : Len(buffer'[a]) <= BufferSize
  BY <1>2 DEF SocketsOK, Handles
<1> QED
  BY <1>3 DEF SocketsOK, Handles, appVars

LEMMA OtherSockets ==
  ASSUME SocketsOK,
         \/ Published \/ (\E c \in Apps : Accept(c)) \/ Connects \/ Hangs
         \/ UNCHANGED <<main, socketVars, appVars>>
  PROVE  SocketsOK'
<1>1. CASE Published
  BY <1>1 DEF SocketsOK, MainRecord, Published, AfterPublish, Waiting, appVars
<1>2. CASE \E c \in Apps : Accept(c)
  BY <1>2 DEF SocketsOK, Accept, Connections, appVars
<1>3. CASE Connects \/ Hangs
  BY <1>3 DEF SocketsOK, Connects, Hangs, Connections, socketVars, appVars
<1>4. CASE UNCHANGED <<main, socketVars, appVars>>
  BY <1>4 DEF SocketsOK, socketVars, appVars
<1> QED
  BY <1>1, <1>2, <1>3, <1>4

-----------------------------------------------------------------------------
(* The theorems                                                            *)

LEMMA InitHolds == Init => IInv
<1> SUFFICES ASSUME Init PROVE IInv
  OBVIOUS
<1>1. KeysOK /\ Paired
  BY NeverIs DEF Init, KeysOK, Paired, Times
<1>2. SocketsOK
  BY SizeAssumption DEF Init, SocketsOK, MainRecord, Waiting, Connections, Apps
<1> QED
  BY <1>1, <1>2 DEF IInv

LEMMA StepKeeps == IInv /\ [Next]_vars => IInv'
<1> SUFFICES ASSUME IInv, [Next]_vars PROVE IInv'
  OBVIOUS
<1>0. KeysOK /\ Paired /\ SocketsOK
  BY DEF IInv
<1>1. CASE Tick
  <2>1. KeysOK' /\ Paired'
    BY <1>0, <1>1, NeverIs DEF Tick, KeysOK, Paired, Times, inputVars
  <2> QED
    BY <1>0, <1>1, <2>1, OtherSockets DEF IInv, Tick
<1>2. CASE \E k \in Keys : KeyDown(k) \/ KeyUp(k)
  <2>1. UNCHANGED <<main, socketVars, appVars>>
    BY <1>2 DEF KeyDown, KeyUp
  <2> QED
    BY <1>0, <1>2, <2>1, KeyDownKeeps, KeyUpKeeps, OtherSockets DEF IInv
<1>3. CASE ReadsPress \/ ReadsBounce \/ ReadsRelease
  <2>1. CASE ReadsPress \/ ReadsBounce
    BY <1>0, <2>1, ReadsKeep, OtherSockets DEF IInv, ReadsPress, ReadsBounce
  <2>2. CASE ReadsRelease
    BY <1>0, <2>2, ReadsKeep, ReleaseSockets DEF IInv
  <2> QED
    BY <1>3, <2>1, <2>2
<1>4. ASSUME \/ (\E c \in Apps : SendTo(c) \/ Accept(c)) \/ Published \/ Stops
             \/ Connects \/ Handles \/ Hangs \/ Quits
             \/ UNCHANGED vars
      PROVE  IInv'
  <2>1. UNCHANGED <<keyVars, inputVars>>
    BY <1>4 DEF SendTo, Accept, Published, Stops, Connects, Handles, Hangs, Quits, vars
  <2>2. KeysOK' /\ Paired'
    BY <1>0, <2>1 DEF KeysOK, Paired, keyVars, inputVars
  <2>3. SocketsOK'
    <3>1. CASE \E c \in Apps : SendTo(c)
      BY <1>0, <3>1, SendKeeps
    <3>2. CASE Handles
      BY <1>0, <3>2, HandlesKeeps
    <3>3. CASE Stops \/ Quits
      BY <1>0, <3>3, EndSockets DEF Stops, Quits, Waiting, MainRecord, SocketsOK
    <3>4. CASE Published \/ (\E c \in Apps : Accept(c)) \/ Connects \/ Hangs \/ UNCHANGED vars
      BY <1>0, <3>4, OtherSockets DEF vars
    <3> QED
      BY <1>4, <3>1, <3>2, <3>3, <3>4
  <2> QED
    BY <2>2, <2>3 DEF IInv
<1> QED
  BY <1>1, <1>2, <1>3, <1>4 DEF Next, Main

(* The inductive invariant holds in every reachable state. *)
THEOREM Invariant == Spec => []IInv
<1> QED
  BY InitHolds, StepKeeps, PTL DEF Spec

(* The types of the clock, the keys, the main thread and the sockets; a    *)
(* client of the server was accepted, and what waits in a socket fits.     *)
THEOREM TypeCorrect == Spec => []TypeOK
<1>1. IInv => TypeOK
  BY DEF IInv, KeysOK, SocketsOK, MainRecord, Times, TypeOK
<1> QED
  BY <1>1, Invariant, PTL

(* handle_event(): what is sent to the application, or opens one, is       *)
(* classified by the time the key was held, however late it is handled and *)
(* whatever releases were dropped as bounces.                              *)
THEOREM GestureTrue == Spec => GestureIsHold
<1> DEFINE Act == LET e == Head(kernel) IN
        /\ main.pc = "wait" /\ main'.pc = "send" => main'.event = Class(e.key, e.hold)
        /\ app' # app => Class(e.key, e.hold) = "select"
<1>1. IInv /\ [Next]_vars => [Act]_vars
  <2> SUFFICES ASSUME IInv, Next PROVE Act
    OBVIOUS
  <2>1. CASE ReadsRelease
    <3>1. kernel # <<>> /\ kernel[1].value = 0
      <4>1. kernel # <<>> /\ Head(kernel).value = 0
        BY <2>1 DEF ReadsRelease
      <4> QED
        BY <4>1, TailIs DEF IInv, KeysOK
    <3>2. Route(Class(Head(kernel).key, Head(kernel).hold))
      BY <2>1, <3>1, HeldIsHold DEF IInv, ReadsRelease
    <3> QED
      BY <3>2 DEF Route, Waiting, appVars
  <2>2. CASE ~ ReadsRelease
    <3>1. app' = app
      BY <2>2 DEF Next, Main, Tick, KeyDown, KeyUp, ReadsPress, ReadsBounce, SendTo, Accept,
           Published, Stops, Connects, Handles, Hangs, Quits, appVars
    <3>2. main' = main \/ main.pc \in {"send", "stop"}
      BY <2>2 DEF Next, Main, Tick, KeyDown, KeyUp, ReadsPress, ReadsBounce, SendTo, Accept,
           Published, Stops, Connects, Handles, Hangs, Quits
    <3> QED
      BY <3>1, <3>2
  <2> QED
    BY <2>1, <2>2
<1> QED
  BY <1>1, Invariant, PTL DEF Spec, GestureIsHold

-----------------------------------------------------------------------------
(* MiniPcTransfer: what was deleted is on the other side, for any files,   *)
(* contents, destinations, jobs and requests.                              *)
(*                                                                         *)
(* A job that verified its paths compared the size of each with that of    *)
(* its copy; from then on the copy is there, whatever other jobs do, or    *)
(* the path is in doubt (Confirmed).  A deletion removes only such paths.  *)

JobRecord ==
  [pc : {"none", "scan", "look", "copy", "copying", "check", "ended"},
   paths : SUBSET Paths, dest : Dests \cup {None},
   todo : SUBSET (Paths \X Members), file : (Paths \X Members) \cup {None},
   size : Nat, sends : Contents \cup {None},
   status : {"none", "running", "completed", "failed", "verify_failed"},
   verified : BOOLEAN, deleted : BOOLEAN]

RequestRecord ==
  [pc : {"free", "next", "remove"}, kind : {"none", "verified", "exported"},
   job : Jobs \cup {None}, dest : Dests \cup {None}, todo : SUBSET Paths,
   path : Paths \cup {None}]

Here  == [Paths -> [Members -> Contents \cup {None}]]
There == [Dests -> [Names -> [Members -> Contents \cup {"part", None}]]]

(* What follows is said of the files here, l, those there, t, and the doubt, d. *)
HasCopy(l, t, p) ==
  \E e \in Dests : \A m \in Members : l[p][m] # None => t[e][NameOf[p]][m] = l[p][m]

(* The sizes of a path were compared, and it is there, or in doubt. *)
Confirmed(l, t, d, p) == p \in d \/ HasCopy(l, t, p)

Namesakes(n) == {q \in Paths : NameOf[q] = n}

Sends(a) == a.pc = "copying"
NameSent(a) == NameOf[a.file[1]]
Receives(t, a) == t[a.dest][NameSent(a)][a.file[2]]
Meet(a, b) == a.dest = b.dest /\ NameSent(a) = NameSent(b) /\ a.file[2] = b.file[2]

(* A copy under way shows as one, or is in doubt. *)
JobFits(a, l, t, d) ==
  /\ a.verified <=> a.status = "completed"
  /\ a.pc \in {"look", "copy", "copying", "check"} => a.dest \in Dests
  /\ a.pc \in {"copy", "copying", "check"} => a.file \in Paths \X Members
  /\ Sends(a) => /\ a.sends \in Contents
                 /\ Receives(t, a) = "part" \/ Namesakes(NameSent(a)) \subseteq d
  /\ a.status = "completed" => \A p \in a.paths : Confirmed(l, t, d, p)

(* Two jobs that send the same file leave it in doubt. *)
Crossed(jobs, d) ==
  \A j, k \in Jobs : j # k /\ Sends(jobs[j]) /\ Sends(jobs[k]) /\ Meet(jobs[j], jobs[k])
    => Namesakes(NameSent(jobs[j])) \subseteq d

RequestFits(a, l, t, d) ==
  /\ a.pc # "free" /\ a.kind = "verified" => \A p \in a.todo : Confirmed(l, t, d, p)
  /\ a.pc # "free" => a.kind = "verified" \/ (a.kind = "exported" /\ a.dest \in Dests)
  /\ a.pc = "remove" => a.path \in Paths /\ Confirmed(l, t, d, a.path)

MiniPcInv ==
  /\ local \in Here /\ remote \in There /\ config \in Dests \cup {None}
  /\ events \in 0 .. MaxEvents /\ doubt \in SUBSET Paths
  /\ job \in [Jobs -> JobRecord] /\ \A j \in Jobs : JobFits(job[j], local, remote, doubt)
  /\ Crossed(job, doubt)
  /\ request \in [Requests -> RequestRecord]
  /\ \A r \in Requests : RequestFits(request[r], local, remote, doubt)

-----------------------------------------------------------------------------
LEMMA MiniPcAssumed ==
  /\ NameOf \in [Paths -> Names] /\ Size \in [Contents -> Nat \ {0}]
  /\ Downloaded \in [Paths -> [Members -> Contents \cup {None}]] /\ DefaultDest \in Dests
  /\ None \notin Contents /\ None \notin Paths \cup Members /\ "part" \notin Contents
  /\ MaxEvents \in Nat
BY MiniPcAssumption

LEMMA SizeIs == ASSUME NEW c PROVE SizeOf(c) \in Nat
BY MiniPcAssumed DEF SizeOf

LEMMA LoadIs == ASSUME MiniPcInv PROVE LoadConfig \in Dests
BY MiniPcAssumed DEF MiniPcInv, LoadConfig

LEMMA NoJobIs ==
  /\ NoJob \in JobRecord /\ NoJob.pc = "none" /\ NoJob.paths = {} /\ NoJob.status = "none"
  /\ NoJob.verified = FALSE
BY DEF NoJob, JobRecord

LEMMA FreeIs == Free \in RequestRecord /\ Free.pc = "free" /\ Free.todo = {}
BY DEF Free, RequestRecord

LEMMA EndedIs ==
  ASSUME MiniPcInv, NEW j \in Jobs, NEW status \in {"completed", "failed", "verify_failed"}
  PROVE  /\ Ended(j, status) \in JobRecord
         /\ Ended(j, status).pc = "ended" /\ Ended(j, status).paths = job[j].paths
         /\ Ended(j, status).status = status
         /\ Ended(j, status).verified <=> status = "completed"
<1>1. PICK v \in BOOLEAN : v = (status = "completed")
  OBVIOUS
<1>2. PICK ps : ps = job[j].paths
  OBVIOUS
<1>3. ps \in SUBSET Paths
  BY <1>2 DEF MiniPcInv, JobRecord
<1>4. Ended(j, status) = [NoJob EXCEPT !.pc = "ended", !.paths = ps, !.status = status, !.verified = v]
  BY <1>1, <1>2, Zenon DEF Ended
<1>5. PICK n : n = [NoJob EXCEPT !.pc = "ended", !.paths = ps, !.status = status, !.verified = v]
  OBVIOUS
<1>6. /\ n \in JobRecord /\ n.pc = "ended" /\ n.paths = ps /\ n.status = status /\ n.verified = v
  BY <1>3, <1>5, NoJobIs DEF JobRecord
<1> QED
  BY <1>1, <1>2, <1>4, <1>5, <1>6

-----------------------------------------------------------------------------
(* What keeps the invariant.                                               *)

Stays(l, t, d, l2, t2, d2) ==
  \A p \in Paths : Confirmed(l, t, d, p) => Confirmed(l2, t2, d2, p)

LEMMA JobStays ==
  ASSUME NEW a \in JobRecord, NEW l, NEW t, NEW d, NEW l2, NEW t2, NEW d2,
         JobFits(a, l, t, d), Stays(l, t, d, l2, t2, d2),
         Sends(a) => Receives(t2, a) = "part" \/ Namesakes(NameSent(a)) \subseteq d2
  PROVE  JobFits(a, l2, t2, d2)
<1>1. a.paths \subseteq Paths
  BY DEF JobRecord
<1> QED
  BY <1>1 DEF JobFits, Stays

LEMMA RequestStays ==
  ASSUME NEW a \in RequestRecord, NEW l, NEW t, NEW d, NEW l2, NEW t2, NEW d2,
         RequestFits(a, l, t, d), Stays(l, t, d, l2, t2, d2)
  PROVE  RequestFits(a, l2, t2, d2)
<1>1. a.todo \subseteq Paths
  BY DEF RequestRecord
<1> QED
  BY <1>1 DEF RequestFits, Stays

LEMMA MiniPcKeeps ==
  ASSUME MiniPcInv, local' \in Here, remote' \in There, config' \in Dests \cup {None},
         events' \in 0 .. MaxEvents, doubt' \in SUBSET Paths,
         job' \in [Jobs -> JobRecord], request' \in [Requests -> RequestRecord],
         Stays(local, remote, doubt, local', remote', doubt'),
         \A j \in Jobs :
           \/ /\ job'[j] = job[j]
              /\ Sends(job[j]) => \/ Receives(remote', job[j]) = "part"
                                  \/ Namesakes(NameSent(job[j])) \subseteq doubt'
           \/ JobFits(job'[j], local', remote', doubt'),
         Crossed(job', doubt'),
         \A r \in Requests : \/ request'[r] = request[r]
                             \/ RequestFits(request'[r], local', remote', doubt')
  PROVE  MiniPcInv'
<1>1. ASSUME NEW j \in Jobs
      PROVE  JobFits(job'[j], local', remote', doubt')
  <2>1. job[j] \in JobRecord /\ JobFits(job[j], local, remote, doubt)
    BY DEF MiniPcInv
  <2> QED
    BY <2>1, JobStays
<1>2. ASSUME NEW r \in Requests
      PROVE  RequestFits(request'[r], local', remote', doubt')
  <2>1. request[r] \in RequestRecord /\ RequestFits(request[r], local, remote, doubt)
    BY DEF MiniPcInv
  <2> QED
    BY <2>1, RequestStays
<1> QED
  BY <1>1, <1>2 DEF MiniPcInv

(* A step of one job that changes no file and leaves it sending nothing. *)
LEMMA JobMoves ==
  ASSUME MiniPcInv, NEW j \in Jobs, UNCHANGED <<local, remote, config, request, doubt>>,
         events' \in 0 .. MaxEvents, job' \in [Jobs -> JobRecord],
         \A k \in Jobs : k # j => job'[k] = job[k],
         JobFits(job'[j], local, remote, doubt), ~Sends(job'[j])
  PROVE  MiniPcInv'
<1>1. Stays(local, remote, doubt, local', remote', doubt')
  BY DEF Stays
<1>2. Crossed(job', doubt')
  BY DEF MiniPcInv, Crossed
<1>3. ASSUME NEW k \in Jobs
      PROVE  \/ /\ job'[k] = job[k]
                /\ Sends(job[k]) => \/ Receives(remote', job[k]) = "part"
                                    \/ Namesakes(NameSent(job[k])) \subseteq doubt'
             \/ JobFits(job'[k], local', remote', doubt')
  BY DEF MiniPcInv, JobFits
<1> QED
  BY <1>1, <1>2, <1>3, MiniPcKeeps DEF MiniPcInv

(* A step that changes neither the jobs nor a copy. *)
LEMMA RequestMoves ==
  ASSUME MiniPcInv, UNCHANGED <<job, remote>>, local' \in Here, config' \in Dests \cup {None},
         events' \in 0 .. MaxEvents, doubt' \in SUBSET Paths,
         request' \in [Requests -> RequestRecord],
         Stays(local, remote, doubt, local', remote', doubt'),
         Crossed(job, doubt'),
         \A k \in Jobs : Sends(job[k]) /\ Namesakes(NameSent(job[k])) \subseteq doubt
                           => Namesakes(NameSent(job[k])) \subseteq doubt',
         \A r \in Requests : \/ request'[r] = request[r]
                             \/ RequestFits(request'[r], local', remote', doubt')
  PROVE  MiniPcInv'
<1>3. ASSUME NEW k \in Jobs
      PROVE  /\ job'[k] = job[k]
             /\ Sends(job[k]) => \/ Receives(remote', job[k]) = "part"
                                 \/ Namesakes(NameSent(job[k])) \subseteq doubt'
  BY DEF MiniPcInv, JobFits
<1> QED
  BY <1>3, MiniPcKeeps DEF MiniPcInv

LEMMA DoubtGrows ==
  ASSUME NEW l, NEW t, NEW d, NEW d2, d \subseteq d2
  PROVE  Stays(l, t, d, l, t, d2)
BY DEF Stays, Confirmed

LEMMA EventIs ==
  ASSUME MiniPcInv, Event \/ UNCHANGED events
  PROVE  events' \in 0 .. MaxEvents
<1>1. events \in 0 .. MaxEvents
  BY DEF MiniPcInv
<1> QED
  BY <1>1, MiniPcAssumed DEF Event

-----------------------------------------------------------------------------
(* The steps of a job.                                                     *)

LEMMA StartKeeps ==
  ASSUME MiniPcInv, NEW j \in Jobs, NEW ps \in SUBSET Paths, StartTransfer(j, ps)
  PROVE  MiniPcInv'
<1>1. PICK n : n = [NoJob EXCEPT !.pc = "scan", !.paths = ps, !.status = "running"]
  OBVIOUS
<1>2. n \in JobRecord /\ n.pc = "scan" /\ n.status = "running" /\ n.verified = FALSE
  BY <1>1, NoJobIs DEF JobRecord
<1>3. /\ job' = [job EXCEPT ![j] = n]
      /\ UNCHANGED <<local, remote, config, request, events, doubt>>
  BY <1>1 DEF StartTransfer
<1>4. job \in [Jobs -> JobRecord]
  BY DEF MiniPcInv
<1>5. /\ job' \in [Jobs -> JobRecord] /\ \A k \in Jobs : k # j => job'[k] = job[k]
      /\ job'[j] = n
  BY <1>2, <1>3, <1>4
<1>6. JobFits(job'[j], local, remote, doubt) /\ ~Sends(job'[j])
  BY <1>2, <1>5 DEF JobFits, Sends
<1> QED
  BY <1>3, <1>5, <1>6, EventIs, JobMoves

LEMMA EndKeeps ==
  ASSUME MiniPcInv, NEW j \in Jobs, NEW status \in {"failed", "verify_failed"},
         job' = [job EXCEPT ![j] = Ended(j, status)], Event \/ UNCHANGED events,
         UNCHANGED <<local, remote, config, request, doubt>>
  PROVE  MiniPcInv'
<1>1. PICK n : n = Ended(j, status)
  OBVIOUS
<1>2. n \in JobRecord /\ n.pc = "ended" /\ n.status = status /\ (n.verified <=> FALSE)
  BY <1>1, EndedIs
<1>4. job \in [Jobs -> JobRecord]
  BY DEF MiniPcInv
<1>5. /\ job' \in [Jobs -> JobRecord] /\ \A k \in Jobs : k # j => job'[k] = job[k]
      /\ job'[j] = n
  BY <1>1, <1>2, <1>4
<1>6. JobFits(job'[j], local, remote, doubt) /\ ~Sends(job'[j])
  BY <1>2, <1>5 DEF JobFits, Sends
<1> QED
  BY <1>5, <1>6, EventIs, JobMoves

LEMMA ScanKeeps ==
  ASSUME MiniPcInv, NEW j \in Jobs, Scan(j)
  PROVE  MiniPcInv'
<1>1. CASE \A p \in job[j].paths : Exists(p)
  <2>1. PICK e : e = LoadConfig
    OBVIOUS
  <2>2. PICK ts : ts = SourceFiles(job[j].paths)
    OBVIOUS
  <2>3. job \in [Jobs -> JobRecord] /\ JobFits(job[j], local, remote, doubt)
    BY DEF MiniPcInv
  <2>4. e \in Dests /\ ts \in SUBSET (Paths \X Members)
    BY <2>1, <2>2, <2>3, LoadIs DEF SourceFiles, JobRecord
  <2>5. /\ job' = [job EXCEPT ![j].pc = "look", ![j].dest = e, ![j].todo = ts]
        /\ job[j].pc = "scan" /\ UNCHANGED <<local, remote, config, request, events, doubt>>
    BY <1>1, <2>1, <2>2 DEF Scan, At
  <2>6. /\ job' \in [Jobs -> JobRecord] /\ \A k \in Jobs : k # j => job'[k] = job[k]
        /\ job'[j].pc = "look" /\ job'[j].dest = e /\ job'[j].status = job[j].status
        /\ job'[j].verified = job[j].verified /\ job'[j].paths = job[j].paths
    <3>0. PICK a \in JobRecord : a = job[j]
      BY <2>3
    <3>1. PICK n : n = [a EXCEPT !.pc = "look", !.dest = e, !.todo = ts]
      OBVIOUS
    <3>2. job' = [job EXCEPT ![j] = n]
      BY <2>3, <2>5, <3>0, <3>1
    <3>3. n \in JobRecord
      BY <2>4, <3>1 DEF JobRecord
    <3>4. n.pc = "look" /\ n.dest = e /\ n.status = job[j].status /\ n.verified = job[j].verified
          /\ n.paths = job[j].paths
      BY <3>0, <3>1 DEF JobRecord
    <3> QED
      BY <2>3, <3>2, <3>3, <3>4
  <2>7. JobFits(job'[j], local, remote, doubt) /\ ~Sends(job'[j])
    BY <2>3, <2>4, <2>6 DEF JobFits, Sends
  <2> QED
    BY <2>5, <2>6, <2>7, EventIs, JobMoves
<1>2. CASE ~(\A p \in job[j].paths : Exists(p))
  BY <1>2, EndKeeps DEF Scan, Fails
<1> QED
  BY <1>1, <1>2

LEMMA LookKeeps ==
  ASSUME MiniPcInv, NEW j \in Jobs, NEW f \in job[j].todo, Look(j, f)
  PROVE  MiniPcInv'
<1>1. job \in [Jobs -> JobRecord] /\ JobFits(job[j], local, remote, doubt)
  BY DEF MiniPcInv
<1>2. f \in Paths \X Members
  BY <1>1 DEF JobRecord
<1>3. job[j].pc = "look" /\ UNCHANGED <<local, remote, config, request, doubt>>
  BY DEF Look, At
<1>4. CASE Fails(j) /\ UNCHANGED events
  BY <1>3, <1>4, EndKeeps DEF Fails
<1>5. CASE job' = [job EXCEPT ![j].todo = @ \ {f}] /\ UNCHANGED events
  <2>1. /\ job' \in [Jobs -> JobRecord] /\ \A k \in Jobs : k # j => job'[k] = job[k]
        /\ job'[j].pc = job[j].pc /\ job'[j].dest = job[j].dest /\ job'[j].status = job[j].status
        /\ job'[j].verified = job[j].verified /\ job'[j].paths = job[j].paths
    BY <1>1, <1>5 DEF JobRecord
  <2>2. JobFits(job'[j], local, remote, doubt) /\ ~Sends(job'[j])
    BY <1>1, <1>3, <2>1 DEF JobFits, Sends
  <2> QED
    BY <1>3, <1>5, <2>1, <2>2, EventIs, JobMoves
<1>6. CASE /\ Event \/ UNCHANGED events
           /\ job' = [job EXCEPT ![j].pc = "copy", ![j].file = f,
                                 ![j].size = SizeOf(local[f[1]][f[2]])]
  <2>1. PICK s : s = SizeOf(local[f[1]][f[2]])
    OBVIOUS
  <2>2. s \in Nat
    BY <2>1, SizeIs
  <2>3. /\ job' \in [Jobs -> JobRecord] /\ \A k \in Jobs : k # j => job'[k] = job[k]
        /\ job'[j].pc = "copy" /\ job'[j].dest = job[j].dest /\ job'[j].status = job[j].status
        /\ job'[j].verified = job[j].verified /\ job'[j].paths = job[j].paths /\ job'[j].file = f
    <3>1. job' = [job EXCEPT ![j].pc = "copy", ![j].file = f, ![j].size = s]
      BY <1>6, <2>1
    <3>0. PICK a \in JobRecord : a = job[j]
      BY <1>1
    <3>2. PICK n : n = [a EXCEPT !.pc = "copy", !.file = f, !.size = s]
      OBVIOUS
    <3>3. job' = [job EXCEPT ![j] = n]
      BY <1>1, <3>0, <3>1, <3>2
    <3>4. n \in JobRecord
      BY <1>2, <2>2, <3>2 DEF JobRecord
    <3>5. n.pc = "copy" /\ n.dest = job[j].dest /\ n.status = job[j].status
          /\ n.verified = job[j].verified /\ n.paths = job[j].paths /\ n.file = f
      BY <3>0, <3>2 DEF JobRecord
    <3> QED
      BY <1>1, <3>3, <3>4, <3>5
  <2>4. JobFits(job'[j], local, remote, doubt) /\ ~Sends(job'[j])
    BY <1>1, <1>2, <1>3, <2>3 DEF JobFits, Sends
  <2> QED
    BY <1>3, <1>6, <2>3, <2>4, EventIs, JobMoves
<1> QED
  BY <1>4, <1>5, <1>6, Zenon DEF Look

LEMMA CheckKeeps ==
  ASSUME MiniPcInv, NEW j \in Jobs, Check(j)
  PROVE  MiniPcInv'
<1>1. job \in [Jobs -> JobRecord] /\ JobFits(job[j], local, remote, doubt)
  BY DEF MiniPcInv
<1>2. job[j].pc = "check" /\ UNCHANGED <<local, remote, config, request, doubt>>
  BY DEF Check, At
<1>3. CASE /\ UNCHANGED events
           /\ job' = [job EXCEPT ![j].pc = "look", ![j].todo = @ \ {job[j].file},
                                 ![j].file = None, ![j].size = 0]
  <2>1. /\ job' \in [Jobs -> JobRecord] /\ \A k \in Jobs : k # j => job'[k] = job[k]
        /\ job'[j].pc = "look" /\ job'[j].dest = job[j].dest /\ job'[j].status = job[j].status
        /\ job'[j].verified = job[j].verified /\ job'[j].paths = job[j].paths
    <3>1. PICK n : n = [job[j] EXCEPT !.pc = "look", !.todo = @ \ {job[j].file}, !.file = None, !.size = 0]
      OBVIOUS
    <3>2. job' = [job EXCEPT ![j] = n]
      BY <1>1, <1>3, <3>1
    <3>3. n \in JobRecord
      BY <1>1, <3>1 DEF JobRecord
    <3>4. n.pc = "look" /\ n.dest = job[j].dest /\ n.status = job[j].status
          /\ n.verified = job[j].verified /\ n.paths = job[j].paths
      BY <1>1, <3>1 DEF JobRecord
    <3> QED
      BY <1>1, <3>2, <3>3, <3>4
  <2>2. JobFits(job'[j], local, remote, doubt) /\ ~Sends(job'[j])
    BY <1>1, <1>2, <2>1 DEF JobFits, Sends
  <2> QED
    BY <1>2, <1>3, <2>1, <2>2, EventIs, JobMoves
<1>4. CASE (Event \/ UNCHANGED events) /\ Fails(j)
  BY <1>2, <1>4, EndKeeps DEF Fails
<1> QED
  BY <1>3, <1>4, Zenon DEF Check

LEMMA CopyFailsKeeps ==
  ASSUME MiniPcInv, NEW j \in Jobs, CopyFails(j)
  PROVE  MiniPcInv'
BY EndKeeps DEF CopyFails, Fails

(* A copy that begins: whoever had this file is in doubt from now on. *)
LEMMA CopyBeginsKeeps ==
  ASSUME MiniPcInv, NEW j \in Jobs, CopyBegins(j)
  PROVE  MiniPcInv'
<1>1. PICK p : p = job[j].file[1]
  OBVIOUS
<1>2. PICK m : m = job[j].file[2]
  OBVIOUS
<1>3. PICK e : e = job[j].dest
  OBVIOUS
<1>4. /\ job \in [Jobs -> JobRecord] /\ JobFits(job[j], local, remote, doubt) /\ job[j].pc = "copy"
      /\ local \in Here /\ remote \in There /\ doubt \in SUBSET Paths
  BY DEF MiniPcInv, CopyBegins, At
<1>5. p \in Paths /\ m \in Members /\ e \in Dests /\ NameOf[p] \in Names
  BY <1>1, <1>2, <1>3, <1>4, MiniPcAssumed DEF JobFits
<1>6. UNCHANGED <<local, config, request, events>>
  BY DEF CopyBegins
<1>7. CASE local[p][m] = None
  <2>1. Fails(j) /\ UNCHANGED <<remote, doubt>>
    BY <1>1, <1>2, <1>7 DEF CopyBegins
  <2> QED
    BY <1>6, <2>1, EndKeeps DEF Fails
<1>8. CASE local[p][m] # None
  <2>1. PICK c : c = local[p][m]
    OBVIOUS
  <2>2. c \in Contents
    BY <1>4, <1>5, <1>8, <2>1 DEF Here
  <2>3. /\ job' = [job EXCEPT ![j].pc = "copying", ![j].sends = c]
        /\ remote' = [remote EXCEPT ![e][NameOf[p]][m] = "part"]
        /\ doubt' = IF \/ remote[e][NameOf[p]][m] \in Contents
                       \/ \E k \in Jobs \ {j} : At(k, "copying") /\ Slot(k) = Slot(j)
                    THEN doubt \cup Namesakes(NameOf[p]) ELSE doubt
    BY <1>1, <1>2, <1>3, <1>8, <2>1 DEF CopyBegins, Put, Slot, Copy, Namesakes
  <2>4. /\ job' \in [Jobs -> JobRecord] /\ \A k \in Jobs : k # j => job'[k] = job[k]
        /\ job'[j].pc = "copying" /\ job'[j].dest = e /\ job'[j].file = job[j].file
        /\ job'[j].status = job[j].status /\ job'[j].verified = job[j].verified
        /\ job'[j].paths = job[j].paths /\ job'[j].sends = c
    <3>0. PICK a \in JobRecord : a = job[j]
      BY <1>4
    <3>1. PICK n : n = [a EXCEPT !.pc = "copying", !.sends = c]
      OBVIOUS
    <3>2. job' = [job EXCEPT ![j] = n]
      BY <1>4, <2>3, <3>0, <3>1
    <3>3. n \in JobRecord
      BY <2>2, <3>1 DEF JobRecord
    <3>4. n.pc = "copying" /\ n.dest = job[j].dest /\ n.file = job[j].file /\ n.status = job[j].status
          /\ n.verified = job[j].verified /\ n.paths = job[j].paths /\ n.sends = c
      BY <3>0, <3>1 DEF JobRecord
    <3> QED
      BY <1>3, <1>4, <3>2, <3>3, <3>4
  <2>5. /\ remote' \in There
        /\ \A x \in Dests, n \in Names, o \in Members :
             remote'[x][n][o] = IF x = e /\ n = NameOf[p] /\ o = m THEN "part" ELSE remote[x][n][o]
    BY <1>4, <1>5, <2>3 DEF There
  <2>6. doubt \subseteq doubt' /\ doubt' \in SUBSET Paths
    BY <1>4, <2>3 DEF Namesakes
  <2>7. Stays(local, remote, doubt, local', remote', doubt')
    <3> SUFFICES ASSUME NEW q \in Paths, q \notin doubt', HasCopy(local, remote, q)
                 PROVE  HasCopy(local, remote', q)
      BY <1>6, <2>6 DEF Stays, Confirmed
    <3>1. PICK x \in Dests : \A o \in Members : local[q][o] # None => remote[x][NameOf[q]][o] = local[q][o]
      BY DEF HasCopy
    <3>2. ASSUME NEW o \in Members, local[q][o] # None
          PROVE  remote'[x][NameOf[q]][o] = local[q][o]
      <4>1. NameOf[q] \in Names /\ local[q][o] \in Contents
        BY <1>4, <3>2, MiniPcAssumed DEF Here
      <4>2. ~(x = e /\ NameOf[q] = NameOf[p] /\ o = m)
        BY <2>3, <3>1, <3>2, <4>1 DEF Namesakes
      <4> QED
        BY <2>5, <3>1, <3>2, <4>1, <4>2
    <3> QED
      BY <3>2 DEF HasCopy
  <2>8. ASSUME NEW k \in Jobs
        PROVE  \/ /\ job'[k] = job[k]
                  /\ Sends(job[k]) => \/ Receives(remote', job[k]) = "part"
                                      \/ Namesakes(NameSent(job[k])) \subseteq doubt'
               \/ JobFits(job'[k], local', remote', doubt')
    <3>1. CASE k = j
      <4>1. Receives(remote', job'[j]) = "part"
        BY <1>1, <1>2, <1>5, <2>4, <2>5 DEF Receives, NameSent
      <4>2. \A q \in job'[j].paths : Confirmed(local, remote, doubt, q) => Confirmed(local', remote', doubt', q)
        BY <2>4, <2>7 DEF Stays, JobRecord
      <4> QED
        BY <1>4, <1>5, <2>2, <2>4, <3>1, <4>1, <4>2 DEF JobFits, Sends
    <3>2. CASE k # j /\ Sends(job[k])
      <4>1. JobFits(job[k], local, remote, doubt)
        BY DEF MiniPcInv
      <4>2. job[k].dest \in Dests /\ job[k].file \in Paths \X Members /\ NameSent(job[k]) \in Names
        BY <3>2, <4>1, MiniPcAssumed DEF JobFits, Sends, NameSent
      <4>3. Receives(remote, job[k]) = "part" => Receives(remote', job[k]) = "part"
        BY <2>5, <4>2 DEF Receives
      <4> QED
        BY <2>4, <2>6, <3>2, <4>1, <4>3 DEF JobFits
    <3>3. CASE k # j /\ ~Sends(job[k])
      BY <2>4, <3>3
    <3> QED
      BY <3>1, <3>2, <3>3
  <2>9. Crossed(job', doubt')
    <3>1. ASSUME NEW k \in Jobs, k # j, Sends(job[k]), Meet(job[j], job[k])
          PROVE  Namesakes(NameOf[p]) \subseteq doubt' /\ NameSent(job[k]) = NameOf[p]
      <4>1. At(k, "copying") /\ Slot(k) = Slot(j) /\ NameSent(job[k]) = NameOf[p]
        BY <1>1, <3>1 DEF At, Sends, Meet, Slot, NameSent
      <4> QED
        BY <2>3, <3>1, <4>1
    <3>2. ASSUME NEW k \in Jobs
          PROVE  (Meet(job'[j], job'[k]) <=> Meet(job[j], job'[k])) /\ (Meet(job'[k], job'[j]) <=> Meet(job'[k], job[j]))
      BY <1>3, <2>4 DEF Meet, NameSent
    <3>3. NameSent(job'[j]) = NameOf[p]
      BY <1>1, <2>4 DEF NameSent
    <3>4. Crossed(job, doubt)
      BY DEF MiniPcInv
    <3>5. ASSUME NEW h \in Jobs, NEW k \in Jobs, h # k, Sends(job'[h]), Sends(job'[k]), Meet(job'[h], job'[k])
          PROVE  Namesakes(NameSent(job'[h])) \subseteq doubt'
      <4>1. CASE h = j
        BY <2>4, <3>1, <3>2, <3>3, <3>5, <4>1
      <4>2. CASE k = j
        <5>1. Meet(job[j], job[h]) /\ Sends(job[h])
          BY <2>4, <3>2, <3>5, <4>2 DEF Meet
        <5> QED
          BY <2>4, <3>1, <3>5, <4>2, <5>1
      <4>3. CASE h # j /\ k # j
        BY <2>4, <2>6, <3>4, <3>5, <4>3 DEF Crossed
      <4> QED
        BY <4>1, <4>2, <4>3
    <3> QED
      BY <3>5 DEF Crossed
  <2>10. config' \in Dests \cup {None} /\ request' \in [Requests -> RequestRecord] /\ events' \in 0 .. MaxEvents
         /\ local' \in Here
    BY <1>6 DEF MiniPcInv
  <2> QED
    BY <1>6, <2>4, <2>5, <2>6, <2>7, <2>8, <2>9, <2>10, MiniPcKeeps
<1> QED
  BY <1>7, <1>8

(* A copy that ends: who has this file had it whole, or is in doubt. *)
LEMMA CopyEndsKeeps ==
  ASSUME MiniPcInv, NEW j \in Jobs, CopyEnds(j)
  PROVE  MiniPcInv'
<1>1. PICK p : p = job[j].file[1]
  OBVIOUS
<1>2. PICK m : m = job[j].file[2]
  OBVIOUS
<1>3. PICK e : e = job[j].dest
  OBVIOUS
<1>4. PICK c : c = job[j].sends
  OBVIOUS
<1>5. /\ job \in [Jobs -> JobRecord] /\ JobFits(job[j], local, remote, doubt) /\ job[j].pc = "copying"
      /\ local \in Here /\ remote \in There /\ doubt \in SUBSET Paths /\ Crossed(job, doubt)
  BY DEF MiniPcInv, CopyEnds, At
<1>6. p \in Paths /\ m \in Members /\ e \in Dests /\ NameOf[p] \in Names /\ c \in Contents
  BY <1>1, <1>2, <1>3, <1>4, <1>5, MiniPcAssumed DEF JobFits, Sends
<1>7. /\ job' = [job EXCEPT ![j].pc = "check", ![j].sends = None]
      /\ remote' = [remote EXCEPT ![e][NameOf[p]][m] = c]
      /\ UNCHANGED <<local, config, request, events, doubt>>
  BY <1>1, <1>2, <1>3, <1>4 DEF CopyEnds, Put, Slot
<1>8. /\ job' \in [Jobs -> JobRecord] /\ \A k \in Jobs : k # j => job'[k] = job[k]
      /\ job'[j].pc = "check" /\ job'[j].dest = e /\ job'[j].file = job[j].file
      /\ job'[j].status = job[j].status /\ job'[j].verified = job[j].verified
      /\ job'[j].paths = job[j].paths
  <2>1. PICK a \in JobRecord : a = job[j]
    BY <1>5
  <2>2. PICK n : n = [a EXCEPT !.pc = "check", !.sends = None]
    OBVIOUS
  <2>3. job' = [job EXCEPT ![j] = n]
    BY <1>5, <1>7, <2>1, <2>2
  <2>4. n \in JobRecord
    BY <2>2 DEF JobRecord
  <2>5. n.pc = "check" /\ n.dest = a.dest /\ n.file = a.file /\ n.status = a.status
        /\ n.verified = a.verified /\ n.paths = a.paths
    BY <2>2 DEF JobRecord
  <2> QED
    BY <1>3, <1>5, <2>1, <2>3, <2>4, <2>5
<1>9. /\ remote' \in There
      /\ \A x \in Dests, n \in Names, o \in Members :
           remote'[x][n][o] = IF x = e /\ n = NameOf[p] /\ o = m THEN c ELSE remote[x][n][o]
  BY <1>5, <1>6, <1>7 DEF There
<1>10. remote[e][NameOf[p]][m] = "part" \/ Namesakes(NameOf[p]) \subseteq doubt
  BY <1>1, <1>2, <1>3, <1>5 DEF JobFits, Sends, Receives, NameSent
<1>11. Stays(local, remote, doubt, local', remote', doubt')
  <2> SUFFICES ASSUME NEW q \in Paths, q \notin doubt, HasCopy(local, remote, q)
               PROVE  HasCopy(local, remote', q)
    BY <1>7 DEF Stays, Confirmed
  <2>1. PICK x \in Dests : \A o \in Members : local[q][o] # None => remote[x][NameOf[q]][o] = local[q][o]
    BY DEF HasCopy
  <2>2. ASSUME NEW o \in Members, local[q][o] # None
        PROVE  remote'[x][NameOf[q]][o] = local[q][o]
    <3>1. NameOf[q] \in Names /\ local[q][o] \in Contents
      BY <1>5, <2>2, MiniPcAssumed DEF Here
    <3>2. ~(x = e /\ NameOf[q] = NameOf[p] /\ o = m)
      BY <1>10, <2>1, <2>2, <3>1, MiniPcAssumed DEF Namesakes
    <3> QED
      BY <1>9, <2>1, <2>2, <3>1, <3>2
  <2> QED
    BY <2>2 DEF HasCopy
<1>12. ASSUME NEW k \in Jobs
       PROVE  \/ /\ job'[k] = job[k]
                 /\ Sends(job[k]) => \/ Receives(remote', job[k]) = "part"
                                     \/ Namesakes(NameSent(job[k])) \subseteq doubt'
              \/ JobFits(job'[k], local', remote', doubt')
  <2>1. CASE k = j
    <3>1. \A q \in job'[j].paths : Confirmed(local, remote, doubt, q) => Confirmed(local', remote', doubt', q)
      BY <1>8, <1>11 DEF Stays, JobRecord
    <3> QED
      BY <1>5, <1>6, <1>8, <2>1, <3>1 DEF JobFits, Sends
  <2>2. CASE k # j /\ Sends(job[k]) /\ Meet(job[j], job[k])
    <3>1. Namesakes(NameSent(job[k])) \subseteq doubt
      BY <1>5, <2>2 DEF Crossed, Meet, Sends
    <3> QED
      BY <1>7, <1>8, <2>2, <3>1
  <2>3. CASE k # j /\ Sends(job[k]) /\ ~Meet(job[j], job[k])
    <3>1. JobFits(job[k], local, remote, doubt)
      BY DEF MiniPcInv
    <3>2. job[k].dest \in Dests /\ job[k].file \in Paths \X Members /\ NameSent(job[k]) \in Names
      BY <2>3, <3>1, MiniPcAssumed DEF JobFits, Sends, NameSent
    <3>3. Receives(remote', job[k]) = Receives(remote, job[k])
      BY <1>1, <1>2, <1>3, <1>9, <2>3, <3>2 DEF Receives, Meet, NameSent
    <3> QED
      BY <1>7, <1>8, <2>3, <3>1, <3>3 DEF JobFits
  <2>4. CASE k # j /\ ~Sends(job[k])
    BY <1>8, <2>4
  <2> QED
    BY <2>1, <2>2, <2>3, <2>4
<1>13. Crossed(job', doubt')
  BY <1>5, <1>7, <1>8 DEF Crossed, Sends
<1>14. config' \in Dests \cup {None} /\ request' \in [Requests -> RequestRecord] /\ events' \in 0 .. MaxEvents
       /\ local' \in Here /\ doubt' \in SUBSET Paths
  BY <1>7 DEF MiniPcInv
<1> QED
  BY <1>7, <1>8, <1>9, <1>11, <1>12, <1>13, <1>14, MiniPcKeeps

-----------------------------------------------------------------------------
(* Sizes that are compared.                                                *)

(* A path leaves the doubt only when its copy is there and nobody is sending *)
(* its name.                                                                 *)
LEMMA ConfirmIs ==
  ASSUME MiniPcInv, NEW e \in Dests, NEW ps \in SUBSET Paths, Verified(e, ps), Confirm(e, ps)
  PROVE  /\ doubt' \in SUBSET Paths
         /\ \A p \in ps : Confirmed(local, remote, doubt', p)
         /\ Stays(local, remote, doubt, local, remote, doubt')
         /\ Crossed(job, doubt')
         /\ \A k \in Jobs : Sends(job[k]) /\ Namesakes(NameSent(job[k])) \subseteq doubt
                              => Namesakes(NameSent(job[k])) \subseteq doubt'
<1>1. doubt' \in SUBSET Paths
  BY DEF MiniPcInv, Confirm
<1>2. ASSUME NEW p \in ps, p \notin doubt'
      PROVE  /\ remote[e][NameOf[p]] = local[p]
             /\ \A k \in Jobs : Sends(job[k]) => NameSent(job[k]) # NameOf[p]
  BY <1>2 DEF Confirm, Verified, Copy, Sends, NameSent
<1>3. ASSUME NEW p \in ps
      PROVE  Confirmed(local, remote, doubt', p)
  BY <1>2, <1>3 DEF Confirmed, HasCopy
<1>4. Stays(local, remote, doubt, local, remote, doubt')
  <2> SUFFICES ASSUME NEW p \in Paths, Confirmed(local, remote, doubt, p)
               PROVE  Confirmed(local, remote, doubt', p)
    BY DEF Stays
  <2>1. CASE p \in ps
    BY <1>3, <2>1
  <2>2. CASE p \notin ps
    BY <2>2 DEF Confirm, Confirmed
  <2> QED
    BY <2>1, <2>2
<1>5. ASSUME NEW k \in Jobs, Sends(job[k]), Namesakes(NameSent(job[k])) \subseteq doubt
      PROVE  Namesakes(NameSent(job[k])) \subseteq doubt'
  <2> SUFFICES ASSUME NEW p \in Paths, NameOf[p] = NameSent(job[k])
               PROVE  p \in doubt'
    BY DEF Namesakes
  <2>1. CASE p \in ps
    BY <1>2, <1>5, <2>1
  <2>2. CASE p \notin ps
    BY <1>5, <2>2 DEF Confirm, Namesakes
  <2> QED
    BY <2>1, <2>2
<1>6. Crossed(job, doubt')
  BY <1>5 DEF MiniPcInv, Crossed
<1> QED
  BY <1>1, <1>3, <1>4, <1>5, <1>6

LEMMA VerifyKeeps ==
  ASSUME MiniPcInv, NEW j \in Jobs, Verify(j)
  PROVE  MiniPcInv'
<1>1. PICK e : e = LoadConfig
  OBVIOUS
<1>2. e \in Dests /\ job \in [Jobs -> JobRecord] /\ UNCHANGED <<local, remote, config, request>>
      /\ job[j].pc = "look"
  BY <1>1, LoadIs DEF MiniPcInv, Verify, At
<1>3. CASE /\ Verified(e, job[j].paths) /\ job' = [job EXCEPT ![j] = Ended(j, "completed")]
           /\ Confirm(e, job[j].paths) /\ UNCHANGED events
  <2>1. PICK ps \in SUBSET Paths : ps = job[j].paths
    BY <1>2 DEF JobRecord
  <2>2. /\ doubt' \in SUBSET Paths /\ \A p \in ps : Confirmed(local, remote, doubt', p)
        /\ Stays(local, remote, doubt, local, remote, doubt') /\ Crossed(job, doubt')
        /\ \A k \in Jobs : Sends(job[k]) /\ Namesakes(NameSent(job[k])) \subseteq doubt
                             => Namesakes(NameSent(job[k])) \subseteq doubt'
    BY <1>2, <1>3, <2>1, ConfirmIs
  <2>3. PICK n : n = Ended(j, "completed")
    OBVIOUS
  <2>4. n \in JobRecord /\ n.pc = "ended" /\ n.paths = ps /\ n.status = "completed" /\ n.verified = TRUE
    BY <2>1, <2>3, EndedIs
  <2>5. /\ job' \in [Jobs -> JobRecord] /\ \A k \in Jobs : k # j => job'[k] = job[k]
        /\ job'[j] = n
    BY <1>2, <1>3, <2>3, <2>4
  <2>6. ASSUME NEW k \in Jobs
        PROVE  \/ /\ job'[k] = job[k]
                  /\ Sends(job[k]) => \/ Receives(remote', job[k]) = "part"
                                      \/ Namesakes(NameSent(job[k])) \subseteq doubt'
               \/ JobFits(job'[k], local', remote', doubt')
    <3>1. CASE k = j
      BY <1>2, <2>2, <2>4, <2>5, <3>1 DEF JobFits, Sends
    <3>2. CASE k # j
      <4>1. JobFits(job[k], local, remote, doubt)
        BY DEF MiniPcInv
      <4> QED
        BY <1>2, <2>2, <2>5, <3>2, <4>1 DEF JobFits
    <3> QED
      BY <3>1, <3>2
  <2>7. Crossed(job', doubt')
    BY <2>2, <2>4, <2>5 DEF Crossed, Sends
  <2>8. local' \in Here /\ remote' \in There /\ config' \in Dests \cup {None}
        /\ events' \in 0 .. MaxEvents /\ request' \in [Requests -> RequestRecord]
    BY <1>2, <1>3 DEF MiniPcInv
  <2> QED
    BY <1>2, <2>2, <2>5, <2>6, <2>7, <2>8, MiniPcKeeps
<1>4. CASE /\ Event \/ UNCHANGED events
           /\ job' = [job EXCEPT ![j] = Ended(j, "verify_failed")] /\ UNCHANGED doubt
  BY <1>2, <1>4, EndKeeps
<1> QED
  BY <1>1, <1>3, <1>4, Zenon DEF Verify

-----------------------------------------------------------------------------
(* Requests that delete.                                                   *)

(* A step that changes a request and nothing else. *)
LEMMA RequestAlone ==
  ASSUME MiniPcInv, NEW r \in Requests, NEW n \in RequestRecord, request' = [request EXCEPT ![r] = n],
         RequestFits(n, local, remote, doubt),
         UNCHANGED <<local, remote, config, job, events, doubt>>
  PROVE  MiniPcInv'
<1>1. request \in [Requests -> RequestRecord] /\ Crossed(job, doubt)
  BY DEF MiniPcInv
<1>2. Stays(local, remote, doubt, local', remote', doubt')
  BY DEF Stays
<1>3. request' \in [Requests -> RequestRecord] /\ \A q \in Requests : q # r => request'[q] = request[q]
  BY <1>1
<1>4. request'[r] = n
  BY <1>1
<1>5. RequestFits(request'[r], local', remote', doubt')
  BY <1>4
<1>6. /\ local' \in Here /\ config' \in Dests \cup {None} /\ events' \in 0 .. MaxEvents
      /\ doubt' \in SUBSET Paths /\ Crossed(job, doubt')
  BY DEF MiniPcInv
<1> QED
  BY <1>2, <1>3, <1>5, <1>6, RequestMoves

LEMMA AfterVerifyKeeps ==
  ASSUME MiniPcInv, NEW r \in Requests, NEW j \in Jobs, DeleteAfterVerify(r, j)
  PROVE  MiniPcInv'
<1>1. job[j] \in JobRecord /\ JobFits(job[j], local, remote, doubt)
  BY DEF MiniPcInv
<1>2. PICK ps \in SUBSET Paths : ps = job[j].paths
  BY <1>1 DEF JobRecord
<1>3. \A p \in ps : Confirmed(local, remote, doubt, p)
  BY <1>1, <1>2 DEF DeleteAfterVerify, MayDelete, JobFits
<1>4. PICK n : n = [Free EXCEPT !.pc = "next", !.kind = "verified", !.job = j, !.todo = ps]
  OBVIOUS
<1>5. n \in RequestRecord /\ n.pc = "next" /\ n.kind = "verified" /\ n.todo = ps
  BY <1>4, FreeIs DEF RequestRecord
<1>6. RequestFits(n, local, remote, doubt)
  BY <1>3, <1>5 DEF RequestFits
<1>7. request' = [request EXCEPT ![r] = n] /\ UNCHANGED <<local, remote, config, job, events, doubt>>
  BY <1>2, <1>4 DEF DeleteAfterVerify
<1> QED
  BY <1>5, <1>6, <1>7, RequestAlone

LEMMA ExportedKeeps ==
  ASSUME MiniPcInv, NEW r \in Requests, NEW ps \in SUBSET Paths, DeleteExported(r, ps)
  PROVE  MiniPcInv'
<1>1. PICK e \in Dests : e = LoadConfig
  BY LoadIs
<1>2. PICK n : n = [Free EXCEPT !.pc = "next", !.kind = "exported", !.dest = e, !.todo = ps]
  OBVIOUS
<1>3. n \in RequestRecord /\ n.pc = "next" /\ n.kind = "exported" /\ n.dest = e
  BY <1>2, FreeIs DEF RequestRecord
<1>4. RequestFits(n, local, remote, doubt)
  BY <1>3 DEF RequestFits
<1>5. request' = [request EXCEPT ![r] = n] /\ UNCHANGED <<local, remote, config, job, events, doubt>>
  BY <1>1, <1>2 DEF DeleteExported
<1> QED
  BY <1>3, <1>4, <1>5, RequestAlone

LEMMA RequestEndsKeeps ==
  ASSUME MiniPcInv, NEW r \in Requests, Ends(r), UNCHANGED <<local, remote, config, job, events, doubt>>
  PROVE  MiniPcInv'
<1>1. RequestFits(Free, local, remote, doubt)
  BY FreeIs DEF RequestFits
<1> QED
  BY <1>1, FreeIs, RequestAlone DEF Ends

LEMMA DeleteNextKeeps ==
  ASSUME MiniPcInv, NEW r \in Requests, NEW p \in Paths, DeleteNext(r, p)
  PROVE  MiniPcInv'
<1>1. /\ request \in [Requests -> RequestRecord] /\ RequestFits(request[r], local, remote, doubt)
      /\ request[r].pc = "next" /\ p \in request[r].todo
      /\ UNCHANGED <<local, remote, config, job, events>>
  BY DEF MiniPcInv, DeleteNext
<1>2. CASE Ends(r) /\ UNCHANGED doubt
  BY <1>1, <1>2, RequestEndsKeeps
<1>3. CASE /\ AllowsDelete(request[r].kind, p, request[r].dest)
           /\ request' = [request EXCEPT ![r].pc = "remove", ![r].path = p, ![r].todo = @ \ {p}]
           /\ IF request[r].kind = "exported" THEN Confirm(request[r].dest, {p}) ELSE UNCHANGED doubt
  <2>1. PICK a \in RequestRecord : a = request[r]
    BY <1>1
  <2>2. PICK n : n = [a EXCEPT !.pc = "remove", !.path = p, !.todo = @ \ {p}]
    OBVIOUS
  <2>3. request' = [request EXCEPT ![r] = n]
    BY <1>1, <1>3, <2>1, <2>2
  <2>4. n \in RequestRecord
    BY <2>2 DEF RequestRecord
  <2>5. n.pc = "remove" /\ n.path = p /\ n.todo = a.todo \ {p} /\ n.kind = a.kind /\ n.dest = a.dest
    BY <2>2 DEF RequestRecord
  <2>6. CASE a.kind = "exported"
    <3>1. PICK e \in Dests : e = a.dest
      BY <1>1, <2>1, <2>6 DEF RequestFits
    <3>2. Verified(e, {p}) /\ Confirm(e, {p})
      BY <1>3, <2>1, <2>6, <3>1 DEF AllowsDelete, Verified
    <3>3. /\ doubt' \in SUBSET Paths /\ Confirmed(local, remote, doubt', p)
          /\ Stays(local, remote, doubt, local, remote, doubt') /\ Crossed(job, doubt')
          /\ \A k \in Jobs : Sends(job[k]) /\ Namesakes(NameSent(job[k])) \subseteq doubt
                               => Namesakes(NameSent(job[k])) \subseteq doubt'
      BY <3>2, ConfirmIs
    <3>4. RequestFits(n, local, remote, doubt')
      BY <2>5, <2>6, <3>1, <3>3 DEF RequestFits
    <3>5. request' \in [Requests -> RequestRecord] /\ \A q \in Requests : q # r => request'[q] = request[q]
      BY <1>1, <2>3, <2>4
    <3>6. request'[r] = n
      BY <1>1, <2>3
    <3>7. RequestFits(request'[r], local', remote', doubt')
      BY <1>1, <3>4, <3>6
    <3>8. /\ local' \in Here /\ config' \in Dests \cup {None} /\ events' \in 0 .. MaxEvents
          /\ Stays(local, remote, doubt, local', remote', doubt')
      BY <1>1, <3>3 DEF MiniPcInv
    <3> QED
      BY <1>1, <3>3, <3>5, <3>7, <3>8, RequestMoves
  <2>7. CASE a.kind # "exported"
    <3>1. a.kind = "verified" \/ SameSize(a.dest, p)
      BY <1>3, <2>1 DEF AllowsDelete
    <3>2. CASE a.kind = "verified"
      <4>1. \A q \in a.todo : Confirmed(local, remote, doubt, q)
        BY <1>1, <2>1, <3>2 DEF RequestFits
      <4>2. RequestFits(n, local, remote, doubt)
        BY <1>1, <2>1, <2>5, <3>2, <4>1 DEF RequestFits
      <4> QED
        BY <1>1, <1>3, <2>1, <2>3, <2>4, <2>7, <4>2, RequestAlone
    <3>3. CASE a.kind = "none"
      BY <1>1, <2>1, <3>3 DEF RequestFits
    <3> QED
      BY <2>7, <3>2, <3>3 DEF RequestRecord
  <2> QED
    BY <2>6, <2>7
<1> QED
  BY <1>2, <1>3, Zenon DEF DeleteNext

(* A file of the path that is deleted: what is left is still confirmed. *)
LEMMA RemoveKeeps ==
  ASSUME MiniPcInv, NEW r \in Requests, NEW m \in Members, Remove(r, m)
  PROVE  MiniPcInv'
<1>1. PICK p : p = request[r].path
  OBVIOUS
<1>2. /\ local' = [local EXCEPT ![p][m] = None] /\ UNCHANGED <<remote, config, job, request, events, doubt>>
      /\ request[r].pc = "remove" /\ RequestFits(request[r], local, remote, doubt) /\ local \in Here
  BY <1>1 DEF Remove, MiniPcInv
<1>3. p \in Paths
  BY <1>1, <1>2 DEF RequestFits
<1>4. /\ local' \in Here
      /\ \A q \in Paths, o \in Members : local'[q][o] = local[q][o] \/ local'[q][o] = None
  BY <1>2, <1>3 DEF Here
<1>5. Stays(local, remote, doubt, local', remote', doubt')
  BY <1>2, <1>4 DEF Stays, Confirmed, HasCopy
<1>6. /\ config' \in Dests \cup {None} /\ events' \in 0 .. MaxEvents /\ doubt' \in SUBSET Paths
      /\ request' \in [Requests -> RequestRecord] /\ Crossed(job, doubt')
  BY <1>2 DEF MiniPcInv
<1> QED
  BY <1>2, <1>4, <1>5, <1>6, RequestMoves

LEMMA RemovedKeeps ==
  ASSUME MiniPcInv, NEW r \in Requests, Removed(r)
  PROVE  MiniPcInv'
<1>1. /\ request \in [Requests -> RequestRecord] /\ RequestFits(request[r], local, remote, doubt)
      /\ request[r].pc = "remove" /\ UNCHANGED <<local, remote, config, job, events, doubt>>
      /\ request' = [request EXCEPT ![r].pc = "next", ![r].path = None]
  BY DEF MiniPcInv, Removed
<1>2. PICK a \in RequestRecord : a = request[r]
  BY <1>1
<1>3. PICK n : n = [a EXCEPT !.pc = "next", !.path = None]
  OBVIOUS
<1>4. request' = [request EXCEPT ![r] = n]
  BY <1>1, <1>2, <1>3
<1>5. n \in RequestRecord
  BY <1>3 DEF RequestRecord
<1>6. n.pc = "next" /\ n.todo = a.todo /\ n.kind = a.kind /\ n.dest = a.dest
  BY <1>3 DEF RequestRecord
<1>7. RequestFits(n, local, remote, doubt)
  BY <1>1, <1>2, <1>6 DEF RequestFits
<1> QED
  BY <1>1, <1>4, <1>5, <1>7, RequestAlone

LEMMA DeletedKeeps ==
  ASSUME MiniPcInv, NEW r \in Requests, Deleted(r)
  PROVE  MiniPcInv'
<1>1. PICK h : h = request[r].job
  OBVIOUS
<1>2. /\ job \in [Jobs -> JobRecord] /\ Crossed(job, doubt) /\ request \in [Requests -> RequestRecord]
      /\ local \in Here /\ remote \in There /\ config \in Dests \cup {None}
      /\ events \in 0 .. MaxEvents /\ doubt \in SUBSET Paths
  BY DEF MiniPcInv
<1>3. /\ request' = [request EXCEPT ![r] = Free] /\ UNCHANGED <<local, remote, config, events, doubt>>
      /\ job' = [job EXCEPT ![h].deleted = TRUE] \/ job' = job
  BY <1>1 DEF Deleted, Ends
<1>5. /\ job' \in [Jobs -> JobRecord]
      /\ \A k \in Jobs : job'[k] = job[k] \/ (k = h /\ job'[k] = [job[h] EXCEPT !.deleted = TRUE])
  <2>1. CASE job' = job
    BY <1>2, <2>1
  <2>2. CASE h \notin Jobs /\ job' = [job EXCEPT ![h].deleted = TRUE]
    BY <1>2, <2>2
  <2>3. CASE h \in Jobs /\ job' = [job EXCEPT ![h].deleted = TRUE]
    <3>1. PICK a \in JobRecord : a = job[h]
      BY <1>2, <2>3
    <3>2. PICK n : n = [a EXCEPT !.deleted = TRUE]
      OBVIOUS
    <3>3. job' = [job EXCEPT ![h] = n]
      BY <1>2, <2>3, <3>1, <3>2
    <3>4. n \in JobRecord
      BY <3>2 DEF JobRecord
    <3> QED
      BY <1>2, <2>3, <3>1, <3>2, <3>3, <3>4
  <2> QED
    BY <1>3, <2>1, <2>2, <2>3
<1>6. ASSUME NEW k \in Jobs
      PROVE  /\ job'[k].pc = job[k].pc /\ job'[k].paths = job[k].paths /\ job'[k].dest = job[k].dest
             /\ job'[k].file = job[k].file /\ job'[k].sends = job[k].sends
             /\ job'[k].status = job[k].status /\ job'[k].verified = job[k].verified
  <2>1. PICK a \in JobRecord : a = job[k]
    BY <1>2
  <2>2. PICK n : n = [a EXCEPT !.deleted = TRUE]
    OBVIOUS
  <2>3. n.pc = a.pc /\ n.paths = a.paths /\ n.dest = a.dest /\ n.file = a.file /\ n.sends = a.sends
        /\ n.status = a.status /\ n.verified = a.verified
    BY <2>2 DEF JobRecord
  <2>4. job'[k] = a \/ job'[k] = n
    BY <1>5, <2>1, <2>2
  <2> QED
    BY <2>1, <2>3, <2>4
<1>7. ASSUME NEW k \in Jobs
      PROVE  JobFits(job'[k], local', remote', doubt')
  <2>1. JobFits(job[k], local, remote, doubt)
    BY DEF MiniPcInv
  <2> QED
    BY <1>3, <1>6, <2>1 DEF JobFits, Sends, Receives, NameSent
<1>8. Crossed(job', doubt')
  BY <1>2, <1>3, <1>6 DEF Crossed, Sends, Meet, NameSent
<1>9. request' \in [Requests -> RequestRecord]
      /\ \A q \in Requests : request'[q] = request[q] \/ RequestFits(request'[q], local', remote', doubt')
  BY <1>2, <1>3, FreeIs DEF RequestFits
<1>10. Stays(local, remote, doubt, local', remote', doubt')
  BY <1>3 DEF Stays
<1> QED
  BY <1>2, <1>3, <1>5, <1>7, <1>8, <1>9, <1>10, MiniPcKeeps

-----------------------------------------------------------------------------
(* The world.                                                              *)

LEMMA SaveKeeps ==
  ASSUME MiniPcInv, UNCHANGED <<local, remote, job, request, doubt>>, Event \/ UNCHANGED events,
         config' \in Dests \cup {None}
  PROVE  MiniPcInv'
<1>1. /\ Stays(local, remote, doubt, local', remote', doubt') /\ Crossed(job, doubt')
      /\ local' \in Here /\ doubt' \in SUBSET Paths /\ request' \in [Requests -> RequestRecord]
  BY DEF Stays, MiniPcInv
<1> QED
  BY <1>1, EventIs, RequestMoves

(* What others change here is in doubt. *)
LEMMA ChangesHere ==
  ASSUME MiniPcInv, NEW p \in Paths, NEW m \in Members, NEW c \in Contents \cup {None}, Event,
         local' = [local EXCEPT ![p][m] = c], doubt' = doubt \cup {p},
         UNCHANGED <<remote, config, job, request>>
  PROVE  MiniPcInv'
<1>1. local \in Here /\ doubt \in SUBSET Paths /\ Crossed(job, doubt)
  BY DEF MiniPcInv
<1>2. /\ local' \in Here
      /\ \A q \in Paths : q # p => local'[q] = local[q]
  BY <1>1 DEF Here
<1>3. Stays(local, remote, doubt, local', remote', doubt')
  BY <1>2 DEF Stays, Confirmed, HasCopy
<1>4. Crossed(job, doubt')
  BY <1>1 DEF Crossed
<1>5. doubt' \in SUBSET Paths /\ config' \in Dests \cup {None} /\ request' \in [Requests -> RequestRecord]
  BY <1>1 DEF MiniPcInv
<1> QED
  BY <1>2, <1>3, <1>4, <1>5, EventIs, RequestMoves

LEMMA RemovedThereKeeps ==
  ASSUME MiniPcInv, NEW e \in Dests, NEW n \in Names, NEW m \in Members, RemovedThere(e, n, m)
  PROVE  MiniPcInv'
<1>1. /\ remote \in There /\ doubt \in SUBSET Paths /\ Crossed(job, doubt) /\ job \in [Jobs -> JobRecord]
      /\ remote' = [remote EXCEPT ![e][n][m] = None] /\ doubt' = doubt \cup Namesakes(n)
      /\ remote[e][n][m] \in Contents /\ UNCHANGED <<local, config, job, request>>
  BY DEF MiniPcInv, RemovedThere, Namesakes
<1>2. /\ remote' \in There
      /\ \A x \in Dests, y \in Names, o \in Members :
           remote'[x][y][o] = IF x = e /\ y = n /\ o = m THEN None ELSE remote[x][y][o]
  BY <1>1 DEF There
<1>3. doubt' \in SUBSET Paths /\ doubt \subseteq doubt' /\ Crossed(job', doubt')
  BY <1>1 DEF Namesakes, Crossed
<1>4. Stays(local, remote, doubt, local', remote', doubt')
  <2> SUFFICES ASSUME NEW q \in Paths, q \notin doubt', HasCopy(local, remote, q)
               PROVE  HasCopy(local, remote', q)
    BY <1>1, <1>3 DEF Stays, Confirmed
  <2>1. NameOf[q] \in Names /\ NameOf[q] # n
    BY <1>1, MiniPcAssumed DEF Namesakes
  <2> QED
    BY <1>2, <2>1 DEF HasCopy
<1>5. ASSUME NEW k \in Jobs
      PROVE  /\ job'[k] = job[k]
             /\ Sends(job[k]) => \/ Receives(remote', job[k]) = "part"
                                 \/ Namesakes(NameSent(job[k])) \subseteq doubt'
  <2>1. JobFits(job[k], local, remote, doubt)
    BY DEF MiniPcInv
  <2>2. CASE Sends(job[k])
    <3>1. job[k].dest \in Dests /\ job[k].file \in Paths \X Members /\ NameSent(job[k]) \in Names
      BY <2>1, <2>2, MiniPcAssumed DEF JobFits, Sends, NameSent
    <3>2. Receives(remote, job[k]) = "part" => Receives(remote', job[k]) = "part"
      BY <1>1, <1>2, <3>1, MiniPcAssumed DEF Receives
    <3> QED
      BY <1>1, <1>3, <2>1, <2>2, <3>2 DEF JobFits
  <2>3. CASE ~Sends(job[k])
    BY <1>1, <2>3
  <2> QED
    BY <2>2, <2>3
<1>6. /\ local' \in Here /\ config' \in Dests \cup {None} /\ request' \in [Requests -> RequestRecord]
      /\ job' \in [Jobs -> JobRecord]
  BY <1>1 DEF MiniPcInv
<1>7. events' \in 0 .. MaxEvents
  BY EventIs DEF RemovedThere
<1> QED
  BY <1>1, <1>2, <1>3, <1>4, <1>5, <1>6, <1>7, MiniPcKeeps

LEMMA ServerKilledKeeps ==
  ASSUME MiniPcInv, Killed
  PROVE  MiniPcInv'
<1>1. /\ job' = [j \in Jobs |-> NoJob] /\ request' = [r \in Requests |-> Free]
      /\ UNCHANGED <<local, remote, config, doubt>>
  BY DEF Killed
<1>2. \A j \in Jobs : JobFits(NoJob, local', remote', doubt') /\ ~Sends(NoJob)
  BY NoJobIs DEF JobFits, Sends
<1>3. RequestFits(Free, local', remote', doubt')
  BY FreeIs DEF RequestFits
<1>4. job' \in [Jobs -> JobRecord] /\ request' \in [Requests -> RequestRecord]
  BY <1>1, NoJobIs, FreeIs
<1>5. Crossed(job', doubt')
  BY <1>1, <1>2 DEF Crossed
<1>6. Stays(local, remote, doubt, local', remote', doubt')
  BY <1>1 DEF Stays
<1>7. /\ local' \in Here /\ remote' \in There /\ config' \in Dests \cup {None} /\ doubt' \in SUBSET Paths
  BY <1>1 DEF MiniPcInv
<1>8. events' \in 0 .. MaxEvents
  BY EventIs DEF Killed
<1>9. \A j \in Jobs : JobFits(job'[j], local', remote', doubt')
  BY <1>1, <1>2
<1>10. \A r \in Requests : RequestFits(request'[r], local', remote', doubt')
  BY <1>1, <1>3
<1> QED
  BY <1>4, <1>5, <1>6, <1>7, <1>8, <1>9, <1>10, MiniPcKeeps

LEMMA MiniPcStepKeeps ==
  ASSUME MiniPcInv, [MiniPcNext]_miniPcVars
  PROVE  MiniPcInv'
<1>1. ASSUME NEW j \in Jobs, JobStep(j) \/ CopyFails(j)
      PROVE  MiniPcInv'
  BY <1>1, ScanKeeps, LookKeeps, CopyBeginsKeeps, CopyEndsKeeps, CheckKeeps, VerifyKeeps, CopyFailsKeeps
  DEF JobStep
<1>2. ASSUME NEW r \in Requests, RequestStep(r)
      PROVE  MiniPcInv'
  BY <1>2, DeleteNextKeeps, RemoveKeeps, RemovedKeeps, DeletedKeeps DEF RequestStep
<1>3. CASE Others
  <2>1. CASE SaveBegins
    BY <2>1, SaveKeeps DEF SaveBegins
  <2>2. ASSUME NEW p \in Paths, NEW m \in Members, NEW c \in Contents, Arrives(p, m, c)
        PROVE  MiniPcInv'
    <3>1. c \in Contents \cup {None}
      OBVIOUS
    <3> QED
      BY <2>2, <3>1, ChangesHere DEF Arrives
  <2>3. ASSUME NEW p \in Paths, NEW m \in Members, RemovedHere(p, m)
        PROVE  MiniPcInv'
    <3>1. None \in Contents \cup {None}
      OBVIOUS
    <3> QED
      BY <2>3, <3>1, ChangesHere DEF RemovedHere
  <2> QED
    BY <1>3, <2>1, <2>2, <2>3, RemovedThereKeeps, ServerKilledKeeps DEF Others
<1>4. ASSUME NEW e \in Dests, SaveEnds(e)
      PROVE  MiniPcInv'
  BY <1>4, SaveKeeps DEF SaveEnds
<1>5. CASE UNCHANGED miniPcVars
  <2>1. config' \in Dests \cup {None} /\ UNCHANGED <<local, remote, job, request, doubt, events>>
    BY <1>5 DEF miniPcVars, MiniPcInv
  <2> QED
    BY <2>1, SaveKeeps
<1>6. ASSUME NEW j \in Jobs, NEW ps \in SUBSET Paths, StartTransfer(j, ps)
      PROVE  MiniPcInv'
  BY <1>6, StartKeeps
<1>7. ASSUME NEW r \in Requests, NEW j \in Jobs, DeleteAfterVerify(r, j)
      PROVE  MiniPcInv'
  BY <1>7, AfterVerifyKeeps
<1>8. ASSUME NEW r \in Requests, NEW ps \in SUBSET Paths, DeleteExported(r, ps)
      PROVE  MiniPcInv'
  BY <1>8, ExportedKeeps
<1> QED
  BY <1>1, <1>2, <1>3, <1>4, <1>5, <1>6, <1>7, <1>8 DEF MiniPcNext

LEMMA MiniPcInitHolds == ASSUME MiniPcInit PROVE MiniPcInv
<1>1. local \in Here /\ config \in Dests \cup {None} /\ events \in 0 .. MaxEvents /\ doubt = {}
  BY MiniPcAssumed DEF MiniPcInit, Here
<1>2. remote \in There
  BY DEF MiniPcInit, There
<1>3. job = [j \in Jobs |-> NoJob] /\ request = [r \in Requests |-> Free]
  BY DEF MiniPcInit
<1>4. job \in [Jobs -> JobRecord] /\ request \in [Requests -> RequestRecord]
  BY <1>3, NoJobIs, FreeIs
<1>5. JobFits(NoJob, local, remote, doubt) /\ ~Sends(NoJob)
  BY NoJobIs DEF JobFits, Sends
<1>6. RequestFits(Free, local, remote, doubt)
  BY FreeIs DEF RequestFits
<1>7. Crossed(job, doubt)
  BY <1>3, <1>5 DEF Crossed
<1> QED
  BY <1>1, <1>2, <1>3, <1>4, <1>5, <1>6, <1>7 DEF MiniPcInv

-----------------------------------------------------------------------------
(* The inductive invariant: a path that may be deleted has a copy or is in *)
(* doubt, and a copy under way shows as one or is in doubt.                *)
THEOREM MiniPcInvariant == MiniPcSpec => []MiniPcInv
  BY MiniPcInitHolds, MiniPcStepKeeps, PTL DEF MiniPcSpec

(* The jobs, the requests and the files keep their types. *)
THEOREM MiniPcTypeCorrect == MiniPcSpec => []MiniPcTypeOK
<1>1. MiniPcInv => MiniPcTypeOK
  BY DEF MiniPcInv, MiniPcTypeOK, JobRecord, RequestRecord, Here, There, JobFits
<1> QED
  BY <1>1, MiniPcInvariant, PTL

(* No file leaves this machine whose content is not on the mini PC, with    *)
(* the exceptions DeletedIsKept names: for any number of paths, jobs,       *)
(* requests, destinations and mishaps.                                      *)
THEOREM DeletedWasKept == MiniPcSpec => DeletedIsKept
<1>1. ASSUME MiniPcInv, [MiniPcNext]_miniPcVars, NEW p \in Paths, NEW m \in Members,
             local[p][m] # None, local'[p][m] = None, p \notin doubt'
      PROVE  \E d \in Dests : Copy(d, p)[m] = local[p][m]
  <2>1. local \in Here
    BY <1>1 DEF MiniPcInv
  <2>2. CASE local' = local
    BY <1>1, <2>2
  <2>3. ASSUME NEW r \in Requests, NEW o \in Members, Remove(r, o)
        PROVE  \E d \in Dests : Copy(d, p)[m] = local[p][m]
    <3>1. PICK q : q = request[r].path
      OBVIOUS
    <3>2. RequestFits(request[r], local, remote, doubt) /\ request[r].pc = "remove"
          /\ local' = [local EXCEPT ![q][o] = None] /\ doubt' = doubt
      BY <1>1, <2>3, <3>1 DEF MiniPcInv, Remove
    <3>3. q \in Paths /\ Confirmed(local, remote, doubt, q)
      BY <3>1, <3>2 DEF RequestFits
    <3>4. q = p
      BY <1>1, <2>1, <3>2, <3>3 DEF Here
    <3> QED
      BY <1>1, <3>2, <3>3, <3>4 DEF Confirmed, HasCopy, Copy
  <2>4. ASSUME NEW q \in Paths, NEW o \in Members, NEW c \in Contents, Arrives(q, o, c)
        PROVE  FALSE
    <3>1. local' = [local EXCEPT ![q][o] = c] /\ q # p
      BY <1>1, <2>4 DEF Arrives
    <3> QED
      BY <1>1, <2>1, <3>1 DEF Here
  <2>5. ASSUME NEW q \in Paths, NEW o \in Members, RemovedHere(q, o)
        PROVE  FALSE
    <3>1. local' = [local EXCEPT ![q][o] = None] /\ q # p
      BY <1>1, <2>5 DEF RemovedHere
    <3> QED
      BY <1>1, <2>1, <3>1 DEF Here
  <2>6. \/ local' = local
        \/ \E r \in Requests, o \in Members : Remove(r, o)
        \/ \E q \in Paths, o \in Members, c \in Contents : Arrives(q, o, c)
        \/ \E q \in Paths, o \in Members : RemovedHere(q, o)
    <3>1. CASE UNCHANGED miniPcVars
      BY <3>1 DEF miniPcVars
    <3>2. ASSUME NEW j \in Jobs, JobStep(j) \/ CopyFails(j)
          PROVE  local' = local
      BY <3>2 DEF JobStep, CopyFails, Scan, Look, CopyBegins, CopyEnds, Check, Verify
    <3>3. ASSUME NEW r \in Requests, RequestStep(r)
          PROVE  local' = local \/ \E o \in Members : Remove(r, o)
      BY <3>3 DEF RequestStep, DeleteNext, Removed, Deleted
    <3>4. CASE Others
      BY <3>4 DEF Others, SaveBegins, RemovedThere, Killed
    <3>5. ASSUME NEW d \in Dests, SaveEnds(d)
          PROVE  local' = local
      BY <3>5 DEF SaveEnds
    <3>6. ASSUME NEW j \in Jobs, NEW ps \in SUBSET Paths, StartTransfer(j, ps)
          PROVE  local' = local
      BY <3>6 DEF StartTransfer
    <3>7. ASSUME NEW r \in Requests, NEW j \in Jobs, DeleteAfterVerify(r, j)
          PROVE  local' = local
      BY <3>7 DEF DeleteAfterVerify
    <3>8. ASSUME NEW r \in Requests, NEW ps \in SUBSET Paths, DeleteExported(r, ps)
          PROVE  local' = local
      BY <3>8 DEF DeleteExported
    <3> QED
      BY <1>1, <3>1, <3>2, <3>3, <3>4, <3>5, <3>6, <3>7, <3>8 DEF MiniPcNext
  <2> QED
    BY <2>2, <2>3, <2>4, <2>5, <2>6
<1>2. MiniPcInv /\ [MiniPcNext]_miniPcVars =>
        [\A p \in Paths, m \in Members :
           local[p][m] # None /\ local'[p][m] = None
             => \/ p \in doubt'
                \/ \E d \in Dests : Copy(d, p)[m] = local[p][m]]_miniPcVars
  BY <1>1
<1> QED
  BY <1>2, MiniPcInvariant, PTL DEF MiniPcSpec, DeletedIsKept
=============================================================================
