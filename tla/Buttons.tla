------------------------------ MODULE Buttons ------------------------------
(***************************************************************************)
(* A press of one of the two keys on its way to the foreground             *)
(* application: the kernel queues key events with their times, the main    *)
(* thread of the daemon turns them into gestures (manager/button_service.py) *)
(* and sends those that are for the application to every client of the     *)
(* ButtonServer, over sockets that block when they are full                *)
(* (manager/runtime/button_protocol.py); a very long hold stops the        *)
(* application after it was sent. The ButtonClient of the application      *)
(* reads and handles them in a thread of its own (manager/sdk).            *)
(*                                                                         *)
(* Abstractions: time is counted in ticks, a gesture that is for the       *)
(* launcher does nothing here, except a long hold, which opens the next    *)
(* application (ManagerDaemon has the rest); the application is a plain    *)
(* one; the socket buffer is counted in events.                            *)
(***************************************************************************)
EXTENDS Integers, Sequences, FiniteSets

CONSTANTS Debounce, LongPress, VeryLongPress,  \* 0.08, 0.9 and 3.6 seconds, in ticks
          BufferSize,   \* events a socket holds before a send blocks
          MayHang,      \* applications may stop reading their socket
          MaxClock, MaxQueue, MaxApps   \* bounds

ASSUME TimeAssumption ==
    /\ Debounce \in Nat \ {0} /\ LongPress \in Nat /\ VeryLongPress \in Nat
    /\ Debounce < LongPress /\ LongPress < VeryLongPress
ASSUME SizeAssumption ==
    BufferSize \in Nat \ {0} /\ MayHang \in BOOLEAN /\ MaxClock \in Nat /\ MaxQueue \in Nat /\ MaxApps \in Nat \ {0}

Keys == {"KEY_1", "KEY_ENTER"}     \* navigate and select
Apps == 1..MaxApps
Never == -Debounce                 \* a time before any other
Gestures == {"up", "down", "select", "home"}

VARIABLES clock,
          down,         \* since when each key is held, Never if it is not
          kernel,       \* key events that evdev has not delivered
          pressTimes,   \* press_times: Never where the dictionary has no entry
          lastRelease,  \* last_release
          main,         \* the main thread: where it is, what it sends, to whom yet
          clients,      \* _clients of the server
          buffer,       \* the socket of each application
          conn,         \* its connection; "abandoned" is a backlog entry of a dead client
          app, life     \* the foreground application, and how it is

keyVars    == <<clock, down, kernel>>
inputVars  == <<pressTimes, lastRelease>>
socketVars == <<clients, buffer, conn>>
appVars    == <<app, life>>
vars == <<keyVars, inputVars, main, socketVars, appVars>>


\* What is left of a connection when the application is gone.
Closed(c) == CASE c = "none" -> "none" [] c \in {"backlog", "abandoned"} -> "abandoned" [] OTHER -> "closed"

Waiting   == [pc |-> "wait", event |-> "none", todo |-> {}, dead |-> {}]

----------------------------------------------------------------------------
Init ==
    /\ clock = 0
    /\ down = [k \in Keys |-> Never]
    /\ kernel = <<>>
    /\ pressTimes = [k \in Keys |-> Never]
    /\ lastRelease = [k \in Keys |-> Never]
    /\ main = Waiting
    /\ clients = {}
    /\ buffer = [a \in Apps |-> <<>>]
    /\ conn = [a \in Apps |-> "none"]
    /\ app = 1 /\ life = "runs"

----------------------------------------------------------------------------
(* The keys and the kernel.                                                *)

Tick ==
    /\ clock < MaxClock
    /\ clock' = clock + 1
    /\ UNCHANGED <<down, kernel, inputVars, main, socketVars, appVars>>

\* An event carries the true hold for comparison; no step reads it.
KeyEvent(k, v, hold) == [key |-> k, value |-> v, time |-> clock, hold |-> hold]

\* A key bounces too: it may go down and up several times in a tick.
KeyDown(k) ==
    /\ down[k] = Never
    /\ clock < MaxClock
    /\ Len(kernel) < MaxQueue
    /\ down' = [down EXCEPT ![k] = clock]
    /\ kernel' = Append(kernel, KeyEvent(k, 1, 0))
    /\ UNCHANGED <<clock, inputVars, main, socketVars, appVars>>

KeyUp(k) ==
    /\ down[k] # Never
    /\ down' = [down EXCEPT ![k] = Never]
    /\ kernel' = Append(kernel, KeyEvent(k, 0, clock - down[k]))
    /\ UNCHANGED <<clock, inputVars, main, socketVars, appVars>>

----------------------------------------------------------------------------
(* ButtonService.handle_event(), on the main thread.                       *)

Class(k, held) ==
    IF held >= VeryLongPress THEN "home"
    ELSE IF held >= LongPress THEN "select"
    ELSE IF k = "KEY_1" THEN "up" ELSE "down"

\* Mutant: the time is taken when the event is handled.
HandlingTime(e) == clock

\* The event times are the kernel's: how late they are handled does not matter.
EventTime(e) == e.time

ReadsPress ==
    /\ main.pc = "wait" /\ kernel # <<>>
    /\ LET e == Head(kernel) IN
       /\ e.value = 1
       /\ pressTimes' = [pressTimes EXCEPT ![e.key] = EventTime(e)]
    /\ kernel' = Tail(kernel)
    /\ UNCHANGED <<clock, down, lastRelease, main, socketVars, appVars>>

Bounces(e) == EventTime(e) - lastRelease[e.key] < Debounce

\* The release is dropped; the time of its press stays.
ReadsBounce ==
    /\ main.pc = "wait" /\ kernel # <<>>
    /\ Head(kernel).value = 0
    /\ Bounces(Head(kernel))
    /\ kernel' = Tail(kernel)
    /\ UNCHANGED <<clock, down, inputVars, main, socketVars, appVars>>

AppRuns == life \in {"runs", "hangs"}

\* Where a gesture goes: to the application while one runs; a long hold opens
\* the next one when none does.
Route(class) ==
    IF AppRuns
      THEN main' = [pc |-> "send", event |-> class, todo |-> clients, dead |-> {}] /\ UNCHANGED appVars
      ELSE /\ main' = Waiting
           /\ IF class = "select" /\ app < MaxApps
                THEN app' = app + 1 /\ life' = "runs"
                ELSE UNCHANGED appVars

ReadsRelease ==
    /\ main.pc = "wait" /\ kernel # <<>>
    /\ LET e    == Head(kernel)
           from == IF pressTimes[e.key] = Never THEN EventTime(e) ELSE pressTimes[e.key]
           held == IF EventTime(e) < from THEN 0 ELSE EventTime(e) - from
       IN /\ e.value = 0
          /\ ~ Bounces(e)
          /\ lastRelease' = [lastRelease EXCEPT ![e.key] = EventTime(e)]
          /\ pressTimes' = [pressTimes EXCEPT ![e.key] = Never]
          /\ Route(Class(e.key, held))
    /\ kernel' = Tail(kernel)
    /\ UNCHANGED <<clock, down, socketVars>>

----------------------------------------------------------------------------
(* ButtonServer.publish(), and what a very long hold does after it.        *)

\* sendall() on a blocking socket: it waits while the buffer is full, and
\* raises once the other side is closed.
SendTo(c) ==
    /\ main.pc = "send" /\ c \in main.todo
    /\ \/ /\ conn[c] = "closed"
          /\ main' = [main EXCEPT !.todo = @ \ {c}, !.dead = @ \cup {c}]
          /\ UNCHANGED buffer
       \/ /\ conn[c] = "open"
          /\ Len(buffer[c]) < BufferSize
          /\ buffer' = [buffer EXCEPT ![c] = Append(@, main.event)]
          /\ main' = [main EXCEPT !.todo = @ \ {c}]
    /\ UNCHANGED <<keyVars, inputVars, clients, conn, appVars>>

\* Mutant: the hold is left to the application.
LeftToApplication(event) == Waiting

\* The hold that was sent ends the application all the same.
AfterPublish(event) == IF event = "home" THEN [main EXCEPT !.pc = "stop", !.dead = {}] ELSE Waiting

Published ==
    /\ main.pc = "send" /\ main.todo = {}
    /\ clients' = clients \ main.dead
    /\ main' = AfterPublish(main.event)
    /\ UNCHANGED <<keyVars, inputVars, buffer, conn, appVars>>

\* _stop_active_application(): SIGTERM and, when it is not heard, SIGKILL; the
\* kernel closes the socket.
Stops ==
    /\ main.pc = "stop"
    /\ main' = Waiting
    /\ life' = "gone"
    /\ conn' = [conn EXCEPT ![app] = Closed(@)]
    /\ buffer' = [buffer EXCEPT ![app] = <<>>]
    /\ UNCHANGED <<keyVars, inputVars, clients, app>>

----------------------------------------------------------------------------
(* The accept thread of the server.                                        *)

\* A client that closed while it waited is accepted all the same.
Accept(c) ==
    /\ conn[c] \in {"backlog", "abandoned"}
    /\ clients' = clients \cup {c}
    /\ conn' = [conn EXCEPT ![c] = IF @ = "backlog" THEN "open" ELSE "closed"]
    /\ UNCHANGED <<keyVars, inputVars, main, buffer, appVars>>

----------------------------------------------------------------------------
(* The application.                                                        *)

Connects ==
    /\ life = "runs" /\ conn[app] = "none"
    /\ conn' = [conn EXCEPT ![app] = "backlog"]
    /\ UNCHANGED <<keyVars, inputVars, main, clients, buffer, appVars>>

\* The client thread hands an event to the callbacks; what they raise is caught.
Handles ==
    /\ life = "runs" /\ buffer[app] # <<>>
    /\ buffer' = [buffer EXCEPT ![app] = Tail(@)]
    /\ UNCHANGED <<keyVars, inputVars, main, clients, conn, appVars>>

Hangs ==
    /\ MayHang /\ life = "runs"
    /\ life' = "hangs"
    /\ UNCHANGED <<keyVars, inputVars, main, socketVars, app>>

Quits ==
    /\ AppRuns
    /\ life' = "gone"
    /\ conn' = [conn EXCEPT ![app] = Closed(@)]
    /\ buffer' = [buffer EXCEPT ![app] = <<>>]
    /\ UNCHANGED <<keyVars, inputVars, main, clients, app>>

----------------------------------------------------------------------------
Main == ReadsPress \/ ReadsBounce \/ ReadsRelease \/ (\E c \in Apps : SendTo(c)) \/ Published \/ Stops

Next ==
    \/ Tick \/ \E k \in Keys : KeyDown(k) \/ KeyUp(k)
    \/ Main
    \/ \E c \in Apps : Accept(c)
    \/ Connects \/ Handles \/ Hangs \/ Quits

Spec == Init /\ [][Next]_vars

\* The threads of the daemon and the client thread of the application run on.
Fairness == WF_vars(Main) /\ WF_vars(Connects) /\ WF_vars(Handles)
            /\ \A c \in Apps : WF_vars(Accept(c))
FairSpec == Spec /\ Fairness

----------------------------------------------------------------------------
Connections == {"none", "backlog", "abandoned", "open", "closed"}

\* Types of the state; a client in the server's set was accepted, and what waits
\* in the socket of an application fits in it.
TypeOK ==
    /\ clock \in 0..MaxClock
    /\ down \in [Keys -> {Never} \cup 0..MaxClock]
    /\ pressTimes \in [Keys -> {Never} \cup 0..MaxClock]
    /\ lastRelease \in [Keys -> {Never} \cup 0..MaxClock]
    /\ main \in [pc : {"wait", "send", "stop"}, event : Gestures \cup {"none"},
                 todo : SUBSET Apps, dead : SUBSET Apps]
    /\ main.todo \cup main.dead \subseteq clients
    /\ \A c \in clients : conn[c] \in {"open", "closed"}
    /\ \A a \in Apps : Len(buffer[a]) <= BufferSize
    /\ conn \in [Apps -> Connections]
    /\ app \in Apps /\ life \in {"runs", "hangs", "gone"}

\* A gesture is what the user did, however late the main thread got to it and
\* however the contacts bounced: what is sent to the application, or opens one, is
\* classified by the time the key was really held.
GestureIsHold ==
    [][ LET e == Head(kernel) IN
        /\ main.pc = "wait" /\ main'.pc = "send" => main'.event = Class(e.key, e.hold)
        /\ app' # app => Class(e.key, e.hold) = "select" ]_vars

HomeWaits(a) ==
    /\ app = a /\ AppRuns
    /\ \E i \in 1..Len(kernel) : kernel[i].value = 0 /\ kernel[i].hold >= VeryLongPress

\* A send to an application that stopped reading.
Blocked ==
    /\ main.pc = "send" /\ life = "hangs" /\ app \in main.todo
    /\ Len(buffer[app]) = BufferSize

\* The universal Home: a very long hold ends the application it was made over,
\* except one that hangs and whose socket earlier presses have filled.
HomeEndsReader == \A a \in Apps : HomeWaits(a) ~> (app # a \/ life = "gone" \/ Blocked)

\* "Applications must not disable the universal Home behavior": without exception.
HomeEndsAny == \A a \in Apps : HomeWaits(a) ~> (app # a \/ life = "gone")

=============================================================================
