------------------------------ MODULE EventBus ------------------------------
(***************************************************************************)
(* The asynchronous side of the event bus (manager/runtime/event_bus.py):  *)
(* threads publish events to a bounded queue, publish() starts the worker  *)
(* when the bus does not run, stop() clears the flag under the lock and    *)
(* ends the worker with a sentinel outside of it, optionally after the     *)
(* queue was drained. Subscribers run on the worker, and may call the bus  *)
(* themselves. Several workers may be alive at once: a bus that is stopped *)
(* and started again has the old worker until it meets its sentinel.       *)
(*                                                                         *)
(* Abstractions: an event is its number, delivering it is one interval     *)
(* of its worker (subscriptions and synchronous publishing are left out).  *)
(***************************************************************************)
EXTENDS Integers, Sequences, FiniteSets

CONSTANTS Callers,      \* threads that use the bus
          QueueSize,    \* maxsize of the queue
          SubscribersDrain,      \* subscribers may call stop(drain=True)
          MaxEvents, MaxStarts   \* bounds: publish() calls and workers

ASSUME CallersAssumption == Callers \cap Nat = {}
ASSUME SizeAssumption ==
    QueueSize \in Nat \ {0} /\ SubscribersDrain \in BOOLEAN /\ MaxEvents \in Nat /\ MaxStarts \in Nat \ {0}

Workers == 1..MaxStarts     \* a worker is known by the number of its start()
Threads == Callers \cup Workers
Events  == 1..MaxEvents
Stop    == 0                \* the sentinel, None in the queue

VARIABLES running, worker,   \* _running and _worker, 0 for None
          started,           \* workers started so far
          queue, unfinished, \* the queue and its unfinished_tasks
          job,               \* what each worker does: Stop, an event, or one of the below
          call,              \* what each thread does in a call of the bus
          published,         \* events created
          accepted, done, evicted   \* history: events put in the queue, delivered,
                                    \* and thrown out by a stop()

vars == <<running, worker, started, queue, unfinished, job, call, published, accepted, done, evicted>>

Unborn == -1   \* a job
Taking == -2
Ended  == -3
Jobs == {Unborn, Taking, Ended} \cup Events

Idle == [at |-> "idle", event |-> 0]
Points == {"idle", "start", "put", "drain", "sentinel", "evict", "again", "forget"}

Alive  == {w \in Workers : job[w] \in {Taking} \cup Events}
Busy   == {w \in Workers : job[w] \in Events}

Full == Len(queue) >= QueueSize

\* A thread can call the bus when it is not in a call; a worker, while a
\* subscriber runs on it.
Free(t) == call[t] = Idle /\ (t \in Workers => job[t] \in Events)
Goto(t, p) == call' = [call EXCEPT ![t].at = p]
Return(t)  == call' = [call EXCEPT ![t] = Idle]

----------------------------------------------------------------------------
Init ==
    /\ running = FALSE /\ worker = 0 /\ started = 0
    /\ queue = <<>> /\ unfinished = 0
    /\ job = [w \in Workers |-> Unborn]
    /\ call = [t \in Threads |-> Idle]
    /\ published = 0 /\ accepted = {} /\ done = {} /\ evicted = {}

----------------------------------------------------------------------------
(* publish(asynchronous=True): the event is made, the bus is started, and  *)
(* the event is put, in this order and not at once.                        *)

Publish(t) ==
    /\ Free(t)
    /\ published < MaxEvents
    /\ published' = published + 1
    /\ call' = [call EXCEPT ![t] = [at |-> "start", event |-> published + 1]]
    /\ UNCHANGED <<running, worker, started, queue, unfinished, job, accepted, done, evicted>>

\* start(), under the lock: nothing when the bus runs.
Spawn ==
    /\ running' = TRUE
    /\ started' = started + 1
    /\ worker' = started + 1
    /\ job' = [job EXCEPT ![started + 1] = Taking]

StartCall(t) ==
    /\ Free(t) /\ ~ running
    /\ Spawn
    /\ UNCHANGED <<queue, unfinished, call, published, accepted, done, evicted>>

StartForPublish(t) ==
    /\ call[t].at = "start"
    /\ Goto(t, "put")
    /\ IF running THEN UNCHANGED <<running, worker, started, job>> ELSE Spawn
    /\ UNCHANGED <<queue, unfinished, published, accepted, done, evicted>>

\* put_nowait(): counted as unfinished, or refused when the queue is full.
Put(t) ==
    /\ call[t].at = "put"
    /\ Return(t)
    /\ IF Full
         THEN UNCHANGED <<queue, unfinished, accepted>>
         ELSE /\ queue' = Append(queue, call[t].event)
              /\ unfinished' = unfinished + 1
              /\ accepted' = accepted \cup {call[t].event}
    /\ UNCHANGED <<running, worker, started, job, published, done, evicted>>

----------------------------------------------------------------------------
(* stop().                                                                 *)

\* Mutant: stop() does not ask whether the bus runs.
StopAlways(t, drain) ==
    /\ Free(t)
    /\ started < MaxStarts
    /\ running' = FALSE
    /\ call' = [call EXCEPT ![t] = [at |-> IF drain THEN "drain" ELSE "sentinel", event |-> 0]]
    /\ UNCHANGED <<worker, started, queue, unfinished, job, published, accepted, done, evicted>>

\* Under the lock; a bus that does not run is left alone. The bound: the last
\* worker is not stopped, so that a publish() can always start one.
StopFlag(t, drain) ==
    /\ Free(t)
    /\ drain /\ t \in Workers => SubscribersDrain
    /\ running
    /\ started < MaxStarts
    /\ running' = FALSE
    /\ call' = [call EXCEPT ![t] = [at |-> IF drain THEN "drain" ELSE "sentinel", event |-> 0]]
    /\ UNCHANGED <<worker, started, queue, unfinished, job, published, accepted, done, evicted>>

\* queue.join()
Drained(t) ==
    /\ call[t].at = "drain"
    /\ unfinished = 0
    /\ Goto(t, "sentinel")
    /\ UNCHANGED <<running, worker, started, queue, unfinished, job, published, accepted, done, evicted>>

\* The sentinel is put; when the queue is full, one entry is thrown out first,
\* and when it is full again after that, there will be no sentinel.
PutSentinel(t) ==
    /\ call[t].at \in {"sentinel", "again"}
    /\ IF Full
         THEN /\ Goto(t, IF call[t].at = "sentinel" THEN "evict" ELSE "forget")
              /\ UNCHANGED <<queue, unfinished>>
         ELSE /\ Goto(t, "forget")
              /\ queue' = Append(queue, Stop)
              /\ unfinished' = unfinished + 1
    /\ UNCHANGED <<running, worker, started, job, published, accepted, done, evicted>>

\* Mutant: what is thrown out is not counted as finished.
EvictUncounted(t) ==
    /\ call[t].at = "evict"
    /\ Goto(t, "again")
    /\ queue' = IF queue = <<>> THEN queue ELSE Tail(queue)
    /\ evicted' = IF queue = <<>> THEN evicted ELSE evicted \cup {Head(queue)}
    /\ UNCHANGED <<running, worker, started, unfinished, job, published, accepted, done>>

\* get_nowait() and task_done(): nobody looks at what was thrown out.
Evict(t) ==
    /\ call[t].at = "evict"
    /\ Goto(t, "again")
    /\ IF queue = <<>>
         THEN UNCHANGED <<queue, unfinished, evicted>>
         ELSE /\ queue' = Tail(queue)
              /\ unfinished' = unfinished - 1
              /\ evicted' = evicted \cup {Head(queue)}
    /\ UNCHANGED <<running, worker, started, job, published, accepted, done>>

\* worker.join(timeout) comes back, with or without the worker's end, and the
\* reference is dropped, whoever it refers to by now.
Forget(t) ==
    /\ call[t].at = "forget"
    /\ Return(t)
    /\ worker' = 0
    /\ UNCHANGED <<running, started, queue, unfinished, job, published, accepted, done, evicted>>

----------------------------------------------------------------------------
(* The worker.                                                             *)

\* Mutant: an event counts as finished when it is taken.
FinishedWhenTaken == unfinished - 1

\* An event stays unfinished until it is delivered.
TasksAfterTake == unfinished

Take(w) ==
    /\ job[w] = Taking
    /\ queue # <<>>
    /\ queue' = Tail(queue)
    /\ IF Head(queue) = Stop
         THEN job' = [job EXCEPT ![w] = Ended] /\ unfinished' = unfinished - 1
         ELSE job' = [job EXCEPT ![w] = Head(queue)] /\ unfinished' = TasksAfterTake
    /\ UNCHANGED <<running, worker, started, call, published, accepted, done, evicted>>

\* Mutant: what a subscriber raises ends the worker.
DeliverAndEnd(w) ==
    /\ job[w] \in Events
    /\ call[w] = Idle
    /\ done' = done \cup {job[w]}
    /\ job' = [job EXCEPT ![w] = Ended]
    /\ unfinished' = unfinished - 1
    /\ UNCHANGED <<running, worker, started, queue, call, published, accepted, evicted>>

\* Every subscriber was called, what they raised was caught: task_done().
Deliver(w) ==
    /\ job[w] \in Events
    /\ call[w] = Idle
    /\ done' = done \cup {job[w]}
    /\ job' = [job EXCEPT ![w] = Taking]
    /\ unfinished' = unfinished - 1
    /\ UNCHANGED <<running, worker, started, queue, call, published, accepted, evicted>>

----------------------------------------------------------------------------
Call(t) == StartForPublish(t) \/ Put(t) \/ Drained(t) \/ PutSentinel(t) \/ Evict(t) \/ Forget(t)

Next ==
    \/ \E t \in Threads : Publish(t) \/ StartCall(t) \/ StopFlag(t, TRUE) \/ StopFlag(t, FALSE) \/ Call(t)
    \/ \E w \in Workers : Take(w) \/ Deliver(w)

Spec == Init /\ [][Next]_vars

\* Calls go on, and workers take and deliver: subscribers return.
Fairness ==
    /\ \A t \in Threads : WF_vars(Call(t))
    /\ \A w \in Workers : WF_vars(Take(w)) /\ WF_vars(Deliver(w))

FairSpec == Spec /\ Fairness

----------------------------------------------------------------------------
\* Types of the state; what is unfinished is in the queue or on a worker.
TypeOK ==
    /\ running \in BOOLEAN
    /\ started \in 0..MaxStarts
    /\ worker \in 0..started
    /\ queue \in Seq({Stop} \cup Events)
    /\ Len(queue) <= QueueSize
    /\ unfinished = Len(queue) + Cardinality(Busy)
    /\ job \in [Workers -> Jobs]
    /\ \A w \in Workers : job[w] = Unborn <=> w > started
    /\ call \in [Threads -> [at : Points, event : {0} \cup Events]]
    /\ published \in 0..MaxEvents
    /\ accepted \subseteq 1..published
    /\ done \subseteq accepted
    /\ evicted \subseteq accepted \cup {Stop}

Sentinels == {i \in 1..Len(queue) : queue[i] = Stop}

\* A bus that runs has a worker that no sentinel in the queue is going to end,
\* however its stops and starts overlapped.
SomeoneServes == running => Cardinality(Alive) > Cardinality(Sentinels)

\* wait_until_idle() and a draining stop() look at unfinished_tasks only: at zero,
\* every event that publish() accepted was delivered or thrown out by a stop().
IdleIsDone == unfinished = 0 => accepted \subseteq done \cup evicted

\* In a bus that is left running, every accepted event is delivered in the end (or
\* was thrown out by an earlier stop). A stopped bus may keep one: a publish() that
\* started the bus before a stop() and put its event after the worker's end.
AcceptedIsServed ==
    \A e \in Events : <>[](running /\ e \in accepted => e \in done \cup evicted)

Stopping(t) == call[t].at \in {"drain", "sentinel", "evict", "again", "forget"}

\* stop() comes back, also when it drains, as long as no subscriber drains.
StopReturns == \A t \in Threads : Stopping(t) ~> ~ Stopping(t)

=============================================================================
