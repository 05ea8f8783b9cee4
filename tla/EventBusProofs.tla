--------------------------- MODULE EventBusProofs ---------------------------
(***************************************************************************)
(* Theorems about the event bus, for any callers, any queue size and any   *)
(* number of events and workers.                                           *)
(***************************************************************************)
EXTENDS EventBus, FiniteSetTheorems, TLAPS

\* Stops that have cleared the flag and owe the bus a sentinel.
Pending == {t \in Threads : call[t].at \in {"drain", "sentinel", "evict", "again"}}

\* TypeOK without the count of unfinished tasks, in the form the provers use.
Types ==
    /\ running \in BOOLEAN
    /\ started \in 0..MaxStarts
    /\ worker \in 0..started
    /\ queue \in Seq({Stop} \cup Events)
    /\ Len(queue) <= QueueSize
    /\ unfinished \in Int
    /\ job \in [Workers -> Jobs]
    /\ \A w \in Workers : job[w] = Unborn <=> w > started
    /\ call \in [Threads -> [at : Points, event : {0} \cup Events]]
    /\ published \in 0..MaxEvents
    /\ accepted \subseteq 1..published
    /\ done \subseteq accepted
    /\ evicted \subseteq accepted \cup {Stop}

\* A stop() leaves a worker to be started; an event is put after it was made.
CallsMatch ==
    /\ ~ running => started < MaxStarts
    /\ \A t \in Threads : call[t].at \in {"start", "put"} => call[t].event \in 1..published

\* What is counted as unfinished is in the queue or on a worker.
Counted == unfinished = Len(queue) + Cardinality(Busy)

\* What is queued or on a worker was accepted, and what was accepted is there,
\* done or thrown out.
OnlyAccepted ==
    /\ \A i \in 1..Len(queue) : queue[i] \in {Stop} \cup accepted
    /\ \A w \in Busy : job[w] \in accepted

NothingLost ==
    \A e \in accepted :
        \/ e \in done \cup evicted
        \/ \E i \in 1..Len(queue) : queue[i] = e
        \/ \E w \in Workers : job[w] = e

\* Every sentinel, queued or still to come, has a worker of its own to end, and a
\* bus that runs has one more.
Served ==
    /\ IsFiniteSet(Pending)
    /\ Cardinality(Alive) >= Cardinality(Sentinels) + Cardinality(Pending) + (IF running THEN 1 ELSE 0)

IInv == Types /\ CallsMatch /\ Counted /\ OnlyAccepted /\ NothingLost /\ Served

USE CallersAssumption, SizeAssumption

----------------------------------------------------------------------------
(* Sets and sequences.                                                     *)

\* Workers, those alive or busy and the sentinels are finitely many.
LEMMA SetsAreFinite ==
  ASSUME Types
  PROVE  /\ IsFiniteSet(Workers) /\ IsFiniteSet(Alive) /\ IsFiniteSet(Busy) /\ IsFiniteSet(Sentinels)
         /\ Cardinality(Alive) \in Nat /\ Cardinality(Busy) \in Nat /\ Cardinality(Sentinels) \in Nat
<1>1. IsFiniteSet(Workers)
  BY FS_Interval DEF Workers
<1>2. IsFiniteSet(1..Len(queue))
  BY FS_Interval DEF Types
<1>3. Alive \in SUBSET Workers /\ Busy \in SUBSET Workers /\ Sentinels \in SUBSET (1..Len(queue))
  BY DEF Alive, Busy, Sentinels
<1>4. IsFiniteSet(Alive) /\ IsFiniteSet(Busy) /\ IsFiniteSet(Sentinels)
  BY <1>1, <1>2, <1>3, FS_Subset
<1> QED
  BY <1>1, <1>4, FS_CardinalityType

\* What put_nowait() does to the queue and to the sentinels in it.
LEMMA Appended ==
  ASSUME Types, NEW x \in {Stop} \cup Events, queue' = Append(queue, x)
  PROVE  /\ queue' \in Seq({Stop} \cup Events) /\ Len(queue') = Len(queue) + 1
         /\ \A i \in 1..Len(queue) : queue'[i] = queue[i]
         /\ queue'[Len(queue) + 1] = x
         /\ Sentinels' = IF x = Stop THEN Sentinels \cup {Len(queue) + 1} ELSE Sentinels
<1>1. /\ queue' \in Seq({Stop} \cup Events) /\ Len(queue') = Len(queue) + 1
      /\ \A i \in 1..Len(queue) : queue'[i] = queue[i]
      /\ queue'[Len(queue) + 1] = x
  BY DEF Types
<1>2. Len(queue) \in Nat
  BY DEF Types
<1>3. Sentinels' = IF x = Stop THEN Sentinels \cup {Len(queue) + 1} ELSE Sentinels
  BY <1>1, <1>2 DEF Sentinels, Stop
<1> QED
  BY <1>1, <1>3

\* What get() does to them: the sentinels move one place to the front.
LEMMA Shortened ==
  ASSUME Types, queue # <<>>, queue' = Tail(queue)
  PROVE  /\ queue' \in Seq({Stop} \cup Events) /\ Len(queue') = Len(queue) - 1
         /\ \A i \in 1..Len(queue) - 1 : queue'[i] = queue[i + 1]
         /\ Head(queue) = queue[1] /\ 1 \in 1..Len(queue)
         /\ IsFiniteSet(Sentinels')
         /\ Cardinality(Sentinels') <= IF Head(queue) = Stop THEN Cardinality(Sentinels) - 1
                                                            ELSE Cardinality(Sentinels)
<1>1. /\ queue' \in Seq({Stop} \cup Events) /\ Len(queue') = Len(queue) - 1
      /\ \A i \in 1..Len(queue) - 1 : queue'[i] = queue[i + 1]
      /\ Head(queue) = queue[1] /\ 1 \in 1..Len(queue)
  BY DEF Types
<1> DEFINE later == [i \in Sentinels' |-> i + 1]
<1>2. later \in Injection(Sentinels', Sentinels \ {1})
  <2>1. \A i \in Sentinels' : i \in Nat /\ i + 1 \in Sentinels \ {1}
    BY <1>1 DEF Sentinels, Types
  <2>2. later \in [Sentinels' -> Sentinels \ {1}]
    BY <2>1
  <2>3. \A i, j \in Sentinels' : later[i] = later[j] => i = j
    BY <2>1
  <2> QED
    BY <2>2, <2>3 DEF Injection, IsInjective
<1>3. IsFiniteSet(Sentinels \ {1}) /\ Cardinality(Sentinels \ {1}) =
        IF 1 \in Sentinels THEN Cardinality(Sentinels) - 1 ELSE Cardinality(Sentinels)
  BY SetsAreFinite, FS_RemoveElement
<1>4. IsFiniteSet(Sentinels') /\ Cardinality(Sentinels') <= Cardinality(Sentinels \ {1})
  BY <1>2, <1>3, FS_Injection
<1>5. 1 \in Sentinels <=> Head(queue) = Stop
  BY <1>1 DEF Sentinels
<1> QED
  BY <1>1, <1>3, <1>4, <1>5

\* A step that leaves queue and workers alone leaves all that is said of them.
LEMMA Untouched ==
  ASSUME UNCHANGED <<queue, job>>
  PROVE  Alive' = Alive /\ Busy' = Busy /\ Sentinels' = Sentinels
  BY DEF Alive, Busy, Sentinels

----------------------------------------------------------------------------
(* One lemma per action.                                                   *)

\* publish() makes an event.
LEMMA PublishStep ==
  ASSUME IInv, NEW t \in Threads, Publish(t)
  PROVE  IInv'
<1> USE DEF IInv
<1>1. Types'
  BY DEF Publish, Types, Points, Events
<1>2. CallsMatch'
  BY DEF Publish, Types, CallsMatch, Events
<1>3. Counted' /\ OnlyAccepted' /\ NothingLost'
  BY Untouched DEF Publish, Counted, OnlyAccepted, NothingLost
<1>4. Pending' = Pending
  BY DEF Publish, Free, Idle, Types, Pending
<1>5. Served'
  BY <1>4, Untouched DEF Publish, Served
<1> QED
  BY <1>1, <1>2, <1>3, <1>5

\* A worker is born.
LEMMA SpawnStep ==
  ASSUME IInv, ~ running, Spawn, Types', CallsMatch', Pending' = Pending,
         UNCHANGED <<queue, unfinished, accepted, done, evicted>>
  PROVE  IInv'
<1> USE DEF IInv
<1> DEFINE w == started + 1
<1>1. w \in Workers /\ job[w] = Unborn /\ started \in Nat
  BY DEF Types, CallsMatch, Workers
<1>2. Alive' = Alive \cup {w} /\ w \notin Alive /\ Busy' = Busy /\ Sentinels' = Sentinels
  BY <1>1 DEF Spawn, Types, Alive, Busy, Sentinels, Unborn, Taking, Events
<1>3. Counted'
  BY <1>2 DEF Counted
<1>4. OnlyAccepted'
  BY <1>1, <1>2 DEF Spawn, Types, OnlyAccepted, Busy, Events, Unborn, Taking
<1>5. NothingLost'
  <2>1. \A e \in accepted : e # Unborn
    BY DEF Types, Unborn
  <2>2. \A v \in Workers : v # w => job'[v] = job[v]
    BY DEF Spawn, Types
  <2> QED
    BY <1>1, <2>1, <2>2 DEF NothingLost
<1>6. Cardinality(Alive') = Cardinality(Alive) + 1
  BY <1>2, SetsAreFinite, FS_AddElement
<1>7. Served'
  BY <1>2, <1>6, SetsAreFinite, FS_CardinalityType DEF Served, Spawn
<1> QED
  BY <1>3, <1>4, <1>5, <1>7

\* start() from outside.
LEMMA StartCallStep ==
  ASSUME IInv, NEW t \in Threads, StartCall(t)
  PROVE  IInv'
<1>1. Types'
  BY DEF IInv, StartCall, Spawn, Types, CallsMatch, Workers, Jobs, Unborn, Taking
<1>2. CallsMatch'
  BY DEF IInv, StartCall, Spawn, CallsMatch
<1>3. Pending' = Pending
  BY DEF StartCall, Pending
<1> QED
  BY <1>1, <1>2, <1>3, SpawnStep DEF StartCall

\* start() from publish(), which may find the bus running.
LEMMA StartForPublishStep ==
  ASSUME IInv, NEW t \in Threads, StartForPublish(t)
  PROVE  IInv'
<1>1. Types'
  <2>1. call' \in [Threads -> [at : Points, event : {0} \cup Events]]
    BY DEF IInv, StartForPublish, Goto, Types, Points
  <2>2. /\ running' \in BOOLEAN /\ started' \in 0..MaxStarts /\ worker' \in 0..started'
        /\ job' \in [Workers -> Jobs]
        /\ \A w \in Workers : job'[w] = Unborn <=> w > started'
    <3>1. CASE running
      BY <3>1 DEF IInv, StartForPublish, Types
    <3>2. CASE ~ running
      BY <3>2 DEF IInv, StartForPublish, Spawn, Types, CallsMatch, Workers, Jobs, Unborn, Taking
    <3> QED
      BY <3>1, <3>2
  <2> QED
    BY <2>1, <2>2 DEF IInv, StartForPublish, Types
<1>2. CallsMatch'
  BY DEF IInv, StartForPublish, Goto, Spawn, Types, CallsMatch
<1>3. Pending' = Pending
  BY DEF IInv, StartForPublish, Goto, Types, Pending
<1>4. CASE ~ running
  BY <1>1, <1>2, <1>3, <1>4, SpawnStep DEF StartForPublish
<1>5. CASE running
  <2>1. UNCHANGED <<running, job, queue, unfinished, accepted, done, evicted>>
    BY <1>5 DEF StartForPublish
  <2>2. Counted' /\ OnlyAccepted' /\ NothingLost' /\ Served'
    BY <2>1, <1>3, Untouched DEF IInv, Counted, OnlyAccepted, NothingLost, Served
  <2> QED
    BY <1>1, <1>2, <2>2 DEF IInv
<1> QED
  BY <1>4, <1>5

\* put_nowait(): the event is new in the queue, or refused.
LEMMA PutStep ==
  ASSUME IInv, NEW t \in Threads, Put(t)
  PROVE  IInv'
<1> USE DEF IInv
<1> DEFINE e == call[t].event
<1>1. e \in Events /\ e \in 1..published /\ e # Stop
  BY DEF Put, CallsMatch, Types, Events, Stop
<1>2. call' = [call EXCEPT ![t] = Idle]
  BY DEF Put, Return
<1>3. Pending' = Pending /\ CallsMatch'
  BY <1>2 DEF Put, Pending, Types, CallsMatch, Idle
<1>4. CASE Full
  <2>1. UNCHANGED <<running, worker, started, job, published, queue, unfinished, accepted, done, evicted>>
    BY <1>4 DEF Put
  <2>2. Counted' /\ OnlyAccepted' /\ NothingLost' /\ Served'
    BY <2>1, <1>3, Untouched DEF Counted, OnlyAccepted, NothingLost, Served
  <2>3. Types'
    BY <2>1, <1>2 DEF Types, Idle, Points
  <2> QED
    BY <1>3, <2>2, <2>3
<1>5. CASE ~ Full
  <2>1. /\ queue' = Append(queue, e) /\ unfinished' = unfinished + 1 /\ accepted' = accepted \cup {e}
        /\ UNCHANGED <<running, worker, started, job, published, done, evicted>>
    BY <1>5 DEF Put
  <2>2. /\ queue' \in Seq({Stop} \cup Events) /\ Len(queue') = Len(queue) + 1
        /\ \A i \in 1..Len(queue) : queue'[i] = queue[i]
        /\ queue'[Len(queue) + 1] = e
        /\ Sentinels' = Sentinels
    BY <1>1, <2>1, Appended
  <2>3. Len(queue) \in Nat /\ Alive' = Alive /\ Busy' = Busy
    BY <2>1 DEF Types, Alive, Busy
  <2>4. Types'
    <3>1. call' \in [Threads -> [at : Points, event : {0} \cup Events]]
      BY <1>2 DEF Types, Idle, Points
    <3>2. Len(queue') <= QueueSize /\ unfinished' \in Int
      BY <1>5, <2>1, <2>2, <2>3 DEF Types, Full
    <3>3. accepted' \subseteq 1..published /\ done \subseteq accepted' /\ evicted \subseteq accepted' \cup {Stop}
      BY <1>1, <2>1 DEF Types
    <3> QED
      BY <2>1, <2>2, <3>1, <3>2, <3>3 DEF Types
  <2>5. Counted'
    BY <2>1, <2>2, <2>3, SetsAreFinite DEF Counted
  <2>6. OnlyAccepted'
    BY <2>1, <2>2, <2>3 DEF OnlyAccepted
  <2>7. NothingLost'
    BY <2>1, <2>2, <2>3 DEF NothingLost
  <2>8. Served'
    BY <1>3, <2>1, <2>2, <2>3 DEF Served
  <2> QED
    BY <1>3, <2>4, <2>5, <2>6, <2>7, <2>8
<1> QED
  BY <1>4, <1>5

\* stop() clears the flag: the extra worker is owed a sentinel from now on.
LEMMA StopFlagStep ==
  ASSUME IInv, NEW t \in Threads, NEW drain \in BOOLEAN, StopFlag(t, drain)
  PROVE  IInv'
<1> USE DEF IInv
<1>1. Types' /\ CallsMatch'
  BY DEF StopFlag, Types, CallsMatch, Points
<1>2. Counted' /\ OnlyAccepted' /\ NothingLost'
  BY Untouched DEF StopFlag, Counted, OnlyAccepted, NothingLost
<1>3. Pending' = Pending \cup {t} /\ t \notin Pending
  BY DEF StopFlag, Free, Idle, Types, Pending
<1>4. IsFiniteSet(Pending') /\ Cardinality(Pending') = Cardinality(Pending) + 1
  BY <1>3, FS_AddElement DEF Served
<1>5. Served'
  BY <1>4, Untouched, SetsAreFinite, FS_CardinalityType DEF StopFlag, Served
<1> QED
  BY <1>1, <1>2, <1>5

\* stop(drain=True) got through queue.join().
LEMMA DrainedStep ==
  ASSUME IInv, NEW t \in Threads, Drained(t)
  PROVE  IInv'
<1> USE DEF IInv
<1>1. Types' /\ CallsMatch'
  BY DEF Drained, Goto, Types, CallsMatch, Points
<1>2. Pending' = Pending
  BY DEF Drained, Goto, Types, Pending
<1>3. Counted' /\ OnlyAccepted' /\ NothingLost' /\ Served'
  BY <1>2, Untouched DEF Drained, Counted, OnlyAccepted, NothingLost, Served
<1> QED
  BY <1>1, <1>3

\* stop() returns.
LEMMA ForgetStep ==
  ASSUME IInv, NEW t \in Threads, Forget(t)
  PROVE  IInv'
<1> USE DEF IInv
<1>1. Types' /\ CallsMatch'
  BY DEF Forget, Return, Idle, Types, CallsMatch, Points
<1>2. Pending' = Pending
  BY DEF Forget, Return, Idle, Types, Pending
<1>3. Counted' /\ OnlyAccepted' /\ NothingLost' /\ Served'
  BY <1>2, Untouched DEF Forget, Counted, OnlyAccepted, NothingLost, Served
<1> QED
  BY <1>1, <1>3

\* The sentinel: what was owed is queued, or given up.
LEMMA PutSentinelStep ==
  ASSUME IInv, NEW t \in Threads, PutSentinel(t)
  PROVE  IInv'
<1> USE DEF IInv
<1>1. Len(queue) \in Nat /\ t \in Pending /\ IsFiniteSet(Pending) /\ Cardinality(Pending) \in Nat
  BY FS_CardinalityType DEF PutSentinel, Types, Pending, Served
<1>2. IsFiniteSet(Pending \ {t}) /\ Cardinality(Pending \ {t}) = Cardinality(Pending) - 1
  BY <1>1, FS_RemoveElement
<1>3. CallsMatch'
  BY DEF PutSentinel, Goto, Types, CallsMatch
<1>4. call' \in [Threads -> [at : Points, event : {0} \cup Events]]
  BY DEF PutSentinel, Goto, Types, Points
<1>5. UNCHANGED <<running, worker, started, job, published, accepted, done, evicted>>
  BY DEF PutSentinel
<1>6. CASE Full
  <2>1. UNCHANGED <<queue, unfinished>> /\ Goto(t, IF call[t].at = "sentinel" THEN "evict" ELSE "forget")
    BY <1>6 DEF PutSentinel
  <2>2. Types' /\ Counted' /\ OnlyAccepted' /\ NothingLost'
    BY <1>4, <1>5, <2>1, Untouched DEF Types, Counted, OnlyAccepted, NothingLost
  <2>3. Pending' = Pending \/ Pending' = Pending \ {t}
    BY <1>1, <2>1 DEF Goto, Types, Pending
  <2>4. IsFiniteSet(Pending') /\ Cardinality(Pending') \in Int /\ Cardinality(Pending') <= Cardinality(Pending)
    <3>1. CASE Pending' = Pending
      BY <1>1, <3>1
    <3>2. CASE Pending' = Pending \ {t}
      BY <1>1, <1>2, <3>2
    <3> QED
      BY <2>3, <3>1, <3>2
  <2>5. Alive' = Alive /\ Sentinels' = Sentinels /\ running' = running
    BY <1>5, <2>1, Untouched
  <2>6. Served'
    BY <1>1, <2>4, <2>5, SetsAreFinite DEF Served
  <2> QED
    BY <1>3, <2>2, <2>6
<1>7. CASE ~ Full
  <2>1. queue' = Append(queue, Stop) /\ unfinished' = unfinished + 1 /\ Goto(t, "forget")
    BY <1>7 DEF PutSentinel
  <2>2. /\ queue' \in Seq({Stop} \cup Events) /\ Len(queue') = Len(queue) + 1
        /\ \A i \in 1..Len(queue) : queue'[i] = queue[i]
        /\ queue'[Len(queue) + 1] = Stop
        /\ Sentinels' = Sentinels \cup {Len(queue) + 1}
    BY <2>1, Appended
  <2>3. Alive' = Alive /\ Busy' = Busy
    BY <1>5 DEF Alive, Busy
  <2>4. Types'
    <3>1. Len(queue') <= QueueSize /\ unfinished' \in Int
      BY <1>1, <1>7, <2>1, <2>2 DEF Types, Full
    <3> QED
      BY <1>4, <1>5, <2>2, <3>1 DEF Types
  <2>5. Counted'
    BY <1>1, <2>1, <2>2, <2>3, SetsAreFinite DEF Counted
  <2>6. OnlyAccepted' /\ NothingLost'
    BY <1>1, <1>5, <2>2, <2>3 DEF OnlyAccepted, NothingLost
  <2>7. Pending' = Pending \ {t}
    BY <2>1 DEF Goto, Types, Pending
  <2>8. Len(queue) + 1 \notin Sentinels
    BY <1>1 DEF Sentinels
  <2>9. Cardinality(Sentinels') = Cardinality(Sentinels) + 1
    BY <2>2, <2>8, SetsAreFinite, FS_AddElement
  <2>10. Served'
    BY <1>1, <1>2, <1>5, <2>3, <2>7, <2>9, SetsAreFinite DEF Served
  <2> QED
    BY <1>3, <2>4, <2>5, <2>6, <2>10
<1> QED
  BY <1>6, <1>7

\* An entry is thrown out, an event or the sentinel of another stop.
LEMMA EvictStep ==
  ASSUME IInv, NEW t \in Threads, Evict(t)
  PROVE  IInv'
<1> USE DEF IInv
<1>1. CallsMatch' /\ Pending' = Pending
  BY DEF Evict, Goto, Types, CallsMatch, Pending
<1>2. call' \in [Threads -> [at : Points, event : {0} \cup Events]]
  BY DEF Evict, Goto, Types, Points
<1>3. UNCHANGED <<running, worker, started, job, published, accepted, done>> /\ Alive' = Alive /\ Busy' = Busy
  BY DEF Evict, Alive, Busy
<1>4. CASE queue = <<>>
  <2>1. UNCHANGED <<queue, unfinished, evicted>>
    BY <1>4 DEF Evict
  <2>2. Types' /\ Counted' /\ OnlyAccepted' /\ NothingLost' /\ Served'
    BY <1>1, <1>2, <1>3, <2>1, Untouched DEF Types, Counted, OnlyAccepted, NothingLost, Served
  <2> QED
    BY <1>1, <2>2
<1>5. CASE queue # <<>>
  <2>1. queue' = Tail(queue) /\ unfinished' = unfinished - 1 /\ evicted' = evicted \cup {Head(queue)}
    BY <1>5 DEF Evict
  <2>2. /\ queue' \in Seq({Stop} \cup Events) /\ Len(queue') = Len(queue) - 1
        /\ \A i \in 1..Len(queue) - 1 : queue'[i] = queue[i + 1]
        /\ Head(queue) = queue[1] /\ 1 \in 1..Len(queue)
        /\ IsFiniteSet(Sentinels') /\ Cardinality(Sentinels') <= Cardinality(Sentinels)
    <3>1. Cardinality(Sentinels') <= IF Head(queue) = Stop THEN Cardinality(Sentinels) - 1
                                                          ELSE Cardinality(Sentinels)
      BY <1>5, <2>1, Shortened
    <3>2. IsFiniteSet(Sentinels') /\ Cardinality(Sentinels') \in Nat
      BY <1>5, <2>1, Shortened, FS_CardinalityType
    <3>3. Cardinality(Sentinels') <= Cardinality(Sentinels)
      BY <3>1, <3>2, SetsAreFinite
    <3> QED
      BY <1>5, <2>1, <3>2, <3>3, Shortened
  <2>3. Len(queue) \in Nat
    BY DEF Types
  <2>4. Types'
    <3>1. Len(queue') <= QueueSize /\ unfinished' \in Int
      BY <2>1, <2>2, <2>3 DEF Types
    <3>2. evicted' \subseteq accepted \cup {Stop}
      <4>1. Head(queue) \in {Stop} \cup accepted
        BY <2>2 DEF OnlyAccepted
      <4> QED
        BY <2>1, <4>1 DEF Types
    <3> QED
      BY <1>2, <1>3, <2>2, <3>1, <3>2 DEF Types
  <2>5. Counted'
    BY <1>3, <2>1, <2>2, <2>3, SetsAreFinite DEF Counted
  <2>6. OnlyAccepted'
    BY <1>3, <2>2, <2>3 DEF OnlyAccepted
  <2>7. NothingLost'
    <3> SUFFICES ASSUME NEW e \in accepted, e \notin done \cup evicted', \A w \in Workers : job[w] # e
                 PROVE  \E i \in 1..Len(queue') : queue'[i] = e
      BY <1>3 DEF NothingLost
    <3>1. PICK i \in 1..Len(queue) : queue[i] = e
      BY <2>1 DEF NothingLost
    <3>2. i # 1
      BY <3>1, <2>1, <2>2
    <3>3. i - 1 \in 1..Len(queue') /\ queue'[i - 1] = e
      BY <3>1, <3>2, <2>2, <2>3
    <3> QED
      BY <3>3
  <2>8. Served'
    BY <1>1, <1>3, <2>2, SetsAreFinite, FS_CardinalityType DEF Served
  <2> QED
    BY <1>1, <2>4, <2>5, <2>6, <2>7, <2>8
<1> QED
  BY <1>4, <1>5

----------------------------------------------------------------------------
(* The worker.                                                             *)

\* A sentinel ends the worker it was owed to, an event goes from the queue to it.
LEMMA TakeStep ==
  ASSUME IInv, NEW w \in Workers, Take(w)
  PROVE  IInv'
<1> USE DEF IInv
<1>1. /\ job[w] = Taking /\ queue # <<>> /\ queue' = Tail(queue)
      /\ UNCHANGED <<running, worker, started, call, published, accepted, done, evicted>>
  BY DEF Take
<1>2. /\ queue' \in Seq({Stop} \cup Events) /\ Len(queue') = Len(queue) - 1
      /\ \A i \in 1..Len(queue) - 1 : queue'[i] = queue[i + 1]
      /\ Head(queue) = queue[1] /\ 1 \in 1..Len(queue)
  BY <1>1, Shortened
<1>3. Len(queue) \in Nat /\ unfinished \in Int /\ Head(queue) \in {Stop} \cup accepted
  BY <1>2 DEF Types, OnlyAccepted
<1>4. accepted \subseteq Events /\ w \in Alive /\ w \notin Busy
  BY <1>1 DEF Types, Events, Alive, Busy, Taking
<1>5. CallsMatch' /\ Pending' = Pending
  BY <1>1 DEF CallsMatch, Pending
<1>6. IsFiniteSet(Sentinels') /\ Cardinality(Sentinels') \in Nat
  BY <1>1, Shortened, FS_CardinalityType
<1>7. IsFiniteSet(Pending) /\ Cardinality(Pending) \in Nat
  BY FS_CardinalityType DEF Served
<1>8. \A i \in 1..Len(queue') : queue'[i] \in {Stop} \cup accepted
  BY <1>2, <1>3 DEF OnlyAccepted
<1>9. \A e \in accepted : e \notin done \cup evicted /\ e # Head(queue) /\ (\A v \in Workers : job[v] # e)
        => \E i \in 1..Len(queue') : queue'[i] = e
  <2> SUFFICES ASSUME NEW e \in accepted, e \notin done \cup evicted, e # Head(queue),
                      \A v \in Workers : job[v] # e
               PROVE  \E i \in 1..Len(queue') : queue'[i] = e
    OBVIOUS
  <2>1. PICK i \in 1..Len(queue) : queue[i] = e
    BY DEF NothingLost
  <2>2. i - 1 \in 1..Len(queue') /\ queue'[i - 1] = e
    BY <2>1, <1>2, <1>3
  <2> QED
    BY <2>2
<1>10. CASE Head(queue) = Stop
  <2>1. job' = [job EXCEPT ![w] = Ended] /\ unfinished' = unfinished - 1
    BY <1>10 DEF Take
  <2>2. Alive' = Alive \ {w} /\ Busy' = Busy
    BY <1>4, <1>1, <2>1 DEF Types, Alive, Busy, Taking, Ended, Events
  <2>3. Types'
    BY <1>1, <1>2, <1>3, <2>1 DEF Types, Jobs, Taking, Ended, Unborn
  <2>4. Counted'
    BY <1>2, <1>3, <2>1, <2>2, SetsAreFinite DEF Counted
  <2>5. OnlyAccepted'
    BY <1>1, <1>4, <1>8, <2>1, <2>2 DEF OnlyAccepted, Types, Busy
  <2>6. NothingLost'
    <3>1. \A e \in accepted : e # Head(queue) /\ e # Taking
      BY <1>4, <1>10 DEF Stop, Events, Taking
    <3>2. \A v \in Workers : v # w => job'[v] = job[v]
      BY <2>1 DEF Types
    <3> QED
      BY <1>1, <1>9, <3>1, <3>2 DEF NothingLost
  <2>7. Cardinality(Sentinels') <= Cardinality(Sentinels) - 1
    BY <1>1, <1>10, Shortened
  <2>8. Cardinality(Alive') = Cardinality(Alive) - 1
    BY <1>4, <2>2, SetsAreFinite, FS_RemoveElement
  <2>9. Served'
    BY <1>1, <1>5, <1>6, <1>7, <2>7, <2>8, SetsAreFinite DEF Served
  <2> QED
    BY <1>5, <2>3, <2>4, <2>5, <2>6, <2>9
<1>11. CASE Head(queue) # Stop
  <2>1. job' = [job EXCEPT ![w] = Head(queue)] /\ unfinished' = unfinished
    BY <1>11 DEF Take, TasksAfterTake
  <2>2. Head(queue) \in accepted /\ Head(queue) \in Events
    BY <1>3, <1>4, <1>11
  <2>3. Alive' = Alive /\ Busy' = Busy \cup {w}
    BY <1>1, <2>1, <2>2 DEF Types, Alive, Busy
  <2>4. Types'
    BY <1>1, <1>2, <1>3, <2>1, <2>2 DEF Types, Jobs, Taking, Unborn, Events
  <2>5. Cardinality(Busy') = Cardinality(Busy) + 1
    BY <1>4, <2>3, SetsAreFinite, FS_AddElement
  <2>6. Counted'
    BY <1>2, <1>3, <2>1, <2>5, SetsAreFinite DEF Counted
  <2>7. OnlyAccepted'
    BY <1>1, <1>8, <2>1, <2>2, <2>3 DEF OnlyAccepted, Types, Busy
  <2>8. NothingLost'
    <3>1. job'[w] = Head(queue) /\ \A v \in Workers : v # w => job'[v] = job[v]
      BY <2>1 DEF Types
    <3>2. \A e \in accepted : e # Taking
      BY <1>4 DEF Events, Taking
    <3> QED
      BY <1>1, <1>9, <3>1, <3>2 DEF NothingLost
  <2>9. Cardinality(Sentinels') <= Cardinality(Sentinels)
    BY <1>1, <1>11, Shortened
  <2>10. Served'
    BY <1>1, <1>5, <1>6, <1>7, <2>3, <2>9, SetsAreFinite DEF Served
  <2> QED
    BY <1>5, <2>4, <2>6, <2>7, <2>8, <2>10
<1> QED
  BY <1>10, <1>11

\* The event leaves its worker for the delivered ones.
LEMMA DeliverStep ==
  ASSUME IInv, NEW w \in Workers, Deliver(w)
  PROVE  IInv'
<1> USE DEF IInv
<1>1. /\ job[w] \in Events /\ job' = [job EXCEPT ![w] = Taking]
      /\ done' = done \cup {job[w]} /\ unfinished' = unfinished - 1
      /\ UNCHANGED <<running, worker, started, queue, call, published, accepted, evicted>>
  BY DEF Deliver
<1>2. w \in Busy /\ job[w] \in accepted
  BY <1>1 DEF Busy, OnlyAccepted
<1>3. Alive' = Alive /\ Busy' = Busy \ {w} /\ Sentinels' = Sentinels
  BY <1>1 DEF Types, Alive, Busy, Sentinels, Taking, Events
<1>4. Types'
  <2>1. job' \in [Workers -> Jobs] /\ \A v \in Workers : job'[v] = Unborn <=> v > started
    BY <1>1 DEF Types, Jobs, Taking, Unborn, Events
  <2>2. unfinished' \in Int
    BY <1>1 DEF Types
  <2>3. done' \subseteq accepted
    BY <1>1, <1>2 DEF Types
  <2> QED
    BY <1>1, <2>1, <2>2, <2>3 DEF Types
<1>5. CallsMatch' /\ Pending' = Pending
  BY <1>1 DEF CallsMatch, Pending
<1>6. Cardinality(Busy') = Cardinality(Busy) - 1
  BY <1>2, <1>3, SetsAreFinite, FS_RemoveElement
<1>7. Len(queue) \in Nat /\ unfinished \in Int
  BY DEF Types
<1>8. Counted'
  BY <1>1, <1>6, <1>7, SetsAreFinite DEF Counted
<1>9. OnlyAccepted'
  BY <1>1, <1>3 DEF OnlyAccepted, Types, Busy
<1>10. NothingLost'
  <2>1. \A v \in Workers : v # w => job'[v] = job[v]
    BY <1>1 DEF Types
  <2> QED
    BY <1>1, <2>1 DEF NothingLost
<1>11. Served'
  BY <1>1, <1>3, <1>5 DEF Served
<1> QED
  BY <1>4, <1>5, <1>8, <1>9, <1>10, <1>11

----------------------------------------------------------------------------
(* The theorems.                                                           *)

\* The bus begins empty and stopped.
LEMMA InitHolds ==
  ASSUME Init
  PROVE  IInv
<1>1. Types
  <2>1. running \in BOOLEAN
    BY DEF Init
  <2>2. /\ started \in 0..MaxStarts /\ worker \in 0..started
        /\ unfinished \in Int /\ published \in 0..MaxEvents
    BY DEF Init
  <2>3. queue \in Seq({Stop} \cup Events) /\ Len(queue) <= QueueSize
    BY DEF Init
  <2>4. job \in [Workers -> Jobs] /\ \A w \in Workers : job[w] = Unborn <=> w > started
    BY DEF Init, Workers, Jobs
  <2>5. call \in [Threads -> [at : Points, event : {0} \cup Events]]
    BY DEF Init, Idle, Points
  <2> QED
    BY <2>1, <2>2, <2>3, <2>4, <2>5 DEF Init, Types
<1>2. CallsMatch
  BY DEF Init, CallsMatch, Idle
<1>3. Busy = {} /\ Sentinels = {} /\ Pending = {}
  BY DEF Init, Busy, Sentinels, Pending, Idle, Unborn, Events
<1>4. Len(queue) = 0 /\ Cardinality({}) = 0 /\ IsFiniteSet({})
  BY FS_EmptySet DEF Init
<1>5. Counted /\ OnlyAccepted /\ NothingLost
  BY <1>3, <1>4 DEF Init, Counted, OnlyAccepted, NothingLost
<1>6. Served
  BY <1>1, <1>3, <1>4, SetsAreFinite DEF Init, Served
<1> QED
  BY <1>1, <1>2, <1>5, <1>6 DEF IInv

\* Every step keeps the invariant.
LEMMA StepHolds ==
  ASSUME IInv, [Next]_vars
  PROVE  IInv'
<1>1. CASE UNCHANGED vars
  BY <1>1 DEF vars, IInv, Types, CallsMatch, Counted, OnlyAccepted, NothingLost, Served,
              Pending, Busy, Alive, Sentinels
<1>2. ASSUME NEW t \in Threads, Publish(t)
      PROVE  IInv'
  BY <1>2, PublishStep
<1>3. ASSUME NEW t \in Threads, StartCall(t)
      PROVE  IInv'
  BY <1>3, StartCallStep
<1>4. ASSUME NEW t \in Threads, NEW drain \in BOOLEAN, StopFlag(t, drain)
      PROVE  IInv'
  BY <1>4, StopFlagStep
<1>5. ASSUME NEW t \in Threads, Call(t)
      PROVE  IInv'
  BY <1>5, StartForPublishStep, PutStep, DrainedStep, PutSentinelStep, EvictStep, ForgetStep DEF Call
<1>6. ASSUME NEW w \in Workers, Take(w) \/ Deliver(w)
      PROVE  IInv'
  BY <1>6, TakeStep, DeliverStep
<1> QED
  BY <1>1, <1>2, <1>3, <1>4, <1>5, <1>6 DEF Next

\* The invariant behind the theorems: every queued or promised sentinel has a worker
\* to end, and every accepted event is queued, on a worker, done or thrown out.
THEOREM Invariant == Spec => []IInv
  BY InitHolds, StepHolds, PTL DEF Spec

\* Type correctness, with the count of unfinished tasks: what queue.join() waits for
\* is what is in the queue or on a worker.
THEOREM TypeCorrect == Spec => []TypeOK
<1>1. IInv => TypeOK
  BY DEF IInv, Types, Counted, TypeOK
<1> QED
  BY <1>1, Invariant, PTL

\* A running bus always has a worker that no sentinel in its queue will end,
\* whatever stop(), start() and publish() did at once.
THEOREM AlwaysServed == Spec => []SomeoneServes
<1>1. IInv => SomeoneServes
  <2> SUFFICES ASSUME IInv, running
               PROVE  Cardinality(Alive) > Cardinality(Sentinels)
    BY DEF SomeoneServes
  <2>1. Cardinality(Pending) \in Nat
    BY FS_CardinalityType DEF IInv, Served
  <2> QED
    BY <2>1, SetsAreFinite DEF IInv, Served
<1> QED
  BY <1>1, Invariant, PTL

\* When no task is unfinished, every event that publish() accepted was delivered, or
\* thrown out by a stop(): wait_until_idle() and stop(drain=True) may rely on the count.
THEOREM IdleMeansDone == Spec => []IdleIsDone
<1>1. IInv => IdleIsDone
  <2> SUFFICES ASSUME IInv, unfinished = 0, NEW e \in accepted
               PROVE  e \in done \cup evicted
    BY DEF IdleIsDone
  <2>1. Len(queue) = 0 /\ Busy = {}
    <3>1. Len(queue) \in Nat
      BY DEF IInv, Types
    <3>2. Len(queue) = 0 /\ Cardinality(Busy) = 0
      BY <3>1, SetsAreFinite DEF IInv, Counted
    <3> QED
      BY <3>2, SetsAreFinite, FS_EmptySet DEF IInv
  <2>2. e \in Events
    BY DEF IInv, Types, Events
  <2> QED
    BY <2>1, <2>2 DEF IInv, NothingLost, Busy
<1> QED
  BY <1>1, Invariant, PTL

=============================================================================
