----------------------------- MODULE ConsoleGate -----------------------------
(***************************************************************************)
(* RateLimiter of web/console.py, for one client and one kind of request.  *)
(* A request reads the clock, takes the lock and is let in when less than  *)
(* Limit requests of the last Window seconds were; otherwise it is told    *)
(* how long to wait.  The clock is the system's, which may be set.         *)
(*                                                                         *)
(* Time is in half seconds, so that rounding to seconds shows.             *)
(***************************************************************************)
EXTENDS Integers, Sequences, FiniteSetsExt

CONSTANTS
  Workers,   \* threads of the server
  Limit,     \* RATE_LIMIT_WRITE or RATE_LIMIT_DEFAULT
  Window,    \* RATE_LIMIT_WINDOW_SECONDS
  MaxTime,   \* bound
  Jumps,     \* by how much the clock may be set
  MaxJumps   \* bound

ASSUME GateAssumption ==
  /\ Limit \in Nat \ {0} /\ Window \in Nat \ {0}
  /\ Jumps \subseteq Int /\ MaxTime \in Nat /\ MaxJumps \in Nat

VARIABLES
  time,     \* what time.time() returns
  bucket,   \* the readings of the requests that were let in
  reading,  \* [Workers -> what the request has read, none]
  jumps,
  told,     \* history: a refusal, {} when the bucket or the clock was changed since
  entries   \* history: the last requests let in, and whether a later one had overtaken them

gateVars == <<time, bucket, reading, jumps, told, entries>>

Half(s) == 2 * s

GateInit ==
  /\ time = 0
  /\ bucket = <<>>
  /\ reading = [w \in Workers |-> {}]
  /\ jumps = 0
  /\ told = {}
  /\ entries = <<>>

\* do_POST(): after the client was known and the size allowed.
RequireRateLimit(w) ==
  /\ reading[w] = {}
  /\ reading' = [reading EXCEPT ![w] = {time}]
  /\ UNCHANGED <<time, bucket, jumps, told, entries>>

\* The readings at the head that are older than the window are dropped.
Recent(now) ==
  LET young == {i \in DOMAIN bucket : bucket[i] >= now - Half(Window)} IN
  IF young = {} THEN <<>> ELSE SubSeq(bucket, Min(young), Len(bucket))

\* Mutant: one request too many.
OverLimit(b) == Len(b) > Limit
Full(b) == Len(b) >= Limit

\* Mutant: how long the oldest has been there, instead of what is left of it.
RetrySince(b, now) == Max({1, (now - b[1]) \div 2})

\* max(1, int(...)), in seconds
RetryAfter(b, now) == Max({1, (b[1] + Half(Window) - now) \div 2})

Overtaken(now) == \E i \in DOMAIN bucket : bucket[i] > now
LastOf(s) == IF Len(s) > Limit + 1 THEN Tail(s) ELSE s

Allow(w) ==
  /\ \E now \in reading[w] :
       LET b == Recent(now) IN
       IF Full(b)
         THEN /\ bucket' = b
              /\ told' \in {told, {[since |-> now, wait |-> RetryAfter(b, now)]}}
              /\ UNCHANGED entries
         ELSE /\ bucket' = Append(b, now)
              /\ told' = {}
              /\ entries' = LastOf(Append(entries, [at |-> now, late |-> Overtaken(now)]))
  /\ reading' = [reading EXCEPT ![w] = {}]
  /\ UNCHANGED <<time, jumps>>

Later ==
  /\ time < MaxTime
  /\ time' = time + 1
  /\ UNCHANGED <<bucket, reading, jumps, told, entries>>

ClockSet ==
  /\ jumps < MaxJumps
  /\ jumps' = jumps + 1
  /\ \E j \in Jumps : time' = time + j
  /\ told' = {}
  /\ entries' = <<>>
  /\ UNCHANGED <<bucket, reading>>

GateNext ==
  \/ \E w \in Workers : RequireRateLimit(w) \/ Allow(w)
  \/ Later
  \/ ClockSet

GateSpec == GateInit /\ [][GateNext]_gateVars
-----------------------------------------------------------------------------
(* Properties                                                              *)

(* However the threads of the server take turns, no window holds more      *)
(* requests than the limit, by the time that each has read; a request that *)
(* was overtaken between its reading and the lock is not counted, as the   *)
(* one that overtook it has dropped more than it would have.               *)
WindowHolds ==
  Len(entries) = Limit + 1 /\ (\A i \in DOMAIN entries : ~entries[i].late)
    => entries[Limit + 1].at - entries[1].at > Half(Window)

(* A client that was told to wait, waits one second longer than that, and  *)
(* has had no other request let in, is let in.  (The second is needed: the *)
(* time to wait is rounded down, and a request exactly Window old counts.) *)
WaitIsEnough ==
  [][\A w \in Workers : \A r \in told, now \in reading[w] :
       reading'[w] = {} /\ now >= r.since + Half(r.wait + 1)
         => bucket' # <<>> /\ bucket'[Len(bucket')] = now]_gateVars
=============================================================================
