---------------------------- MODULE IdealBucket ----------------------------
(***************************************************************************)
(* What a token bucket promises: every key has a level that rises at the   *)
(* refill rate up to the capacity as time passes, whether or not anybody   *)
(* looks, and a request is admitted exactly when the level covers it.      *)
(* There is no map of buckets, no lazy refill and no garbage collection.   *)
(***************************************************************************)
EXTENDS Integers

CONSTANTS
  Keys,            \* rate limit keys
  Capacity,        \* tokens a full bucket holds
  RefillRate,      \* tokens per second
  TicksPerSecond,  \* resolution of the clock, 1000 in the code
  Requests,        \* numbers of tokens a call may ask for
  MaxTime          \* the clock stops here, to keep runs finite

VARIABLES now, level, answer
vars == <<now, level, answer>>

\* Levels count tokens in units of 1/TicksPerSecond, so that one tick refills
\* exactly RefillRate units.
Full == Capacity * TicksPerSecond
Cost(n) == n * TicksPerSecond
CapAt(x) == IF x > Full THEN Full ELSE x

\* No call has been answered yet, or the last one was reset(), which returns nothing.
NoAnswer == [allowed |-> TRUE, remaining |-> Capacity]

Init ==
  /\ now = 0
  /\ level = [k \in Keys |-> Full]
  /\ answer = NoAnswer

Consume(k, n) ==
  /\ level' = [level EXCEPT ![k] = IF Cost(n) <= @ THEN @ - Cost(n) ELSE @]
  /\ answer' = [allowed |-> Cost(n) <= level[k],
                remaining |-> level'[k] \div TicksPerSecond]
  /\ UNCHANGED now

Reset(k) == level' = [level EXCEPT ![k] = Full] /\ answer' = NoAnswer /\ UNCHANGED now

Tick ==
  /\ now < MaxTime
  /\ now' = now + 1
  /\ level' = [k \in Keys |-> CapAt(level[k] + RefillRate)]
  /\ UNCHANGED answer

Next ==
  \/ \E k \in Keys : (\E n \in Requests : Consume(k, n)) \/ Reset(k)
  \/ Tick

Spec == Init /\ [][Next]_vars
=============================================================================
