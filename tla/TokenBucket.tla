---------------------------- MODULE TokenBucket ----------------------------
(***************************************************************************)
(* TokenBucketLimiter of ratelimit/strategies.ts: a map of buckets made on *)
(* first use, refilled when they are next asked, and deleted by a periodic *)
(* cleanup once they have been idle for twice the time a refill takes.     *)
(*                                                                         *)
(* Time is a clock of milliseconds (ticks) that does not run backwards;    *)
(* arithmetic is exact: tokens are counted in units of 1/TicksPerSecond.   *)
(***************************************************************************)
EXTENDS Integers

CONSTANTS Keys, Capacity, RefillRate, TicksPerSecond, Requests, MaxTime

ASSUME BucketAssumption ==
  /\ Capacity \in Nat \ {0} /\ RefillRate \in Nat \ {0}
  /\ TicksPerSecond \in Nat \ {0}
  /\ Requests \subseteq Nat \ {0} /\ MaxTime \in Nat

VARIABLES
  now,      \* Date.now()
  buckets,  \* TokenBucketLimiter.buckets
  answer,   \* the last RateLimitResult returned
  since, spent,  \* history: tokens admitted to a key since some moment
  promise   \* history: what a key was told by retryAfterMs, until it is moot

vars == <<now, buckets, answer, since, spent, promise>>

Full == Capacity * TicksPerSecond
Cost(n) == n * TicksPerSecond
CapAt(x) == IF x > Full THEN Full ELSE x
CeilDiv(a, b) == (a + b - 1) \div b

NewBucket == [tokens |-> Full, lastRefill |-> now, lastAccess |-> now]

\* getOrCreateBucket
BucketOf(k) == IF k \in DOMAIN buckets THEN buckets[k] ELSE NewBucket

\* Mutant: the bucket is refilled without the cap.
Refilled_Uncapped(b) == b.tokens + (now - b.lastRefill) * RefillRate

\* refill: what the bucket holds now
Refilled(b) == CapAt(b.tokens + (now - b.lastRefill) * RefillRate)

NoPromise == [tokens |-> 0, at |-> 0]

\* No call has been answered yet, or the last one was reset(), which returns nothing.
NoAnswer == [allowed |-> TRUE, remaining |-> Capacity]

Init ==
  /\ now = 0
  /\ buckets = [k \in {} |-> NewBucket]
  /\ answer = NoAnswer
  /\ since = [k \in Keys |-> 0] /\ spent = [k \in Keys |-> 0]
  /\ promise = [k \in Keys |-> NoPromise]

Stored(k, b) == [x \in DOMAIN buckets \cup {k} |-> IF x = k THEN b ELSE buckets[x]]

\* TokenBucket.consume when the refilled bucket covers the request
Admit(k, n) ==
  LET have == Refilled(BucketOf(k))
  IN  /\ have >= Cost(n)
      /\ buckets' = Stored(k, [tokens |-> have - Cost(n), lastRefill |-> now,
                               lastAccess |-> now])
      /\ answer' = [allowed |-> TRUE,
                    remaining |-> (have - Cost(n)) \div TicksPerSecond]
      /\ spent' = [spent EXCEPT ![k] = @ + Cost(n)]
      /\ promise' = [promise EXCEPT ![k] = NoPromise]
      /\ UNCHANGED <<now, since>>

\* Mutant: rounded down.
RetryAfter_Floor(deficit) == deficit \div RefillRate

\* The milliseconds until the deficit is refilled, rounded up.
RetryAfter(deficit) == CeilDiv(deficit, RefillRate)

\* Mutant: the clock of the bucket moves on without the tokens it earned.
Deny_LosesRefill(k, n) ==
  LET have == Refilled(BucketOf(k))
  IN  /\ have < Cost(n)
      /\ buckets' = Stored(k, [tokens |-> BucketOf(k).tokens, lastRefill |-> now,
                               lastAccess |-> now])
      /\ answer' = [allowed |-> FALSE, remaining |-> have \div TicksPerSecond]
      /\ UNCHANGED <<now, since, spent, promise>>

\* ... and when it does not; the refill is stored all the same.
Deny(k, n) ==
  LET have == Refilled(BucketOf(k))
  IN  /\ have < Cost(n)
      /\ buckets' = Stored(k, [tokens |-> have, lastRefill |-> now, lastAccess |-> now])
      /\ answer' = [allowed |-> FALSE, remaining |-> have \div TicksPerSecond]
      /\ promise' = [promise EXCEPT ![k] =
                       [tokens |-> n, at |-> now + RetryAfter(Cost(n) - have)]]
      /\ UNCHANGED <<now, since, spent>>

\* reset(key)
Reset(k) ==
  /\ buckets' = [x \in DOMAIN buckets \ {k} |-> buckets[x]]
  /\ since' = [since EXCEPT ![k] = now] /\ spent' = [spent EXCEPT ![k] = 0]
  /\ promise' = [promise EXCEPT ![k] = NoPromise]
  /\ answer' = NoAnswer
  /\ UNCHANGED now

\* Mutant: idle for longer than half the time a refill takes.
Stale_TooSoon(k) == 2 * (now - buckets[k].lastAccess) * RefillRate > Full

\* Idle for longer than (capacity / refillRate) * 1000 * 2
Stale(k) == (now - buckets[k].lastAccess) * RefillRate > 2 * Full

\* cleanupStale; the interval's phase relative to the requests is arbitrary.
Cleanup ==
  /\ buckets' = [k \in {x \in DOMAIN buckets : ~Stale(x)} |-> buckets[k]]
  /\ UNCHANGED <<now, answer, since, spent, promise>>

Tick ==
  /\ now < MaxTime
  /\ now' = now + 1
  /\ UNCHANGED <<buckets, answer, since, spent, promise>>

\* History only: the window the admitted tokens are counted over starts anew.
StartWindow(k) ==
  /\ since[k] # now
  /\ since' = [since EXCEPT ![k] = now] /\ spent' = [spent EXCEPT ![k] = 0]
  /\ UNCHANGED <<now, buckets, answer, promise>>

Next ==
  \/ \E k \in Keys : \E n \in Requests : Admit(k, n) \/ Deny(k, n)
  \/ \E k \in Keys : Reset(k)
  \/ \E k \in Keys : StartWindow(k)
  \/ Cleanup
  \/ Tick

Spec == Init /\ [][Next]_vars

-----------------------------------------------------------------------------
Buckets == [tokens : 0..Full, lastRefill : 0..now, lastAccess : 0..now]

\* Types: no bucket holds more than its capacity, no stamp lies in the future and
\* remaining is between none and the capacity.
TypeOK ==
  /\ now \in 0..MaxTime
  /\ DOMAIN buckets \in SUBSET Keys
  /\ buckets \in [DOMAIN buckets -> Buckets]
  /\ answer \in [allowed : BOOLEAN, remaining : 0..Capacity]
  /\ since \in [Keys -> 0..now] /\ spent \in [Keys -> Nat]
  /\ promise \in [Keys -> [tokens : Nat, at : Nat]]

\* Both time stamps of a bucket are written by the same call, which is taken to
\* read one time: a later lastAccess would only keep an idle bucket longer.
StampsAgree == \A k \in DOMAIN buckets : buckets[k].lastAccess = buckets[k].lastRefill

\* What a key may still spend at once, whether or not it has a bucket.
Level(k) == Refilled(BucketOf(k))

\* Over every window of time, however it is chosen, a key is admitted at most a
\* full bucket and what is refilled meanwhile; deleting idle buckets, whose
\* keys start again with a full one, never adds to that.
BurstBound ==
  \A k \in Keys : spent[k] <= Full + (now - since[k]) * RefillRate

\* The inductive form of BurstBound: what was spent and what is left together
\* never exceed a full bucket and the refill.
LevelBound ==
  \A k \in Keys : spent[k] + Level(k) <= Full + (now - since[k]) * RefillRate

\* A client that waits for retryAfterMs is not sent away again: while the key
\* admits nothing else, at the promised time the bucket covers the request.
\* The exception is a request for more than the capacity: it is answered a finite
\* time as well, and no bucket ever covers it.  (The gateway asks for one token.)
RetryHonoured ==
  \A k \in Keys :
    promise[k].tokens <= Capacity /\ now >= promise[k].at
      => Level(k) >= Cost(promise[k].tokens)

\* Its inductive form: what the bucket holds and what is refilled until the
\* promised time cover the request.
UntilPromise(k) == IF now < promise[k].at THEN promise[k].at - now ELSE 0
RetryInv ==
  \A k \in Keys :
    promise[k].tokens <= Capacity
      => Level(k) + UntilPromise(k) * RefillRate >= Cost(promise[k].tokens)

\* Lazy refill, creation on first use and cleanup are invisible: the limiter
\* implements the ideal bucket, in which no bucket is ever made or deleted.
Ideal == INSTANCE IdealBucket WITH level <- [k \in Keys |-> Level(k)]
ImplementsIdealBucket == Ideal!Spec

\* All that the gateway relies on of this limiter: a request is refused only if
\* too much of the capacity is used up, whole tokens at a time; a refusal, the
\* making of a bucket and its cleanup use up nothing and give nothing back.
Used(k) == Capacity - Level(k) \div TicksPerSecond
Limiter == INSTANCE Allowance WITH
             Amounts <- Requests, Capacity <- [k \in Keys |-> Capacity],
             used <- [k \in Keys |-> Used(k)], allowed <- answer.allowed
ImplementsAllowance == Limiter!Spec
=============================================================================
