------------------------- MODULE TokenBucketProofs -------------------------
(***************************************************************************)
(* Proofs about TokenBucket, for every set of keys, capacity, refill rate, *)
(* clock resolution and set of request sizes.                              *)
(***************************************************************************)
EXTENDS TokenBucket, TLAPS

LEMMA Units ==
  /\ Full \in Nat \ {0}
  /\ \A n \in Requests : Cost(n) \in Nat \ {0}
  BY BucketAssumption DEF Full, Cost

\* What a bucket gains over a span of time is a natural number ...
LEMMA Gain ==
  ASSUME NEW d \in Nat
  PROVE  d * RefillRate \in Nat
  BY BucketAssumption

\* ... and refilling is additive, with or without the cap in between.
LEMMA GainSum ==
  ASSUME NEW d \in Nat
  PROVE  (d + 1) * RefillRate = d * RefillRate + RefillRate
  BY BucketAssumption

LEMMA CapTwice ==
  ASSUME NEW t \in Nat, NEW a \in Nat, NEW b \in Nat
  PROVE  CapAt(CapAt(t + a) + b) = CapAt(t + (a + b))
  BY Units DEF CapAt

LEMMA LevelType ==
  ASSUME TypeOK, NEW k \in Keys
  PROVE  Level(k) \in 0..Full
<1>1. CASE k \in DOMAIN buckets
  <2>1. buckets[k].tokens \in 0..Full /\ now - buckets[k].lastRefill \in Nat
    BY <1>1 DEF TypeOK, Buckets
  <2>2. (now - buckets[k].lastRefill) * RefillRate \in Nat
    BY <2>1, Gain
  <2> QED
    BY <1>1, <2>1, <2>2, Units DEF Level, BucketOf, Refilled, CapAt
<1>2. CASE k \notin DOMAIN buckets
  <2>1. now - now = 0
    BY DEF TypeOK
  <2> QED
    BY <1>2, <2>1, Units, BucketAssumption DEF Level, BucketOf, NewBucket, Refilled, CapAt
<1> QED BY <1>1, <1>2

\* The bucket a call leaves behind holds what the call computed, at that instant.
LEMMA StoredLevel ==
  ASSUME TypeOK, NEW k \in Keys, NEW t \in 0..Full, now' = now,
         buckets' = Stored(k, [tokens |-> t, lastRefill |-> now, lastAccess |-> now])
  PROVE  /\ Level(k)' = t
         /\ \A x \in Keys \ {k} : Level(x)' = Level(x)
<1>1. now - now = 0 /\ 0 * RefillRate = 0
  BY BucketAssumption DEF TypeOK
<1>2. k \in DOMAIN buckets' /\ buckets'[k].tokens = t /\ buckets'[k].lastRefill = now
  BY DEF Stored
<1>3. Level(k)' = CapAt(t + (now - now) * RefillRate)
  BY <1>2 DEF Level, BucketOf, Refilled, CapAt, Full
<1>4. CapAt(t) = t
  BY Units DEF CapAt
<1>5. ASSUME NEW x \in Keys \ {k} PROVE Level(x)' = Level(x)
  <2>1. x \in DOMAIN buckets' <=> x \in DOMAIN buckets
    BY DEF Stored
  <2>2. x \in DOMAIN buckets => buckets'[x] = buckets[x]
    BY DEF Stored
  <2> QED
    BY <2>1, <2>2 DEF Level, BucketOf, NewBucket, Refilled, CapAt, Full
<1> QED
  BY <1>1, <1>3, <1>4, <1>5

LEMMA StoredType ==
  ASSUME TypeOK, StampsAgree, NEW k \in Keys, NEW t \in 0..Full, now' = now,
         buckets' = Stored(k, [tokens |-> t, lastRefill |-> now, lastAccess |-> now])
  PROVE  /\ DOMAIN buckets' \in SUBSET Keys
         /\ buckets' \in [DOMAIN buckets' -> Buckets']
         /\ StampsAgree'
<1>1. now \in 0..now
  BY DEF TypeOK
<1>2. [tokens |-> t, lastRefill |-> now, lastAccess |-> now] \in Buckets
  BY <1>1 DEF Buckets
<1>3. Buckets' = Buckets
  BY DEF Buckets, Full
<1> QED
  BY <1>2, <1>3 DEF TypeOK, StampsAgree, Stored

LEMMA AdmitLevel ==
  ASSUME TypeOK, StampsAgree, NEW k \in Keys, NEW n \in Requests, Admit(k, n)
  PROVE  /\ Cost(n) <= Level(k) /\ Level(k)' = Level(k) - Cost(n)
         /\ \A x \in Keys \ {k} : Level(x)' = Level(x)
         /\ DOMAIN buckets' \in SUBSET Keys
         /\ buckets' \in [DOMAIN buckets' -> Buckets']
         /\ StampsAgree'
<1>1. Level(k) \in 0..Full /\ Cost(n) \in Nat /\ Cost(n) <= Level(k)
  BY LevelType, Units DEF Admit, Level
<1>2. Level(k) - Cost(n) \in 0..Full
  BY <1>1, Units
<1>3. /\ now' = now
      /\ buckets' = Stored(k, [tokens |-> Level(k) - Cost(n), lastRefill |-> now,
                               lastAccess |-> now])
  BY DEF Admit, Level
<1> QED
  BY <1>1, <1>2, <1>3, StoredLevel, StoredType

LEMMA DenyLevel ==
  ASSUME TypeOK, StampsAgree, NEW k \in Keys, NEW n \in Requests, Deny(k, n)
  PROVE  /\ Cost(n) > Level(k)
         /\ \A x \in Keys : Level(x)' = Level(x)
         /\ DOMAIN buckets' \in SUBSET Keys
         /\ buckets' \in [DOMAIN buckets' -> Buckets']
         /\ StampsAgree'
<1>1. Level(k) \in 0..Full /\ Cost(n) \in Nat
  BY LevelType, Units
<1>2. /\ now' = now /\ Level(k) < Cost(n)
      /\ buckets' = Stored(k, [tokens |-> Level(k), lastRefill |-> now,
                               lastAccess |-> now])
  BY DEF Deny, Level
<1> QED
  BY <1>1, <1>2, StoredLevel, StoredType

LEMMA ResetLevel ==
  ASSUME TypeOK, StampsAgree, NEW k \in Keys, Reset(k)
  PROVE  /\ Level(k)' = Full
         /\ \A x \in Keys \ {k} : Level(x)' = Level(x)
<1>1. now' = now /\ DOMAIN buckets' = DOMAIN buckets \ {k}
  BY DEF Reset
<1>2. now - now = 0 /\ 0 * RefillRate = 0
  BY BucketAssumption DEF TypeOK
<1>3. Level(k)' = CapAt(Full + (now - now) * RefillRate)
  BY <1>1 DEF Level, BucketOf, NewBucket, Refilled, CapAt, Full
<1>4. CapAt(Full) = Full
  BY DEF CapAt
<1>5. ASSUME NEW x \in Keys \ {k} PROVE Level(x)' = Level(x)
  <2>1. x \in DOMAIN buckets => buckets'[x] = buckets[x]
    BY DEF Reset
  <2> QED
    BY <1>1, <2>1 DEF Level, BucketOf, NewBucket, Refilled, CapAt, Full
<1> QED
  BY <1>2, <1>3, <1>4, <1>5, Units

\* An idle bucket that cleanup deletes was full again long before.
LEMMA StaleIsFull ==
  ASSUME TypeOK, StampsAgree, NEW k \in DOMAIN buckets, Stale(k)
  PROVE  Level(k) = Full
<1>1. buckets[k].tokens \in 0..Full /\ now - buckets[k].lastRefill \in Nat
  BY DEF TypeOK, Buckets
<1>2. (now - buckets[k].lastRefill) * RefillRate > 2 * Full
  BY DEF Stale, StampsAgree
<1>3. (now - buckets[k].lastRefill) * RefillRate \in Nat
  BY <1>1, Gain
<1> QED
  BY <1>1, <1>2, <1>3, Units DEF Level, BucketOf, Refilled, CapAt

LEMMA CleanupLevel ==
  ASSUME TypeOK, StampsAgree, Cleanup
  PROVE  \A k \in Keys : Level(k)' = Level(k)
<1> TAKE k \in Keys
<1>1. now' = now /\ DOMAIN buckets' = {x \in DOMAIN buckets : ~Stale(x)}
  BY DEF Cleanup
<1>2. CASE k \in DOMAIN buckets /\ Stale(k)
  <2>1. Level(k)' = CapAt(Full + (now - now) * RefillRate)
    BY <1>1, <1>2 DEF Level, BucketOf, NewBucket, Refilled, CapAt, Full
  <2>2. now - now = 0 /\ 0 * RefillRate = 0
    BY BucketAssumption DEF TypeOK
  <2>3. CapAt(Full) = Full
    BY DEF CapAt
  <2> QED
    BY <1>2, <2>1, <2>2, <2>3, StaleIsFull, Units
<1>3. CASE ~(k \in DOMAIN buckets /\ Stale(k))
  <2>1. k \in DOMAIN buckets => buckets'[k] = buckets[k]
    BY <1>3 DEF Cleanup
  <2> QED
    BY <1>1, <1>3, <2>1 DEF Level, BucketOf, NewBucket, Refilled, CapAt, Full
<1> QED BY <1>2, <1>3

\* One tick later every key, asked or not, holds one tick's refill more.
LEMMA TickLevel ==
  ASSUME TypeOK, StampsAgree, Tick
  PROVE  \A k \in Keys : Level(k)' = CapAt(Level(k) + RefillRate)
<1> TAKE k \in Keys
<1>1. now' = now + 1 /\ buckets' = buckets
  BY DEF Tick
<1>2. CASE k \in DOMAIN buckets
  <2> DEFINE t == buckets[k].tokens
             d == now - buckets[k].lastRefill
  <2>1. t \in 0..Full /\ d \in Nat /\ now' - buckets[k].lastRefill = d + 1
    <3>1. now \in Nat /\ buckets[k] \in Buckets
      BY <1>2 DEF TypeOK
    <3> QED
      BY <1>1, <3>1 DEF Buckets
  <2>2. d * RefillRate \in Nat /\ (d + 1) * RefillRate = d * RefillRate + RefillRate
    BY <2>1, Gain, GainSum
  <2>3. Level(k)' = CapAt(t + (d + 1) * RefillRate)
    BY <1>1, <1>2, <2>1 DEF Level, BucketOf, Refilled, CapAt, Full
  <2>4. Level(k) = CapAt(t + d * RefillRate)
    BY <1>2 DEF Level, BucketOf, Refilled
  <2>5. t \in Nat /\ RefillRate \in Nat
    BY <2>1, Units, BucketAssumption
  <2> HIDE DEF t, d
  <2> QED
    BY <2>2, <2>3, <2>4, <2>5, CapTwice
<1>3. CASE k \notin DOMAIN buckets
  <2>1. now - now = 0 /\ now' - now' = 0 /\ 0 * RefillRate = 0
    BY <1>1, BucketAssumption DEF TypeOK
  <2>2. Level(k) = CapAt(Full + (now - now) * RefillRate)
    BY <1>3 DEF Level, BucketOf, NewBucket, Refilled
  <2>3. Level(k)' = CapAt(Full + (now' - now') * RefillRate)
    BY <1>1, <1>3 DEF Level, BucketOf, NewBucket, Refilled, CapAt, Full
  <2>4. CapAt(Full) = Full /\ CapAt(Full + RefillRate) = Full
    BY Units, BucketAssumption DEF CapAt
  <2> QED
    BY <2>1, <2>2, <2>3, <2>4, Units
<1> QED BY <1>2, <1>3

-----------------------------------------------------------------------------
(* Types.                                                                   *)

LEMMA TypeInit == Init => TypeOK /\ StampsAgree
  BY BucketAssumption DEF Init, TypeOK, StampsAgree, Buckets, NoPromise, NoAnswer

LEMMA RemainingType ==
  ASSUME NEW x \in 0..Full
  PROVE  x \div TicksPerSecond \in 0..Capacity
  BY BucketAssumption DEF Full

LEMMA RetryAfterType ==
  ASSUME NEW d \in Nat \ {0}
  PROVE  /\ RetryAfter(d) \in Nat
         /\ RetryAfter(d) * RefillRate >= d
  BY BucketAssumption DEF RetryAfter, CeilDiv

LEMMA TypeStep == TypeOK /\ StampsAgree /\ [Next]_vars => TypeOK' /\ StampsAgree'
<1> SUFFICES ASSUME TypeOK, StampsAgree, [Next]_vars PROVE TypeOK' /\ StampsAgree'
  OBVIOUS
<1>1. ASSUME NEW k \in Keys, NEW n \in Requests, Admit(k, n)
      PROVE  TypeOK' /\ StampsAgree'
  <2>1. Level(k) \in 0..Full /\ Cost(n) \in Nat /\ Level(k) - Cost(n) \in 0..Full
    BY <1>1, AdmitLevel, LevelType, Units
  <2>2. answer' \in [allowed : BOOLEAN, remaining : 0..Capacity]
    BY <1>1, <2>1, RemainingType DEF Admit, Level
  <2>3. spent' \in [Keys -> Nat] /\ UNCHANGED <<now, since>>
    BY <1>1, <2>1 DEF TypeOK, Admit
  <2>4. promise' \in [Keys -> [tokens : Nat, at : Nat]]
    BY <1>1, BucketAssumption DEF TypeOK, Admit, NoPromise
  <2> QED
    BY <1>1, <2>2, <2>3, <2>4, AdmitLevel DEF TypeOK
<1>2. ASSUME NEW k \in Keys, NEW n \in Requests, Deny(k, n)
      PROVE  TypeOK' /\ StampsAgree'
  <2>1. Level(k) \in 0..Full /\ Cost(n) - Level(k) \in Nat \ {0}
    BY <1>2, DenyLevel, LevelType, Units
  <2>2. answer' \in [allowed : BOOLEAN, remaining : 0..Capacity]
    BY <1>2, <2>1, RemainingType DEF Deny, Level
  <2>3. UNCHANGED <<now, since, spent>>
    BY <1>2 DEF Deny
  <2>4. [tokens |-> n, at |-> now + RetryAfter(Cost(n) - Level(k))]
          \in [tokens : Nat, at : Nat]
    BY <2>1, RetryAfterType, BucketAssumption DEF TypeOK
  <2>5. promise' \in [Keys -> [tokens : Nat, at : Nat]]
    BY <1>2, <2>4, BucketAssumption DEF TypeOK, Deny, Level
  <2> QED
    BY <1>2, <2>2, <2>3, <2>5, DenyLevel DEF TypeOK
<1>3. ASSUME NEW k \in Keys, Reset(k) PROVE TypeOK' /\ StampsAgree'
  <2>1. now \in 0..now
    BY DEF TypeOK
  <2> QED
    BY <1>3, <2>1, BucketAssumption DEF TypeOK, StampsAgree, Reset, Buckets, NoPromise, NoAnswer, Full
<1>4. ASSUME NEW k \in Keys, StartWindow(k) PROVE TypeOK' /\ StampsAgree'
  <2>1. now \in 0..now
    BY DEF TypeOK
  <2> QED
    BY <1>4, <2>1 DEF TypeOK, StampsAgree, StartWindow, Buckets, Full
<1>5. CASE Cleanup
  BY <1>5 DEF TypeOK, StampsAgree, Cleanup, Buckets, Full
<1>6. CASE Tick
  <2>1. now' \in 0..MaxTime /\ 0..now \subseteq 0..now'
    BY <1>6, BucketAssumption DEF TypeOK, Tick
  <2>2. Buckets \subseteq Buckets'
    BY <2>1 DEF Buckets, Full
  <2> QED
    BY <1>6, <2>1, <2>2 DEF TypeOK, StampsAgree, Tick
<1>7. CASE UNCHANGED vars
  BY <1>7 DEF TypeOK, StampsAgree, vars, Buckets, Full
<1> QED
  BY <1>1, <1>2, <1>3, <1>4, <1>5, <1>6, <1>7 DEF Next

\* Every bucket holds between nothing and its capacity, whatever is asked of it
\* and however long it is left alone.
THEOREM BucketsTyped == Spec => [](TypeOK /\ StampsAgree)
  BY TypeInit, TypeStep, PTL DEF Spec

-----------------------------------------------------------------------------
(* Bursts.                                                                  *)

LEMMA BoundInit == Init => LevelBound
<1> SUFFICES ASSUME Init PROVE LevelBound
  OBVIOUS
<1>1. ASSUME NEW k \in Keys
      PROVE  spent[k] + Level(k) <= Full + (now - since[k]) * RefillRate
  <2>1. spent[k] = 0 /\ now - since[k] = 0 /\ 0 * RefillRate = 0
    BY BucketAssumption DEF Init
  <2>2. Level(k) \in 0..Full
    BY TypeInit, LevelType
  <2> QED
    BY <2>1, <2>2, Units
<1> QED
  BY <1>1 DEF LevelBound

LEMMA BoundStep == TypeOK /\ StampsAgree /\ LevelBound /\ [Next]_vars => LevelBound'
<1> SUFFICES ASSUME TypeOK, StampsAgree, LevelBound, [Next]_vars,
                    NEW x \in Keys
             PROVE  spent'[x] + Level(x)' <= Full + (now' - since'[x]) * RefillRate
  BY DEF LevelBound, Full
<1> DEFINE gained == (now - since[x]) * RefillRate
<1>0. /\ spent[x] + Level(x) <= Full + gained
      /\ spent[x] \in Nat /\ Level(x) \in 0..Full /\ Full \in Nat
      /\ now \in Nat /\ since[x] \in 0..now /\ now - since[x] \in Nat
      /\ gained \in Nat
  <2>1. now \in Nat /\ since[x] \in 0..now /\ spent[x] \in Nat
    BY DEF TypeOK
  <2>2. now - since[x] \in Nat
    BY <2>1
  <2> QED
    BY <2>1, <2>2, Gain, LevelType, Units DEF LevelBound
<1>z. 0 * RefillRate = 0
  BY BucketAssumption
\* A window that starts now has admitted nothing yet.
<1>fresh. ASSUME spent'[x] = 0, now' = now, since'[x] = now, Level(x)' \in 0..Full
          PROVE  spent'[x] + Level(x)' <= Full + (now' - since'[x]) * RefillRate
  <2>1. now' - since'[x] = 0
    BY <1>0, <1>fresh
  <2> QED
    BY <1>0, <1>z, <1>fresh, <2>1
<1>same. ASSUME spent'[x] = spent[x], now' = now, since'[x] = since[x],
                Level(x)' = Level(x)
         PROVE  spent'[x] + Level(x)' <= Full + (now' - since'[x]) * RefillRate
  BY <1>0, <1>same
<1>1. ASSUME NEW k \in Keys, NEW n \in Requests, Admit(k, n)
      PROVE  spent'[x] + Level(x)' <= Full + (now' - since'[x]) * RefillRate
  <2>1. now' = now /\ since' = since /\ spent' = [spent EXCEPT ![k] = @ + Cost(n)]
    BY <1>1 DEF Admit
  <2>2. Cost(n) \in Nat
    BY Units
  <2>3. CASE x = k
    <3>1. spent'[x] = spent[x] + Cost(n) /\ Level(x)' = Level(x) - Cost(n)
      BY <1>1, <2>1, <2>3, AdmitLevel DEF TypeOK
    <3> QED
      BY <1>0, <2>1, <2>2, <3>1
  <2>4. CASE x # k
    <3>1. spent'[x] = spent[x] /\ Level(x)' = Level(x)
      BY <1>1, <2>1, <2>4, AdmitLevel DEF TypeOK
    <3> QED
      BY <2>1, <3>1, <1>same
  <2> QED BY <2>3, <2>4
<1>2. ASSUME NEW k \in Keys, NEW n \in Requests, Deny(k, n)
      PROVE  spent'[x] + Level(x)' <= Full + (now' - since'[x]) * RefillRate
  BY <1>2, <1>same, DenyLevel DEF Deny
<1>3. ASSUME NEW k \in Keys, Reset(k)
      PROVE  spent'[x] + Level(x)' <= Full + (now' - since'[x]) * RefillRate
  <2>1. CASE x = k
    <3>1. spent'[x] = 0 /\ now' = now /\ since'[x] = now
      BY <1>3, <2>1 DEF TypeOK, Reset
    <3>2. Level(x)' \in 0..Full
      BY <1>0, <1>3, <2>1, ResetLevel
    <3> QED
      BY <3>1, <3>2, <1>fresh
  <2>2. CASE x # k
    BY <1>3, <2>2, <1>same, ResetLevel DEF TypeOK, Reset
  <2> QED BY <2>1, <2>2
<1>4. ASSUME NEW k \in Keys, StartWindow(k)
      PROVE  spent'[x] + Level(x)' <= Full + (now' - since'[x]) * RefillRate
  <2>1. Level(x)' = Level(x)
    BY <1>4 DEF StartWindow, Level, BucketOf, NewBucket, Refilled, CapAt, Full
  <2>2. CASE x = k
    BY <1>4, <2>1, <2>2, <1>0, <1>fresh DEF TypeOK, StartWindow
  <2>3. CASE x # k
    BY <1>4, <2>1, <2>3, <1>same DEF TypeOK, StartWindow
  <2> QED BY <2>2, <2>3
<1>5. CASE Cleanup
  BY <1>5, <1>same, CleanupLevel DEF Cleanup
<1>6. CASE Tick
  <2>1. now' = now + 1 /\ spent' = spent /\ since' = since
    BY <1>6 DEF Tick
  <2>2. (now' - since'[x]) * RefillRate = gained + RefillRate
    <3>1. now' - since'[x] = (now - since[x]) + 1
      BY <1>0, <2>1
    <3> QED
      BY <1>0, <3>1, GainSum
  <2>3. Level(x)' <= Level(x) + RefillRate /\ Level(x)' \in Int
    <3>1. Level(x)' = CapAt(Level(x) + RefillRate)
      BY <1>6, TickLevel
    <3> QED
      BY <3>1, <1>0, BucketAssumption DEF CapAt
  <2>4. RefillRate \in Nat
    BY BucketAssumption
  <2> QED
    BY <1>0, <2>1, <2>2, <2>3, <2>4
<1>7. CASE UNCHANGED vars
  <2>1. Level(x)' = Level(x)
    BY <1>7 DEF vars, Level, BucketOf, NewBucket, Refilled, CapAt, Full
  <2> QED
    BY <1>7, <2>1, <1>same DEF vars
<1> QED
  BY <1>1, <1>2, <1>3, <1>4, <1>5, <1>6, <1>7 DEF Next

LEMMA BoundSuffices == TypeOK /\ LevelBound => BurstBound
<1> SUFFICES ASSUME TypeOK, LevelBound, NEW k \in Keys
             PROVE  spent[k] <= Full + (now - since[k]) * RefillRate
  BY DEF BurstBound
<1>1. spent[k] \in Nat /\ Level(k) \in 0..Full /\ now - since[k] \in Nat
  <2>1. now \in Nat /\ since[k] \in 0..now /\ spent[k] \in Nat
    BY DEF TypeOK
  <2> QED
    BY <2>1, LevelType
<1>2. (now - since[k]) * RefillRate \in Nat
  BY <1>1, Gain
<1>3. spent[k] + Level(k) <= Full + (now - since[k]) * RefillRate
  BY DEF LevelBound
<1> QED
  BY <1>1, <1>2, <1>3, Units

\* Over every window of time a key is admitted at most one full bucket and the
\* refill of that time, across denials, resets, idle times and cleanups.
THEOREM BurstsBounded == Spec => []BurstBound
  BY TypeInit, TypeStep, BoundInit, BoundStep, BoundSuffices, PTL DEF Spec

-----------------------------------------------------------------------------
(* The limiter implements the ideal bucket.                                 *)

LevelMap == [k \in Keys |-> Level(k)]

LEMMA IdealInit == Init => Ideal!Init
<1> SUFFICES ASSUME Init PROVE Ideal!Init
  OBVIOUS
<1>1. ASSUME NEW k \in Keys PROVE Level(k) = Full
  <2>1. now - now = 0 /\ 0 * RefillRate = 0
    BY BucketAssumption DEF Init
  <2>2. Level(k) = CapAt(Full + (now - now) * RefillRate)
    BY DEF Init, Level, BucketOf, NewBucket, Refilled
  <2> QED
    BY <2>1, <2>2, Units DEF CapAt
<1> QED
  BY <1>1 DEF Init, Ideal!Init, Ideal!Full, Full, NoAnswer, Ideal!NoAnswer

LEMMA IdealStep == TypeOK /\ StampsAgree /\ [Next]_vars => [Ideal!Next]_(Ideal!vars)
<1> SUFFICES ASSUME TypeOK, StampsAgree, [Next]_vars PROVE [Ideal!Next]_(Ideal!vars)
  OBVIOUS
<1> USE DEF Ideal!Full, Ideal!Cost, Ideal!CapAt
\* Steps the ideal bucket does not see.
<1>same. ASSUME UNCHANGED <<now, answer>>, \A k \in Keys : Level(k)' = Level(k)
         PROVE  UNCHANGED Ideal!vars
  BY <1>same DEF Ideal!vars
<1>1. ASSUME NEW k \in Keys, NEW n \in Requests, Admit(k, n) PROVE Ideal!Consume(k, n)
  <2>1. Cost(n) <= Level(k) /\ Level(k)' = Level(k) - Cost(n)
    BY <1>1, AdmitLevel
  <2>2. \A x \in Keys \ {k} : Level(x)' = Level(x)
    BY <1>1, AdmitLevel
  <2>3. /\ now' = now
        /\ answer' = [allowed |-> TRUE,
                      remaining |-> (Level(k) - Cost(n)) \div TicksPerSecond]
    BY <1>1 DEF Admit, Level
  <2>4. LevelMap' = [LevelMap EXCEPT ![k] = IF Cost(n) <= @ THEN @ - Cost(n) ELSE @]
    BY <2>1, <2>2 DEF LevelMap
  <2> QED
    BY <2>1, <2>3, <2>4 DEF Ideal!Consume, LevelMap, Cost
<1>2. ASSUME NEW k \in Keys, NEW n \in Requests, Deny(k, n) PROVE Ideal!Consume(k, n)
  <2>1. ~(Cost(n) <= Level(k)) /\ \A x \in Keys : Level(x)' = Level(x)
    BY <1>2, DenyLevel, LevelType, Units
  <2>2. /\ now' = now
        /\ answer' = [allowed |-> FALSE, remaining |-> Level(k) \div TicksPerSecond]
    BY <1>2 DEF Deny, Level
  <2>3. LevelMap' = [LevelMap EXCEPT ![k] = IF Cost(n) <= @ THEN @ - Cost(n) ELSE @]
    BY <2>1 DEF LevelMap
  <2>4. (Cost(n) <= LevelMap[k]) = FALSE /\ LevelMap'[k] = Level(k)
    BY <2>1 DEF LevelMap
  <2> QED
    BY <2>2, <2>3, <2>4 DEF Ideal!Consume, LevelMap, Cost
<1>3. ASSUME NEW k \in Keys, Reset(k) PROVE Ideal!Reset(k)
  <2>1. LevelMap' = [LevelMap EXCEPT ![k] = Full]
    BY <1>3, ResetLevel DEF LevelMap
  <2> QED
    BY <1>3, <2>1 DEF Ideal!Reset, Reset, LevelMap, Full, NoAnswer, Ideal!NoAnswer
<1>4. ASSUME NEW k \in Keys, StartWindow(k) PROVE UNCHANGED Ideal!vars
  BY <1>4, <1>same DEF StartWindow, Level, BucketOf, NewBucket, Refilled, CapAt, Full
<1>5. CASE Cleanup
  BY <1>5, <1>same, CleanupLevel DEF Cleanup
<1>6. CASE Tick
  <2>1. LevelMap' = [k \in Keys |-> CapAt(Level(k) + RefillRate)]
    BY <1>6, TickLevel DEF LevelMap
  <2>2. Ideal!Tick
    BY <1>6, <2>1 DEF Ideal!Tick, Tick, LevelMap, CapAt, Full
  <2> QED BY <2>2 DEF Ideal!Next
<1>7. CASE UNCHANGED vars
  BY <1>7, <1>same DEF vars, Level, BucketOf, NewBucket, Refilled, CapAt, Full
<1> QED
  BY <1>1, <1>2, <1>3, <1>4, <1>5, <1>6, <1>7 DEF Next, Ideal!Next

\* Making a bucket on first use, refilling it only when it is asked, and deleting
\* it when it is idle cannot be told from a bucket that always existed.
THEOREM Refinement == Spec => ImplementsIdealBucket
  BY TypeInit, TypeStep, IdealInit, IdealStep, PTL
     DEF Spec, ImplementsIdealBucket, Ideal!Spec

-----------------------------------------------------------------------------
(* Retry promises.                                                          *)

LEMMA PromiseFacts ==
  ASSUME TypeOK, NEW k \in Keys
  PROVE  /\ UntilPromise(k) \in Nat /\ UntilPromise(k) * RefillRate \in Nat
         /\ Cost(promise[k].tokens) \in Nat
<1>1. promise[k].tokens \in Nat /\ promise[k].at \in Nat /\ now \in Nat
  BY DEF TypeOK
<1>2. UntilPromise(k) \in Nat
  BY <1>1 DEF UntilPromise
<1> QED
  BY <1>1, <1>2, Gain, BucketAssumption DEF Cost

LEMMA WithinCapacity ==
  ASSUME NEW n \in Nat, n <= Capacity
  PROVE  Cost(n) <= Full
  BY BucketAssumption DEF Cost, Full

LEMMA RetryInit == Init => RetryInv
<1> SUFFICES ASSUME Init, NEW k \in Keys
             PROVE  Level(k) + UntilPromise(k) * RefillRate >= Cost(promise[k].tokens)
  BY DEF RetryInv
<1>1. Cost(promise[k].tokens) = 0
  BY BucketAssumption DEF Init, NoPromise, Cost
<1> QED
  BY <1>1, TypeInit, PromiseFacts, LevelType

LEMMA RetryStep == TypeOK /\ StampsAgree /\ RetryInv /\ [Next]_vars => RetryInv'
<1> SUFFICES ASSUME TypeOK, StampsAgree, RetryInv, [Next]_vars, NEW x \in Keys,
                    promise'[x].tokens <= Capacity
             PROVE  Level(x)' + UntilPromise(x)' * RefillRate >= Cost(promise'[x].tokens)
  BY DEF RetryInv, Cost
<1> DEFINE Goal == Level(x)' + UntilPromise(x)' * RefillRate >= Cost(promise'[x].tokens)
<1>0. /\ promise'[x] = promise[x]
           => Level(x) + UntilPromise(x) * RefillRate >= Cost(promise[x].tokens)
      /\ Level(x) \in 0..Full /\ UntilPromise(x) * RefillRate \in Nat
      /\ UntilPromise(x) \in Nat /\ Cost(promise[x].tokens) \in Nat
      /\ promise[x].at \in Nat /\ now \in Nat
  BY LevelType, PromiseFacts DEF RetryInv, TypeOK
<1>z. 0 * RefillRate = 0 /\ 0 * TicksPerSecond = 0
  BY BucketAssumption
<1>same. ASSUME now' = now, promise'[x] = promise[x], Level(x)' = Level(x) PROVE Goal
  <2>1. UntilPromise(x)' = UntilPromise(x)
    BY <1>same DEF UntilPromise
  <2> QED
    BY <1>0, <1>same, <2>1
\* A key that was promised nothing is owed nothing.
<1>none. ASSUME now' = now, promise'[x] = NoPromise, Level(x)' \in 0..Full PROVE Goal
  <2>1. UntilPromise(x)' = 0 /\ Cost(promise'[x].tokens) = 0
    BY <1>0, <1>none, <1>z DEF UntilPromise, NoPromise, Cost
  <2> QED
    BY <1>none, <1>z, <2>1, Units
<1>1. ASSUME NEW k \in Keys, NEW n \in Requests, Admit(k, n) PROVE Goal
  <2>1. now' = now /\ promise' = [promise EXCEPT ![k] = NoPromise]
    BY <1>1 DEF Admit
  <2>2. CASE x = k
    <3>1. Level(x)' = Level(x) - Cost(n) /\ Cost(n) <= Level(x) /\ Cost(n) \in Nat
      BY <1>1, <2>2, AdmitLevel, Units
    <3>2. Level(x)' \in 0..Full
      BY <1>0, <3>1, Units
    <3>3. promise'[x] = NoPromise
      BY <2>1, <2>2 DEF TypeOK
    <3> QED
      BY <2>1, <3>2, <3>3, <1>none
  <2>3. CASE x # k
    BY <1>1, <2>1, <2>3, <1>same, AdmitLevel DEF TypeOK
  <2> QED BY <2>2, <2>3
<1>2. ASSUME NEW k \in Keys, NEW n \in Requests, Deny(k, n) PROVE Goal
  <2>1. /\ now' = now /\ Level(x)' = Level(x)
        /\ promise' = [promise EXCEPT ![k] =
                         [tokens |-> n, at |-> now + RetryAfter(Cost(n) - Level(k))]]
    BY <1>2, DenyLevel DEF Deny, Level
  <2>2. CASE x # k
    <3>1. promise'[x] = promise[x]
      BY <2>1, <2>2 DEF TypeOK
    <3> QED
      BY <2>1, <3>1, <1>same
  <2>3. CASE x = k
    <3> DEFINE d == Cost(n) - Level(x)
    <3>1. d \in Nat \ {0}
      BY <1>2, <2>3, <1>0, DenyLevel, Units
    <3>2. promise'[x].tokens = n /\ promise'[x].at = now + RetryAfter(d)
      BY <2>1, <2>3 DEF TypeOK
    <3>3. RetryAfter(d) \in Nat /\ RetryAfter(d) * RefillRate >= d
      BY <3>1, RetryAfterType
    <3>4. UntilPromise(x)' = RetryAfter(d)
      BY <1>0, <2>1, <3>2, <3>3 DEF UntilPromise
    <3>5. RetryAfter(d) * RefillRate \in Nat /\ Cost(n) \in Nat
      BY <3>3, Gain, Units
    <3> QED
      BY <1>0, <2>1, <3>2, <3>3, <3>4, <3>5
  <2> QED BY <2>2, <2>3
<1>3. ASSUME NEW k \in Keys, Reset(k) PROVE Goal
  <2>1. now' = now /\ promise' = [promise EXCEPT ![k] = NoPromise]
    BY <1>3 DEF Reset
  <2>2. CASE x = k
    <3>1. Level(x)' \in 0..Full /\ promise'[x] = NoPromise
      BY <1>3, <2>1, <2>2, ResetLevel, Units DEF TypeOK
    <3> QED
      BY <2>1, <3>1, <1>none
  <2>3. CASE x # k
    BY <1>3, <2>1, <2>3, <1>same, ResetLevel DEF TypeOK
  <2> QED BY <2>2, <2>3
<1>4. ASSUME NEW k \in Keys, StartWindow(k) PROVE Goal
  <2>1. Level(x)' = Level(x)
    BY <1>4 DEF StartWindow, Level, BucketOf, NewBucket, Refilled, CapAt, Full
  <2> QED
    BY <1>4, <2>1, <1>same DEF StartWindow
<1>5. CASE Cleanup
  BY <1>5, <1>same, CleanupLevel DEF Cleanup
<1>6. CASE Tick
  <2>1. now' = now + 1 /\ promise' = promise /\ Level(x)' = CapAt(Level(x) + RefillRate)
    BY <1>6, TickLevel DEF Tick
  <2>2. RefillRate \in Nat /\ Full \in Nat /\ Cost(promise[x].tokens) <= Full
    BY <2>1, Units, WithinCapacity, BucketAssumption DEF TypeOK
  <2>3. CASE now < promise[x].at
    <3>1. UntilPromise(x)' \in Nat /\ UntilPromise(x) = UntilPromise(x)' + 1
      BY <1>0, <2>1, <2>3 DEF UntilPromise
    <3>2. /\ UntilPromise(x)' * RefillRate \in Nat
          /\ UntilPromise(x) * RefillRate = UntilPromise(x)' * RefillRate + RefillRate
      BY <3>1, Gain, GainSum
    <3> QED
      BY <1>0, <2>1, <2>2, <3>2 DEF CapAt
  <2>4. CASE ~(now < promise[x].at)
    <3>1. UntilPromise(x)' = 0 /\ UntilPromise(x) = 0
      BY <1>0, <2>1, <2>4 DEF UntilPromise
    <3> QED
      BY <1>0, <1>z, <2>1, <2>2, <3>1 DEF CapAt
  <2> QED BY <2>3, <2>4
<1>7. CASE UNCHANGED vars
  <2>1. Level(x)' = Level(x)
    BY <1>7 DEF vars, Level, BucketOf, NewBucket, Refilled, CapAt, Full
  <2> QED
    BY <1>7, <2>1, <1>same DEF vars
<1> QED
  BY <1>1, <1>2, <1>3, <1>4, <1>5, <1>6, <1>7 DEF Next

LEMMA RetrySuffices == TypeOK /\ RetryInv => RetryHonoured
<1> SUFFICES ASSUME TypeOK, RetryInv, NEW k \in Keys,
                    promise[k].tokens <= Capacity, now >= promise[k].at
             PROVE  Level(k) >= Cost(promise[k].tokens)
  BY DEF RetryHonoured
<1>1. UntilPromise(k) = 0 /\ 0 * RefillRate = 0
  BY BucketAssumption DEF UntilPromise, TypeOK
<1>2. Level(k) \in 0..Full
  BY LevelType
<1> QED
  BY <1>1, <1>2, Units DEF RetryInv

\* A client that waits as long as retryAfterMs told it finds the bucket able to
\* serve it, unless the key was served something else meanwhile or asked for more
\* than the capacity, which no wait can serve.
THEOREM RetriesHonoured == Spec => []RetryHonoured
  BY TypeInit, TypeStep, RetryInit, RetryStep, RetrySuffices, PTL DEF Spec

-----------------------------------------------------------------------------
(* The limiter is an allowance of whole tokens.                             *)

LEMMA Multiples ==
  ASSUME NEW w \in Nat \ {0}, NEW a \in Nat, NEW b \in Nat
  PROVE  /\ a * w \in Nat
         /\ a <= b => a * w <= b * w
         /\ a < b => (a * w) + w <= b * w
<1>1. ASSUME NEW d \in Nat, b = a + d PROVE b * w = (a * w) + (d * w) /\ d * w \in Nat
  BY <1>1
<1>2. ASSUME a <= b PROVE a * w <= b * w
  <2>1. b - a \in Nat /\ b = a + (b - a)
    BY <1>2
  <2> QED BY <1>1, <2>1
<1>3. ASSUME a < b PROVE (a * w) + w <= b * w
  <2>1. b - (a + 1) \in Nat /\ b = (a + 1) + (b - (a + 1))
    BY <1>3
  <2>2. PICK d \in Nat : b = (a + 1) + d
    BY <2>1
  <2>3. b * w = (a * w) + w + (d * w) /\ d * w \in Nat
    BY <2>2
  <2> QED BY <2>3
<1> QED BY <1>2, <1>3

LEMMA Quotient ==
  ASSUME NEW w \in Nat \ {0}, NEW x \in Nat
  PROVE  /\ x \div w \in Nat /\ (x \div w) * w <= x /\ x < ((x \div w) * w) + w
         /\ \A q \in Nat : q * w <= x /\ x < (q * w) + w => x \div w = q
<1>1. x \div w \in Nat /\ x % w \in 0..(w - 1) /\ x = ((x \div w) * w) + (x % w)
  OBVIOUS
<1>2. ASSUME NEW q \in Nat, q * w <= x, x < (q * w) + w PROVE x \div w = q
  <2>1. PICK p \in Nat : p = x \div w /\ p * w <= x /\ x < (p * w) + w
    BY <1>1
  <2>2. ~(p < q) /\ ~(q < p)
    <3>1. (p < q => (p * w) + w <= q * w) /\ (q < p => (q * w) + w <= p * w)
      BY Multiples
    <3>2. p * w \in Nat /\ q * w \in Nat
      BY Multiples
    <3> QED BY <1>2, <2>1, <3>1, <3>2
  <2> QED BY <2>1, <2>2
<1> QED BY <1>1, <1>2

\* A level covers a request exactly when its whole tokens do, and what is taken
\* comes off the whole tokens.
LEMMA WholeTokens ==
  ASSUME NEW x \in Nat, NEW n \in Nat
  PROVE  /\ Cost(n) <= x <=> n <= x \div TicksPerSecond
         /\ Cost(n) <= x => (x - Cost(n)) \div TicksPerSecond = (x \div TicksPerSecond) - n
<1>1. PICK w \in Nat \ {0} : w = TicksPerSecond
  BY BucketAssumption
<1>2. PICK q \in Nat : q = x \div w /\ q * w <= x /\ x < (q * w) + w
  BY Quotient
<1>3. n * w \in Nat /\ q * w \in Nat
  BY Multiples
<1>4. n <= q => n * w <= q * w
  BY Multiples
<1>5. q < n => (q * w) + w <= n * w
  BY Multiples
<1>6. n * w <= x <=> n <= q
  BY <1>2, <1>3, <1>4, <1>5
<1>7. ASSUME n <= q PROVE (x - n * w) \div w = q - n
  <2>1. PICK d \in Nat : q = n + d
    <3>1. q - n \in Nat /\ q = n + (q - n)
      BY <1>7
    <3> QED BY <3>1
  <2>2. q * w = (n * w) + (d * w) /\ d * w \in Nat
    BY <2>1
  <2>3. PICK y \in Nat : y = x - n * w
    BY <1>2, <1>3, <2>2
  <2>4. d * w <= y /\ y < (d * w) + w
    BY <1>2, <1>3, <2>2, <2>3
  <2>5. y \div w = d
    BY <2>4, Quotient
  <2> QED BY <2>1, <2>3, <2>5
<1> QED BY <1>1, <1>2, <1>6, <1>7 DEF Cost

\* More ticks are no fewer whole tokens.
LEMMA WholeTokensGrow ==
  ASSUME NEW x \in Nat, NEW y \in Nat, x <= y
  PROVE  x \div TicksPerSecond <= y \div TicksPerSecond
<1>1. PICK w \in Nat \ {0} : w = TicksPerSecond
  BY BucketAssumption
<1>2. PICK q \in Nat : q = x \div w /\ q * w <= x /\ x < (q * w) + w
  BY Quotient
<1>3. PICK p \in Nat : p = y \div w /\ p * w <= y /\ y < (p * w) + w
  BY Quotient
<1>4. p < q => (p * w) + w <= q * w
  BY Multiples
<1>5. p * w \in Nat /\ q * w \in Nat
  BY Multiples
<1> QED BY <1>1, <1>2, <1>3, <1>4, <1>5

UsedMap == [k \in Keys |-> Used(k)]

LEMMA UsedType ==
  ASSUME TypeOK, NEW k \in Keys
  PROVE  Level(k) \in Nat /\ Level(k) \div TicksPerSecond \in 0..Capacity /\ Used(k) \in 0..Capacity
<1>1. Level(k) \in 0..Full
  BY LevelType
<1>2. Level(k) \div TicksPerSecond \in 0..Capacity
  BY <1>1, RemainingType
<1> QED BY <1>1, <1>2, Units, BucketAssumption DEF Used

LEMMA AllowanceInit == Init => Limiter!Init
<1> SUFFICES ASSUME Init PROVE Limiter!Init
  OBVIOUS
<1>1. ASSUME NEW k \in Keys PROVE Used(k) = 0
  <2>1. Level(k) = Full
    BY IdealInit DEF Ideal!Init, Ideal!Full, Full
  <2>2. Full \div TicksPerSecond = Capacity
    BY Quotient, BucketAssumption DEF Full
  <2> QED BY <2>1, <2>2, BucketAssumption DEF Used
<1> QED
  BY <1>1 DEF Init, NoAnswer, Limiter!Init

LEMMA AllowanceStep == TypeOK /\ StampsAgree /\ [Next]_vars => [Limiter!Next]_(Limiter!vars)
<1> SUFFICES ASSUME TypeOK, StampsAgree, [Next]_vars PROVE [Limiter!Next]_(Limiter!vars)
  OBVIOUS
\* Steps the gateway does not see.
<1>same. ASSUME UNCHANGED answer, \A k \in Keys : Level(k)' = Level(k)
         PROVE  UNCHANGED Limiter!vars
  BY <1>same DEF Limiter!vars, Used
<1>1. ASSUME NEW k \in Keys, NEW n \in Requests, Admit(k, n) PROVE Limiter!Allow(k, n)
  <2>1. Cost(n) <= Level(k) /\ Level(k)' = Level(k) - Cost(n) /\ n \in Nat
    BY <1>1, AdmitLevel, BucketAssumption
  <2>2. \A x \in Keys \ {k} : Used(x)' = Used(x)
    BY <1>1, AdmitLevel DEF Used
  <2>3. Used(k) + n <= Capacity /\ Used(k)' = Used(k) + n
    <3>1. PICK x \in Nat : x = Level(k) /\ x \div TicksPerSecond \in 0..Capacity
      BY UsedType
    <3>2. /\ n <= x \div TicksPerSecond
          /\ (x - Cost(n)) \div TicksPerSecond = (x \div TicksPerSecond) - n
      BY <2>1, <3>1, WholeTokens
    <3>3. Used(k)' = Capacity - ((x \div TicksPerSecond) - n)
      BY <2>1, <3>1, <3>2 DEF Used
    <3> QED
      BY <2>1, <3>1, <3>2, <3>3, BucketAssumption DEF Used
  <2>4. UsedMap' = [UsedMap EXCEPT ![k] = @ + n]
    BY <2>2, <2>3 DEF UsedMap
  <2>5. answer'.allowed = TRUE
    BY <1>1 DEF Admit
  <2> QED
    BY <2>3, <2>4, <2>5 DEF Limiter!Allow, UsedMap
<1>2. ASSUME NEW k \in Keys, NEW n \in Requests, Deny(k, n) PROVE Limiter!Refuse(k, n)
  <2>1. Cost(n) > Level(k) /\ n \in Nat /\ \A x \in Keys : Level(x)' = Level(x)
    BY <1>2, DenyLevel, BucketAssumption
  <2>2. Used(k) + n > Capacity
    <3>1. PICK x \in Nat : x = Level(k) /\ x \div TicksPerSecond \in 0..Capacity
      BY UsedType
    <3>2. ~(n <= x \div TicksPerSecond)
      <4>1. Cost(n) \in Nat
        BY Units
      <4> QED BY <2>1, <3>1, <4>1, WholeTokens
    <3> QED BY <2>1, <3>1, <3>2, BucketAssumption DEF Used
  <2>3. UsedMap' = UsedMap
    BY <2>1 DEF UsedMap, Used
  <2>4. answer'.allowed = FALSE
    BY <1>2 DEF Deny
  <2> QED
    BY <2>2, <2>3, <2>4 DEF Limiter!Refuse, UsedMap
<1>3. ASSUME NEW k \in Keys, Reset(k) PROVE Limiter!Reset(k)
  <2>1. Level(k)' = Full /\ \A x \in Keys \ {k} : Level(x)' = Level(x)
    BY <1>3, ResetLevel
  <2>2. Full \div TicksPerSecond = Capacity
    BY Quotient, BucketAssumption DEF Full
  <2>3. Used(k)' = 0 /\ \A x \in Keys \ {k} : Used(x)' = Used(x)
    BY <2>1, <2>2, BucketAssumption DEF Used
  <2>4. UsedMap' = [UsedMap EXCEPT ![k] = 0]
    BY <2>3 DEF UsedMap
  <2>5. answer'.allowed = TRUE
    BY <1>3 DEF Reset, NoAnswer
  <2> QED
    BY <2>4, <2>5 DEF Limiter!Reset, UsedMap
<1>4. ASSUME NEW k \in Keys, StartWindow(k) PROVE UNCHANGED Limiter!vars
  BY <1>4, <1>same DEF StartWindow, Level, BucketOf, NewBucket, Refilled, CapAt, Full
<1>5. CASE Cleanup
  BY <1>5, <1>same, CleanupLevel DEF Cleanup
<1>6. CASE Tick
  <2>1. ASSUME NEW k \in Keys PROVE Used(k)' \in Nat /\ Used(k)' <= Used(k)
    <3>1. PICK x \in Nat : x = Level(k) /\ x <= Full /\ x \div TicksPerSecond \in 0..Capacity
      BY UsedType, LevelType
    <3>2. PICK y \in Nat : y = Level(k)' /\ x <= y /\ y \in 0..Full
      BY <1>6, <3>1, TickLevel, Units, BucketAssumption DEF CapAt
    <3>3. x \div TicksPerSecond <= y \div TicksPerSecond /\ y \div TicksPerSecond \in 0..Capacity
      BY <3>1, <3>2, WholeTokensGrow, RemainingType
    <3>4. Used(k)' = Capacity - y \div TicksPerSecond /\ Used(k) = Capacity - x \div TicksPerSecond
      BY <3>1, <3>2 DEF Used
    <3> QED BY <3>1, <3>3, <3>4, BucketAssumption
  <2>2. UsedMap' \in [Keys -> Nat] /\ \A k \in Keys : UsedMap'[k] <= UsedMap[k]
    BY <2>1 DEF UsedMap
  <2> QED
    BY <1>6, <2>2 DEF Tick, Limiter!Forget, Limiter!Next, UsedMap
<1>7. CASE UNCHANGED vars
  BY <1>7, <1>same DEF vars, Level, BucketOf, NewBucket, Refilled, CapAt, Full
<1> QED
  BY <1>1, <1>2, <1>3, <1>4, <1>5, <1>6, <1>7 DEF Next, Limiter!Next

\* The limiter is what the gateway takes it for: it refuses a request exactly if
\* too little of the capacity is left, and only time gives used tokens back.
THEOREM AllowanceKept == Spec => ImplementsAllowance
  BY TypeInit, TypeStep, AllowanceInit, AllowanceStep, PTL
     DEF Spec, ImplementsAllowance, Limiter!Spec
=============================================================================
