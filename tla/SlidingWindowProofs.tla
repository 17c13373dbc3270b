------------------------ MODULE SlidingWindowProofs ------------------------
(***************************************************************************)
(* Proofs about SlidingWindow, for every set of keys, length of window,    *)
(* maximum, set of request sizes and rounding.                             *)
(***************************************************************************)
EXTENDS SlidingWindow, TLAPS

-----------------------------------------------------------------------------
(* Arithmetic.                                                              *)

LEMMA Division ==
  ASSUME NEW a \in Nat, NEW w \in Nat \ {0}
  PROVE  /\ a \div w \in Nat /\ a % w \in 0..(w - 1)
         /\ a = ((a \div w) * w) + (a % w)
  OBVIOUS

\* A quotient does not grow when its dividend shrinks, and shrinks when that was
\* a multiple.
LEMMA Quotients ==
  ASSUME NEW a \in Nat, NEW b \in Nat, NEW w \in Nat \ {0}, b <= a
  PROVE  /\ b \div w <= a \div w
         /\ a % w = 0 /\ b < a => b \div w <= (a \div w) - 1
<1> DEFINE qa == a \div w
           qb == b \div w
<1>1. qa \in Nat /\ qb \in Nat /\ a % w \in 0..(w - 1) /\ b % w \in 0..(w - 1)
      /\ a = (qa * w) + (a % w) /\ b = (qb * w) + (b % w)
  BY Division
<1>2. ASSUME qb >= qa + 1 PROVE b >= (qa * w) + w
  <2>1. PICK d \in Nat : qb = qa + 1 + d
    <3>1. qb - (qa + 1) \in Nat /\ qb = qa + 1 + (qb - (qa + 1))
      BY <1>1, <1>2
    <3> QED BY <3>1
  <2>2. qb * w = (qa * w) + w + (d * w) /\ d * w \in Nat
    BY <1>1, <2>1
  <2> QED
    BY <1>1, <2>2
<1>3. qb <= qa
  BY <1>1, <1>2
<1>4. ASSUME a % w = 0, b < a PROVE qb # qa
  BY <1>1, <1>4
<1> QED
  BY <1>1, <1>3, <1>4

\* Quotient and remainder are unique.
LEMMA UniqueQuotient ==
  ASSUME NEW w \in Nat \ {0}, NEW a \in Nat, NEW b \in Nat,
         NEW r \in 0..(w - 1), NEW s \in 0..(w - 1), (a * w) + r = (b * w) + s
  PROVE  a = b /\ r = s
<1>1. \A x \in Nat, y \in Nat : x < y => (x * w) + w <= y * w
  <2> SUFFICES ASSUME NEW x \in Nat, NEW y \in Nat, x < y PROVE (x * w) + w <= y * w
    OBVIOUS
  <2>1. PICK d \in Nat : y = x + 1 + d
    <3>1. y - (x + 1) \in Nat /\ y = x + 1 + (y - (x + 1))
      OBVIOUS
    <3> QED BY <3>1
  <2>2. y * w = (x * w) + w + (d * w) /\ d * w \in Nat /\ x * w \in Nat
    BY <2>1
  <2> QED BY <2>2
<1>2. a * w \in Nat /\ b * w \in Nat
  OBVIOUS
<1>3. ~(a < b) /\ ~(b < a)
  BY <1>1, <1>2
<1> QED BY <1>2, <1>3

\* Adding a multiple of the divisor.
LEMMA Shift ==
  ASSUME NEW a \in Nat, NEW d \in Nat, NEW w \in Nat \ {0}
  PROVE  (a + (w * d)) \div w = (a \div w) + d /\ (a + (w * d)) % w = a % w
<1> DEFINE q == a \div w
           r == a % w
           b == a + (w * d)
<1>1. q \in Nat /\ r \in 0..(w - 1) /\ a = (q * w) + r
  BY Division
<1>2. b \in Nat /\ b = ((q + d) * w) + r
  <2>1. (q + d) * w = (q * w) + (w * d) /\ w * d \in Nat
    BY <1>1
  <2> QED BY <1>1, <2>1
<1>3. b \div w \in Nat /\ b % w \in 0..(w - 1) /\ b = ((b \div w) * w) + (b % w)
  BY <1>2, Division
<1> QED
  BY <1>1, <1>2, <1>3, UniqueQuotient

LEMMA Windows ==
  ASSUME now \in Nat
  PROVE  /\ WindowStart \in Nat /\ WindowStart <= now /\ now < WindowStart + WindowMs
         /\ Elapsed \in 0..(WindowMs - 1) /\ Elapsed = now % WindowMs
<1>1. /\ now \div WindowMs \in Nat /\ now % WindowMs \in 0..(WindowMs - 1)
      /\ now = ((now \div WindowMs) * WindowMs) + (now % WindowMs)
  BY WindowAssumption, Division
<1>2. (now \div WindowMs) * WindowMs \in Nat
  BY <1>1, WindowAssumption
<1> QED
  BY <1>1, <1>2, WindowAssumption DEF WindowStart, Elapsed

\* A tick stays in its window, one further on, or begins the next.
LEMMA NextWindow ==
  ASSUME now \in Nat, now' = now + 1
  PROVE  \/ WindowStart' = WindowStart /\ Elapsed' = Elapsed + 1 /\ now' % WindowMs # 0
         \/ WindowStart' = WindowStart + WindowMs /\ Elapsed' = 0 /\ now' % WindowMs = 0
<1> DEFINE q == now \div WindowMs
           r == now' \div WindowMs
<1>1. /\ q \in Nat /\ r \in Nat /\ now % WindowMs \in 0..(WindowMs - 1)
      /\ now' % WindowMs \in 0..(WindowMs - 1)
      /\ now = (q * WindowMs) + (now % WindowMs)
      /\ now' = (r * WindowMs) + (now' % WindowMs)
  <2>1. WindowMs \in Nat \ {0} /\ now' \in Nat
    BY WindowAssumption
  <2>2. /\ q \in Nat /\ now % WindowMs \in 0..(WindowMs - 1)
        /\ now = (q * WindowMs) + (now % WindowMs)
    BY <2>1, Division
  <2>3. /\ r \in Nat /\ now' % WindowMs \in 0..(WindowMs - 1)
        /\ now' = (r * WindowMs) + (now' % WindowMs)
    BY <2>1, Division
  <2> QED BY <2>2, <2>3
<1>2. r = q \/ r = q + 1
  BY WindowAssumption
<1>3. CASE r = q
  <2>1. now' % WindowMs = (now % WindowMs) + 1
    BY <1>1, <1>3, WindowAssumption
  <2> QED
    BY <1>1, <1>3, <2>1, WindowAssumption DEF WindowStart, Elapsed
<1>4. CASE r = q + 1
  <2>1. r * WindowMs = (q * WindowMs) + WindowMs /\ q * WindowMs \in Nat
    BY <1>1, <1>4, WindowAssumption
  <2>2. now' % WindowMs = 0
    BY <1>1, <2>1, WindowAssumption
  <2> QED
    BY <1>1, <1>4, <2>1, <2>2, WindowAssumption DEF WindowStart, Elapsed
<1> QED
  BY <1>2, <1>3, <1>4

\* The weighted count lies between 0 and the count ...
LEMMA WeightedBetween ==
  ASSUME now \in Nat, NEW p \in Nat
  PROVE  Weighted(p) \in 0..p /\ (Elapsed = 0 => Weighted(p) = p)
<1> DEFINE x == p * (WindowMs - Elapsed)
<1>1. WindowMs \in Nat \ {0} /\ Elapsed \in 0..(WindowMs - 1)
  BY Windows, WindowAssumption
<1>2. x \in Nat /\ x <= p * WindowMs /\ p * WindowMs \in Nat /\ (p # 0 => x > 0)
  <2>1. p * WindowMs = (p * (WindowMs - Elapsed)) + (p * Elapsed)
    BY <1>1
  <2>2. p * Elapsed \in Nat /\ x \in Nat /\ (p # 0 => x > 0)
    BY <1>1
  <2> QED BY <1>1, <2>1, <2>2
<1>3. (p * WindowMs) \div WindowMs = p
  BY <1>1
<1>4. x \div WindowMs \in 0..p
  BY <1>1, <1>2, <1>3, Quotients, Division
<1>5. x % WindowMs = 0 /\ p # 0 => x \div WindowMs >= 1
  BY <1>1, <1>2, <1>4, Division
<1>6. Elapsed = 0 => x \div WindowMs = p
  BY <1>1, <1>3
<1> QED
  BY <1>4, <1>5, <1>6 DEF Weighted, Low

\* ... and does not grow within a window, however it is rounded.
LEMMA WeightedShrinks ==
  ASSUME now \in Nat, now' = now + 1, WindowStart' = WindowStart,
         Elapsed' = Elapsed + 1, NEW p \in Nat
  PROVE  Weighted(p)' <= Weighted(p)
<1> DEFINE x == p * (WindowMs - Elapsed)
           y == p * (WindowMs - (Elapsed + 1))
<1>1. WindowMs \in Nat \ {0} /\ Elapsed \in 0..(WindowMs - 1)
      /\ Elapsed + 1 \in 0..(WindowMs - 1)
  <2>1. now < WindowStart + WindowMs /\ WindowStart \in Nat /\ Elapsed \in 0..(WindowMs - 1)
    BY Windows
  <2>2. WindowMs \in Nat \ {0} /\ now' \in Nat
    BY WindowAssumption
  <2>3. /\ now' \div WindowMs \in Nat /\ now' % WindowMs \in 0..(WindowMs - 1)
        /\ now' = ((now' \div WindowMs) * WindowMs) + (now' % WindowMs)
    BY <2>2, Division
  <2>4. Elapsed' \in 0..(WindowMs - 1)
    BY <2>2, <2>3 DEF Elapsed, WindowStart
  <2> QED
    BY <2>1, <2>2, <2>4
<1>2. x \in Nat /\ y \in Nat /\ x = y + p
  BY <1>1
<1>3. x \div WindowMs \in Nat /\ y \div WindowMs \in Nat
  BY <1>1, <1>2, Division
<1>4. y \div WindowMs <= x \div WindowMs
      /\ (x % WindowMs = 0 /\ p # 0 => y \div WindowMs <= (x \div WindowMs) - 1)
  BY <1>1, <1>2, Quotients
<1>5. Weighted(p)' <= y \div WindowMs
  BY <1>3 DEF Weighted, Low
<1>6. \/ Weighted(p) = x \div WindowMs
      \/ x % WindowMs = 0 /\ p # 0 /\ Weighted(p) = (x \div WindowMs) - 1
  BY <1>3 DEF Weighted, Low
<1>7. Weighted(p) \in Nat /\ Weighted(p)' \in Int
  <2>1. Weighted(p) \in Nat
    BY WeightedBetween
  <2>2. Weighted(p)' \in Int
    BY <1>3 DEF Weighted, Low
  <2> QED BY <2>1, <2>2
<1> QED
  BY <1>3, <1>4, <1>5, <1>6, <1>7

\* ... nor does it become negative.
LEMMA WeightedInteger ==
  ASSUME now' \in Nat, NEW p \in Nat
  PROVE  Weighted(p)' \in Nat
<1> DEFINE x == p * (WindowMs - Elapsed')
<1>1. /\ now' \div WindowMs \in Nat /\ now' % WindowMs \in 0..(WindowMs - 1)
      /\ now' = ((now' \div WindowMs) * WindowMs) + (now' % WindowMs)
      /\ WindowMs \in Nat \ {0}
  BY WindowAssumption, Division
<1>2. Elapsed' \in 0..(WindowMs - 1)
  <2>1. PICK q \in Nat, r \in 0..(WindowMs - 1), w \in Nat :
          q = now' \div WindowMs /\ w = q * WindowMs /\ now' = w + r
    <3>1. PICK q \in Nat, r \in 0..(WindowMs - 1) :
            q = now' \div WindowMs /\ now' = (q * WindowMs) + r
      BY <1>1
    <3>2. q * WindowMs \in Nat
      BY <1>1
    <3> QED BY <3>1, <3>2
  <2>2. Elapsed' = now' - w
    BY <2>1 DEF Elapsed, WindowStart
  <2>3. (w + r) - w = r
    BY <1>1, <2>1
  <2> QED BY <2>1, <2>2, <2>3
<1>3. x \in Nat /\ (p # 0 => x > 0)
  <2>0. \A e \in 0..(WindowMs - 1) : WindowMs - e \in Nat \ {0}
    BY <1>1
  <2>1. PICK d \in Nat \ {0} : d = WindowMs - Elapsed'
    BY <1>2, <2>0
  <2>2. PICK c \in Nat : d = c + 1
    BY <2>1
  <2>3. p * d = (p * c) + p /\ p * c \in Nat
    BY <2>2
  <2> QED BY <2>1, <2>3
<1> HIDE DEF x
<1>4. x \div WindowMs \in Nat /\ x = ((x \div WindowMs) * WindowMs) + (x % WindowMs)
  BY <1>1, <1>3, Division
<1>5. x % WindowMs = 0 /\ p # 0 => x \div WindowMs # 0
  BY <1>1, <1>3, <1>4
<1> QED
  BY <1>4, <1>5 DEF Weighted, Low, x

-----------------------------------------------------------------------------
(* What each step does to the counts a key would be judged by.              *)

\* States start at window boundaries: this window's, or one at least a window ago.
Aligned ==
  \A k \in DOMAIN windows :
    windows[k].start = WindowStart \/ windows[k].start <= WindowStart - WindowMs

Counts == [start : Nat, cur : 0..MaxRequests, prev : 0..MaxRequests]

LEMMA Zero == 0 \in 0..MaxRequests
  BY WindowAssumption

\* What TypeOK says of one stored state.
LEMMA StoredType ==
  ASSUME TypeOK, NEW k \in DOMAIN windows
  PROVE  /\ windows[k] \in Counts
         /\ windows[k].start \in Nat /\ windows[k].start <= now
         /\ windows[k].cur \in 0..MaxRequests /\ windows[k].prev \in 0..MaxRequests
<1>1. windows[k] \in [start : 0..now, cur : 0..MaxRequests, prev : 0..MaxRequests]
  BY DEF TypeOK
<1> QED
  BY <1>1 DEF TypeOK, Counts

LEMMA CurrentType ==
  ASSUME TypeOK, NEW k \in Keys
  PROVE  /\ Current(k) \in Counts /\ Current(k).start = WindowStart
         /\ Current(k).cur \in 0..MaxRequests /\ Current(k).prev \in 0..MaxRequests
<1>1. WindowStart \in Nat
  BY Windows DEF TypeOK
<1>2. CASE k \in DOMAIN windows
  BY <1>1, <1>2, StoredType, Zero DEF Current, StateOf, Rolled, Counts
<1>3. CASE k \notin DOMAIN windows
  BY <1>1, <1>3, Zero DEF Current, StateOf, NewState, Rolled, Counts
<1> QED BY <1>2, <1>3

LEMMA SameCurrent ==
  ASSUME now' = now, NEW k \in Keys, StateOf(k)' = StateOf(k)
  PROVE  Current(k)' = Current(k)
  BY DEF Current, Rolled, WindowStart

\* A call leaves behind what it computed, and no other key notices.
LEMMA StoredCurrent ==
  ASSUME now' = now, NEW k \in Keys, NEW s, s.start = WindowStart, windows' = Stored(k, s)
  PROVE  /\ Current(k)' = s
         /\ \A x \in Keys \ {k} : Current(x)' = Current(x)
<1>1. WindowStart' = WindowStart /\ NewState' = NewState
  BY DEF WindowStart, NewState
<1>2. DOMAIN windows' = DOMAIN windows \cup {k} /\ windows'[k] = s
      /\ \A x \in DOMAIN windows \ {k} : windows'[x] = windows[x]
  BY DEF Stored
<1>3. StateOf(k)' = s
  BY <1>2 DEF StateOf
<1>4. \A x \in Keys \ {k} : StateOf(x)' = StateOf(x)
  BY <1>1, <1>2 DEF StateOf
<1> QED
  BY <1>1, <1>3, <1>4, SameCurrent DEF Current, Rolled

LEMMA ResetCurrent ==
  ASSUME NEW k \in Keys, Reset(k)
  PROVE  /\ Current(k)' = NewState
         /\ \A x \in Keys \ {k} : Current(x)' = Current(x)
<1>1. now' = now /\ windows' = [x \in DOMAIN windows \ {k} |-> windows[x]]
  BY DEF Reset
<1>2. WindowStart' = WindowStart /\ NewState' = NewState
  BY <1>1 DEF WindowStart, NewState
<1>3. StateOf(k)' = NewState
  BY <1>1, <1>2 DEF StateOf
<1>4. \A x \in Keys \ {k} : StateOf(x)' = StateOf(x)
  BY <1>1, <1>2 DEF StateOf
<1> QED
  BY <1>1, <1>2, <1>3, <1>4, SameCurrent DEF Current, Rolled, NewState

\* The cleanup forgets only what a roll would forget: a state more than three
\* windows old is two windows behind the current one.
LEMMA CleanupCurrent ==
  ASSUME TypeOK, Cleanup, NEW k \in Keys
  PROVE  Current(k)' = Current(k)
<1>1. now' = now /\ windows' = [x \in {y \in DOMAIN windows : ~Stale(y)} |-> windows[x]]
  BY DEF Cleanup
<1>2. WindowStart' = WindowStart /\ NewState' = NewState
  BY <1>1 DEF WindowStart, NewState
<1>3. CASE k \in DOMAIN windows /\ Stale(k)
  <2>1. WindowStart \in Nat /\ now < WindowStart + WindowMs /\ now \in Nat
    BY Windows DEF TypeOK
  <2>2. windows[k].start \in Nat /\ windows[k].start < now - 3 * WindowMs
    BY <1>3, StoredType DEF Stale
  <2>3. windows[k].start # WindowStart /\ WindowStart - windows[k].start >= 2 * WindowMs
    BY <2>1, <2>2, WindowAssumption
  <2>4. Current(k) = NewState
    BY <1>3, <2>3 DEF Current, StateOf, Rolled, NewState
  <2>5. StateOf(k)' = NewState
    BY <1>1, <1>2, <1>3 DEF StateOf
  <2> QED
    BY <1>2, <2>4, <2>5 DEF Current, Rolled, NewState
<1>4. CASE ~(k \in DOMAIN windows /\ Stale(k))
  <2>1. StateOf(k)' = StateOf(k)
    BY <1>1, <1>2, <1>4 DEF StateOf
  <2> QED
    BY <1>1, <2>1, SameCurrent
<1> QED BY <1>3, <1>4

\* Within a window a tick changes no count; at its end each rolls by one.
LEMMA TickCurrent ==
  ASSUME TypeOK, Aligned, Tick, NEW k \in Keys
  PROVE  /\ now' % WindowMs # 0 => Current(k)' = Current(k)
         /\ now' % WindowMs = 0 =>
              Current(k)'.cur = 0 /\ Current(k)'.prev = Current(k).cur
<1>1. now \in Nat /\ now' = now + 1 /\ windows' = windows
  BY DEF TypeOK, Tick
<1>2. WindowStart \in Nat /\ WindowMs \in Nat \ {0}
  BY <1>1, Windows, WindowAssumption
<1>3. CASE WindowStart' = WindowStart /\ now' % WindowMs # 0
  BY <1>1, <1>3 DEF Current, StateOf, NewState, Rolled
<1>4. CASE WindowStart' = WindowStart + WindowMs /\ now' % WindowMs = 0
  <2>1. CASE k \in DOMAIN windows
    <3> DEFINE s == windows[k]
    <3>1. s.start \in Nat /\ StateOf(k) = s /\ StateOf(k)' = s
      BY <1>1, <2>1, StoredType DEF StateOf
    <3>2. CASE s.start = WindowStart
      <4>1. s.start # WindowStart' /\ ~(WindowStart' - s.start >= 2 * WindowMs)
        BY <1>2, <1>4, <3>1, <3>2
      <4> QED
        BY <1>4, <3>1, <3>2, <4>1 DEF Current, Rolled
    <3>3. CASE s.start <= WindowStart - WindowMs
      <4>1. s.start # WindowStart /\ s.start # WindowStart'
            /\ WindowStart' - s.start >= 2 * WindowMs
        BY <1>2, <1>4, <3>1, <3>3
      <4> QED
        BY <1>4, <3>1, <4>1 DEF Current, Rolled
    <3> QED
      BY <2>1, <3>2, <3>3 DEF Aligned
  <2>2. CASE k \notin DOMAIN windows
    <3>1. StateOf(k) = NewState /\ StateOf(k)' = NewState'
      BY <1>1, <2>2 DEF StateOf
    <3>2. Current(k) = NewState /\ Current(k)' = NewState'
      BY <3>1 DEF Current, NewState, Rolled
    <3> QED BY <1>4, <3>2 DEF NewState
  <2> QED BY <2>1, <2>2
<1> QED
  BY <1>1, <1>3, <1>4, NextWindow

-----------------------------------------------------------------------------
(* Types, and what a key is judged by.                                      *)

\* NeverOverdrawn needs the types and the alignment of states to be inductive.
WindowInv == TypeOK /\ Aligned /\ NeverOverdrawn

LEMMA ApproximateType ==
  ASSUME TypeOK, NEW k \in Keys
  PROVE  Approximate(k) \in Nat /\ Weighted(Current(k).prev) \in Nat
<1>1. Current(k).cur \in Nat /\ Current(k).prev \in Nat
  BY CurrentType, WindowAssumption
<1> QED
  BY <1>1, WeightedBetween DEF Approximate, TypeOK

LEMMA RetryAfterType ==
  ASSUME TypeOK, NEW k \in Keys, NEW n \in Requests
  PROVE  RetryAfter(k, n) \in Nat
<1> DEFINE missing == n - (MaxRequests - Approximate(k))
           p == Current(k).prev
<1>1. missing \in Int /\ p \in Nat /\ Elapsed \in Int /\ WindowMs \in Nat \ {0}
  BY ApproximateType, CurrentType, Windows, WindowAssumption DEF TypeOK
<1>2. /\ WindowMs - Elapsed \in Int /\ (WindowMs - Elapsed) * missing \in Int
      /\ p # 0 => CeilDiv(WindowMs * missing, p) + (IF High(p, missing) THEN 1 ELSE 0) \in Int
  <2>1. WindowMs * missing \in Int /\ (WindowMs - Elapsed) * missing \in Int
    BY <1>1
  <2>2. \A x \in Int, b \in Nat \ {0} : CeilDiv(x, b) \in Int
    BY DEF CeilDiv
  <2>3. WindowMs - Elapsed \in Int
    BY <1>1
  <2> HIDE DEF missing, p
  <2> QED
    BY <1>1, <2>1, <2>2, <2>3
<1>3. \A r \in Int : Clamp(r) \in Nat
  BY <1>1 DEF Clamp
<1> QED
  BY <1>2, <1>3 DEF RetryAfter

\* Storing a state of this window keeps the map typed and aligned.
LEMMA StoredKept ==
  ASSUME TypeOK, Aligned, now' = now, NEW k \in Keys, NEW s \in Counts,
         s.start = WindowStart, windows' = Stored(k, s)
  PROVE  /\ DOMAIN windows' \in SUBSET Keys
         /\ windows' \in [DOMAIN windows' -> [start : 0..now', cur : 0..MaxRequests,
                                             prev : 0..MaxRequests]]
         /\ Aligned'
<1>1. DOMAIN windows' = DOMAIN windows \cup {k} /\ windows'[k] = s
      /\ windows' = [x \in DOMAIN windows \cup {k} |-> IF x = k THEN s ELSE windows[x]]
  BY DEF Stored
<1>2. s \in [start : 0..now, cur : 0..MaxRequests, prev : 0..MaxRequests]
  <2>1. WindowStart \in 0..now
    BY Windows DEF TypeOK
  <2> QED BY <2>1 DEF Counts
<1>3. \A x \in DOMAIN windows :
        windows[x] \in [start : 0..now, cur : 0..MaxRequests, prev : 0..MaxRequests]
  BY DEF TypeOK
<1>4. WindowStart' = WindowStart
  BY DEF WindowStart
<1> QED
  BY <1>1, <1>2, <1>3, <1>4 DEF TypeOK, Aligned

\* Deleting states does too.
LEMMA DeletedKept ==
  ASSUME TypeOK, Aligned, now' = now, NEW D \in SUBSET DOMAIN windows,
         windows' = [x \in D |-> windows[x]]
  PROVE  /\ DOMAIN windows' \in SUBSET Keys
         /\ windows' \in [DOMAIN windows' -> [start : 0..now', cur : 0..MaxRequests,
                                             prev : 0..MaxRequests]]
         /\ Aligned'
  BY DEF TypeOK, Aligned, WindowStart

LEMMA AdmitStep ==
  ASSUME WindowInv, NEW k \in Keys, NEW n \in Requests, Admit(k, n)
  PROVE  WindowInv'
<1> DEFINE s == [Current(k) EXCEPT !.cur = @ + n]
<1>1. TypeOK /\ Aligned /\ NeverOverdrawn /\ n \in Nat /\ n # 0
  BY WindowAssumption DEF WindowInv
<1>2. /\ Current(k) \in Counts /\ Current(k).start = WindowStart
      /\ Current(k).cur \in Nat /\ Current(k).prev \in 0..MaxRequests
      /\ Approximate(k) \in Nat /\ Weighted(Current(k).prev) \in Nat
  BY <1>1, CurrentType, ApproximateType, WindowAssumption
<1>3. Current(k).cur + n \in 0..MaxRequests
  BY <1>1, <1>2, WindowAssumption DEF Admit, Approximate
<1>4. /\ s \in Counts /\ s.start = WindowStart
      /\ s.cur = Current(k).cur + n /\ s.prev = Current(k).prev
  BY <1>2, <1>3 DEF Counts
<1>5. now' = now /\ windows' = Stored(k, s)
  BY DEF Admit
<1>6. /\ Current(k)' = s
      /\ \A x \in Keys \ {k} : Current(x)' = Current(x)
  BY <1>4, <1>5, StoredCurrent
<1>7. \A p : Weighted(p)' = Weighted(p)
  BY <1>5 DEF Weighted, Low, Elapsed, WindowStart
<1>8. NeverOverdrawn'
  <2>1. Approximate(k)' = Approximate(k) + n
    BY <1>2, <1>4, <1>6, <1>7, <1>1 DEF Approximate
  <2>2. Approximate(k)' <= MaxRequests
    BY <2>1 DEF Admit
  <2>3. ASSUME NEW x \in Keys \ {k} PROVE Approximate(x)' = Approximate(x)
    BY <1>6, <1>7 DEF Approximate
  <2> QED
    BY <1>1, <2>2, <2>3 DEF NeverOverdrawn
<1>9. answer' \in [allowed : BOOLEAN, remaining : 0..MaxRequests]
  <2>1. Left(MaxRequests - Approximate(k) - n) \in 0..MaxRequests
    BY <1>1, <1>2, WindowAssumption DEF Left
  <2> QED BY <2>1 DEF Admit
<1>10. promise' \in [Keys -> [tokens : Nat, at : Nat, made : 0..now', again : BOOLEAN]]
  BY <1>1, <1>5 DEF TypeOK, Admit, NoPromise
<1>11. since' \in [Keys -> 0..now'] /\ spent' \in [Keys -> Nat] /\ now' \in 0..MaxTime
  BY <1>1, <1>5 DEF TypeOK, Admit
<1>12. /\ DOMAIN windows' \in SUBSET Keys
       /\ windows' \in [DOMAIN windows' -> [start : 0..now', cur : 0..MaxRequests,
                                           prev : 0..MaxRequests]]
       /\ Aligned'
  BY <1>1, <1>4, <1>5, StoredKept
<1> QED
  BY <1>8, <1>9, <1>10, <1>11, <1>12 DEF WindowInv, TypeOK

LEMMA DenyStep ==
  ASSUME WindowInv, NEW k \in Keys, NEW n \in Requests, Deny(k, n)
  PROVE  WindowInv' /\ \A x \in Keys : Current(x)' = Current(x)
<1>1. TypeOK /\ Aligned /\ NeverOverdrawn /\ n \in Nat
  BY WindowAssumption DEF WindowInv
<1>2. now' = now /\ windows' = Stored(k, Current(k))
      /\ Current(k) \in Counts /\ Current(k).start = WindowStart
  BY <1>1, CurrentType DEF Deny
<1>3. \A x \in Keys : Current(x)' = Current(x)
  BY <1>2, StoredCurrent
<1>4. \A p : Weighted(p)' = Weighted(p)
  BY <1>2 DEF Weighted, Low, Elapsed, WindowStart
<1>5. NeverOverdrawn'
  BY <1>1, <1>3, <1>4 DEF NeverOverdrawn, Approximate
<1>6. answer' \in [allowed : BOOLEAN, remaining : 0..MaxRequests]
  <2>1. Left(MaxRequests - Approximate(k)) \in 0..MaxRequests
    BY <1>1, ApproximateType, WindowAssumption DEF Left
  <2> QED BY <2>1 DEF Deny
<1>7. promise' \in [Keys -> [tokens : Nat, at : Nat, made : 0..now', again : BOOLEAN]]
  <2>1. RetryAfter(k, n) \in Nat /\ WindowStart \in 0..now
    BY <1>1, RetryAfterType, Windows DEF TypeOK
  <2>2. now + RetryAfter(k, n) \in Nat
    BY <1>1, <2>1 DEF TypeOK
  <2> QED
    BY <1>1, <1>2, <2>1, <2>2 DEF TypeOK, Deny
<1>8. since' \in [Keys -> 0..now'] /\ spent' \in [Keys -> Nat] /\ now' \in 0..MaxTime
  BY <1>1 DEF TypeOK, Deny
<1>9. /\ DOMAIN windows' \in SUBSET Keys
      /\ windows' \in [DOMAIN windows' -> [start : 0..now', cur : 0..MaxRequests,
                                          prev : 0..MaxRequests]]
      /\ Aligned'
  BY <1>1, <1>2, StoredKept
<1> QED
  BY <1>3, <1>5, <1>6, <1>7, <1>8, <1>9 DEF WindowInv, TypeOK

LEMMA ResetStep ==
  ASSUME WindowInv, NEW k \in Keys, Reset(k)
  PROVE  WindowInv'
<1>1. TypeOK /\ Aligned /\ NeverOverdrawn /\ now' = now
  BY DEF WindowInv, Reset
<1>2. /\ Current(k)' = NewState
      /\ \A x \in Keys \ {k} : Current(x)' = Current(x)
  BY ResetCurrent
<1>3. \A p : Weighted(p)' = Weighted(p)
  BY <1>1 DEF Weighted, Low, Elapsed, WindowStart
<1>4. Weighted(0) = 0
  BY <1>1, WeightedBetween DEF TypeOK
<1>5. NeverOverdrawn'
  <2>1. Approximate(k)' <= MaxRequests
    BY <1>2, <1>3, <1>4, WindowAssumption DEF Approximate, NewState
  <2>2. ASSUME NEW x \in Keys \ {k} PROVE Approximate(x)' = Approximate(x)
    BY <1>2, <1>3 DEF Approximate
  <2> QED
    BY <1>1, <2>1, <2>2 DEF NeverOverdrawn
<1>6. /\ DOMAIN windows' \in SUBSET Keys
      /\ windows' \in [DOMAIN windows' -> [start : 0..now', cur : 0..MaxRequests,
                                          prev : 0..MaxRequests]]
      /\ Aligned'
  BY <1>1, DeletedKept DEF Reset
<1>7. /\ since' \in [Keys -> 0..now'] /\ spent' \in [Keys -> Nat] /\ now' \in 0..MaxTime
      /\ promise' \in [Keys -> [tokens : Nat, at : Nat, made : 0..now', again : BOOLEAN]]
      /\ answer' \in [allowed : BOOLEAN, remaining : 0..MaxRequests]
  BY <1>1, WindowAssumption DEF TypeOK, Reset, NoPromise, NoAnswer
<1> QED
  BY <1>5, <1>6, <1>7 DEF WindowInv, TypeOK

LEMMA CleanupStep ==
  ASSUME WindowInv, Cleanup
  PROVE  WindowInv'
<1>1. TypeOK /\ Aligned /\ NeverOverdrawn /\ now' = now
  BY DEF WindowInv, Cleanup
<1>2. \A k \in Keys : Current(k)' = Current(k)
  BY <1>1, CleanupCurrent
<1>3. \A p : Weighted(p)' = Weighted(p)
  BY <1>1 DEF Weighted, Low, Elapsed, WindowStart
<1>4. NeverOverdrawn'
  BY <1>1, <1>2, <1>3 DEF NeverOverdrawn, Approximate
<1>5. /\ DOMAIN windows' \in SUBSET Keys
      /\ windows' \in [DOMAIN windows' -> [start : 0..now', cur : 0..MaxRequests,
                                          prev : 0..MaxRequests]]
      /\ Aligned'
  BY <1>1, DeletedKept DEF Cleanup
<1> QED
  BY <1>1, <1>4, <1>5 DEF WindowInv, TypeOK, Cleanup

LEMMA TickStep ==
  ASSUME WindowInv, Tick
  PROVE  WindowInv'
<1>1. /\ TypeOK /\ Aligned /\ NeverOverdrawn
      /\ now \in Nat /\ now' = now + 1 /\ now' \in 0..MaxTime
      /\ UNCHANGED <<windows, answer, since, spent, promise>>
  BY WindowAssumption DEF WindowInv, TypeOK, Tick
<1>2. 0..now \subseteq 0..now'
  BY <1>1
<1>3. TypeOK'
  <2>1. windows' \in [DOMAIN windows' -> [start : 0..now', cur : 0..MaxRequests,
                                        prev : 0..MaxRequests]]
    <3>1. \A k \in DOMAIN windows :
            windows[k] \in [start : 0..now', cur : 0..MaxRequests, prev : 0..MaxRequests]
      BY <1>1, <1>2 DEF TypeOK
    <3> QED BY <1>1, <3>1 DEF TypeOK
  <2>2. since' \in [Keys -> 0..now']
    BY <1>1, <1>2 DEF TypeOK
  <2>3. promise' \in [Keys -> [tokens : Nat, at : Nat, made : 0..now', again : BOOLEAN]]
    <3>1. [tokens : Nat, at : Nat, made : 0..now, again : BOOLEAN]
            \subseteq [tokens : Nat, at : Nat, made : 0..now', again : BOOLEAN]
      BY <1>2
    <3> QED BY <1>1, <3>1 DEF TypeOK
  <2> QED
    BY <1>1, <2>1, <2>2, <2>3 DEF TypeOK
<1>4. Aligned'
  <2>1. WindowStart' = WindowStart \/ WindowStart' = WindowStart + WindowMs
    BY <1>1, NextWindow
  <2>2. WindowStart \in Nat /\ \A k \in DOMAIN windows : windows[k].start \in Nat
    BY <1>1, Windows, StoredType
  <2> QED
    BY <1>1, <2>1, <2>2, WindowAssumption DEF Aligned
<1>5. ASSUME NEW k \in Keys PROVE Approximate(k)' <= MaxRequests
  <2>1. /\ Current(k).cur \in 0..MaxRequests /\ Current(k).prev \in 0..MaxRequests
        /\ Approximate(k) <= MaxRequests
    BY <1>1, CurrentType DEF NeverOverdrawn
  <2>2. CASE WindowStart' = WindowStart /\ Elapsed' = Elapsed + 1 /\ now' % WindowMs # 0
    <3>1. Current(k)' = Current(k)
      BY <1>1, <2>2, TickCurrent
    <3>2. PICK p \in Nat : p = Current(k).prev
      BY <2>1, WindowAssumption
    <3>3. Weighted(p)' <= Weighted(p) /\ Weighted(p) \in Nat /\ Weighted(p)' \in Int
      <4>1. Weighted(p)' <= Weighted(p) /\ Weighted(p) \in Nat
        BY <1>1, <2>2, WeightedShrinks, WeightedBetween
      <4>2. Weighted(p)' \in Int
        BY <1>1, WeightedInteger
      <4> QED BY <4>1, <4>2
    <3>4. Approximate(k) = Current(k).cur + Weighted(p)
      BY <3>2 DEF Approximate
    <3>5. Approximate(k)' = Current(k).cur + Weighted(p)'
      BY <3>1, <3>2 DEF Approximate, Weighted, Low
    <3> QED
      BY <2>1, <3>3, <3>4, <3>5, WindowAssumption
  <2>3. CASE WindowStart' = WindowStart + WindowMs /\ Elapsed' = 0 /\ now' % WindowMs = 0
    <3>1. Current(k)'.cur = 0 /\ Current(k)'.prev = Current(k).cur
      BY <1>1, <2>3, TickCurrent
    <3>2. PICK c \in Nat : c = Current(k).cur /\ c <= MaxRequests
      BY <2>1, WindowAssumption
    <3>3. Weighted(c)' = c
      <4>1. (c * (WindowMs - 0)) \div WindowMs = c
        BY WindowAssumption
      <4> QED BY <2>3, <4>1 DEF Weighted, Low
    <3>4. Approximate(k)' = 0 + Weighted(c)'
      BY <3>1, <3>2 DEF Approximate, Weighted, Low
    <3> QED
      BY <3>2, <3>3, <3>4
  <2> QED
    BY <1>1, <2>2, <2>3, NextWindow
<1> QED
  BY <1>3, <1>4, <1>5 DEF WindowInv, NeverOverdrawn

LEMMA WindowInit == Init => WindowInv
<1> SUFFICES ASSUME Init PROVE WindowInv
  OBVIOUS
<1>1. TypeOK /\ Aligned
  BY WindowAssumption DEF Init, TypeOK, Aligned, NoPromise, NoAnswer
<1>2. ASSUME NEW k \in Keys PROVE Approximate(k) <= MaxRequests
  <2>1. Current(k).cur = 0 /\ Current(k).prev = 0
    BY DEF Init, Current, StateOf, NewState, Rolled
  <2>2. Weighted(0) = 0
    BY <1>1, WeightedBetween DEF TypeOK
  <2> QED
    BY <2>1, <2>2, WindowAssumption DEF Approximate
<1> QED
  BY <1>1, <1>2 DEF WindowInv, NeverOverdrawn

LEMMA WindowStep == WindowInv /\ [Next]_vars => WindowInv'
<1> SUFFICES ASSUME WindowInv, [Next]_vars PROVE WindowInv'
  OBVIOUS
<1>1. ASSUME NEW k \in Keys, StartWindow(k) PROVE WindowInv'
  <2>1. UNCHANGED <<now, windows, answer, promise>>
    BY <1>1 DEF StartWindow
  <2>2. since' \in [Keys -> 0..now'] /\ spent' \in [Keys -> Nat]
    BY <1>1 DEF StartWindow, WindowInv, TypeOK
  <2>3. TypeOK'
    BY <2>1, <2>2 DEF WindowInv, TypeOK
  <2>4. Aligned' /\ NeverOverdrawn'
    BY <2>1 DEF WindowInv, Aligned, NeverOverdrawn, Approximate, Current, StateOf, NewState,
                Rolled, Weighted, Low, Elapsed, WindowStart
  <2> QED BY <2>3, <2>4 DEF WindowInv
<1>2. CASE UNCHANGED vars
  BY <1>2 DEF vars, WindowInv, TypeOK, Aligned, NeverOverdrawn, Approximate, Current, StateOf,
              NewState, Rolled, Weighted, Low, Elapsed, WindowStart
<1> QED
  BY <1>1, <1>2, AdmitStep, DenyStep, ResetStep, CleanupStep, TickStep DEF Next

\* No count exceeds the maximum, however windows roll.
THEOREM CountsBounded == Spec => []TypeOK
<1>1. WindowInv => TypeOK
  BY DEF WindowInv
<1> QED
  BY <1>1, WindowInit, WindowStep, PTL DEF Spec

\* Nor does the weighted count a request is judged by, between requests neither.
THEOREM NotOverdrawn == Spec => []NeverOverdrawn
<1>1. WindowInv => NeverOverdrawn
  BY DEF WindowInv
<1> QED
  BY <1>1, WindowInit, WindowStep, PTL DEF Spec

-----------------------------------------------------------------------------
(* The bound over any span shorter than a window.                           *)

\* What was admitted since a moment in this window is in its count, what was
\* admitted since one in the window before is in one of the two.
SpentInv ==
  \A k \in Keys :
    /\ since[k] >= WindowStart => spent[k] <= Current(k).cur
    /\ since[k] >= WindowStart - WindowMs => spent[k] <= Current(k).cur + Current(k).prev

\* Nothing is spent at first.
LEMMA SpentInit == Init => SpentInv
<1> SUFFICES ASSUME Init PROVE SpentInv
  OBVIOUS
<1>1. ASSUME NEW k \in Keys
      PROVE  spent[k] <= Current(k).cur /\ spent[k] <= Current(k).cur + Current(k).prev
  <2>1. spent[k] = 0 /\ Current(k).cur = 0 /\ Current(k).prev = 0
    BY DEF Init, Current, StateOf, NewState, Rolled
  <2> QED BY <2>1
<1> QED
  BY <1>1 DEF SpentInv

\* The step of one key within a tick: its counts grow by as much as is admitted.
LEMMA SpentKept ==
  ASSUME TypeOK, now' = now, NEW k \in Keys, NEW n \in Nat, SpentInv,
         Current(k)'.cur = Current(k).cur + n, Current(k)'.prev = Current(k).prev,
         since'[k] = since[k], spent'[k] = spent[k] + n
  PROVE  /\ since'[k] >= WindowStart' => spent'[k] <= Current(k)'.cur
         /\ since'[k] >= WindowStart' - WindowMs
              => spent'[k] <= Current(k)'.cur + Current(k)'.prev
<1>1. WindowStart' = WindowStart
  BY DEF WindowStart
<1>2. /\ Current(k).cur \in Nat /\ Current(k).prev \in Nat /\ spent[k] \in Nat
  BY CurrentType, WindowAssumption DEF TypeOK
<1> QED
  BY <1>1, <1>2 DEF SpentInv

\* Every step keeps it; a new window turns the count into the previous one.
LEMMA SpentStep == WindowInv /\ SpentInv /\ [Next]_vars => SpentInv'
<1> SUFFICES ASSUME WindowInv, SpentInv, [Next]_vars, NEW x \in Keys
             PROVE  /\ since'[x] >= WindowStart' => spent'[x] <= Current(x)'.cur
                    /\ since'[x] >= WindowStart' - WindowMs
                         => spent'[x] <= Current(x)'.cur + Current(x)'.prev
  BY DEF SpentInv
<1> DEFINE Good == /\ since'[x] >= WindowStart' => spent'[x] <= Current(x)'.cur
                   /\ since'[x] >= WindowStart' - WindowMs
                        => spent'[x] <= Current(x)'.cur + Current(x)'.prev
<1>0. TypeOK /\ Aligned
  BY DEF WindowInv
<1>0a. /\ Current(x).cur \in Nat /\ Current(x).prev \in Nat
       /\ spent[x] \in Nat /\ since[x] \in Nat /\ now \in Nat /\ since[x] <= now
  BY <1>0, CurrentType, WindowAssumption DEF TypeOK
<1>same. ASSUME now' = now, Current(x)' = Current(x), since'[x] = since[x], spent'[x] = spent[x]
         PROVE  Good
  BY <1>same, <1>0, <1>0a, SpentKept
<1>1. ASSUME NEW k \in Keys, NEW n \in Requests, Admit(k, n) PROVE Good
  <2> DEFINE s == [Current(k) EXCEPT !.cur = @ + n]
  <2>1. /\ s.start = WindowStart /\ s.cur = Current(k).cur + n /\ s.prev = Current(k).prev
    BY <1>0, CurrentType DEF Counts
  <2>2. now' = now /\ windows' = Stored(k, s) /\ since' = since
        /\ spent' = [spent EXCEPT ![k] = @ + n] /\ n \in Nat
    BY <1>1, WindowAssumption DEF Admit
  <2>3. Current(k)' = s /\ \A y \in Keys \ {k} : Current(y)' = Current(y)
    BY <2>1, <2>2, StoredCurrent
  <2>4. CASE x = k
    <3>1. spent'[k] = spent[k] + n
      BY <1>0, <2>2 DEF TypeOK
    <3>2. Current(k)'.cur = Current(k).cur + n /\ Current(k)'.prev = Current(k).prev
      BY <2>1, <2>3
    <3> QED
      BY <1>0, <2>2, <2>4, <3>1, <3>2, SpentKept
  <2>5. CASE x # k
    BY <1>same, <2>2, <2>3, <2>5
  <2> QED BY <2>4, <2>5
<1>2. ASSUME NEW k \in Keys, NEW n \in Requests, Deny(k, n) PROVE Good
  BY <1>2, <1>same, DenyStep DEF Deny
<1>3. ASSUME NEW k \in Keys, Reset(k) PROVE Good
  <2>1. Current(k)' = NewState /\ \A y \in Keys \ {k} : Current(y)' = Current(y)
    BY <1>3, ResetCurrent
  <2>2. now' = now /\ since' = [since EXCEPT ![k] = now] /\ spent' = [spent EXCEPT ![k] = 0]
    BY <1>3 DEF Reset
  <2>3. CASE x = k
    <3>1. spent'[k] = 0 /\ Current(k)'.cur = 0 /\ Current(k)'.prev = 0
      BY <1>0, <2>1, <2>2 DEF NewState, TypeOK
    <3> QED BY <2>3, <3>1
  <2>4. CASE x # k
    BY <1>same, <2>1, <2>2, <2>4
  <2> QED BY <2>3, <2>4
<1>4. ASSUME NEW k \in Keys, StartWindow(k) PROVE Good
  <2>1. /\ now' = now /\ since' = [since EXCEPT ![k] = now] /\ spent' = [spent EXCEPT ![k] = 0]
        /\ Current(x)' = Current(x)
    BY <1>4 DEF StartWindow, Current, StateOf, NewState, Rolled, WindowStart
  <2>2. CASE x = k
    <3>1. spent'[x] = 0
      BY <1>0, <2>1, <2>2 DEF TypeOK
    <3> QED BY <1>0a, <2>1, <3>1
  <2>3. CASE x # k
    BY <1>same, <2>1, <2>3
  <2> QED BY <2>2, <2>3
<1>5. CASE Cleanup
  BY <1>0, <1>5, <1>same, CleanupCurrent DEF Cleanup
<1>6. CASE Tick
  <2>1. now' = now + 1 /\ since' = since /\ spent' = spent
    BY <1>6 DEF Tick
  <2>2. CASE WindowStart' = WindowStart /\ now' % WindowMs # 0
    <3>1. Current(x)' = Current(x)
      BY <1>0, <1>6, <2>2, TickCurrent
    <3> QED BY <2>1, <2>2, <3>1 DEF SpentInv
  <2>3. CASE WindowStart' = WindowStart + WindowMs /\ now' % WindowMs = 0
    <3>1. Current(x)'.cur = 0 /\ Current(x)'.prev = Current(x).cur
      BY <1>0, <1>6, <2>3, TickCurrent
    <3>2. WindowStart \in Nat /\ now < WindowStart + WindowMs
      BY <1>0a, Windows
    <3>3. ~(since'[x] >= WindowStart')
      BY <1>0a, <2>1, <2>3, <3>2, WindowAssumption
    <3>4. since'[x] >= WindowStart' - WindowMs => spent'[x] <= Current(x).cur
      BY <2>1, <2>3, <3>2, WindowAssumption DEF SpentInv
    <3> QED BY <1>0a, <3>1, <3>3, <3>4
  <2> QED BY <1>0a, <2>1, <2>2, <2>3, NextWindow
<1>7. CASE UNCHANGED vars
  BY <1>7, <1>same DEF vars, Current, StateOf, NewState, Rolled, WindowStart
<1> QED
  BY <1>1, <1>2, <1>3, <1>4, <1>5, <1>6, <1>7 DEF Next

\* A weight falls short of the exact share by less than one, or, rounded down, by one.
LEMMA WeightedAtLeast ==
  ASSUME now \in Nat, NEW p \in Nat
  PROVE  p * (WindowMs - Elapsed) <= WindowMs * (Weighted(p) + 1)
<1> DEFINE y == p * (WindowMs - Elapsed)
           q == y \div WindowMs
<1>1. WindowMs \in Nat \ {0} /\ Elapsed \in 0..(WindowMs - 1)
  BY Windows, WindowAssumption
<1>2. y \in Nat
  BY <1>1
<1>3. q \in Nat /\ y % WindowMs \in 0..(WindowMs - 1) /\ y = (q * WindowMs) + (y % WindowMs)
  BY <1>1, <1>2, Division
<1>4. CASE Weighted(p) = q
  <2>1. WindowMs * (q + 1) = (q * WindowMs) + WindowMs
    BY <1>1, <1>3
  <2> QED BY <1>1, <1>3, <1>4, <2>1
<1>5. CASE y % WindowMs = 0 /\ Weighted(p) = q - 1
  <2>1. WindowMs * (Weighted(p) + 1) = q * WindowMs
    <3>1. (q - 1) + 1 = q
      BY <1>3
    <3>2. Weighted(p) + 1 = q
      BY <1>5, <3>1
    <3> QED BY <1>1, <1>3, <3>2
  <2>2. y = q * WindowMs
    BY <1>1, <1>3, <1>5
  <2> QED BY <1>2, <2>1, <2>2
<1> QED
  BY <1>3, <1>4, <1>5 DEF Weighted, Low

\* In any span shorter than a window, aligned or not, a key is admitted at most
\* the maximum, one more, and what the weight of the window before has lost.
THEOREM SpansBounded == Spec => []RollingBound
<1>1. WindowInv /\ SpentInv => RollingBound
  <2> SUFFICES ASSUME WindowInv, SpentInv, NEW k \in Keys, Rolling(k)
               PROVE  WindowMs * (spent[k] - MaxRequests - 1) <= MaxRequests * Elapsed
    BY DEF RollingBound
  <2>1. /\ TypeOK /\ now \in Nat /\ spent[k] \in Nat /\ since[k] \in Nat
        /\ Approximate(k) <= MaxRequests
    BY DEF WindowInv, TypeOK, NeverOverdrawn
  <2>2. PICK c \in Nat, p \in Nat, v \in Nat :
          /\ c = Current(k).cur /\ p = Current(k).prev /\ v = Weighted(p)
          /\ p <= MaxRequests
    BY <2>1, CurrentType, ApproximateType, WindowAssumption
  <2>3. PICK w \in Nat \ {0}, m \in Nat, e \in Nat :
          w = WindowMs /\ m = MaxRequests /\ e = Elapsed /\ e < w
    BY <2>1, Windows, WindowAssumption
  <2>4. spent[k] <= c + p
    <3>1. since[k] >= WindowStart - WindowMs
      BY <2>1, Windows, WindowAssumption DEF Rolling
    <3> QED BY <2>2, <3>1 DEF SpentInv
  <2>5. c + v <= m
    BY <2>1, <2>2, <2>3 DEF Approximate
  <2>6. p * (w - e) <= w * (v + 1)
    BY <2>1, <2>2, <2>3, WeightedAtLeast
  <2>7. p * w <= (w * v) + w + (p * e)
    BY <2>2, <2>3, <2>6
  <2>8. w * (c + v) <= w * m /\ p * e <= m * e
    <3>1. PICK d \in Nat : m = c + v + d
      <4>1. m - (c + v) \in Nat /\ m = c + v + (m - (c + v))
        BY <2>5
      <4> QED BY <4>1
    <3>2. PICK g \in Nat : m = p + g
      <4>1. m - p \in Nat /\ m = p + (m - p)
        BY <2>2, <2>3
      <4> QED BY <4>1
    <3>3. w * m = (w * (c + v)) + (w * d) /\ w * d \in Nat
      BY <3>1
    <3>4. m * e = (p * e) + (g * e) /\ g * e \in Nat
      BY <3>2
    <3> QED BY <3>3, <3>4
  <2>9. w * spent[k] <= w * (c + p)
    <3>1. PICK d \in Nat : c + p = spent[k] + d
      <4>1. (c + p) - spent[k] \in Nat /\ c + p = spent[k] + ((c + p) - spent[k])
        BY <2>1, <2>4
      <4> QED BY <4>1
    <3>2. w * (spent[k] + d) = (w * spent[k]) + (w * d) /\ w * d \in Nat /\ w * spent[k] \in Nat
      BY <2>1
    <3> QED BY <3>1, <3>2
  <2>10. w * (spent[k] - m - 1) <= m * e
    <3>1. w * (spent[k] - m - 1) = (w * spent[k]) - (w * m) - w
      BY <2>1
    <3>2. w * (c + p) = (w * c) + (p * w) /\ w * (c + v) = (w * c) + (w * v)
      OBVIOUS
    <3> QED BY <2>1, <2>7, <2>8, <2>9, <3>1, <3>2
  <2> QED BY <2>3, <2>10
<1> QED
  BY <1>1, WindowInit, WindowStep, SpentInit, SpentStep, PTL DEF Spec

-----------------------------------------------------------------------------
(* The promise of retryAfterMs.                                             *)

\* Low and Weighted when f ticks of the window have passed.
LowAt(p, f) ==
  (p * (WindowMs - f)) % WindowMs = 0 /\ p # 0 /\ f # 0 /\ <<p, f>> \in RoundsDown
WeightedAt(p, f) ==
  (p * (WindowMs - f)) \div WindowMs - (IF LowAt(p, f) THEN 1 ELSE 0)

\* At every time left in the window that is not before the promised one, what was
\* asked for fits.
RetryInv ==
  \A k \in Keys :
    promise[k].tokens > 0 /\ promise[k].made = WindowStart
      => \A f \in Elapsed..(WindowMs - 1) :
           WindowStart + f >= promise[k].at
             => Current(k).cur + WeightedAt(Current(k).prev, f) + promise[k].tokens
                  <= MaxRequests

\* Waiting for the missing tokens' worth of weight frees them, and waiting longer
\* does if the product was low when the client was refused.
LEMMA WeightFalls ==
  ASSUME NEW p \in Nat \ {0}, NEW e \in Nat, NEW f \in Nat, NEW d \in Nat \ {0},
         e < f, f < WindowMs, p * (f - e) >= WindowMs * d,
         LowAt(p, e) => p * (f - e) > WindowMs * d
  PROVE  WeightedAt(p, f) + d <= WeightedAt(p, e)
<1> DEFINE x == p * (WindowMs - e)
           y == p * (WindowMs - f)
           z == x - (WindowMs * d)
<1>1. WindowMs \in Nat \ {0} /\ x \in Nat /\ y \in Nat /\ WindowMs * d \in Nat
  BY WindowAssumption
<1>2. y <= z /\ z \in Nat /\ (LowAt(p, e) => y < z)
  <2>1. x = y + (p * (f - e)) /\ p * (f - e) \in Nat
    BY <1>1
  <2> QED BY <1>1, <2>1
<1>3. /\ x \div WindowMs \in Nat /\ y \div WindowMs \in Nat /\ z \div WindowMs \in Nat
      /\ x % WindowMs \in 0..(WindowMs - 1) /\ z % WindowMs \in 0..(WindowMs - 1)
      /\ x = ((x \div WindowMs) * WindowMs) + (x % WindowMs)
      /\ z = ((z \div WindowMs) * WindowMs) + (z % WindowMs)
  BY <1>1, <1>2, Division
<1>4. x \div WindowMs = (z \div WindowMs) + d /\ x % WindowMs = z % WindowMs
  <2>1. x = z + (WindowMs * d)
    BY <1>1
  <2> HIDE DEF x, z
  <2>2. (z + (WindowMs * d)) \div WindowMs = (z \div WindowMs) + d
        /\ (z + (WindowMs * d)) % WindowMs = z % WindowMs
    BY <1>1, <1>2, Shift
  <2> QED BY <2>1, <2>2
<1>5. /\ y \div WindowMs <= z \div WindowMs
      /\ z % WindowMs = 0 /\ y < z => y \div WindowMs <= (z \div WindowMs) - 1
  BY <1>1, <1>2, Quotients
<1>6. /\ WeightedAt(p, f) \in Int /\ WeightedAt(p, e) \in Int
      /\ WeightedAt(p, f) <= y \div WindowMs
  BY <1>3 DEF WeightedAt
<1>7. CASE ~LowAt(p, e) /\ WeightedAt(p, e) = x \div WindowMs
  BY <1>3, <1>4, <1>5, <1>6, <1>7
<1>8. CASE LowAt(p, e) /\ WeightedAt(p, e) = (x \div WindowMs) - 1
  <2>1. z % WindowMs = 0
    BY <1>4, <1>8 DEF LowAt
  <2> QED BY <1>2, <1>3, <1>4, <1>5, <1>6, <1>8, <2>1
<1> QED
  BY <1>3, <1>7, <1>8 DEF WeightedAt

LEMMA WeightedAtInteger ==
  ASSUME NEW p \in Nat, NEW f \in Nat, f < WindowMs
  PROVE  WeightedAt(p, f) \in Int
<1>1. p * (WindowMs - f) \in Nat
  BY WindowAssumption
<1>2. (p * (WindowMs - f)) \div WindowMs \in Nat
  BY <1>1, WindowAssumption, Division
<1> QED
  BY <1>2 DEF WeightedAt

\* A quotient rounded up is enough.
LEMMA CeilDivides ==
  ASSUME NEW a \in Nat, NEW b \in Nat \ {0}
  PROVE  CeilDiv(a, b) \in Nat /\ b * CeilDiv(a, b) >= a
<1> DEFINE x == a + b - 1
           q == x \div b
<1>1. x \in Nat
  OBVIOUS
<1>2. q \in Nat /\ x % b \in 0..(b - 1) /\ x = (q * b) + (x % b)
  BY <1>1, Division
<1>3. b * q >= a
  BY <1>2
<1> QED BY <1>2, <1>3 DEF CeilDiv

\* A wait longer than the quotient, or one that a quotient with a remainder was
\* rounded up for, does more than the division asked.
LEMMA CeilExceeds ==
  ASSUME NEW a \in Nat, NEW b \in Nat \ {0}, NEW g \in Nat, g >= CeilDiv(a, b),
         a % b = 0 => g >= CeilDiv(a, b) + 1
  PROVE  b * g > a
<1>1. PICK q \in Nat : q = CeilDiv(a, b) /\ b * q >= a
  BY CeilDivides
<1>2. PICK h \in Nat : g = q + h
  <2>1. g - q \in Nat /\ g = q + (g - q)
    BY <1>1
  <2> QED BY <2>1
<1>3. b * g = (b * q) + (b * h) /\ b * q \in Nat /\ b * h \in Nat
  BY <1>2
<1>4. CASE a % b = 0
  <2>1. h # 0
    BY <1>1, <1>2, <1>4
  <2>2. PICK i \in Nat : h = i + 1
    <3>1. h - 1 \in Nat /\ h = (h - 1) + 1
      BY <2>1
    <3> QED BY <3>1
  <2>3. b * h = (b * i) + b /\ b * i \in Nat
    BY <2>2
  <2> QED BY <1>1, <1>3, <2>3
<1>5. CASE a % b # 0
  <2> SUFFICES ASSUME b * g = a PROVE FALSE
    BY <1>1, <1>3
  <2>1. a % b = 0
    <3>1. (0 + (b * g)) % b = 0 % b
      BY Shift
    <3>2. 0 % b = 0 /\ 0 + (b * g) = b * g
      BY <1>3
    <3> QED BY <3>1, <3>2
  <2> QED BY <1>5, <2>1
<1> QED BY <1>4, <1>5

\* A refused client is told a time from which on its tokens fit.
LEMMA PromiseMade ==
  ASSUME WindowInv, NEW k \in Keys, NEW n \in Requests,
         Approximate(k) + n > MaxRequests,
         NEW f \in Elapsed..(WindowMs - 1), WindowStart + f >= now + RetryAfter(k, n)
  PROVE  Current(k).cur + WeightedAt(Current(k).prev, f) + n <= MaxRequests
<1>1. /\ TypeOK /\ now \in Nat /\ n \in Nat \ {0}
      /\ Approximate(k) <= MaxRequests /\ Approximate(k) \in Nat
  BY ApproximateType, WindowAssumption DEF WindowInv, TypeOK, NeverOverdrawn
<1>2. PICK c \in Nat, p \in Nat, a \in Nat :
        c = Current(k).cur /\ p = Current(k).prev /\ a = Approximate(k)
  BY <1>1, CurrentType, WindowAssumption
<1>3. PICK w \in Nat \ {0}, m \in Nat \ {0}, e \in Nat :
        /\ w = WindowMs /\ m = MaxRequests /\ e = Elapsed /\ e < w
        /\ now = WindowStart + e /\ WindowStart \in Nat
  BY <1>1, Windows, WindowAssumption DEF Elapsed
<1>4. PICK d \in Nat \ {0} : d = n - (m - a)
  <2>1. n - (m - a) \in Nat \ {0}
    BY <1>1, <1>2, <1>3
  <2> QED BY <2>1
<1>5. f \in Nat /\ f < w /\ f >= e + RetryAfter(k, n)
  <2>1. RetryAfter(k, n) \in Nat
    BY <1>1, RetryAfterType
  <2> QED BY <1>3, <2>1
<1>6. RetryAfter(k, n) = Clamp(IF p = 0 THEN (w - e) * d
                               ELSE CeilDiv(w * d, p) + (IF High(p, d) THEN 1 ELSE 0))
  <2>1. ~(m < a)
    BY <1>1, <1>2, <1>3
  <2> QED BY <1>2, <1>3, <1>4, <2>1 DEF RetryAfter
<1>7. p # 0
  <2> SUFFICES ASSUME p = 0 PROVE FALSE
    OBVIOUS
  <2>1. (w - e) * d >= w - e /\ (w - e) * d \in Nat
    BY <1>3, <1>4
  <2>2. RetryAfter(k, n) >= w - e
    BY <1>3, <1>6, <2>1 DEF Clamp
  <2>3. RetryAfter(k, n) \in Nat
    BY <1>1, RetryAfterType
  <2> QED BY <1>3, <1>5, <2>2, <2>3
<1>q. PICK q \in Nat : q = CeilDiv(w * d, p) /\ p * q >= w * d
  BY <1>3, <1>4, <1>7, CeilDivides
<1>8. f - e \in Nat /\ f - e >= 1 /\ f - e >= q + (IF High(p, d) THEN 1 ELSE 0)
  <2> DEFINE r == q + (IF High(p, d) THEN 1 ELSE 0)
  <2>1. r \in Nat
    BY <1>q
  <2>2. RetryAfter(k, n) = Clamp(r) /\ RetryAfter(k, n) \in Nat
    BY <1>1, <1>6, <1>7, <1>q, RetryAfterType
  <2>3. RetryAfter(k, n) # w
    BY <1>3, <1>5, <2>2
  <2> HIDE DEF r
  <2>4. RetryAfter(k, n) >= r /\ RetryAfter(k, n) >= 1
    BY <1>3, <2>1, <2>2, <2>3 DEF Clamp
  <2>5. f - e \in Nat /\ f - e >= 1 /\ f - e >= r
    BY <1>3, <1>5, <2>1, <2>2, <2>4
  <2> QED BY <2>5 DEF r
<1>9. p * (f - e) >= w * d /\ e < f
  <2>1. f - e >= q /\ e < f
    BY <1>3, <1>5, <1>8, <1>q
  <2>3. PICK g \in Nat : f - e = q + g
    <3>1. (f - e) - q \in Nat /\ f - e = q + ((f - e) - q)
      BY <1>8, <1>q, <2>1
    <3> QED BY <3>1
  <2>4. p * (q + g) = (p * q) + (p * g) /\ p * g \in Nat /\ p * q \in Nat /\ w * d \in Nat
    BY <1>3, <1>4, <1>q
  <2> QED BY <1>q, <2>1, <2>3, <2>4
\* A product that came out low has had the quotient rounded up by one more.
<1>low. LowAt(p, e) => p * (f - e) > w * d
  <2> SUFFICES ASSUME LowAt(p, e) PROVE p * (f - e) > w * d
    OBVIOUS
  <2>1. Low(p) /\ Elapsed # 0
    BY <1>3 DEF LowAt, Low
  <2>2. (w * d) % p = 0 => High(p, d)
    BY <1>3, <2>1 DEF High
  <2>3. (w * d) % p = 0 => f - e >= CeilDiv(w * d, p) + 1
    BY <1>8, <1>q, <2>2
  <2>4. f - e >= CeilDiv(w * d, p)
    BY <1>8, <1>q
  <2>5. w * d \in Nat /\ p \in Nat \ {0}
    BY <1>3, <1>4, <1>7
  <2> QED BY <1>8, <2>3, <2>4, <2>5, CeilExceeds
<1>10. WeightedAt(p, f) + d <= WeightedAt(p, e)
  BY <1>3, <1>4, <1>5, <1>7, <1>9, <1>low, WeightFalls
<1>11. a = c + WeightedAt(p, e)
  BY <1>2, <1>3 DEF Approximate, Weighted, Low, WeightedAt, LowAt
<1>12. WeightedAt(p, f) \in Int /\ WeightedAt(p, e) \in Int
  BY <1>3, <1>5, WeightedAtInteger
<1> QED
  BY <1>1, <1>2, <1>3, <1>4, <1>10, <1>11, <1>12

\* No promise is out at first.
LEMMA RetryInit == Init => RetryInv
  BY DEF Init, RetryInv, NoPromise

\* Whatever leaves a key's counts, its promise and the window alone keeps the
\* promise; time only takes moments away.
LEMMA PromiseKept ==
  ASSUME RetryInv, NEW k \in Keys, WindowStart' = WindowStart,
         Elapsed'..(WindowMs - 1) \subseteq Elapsed..(WindowMs - 1),
         Current(k)' = Current(k), promise'[k] = promise[k]
  PROVE  promise'[k].tokens > 0 /\ promise'[k].made = WindowStart'
           => \A f \in Elapsed'..(WindowMs - 1) :
                WindowStart' + f >= promise'[k].at
                  => Current(k)'.cur + WeightedAt(Current(k)'.prev, f) + promise'[k].tokens
                       <= MaxRequests
  BY DEF RetryInv

\* A promise is made when a request is denied, and dropped by what would break it.
LEMMA RetryStep == WindowInv /\ RetryInv /\ [Next]_vars => RetryInv'
<1> SUFFICES ASSUME WindowInv, RetryInv, [Next]_vars, NEW x \in Keys
             PROVE  promise'[x].tokens > 0 /\ promise'[x].made = WindowStart'
                      => \A f \in Elapsed'..(WindowMs - 1) :
                           WindowStart' + f >= promise'[x].at
                             => Current(x)'.cur + WeightedAt(Current(x)'.prev, f)
                                  + promise'[x].tokens <= MaxRequests
  BY DEF RetryInv, WeightedAt, LowAt
<1> DEFINE Good == promise'[x].tokens > 0 /\ promise'[x].made = WindowStart'
                      => \A f \in Elapsed'..(WindowMs - 1) :
                           WindowStart' + f >= promise'[x].at
                             => Current(x)'.cur + WeightedAt(Current(x)'.prev, f)
                                  + promise'[x].tokens <= MaxRequests
<1>0. TypeOK /\ Aligned /\ now \in Nat /\ promise \in [Keys -> [tokens : Nat, at : Nat, made : 0..now, again : BOOLEAN]]
  BY DEF WindowInv, TypeOK
<1>same. ASSUME now' = now, Current(x)' = Current(x), promise'[x] = promise[x] PROVE Good
  <2>1. WindowStart' = WindowStart /\ Elapsed' = Elapsed
    BY <1>same DEF WindowStart, Elapsed
  <2> QED BY <1>same, <2>1, PromiseKept
<1>none. ASSUME promise'[x] = NoPromise PROVE Good
  BY <1>none DEF NoPromise
<1>1. ASSUME NEW k \in Keys, NEW n \in Requests, Admit(k, n) PROVE Good
  <2> DEFINE s == [Current(k) EXCEPT !.cur = @ + n]
  <2>1. s.start = WindowStart
    BY <1>0, CurrentType DEF Counts
  <2>2. now' = now /\ windows' = Stored(k, s) /\ promise' = [promise EXCEPT ![k] = NoPromise]
    BY <1>1 DEF Admit
  <2>3. \A y \in Keys \ {k} : Current(y)' = Current(y)
    BY <2>1, <2>2, StoredCurrent
  <2>4. CASE x = k
    BY <1>0, <1>none, <2>2, <2>4
  <2>5. CASE x # k
    BY <1>0, <1>same, <2>2, <2>3, <2>5
  <2> QED BY <2>4, <2>5
<1>2. ASSUME NEW k \in Keys, NEW n \in Requests, Deny(k, n) PROVE Good
  <2>1. Current(x)' = Current(x)
    BY <1>2, DenyStep
  <2>2. /\ now' = now /\ Approximate(k) + n > MaxRequests
        /\ promise' = [promise EXCEPT ![k] =
             [tokens |-> n, at |-> now + RetryAfter(k, n), made |-> WindowStart,
              again |-> n <= promise[k].tokens /\ promise[k].at <= now]]
    BY <1>2 DEF Deny
  <2>3. CASE x = k
    <3>1. promise'[x].tokens = n /\ promise'[x].at = now + RetryAfter(k, n)
      BY <1>0, <2>2, <2>3
    <3>2. WindowStart' = WindowStart /\ Elapsed' = Elapsed
      BY <2>2 DEF WindowStart, Elapsed
    <3> QED BY <2>1, <2>2, <2>3, <3>1, <3>2, PromiseMade
  <2>4. CASE x # k
    BY <1>0, <1>same, <2>1, <2>2, <2>4
  <2> QED BY <2>3, <2>4
<1>3. ASSUME NEW k \in Keys, Reset(k) PROVE Good
  <2>1. \A y \in Keys \ {k} : Current(y)' = Current(y)
    BY <1>3, ResetCurrent
  <2>2. now' = now /\ promise' = [promise EXCEPT ![k] = NoPromise]
    BY <1>3 DEF Reset
  <2>3. CASE x = k
    BY <1>0, <1>none, <2>2, <2>3
  <2>4. CASE x # k
    BY <1>0, <1>same, <2>1, <2>2, <2>4
  <2> QED BY <2>3, <2>4
<1>4. ASSUME NEW k \in Keys, StartWindow(k) PROVE Good
  BY <1>4, <1>same DEF StartWindow, Current, StateOf, NewState, Rolled, WindowStart
<1>5. CASE Cleanup
  BY <1>0, <1>5, <1>same, CleanupCurrent DEF Cleanup
<1>6. CASE Tick
  <2>1. now' = now + 1 /\ promise' = promise
    BY <1>6 DEF Tick
  <2>2. CASE WindowStart' = WindowStart /\ Elapsed' = Elapsed + 1 /\ now' % WindowMs # 0
    <3>1. Current(x)' = Current(x)
      BY <1>0, <1>6, <2>2, TickCurrent
    <3>2. Elapsed'..(WindowMs - 1) \subseteq Elapsed..(WindowMs - 1)
      BY <1>0, <2>2, Windows, WindowAssumption
    <3> QED BY <2>1, <2>2, <3>1, <3>2, PromiseKept
  <2>3. CASE WindowStart' = WindowStart + WindowMs
    <3>1. promise'[x].made # WindowStart'
      <4>1. promise[x].made \in 0..now
        BY <1>0
      <4>2. now < WindowStart + WindowMs /\ WindowStart \in Nat
        BY <1>0, Windows
      <4> QED BY <1>0, <2>1, <2>3, <4>1, <4>2, WindowAssumption
    <3> QED BY <3>1
  <2> QED BY <1>0, <2>1, <2>2, <2>3, NextWindow
<1>7. CASE UNCHANGED vars
  BY <1>7, <1>same DEF vars, Current, StateOf, NewState, Rolled, WindowStart
<1> QED
  BY <1>1, <1>2, <1>3, <1>4, <1>5, <1>6, <1>7 DEF Next

LEMMA KeptInWindow ==
  ASSUME WindowInv, RetryInv, NEW k \in Keys, promise[k].tokens > 0,
         now >= promise[k].at, WindowStart = promise[k].made
  PROVE  Approximate(k) + promise[k].tokens <= MaxRequests
<1>1. now \in Nat
  BY DEF WindowInv, TypeOK
<1>2. Elapsed \in Elapsed..(WindowMs - 1) /\ WindowStart + Elapsed = now
  BY <1>1, Windows, WindowAssumption DEF Elapsed
<1>3. Approximate(k) = Current(k).cur + WeightedAt(Current(k).prev, Elapsed)
  BY DEF Approximate, Weighted, Low, WeightedAt, LowAt
<1> QED BY <1>2, <1>3 DEF RetryInv

\* While a promise is out its key admits nothing: a window later nothing counts
\* against it but the window before, and two windows later nothing at all.  A client
\* is refused on coming back in time only in a later window.
IdleInv ==
  \A k \in Keys :
    promise[k].tokens > 0 =>
      /\ promise[k].made # WindowStart \/ promise[k].again => Current(k).cur = 0
      /\ promise[k].made # WindowStart /\ promise[k].again => Current(k).prev = 0

LEMMA IdleInit == Init => IdleInv
  BY DEF Init, IdleInv, NoPromise

LEMMA IdleStep == WindowInv /\ RetryInv /\ IdleInv /\ [Next]_vars => IdleInv'
<1> SUFFICES ASSUME WindowInv, RetryInv, IdleInv, [Next]_vars, NEW x \in Keys,
                    promise'[x].tokens > 0
             PROVE  /\ promise'[x].made # WindowStart' \/ promise'[x].again
                         => Current(x)'.cur = 0
                    /\ promise'[x].made # WindowStart' /\ promise'[x].again
                         => Current(x)'.prev = 0
  BY DEF IdleInv
<1> DEFINE Good == /\ promise'[x].made # WindowStart' \/ promise'[x].again
                        => Current(x)'.cur = 0
                   /\ promise'[x].made # WindowStart' /\ promise'[x].again
                        => Current(x)'.prev = 0
<1>0. /\ TypeOK /\ Aligned /\ now \in Nat
      /\ promise \in [Keys -> [tokens : Nat, at : Nat, made : 0..now, again : BOOLEAN]]
  BY DEF WindowInv, TypeOK
<1>same. ASSUME now' = now, Current(x)' = Current(x), promise'[x] = promise[x] PROVE Good
  <2>1. WindowStart' = WindowStart
    BY <1>same DEF WindowStart
  <2> QED BY <1>same, <2>1 DEF IdleInv
<1>none. ASSUME promise'[x] = NoPromise PROVE Good
  BY <1>none DEF NoPromise
<1>1. ASSUME NEW k \in Keys, NEW n \in Requests, Admit(k, n) PROVE Good
  <2> DEFINE s == [Current(k) EXCEPT !.cur = @ + n]
  <2>1. s.start = WindowStart
    BY <1>0, CurrentType DEF Counts
  <2>2. now' = now /\ windows' = Stored(k, s) /\ promise' = [promise EXCEPT ![k] = NoPromise]
    BY <1>1 DEF Admit
  <2>3. \A y \in Keys \ {k} : Current(y)' = Current(y)
    BY <2>1, <2>2, StoredCurrent
  <2>4. CASE x = k
    BY <1>0, <1>none, <2>2, <2>4
  <2>5. CASE x # k
    BY <1>0, <1>same, <2>2, <2>3, <2>5
  <2> QED BY <2>4, <2>5
<1>2. ASSUME NEW k \in Keys, NEW n \in Requests, Deny(k, n) PROVE Good
  <2>1. Current(x)' = Current(x)
    BY <1>2, DenyStep
  <2>2. /\ now' = now /\ Approximate(k) + n > MaxRequests
        /\ promise' = [promise EXCEPT ![k] =
             [tokens |-> n, at |-> now + RetryAfter(k, n), made |-> WindowStart,
              again |-> n <= promise[k].tokens /\ promise[k].at <= now]]
    BY <1>2 DEF Deny
  <2>3. CASE x = k
    <3>1. /\ promise'[x].made = WindowStart
          /\ promise'[x].again <=> n <= promise[x].tokens /\ promise[x].at <= now
      BY <1>0, <2>2, <2>3
    <3>2. WindowStart' = WindowStart
      BY <2>2 DEF WindowStart
    <3>3. ASSUME n <= promise[x].tokens, promise[x].at <= now PROVE Current(x).cur = 0
      <4>1. /\ n \in Nat \ {0} /\ promise[x].tokens \in Nat /\ promise[x].at \in Nat
            /\ promise[x].tokens > 0
        BY <1>0, <3>3, WindowAssumption
      <4>2. Approximate(x) \in Nat /\ MaxRequests \in Nat
        BY <1>0, ApproximateType, WindowAssumption
      <4>3. promise[x].made # WindowStart
        BY <1>0, <2>2, <2>3, <3>3, <4>1, <4>2, KeptInWindow
      <4> QED BY <4>1, <4>3 DEF IdleInv
    <3> QED BY <2>1, <3>1, <3>2, <3>3
  <2>4. CASE x # k
    BY <1>0, <1>same, <2>1, <2>2, <2>4
  <2> QED BY <2>3, <2>4
<1>3. ASSUME NEW k \in Keys, Reset(k) PROVE Good
  <2>1. \A y \in Keys \ {k} : Current(y)' = Current(y)
    BY <1>3, ResetCurrent
  <2>2. now' = now /\ promise' = [promise EXCEPT ![k] = NoPromise]
    BY <1>3 DEF Reset
  <2>3. CASE x = k
    BY <1>0, <1>none, <2>2, <2>3
  <2>4. CASE x # k
    BY <1>0, <1>same, <2>1, <2>2, <2>4
  <2> QED BY <2>3, <2>4
<1>4. ASSUME NEW k \in Keys, StartWindow(k) PROVE Good
  BY <1>4, <1>same DEF StartWindow, Current, StateOf, NewState, Rolled, WindowStart
<1>5. CASE Cleanup
  BY <1>0, <1>5, <1>same, CleanupCurrent DEF Cleanup
<1>6. CASE Tick
  <2>1. now' = now + 1 /\ promise' = promise
    BY <1>6 DEF Tick
  <2>2. CASE WindowStart' = WindowStart /\ Elapsed' = Elapsed + 1 /\ now' % WindowMs # 0
    <3>1. Current(x)' = Current(x)
      BY <1>0, <1>6, <2>2, TickCurrent
    <3> QED BY <2>1, <2>2, <3>1 DEF IdleInv
  <2>3. CASE WindowStart' = WindowStart + WindowMs /\ now' % WindowMs = 0
    <3>1. Current(x)'.cur = 0 /\ Current(x)'.prev = Current(x).cur
      BY <1>0, <1>6, <2>3, TickCurrent
    <3>2. promise[x].again => Current(x).cur = 0
      BY <2>1 DEF IdleInv
    <3> QED BY <2>1, <3>1, <3>2
  <2> QED BY <1>0, <2>1, <2>2, <2>3, NextWindow
<1>7. CASE UNCHANGED vars
  BY <1>7, <1>same DEF vars, Current, StateOf, NewState, Rolled, WindowStart
<1> QED
  BY <1>1, <1>2, <1>3, <1>4, <1>5, <1>6, <1>7 DEF Next

\* A client that waits as long as it was told finds its tokens, within the window
\* and if its key admits nothing else, whichever products and quotients are rounded;
\* one that is refused because a new window began while it waited is refused once.
THEOREM RetriesHonoured == Spec => []RetryHonoured
<1>1. WindowInv /\ RetryInv /\ IdleInv => RetryHonoured
  <2> SUFFICES ASSUME WindowInv, RetryInv, IdleInv, NEW k \in Keys, promise[k].tokens > 0,
                      now >= promise[k].at,
                      \/ promise[k].made = WindowStart
                      \/ promise[k].again /\ promise[k].tokens <= MaxRequests
               PROVE  Approximate(k) + promise[k].tokens <= MaxRequests
    BY DEF RetryHonoured
  <2>1. CASE promise[k].made = WindowStart
    BY <2>1, KeptInWindow
  <2>2. CASE /\ promise[k].made # WindowStart
             /\ promise[k].again /\ promise[k].tokens <= MaxRequests
    <3>1. Current(k).cur = 0 /\ Current(k).prev = 0
      BY <2>2 DEF IdleInv
    <3>2. Weighted(0) = 0 /\ promise[k].tokens \in Nat
      <4>1. now \in Nat /\ promise[k].tokens \in Nat
        BY DEF WindowInv, TypeOK
      <4> QED BY <4>1, WeightedBetween
    <3> QED BY <2>2, <3>1, <3>2, WindowAssumption DEF Approximate
  <2> QED BY <2>1, <2>2
<1> QED
  BY <1>1, WindowInit, WindowStep, RetryInit, RetryStep, IdleInit, IdleStep, PTL DEF Spec

-----------------------------------------------------------------------------
(* The bound over any span.                                                 *)

\* What a key was admitted before the current window is at most the maximum for
\* each window it began in since.
LongRunInv ==
  \A k \in Keys :
    spent[k] <= (MaxRequests * ((now \div WindowMs) - (since[k] \div WindowMs))) + Current(k).cur

\* A tick stays in its window or begins the next.
LEMMA NextQuotient ==
  ASSUME now \in Nat, now' = now + 1
  PROVE  \/ now' \div WindowMs = now \div WindowMs /\ now' % WindowMs # 0
         \/ now' \div WindowMs = (now \div WindowMs) + 1 /\ now' % WindowMs = 0
<1> DEFINE q == now \div WindowMs
           r == now' \div WindowMs
<1>1. /\ q \in Nat /\ now % WindowMs \in 0..(WindowMs - 1)
      /\ now = (q * WindowMs) + (now % WindowMs)
  BY WindowAssumption, Division
<1>2. WindowMs \in Nat \ {0} /\ now' \in Nat
  BY WindowAssumption
<1>3. /\ r \in Nat /\ now' % WindowMs \in 0..(WindowMs - 1)
      /\ now' = (r * WindowMs) + (now' % WindowMs)
  BY <1>2, Division
<1>4. CASE (now % WindowMs) + 1 \in 0..(WindowMs - 1)
  <2>1. (q * WindowMs) + ((now % WindowMs) + 1) = (r * WindowMs) + (now' % WindowMs)
    BY <1>1, <1>2, <1>3
  <2>2. q = r /\ (now % WindowMs) + 1 = now' % WindowMs
    BY <1>1, <1>2, <1>3, <1>4, <2>1, UniqueQuotient
  <2> QED BY <1>1, <2>2
<1>5. CASE (now % WindowMs) + 1 \notin 0..(WindowMs - 1)
  <2>1. (now % WindowMs) + 1 = WindowMs /\ (q + 1) * WindowMs = (q * WindowMs) + WindowMs
    BY <1>1, <1>2, <1>5
  <2>2. PICK n \in Nat : n = q + 1
    BY <1>1
  <2>3. (n * WindowMs) + 0 = (r * WindowMs) + (now' % WindowMs)
    BY <1>1, <1>2, <1>3, <2>1, <2>2
  <2>4. 0 \in 0..(WindowMs - 1)
    BY <1>2
  <2>5. n = r /\ 0 = now' % WindowMs
    BY <1>2, <1>3, <2>3, <2>4, UniqueQuotient
  <2> QED BY <2>2, <2>5
<1> QED
  BY <1>4, <1>5

\* A window that ends adds its count, the maximum at most, to what went before.
LEMMA LongRunTick ==
  ASSUME TypeOK, Aligned, LongRunInv, Tick, NEW k \in Keys
  PROVE  spent'[k] <= (MaxRequests * ((now' \div WindowMs) - (since'[k] \div WindowMs)))
                      + Current(k)'.cur
<1>1. /\ now \in Nat /\ now' = now + 1 /\ since' = since /\ spent' = spent
      /\ since[k] \in Nat /\ since[k] <= now /\ spent[k] \in Nat /\ MaxRequests \in Nat
  BY WindowAssumption DEF TypeOK, Tick
<1>2. PICK q \in Nat, f \in Nat, c \in Nat :
        /\ q = now \div WindowMs /\ f = since[k] \div WindowMs /\ f <= q
        /\ c = Current(k).cur /\ c <= MaxRequests
  <2>1. now \div WindowMs \in Nat /\ since[k] \div WindowMs \in Nat
        /\ since[k] \div WindowMs <= now \div WindowMs
    BY <1>1, WindowAssumption, Division, Quotients
  <2>2. Current(k).cur \in Nat /\ Current(k).cur <= MaxRequests
    BY CurrentType, WindowAssumption
  <2> QED BY <2>1, <2>2
<1>3. spent[k] <= (MaxRequests * (q - f)) + c
  BY <1>2 DEF LongRunInv
<1>4. CASE now' \div WindowMs = q /\ now' % WindowMs # 0
  <2>1. Current(k)'.cur = c
    BY <1>2, <1>4, TickCurrent
  <2> QED BY <1>1, <1>2, <1>3, <1>4, <2>1
<1>5. CASE now' \div WindowMs = q + 1 /\ now' % WindowMs = 0
  <2>1. Current(k)'.cur = 0
    BY <1>5, TickCurrent
  <2>2. MaxRequests * ((q + 1) - f) = (MaxRequests * (q - f)) + MaxRequests
        /\ MaxRequests * (q - f) \in Int
    BY <1>1, <1>2
  <2>3. spent[k] <= (MaxRequests * ((q + 1) - f)) + 0
    BY <1>1, <1>2, <1>3, <2>2
  <2> QED BY <1>1, <1>2, <1>5, <2>1, <2>3
<1> QED
  BY <1>1, <1>2, <1>4, <1>5, NextQuotient

\* Every other step adds to the count what it adds to what is spent.
LEMMA LongRunStep == WindowInv /\ LongRunInv /\ [Next]_vars => LongRunInv'
<1> SUFFICES ASSUME WindowInv, LongRunInv, [Next]_vars, NEW x \in Keys
             PROVE  spent'[x] <= (MaxRequests * ((now' \div WindowMs) - (since'[x] \div WindowMs)))
                                 + Current(x)'.cur
  BY DEF LongRunInv
<1> DEFINE Good == spent'[x] <= (MaxRequests * ((now' \div WindowMs) - (since'[x] \div WindowMs)))
                                + Current(x)'.cur
<1>0. TypeOK /\ Aligned
  BY DEF WindowInv
<1>0a. /\ Current(x).cur \in Nat /\ spent[x] \in Nat /\ MaxRequests \in Nat
       /\ (now \div WindowMs) - (since[x] \div WindowMs) \in Nat
  <2>1. now \in Nat /\ since[x] \in Nat /\ since[x] <= now
    BY <1>0 DEF TypeOK
  <2>2. now \div WindowMs \in Nat /\ since[x] \div WindowMs \in Nat
        /\ since[x] \div WindowMs <= now \div WindowMs
    BY <2>1, WindowAssumption, Division, Quotients
  <2> QED BY <1>0, <2>2, CurrentType, WindowAssumption DEF TypeOK
<1>same. ASSUME now' = now, since'[x] = since[x], NEW n \in Nat,
                spent'[x] = spent[x] + n, Current(x)'.cur = Current(x).cur + n
         PROVE  Good
  <2>1. MaxRequests * ((now \div WindowMs) - (since[x] \div WindowMs)) \in Nat
    BY <1>0a
  <2>2. spent[x] <= (MaxRequests * ((now \div WindowMs) - (since[x] \div WindowMs))) + Current(x).cur
    BY DEF LongRunInv
  <2> QED BY <1>0a, <1>same, <2>1, <2>2
<1>kept. ASSUME now' = now, since'[x] = since[x], spent'[x] = spent[x], Current(x)' = Current(x)
         PROVE  Good
  BY <1>kept, <1>same, <1>0a
\* A span that starts now has seen nothing yet.
<1>anew. ASSUME now' = now, since'[x] = now, spent'[x] = 0, Current(x)'.cur \in Nat PROVE Good
  <2>1. (now' \div WindowMs) - (since'[x] \div WindowMs) = 0
    <3>1. now \div WindowMs \in Int
      BY <1>0, WindowAssumption, Division DEF TypeOK
    <3> QED BY <1>anew, <3>1
  <2>2. MaxRequests * 0 = 0
    BY <1>0a
  <2> QED BY <1>anew, <2>1, <2>2
<1>1. ASSUME NEW k \in Keys, NEW n \in Requests, Admit(k, n) PROVE Good
  <2> DEFINE s == [Current(k) EXCEPT !.cur = @ + n]
  <2>1. s.start = WindowStart /\ s.cur = Current(k).cur + n
    BY <1>0, CurrentType DEF Counts
  <2>2. now' = now /\ windows' = Stored(k, s) /\ since' = since
        /\ spent' = [spent EXCEPT ![k] = @ + n] /\ n \in Nat
    BY <1>1, WindowAssumption DEF Admit
  <2>3. Current(k)' = s /\ \A y \in Keys \ {k} : Current(y)' = Current(y)
    BY <2>1, <2>2, StoredCurrent
  <2>4. CASE x = k
    <3>1. spent'[x] = spent[x] + n /\ Current(x)'.cur = Current(x).cur + n
      BY <1>0, <2>1, <2>2, <2>3, <2>4 DEF TypeOK
    <3> QED BY <1>same, <2>2, <3>1
  <2>5. CASE x # k
    BY <1>kept, <2>2, <2>3, <2>5
  <2> QED BY <2>4, <2>5
<1>2. ASSUME NEW k \in Keys, NEW n \in Requests, Deny(k, n) PROVE Good
  BY <1>2, <1>kept, DenyStep DEF Deny
<1>3. ASSUME NEW k \in Keys, Reset(k) PROVE Good
  <2>1. Current(k)' = NewState /\ \A y \in Keys \ {k} : Current(y)' = Current(y)
    BY <1>3, ResetCurrent
  <2>2. now' = now /\ since' = [since EXCEPT ![k] = now] /\ spent' = [spent EXCEPT ![k] = 0]
    BY <1>3 DEF Reset
  <2>3. CASE x = k
    <3>1. spent'[x] = 0 /\ since'[x] = now /\ Current(x)'.cur = 0
      BY <1>0, <2>1, <2>2, <2>3 DEF NewState, TypeOK
    <3> QED BY <1>anew, <2>2, <3>1
  <2>4. CASE x # k
    BY <1>kept, <2>1, <2>2, <2>4
  <2> QED BY <2>3, <2>4
<1>4. ASSUME NEW k \in Keys, StartWindow(k) PROVE Good
  <2>1. /\ now' = now /\ since' = [since EXCEPT ![k] = now] /\ spent' = [spent EXCEPT ![k] = 0]
        /\ Current(x)' = Current(x)
    BY <1>4 DEF StartWindow, Current, StateOf, NewState, Rolled, WindowStart
  <2>2. CASE x = k
    <3>1. spent'[x] = 0 /\ since'[x] = now
      BY <1>0, <2>1, <2>2 DEF TypeOK
    <3> QED BY <1>0a, <1>anew, <2>1, <3>1
  <2>3. CASE x # k
    BY <1>kept, <2>1, <2>3
  <2> QED BY <2>2, <2>3
<1>5. CASE Cleanup
  BY <1>0, <1>5, <1>kept, CleanupCurrent DEF Cleanup
<1>6. CASE Tick
  BY <1>0, <1>6, LongRunTick
<1>7. CASE UNCHANGED vars
  BY <1>7, <1>kept DEF vars, Current, StateOf, NewState, Rolled, WindowStart
<1> QED
  BY <1>1, <1>2, <1>3, <1>4, <1>5, <1>6, <1>7 DEF Next

\* Over any span a key is admitted at most the maximum for each window it touches.
THEOREM LongRunsBounded == Spec => []LongRunBound
<1>1. Init => LongRunInv
  <2> SUFFICES ASSUME Init, NEW k \in Keys
               PROVE  spent[k] <= (MaxRequests * ((now \div WindowMs) - (since[k] \div WindowMs)))
                                  + Current(k).cur
    BY DEF LongRunInv
  <2>1. now = 0 /\ since[k] = 0 /\ spent[k] = 0 /\ Current(k).cur = 0
    BY DEF Init, Current, StateOf, NewState, Rolled
  <2>2. (0 \div WindowMs) - (0 \div WindowMs) = 0 /\ MaxRequests * 0 = 0
    BY WindowAssumption, Division
  <2> QED BY <2>1, <2>2
<1>2. WindowInv /\ LongRunInv => LongRunBound
  <2> SUFFICES ASSUME WindowInv, LongRunInv, NEW k \in Keys
               PROVE  spent[k] <= MaxRequests * (now \div WindowMs - since[k] \div WindowMs + 1)
    BY DEF LongRunBound
  <2>1. TypeOK
    BY DEF WindowInv
  <2>2. PICK q \in Int, f \in Int, c \in Nat :
          /\ q = now \div WindowMs /\ f = since[k] \div WindowMs
          /\ c = Current(k).cur /\ c <= MaxRequests /\ spent[k] \in Nat /\ MaxRequests \in Nat
    <3>1. now \in Nat /\ since[k] \in Nat /\ spent[k] \in Nat
      BY <2>1 DEF TypeOK
    <3>2. now \div WindowMs \in Int /\ since[k] \div WindowMs \in Int
      BY <3>1, WindowAssumption, Division
    <3>3. Current(k).cur \in Nat /\ Current(k).cur <= MaxRequests
      BY <2>1, CurrentType, WindowAssumption
    <3> QED BY <3>1, <3>2, <3>3, WindowAssumption
  <2>3. spent[k] <= (MaxRequests * (q - f)) + c
    BY <2>2 DEF LongRunInv
  <2>4. MaxRequests * (q - f + 1) = (MaxRequests * (q - f)) + MaxRequests
        /\ MaxRequests * (q - f) \in Int
    BY <2>2
  <2> QED BY <2>2, <2>3, <2>4
<1> QED
  BY <1>1, <1>2, LongRunStep, WindowInit, WindowStep, PTL DEF Spec

-----------------------------------------------------------------------------
(* Refinement.                                                              *)

CurMap == [k \in Keys |-> Current(k).cur]
PrevMap == [k \in Keys |-> Current(k).prev]

\* Both compute with the same elapsed time, hence the same weights.
LEMMA SameWeights ==
  ASSUME now \in Nat
  PROVE  /\ Ideal!Elapsed = Elapsed
         /\ \A p : Ideal!Weighted(p) = Weighted(p)
         /\ \A k \in Keys : Ideal!Approximate(k) = Approximate(k)
<1>1. Ideal!Elapsed = Elapsed
  BY Windows DEF Ideal!Elapsed
<1>2. \A p : Ideal!Weighted(p) = Weighted(p)
  BY <1>1 DEF Ideal!Weighted, Ideal!Low, Weighted, Low
<1> QED
  BY <1>1, <1>2 DEF Ideal!Approximate, Approximate

LEMMA IdealInit == Init => Ideal!Init
  BY DEF Init, Ideal!Init, NoAnswer, Ideal!NoAnswer, Current, StateOf, NewState, Rolled

LEMMA IdealStep == WindowInv /\ [Next]_vars => [Ideal!Next]_(Ideal!vars)
<1> SUFFICES ASSUME WindowInv, [Next]_vars PROVE [Ideal!Next]_(Ideal!vars)
  OBVIOUS
<1>0. TypeOK /\ Aligned /\ now \in Nat
  BY DEF WindowInv, TypeOK
\* Steps the ideal windows do not see.
<1>same. ASSUME UNCHANGED <<now, answer>>, \A k \in Keys : Current(k)' = Current(k)
         PROVE  UNCHANGED Ideal!vars
  BY <1>same DEF Ideal!vars
<1>1. ASSUME NEW k \in Keys, NEW n \in Requests, Admit(k, n) PROVE Ideal!Consume(k, n)
  <2> DEFINE s == [Current(k) EXCEPT !.cur = @ + n]
  <2>1. /\ s.start = WindowStart /\ s.cur = Current(k).cur + n /\ s.prev = Current(k).prev
    BY <1>0, CurrentType DEF Counts
  <2>2. now' = now /\ windows' = Stored(k, s)
    BY <1>1 DEF Admit
  <2>3. Current(k)' = s /\ \A x \in Keys \ {k} : Current(x)' = Current(x)
    BY <2>1, <2>2, StoredCurrent
  <2>4. CurMap' = [CurMap EXCEPT ![k] = @ + n] /\ PrevMap' = PrevMap
    BY <2>1, <2>3 DEF CurMap, PrevMap
  <2>5. /\ Approximate(k) + n <= MaxRequests
        /\ answer' = [allowed |-> TRUE, remaining |-> Left(MaxRequests - Approximate(k) - n)]
    BY <1>1 DEF Admit
  <2>6. Ideal!Approximate(k) = Approximate(k)
    BY <1>0, SameWeights
  <2>7. (Approximate(k) + n <= MaxRequests) = TRUE
    BY <2>5
  <2> QED
    BY <2>2, <2>4, <2>5, <2>6, <2>7 DEF Ideal!Consume, CurMap, PrevMap, Left, Ideal!Left
<1>2. ASSUME NEW k \in Keys, NEW n \in Requests, Deny(k, n) PROVE Ideal!Consume(k, n)
  <2>1. \A x \in Keys : Current(x)' = Current(x)
    BY <1>2, DenyStep
  <2>2. CurMap' = CurMap /\ PrevMap' = PrevMap
    BY <2>1 DEF CurMap, PrevMap
  <2>3. /\ ~(Approximate(k) + n <= MaxRequests) /\ now' = now
        /\ answer' = [allowed |-> FALSE, remaining |-> Left(MaxRequests - Approximate(k))]
    <3>1. Approximate(k) + n \in Int
      BY <1>0, ApproximateType, WindowAssumption
    <3> QED
      BY <1>2, <3>1, WindowAssumption DEF Deny
  <2>4. Ideal!Approximate(k) = Approximate(k) /\ Approximate(k) \in Nat
    BY <1>0, SameWeights, ApproximateType
  <2>5. (Approximate(k) + n <= MaxRequests) = FALSE
        /\ MaxRequests - Approximate(k) - 0 = MaxRequests - Approximate(k)
    BY <2>3, <2>4, WindowAssumption
  <2> QED
    BY <2>2, <2>3, <2>4, <2>5 DEF Ideal!Consume, CurMap, PrevMap, Left, Ideal!Left
<1>3. ASSUME NEW k \in Keys, Reset(k) PROVE Ideal!Reset(k)
  <2>1. CurMap' = [CurMap EXCEPT ![k] = 0] /\ PrevMap' = [PrevMap EXCEPT ![k] = 0]
    <3>1. Current(k)' = NewState /\ \A x \in Keys \ {k} : Current(x)' = Current(x)
      BY <1>3, ResetCurrent
    <3>2. Current(k)'.cur = 0 /\ Current(k)'.prev = 0
      BY <3>1 DEF NewState
    <3> QED
      BY <3>1, <3>2 DEF CurMap, PrevMap
  <2> QED
    BY <1>3, <2>1 DEF Ideal!Reset, Reset, CurMap, PrevMap, NoAnswer, Ideal!NoAnswer
<1>4. ASSUME NEW k \in Keys, StartWindow(k) PROVE UNCHANGED Ideal!vars
  BY <1>4, <1>same DEF StartWindow, Current, StateOf, NewState, Rolled, WindowStart
<1>5. CASE Cleanup
  BY <1>0, <1>5, <1>same, CleanupCurrent DEF Cleanup
<1>6. CASE Tick
  <2>1. CASE now' % WindowMs # 0
    <3>1. CurMap' = CurMap /\ PrevMap' = PrevMap
      BY <1>0, <1>6, <2>1, TickCurrent DEF CurMap, PrevMap
    <3> QED
      BY <1>6, <2>1, <3>1 DEF Tick, Ideal!Next, Ideal!Tick, CurMap, PrevMap
  <2>2. CASE now' % WindowMs = 0
    <3>1. CurMap' = [k \in Keys |-> 0] /\ PrevMap' = CurMap
      BY <1>0, <1>6, <2>2, TickCurrent DEF CurMap, PrevMap
    <3> QED
      BY <1>6, <2>2, <3>1 DEF Tick, Ideal!Next, Ideal!Tick, CurMap, PrevMap
  <2> QED BY <2>1, <2>2
<1>7. CASE UNCHANGED vars
  BY <1>7, <1>same DEF vars, Current, StateOf, NewState, Rolled, WindowStart
<1> QED
  BY <1>1, <1>2, <1>3, <1>4, <1>5, <1>6, <1>7 DEF Next, Ideal!Next

\* Making a state on first use, rolling it only when it is asked, and deleting
\* it three windows later cannot be told from windows that roll on time.
THEOREM Refinement == Spec => ImplementsIdealWindow
  BY WindowInit, WindowStep, IdealInit, IdealStep, PTL
     DEF Spec, ImplementsIdealWindow, Ideal!Spec

-----------------------------------------------------------------------------
(* The limiter is an allowance.                                             *)

ApproximateMap == [k \in Keys |-> Approximate(k)]

LEMMA AllowanceInit == Init => Limiter!Init
<1> SUFFICES ASSUME Init PROVE Limiter!Init
  OBVIOUS
<1>1. ASSUME NEW k \in Keys PROVE Approximate(k) = 0
  <2>1. Current(k).cur = 0 /\ Current(k).prev = 0
    BY DEF Init, Current, StateOf, NewState, Rolled
  <2>2. Weighted(0) = 0
    BY WeightedBetween DEF Init
  <2> QED
    BY <2>1, <2>2 DEF Approximate
<1> QED
  BY <1>1 DEF Init, NoAnswer, Limiter!Init

\* A tick leaves no key with more used up than before: weights shrink within a
\* window, and at its end the whole count weighs at most what both counts did.
LEMMA TickApproximate ==
  ASSUME WindowInv, Tick, NEW k \in Keys
  PROVE  Approximate(k)' \in Nat /\ Approximate(k)' <= Approximate(k)
<1>1. /\ TypeOK /\ Aligned /\ now \in Nat /\ now' = now + 1
      /\ Approximate(k) \in Nat /\ Weighted(Current(k).prev) \in Nat
  BY ApproximateType DEF WindowInv, TypeOK, Tick
<1>2. PICK c \in Nat, p \in Nat : c = Current(k).cur /\ p = Current(k).prev
  BY <1>1, CurrentType, WindowAssumption
<1>3. Approximate(k) = c + Weighted(p)
  BY <1>2 DEF Approximate
<1>4. CASE WindowStart' = WindowStart /\ Elapsed' = Elapsed + 1 /\ now' % WindowMs # 0
  <2>1. Approximate(k)' = c + Weighted(p)'
    <3>1. Current(k)' = Current(k)
      BY <1>1, <1>4, TickCurrent
    <3> QED BY <1>2, <3>1 DEF Approximate, Weighted, Low
  <2>2. Weighted(p)' <= Weighted(p) /\ Weighted(p)' \in Nat
    BY <1>1, <1>4, WeightedShrinks, WeightedInteger
  <2> QED
    BY <1>1, <1>2, <1>3, <2>1, <2>2
<1>5. CASE WindowStart' = WindowStart + WindowMs /\ Elapsed' = 0 /\ now' % WindowMs = 0
  <2>1. Current(k)'.cur = 0 /\ Current(k)'.prev = c
    BY <1>1, <1>2, <1>5, TickCurrent
  <2>2. Weighted(c)' = c
    <3>1. (c * (WindowMs - 0)) \div WindowMs = c
      BY WindowAssumption
    <3> QED BY <1>5, <3>1 DEF Weighted, Low
  <2>3. Approximate(k)' = 0 + Weighted(c)'
    BY <2>1 DEF Approximate, Weighted, Low
  <2> QED
    BY <1>1, <1>2, <1>3, <2>2, <2>3
<1> QED
  BY <1>1, <1>4, <1>5, NextWindow

LEMMA AllowanceStep == WindowInv /\ [Next]_vars => [Limiter!Next]_(Limiter!vars)
<1> SUFFICES ASSUME WindowInv, [Next]_vars PROVE [Limiter!Next]_(Limiter!vars)
  OBVIOUS
<1>0. TypeOK /\ Aligned
  BY DEF WindowInv
<1>weights. ASSUME now' = now PROVE \A p : Weighted(p)' = Weighted(p)
  BY <1>weights DEF Weighted, Low, Elapsed, WindowStart
\* Steps the gateway does not see.
<1>same. ASSUME UNCHANGED <<now, answer>>, \A k \in Keys : Current(k)' = Current(k)
         PROVE  UNCHANGED Limiter!vars
  BY <1>same, <1>weights DEF Limiter!vars, Approximate
<1>1. ASSUME NEW k \in Keys, NEW n \in Requests, Admit(k, n) PROVE Limiter!Allow(k, n)
  <2> DEFINE s == [Current(k) EXCEPT !.cur = @ + n]
  <2>1. /\ s.start = WindowStart /\ s.cur = Current(k).cur + n /\ s.prev = Current(k).prev
        /\ Current(k).cur \in Nat /\ n \in Nat /\ Weighted(Current(k).prev) \in Nat
    BY <1>0, CurrentType, ApproximateType, WindowAssumption DEF Counts
  <2>2. now' = now /\ windows' = Stored(k, s)
    BY <1>1 DEF Admit
  <2>3. Current(k)' = s /\ \A x \in Keys \ {k} : Current(x)' = Current(x)
    BY <2>1, <2>2, StoredCurrent
  <2>4. Approximate(k)' = Approximate(k) + n
    BY <2>1, <2>2, <2>3, <1>weights DEF Approximate
  <2>5. \A x \in Keys \ {k} : Approximate(x)' = Approximate(x)
    BY <2>2, <2>3, <1>weights DEF Approximate
  <2>6. ApproximateMap' = [ApproximateMap EXCEPT ![k] = @ + n]
    BY <2>4, <2>5 DEF ApproximateMap
  <2>7. Approximate(k) + n <= MaxRequests /\ answer'.allowed = TRUE
    BY <1>1 DEF Admit
  <2> QED
    BY <2>6, <2>7 DEF Limiter!Allow, ApproximateMap
<1>2. ASSUME NEW k \in Keys, NEW n \in Requests, Deny(k, n) PROVE Limiter!Refuse(k, n)
  <2>1. now' = now /\ \A x \in Keys : Current(x)' = Current(x)
    BY <1>2, DenyStep DEF Deny
  <2>2. ApproximateMap' = ApproximateMap
    BY <2>1, <1>weights DEF ApproximateMap, Approximate
  <2>3. Approximate(k) + n > MaxRequests /\ answer'.allowed = FALSE
    BY <1>2 DEF Deny
  <2> QED
    BY <2>2, <2>3 DEF Limiter!Refuse, ApproximateMap
<1>3. ASSUME NEW k \in Keys, Reset(k) PROVE Limiter!Reset(k)
  <2>1. Current(k)' = NewState /\ \A x \in Keys \ {k} : Current(x)' = Current(x)
    BY <1>3, ResetCurrent
  <2>2. now' = now /\ Weighted(0) = 0
    BY <1>0, <1>3, WeightedBetween DEF Reset, TypeOK
  <2>3. Approximate(k)' = 0
    BY <2>1, <2>2, <1>weights DEF Approximate, NewState
  <2>4. \A x \in Keys \ {k} : Approximate(x)' = Approximate(x)
    BY <2>1, <2>2, <1>weights DEF Approximate
  <2>5. ApproximateMap' = [ApproximateMap EXCEPT ![k] = 0]
    BY <2>3, <2>4 DEF ApproximateMap
  <2>6. answer'.allowed = TRUE
    BY <1>3 DEF Reset, NoAnswer
  <2> QED
    BY <2>5, <2>6 DEF Limiter!Reset, ApproximateMap
<1>4. ASSUME NEW k \in Keys, StartWindow(k) PROVE UNCHANGED Limiter!vars
  BY <1>4, <1>same DEF StartWindow, Current, StateOf, NewState, Rolled, WindowStart
<1>5. CASE Cleanup
  BY <1>0, <1>5, <1>same, CleanupCurrent DEF Cleanup
<1>6. CASE Tick
  <2>1. ApproximateMap' \in [Keys -> Nat] /\ \A k \in Keys : ApproximateMap'[k] <= ApproximateMap[k]
    BY <1>6, TickApproximate DEF ApproximateMap
  <2> QED
    BY <1>6, <2>1 DEF Tick, Limiter!Forget, Limiter!Next, ApproximateMap
<1>7. CASE UNCHANGED vars
  BY <1>7, <1>same DEF vars, Current, StateOf, NewState, Rolled, WindowStart
<1> QED
  BY <1>1, <1>2, <1>3, <1>4, <1>5, <1>6, <1>7 DEF Next, Limiter!Next

\* The limiter is what the gateway takes it for: it refuses a request exactly if
\* the weighted count leaves no room for it, and only time takes from that count.
THEOREM AllowanceKept == Spec => ImplementsAllowance
  BY WindowInit, WindowStep, AllowanceInit, AllowanceStep, PTL
     DEF Spec, ImplementsAllowance, Limiter!Spec
=============================================================================
