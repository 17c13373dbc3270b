--------------------------- MODULE SlidingWindow ---------------------------
(***************************************************************************)
(* SlidingWindowLimiter of ratelimit/strategies.ts: per key, a count of    *)
(* the current aligned window and one of the window before, rolled when    *)
(* the key is next asked, the older one weighted by the share of it a      *)
(* rolling window would still cover.  A periodic cleanup deletes the state *)
(* of keys whose window is more than three windows old.                    *)
(*                                                                         *)
(* The clock counts ticks from a window boundary and does not run back.    *)
(***************************************************************************)
EXTENDS Integers

CONSTANTS
  Keys, WindowMs, MaxRequests, Requests, MaxTime,
  RoundsDown,  \* <<count, elapsed>> whose integral weighted count comes out low
  RoundsUp     \* <<count, elapsed, missing>> whose integral retry time comes out high

ASSUME WindowAssumption ==
  /\ WindowMs \in Nat \ {0} /\ MaxRequests \in Nat \ {0}
  /\ Requests \subseteq Nat \ {0} /\ MaxTime \in Nat

VARIABLES
  now,      \* Date.now()
  windows,  \* SlidingWindowLimiter.windows
  answer,   \* the last RateLimitResult returned
  since, spent,  \* history: tokens admitted to a key since some moment
  promise   \* history: what a key was told by retryAfterMs, until it is moot

vars == <<now, windows, answer, since, spent, promise>>

\* getWindowStart(now)
WindowStart == (now \div WindowMs) * WindowMs
Elapsed == now - WindowStart

NewState == [start |-> WindowStart, cur |-> 0, prev |-> 0]

\* getOrCreateState
StateOf(k) == IF k \in DOMAIN windows THEN windows[k] ELSE NewState

\* Mutant: the counts of older windows are added up.
Rolled_Accumulates(s) ==
  IF s.start = WindowStart THEN s
  ELSE [start |-> WindowStart, cur |-> 0,
        prev |-> IF WindowStart - s.start >= 2 * WindowMs THEN 0 ELSE s.cur + s.prev]

\* A state brought to the current window, which may be one or more windows on.
Rolled(s) ==
  IF s.start = WindowStart THEN s
  ELSE [start |-> WindowStart, cur |-> 0,
        prev |-> IF WindowStart - s.start >= 2 * WindowMs THEN 0 ELSE s.cur]

\* Mutant: the weight grows with time instead of shrinking.
Weighted_Inverted(p) == (p * Elapsed) \div WindowMs

\* previousCount * (1 - elapsed / windowMs) in binary64 is exact up to an error
\* far below 1/windowMs: all it can do to the floor is to lower an integer by one,
\* for some counts and times and not for others.
Low(p) ==
  /\ (p * (WindowMs - Elapsed)) % WindowMs = 0 /\ p # 0 /\ Elapsed # 0
  /\ <<p, Elapsed>> \in RoundsDown

Weighted(p) ==
  (p * (WindowMs - Elapsed)) \div WindowMs - (IF Low(p) THEN 1 ELSE 0)

Current(k) == Rolled(StateOf(k))

\* Mutant: the previous window does not count.
Approximate_CurrentOnly(k) == Current(k).cur

Approximate(k) == Current(k).cur + Weighted(Current(k).prev)
Left(n) == IF n < 0 THEN 0 ELSE n
CeilDiv(a, b) == (a + b - 1) \div b
Clamp(r) == IF r > WindowMs THEN WindowMs ELSE IF r < 1 THEN 1 ELSE r

\* Mutant: rounded down instead of up.
RetryAfter_Floor(k, n) ==
  LET missing == n - (MaxRequests - Approximate(k))
      p == Current(k).prev
  IN  Clamp(IF MaxRequests < Approximate(k) THEN WindowMs - Elapsed
            ELSE IF p = 0 THEN (WindowMs - Elapsed) * missing
            ELSE (WindowMs * missing) \div p)

\* The code divides by the rounded product, not by the exact one, so an integral
\* quotient can come out higher, and does whenever the product came out low; the
\* ceiling is then one more.
High(p, missing) ==
  /\ (WindowMs * missing) % p = 0 /\ Elapsed # 0
  /\ Low(p) \/ <<p, Elapsed, missing>> \in RoundsUp

\* Until the weighted part has shrunk by what is missing; the code divides
\* (windowMs - elapsed) * missing by previousCount * weight, or by 1 if that is 0.
RetryAfter(k, n) ==
  LET missing == n - (MaxRequests - Approximate(k))
      p == Current(k).prev
  IN  Clamp(IF MaxRequests < Approximate(k) THEN WindowMs - Elapsed
            ELSE IF p = 0 THEN (WindowMs - Elapsed) * missing
            ELSE CeilDiv(WindowMs * missing, p) + (IF High(p, missing) THEN 1 ELSE 0))

NoPromise == [tokens |-> 0, at |-> 0, made |-> 0, again |-> FALSE]

\* No call has been answered yet, or the last one was reset(), which returns nothing.
NoAnswer == [allowed |-> TRUE, remaining |-> MaxRequests]

Init ==
  /\ now = 0
  /\ windows = [k \in {} |-> NewState]
  /\ answer = NoAnswer
  /\ since = [k \in Keys |-> 0] /\ spent = [k \in Keys |-> 0]
  /\ promise = [k \in Keys |-> NoPromise]

Stored(k, s) == [x \in DOMAIN windows \cup {k} |-> IF x = k THEN s ELSE windows[x]]

\* Mutant: asks whether any room is left, not whether enough is.
Admit_IfAnyLeft(k, n) ==
  /\ Approximate(k) < MaxRequests
  /\ windows' = Stored(k, [Current(k) EXCEPT !.cur = @ + n])
  /\ answer' = [allowed |-> TRUE, remaining |-> Left(MaxRequests - Approximate(k) - n)]
  /\ spent' = [spent EXCEPT ![k] = @ + n]
  /\ promise' = [promise EXCEPT ![k] = NoPromise]
  /\ UNCHANGED <<now, since>>

\* consume when the approximate count leaves room
Admit(k, n) ==
  /\ Approximate(k) + n <= MaxRequests
  /\ windows' = Stored(k, [Current(k) EXCEPT !.cur = @ + n])
  /\ answer' = [allowed |-> TRUE, remaining |-> Left(MaxRequests - Approximate(k) - n)]
  /\ spent' = [spent EXCEPT ![k] = @ + n]
  /\ promise' = [promise EXCEPT ![k] = NoPromise]
  /\ UNCHANGED <<now, since>>

\* ... and when it does not; the rolled state is stored all the same.
Deny(k, n) ==
  /\ Approximate(k) + n > MaxRequests
  /\ windows' = Stored(k, Current(k))
  /\ answer' = [allowed |-> FALSE, remaining |-> Left(MaxRequests - Approximate(k))]
  /\ promise' = [promise EXCEPT ![k] =
                   [tokens |-> n, at |-> now + RetryAfter(k, n), made |-> WindowStart,
                    again |-> n <= promise[k].tokens /\ promise[k].at <= now]]
  /\ UNCHANGED <<now, since, spent>>

\* reset(key)
Reset(k) ==
  /\ windows' = [x \in DOMAIN windows \ {k} |-> windows[x]]
  /\ since' = [since EXCEPT ![k] = now] /\ spent' = [spent EXCEPT ![k] = 0]
  /\ promise' = [promise EXCEPT ![k] = NoPromise]
  /\ answer' = NoAnswer
  /\ UNCHANGED now

\* Mutant: the state of the window before is deleted too.
Stale_TooSoon(k) == windows[k].start < WindowStart

Stale(k) == windows[k].start < now - 3 * WindowMs

\* cleanupStale; the interval's phase relative to the requests is arbitrary.
Cleanup ==
  /\ windows' = [k \in {x \in DOMAIN windows : ~Stale(x)} |-> windows[k]]
  /\ UNCHANGED <<now, answer, since, spent, promise>>

Tick ==
  /\ now < MaxTime
  /\ now' = now + 1
  /\ UNCHANGED <<windows, answer, since, spent, promise>>

\* History only: the interval the admitted tokens are counted over starts anew.
StartWindow(k) ==
  /\ since[k] # now
  /\ since' = [since EXCEPT ![k] = now] /\ spent' = [spent EXCEPT ![k] = 0]
  /\ UNCHANGED <<now, windows, answer, promise>>

Next ==
  \/ \E k \in Keys : \E n \in Requests : Admit(k, n) \/ Deny(k, n)
  \/ \E k \in Keys : Reset(k)
  \/ \E k \in Keys : StartWindow(k)
  \/ Cleanup
  \/ Tick

Spec == Init /\ [][Next]_vars

-----------------------------------------------------------------------------
\* Types: neither count of a state exceeds the maximum, however windows roll.
TypeOK ==
  /\ now \in 0..MaxTime
  /\ DOMAIN windows \in SUBSET Keys
  /\ windows \in [DOMAIN windows -> [start : 0..now, cur : 0..MaxRequests,
                                     prev : 0..MaxRequests]]
  /\ answer \in [allowed : BOOLEAN, remaining : 0..MaxRequests]
  /\ since \in [Keys -> 0..now] /\ spent \in [Keys -> Nat]
  /\ promise \in [Keys -> [tokens : Nat, at : Nat, made : 0..now,
                          again : BOOLEAN]]

\* The count a request is judged by never exceeds the maximum, not even while
\* windows roll and weights shrink between requests, so the branch for a
\* negative remainder is never taken.
NeverOverdrawn == \A k \in Keys : Approximate(k) <= MaxRequests

Rolling(k) == now - since[k] < WindowMs

\* In a span shorter than a window, aligned or not, a key is admitted at most the
\* maximum, one more for rounding, and the part of it that the weight of the
\* window before has lost since the boundary.
RollingBound ==
  \A k \in Keys :
    Rolling(k) => WindowMs * (spent[k] - MaxRequests - 1) <= MaxRequests * Elapsed

\* Over any span at all, however long, a key is admitted at most the maximum for
\* each aligned window the span touches: what rolling, idling and cleanup forget
\* never adds up to more.
LongRunBound ==
  \A k \in Keys :
    spent[k] <= MaxRequests * (now \div WindowMs - since[k] \div WindowMs + 1)

\* A client that waits for retryAfterMs is not sent away again, if that time lies
\* in the same aligned window and the key admits nothing else.  A time in a later
\* window may be too early, once: the client who is refused on waiting for it is
\* then told a time that is kept, in whichever window, unless it asks for more
\* than the maximum, which is refused for ever.
RetryHonoured ==
  \A k \in Keys :
    LET p == promise[k]
    IN  /\ p.tokens > 0 /\ now >= p.at
        /\ p.made = WindowStart \/ (p.again /\ p.tokens <= MaxRequests)
        => Approximate(k) + p.tokens <= MaxRequests

\* Rolling on use, creation on first use and cleanup are invisible: the limiter
\* implements the one whose windows always exist and roll on time.
Ideal == INSTANCE IdealWindow WITH
           cur <- [k \in Keys |-> Current(k).cur],
           prev <- [k \in Keys |-> Current(k).prev]
ImplementsIdealWindow == Ideal!Spec

\* All that the gateway relies on of this limiter: a request is refused only if
\* the weighted count leaves no room for it, and that count rises with what is
\* allowed and with nothing else, neither with time nor when a window begins.
Limiter == INSTANCE Allowance WITH
             Amounts <- Requests, Capacity <- [k \in Keys |-> MaxRequests],
             used <- [k \in Keys |-> Approximate(k)], allowed <- answer.allowed
ImplementsAllowance == Limiter!Spec

\* README, "Sliding Window": "This allows 100 requests per rolling 60-second
\* window".  The approximation lets more through.
RollingLimit == \A k \in Keys : Rolling(k) => spent[k] <= MaxRequests
=============================================================================
