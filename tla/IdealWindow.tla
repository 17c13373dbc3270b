---------------------------- MODULE IdealWindow ----------------------------
(***************************************************************************)
(* What the sliding window limiter computes, without its map: every key    *)
(* always has a count for the current aligned window and one for the       *)
(* window before, both rolled at the very tick a window ends.              *)
(***************************************************************************)
EXTENDS Integers

CONSTANTS
  Keys,         \* rate limit keys
  WindowMs,     \* length of a window, in ticks
  MaxRequests,  \* requests admitted per window
  Requests,     \* numbers of tokens a call may ask for
  RoundsDown,   \* <<count, elapsed>> whose weighted count binary64 puts below
                \* the integer it is
  MaxTime       \* the clock stops here, to keep runs finite

VARIABLES now, cur, prev, answer
vars == <<now, cur, prev, answer>>

Elapsed == now % WindowMs

\* floor(previousCount * (1 - elapsed / windowMs)).  The product is exact up to a
\* rounding error far below 1/windowMs, so only an integer can come out lower.
Low(p) ==
  /\ (p * (WindowMs - Elapsed)) % WindowMs = 0 /\ p # 0 /\ Elapsed # 0
  /\ <<p, Elapsed>> \in RoundsDown
Weighted(p) ==
  (p * (WindowMs - Elapsed)) \div WindowMs - (IF Low(p) THEN 1 ELSE 0)

Approximate(k) == cur[k] + Weighted(prev[k])

\* No call has been answered yet, or the last one was reset(), which returns nothing.
NoAnswer == [allowed |-> TRUE, remaining |-> MaxRequests]

Init ==
  /\ now = 0
  /\ cur = [k \in Keys |-> 0] /\ prev = [k \in Keys |-> 0]
  /\ answer = NoAnswer

Left(n) == IF n < 0 THEN 0 ELSE n

Consume(k, n) ==
  LET allowed == Approximate(k) + n <= MaxRequests
  IN  /\ cur' = IF allowed THEN [cur EXCEPT ![k] = @ + n] ELSE cur
      /\ answer' = [allowed |-> allowed,
                    remaining |-> Left(MaxRequests - Approximate(k)
                                       - (IF allowed THEN n ELSE 0))]
      /\ UNCHANGED <<now, prev>>

Reset(k) ==
  /\ cur' = [cur EXCEPT ![k] = 0] /\ prev' = [prev EXCEPT ![k] = 0]
  /\ answer' = NoAnswer /\ UNCHANGED now

Tick ==
  /\ now < MaxTime
  /\ now' = now + 1
  /\ IF now' % WindowMs = 0
     THEN prev' = cur /\ cur' = [k \in Keys |-> 0]
     ELSE UNCHANGED <<cur, prev>>
  /\ UNCHANGED answer

Next ==
  \/ \E k \in Keys : (\E n \in Requests : Consume(k, n)) \/ Reset(k)
  \/ Tick

Spec == Init /\ [][Next]_vars
=============================================================================
