----------------------------- MODULE Allowance -----------------------------
(***************************************************************************)
(* RateLimiter of ratelimit/strategies.ts, as far as its users know: per   *)
(* key, how much of the capacity is used up.  consume() is allowed exactly *)
(* when the rest suffices, and uses it up; a refused call uses nothing.    *)
(* Used amounts come back as time passes, of any keys and any amount, and  *)
(* only so.  TokenBucket and SlidingWindow implement it.                   *)
(***************************************************************************)
EXTENDS Integers

CONSTANTS
  Keys,      \* rate limit keys
  Capacity,  \* of each key
  Amounts    \* numbers of tokens a call may ask for

VARIABLES
  used,    \* how much of its capacity each key has used up
  allowed  \* the verdict on the last call

vars == <<used, allowed>>

Init == used = [k \in Keys |-> 0] /\ allowed = TRUE

Allow(k, n) ==
  /\ used[k] + n <= Capacity[k]
  /\ used' = [used EXCEPT ![k] = @ + n] /\ allowed' = TRUE

Refuse(k, n) ==
  /\ used[k] + n > Capacity[k]
  /\ allowed' = FALSE /\ UNCHANGED used

Reset(k) == used' = [used EXCEPT ![k] = 0] /\ allowed' = TRUE

Forget ==
  /\ used' \in [Keys -> Nat] /\ \A k \in Keys : used'[k] <= used[k]
  /\ UNCHANGED allowed

Next ==
  \/ \E k \in Keys : (\E n \in Amounts : Allow(k, n) \/ Refuse(k, n)) \/ Reset(k)
  \/ Forget

Spec == Init /\ [][Next]_vars
=============================================================================
