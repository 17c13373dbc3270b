------------------------------ MODULE Pipeline ------------------------------
(***************************************************************************)
(* composePipeline of pipeline/pipeline.ts: one call of the composed       *)
(* handler.  dispatch(i) runs middleware i, dispatch(N) the next() the     *)
(* composed handler was given.  What a middleware does is its own affair:  *)
(* it may call next() never, once or again, await it at once, later or not *)
(* at all, call it after it has returned, catch its error, and throw.      *)
(***************************************************************************)
EXTENDS Integers

CONSTANT N  \* how many middlewares

ASSUME NAssumption == N \in Nat

VARIABLES
  index,      \* the closure's index: the last step dispatched
  runs,       \* how often each step was run
  body,       \* what each step is doing
  promise,    \* what the dispatch of each step returned
  joined,     \* history: the middlewares that saw their next() settle
  forgiven,   \* history: the middlewares that caught its error
  unhandled   \* history: the steps whose error nobody was waiting for

vars == <<index, runs, body, promise, joined, forgiven, unhandled>>

Middlewares == 0..(N - 1)
Steps == 0..N
Outcomes == {"fulfilled", "rejected"}

\* Types: each step has one body and one promise.
TypeOK ==
  /\ index \in Steps
  /\ runs \in [Steps -> Nat]
  /\ body \in [Steps -> {"idle", "running", "awaiting"} \cup Outcomes]
  /\ promise \in [Steps -> {"none", "pending"} \cup Outcomes]
  /\ joined \in SUBSET Middlewares /\ forgiven \in SUBSET Middlewares
  /\ unhandled \in SUBSET Steps

\* The composed handler has called dispatch(0).
Init ==
  /\ index = 0
  /\ runs = [i \in Steps |-> IF i = 0 THEN 1 ELSE 0]
  /\ body = [i \in Steps |-> IF i = 0 THEN "running" ELSE "idle"]
  /\ promise = [i \in Steps |-> IF i = 0 THEN "pending" ELSE "none"]
  /\ joined = {} /\ forgiven = {} /\ unhandled = {}

\* Mutant: < for <=.
CalledBefore_OffByOne(i) == i < index

CalledBefore(i) == i <= index

\* Mutant: the middleware is called and not awaited.
Returned_AtOnce == "fulfilled"

\* dispatch awaits the middleware, so its promise is pending while that runs.
Returned == "pending"

\* Mutant: the error is logged and not thrown on.
Settled_Swallows(outcome) == "fulfilled"

\* Mutant: the promise is resolved by hand, and never rejected.
Settled_NeverRejects(outcome) == IF outcome = "rejected" THEN "pending" ELSE outcome

\* The promise of a dispatch takes the outcome of the middleware it awaits.
Settled(outcome) == outcome

\* Step i is done; an error is handled if the middleware above is awaiting it,
\* or, of step 0, by whoever called the composed handler.
Finish(i, outcome) ==
  /\ body' = [body EXCEPT ![i] = outcome]
  /\ promise' = [promise EXCEPT ![i] = Settled(outcome)]
  /\ unhandled' = IF outcome = "rejected" /\ i > 0 /\ body[i - 1] # "awaiting"
                  THEN unhandled \cup {i} ELSE unhandled
  /\ UNCHANGED <<index, runs>>

\* next() of middleware i, during its run or, kept in a callback, after it;
\* `await next()` waits in the same turn.
CallNext(i, waits) ==
  /\ body[i] # "idle" /\ ~CalledBefore(i + 1)
  /\ waits => body[i] = "running"
  /\ index' = i + 1
  /\ runs' = [runs EXCEPT ![i + 1] = @ + 1]
  /\ body' = [body EXCEPT ![i] = IF waits THEN "awaiting" ELSE @, ![i + 1] = "running"]
  /\ promise' = [promise EXCEPT ![i + 1] = Returned]
  /\ UNCHANGED <<joined, forgiven, unhandled>>

\* next() once more: the promise it returns is rejected, and the middleware
\* catches that, fails with it, or lets it go.
CallNextAgain(i) ==
  /\ body[i] # "idle" /\ CalledBefore(i + 1)
  /\ \/ /\ body[i] = "running" /\ forgiven' = forgiven \cup {i}
        /\ UNCHANGED <<index, runs, body, promise, unhandled>>
     \/ body[i] = "running" /\ Finish(i, "rejected") /\ UNCHANGED forgiven
     \/ unhandled' = unhandled \cup {i + 1} /\ UNCHANGED <<index, runs, body, promise, forgiven>>
  /\ UNCHANGED joined

\* A middleware that has kept the promise awaits it now.
AwaitLater(i) ==
  /\ body[i] = "running" /\ promise[i + 1] # "none" /\ i \notin joined
  /\ body' = [body EXCEPT ![i] = "awaiting"]
  /\ UNCHANGED <<index, runs, promise, joined, forgiven, unhandled>>

\* The promise awaited has settled: an error is caught or thrown on.
Resume(i) ==
  /\ body[i] = "awaiting" /\ promise[i + 1] \in Outcomes
  /\ joined' = joined \cup {i}
  /\ \/ /\ body' = [body EXCEPT ![i] = "running"]
        /\ forgiven' = IF promise[i + 1] = "rejected" THEN forgiven \cup {i} ELSE forgiven
        /\ UNCHANGED <<index, runs, promise, unhandled>>
     \/ promise[i + 1] = "rejected" /\ Finish(i, "rejected") /\ UNCHANGED forgiven

\* A middleware, or the final next(), returns or throws.
Ends(i, outcome) ==
  /\ body[i] = "running" /\ Finish(i, outcome)
  /\ UNCHANGED <<joined, forgiven>>

Next ==
  \/ \E i \in Middlewares :
       \/ \E waits \in BOOLEAN : CallNext(i, waits)
       \/ CallNextAgain(i) \/ AwaitLater(i) \/ Resume(i)
  \/ \E i \in Steps, outcome \in Outcomes : Ends(i, outcome)

Spec == Init /\ [][Next]_vars

\* A settled promise resumes whoever awaits it, and middlewares are taken to end.
FairSpec ==
  /\ Spec
  /\ \A i \in Middlewares : WF_vars(Resume(i))
  /\ \A i \in Steps : WF_vars(\E outcome \in Outcomes : Ends(i, outcome))

-----------------------------------------------------------------------------
\* However often and however late next() is called, no middleware and no final
\* next() runs twice, and none is skipped: what has run is a prefix of the chain.
OncePerRequest == \A i \in Steps : runs[i] = IF i <= index THEN 1 ELSE 0

\* When the composed handler is done, so is every step reached through
\* middlewares that awaited their next(): only one that did not can leave work behind.
NothingOutlives ==
  promise[0] \in Outcomes
    => \A j \in Steps : (\A i \in 0..(j - 1) : i \in joined) => body[j] \in Outcomes

\* An error is on its way up, has been thrown on, was caught by the middleware
\* above, or went past it unawaited; dispatch itself never drops one.
NoErrorIsSwallowed ==
  \A i \in Middlewares :
    body[i + 1] = "rejected"
      => body[i] \in {"awaiting", "rejected"} \/ i \in forgiven \/ i + 1 \in unhandled

\* The composed handler's promise settles, whatever the middlewares throw and
\* however often they call next().
Settles == <>(promise[0] \in Outcomes)
=============================================================================
