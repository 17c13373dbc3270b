------------------------------ MODULE Gateway ------------------------------
(***************************************************************************)
(* The life of requests in cedar-gate: handleRequest of gateway.ts, the    *)
(* reverse proxy of routing/proxy.ts with its timeout, error, response and *)
(* client-close callbacks, and the shutdown of server.ts.                  *)
(*                                                                         *)
(* handleRequest is synchronous up to its only await, the proxy, so        *)
(* access, rate limit and routing are decided in the turn a request        *)
(* arrives in; what they decide is left open here.  A promise settled by a *)
(* callback resumes the handler before any other callback runs, so a       *)
(* callback and the counting that follows it are one action.               *)
(***************************************************************************)
EXTENDS Integers

CONSTANT Requests  \* client requests; each has its connection to itself while it runs

VARIABLES
  phase,      \* of the process: up, draining after a signal, exited
  exitCode,   \* what process.exit was given; -1 before
  handler,    \* idle, at the proxy's await, or settled
  head,       \* the status line sent, by whom: the gateway's own or the backend's
  heads,      \* how often writeHead was called on the response
  ended,      \* res.writableEnded: the body is complete
  client,     \* is the client's connection open or gone
  backend,    \* the exchange with the backend, proxyReq and proxyRes; answered
              \* is one whose response is complete and whose request is not
  uploaded,   \* has the client's own body been read to its end
  counted,    \* how often the request was counted in a metric
  countedAs   \* under which status

response == <<head, heads, ended>>
counts == <<handler, counted, countedAs>>
process == <<phase, exitCode>>
vars == <<process, response, client, backend, uploaded, counts>>

\* 403 access denied, 429 rate limited, 404 no route, 500 an exception
OwnAnswers == {"403", "429", "404", "500"}
Heads == OwnAnswers \cup {"none", "502", "504", "backend"}

\* Types: in particular only the statuses listed are sent or counted, and the
\* process exits with 0 or 1.
TypeOK ==
  /\ phase \in {"up", "draining", "exited"} /\ exitCode \in {-1, 0, 1}
  /\ handler \in [Requests -> {"idle", "proxying", "settled"}]
  /\ head \in [Requests -> Heads]
  /\ ended \in [Requests -> BOOLEAN]
  /\ heads \in [Requests -> Nat] /\ counted \in [Requests -> Nat]
  /\ client \in [Requests -> {"open", "gone"}]
  /\ backend \in [Requests -> {"none", "waiting", "streaming", "answered", "destroyed", "closed"}]
  /\ uploaded \in [Requests -> BOOLEAN]
  /\ countedAs \in [Requests -> Heads]

Init ==
  /\ phase = "up" /\ exitCode = -1
  /\ handler = [r \in Requests |-> "idle"]
  /\ head = [r \in Requests |-> "none"] /\ heads = [r \in Requests |-> 0]
  /\ ended = [r \in Requests |-> FALSE]
  /\ client = [r \in Requests |-> "open"]
  /\ backend = [r \in Requests |-> "none"]
  /\ uploaded = [r \in Requests |-> FALSE]
  /\ counted = [r \in Requests |-> 0] /\ countedAs = [r \in Requests |-> "none"]

Running == phase # "exited"

WriteHead(r, status) ==
  /\ head' = [head EXCEPT ![r] = status]
  /\ heads' = [heads EXCEPT ![r] = @ + 1]

Count(r, status) ==
  /\ handler' = [handler EXCEPT ![r] = "settled"]
  /\ counted' = [counted EXCEPT ![r] = @ + 1]
  /\ countedAs' = [countedAs EXCEPT ![r] = status]

\* Mutant: the metrics are written in the callback, not after the promise.
Settle_EveryCallback(r, status) == Count(r, status)

\* The proxy's promise settles; once it has, settling it again does nothing.
Settle(r, status) ==
  IF handler[r] = "proxying" THEN Count(r, status) ELSE UNCHANGED counts

-----------------------------------------------------------------------------
(* handleRequest.                                                           *)

\* A request is served even in the drain, on a connection that was kept alive.
Arrives(r) == Running /\ handler[r] = "idle"

\* Answered by the gateway itself: 403, 429, 404, or the catch block's 500.
Answer(r, status) ==
  /\ Arrives(r)
  /\ WriteHead(r, status)
  /\ ended' = [ended EXCEPT ![r] = TRUE]
  /\ Count(r, status)
  /\ UNCHANGED <<process, client, backend, uploaded>>

\* Allowed, within its limit and routed: the request is piped to the backend.
Forward(r) ==
  /\ Arrives(r)
  /\ handler' = [handler EXCEPT ![r] = "proxying"]
  /\ backend' = [backend EXCEPT ![r] = "waiting"]
  /\ UNCHANGED <<process, response, client, uploaded, counted, countedAs>>

-----------------------------------------------------------------------------
(* proxyRequest.                                                            *)

\* The client's body is at its end, and req.pipe ends proxyReq.  An exchange that
\* has its response is over with that.
UploadEnds(r) ==
  /\ Running /\ handler[r] # "idle" /\ client[r] = "open" /\ ~uploaded[r]
  /\ uploaded' = [uploaded EXCEPT ![r] = TRUE]
  /\ backend' = [backend EXCEPT ![r] = IF @ = "answered" THEN "closed" ELSE @]
  /\ UNCHANGED <<process, response, client, counts>>

\* The response callback writes the head without asking headersSent.
BackendResponds(r) ==
  /\ Running /\ backend[r] = "waiting"
  /\ backend' = [backend EXCEPT ![r] = "streaming"]
  /\ WriteHead(r, "backend")
  /\ UNCHANGED <<process, ended, client, uploaded, counts>>

\* The body is complete: pipe ends the response, then "end" resolves.  A backend
\* that answers before it has the whole request may close the connection or go
\* on reading it.
BackendEnds(r) ==
  /\ Running /\ backend[r] = "streaming"
  /\ \E left \in IF uploaded[r] THEN {"closed"} ELSE {"closed", "answered"} :
       backend' = [backend EXCEPT ![r] = left]
  /\ ended' = [ended EXCEPT ![r] = TRUE]
  /\ Settle(r, head[r])
  /\ UNCHANGED <<process, head, heads, client, uploaded>>

\* The backend's connection closes in mid-body: proxyRes errors, the promise is
\* rejected and counted as 500; the head is out, so nothing more is sent.
BackendAborts(r) ==
  /\ Running /\ backend[r] = "streaming"
  /\ backend' = [backend EXCEPT ![r] = "closed"]
  /\ Settle(r, "500")
  /\ UNCHANGED <<process, response, client, uploaded>>

\* Mutant: the head is written whether or not one is out.
OwnError_Unguarded(r, status) ==
  /\ WriteHead(r, status)
  /\ ended' = [ended EXCEPT ![r] = TRUE]

\* The gateway's own 502 or 504, unless a head is out.
OwnError(r, status) ==
  IF head[r] = "none"
  THEN WriteHead(r, status) /\ ended' = [ended EXCEPT ![r] = TRUE]
  ELSE UNCHANGED response

\* proxyReq exists and has neither finished nor been destroyed.
Live(r) == backend[r] \in {"waiting", "streaming", "answered"}

\* proxyReq emits "error": refused, reset or unreachable.  After a complete
\* response, where it may also close without one, nothing is left to be done.
BackendErrors(r) ==
  /\ Running /\ Live(r)
  /\ backend' = [backend EXCEPT ![r] = "closed"]
  /\ OwnError(r, "502")
  /\ Settle(r, head'[r])
  /\ UNCHANGED <<process, client, uploaded>>

\* Mutant: the promise is resolved and the backend request left to run.
Timeout_NoDestroy(r) ==
  /\ Running /\ Live(r)
  /\ OwnError(r, "504")
  /\ Settle(r, head'[r])
  /\ UNCHANGED <<process, client, backend, uploaded>>

\* proxyReq emits "timeout": the backend connection was silent for too long.
Timeout(r) ==
  /\ Running /\ Live(r)
  /\ backend' = [backend EXCEPT ![r] = "destroyed"]
  /\ OwnError(r, "504")
  /\ Settle(r, head'[r])
  /\ UNCHANGED <<process, client, uploaded>>

\* Mutant: an aborted exchange never settles the promise.
DestroyedCloses_Silent(r) ==
  /\ Running /\ backend[r] = "destroyed"
  /\ backend' = [backend EXCEPT ![r] = "closed"]
  /\ UNCHANGED <<process, response, client, uploaded, counts>>

\* What destroy() leaves behind arrives in a later turn: "error" on proxyReq if
\* no response had come, otherwise "error" on proxyRes, which rejects; and after a
\* complete response, for which nobody waits any more, no more than "close".
DestroyedCloses(r) ==
  /\ Running /\ backend[r] = "destroyed"
  /\ backend' = [backend EXCEPT ![r] = "closed"]
  /\ OwnError(r, "502")
  /\ Settle(r, IF head[r] = "backend" THEN "500" ELSE head'[r])
  /\ UNCHANGED <<process, client, uploaded>>

\* Mutant: nobody listens for the client's close.
ClientCloses_Unheard(r) ==
  /\ Running /\ handler[r] # "idle" /\ client[r] = "open"
  /\ client' = [client EXCEPT ![r] = "gone"]
  /\ UNCHANGED <<process, response, backend, uploaded, counts>>

\* "close" on the response: a backend request still running is destroyed, unless
\* the response is complete; a half-sent one then stays until it times out.
ClientCloses(r) ==
  /\ Running /\ handler[r] # "idle" /\ client[r] = "open"
  /\ client' = [client EXCEPT ![r] = "gone"]
  /\ backend' = IF ~ended[r] /\ Live(r)
                THEN [backend EXCEPT ![r] = "destroyed"] ELSE backend
  /\ UNCHANGED <<process, response, uploaded, counts>>

-----------------------------------------------------------------------------
(* Shutdown.                                                                *)

\* A connection is not idle, and server.close() waits for it, until both the
\* response and the request on it are complete.
InFlight(r) ==
  handler[r] # "idle" /\ client[r] = "open" /\ ~(ended[r] /\ uploaded[r])

\* SIGTERM or SIGINT: both servers stop accepting; the timer of ten seconds starts.
Shutdown ==
  /\ phase = "up" /\ phase' = "draining"
  /\ UNCHANGED <<exitCode, response, client, backend, uploaded, counts>>

\* Both close callbacks have run: no request is in flight.
ServersClosed ==
  /\ phase = "draining" /\ \A r \in Requests : ~InFlight(r)
  /\ phase' = "exited" /\ exitCode' = 0
  /\ UNCHANGED <<response, client, backend, uploaded, counts>>

\* Mutant: the timer spares requests in flight.
ForceExit_WhenIdle ==
  /\ phase = "draining" /\ \A r \in Requests : ~InFlight(r)
  /\ phase' = "exited" /\ exitCode' = 1
  /\ UNCHANGED <<response, client, backend, uploaded, counts>>

\* Ten seconds have passed.
ForceExit ==
  /\ phase = "draining"
  /\ phase' = "exited" /\ exitCode' = 1
  /\ UNCHANGED <<response, client, backend, uploaded, counts>>

Next ==
  \/ \E r \in Requests :
       \/ \E status \in OwnAnswers : Answer(r, status)
       \/ Forward(r)
       \/ BackendResponds(r) \/ BackendEnds(r) \/ BackendAborts(r) \/ BackendErrors(r)
       \/ Timeout(r) \/ DestroyedCloses(r) \/ ClientCloses(r) \/ UploadEnds(r)
  \/ Shutdown \/ ServersClosed \/ ForceExit

Spec == Init /\ [][Next]_vars

ExchangeEnds(r) == BackendEnds(r) \/ BackendAborts(r) \/ BackendErrors(r) \/ Timeout(r)

\* An exchange that falls silent times out and one that streams, in whichever
\* direction, is taken to stop some day; what destroy() and server.close() leave pending is delivered.
\* No client is obliged to send a request, to finish its upload or to hang up.
FairSpec ==
  /\ Spec
  /\ \A r \in Requests : WF_vars(ExchangeEnds(r)) /\ WF_vars(DestroyedCloses(r))
  /\ WF_vars(ServersClosed) /\ WF_vars(ForceExit)

-----------------------------------------------------------------------------
(* Safety.                                                                  *)

\* The response callback writes its head unasked; a second head would throw out
\* of a callback and end the process.  No order of response, timeout, error and
\* client close leads there.
SingleHead == \A r \in Requests : heads[r] <= 1

\* Every request that is done is counted in exactly one metric exactly once, and
\* under the status its client was sent.  The one exception is a body that was cut
\* short after the backend's head: an abort counts it as 500, while a timeout or
\* an error of proxyReq counts it as the backend's status, as if it were whole.
CountedOnce ==
  \A r \in Requests :
    /\ counted[r] = IF handler[r] = "settled" THEN 1 ELSE 0
    /\ countedAs[r] # head[r] /\ counted[r] = 1
         => countedAs[r] = "500" /\ head[r] = "backend" /\ ~ended[r]

\* A backend request whose answer is not complete outlives neither its client nor
\* its handler.  What may outlive them is one that was answered in full while the
\* upload it belongs to was still open: the close handler tests writableEnded and
\* lets it be, even if the client has hung up, and only its timeout ends it.
NoBackendLeft ==
  \A r \in Requests :
    (client[r] = "gone" \/ handler[r] = "settled") /\ Live(r)
      => backend[r] = "answered" /\ head[r] = "backend" /\ ended[r] /\ ~uploaded[r]

\* A done request without a complete body is one whose backend had begun to
\* answer: what the gateway says itself, it says in full.
OnlyBackendsTruncate ==
  \A r \in Requests : handler[r] = "settled" /\ ~ended[r] => head[r] = "backend"

\* For its client and for the metrics every request comes to one end, complete or
\* cut short, in one step; what backends, timeouts, closing clients and the
\* shutdown still do to it afterwards changes neither answer nor count.
Outcome == INSTANCE Exchange WITH
             BadGateway <- {"502", "504"},
             stage <- handler, sent <- head, complete <- ended, metric <- countedAs
ImplementsExchange == Outcome!Spec

-----------------------------------------------------------------------------
(* The inductive invariant behind the properties above.                     *)

\* A head is written once; a backend still waiting has none out, one that
\* streams has its own; an exchange not yet closed belongs to a handler that
\* waits for it, unless it was destroyed or only the upload is left of it; and
\* what is settled has been answered.
RequestInv(r) ==
  /\ heads[r] = IF head[r] = "none" THEN 0 ELSE 1
  /\ counted[r] = IF handler[r] = "settled" THEN 1 ELSE 0
  /\ handler[r] # "settled" => countedAs[r] = "none" /\ ~ended[r]
  /\ handler[r] = "idle" =>
       head[r] = "none" /\ backend[r] = "none" /\ client[r] = "open"
  /\ handler[r] = "proxying" =>
       /\ backend[r] \in {"waiting", "streaming", "destroyed"}
       /\ head[r] \in {"none", "backend"}
  /\ backend[r] = "waiting" => head[r] = "none"
  /\ backend[r] = "streaming" => head[r] = "backend"
  /\ backend[r] \in {"waiting", "streaming"} =>
       handler[r] = "proxying" /\ client[r] = "open"
  /\ backend[r] = "answered" =>
       handler[r] = "settled" /\ head[r] = "backend" /\ ended[r] /\ ~uploaded[r]
  /\ handler[r] = "settled" =>
       /\ head[r] # "none"
       /\ ended[r] \/ head[r] = "backend"
       /\ countedAs[r] # head[r] =>
            countedAs[r] = "500" /\ head[r] = "backend" /\ ~ended[r]

\* The type invariant and every request's invariant.
IInv == TypeOK /\ \A r \in Requests : RequestInv(r)

-----------------------------------------------------------------------------
(* Liveness, under FairSpec.                                                *)

\* Every request at the proxy's await leaves it and is counted, unless the
\* process exits first.
HandlerReturns ==
  \A r \in Requests : handler[r] = "proxying" ~> (handler[r] = "settled" \/ ~Running)

\* A signal ends the process, even with clients and backends that never let go.
ShutdownEnds == phase = "draining" ~> ~Running

-----------------------------------------------------------------------------
(* What the documentation and the comments say, which the code does not do. *)

\* README, "Streaming reverse proxy": a response that is begun comes to an end.
\* After a timeout or an abort in mid-body nobody ends it, nor drops the client.
ResponsesEnd ==
  \A r \in Requests : head[r] # "none" ~> (ended[r] \/ client[r] = "gone" \/ ~Running)
=============================================================================
