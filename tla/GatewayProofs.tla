--------------------------- MODULE GatewayProofs ---------------------------
(***************************************************************************)
(* Proofs about Gateway, for every set of requests.                        *)
(***************************************************************************)
EXTENDS Gateway, TLAPS

LEMMA InvInit == Init => IInv
  BY DEF Init, IInv, TypeOK, RequestInv, Heads, OwnAnswers

-----------------------------------------------------------------------------
(* Types.                                                                   *)

LEMMA TypeWriteHead ==
  ASSUME TypeOK, NEW r \in Requests, NEW status \in Heads,
         WriteHead(r, status)
  PROVE  head' \in [Requests -> Heads] /\ heads' \in [Requests -> Nat]
  BY DEF TypeOK, WriteHead

LEMMA TypeOwnError ==
  ASSUME TypeOK, NEW r \in Requests, NEW status \in {"502", "504"}, OwnError(r, status)
  PROVE  /\ head' \in [Requests -> Heads] /\ heads' \in [Requests -> Nat]
         /\ ended' \in [Requests -> BOOLEAN]
<1>1. status \in Heads
  BY DEF Heads
<1>2. CASE head[r] = "none"
  <2>1. WriteHead(r, status) /\ ended' = [ended EXCEPT ![r] = TRUE]
    BY <1>2 DEF OwnError
  <2> QED
    BY <1>1, <2>1, TypeWriteHead DEF TypeOK
<1>3. CASE head[r] # "none"
  BY <1>3 DEF TypeOK, OwnError, response
<1> QED
  BY <1>2, <1>3

LEMMA TypeSettle ==
  ASSUME TypeOK, NEW r \in Requests, NEW status \in Heads, Settle(r, status)
  PROVE  /\ handler' \in [Requests -> {"idle", "proxying", "settled"}]
         /\ counted' \in [Requests -> Nat] /\ countedAs' \in [Requests -> Heads]
  BY DEF TypeOK, Settle, Count, counts

LEMMA TypeStep == TypeOK /\ [Next]_vars => TypeOK'
<1> SUFFICES ASSUME TypeOK, [Next]_vars PROVE TypeOK'
  OBVIOUS
<1>1. ASSUME NEW r \in Requests, NEW status \in OwnAnswers, Answer(r, status) PROVE TypeOK'
  <2>1. status \in Heads
    BY DEF Heads
  <2>2. WriteHead(r, status)
    BY <1>1 DEF Answer
  <2>3. head' \in [Requests -> Heads] /\ heads' \in [Requests -> Nat]
    BY <2>1, <2>2, TypeWriteHead
  <2>4. /\ handler' \in [Requests -> {"idle", "proxying", "settled"}]
        /\ counted' \in [Requests -> Nat] /\ countedAs' \in [Requests -> Heads]
        /\ ended' \in [Requests -> BOOLEAN]
    BY <1>1, <2>1 DEF TypeOK, Answer, Count
  <2> QED
    BY <1>1, <2>3, <2>4 DEF TypeOK, Answer, process
<1>2. ASSUME NEW r \in Requests, Forward(r) PROVE TypeOK'
  BY <1>2 DEF TypeOK, Forward, process, response
<1>3. ASSUME NEW r \in Requests, BackendResponds(r) PROVE TypeOK'
  <2>1. WriteHead(r, "backend")
    BY <1>3 DEF BackendResponds
  <2>2. "backend" \in Heads
    BY DEF Heads
  <2> QED
    BY <1>3, <2>1, <2>2, TypeWriteHead DEF TypeOK, BackendResponds, process, counts
<1>4. ASSUME NEW r \in Requests, BackendEnds(r) PROVE TypeOK'
  <2>1. head[r] \in Heads
    BY DEF TypeOK
  <2>2. PICK left \in {"closed", "answered"} : backend' = [backend EXCEPT ![r] = left]
    BY <1>4 DEF BackendEnds
  <2> QED
    BY <1>4, <2>1, <2>2, TypeSettle DEF TypeOK, BackendEnds, process
<1>5. ASSUME NEW r \in Requests, BackendAborts(r) PROVE TypeOK'
  <2>1. "500" \in Heads
    BY DEF Heads, OwnAnswers
  <2> QED
    BY <1>5, <2>1, TypeSettle DEF TypeOK, BackendAborts, process, response
<1>6. ASSUME NEW r \in Requests, BackendErrors(r) PROVE TypeOK'
  <2>1. head' \in [Requests -> Heads]
    BY <1>6, TypeOwnError DEF BackendErrors
  <2> QED
    BY <1>6, <2>1, TypeOwnError, TypeSettle DEF TypeOK, BackendErrors, process
<1>7. ASSUME NEW r \in Requests, Timeout(r) PROVE TypeOK'
  <2>1. head' \in [Requests -> Heads]
    BY <1>7, TypeOwnError DEF Timeout
  <2> QED
    BY <1>7, <2>1, TypeOwnError, TypeSettle DEF TypeOK, Timeout, process
<1>8. ASSUME NEW r \in Requests, DestroyedCloses(r) PROVE TypeOK'
  <2>1. head' \in [Requests -> Heads]
    BY <1>8, TypeOwnError DEF DestroyedCloses
  <2>2. (IF head[r] = "backend" THEN "500" ELSE head'[r]) \in Heads
    BY <2>1 DEF Heads, OwnAnswers
  <2> QED
    BY <1>8, <2>1, <2>2, TypeOwnError, TypeSettle DEF TypeOK, DestroyedCloses, process
<1>9. ASSUME NEW r \in Requests, ClientCloses(r) PROVE TypeOK'
  BY <1>9 DEF TypeOK, ClientCloses, process, response, counts
<1>10. CASE Shutdown
  BY <1>10 DEF TypeOK, Shutdown, response, counts
<1>11. CASE ServersClosed
  BY <1>11 DEF TypeOK, ServersClosed, response, counts
<1>12. CASE ForceExit
  BY <1>12 DEF TypeOK, ForceExit, response, counts
<1>13. ASSUME NEW r \in Requests, UploadEnds(r) PROVE TypeOK'
  BY <1>13 DEF TypeOK, UploadEnds, process, response, counts
<1>14. CASE UNCHANGED vars
  BY <1>14 DEF TypeOK, vars, process, response, counts
<1> QED
  BY <1>1, <1>2, <1>3, <1>4, <1>5, <1>6, <1>7, <1>8, <1>9, <1>10, <1>11, <1>12, <1>13, <1>14
  DEF Next

-----------------------------------------------------------------------------
(* The invariant of one request.                                            *)

\* What a step on r leaves of another request.
Same(x) ==
  /\ handler'[x] = handler[x] /\ head'[x] = head[x] /\ heads'[x] = heads[x]
  /\ ended'[x] = ended[x] /\ client'[x] = client[x] /\ backend'[x] = backend[x]
  /\ counted'[x] = counted[x] /\ countedAs'[x] = countedAs[x]
  /\ uploaded'[x] = uploaded[x]

LEMMA InvSame ==
  ASSUME NEW x \in Requests, RequestInv(x), Same(x)
  PROVE  RequestInv(x)'
  BY DEF Same, RequestInv

LEMMA OtherSame ==
  ASSUME TypeOK, NEW r \in Requests, NEW x \in Requests, x # r,
         \/ \E status \in OwnAnswers : Answer(r, status)
         \/ Forward(r)
         \/ BackendResponds(r) \/ BackendEnds(r) \/ BackendAborts(r) \/ BackendErrors(r)
         \/ Timeout(r) \/ DestroyedCloses(r) \/ ClientCloses(r) \/ UploadEnds(r)
  PROVE  Same(x)
<1>1. CASE \E status \in OwnAnswers : Answer(r, status)
  BY <1>1 DEF TypeOK, Same, Answer, WriteHead, Count
<1>2. CASE Forward(r)
  BY <1>2 DEF TypeOK, Same, Forward, response
<1>3. CASE BackendResponds(r)
  BY <1>3 DEF TypeOK, Same, BackendResponds, WriteHead, counts
<1>4. CASE BackendEnds(r)
  <2>1. backend'[x] = backend[x]
    BY <1>4 DEF TypeOK, BackendEnds
  <2> QED
    BY <1>4, <2>1 DEF TypeOK, Same, BackendEnds, Settle, Count, counts
<1>5. CASE BackendAborts(r)
  BY <1>5 DEF TypeOK, Same, BackendAborts, Settle, Count, counts, response
<1>6. CASE BackendErrors(r)
  BY <1>6 DEF TypeOK, Same, BackendErrors, OwnError, WriteHead, Settle, Count, counts, response
<1>7. CASE Timeout(r)
  BY <1>7 DEF TypeOK, Same, Timeout, OwnError, WriteHead, Settle, Count, counts, response
<1>8. CASE DestroyedCloses(r)
  BY <1>8 DEF TypeOK, Same, DestroyedCloses, OwnError, WriteHead, Settle, Count, counts, response
<1>9. CASE ClientCloses(r)
  BY <1>9 DEF TypeOK, Same, ClientCloses, response, counts
<1>10. CASE UploadEnds(r)
  BY <1>10 DEF TypeOK, Same, UploadEnds, response, counts
<1> QED
  BY <1>1, <1>2, <1>3, <1>4, <1>5, <1>6, <1>7, <1>8, <1>9, <1>10

LEMMA RequestStep ==
  ASSUME TypeOK, NEW r \in Requests, RequestInv(r),
         \/ \E status \in OwnAnswers : Answer(r, status)
         \/ Forward(r)
         \/ BackendResponds(r) \/ BackendEnds(r) \/ BackendAborts(r) \/ BackendErrors(r)
         \/ Timeout(r) \/ DestroyedCloses(r) \/ ClientCloses(r) \/ UploadEnds(r)
  PROVE  RequestInv(r)'
<1>1. CASE \E status \in OwnAnswers : Answer(r, status)
  BY <1>1 DEF TypeOK, RequestInv, Answer, Arrives, WriteHead, Count, OwnAnswers
<1>2. CASE Forward(r)
  BY <1>2 DEF TypeOK, RequestInv, Forward, Arrives, response
<1>3. CASE BackendResponds(r)
  BY <1>3 DEF TypeOK, RequestInv, BackendResponds, WriteHead, counts
<1>4. CASE BackendEnds(r)
  <2>1. /\ backend'[r] \in {"closed", "answered"}
        /\ backend'[r] = "answered" => ~uploaded[r]
    BY <1>4 DEF TypeOK, BackendEnds
  <2>2. handler'[r] = "settled" /\ counted'[r] = 1 /\ countedAs'[r] = "backend"
    BY <1>4 DEF TypeOK, RequestInv, BackendEnds, Settle, Count
  <2>3. head'[r] = "backend" /\ heads'[r] = 1 /\ ended'[r] /\ uploaded'[r] = uploaded[r]
    BY <1>4 DEF TypeOK, RequestInv, BackendEnds
  <2> QED
    BY <2>1, <2>2, <2>3 DEF RequestInv
<1>5. CASE BackendAborts(r)
  BY <1>5 DEF TypeOK, RequestInv, BackendAborts, Settle, Count, counts, response
<1>6. CASE BackendErrors(r)
  BY <1>6 DEF TypeOK, RequestInv, BackendErrors, Live, OwnError, WriteHead, Settle, Count, counts,
              response
<1>7. CASE Timeout(r)
  BY <1>7 DEF TypeOK, RequestInv, Timeout, Live, OwnError, WriteHead, Settle, Count, counts,
              response
<1>8. CASE DestroyedCloses(r)
  BY <1>8 DEF TypeOK, RequestInv, DestroyedCloses, OwnError, WriteHead, Settle, Count, counts,
              response
<1>9. CASE ClientCloses(r)
  BY <1>9 DEF TypeOK, RequestInv, ClientCloses, Live, response, counts
<1>10. CASE UploadEnds(r)
  BY <1>10 DEF TypeOK, RequestInv, UploadEnds, response, counts
<1> QED
  BY <1>1, <1>2, <1>3, <1>4, <1>5, <1>6, <1>7, <1>8, <1>9, <1>10

LEMMA InvStep == IInv /\ [Next]_vars => IInv'
<1> SUFFICES ASSUME IInv, [Next]_vars PROVE IInv'
  OBVIOUS
<1>1. TypeOK'
  BY TypeStep DEF IInv
<1>2. ASSUME NEW x \in Requests PROVE RequestInv(x)'
  <2>1. ASSUME NEW r \in Requests,
               \/ \E status \in OwnAnswers : Answer(r, status)
               \/ Forward(r)
               \/ BackendResponds(r) \/ BackendEnds(r) \/ BackendAborts(r)
               \/ BackendErrors(r)
               \/ Timeout(r) \/ DestroyedCloses(r) \/ ClientCloses(r) \/ UploadEnds(r)
        PROVE RequestInv(x)'
    <3>1. CASE x = r
      BY <2>1, <3>1, RequestStep DEF IInv
    <3>2. CASE x # r
      BY <2>1, <3>2, OtherSame, InvSame DEF IInv
    <3> QED BY <3>1, <3>2
  <2>2. CASE Shutdown \/ ServersClosed \/ ForceExit \/ UNCHANGED vars
    <3>1. Same(x)
      BY <2>2 DEF Same, Shutdown, ServersClosed, ForceExit, vars, response, counts
    <3> QED
      BY <3>1, InvSame DEF IInv
  <2> QED
    BY <2>1, <2>2 DEF Next
<1> QED
  BY <1>1, <1>2 DEF IInv

\* The invariant of every request, its answer, its exchange and its count.
THEOREM GatewayInvariant == Spec => []IInv
  BY InvInit, InvStep, PTL DEF Spec

-----------------------------------------------------------------------------
(* What follows from it.                                                    *)

LEMMA InvSafe ==
  IInv => TypeOK /\ SingleHead /\ CountedOnce /\ NoBackendLeft /\ OnlyBackendsTruncate
<1> SUFFICES ASSUME IInv
             PROVE  TypeOK /\ SingleHead /\ CountedOnce /\ NoBackendLeft /\ OnlyBackendsTruncate
  OBVIOUS
<1>inv. ASSUME NEW r \in Requests PROVE RequestInv(r)
  BY DEF IInv
<1>1. SingleHead
  <2>1. ASSUME NEW r \in Requests PROVE heads[r] <= 1
    <3>1. heads[r] = 0 \/ heads[r] = 1
      BY <1>inv DEF RequestInv
    <3> QED BY <3>1
  <2> QED BY <2>1 DEF SingleHead
<1>2. CountedOnce
  <2>1. ASSUME NEW r \in Requests
        PROVE  /\ counted[r] = IF handler[r] = "settled" THEN 1 ELSE 0
               /\ countedAs[r] # head[r] /\ counted[r] = 1
                    => countedAs[r] = "500" /\ head[r] = "backend" /\ ~ended[r]
    <3>1. RequestInv(r)
      BY <1>inv
    <3> QED BY <3>1 DEF RequestInv
  <2> QED BY <2>1 DEF CountedOnce
<1>3. NoBackendLeft
  <2>1. ASSUME NEW r \in Requests, client[r] = "gone" \/ handler[r] = "settled", Live(r)
        PROVE  backend[r] = "answered" /\ head[r] = "backend" /\ ended[r] /\ ~uploaded[r]
    BY <1>inv, <2>1 DEF RequestInv, Live
  <2> QED BY <2>1 DEF NoBackendLeft
<1>4. OnlyBackendsTruncate
  BY <1>inv DEF RequestInv, OnlyBackendsTruncate
<1> QED
  BY <1>1, <1>2, <1>3, <1>4 DEF IInv

\* No order of response, timeout, error and client close writes a second head.
THEOREM HeadsAreSingle == Spec => []SingleHead
  BY GatewayInvariant, InvSafe, PTL

\* Each done request is counted once, under what its client was sent, unless its
\* body was cut short.
THEOREM CountsAreRight == Spec => []CountedOnce
  BY GatewayInvariant, InvSafe, PTL

\* No backend request outlives its client or its handler but one that is answered
\* in full and whose upload is open.
THEOREM BackendsAreReleased == Spec => []NoBackendLeft
  BY GatewayInvariant, InvSafe, PTL

\* Only a response its backend began can be left incomplete.
THEOREM OwnAnswersComplete == Spec => []OnlyBackendsTruncate
  BY GatewayInvariant, InvSafe, PTL

-----------------------------------------------------------------------------
(* Refinement.                                                              *)

LEMMA OutcomeInit == Init => Outcome!Init
  BY DEF Init, Outcome!Init

\* What the client was sent and what was counted stay as they are.
Unseen == UNCHANGED <<handler, head, ended, countedAs>>

\* An error of the exchange with the backend that settles the promise: the
\* gateway's own answer if no head is out, otherwise a body cut short.
LEMMA ErrorEnds ==
  ASSUME TypeOK, NEW r \in Requests, RequestInv(r), handler[r] = "proxying",
         NEW status \in {"502", "504"}, OwnError(r, status), NEW countAs,
         head[r] = "none" => countAs = status,
         head[r] = "backend" => countAs \in {"backend", "500"},
         Count(r, countAs)
  PROVE  Outcome!Next
<1>1. handler' = [handler EXCEPT ![r] = "settled"] /\ countedAs' = [countedAs EXCEPT ![r] = countAs]
  BY DEF Count
<1>2. CASE head[r] = "none"
  <2>1. head' = [head EXCEPT ![r] = status] /\ ended' = [ended EXCEPT ![r] = TRUE]
    BY <1>2 DEF OwnError, WriteHead
  <2>2. Outcome!Answer(r, status)
    BY <1>1, <1>2, <2>1 DEF Outcome!Answer, Outcome!Ends
  <2> QED BY <2>2 DEF Outcome!Next
<1>3. CASE head[r] = "backend"
  <2>1. UNCHANGED <<head, ended>> /\ ended[r] = FALSE
    BY <1>3 DEF OwnError, response, RequestInv, TypeOK
  <2>2. head' = [head EXCEPT ![r] = "backend"] /\ ended' = [ended EXCEPT ![r] = FALSE]
    BY <1>3, <2>1 DEF TypeOK
  <2>3. Outcome!Body(r, FALSE)
    BY <1>1, <1>3, <2>2 DEF Outcome!Body, Outcome!Ends
  <2> QED BY <2>3 DEF Outcome!Next
<1> QED
  BY <1>2, <1>3 DEF RequestInv

LEMMA OutcomeStep == IInv /\ [Next]_vars => [Outcome!Next]_(Outcome!vars)
<1> SUFFICES ASSUME IInv, [Next]_vars PROVE [Outcome!Next]_(Outcome!vars)
  OBVIOUS
<1>0. TypeOK /\ \A r \in Requests : RequestInv(r)
  BY DEF IInv
<1>unseen. Unseen => UNCHANGED Outcome!vars
  BY DEF Unseen, Outcome!vars
<1>1. ASSUME NEW r \in Requests, NEW status \in OwnAnswers, Answer(r, status)
      PROVE  Outcome!Next
  <2>1. Outcome!Answer(r, status)
    BY <1>1 DEF Answer, Arrives, WriteHead, Count, Outcome!Answer, Outcome!Ends
  <2> QED BY <2>1 DEF Outcome!Next
<1>2. ASSUME NEW r \in Requests, Forward(r) PROVE Outcome!Next
  BY <1>2 DEF Forward, Arrives, response, Outcome!Forward, Outcome!Next
<1>3. ASSUME NEW r \in Requests, BackendResponds(r) PROVE Outcome!Next
  <2>1. handler[r] = "proxying" /\ head[r] = "none"
    BY <1>0, <1>3 DEF BackendResponds, RequestInv
  <2> QED
    BY <1>3, <2>1 DEF BackendResponds, WriteHead, counts, Outcome!Head, Outcome!Next
<1>4. ASSUME NEW r \in Requests, BackendEnds(r) PROVE Outcome!Next
  <2>1. handler[r] = "proxying" /\ head[r] = "backend"
    BY <1>0, <1>4 DEF BackendEnds, RequestInv
  <2>2. /\ handler' = [handler EXCEPT ![r] = "settled"]
        /\ ended' = [ended EXCEPT ![r] = TRUE]
        /\ countedAs' = [countedAs EXCEPT ![r] = "backend"]
        /\ head' = [head EXCEPT ![r] = "backend"]
    BY <1>0, <1>4, <2>1 DEF BackendEnds, Settle, Count, TypeOK
  <2>3. Outcome!Body(r, TRUE)
    BY <2>1, <2>2 DEF Outcome!Body, Outcome!Ends
  <2> QED BY <2>3 DEF Outcome!Next
<1>5. ASSUME NEW r \in Requests, BackendAborts(r) PROVE Outcome!Next
  <2>1. handler[r] = "proxying" /\ head[r] = "backend" /\ ended[r] = FALSE
    BY <1>0, <1>5 DEF BackendAborts, RequestInv, TypeOK
  <2>2. /\ handler' = [handler EXCEPT ![r] = "settled"]
        /\ ended' = [ended EXCEPT ![r] = FALSE]
        /\ countedAs' = [countedAs EXCEPT ![r] = "500"]
        /\ head' = [head EXCEPT ![r] = "backend"]
    BY <1>0, <1>5, <2>1 DEF BackendAborts, Settle, Count, TypeOK, response
  <2>3. Outcome!Body(r, FALSE)
    BY <2>1, <2>2 DEF Outcome!Body, Outcome!Ends
  <2> QED BY <2>3 DEF Outcome!Next
<1>6. ASSUME NEW r \in Requests, NEW status \in {"502", "504"}, Live(r),
             OwnError(r, status), Settle(r, head'[r])
      PROVE  Outcome!Next \/ Unseen
  <2>1. CASE backend[r] = "answered"
    <3>1. handler[r] = "settled" /\ head[r] = "backend"
      BY <1>0, <2>1 DEF RequestInv
    <3> QED
      BY <1>6, <3>1 DEF OwnError, Settle, response, counts, Unseen
  <2>2. CASE backend[r] \in {"waiting", "streaming"}
    <3>1. handler[r] = "proxying" /\ Count(r, head'[r])
      BY <1>0, <1>6, <2>2 DEF Settle, RequestInv
    <3>2. /\ head[r] = "none" => head'[r] = status
          /\ head[r] = "backend" => head'[r] \in {"backend", "500"}
      BY <1>0, <1>6 DEF OwnError, WriteHead, response, TypeOK
    <3> QED BY <1>0, <1>6, <3>1, <3>2, ErrorEnds
  <2> QED BY <1>6, <2>1, <2>2 DEF Live
\* The late close of a destroyed exchange settles what is still awaited, and is
\* not noticed after that.
<1>7. ASSUME NEW r \in Requests, DestroyedCloses(r) PROVE Outcome!Next \/ Unseen
  <2>1. OwnError(r, "502") /\ Settle(r, IF head[r] = "backend" THEN "500" ELSE head'[r])
    BY <1>7 DEF DestroyedCloses
  <2>2. CASE handler[r] = "proxying"
    <3>1. head[r] = "none" => head'[r] = "502"
      BY <1>0, <2>1 DEF OwnError, WriteHead, TypeOK
    <3>2. Count(r, IF head[r] = "backend" THEN "500" ELSE head'[r])
      BY <2>1, <2>2 DEF Settle
    <3> QED BY <1>0, <2>1, <2>2, <3>1, <3>2, ErrorEnds
  <2>3. CASE handler[r] # "proxying"
    <3>1. head[r] # "none"
      BY <1>0, <1>7, <2>3 DEF DestroyedCloses, RequestInv, TypeOK
    <3> QED
      BY <2>1, <2>3, <3>1 DEF OwnError, Settle, response, counts, Unseen
  <2> QED BY <2>2, <2>3
<1>8. ASSUME NEW r \in Requests, ClientCloses(r) \/ UploadEnds(r) PROVE Unseen
  BY <1>8 DEF ClientCloses, UploadEnds, response, counts, Unseen
<1>9. CASE Shutdown \/ ServersClosed \/ ForceExit \/ UNCHANGED vars
  <2>1. Unseen
    BY <1>9 DEF Shutdown, ServersClosed, ForceExit, vars, response, counts, Unseen
  <2> QED BY <1>unseen, <2>1
<1>10. ASSUME NEW r \in Requests, BackendErrors(r) \/ Timeout(r)
       PROVE  Outcome!Next \/ Unseen
  BY <1>6, <1>10 DEF BackendErrors, Timeout
<1> QED
  BY <1>unseen, <1>1, <1>2, <1>3, <1>4, <1>5, <1>7, <1>8, <1>9, <1>10 DEF Next

\* For its client and for the metrics a request comes to one end, which no late
\* response, timeout, error, closing client or shutdown changes.
THEOREM OutcomesAreFinal == Spec => ImplementsExchange
  BY InvInit, InvStep, OutcomeInit, OutcomeStep, PTL
     DEF Spec, ImplementsExchange, Outcome!Spec
=============================================================================
