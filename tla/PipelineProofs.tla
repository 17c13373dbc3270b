--------------------------- MODULE PipelineProofs ---------------------------
(***************************************************************************)
(* Theorems about Pipeline, for any number of middlewares.                 *)
(***************************************************************************)
EXTENDS Pipeline, TLAPS

\* A step has begun exactly if dispatch has passed it, its promise says what its
\* body does, and a middleware has seen its next() settle only if that step is done.
ChainInv ==
  /\ \A i \in Steps :
       /\ body[i] = "idle" <=> i > index
       /\ promise[i] = IF body[i] = "idle" THEN "none"
                       ELSE IF body[i] \in Outcomes THEN body[i] ELSE "pending"
  /\ \A i \in joined : body[i + 1] \in Outcomes

IInv == TypeOK /\ OncePerRequest /\ ChainInv /\ NoErrorIsSwallowed

\* The chain is set up with its first step running.
LEMMA InitIInv == Init => IInv
<1> SUFFICES ASSUME Init PROVE IInv
  OBVIOUS
<1> USE NAssumption DEF Init, Steps, Middlewares, Outcomes
<1>1. TypeOK
  BY DEF TypeOK
<1>2. OncePerRequest
  BY DEF OncePerRequest
<1>3. ChainInv
  BY DEF ChainInv
<1>4. NoErrorIsSwallowed
  BY DEF NoErrorIsSwallowed
<1> QED BY <1>1, <1>2, <1>3, <1>4 DEF IInv

\* A first next() starts the step below and nothing else.
LEMMA CallNextStep ==
  ASSUME IInv, NEW i \in Middlewares, NEW waits \in BOOLEAN, CallNext(i, waits)
  PROVE  IInv'
<1> USE NAssumption DEF IInv, Steps, Middlewares, Outcomes, CallNext, CalledBefore, Returned
<1>1. index = i /\ i + 1 \in Steps /\ i \in Steps
  <2>1. i \in Steps /\ i + 1 \in Steps
    OBVIOUS
  <2> QED BY <2>1 DEF ChainInv, TypeOK
<1>2. TypeOK'
  BY <1>1 DEF TypeOK
<1>3. OncePerRequest'
  BY <1>1 DEF OncePerRequest, TypeOK
<1>4. ChainInv'
  <2>1. ASSUME NEW j \in Steps
        PROVE  /\ body'[j] = "idle" <=> j > index'
               /\ promise'[j] = IF body'[j] = "idle" THEN "none"
                                ELSE IF body'[j] \in Outcomes THEN body'[j] ELSE "pending"
    <3>1. CASE j = i + 1
      BY <1>1, <3>1 DEF TypeOK
    <3>2. CASE j = i
      BY <1>1, <3>2 DEF TypeOK, ChainInv
    <3>3. CASE j # i /\ j # i + 1
      BY <1>1, <3>3 DEF TypeOK, ChainInv
    <3> QED BY <3>1, <3>2, <3>3
  <2>2. ASSUME NEW j \in joined' PROVE body'[j + 1] \in Outcomes
    <3>1. j \in Middlewares /\ j + 1 \in Steps /\ body[j + 1] \in Outcomes
      BY <2>2 DEF ChainInv, TypeOK
    <3>2. j + 1 # i + 1
      BY <3>1, <1>1 DEF ChainInv
    <3>3. body'[j + 1] = body[j + 1]
      BY <3>1, <3>2, <1>1 DEF TypeOK
    <3> QED BY <3>1, <3>3
  <2> QED BY <2>1, <2>2 DEF ChainInv
<1>5. NoErrorIsSwallowed'
  BY <1>1 DEF NoErrorIsSwallowed, ChainInv, TypeOK
<1> QED BY <1>2, <1>3, <1>4, <1>5

\* A step that is done keeps the chain in order; an error is looked after.
LEMMA FinishStep ==
  ASSUME IInv, NEW i \in Steps, NEW outcome \in Outcomes,
         body[i] \in {"running", "awaiting"}, Finish(i, outcome),
         forgiven \subseteq forgiven', forgiven' \in SUBSET Middlewares,
         joined' \in SUBSET Middlewares, joined \subseteq joined',
         \A j \in joined' \ joined : body[j + 1] \in Outcomes,
         i \in Middlewares /\ body[i] = "awaiting" => outcome = "rejected"
  PROVE  IInv'
<1> USE NAssumption DEF IInv, Steps, Middlewares, Outcomes, Finish, Settled
<1>1. TypeOK'
  <2>1. body' \in [Steps -> {"idle", "running", "awaiting"} \cup Outcomes]
    BY DEF TypeOK
  <2>2. promise' \in [Steps -> {"none", "pending"} \cup Outcomes]
    BY DEF TypeOK
  <2>3. unhandled' \in SUBSET Steps /\ index' \in Steps /\ runs' \in [Steps -> Nat]
    BY DEF TypeOK
  <2> QED BY <2>1, <2>2, <2>3 DEF TypeOK
<1>2. OncePerRequest'
  BY DEF OncePerRequest
<1>3. ChainInv'
  <2>1. ASSUME NEW j \in Steps
        PROVE  /\ body'[j] = "idle" <=> j > index'
               /\ promise'[j] = IF body'[j] = "idle" THEN "none"
                                ELSE IF body'[j] \in Outcomes THEN body'[j] ELSE "pending"
    BY DEF ChainInv, TypeOK
  <2>2. ASSUME NEW j \in joined' PROVE body'[j + 1] \in Outcomes
    BY DEF ChainInv, TypeOK
  <2> QED BY <2>1, <2>2 DEF ChainInv
<1>4. NoErrorIsSwallowed'
  <2> SUFFICES ASSUME NEW j \in Middlewares, (body[j + 1] = "rejected")'
               PROVE  \/ body'[j] \in {"awaiting", "rejected"}
                      \/ j \in forgiven' \/ j + 1 \in unhandled'
    BY DEF NoErrorIsSwallowed
  <2>1. CASE j + 1 = i
    <3>1. j = i - 1 /\ j # i /\ i > 0 /\ j \in Steps
      BY <2>1
    <3>2. outcome = "rejected" /\ body'[j] = body[j]
      BY <2>1, <3>1 DEF TypeOK
    <3> QED BY <2>1, <3>1, <3>2
  <2>2. CASE j + 1 # i
    BY <2>2 DEF TypeOK, NoErrorIsSwallowed
  <2> QED BY <2>1, <2>2
<1> QED BY <1>1, <1>2, <1>3, <1>4

\* Calling next() again starts nothing.
LEMMA CallNextAgainStep ==
  ASSUME IInv, NEW i \in Middlewares, CallNextAgain(i)
  PROVE  IInv'
<1>1. CASE /\ forgiven' = forgiven \cup {i} /\ UNCHANGED joined
           /\ UNCHANGED <<index, runs, body, promise, unhandled>>
  BY <1>1, NAssumption DEF IInv, TypeOK, OncePerRequest, ChainInv, NoErrorIsSwallowed,
    Steps, Middlewares
<1>2. CASE body[i] = "running" /\ Finish(i, "rejected") /\ UNCHANGED <<forgiven, joined>>
  <2>1. i \in Steps /\ "rejected" \in Outcomes
    BY NAssumption DEF Steps, Middlewares, Outcomes
  <2> QED BY <1>2, <2>1, FinishStep DEF IInv, TypeOK
<1>3. CASE /\ unhandled' = unhandled \cup {i + 1} /\ UNCHANGED joined
           /\ UNCHANGED <<index, runs, body, promise, forgiven>>
  BY <1>3, NAssumption DEF IInv, TypeOK, OncePerRequest, ChainInv, NoErrorIsSwallowed,
    Steps, Middlewares
<1> QED BY <1>1, <1>2, <1>3 DEF CallNextAgain

\* A middleware that resumes has seen the step below settle.
LEMMA ResumeStep ==
  ASSUME IInv, NEW i \in Middlewares, Resume(i)
  PROVE  IInv'
<1> USE NAssumption DEF Steps, Middlewares, Outcomes
<1>1. i \in Steps /\ i + 1 \in Steps /\ body[i + 1] = promise[i + 1]
      /\ body[i] = "awaiting" /\ promise[i + 1] \in Outcomes
  BY DEF IInv, ChainInv, Resume, TypeOK
<1>2. CASE /\ body' = [body EXCEPT ![i] = "running"]
           /\ forgiven' = IF promise[i + 1] = "rejected" THEN forgiven \cup {i} ELSE forgiven
           /\ UNCHANGED <<index, runs, promise, unhandled>>
  <2> USE <1>1, <1>2 DEF IInv, Resume
  <2>1. TypeOK' /\ OncePerRequest'
    BY DEF TypeOK, OncePerRequest
  <2>2. ChainInv'
    BY DEF TypeOK, ChainInv
  <2>3. NoErrorIsSwallowed'
    BY DEF TypeOK, NoErrorIsSwallowed
  <2> QED BY <2>1, <2>2, <2>3
<1>3. CASE Finish(i, "rejected") /\ UNCHANGED forgiven
  BY <1>1, <1>3, FinishStep DEF IInv, TypeOK, Resume
<1> QED BY <1>2, <1>3 DEF Resume

\* The invariant is inductive.
LEMMA NextIInv == IInv /\ [Next]_vars => IInv'
<1> SUFFICES ASSUME IInv, [Next]_vars PROVE IInv'
  OBVIOUS
<1>1. ASSUME NEW i \in Middlewares, NEW waits \in BOOLEAN, CallNext(i, waits) PROVE IInv'
  BY <1>1, CallNextStep
<1>2. ASSUME NEW i \in Middlewares, CallNextAgain(i) PROVE IInv'
  BY <1>2, CallNextAgainStep
<1>3. ASSUME NEW i \in Middlewares, AwaitLater(i) PROVE IInv'
  <2> USE <1>3, NAssumption DEF IInv, AwaitLater, Steps, Middlewares, Outcomes
  <2>1. TypeOK' /\ OncePerRequest'
    BY DEF TypeOK, OncePerRequest
  <2>2. ChainInv'
    BY DEF TypeOK, ChainInv
  <2>3. NoErrorIsSwallowed'
    BY DEF TypeOK, NoErrorIsSwallowed
  <2> QED BY <2>1, <2>2, <2>3
<1>4. ASSUME NEW i \in Middlewares, Resume(i) PROVE IInv'
  BY <1>4, ResumeStep
<1>5. ASSUME NEW i \in Steps, NEW outcome \in Outcomes, Ends(i, outcome) PROVE IInv'
  <2>1. body[i] = "running" /\ Finish(i, outcome) /\ UNCHANGED <<joined, forgiven>>
    BY <1>5 DEF Ends
  <2> QED BY <2>1, FinishStep DEF IInv, TypeOK
<1>6. CASE UNCHANGED vars
  BY <1>6 DEF vars, IInv, TypeOK, OncePerRequest, ChainInv, NoErrorIsSwallowed
<1> QED BY <1>1, <1>2, <1>3, <1>4, <1>5, <1>6 DEF Next

\* The invariant of the chain holds for any number of middlewares.
THEOREM ChainCorrect == Spec => []IInv
BY InitIInv, NextIInv, PTL DEF Spec

\* No step runs twice and none is skipped, whatever the middlewares do with
\* next(): index alone guards dispatch.
THEOREM StepsRunOnce == Spec => []OncePerRequest
<1>1. IInv => OncePerRequest
  BY DEF IInv
<1> QED BY <1>1, ChainCorrect, PTL

\* dispatch never drops an error of the middleware it awaits.
THEOREM ErrorsSurvive == Spec => []NoErrorIsSwallowed
<1>1. IInv => NoErrorIsSwallowed
  BY DEF IInv
<1> QED BY <1>1, ChainCorrect, PTL

\* The composed handler is not done before the steps it was made to wait for.
THEOREM ChainIsAwaited == Spec => []NothingOutlives
<1>1. IInv => NothingOutlives
  <2> USE NAssumption DEF Steps, Middlewares
  <2> SUFFICES ASSUME IInv, promise[0] \in Outcomes, NEW j \in Steps,
                      \A i \in 0..(j - 1) : i \in joined
               PROVE  body[j] \in Outcomes
    BY DEF NothingOutlives
  <2>1. CASE j = 0
    BY <2>1 DEF IInv, ChainInv, TypeOK, Outcomes
  <2>2. CASE j # 0
    <3>1. j - 1 \in joined /\ (j - 1) + 1 = j
      BY <2>2
    <3> QED BY <3>1 DEF IInv, ChainInv
  <2> QED BY <2>1, <2>2
<1> QED BY <1>1, ChainCorrect, PTL
=============================================================================
