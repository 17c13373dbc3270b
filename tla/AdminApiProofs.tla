--------------------------- MODULE AdminApiProofs ---------------------------
(***************************************************************************)
(* Proofs about AdminApi, for every set of requests, of texts and of       *)
(* arrays, every limit and every size of chunk.                            *)
(***************************************************************************)
EXTENDS AdminApi, TLAPS

\* What the GET handlers, an unknown path and a bad URL are answered.
LEMMA ReadCodes ==
  ASSUME NEW o \in Reads
  PROVE  o \in Ops /\ AtOnce[o] \in {200, 404, 500}
<1>1. Reads = {"read", "unknown", "badUrl"}
  BY DEF Reads, AtOnce
<1> QED
  BY <1>1 DEF AtOnce, Ops

LEMMA TypeAnswer ==
  ASSUME TypeOK, NEW r \in Requests, NEW code \in {200} \cup Refusals, Answer(r, code)
  PROVE  /\ stage' \in [Requests -> {"idle", "reading", "reloading", "done"}]
         /\ status' \in [Requests -> {0, 200} \cup Refusals]
         /\ answers' \in [Requests -> Nat]
  BY DEF TypeOK, Answer

LEMMA TypeArrive ==
  ASSUME TypeOK, NEW r \in Requests, NEW o \in Ops, Arrive(r, o)
  PROVE  /\ op' \in [Requests -> Ops] /\ before' \in [Requests -> SUBSET Texts]
         /\ UNCHANGED <<store, size, socket, told>>
  BY DEF TypeOK, Arrive

LEMMA TypeStep == TypeOK /\ [Next]_vars => TypeOK'
<1> SUFFICES ASSUME TypeOK, [Next]_vars PROVE TypeOK'
  OBVIOUS
<1>0. 200 \in {200} \cup Refusals /\ 400 \in Refusals /\ 404 \in Refusals
      /\ 413 \in Refusals /\ 500 \in Refusals
  BY DEF Refusals
<1>1. ASSUME NEW r \in Requests, NEW o \in Reads, Read(r, o) PROVE TypeOK'
  <2>1. o \in Ops /\ AtOnce[o] \in {200} \cup Refusals
    BY <1>0, ReadCodes
  <2> QED
    BY <1>1, <2>1, TypeAnswer, TypeArrive DEF TypeOK, Read, store
<1>2. ASSUME NEW r \in Requests, NEW o \in Bodied, OpenBody(r, o) PROVE TypeOK'
  <2>1. o \in Ops
    BY DEF Ops
  <2> QED
    BY <1>2, <2>1, TypeArrive DEF TypeOK, OpenBody, Goes, store, reply
<1>3. ASSUME NEW r \in Requests, OpenReload(r) PROVE TypeOK'
  <2>1. "reload" \in Ops
    BY DEF Ops
  <2>2. CASE HotReload
    BY <1>3, <2>1, <2>2, TypeArrive DEF TypeOK, OpenReload, Goes, store, reply
  <2>3. CASE ~HotReload
    BY <1>0, <1>3, <2>1, <2>3, TypeArrive, TypeAnswer DEF TypeOK, OpenReload, store
  <2> QED BY <2>2, <2>3
<1>4. ASSUME NEW r \in Requests, NEW n \in 1..MaxChunk, Chunk(r, n) PROVE TypeOK'
  <2>1. CASE TooLarge(r, n)
    BY <1>0, <1>4, <2>1, TypeAnswer DEF TypeOK, Chunk, store
  <2>2. CASE ~TooLarge(r, n)
    <3>1. size[r] + n \in 0..MaxBody
      BY <2>2, SizesAssumption DEF TypeOK, TooLarge
    <3> QED
      BY <1>4, <2>2, <3>1 DEF TypeOK, Chunk, store, reply
  <2> QED BY <2>1, <2>2
<1>5. ASSUME NEW r \in Requests, Refuse(r) PROVE TypeOK'
  BY <1>0, <1>5, TypeAnswer DEF TypeOK, Refuse, store
<1>6. ASSUME NEW r \in Requests, NEW t \in Texts, AddPolicies(r, t) PROVE TypeOK'
  BY <1>0, <1>6, TypeAnswer DEF TypeOK, AddPolicies, Existing
<1>7. ASSUME NEW r \in Requests, NEW e \in Arrays, SetEntities(r, e) PROVE TypeOK'
  BY <1>0, <1>7, TypeAnswer DEF TypeOK, SetEntities
<1>8. ASSUME NEW r \in Requests, HangUp(r) PROVE TypeOK'
  BY <1>0, <1>8, TypeAnswer DEF TypeOK, HangUp, store, reply
<1>9. ASSUME NEW r \in Requests, ReloadDone(r) PROVE TypeOK'
  <2>1. PICK code \in {200, 500} : Answer(r, code)
    BY <1>9 DEF ReloadDone
  <2> QED
    BY <1>0, <1>9, <2>1, TypeAnswer DEF TypeOK, ReloadDone, Install, store
<1>10. CASE WatcherReloads
  BY <1>10 DEF TypeOK, WatcherReloads, Install, request, reply
<1>11. CASE UNCHANGED vars
  BY <1>11 DEF TypeOK, vars, store, request, reply
<1> QED
  BY <1>1, <1>2, <1>3, <1>4, <1>5, <1>6, <1>7, <1>8, <1>9, <1>10, <1>11 DEF Next

LEMMA TypeInit == Init => TypeOK
  BY SizesAssumption DEF Init, TypeOK, Ops, Reads, AtOnce

\* No body is kept beyond its limit, and every answer is one the handlers give.
THEOREM BodiesAreBounded == Spec => []TypeOK
  BY TypeInit, TypeStep, PTL DEF Spec

-----------------------------------------------------------------------------
(* One answer each.                                                         *)

\* The two ways a step can touch the answers: none, or one to a request that
\* is not done.
Untouched == UNCHANGED answers /\ \A r \in Requests : (stage'[r] = "done") <=> (stage[r] = "done")
AnswersOne == \E r \in Requests, code \in {200} \cup Refusals :
                stage[r] # "done" /\ Answer(r, code)

LEMMA StepsAnswer == TypeOK /\ [Next]_vars => Untouched \/ AnswersOne
<1> SUFFICES ASSUME TypeOK, [Next]_vars PROVE Untouched \/ AnswersOne
  OBVIOUS
<1>0. {400, 404, 413, 500} = Refusals
  BY DEF Refusals
<1>1. ASSUME NEW r \in Requests, NEW o \in Reads, Read(r, o) PROVE AnswersOne
  BY <1>0, <1>1, ReadCodes DEF AnswersOne, Read, Arrive
<1>2. ASSUME NEW r \in Requests, NEW o \in Bodied, OpenBody(r, o) PROVE Untouched
  BY <1>2 DEF TypeOK, Untouched, OpenBody, Arrive, Goes, reply
<1>3. ASSUME NEW r \in Requests, OpenReload(r) PROVE Untouched \/ AnswersOne
  BY <1>0, <1>3 DEF TypeOK, Untouched, AnswersOne, OpenReload, Arrive, Goes, reply
<1>4. ASSUME NEW r \in Requests, NEW n \in 1..MaxChunk, Chunk(r, n)
      PROVE  Untouched \/ AnswersOne
  BY <1>0, <1>4 DEF Untouched, AnswersOne, Chunk, reply
<1>5. ASSUME NEW r \in Requests, Refuse(r) PROVE AnswersOne
  BY <1>0, <1>5 DEF AnswersOne, Refuse, BodyRead
<1>6. ASSUME NEW r \in Requests, NEW t \in Texts, AddPolicies(r, t) PROVE AnswersOne
  BY <1>6 DEF AnswersOne, AddPolicies, BodyRead
<1>7. ASSUME NEW r \in Requests, NEW e \in Arrays, SetEntities(r, e) PROVE AnswersOne
  BY <1>7 DEF AnswersOne, SetEntities, BodyRead
<1>8. ASSUME NEW r \in Requests, HangUp(r) PROVE Untouched \/ AnswersOne
  BY <1>0, <1>8 DEF Untouched, AnswersOne, HangUp, reply
<1>9. ASSUME NEW r \in Requests, ReloadDone(r) PROVE AnswersOne
  BY <1>0, <1>9 DEF AnswersOne, ReloadDone
<1>10. CASE WatcherReloads
  BY <1>10 DEF Untouched, WatcherReloads, request, reply
<1>11. CASE UNCHANGED vars
  BY <1>11 DEF Untouched, vars, request, reply
<1> QED
  BY <1>1, <1>2, <1>3, <1>4, <1>5, <1>6, <1>7, <1>8, <1>9, <1>10, <1>11 DEF Next

LEMMA OnceStep == TypeOK /\ AnsweredOnce /\ [Next]_vars => AnsweredOnce'
<1> SUFFICES ASSUME TypeOK, AnsweredOnce, [Next]_vars PROVE AnsweredOnce'
  OBVIOUS
<1>1. CASE Untouched
  BY <1>1 DEF AnsweredOnce, Untouched
<1>2. CASE AnswersOne
  <2> PICK r \in Requests, code \in {200} \cup Refusals :
        stage[r] # "done" /\ Answer(r, code)
    BY <1>2 DEF AnswersOne
  <2>1. answers[r] = 0 /\ answers'[r] = 1 /\ stage'[r] = "done"
    BY DEF TypeOK, Answer, AnsweredOnce
  <2>2. \A x \in Requests \ {r} : answers'[x] = answers[x] /\ stage'[x] = stage[x]
    BY DEF TypeOK, Answer
  <2> QED
    BY <2>1, <2>2 DEF AnsweredOnce
<1> QED
  BY <1>1, <1>2, StepsAnswer

\* However its body, its client and its reload end, a request is answered once.
THEOREM AnswersAreSingle == Spec => []AnsweredOnce
<1>1. Init => AnsweredOnce
  BY DEF Init, AnsweredOnce
<1> QED
  BY <1>1, TypeInit, TypeStep, OnceStep, PTL DEF Spec

-----------------------------------------------------------------------------
(* The store.                                                               *)

\* Who writes the store: an addition, a put, a load; nobody else.
LEMMA StoreWriters ==
  ASSUME TypeOK, [Next]_vars
  PROVE  \/ UNCHANGED <<store, told>>
         \/ \E r \in Requests, t \in Texts : AddPolicies(r, t)
         \/ \E r \in Requests, e \in Arrays : SetEntities(r, e)
         \/ \E r \in Requests : ReloadDone(r) /\ Answer(r, 200) /\ Install
         \/ WatcherReloads
<1> DEFINE Writes ==
      \/ UNCHANGED <<store, told>>
      \/ \E r \in Requests, t \in Texts : AddPolicies(r, t)
      \/ \E r \in Requests, e \in Arrays : SetEntities(r, e)
      \/ \E r \in Requests : ReloadDone(r) /\ Answer(r, 200) /\ Install
      \/ WatcherReloads
<1>1. ASSUME NEW r \in Requests, NEW o \in Reads, Read(r, o) PROVE UNCHANGED <<store, told>>
  BY <1>1 DEF Read, Arrive
<1>2. ASSUME NEW r \in Requests, NEW o \in Bodied, OpenBody(r, o)
      PROVE  UNCHANGED <<store, told>>
  BY <1>2 DEF OpenBody, Arrive
<1>3. ASSUME NEW r \in Requests, OpenReload(r) PROVE UNCHANGED <<store, told>>
  BY <1>3 DEF OpenReload, Arrive
<1>4. ASSUME NEW r \in Requests, NEW n \in 1..MaxChunk, Chunk(r, n)
      PROVE  UNCHANGED <<store, told>>
  BY <1>4 DEF Chunk
<1>5. ASSUME NEW r \in Requests, Refuse(r) PROVE UNCHANGED <<store, told>>
  BY <1>5 DEF Refuse
<1>6. ASSUME NEW r \in Requests, HangUp(r) PROVE UNCHANGED <<store, told>>
  BY <1>6 DEF HangUp
<1>7. ASSUME NEW r \in Requests, ReloadDone(r) PROVE Writes
  BY <1>7 DEF ReloadDone
<1>8. CASE UNCHANGED vars
  BY <1>8 DEF vars
<1> QED
  BY <1>1, <1>2, <1>3, <1>4, <1>5, <1>6, <1>7, <1>8 DEF Next

LEMMA AddStep == TypeOK /\ NoAddIsLost /\ [Next]_vars => NoAddIsLost'
  BY StoreWriters DEF NoAddIsLost, AddPolicies, Existing, SetEntities, Install,
     WatcherReloads, store

\* Additions never undo one another, whatever happens between the arrival of a
\* request and the end of its body.
THEOREM AddsAreKept == Spec => []NoAddIsLost
<1>1. Init => NoAddIsLost
  BY DEF Init, NoAddIsLost
<1> QED
  BY <1>1, TypeInit, TypeStep, AddStep, PTL DEF Spec

LEMMA RefusalStep ==
  ASSUME TypeOK, [Next]_vars, NEW r \in Requests,
         status[r] = 0, status'[r] \in Refusals
  PROVE  UNCHANGED store
<1>0. 200 \notin Refusals /\ 0 \notin Refusals
  BY DEF Refusals
<1>1. ASSUME NEW x \in Requests, Answer(x, 200) PROVE FALSE
  BY <1>0, <1>1 DEF TypeOK, Answer
<1>2. ~WatcherReloads
  BY <1>0 DEF WatcherReloads, reply
<1> QED
  BY <1>1, <1>2, StoreWriters DEF AddPolicies, SetEntities

\* A request that is refused or fails leaves policies and entities as they are.
THEOREM RefusedWithoutTrace == Spec => RefusalsChangeNothing
<1>1. TypeOK /\ [Next]_vars
        => [\A r \in Requests :
              status[r] = 0 /\ status'[r] \in Refusals => UNCHANGED store]_vars
  BY RefusalStep
<1> QED
  BY <1>1, TypeInit, TypeStep, PTL DEF Spec, RefusalsChangeNothing
=============================================================================
