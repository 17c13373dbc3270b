------------------------------ MODULE AdminApi ------------------------------
(***************************************************************************)
(* The admin server: the routing of handleAdminRequest, readBody with its  *)
(* limit, the handlers of admin-handlers.ts, and the catch of              *)
(* admin-router.ts that turns a rejection into 413 or 500.                 *)
(*                                                                         *)
(* A handler awaits its body or a reload; what follows the await runs in   *)
(* the turn the promise settles in.  The reload itself is HotReloader's;   *)
(* here it ends in one of the ways reload() can end.                       *)
(***************************************************************************)
EXTENDS Integers

CONSTANTS
  Requests,    \* admin requests, each on a connection of its own
  Texts,       \* policy texts that parse
  Arrays,      \* entity arrays
  Loaded,      \* the entities of the entities file
  MaxBody,     \* MAX_BODY_SIZE, in units of a body
  MaxChunk,    \* the largest chunk the socket delivers at once
  HotReload    \* is there a reloader

ASSUME SizesAssumption == MaxBody \in Nat /\ MaxChunk \in Nat /\ HotReload \in BOOLEAN

VARIABLES
  added,     \* the store: texts appended since its policies were last loaded ...
  entities,  \* ... and its entities
  stage,     \* idle, reading a body, awaiting a reload, done
  op,        \* what was asked for
  size,      \* how much of the body has been kept
  socket,    \* open or destroyed
  status,    \* the answer; 0 before
  answers,   \* how often writeHead was called
  before,    \* history: the texts the store had when the request came
  told       \* history: texts answered 200 since the policies were last loaded

store == <<added, entities>>
request == <<stage, op, size>>
reply == <<status, answers>>
vars == <<store, request, socket, reply, before, told>>

AtOnce == [read |-> 200, unknown |-> 404, badUrl |-> 500]
Reads == DOMAIN AtOnce
Bodied == {"add", "put"}
Ops == Reads \cup Bodied \cup {"reload"}
Refusals == {400, 404, 413, 500}

\* Types: in particular no request keeps more of a body than its limit, whether
\* it is still being read, was refused, or was carried out.
TypeOK ==
  /\ added \in SUBSET Texts /\ told \in SUBSET Texts
  /\ entities \in Arrays \cup {Loaded}
  /\ stage \in [Requests -> {"idle", "reading", "reloading", "done"}]
  /\ op \in [Requests -> Ops]
  /\ size \in [Requests -> 0..MaxBody]
  /\ socket \in [Requests -> {"open", "destroyed"}]
  /\ status \in [Requests -> {0, 200} \cup Refusals]
  /\ answers \in [Requests -> Nat]
  /\ before \in [Requests -> SUBSET Texts]

Init ==
  /\ added = {} /\ told = {} /\ entities = Loaded
  /\ stage = [r \in Requests |-> "idle"] /\ op = [r \in Requests |-> "read"]
  /\ size = [r \in Requests |-> 0] /\ socket = [r \in Requests |-> "open"]
  /\ status = [r \in Requests |-> 0] /\ answers = [r \in Requests |-> 0]
  /\ before = [r \in Requests |-> {}]

\* json(), or one of the catch blocks of the router.
Answer(r, code) ==
  /\ stage' = [stage EXCEPT ![r] = "done"]
  /\ status' = [status EXCEPT ![r] = code]
  /\ answers' = [answers EXCEPT ![r] = @ + 1]

\* handleAdminRequest is called.
Arrive(r, o) ==
  /\ stage[r] = "idle"
  /\ op' = [op EXCEPT ![r] = o]
  /\ before' = [before EXCEPT ![r] = added]
  /\ UNCHANGED <<store, size, socket, told>>

Goes(r, next) == stage' = [stage EXCEPT ![r] = next] /\ UNCHANGED reply

\* The GET handlers answer at once; a path nobody serves is 404, and a host or
\* path new URL() refuses throws into the router's catch.
Read(r, o) == Arrive(r, o) /\ Answer(r, AtOnce[o])

OpenBody(r, o) == Arrive(r, o) /\ Goes(r, "reading")

OpenReload(r) ==
  /\ Arrive(r, "reload")
  /\ IF HotReload THEN Goes(r, "reloading") ELSE Answer(r, 400)

\* Mutant: the length of the chunk is compared, not the sum.
TooLarge_PerChunk(r, n) == n > MaxBody

TooLarge(r, n) == size[r] + n > MaxBody

\* "data": over the limit the request is destroyed, its socket with it, and the
\* 413 is written to nobody.
Chunk(r, n) ==
  /\ stage[r] = "reading" /\ socket[r] = "open"
  /\ IF TooLarge(r, n)
     THEN socket' = [socket EXCEPT ![r] = "destroyed"] /\ Answer(r, 413) /\ UNCHANGED size
     ELSE size' = [size EXCEPT ![r] = @ + n] /\ UNCHANGED <<socket, stage, reply>>
  /\ UNCHANGED <<store, op, before, told>>

\* "end": the promise resolves and the handler goes on.
BodyRead(r, o) == stage[r] = "reading" /\ socket[r] = "open" /\ op[r] = o

\* Mutant: the store is written before the text is validated.
Refuse_WritesFirst(r) ==
  /\ \E o \in Bodied : BodyRead(r, o)
  /\ Answer(r, 400)
  /\ \E t \in Texts : added' = {t}
  /\ UNCHANGED <<entities, op, size, socket, before, told>>

\* Not JSON, no policyText, a text that does not parse, or not an array.
Refuse(r) ==
  /\ \E o \in Bodied : BodyRead(r, o)
  /\ Answer(r, 400)
  /\ UNCHANGED <<store, op, size, socket, before, told>>

\* Mutant: the store is read when the request comes, before its body is awaited.
Existing_AtArrival(r) == before[r]

\* store.getPolicyText(), after the body was awaited.
Existing(r) == added

\* The text is appended to what the store holds in this very turn.
AddPolicies(r, t) ==
  /\ BodyRead(r, "add")
  /\ added' = Existing(r) \cup {t} /\ told' = told \cup {t}
  /\ Answer(r, 200)
  /\ UNCHANGED <<entities, op, size, socket, before>>

\* Any array is taken, whether Cedar can read it or not.
SetEntities(r, e) ==
  /\ BodyRead(r, "put")
  /\ entities' = e
  /\ Answer(r, 200)
  /\ UNCHANGED <<added, op, size, socket, before, told>>

\* Mutant: nothing listens for "error" on the request.
HangUp_Unheard(r) ==
  /\ stage[r] # "idle" /\ socket[r] = "open"
  /\ socket' = [socket EXCEPT ![r] = "destroyed"]
  /\ UNCHANGED <<store, op, size, stage, reply, before, told>>

\* Mutant: the listener answers, instead of rejecting a promise.
HangUp_AnswersItself(r) ==
  /\ stage[r] # "idle" /\ socket[r] = "open"
  /\ socket' = [socket EXCEPT ![r] = "destroyed"]
  /\ Answer(r, 500)
  /\ UNCHANGED <<store, op, size, before, told>>

\* The client goes, or node's request timeout drops it: "error" rejects the body
\* if it is still awaited, and the router answers 500 to nobody.
HangUp(r) ==
  /\ stage[r] # "idle" /\ socket[r] = "open"
  /\ socket' = [socket EXCEPT ![r] = "destroyed"]
  /\ IF stage[r] = "reading" THEN Answer(r, 500) ELSE UNCHANGED <<stage, reply>>
  /\ UNCHANGED <<store, op, size, before, told>>

\* A load replaces the whole text, and the entities if a file names them.
Install ==
  /\ added' = {} /\ told' = {}
  /\ entities' \in {entities, Loaded}

\* reload() has installed a load, was coalesced with another, or has failed.
ReloadDone(r) ==
  /\ stage[r] = "reloading"
  /\ \/ Answer(r, 200) /\ Install
     \/ \E code \in {200, 500} : Answer(r, code) /\ UNCHANGED <<store, told>>
  /\ UNCHANGED <<op, size, socket, before>>

\* A load the watcher caused.
WatcherReloads ==
  /\ HotReload /\ Install
  /\ UNCHANGED <<request, socket, reply, before>>

Next ==
  \/ \E r \in Requests :
       \/ \E o \in Reads : Read(r, o)
       \/ \E o \in Bodied : OpenBody(r, o)
       \/ OpenReload(r)
       \/ \E n \in 1..MaxChunk : Chunk(r, n)
       \/ Refuse(r)
       \/ \E t \in Texts : AddPolicies(r, t)
       \/ \E e \in Arrays : SetEntities(r, e)
       \/ HangUp(r) \/ ReloadDone(r)
  \/ WatcherReloads

Spec == Init /\ [][Next]_vars

BodySettles(r) ==
  \/ Refuse(r) \/ (\E t \in Texts : AddPolicies(r, t)) \/ (\E e \in Arrays : SetEntities(r, e))
  \/ stage[r] = "reading" /\ HangUp(r)

\* A body comes to its end, or node's request timeout drops the connection; a
\* load ends (HotReloader shows that it does).
FairSpec ==
  /\ Spec
  /\ \A r \in Requests : WF_vars(BodySettles(r)) /\ WF_vars(ReloadDone(r))

-----------------------------------------------------------------------------
\* The promise of a body is settled by a chunk too many, by "end" and by
\* "error", in any order, and the client may go during a reload or afterwards:
\* the request is answered once, when it is done, and never again.
AnsweredOnce ==
  \A r \in Requests : answers[r] = IF stage[r] = "done" THEN 1 ELSE 0

\* Additions whose bodies arrive interleaved never undo one another: a text
\* answered 200 is served until a load replaces the policies as a whole.
NoAddIsLost == told \subseteq added

\* Whoever is refused, or fails, has changed nothing: policies and entities
\* are written only in the turn that answers 200, or by a load.
RefusalsChangeNothing ==
  [][\A r \in Requests :
       status[r] = 0 /\ status'[r] \in Refusals => UNCHANGED store]_vars

\* Every request ends, also when its client goes before the body is complete.
RequestsEnd == \A r \in Requests : stage[r] # "idle" ~> stage[r] = "done"
=============================================================================
