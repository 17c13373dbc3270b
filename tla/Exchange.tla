------------------------------ MODULE Exchange ------------------------------
(***************************************************************************)
(* What a request to cedar-gate comes to, whatever happens between the     *)
(* gateway, its backends and its clients: it is answered in full, by the   *)
(* gateway or by the backend, or is cut short after the backend's head;    *)
(* that is decided once, is counted in that very step under the status     *)
(* sent, or perhaps as 500 if it was cut short, and is never taken back.   *)
(* Gateway implements it.                                                  *)
(***************************************************************************)
CONSTANTS
  Requests,
  OwnAnswers,  \* what the gateway answers by itself ...
  BadGateway   \* ... and in place of a backend

VARIABLES
  stage,     \* of each request: idle, proxying, settled
  sent,      \* the status line its client was sent, and by whom
  complete,  \* was it sent the whole body
  metric     \* the status it was counted under

vars == <<stage, sent, complete, metric>>

Init ==
  /\ stage = [r \in Requests |-> "idle"]
  /\ sent = [r \in Requests |-> "none"]
  /\ complete = [r \in Requests |-> FALSE]
  /\ metric = [r \in Requests |-> "none"]

Ends(r, status, whole, countAs) ==
  /\ stage' = [stage EXCEPT ![r] = "settled"]
  /\ sent' = [sent EXCEPT ![r] = status]
  /\ complete' = [complete EXCEPT ![r] = whole]
  /\ metric' = [metric EXCEPT ![r] = countAs]

\* The gateway answers, without asking a backend or in its place.
Answer(r, status) ==
  /\ \/ stage[r] = "idle" /\ status \in OwnAnswers
     \/ stage[r] = "proxying" /\ sent[r] = "none" /\ status \in BadGateway
  /\ Ends(r, status, TRUE, status)

Forward(r) ==
  /\ stage[r] = "idle" /\ stage' = [stage EXCEPT ![r] = "proxying"]
  /\ UNCHANGED <<sent, complete, metric>>

Head(r) ==
  /\ stage[r] = "proxying" /\ sent[r] = "none"
  /\ sent' = [sent EXCEPT ![r] = "backend"]
  /\ UNCHANGED <<stage, complete, metric>>

\* The backend's answer comes to its end, or is cut short.
Body(r, whole) ==
  /\ stage[r] = "proxying" /\ sent[r] = "backend"
  /\ \E countAs \in IF whole THEN {"backend"} ELSE {"backend", "500"} :
       Ends(r, "backend", whole, countAs)

Next ==
  \E r \in Requests :
    \/ \E status \in OwnAnswers \cup BadGateway : Answer(r, status)
    \/ Forward(r) \/ Head(r)
    \/ \E whole \in BOOLEAN : Body(r, whole)

Spec == Init /\ [][Next]_vars
=============================================================================
