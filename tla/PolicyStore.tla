----------------------------- MODULE PolicyStore -----------------------------
(***************************************************************************)
(* The store every request is evaluated against, as the requests and the   *)
(* admin handlers know it: PolicyStore of policies/policy-store.ts and the *)
(* ways the process has to write it.  A load replaces all policies and,    *)
(* where there is a file of entities, the entities with them, in one step; *)
(* an admin appends a policy or puts entities; nothing else is ever seen.  *)
(* HotReloader implements it.                                              *)
(***************************************************************************)
CONSTANTS
  Bases,          \* what the policy files may hold, all of it valid
  Added,          \* texts an admin may append
  AdminEntities,  \* entities an admin may put
  FileEntities,   \* entities the file may hold
  NoEntities      \* the empty array

VARIABLES
  hasFile,  \* is a file of entities configured; fixed for a process
  up,       \* is there a process that serves
  base,     \* of the policy text, what came from the files ...
  added,    \* ... and what was appended
  entities

vars == <<hasFile, up, base, added, entities>>

Init ==
  /\ hasFile \in BOOLEAN
  /\ up = FALSE /\ base \in Bases /\ added = {} /\ entities = NoEntities

\* The first load puts up with an entities file that cannot be read.
FirstLoad ==
  /\ ~up /\ up' = TRUE
  /\ base' \in Bases /\ added' = {}
  /\ entities' = NoEntities \/ (hasFile /\ entities' \in FileEntities)
  /\ UNCHANGED hasFile

\* setPolicies, or update with both.
Load ==
  /\ up /\ base' \in Bases /\ added' = {}
  /\ IF hasFile THEN entities' \in FileEntities ELSE UNCHANGED entities
  /\ UNCHANGED <<hasFile, up>>

Append(t) == up /\ added' = added \cup {t} /\ UNCHANGED <<hasFile, up, base, entities>>

Put(e) == up /\ entities' = e /\ UNCHANGED <<hasFile, up, base, added>>

Exit == up /\ up' = FALSE /\ UNCHANGED <<hasFile, base, added, entities>>

Next ==
  \/ FirstLoad \/ Load \/ Exit
  \/ \E t \in Added : Append(t)
  \/ \E e \in AdminEntities : Put(e)

Spec == Init /\ [][Next]_vars
=============================================================================
