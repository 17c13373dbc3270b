------------------------- MODULE HotReloaderProofs -------------------------
(***************************************************************************)
(* Proofs about HotReloader, for every number of files, set of contents,   *)
(* of admins and of options.                                               *)
(***************************************************************************)
EXTENDS HotReloader, TLAPS

LEMMA TypeInit == Init => TypeOK
<1> SUFFICES ASSUME Init PROVE TypeOK
  OBVIOUS
<1>1. seen \in [Files -> SUBSET (Contents \cup {Invalid, Absent})]
  BY DEF Init
<1>2. entitiesFile \in [place : Places, text : EntityTexts] /\ loaded \in EntityTexts
  BY DEF Init, EntityTexts
<1> QED
  BY <1>1, <1>2 DEF Init, TypeOK, Nothing, StoredEntities, Callers

LEMMA TypeFinish ==
  ASSUME TypeOK, NEW r \in {"success", "failure"}, Finish(r),
         policies' \in [Files -> Contents \cup {Absent}],
         added' \in SUBSET Added, entities' \in StoredEntities
  PROVE  TypeOK'
  BY DEF TypeOK, Finish, LoadSettles, Nothing, Unseen, EntityTexts, Callers

LEMMA TypePerform ==
  ASSUME TypeOK, NEW who \in Callers, PerformReload(who)
  PROVE  /\ pc' \in {"idle", "readdir", "files", "entities", "install"}
         /\ caller' \in Callers
         /\ isReloading' \in BOOLEAN /\ pendingReload' \in BOOLEAN
         /\ todo' = todo /\ text' = text /\ errors' = errors /\ loaded' = loaded
         /\ seen' \in [Files -> SUBSET (Contents \cup {Invalid, Absent})]
<1>1. [f \in Files |-> {dir[f]}] \in [Files -> SUBSET (Contents \cup {Invalid, Absent})]
  BY DEF TypeOK
<1> QED
  BY <1>1 DEF TypeOK, PerformReload, load

LEMMA TypeStep == TypeOK /\ [Next]_vars => TypeOK'
<1> SUFFICES ASSUME TypeOK, [Next]_vars PROVE TypeOK'
  OBVIOUS
<1>1. CASE LoadStep
  <2>1. CASE ListDir
    BY <2>1 DEF TypeOK, ListDir, Nothing, disk, store, timers, outcome
  <2>2. CASE ListDirFails
    <3>1. CASE caller = Boot
      BY <2>2, <3>1 DEF TypeOK, ListDirFails, disk, store, timers, load, outcome
    <3>2. CASE caller # Boot
      BY <2>2, <3>2, TypeFinish DEF TypeOK, ListDirFails, store
    <3> QED BY <3>1, <3>2
  <2>3. CASE \E f \in Files : ReadFile(f)
    BY <2>3 DEF TypeOK, ReadFile, IsNextFile, disk, store, timers, outcome
  <2>4. CASE ParseErrors
    BY <2>4, TypeFinish DEF TypeOK, ParseErrors, store
  <2>5. CASE AwaitEntities
    BY <2>5 DEF TypeOK, AwaitEntities, disk, store, timers, outcome
  <2>6. CASE ReadEntities
    BY <2>6 DEF TypeOK, ReadEntities, disk, store, timers, outcome, EntityTexts
  <2>7. CASE EntitiesRejected
    BY <2>7, TypeFinish DEF TypeOK, EntitiesRejected, store
  <2>8. CASE InstallBoth
    BY <2>8, TypeFinish DEF TypeOK, InstallBoth, EntityTexts, StoredEntities
  <2>9. CASE InstallPolicies
    BY <2>9, TypeFinish DEF TypeOK, InstallPolicies
  <2>10. CASE FinishBoot
    BY <2>10 DEF TypeOK, FinishBoot, Serve, LoadSettles, timers, Nothing, Unseen,
                 EntityTexts, StoredEntities
  <2> QED
    BY <1>1, <2>1, <2>2, <2>3, <2>4, <2>5, <2>6, <2>7, <2>8, <2>9, <2>10 DEF LoadStep
<1>2. CASE WatchEvent
  BY <1>2 DEF TypeOK, WatchEvent, disk, store, load, outcome
<1>3. CASE TimerFires
  BY <1>3, TypePerform DEF TypeOK, TimerFires, store, outcome, Callers
<1>4. CASE \E a \in Admins : AdminReload(a)
  <2> PICK a \in Admins : AdminReload(a)
    BY <1>4
  <2>1. reply' \in [Admins -> {"none", "waiting", "success", "failure"}]
    BY DEF TypeOK, AdminReload
  <2> QED
    BY <2>1, TypePerform DEF TypeOK, AdminReload, store, Callers
<1>5. CASE \E p \in Added : AddPolicies(p)
  BY <1>5 DEF TypeOK, AddPolicies, disk, timers, load, outcome
<1>6. CASE \E e \in AdminEntities : SetEntities(e)
  BY <1>6 DEF TypeOK, SetEntities, disk, timers, load, outcome, StoredEntities
<1>7. CASE \E f \in Files : \E c \in Contents \cup {Invalid, Absent} : Edit(f, c)
  BY <1>7 DEF TypeOK, Edit, store, load, outcome
<1>8. CASE \E e \in EntityTexts : EditEntities(e)
  BY <1>8 DEF TypeOK, EditEntities, store, load, outcome
<1>9. CASE Stop
  BY <1>9 DEF TypeOK, Stop, disk, store, load, outcome
<1>10. CASE Exit
  BY <1>10 DEF TypeOK, Exit, disk, store, timers, load, outcome
<1>11. CASE UNCHANGED vars
  BY <1>11 DEF TypeOK, vars, disk, store, timers, load, outcome
<1> QED
  BY <1>1, <1>2, <1>3, <1>4, <1>5, <1>6, <1>7, <1>8, <1>9, <1>10, <1>11 DEF Next

\* Every variable keeps its type: the model never leaves the states the code
\* can be in.
THEOREM TypeCorrect == Spec => []TypeOK
  BY TypeInit, TypeStep, PTL DEF Spec

-----------------------------------------------------------------------------
(* The load's bookkeeping.                                                  *)

LEMMA LoadFinish ==
  ASSUME TypeOK, LoadInv, pc # "idle", caller # Boot, NEW r, Finish(r)
  PROVE  LoadInv'
  BY DEF TypeOK, LoadInv, Finish, LoadSettles

LEMMA LoadStart ==
  ASSUME TypeOK, LoadInv, phase \in {"up", "stopped"}, NEW who \in Callers \ {Boot},
         PerformReload(who), phase' = phase, event' = event
  PROVE  LoadInv'
  BY DEF TypeOK, LoadInv, PerformReload, load

LEMMA LoadStepInv == TypeOK /\ LoadInv /\ [Next]_vars => LoadInv'
<1> SUFFICES ASSUME TypeOK, LoadInv, [Next]_vars PROVE LoadInv'
  OBVIOUS
<1>1. CASE LoadStep
  <2>1. CASE ListDir
    BY <2>1 DEF TypeOK, LoadInv, ListDir, timers
  <2>2. CASE ListDirFails
    <3>1. CASE caller = Boot
      BY <2>2, <3>1 DEF TypeOK, LoadInv, ListDirFails, timers, load
    <3>2. CASE caller # Boot
      BY <2>2, <3>2, LoadFinish DEF ListDirFails
    <3> QED BY <3>1, <3>2
  <2>3. CASE \E f \in Files : ReadFile(f)
    BY <2>3 DEF TypeOK, LoadInv, ReadFile, timers
  <2>4. CASE ParseErrors
    BY <2>4, LoadFinish DEF ParseErrors, PoliciesRead
  <2>5. CASE AwaitEntities
    BY <2>5 DEF TypeOK, LoadInv, AwaitEntities, PoliciesRead, timers
  <2>6. CASE ReadEntities
    BY <2>6 DEF TypeOK, LoadInv, ReadEntities, timers
  <2>7. CASE EntitiesRejected
    BY <2>7, LoadFinish DEF EntitiesRejected
  <2>8. CASE InstallBoth
    BY <2>8, LoadFinish DEF InstallBoth
  <2>9. CASE InstallPolicies
    BY <2>9, LoadFinish DEF InstallPolicies, PoliciesRead
  <2>10. CASE FinishBoot
    BY <2>10 DEF TypeOK, LoadInv, FinishBoot, PoliciesRead, Alive, Serve, LoadSettles, timers
  <2> QED
    BY <1>1, <2>1, <2>2, <2>3, <2>4, <2>5, <2>6, <2>7, <2>8, <2>9, <2>10 DEF LoadStep
<1>2. CASE WatchEvent
  BY <1>2 DEF TypeOK, LoadInv, WatchEvent, load
<1>3. CASE TimerFires
  BY <1>3, LoadStart, CallersAssumption DEF TypeOK, LoadInv, TimerFires, Alive, Callers
<1>4. CASE \E a \in Admins : AdminReload(a)
  BY <1>4, LoadStart, CallersAssumption DEF AdminReload, Callers
<1>5. CASE \E p \in Added : AddPolicies(p)
  BY <1>5 DEF TypeOK, LoadInv, AddPolicies, timers, load
<1>6. CASE \E e \in AdminEntities : SetEntities(e)
  BY <1>6 DEF TypeOK, LoadInv, SetEntities, timers, load
<1>7. CASE \E f \in Files : \E c \in Contents \cup {Invalid, Absent} : Edit(f, c)
  BY <1>7 DEF TypeOK, LoadInv, Edit, Editable, load
<1>8. CASE \E e \in EntityTexts : EditEntities(e)
  BY <1>8 DEF TypeOK, LoadInv, EditEntities, EntitiesReported, Editable, load
<1>9. CASE Stop
  BY <1>9 DEF TypeOK, LoadInv, Stop, load
<1>10. CASE Exit
  BY <1>10 DEF TypeOK, LoadInv, Exit, timers, load
<1>11. CASE UNCHANGED vars
  BY <1>11 DEF TypeOK, LoadInv, vars, timers, load
<1> QED
  BY <1>1, <1>2, <1>3, <1>4, <1>5, <1>6, <1>7, <1>8, <1>9, <1>10, <1>11 DEF Next

\* isReloading is exactly "a reload is at some await", the first load runs
\* alone, and only a running reload carries the pending mark.
THEOREM LoadCorrect == Spec => [](TypeOK /\ LoadInv)
<1>1. Init => LoadInv
  BY CallersAssumption DEF Init, LoadInv
<1> QED
  BY <1>1, TypeInit, TypeStep, LoadStepInv, PTL DEF Spec
-----------------------------------------------------------------------------
(* What a load has read, it has read since it began.                        *)

LEMMA SeenFinish ==
  ASSUME NEW r, Finish(r)
  PROVE  SeenInv'
  BY DEF Finish, LoadSettles, SeenInv, Reading

LEMMA SeenStart ==
  ASSUME TypeOK, LoadInv, SeenInv, phase # "boot", NEW who \in Callers,
         PerformReload(who), dir' = dir
  PROVE  SeenInv'
<1>1. CASE isReloading
  BY <1>1 DEF PerformReload, SeenInv, Reading, load
<1>2. CASE ~isReloading
  BY <1>2 DEF TypeOK, PerformReload, SeenInv, Reading
<1> QED BY <1>1, <1>2

LEMMA SeenKept ==
  ASSUME SeenInv, UNCHANGED <<dir, seen, load>>
  PROVE  SeenInv'
  BY DEF SeenInv, Reading, load

LEMMA SeenStep == TypeOK /\ LoadInv /\ SeenInv /\ [Next]_vars => SeenInv'
<1> SUFFICES ASSUME TypeOK, LoadInv, SeenInv, [Next]_vars PROVE SeenInv'
  OBVIOUS
<1>1. CASE LoadStep
  <2>1. CASE ListDir
    <3>1. \A f \in Files \ todo' : text'[f] = dir[f]
      BY <2>1 DEF TypeOK, ListDir, Nothing
    <3>2. UNCHANGED <<dir, seen>> /\ pc # "idle" /\ pc' = "files"
      BY <2>1 DEF ListDir, disk
    <3> QED
      BY <3>1, <3>2 DEF SeenInv, Reading
  <2>2. CASE ListDirFails
    BY <2>2, SeenFinish, SeenKept DEF ListDirFails, disk
  <2>3. CASE \E f \in Files : ReadFile(f)
    <3> PICK f \in Files : ReadFile(f)
      BY <2>3
    <3>1. UNCHANGED <<dir, seen, pc>> /\ pc = "files" /\ todo' = todo \ {f}
      BY DEF ReadFile, disk
    <3>2. ASSUME ~errors', NEW g \in Files \ todo'
          PROVE  text'[g] \in seen[g]
      BY <3>1, <3>2 DEF TypeOK, SeenInv, Reading, ReadFile
    <3> QED
      BY <3>1, <3>2 DEF SeenInv, Reading
  <2>4. CASE ParseErrors
    BY <2>4, SeenFinish DEF ParseErrors
  <2>5. CASE AwaitEntities
    BY <2>5 DEF SeenInv, Reading, AwaitEntities, PoliciesRead, disk
  <2>6. CASE ReadEntities
    BY <2>6 DEF SeenInv, Reading, ReadEntities, disk
  <2>7. CASE EntitiesRejected
    BY <2>7, SeenFinish DEF EntitiesRejected
  <2>8. CASE InstallBoth
    BY <2>8, SeenFinish DEF InstallBoth
  <2>9. CASE InstallPolicies
    BY <2>9, SeenFinish DEF InstallPolicies
  <2>10. CASE FinishBoot
    BY <2>10 DEF FinishBoot, Serve, LoadSettles, SeenInv, Reading
  <2> QED
    BY <1>1, <2>1, <2>2, <2>3, <2>4, <2>5, <2>6, <2>7, <2>8, <2>9, <2>10 DEF LoadStep
<1>2. CASE WatchEvent
  BY <1>2, SeenKept DEF WatchEvent, disk
<1>3. CASE TimerFires
  <2>1. phase # "boot"
    BY <1>3 DEF TimerFires, LoadInv
  <2> QED
    BY <1>3, <2>1, SeenStart DEF TimerFires, Callers
<1>4. CASE \E a \in Admins : AdminReload(a)
  BY <1>4, SeenStart DEF AdminReload, Callers
<1>5. CASE \E p \in Added : AddPolicies(p)
  BY <1>5, SeenKept DEF AddPolicies, disk
<1>6. CASE \E e \in AdminEntities : SetEntities(e)
  BY <1>6, SeenKept DEF SetEntities, disk
<1>7. CASE \E f \in Files : \E c \in Contents \cup {Invalid, Absent} : Edit(f, c)
  <2> PICK f \in Files, c \in Contents \cup {Invalid, Absent} : Edit(f, c)
    BY <1>7
  <2>1. CASE pc = "idle"
    BY <2>1 DEF Edit, load, SeenInv, Reading
  <2>2. CASE pc # "idle"
    <3>1. \A g \in Files : seen[g] \subseteq seen'[g] /\ dir'[g] \in {dir[g], c}
      BY <2>2 DEF TypeOK, Edit
    <3>2. c \in seen'[f] /\ \A g \in Files \ {f} : dir'[g] = dir[g]
      BY <2>2 DEF TypeOK, Edit
    <3> QED
      BY <2>2, <3>1, <3>2 DEF Edit, load, SeenInv, Reading
  <2> QED BY <2>1, <2>2
<1>8. CASE \E e \in EntityTexts : EditEntities(e)
  BY <1>8, SeenKept DEF EditEntities
<1>9. CASE Stop
  BY <1>9, SeenKept DEF Stop, disk
<1>10. CASE Exit
  BY <1>10, SeenKept DEF Exit, disk
<1>11. CASE UNCHANGED vars
  BY <1>11, SeenKept DEF vars, disk
<1> QED
  BY <1>1, <1>2, <1>3, <1>4, <1>5, <1>6, <1>7, <1>8, <1>9, <1>10, <1>11 DEF Next

LEMMA InstallStep ==
  ASSUME TypeOK, LoadInv, SeenInv, [Next]_vars, phase = "up", policies' # policies
  PROVE  lastLoad' = "success" /\ \A f \in Files : policies'[f] \in seen[f]
<1>1. LoadStep
  BY DEF Next, vars, store, WatchEvent, TimerFires, AdminReload, AddPolicies,
         SetEntities, Edit, EditEntities, Stop, Exit
<1>2. InstallBoth \/ InstallPolicies
  <2>1. caller # Boot \/ pc = "idle"
    BY DEF LoadInv
  <2> QED
    BY <1>1, <2>1 DEF LoadStep, store, ListDir, ListDirFails, ReadFile, ParseErrors,
       AwaitEntities, ReadEntities, EntitiesRejected, FinishBoot, PoliciesRead
<1>3. ~errors
  BY <1>2 DEF InstallBoth, InstallPolicies, LoadInv
<1> QED
  BY <1>2, <1>3 DEF LoadInv, SeenInv, Reading, InstallBoth, InstallPolicies, PoliciesRead,
     Finish, LoadSettles

\* Policies come into a running gateway all or nothing, and from what the disk
\* held during the very load that installs them.
THEOREM InstallsCorrect == Spec => InstallsWhatItRead
<1>1. Init => LoadInv /\ SeenInv
  BY CallersAssumption DEF Init, LoadInv, SeenInv, Reading
<1>2. Spec => [](TypeOK /\ LoadInv /\ SeenInv)
  BY <1>1, TypeInit, TypeStep, LoadStepInv, SeenStep, PTL DEF Spec
<1>3. TypeOK /\ LoadInv /\ SeenInv /\ [Next]_vars
        => [phase = "up" /\ policies' # policies
              => lastLoad' = "success"
                 /\ \A f \in Files : policies'[f] \in seen[f]]_vars
  BY InstallStep
<1> QED
  BY <1>2, <1>3, PTL DEF Spec, InstallsWhatItRead

-----------------------------------------------------------------------------
(* No edit is lost, provided the disk rests until the watcher exists.       *)

LEMMA FreshFinish ==
  ASSUME NEW r, Finish(r)
  PROVE  FreshInv'
  BY DEF Finish, LoadSettles, FreshInv, Reading

LEMMA FreshKept ==
  ASSUME FreshInv, UNCHANGED <<dir, load>>, Calm' => Calm
  PROVE  FreshInv'
  BY DEF FreshInv, Reading, load

LEMMA FreshStart ==
  ASSUME NEW who, PerformReload(who)
  PROVE  FreshInv' /\ NoSilentLoss'
  BY DEF PerformReload, FreshInv, Calm, Reading, NoSilentLoss, Quiet

LEMMA QuietKept ==
  ASSUME NoSilentLoss, UNCHANGED <<dir, policies, lastLoad, isReloading>>,
         phase' = "up" /\ ~event' /\ ~debounceTimer' => phase = "up" /\ ~event /\ ~debounceTimer
  PROVE  NoSilentLoss'
  BY DEF NoSilentLoss, Quiet

LEMMA QuietFailure ==
  ASSUME Finish("failure")
  PROVE  NoSilentLoss'
  BY DEF Finish, LoadSettles, NoSilentLoss

LEMMA FreshText ==
  ASSUME TypeOK, FreshInv, Calm, Reading, ~errors, todo = {}
  PROVE  text = dir
<1>1. \A f \in Files : text[f] = dir[f]
  BY DEF FreshInv
<1> QED
  BY <1>1 DEF TypeOK

LEMMA QuietSuccess ==
  ASSUME TypeOK, FreshInv, Reading, ~errors, todo = {},
         Finish("success"), policies' = text
  PROVE  NoSilentLoss'
<1> SUFFICES ASSUME Quiet' PROVE policies' = dir'
  BY DEF NoSilentLoss
<1>1. Calm /\ dir' = dir
  BY DEF Quiet, Calm, Finish, TypeOK
<1> QED
  BY <1>1, FreshText

LEMMA FreshStep ==
  ASSUME ~EditsDuringBoot, TypeOK, LoadInv, FreshInv, NoSilentLoss, [Next]_vars
  PROVE  FreshInv' /\ NoSilentLoss'
<1>1. CASE LoadStep
  <2>1. CASE ListDir
    <3>1. \A f \in Files \ todo' : text'[f] = dir'[f]
      BY <2>1 DEF TypeOK, ListDir, Nothing, disk
    <3> QED
      BY <2>1, <3>1, QuietKept DEF FreshInv, ListDir, disk, store, timers, outcome
  <2>2. CASE ListDirFails
    <3>1. CASE caller = Boot
      BY <2>2, <3>1 DEF ListDirFails, FreshInv, Calm, NoSilentLoss, Quiet
    <3>2. CASE caller # Boot
      BY <2>2, <3>2, FreshFinish, QuietFailure DEF ListDirFails
    <3> QED BY <3>1, <3>2
  <2>3. CASE \E f \in Files : ReadFile(f)
    <3> PICK f \in Files : ReadFile(f)
      BY <2>3
    <3>1. UNCHANGED <<dir, pc, phase, event, debounceTimer, pendingReload>> /\ todo' = todo \ {f}
      BY DEF ReadFile, disk, timers
    <3>2. ASSUME Calm', Reading', ~errors', NEW g \in Files \ todo'
          PROVE  text'[g] = dir[g]
      BY <3>1, <3>2 DEF TypeOK, FreshInv, Calm, Reading, ReadFile
    <3>3. FreshInv'
      BY <3>1, <3>2 DEF FreshInv
    <3>4. NoSilentLoss'
      BY QuietKept DEF ReadFile, disk, store, timers, outcome
    <3> QED BY <3>3, <3>4
  <2>4. CASE ParseErrors
    BY <2>4, FreshFinish, QuietFailure DEF ParseErrors
  <2>5. CASE AwaitEntities
    <3>1. FreshInv'
      BY <2>5 DEF FreshInv, Calm, Reading, AwaitEntities, PoliciesRead, disk, timers
    <3>2. NoSilentLoss'
      BY <2>5, QuietKept DEF AwaitEntities, disk, store, timers, outcome
    <3> QED BY <3>1, <3>2
  <2>6. CASE ReadEntities
    <3>1. FreshInv'
      BY <2>6 DEF FreshInv, Calm, Reading, ReadEntities, disk, timers
    <3>2. NoSilentLoss'
      BY <2>6, QuietKept DEF ReadEntities, disk, store, timers, outcome
    <3> QED BY <3>1, <3>2
  <2>7. CASE EntitiesRejected
    BY <2>7, FreshFinish, QuietFailure DEF EntitiesRejected
  <2>8. CASE InstallBoth
    BY <2>8, FreshFinish, QuietSuccess DEF InstallBoth, LoadInv, Reading
  <2>9. CASE InstallPolicies
    BY <2>9, FreshFinish, QuietSuccess DEF InstallPolicies, PoliciesRead, Reading
  <2>10. CASE FinishBoot
    <3>1. pc' = "idle" /\ policies' = text /\ dir' = dir /\ todo = {} /\ Reading
      BY <2>10 DEF FinishBoot, Serve, LoadSettles, LoadInv, PoliciesRead, Reading
    <3>2. errors => lastLoad' = "failure"
      BY <2>10 DEF FinishBoot, Serve, LoadSettles
    <3>3. phase = "boot"
      BY <2>10 DEF FinishBoot, LoadInv, PoliciesRead, Alive, TypeOK
    <3>4. Calm
      BY <3>3 DEF LoadInv, Calm
    <3> QED
      BY <3>1, <3>2, <3>4, FreshText DEF FreshInv, Reading, NoSilentLoss
  <2> QED
    BY <1>1, <2>1, <2>2, <2>3, <2>4, <2>5, <2>6, <2>7, <2>8, <2>9, <2>10 DEF LoadStep
<1>2. CASE WatchEvent
  BY <1>2 DEF WatchEvent, FreshInv, Calm, NoSilentLoss, Quiet
<1>3. CASE TimerFires
  BY <1>3, FreshStart DEF TimerFires
<1>4. CASE \E a \in Admins : AdminReload(a)
  BY <1>4, FreshStart DEF AdminReload
<1>5. CASE \E p \in Added : AddPolicies(p)
  BY <1>5, FreshKept, QuietKept DEF AddPolicies, disk, timers, outcome, Calm
<1>6. CASE \E e \in AdminEntities : SetEntities(e)
  BY <1>6, FreshKept, QuietKept DEF SetEntities, disk, timers, outcome, Calm
<1>7. CASE \E f \in Files : \E c \in Contents \cup {Invalid, Absent} : Edit(f, c)
  <2>1. phase' \in {"up", "stopped"} /\ (phase' = "up" => event')
    BY <1>7 DEF Edit, Editable
  <2> QED
    BY <2>1 DEF FreshInv, Calm, NoSilentLoss, Quiet
<1>8. CASE \E e \in EntityTexts : EditEntities(e)
  <2>1. /\ UNCHANGED <<dir, load, policies, lastLoad, isReloading, phase,
                       debounceTimer, pendingReload>>
        /\ ~event' => ~event
    BY <1>8 DEF EditEntities, TypeOK, store, outcome
  <2> QED
    BY <2>1, FreshKept, QuietKept DEF Calm
<1>9. CASE Stop
  BY <1>9 DEF Stop, FreshInv, Calm, NoSilentLoss, Quiet
<1>10. CASE Exit
  BY <1>10 DEF Exit, FreshInv, Calm, NoSilentLoss, Quiet
<1>11. CASE UNCHANGED vars
  BY <1>11, FreshKept, QuietKept DEF vars, disk, store, timers, outcome, Calm
<1> QED
  BY <1>1, <1>2, <1>3, <1>4, <1>5, <1>6, <1>7, <1>8, <1>9, <1>10, <1>11 DEF Next

\* With nothing outstanding the store holds what the disk holds, or the last
\* load said it failed: no edit falls between the watcher, the debounce timer
\* and a running load.
THEOREM NoEditIsLost ==
  ASSUME ~EditsDuringBoot
  PROVE  Spec => []NoSilentLoss
<1>1. Init => LoadInv /\ FreshInv /\ NoSilentLoss
  BY CallersAssumption DEF Init, LoadInv, FreshInv, Reading, NoSilentLoss, Quiet
<1>2. TypeOK /\ LoadInv /\ FreshInv /\ NoSilentLoss /\ [Next]_vars
        => FreshInv' /\ NoSilentLoss'
  BY FreshStep
<1> QED
  BY <1>1, <1>2, TypeInit, TypeStep, LoadStepInv, PTL DEF Spec

-----------------------------------------------------------------------------
(* The same for the entities file, where the watcher covers it.             *)

\* Where the entities file lies is settled when the process starts.
LEMMA PlaceKept ==
  ASSUME TypeOK, [Next]_vars
  PROVE  /\ entitiesFile'.place = entitiesFile.place
         /\ HasEntitiesFile' = HasEntitiesFile /\ EntitiesWatched' = EntitiesWatched
<1>1. entitiesFile'.place = entitiesFile.place
  <2>1. CASE UNCHANGED entitiesFile
    BY <2>1
  <2>2. CASE \E e \in EntityTexts : EditEntities(e)
    BY <2>2 DEF EditEntities, TypeOK
  <2> QED
    BY <2>1, <2>2 DEF Next, vars, disk, LoadStep, ListDir, ListDirFails, ReadFile, ParseErrors,
       AwaitEntities, ReadEntities, EntitiesRejected, InstallBoth, InstallPolicies, FinishBoot,
       Finish, Serve, WatchEvent, TimerFires, AdminReload, AddPolicies, SetEntities, Edit, Stop,
       Exit
<1> QED
  BY <1>1 DEF HasEntitiesFile, EntitiesWatched

LEMMA EntityFinish ==
  ASSUME NEW r, Finish(r)
  PROVE  EntitiesFreshInv'
  BY DEF Finish, LoadSettles, EntitiesFreshInv

LEMMA EntityKept ==
  ASSUME EntitiesFreshInv, NoSilentEntityLoss, Calm' => Calm, Quiet' => Quiet,
         UNCHANGED <<entitiesFile, entities, load, lastLoad>>
  PROVE  EntitiesFreshInv' /\ NoSilentEntityLoss'
  BY DEF EntitiesFreshInv, NoSilentEntityLoss, EntitiesWatched, load

LEMMA EntityFailure ==
  ASSUME Finish("failure")
  PROVE  NoSilentEntityLoss'
  BY DEF Finish, LoadSettles, NoSilentEntityLoss

LEMMA EntityStep ==
  ASSUME ~EditsDuringBoot, TypeOK, LoadInv, EntitiesFreshInv, NoSilentEntityLoss, [Next]_vars
  PROVE  EntitiesFreshInv' /\ NoSilentEntityLoss'
<1>0. EntitiesWatched' = EntitiesWatched /\ HasEntitiesFile' = HasEntitiesFile
  BY PlaceKept
<1>w. EntitiesWatched => HasEntitiesFile
  BY DEF EntitiesWatched, HasEntitiesFile
<1>1. CASE LoadStep
  <2>1. CASE ListDir
    BY <1>0, <2>1 DEF ListDir, EntitiesFreshInv, NoSilentEntityLoss, Quiet, disk, store, timers, outcome
  <2>2. CASE ListDirFails
    <3>1. CASE caller = Boot
      BY <1>0, <2>2, <3>1 DEF ListDirFails, EntitiesFreshInv, Calm, NoSilentEntityLoss, Quiet
    <3>2. CASE caller # Boot
      BY <2>2, <3>2, EntityFinish, EntityFailure DEF ListDirFails
    <3> QED BY <3>1, <3>2
  <2>3. CASE \E f \in Files : ReadFile(f)
    BY <1>0, <2>3 DEF ReadFile, EntitiesFreshInv, NoSilentEntityLoss, Quiet, disk, store, timers, outcome
  <2>4. CASE ParseErrors
    BY <2>4, EntityFinish, EntityFailure DEF ParseErrors
  <2>5. CASE AwaitEntities
    BY <1>0, <2>5 DEF AwaitEntities, EntitiesFreshInv, NoSilentEntityLoss, Quiet, disk, store,
                timers, outcome
  <2>6. CASE ReadEntities
    BY <1>0, <2>6 DEF ReadEntities, EntitiesFreshInv, NoSilentEntityLoss, Quiet, disk, store,
                timers, outcome
  <2>7. CASE EntitiesRejected
    BY <2>7, EntityFinish, EntityFailure DEF EntitiesRejected
  <2>8. CASE InstallBoth
    <3>1. entities' = loaded /\ loaded # InvalidEntities /\ pc = "install"
      BY <2>8 DEF InstallBoth
    <3>2. Quiet' => Calm
      BY <2>8 DEF InstallBoth, Finish, TypeOK, Quiet, Calm
    <3>3. entitiesFile' = entitiesFile
      BY <2>8 DEF InstallBoth, Finish
    <3> QED
      BY <1>0, <2>8, <3>1, <3>2, <3>3, EntityFinish DEF InstallBoth, EntitiesFreshInv, NoSilentEntityLoss
  <2>9. CASE InstallPolicies
    BY <1>0, <1>w, <2>9, EntityFinish DEF InstallPolicies, NoSilentEntityLoss
  <2>10. CASE FinishBoot
    <3>1. CASE PoliciesRead /\ ~HasEntitiesFile /\ caller = Boot /\ Serve(NoEntities)
      BY <1>0, <1>w, <3>1 DEF Serve, LoadSettles, EntitiesFreshInv, NoSilentEntityLoss
    <3>2. CASE /\ Alive /\ pc = "install" /\ caller = Boot
               /\ Serve(IF loaded = InvalidEntities THEN NoEntities ELSE loaded)
      <4>1. phase = "boot"
        BY <3>2 DEF LoadInv, Alive, TypeOK
      <4>2. Calm
        BY <4>1 DEF LoadInv, Calm
      <4>3. /\ pc' = "idle" /\ entitiesFile' = entitiesFile
            /\ HasEntitiesFile /\ loaded = InvalidEntities => lastLoad' = "failure"
            /\ loaded # InvalidEntities => entities' = loaded
        BY <3>2 DEF Serve, LoadSettles
      <4> QED
        BY <1>0, <1>w, <3>2, <4>2, <4>3 DEF EntitiesFreshInv, NoSilentEntityLoss
    <3> QED BY <2>10, <3>1, <3>2 DEF FinishBoot
  <2> QED
    BY <1>1, <2>1, <2>2, <2>3, <2>4, <2>5, <2>6, <2>7, <2>8, <2>9, <2>10 DEF LoadStep
<1>2. CASE WatchEvent
  BY <1>0, <1>2 DEF WatchEvent, EntitiesFreshInv, Calm, NoSilentEntityLoss, Quiet
<1>3. CASE TimerFires
  BY <1>0, <1>3 DEF TimerFires, PerformReload, EntitiesFreshInv, Calm, NoSilentEntityLoss, Quiet
<1>4. CASE \E a \in Admins : AdminReload(a)
  BY <1>0, <1>4 DEF AdminReload, PerformReload, EntitiesFreshInv, Calm, NoSilentEntityLoss, Quiet
<1>5. CASE \E p \in Added : AddPolicies(p)
  BY <1>5, EntityKept DEF AddPolicies, disk, timers, outcome, Calm, Quiet
<1>6. CASE \E e \in AdminEntities : SetEntities(e)
  <2>1. entities' \in AdminEntities
    BY <1>6 DEF SetEntities
  <2>2. EntitiesFreshInv'
    BY <1>0, <1>6 DEF SetEntities, EntitiesFreshInv, Calm, disk, timers, load
  <2> QED
    BY <1>0, <2>1, <2>2 DEF NoSilentEntityLoss
<1>7. CASE \E f \in Files : \E c \in Contents \cup {Invalid, Absent} : Edit(f, c)
  <2>1. phase' \in {"up", "stopped"} /\ (phase' = "up" => event')
    BY <1>7 DEF Edit, Editable
  <2> QED
    BY <1>0, <2>1 DEF EntitiesFreshInv, Calm, NoSilentEntityLoss, Quiet
<1>8. CASE \E e \in EntityTexts : EditEntities(e)
  <2>1. /\ phase' \in {"up", "stopped"}
        /\ phase' = "up" /\ EntitiesWatched => event'
    BY <1>8 DEF EditEntities, EntitiesReported, Editable
  <2> QED
    BY <1>0, <2>1 DEF EntitiesFreshInv, Calm, NoSilentEntityLoss, Quiet
<1>9. CASE Stop
  BY <1>0, <1>9 DEF Stop, EntitiesFreshInv, Calm, NoSilentEntityLoss, Quiet
<1>10. CASE Exit
  BY <1>0, <1>10 DEF Exit, EntitiesFreshInv, Calm, NoSilentEntityLoss, Quiet
<1>11. CASE UNCHANGED vars
  BY <1>11, EntityKept DEF vars, disk, store, timers, outcome, Calm, Quiet
<1> QED
  BY <1>1, <1>2, <1>3, <1>4, <1>5, <1>6, <1>7, <1>8, <1>9, <1>10, <1>11 DEF Next

-----------------------------------------------------------------------------
(* Who waits for an answer, and what it is answered.                        *)

\* While an admin waits, the load in progress is a reload, and it is its own.
LEMMA WaitingReloads ==
  ASSUME LoadInv, WaitInv, NEW a \in Admins, reply[a] = "waiting"
  PROVE  isReloading /\ caller = a /\ pc # "idle" /\ caller # Boot
  BY CallersAssumption DEF LoadInv, WaitInv

LEMMA WaitFinish ==
  ASSUME TypeOK, WaitInv, NEW r \in {"success", "failure"}, Finish(r)
  PROVE  WaitInv'
<1> SUFFICES ASSUME NEW a \in Admins, reply'[a] = "waiting" PROVE FALSE
  BY DEF WaitInv
<1>1. reply[a] = "waiting" /\ caller # a
  BY DEF Finish, TypeOK
<1> QED
  BY <1>1 DEF WaitInv

LEMMA WaitKept ==
  ASSUME WaitInv, UNCHANGED <<pc, caller, reply>>
  PROVE  WaitInv'
  BY DEF WaitInv

LEMMA WaitStep == TypeOK /\ LoadInv /\ WaitInv /\ [Next]_vars => WaitInv'
<1> SUFFICES ASSUME TypeOK, LoadInv, WaitInv, [Next]_vars PROVE WaitInv'
  OBVIOUS
<1>1. CASE LoadStep
  <2>1. CASE ListDir \/ (\E f \in Files : ReadFile(f)) \/ AwaitEntities \/ ReadEntities
    BY <2>1 DEF WaitInv, ListDir, ReadFile, AwaitEntities, ReadEntities, outcome
  <2>2. CASE ListDirFails
    BY <2>2, WaitFinish, WaitKept DEF ListDirFails, load, outcome
  <2>3. CASE ParseErrors \/ EntitiesRejected
    BY <2>3, WaitFinish DEF ParseErrors, EntitiesRejected
  <2>4. CASE InstallBoth \/ InstallPolicies
    BY <2>4, WaitFinish DEF InstallBoth, InstallPolicies
  <2>5. CASE FinishBoot
    <3>1. caller = Boot /\ reply' = reply
      BY <2>5 DEF FinishBoot, Serve
    <3> QED
      BY <3>1, WaitingReloads DEF WaitInv
  <2> QED
    BY <1>1, <2>1, <2>2, <2>3, <2>4, <2>5 DEF LoadStep
<1>2. CASE TimerFires
  <2>1. CASE isReloading
    BY <1>2, <2>1, WaitKept DEF TimerFires, PerformReload, load, outcome
  <2>2. CASE ~isReloading
    BY <1>2, <2>2, WaitingReloads DEF TimerFires, outcome, WaitInv
  <2> QED BY <2>1, <2>2
<1>3. CASE \E a \in Admins : AdminReload(a)
  <2> PICK a \in Admins : AdminReload(a)
    BY <1>3
  <2>1. CASE isReloading
    BY <2>1 DEF AdminReload, PerformReload, load, WaitInv, TypeOK
  <2>2. CASE ~isReloading
    <3>1. \A b \in Admins : reply[b] # "waiting"
      BY <2>2, WaitingReloads
    <3>2. pc' = "readdir" /\ caller' = a
      BY <2>2 DEF AdminReload, PerformReload
    <3> QED
      BY <3>1, <3>2 DEF AdminReload, WaitInv, TypeOK
  <2> QED BY <2>1, <2>2
<1>4. CASE WatchEvent \/ Stop \/ Exit
  BY <1>4, WaitKept DEF WatchEvent, Stop, Exit, load, outcome
<1>5. CASE (\E p \in Added : AddPolicies(p)) \/ (\E e \in AdminEntities : SetEntities(e))
  BY <1>5, WaitKept DEF AddPolicies, SetEntities, load, outcome
<1>6. CASE \/ \E f \in Files : \E c \in Contents \cup {Invalid, Absent} : Edit(f, c)
           \/ \E e \in EntityTexts : EditEntities(e)
  BY <1>6, WaitKept DEF Edit, EditEntities, load, outcome
<1>7. CASE UNCHANGED vars
  BY <1>7, WaitKept DEF vars, load, outcome
<1> QED
  BY <1>1, <1>2, <1>3, <1>4, <1>5, <1>6, <1>7 DEF Next

LEMMA AnswerStep ==
  ASSUME TypeOK, LoadInv, WaitInv, [Next]_vars, NEW a \in Admins,
         reply[a] = "waiting", reply'[a] # "waiting"
  PROVE  /\ caller = a /\ pc # "idle"
         /\ reply'[a] = "success" => policies' = text /\ added' = {} /\ ~errors
         /\ reply'[a] = "failure" => UNCHANGED store
<1>1. caller = a /\ pc # "idle" /\ caller # Boot
  BY WaitingReloads
<1>2. LoadStep
  <2>1. ASSUME NEW b \in Admins, AdminReload(b) PROVE FALSE
    BY <2>1 DEF AdminReload, TypeOK
  <2> QED
    BY <2>1 DEF Next, vars, outcome, WatchEvent, TimerFires, AddPolicies, SetEntities,
       Edit, EditEntities, Stop, Exit
<1>3. \A r : Finish(r) => reply'[a] = r
  BY <1>1 DEF Finish, TypeOK
<1>4. CASE InstallBoth \/ InstallPolicies
  BY <1>1, <1>3, <1>4 DEF InstallBoth, InstallPolicies, LoadInv
<1>5. CASE ListDirFails \/ ParseErrors \/ EntitiesRejected
  BY <1>1, <1>3, <1>5 DEF ListDirFails, ParseErrors, EntitiesRejected
<1>6. CASE ListDir \/ (\E f \in Files : ReadFile(f)) \/ AwaitEntities \/ ReadEntities
  BY <1>6 DEF ListDir, ReadFile, AwaitEntities, ReadEntities, outcome
<1>7. ~FinishBoot
  BY <1>1 DEF FinishBoot
<1> QED
  BY <1>1, <1>2, <1>4, <1>5, <1>6, <1>7 DEF LoadStep

\* An admin's reload is answered by its own load, and truthfully: success means
\* that what it read is served, failure that nothing has changed.
THEOREM ReloadsAnswered == Spec => ReloadAnswersItsLoad
<1>1. Init => LoadInv /\ WaitInv
  BY CallersAssumption DEF Init, LoadInv, WaitInv
<1>2. Spec => [](TypeOK /\ LoadInv /\ WaitInv)
  BY <1>1, TypeInit, TypeStep, LoadStepInv, WaitStep, PTL DEF Spec
<1>3. TypeOK /\ LoadInv /\ WaitInv /\ [Next]_vars
        => [\A a \in Admins :
              reply[a] = "waiting" /\ reply'[a] # "waiting"
                => /\ caller = a /\ pc # "idle"
                   /\ reply'[a] = "success" => policies' = text /\ added' = {} /\ ~errors
                   /\ reply'[a] = "failure" => UNCHANGED store]_vars
  BY AnswerStep
<1> QED
  BY <1>2, <1>3, PTL DEF Spec, ReloadAnswersItsLoad

-----------------------------------------------------------------------------
(* What an admin added.                                                     *)

LEMMA AddedStep ==
  ASSUME LoadInv, [Next]_vars, ~(added \subseteq added')
  PROVE  pc # "idle" /\ pc' = "idle" /\ lastLoad' = "success" /\ policies' = text
<1>1. InstallBoth \/ InstallPolicies
  BY DEF Next, vars, store, LoadStep, ListDir, ListDirFails, ReadFile, ParseErrors,
     AwaitEntities, ReadEntities, EntitiesRejected, FinishBoot, Serve, WatchEvent,
     TimerFires, AdminReload, AddPolicies, SetEntities, Edit, EditEntities, Stop, Exit
<1> QED
  BY <1>1 DEF InstallBoth, InstallPolicies, PoliciesRead, Finish, LoadSettles

\* Only a load that replaces the whole text removes a policy an admin added.
THEOREM AddedStays == Spec => AddedLostOnlyToInstall
<1>1. Init => LoadInv
  BY CallersAssumption DEF Init, LoadInv
<1>2. LoadInv /\ [Next]_vars
        => [~(added \subseteq added')
              => pc # "idle" /\ pc' = "idle" /\ lastLoad' = "success"
                 /\ policies' = text]_vars
  BY AddedStep
<1> QED
  BY <1>1, <1>2, TypeInit, TypeStep, LoadStepInv, PTL DEF Spec, AddedLostOnlyToInstall

-----------------------------------------------------------------------------
(* The invariant as a whole.                                                *)

\* Everything the policy plane keeps invariant, if the disk rests until the
\* watcher exists.
THEOREM PolicyPlaneInvariant ==
  ASSUME ~EditsDuringBoot
  PROVE  Spec => []IInv
<1>1. Init => IInv
  <2>1. Init => LoadInv /\ SeenInv /\ WaitInv /\ FreshInv /\ EntitiesFreshInv
    BY CallersAssumption DEF Init, LoadInv, SeenInv, WaitInv, FreshInv, EntitiesFreshInv,
       Reading
  <2>2. Init => NoSilentLoss /\ NoSilentEntityLoss
    BY DEF Init, NoSilentLoss, NoSilentEntityLoss, Quiet
  <2> QED
    BY <2>1, <2>2, TypeInit DEF IInv
<1>2. IInv /\ [Next]_vars => IInv'
  BY TypeStep, LoadStepInv, SeenStep, WaitStep, FreshStep, EntityStep DEF IInv
<1> QED
  BY <1>1, <1>2, PTL DEF Spec

\* The entities served are the file's, an admin's, or the last load has failed.
THEOREM NoEntityEditIsLost ==
  ASSUME ~EditsDuringBoot
  PROVE  Spec => []NoSilentEntityLoss
<1>1. IInv => NoSilentEntityLoss
  BY DEF IInv
<1> QED
  BY <1>1, PolicyPlaneInvariant, PTL

-----------------------------------------------------------------------------
(* One store.                                                               *)

\* Nothing is appended before there is a server, and entities are awaited only
\* if a file of them is configured.
StoreInv ==
  /\ phase = "boot" => added = {}
  /\ pc \in {"entities", "install"} => HasEntitiesFile

LEMMA StoreInvStep == TypeOK /\ LoadInv /\ StoreInv /\ [Next]_vars => StoreInv'
<1> SUFFICES ASSUME TypeOK, LoadInv, StoreInv, [Next]_vars PROVE StoreInv'
  OBVIOUS
<1>0. HasEntitiesFile' = HasEntitiesFile
  BY PlaceKept
<1>settled. ASSUME NEW r, LoadSettles(r), phase' = "boot" => phase = "boot" /\ added' = added
            PROVE  StoreInv'
  BY <1>settled DEF LoadSettles, StoreInv
<1>finished. ASSUME NEW r, Finish(r), pc # "idle", caller # Boot PROVE StoreInv'
  BY <1>finished DEF Finish, LoadSettles, StoreInv, LoadInv
<1>started. ASSUME NEW who, PerformReload(who), UNCHANGED <<phase, added>> PROVE StoreInv'
  BY <1>0, <1>started DEF PerformReload, load, StoreInv
<1>1. CASE LoadStep
  <2>1. CASE ListDirFails
    BY <1>0, <1>finished, <2>1 DEF ListDirFails, load, store, StoreInv
  <2>2. CASE ParseErrors \/ EntitiesRejected \/ InstallBoth \/ InstallPolicies
    BY <1>finished, <2>2 DEF ParseErrors, EntitiesRejected, InstallBoth, InstallPolicies, PoliciesRead
  <2>3. CASE FinishBoot
    BY <1>settled, <2>3 DEF FinishBoot, Serve
  <2>4. CASE ListDir \/ (\E f \in Files : ReadFile(f)) \/ AwaitEntities \/ ReadEntities
    BY <1>0, <2>4 DEF ListDir, ReadFile, AwaitEntities, PoliciesRead, ReadEntities, store, StoreInv
  <2> QED BY <1>1, <2>1, <2>2, <2>3, <2>4 DEF LoadStep
<1>2. CASE TimerFires \/ \E a \in Admins : AdminReload(a)
  BY <1>2, <1>started DEF TimerFires, AdminReload, store
<1>3. CASE WatchEvent \/ Stop \/ Exit \/ UNCHANGED vars
  BY <1>0, <1>3 DEF WatchEvent, Stop, Exit, vars, store, load, StoreInv
<1>4. CASE \E p \in Added : AddPolicies(p)
  BY <1>0, <1>4 DEF AddPolicies, load, StoreInv
<1>5. CASE \E e \in AdminEntities : SetEntities(e)
  BY <1>0, <1>5 DEF SetEntities, load, StoreInv
<1>6. CASE \/ \E f \in Files : \E c \in Contents \cup {Invalid, Absent} : Edit(f, c)
           \/ \E e \in EntityTexts : EditEntities(e)
  BY <1>0, <1>6 DEF Edit, EditEntities, store, load, StoreInv
<1> QED BY <1>1, <1>2, <1>3, <1>4, <1>5, <1>6 DEF Next

LEMMA ServedInit == Init => Served!Init
<1> SUFFICES ASSUME Init PROVE Served!Init
  OBVIOUS
<1>1. (phase \in {"up", "stopped"}) = FALSE /\ policies \in [Files -> Contents \cup {Absent}]
  BY DEF Init, Nothing
<1> QED BY <1>1 DEF Init, Served!Init, HasEntitiesFile

LEMMA ServedStep == TypeOK /\ LoadInv /\ StoreInv /\ [Next]_vars => [Served!Next]_(Served!vars)
<1> SUFFICES ASSUME TypeOK, LoadInv, StoreInv, [Next]_vars PROVE [Served!Next]_(Served!vars)
  OBVIOUS
<1> DEFINE Serving == phase \in {"up", "stopped"}
           Bases == [Files -> Contents \cup {Absent}]
<1>0. HasEntitiesFile' = HasEntitiesFile
  BY PlaceKept
\* Steps no request can tell.
<1>same. ASSUME UNCHANGED store, Serving' = Serving PROVE UNCHANGED Served!vars
  BY <1>0, <1>same DEF Served!vars, store
<1>1. CASE LoadStep
  <2>serving. ASSUME caller # Boot, pc # "idle", Alive PROVE Serving
    BY <2>serving DEF TypeOK, LoadInv, Alive
  <2>1. CASE InstallBoth
    <3>1. /\ Serving /\ Serving' = Serving /\ HasEntitiesFile
          /\ policies' \in Bases /\ added' = {} /\ entities' \in EntityContents
      BY <2>1, <2>serving DEF InstallBoth, Finish, StoreInv, TypeOK, EntityTexts
    <3>2. Served!Load
      BY <1>0, <3>1 DEF Served!Load
    <3> QED BY <3>2 DEF Served!Next
  <2>2. CASE InstallPolicies
    <3>1. /\ Serving /\ Serving' = Serving /\ ~HasEntitiesFile
          /\ policies' \in Bases /\ added' = {} /\ entities' = entities
      BY <2>2, <2>serving DEF InstallPolicies, PoliciesRead, Finish, TypeOK
    <3>2. Served!Load
      BY <1>0, <3>1 DEF Served!Load
    <3> QED BY <3>2 DEF Served!Next
  <2>3. CASE FinishBoot
    <3>1. caller = Boot /\ pc # "idle" /\ Alive
      BY <2>3 DEF FinishBoot, PoliciesRead
    <3>2. phase = "boot" /\ added = {}
      BY <3>1 DEF LoadInv, StoreInv, Alive
    <3>3. /\ phase' = "up" /\ policies' \in Bases /\ added' = {}
          /\ entities' = NoEntities \/ (HasEntitiesFile /\ entities' \in EntityContents)
      BY <2>3, <3>2 DEF FinishBoot, Serve, StoreInv, TypeOK, EntityTexts
    <3>4. Serving = FALSE /\ Serving' = TRUE
      BY <3>2, <3>3
    <3>5. Served!FirstLoad
      BY <1>0, <3>3, <3>4 DEF Served!FirstLoad
    <3> QED BY <3>5 DEF Served!Next
  <2>4. CASE ListDirFails
    <3>1. UNCHANGED store /\ Serving' = Serving
      <4>1. caller = Boot /\ pc # "idle" /\ Alive => phase = "boot"
        BY DEF LoadInv, Alive
      <4> QED BY <2>4, <4>1 DEF ListDirFails, Finish, store
    <3> QED BY <1>same, <3>1
  <2>5. CASE \/ ListDir \/ (\E f \in Files : ReadFile(f)) \/ ParseErrors \/ AwaitEntities
             \/ ReadEntities \/ EntitiesRejected
    <3>1. UNCHANGED store /\ phase' = phase
      BY <2>5 DEF ListDir, ReadFile, ParseErrors, AwaitEntities, ReadEntities,
                  EntitiesRejected, Finish
    <3> QED BY <1>same, <3>1
  <2> QED BY <1>1, <2>1, <2>2, <2>3, <2>4, <2>5 DEF LoadStep
<1>2. CASE \/ TimerFires \/ (\E a \in Admins : AdminReload(a)) \/ WatchEvent \/ Stop
           \/ (\E f \in Files : \E c \in Contents \cup {Invalid, Absent} : Edit(f, c))
           \/ (\E e \in EntityTexts : EditEntities(e)) \/ UNCHANGED vars
  <2>1. UNCHANGED store /\ Serving' = Serving
    BY <1>2 DEF TimerFires, AdminReload, WatchEvent, Stop, Edit, EditEntities, vars, store
  <2> QED BY <1>same, <2>1
<1>3. ASSUME NEW p \in Added, AddPolicies(p) PROVE Served!Next
  <2>1. Served!Append(p)
    BY <1>0, <1>3 DEF AddPolicies, Served!Append
  <2> QED BY <2>1 DEF Served!Next
<1>4. ASSUME NEW e \in AdminEntities, SetEntities(e) PROVE Served!Next
  <2>1. Served!Put(e)
    BY <1>0, <1>4 DEF SetEntities, Served!Put
  <2> QED BY <2>1 DEF Served!Next
<1>5. CASE Exit
  <2>1. Served!Exit
    <3>1. Serving = TRUE /\ Serving' = FALSE /\ UNCHANGED store
      BY <1>5 DEF Exit
    <3> QED BY <1>0, <3>1 DEF Served!Exit, store
  <2> QED BY <2>1 DEF Served!Next
<1> QED BY <1>1, <1>2, <1>3, <1>4, <1>5 DEF Next

\* Whatever reloads fail, race, coalesce or outlive stop(), requests see a store
\* in which policies and the entities of the file change together, in one step.
THEOREM StoreIsAtomic == Spec => ImplementsPolicyStore
<1>1. Init => LoadInv /\ StoreInv
  BY CallersAssumption DEF Init, LoadInv, StoreInv
<1> QED
  BY <1>1, TypeInit, TypeStep, LoadStepInv, StoreInvStep, ServedInit, ServedStep, PTL
     DEF Spec, ImplementsPolicyStore, Served!Spec
=============================================================================
