---------------------------- MODULE HotReloader ----------------------------
(***************************************************************************)
(* The policy plane of cedar-gate: the policies directory and the entities *)
(* file on disk, the first load in server.ts, the PolicyStore every        *)
(* request reads, the HotReloader (file watcher, debounce timer, reload    *)
(* with a single-flight guard) and the admin handlers that reload it or    *)
(* write the store.                                                        *)
(*                                                                         *)
(* Node runs one callback at a time, so the code between two awaits is one *)
(* action.  A load awaits readdir, then each file in order, then the       *)
(* entities file; everything else (edits, watch events, the timer, admin   *)
(* requests, shutdown) interleaves with it.                                *)
(***************************************************************************)
EXTENDS Integers, FiniteSets

CONSTANTS
  NumFiles,          \* .cedar names that may exist, 1..NumFiles in sorted order
  Contents,          \* texts checkParsePolicySet accepts
  Invalid, Absent,   \* a text it refuses (or a read that fails); no such file
  EntityContents,    \* entity files that are JSON arrays
  InvalidEntities,   \* an entities file that is missing or not a JSON array
  NoEntities,        \* the empty entity array a failed boot starts with
  AdminEntities,     \* arrays PUT to /admin/entities
  Added,             \* policy texts POSTed to /admin/policies
  Admins,            \* admin connections; one more caller each of reload()
  Boot, Timer,       \* the other two callers of a load
  Places,            \* where ENTITIES_FILE may point: "none" if it is not set,
                     \* "watched" for entities.json in the policies directory,
                     \* "unwatched" for any other file
  IoFaults,          \* may readdir and readFile fail
  EditsDuringBoot    \* may the disk change before the watcher exists

Files == 1..NumFiles
EntityTexts == EntityContents \cup {InvalidEntities}
StoredEntities == EntityContents \cup AdminEntities \cup {NoEntities}
Callers == Admins \cup {Boot, Timer}

ASSUME NumFilesAssumption == NumFiles \in Nat \ {0}
ASSUME ContentsAssumption ==
  Invalid \notin Contents /\ Absent \notin Contents /\ Invalid # Absent
ASSUME EntitiesAssumption ==
  /\ InvalidEntities \notin EntityContents
  /\ NoEntities \notin EntityContents \cup AdminEntities
  /\ EntityContents \cap AdminEntities = {}
ASSUME CallersAssumption ==
  Boot \notin Admins /\ Timer \notin Admins /\ Boot # Timer
ASSUME OptionsAssumption ==
  /\ Places \subseteq {"none", "watched", "unwatched"}
  /\ {IoFaults, EditsDuringBoot} \subseteq BOOLEAN

VARIABLES
  dir,            \* what each policy file holds on disk
  entitiesFile,   \* where the entities file is, and what it holds on disk
  phase,          \* of the process: booting, up, stopped by a signal, gone
  policies,       \* PolicyStore.policyText: what it holds of each file ...
  added,          \* ... and the texts admins appended after them
  entities,       \* PolicyStore.entities
  event,          \* the watcher owes a callback for a change on disk
  debounceTimer,  \* HotReloader.debounceTimer is armed
  isReloading, pendingReload,
  pc,             \* the await the load in progress is at
  caller,         \* who awaits that load
  todo, text,     \* files it has still to read; segments it has read
  errors,         \* a file did not parse or could not be read
  loaded,         \* the entities it has read
  reply,          \* what each admin's last reload request was answered
  lastLoad,       \* outcome the last finished load reported
  seen            \* history: every content a file had since the load began

disk == <<dir, entitiesFile, seen>>
store == <<policies, added, entities>>
timers == <<event, debounceTimer, pendingReload>>
load == <<pc, caller, todo, text, errors, loaded>>
outcome == <<reply, lastLoad>>
vars == <<disk, phase, store, timers, isReloading, load, outcome>>

Nothing == [f \in Files |-> Absent]
Unseen == [f \in Files |-> {}]
Alive == phase # "dead"
HasEntitiesFile == entitiesFile.place # "none"
EntitiesWatched == entitiesFile.place = "watched"

\* Types: in particular the store never holds a text that does not parse, though
\* the disk and a running load may meet one.
TypeOK ==
  /\ dir \in [Files -> Contents \cup {Invalid, Absent}]
  /\ entitiesFile \in [place : Places, text : EntityTexts]
  /\ phase \in {"boot", "up", "stopped", "dead"}
  /\ policies \in [Files -> Contents \cup {Absent}]
  /\ added \in SUBSET Added
  /\ entities \in StoredEntities
  /\ event \in BOOLEAN /\ debounceTimer \in BOOLEAN
  /\ isReloading \in BOOLEAN /\ pendingReload \in BOOLEAN /\ errors \in BOOLEAN
  /\ pc \in {"idle", "readdir", "files", "entities", "install"}
  /\ caller \in Callers
  /\ todo \in SUBSET Files
  /\ text \in [Files -> Contents \cup {Absent}]
  /\ loaded \in EntityTexts
  /\ reply \in [Admins -> {"none", "waiting", "success", "failure"}]
  /\ lastLoad \in {"none", "success", "failure"}
  /\ seen \in [Files -> SUBSET (Contents \cup {Invalid, Absent})]

\* main() begins by loading the policies; no server and no watcher exist yet.
Init ==
  /\ dir \in [Files -> Contents \cup {Invalid, Absent}]
  /\ entitiesFile \in [place : Places, text : EntityTexts]
  /\ HasEntitiesFile \/ entitiesFile.text = InvalidEntities
  /\ phase = "boot"
  /\ policies = Nothing /\ added = {} /\ entities = NoEntities
  /\ event = FALSE /\ debounceTimer = FALSE
  /\ isReloading = FALSE /\ pendingReload = FALSE
  /\ pc = "readdir" /\ caller = Boot
  /\ todo = {} /\ text = Nothing /\ errors = FALSE /\ loaded = InvalidEntities
  /\ reply = [a \in Admins |-> "none"] /\ lastLoad = "none"
  /\ seen = [f \in Files |-> {dir[f]}]

-----------------------------------------------------------------------------
(* The asynchronous load: loadPoliciesFromDir, then loadEntitiesFromFile.   *)

\* The promise of the load settles and its locals are gone.
LoadSettles(result) ==
  /\ pc' = "idle"
  /\ todo' = {} /\ text' = Nothing /\ errors' = FALSE /\ loaded' = InvalidEntities
  /\ seen' = Unseen
  /\ lastLoad' = result
  /\ UNCHANGED caller

\* Mutant: the finally block clears the mark and schedules nothing.
Finish_ForgetsPending(result) ==
  /\ LoadSettles(result)
  /\ isReloading' = FALSE /\ pendingReload' = FALSE
  /\ reply' = IF caller \in Admins THEN [reply EXCEPT ![caller] = result] ELSE reply
  /\ UNCHANGED <<dir, entitiesFile, phase, event, debounceTimer>>

\* Mutant: no finally block after an early return, so the mark stays.
Finish_KeepsMark(result) ==
  /\ LoadSettles(result)
  /\ isReloading' = FALSE
  /\ reply' = IF caller \in Admins THEN [reply EXCEPT ![caller] = result] ELSE reply
  /\ UNCHANGED <<dir, entitiesFile, phase, event, debounceTimer, pendingReload>>

\* Mutant: the promise an admin request awaits never settles.
Finish_NoAnswer(result) ==
  /\ LoadSettles(result)
  /\ isReloading' = FALSE
  /\ debounceTimer' = (debounceTimer \/ pendingReload)
  /\ pendingReload' = FALSE
  /\ UNCHANGED <<dir, entitiesFile, phase, event, reply>>

\* The finally block of performReload, and the answer of the admin request
\* that awaited it: a reload asked for meanwhile is scheduled now.
Finish(result) ==
  /\ LoadSettles(result)
  /\ isReloading' = FALSE
  /\ debounceTimer' = (debounceTimer \/ pendingReload)
  /\ pendingReload' = FALSE
  /\ reply' = IF caller \in Admins THEN [reply EXCEPT ![caller] = result] ELSE reply
  /\ UNCHANGED <<dir, entitiesFile, phase, event>>

\* The store is built, the servers listen and, last of all, the watcher starts.
Serve(ents) ==
  /\ LoadSettles(IF errors \/ (HasEntitiesFile /\ loaded = InvalidEntities)
                 THEN "failure" ELSE "success")
  /\ phase' = "up"
  /\ policies' = text /\ entities' = ents
  /\ UNCHANGED <<dir, entitiesFile, added, timers, isReloading, reply>>

ListDir ==
  /\ Alive /\ pc = "readdir"
  /\ pc' = "files"
  /\ todo' = {f \in Files : dir[f] # Absent}
  /\ text' = Nothing /\ errors' = FALSE
  /\ UNCHANGED <<disk, phase, store, timers, isReloading, caller, loaded, outcome>>

\* readdir rejects: at boot main() exits, in a reload the catch reports it.
ListDirFails ==
  /\ IoFaults /\ Alive /\ pc = "readdir"
  /\ \/ /\ caller = Boot
        /\ phase' = "dead"
        /\ UNCHANGED <<disk, store, timers, isReloading, load, outcome>>
     \/ caller # Boot /\ Finish("failure") /\ UNCHANGED store

IsNextFile(f) == f \in todo /\ \A g \in todo : f <= g

\* A file is read and parsed by itself; one that fails is an error, not an abort.
ReadFile(f) ==
  /\ Alive /\ pc = "files" /\ IsNextFile(f)
  /\ todo' = todo \ {f}
  /\ \/ /\ dir[f] \in Contents
        /\ text' = [text EXCEPT ![f] = dir[f]]
        /\ UNCHANGED errors
     \/ /\ IoFaults \/ dir[f] \notin Contents
        /\ errors' = TRUE
        /\ UNCHANGED text
  /\ UNCHANGED <<disk, phase, store, timers, isReloading, pc, caller, loaded, outcome>>

PoliciesRead == Alive /\ pc = "files" /\ todo = {}

\* Mutant: the text is dropped before the files are known to parse.
ParseErrors_DropsAdded ==
  /\ PoliciesRead /\ caller # Boot /\ errors /\ Finish("failure")
  /\ added' = {} /\ UNCHANGED <<policies, entities>>

\* A reload with a bad file stops here; the first load goes on without it.
ParseErrors == PoliciesRead /\ caller # Boot /\ errors /\ Finish("failure") /\ UNCHANGED store

\* Mutant: a reload goes on with the files that parse, as the first load does.
AwaitEntities_SkipsBadFiles ==
  /\ PoliciesRead /\ HasEntitiesFile
  /\ pc' = "entities"
  /\ UNCHANGED <<disk, phase, store, timers, isReloading, caller, todo, text,
                 errors, loaded, outcome>>

AwaitEntities ==
  /\ PoliciesRead /\ HasEntitiesFile /\ (caller = Boot \/ ~errors)
  /\ pc' = "entities"
  /\ UNCHANGED <<disk, phase, store, timers, isReloading, caller, todo, text,
                 errors, loaded, outcome>>

ReadEntities ==
  /\ Alive /\ pc = "entities"
  /\ pc' = "install"
  /\ loaded' \in {entitiesFile.text} \cup (IF IoFaults THEN {InvalidEntities} ELSE {})
  /\ UNCHANGED <<disk, phase, store, timers, isReloading, caller, todo, text,
                 errors, outcome>>

\* Mutant: the catch around the entities file swallows the error.
EntitiesRejected_Swallowed ==
  /\ Alive /\ pc = "install" /\ caller # Boot /\ loaded = InvalidEntities
  /\ Finish("success") /\ UNCHANGED store

EntitiesRejected ==
  /\ Alive /\ pc = "install" /\ caller # Boot /\ loaded = InvalidEntities
  /\ Finish("failure") /\ UNCHANGED store

\* Mutant: a load installs the policies alone.
InstallBoth_PoliciesOnly ==
  /\ Alive /\ pc = "install" /\ caller # Boot /\ loaded # InvalidEntities
  /\ policies' = text /\ added' = {} /\ UNCHANGED entities
  /\ Finish("success")

\* store.update: policies and entities are swapped in one assignment each,
\* in the same turn of the event loop.
InstallBoth ==
  /\ Alive /\ pc = "install" /\ caller # Boot /\ loaded # InvalidEntities
  /\ policies' = text /\ added' = {} /\ entities' = loaded
  /\ Finish("success")

\* store.setPolicies when no entities file is configured.
InstallPolicies ==
  /\ PoliciesRead /\ ~HasEntitiesFile /\ caller # Boot /\ ~errors
  /\ policies' = text /\ added' = {} /\ UNCHANGED entities
  /\ Finish("success")

FinishBoot ==
  \/ PoliciesRead /\ ~HasEntitiesFile /\ caller = Boot /\ Serve(NoEntities)
  \/ /\ Alive /\ pc = "install" /\ caller = Boot
     /\ Serve(IF loaded = InvalidEntities THEN NoEntities ELSE loaded)

LoadStep ==
  \/ ListDir \/ ListDirFails \/ (\E f \in Files : ReadFile(f)) \/ ParseErrors \/ AwaitEntities
  \/ ReadEntities \/ EntitiesRejected \/ InstallBoth \/ InstallPolicies \/ FinishBoot

-----------------------------------------------------------------------------
(* What starts a load.                                                      *)

\* performReload up to its first await: a second caller only leaves a mark.
PerformReload(who) ==
  IF isReloading
  THEN pendingReload' = TRUE /\ UNCHANGED <<isReloading, load, seen>>
  ELSE /\ isReloading' = TRUE /\ pc' = "readdir" /\ caller' = who
       /\ seen' = [f \in Files |-> {dir[f]}]
       /\ UNCHANGED <<pendingReload, todo, text, errors, loaded>>

\* Mutant: events that arrive during a reload are dropped.
WatchEvent_IgnoredWhileLoading ==
  /\ phase = "up" /\ event
  /\ event' = FALSE /\ debounceTimer' = (debounceTimer \/ ~isReloading)
  /\ UNCHANGED <<disk, phase, store, pendingReload, isReloading, load, outcome>>

\* The watcher's callback re-arms the debounce timer.
WatchEvent ==
  /\ phase = "up" /\ event
  /\ event' = FALSE /\ debounceTimer' = TRUE
  /\ UNCHANGED <<disk, phase, store, pendingReload, isReloading, load, outcome>>

TimerFires ==
  /\ Alive /\ debounceTimer
  /\ debounceTimer' = FALSE
  /\ PerformReload(Timer)
  /\ UNCHANGED <<dir, entitiesFile, phase, store, event, outcome>>

\* POST /admin/policies/reload; a request kept alive across stop() still runs.
AdminReload(a) ==
  /\ phase \in {"up", "stopped"} /\ reply[a] # "waiting"
  /\ PerformReload(a)
  /\ reply' = [reply EXCEPT ![a] = IF isReloading THEN "success" ELSE "waiting"]
  /\ UNCHANGED <<dir, entitiesFile, phase, store, event, debounceTimer, lastLoad>>

-----------------------------------------------------------------------------
(* The other writers of the store, the operator's editor, and shutdown.     *)

\* POST /admin/policies: appended to whatever the store holds at that moment.
AddPolicies(p) ==
  /\ phase \in {"up", "stopped"} /\ p \notin added
  /\ added' = added \cup {p}
  /\ UNCHANGED <<disk, phase, policies, entities, timers, isReloading, load, outcome>>

\* PUT /admin/entities
SetEntities(e) ==
  /\ phase \in {"up", "stopped"} /\ e # entities
  /\ entities' = e
  /\ UNCHANGED <<disk, phase, policies, added, timers, isReloading, load, outcome>>

Editable == phase \in {"up", "stopped"} \/ (phase = "boot" /\ EditsDuringBoot)

\* A policy file is written, corrupted, created or removed.
Edit(f, c) ==
  /\ Editable /\ dir[f] # c
  /\ dir' = [dir EXCEPT ![f] = c]
  /\ event' = (event \/ phase = "up")
  /\ seen' = IF pc = "idle" THEN seen ELSE [seen EXCEPT ![f] = @ \cup {c}]
  /\ UNCHANGED <<entitiesFile, phase, store, debounceTimer, pendingReload,
                 isReloading, load, outcome>>

\* Mutant: the watcher's filter lets only .cedar names through.
EntitiesReported_CedarOnly == FALSE

\* start()'s watch filter: an event carries a name in the watched directory, and
\* entities.json passes as every .cedar name does.
EntitiesReported == phase = "up" /\ EntitiesWatched

\* The entities file is written, corrupted or removed.
EditEntities(e) ==
  /\ HasEntitiesFile /\ Editable /\ entitiesFile.text # e
  /\ entitiesFile' = [entitiesFile EXCEPT !.text = e]
  /\ event' = (event \/ EntitiesReported)
  /\ UNCHANGED <<dir, seen, phase, store, debounceTimer, pendingReload,
                 isReloading, load, outcome>>

\* SIGTERM: stop() closes the watcher and clears the timer.
Stop ==
  /\ phase = "up"
  /\ phase' = "stopped" /\ event' = FALSE /\ debounceTimer' = FALSE
  /\ UNCHANGED <<disk, store, pendingReload, isReloading, load, outcome>>

\* Both servers have closed, or ten seconds have passed.
Exit ==
  /\ phase = "stopped"
  /\ phase' = "dead"
  /\ UNCHANGED <<disk, store, timers, isReloading, load, outcome>>

Next ==
  \/ LoadStep
  \/ WatchEvent
  \/ TimerFires
  \/ \E a \in Admins : AdminReload(a)
  \/ \E p \in Added : AddPolicies(p)
  \/ \E e \in AdminEntities : SetEntities(e)
  \/ \E f \in Files : \E c \in Contents \cup {Invalid, Absent} : Edit(f, c)
  \/ \E e \in EntityTexts : EditEntities(e)
  \/ Stop
  \/ Exit

Spec == Init /\ [][Next]_vars

(***************************************************************************)
(* Node completes the file operations it was asked for, delivers watch     *)
(* events and fires timers.  A timer that events keep re-arming may never  *)
(* fire, so it is fair only while no event is due.  Nobody is obliged to   *)
(* edit a file, to call the admin API or to stop the process.              *)
(***************************************************************************)
FairSpec ==
  /\ Spec
  /\ WF_vars(LoadStep)
  /\ WF_vars(WatchEvent)
  /\ WF_vars(~event /\ TimerFires)

-----------------------------------------------------------------------------
(* Safety.                                                                  *)

Quiet == phase = "up" /\ ~event /\ ~debounceTimer /\ ~isReloading

\* When no event, timer or load is outstanding, the store holds exactly the
\* policy files that are on disk, unless the last load reported a failure: no
\* edit falls between two loads, whichever file of a running load it touches.
NoSilentLoss == Quiet => policies = dir \/ lastLoad = "failure"

\* The same for entities that come from the file, where the watcher covers it;
\* entities an admin has PUT stay until the next reload.
NoSilentEntityLoss ==
  Quiet /\ EntitiesWatched
    => \/ entities = entitiesFile.text \/ entities \in AdminEntities
       \/ lastLoad = "failure"

\* Policies are installed all or nothing from what the disk held during this
\* very load: once up, each file comes in with a valid text it had since the
\* load began, and is left out only if it was missing at some time since.
InstallsWhatItRead ==
  [][phase = "up" /\ policies' # policies
       => lastLoad' = "success" /\ \A f \in Files : policies'[f] \in seen[f]]_vars

\* A policy an admin added disappears only when a load replaces the whole text:
\* no failed or coalesced reload and no other admin request removes it.
AddedLostOnlyToInstall ==
  [][~(added \subseteq added')
       => pc # "idle" /\ pc' = "idle" /\ lastLoad' = "success" /\ policies' = text]_vars

\* A reload that was not coalesced is answered by its own load: success means
\* the files it read are the ones now served, failure that nothing changed.
ReloadAnswersItsLoad ==
  [][\A a \in Admins :
       reply[a] = "waiting" /\ reply'[a] # "waiting"
         => /\ caller = a /\ pc # "idle"
            /\ reply'[a] = "success" => policies' = text /\ added' = {} /\ ~errors
            /\ reply'[a] = "failure" => UNCHANGED store]_vars

\* Across every await, failure and race of the loads, requests see one store:
\* policies and file entities are swapped in a single step or not at all, and
\* failed or coalesced reloads leave it alone.
Served == INSTANCE PolicyStore WITH
            Bases <- [Files -> Contents \cup {Absent}],
            FileEntities <- EntityContents, hasFile <- HasEntitiesFile,
            up <- phase \in {"up", "stopped"}, base <- policies
ImplementsPolicyStore == Served!Spec

-----------------------------------------------------------------------------
(* The inductive invariant behind the properties above.                     *)

\* isReloading is exactly "a reload is at some await", the first load runs
\* before anything else can, only a running reload carries a mark, and a reload
\* with a bad file never reaches its entities.
LoadInv ==
  /\ isReloading <=> (pc # "idle" /\ caller # Boot)
  /\ phase = "boot" => /\ pc # "idle" /\ caller = Boot
                       /\ ~event /\ ~debounceTimer /\ ~pendingReload
  /\ pc # "idle" /\ caller = Boot => phase \in {"boot", "dead"}
  /\ pendingReload => isReloading
  /\ event => phase = "up"
  /\ pc \in {"entities", "install"} => todo = {} /\ (caller = Boot \/ ~errors)

Reading == pc \in {"files", "entities", "install"}

\* What a load has read so far, it has read since it began.
SeenInv ==
  /\ pc # "idle" => \A f \in Files : dir[f] \in seen[f]
  /\ Reading /\ ~errors => \A f \in Files \ todo : text[f] \in seen[f]

Calm == phase \in {"boot", "up"} /\ ~event /\ ~debounceTimer /\ ~pendingReload

\* With no edit left to notice, what a load has read so far is still current.
FreshInv == Calm /\ Reading /\ ~errors => \A f \in Files \ todo : text[f] = dir[f]

\* The same of the entities, once they are read.
EntitiesFreshInv ==
  Calm /\ EntitiesWatched /\ pc = "install" => loaded \in {entitiesFile.text, InvalidEntities}

\* Who waits for an answer is the caller of the load in progress.
WaitInv == \A a \in Admins : reply[a] = "waiting" => caller = a /\ pc # "idle"

\* The whole inductive invariant of the policy plane; it needs ~EditsDuringBoot.
IInv ==
  /\ TypeOK /\ LoadInv /\ SeenInv /\ WaitInv
  /\ FreshInv /\ EntitiesFreshInv
  /\ NoSilentLoss /\ NoSilentEntityLoss

-----------------------------------------------------------------------------
(* Liveness, under FairSpec.                                                *)

\* From some time on nobody edits either file, and the process stays up.
AtRest == <>[][UNCHANGED <<dir, entitiesFile>>]_vars /\ <>[](phase = "up")

FilesValid ==
  /\ \A f \in Files : dir[f] # Invalid
  /\ HasEntitiesFile => entitiesFile.text # InvalidEntities

\* Once both files stay put and are valid, and the process stays up, the store
\* ends up holding the policies for good, whatever reloads and edits raced before.
\* The exception is an entities file outside the watched directory (the shipped
\* layout): a load that it made fail is not retried when it is repaired, since no
\* event comes, and every load since, if any, has failed too.
Convergence ==
  AtRest /\ <>[]FilesValid
    => \/ <>[](policies = dir)
       \/ /\ HasEntitiesFile /\ ~EntitiesWatched
          /\ <>(entitiesFile.text = InvalidEntities) /\ <>[](lastLoad = "failure")

\* Every admin reload is answered, unless the process exits first.
ReloadAnswered ==
  \A a \in Admins : reply[a] = "waiting" ~> (reply[a] # "waiting" \/ phase = "dead")

\* A coalesced reload is not forgotten: once edits cease, a load begins after it.
CoalescedIsServed == AtRest => (pendingReload ~> pc = "readdir")

-----------------------------------------------------------------------------
(* What the documentation and the tests say, which the code does not do.    *)

\* tests/policies/hot-reload.test.ts: "stop() should clear pending debounce
\* timers".  A load that outlives stop() with a pending reload re-arms one.
StopClearsTimer == phase = "stopped" => ~debounceTimer

\* tests/policies/hot-reload.test.ts: reload() with an invalid policy file
\* returns an error.  A coalesced reload is answered success whatever the files hold.
InvalidIsReported ==
  [][\A a \in Admins :
       reply[a] # "success" /\ reply'[a] = "success"
         => \A f \in Files : seen[f] # {Invalid}]_vars
=============================================================================
