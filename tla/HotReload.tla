----------------------------- MODULE HotReload -----------------------------
(***************************************************************************)
(* The game configuration (component/game_config.go): JSON files, their    *)
(* bytes in memory (contextDataManager), the maps built from them          *)
(* (cacheDataManager), and who builds them: the first reader of a type     *)
(* under newLock, a preload with no lock, ReloadGameConf under reloadMu,   *)
(* called by hand or by the file watcher.  A content is a revision number; *)
(* Bad does not parse (a file being written), Empty is a map with nothing. *)
(***************************************************************************)
EXTENDS Naturals, FiniteSets

CONSTANTS
    Type,       \* configuration types, one file each
    Reader,     \* goroutines calling GetGameConf
    Watcher,    \* instances of runConfigWatcher, one per StartConfigWatcher
    Hand,       \* the goroutine calling ReloadGameConf by hand
    Loader,     \* a goroutine preloading with LoadGameConf
    None,       \* nil
    Bad,        \* content that does not parse
    Empty,      \* a map with no entries
    MaxRev,     \* bound: revisions of a file
    MaxManual   \* bound: calls of Hand

ASSUME ReloadAssumption ==
    /\ IsFiniteSet(Type) /\ IsFiniteSet(Watcher)
    /\ MaxRev \in Nat \ {0} /\ MaxManual \in Nat
    /\ None # Bad /\ None # Empty /\ Bad # Empty
    /\ {None, Bad, Empty} \cap Nat = {}

Reloader == Watcher \cup {Hand}
Actor == Reloader \cup Reader \cup {Loader}

VARIABLES
    file,       \* type -> content on disk
    rev,        \* type -> the revision its editor is at
    context,    \* contextDataManager: type -> content last read
    data,       \* cacheDataManager: type -> what the map was built from
    loaders,    \* typeLoaders: the registered types
    newLock,    \* the reader that holds newLock, or None
    reloadMu,   \* the reloader that holds reloadMu, or None
    current,    \* watcherStop: the watcher Stop would stop, or None
    watch,      \* watcher -> its goroutine and what is on its way to it
    work,       \* actor -> the call it is in
    manual,     \* calls of Hand begun
    unseen,     \* history: a change no watcher was told of
    crossed     \* history: types whose map an overtaken load has set

store == <<file, context, data>>
locks == <<newLock, reloadMu>>
ghosts == <<unseen, crossed>>
reloadVars == <<store, rev, loaders, locks, current, watch, work, manual, ghosts>>

NoWork == [pc |-> "idle", type |-> None, res |-> None, base |-> None, todo |-> {}, done |-> {}]

ReloadInit ==
    /\ file = [t \in Type |-> 1] /\ context = file   \* InitGameConfToMem
    /\ data = [t \in Type |-> None] /\ rev = file
    /\ loaders = {} /\ newLock = None /\ reloadMu = None
    /\ current = None
    /\ watch = [w \in Watcher |-> [run |-> "new", event |-> FALSE, timer |-> FALSE, trigger |-> FALSE]]
    /\ work = [a \in Actor |-> NoWork]
    /\ manual = 0 /\ unseen = FALSE /\ crossed = {}

Listens(w) == watch[w].run \in {"on", "stopping"}
Pending(w) == watch[w].event \/ watch[w].timer \/ watch[w].trigger

-----------------------------------------------------------------------------
(* The editor *)

\* The files as a writer leaves them; every watcher still open has an event.
Change(t, content) ==
    /\ file' = [file EXCEPT ![t] = content]
    /\ watch' = [w \in Watcher |-> [watch[w] EXCEPT !.event = @ \/ Listens(w)]]
    /\ unseen' = (unseen \/ ~\E w \in Watcher : watch[w].run = "on")
    /\ UNCHANGED <<context, data, loaders, locks, current, work, manual, crossed>>

\* A save truncates (or renames) the file first ...
WriteBegin(t) ==
    /\ file[t] # Bad /\ rev[t] < MaxRev
    /\ rev' = [rev EXCEPT ![t] = @ + 1]
    /\ Change(t, Bad)

\* ... and ends with content that parses.
WriteEnd(t) == file[t] = Bad /\ Change(t, rev[t]) /\ UNCHANGED rev

-----------------------------------------------------------------------------
(* LoadGameConf *)

\* Actor a begins to load type t: the bytes are read.
Take(a, t) == [work[a] EXCEPT !.pc = "load", !.type = t, !.res = context[t], !.base = data[t]]

\* What the caller does when its LoadGameConf returns: a reloader goes on with
\* the next loader, a reader unlocks newLock, the preload is over.
Return(a) ==
    /\ work' = [work EXCEPT ![a] =
                  IF a \in Reloader
                  THEN [NoWork EXCEPT !.pc = "range", !.todo = work[a].todo,
                                      !.done = work[a].done \cup {work[a].type}]
                  ELSE [NoWork EXCEPT !.pc = IF a = Loader THEN "over" ELSE "idle"]]
    /\ newLock' = IF newLock = a THEN None ELSE newLock

\* Mutant of KeepOld: the failed load goes on to build its map.
KeepNothing(a) ==
    /\ work[a].pc = "load" /\ work[a].res = Bad /\ data[work[a].type] # None
    /\ work' = [work EXCEPT ![a].res = Empty]
    /\ UNCHANGED <<store, rev, loaders, locks, current, watch, manual, ghosts>>

\* The bytes do not parse and there is an older map: it stays.
KeepOld(a) ==
    /\ work[a].pc = "load" /\ work[a].res = Bad /\ data[work[a].type] # None
    /\ Return(a)
    /\ UNCHANGED <<store, rev, loaders, reloadMu, current, watch, manual, ghosts>>

\* There is none: an empty map is built.
BuildEmpty(a) ==
    /\ work[a].pc = "load" /\ work[a].res = Bad /\ data[work[a].type] = None
    /\ work' = [work EXCEPT ![a].res = Empty]
    /\ UNCHANGED <<store, rev, loaders, locks, current, watch, manual, ghosts>>

\* cacheDataManager.Set: whatever is there now.
Store(a) ==
    LET t == work[a].type IN
    /\ work[a].pc = "load" /\ work[a].res # Bad
    /\ data' = [data EXCEPT ![t] = work[a].res]
    /\ crossed' = IF data[t] # work[a].base THEN crossed \cup {t}
                  ELSE IF a \in Reloader THEN crossed \ {t} ELSE crossed
    /\ Return(a)
    /\ UNCHANGED <<file, rev, context, loaders, reloadMu, current, watch, manual, unseen>>

\* The first GetGameConf of a type finds no map and waits for newLock.
Get(r, t) ==
    /\ work[r].pc = "idle" /\ data[t] = None
    /\ work' = [work EXCEPT ![r] = [NoWork EXCEPT !.pc = "lock", !.type = t]]
    /\ UNCHANGED <<store, rev, loaders, locks, current, watch, manual, ghosts>>

\* It looks again under the lock, registers the loader and loads.
FirstLoad(r) ==
    LET t == work[r].type IN
    /\ work[r].pc = "lock" /\ newLock = None
    /\ IF data[t] # None
       THEN work' = [work EXCEPT ![r] = NoWork] /\ UNCHANGED <<loaders, newLock>>
       ELSE /\ newLock' = r
            /\ loaders' = loaders \cup {t}
            /\ work' = [work EXCEPT ![r] = Take(r, t)]
    /\ UNCHANGED <<store, rev, reloadMu, current, watch, manual, ghosts>>

\* LoadGameConf called directly ("preload"): no lock, no registration.
Preload(t) ==
    /\ work[Loader].pc = "idle"
    /\ work' = [work EXCEPT ![Loader] = Take(Loader, t)]
    /\ UNCHANGED <<store, rev, loaders, locks, current, watch, manual, ghosts>>

-----------------------------------------------------------------------------
(* ReloadGameConf *)

Call(a) == work' = [work EXCEPT ![a] = [NoWork EXCEPT !.pc = "wait"]]

ReloadByHand ==
    /\ work[Hand].pc = "idle" /\ manual < MaxManual
    /\ manual' = manual + 1
    /\ Call(Hand)
    /\ UNCHANGED <<store, rev, loaders, locks, current, watch, ghosts>>

\* Mutant of LockReload: TryLock, a reload is running already.
ReloadIfFree(a) ==
    /\ work[a].pc = "wait"
    /\ IF reloadMu = None
       THEN /\ reloadMu' = a /\ unseen' = FALSE
            /\ work' = [work EXCEPT ![a] = [NoWork EXCEPT !.pc = "files", !.todo = Type]]
       ELSE work' = [work EXCEPT ![a] = NoWork] /\ UNCHANGED <<reloadMu, unseen>>
    /\ UNCHANGED <<store, rev, loaders, newLock, current, watch, manual, crossed>>

LockReload(a) ==
    /\ work[a].pc = "wait" /\ reloadMu = None
    /\ reloadMu' = a
    /\ work' = [work EXCEPT ![a] = [NoWork EXCEPT !.pc = "files", !.todo = Type]]
    /\ unseen' = FALSE
    /\ UNCHANGED <<store, rev, loaders, newLock, current, watch, manual, crossed>>

\* loadFilesIntoContext, file by file.  A file being replaced is read as it
\* is, or cannot be read and is skipped.
ReadFile(a, t) ==
    /\ work[a].pc = "files" /\ t \in work[a].todo
    /\ \/ context' = [context EXCEPT ![t] = file[t]]
       \/ file[t] = Bad /\ UNCHANGED context
    /\ work' = [work EXCEPT ![a].todo = @ \ {t}]
    /\ UNCHANGED <<file, data, rev, loaders, locks, current, watch, manual, ghosts>>

\* typeLoaders.Range visits every type registered before it, and may visit
\* those registered meanwhile.
BeginRange(a) ==
    /\ work[a].pc = "files" /\ work[a].todo = {}
    /\ work' = [work EXCEPT ![a].pc = "range", ![a].todo = loaders]
    /\ UNCHANGED <<store, rev, loaders, locks, current, watch, manual, ghosts>>

RunLoader(a, t) ==
    /\ work[a].pc = "range" /\ t \in loaders \ work[a].done
    /\ work' = [work EXCEPT ![a] = Take(a, t)]
    /\ UNCHANGED <<store, rev, loaders, locks, current, watch, manual, ghosts>>

\* The hooks run, the lock is released.
EndReload(a) ==
    /\ work[a].pc = "range" /\ work[a].todo \subseteq work[a].done
    /\ work' = [work EXCEPT ![a] = NoWork]
    /\ reloadMu' = None
    /\ UNCHANGED <<store, rev, loaders, newLock, current, watch, manual, ghosts>>

-----------------------------------------------------------------------------
(* The watcher *)

StartConfigWatcher(w) ==
    /\ current = None /\ watch[w].run = "new"
    /\ current' = w
    /\ watch' = [watch EXCEPT ![w].run = "on"]
    /\ UNCHANGED <<store, rev, loaders, locks, work, manual, ghosts>>

StopConfigWatcher ==
    /\ current # None
    /\ watch' = [watch EXCEPT ![current].run = "stopping"]
    /\ unseen' = (unseen \/ Pending(current))
    /\ current' = None
    /\ UNCHANGED <<store, rev, loaders, locks, work, manual, crossed>>

\* The goroutine is in its select.
Selects(w) == Listens(w) /\ work[w].pc = "idle"

\* schedule: the debounce timer starts again.
Schedule(w) ==
    /\ Selects(w) /\ watch[w].event
    /\ watch' = [watch EXCEPT ![w].event = FALSE, ![w].timer = TRUE]
    /\ UNCHANGED <<store, rev, loaders, locks, current, work, manual, ghosts>>

\* One trigger fits in triggerCh; another is dropped.
TimerFires(w) ==
    /\ watch[w].timer
    /\ watch' = [watch EXCEPT ![w].timer = FALSE, ![w].trigger = TRUE]
    /\ UNCHANGED <<store, rev, loaders, locks, current, work, manual, ghosts>>

Trigger(w) ==
    /\ Selects(w) /\ watch[w].trigger
    /\ watch' = [watch EXCEPT ![w].trigger = FALSE]
    /\ Call(w)
    /\ UNCHANGED <<store, rev, loaders, locks, current, manual, ghosts>>

\* select takes the closed stop channel: nothing pending is heard any more.
Exit(w) ==
    /\ watch[w].run = "stopping" /\ work[w].pc = "idle"
    /\ watch' = [watch EXCEPT ![w] = [run |-> "gone", event |-> FALSE, timer |-> FALSE, trigger |-> FALSE]]
    /\ UNCHANGED <<store, rev, loaders, locks, current, work, manual, ghosts>>

LoadStep(a) == KeepOld(a) \/ BuildEmpty(a) \/ Store(a)
ReloadStep(a) == \/ LockReload(a) \/ BeginRange(a) \/ EndReload(a)
                 \/ \E t \in Type : ReadFile(a, t) \/ RunLoader(a, t)
WatcherStep(w) == Schedule(w) \/ TimerFires(w) \/ Trigger(w) \/ Exit(w)

ReloadNext ==
    \/ \E t \in Type : WriteBegin(t) \/ WriteEnd(t) \/ Preload(t)
    \/ \E r \in Reader : FirstLoad(r) \/ \E t \in Type : Get(r, t)
    \/ ReloadByHand \/ StopConfigWatcher
    \/ \E a \in Actor : LoadStep(a)
    \/ \E a \in Reloader : ReloadStep(a)
    \/ \E w \in Watcher : StartConfigWatcher(w) \/ WatcherStep(w)

ReloadSpec == ReloadInit /\ [][ReloadNext]_reloadVars

\* Goroutines and timers run, and an editor that began a save ends it.
FairReload ==
    /\ ReloadSpec
    /\ \A t \in Type : WF_reloadVars(WriteEnd(t))
    /\ \A a \in Actor : WF_reloadVars(LoadStep(a))
    /\ \A r \in Reader : WF_reloadVars(FirstLoad(r))
    /\ \A a \in Reloader : WF_reloadVars(ReloadStep(a))
    /\ \A w \in Watcher : WF_reloadVars(Schedule(w)) /\ WF_reloadVars(TimerFires(w)) /\ WF_reloadVars(Trigger(w))

-----------------------------------------------------------------------------
Revision == 1..MaxRev

\* A goroutine's call: its type, the bytes it read, the map it saw then, and
\* the files or loaders still to visit and visited.
WorkSet == [pc: {"idle", "lock", "load", "over", "wait", "files", "range"},
            type: Type \cup {None},
            res: Revision \cup {None, Bad, Empty},
            base: Revision \cup {None, Empty},
            todo: SUBSET Type, done: SUBSET Type]

ReloadTypeOK ==
    /\ rev \in [Type -> Revision]
    /\ file \in [Type -> Revision \cup {Bad}] /\ context \in [Type -> Revision \cup {Bad}]
    /\ data \in [Type -> Revision \cup {None, Empty}] /\ loaders \subseteq Type
    /\ newLock \in Reader \cup {None} /\ reloadMu \in Reloader \cup {None}
    /\ current \in Watcher \cup {None}
    /\ watch \in [Watcher -> [run: {"new", "on", "stopping", "gone"}, event: BOOLEAN,
                              timer: BOOLEAN, trigger: BOOLEAN]]
    /\ work \in [Actor -> WorkSet]
    /\ \A a \in Actor : work[a].pc \in {"lock", "load"} => work[a].type \in Type
    /\ \A a \in Actor : work[a].pc = "load" => work[a].res # None
    /\ manual \in 0..MaxManual /\ unseen \in BOOLEAN /\ crossed \subseteq Type

\* A type once loaded never goes back to an older revision, nor to an empty
\* map, however saves, failed parses, preloads and reloads interleave - but
\* for a load that another one overtook between reading and storing.
GoodStays ==
    [][\A t \in Type :
          LET old == IF data[t] \in {None, Empty} THEN 0 ELSE data[t]
              new == IF data'[t] \in {None, Empty} THEN 0 ELSE data'[t]
          IN new >= old \/ t \in crossed']_reloadVars

\* The watcher loses no change: when the files are left alone, a type that
\* readers have registered comes to be served from its file, unless no watcher
\* was there to be told or an overtaken load stored last.
FreshInTheEnd ==
    \A t \in Type :
        <>[](\/ unseen \/ t \in crossed \/ t \notin loaders
             \/ data[t] \in {None, file[t]})
=============================================================================
