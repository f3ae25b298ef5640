---------------------------- MODULE WriteBehind ----------------------------
(***************************************************************************)
(* The write-behind cache of one table: autoCacheManager in db/manager.go  *)
(* with the local map, Redis and MySQL all enabled (mem, cache, longevity).*)
(*                                                                         *)
(* A business goroutine (Client) gets a pointer, mutates the value behind  *)
(* it and calls Push; or calls Set or Remove.  The flusher (the longevity  *)
(* timer, or FlushNow at shutdown) collects dirty entries, writes them to  *)
(* MySQL in batches and clears the dirty flag of an entry only if its      *)
(* version is still the one it collected.  The clearing timer evicts       *)
(* entries that timed out.                                                 *)
(*                                                                         *)
(* Contents are abstracted to a revision: every business write of a key    *)
(* creates the next revision of that key.  `alive' is Model.State = 1.     *)
(***************************************************************************)
EXTENDS Integers, FiniteSets, Sequences

CONSTANTS
    Key,        \* primary keys of the table
    Client,     \* business goroutines
    NoEntry,    \* "no cacheData": an absent map slot or an unset pointer
    NoVal,      \* "no value" in Redis
    UseCache,   \* builder.cache: Redis is configured
    AutoClear,  \* builder.autoClear: WithMemCache was given a timeout
    Shutdown,   \* FlushNow is called in this history (FlushAll, Destroy, Reset)
    GroupSize,  \* builder.longevityGroupSize
    MaxRev,     \* bound: business writes per key
    MaxGen,     \* bound: cacheData objects allocated per key
    MaxVer,     \* bound: a Push starts only on an entry below this version
    MaxFaults   \* bound: failed batches (MySQL is eventually reachable)

\* A cacheData object is named by its key and its place in the order in
\* which the objects of that key were allocated.
Entry == Key \X (1..MaxGen)

Value == [rev : Nat, alive : BOOLEAN]

ASSUME ConstantsAssumption ==
    /\ UseCache \in BOOLEAN
    /\ AutoClear \in BOOLEAN
    /\ Shutdown \in BOOLEAN
    /\ GroupSize \in Nat \ {0}
    /\ MaxRev \in Nat
    /\ MaxGen \in Nat
    /\ MaxVer \in Nat
    /\ MaxFaults \in Nat
    /\ NoEntry \notin Entry
    /\ NoVal \notin Value

VARIABLES
    cacheMap,   \* key -> entry or NoEntry (autoCacheManager.cacheMap)
    heap,       \* entry -> the fields of its cacheData
    gen,        \* key -> number of cacheData objects allocated
    rev,        \* key -> last revision a business write created
    redis,      \* key -> value or NoVal
    db,         \* key -> row; alive = FALSE is "no row with state = 1"
    op,         \* client -> the call it is in the middle of
    held,       \* client -> entry whose value it holds a pointer to
    fpc,        \* the flusher: "idle" is longevityLock free
    todo,       \* keys the flusher's Range has not visited
    cur,        \* entry whose version, but not value, has been read
    pend,       \* dirty entries collected, not yet in a batch
    batch,      \* entries of a committed batch, dirty flag not yet examined
    failed,     \* a batch of this round failed
    fnow,       \* the FlushNow call: "idle", "wait" (for the lock) or "run"
    doomed,     \* keys autoClear collected and has not deleted yet
    dropping,   \* autoClear is in its second loop
    queue,      \* the failure queue, a sequence of payloads
    faults,     \* failed batches so far
    promised,   \* history: key -> largest revision a call marked for saving
    goal,       \* history: promised when the running FlushNow was called
    gone        \* history: key -> how the last Remove found it

entryVars  == <<cacheMap, heap, gen, rev>>
storeVars  == <<redis, db, queue, faults>>
clientVars == <<op, held>>
flushVars  == <<fpc, todo, cur, pend, batch, failed, fnow>>
clearVars  == <<doomed, dropping>>
ghostVars  == <<promised, goal, gone>>
vars == <<entryVars, storeVars, clientVars, flushVars, clearVars, ghostVars>>

-----------------------------------------------------------------------------
(* States *)

\* cacheData: its value, the version and the two flags packed in `state',
\* and whether clearTime has passed.  acked is history: the revision the
\* value had when update() or del() was last called on the entry.
CacheData == [data : Value, ver : Nat, upd : BOOLEAN, del : BOOLEAN,
              expired : BOOLEAN, acked : Nat]

\* What a flush remembers of a dirty entry (dirtyRef and its SQL values).
Ref  == [key : Key, entry : Entry, ver : Nat]
Snap == [key : Key, entry : Entry, ver : Nat, val : Value]

OpPc == {"idle", "redis", "query", "fillR", "fillD", "back", "cache", "mark", "tomb"}
Op == [pc : OpPc, key : Key, ref : Entry \cup {NoEntry}, val : Value \cup {NoVal}]

Call(pc, k, e, v) == [pc |-> pc, key |-> k, ref |-> e, val |-> v]
NoOp(k) == Call("idle", k, NoEntry, NoVal)

NewCacheData(v) == [data |-> v, ver |-> 0, upd |-> FALSE, del |-> FALSE,
                    expired |-> FALSE, acked |-> 0]

\* A row, or no row, in MySQL; Redis empty or holding that row; nothing in
\* memory: a manager that InitStruct has just built.
Init ==
    /\ cacheMap = [k \in Key |-> NoEntry]
    /\ heap = [e \in Entry |-> NewCacheData([rev |-> 0, alive |-> FALSE])]
    /\ gen = [k \in Key |-> 0]
    /\ rev = [k \in Key |-> 0]
    /\ db \in [Key -> [rev : {0}, alive : BOOLEAN]]
    /\ redis \in [Key -> {NoVal} \cup {r \in [rev : {0}, alive : BOOLEAN] : UseCache}]
    /\ \A k \in Key : redis[k] = NoVal \/ (redis[k] = db[k] /\ db[k].alive)
    /\ \E k \in Key : op = [c \in Client |-> NoOp(k)]
    /\ held = [c \in Client |-> NoEntry]
    /\ fpc = "idle" /\ todo = {} /\ cur = NoEntry /\ pend = {} /\ batch = {}
    /\ failed = FALSE /\ fnow = "idle"
    /\ doomed = {} /\ dropping = FALSE
    /\ queue = <<>> /\ faults = 0
    /\ promised = [k \in Key |-> 0]
    /\ goal = [k \in Key |-> 0]
    /\ gone = [k \in Key |-> "no"]

-----------------------------------------------------------------------------
(* Steps on a cacheData *)

\* Mutant of Updated: data_update is set without a new version.
UpdatedSameVersion(e) == [heap[e] EXCEPT !.upd = TRUE, !.acked = heap[e].data.rev]

\* update(): version + 1 and data_update, in one CAS.
Updated(e) == [heap[e] EXCEPT !.ver = @ + 1, !.upd = TRUE,
                              !.acked = heap[e].data.rev]

\* del(): version + 1, data_del and data_update; the tombstone's own timeout.
Deleted(e) == [heap[e] EXCEPT !.ver = @ + 1, !.upd = TRUE, !.del = TRUE,
                              !.expired = FALSE, !.acked = heap[e].data.rev]

\* Mutant of ClearedIfVersion: the flag is cleared whatever the version.
ClearedAnyVersion(s) == [heap[s.entry] EXCEPT !.upd = FALSE]

\* clearUpdateIfVersion(): clears data_update only at the recorded version.
ClearedIfVersion(s) ==
    IF heap[s.entry].ver = s.ver
    THEN [heap[s.entry] EXCEPT !.upd = FALSE] ELSE heap[s.entry]

\* set(): a new, clean cacheData replaces whatever the map held.
PutNew(k, v) ==
    /\ gen[k] < MaxGen
    /\ gen' = [gen EXCEPT ![k] = @ + 1]
    /\ heap' = [heap EXCEPT ![<<k, gen[k] + 1>>] = NewCacheData(v)]
    /\ cacheMap' = [cacheMap EXCEPT ![k] = <<k, gen[k] + 1>>]

Idle(c) == op[c].pc = "idle"

Promise(k, r) == promised' = [promised EXCEPT ![k] = IF r > @ THEN r ELSE @]

-----------------------------------------------------------------------------
(* Get *)

\* Local hit: getData slides clearTime; a tombstone answers "not found".
GetHit(c, k) ==
    /\ Idle(c)
    /\ cacheMap[k] # NoEntry
    /\ heap' = [heap EXCEPT ![cacheMap[k]].expired = FALSE]
    /\ op' = [op EXCEPT ![c] = NoOp(k)]
    /\ held' = [held EXCEPT ![c] = IF heap[cacheMap[k]].del THEN NoEntry
                                   ELSE cacheMap[k]]
    /\ UNCHANGED <<cacheMap, gen, rev, storeVars, flushVars, clearVars, ghostVars>>

Loading(c, k) == op[c].key = k /\ op[c].pc \in {"redis", "query", "fillR", "fillD", "back"}

\* Miss: singleflight admits one loader per key; the others share its answer.
LoadStart(c, k) ==
    /\ Idle(c)
    /\ cacheMap[k] = NoEntry
    /\ \A d \in Client : ~Loading(d, k)
    /\ op' = [op EXCEPT ![c] = Call(IF UseCache THEN "redis" ELSE "query",
                                    k, NoEntry, NoVal)]
    /\ held' = [held EXCEPT ![c] = NoEntry]
    /\ UNCHANGED <<entryVars, storeVars, flushVars, clearVars, ghostVars>>

LoadRedis(c) ==
    /\ op[c].pc = "redis"
    /\ LET k == op[c].key IN
       op' = [op EXCEPT ![c] = Call(IF redis[k] = NoVal THEN "query" ELSE "fillR",
                                    k, NoEntry, redis[k])]
    /\ UNCHANGED <<entryVars, storeVars, held, flushVars, clearVars, ghostVars>>

\* queryOne filters state = 1.  No row (ErrDBEmpty) and a fault of the
\* database (ErrDBFault) both end the call without touching the cache.
LoadQuery(c) ==
    LET k == op[c].key IN
    /\ op[c].pc = "query"
    /\ \/ /\ db[k].alive
          /\ op' = [op EXCEPT ![c] = Call("fillD", k, NoEntry, db[k])]
       \/ op' = [op EXCEPT ![c] = NoOp(k)]
    /\ UNCHANGED <<entryVars, storeVars, held, flushVars, clearVars, ghostVars>>

\* The loaded value becomes a new cacheData, whatever the map holds by now.
LoadFill(c) ==
    LET k == op[c].key IN
    /\ op[c].pc \in {"fillR", "fillD"}
    /\ PutNew(k, op[c].val)
    /\ held' = [held EXCEPT ![c] = <<k, gen[k] + 1>>]
    /\ op' = [op EXCEPT ![c] = IF op[c].pc = "fillR" THEN NoOp(k)
                               ELSE Call("back", k, <<k, gen[k] + 1>>, NoVal)]
    /\ UNCHANGED <<rev, storeVars, flushVars, clearVars, ghostVars>>

\* After a database load the value is written to Redis (even without
\* builder.cache, where nothing of this manager reads it again).
LoadBack(c) ==
    /\ op[c].pc = "back"
    /\ redis' = [redis EXCEPT ![op[c].key] = IF UseCache THEN heap[op[c].ref].data ELSE @]
    /\ op' = [op EXCEPT ![c] = NoOp(op[c].key)]
    /\ UNCHANGED <<entryVars, db, queue, faults, held, flushVars, clearVars, ghostVars>>

-----------------------------------------------------------------------------
(* Set, Push, Remove, and the mutation of the value in place *)

\* The next revision of k, as the content a business write produces.
NextValue(k, alive) == [rev |-> rev[k] + 1, alive |-> alive]

\* Set(): the new value enters the map clean, then Redis, then update().
Set(c, k) ==
    /\ Idle(c)
    /\ rev[k] < MaxRev
    /\ rev' = [rev EXCEPT ![k] = @ + 1]
    /\ PutNew(k, NextValue(k, TRUE))
    /\ held' = [held EXCEPT ![c] = <<k, gen[k] + 1>>]
    /\ op' = [op EXCEPT ![c] = Call(IF UseCache THEN "cache" ELSE "mark",
                                    k, <<k, gen[k] + 1>>, NoVal)]
    /\ gone' = [gone EXCEPT ![k] = "no"]
    /\ UNCHANGED <<storeVars, flushVars, clearVars, promised, goal>>

\* The business changes the object it holds; no lock, no flag.
Mutate(c) ==
    LET k == op[c].key  e == held[c] IN
    /\ Idle(c)
    /\ e # NoEntry
    /\ rev[k] < MaxRev
    /\ rev' = [rev EXCEPT ![k] = @ + 1]
    /\ heap' = [heap EXCEPT ![e].data = NextValue(k, @.alive)]
    /\ UNCHANGED <<cacheMap, gen, storeVars, clientVars, flushVars, clearVars, ghostVars>>

\* Push(): the entry in the map, not the one the caller holds, loses
\* data_del and goes to Redis, then update().
Push(c) ==
    LET k == op[c].key  e == cacheMap[k] IN
    /\ Idle(c)
    /\ held[c] # NoEntry
    /\ e # NoEntry
    /\ heap[e].ver < MaxVer
    /\ heap' = [heap EXCEPT ![e].del = FALSE]
    /\ op' = [op EXCEPT ![c] = Call(IF UseCache THEN "cache" ELSE "mark", k, e, NoVal)]
    /\ gone' = [gone EXCEPT ![k] = "no"]
    /\ UNCHANGED <<cacheMap, gen, rev, storeVars, held, flushVars, clearVars, promised, goal>>

\* Set and Push: the value is marshalled into Redis as it is now.
WriteCache(c) ==
    /\ op[c].pc = "cache"
    /\ redis' = [redis EXCEPT ![op[c].key] = heap[op[c].ref].data]
    /\ op' = [op EXCEPT ![c] = Call("mark", op[c].key, op[c].ref, NoVal)]
    /\ UNCHANGED <<entryVars, db, queue, faults, held, flushVars, clearVars, ghostVars>>

\* Set and Push: update() on the entry found or made before, then return.
MarkUpdate(c) ==
    LET k == op[c].key  e == op[c].ref IN
    /\ op[c].pc = "mark"
    /\ heap' = [heap EXCEPT ![e] = Updated(e)]
    /\ Promise(k, heap[e].data.rev)
    /\ op' = [op EXCEPT ![c] = NoOp(k)]
    /\ UNCHANGED <<cacheMap, gen, rev, storeVars, held, flushVars, clearVars, goal, gone>>

\* Mutant of Remove: the model's State stays as it is.
RemoveUnmarked(c, k) ==
    LET e == cacheMap[k] IN
    /\ Idle(c)
    /\ e # NoEntry
    /\ rev[k] < MaxRev
    /\ rev' = [rev EXCEPT ![k] = @ + 1]
    /\ heap' = [heap EXCEPT ![e].data = NextValue(k, @.alive)]
    /\ op' = [op EXCEPT ![c] = Call("tomb", k, NoEntry, NoVal)]
    /\ held' = [held EXCEPT ![c] = NoEntry]
    /\ UNCHANGED <<cacheMap, gen, storeVars, flushVars, clearVars, ghostVars>>

\* Remove() of a key the map holds: the model's State becomes 0 first.
Remove(c, k) ==
    LET e == cacheMap[k] IN
    /\ Idle(c)
    /\ e # NoEntry
    /\ rev[k] < MaxRev
    /\ rev' = [rev EXCEPT ![k] = @ + 1]
    /\ heap' = [heap EXCEPT ![e].data = NextValue(k, FALSE)]
    /\ op' = [op EXCEPT ![c] = Call("tomb", k, NoEntry, NoVal)]
    /\ held' = [held EXCEPT ![c] = NoEntry]
    /\ UNCHANGED <<cacheMap, gen, storeVars, flushVars, clearVars, ghostVars>>

\* Remove(), second half: del() on the entry the map holds now.  Redis Del
\* only shortens the lifetime of the Redis key (RedisExpire is always possible).
Tomb(c) ==
    LET k == op[c].key  e == cacheMap[k] IN
    /\ op[c].pc = "tomb"
    /\ IF e = NoEntry THEN UNCHANGED <<heap, promised>>
       ELSE /\ heap' = [heap EXCEPT ![e] = Deleted(e)]
            /\ Promise(k, heap[e].data.rev)
    /\ gone' = [gone EXCEPT ![k] = "hit"]
    /\ op' = [op EXCEPT ![c] = NoOp(k)]
    /\ UNCHANGED <<cacheMap, gen, rev, storeVars, held, flushVars, clearVars, goal>>

\* Remove() of a key the map does not hold: only Redis Del, and success.
RemoveMiss(c, k) ==
    /\ Idle(c)
    /\ cacheMap[k] = NoEntry
    /\ gone' = [gone EXCEPT ![k] = "miss"]
    /\ op' = [op EXCEPT ![c] = NoOp(k)]
    /\ held' = [held EXCEPT ![c] = NoEntry]
    /\ UNCHANGED <<entryVars, storeVars, flushVars, clearVars, promised, goal>>

\* The Redis key's TTL runs out.
RedisExpire(k) ==
    /\ redis[k] # NoVal
    /\ redis' = [redis EXCEPT ![k] = NoVal]
    /\ UNCHANGED <<entryVars, db, queue, faults, clientVars, flushVars, clearVars, ghostVars>>

-----------------------------------------------------------------------------
(* Flushing: toLongevity and FlushNow around flushDirtyLocked *)

BeginRound ==
    /\ fpc = "idle"
    /\ fpc' = "scan"
    /\ todo' = Key
    /\ failed' = FALSE

\* Mutant of TimerFlush: the timer is not armed again after a failed round.
TimerFlushGivesUp ==
    /\ ~failed
    /\ BeginRound
    /\ UNCHANGED <<entryVars, storeVars, clientVars, cur, pend, batch, fnow,
                   clearVars, ghostVars>>

\* toLongevity: the timer fires and TryLock succeeds (when it fails the
\* round is skipped and nothing changes).
TimerFlush ==
    /\ BeginRound
    /\ UNCHANGED <<entryVars, storeVars, clientVars, cur, pend, batch, fnow,
                   clearVars, ghostVars>>

\* FlushNow is called (FlushAll at shutdown, Destroy, Reset) ...
FlushNowCall ==
    /\ Shutdown
    /\ fnow = "idle"
    /\ fnow' = "wait"
    /\ goal' = promised
    /\ UNCHANGED <<entryVars, storeVars, clientVars, fpc, todo, cur, pend, batch,
                   failed, clearVars, promised, gone>>

\* Mutant of FlushNowLock: FlushNow is content with the round in progress.
FlushNowJoins ==
    /\ fnow = "wait"
    /\ IF fpc = "idle" THEN BeginRound ELSE UNCHANGED <<fpc, todo, failed>>
    /\ fnow' = "run"
    /\ UNCHANGED <<entryVars, storeVars, clientVars, cur, pend, batch,
                   clearVars, ghostVars>>

\* ... and gets the lock once no round is running.
FlushNowLock ==
    /\ fnow = "wait"
    /\ BeginRound
    /\ fnow' = "run"
    /\ UNCHANGED <<entryVars, storeVars, clientVars, cur, pend, batch,
                   clearVars, ghostVars>>

\* Phase 1, dirtySnapshot: flag and version of one entry, in one Load.
\* Range visits the keys in any order and reads each slot when it gets there.
ScanState(k) ==
    LET e == cacheMap[k] IN
    /\ fpc = "scan"
    /\ k \in todo
    /\ todo' = todo \ {k}
    /\ IF e # NoEntry /\ heap[e].upd
       THEN /\ cur' = [key |-> k, entry |-> e, ver |-> heap[e].ver]
            /\ fpc' = "value"
       ELSE UNCHANGED <<cur, fpc>>
    /\ UNCHANGED <<entryVars, storeVars, clientVars, pend, batch, failed, fnow,
                   clearVars, ghostVars>>

\* Phase 1, toValueSql: the value of that entry, after the version.
ScanValue ==
    /\ fpc = "value"
    /\ pend' = pend \cup {[key |-> cur.key, entry |-> cur.entry, ver |-> cur.ver,
                           val |-> heap[cur.entry].data]}
    /\ cur' = NoEntry
    /\ fpc' = "scan"
    /\ UNCHANGED <<entryVars, storeVars, clientVars, todo, batch, failed, fnow,
                   clearVars, ghostVars>>

\* The batches of phase 2: GroupSize entries each, the last one the rest.
NextBatch(b) ==
    /\ fpc = "scan" /\ todo = {}
    /\ b # {} /\ b \subseteq pend
    /\ \/ Cardinality(b) = GroupSize
       \/ b = pend /\ Cardinality(b) <= GroupSize

\* The rows after the upsert of batch b.
Upserted(b) == [k \in Key |-> IF \E s \in b : s.key = k
                              THEN (CHOOSE s \in b : s.key = k).val ELSE db[k]]

\* flushBatch succeeded, at the first attempt or at a retry.
FlushCommit ==
    \E b \in SUBSET pend :
        /\ NextBatch(b)
        /\ db' = Upserted(b)
        /\ pend' = pend \ b
        /\ batch' = b
        /\ fpc' = "clear"
        /\ UNCHANGED <<entryVars, redis, queue, faults, clientVars, todo, cur, failed,
                       fnow, clearVars, ghostVars>>

Payload(b) == {[key |-> s.key, val |-> s.val] : s \in b}

\* Mutant of FlushFault: the flags of a failed batch are cleared too.
FlushFaultClears ==
    \E b \in SUBSET pend :
        /\ NextBatch(b)
        /\ faults < MaxFaults
        /\ faults' = faults + 1
        /\ queue' \in {queue, Append(queue, Payload(b))}
        /\ pend' = pend \ b
        /\ batch' = b
        /\ fpc' = "clear"
        /\ failed' = TRUE
        /\ UNCHANGED <<entryVars, redis, db, clientVars, todo, cur, fnow,
                       clearVars, ghostVars>>

\* flushBatch exhausted its retries.  A Commit that reports an error may
\* still have taken effect.  The batch goes to the failure queue, whose own
\* error is only logged; the dirty flags stay.
FlushFault ==
    \E b \in SUBSET pend :
        /\ NextBatch(b)
        /\ faults < MaxFaults
        /\ faults' = faults + 1
        /\ db' \in {db, Upserted(b)}
        /\ queue' \in {queue, Append(queue, Payload(b))}
        /\ pend' = pend \ b
        /\ failed' = TRUE
        /\ UNCHANGED <<entryVars, redis, clientVars, fpc, todo, cur, batch, fnow,
                       clearVars, ghostVars>>

\* After a commit, clearUpdateIfVersion entry by entry.
FlushClear(s) ==
    /\ fpc = "clear"
    /\ s \in batch
    /\ heap' = [heap EXCEPT ![s.entry] = ClearedIfVersion(s)]
    /\ batch' = batch \ {s}
    /\ fpc' = IF batch = {s} THEN "scan" ELSE "clear"
    /\ UNCHANGED <<cacheMap, gen, rev, storeVars, clientVars, todo, cur, pend, failed,
                   fnow, clearVars, ghostVars>>

\* No batch left: the lock is released, and FlushNow returns if it held it.
FlushDone ==
    /\ fpc = "scan" /\ todo = {} /\ pend = {}
    /\ fpc' = "idle"
    /\ fnow' = IF fnow = "run" THEN "idle" ELSE fnow
    /\ UNCHANGED <<entryVars, storeVars, clientVars, todo, cur, pend, batch, failed,
                   clearVars, ghostVars>>

-----------------------------------------------------------------------------
(* autoClear *)

\* now > clearTime for the entry of k.
Expire(k) ==
    /\ AutoClear
    /\ cacheMap[k] # NoEntry
    /\ heap' = [heap EXCEPT ![cacheMap[k]].expired = TRUE]
    /\ UNCHANGED <<cacheMap, gen, rev, storeVars, clientVars, flushVars, clearVars, ghostVars>>

\* First loop: a timed-out entry that is not dirty has its key collected.
ClearCollect(k) ==
    LET e == cacheMap[k] IN
    /\ AutoClear /\ ~dropping
    /\ e # NoEntry
    /\ heap[e].expired /\ ~heap[e].upd
    /\ doomed' = doomed \cup {k}
    /\ UNCHANGED <<entryVars, storeVars, clientVars, flushVars, dropping, ghostVars>>

\* Second loop: the collected keys are deleted, whatever they map to by now.
ClearDrop(k) ==
    /\ k \in doomed
    /\ cacheMap' = [cacheMap EXCEPT ![k] = NoEntry]
    /\ doomed' = doomed \ {k}
    /\ dropping' = (doomed # {k})
    /\ UNCHANGED <<heap, gen, rev, storeVars, clientVars, flushVars, ghostVars>>

-----------------------------------------------------------------------------
ClientCall(c) == \/ \E k \in Key : GetHit(c, k) \/ LoadStart(c, k) \/ Set(c, k)
                                   \/ Remove(c, k) \/ RemoveMiss(c, k)
                 \/ Mutate(c) \/ Push(c)

\* The rest of a call that has begun.
ClientStep(c) == \/ LoadRedis(c) \/ LoadQuery(c) \/ LoadFill(c) \/ LoadBack(c)
                 \/ WriteCache(c) \/ MarkUpdate(c) \/ Tomb(c)

\* The rest of a flush round that has begun.
FlushStep == \/ \E k \in Key : ScanState(k)
             \/ ScanValue
             \/ FlushCommit \/ FlushFault
             \/ \E s \in batch : FlushClear(s)
             \/ FlushDone

Clearing == \E k \in Key : Expire(k) \/ ClearCollect(k) \/ ClearDrop(k)

Next == \/ \E c \in Client : ClientCall(c) \/ ClientStep(c)
        \/ TimerFlush \/ FlushNowCall \/ FlushNowLock \/ FlushStep
        \/ \E k \in Key : RedisExpire(k)
        \/ Clearing

Spec == Init /\ [][Next]_vars

\* The goroutine of the longevity timer loops for ever, and a call or a round
\* that has begun runs to its end.  Nothing obliges the business to call.
FairSpec == /\ Spec
            /\ WF_vars(TimerFlush)
            /\ WF_vars(FlushStep)
            /\ WF_vars(FlushNowLock)
            /\ \A c \in Client : WF_vars(ClientStep(c))

-----------------------------------------------------------------------------
(* Properties *)

\* Every variable has its type: the map and the clients point at allocated
\* cacheData objects, rows and Redis hold values, a round collects snapshots.
TypeOK ==
    /\ cacheMap \in [Key -> Entry \cup {NoEntry}]
    /\ heap \in [Entry -> CacheData]
    /\ gen \in [Key -> 0..MaxGen]
    /\ rev \in [Key -> Nat]
    /\ redis \in [Key -> Value \cup {NoVal}]
    /\ db \in [Key -> Value]
    /\ op \in [Client -> Op]
    /\ held \in [Client -> Entry \cup {NoEntry}]
    /\ fpc \in {"idle", "scan", "value", "clear"}
    /\ todo \subseteq Key
    /\ cur \in Ref \cup {NoEntry}
    /\ pend \subseteq Snap
    /\ batch \subseteq Snap
    /\ failed \in BOOLEAN
    /\ fnow \in {"idle", "wait", "run"}
    /\ doomed \subseteq Key
    /\ dropping \in BOOLEAN
    /\ queue \in Seq(SUBSET [key : Key, val : Value])
    /\ faults \in Nat
    /\ promised \in [Key -> Nat]
    /\ goal \in [Key -> Nat]
    /\ gone \in [Key -> {"no", "hit", "miss"}]

\* An entry in the map that is not dirty is durable: MySQL has a revision at
\* least as new as the one its last Push, Set or Remove marked.  So a flush
\* never clears the flag of a change it did not write (manager.go:471-482,
\* the E4 lost-update fix), whatever runs beside it.
CleanIsDurable ==
    \A k \in Key : LET e == cacheMap[k] IN
        e # NoEntry /\ ~heap[e].upd => heap[e].acked <= db[k].rev

\* k is between a.set and update() in a Set: the new entry is still clean.
InWindow(k) == \E c \in Client : /\ op[c].pc \in {"cache", "mark"}
                                 /\ op[c].ref = cacheMap[k]
                                 /\ cacheMap[k] # NoEntry

\* Every revision a returned Push, Set or Remove marked is in MySQL, or is
\* carried by a dirty entry of the map, or was replaced by a Set in progress.
NoLostUpdate ==
    \A k \in Key :
        \/ promised[k] <= db[k].rev
        \/ /\ cacheMap[k] # NoEntry
           /\ heap[cacheMap[k]].upd \/ InWindow(k)
           /\ heap[cacheMap[k]].data.rev >= promised[k]

\* A FlushNow that returns without a failed batch leaves nothing behind that
\* was marked before it was called, except what a later write of the same
\* key has already overtaken (manager.go:858-864: it waits for the round in
\* progress and then flushes once more).
FinalFlushCovers ==
    [][fnow = "run" /\ fnow' = "idle" /\ ~failed =>
        \A k \in Key :
            \/ goal[k] <= db[k].rev
            \/ /\ cacheMap[k] # NoEntry
               /\ heap[cacheMap[k]].upd \/ InWindow(k)
               /\ heap[cacheMap[k]].data.rev > goal[k]]_vars

\* The deletion of k is in MySQL, or a dirty tombstone carries it there.
Deleting(k) == \/ ~db[k].alive
               \/ /\ cacheMap[k] # NoEntry
                  /\ heap[cacheMap[k]].upd
                  /\ ~heap[cacheMap[k]].data.alive

\* After a Remove that found the key in the map, and until it is written
\* again, the deletion reaches MySQL (manager.go:600-602).
RemoveSticks == \A k \in Key : gone[k] = "hit" => Deleting(k)

\* The same for every Remove, also of a key that is not in memory.
RemoveAlwaysSticks == \A k \in Key : gone[k] # "no" => Deleting(k)

\* autoClear never drops an entry that still carries unsaved changes
\* (manager.go:696-697).
DirtyNeverEvicted ==
    [][\A k \in Key : cacheMap[k] # NoEntry /\ cacheMap'[k] = NoEntry
                        => ~heap[cacheMap[k]].upd]_vars

-----------------------------------------------------------------------------
(* What the cache promises: WriteBackStore *)

Owed == {k \in Key : \/ cacheMap[k] # NoEntry /\ heap[cacheMap[k]].upd
                     \/ InWindow(k)}

Durable == [k \in Key |-> db[k].rev]

Store == INSTANCE WriteBackStore
            WITH Revision <- 0..MaxRev, latest <- promised, durable <- Durable, owed <- Owed

\* The write-behind cache implements the abstract store.
ImplementsStore == Store!Spec

\* A marked revision is eventually in MySQL, the database being reachable.
EventuallyDurable == Store!EventuallyDurable
=============================================================================
