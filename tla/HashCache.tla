----------------------------- MODULE HashCache -----------------------------
(***************************************************************************)
(* hashAutoCacheManager (db/manager.go): the rows of one primary key kept  *)
(* as the fields of a hash.  The manager itself holds one cacheData per    *)
(* field; a second manager, groupAutoCacheManager, holds the list of the   *)
(* fields that are loaded, and only that list times out: when it does, its *)
(* clear plugin drops the listed fields from the first manager.  A call    *)
(* that finds no list loads the whole hash (loadCache, one load at a time  *)
(* through singleflight) from Redis, or else from MySQL.                   *)
(*                                                                         *)
(* A flush is one step here; WriteBehind has its interleavings.  A value   *)
(* is a revision, Absent is "no row with state = 1".  Each field has one   *)
(* writer (Owner); any client reads, loads and writes the list.            *)
(*                                                                         *)
(* The specification is HashSpec, of HashInit and HashNext: the proofs     *)
(* about this module and about FailureReplay stand in one module.          *)
(***************************************************************************)
EXTENDS Naturals, FiniteSets

CONSTANTS
    Field,      \* the fields of the hash
    Client,     \* business goroutines
    Owner,      \* field -> the client that writes it
    Uses,       \* client -> the calls it makes
    Modes,      \* stores configured: {"redis"}, {"mysql"} or both
    NoList,     \* the group manager holds no list
    NoEntry,    \* the map holds no cacheData for the field
    Saved,      \* the fields that have a row when the manager is built
    MaxWrites,  \* bound: business writes per field
    MaxCalls,   \* bound: client -> calls it makes
    MaxFailures \* bound: failed queries

\* cacheData: the value, whether it is dirty, whether its row is deleted.
EntrySet == [val : Nat, upd : BOOLEAN, del : BOOLEAN]

ASSUME HashAssumption ==
    /\ Owner \in [Field -> Client]
    /\ Saved \subseteq Field
    /\ Field # {}
    /\ Modes \subseteq (SUBSET {"redis", "mysql"}) \ {{}}
    /\ \A ks \in SUBSET Field : ks # NoList
    /\ NoEntry \notin EntrySet
    /\ MaxWrites \in Nat /\ MaxFailures \in Nat /\ MaxCalls \in [Client -> Nat]
    /\ \A c \in Client : Uses[c] \subseteq {"Get", "GetAll", "Set", "Push", "Remove"}

Absent == 0

VARIABLES
    mode,       \* which stores this manager uses
    members,    \* the list of the group manager, or NoList
    clearing,   \* autoClear of the list: "no", "doomed" or "cleared"
    cacheMap,   \* field -> cacheData or NoEntry
    redis,      \* field -> revision; all Absent is "no such key"
    db,         \* field -> revision
    flight,     \* the load in flight (singleflight)
    op,         \* client -> the call it is in
    rev,        \* field -> last revision written
    calls,      \* client -> calls begun
    failures,   \* failed queries
    truth,      \* history: field -> what the last finished call left
    astray,     \* history: the list was written from an old or failed read
    lost,       \* history: fields with a change no store will be told of
    partial     \* history: Redis holds some of the fields only

stores == <<cacheMap, redis, db>>
ghosts == <<truth, astray, lost, partial>>
hashVars == <<mode, members, clearing, stores, flight, op, rev, calls, failures, ghosts>>

UseCache == "redis" \in mode        \* builder.cache
Longevity == "mysql" \in mode       \* builder.longevity

Entry(v, dirty, del) == [val |-> v, upd |-> dirty, del |-> del]
NoFlight == [pc |-> "none", rows |-> [f \in Field |-> Absent], bad |-> {}]
NoCall == [call |-> "none", pc |-> "idle", field |-> CHOOSE f \in Field : TRUE,
           keys |-> {}, loaded |-> FALSE, own |-> FALSE, old |-> FALSE]

Live(m) == {f \in Field : m[f] # Absent}
Dirty == {f \in Field : cacheMap[f] # NoEntry /\ cacheMap[f].upd}

\* The fields whose owner is between its first and its last effect.
MidWrite == {f \in Field : op[Owner[f]].field = f
                /\ op[Owner[f]].pc \in {"append", "put", "mark", "tomb", "relist"}}

\* A list read now may be wrong, or about to be.
Unsettled == astray \/ MidWrite # {} \/ clearing = "cleared"

HashInit ==
    /\ mode \in Modes
    /\ members = NoList /\ clearing = "no"
    /\ cacheMap = [f \in Field |-> NoEntry]
    /\ truth = [f \in Field |-> IF f \in Saved THEN 1 ELSE Absent]
    /\ db = [f \in Field |-> IF Longevity THEN truth[f] ELSE Absent]
    /\ \/ redis = [f \in Field |-> Absent] /\ (UseCache => Longevity)
       \/ redis = truth /\ UseCache
    /\ flight = NoFlight /\ op = [c \in Client |-> NoCall]
    /\ rev = [f \in Field |-> 1] /\ calls = [c \in Client |-> 0] /\ failures = 0
    /\ astray = FALSE /\ lost = {} /\ partial = FALSE

-----------------------------------------------------------------------------
(* History: what each step may spoil *)

\* Client c changes something: what the others in a call have read is old.
Aged(c, call) ==
    [d \in Client |-> IF d = c THEN call
                      ELSE IF op[d].pc \in {"idle", "miss"} THEN op[d]
                      ELSE [op[d] EXCEPT !.old = TRUE]]

\* Client c changed field f.  The load in flight may have read it before.
Changed(c, f, call) ==
    /\ op' = Aged(c, call)
    /\ flight' = IF flight.pc = "none" THEN flight ELSE [flight EXCEPT !.bad = @ \cup {f}]

\* PutMap of one field creates the Redis hash anew when it had timed out.
Put(f, v) ==
    /\ redis' = IF UseCache THEN [redis EXCEPT ![f] = v] ELSE redis
    /\ partial' = (partial \/ (UseCache /\ Longevity /\ Live(redis) = {}
                                /\ (Live(truth) \cup MidWrite) \ {f} # {}))

\* groupAutoCacheManager.Set: a new list, whatever list is there.  A call that
\* has another list in hand has an old one.
SetList(c, ks, call) ==
    /\ members' = ks
    /\ astray' = op[c].old
    /\ op' = [d \in Client |->
                 IF d = c THEN call
                 ELSE IF op[d].pc \in {"have", "append"} /\ op[d].keys # ks
                      THEN [op[d] EXCEPT !.old = TRUE] ELSE op[d]]

-----------------------------------------------------------------------------
(* Finding the list, or loading the hash *)

\* A new call, within the bound.
Starts(c) ==
    /\ op[c].pc = "idle" /\ calls[c] < MaxCalls[c]
    /\ calls' = [calls EXCEPT ![c] = @ + 1]

\* Get, GetAll, Set and Remove begin with groupAutoCacheManager.Get(mKey).
\* A read is for the whole hash here: only Set and Remove name a field.
Begin(c, what, f) ==
    /\ Starts(c) /\ what \in Uses[c] \ {"Push"}
    /\ what \in {"Set", "Remove"} => Owner[f] = c
    /\ what \in {"Get", "GetAll"} => f = NoCall.field
    /\ what = "Set" => rev[f] < MaxWrites
    /\ rev' = IF what = "Set" THEN [rev EXCEPT ![f] = @ + 1] ELSE rev
    /\ LET call == [NoCall EXCEPT !.call = what, !.field = f]
       IN op' = [op EXCEPT ![c] = IF members = NoList THEN [call EXCEPT !.pc = "miss"]
                                  ELSE [call EXCEPT !.pc = "have", !.keys = members,
                                                    !.old = Unsettled]]
    /\ UNCHANGED <<mode, members, clearing, stores, flight, failures, ghosts>>

\* sf.Do("loadCache:"+localKey): lead a load or join the one in flight.
Load(c) ==
    /\ op[c].pc = "miss"
    /\ op' = [op EXCEPT ![c].pc = "load"]
    /\ flight' = IF flight.pc = "none"
                 THEN [NoFlight EXCEPT !.pc = IF UseCache THEN "redis" ELSE "mysql"]
                 ELSE flight
    /\ UNCHANGED <<mode, members, clearing, stores, rev, calls, failures, ghosts>>

\* GetMap: a hash with at least one field is taken as the whole hash.
LoadRedis ==
    /\ flight.pc = "redis"
    /\ flight' = IF Live(redis) # {}
                 THEN [pc |-> "fill", rows |-> redis,
                       bad |-> flight.bad \cup MidWrite \cup (IF partial THEN Field ELSE {})]
                 ELSE [flight EXCEPT !.pc = IF Longevity THEN "mysql" ELSE "fill",
                                     !.bad = @ \cup MidWrite]
    /\ UNCHANGED <<mode, members, clearing, stores, op, rev, calls, failures, ghosts>>

\* queryList: the rows with state = 1.
LoadRows ==
    /\ flight.pc = "mysql"
    /\ flight' = [pc |-> "fillR", rows |-> db, bad |-> flight.bad \cup MidWrite \cup Dirty]
    /\ UNCHANGED <<mode, members, clearing, stores, op, rev, calls, failures, ghosts>>

\* The leader and everyone who joined get the keys.
Loaded(ops) ==
    [c \in Client |->
        IF op[c].pc # "load" THEN ops[c]
        ELSE [ops[c] EXCEPT !.pc = "list", !.keys = Live(flight.rows),
                              !.loaded = TRUE, !.old = @ \/ flight.bad # {}]]

\* The query fails: nil keys, nothing is cached as loaded.  Get and GetAll
\* return the fault; Set and Remove ignore it and go on with no keys.
LoadFault ==
    /\ flight.pc = "mysql" /\ failures < MaxFailures
    /\ failures' = failures + 1
    /\ op' = [c \in Client |->
                IF op[c].pc # "load" THEN op[c]
                ELSE IF op[c].call \in {"Get", "GetAll"} THEN NoCall
                ELSE [op[c] EXCEPT !.pc = "have", !.loaded = TRUE, !.old = TRUE]]
    /\ flight' = NoFlight
    /\ UNCHANGED <<mode, members, clearing, stores, rev, calls, ghosts>>

\* h.set of every row: a clean cacheData replaces what the map held.
Fill ==
    /\ flight.pc \in {"fill", "fillR"}
    /\ LET fs == Live(flight.rows)
           disowned == [c \in Client |-> IF op[c].field \in fs
                                         THEN [op[c] EXCEPT !.own = FALSE] ELSE op[c]]
           more == flight.pc = "fillR" /\ UseCache
       IN /\ cacheMap' = [f \in Field |-> IF f \in fs THEN Entry(flight.rows[f], FALSE, FALSE)
                                                      ELSE cacheMap[f]]
          /\ lost' = lost \cup (fs \cap (Dirty \cup flight.bad))
          /\ op' = IF more THEN disowned ELSE Loaded(disowned)
          /\ flight' = IF more THEN [flight EXCEPT !.pc = "put"] ELSE NoFlight
    /\ UNCHANGED <<mode, members, clearing, redis, db, rev, calls, failures, truth, astray, partial>>

\* PutMap of every row read from MySQL.
Refill ==
    /\ flight.pc = "put"
    /\ redis' = [f \in Field |-> IF f \in Live(flight.rows) THEN flight.rows[f] ELSE redis[f]]
    /\ lost' = lost \cup (Live(flight.rows) \cap flight.bad)
    /\ partial' = (partial \/ (Live(flight.rows) # {} /\ flight.bad # {}))
    /\ op' = Loaded(op)
    /\ flight' = NoFlight
    /\ UNCHANGED <<mode, members, clearing, cacheMap, db, rev, calls, failures, truth, astray>>

\* The deferred groupAutoCacheManager.Set of loadCache.
SetLoaded(c) ==
    /\ op[c].pc = "list"
    /\ SetList(c, op[c].keys, [op[c] EXCEPT !.pc = "have"])
    /\ UNCHANGED <<mode, clearing, stores, flight, rev, calls, failures, truth, lost, partial>>

-----------------------------------------------------------------------------
(* The calls, once they have the list *)

\* Get and GetAll read the map; GetAll stores the empty list it just loaded.
Read(c) ==
    /\ op[c].pc = "have" /\ op[c].call \in {"Get", "GetAll"}
    /\ IF op[c].call = "GetAll" /\ op[c].loaded /\ op[c].keys = {}
       THEN SetList(c, {}, NoCall)
       ELSE op' = [op EXCEPT ![c] = NoCall] /\ UNCHANGED <<members, astray>>
    /\ UNCHANGED <<mode, clearing, stores, flight, rev, calls, failures, truth, lost, partial>>

\* Set: h.set, a new clean cacheData.
Set(c) ==
    LET f == op[c].field IN
    /\ op[c].pc = "have" /\ op[c].call = "Set"
    /\ cacheMap' = [cacheMap EXCEPT ![f] = Entry(rev[f], FALSE, FALSE)]
    /\ Changed(c, f, [op[c] EXCEPT !.pc = "append", !.own = TRUE])
    /\ lost' = lost \ {f}
    /\ UNCHANGED <<mode, members, clearing, redis, db, rev, calls, failures, truth, astray, partial>>

\* The list is written back only when the field was not in it.
Enlist(c) ==
    LET f == op[c].field IN
    /\ op[c].pc = "append"
    /\ LET call == [NoCall EXCEPT !.call = "Set", !.pc = "put", !.field = f, !.own = op[c].own]
       IN IF f \notin op[c].keys THEN SetList(c, op[c].keys \cup {f}, call)
          ELSE /\ op' = [op EXCEPT ![c] = call]
               /\ astray' = (astray \/ op[c].old)
               /\ UNCHANGED members
    /\ UNCHANGED <<mode, clearing, stores, flight, rev, calls, failures, truth, lost, partial>>

\* Mutate the value behind the pointer and Push it; nothing happens when the
\* map has no entry for the field any more.
Push(c, f) ==
    /\ Starts(c) /\ "Push" \in Uses[c] /\ Owner[f] = c /\ rev[f] < MaxWrites
    /\ cacheMap[f] # NoEntry /\ ~cacheMap[f].del
    /\ rev' = [rev EXCEPT ![f] = @ + 1]
    /\ cacheMap' = [cacheMap EXCEPT ![f].val = rev'[f]]
    /\ Changed(c, f, [NoCall EXCEPT !.call = "Push", !.field = f,
                                    !.pc = "put", !.own = TRUE])
    /\ UNCHANGED <<mode, members, clearing, redis, db, failures, ghosts>>

WriteCache(c) ==
    /\ op[c].pc = "put"
    /\ Put(op[c].field, rev[op[c].field])
    /\ op' = [op EXCEPT ![c].pc = "mark"]
    /\ UNCHANGED <<mode, members, clearing, cacheMap, db, flight, rev, calls, failures, truth, astray, lost>>

\* cd.update(): of the cacheData this call put, which may be off the map.
MarkUpdate(c) ==
    LET f == op[c].field IN
    /\ op[c].pc = "mark"
    /\ cacheMap' = IF Longevity /\ op[c].own THEN [cacheMap EXCEPT ![f].upd = TRUE] ELSE cacheMap
    /\ lost' = IF op[c].own THEN lost ELSE lost \cup {f}
    /\ truth' = [truth EXCEPT ![f] = rev[f]]
    /\ op' = [op EXCEPT ![c] = NoCall]
    /\ UNCHANGED <<mode, members, clearing, redis, db, flight, rev, calls, failures, astray, partial>>

\* Mutant of Remove: the string key is deleted, the field of the hash stays.
RemoveWrongKey(c) ==
    LET f == op[c].field IN
    /\ op[c].pc = "have" /\ op[c].call = "Remove"
    /\ Changed(c, f, [op[c] EXCEPT !.pc = "tomb", !.keys = @ \ {f}])
    /\ lost' = lost \ {f}
    /\ UNCHANGED <<mode, members, clearing, stores, rev, calls, failures, truth, astray, partial>>

\* Remove: RemoveOneKey and HDEL.
Remove(c) ==
    LET f == op[c].field IN
    /\ op[c].pc = "have" /\ op[c].call = "Remove"
    /\ redis' = IF UseCache THEN [redis EXCEPT ![f] = Absent] ELSE redis
    /\ Changed(c, f, [op[c] EXCEPT !.pc = "tomb", !.keys = @ \ {f}])
    /\ lost' = lost \ {f}
    /\ UNCHANGED <<mode, members, clearing, cacheMap, db, rev, calls, failures, truth, astray, partial>>

\* Mutant of Tomb: the model keeps State = 1, only the flags are set.
TombKeepsState(c) ==
    LET f == op[c].field IN
    /\ op[c].pc = "tomb"
    /\ cacheMap' = IF ~Longevity THEN [cacheMap EXCEPT ![f] = NoEntry]
                   ELSE IF cacheMap[f] = NoEntry THEN cacheMap
                   ELSE [cacheMap EXCEPT ![f] = Entry(@.val, TRUE, TRUE)]
    /\ lost' = IF cacheMap[f] = NoEntry /\ db[f] # Absent THEN lost \cup {f} ELSE lost
    /\ op' = [op EXCEPT ![c].pc = "relist"]
    /\ UNCHANGED <<mode, members, clearing, redis, db, flight, rev, calls, failures, truth, astray, partial>>

\* markModelRemoved and del, if the field is in the map.  Off the map the
\* row stays in MySQL.
Tomb(c) ==
    LET f == op[c].field IN
    /\ op[c].pc = "tomb"
    /\ cacheMap' = IF ~Longevity THEN [cacheMap EXCEPT ![f] = NoEntry]
                   ELSE IF cacheMap[f] = NoEntry THEN cacheMap
                   ELSE [cacheMap EXCEPT ![f] = Entry(Absent, TRUE, TRUE)]
    /\ lost' = IF cacheMap[f] = NoEntry /\ db[f] # Absent THEN lost \cup {f} ELSE lost
    /\ op' = [op EXCEPT ![c].pc = "relist"]
    /\ UNCHANGED <<mode, members, clearing, redis, db, flight, rev, calls, failures, truth, astray, partial>>

\* The shortened list is stored, nil after a load that failed.
Relist(c) ==
    /\ op[c].pc = "relist"
    /\ SetList(c, op[c].keys, NoCall)
    /\ truth' = [truth EXCEPT ![op[c].field] = Absent]
    /\ UNCHANGED <<mode, clearing, stores, flight, rev, calls, failures, lost, partial>>

-----------------------------------------------------------------------------
(* Timers *)

\* A flush of every dirty field (flushDirtyLocked).
Flush ==
    /\ Longevity /\ Dirty # {}
    /\ db' = [f \in Field |-> IF f \in Dirty THEN cacheMap[f].val ELSE db[f]]
    /\ cacheMap' = [f \in Field |-> IF f \in Dirty THEN [cacheMap[f] EXCEPT !.upd = FALSE]
                                                   ELSE cacheMap[f]]
    /\ UNCHANGED <<mode, members, clearing, redis, flight, op, rev, calls, failures, ghosts>>

\* autoClear of the group manager: collect, then PreClear, then Del.  The
\* list's time may have passed at any moment; a hit after that starts it again
\* but does not take the list off what autoClear collected.
ClearCollect ==
    /\ clearing = "no" /\ members # NoList
    /\ clearing' = "doomed"
    /\ UNCHANGED <<mode, members, stores, flight, op, rev, calls, failures, ghosts>>

\* PreClear: the listed fields leave the map, dirty or not.
PreClear ==
    /\ clearing = "doomed"
    /\ clearing' = "cleared"
    /\ LET gone == IF members = NoList THEN {} ELSE members
       IN /\ cacheMap' = [f \in Field |-> IF f \in gone THEN NoEntry ELSE cacheMap[f]]
          /\ lost' = lost \cup (gone \cap Dirty)
          /\ op' = [c \in Client |->
                       IF op[c].pc \in {"idle", "miss"} THEN op[c]
                       ELSE [op[c] EXCEPT !.old = TRUE,
                                          !.own = @ /\ op[c].field \notin gone]]
          /\ flight' = IF flight.pc = "none" THEN flight
                       ELSE [flight EXCEPT !.bad = @ \cup gone]
    /\ UNCHANGED <<mode, members, redis, db, rev, calls, failures, truth, astray, partial>>

ClearList ==
    /\ clearing = "cleared"
    /\ clearing' = "no" /\ members' = NoList
    /\ UNCHANGED <<mode, stores, flight, op, rev, calls, failures, ghosts>>

\* The Redis key times out (PutMap starts its time again, reads do not).
RedisExpire ==
    /\ UseCache /\ Longevity /\ Live(redis) # {}
    /\ redis' = [f \in Field |-> Absent]
    /\ partial' = FALSE
    /\ UNCHANGED <<mode, members, clearing, cacheMap, db, flight, op, rev, calls, failures,
                   truth, astray, lost>>

Loading == LoadRedis \/ LoadRows \/ LoadFault \/ Fill \/ Refill
Calling(c) == \/ \E f \in Field : Push(c, f) \/ \E w \in Uses[c] : Begin(c, w, f)
              \/ Load(c) \/ SetLoaded(c) \/ Read(c) \/ Set(c) \/ Enlist(c) \/ WriteCache(c)
              \/ MarkUpdate(c) \/ Remove(c) \/ Tomb(c) \/ Relist(c)
Timers == Flush \/ ClearCollect \/ PreClear \/ ClearList \/ RedisExpire

HashNext == Loading \/ Timers \/ \E c \in Client : Calling(c)
HashSpec == HashInit /\ [][HashNext]_hashVars

-----------------------------------------------------------------------------
Quiet(f) == op[Owner[f]].pc = "idle"

\* A load in flight, with the rows it read; a call, with the list it has in hand.
FlightSet == [pc : {"none", "redis", "mysql", "fill", "fillR", "put"},
              rows : [Field -> Nat], bad : SUBSET Field]
CallSet == [call : {"none", "Get", "GetAll", "Set", "Push", "Remove"},
            pc : {"idle", "miss", "load", "list", "have", "append", "put", "mark", "tomb", "relist"},
            field : Field, keys : SUBSET Field, loaded : BOOLEAN, own : BOOLEAN, old : BOOLEAN]

\* The type invariant: entries, calls and the load have the values the code
\* gives them, and nothing is written over a cacheData that is not there.
HashTypeOK ==
    /\ mode \in Modes
    /\ members \in (SUBSET Field) \cup {NoList}
    /\ clearing \in {"no", "doomed", "cleared"}
    /\ cacheMap \in [Field -> EntrySet \cup {NoEntry}]
    /\ redis \in [Field -> Nat] /\ db \in [Field -> Nat] /\ truth \in [Field -> Nat]
    /\ rev \in [Field -> Nat \ {0}]
    /\ flight \in FlightSet /\ op \in [Client -> CallSet]
    /\ calls \in [Client -> Nat] /\ failures \in Nat
    /\ astray \in BOOLEAN /\ partial \in BOOLEAN /\ lost \subseteq Field

\* While the hash is loaded, a field nobody is writing is listed exactly when
\* it exists, and Get and GetAll find the value its last Set, Push or Remove
\* left, whatever reloads, timeouts and calls for other fields came between.
\* The exceptions are named by the history variables: a list written back
\* after somebody else changed it or after a load that failed (astray), a
\* change dropped by PreClear or covered by a load (lost).
HashIsExact ==
    (members # NoList /\ ~astray /\ clearing # "cleared") =>
        \A f \in Field \ lost : Quiet(f) =>
            /\ f \in members <=> truth[f] # Absent
            /\ f \in members => cacheMap[f] # NoEntry /\ cacheMap[f].val = truth[f]
                                    /\ ~cacheMap[f].del
            /\ f \notin members => cacheMap[f] = NoEntry \/ cacheMap[f].del

\* What a finished Set, Push or Remove left is in MySQL, or its field is
\* still dirty with it; only the two events that `lost' records part with it.
SavedOrDirty ==
    Longevity => \A f \in Field \ lost : Quiet(f) =>
        db[f] = truth[f] \/ (f \in Dirty /\ cacheMap[f].val = truth[f])
=============================================================================
