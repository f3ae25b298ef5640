------------------------- MODULE WriteBehind_proofs -------------------------
(***************************************************************************)
(* Proofs about WriteBehind for every set of keys and clients and every    *)
(* value of the bounds: its type invariant, and that an entry of the map   *)
(* which is not dirty is durable (CleanIsDurable).  Where no two           *)
(* goroutines use a key at once and nothing is evicted: no promise and no  *)
(* deletion is lost, FlushNow covers what came before it, and the cache    *)
(* implements WriteBackStore.                                              *)
(***************************************************************************)
EXTENDS WriteBehind, TLAPS

\* What a client in the middle of a call has at hand.
OpTyped(c) ==
    /\ op[c].pc \in {"back", "cache", "mark"} => op[c].ref \in Entry
    /\ op[c].pc \in {"fillR", "fillD"} => op[c].val \in Value

TypeInv ==
    /\ TypeOK
    /\ \A c \in Client : OpTyped(c)
    /\ fpc = "value" => cur \in Ref

-----------------------------------------------------------------------------
(* The step of every action, from TypeInv to TypeInv *)

\* The entry PutNew allocates is one of the pool.
LEMMA FreshEntry ==
    ASSUME TypeInv, NEW k \in Key, gen[k] < MaxGen
    PROVE  <<k, gen[k] + 1>> \in Entry
<1>1. gen[k] \in 0..MaxGen
  BY DEF TypeInv, TypeOK
<1>2. MaxGen \in Nat
  BY ConstantsAssumption
<1> QED
  BY <1>1, <1>2 DEF Entry

\* A cacheData that set() makes of a value has its type.
LEMMA NewCacheDataType ==
    ASSUME NEW v \in Value
    PROVE  NewCacheData(v) \in CacheData
BY DEF NewCacheData, CacheData

\* set() keeps the types of the map and of the heap.
LEMMA PutNewType ==
    ASSUME TypeInv, NEW k \in Key, NEW v \in Value, PutNew(k, v)
    PROVE  /\ cacheMap' \in [Key -> Entry \cup {NoEntry}]
           /\ heap' \in [Entry -> CacheData]
           /\ gen' \in [Key -> 0..MaxGen]
           /\ <<k, gen[k] + 1>> \in Entry
<1>1. <<k, gen[k] + 1>> \in Entry
  BY FreshEntry DEF PutNew
<1>2. NewCacheData(v) \in CacheData
  BY NewCacheDataType
<1>3. gen[k] + 1 \in 0..MaxGen
  BY ConstantsAssumption DEF PutNew, TypeInv, TypeOK
<1> QED
  BY <1>1, <1>2, <1>3 DEF PutNew, TypeInv, TypeOK

\* A manager that InitStruct has just built is well typed.
THEOREM TypeInit == Init => TypeInv
<1> SUFFICES ASSUME Init PROVE TypeInv
  OBVIOUS
<1>1. heap \in [Entry -> CacheData]
  <2>1. [rev |-> 0, alive |-> FALSE] \in Value
    BY DEF Value
  <2> QED
    BY <2>1, NewCacheDataType DEF Init
<1>2. db \in [Key -> Value] /\ redis \in [Key -> Value \cup {NoVal}]
  <2>1. \A r \in [rev : {0}, alive : BOOLEAN] : r \in Value
    BY DEF Value
  <2> QED
    BY <2>1 DEF Init
<1>3. op \in [Client -> Op] /\ \A c \in Client : OpTyped(c)
  BY DEF Init, Op, OpPc, NoOp, Call, OpTyped
<1>4. gen \in [Key -> 0..MaxGen]
  BY ConstantsAssumption DEF Init
<1>5. queue \in Seq(SUBSET [key : Key, val : Value])
  BY DEF Init
<1>6. /\ cacheMap \in [Key -> Entry \cup {NoEntry}]
      /\ held \in [Client -> Entry \cup {NoEntry}]
      /\ rev \in [Key -> Nat]
      /\ promised \in [Key -> Nat]
      /\ goal \in [Key -> Nat]
      /\ gone \in [Key -> {"no", "hit", "miss"}]
      /\ faults \in Nat
  BY DEF Init
<1>7. /\ fpc \in {"idle", "scan", "value", "clear"}
      /\ fpc # "value"
      /\ todo \subseteq Key
      /\ cur \in Ref \cup {NoEntry}
      /\ pend \subseteq Snap
      /\ batch \subseteq Snap
      /\ failed \in BOOLEAN
      /\ fnow \in {"idle", "wait", "run"}
      /\ doomed \subseteq Key
      /\ dropping \in BOOLEAN
  BY DEF Init
<1> QED
  BY <1>1, <1>2, <1>3, <1>4, <1>5, <1>6, <1>7 DEF TypeInv, TypeOK

\* Changing the fields of a cacheData that the actions change keeps its type.
LEMMA CacheDataFields ==
    ASSUME NEW d \in CacheData
    PROVE  /\ d.data \in Value /\ d.ver \in Nat /\ d.upd \in BOOLEAN
           /\ d.del \in BOOLEAN /\ d.acked \in Nat
           /\ \A b \in BOOLEAN : /\ [d EXCEPT !.expired = b] \in CacheData
                                 /\ [d EXCEPT !.del = b] \in CacheData
                                 /\ [d EXCEPT !.upd = b] \in CacheData
           /\ \A v \in Value : [d EXCEPT !.data = v] \in CacheData
           /\ \A n, r \in Nat :
                 /\ [d EXCEPT !.ver = n, !.upd = TRUE, !.acked = r] \in CacheData
                 /\ [d EXCEPT !.ver = n, !.upd = TRUE, !.del = TRUE,
                              !.expired = FALSE, !.acked = r] \in CacheData
BY DEF CacheData

\* update(), del() and clearUpdateIfVersion() keep the type of a cacheData.
LEMMA StateWordType ==
    ASSUME TypeInv, NEW e \in Entry
    PROVE  /\ Updated(e) \in CacheData
           /\ Deleted(e) \in CacheData
           /\ \A s \in Snap : ClearedIfVersion(s) \in CacheData
<1>1. heap \in [Entry -> CacheData]
  BY DEF TypeInv, TypeOK
<1>2. heap[e] \in CacheData
  BY <1>1
<1>3. heap[e].ver + 1 \in Nat /\ heap[e].data.rev \in Nat
  <2>1. heap[e].ver \in Nat /\ heap[e].data \in Value
    BY <1>2, CacheDataFields
  <2> QED
    BY <2>1 DEF Value
<1>5. Updated(e) \in CacheData /\ Deleted(e) \in CacheData
  BY <1>2, <1>3, CacheDataFields DEF Updated, Deleted
<1>4. ASSUME NEW s \in Snap PROVE ClearedIfVersion(s) \in CacheData
  BY <1>1, CacheDataFields DEF ClearedIfVersion, Snap
<1> QED
  BY <1>5, <1>4

\* A client whose call is at pc, on k, with e and v at hand, keeps the types.
LEMMA CallType ==
    ASSUME TypeInv, NEW c \in Client, NEW pc \in OpPc, NEW k \in Key,
           NEW e \in Entry \cup {NoEntry}, NEW v \in Value \cup {NoVal},
           pc \in {"back", "cache", "mark"} => e \in Entry,
           pc \in {"fillR", "fillD"} => v \in Value,
           op' = [op EXCEPT ![c] = Call(pc, k, e, v)]
    PROVE  op' \in [Client -> Op] /\ \A d \in Client : OpTyped(d)'
<1>1. Call(pc, k, e, v) \in Op
  BY DEF Call, Op
<1>2. op' \in [Client -> Op]
  BY <1>1 DEF TypeInv, TypeOK
<1>3. ASSUME NEW d \in Client PROVE OpTyped(d)'
  BY DEF OpTyped, Call, TypeInv, TypeOK
<1> QED
  BY <1>2, <1>3

\* A client whose call has ended keeps the types.
LEMMA ReturnType ==
    ASSUME TypeInv, NEW c \in Client, NEW k \in Key,
           op' = [op EXCEPT ![c] = NoOp(k)]
    PROVE  op' \in [Client -> Op] /\ \A d \in Client : OpTyped(d)'
BY CallType DEF NoOp, OpPc

\* The revision a business write creates is a value.
LEMMA NextValueType ==
    ASSUME TypeInv, NEW k \in Key, NEW a \in BOOLEAN
    PROVE  NextValue(k, a) \in Value /\ rev[k] + 1 \in Nat
BY DEF NextValue, Value, TypeInv, TypeOK

\* A promise is a natural number for every key.
LEMMA PromiseType ==
    ASSUME TypeInv, NEW k \in Key, NEW r \in Nat, Promise(k, r)
    PROVE  promised' \in [Key -> Nat]
BY DEF Promise, TypeInv, TypeOK

\* The rows after an upsert are values.
LEMMA UpsertedType ==
    ASSUME TypeInv, NEW b \in SUBSET pend
    PROVE  Upserted(b) \in [Key -> Value]
<1> SUFFICES ASSUME NEW k \in Key
             PROVE  (IF \E s \in b : s.key = k
                     THEN (CHOOSE s \in b : s.key = k).val ELSE db[k]) \in Value
  BY DEF Upserted
<1>1. CASE \E s \in b : s.key = k
  <2>1. (CHOOSE s \in b : s.key = k) \in b
    BY <1>1
  <2> QED
    BY <2>1, <1>1 DEF TypeInv, TypeOK, Snap
<1>2. CASE ~ \E s \in b : s.key = k
  BY <1>2 DEF TypeInv, TypeOK
<1> QED
  BY <1>1, <1>2

\* Appending an element keeps the type of a sequence.
LEMMA AppendType ==
    ASSUME NEW S, NEW q \in Seq(S), NEW x \in S
    PROVE  Append(q, x) \in Seq(S)
OBVIOUS

-----------------------------------------------------------------------------
\* Every action keeps the types.
THEOREM TypeStep == TypeInv /\ [Next]_vars => TypeInv'
<1> SUFFICES ASSUME TypeInv, [Next]_vars PROVE TypeInv'
  OBVIOUS
<1> USE ConstantsAssumption
<1>1. ASSUME NEW c \in Client, NEW k \in Key, GetHit(c, k) PROVE TypeInv'
  <2>1. heap' \in [Entry -> CacheData]
    BY <1>1, CacheDataFields DEF GetHit, TypeInv, TypeOK
  <2>2. op' \in [Client -> Op] /\ \A d \in Client : OpTyped(d)'
    BY <1>1, ReturnType DEF GetHit
  <2> QED
    BY <1>1, <2>1, <2>2 DEF GetHit, TypeInv, TypeOK, OpTyped,
       entryVars, storeVars, clientVars, flushVars, clearVars, ghostVars
<1>2. ASSUME NEW c \in Client, NEW k \in Key, LoadStart(c, k) PROVE TypeInv'
  BY <1>2 DEF LoadStart, NoOp, Call, Op, OpPc, TypeInv, TypeOK, OpTyped,
     entryVars, storeVars, clientVars, flushVars, clearVars, ghostVars
<1>3. ASSUME NEW c \in Client, NEW k \in Key, Set(c, k) PROVE TypeInv'
  <2>0. NextValue(k, TRUE) \in Value /\ rev[k] + 1 \in Nat
    BY NextValueType
  <2>1. heap' \in [Entry -> CacheData] /\ cacheMap' \in [Key -> Entry \cup {NoEntry}]
        /\ gen' \in [Key -> 0..MaxGen] /\ <<k, gen[k] + 1>> \in Entry
    BY <1>3, <2>0, PutNewType DEF Set
  <2>2. op' \in [Client -> Op] /\ \A d \in Client : OpTyped(d)'
    BY <1>3, <2>1, CallType DEF Set, OpPc
  <2> QED
    BY <1>3, <2>0, <2>1, <2>2 DEF Set, TypeInv, TypeOK, OpTyped,
       entryVars, storeVars, clientVars, flushVars, clearVars, ghostVars
<1>4. ASSUME NEW c \in Client, NEW k \in Key, Remove(c, k) PROVE TypeInv'
  <2>0. NextValue(k, FALSE) \in Value /\ rev[k] + 1 \in Nat
    BY NextValueType
  <2>1. heap' \in [Entry -> CacheData]
    BY <1>4, <2>0, CacheDataFields DEF Remove, TypeInv, TypeOK
  <2>2. op' \in [Client -> Op] /\ \A d \in Client : OpTyped(d)'
    BY <1>4, CallType DEF Remove, OpPc
  <2> QED
    BY <1>4, <2>0, <2>1, <2>2 DEF Remove, TypeInv, TypeOK, OpTyped,
       entryVars, storeVars, clientVars, flushVars, clearVars, ghostVars
<1>5. ASSUME NEW c \in Client, NEW k \in Key, RemoveMiss(c, k) PROVE TypeInv'
  BY SMTT(30), <1>5 DEF RemoveMiss, NoOp, Call, Op, OpPc, TypeInv, TypeOK, OpTyped,
     entryVars, storeVars, clientVars, flushVars, clearVars, ghostVars
<1>6. ASSUME NEW c \in Client, Mutate(c) PROVE TypeInv'
  <2>0. op[c].key \in Key
    BY DEF Op, TypeInv, TypeOK
  <2>1. \A a \in BOOLEAN : NextValue(op[c].key, a) \in Value /\ rev[op[c].key] + 1 \in Nat
    BY <2>0, NextValueType
  <2>2. held[c] \in Entry /\ heap[held[c]] \in CacheData
    BY <1>6 DEF Mutate, TypeInv, TypeOK
  <2>3. heap[held[c]].data.alive \in BOOLEAN
    BY <2>2, CacheDataFields DEF Value
  <2>4. heap' \in [Entry -> CacheData]
    BY <1>6, <2>1, <2>2, <2>3, CacheDataFields DEF Mutate, TypeInv, TypeOK
  <2> QED
    BY <1>6, <2>0, <2>1, <2>4 DEF Mutate, TypeInv, TypeOK, OpTyped,
       entryVars, storeVars, clientVars, flushVars, clearVars, ghostVars
<1>7. ASSUME NEW c \in Client, Push(c) PROVE TypeInv'
  <2>0. op[c].key \in Key
    BY DEF Op, TypeInv, TypeOK
  <2>1. cacheMap[op[c].key] \in Entry
    BY <1>7, <2>0 DEF Push, TypeInv, TypeOK
  <2>2. heap' \in [Entry -> CacheData]
    BY <1>7, <2>1, CacheDataFields DEF Push, TypeInv, TypeOK
  <2>3. op' \in [Client -> Op] /\ \A d \in Client : OpTyped(d)'
    BY <1>7, <2>0, <2>1, CallType DEF Push, OpPc
  <2> QED
    BY <1>7, <2>0, <2>2, <2>3 DEF Push, TypeInv, TypeOK, OpTyped,
       entryVars, storeVars, clientVars, flushVars, clearVars, ghostVars
<1>8. ASSUME NEW c \in Client, LoadRedis(c) PROVE TypeInv'
  <2>1. op[c].key \in Key /\ redis[op[c].key] \in Value \cup {NoVal}
    BY DEF Op, TypeInv, TypeOK
  <2>2. op' \in [Client -> Op] /\ \A d \in Client : OpTyped(d)'
    BY <1>8, <2>1, CallType DEF LoadRedis, OpPc
  <2> QED
    BY <1>8, <2>2 DEF LoadRedis, TypeInv, TypeOK, OpTyped,
       entryVars, storeVars, clientVars, flushVars, clearVars, ghostVars
<1>9. ASSUME NEW c \in Client, LoadQuery(c) PROVE TypeInv'
  <2>1. op[c].key \in Key /\ db[op[c].key] \in Value
    BY DEF Op, TypeInv, TypeOK
  <2>2. op' \in [Client -> Op] /\ \A d \in Client : OpTyped(d)'
    BY <1>9, <2>1, CallType, ReturnType DEF LoadQuery, OpPc
  <2> QED
    BY <1>9, <2>2 DEF LoadQuery, TypeInv, TypeOK, OpTyped,
       entryVars, storeVars, clientVars, flushVars, clearVars, ghostVars
<1>10. ASSUME NEW c \in Client, LoadFill(c) PROVE TypeInv'
  <2>0. op[c].key \in Key /\ op[c].val \in Value
    BY <1>10 DEF LoadFill, Op, TypeInv, TypeOK, OpTyped
  <2>1. heap' \in [Entry -> CacheData] /\ cacheMap' \in [Key -> Entry \cup {NoEntry}]
        /\ gen' \in [Key -> 0..MaxGen] /\ <<op[c].key, gen[op[c].key] + 1>> \in Entry
    BY <1>10, <2>0, PutNewType DEF LoadFill
  <2>2. op' \in [Client -> Op] /\ \A d \in Client : OpTyped(d)'
    BY <1>10, <2>0, <2>1, CallType, ReturnType DEF LoadFill, OpPc
  <2> QED
    BY <1>10, <2>1, <2>2 DEF LoadFill, TypeInv, TypeOK, OpTyped,
       entryVars, storeVars, clientVars, flushVars, clearVars, ghostVars
<1>11. ASSUME NEW c \in Client, LoadBack(c) PROVE TypeInv'
  BY <1>11 DEF LoadBack, NoOp, Call, Op, OpPc, CacheData, TypeInv, TypeOK, OpTyped,
     entryVars, storeVars, clientVars, flushVars, clearVars, ghostVars
<1>12. ASSUME NEW c \in Client, WriteCache(c) PROVE TypeInv'
  <2>1. op[c].key \in Key /\ op[c].ref \in Entry
    BY <1>12 DEF WriteCache, Op, TypeInv, TypeOK, OpTyped
  <2>2. redis' \in [Key -> Value \cup {NoVal}]
    BY <1>12, <2>1, CacheDataFields DEF WriteCache, TypeInv, TypeOK
  <2>3. op' \in [Client -> Op] /\ \A d \in Client : OpTyped(d)'
    BY <1>12, <2>1, CallType DEF WriteCache, OpPc
  <2> QED
    BY <1>12, <2>2, <2>3 DEF WriteCache, TypeInv, TypeOK, OpTyped,
       entryVars, storeVars, clientVars, flushVars, clearVars, ghostVars
<1>13. ASSUME NEW c \in Client, MarkUpdate(c) PROVE TypeInv'
  <2>1. op[c].key \in Key /\ op[c].ref \in Entry
    BY <1>13 DEF MarkUpdate, Op, TypeInv, TypeOK, OpTyped
  <2>2. heap' \in [Entry -> CacheData]
    BY <1>13, <2>1, StateWordType DEF MarkUpdate, TypeInv, TypeOK
  <2>3. heap[op[c].ref].data.rev \in Nat
    BY <2>1, CacheDataFields DEF Value, TypeInv, TypeOK
  <2>4. promised' \in [Key -> Nat]
    BY <1>13, <2>1, <2>3, PromiseType DEF MarkUpdate
  <2>5. op' \in [Client -> Op] /\ \A d \in Client : OpTyped(d)'
    BY <1>13, <2>1, ReturnType DEF MarkUpdate
  <2> QED
    BY <1>13, <2>2, <2>4, <2>5 DEF MarkUpdate, TypeInv, TypeOK, OpTyped,
       entryVars, storeVars, clientVars, flushVars, clearVars, ghostVars
<1>14. ASSUME NEW c \in Client, Tomb(c) PROVE TypeInv'
  <2>1. op[c].key \in Key
    BY DEF Op, TypeInv, TypeOK
  <2>2. heap' \in [Entry -> CacheData] /\ promised' \in [Key -> Nat]
    <3>1. CASE cacheMap[op[c].key] = NoEntry
      BY <1>14, <3>1 DEF Tomb, TypeInv, TypeOK
    <3>2. CASE cacheMap[op[c].key] # NoEntry
      <4>1. cacheMap[op[c].key] \in Entry
        BY <2>1, <3>2 DEF TypeInv, TypeOK
      <4>2. heap[cacheMap[op[c].key]].data.rev \in Nat
        BY <4>1, CacheDataFields DEF Value, TypeInv, TypeOK
      <4> QED
        BY <1>14, <2>1, <3>2, <4>1, <4>2, StateWordType, PromiseType DEF Tomb, TypeInv,
           TypeOK
    <3> QED
      BY <3>1, <3>2
  <2>3. op' \in [Client -> Op] /\ \A d \in Client : OpTyped(d)'
    BY <1>14, <2>1, ReturnType DEF Tomb
  <2> QED
    BY <1>14, <2>1, <2>2, <2>3 DEF Tomb, TypeInv, TypeOK, OpTyped,
       entryVars, storeVars, clientVars, flushVars, clearVars, ghostVars
<1>15. ASSUME TimerFlush PROVE TypeInv'
  BY <1>15 DEF TimerFlush, BeginRound, TypeInv, TypeOK, OpTyped,
     entryVars, storeVars, clientVars, flushVars, clearVars, ghostVars
<1>16. ASSUME FlushNowCall PROVE TypeInv'
  BY <1>16 DEF FlushNowCall, TypeInv, TypeOK, OpTyped,
     entryVars, storeVars, clientVars, flushVars, clearVars, ghostVars
<1>17. ASSUME FlushNowLock PROVE TypeInv'
  BY <1>17 DEF FlushNowLock, BeginRound, TypeInv, TypeOK, OpTyped,
     entryVars, storeVars, clientVars, flushVars, clearVars, ghostVars
<1>18. ASSUME NEW k \in Key, ScanState(k) PROVE TypeInv'
  BY <1>18 DEF ScanState, Ref, CacheData, TypeInv, TypeOK, OpTyped,
     entryVars, storeVars, clientVars, flushVars, clearVars, ghostVars
<1>19. ASSUME ScanValue PROVE TypeInv'
  <2>1. cur \in Ref /\ cur.entry \in Entry
    BY <1>19 DEF ScanValue, TypeInv, Ref
  <2>2. heap[cur.entry].data \in Value
    BY <2>1, CacheDataFields DEF TypeInv, TypeOK
  <2>3. pend' \subseteq Snap
    BY <1>19, <2>1, <2>2 DEF ScanValue, Ref, Snap, TypeInv, TypeOK
  <2> QED
    BY <1>19, <2>3 DEF ScanValue, TypeInv, TypeOK, OpTyped,
       entryVars, storeVars, clientVars, flushVars, clearVars, ghostVars
<1>20. ASSUME FlushCommit PROVE TypeInv'
  <2>1. PICK b \in SUBSET pend :
          /\ db' = Upserted(b)
          /\ pend' = pend \ b
          /\ batch' = b
          /\ fpc' = "clear"
    BY <1>20 DEF FlushCommit
  <2>2. db' \in [Key -> Value]
    BY <2>1, UpsertedType
  <2>3. pend' \subseteq Snap /\ batch' \subseteq Snap
    BY <2>1 DEF TypeInv, TypeOK
  <2> QED
    BY <1>20, <2>1, <2>2, <2>3 DEF FlushCommit, TypeInv, TypeOK, OpTyped,
       entryVars, storeVars, clientVars, flushVars, clearVars, ghostVars
<1>21. ASSUME FlushFault PROVE TypeInv'
  <2>1. PICK b \in SUBSET pend :
          /\ db' \in {db, Upserted(b)}
          /\ queue' \in {queue, Append(queue, Payload(b))}
          /\ pend' = pend \ b
    BY <1>21 DEF FlushFault
  <2>2. db' \in [Key -> Value]
    BY <2>1, UpsertedType DEF TypeInv, TypeOK
  <2>3. pend' \subseteq Snap
    BY <2>1 DEF TypeInv, TypeOK
  <2>4. Payload(b) \in SUBSET [key : Key, val : Value]
    BY DEF Payload, Snap, TypeInv, TypeOK
  <2>5. queue' \in Seq(SUBSET [key : Key, val : Value])
    <3>1. queue \in Seq(SUBSET [key : Key, val : Value])
      BY DEF TypeInv, TypeOK
    <3> DEFINE S == SUBSET [key : Key, val : Value]
    <3>2. queue \in Seq(S) /\ Payload(b) \in S
      BY <3>1, <2>4
    <3>3. Append(queue, Payload(b)) \in Seq(S)
      <4> HIDE DEF S
      <4> QED
        BY <3>2, AppendType
    <3>4. queue' \in Seq(S)
      BY <2>1, <3>2, <3>3
    <3> QED
      BY <3>4
  <2>6. faults' \in Nat /\ failed' \in BOOLEAN
    BY <1>21 DEF FlushFault, TypeInv, TypeOK
  <2> QED
    BY <1>21, <2>2, <2>3, <2>5, <2>6 DEF FlushFault, TypeInv, TypeOK, OpTyped,
       entryVars, storeVars, clientVars, flushVars, clearVars, ghostVars
<1>22. ASSUME NEW s \in batch, FlushClear(s) PROVE TypeInv'
  <2>1. s \in Snap /\ s.entry \in Entry
    BY DEF Snap, TypeInv, TypeOK
  <2>2. heap' \in [Entry -> CacheData]
    BY <1>22, <2>1, StateWordType DEF FlushClear, TypeInv, TypeOK
  <2> QED
    BY <1>22, <2>2 DEF FlushClear, TypeInv, TypeOK, OpTyped,
       entryVars, storeVars, clientVars, flushVars, clearVars, ghostVars
<1>23. ASSUME FlushDone PROVE TypeInv'
  BY <1>23 DEF FlushDone, TypeInv, TypeOK, OpTyped,
     entryVars, storeVars, clientVars, flushVars, clearVars, ghostVars
<1>24. ASSUME NEW k \in Key, RedisExpire(k) PROVE TypeInv'
  BY <1>24 DEF RedisExpire, TypeInv, TypeOK, OpTyped,
     entryVars, storeVars, clientVars, flushVars, clearVars, ghostVars
<1>25. ASSUME NEW k \in Key, Expire(k) PROVE TypeInv'
  <2>1. cacheMap[k] \in Entry /\ heap[cacheMap[k]] \in CacheData
    BY <1>25 DEF Expire, TypeInv, TypeOK
  <2>2. heap' \in [Entry -> CacheData]
    BY <1>25, <2>1, CacheDataFields DEF Expire, TypeInv, TypeOK
  <2> QED
    BY <1>25, <2>2 DEF Expire, TypeInv, TypeOK, OpTyped,
       storeVars, clientVars, flushVars, clearVars, ghostVars
<1>26. ASSUME NEW k \in Key, ClearCollect(k) PROVE TypeInv'
  BY <1>26 DEF ClearCollect, TypeInv, TypeOK, OpTyped,
     entryVars, storeVars, clientVars, flushVars, clearVars, ghostVars
<1>27. ASSUME NEW k \in Key, ClearDrop(k) PROVE TypeInv'
  BY <1>27 DEF ClearDrop, TypeInv, TypeOK, OpTyped,
     entryVars, storeVars, clientVars, flushVars, clearVars, ghostVars
<1>28. CASE UNCHANGED vars
  BY <1>28 DEF vars, TypeInv, TypeOK, OpTyped,
     entryVars, storeVars, clientVars, flushVars, clearVars, ghostVars
<1> QED
  BY <1>1, <1>2, <1>3, <1>4, <1>5, <1>6, <1>7, <1>8, <1>9, <1>10, <1>11, <1>12, <1>13,
     <1>14, <1>15, <1>16, <1>17, <1>18, <1>19, <1>20, <1>21, <1>22, <1>23, <1>24, <1>25,
     <1>26, <1>27, <1>28
  DEF Next, ClientCall, ClientStep, FlushStep, Clearing
-----------------------------------------------------------------------------
\* Every state the write-behind cache can reach is well typed.
THEOREM TypeCorrect == Spec => []TypeOK
<1>1. Spec => []TypeInv
  BY TypeInit, TypeStep, PTL DEF Spec
<1>2. TypeInv => TypeOK
  BY DEF TypeInv
<1> QED
  BY <1>1, <1>2, PTL

-----------------------------------------------------------------------------
(* The inductive invariant behind CleanIsDurable *)

\* Every pointer to a cacheData leads to one of the key it is used for, and
\* the map holds only cacheData that were allocated.
Linked ==
    /\ \A k \in Key : cacheMap[k] # NoEntry =>
            cacheMap[k][1] = k /\ cacheMap[k][2] <= gen[k]
    /\ \A c \in Client : held[c] # NoEntry => held[c][1] = op[c].key
    /\ \A c \in Client : op[c].pc \in {"back", "cache", "mark"} =>
            op[c].ref[1] = op[c].key

\* No copy of a key is newer than the last business write of it, and no
\* cacheData has marked a revision newer than its value.
Bounded ==
    /\ \A e \in Entry : /\ heap[e].acked <= heap[e].data.rev
                        /\ heap[e].data.rev <= rev[e[1]]
    /\ \A k \in Key : /\ db[k].rev <= rev[k]
                      /\ redis[k] # NoVal => redis[k].rev <= rev[k]
    /\ \A c \in Client : op[c].pc \in {"fillR", "fillD"} =>
            op[c].val.rev <= rev[op[c].key]
    /\ \A s \in pend : s.val.rev <= rev[s.key]

\* A round collects a key at most once, and after it has left todo.
Scanned ==
    /\ \A s \in pend \cup batch : /\ s.entry[1] = s.key
                                  /\ s.entry[2] <= gen[s.key]
                                  /\ s.key \notin todo
    /\ \A s, t \in pend \cup batch : s.key = t.key => s = t
    /\ pend \cap batch = {}
    /\ fpc = "value" => /\ cur.entry[1] = cur.key
                        /\ cur.entry[2] <= gen[cur.key]
                        /\ cur.key \notin todo
                        /\ \A s \in pend : s.key # cur.key
    /\ fpc # "clear" => batch = {}
    /\ fpc = "idle" => pend = {}

\* A cacheData still at the version a round collected has marked nothing
\* newer than the value that round took, which for a committed batch is what
\* MySQL has.
Versioned ==
    /\ \A s \in pend \cup batch :
            /\ s.ver <= heap[s.entry].ver
            /\ heap[s.entry].ver = s.ver => heap[s.entry].acked <= s.val.rev
    /\ fpc = "value" => cur.ver <= heap[cur.entry].ver
    /\ \A s \in batch : s.val.rev <= db[s.key].rev

\* While a collected value of k waits to be written, perhaps over a newer
\* row, the cacheData in the map is dirty or has never been marked.
Unflushed ==
    /\ \A s \in pend : LET e == cacheMap[s.key] IN
            e # NoEntry => heap[e].upd \/ heap[e].acked = 0
    /\ fpc = "value" => LET e == cacheMap[cur.key] IN
            e # NoEntry => heap[e].upd \/ heap[e].acked = 0

DurableInv ==
    /\ TypeInv
    /\ Linked
    /\ Bounded
    /\ Scanned
    /\ Versioned
    /\ Unflushed
    /\ CleanIsDurable

\* What the actions leave alone.
LEMMA LinkedFrame ==
    ASSUME Linked, UNCHANGED <<cacheMap, gen, op, held>> PROVE Linked'
BY DEF Linked

\* A step of one client, to a call that leads to an entry of its own key.
LEMMA LinkedCall ==
    ASSUME TypeInv, Linked, NEW c \in Client, NEW q \in Op,
           op' = [op EXCEPT ![c] = q],
           q.pc \in {"back", "cache", "mark"} => q.ref[1] = q.key,
           held'[c] # NoEntry => held'[c][1] = q.key,
           \A d \in Client \ {c} : held'[d] = held[d],
           \A k \in Key : cacheMap'[k] # NoEntry =>
                cacheMap'[k][1] = k /\ cacheMap'[k][2] <= gen'[k]
    PROVE  Linked'
<1>1. op'[c] = q /\ \A d \in Client \ {c} : op'[d] = op[d]
  BY DEF TypeInv, TypeOK
<1> QED
  BY <1>1 DEF Linked

\* The same for the bounds on the copies of a key.
LEMMA BoundedFrame ==
    ASSUME Bounded, UNCHANGED <<heap, rev, db, redis, op, pend>> PROVE Bounded'
BY DEF Bounded

\* The same for what a round has collected.
LEMMA ScannedFrame ==
    ASSUME Scanned, UNCHANGED <<gen, fpc, todo, cur, pend, batch>> PROVE Scanned'
BY DEF Scanned

\* The fields of cacheData the last three conjuncts look at.
SameState == \A e \in Entry : /\ heap'[e].ver = heap[e].ver
                              /\ heap'[e].upd = heap[e].upd
                              /\ heap'[e].acked = heap[e].acked

\* A step that changes no flag, no version and no collected entry cannot
\* undo what the versions and the flags say.
LEMMA StateFrame ==
    ASSUME TypeInv, Scanned, Versioned, Unflushed, CleanIsDurable, SameState,
           UNCHANGED <<cacheMap, fpc, cur, pend, batch, db>>
    PROVE  Versioned' /\ Unflushed' /\ CleanIsDurable'
<1>1. \A s \in pend \cup batch : s.entry \in Entry /\ s.key \in Key
  BY DEF TypeInv, TypeOK, Snap
<1>2. fpc = "value" => cur.entry \in Entry /\ cur.key \in Key
  BY DEF TypeInv, Ref
<1>3. \A k \in Key : cacheMap[k] # NoEntry => cacheMap[k] \in Entry
  BY DEF TypeInv, TypeOK
<1>4. Versioned'
  BY <1>1, <1>2 DEF Versioned, SameState
<1>5. Unflushed'
  BY <1>1, <1>2, <1>3 DEF Unflushed, SameState
<1>6. CleanIsDurable'
  BY <1>3 DEF CleanIsDurable, SameState
<1> QED
  BY <1>4, <1>5, <1>6

\* set() puts a cacheData in the map that no round has collected and that
\* nothing has marked.
LEMMA PutNewKeeps ==
    ASSUME DurableInv, NEW k \in Key, NEW v \in Value, PutNew(k, v),
           UNCHANGED <<fpc, todo, cur, pend, batch, db>>
    PROVE  Scanned' /\ Versioned' /\ Unflushed' /\ CleanIsDurable'
<1> DEFINE n == <<k, gen[k] + 1>>
<1>1. n \in Entry
  BY FreshEntry DEF PutNew, DurableInv
<1>2. /\ heap'[n].upd = FALSE /\ heap'[n].acked = 0 /\ heap'[n].ver = 0
      /\ \A e \in Entry : e # n => heap'[e] = heap[e]
  BY <1>1 DEF PutNew, NewCacheData, DurableInv, TypeInv, TypeOK
<1>3. /\ cacheMap'[k] = n
      /\ \A j \in Key : j # k => cacheMap'[j] = cacheMap[j]
  BY DEF PutNew, DurableInv, TypeInv, TypeOK
<1>4. \A j \in Key : gen[j] \in Nat /\ gen'[j] \in Nat /\ gen[j] <= gen'[j]
  BY ConstantsAssumption DEF PutNew, DurableInv, TypeInv, TypeOK
<1>5. \A s \in pend \cup batch : s.entry \in Entry /\ s.key \in Key /\ s.entry # n
  <2> SUFFICES ASSUME NEW s \in pend \cup batch
               PROVE  s.entry \in Entry /\ s.key \in Key /\ s.entry # n
    OBVIOUS
  <2>1. s.entry \in Entry /\ s.key \in Key
    BY DEF DurableInv, TypeInv, TypeOK, Snap
  <2>2. s.entry[1] = s.key /\ s.entry[2] <= gen[s.key]
    BY DEF DurableInv, Scanned
  <2> QED
    BY <1>4, <2>1, <2>2
<1>6. fpc = "value" => cur.entry \in Entry /\ cur.key \in Key /\ cur.entry # n
  <2> SUFFICES ASSUME fpc = "value"
               PROVE  cur.entry \in Entry /\ cur.key \in Key /\ cur.entry # n
    OBVIOUS
  <2>1. cur.entry \in Entry /\ cur.key \in Key
    BY DEF DurableInv, TypeInv, Ref
  <2>2. cur.entry[1] = cur.key /\ cur.entry[2] <= gen[cur.key]
    BY DEF DurableInv, Scanned
  <2> QED
    BY <1>4, <2>1, <2>2
<1>7. Scanned'
  <2>1. \A s \in pend \cup batch : s.entry[2] <= gen'[s.key]
    <3> SUFFICES ASSUME NEW s \in pend \cup batch PROVE s.entry[2] <= gen'[s.key]
      OBVIOUS
    <3>1. s.entry[2] <= gen[s.key] /\ s.entry[2] \in Int
      BY <1>5, ConstantsAssumption DEF DurableInv, Scanned, Entry
    <3> QED
      BY <1>4, <1>5, <3>1
  <2>2. fpc = "value" => cur.entry[2] <= gen'[cur.key]
    <3> SUFFICES ASSUME fpc = "value" PROVE cur.entry[2] <= gen'[cur.key]
      OBVIOUS
    <3>1. cur.entry[2] <= gen[cur.key] /\ cur.entry[2] \in Int
      BY <1>6, ConstantsAssumption DEF DurableInv, Scanned, Entry
    <3> QED
      BY <1>4, <1>6, <3>1
  <2> QED
    BY <2>1, <2>2 DEF DurableInv, Scanned
<1>8. Versioned'
  BY <1>2, <1>5, <1>6 DEF DurableInv, Versioned
<1>9. \A j \in Key : cacheMap'[j] # NoEntry =>
         \/ heap'[cacheMap'[j]].acked = 0
         \/ /\ cacheMap[j] # NoEntry
            /\ cacheMap'[j] = cacheMap[j]
            /\ heap'[cacheMap[j]] = heap[cacheMap[j]]
  BY <1>2, <1>3 DEF DurableInv, TypeInv, TypeOK
<1>10. Unflushed'
  BY <1>5, <1>6, <1>9 DEF DurableInv, Unflushed
<1>11. CleanIsDurable'
  <2> SUFFICES ASSUME NEW j \in Key, cacheMap'[j] # NoEntry, ~heap'[cacheMap'[j]].upd
               PROVE  heap'[cacheMap'[j]].acked <= db[j].rev
    BY DEF CleanIsDurable
  <2>1. db[j].rev \in Nat
    BY DEF DurableInv, TypeInv, TypeOK, Value
  <2>2. CASE heap'[cacheMap'[j]].acked = 0
    BY <2>1, <2>2
  <2>3. CASE /\ cacheMap[j] # NoEntry
             /\ cacheMap'[j] = cacheMap[j]
             /\ heap'[cacheMap[j]] = heap[cacheMap[j]]
    BY <2>3 DEF DurableInv, CleanIsDurable
  <2> QED
    BY <1>9, <2>2, <2>3
<1> QED
  BY <1>7, <1>8, <1>10, <1>11

\* update() and del() make a cacheData dirty at a version no round has seen.
LEMMA MarkKeeps ==
    ASSUME DurableInv, NEW e \in Entry, NEW d,
           heap' = [heap EXCEPT ![e] = d],
           d.ver = heap[e].ver + 1, d.upd = TRUE,
           UNCHANGED <<cacheMap, fpc, cur, pend, batch, db>>
    PROVE  Versioned' /\ Unflushed' /\ CleanIsDurable'
<1>1. /\ heap'[e] = d
      /\ \A f \in Entry : f # e => heap'[f] = heap[f]
  BY DEF DurableInv, TypeInv, TypeOK
<1>2. \A f \in Entry : heap[f].ver \in Nat
  BY DEF DurableInv, TypeInv, TypeOK, CacheData
<1>3. \A s \in pend \cup batch : s.entry \in Entry /\ s.key \in Key /\ s.ver \in Nat
  BY DEF DurableInv, TypeInv, TypeOK, Snap
<1>4. fpc = "value" => cur.entry \in Entry /\ cur.key \in Key /\ cur.ver \in Nat
  BY DEF DurableInv, TypeInv, Ref
<1>5. \A k \in Key : cacheMap[k] # NoEntry => cacheMap[k] \in Entry
  BY DEF DurableInv, TypeInv, TypeOK
<1>6. Versioned'
  <2>1. ASSUME NEW s \in pend \cup batch
        PROVE  /\ s.ver <= heap'[s.entry].ver
               /\ heap'[s.entry].ver = s.ver => heap'[s.entry].acked <= s.val.rev
    <3>1. s.ver <= heap[s.entry].ver
      BY DEF DurableInv, Versioned
    <3> QED
      BY <1>1, <1>2, <1>3, <3>1 DEF DurableInv, Versioned
  <2>2. ASSUME fpc = "value" PROVE cur.ver <= heap'[cur.entry].ver
    <3>1. cur.ver <= heap[cur.entry].ver
      BY <2>2 DEF DurableInv, Versioned
    <3> QED
      BY <1>1, <1>2, <1>4, <2>2, <3>1
  <2> QED
    BY <2>1, <2>2 DEF DurableInv, Versioned
<1>7. Unflushed'
  BY <1>1, <1>3, <1>4, <1>5 DEF DurableInv, Unflushed
<1>8. CleanIsDurable'
  BY <1>1, <1>5 DEF DurableInv, CleanIsDurable
<1> QED
  BY <1>6, <1>7, <1>8

\* The database after an upsert of b: the values of b, and the old rows.
LEMMA UpsertedRows ==
    ASSUME DurableInv, NEW b \in SUBSET pend, NEW k \in Key
    PROVE  \/ \E s \in b : s.key = k /\ Upserted(b)[k] = s.val
           \/ (\A s \in b : s.key # k) /\ Upserted(b)[k] = db[k]
<1>1. CASE \E s \in b : s.key = k
  <2> DEFINE s == CHOOSE s \in b : s.key = k
  <2>1. s \in b /\ s.key = k
    BY <1>1
  <2>2. Upserted(b)[k] = s.val
    BY <1>1 DEF Upserted
  <2> QED
    BY <2>1, <2>2
<1>2. CASE ~ \E s \in b : s.key = k
  BY <1>2 DEF Upserted
<1> QED
  BY <1>1, <1>2

\* An upsert may write an older value over a newer row, but then the
\* cacheData in the map is dirty or has never been marked.
LEMMA UpsertKeeps ==
    ASSUME DurableInv, NEW b \in SUBSET pend, db' \in {db, Upserted(b)},
           UNCHANGED <<cacheMap, heap>>
    PROVE  CleanIsDurable' /\ \A k \in Key : db'[k].rev <= rev[k]
<1>0. \A k \in Key : db'[k] = db[k] \/ \E s \in b : s.key = k /\ db'[k] = s.val
  BY UpsertedRows
<1>1. \A s \in b : s.key \in Key /\ s.val.rev \in Nat
  BY DEF DurableInv, TypeInv, TypeOK, Snap, Value
<1>2. CleanIsDurable'
  <2> SUFFICES ASSUME NEW k \in Key, cacheMap[k] # NoEntry, ~heap[cacheMap[k]].upd
               PROVE  heap[cacheMap[k]].acked <= db'[k].rev
    BY DEF CleanIsDurable
  <2>1. CASE db'[k] = db[k]
    BY <2>1 DEF DurableInv, CleanIsDurable
  <2>2. ASSUME NEW s \in b, s.key = k, db'[k] = s.val
        PROVE  heap[cacheMap[k]].acked <= db'[k].rev
    <3>1. heap[cacheMap[k]].acked = 0
      BY <2>2 DEF DurableInv, Unflushed
    <3> QED
      BY <1>1, <2>2, <3>1
  <2> QED
    BY <1>0, <2>1, <2>2
<1>3. \A k \in Key : db'[k].rev <= rev[k]
  BY <1>0 DEF DurableInv, Bounded
<1> QED
  BY <1>2, <1>3
-----------------------------------------------------------------------------
(* The actions keep DurableInv *)

\* The numbers the invariant compares.
LEMMA Numbers ==
    ASSUME TypeInv
    PROVE  /\ \A e \in Entry : /\ heap[e].ver \in Nat /\ heap[e].acked \in Nat
                               /\ heap[e].data \in Value /\ heap[e].data.rev \in Nat
                               /\ heap[e] \in CacheData
           /\ \A k \in Key : rev[k] \in Nat /\ db[k].rev \in Nat
           /\ \A c \in Client : op[c] \in Op /\ op[c].key \in Key
           /\ \A c \in Client : held[c] # NoEntry => held[c] \in Entry
           /\ \A k \in Key : cacheMap[k] # NoEntry => cacheMap[k] \in Entry
           /\ \A s \in pend \cup batch : /\ s.entry \in Entry /\ s.key \in Key
                                        /\ s.ver \in Nat /\ s.val.rev \in Nat
           /\ \A e \in Entry : e[1] \in Key
<1>1. \A e \in Entry : heap[e] \in CacheData
  BY DEF TypeInv, TypeOK
<1>2. \A d \in CacheData : /\ d.ver \in Nat /\ d.acked \in Nat
                          /\ d.data \in Value /\ d.data.rev \in Nat
  BY DEF CacheData, Value
<1>3. \A k \in Key : rev[k] \in Nat /\ db[k].rev \in Nat
  BY DEF TypeInv, TypeOK, Value
<1>4. \A c \in Client : op[c] \in Op /\ op[c].key \in Key
  BY DEF TypeInv, TypeOK, Op
<1>5. /\ \A c \in Client : held[c] # NoEntry => held[c] \in Entry
      /\ \A k \in Key : cacheMap[k] # NoEntry => cacheMap[k] \in Entry
  BY DEF TypeInv, TypeOK
<1>6. \A s \in pend \cup batch : /\ s.entry \in Entry /\ s.key \in Key
                                 /\ s.ver \in Nat /\ s.val.rev \in Nat
  BY DEF TypeInv, TypeOK, Snap, Value
<1>7. \A e \in Entry : e[1] \in Key
  BY DEF Entry
<1> QED
  BY <1>1, <1>2, <1>3, <1>4, <1>5, <1>6, <1>7

\* A step that changes one cacheData, creates at most one revision and gives
\* no copy of a key a newer one keeps every copy bounded.
LEMMA OneEntryBounded ==
    ASSUME TypeInv, Bounded, NEW e \in Entry, NEW d,
           heap' = [heap EXCEPT ![e] = d],
           d.acked <= d.data.rev, d.data.rev <= rev'[e[1]],
           \A k \in Key : rev'[k] \in Nat /\ rev[k] <= rev'[k],
           UNCHANGED <<db, redis, pend>>,
           \A c \in Client : op'[c].pc \in {"fillR", "fillD"} => op'[c] = op[c]
    PROVE  Bounded'
<1>1. /\ heap'[e] = d
      /\ \A f \in Entry : f # e => heap'[f] = heap[f]
  BY DEF TypeInv, TypeOK
<1>2. \A f \in Entry : heap[f].data.rev \in Nat /\ f[1] \in Key
  BY Numbers
<1>3. \A f \in Entry : heap'[f].acked <= heap'[f].data.rev /\ heap'[f].data.rev <= rev'[f[1]]
  <2> SUFFICES ASSUME NEW f \in Entry, f # e
               PROVE  heap[f].acked <= heap[f].data.rev /\ heap[f].data.rev <= rev'[f[1]]
    BY <1>1
  <2>1. heap[f].data.rev <= rev[f[1]] /\ heap[f].acked <= heap[f].data.rev
    BY DEF Bounded
  <2>2. heap[f].data.rev \in Nat /\ rev[f[1]] \in Nat
    BY <1>2, Numbers
  <2> QED
    BY <1>2, <2>1, <2>2
<1>4. \A k \in Key : db'[k].rev <= rev'[k] /\ (redis'[k] # NoVal => redis'[k].rev <= rev'[k])
  <2> SUFFICES ASSUME NEW k \in Key
               PROVE  db[k].rev <= rev'[k] /\ (redis[k] # NoVal => redis[k].rev <= rev'[k])
    OBVIOUS
  <2>1. rev[k] \in Nat /\ db[k].rev \in Nat /\ (redis[k] # NoVal => redis[k].rev \in Nat)
    BY DEF TypeInv, TypeOK, Value
  <2> QED
    BY <2>1 DEF Bounded
<1>5. \A c \in Client : op'[c].pc \in {"fillR", "fillD"} => op'[c].val.rev <= rev'[op'[c].key]
  <2> SUFFICES ASSUME NEW c \in Client, op[c].pc \in {"fillR", "fillD"}
               PROVE  op[c].val.rev <= rev'[op[c].key]
    OBVIOUS
  <2>1. op[c].val.rev \in Nat /\ op[c].key \in Key
    BY Numbers DEF TypeInv, OpTyped, Value
  <2> QED
    BY <2>1, Numbers DEF Bounded
<1>6. \A s \in pend' : s.val.rev <= rev'[s.key]
  BY Numbers DEF Bounded
<1> QED
  BY <1>3, <1>4, <1>5, <1>6 DEF Bounded

\* A step that changes op alone among what Bounded speaks of.
LEMMA OpBounded ==
    ASSUME TypeInv, Bounded, UNCHANGED <<heap, rev, db, redis, pend>>,
           \A c \in Client : op'[c].pc \in {"fillR", "fillD"} =>
                op'[c].val.rev <= rev[op'[c].key]
    PROVE  Bounded'
BY DEF Bounded

\* An empty cache satisfies the invariant.
THEOREM DurableInit == Init => DurableInv
<1> SUFFICES ASSUME Init PROVE DurableInv
  OBVIOUS
<1>1. TypeInv
  BY TypeInit
<1>2. Linked /\ Scanned /\ Versioned /\ Unflushed /\ CleanIsDurable
  BY DEF Init, Linked, Scanned, Versioned, Unflushed, CleanIsDurable, NoOp, Call
<1>3. \A e \in Entry : heap[e].acked = 0 /\ heap[e].data.rev = 0 /\ e[1] \in Key
  BY DEF Init, NewCacheData, Entry
<1>4. \A k \in Key : rev[k] = 0 /\ db[k].rev = 0 /\ (redis[k] # NoVal => redis[k].rev = 0)
  BY DEF Init
<1>5. Bounded
  BY <1>3, <1>4 DEF Init, Bounded, NoOp, Call
<1> QED
  BY <1>1, <1>2, <1>5 DEF DurableInv

\* Every step keeps the invariant.
THEOREM DurableStep == DurableInv /\ [Next]_vars => DurableInv'
<1> SUFFICES ASSUME DurableInv, [Next]_vars PROVE DurableInv'
  OBVIOUS
<1>0. TypeInv /\ TypeInv'
  BY TypeStep DEF DurableInv
<1> USE <1>0
<1>1. ASSUME NEW c \in Client, NEW k \in Key, GetHit(c, k) PROVE DurableInv'
  <2>1. SameState /\ \A f \in Entry : heap'[f].data = heap[f].data
    BY <1>1, Numbers DEF GetHit, SameState, CacheData, TypeInv, TypeOK
  <2>2. Linked'
    BY <1>1, Numbers DEF GetHit, DurableInv, Linked, NoOp, Call, TypeInv, TypeOK,
       entryVars, storeVars, clientVars, flushVars, clearVars, ghostVars
  <2>3. Bounded'
    BY SMTT(30), <1>1, <2>1, Numbers DEF GetHit, DurableInv, Bounded, NoOp, Call, TypeInv, TypeOK,
       entryVars, storeVars, clientVars, flushVars, clearVars, ghostVars
  <2>4. Scanned'
    BY <1>1, ScannedFrame DEF GetHit, DurableInv, entryVars, storeVars, clientVars,
       flushVars, clearVars, ghostVars
  <2>5. Versioned' /\ Unflushed' /\ CleanIsDurable'
    BY <1>1, <2>1, StateFrame DEF GetHit, DurableInv, entryVars, storeVars, clientVars,
       flushVars, clearVars, ghostVars
  <2> QED
    BY <2>1, <2>2, <2>3, <2>4, <2>5 DEF DurableInv
<1>2. ASSUME NEW c \in Client, NEW k \in Key, LoadStart(c, k) PROVE DurableInv'
  <2>1. Linked'
    BY <1>2, Numbers DEF LoadStart, DurableInv, Linked, NoOp, Call, TypeInv, TypeOK,
       entryVars, storeVars, clientVars, flushVars, clearVars, ghostVars
  <2>2. Bounded'
    BY <1>2, OpBounded DEF LoadStart, DurableInv, Bounded, NoOp, Call, TypeInv, TypeOK,
       Op, entryVars, storeVars, clientVars, flushVars, clearVars, ghostVars
  <2>3. Scanned'
    BY <1>2, ScannedFrame DEF LoadStart, DurableInv, entryVars, storeVars, clientVars,
       flushVars, clearVars, ghostVars
  <2>4. Versioned' /\ Unflushed' /\ CleanIsDurable'
    BY <1>2, StateFrame DEF LoadStart, DurableInv, SameState, entryVars, storeVars,
       clientVars, flushVars, clearVars, ghostVars
  <2> QED
    BY <2>1, <2>2, <2>3, <2>4 DEF DurableInv
<1>3. ASSUME NEW c \in Client, NEW k \in Key, Set(c, k) PROVE DurableInv'
  <2>1. NextValue(k, TRUE) \in Value
    BY NextValueType
  <2>2. Linked'
    BY SMTT(30), <1>3, Numbers DEF Set, PutNew, DurableInv, Linked, Call, TypeInv, TypeOK,
       entryVars, storeVars, clientVars, flushVars, clearVars, ghostVars
  <2>3. Bounded'
    <3> DEFINE n == <<k, gen[k] + 1>>
    <3> DEFINE d == NewCacheData(NextValue(k, TRUE))
    <3>1. heap' = [heap EXCEPT ![n] = d] /\ n \in Entry /\ n[1] = k
      BY <1>3, <2>1, FreshEntry DEF Set, PutNew
    <3>2. d.acked = 0 /\ d.data = NextValue(k, TRUE)
      BY DEF NewCacheData
    <3>3. NextValue(k, TRUE).rev \in Nat /\ NextValue(k, TRUE).rev <= rev'[k]
      BY <1>3, <2>1, Numbers DEF Set, NextValue, Value, DurableInv, Bounded, TypeInv,
         TypeOK, entryVars, storeVars, clientVars, flushVars, clearVars, ghostVars
    <3>4. \A j \in Key : rev'[j] \in Nat /\ rev[j] <= rev'[j]
      BY SMTT(30), <1>3, Numbers DEF Set, TypeInv, TypeOK, entryVars, storeVars, clientVars,
         flushVars, clearVars, ghostVars
    <3>5. \A f \in Client : op'[f].pc \in {"fillR", "fillD"} => op'[f] = op[f]
      BY <1>3 DEF Set, NoOp, Call, TypeInv, TypeOK
    <3>6. UNCHANGED <<db, redis, pend>>
      BY <1>3 DEF Set, entryVars, storeVars, clientVars, flushVars, clearVars, ghostVars
    <3> HIDE DEF d, n
    <3>7. d.acked <= d.data.rev /\ d.data.rev <= rev'[n[1]]
      BY <3>1, <3>2, <3>3 DEF NextValue
    <3> QED
      BY <3>1, <3>4, <3>5, <3>6, <3>7, OneEntryBounded DEF DurableInv
  <2>4. Scanned' /\ Versioned' /\ Unflushed' /\ CleanIsDurable'
    BY <1>3, <2>1, PutNewKeeps DEF Set, entryVars, storeVars, clientVars, flushVars,
       clearVars, ghostVars
  <2> QED
    BY <2>1, <2>2, <2>3, <2>4 DEF DurableInv
<1>4. ASSUME NEW c \in Client, NEW k \in Key, Remove(c, k) PROVE DurableInv'
  <2>1. SameState
    BY <1>4, Numbers DEF Remove, SameState, CacheData, TypeInv, TypeOK
  <2>2. Linked'
    BY SMTT(30), <1>4, Numbers DEF Remove, DurableInv, Linked, NoOp, Call, TypeInv, TypeOK,
       entryVars, storeVars, clientVars, flushVars, clearVars, ghostVars
  <2>3. Bounded'
    <3> DEFINE d == [heap[cacheMap[k]] EXCEPT !.data = NextValue(k, FALSE)]
    <3>1. cacheMap[k] \in Entry /\ cacheMap[k][1] = k /\ k \in Key
      BY <1>4, Numbers DEF Remove, DurableInv, Linked
    <3>2. heap' = [heap EXCEPT ![cacheMap[k]] = d]
      BY <1>4, <3>1 DEF Remove, TypeInv, TypeOK
    <3>3. d.acked = heap[cacheMap[k]].acked /\ d.data.rev = rev[k] + 1
      BY <3>1, Numbers DEF CacheData, NextValue
    <3>4. /\ heap[cacheMap[k]].acked <= rev[k] + 1
          /\ rev' = [rev EXCEPT ![k] = rev[k] + 1]
      <4>1. heap[cacheMap[k]].acked <= heap[cacheMap[k]].data.rev /\ heap[cacheMap[k]].data.rev <= rev[k]
        BY <3>1 DEF DurableInv, Bounded
      <4>2. heap[cacheMap[k]].acked \in Nat /\ heap[cacheMap[k]].data.rev \in Nat /\ rev[k] \in Nat
        BY <3>1, Numbers
      <4> QED
        BY <1>4, <4>1, <4>2 DEF Remove
    <3> HIDE DEF d
    <3>9. rev'[k] = rev[k] + 1 /\ \A j \in Key : j # k => rev'[j] = rev[j]
      BY <3>1, <3>4 DEF TypeInv, TypeOK
    <3>5. \A j \in Key : rev'[j] \in Nat /\ rev[j] <= rev'[j]
      BY <3>9, <3>1, Numbers
    <3>6. d.acked <= d.data.rev /\ d.data.rev <= rev'[cacheMap[k][1]]
      BY <3>1, <3>3, <3>4, <3>9, Numbers
    <3>7. \A f \in Client : op'[f].pc \in {"fillR", "fillD"} => op'[f] = op[f]
      BY <1>4 DEF Remove, Call, TypeInv, TypeOK
    <3>8. UNCHANGED <<db, redis, pend>>
      BY <1>4 DEF Remove, entryVars, storeVars, clientVars, flushVars, clearVars, ghostVars
    <3> QED
      BY <3>1, <3>2, <3>5, <3>6, <3>7, <3>8, OneEntryBounded DEF DurableInv
  <2>4. Scanned'
    BY <1>4, ScannedFrame DEF Remove, DurableInv, entryVars, storeVars, clientVars,
       flushVars, clearVars, ghostVars
  <2>5. Versioned' /\ Unflushed' /\ CleanIsDurable'
    BY <1>4, <2>1, StateFrame DEF Remove, DurableInv, entryVars, storeVars, clientVars,
       flushVars, clearVars, ghostVars
  <2> QED
    BY <2>1, <2>2, <2>3, <2>4, <2>5 DEF DurableInv
<1>5. ASSUME NEW c \in Client, NEW k \in Key, RemoveMiss(c, k) PROVE DurableInv'
  <2>1. Linked'
    BY <1>5, Numbers DEF RemoveMiss, DurableInv, Linked, NoOp, Call, TypeInv, TypeOK,
       entryVars, storeVars, clientVars, flushVars, clearVars, ghostVars
  <2>2. Bounded'
    BY SMTT(30), <1>5, OpBounded DEF RemoveMiss, DurableInv, Bounded, NoOp, Call, TypeInv, TypeOK,
       Op, entryVars, storeVars, clientVars, flushVars, clearVars, ghostVars
  <2>3. Scanned'
    BY <1>5, ScannedFrame DEF RemoveMiss, DurableInv, entryVars, storeVars, clientVars,
       flushVars, clearVars, ghostVars
  <2>4. Versioned' /\ Unflushed' /\ CleanIsDurable'
    BY <1>5, StateFrame DEF RemoveMiss, DurableInv, SameState, entryVars, storeVars,
       clientVars, flushVars, clearVars, ghostVars
  <2> QED
    BY <2>1, <2>2, <2>3, <2>4 DEF DurableInv
<1>6. ASSUME NEW c \in Client, Mutate(c) PROVE DurableInv'
  <2>1. SameState
    BY <1>6, Numbers DEF Mutate, SameState, CacheData, TypeInv, TypeOK
  <2>2. Linked'
    BY <1>6, LinkedFrame DEF Mutate, DurableInv, entryVars, storeVars, clientVars,
       flushVars, clearVars, ghostVars
  <2>3. Bounded'
    <3> DEFINE d == [heap[held[c]] EXCEPT !.data = NextValue(op[c].key, heap[held[c]].data.alive)]
    <3>1. held[c] \in Entry /\ held[c][1] = op[c].key /\ op[c].key \in Key
      BY <1>6, Numbers DEF Mutate, DurableInv, Linked
    <3>2. heap' = [heap EXCEPT ![held[c]] = d]
      BY <1>6, <3>1 DEF Mutate, TypeInv, TypeOK
    <3>3. d.acked = heap[held[c]].acked /\ d.data.rev = rev[op[c].key] + 1
      BY <3>1, Numbers DEF CacheData, NextValue
    <3>4. /\ heap[held[c]].acked <= rev[op[c].key] + 1
          /\ rev' = [rev EXCEPT ![op[c].key] = rev[op[c].key] + 1]
      <4>1. heap[held[c]].acked <= heap[held[c]].data.rev /\ heap[held[c]].data.rev <= rev[op[c].key]
        BY <3>1 DEF DurableInv, Bounded
      <4>2. heap[held[c]].acked \in Nat /\ heap[held[c]].data.rev \in Nat /\ rev[op[c].key] \in Nat
        BY <3>1, Numbers
      <4> QED
        BY <1>6, <4>1, <4>2 DEF Mutate
    <3> HIDE DEF d
    <3>9. rev'[op[c].key] = rev[op[c].key] + 1 /\ \A j \in Key : j # op[c].key => rev'[j] = rev[j]
      BY <3>1, <3>4 DEF TypeInv, TypeOK
    <3>5. \A j \in Key : rev'[j] \in Nat /\ rev[j] <= rev'[j]
      BY <3>9, <3>1, Numbers
    <3>6. d.acked <= d.data.rev /\ d.data.rev <= rev'[held[c][1]]
      BY <3>1, <3>3, <3>4, <3>9, Numbers
    <3>7. \A f \in Client : op'[f].pc \in {"fillR", "fillD"} => op'[f] = op[f]
      BY <1>6 DEF Mutate, clientVars
    <3>8. UNCHANGED <<db, redis, pend>>
      BY <1>6 DEF Mutate, entryVars, storeVars, clientVars, flushVars, clearVars, ghostVars
    <3> QED
      BY <3>1, <3>2, <3>5, <3>6, <3>7, <3>8, OneEntryBounded DEF DurableInv
  <2>4. Scanned'
    BY <1>6, ScannedFrame DEF Mutate, DurableInv, entryVars, storeVars, clientVars,
       flushVars, clearVars, ghostVars
  <2>5. Versioned' /\ Unflushed' /\ CleanIsDurable'
    BY <1>6, <2>1, StateFrame DEF Mutate, DurableInv, entryVars, storeVars, clientVars,
       flushVars, clearVars, ghostVars
  <2> QED
    BY <2>1, <2>2, <2>3, <2>4, <2>5 DEF DurableInv
<1>7. ASSUME NEW c \in Client, Push(c) PROVE DurableInv'
  <2>1. SameState /\ \A f \in Entry : heap'[f].data = heap[f].data
    <3>1. cacheMap[op[c].key] \in Entry
      BY <1>7, Numbers DEF Push
    <3> DEFINE e == cacheMap[op[c].key]
               d == [heap[e] EXCEPT !.del = FALSE]
    <3>2. heap' = [heap EXCEPT ![e] = d]
      BY <1>7, <3>1 DEF Push, TypeInv, TypeOK
    <3>3. /\ d.ver = heap[e].ver /\ d.upd = heap[e].upd
          /\ d.acked = heap[e].acked /\ d.data = heap[e].data
      BY <3>1, Numbers DEF CacheData
    <3> HIDE DEF d, e
    <3> QED
      BY <3>1, <3>2, <3>3 DEF SameState, TypeInv, TypeOK
  <2>2. Linked'
    BY <1>7, Numbers DEF Push, DurableInv, Linked, NoOp, Call, TypeInv, TypeOK,
       entryVars, storeVars, clientVars, flushVars, clearVars, ghostVars
  <2>3. Bounded'
    <3>1. \A f \in Client : op'[f].pc \in {"fillR", "fillD"} => op'[f] = op[f]
      BY <1>7 DEF Push, Call, TypeInv, TypeOK
    <3>2. UNCHANGED <<rev, db, redis, pend>>
      BY <1>7 DEF Push, entryVars, storeVars, clientVars, flushVars, clearVars, ghostVars
    <3> QED
      BY <2>1, <3>1, <3>2 DEF DurableInv, Bounded, SameState
  <2>4. Scanned'
    BY <1>7, ScannedFrame DEF Push, DurableInv, entryVars, storeVars, clientVars,
       flushVars, clearVars, ghostVars
  <2>5. Versioned' /\ Unflushed' /\ CleanIsDurable'
    BY <1>7, <2>1, StateFrame DEF Push, DurableInv, entryVars, storeVars, clientVars,
       flushVars, clearVars, ghostVars
  <2> QED
    BY <2>1, <2>2, <2>3, <2>4, <2>5 DEF DurableInv
<1>8. ASSUME NEW c \in Client, LoadRedis(c) PROVE DurableInv'
  <2>1. Linked'
    BY <1>8, Numbers DEF LoadRedis, DurableInv, Linked, NoOp, Call, TypeInv, TypeOK,
       entryVars, storeVars, clientVars, flushVars, clearVars, ghostVars
  <2>2. Bounded'
    BY <1>8, OpBounded DEF LoadRedis, DurableInv, Bounded, NoOp, Call, TypeInv, TypeOK,
       Op, entryVars, storeVars, clientVars, flushVars, clearVars, ghostVars
  <2>3. Scanned'
    BY <1>8, ScannedFrame DEF LoadRedis, DurableInv, entryVars, storeVars, clientVars,
       flushVars, clearVars, ghostVars
  <2>4. Versioned' /\ Unflushed' /\ CleanIsDurable'
    BY <1>8, StateFrame DEF LoadRedis, DurableInv, SameState, entryVars, storeVars,
       clientVars, flushVars, clearVars, ghostVars
  <2> QED
    BY <2>1, <2>2, <2>3, <2>4 DEF DurableInv
<1>9. ASSUME NEW c \in Client, LoadQuery(c) PROVE DurableInv'
  <2>1. op[c].key \in Key /\ db[op[c].key].rev <= rev[op[c].key]
    BY Numbers DEF DurableInv, Bounded
  <2>2. \/ op' = [op EXCEPT ![c] = Call("fillD", op[c].key, NoEntry, db[op[c].key])]
        \/ op' = [op EXCEPT ![c] = NoOp(op[c].key)]
    BY <1>9 DEF LoadQuery
  <2>3. op'[c].key = op[c].key /\ op'[c].pc \in {"fillD", "idle"}
        /\ (op'[c].pc = "fillD" => op'[c].val = db[op[c].key])
        /\ \A d \in Client : d # c => op'[d] = op[d]
    BY <2>2, Numbers DEF NoOp, Call, TypeInv, TypeOK
  <2>4. Linked'
    BY <1>9, <2>3, Numbers DEF LoadQuery, DurableInv, Linked, entryVars, storeVars,
       clientVars, flushVars, clearVars, ghostVars
  <2>5. Bounded'
    BY <1>9, <2>1, <2>3, OpBounded, Numbers DEF LoadQuery, DurableInv, Bounded,
       entryVars, storeVars, clientVars, flushVars, clearVars, ghostVars
  <2>6. Scanned'
    BY <1>9, ScannedFrame DEF LoadQuery, DurableInv, entryVars, storeVars, clientVars,
       flushVars, clearVars, ghostVars
  <2>7. Versioned' /\ Unflushed' /\ CleanIsDurable'
    BY <1>9, StateFrame DEF LoadQuery, DurableInv, SameState, entryVars, storeVars,
       clientVars, flushVars, clearVars, ghostVars
  <2> QED
    BY <2>1, <2>2, <2>3, <2>4, <2>5, <2>6, <2>7 DEF DurableInv
<1>10. ASSUME NEW c \in Client, LoadFill(c) PROVE DurableInv'
  <2>1. op[c].key \in Key /\ op[c].val \in Value
    BY <1>10, Numbers DEF LoadFill, TypeInv, OpTyped
  <2>2. Linked'
    <3> DEFINE k == op[c].key
               n == <<k, gen[k] + 1>>
               q == IF op[c].pc = "fillR" THEN NoOp(k) ELSE Call("back", k, n, NoVal)
    <3>1. n \in Entry /\ gen[k] \in Nat /\ n[1] = k /\ n[2] = gen[k] + 1
      BY SMTT(30), <1>10, <2>1 DEF LoadFill, PutNew, Entry, TypeInv, TypeOK
    <3>2. q \in Op /\ q.key = k /\ (q.pc \in {"back", "cache", "mark"} => q.ref = n)
      BY <2>1, <3>1 DEF NoOp, Call, Op, OpPc
    <3>3. /\ op' = [op EXCEPT ![c] = q]
          /\ held' = [held EXCEPT ![c] = n]
          /\ cacheMap' = [cacheMap EXCEPT ![k] = n]
          /\ gen' = [gen EXCEPT ![k] = gen[k] + 1]
      BY <1>10 DEF LoadFill, PutNew
    <3> HIDE DEF n, q
    <3>4. held'[c] = n /\ \A d \in Client \ {c} : held'[d] = held[d]
      BY <3>3 DEF TypeInv, TypeOK
    <3>5. ASSUME NEW j \in Key, cacheMap'[j] # NoEntry
          PROVE  cacheMap'[j][1] = j /\ cacheMap'[j][2] <= gen'[j]
      <4>1. CASE j = k
        BY <2>1, <3>1, <3>3, <4>1 DEF TypeInv, TypeOK
      <4>2. CASE j # k
        BY <3>3, <3>5, <4>2 DEF DurableInv, Linked, TypeInv, TypeOK
      <4> QED
        BY <4>1, <4>2
    <3> HIDE DEF k
    <3> QED
      BY <3>1, <3>2, <3>3, <3>4, <3>5, LinkedCall DEF DurableInv
  <2>3. Bounded'
    <3> DEFINE n == <<op[c].key, gen[op[c].key] + 1>>
    <3> DEFINE d == NewCacheData(op[c].val)
    <3>1. heap' = [heap EXCEPT ![n] = d] /\ n \in Entry /\ n[1] = op[c].key
      BY <1>10, <2>1, FreshEntry DEF LoadFill, PutNew
    <3>2. d.acked = 0 /\ d.data = op[c].val
      BY DEF NewCacheData
    <3>3. op[c].val.rev \in Nat /\ op[c].val.rev <= rev'[op[c].key]
      BY <1>10, <2>1, Numbers DEF LoadFill, NextValue, Value, DurableInv, Bounded,
         TypeInv, TypeOK, entryVars, storeVars, clientVars, flushVars, clearVars,
         ghostVars
    <3>4. \A j \in Key : rev'[j] \in Nat /\ rev[j] <= rev'[j]
      BY <1>10, Numbers DEF LoadFill, TypeInv, TypeOK, entryVars, storeVars, clientVars,
         flushVars, clearVars, ghostVars
    <3>5. \A f \in Client : op'[f].pc \in {"fillR", "fillD"} => op'[f] = op[f]
      BY <1>10 DEF LoadFill, NoOp, Call, TypeInv, TypeOK
    <3>6. UNCHANGED <<db, redis, pend>>
      BY <1>10 DEF LoadFill, entryVars, storeVars, clientVars, flushVars, clearVars,
         ghostVars
    <3> HIDE DEF d, n
    <3>7. d.acked <= d.data.rev /\ d.data.rev <= rev'[n[1]]
      BY <3>1, <3>2, <3>3 DEF NextValue
    <3> QED
      BY <3>1, <3>4, <3>5, <3>6, <3>7, OneEntryBounded DEF DurableInv
  <2>4. Scanned' /\ Versioned' /\ Unflushed' /\ CleanIsDurable'
    BY <1>10, <2>1, PutNewKeeps DEF LoadFill, entryVars, storeVars, clientVars,
       flushVars, clearVars, ghostVars
  <2> QED
    BY <2>1, <2>2, <2>3, <2>4 DEF DurableInv
<1>11. ASSUME NEW c \in Client, LoadBack(c) PROVE DurableInv'
  <2>1. Linked'
    BY <1>11, Numbers DEF LoadBack, DurableInv, Linked, NoOp, Call, TypeInv, TypeOK,
       entryVars, storeVars, clientVars, flushVars, clearVars, ghostVars
  <2>2. Bounded'
    <3>1. op[c].ref \in Entry /\ op[c].ref[1] = op[c].key /\ op[c].key \in Key
      BY <1>11, Numbers DEF LoadBack, DurableInv, Linked, TypeInv, OpTyped
    <3>2. heap[op[c].ref].data.rev <= rev[op[c].key]
      BY <3>1 DEF DurableInv, Bounded
    <3> QED
      BY <1>11, <3>1, <3>2 DEF LoadBack, DurableInv, Bounded, NoOp, Call, TypeInv,
         TypeOK, entryVars, storeVars, clientVars, flushVars, clearVars, ghostVars
  <2>3. Scanned'
    BY <1>11, ScannedFrame DEF LoadBack, DurableInv, entryVars, storeVars, clientVars,
       flushVars, clearVars, ghostVars
  <2>4. Versioned' /\ Unflushed' /\ CleanIsDurable'
    BY <1>11, StateFrame DEF LoadBack, DurableInv, SameState, entryVars, storeVars,
       clientVars, flushVars, clearVars, ghostVars
  <2> QED
    BY <2>1, <2>2, <2>3, <2>4 DEF DurableInv
<1>12. ASSUME NEW c \in Client, WriteCache(c) PROVE DurableInv'
  <2>1. Linked'
    BY SMTT(30), <1>12, Numbers DEF WriteCache, DurableInv, Linked, NoOp, Call, TypeInv, TypeOK,
       entryVars, storeVars, clientVars, flushVars, clearVars, ghostVars
  <2>2. Bounded'
    <3>1. op[c].ref \in Entry /\ op[c].ref[1] = op[c].key /\ op[c].key \in Key
      BY <1>12, Numbers DEF WriteCache, DurableInv, Linked, TypeInv, OpTyped
    <3>2. heap[op[c].ref].data.rev <= rev[op[c].key]
      BY <3>1 DEF DurableInv, Bounded
    <3> QED
      BY <1>12, <3>1, <3>2 DEF WriteCache, DurableInv, Bounded, NoOp, Call, TypeInv,
         TypeOK, entryVars, storeVars, clientVars, flushVars, clearVars, ghostVars
  <2>3. Scanned'
    BY <1>12, ScannedFrame DEF WriteCache, DurableInv, entryVars, storeVars, clientVars,
       flushVars, clearVars, ghostVars
  <2>4. Versioned' /\ Unflushed' /\ CleanIsDurable'
    BY <1>12, StateFrame DEF WriteCache, DurableInv, SameState, entryVars, storeVars,
       clientVars, flushVars, clearVars, ghostVars
  <2> QED
    BY <2>1, <2>2, <2>3, <2>4 DEF DurableInv
<1>13. ASSUME NEW c \in Client, MarkUpdate(c) PROVE DurableInv'
  <2>1. op[c].ref \in Entry
    BY <1>13, Numbers DEF MarkUpdate, TypeInv, OpTyped
  <2>2. /\ heap' = [heap EXCEPT ![op[c].ref] = Updated(op[c].ref)]
        /\ Updated(op[c].ref).ver = heap[op[c].ref].ver + 1 /\ Updated(op[c].ref).upd = TRUE
        /\ Updated(op[c].ref).acked = heap[op[c].ref].data.rev /\ Updated(op[c].ref).data = heap[op[c].ref].data
    BY <1>13, <2>1, Numbers DEF MarkUpdate, Updated, CacheData
  <2>3. Linked'
    BY <1>13, <2>1, Numbers DEF MarkUpdate, DurableInv, Linked, NoOp, Call, TypeInv,
       TypeOK, entryVars, storeVars, clientVars, flushVars, clearVars, ghostVars
  <2>4. Bounded'
    <3>1. \A f \in Client : op'[f].pc \in {"fillR", "fillD"} => op'[f] = op[f]
      BY <1>13 DEF MarkUpdate, NoOp, Call, TypeInv, TypeOK
    <3>2. heap[op[c].ref].data.rev <= rev[op[c].ref[1]] /\ heap[op[c].ref].data.rev \in Nat
      BY <2>1, Numbers DEF DurableInv, Bounded
    <3>3. \A j \in Key : rev'[j] \in Nat /\ rev[j] <= rev'[j] /\ rev'[j] = rev[j]
      BY <1>13, Numbers DEF MarkUpdate
    <3>4. UNCHANGED <<db, redis, pend, rev>>
      BY <1>13 DEF MarkUpdate, entryVars, storeVars, clientVars, flushVars, clearVars,
         ghostVars
    <3> DEFINE d == Updated(op[c].ref)
    <3>5. d.acked <= d.data.rev /\ d.data.rev <= rev'[op[c].ref[1]]
      BY <2>1, <2>2, <3>2, <3>3, Numbers
    <3>6. heap' = [heap EXCEPT ![op[c].ref] = d]
      BY <2>2
    <3> HIDE DEF d
    <3> QED
      BY <2>1, <3>1, <3>3, <3>4, <3>5, <3>6, OneEntryBounded DEF DurableInv
  <2>5. Scanned'
    BY <1>13, ScannedFrame DEF MarkUpdate, DurableInv, entryVars, storeVars, clientVars,
       flushVars, clearVars, ghostVars
  <2>6. Versioned' /\ Unflushed' /\ CleanIsDurable'
    <3>1. UNCHANGED <<cacheMap, fpc, cur, pend, batch, db>>
      BY <1>13 DEF MarkUpdate, entryVars, storeVars, clientVars, flushVars, clearVars,
         ghostVars
    <3> QED
      BY <2>1, <2>2, <3>1, MarkKeeps
  <2> QED
    BY <2>1, <2>2, <2>3, <2>4, <2>5, <2>6 DEF DurableInv
<1>14. ASSUME NEW c \in Client, Tomb(c) PROVE DurableInv'
  <2>1. CASE cacheMap[op[c].key] = NoEntry
    <3>1. Linked'
      BY <1>14, <2>1, Numbers DEF Tomb, DurableInv, Linked, NoOp, Call, TypeInv, TypeOK,
         entryVars, storeVars, clientVars, flushVars, clearVars, ghostVars
    <3>2. Bounded'
      BY <1>14, <2>1, OpBounded DEF Tomb, DurableInv, Bounded, NoOp, Call, TypeInv,
         TypeOK, entryVars, storeVars, clientVars, flushVars, clearVars, ghostVars
    <3>3. Scanned'
      BY <1>14, ScannedFrame DEF Tomb, DurableInv, entryVars, storeVars, clientVars,
         flushVars, clearVars, ghostVars
    <3>4. Versioned' /\ Unflushed' /\ CleanIsDurable'
      BY <1>14, <2>1, StateFrame DEF Tomb, DurableInv, SameState, entryVars, storeVars,
         clientVars, flushVars, clearVars, ghostVars
    <3> QED
      BY <3>1, <3>2, <3>3, <3>4 DEF DurableInv
  <2>2. CASE cacheMap[op[c].key] # NoEntry
    <3>1. cacheMap[op[c].key] \in Entry
      BY <1>14, <2>2, Numbers DEF Tomb, TypeInv, OpTyped
    <3>2. /\ heap' = [heap EXCEPT ![cacheMap[op[c].key]] = Deleted(cacheMap[op[c].key])]
          /\ Deleted(cacheMap[op[c].key]).ver = heap[cacheMap[op[c].key]].ver + 1 /\ Deleted(cacheMap[op[c].key]).upd = TRUE
          /\ Deleted(cacheMap[op[c].key]).acked = heap[cacheMap[op[c].key]].data.rev /\ Deleted(cacheMap[op[c].key]).data = heap[cacheMap[op[c].key]].data
      BY <1>14, <2>2, <3>1, Numbers DEF Tomb, Deleted, CacheData
    <3>3. Linked'
      <4>1. NoOp(op[c].key) \in Op /\ NoOp(op[c].key).key = op[c].key
            /\ NoOp(op[c].key).pc = "idle"
        BY Numbers DEF NoOp, Call, Op, OpPc, DurableInv
      <4>2. op' = [op EXCEPT ![c] = NoOp(op[c].key)] /\ UNCHANGED <<cacheMap, gen, held>>
        BY <1>14 DEF Tomb
      <4> QED
        BY <4>1, <4>2, LinkedCall DEF DurableInv, Linked
    <3>4. Bounded'
      <4>1. \A f \in Client : op'[f].pc \in {"fillR", "fillD"} => op'[f] = op[f]
        BY <1>14, <2>2 DEF Tomb, NoOp, Call, TypeInv, TypeOK
      <4>2. heap[cacheMap[op[c].key]].data.rev <= rev[cacheMap[op[c].key][1]] /\ heap[cacheMap[op[c].key]].data.rev \in Nat
        BY <3>1, Numbers DEF DurableInv, Bounded
      <4>3. \A j \in Key : rev'[j] \in Nat /\ rev[j] <= rev'[j] /\ rev'[j] = rev[j]
        BY <1>14, <2>2, Numbers DEF Tomb
      <4>4. UNCHANGED <<db, redis, pend, rev>>
        BY <1>14, <2>2 DEF Tomb, entryVars, storeVars, clientVars, flushVars, clearVars,
           ghostVars
      <4> DEFINE d == Deleted(cacheMap[op[c].key])
      <4>5. d.acked <= d.data.rev /\ d.data.rev <= rev'[cacheMap[op[c].key][1]]
        BY <3>2, <4>2, <4>4
      <4>6. heap' = [heap EXCEPT ![cacheMap[op[c].key]] = d]
        BY <3>2
      <4> HIDE DEF d
      <4> QED
        BY <3>1, <4>1, <4>3, <4>4, <4>5, <4>6, OneEntryBounded DEF DurableInv
    <3>5. Scanned'
      BY <1>14, <2>2, ScannedFrame DEF Tomb, DurableInv, entryVars, storeVars,
         clientVars, flushVars, clearVars, ghostVars
    <3>6. Versioned' /\ Unflushed' /\ CleanIsDurable'
      <4>1. UNCHANGED <<cacheMap, fpc, cur, pend, batch, db>>
        BY <1>14, <2>2 DEF Tomb, entryVars, storeVars, clientVars, flushVars, clearVars,
           ghostVars
      <4> QED
        BY <3>1, <3>2, <4>1, MarkKeeps
    <3> QED
      BY <3>1, <3>2, <3>3, <3>4, <3>5, <3>6 DEF DurableInv
  <2> QED
    BY <2>1, <2>2
<1>15. ASSUME TimerFlush PROVE DurableInv'
  <2>1. Linked'
    BY <1>15, LinkedFrame DEF TimerFlush, DurableInv, entryVars, storeVars, clientVars,
       flushVars, clearVars, ghostVars
  <2>2. Bounded'
    BY <1>15, BoundedFrame DEF TimerFlush, DurableInv, entryVars, storeVars, clientVars,
       flushVars, clearVars, ghostVars
  <2>3. Scanned'
    BY <1>15 DEF TimerFlush, BeginRound, DurableInv, Scanned, entryVars, storeVars,
       clientVars, flushVars, clearVars, ghostVars
  <2>4. Versioned' /\ Unflushed' /\ CleanIsDurable'
    BY <1>15 DEF TimerFlush, BeginRound, DurableInv, Scanned, Versioned, Unflushed,
       CleanIsDurable, entryVars, storeVars, clientVars, flushVars, clearVars, ghostVars
  <2> QED
    BY <2>1, <2>2, <2>3, <2>4 DEF DurableInv
<1>16. ASSUME FlushNowCall PROVE DurableInv'
  <2>1. Linked'
    BY <1>16, LinkedFrame DEF FlushNowCall, DurableInv, entryVars, storeVars,
       clientVars, flushVars, clearVars, ghostVars
  <2>2. Bounded'
    BY <1>16, BoundedFrame DEF FlushNowCall, DurableInv, entryVars, storeVars,
       clientVars, flushVars, clearVars, ghostVars
  <2>3. Scanned'
    BY <1>16, ScannedFrame DEF FlushNowCall, DurableInv, entryVars, storeVars,
       clientVars, flushVars, clearVars, ghostVars
  <2>4. Versioned' /\ Unflushed' /\ CleanIsDurable'
    BY <1>16, StateFrame DEF FlushNowCall, DurableInv, SameState, entryVars, storeVars,
       clientVars, flushVars, clearVars, ghostVars
  <2> QED
    BY <2>1, <2>2, <2>3, <2>4 DEF DurableInv
<1>17. ASSUME FlushNowLock PROVE DurableInv'
  <2>1. Linked'
    BY <1>17, LinkedFrame DEF FlushNowLock, DurableInv, entryVars, storeVars,
       clientVars, flushVars, clearVars, ghostVars
  <2>2. Bounded'
    BY <1>17, BoundedFrame DEF FlushNowLock, DurableInv, entryVars, storeVars,
       clientVars, flushVars, clearVars, ghostVars
  <2>3. Scanned'
    BY <1>17 DEF FlushNowLock, BeginRound, DurableInv, Scanned, entryVars, storeVars,
       clientVars, flushVars, clearVars, ghostVars
  <2>4. Versioned' /\ Unflushed' /\ CleanIsDurable'
    BY <1>17 DEF FlushNowLock, BeginRound, DurableInv, Scanned, Versioned, Unflushed,
       CleanIsDurable, entryVars, storeVars, clientVars, flushVars, clearVars, ghostVars
  <2> QED
    BY <2>1, <2>2, <2>3, <2>4 DEF DurableInv
<1>18. ASSUME NEW k \in Key, ScanState(k) PROVE DurableInv'
  <2>1. Linked'
    BY <1>18, LinkedFrame DEF ScanState, DurableInv, entryVars, storeVars, clientVars,
       flushVars, clearVars, ghostVars
  <2>2. Bounded'
    BY <1>18, BoundedFrame DEF ScanState, DurableInv, entryVars, storeVars, clientVars,
       flushVars, clearVars, ghostVars
  <2>3. Scanned'
    BY <1>18, Numbers DEF ScanState, DurableInv, Linked, Scanned, entryVars, storeVars,
       clientVars, flushVars, clearVars, ghostVars
  <2>4. Versioned' /\ Unflushed' /\ CleanIsDurable'
    BY <1>18, Numbers DEF ScanState, DurableInv, Scanned, Versioned, Unflushed,
       CleanIsDurable, entryVars, storeVars, clientVars, flushVars, clearVars, ghostVars
  <2> QED
    BY <2>1, <2>2, <2>3, <2>4 DEF DurableInv
<1>19. ASSUME ScanValue PROVE DurableInv'
  <2>1. cur \in Ref /\ cur.entry \in Entry /\ cur.key \in Key
    BY <1>19 DEF ScanValue, TypeInv, Ref
  <2>2. Linked'
    BY <1>19, LinkedFrame DEF ScanValue, DurableInv, entryVars, storeVars, clientVars,
       flushVars, clearVars, ghostVars
  <2>3. Bounded'
    BY <1>19, <2>1, Numbers DEF ScanValue, DurableInv, Bounded, Scanned, entryVars,
       storeVars, clientVars, flushVars, clearVars, ghostVars
  <2>4. Scanned'
    BY <1>19, <2>1, Numbers DEF ScanValue, DurableInv, Scanned, entryVars, storeVars,
       clientVars, flushVars, clearVars, ghostVars
  <2>5. Versioned'
    BY <1>19, <2>1, Numbers DEF ScanValue, DurableInv, Bounded, Scanned, Versioned,
       entryVars, storeVars, clientVars, flushVars, clearVars, ghostVars
  <2>6. Unflushed' /\ CleanIsDurable'
    BY <1>19, <2>1 DEF ScanValue, DurableInv, Unflushed, CleanIsDurable, entryVars,
       storeVars, clientVars, flushVars, clearVars, ghostVars
  <2> QED
    BY <2>1, <2>2, <2>3, <2>4, <2>5, <2>6 DEF DurableInv
<1>20. ASSUME FlushCommit PROVE DurableInv'
  <2>1. PICK b \in SUBSET pend :
          /\ NextBatch(b)
          /\ db' \in {db, Upserted(b)}
          /\ pend' = pend \ b
          /\ batch' = b /\ db' = Upserted(b)
    BY <1>20 DEF FlushCommit
  <2>2. Linked'
    BY <1>20, LinkedFrame DEF FlushCommit, DurableInv, entryVars, storeVars, clientVars,
       flushVars, clearVars, ghostVars
  <2>3. (\A k \in Key : db'[k].rev <= rev[k]) /\ CleanIsDurable'
    BY <1>20, <2>1, UpsertKeeps DEF FlushCommit, entryVars, storeVars, clientVars,
       flushVars, clearVars, ghostVars
  <2>4. Bounded'
    BY <1>20, <2>1, <2>3 DEF FlushCommit, DurableInv, Bounded, entryVars, storeVars,
       clientVars, flushVars, clearVars, ghostVars
  <2>5. Scanned'
    BY <1>20, <2>1 DEF FlushCommit, NextBatch, DurableInv, Scanned, entryVars,
       storeVars, clientVars, flushVars, clearVars, ghostVars
  <2>6. Versioned'
    BY <1>20, <2>1, UpsertedRows, Numbers DEF FlushCommit, NextBatch, DurableInv,
       Scanned, Versioned, entryVars, storeVars, clientVars, flushVars, clearVars,
       ghostVars
  <2>7. Unflushed'
    BY <1>20, <2>1 DEF FlushCommit, NextBatch, DurableInv, Unflushed, entryVars,
       storeVars, clientVars, flushVars, clearVars, ghostVars
  <2> QED
    BY <2>1, <2>2, <2>3, <2>4, <2>5, <2>6, <2>7 DEF DurableInv
<1>21. ASSUME FlushFault PROVE DurableInv'
  <2>1. PICK b \in SUBSET pend :
          /\ NextBatch(b)
          /\ db' \in {db, Upserted(b)}
          /\ pend' = pend \ b
          /\ batch' = batch
    BY <1>21 DEF FlushFault
  <2>2. Linked'
    BY <1>21, LinkedFrame DEF FlushFault, DurableInv, entryVars, storeVars, clientVars,
       flushVars, clearVars, ghostVars
  <2>3. (\A k \in Key : db'[k].rev <= rev[k]) /\ CleanIsDurable'
    BY <1>21, <2>1, UpsertKeeps DEF FlushFault, entryVars, storeVars, clientVars,
       flushVars, clearVars, ghostVars
  <2>4. Bounded'
    BY <1>21, <2>1, <2>3 DEF FlushFault, DurableInv, Bounded, entryVars, storeVars,
       clientVars, flushVars, clearVars, ghostVars
  <2>5. Scanned'
    BY <1>21, <2>1 DEF FlushFault, NextBatch, DurableInv, Scanned, entryVars, storeVars,
       clientVars, flushVars, clearVars, ghostVars
  <2>6. Versioned'
    BY <1>21, <2>1 DEF FlushFault, NextBatch, DurableInv, Scanned, Versioned, entryVars,
       storeVars, clientVars, flushVars, clearVars, ghostVars
  <2>7. Unflushed'
    BY <1>21, <2>1 DEF FlushFault, NextBatch, DurableInv, Unflushed, entryVars,
       storeVars, clientVars, flushVars, clearVars, ghostVars
  <2> QED
    BY <2>1, <2>2, <2>3, <2>4, <2>5, <2>6, <2>7 DEF DurableInv
<1>22. ASSUME NEW s \in batch, FlushClear(s) PROVE DurableInv'
  <2>1. s.entry \in Entry /\ s.key \in Key /\ s.ver \in Nat /\ s.val.rev \in Nat
    BY Numbers
  <2>2. /\ \A f \in Entry : f # s.entry => heap'[f] = heap[f]
        /\ heap'[s.entry].ver = heap[s.entry].ver
        /\ heap'[s.entry].acked = heap[s.entry].acked
        /\ heap'[s.entry].data = heap[s.entry].data
        /\ ~heap'[s.entry].upd => ~heap[s.entry].upd \/ heap[s.entry].ver = s.ver
    BY <1>22, <2>1, Numbers DEF FlushClear, ClearedIfVersion, CacheData, TypeInv, TypeOK
  <2>3. Linked'
    BY <1>22, LinkedFrame DEF FlushClear, DurableInv, entryVars, storeVars, clientVars,
       flushVars, clearVars, ghostVars
  <2>4. Bounded'
    BY <1>22, <2>1, <2>2, Numbers DEF FlushClear, DurableInv, Bounded, entryVars,
       storeVars, clientVars, flushVars, clearVars, ghostVars
  <2>5. Scanned'
    BY <1>22 DEF FlushClear, DurableInv, Scanned, entryVars, storeVars, clientVars,
       flushVars, clearVars, ghostVars
  <2>6. Versioned'
    BY <1>22, <2>1, <2>2, Numbers DEF FlushClear, DurableInv, Scanned, Versioned,
       entryVars, storeVars, clientVars, flushVars, clearVars, ghostVars
  <2>7. Unflushed'
    BY <1>22, <2>1, <2>2, Numbers DEF FlushClear, DurableInv, Linked, Scanned,
       Unflushed, entryVars, storeVars, clientVars, flushVars, clearVars, ghostVars
  <2>8. CleanIsDurable'
    BY <1>22, <2>1, <2>2, Numbers DEF FlushClear, DurableInv, Linked, Scanned,
       Versioned, CleanIsDurable, entryVars, storeVars, clientVars, flushVars,
       clearVars, ghostVars
  <2> QED
    BY <2>1, <2>2, <2>3, <2>4, <2>5, <2>6, <2>7, <2>8 DEF DurableInv
<1>23. ASSUME FlushDone PROVE DurableInv'
  <2>1. Linked'
    BY <1>23, LinkedFrame DEF FlushDone, DurableInv, entryVars, storeVars, clientVars,
       flushVars, clearVars, ghostVars
  <2>2. Bounded'
    BY <1>23, BoundedFrame DEF FlushDone, DurableInv, entryVars, storeVars, clientVars,
       flushVars, clearVars, ghostVars
  <2>3. Scanned'
    BY <1>23 DEF FlushDone, BeginRound, DurableInv, Scanned, entryVars, storeVars,
       clientVars, flushVars, clearVars, ghostVars
  <2>4. Versioned' /\ Unflushed' /\ CleanIsDurable'
    BY <1>23 DEF FlushDone, BeginRound, DurableInv, Scanned, Versioned, Unflushed,
       CleanIsDurable, entryVars, storeVars, clientVars, flushVars, clearVars, ghostVars
  <2> QED
    BY <2>1, <2>2, <2>3, <2>4 DEF DurableInv
<1>24. ASSUME NEW k \in Key, RedisExpire(k) PROVE DurableInv'
  <2>1. Linked'
    BY <1>24, LinkedFrame DEF RedisExpire, DurableInv, entryVars, storeVars, clientVars,
       flushVars, clearVars, ghostVars
  <2>2. Bounded'
    BY <1>24 DEF RedisExpire, DurableInv, Bounded, TypeInv, TypeOK, entryVars,
       storeVars, clientVars, flushVars, clearVars, ghostVars
  <2>3. Scanned'
    BY <1>24, ScannedFrame DEF RedisExpire, DurableInv, entryVars, storeVars,
       clientVars, flushVars, clearVars, ghostVars
  <2>4. Versioned' /\ Unflushed' /\ CleanIsDurable'
    BY <1>24, StateFrame DEF RedisExpire, DurableInv, SameState, entryVars, storeVars,
       clientVars, flushVars, clearVars, ghostVars
  <2> QED
    BY <2>1, <2>2, <2>3, <2>4 DEF DurableInv
<1>25. ASSUME NEW k \in Key, Expire(k) PROVE DurableInv'
  <2>1. SameState /\ \A f \in Entry : heap'[f].data = heap[f].data
    BY <1>25, Numbers DEF Expire, SameState, CacheData, TypeInv, TypeOK
  <2>2. Linked'
    BY <1>25, LinkedFrame DEF Expire, DurableInv, entryVars, storeVars, clientVars,
       flushVars, clearVars, ghostVars
  <2>3. Bounded'
    <3>1. /\ rev' = rev /\ db' = db /\ redis' = redis /\ op' = op /\ pend' = pend
          /\ \A f \in Entry : heap'[f].acked = heap[f].acked
      BY <1>25, <2>1 DEF Expire, SameState, storeVars, clientVars, flushVars
    <3> QED
      BY <2>1, <3>1 DEF DurableInv, Bounded
  <2>4. Scanned'
    BY <1>25, ScannedFrame DEF Expire, DurableInv, entryVars, storeVars, clientVars,
       flushVars, clearVars, ghostVars
  <2>5. Versioned' /\ Unflushed' /\ CleanIsDurable'
    BY <1>25, <2>1, StateFrame DEF Expire, DurableInv, entryVars, storeVars, clientVars,
       flushVars, clearVars, ghostVars
  <2> QED
    BY <2>1, <2>2, <2>3, <2>4, <2>5 DEF DurableInv
<1>26. ASSUME NEW k \in Key, ClearCollect(k) PROVE DurableInv'
  <2>1. Linked'
    BY <1>26, LinkedFrame DEF ClearCollect, DurableInv, entryVars, storeVars,
       clientVars, flushVars, clearVars, ghostVars
  <2>2. Bounded'
    BY <1>26, BoundedFrame DEF ClearCollect, DurableInv, entryVars, storeVars,
       clientVars, flushVars, clearVars, ghostVars
  <2>3. Scanned'
    BY <1>26, ScannedFrame DEF ClearCollect, DurableInv, entryVars, storeVars,
       clientVars, flushVars, clearVars, ghostVars
  <2>4. Versioned' /\ Unflushed' /\ CleanIsDurable'
    BY <1>26, StateFrame DEF ClearCollect, DurableInv, SameState, entryVars, storeVars,
       clientVars, flushVars, clearVars, ghostVars
  <2> QED
    BY <2>1, <2>2, <2>3, <2>4 DEF DurableInv
<1>27. ASSUME NEW k \in Key, ClearDrop(k) PROVE DurableInv'
  <2>1. Linked'
    BY <1>27, Numbers DEF ClearDrop, DurableInv, Linked, NoOp, Call, TypeInv, TypeOK,
       entryVars, storeVars, clientVars, flushVars, clearVars, ghostVars
  <2>2. Bounded'
    BY <1>27, BoundedFrame DEF ClearDrop, DurableInv, entryVars, storeVars, clientVars,
       flushVars, clearVars, ghostVars
  <2>3. Scanned'
    BY <1>27, ScannedFrame DEF ClearDrop, DurableInv, entryVars, storeVars, clientVars,
       flushVars, clearVars, ghostVars
  <2>4. \A j \in Key : cacheMap'[j] # NoEntry => cacheMap'[j] = cacheMap[j]
    BY <1>27 DEF ClearDrop, TypeInv, TypeOK
  <2>5. Versioned'
    BY <1>27 DEF ClearDrop, DurableInv, Versioned, entryVars, storeVars, clientVars,
       flushVars, clearVars, ghostVars
  <2>6. Unflushed'
    BY <1>27, <2>4, Numbers DEF ClearDrop, DurableInv, Unflushed, TypeInv, Ref,
       entryVars, storeVars, clientVars, flushVars, clearVars, ghostVars
  <2>7. CleanIsDurable'
    BY <1>27, <2>4 DEF ClearDrop, DurableInv, CleanIsDurable, entryVars, storeVars,
       clientVars, flushVars, clearVars, ghostVars
  <2> QED
    BY <2>1, <2>2, <2>3, <2>4, <2>5, <2>6, <2>7 DEF DurableInv
<1>28. CASE UNCHANGED vars
  BY <1>28 DEF vars, DurableInv, Linked, Bounded, Scanned, Versioned, Unflushed,
     CleanIsDurable, entryVars, storeVars, clientVars, flushVars, clearVars, ghostVars
<1> QED
  BY <1>1, <1>2, <1>3, <1>4, <1>5, <1>6, <1>7, <1>8, <1>9, <1>10, <1>11, <1>12, <1>13,
     <1>14,
     <1>15, <1>16, <1>17, <1>18, <1>19, <1>20, <1>21, <1>22, <1>23, <1>24, <1>25, <1>26, <1>27, <1>28
  DEF Next, ClientCall, ClientStep, FlushStep, Clearing

-----------------------------------------------------------------------------
\* A flush never clears the flag of a change it did not write: in every
\* reachable state a clean entry of the map is durable.
THEOREM CleanDurableCorrect == Spec => []CleanIsDurable
<1>1. Spec => []DurableInv
  BY DurableInit, DurableStep, PTL DEF Spec
<1>2. DurableInv => CleanIsDurable
  BY DEF DurableInv
<1> QED
  BY <1>1, <1>2, PTL

-----------------------------------------------------------------------------
(* One user of a key at a time *)

\* Client c works on k: it is in a call on it or holds its value.
Uses(c, k) == op[c].key = k /\ (op[c].pc # "idle" \/ held[c] # NoEntry)

\* One goroutine to a key at a time, which may pass on from one to the next:
\* what LogicSyncMethods gives the data of a user (rpc/service.go:42-52,
\* doc/coding-style.md 6.4).  Without it, and with eviction, a write can be
\* lost (a load overtaken by a Set; autoClear's second loop).
OneUser == \A c, d \in Client, k \in Key : Uses(c, k) /\ Uses(d, k) => c = d

\* What a client points at is what the map holds; the key of a load is not in
\* the map yet; a Remove has already written State = 0.
AttachedAt(c) ==
    LET e == cacheMap[op[c].key] IN
    /\ held[c] # NoEntry => held[c] = e
    /\ op[c].pc \in {"back", "cache", "mark"} => op[c].ref = e
    /\ op[c].pc \in {"redis", "query", "fillR", "fillD"} => e = NoEntry
    /\ op[c].pc = "tomb" =>
            e # NoEntry /\ ~heap[e].data.alive /\ heap[e].data.rev > 0

\* The map has the newest revision of a key, and its entry has marked what was
\* promised, but for a Set that has not marked its own yet.
CurrentAt(k) ==
    LET e == cacheMap[k] IN
    /\ promised[k] <= rev[k]
    /\ e = NoEntry => rev[k] = 0
    /\ e # NoEntry =>
            /\ heap[e].data.rev = rev[k]
            /\ heap[e].acked = promised[k] \/ (InWindow(k) /\ promised[k] < rev[k])

\* A removed key keeps its tombstone in the map, dirty until the deletion is in
\* MySQL, and a round that took the entry at its version took the deletion.
BuriedAt(k) ==
    LET e == cacheMap[k] IN
    gone[k] = "hit" =>
        /\ e # NoEntry /\ ~heap[e].data.alive /\ heap[e].acked > 0
        /\ heap[e].upd \/ ~db[k].alive
        /\ \A s \in pend \cup batch : s.key = k /\ s.entry = e /\ s.ver = heap[e].ver
                                        => ~s.val.alive

\* A round never takes a value older than the row it will replace.
Forward ==
    /\ \A s \in pend : db[s.key].rev <= s.val.rev
    /\ fpc = "value" => db[cur.key].rev <= heap[cur.entry].data.rev
    /\ \A s \in batch : db[s.key] = s.val

\* A FlushNow that has the lock, and what it does for each key until it ends.
Covering ==
    /\ fnow # "idle" => \A k \in Key : goal[k] <= promised[k]
    /\ fnow = "run" =>
            /\ fpc # "idle"
            /\ \A s \in pend : goal[s.key] <= s.val.rev
            /\ fpc = "value" => goal[cur.key] <= heap[cur.entry].data.rev
    /\ fnow = "run" /\ ~failed => \A k \in Key :
            \/ k \in todo
            \/ fpc = "value" /\ cur.key = k
            \/ \E s \in pend : s.key = k
            \/ goal[k] <= db[k].rev
            \/ /\ \A s \in batch : s.key # k
               /\ k \in Owed /\ heap[cacheMap[k]].data.rev > goal[k]

UserInv ==
    /\ DurableInv
    /\ doomed = {}
    /\ \A c \in Client : AttachedAt(c)
    /\ \A k \in Key : CurrentAt(k) /\ BuriedAt(k)
    /\ Forward
    /\ Covering

\* A cache that was just built has nothing in it.
THEOREM UserInit == Init => UserInv
<1> SUFFICES ASSUME Init PROVE UserInv
  OBVIOUS
<1>1. DurableInv
  BY DurableInit
<1>2. \A c \in Client : AttachedAt(c)
  BY DEF Init, AttachedAt, NoOp, Call
<1>3. \A k \in Key : CurrentAt(k) /\ BuriedAt(k)
  BY DEF Init, CurrentAt, BuriedAt
<1>4. doomed = {} /\ Forward /\ Covering
  BY DEF Init, Forward, Covering
<1> QED
  BY <1>1, <1>2, <1>3, <1>4 DEF UserInv

\* A step of c that is about k alone.
KeyStep(c, k) ==
    /\ \A j \in Key \ {k} : /\ cacheMap'[j] = cacheMap[j] /\ rev'[j] = rev[j]
                            /\ promised'[j] = promised[j] /\ gone'[j] = gone[j]
    /\ \A e \in Entry : e[1] # k => heap'[e] = heap[e]
    /\ \A d \in Client \ {c} : op'[d] = op[d] /\ held'[d] = held[d]
    /\ op'[c].key = k /\ (op[c].key = k \/ op[c].pc = "idle")
    /\ rev[k] <= rev'[k] /\ promised[k] <= promised'[k]
    /\ \A e \in Entry : e[2] <= gen[e[1]] => heap[e].data.rev <= heap'[e].data.rev
    /\ UNCHANGED <<db, fpc, todo, cur, pend, batch, failed, fnow, goal, doomed>>

\* Such a step that leaves to k what the invariant asks of it.  A key that
\* is owed stays owed, and what is promised is owed.
KeyEffect(c, k) ==
    /\ KeyStep(c, k)
    /\ \/ Uses(c, k) \/ Uses(c, k)'
       \/ cacheMap'[k] = cacheMap[k] /\ \A e \in Entry : heap'[e].data = heap[e].data
    /\ AttachedAt(c)'
    /\ CurrentAt(k)' /\ BuriedAt(k)'
    /\ k \in Owed => k \in Owed'
    /\ promised'[k] = promised[k] \/ k \in Owed'

\* The other keys are owed as before.
LEMMA OwedAside ==
    ASSUME DurableInv, DurableInv', NEW c \in Client, NEW k \in Key, KeyStep(c, k),
           NEW j \in Key, j # k
    PROVE  (j \in Owed') <=> (j \in Owed)
<1>1. cacheMap'[j] = cacheMap[j] /\ (cacheMap[j] # NoEntry => heap'[cacheMap[j]] = heap[cacheMap[j]])
  BY Numbers DEF KeyStep, DurableInv, Linked
<1>2. cacheMap[j] # NoEntry => cacheMap[j][1] = j
  BY DEF DurableInv, Linked
<1>3. op[c].pc \in {"cache", "mark"} => op[c].ref[1] = k
  BY DEF KeyStep, DurableInv, Linked
<1>4. op'[c].pc \in {"cache", "mark"} => op'[c].ref[1] = k
  BY DEF KeyStep, DurableInv, Linked
<1>5. InWindow(j)' <=> InWindow(j)
  BY <1>1, <1>2, <1>3, <1>4 DEF InWindow, KeyStep
<1> QED
  BY <1>1, <1>5 DEF Owed

\* A step about one key keeps the invariant.
LEMMA KeyEffectKeeps ==
    ASSUME UserInv, DurableInv', OneUser, OneUser',
           NEW c \in Client, NEW k \in Key, KeyEffect(c, k)
    PROVE  UserInv'
<1> USE DEF KeyEffect
<1>1. TypeInv /\ DurableInv
  BY DEF UserInv, DurableInv
<1>2. \A j \in Key \ {k} : /\ cacheMap'[j] = cacheMap[j]
                           /\ cacheMap[j] # NoEntry => heap'[cacheMap[j]] = heap[cacheMap[j]]
  BY <1>1, Numbers DEF KeyStep, DurableInv, Linked
<1>3. ASSUME NEW d \in Client PROVE AttachedAt(d)'
  <2>1. CASE d = c
    BY <2>1
  <2>2. CASE d # c /\ op[d].key # k
    BY SMTT(30), <1>1, <1>2, <2>2, Numbers DEF UserInv, AttachedAt, KeyStep
  <2>3. CASE d # c /\ op[d].key = k
    <3>1. op'[d] = op[d] /\ held'[d] = held[d]
      BY <2>3 DEF KeyStep
    <3>2. CASE Uses(c, k) \/ Uses(c, k)'
      <4>1. op[d].pc = "idle" /\ held[d] = NoEntry
        BY <2>3, <3>1, <3>2 DEF OneUser, Uses
      <4> QED
        BY <3>1, <4>1 DEF AttachedAt
    <3>3. CASE cacheMap'[k] = cacheMap[k] /\ \A e \in Entry : heap'[e].data = heap[e].data
      BY <1>1, <2>3, <3>1, <3>3, Numbers DEF UserInv, AttachedAt
    <3> QED
      BY <3>2, <3>3
  <2> QED
    BY <2>1, <2>2, <2>3
<1>4. ASSUME NEW j \in Key, j # k PROVE CurrentAt(j)' /\ BuriedAt(j)'
  <2>1. /\ cacheMap'[j] = cacheMap[j] /\ rev'[j] = rev[j] /\ promised'[j] = promised[j]
        /\ gone'[j] = gone[j] /\ UNCHANGED <<db, pend, batch>>
    BY <1>4 DEF KeyStep
  <2>2. InWindow(j) => InWindow(j)'
    <3> SUFFICES ASSUME NEW d \in Client, op[d].pc \in {"cache", "mark"},
                        op[d].ref = cacheMap[j], cacheMap[j] # NoEntry
                 PROVE  d # c
      BY <2>1 DEF InWindow, KeyStep
    <3> QED
      BY <1>1, <1>4 DEF DurableInv, Linked, KeyStep
  <2>3. CurrentAt(j)'
    BY <1>2, <1>4, <2>1, <2>2 DEF UserInv, CurrentAt
  <2>4. BuriedAt(j)'
    <3> SUFFICES ASSUME gone[j] = "hit", BuriedAt(j)
                 PROVE  BuriedAt(j)'
      BY <2>1 DEF UserInv, BuriedAt
    <3>1. cacheMap[j] # NoEntry /\ heap'[cacheMap'[j]] = heap[cacheMap[j]]
      BY <1>2, <1>4 DEF BuriedAt
    <3> QED
      BY <2>1, <3>1 DEF BuriedAt
  <2> QED
    BY <2>3, <2>4
<1>5. UNCHANGED <<db, fpc, todo, cur, pend, batch, failed, fnow, goal, doomed>>
  BY DEF KeyStep
<1>6. fpc = "value" => heap[cur.entry].data.rev <= heap'[cur.entry].data.rev /\ cur.entry \in Entry /\ cur.key \in Key
  <2>1. fpc = "value" => cur.entry \in Entry /\ cur.key \in Key /\ cur.entry[1] = cur.key /\ cur.entry[2] <= gen[cur.key]
    BY <1>1 DEF DurableInv, TypeInv, Ref, Scanned
  <2> QED
    BY <2>1 DEF KeyStep
<1>7. \A e \in Entry : heap[e].data.rev \in Nat /\ heap'[e].data.rev \in Nat
  <2>1. TypeInv'
    BY DEF DurableInv
  <2>2. \A e \in Entry : heap'[e].data.rev \in Nat
    BY <2>1 DEF TypeInv, TypeOK, CacheData, Value
  <2> QED
    BY <1>1, <2>2, Numbers
<1>8. \A j \in Key : db[j].rev \in Nat /\ goal[j] \in Nat /\ promised[j] \in Nat /\ promised'[j] \in Nat
  BY <1>1 DEF DurableInv, TypeInv, TypeOK, Value
<1>9. Forward'
  BY <1>5, <1>6, <1>7, <1>8 DEF UserInv, Forward
<1>10. Covering'
  <2>1. \A j \in Key : promised[j] <= promised'[j]
    BY <1>8 DEF KeyStep
  <2>2. fnow # "idle" => \A j \in Key : goal[j] <= promised'[j]
    BY <1>8, <2>1 DEF UserInv, Covering
  <2>3. fpc = "value" /\ fnow = "run" => goal[cur.key] <= heap'[cur.entry].data.rev
    BY <1>6, <1>7, <1>8 DEF UserInv, Covering
  <2>4. ASSUME NEW j \in Key, j \in Owed, heap[cacheMap[j]].data.rev > goal[j]
        PROVE  j \in Owed' /\ heap'[cacheMap'[j]].data.rev > goal[j]
    <3>1. cacheMap[j] # NoEntry /\ cacheMap[j] \in Entry
      BY <1>1, <2>4, Numbers DEF Owed, InWindow
    <3>2. CASE j # k
      BY <1>1, <1>2, <2>4, <3>1, <3>2, OwedAside
    <3>3. CASE j = k
      <4>1. k \in Owed'
        BY <2>4, <3>3
      <4>2. cacheMap'[k] # NoEntry
        BY <4>1 DEF Owed, InWindow
      <4>3. heap[cacheMap[k]].data.rev = rev[k] /\ heap'[cacheMap'[k]].data.rev = rev'[k]
        BY <3>1, <3>3, <4>2 DEF UserInv, CurrentAt
      <4>4. rev[k] <= rev'[k] /\ rev[k] \in Nat /\ rev'[k] \in Nat
        BY <1>1 DEF KeyStep, DurableInv, TypeInv, TypeOK
      <4> QED
        BY <1>8, <2>4, <3>3, <4>1, <4>3, <4>4
    <3> QED
      BY <3>2, <3>3
  <2> HIDE DEF KeyEffect
  <2> QED
    BY <1>5, <2>2, <2>3, <2>4 DEF UserInv, Covering
<1> QED
  BY <1>3, <1>4, <1>5, <1>9, <1>10 DEF UserInv

\* What a call that leaves values, flags and versions alone must still show:
\* where its own pointers lead, and that it does not leave the window of a
\* Set or Push.
LEMMA PlainStep ==
    ASSUME UserInv, DurableInv', NEW c \in Client, NEW k \in Key,
           \A d \in Client \ {c} : op'[d] = op[d] /\ held'[d] = held[d],
           op'[c].key = k, op[c].key = k \/ op[c].pc = "idle",
           op[c].pc \in {"cache", "mark"} =>
                op'[c].pc \in {"cache", "mark"} /\ op'[c].ref = op[c].ref,
           SameState, \A e \in Entry : heap'[e].data = heap[e].data,
           \A e \in Entry : e[1] # k => heap'[e] = heap[e],
           \A j \in Key \ {k} : gone'[j] = gone[j],
           gone'[k] = "hit" => gone[k] = "hit",
           UNCHANGED <<cacheMap, rev, promised, db, fpc, todo, cur, pend, batch,
                       failed, fnow, goal, doomed>>,
           AttachedAt(c)'
    PROVE  KeyEffect(c, k)
<1>1. TypeInv
  BY DEF UserInv, DurableInv
<1>2. rev[k] \in Nat /\ promised[k] \in Nat /\ \A e \in Entry : heap[e].data.rev \in Nat
  BY <1>1, Numbers DEF TypeInv, TypeOK
<1>3. KeyStep(c, k)
  BY <1>2 DEF KeyStep
<1>4. InWindow(k) => InWindow(k)'
  BY DEF InWindow
<1>5. cacheMap[k] # NoEntry => cacheMap[k] \in Entry
  BY <1>1, Numbers
<1>6. CurrentAt(k)'
  BY <1>4, <1>5 DEF UserInv, CurrentAt, SameState
<1>7. BuriedAt(k)'
  BY <1>5 DEF UserInv, BuriedAt, SameState
<1>8. k \in Owed => k \in Owed'
  BY <1>4, <1>5 DEF Owed, SameState
<1> QED
  BY <1>3, <1>6, <1>7, <1>8 DEF KeyEffect

\* The client's own variables after a step of its call.
LEMMA CallMoves ==
    ASSUME TypeInv, NEW c \in Client, NEW q, op' = [op EXCEPT ![c] = q]
    PROVE  op'[c] = q /\ \A d \in Client \ {c} : op'[d] = op[d]
BY DEF TypeInv, TypeOK

\* A client that puts an entry into its hand changes nobody else's.
LEMMA HoldMoves ==
    ASSUME TypeInv, NEW c \in Client, NEW e, held' = [held EXCEPT ![c] = e]
    PROVE  held'[c] = e /\ \A d \in Client \ {c} : held'[d] = held[d]
BY DEF TypeInv, TypeOK

\* The calls that read.
LEMMA ReadEffect ==
    ASSUME UserInv, DurableInv', NEW c \in Client, NEW k \in Key,
           \/ GetHit(c, k) \/ LoadStart(c, k)
           \/ op[c].key = k /\ (LoadRedis(c) \/ LoadQuery(c) \/ LoadBack(c))
    PROVE  KeyEffect(c, k)
<1>1. TypeInv
  BY DEF UserInv, DurableInv
<1>2. CASE GetHit(c, k)
  <2> DEFINE e == cacheMap[k]
  <2>1. e \in Entry /\ e[1] = k
    BY <1>1, <1>2, Numbers DEF GetHit, UserInv, DurableInv, Linked
  <2>2. /\ \A f \in Entry : f # e => heap'[f] = heap[f]
        /\ heap'[e] = [heap[e] EXCEPT !.expired = FALSE]
    BY <1>1, <1>2, <2>1 DEF GetHit, TypeInv, TypeOK
  <2>3. SameState /\ \A f \in Entry : heap'[f].data = heap[f].data
    BY <1>1, <2>1, <2>2, Numbers DEF SameState, CacheData
  <2>4. op'[c] = NoOp(k) /\ \A d \in Client \ {c} : op'[d] = op[d]
    BY <1>1, <1>2, CallMoves DEF GetHit
  <2>5. held'[c] \in {NoEntry, e} /\ \A d \in Client \ {c} : held'[d] = held[d]
    BY <1>1, <1>2, HoldMoves DEF GetHit
  <2>6. UNCHANGED <<cacheMap, gone, rev, promised, db, fpc, todo, cur, pend, batch,
                    failed, fnow, goal, doomed>>
    BY <1>2 DEF GetHit, storeVars, flushVars, clearVars, ghostVars
  <2>7. AttachedAt(c)'
    BY <2>4, <2>5, <2>6 DEF AttachedAt, NoOp, Call
  <2> QED
    BY <1>2, <2>1, <2>2, <2>3, <2>4, <2>5, <2>6, <2>7, PlainStep DEF GetHit, Idle, NoOp, Call
<1>3. ASSUME UNCHANGED <<entryVars, db, flushVars, clearVars, ghostVars>>,
             \A d \in Client \ {c} : op'[d] = op[d] /\ held'[d] = held[d],
             op'[c].key = k, op[c].key = k \/ op[c].pc = "idle",
             op[c].pc \notin {"cache", "mark"}, AttachedAt(c)'
      PROVE  KeyEffect(c, k)
  <2>1. SameState
    BY <1>3 DEF SameState, entryVars
  <2>2. UNCHANGED <<heap, cacheMap, gone, rev, promised, db, fpc, todo, cur, pend, batch,
                    failed, fnow, goal, doomed>>
    BY <1>3 DEF entryVars, flushVars, clearVars, ghostVars
  <2> QED
    BY <1>3, <2>1, <2>2, PlainStep
<1>4. CASE LoadStart(c, k)
  <2>1. UNCHANGED <<entryVars, db, flushVars, clearVars, ghostVars>> /\ UNCHANGED cacheMap
    BY <1>4 DEF LoadStart, storeVars, entryVars
  <2>2. /\ op'[c] = Call(IF UseCache THEN "redis" ELSE "query", k, NoEntry, NoVal)
        /\ \A d \in Client \ {c} : op'[d] = op[d]
    BY <1>1, <1>4, CallMoves DEF LoadStart
  <2>3. held'[c] = NoEntry /\ \A d \in Client \ {c} : held'[d] = held[d]
    BY <1>1, <1>4, HoldMoves DEF LoadStart
  <2>4. AttachedAt(c)'
    BY <1>4, <2>1, <2>2, <2>3 DEF LoadStart, AttachedAt, Call
  <2> QED
    BY <1>3, <1>4, <2>1, <2>2, <2>3, <2>4 DEF LoadStart, Idle, Call
<1>5. CASE op[c].key = k /\ (LoadRedis(c) \/ LoadQuery(c) \/ LoadBack(c))
  <2>1. UNCHANGED <<entryVars, db, flushVars, clearVars, ghostVars>> /\ UNCHANGED cacheMap
    BY <1>5 DEF LoadRedis, LoadQuery, LoadBack, storeVars, entryVars
  <2>2. \/ op' = [op EXCEPT ![c] = NoOp(k)]
        \/ op[c].pc = "redis" /\ op' = [op EXCEPT ![c] = Call("query", k, NoEntry, redis[k])]
        \/ op[c].pc = "redis" /\ op' = [op EXCEPT ![c] = Call("fillR", k, NoEntry, redis[k])]
        \/ op[c].pc = "query" /\ op' = [op EXCEPT ![c] = Call("fillD", k, NoEntry, db[k])]
    BY <1>5 DEF LoadRedis, LoadQuery, LoadBack
  <2>3. \A d \in Client \ {c} : op'[d] = op[d]
    BY <1>1, <2>2, CallMoves
  <2>4. held' = held
    BY <1>5 DEF LoadRedis, LoadQuery, LoadBack
  <2>5. op[c].pc \in {"redis", "query", "back"}
    BY <1>5 DEF LoadRedis, LoadQuery, LoadBack
  <2>6. AttachedAt(c)
    BY DEF UserInv
  <2>7. /\ op'[c].key = k /\ op'[c].pc \in {"idle", "query", "fillR", "fillD"}
        /\ op'[c].pc # "idle" => op[c].pc \in {"redis", "query"}
    BY <1>1, <2>2, CallMoves DEF NoOp, Call
  <2>8. AttachedAt(c)'
    BY <1>5, <2>1, <2>4, <2>6, <2>7 DEF AttachedAt
  <2> QED
    BY <1>3, <1>5, <2>1, <2>3, <2>4, <2>5, <2>7, <2>8
<1> QED
  BY <1>2, <1>4, <1>5

\* Push takes the window up, WriteCache goes on in it; a Remove that misses
\* changes nothing.
LEMMA BeginEffect ==
    ASSUME UserInv, DurableInv', NEW c \in Client, NEW k \in Key,
           \/ RemoveMiss(c, k)
           \/ op[c].key = k /\ (Push(c) \/ WriteCache(c))
    PROVE  KeyEffect(c, k)
<1>1. TypeInv
  BY DEF UserInv, DurableInv
<1>2. CASE RemoveMiss(c, k)
  <2>1. op'[c] = NoOp(k) /\ \A d \in Client \ {c} : op'[d] = op[d]
    BY <1>1, <1>2, CallMoves DEF RemoveMiss
  <2>2. held'[c] = NoEntry /\ \A d \in Client \ {c} : held'[d] = held[d]
    BY <1>1, <1>2, HoldMoves DEF RemoveMiss
  <2>3. UNCHANGED <<heap, cacheMap, rev, promised, db, fpc, todo, cur, pend, batch,
                    failed, fnow, goal, doomed>>
    BY <1>2 DEF RemoveMiss, entryVars, storeVars, flushVars, clearVars
  <2>4. gone'[k] = "miss" /\ \A j \in Key \ {k} : gone'[j] = gone[j]
    BY <1>1, <1>2 DEF RemoveMiss, TypeInv, TypeOK
  <2>5. SameState
    BY <2>3 DEF SameState
  <2>6. AttachedAt(c)'
    BY <2>1, <2>2 DEF AttachedAt, NoOp, Call
  <2> QED
    BY <1>2, <2>1, <2>2, <2>3, <2>4, <2>5, <2>6, PlainStep DEF RemoveMiss, Idle, NoOp, Call
<1>3. CASE op[c].key = k /\ Push(c)
  <2> DEFINE e == cacheMap[k]
  <2>1. e \in Entry /\ e[1] = k
    BY <1>1, <1>3, Numbers DEF Push, UserInv, DurableInv, Linked
  <2>2. /\ \A f \in Entry : f # e => heap'[f] = heap[f]
        /\ heap'[e] = [heap[e] EXCEPT !.del = FALSE]
    BY <1>1, <1>3, <2>1 DEF Push, TypeInv, TypeOK
  <2>3. SameState /\ \A f \in Entry : heap'[f].data = heap[f].data
    BY <1>1, <2>1, <2>2, Numbers DEF SameState, CacheData
  <2>4. /\ op'[c] = Call(IF UseCache THEN "cache" ELSE "mark", k, e, NoVal)
        /\ \A d \in Client \ {c} : op'[d] = op[d]
    BY <1>1, <1>3, CallMoves DEF Push
  <2>5. UNCHANGED <<held, cacheMap, rev, promised, db, fpc, todo, cur, pend, batch,
                    failed, fnow, goal, doomed>>
    BY <1>3 DEF Push, storeVars, flushVars, clearVars
  <2>6. gone'[k] = "no" /\ \A j \in Key \ {k} : gone'[j] = gone[j]
    BY <1>1, <1>3 DEF Push, TypeInv, TypeOK
  <2>7. AttachedAt(c)'
    BY <1>3, <2>4, <2>5 DEF UserInv, AttachedAt, Call
  <2> QED
    BY <1>3, <2>1, <2>2, <2>3, <2>4, <2>5, <2>6, <2>7, PlainStep DEF Push, Idle, Call
<1>4. CASE op[c].key = k /\ WriteCache(c)
  <2>1. /\ op'[c] = Call("mark", k, op[c].ref, NoVal)
        /\ \A d \in Client \ {c} : op'[d] = op[d]
    BY <1>1, <1>4, CallMoves DEF WriteCache
  <2>2. UNCHANGED <<heap, held, gone, cacheMap, rev, promised, db, fpc, todo, cur, pend, batch,
                    failed, fnow, goal, doomed>>
    BY <1>4 DEF WriteCache, entryVars, flushVars, clearVars, ghostVars
  <2>3. SameState
    BY <2>2 DEF SameState
  <2>4. AttachedAt(c)'
    BY <1>4, <2>1, <2>2 DEF WriteCache, UserInv, AttachedAt, Call
  <2> QED
    BY <1>4, <2>1, <2>2, <2>3, <2>4, PlainStep DEF WriteCache, Call
<1> QED
  BY <1>2, <1>3, <1>4

\* The steps that write an entry of the key.
LEMMA MarkEffect ==
    ASSUME UserInv, DurableInv', NEW c \in Client, NEW k \in Key,
           op[c].key = k, MarkUpdate(c) \/ Tomb(c)
    PROVE  KeyEffect(c, k)
<1> DEFINE e == cacheMap[k]
<1>1. TypeInv /\ AttachedAt(c) /\ CurrentAt(k) /\ BuriedAt(k)
  BY DEF UserInv, DurableInv
<1>2. e \in Entry /\ e[1] = k /\ e # NoEntry
  <2>1. e # NoEntry
    BY <1>1, ConstantsAssumption DEF MarkUpdate, Tomb, AttachedAt, TypeInv, OpTyped
  <2> QED
    BY <1>1, <2>1, Numbers DEF UserInv, DurableInv, Linked
<1>3. heap' = [heap EXCEPT ![e] = Updated(e)] \/ heap' = [heap EXCEPT ![e] = Deleted(e)]
  BY <1>1, <1>2 DEF MarkUpdate, Tomb, AttachedAt
<1>4. /\ heap'[e].upd = TRUE /\ heap'[e].acked = heap[e].data.rev
      /\ heap'[e].data = heap[e].data /\ heap'[e].ver = heap[e].ver + 1
      /\ \A f \in Entry : f # e => heap'[f] = heap[f]
  <2>1. heap'[e] \in {Updated(e), Deleted(e)} /\ \A f \in Entry : f # e => heap'[f] = heap[f]
    BY <1>1, <1>2, <1>3 DEF TypeInv, TypeOK
  <2>2. heap[e] \in CacheData
    BY <1>1, <1>2, Numbers
  <2>3. \A d \in {Updated(e), Deleted(e)} : /\ d.upd = TRUE /\ d.acked = heap[e].data.rev
                                            /\ d.data = heap[e].data
                                            /\ d.ver = heap[e].ver + 1
    BY <2>2 DEF Updated, Deleted, CacheData
  <2> HIDE DEF e
  <2> QED
    BY <2>1, <2>3
<1>5. /\ rev[k] \in Nat /\ promised[k] \in Nat
      /\ \A f \in Entry : heap[f].data.rev \in Nat /\ heap[f].ver \in Nat
  BY <1>1, Numbers DEF TypeInv, TypeOK
<1>6. heap[e].data.rev = rev[k] /\ promised[k] <= rev[k]
  BY <1>1, <1>2 DEF CurrentAt
<1>7. promised'[k] = rev[k] /\ \A j \in Key \ {k} : promised'[j] = promised[j]
  <2>1. Promise(k, heap[e].data.rev)
    BY <1>1, <1>2 DEF MarkUpdate, Tomb, AttachedAt
  <2> QED
    BY <1>1, <1>5, <1>6, <2>1 DEF Promise, TypeInv, TypeOK
<1>8. op'[c] = NoOp(k) /\ \A d \in Client \ {c} : op'[d] = op[d]
  BY <1>1, CallMoves DEF MarkUpdate, Tomb
<1>9. UNCHANGED <<held, cacheMap, rev, db, fpc, todo, cur, pend, batch,
                  failed, fnow, goal, doomed>>
  BY DEF MarkUpdate, Tomb, storeVars, flushVars, clearVars
<1>10. /\ \A j \in Key \ {k} : gone'[j] = gone[j]
       /\ gone'[k] = "hit" => gone[k] = "hit" \/ op[c].pc = "tomb"
  BY <1>1 DEF MarkUpdate, Tomb, TypeInv, TypeOK
<1>11. \A f \in Entry : heap'[f].data = heap[f].data
  BY <1>4
<1>12. KeyStep(c, k)
  BY <1>2, <1>4, <1>5, <1>6, <1>7, <1>8, <1>9, <1>10, <1>11 DEF KeyStep, NoOp, Call
<1>13. AttachedAt(c)'
  BY <1>1, <1>8, <1>9 DEF AttachedAt, NoOp, Call
<1>14. CurrentAt(k)'
  BY <1>2, <1>4, <1>6, <1>7, <1>9, <1>5 DEF CurrentAt
<1>15. BuriedAt(k)'
  <2> SUFFICES ASSUME gone'[k] = "hit"
               PROVE  /\ ~heap[e].data.alive /\ heap[e].data.rev > 0
                      /\ \A s \in pend \cup batch : s.entry = e => s.ver <= heap[e].ver /\ s.ver \in Nat
    BY <1>2, <1>4, <1>5, <1>9 DEF BuriedAt
  <2>1. \A s \in pend \cup batch : s.entry = e => s.ver <= heap[e].ver /\ s.ver \in Nat
    BY <1>1, Numbers DEF UserInv, DurableInv, Versioned
  <2>2. CASE op[c].pc = "tomb"
    BY <1>1, <2>1, <2>2 DEF AttachedAt
  <2>3. CASE gone[k] = "hit"
    <3>1. heap[e].acked <= heap[e].data.rev /\ heap[e].acked \in Nat
      BY <1>1, <1>2, Numbers DEF UserInv, DurableInv, Bounded
    <3>2. ~heap[e].data.alive /\ heap[e].acked > 0
      BY <1>1, <2>3 DEF BuriedAt
    <3>3. heap[e].data.rev \in Nat
      BY <1>2, <1>5
    <3> HIDE DEF e
    <3> QED
      BY <2>1, <3>1, <3>2, <3>3
  <2> QED
    BY <1>10, <2>2, <2>3
<1>16. k \in Owed'
  BY <1>2, <1>4, <1>9 DEF Owed
<1>17. Uses(c, k)
  BY DEF Uses, MarkUpdate, Tomb
<1> QED
  BY <1>12, <1>13, <1>14, <1>15, <1>16, <1>17 DEF KeyEffect

\* Mutate and Remove give the entry of the map its next revision.
LEMMA ChangeEffect ==
    ASSUME UserInv, DurableInv', NEW c \in Client, NEW k \in Key,
           Remove(c, k) \/ (op[c].key = k /\ Mutate(c))
    PROVE  KeyEffect(c, k)
<1> DEFINE e == cacheMap[k]
<1>1. TypeInv /\ AttachedAt(c) /\ CurrentAt(k) /\ BuriedAt(k)
  BY DEF UserInv, DurableInv
<1>2. e \in Entry /\ e[1] = k /\ e # NoEntry
  <2>1. e # NoEntry
    BY <1>1 DEF Remove, Mutate, AttachedAt
  <2> QED
    BY <1>1, <2>1, Numbers DEF UserInv, DurableInv, Linked
<1>3. op[c].pc = "idle" /\ (op[c].key = k /\ Mutate(c) => held[c] = e /\ held[c] # NoEntry)
  BY <1>1 DEF Mutate, Remove, AttachedAt, Idle
<1>4. PICK a \in BOOLEAN :
         /\ heap' = [heap EXCEPT ![e].data = NextValue(k, a)]
         /\ ~heap[e].data.alive => ~a
         /\ \/ Remove(c, k) /\ ~a
            \/ op[c].key = k /\ Mutate(c)
  <2>1. CASE Remove(c, k)
    BY <2>1 DEF Remove
  <2>2. CASE op[c].key = k /\ Mutate(c)
    <3> HIDE DEF e
    <3>1. heap[e].data.alive \in BOOLEAN
      BY <1>1, <1>2, Numbers DEF Value
    <3> QED
      BY <1>3, <2>2, <3>1 DEF Mutate
  <2> QED
    BY <2>1, <2>2
<1>5. /\ rev[k] \in Nat /\ promised[k] \in Nat
      /\ \A f \in Entry : heap[f].data.rev \in Nat /\ heap[f].ver \in Nat
  BY <1>1, Numbers DEF TypeInv, TypeOK
<1>6. rev'[k] = rev[k] + 1 /\ \A j \in Key \ {k} : rev'[j] = rev[j]
  BY <1>1, <1>3 DEF Remove, Mutate, TypeInv, TypeOK
<1>7. heap[e].data.rev = rev[k] /\ promised[k] <= rev[k]
  BY <1>1, <1>2 DEF CurrentAt
<1>8. /\ heap'[e].data = NextValue(k, a) /\ heap'[e].acked = heap[e].acked
      /\ heap'[e].upd = heap[e].upd /\ heap'[e].ver = heap[e].ver
      /\ \A f \in Entry : f # e => heap'[f] = heap[f]
  BY <1>1, <1>2, <1>4, Numbers DEF CacheData, TypeInv, TypeOK
<1>9. heap'[e].data.rev = rev[k] + 1 /\ heap'[e].data.alive = a
  BY <1>8 DEF NextValue
<1>10. /\ \A d \in Client \ {c} : op'[d] = op[d] /\ held'[d] = held[d]
       /\ op'[c].key = k
       /\ \/ op'[c] = Call("tomb", k, NoEntry, NoVal) /\ held'[c] = NoEntry /\ ~a
          \/ op'[c] = op[c] /\ held'[c] = held[c] /\ op[c].key = k /\ held[c] # NoEntry
  <2>1. CASE Remove(c, k) /\ ~a
    <3>1. op'[c] = Call("tomb", k, NoEntry, NoVal) /\ \A d \in Client \ {c} : op'[d] = op[d]
      BY <1>1, <2>1, CallMoves DEF Remove
    <3>2. held'[c] = NoEntry /\ \A d \in Client \ {c} : held'[d] = held[d]
      BY <1>1, <2>1, HoldMoves DEF Remove
    <3> QED
      BY <2>1, <3>1, <3>2 DEF Call
  <2>2. CASE op[c].key = k /\ Mutate(c)
    BY <1>3, <2>2 DEF Mutate, clientVars
  <2> QED
    BY <1>4, <2>1, <2>2
<1>11. UNCHANGED <<cacheMap, promised, gone, db, fpc, todo, cur, pend, batch,
                   failed, fnow, goal, doomed>>
  BY DEF Remove, Mutate, storeVars, flushVars, clearVars, ghostVars
<1>12. KeyStep(c, k)
  <2>1. \A f \in Entry : heap[f].data.rev <= heap'[f].data.rev
    BY <1>5, <1>7, <1>8, <1>9
  <2>2. op[c].key = k \/ op[c].pc = "idle"
    BY <1>3
  <2> QED
    BY <1>2, <1>5, <1>6, <1>8, <1>10, <1>11, <2>1, <2>2 DEF KeyStep
<1>13. AttachedAt(c)'
  <2>1. CASE op'[c] = Call("tomb", k, NoEntry, NoVal) /\ held'[c] = NoEntry /\ ~a
    BY <1>2, <1>5, <1>9, <1>11, <2>1 DEF AttachedAt, Call
  <2>2. CASE op'[c] = op[c] /\ held'[c] = held[c] /\ op[c].key = k
    BY <1>1, <1>3, <1>11, <2>2 DEF AttachedAt
  <2> QED
    BY <1>10, <2>1, <2>2
<1>14. InWindow(k) => InWindow(k)'
  BY <1>3, <1>10, <1>11 DEF InWindow
<1>15. CurrentAt(k)'
  BY <1>1, <1>2, <1>5, <1>6, <1>7, <1>8, <1>9, <1>11, <1>14 DEF CurrentAt
<1>16. BuriedAt(k)'
  BY <1>1, <1>2, <1>4, <1>8, <1>9, <1>11 DEF BuriedAt
<1>17. k \in Owed => k \in Owed'
  BY <1>2, <1>8, <1>11, <1>14 DEF Owed
<1>18. Uses(c, k) \/ Uses(c, k)'
  BY <1>10 DEF Uses, Call
<1> QED
  BY <1>11, <1>12, <1>13, <1>15, <1>16, <1>17, <1>18 DEF KeyEffect

\* Set and the end of a load put a new entry into the map.
LEMMA NewEffect ==
    ASSUME UserInv, DurableInv', NEW c \in Client, NEW k \in Key,
           Set(c, k) \/ (op[c].key = k /\ LoadFill(c))
    PROVE  KeyEffect(c, k)
<1> DEFINE n == <<k, gen[k] + 1>>
<1>1. TypeInv /\ AttachedAt(c) /\ CurrentAt(k) /\ BuriedAt(k)
  BY DEF UserInv, DurableInv
<1>2. PICK v \in Value : /\ PutNew(k, v)
                         /\ Set(c, k) => v = NextValue(k, TRUE)
                         /\ LoadFill(c) /\ op[c].key = k => v = op[c].val
  <2>1. CASE Set(c, k)
    <3>1. op[c].pc = "idle"
      BY <2>1 DEF Set, Idle
    <3> QED
      BY <1>1, <2>1, <3>1, NextValueType DEF Set, LoadFill
  <2>2. CASE op[c].key = k /\ LoadFill(c)
    BY <1>1, <2>2 DEF LoadFill, TypeInv, OpTyped, Set, Idle
  <2> QED
    BY <2>1, <2>2
<1>3. n \in Entry /\ n # NoEntry /\ gen[k] \in Nat
  BY <1>1, <1>2, FreshEntry, ConstantsAssumption DEF PutNew, TypeInv, TypeOK
<1>4. /\ heap'[n] = NewCacheData(v) /\ \A f \in Entry : f # n => heap'[f] = heap[f]
      /\ cacheMap'[k] = n /\ \A j \in Key \ {k} : cacheMap'[j] = cacheMap[j]
  BY <1>1, <1>2, <1>3 DEF PutNew, TypeInv, TypeOK
<1>5. heap'[n].data = v /\ heap'[n].acked = 0
  BY <1>4 DEF NewCacheData
<1>6. /\ rev[k] \in Nat /\ promised[k] \in Nat /\ promised[k] <= rev[k]
      /\ \A f \in Entry : heap[f].data.rev \in Nat
  BY <1>1, Numbers DEF TypeInv, TypeOK, CurrentAt
<1>7. /\ \A d \in Client \ {c} : op'[d] = op[d] /\ held'[d] = held[d]
      /\ held'[c] = n
      /\ op'[c] \in {NoOp(k), Call("back", k, n, NoVal), Call("cache", k, n, NoVal), Call("mark", k, n, NoVal)}
      /\ Set(c, k) => op'[c].pc \in {"cache", "mark"}
  <2>1. CASE Set(c, k)
    <3>1. op'[c] = Call(IF UseCache THEN "cache" ELSE "mark", k, n, NoVal)
      BY <1>1, <2>1, CallMoves DEF Set
    <3>2. held'[c] = n
      BY <1>1, <2>1, HoldMoves DEF Set
    <3>3. \A d \in Client \ {c} : op'[d] = op[d] /\ held'[d] = held[d]
      BY <1>1, <2>1, CallMoves, HoldMoves DEF Set
    <3> QED
      BY <3>1, <3>2, <3>3 DEF Call
  <2>2. CASE op[c].key = k /\ LoadFill(c)
    BY ZenonT(30), <1>1, <2>2, CallMoves, HoldMoves DEF LoadFill, Set, Idle
  <2> QED
    BY <2>1, <2>2
<1>8. op[c].key = k \/ op[c].pc = "idle"
  BY DEF Set, Idle
<1>9. UNCHANGED <<promised, db, fpc, todo, cur, pend, batch, failed, fnow, goal, doomed>>
  BY DEF Set, LoadFill, storeVars, flushVars, clearVars, ghostVars
<1>10. \A f \in Entry : f[2] <= gen[f[1]] => heap'[f] = heap[f]
  BY <1>3, <1>4
<1>11. AttachedAt(c)'
  BY <1>4, <1>7 DEF AttachedAt, NoOp, Call
<1>12. op'[c].key = k
  BY <1>7 DEF NoOp, Call
<1>13. CASE Set(c, k)
  <2>1. rev'[k] = rev[k] + 1 /\ \A j \in Key \ {k} : rev'[j] = rev[j]
    BY <1>1, <1>13 DEF Set, TypeInv, TypeOK
  <2>2. gone'[k] = "no" /\ \A j \in Key \ {k} : gone'[j] = gone[j]
    BY <1>1, <1>13 DEF Set, TypeInv, TypeOK
  <2>3. KeyStep(c, k)
    BY <1>3, <1>4, <1>6, <1>7, <1>8, <1>9, <1>10, <1>12, <2>1, <2>2 DEF KeyStep
  <2>4. InWindow(k)'
    BY <1>3, <1>4, <1>7, <1>13 DEF InWindow, Call, NoOp
  <2>5. CurrentAt(k)'
    BY <1>2, <1>3, <1>4, <1>5, <1>6, <1>9, <1>13, <2>1, <2>4 DEF CurrentAt, NextValue
  <2>6. BuriedAt(k)'
    BY <2>2 DEF BuriedAt
  <2>7. k \in Owed'
    BY <2>4 DEF Owed
  <2>8. Uses(c, k)'
    BY <1>7, <1>12, <1>13 DEF Uses
  <2> QED
    BY <1>11, <2>3, <2>5, <2>6, <2>7, <2>8 DEF KeyEffect
<1>14. CASE op[c].key = k /\ LoadFill(c)
  <2>1. cacheMap[k] = NoEntry /\ rev[k] = 0
    BY <1>1, <1>14 DEF LoadFill, AttachedAt, CurrentAt
  <2>2. rev' = rev /\ gone' = gone
    BY <1>14 DEF LoadFill, ghostVars
  <2>3. v.rev = 0
    <3>1. op[c].val.rev <= rev[k] /\ v = op[c].val /\ v.rev \in Nat
      BY <1>2, <1>14 DEF LoadFill, UserInv, DurableInv, Bounded, Value
    <3> QED
      BY <2>1, <3>1
  <2>4. KeyStep(c, k)
    BY <1>3, <1>4, <1>6, <1>7, <1>8, <1>9, <1>10, <1>12, <2>2 DEF KeyStep
  <2>5. CurrentAt(k)'
    BY <1>3, <1>4, <1>5, <1>6, <1>9, <2>1, <2>2, <2>3 DEF CurrentAt
  <2>6. BuriedAt(k)'
    BY <1>1, <2>1, <2>2 DEF BuriedAt
  <2>7. k \notin Owed
    BY <2>1 DEF Owed, InWindow
  <2>8. Uses(c, k)
    BY <1>14 DEF Uses, LoadFill
  <2> QED
    BY <1>9, <1>11, <2>4, <2>5, <2>6, <2>7, <2>8 DEF KeyEffect
<1> QED
  BY <1>13, <1>14

\* Every step of a client is about one key.
THEOREM ClientEffect ==
    ASSUME UserInv, DurableInv', NEW c \in Client, ClientCall(c) \/ ClientStep(c)
    PROVE  \E k \in Key : KeyEffect(c, k)
<1>1. op[c].key \in Key
  BY Numbers DEF UserInv, DurableInv
<1>2. ASSUME NEW k \in Key, GetHit(c, k) \/ LoadStart(c, k) PROVE KeyEffect(c, k)
  BY <1>2, ReadEffect
<1>3. ASSUME NEW k \in Key, RemoveMiss(c, k) PROVE KeyEffect(c, k)
  BY <1>3, BeginEffect
<1>4. ASSUME NEW k \in Key, Remove(c, k) PROVE KeyEffect(c, k)
  BY <1>4, ChangeEffect
<1>5. ASSUME NEW k \in Key, Set(c, k) PROVE KeyEffect(c, k)
  BY <1>5, NewEffect
<1>6. CASE Mutate(c)
  BY <1>1, <1>6, ChangeEffect
<1>7. CASE Push(c) \/ WriteCache(c)
  BY <1>1, <1>7, BeginEffect
<1>8. CASE LoadRedis(c) \/ LoadQuery(c) \/ LoadBack(c)
  BY <1>1, <1>8, ReadEffect
<1>9. CASE LoadFill(c)
  BY <1>1, <1>9, NewEffect
<1>10. CASE MarkUpdate(c) \/ Tomb(c)
  BY <1>1, <1>10, MarkEffect
<1> QED
  BY <1>2, <1>3, <1>4, <1>5, <1>6, <1>7, <1>8, <1>9, <1>10 DEF ClientCall, ClientStep

\* What the steps of the flusher leave alone, and the promises of the map with it.
LEMMA FlushAlone ==
    ASSUME UserInv, \A e \in Entry : heap'[e].data = heap[e].data /\ heap'[e].acked = heap[e].acked,
           UNCHANGED <<cacheMap, rev, clientVars, promised, doomed>>
    PROVE  /\ \A c \in Client : AttachedAt(c)'
           /\ \A k \in Key : CurrentAt(k)'
           /\ \A k \in Key : InWindow(k)' <=> InWindow(k)
           /\ doomed' = {}
<1>1. TypeInv
  BY DEF UserInv, DurableInv
<1>2. UNCHANGED <<cacheMap, op, held, rev, promised, doomed>>
  BY DEF clientVars
<1>3. \A k \in Key : InWindow(k)' <=> InWindow(k)
  BY <1>2 DEF InWindow
<1>4. \A c \in Client : AttachedAt(c)'
  BY <1>1, <1>2, Numbers DEF UserInv, AttachedAt
<1>5. \A k \in Key : CurrentAt(k)'
  BY <1>1, <1>2, <1>3, Numbers DEF UserInv, CurrentAt
<1> QED
  BY <1>2, <1>3, <1>4, <1>5 DEF UserInv

\* The rounds that begin, and FlushNow's call.
LEMMA RoundBegins ==
    ASSUME UserInv, DurableInv', TimerFlush \/ FlushNowCall \/ FlushNowLock
    PROVE  UserInv'
<1>1. UNCHANGED <<entryVars, storeVars, clientVars, cur, pend, batch, clearVars, promised, gone>>
  BY DEF TimerFlush, FlushNowCall, FlushNowLock, ghostVars
<1>2. UNCHANGED <<cacheMap, heap, rev, db, op, held, cur, pend, batch, doomed, promised, gone>>
  BY <1>1 DEF entryVars, storeVars, clientVars, clearVars
<1>3. /\ \A c \in Client : AttachedAt(c)'
      /\ \A k \in Key : CurrentAt(k)'
      /\ \A k \in Key : InWindow(k)' <=> InWindow(k)
      /\ doomed' = {}
  BY <1>1, <1>2, FlushAlone
<1>4. \A k \in Key : BuriedAt(k)'
  BY <1>2 DEF UserInv, BuriedAt
<1>5. batch = {} \/ UNCHANGED fpc
  BY DEF TimerFlush, FlushNowCall, FlushNowLock, BeginRound, UserInv, DurableInv, Scanned
<1>6. fpc' = "value" => fpc = "value"
  BY DEF TimerFlush, FlushNowCall, FlushNowLock, BeginRound
<1>7. Forward'
  BY <1>2, <1>6 DEF UserInv, Forward
<1>8. \A k \in Key : promised[k] \in Nat /\ promised[k] <= promised[k]
  BY DEF UserInv, DurableInv, TypeInv, TypeOK
<1>9. Covering'
  <2>1. CASE TimerFlush
    <3>1. /\ fpc = "idle" /\ fpc' = "scan" /\ todo' = Key /\ fnow' = fnow /\ goal' = goal
      BY <2>1 DEF TimerFlush, BeginRound, ghostVars
    <3> QED
      BY <1>2, <3>1 DEF UserInv, Covering
  <2>2. CASE FlushNowCall
    <3>1. fnow' = "wait" /\ goal' = promised
      BY <2>2 DEF FlushNowCall
    <3> QED
      BY <1>2, <1>8, <3>1 DEF Covering
  <2>3. CASE FlushNowLock
    <3>1. /\ fnow = "wait" /\ fpc = "idle" /\ fpc' = "scan" /\ todo' = Key /\ fnow' = "run" /\ goal' = goal
      BY <2>3 DEF FlushNowLock, BeginRound, ghostVars
    <3>2. pend = {}
      BY <3>1 DEF UserInv, DurableInv, Scanned
    <3> QED
      BY <1>2, <3>1, <3>2 DEF UserInv, Covering
  <2> QED
    BY <2>1, <2>2, <2>3
<1> QED
  BY <1>2, <1>3, <1>4, <1>7, <1>9 DEF UserInv

\* A key that is passed over while it is clean is saved, or its next revision
\* has not been marked.
LEMMA PassedOver ==
    ASSUME UserInv, NEW k \in Key, ~(cacheMap[k] # NoEntry /\ heap[cacheMap[k]].upd),
           goal[k] <= promised[k]
    PROVE  goal[k] <= db[k].rev \/ (k \in Owed /\ heap[cacheMap[k]].data.rev > goal[k])
<1>1. TypeInv /\ CurrentAt(k) /\ CleanIsDurable
  BY DEF UserInv, DurableInv
<1>2. goal[k] \in Nat /\ promised[k] \in Nat /\ rev[k] \in Nat /\ db[k].rev \in Nat
  BY <1>1 DEF TypeInv, TypeOK, Value
<1>3. CASE cacheMap[k] = NoEntry
  BY <1>1, <1>2, <1>3 DEF CurrentAt
<1>4. CASE cacheMap[k] # NoEntry
  <2>1. heap[cacheMap[k]].acked <= db[k].rev /\ heap[cacheMap[k]].acked \in Nat
    BY <1>1, <1>4, Numbers DEF CleanIsDurable
  <2>2. CASE heap[cacheMap[k]].acked = promised[k]
    BY <1>2, <2>1, <2>2
  <2>3. CASE InWindow(k) /\ promised[k] < rev[k]
    BY <1>1, <1>2, <1>4, <2>3 DEF CurrentAt, Owed
  <2> QED
    BY <1>1, <1>4, <2>2, <2>3 DEF CurrentAt
<1> QED
  BY <1>3, <1>4

\* The scan, first the version of an entry, then its value.
LEMMA ScanKeeps ==
    ASSUME UserInv, DurableInv', ScanValue \/ \E k \in Key : ScanState(k)
    PROVE  UserInv'
<1>1. UNCHANGED <<entryVars, storeVars, clientVars, batch, failed, fnow, clearVars, ghostVars>>
  BY DEF ScanState, ScanValue
<1>2. UNCHANGED <<cacheMap, heap, rev, db, op, held, doomed, promised, gone, goal, batch, failed, fnow>>
  BY <1>1 DEF entryVars, storeVars, clientVars, clearVars, ghostVars
<1>3. /\ \A c \in Client : AttachedAt(c)'
      /\ \A k \in Key : CurrentAt(k)'
      /\ \A k \in Key : InWindow(k)' <=> InWindow(k)
      /\ doomed' = {}
  BY <1>1, <1>2, FlushAlone DEF ghostVars
<1>4. TypeInv /\ \A k \in Key : BuriedAt(k) /\ CurrentAt(k)
  BY DEF UserInv, DurableInv
<1>5. Owed' = Owed
  BY <1>2, <1>3 DEF Owed
<1>6. ASSUME NEW k \in Key, ScanState(k) PROVE UserInv'
  <2>1. /\ fpc = "scan" /\ k \in todo /\ todo' = todo \ {k} /\ pend' = pend
    BY <1>6 DEF ScanState
  <2>2. \A j \in Key : BuriedAt(j)'
    BY <1>2, <1>4, <2>1 DEF BuriedAt
  <2>3. CASE cacheMap[k] # NoEntry /\ heap[cacheMap[k]].upd
    <3>1. /\ cur'.key = k /\ cur'.entry = cacheMap[k] /\ fpc' = "value"
      BY <1>6, <2>3 DEF ScanState
    <3>2. heap[cacheMap[k]].data.rev = rev[k] /\ promised[k] <= rev[k]
      BY <1>4, <2>3 DEF CurrentAt
    <3>3. db[k].rev <= rev[k]
      BY DEF UserInv, DurableInv, Bounded
    <3>4. promised[k] \in Nat /\ rev[k] \in Nat /\ goal[k] \in Nat
      BY <1>4 DEF TypeInv, TypeOK
    <3>5. Forward'
      BY <1>2, <2>1, <3>1, <3>2, <3>3 DEF UserInv, Forward
    <3>6. Covering'
      BY <1>2, <1>5, <2>1, <3>1, <3>2, <3>4 DEF UserInv, Covering
    <3> QED
      BY <1>3, <2>2, <3>5, <3>6 DEF UserInv
  <2>4. CASE ~(cacheMap[k] # NoEntry /\ heap[cacheMap[k]].upd)
    <3>1. cur' = cur /\ fpc' = fpc
      BY <1>6, <2>4 DEF ScanState
    <3>2. Forward'
      BY <1>2, <2>1, <3>1 DEF UserInv, Forward
    <3>3. batch = {}
      BY <2>1 DEF UserInv, DurableInv, Scanned
    <3>4. goal[k] <= promised[k] => goal[k] <= db[k].rev \/ (k \in Owed /\ heap[cacheMap[k]].data.rev > goal[k])
      BY <2>4, PassedOver
    <3>5. Covering'
      BY <1>2, <1>5, <2>1, <3>1, <3>3, <3>4 DEF UserInv, Covering
    <3> QED
      BY <1>3, <2>2, <3>2, <3>5 DEF UserInv
  <2> QED
    BY <2>3, <2>4
<1>7. CASE ScanValue
  <2> DEFINE s == [key |-> cur.key, entry |-> cur.entry, ver |-> cur.ver, val |-> heap[cur.entry].data]
  <2>1. fpc = "value" /\ pend' = pend \cup {s} /\ fpc' = "scan" /\ todo' = todo
    BY <1>7 DEF ScanValue
  <2>2. s.key = cur.key /\ s.entry = cur.entry /\ s.val = heap[cur.entry].data
    OBVIOUS
  <2> HIDE DEF s
  <2>3. \A k \in Key : BuriedAt(k)'
    BY <1>2, <1>4, <2>1, <2>2 DEF BuriedAt
  <2>4. Forward'
    BY <1>2, <2>1, <2>2 DEF UserInv, Forward
  <2>5. Covering'
    BY <1>2, <1>5, <2>1, <2>2 DEF UserInv, Covering
  <2> QED
    BY <1>3, <2>3, <2>4, <2>5 DEF UserInv
<1> QED
  BY <1>6, <1>7

\* A batch of values replaces their rows by newer ones.
LEMMA RowsForward ==
    ASSUME UserInv, NEW b \in SUBSET pend
    PROVE  /\ \A s \in b : Upserted(b)[s.key] = s.val
           /\ \A s \in pend \ b : Upserted(b)[s.key] = db[s.key]
           /\ \A k \in Key : /\ Upserted(b)[k] = db[k] \/ \E s \in b : s.key = k
                             /\ Upserted(b)[k].rev \in Nat
                             /\ db[k].rev <= Upserted(b)[k].rev
<1>1. DurableInv /\ TypeInv /\ Forward
  BY DEF UserInv, DurableInv
<1>2. \A s \in pend : s.key \in Key /\ s.val.rev \in Nat
  BY <1>1, Numbers
<1>3. \A s, t \in pend : s.key = t.key => s = t
  BY <1>1 DEF DurableInv, Scanned
<1>4. \A k \in Key : \/ \E s \in b : s.key = k /\ Upserted(b)[k] = s.val
                     \/ (\A s \in b : s.key # k) /\ Upserted(b)[k] = db[k]
  BY <1>1, UpsertedRows
<1>5. \A k \in Key : db[k].rev \in Nat
  BY <1>1, Numbers
<1>6. \A s \in b : db[s.key].rev <= s.val.rev
  BY <1>1 DEF Forward
<1>7. \A s \in b : Upserted(b)[s.key] = s.val
  BY <1>2, <1>3, <1>4
<1>8. \A s \in pend \ b : Upserted(b)[s.key] = db[s.key]
  BY <1>2, <1>3, <1>4
<1>9. \A k \in Key : /\ Upserted(b)[k] = db[k] \/ \E s \in b : s.key = k
                     /\ Upserted(b)[k].rev \in Nat
                     /\ db[k].rev <= Upserted(b)[k].rev
  BY <1>2, <1>4, <1>5, <1>6
<1> QED
  BY <1>7, <1>8, <1>9

\* A batch, that MySQL took or refused.
LEMMA BatchKeeps ==
    ASSUME UserInv, DurableInv', FlushCommit \/ FlushFault
    PROVE  UserInv' /\ \A k \in Key : db[k].rev <= db'[k].rev
<1>1. PICK b \in SUBSET pend :
         /\ NextBatch(b)
         /\ pend' = pend \ b
         /\ \/ db' = Upserted(b) /\ batch' = b /\ fpc' = "clear" /\ failed' = failed
            \/ db' \in {db, Upserted(b)} /\ batch' = batch /\ fpc' = fpc /\ failed' = TRUE
  BY DEF FlushCommit, FlushFault
<1>2. UNCHANGED <<cacheMap, heap, rev, clientVars, doomed, promised, gone, goal, todo, cur, fnow>>
  BY DEF FlushCommit, FlushFault, entryVars, clearVars, ghostVars
<1>3. fpc = "scan" /\ todo = {} /\ batch = {}
  BY <1>1 DEF NextBatch, UserInv, DurableInv, Scanned
<1>4. /\ \A c \in Client : AttachedAt(c)'
      /\ \A k \in Key : CurrentAt(k)'
      /\ \A k \in Key : InWindow(k)' <=> InWindow(k)
      /\ doomed' = {}
  BY <1>2, FlushAlone
<1>5. Owed' = Owed
  BY <1>2, <1>4 DEF Owed
<1>6. /\ \A s \in b : Upserted(b)[s.key] = s.val
      /\ \A s \in pend \ b : Upserted(b)[s.key] = db[s.key]
      /\ \A k \in Key : /\ Upserted(b)[k] = db[k] \/ \E s \in b : s.key = k
                        /\ Upserted(b)[k].rev \in Nat
                        /\ db[k].rev <= Upserted(b)[k].rev
  BY RowsForward
<1>7. /\ \A k \in Key : db[k].rev \in Nat /\ goal[k] \in Nat
      /\ \A s \in pend : s.key \in Key /\ s.val.rev \in Nat
  BY Numbers DEF UserInv, DurableInv, TypeInv, TypeOK
<1>8. \A k \in Key : db[k].rev <= db'[k].rev /\ db'[k].rev \in Nat
                     /\ (db'[k] = db[k] \/ \E s \in b : s.key = k)
  BY <1>1, <1>6, <1>7
<1>9. ASSUME NEW k \in Key PROVE BuriedAt(k)'
  <2>1. BuriedAt(k) /\ (cacheMap[k] # NoEntry => cacheMap[k] \in Entry)
    BY Numbers DEF UserInv, DurableInv
  <2>2. pend' \cup batch' \subseteq pend \cup batch
    BY <1>1, <1>3
  <2>3. (\E s \in b : s.key = k) /\ cacheMap[k] # NoEntry => heap[cacheMap[k]].upd \/ heap[cacheMap[k]].acked = 0
    BY DEF UserInv, DurableInv, Unflushed
  <2>4. gone[k] = "hit" => heap[cacheMap[k]].upd \/ ~db'[k].alive
    BY <1>8, <2>1, <2>3 DEF BuriedAt
  <2> QED
    BY <1>2, <2>1, <2>2, <2>4 DEF BuriedAt
<1>10. Forward'
  BY <1>1, <1>3, <1>6, <1>7 DEF UserInv, Forward
<1>11. Covering'
  <2>1. Covering
    BY DEF UserInv
  <2>2. fpc' # "idle" /\ fpc' # "value"
    BY <1>1, <1>3
  <2>3. ASSUME fnow = "run", ~failed', NEW k \in Key
        PROVE  \/ \E s \in pend' : s.key = k
               \/ goal[k] <= db'[k].rev
               \/ /\ \A s \in batch' : s.key # k
                  /\ k \in Owed /\ heap[cacheMap[k]].data.rev > goal[k]
    <3>1. db' = Upserted(b) /\ batch' = b /\ ~failed
      BY <1>1, <2>3
    <3>2. CASE \E s \in pend : s.key = k
      <4>1. PICK s \in pend : s.key = k
        BY <3>2
      <4>2. goal[k] <= s.val.rev
        BY <2>1, <2>3, <4>1 DEF Covering
      <4>3. s \in b => db'[k] = s.val
        BY <1>6, <3>1, <4>1
      <4> QED
        BY <1>1, <4>1, <4>2, <4>3
    <3>3. CASE ~ \E s \in pend : s.key = k
      <4>1. db'[k] = db[k] /\ \A s \in batch' : s.key # k
        BY <1>8, <3>1, <3>3
      <4> QED
        BY <1>3, <2>1, <2>3, <3>1, <3>3, <4>1 DEF Covering
    <3> QED
      BY <3>2, <3>3
  <2> QED
    BY <1>1, <1>2, <1>5, <2>1, <2>2, <2>3 DEF Covering
<1> QED
  BY <1>4, <1>8, <1>9, <1>10, <1>11 DEF UserInv

\* What FlushClear does to the entries.
LEMMA ClearedEntry ==
    ASSUME UserInv, NEW s \in batch, FlushClear(s)
    PROVE  /\ s.entry \in Entry /\ s.key \in Key /\ s.entry[1] = s.key
           /\ \A e \in Entry : /\ e # s.entry => heap'[e] = heap[e]
                               /\ heap'[e].data = heap[e].data
                               /\ heap'[e].acked = heap[e].acked
                               /\ heap'[e].ver = heap[e].ver
                               /\ heap[e].upd => \/ heap'[e].upd
                                                 \/ e = s.entry /\ heap[e].ver = s.ver
                               /\ heap'[e].upd => heap[e].upd
<1>1. TypeInv
  BY DEF UserInv, DurableInv
<1>2. s.entry \in Entry /\ s.key \in Key
  BY <1>1, Numbers
<1>3. s.entry[1] = s.key
  BY DEF UserInv, DurableInv, Scanned
<1>4. \A e \in Entry : heap[e] \in CacheData
  BY <1>1, Numbers
<1>5. CASE heap[s.entry].ver = s.ver
  <2>1. heap' = [heap EXCEPT ![s.entry] = [heap[s.entry] EXCEPT !.upd = FALSE]]
    BY <1>5 DEF FlushClear, ClearedIfVersion
  <2> QED
    BY <1>1, <1>2, <1>3, <1>4, <1>5, <2>1 DEF CacheData, TypeInv, TypeOK
<1>6. CASE heap[s.entry].ver # s.ver
  <2>1. heap' = [heap EXCEPT ![s.entry] = heap[s.entry]]
    BY <1>6 DEF FlushClear, ClearedIfVersion
  <2>2. \A e \in Entry : heap'[e] = heap[e]
    BY <1>1, <1>2, <2>1 DEF TypeInv, TypeOK
  <2> QED
    BY <1>2, <1>3, <2>2
<1> QED
  BY <1>5, <1>6

\* The end of a batch, entry by entry, and of the round.
LEMMA EndKeeps ==
    ASSUME UserInv, DurableInv', FlushDone \/ \E s \in batch : FlushClear(s)
    PROVE  UserInv'
<1>1. TypeInv /\ Forward /\ Covering /\ \A k \in Key : BuriedAt(k)
  BY DEF UserInv, DurableInv
<1>2. ASSUME NEW s \in batch, FlushClear(s) PROVE UserInv'
  <2>1. /\ s.entry \in Entry /\ s.key \in Key /\ s.entry[1] = s.key
        /\ \A e \in Entry : /\ e # s.entry => heap'[e] = heap[e]
                            /\ heap'[e].data = heap[e].data
                            /\ heap'[e].acked = heap[e].acked
                            /\ heap'[e].ver = heap[e].ver
                            /\ heap[e].upd => \/ heap'[e].upd
                                              \/ e = s.entry /\ heap[e].ver = s.ver
    BY <1>2, ClearedEntry
  <2>2. /\ batch' = batch \ {s} /\ fpc = "clear" /\ fpc' \in {"scan", "clear"}
        /\ UNCHANGED <<cacheMap, rev, db, clientVars, doomed, promised, gone, goal, pend, todo, cur, failed, fnow>>
    BY <1>2 DEF FlushClear, storeVars, clearVars, ghostVars
  <2>3. /\ \A c \in Client : AttachedAt(c)'
        /\ \A k \in Key : CurrentAt(k)'
        /\ \A k \in Key : InWindow(k)' <=> InWindow(k)
        /\ doomed' = {}
    BY <2>1, <2>2, FlushAlone
  <2>4. \A k \in Key : cacheMap[k] # NoEntry => cacheMap[k] \in Entry /\ cacheMap[k][1] = k
    BY <1>1, Numbers DEF UserInv, DurableInv, Linked
  <2>5. ASSUME NEW k \in Key PROVE BuriedAt(k)'
    <3> SUFFICES ASSUME gone[k] = "hit", cacheMap[k] \in Entry, cacheMap[k][1] = k, cacheMap[k] # NoEntry
                 PROVE  BuriedAt(k)'
      BY <1>1, <2>2, <2>4 DEF BuriedAt
    <3>1. heap'[cacheMap[k]].upd \/ ~db[k].alive
      <4>1. CASE heap'[cacheMap[k]].upd \/ ~heap[cacheMap[k]].upd
        BY <1>1, <4>1 DEF BuriedAt
      <4>2. CASE cacheMap[k] = s.entry /\ heap[cacheMap[k]].ver = s.ver
        <5>1. s.key = k /\ db[k] = s.val
          BY <1>1, <2>1, <4>2 DEF Forward
        <5> QED
          BY <1>1, <4>2, <5>1 DEF BuriedAt
      <4> QED
        BY <2>1, <4>1, <4>2
    <3> QED
      BY <1>1, <2>1, <2>2, <3>1 DEF BuriedAt
  <2>6. Forward'
    BY <1>1, <2>2 DEF Forward
  <2>7. ASSUME NEW k \in Key, \A t \in batch : t.key # k, k \in Owed
        PROVE  k \in Owed' /\ heap'[cacheMap[k]].data = heap[cacheMap[k]].data
    <3>1. cacheMap[k] # NoEntry
      BY <2>7 DEF Owed, InWindow
    <3>2. heap'[cacheMap[k]] = heap[cacheMap[k]]
      BY <2>1, <2>4, <2>7, <3>1
    <3> QED
      BY <2>2, <2>3, <2>7, <3>2 DEF Owed
  <2>8. Covering'
    BY <1>1, <2>2, <2>7 DEF Covering
  <2> QED
    BY <2>3, <2>5, <2>6, <2>8 DEF UserInv
<1>3. CASE FlushDone
  <2>1. /\ UNCHANGED <<cacheMap, heap, rev, db, clientVars, doomed, promised, gone, goal, pend, batch, todo, cur, failed>>
        /\ fpc = "scan" /\ fpc' = "idle" /\ fnow' = IF fnow = "run" THEN "idle" ELSE fnow
    BY <1>3 DEF FlushDone, entryVars, storeVars, clearVars, ghostVars
  <2>2. /\ \A c \in Client : AttachedAt(c)'
        /\ \A k \in Key : CurrentAt(k)'
        /\ doomed' = {}
    BY <2>1, FlushAlone
  <2>3. \A k \in Key : BuriedAt(k)'
    BY <1>1, <2>1 DEF BuriedAt
  <2>4. Forward'
    BY <1>1, <2>1 DEF Forward
  <2>5. fnow' # "run" /\ (fnow' # "idle" => fnow # "idle")
    BY <2>1
  <2>6. Covering'
    BY <1>1, <2>1, <2>5 DEF Covering
  <2> QED
    BY <2>2, <2>3, <2>4, <2>6 DEF UserInv
<1> QED
  BY <1>2, <1>3

\* Without eviction and with one user of a key at a time, every step keeps UserInv.
THEOREM UserStep ==
    ASSUME ~AutoClear, UserInv, OneUser, OneUser', [Next]_vars
    PROVE  UserInv'
<1>1. DurableInv'
  BY DurableStep DEF UserInv
<1>2. ASSUME NEW c \in Client, ClientCall(c) \/ ClientStep(c) PROVE UserInv'
  BY <1>1, <1>2, ClientEffect, KeyEffectKeeps
<1>3. CASE TimerFlush \/ FlushNowCall \/ FlushNowLock
  BY <1>1, <1>3, RoundBegins
<1>4. CASE FlushStep
  BY <1>1, <1>4, ScanKeeps, BatchKeeps, EndKeeps DEF FlushStep
<1>5. ~Clearing
  BY DEF Clearing, Expire, ClearCollect, ClearDrop, UserInv
<1>6. CASE (\E k \in Key : RedisExpire(k)) \/ UNCHANGED vars
  <2>1. UNCHANGED <<cacheMap, heap, rev, db, clientVars, doomed, promised, gone, goal, pend, batch, fpc, fnow, todo, cur, failed>>
    BY <1>6 DEF RedisExpire, vars, entryVars, storeVars, clientVars, flushVars, clearVars, ghostVars
  <2>2. /\ \A c \in Client : AttachedAt(c)'
        /\ \A k \in Key : CurrentAt(k)'
        /\ \A k \in Key : InWindow(k)' <=> InWindow(k)
        /\ doomed' = {}
    BY <2>1, FlushAlone
  <2>3. Owed' = Owed
    BY <2>1, <2>2 DEF Owed
  <2>4. \A k \in Key : BuriedAt(k)'
    BY <2>1 DEF UserInv, BuriedAt
  <2>5. Forward' /\ Covering'
    BY <2>1, <2>3 DEF UserInv, Forward, Covering
  <2> QED
    BY <1>1, <2>2, <2>4, <2>5 DEF UserInv
<1> QED
  BY <1>2, <1>3, <1>4, <1>5, <1>6 DEF Next

\* What a key that is not owed was promised is in MySQL.
LEMMA UserSaves ==
    ASSUME UserInv, NEW k \in Key, k \notin Owed
    PROVE  promised[k] <= db[k].rev
<1>1. TypeInv /\ CurrentAt(k) /\ CleanIsDurable
  BY DEF UserInv, DurableInv
<1>2. promised[k] \in Nat /\ rev[k] \in Nat /\ db[k].rev \in Nat
  BY <1>1 DEF TypeInv, TypeOK, Value
<1>3. CASE cacheMap[k] = NoEntry
  BY <1>1, <1>2, <1>3 DEF CurrentAt
<1>4. CASE cacheMap[k] # NoEntry
  <2>1. heap[cacheMap[k]].acked = promised[k]
    BY <1>1, <1>4 DEF CurrentAt, Owed
  <2>2. heap[cacheMap[k]].acked <= db[k].rev
    BY <1>1, <1>4 DEF CleanIsDurable, Owed
  <2> QED
    BY <2>1, <2>2
<1> QED
  BY <1>3, <1>4

\* So no promise is lost,
LEMMA UserLosesNothing == UserInv => NoLostUpdate
<1> SUFFICES ASSUME UserInv, NEW k \in Key, k \in Owed
             PROVE  heap[cacheMap[k]].data.rev >= promised[k] /\ cacheMap[k] # NoEntry
  BY UserSaves DEF NoLostUpdate, Owed
<1>1. cacheMap[k] # NoEntry
  BY DEF Owed, InWindow
<1>2. promised[k] \in Nat /\ rev[k] \in Nat
  BY DEF UserInv, DurableInv, TypeInv, TypeOK
<1> QED
  BY <1>1, <1>2 DEF UserInv, CurrentAt

\* no deletion is,
LEMMA UserBuries == UserInv => RemoveSticks
BY DEF UserInv, BuriedAt, RemoveSticks, Deleting

\* and a FlushNow has seen to every key when it ends.
LEMMA UserCovers ==
    ASSUME UserInv, [Next]_vars, fnow = "run", fnow' = "idle", ~failed, NEW k \in Key
    PROVE  \/ goal[k] <= db[k].rev
           \/ k \in Owed /\ heap[cacheMap[k]].data.rev > goal[k]
<1>1. FlushDone
  BY DEF Next, ClientCall, ClientStep, FlushStep, Clearing, vars, flushVars,
     GetHit, LoadStart, Set, Remove, RemoveMiss, Mutate, Push, LoadRedis, LoadQuery, LoadFill,
     LoadBack, WriteCache, MarkUpdate, Tomb, TimerFlush, FlushNowCall, FlushNowLock, ScanState,
     ScanValue, FlushCommit, FlushFault, FlushClear, RedisExpire, Expire, ClearCollect, ClearDrop
<1>2. fpc = "scan" /\ todo = {} /\ pend = {}
  BY <1>1 DEF FlushDone
<1> QED
  BY <1>2 DEF UserInv, Covering

\* Without eviction, and while no two goroutines use a key at once, a revision
\* that a returned Push, Set or Remove marked is in MySQL or still owed:
\* for any number of goroutines, keys, faults and rounds.
THEOREM NoLossCorrect == ~AutoClear => (Spec /\ []OneUser => []NoLostUpdate)
<1> SUFFICES ASSUME ~AutoClear PROVE Spec /\ []OneUser => []NoLostUpdate
  OBVIOUS
<1>1. UserInv /\ OneUser /\ OneUser' /\ [Next]_vars => UserInv'
  BY UserStep
<1> QED
  BY <1>1, UserInit, UserLosesNothing, PTL DEF Spec

\* Under the same conditions a Remove that found its key reaches MySQL or is
\* carried there by a dirty tombstone until the key is written again.
THEOREM RemoveCorrect == ~AutoClear => (Spec /\ []OneUser => []RemoveSticks)
<1> SUFFICES ASSUME ~AutoClear PROVE Spec /\ []OneUser => []RemoveSticks
  OBVIOUS
<1>1. UserInv /\ OneUser /\ OneUser' /\ [Next]_vars => UserInv'
  BY UserStep
<1> QED
  BY <1>1, UserInit, UserBuries, PTL DEF Spec

\* Under the same conditions FlushNow, when no batch of it failed, leaves
\* nothing behind that was promised before it was called.
THEOREM FinalFlushCorrect == ~AutoClear => (Spec /\ []OneUser => FinalFlushCovers)
<1> SUFFICES ASSUME ~AutoClear PROVE Spec /\ []OneUser => FinalFlushCovers
  OBVIOUS
<1>1. UserInv /\ OneUser /\ OneUser' /\ [Next]_vars => UserInv'
  BY UserStep
<1>2. UserInv /\ [Next]_vars =>
        [fnow = "run" /\ fnow' = "idle" /\ ~failed =>
           \A k \in Key :
              \/ goal[k] <= db[k].rev
              \/ /\ cacheMap[k] # NoEntry
                 /\ heap[cacheMap[k]].upd \/ InWindow(k)
                 /\ heap[cacheMap[k]].data.rev > goal[k]]_vars
  <2> SUFFICES ASSUME UserInv, [Next]_vars, fnow = "run", fnow' = "idle", ~failed, NEW k \in Key
               PROVE  \/ goal[k] <= db[k].rev
                      \/ /\ cacheMap[k] # NoEntry
                         /\ heap[cacheMap[k]].upd \/ InWindow(k)
                         /\ heap[cacheMap[k]].data.rev > goal[k]
    OBVIOUS
  <2>1. k \in Owed => cacheMap[k] # NoEntry /\ (heap[cacheMap[k]].upd \/ InWindow(k))
    BY DEF Owed, InWindow
  <2> QED
    BY <2>1, UserCovers
<1> QED
  BY <1>1, <1>2, UserInit, PTL DEF Spec, FinalFlushCovers

-----------------------------------------------------------------------------
(* The cache implements WriteBackStore *)

\* A cache that was just built is an empty store.
THEOREM StoreInit == Init => Store!Init
<1> SUFFICES ASSUME Init PROVE Store!Init
  OBVIOUS
<1>1. Durable = [k \in Key |-> 0]
  BY DEF Init, Durable
<1>2. Owed = {}
  BY DEF Init, Owed, InWindow
<1> QED
  BY <1>1, <1>2 DEF Init, Store!Init

\* Every step is one of the store, or a stutter: a write that returns is Return,
\* the beginning of one Return or Begin, a batch Persist, a cleared flag Settle.
THEOREM StoreStep ==
    ASSUME ~AutoClear, UserInv, UserInv', [Next]_vars
    PROVE  [Store!Next]_(Store!vars)
<1>1. TypeInv /\ DurableInv /\ DurableInv' /\ TypeInv'
  BY DEF UserInv, DurableInv
<1>2. /\ promised \in [Key -> Nat] /\ promised' \in [Key -> Nat]
      /\ Owed \subseteq Key /\ Owed' \subseteq Key
  BY <1>1 DEF TypeInv, TypeOK, Owed
<1>3. Durable \in [Key -> Nat] /\ Durable' \in [Key -> Nat]
  <2>1. \A k \in Key : db[k].rev \in Nat /\ db'[k].rev \in Nat
    BY <1>1 DEF TypeInv, TypeOK, Value
  <2> QED
    BY <2>1 DEF Durable
<1>4. ASSUME NEW c \in Client, ClientCall(c) \/ ClientStep(c) PROVE [Store!Next]_(Store!vars)
  <2>1. PICK k \in Key : KeyEffect(c, k)
    BY <1>1, <1>4, ClientEffect
  <2>2. KeyStep(c, k)
    BY <2>1 DEF KeyEffect
  <2>3. \A j \in Key \ {k} : ((j \in Owed') <=> (j \in Owed)) /\ promised'[j] = promised[j]
    BY <1>1, <2>2, OwedAside DEF KeyStep
  <2>4. Durable' = Durable
    BY <2>2 DEF KeyStep, Durable
  <2>5. CASE k \in Owed'
    <3>1. Owed' = Owed \cup {k}
      BY <1>2, <2>3, <2>5
    <3>2. promised'[k] >= promised[k]
      BY <1>2, <2>2 DEF KeyStep
    <3>3. Store!Return(k)
      BY <1>2, <2>3, <2>4, <3>1, <3>2 DEF Store!Return
    <3> QED
      BY <3>3 DEF Store!Next
  <2>6. CASE k \notin Owed'
    <3>1. k \notin Owed /\ promised'[k] = promised[k]
      BY <2>1, <2>6 DEF KeyEffect
    <3>2. Owed' = Owed
      BY <1>2, <2>3, <2>6, <3>1
    <3>3. promised' = promised
      BY <1>2, <2>3, <3>1
    <3> QED
      BY <2>4, <3>2, <3>3 DEF Store!vars
  <2> QED
    BY <2>5, <2>6
<1>5. ASSUME UNCHANGED <<cacheMap, heap, op, promised>> PROVE Owed' = Owed
  BY <1>5 DEF Owed, InWindow
<1>6. CASE FlushCommit \/ FlushFault
  <2>1. UNCHANGED <<cacheMap, heap, op, promised>>
    BY <1>6 DEF FlushCommit, FlushFault, entryVars, clientVars, ghostVars
  <2>2. \A k \in Key : db[k].rev <= db'[k].rev
    BY <1>1, <1>6, BatchKeeps
  <2>3. \A k \in Key : Durable'[k] >= Durable[k]
    <3>1. \A k \in Key : Durable[k] = db[k].rev /\ Durable'[k] = db'[k].rev
      BY DEF Durable
    <3> QED
      BY <1>3, <2>2, <3>1
  <2>4. Store!Persist
    BY <1>3, <1>5, <2>1, <2>3 DEF Store!Persist
  <2> QED
    BY <2>4 DEF Store!Next
<1>7. ASSUME NEW s \in batch, FlushClear(s) PROVE [Store!Next]_(Store!vars)
  <2> DEFINE k == s.key
  <2>1. UNCHANGED <<cacheMap, op, promised, db>>
    BY <1>7 DEF FlushClear, storeVars, clientVars, ghostVars
  <2>2. /\ s.entry \in Entry /\ k \in Key /\ s.entry[1] = k
        /\ \A e \in Entry : /\ e # s.entry => heap'[e] = heap[e]
                            /\ heap'[e].upd => heap[e].upd
    BY <1>7, ClearedEntry
  <2> HIDE DEF k
  <2>3. \A j \in Key : InWindow(j)' <=> InWindow(j)
    BY <2>1 DEF InWindow
  <2>4. \A j \in Key : cacheMap[j] # NoEntry => cacheMap[j] \in Entry /\ cacheMap[j][1] = j
    BY <1>1, Numbers DEF DurableInv, Linked
  <2>5. \A j \in Key \ {k} : (j \in Owed') <=> (j \in Owed)
    BY <2>1, <2>2, <2>3, <2>4 DEF Owed
  <2>6. k \in Owed' => k \in Owed
    BY <2>1, <2>2, <2>3, <2>4 DEF Owed
  <2>7. Durable' = Durable /\ promised' = promised
    BY <2>1 DEF Durable
  <2>8. CASE (k \in Owed') <=> (k \in Owed)
    <3>1. Owed' = Owed
      BY <1>2, <2>5, <2>8
    <3> QED
      BY <2>7, <3>1 DEF Store!vars
  <2>9. CASE k \in Owed /\ k \notin Owed'
    <3>1. Owed' = Owed \ {k}
      BY <1>2, <2>5, <2>9
    <3>2. promised[k] <= db[k].rev
      <4>1. CurrentAt(k)' /\ CleanIsDurable'
        BY <1>1, <2>2 DEF UserInv, DurableInv
      <4>2. cacheMap[k] # NoEntry /\ ~InWindow(k) /\ ~heap'[cacheMap[k]].upd
        BY <2>1, <2>2, <2>3, <2>9 DEF Owed, InWindow
      <4>3. heap'[cacheMap[k]].acked = promised[k]
        BY <2>1, <2>2, <2>3, <4>1, <4>2 DEF CurrentAt
      <4> QED
        BY <2>1, <2>2, <4>1, <4>2, <4>3 DEF CleanIsDurable
    <3>3. Durable[k] >= promised[k]
      BY <1>2, <1>3, <2>2, <3>2 DEF Durable
    <3>4. Store!Settle(k)
      BY <2>7, <2>9, <3>1, <3>3 DEF Store!Settle
    <3> QED
      BY <2>2, <3>4 DEF Store!Next
  <2> QED
    BY <2>6, <2>8, <2>9
<1>8. ASSUME UNCHANGED <<cacheMap, heap, op, promised, db>> PROVE [Store!Next]_(Store!vars)
  <2>1. Owed' = Owed /\ Durable' = Durable
    BY <1>5, <1>8 DEF Durable
  <2> QED
    BY <1>8, <2>1 DEF Store!vars
<1>9. CASE \/ TimerFlush \/ FlushNowCall \/ FlushNowLock \/ ScanValue \/ FlushDone
           \/ \E k \in Key : ScanState(k) \/ RedisExpire(k)
           \/ UNCHANGED vars
  <2>1. UNCHANGED <<cacheMap, heap, op, promised, db>>
    BY <1>9 DEF TimerFlush, FlushNowCall, FlushNowLock, ScanValue, FlushDone, ScanState, RedisExpire,
       vars, entryVars, storeVars, clientVars, ghostVars
  <2> QED
    BY <1>8, <2>1
<1>10. ~Clearing
  BY DEF Clearing, Expire, ClearCollect, ClearDrop, UserInv
<1> QED
  BY <1>4, <1>6, <1>7, <1>9, <1>10 DEF Next, FlushStep

\* Without eviction, and while no two goroutines use a key at once, the map, the
\* flags, the versions and the batches together are the store WriteBackStore
\* describes.
THEOREM StoreCorrect == ~AutoClear => (Spec /\ []OneUser => ImplementsStore)
<1> SUFFICES ASSUME ~AutoClear PROVE Spec /\ []OneUser => ImplementsStore
  OBVIOUS
<1>1. UserInv /\ OneUser /\ OneUser' /\ [Next]_vars => UserInv'
  BY UserStep
<1>2. UserInv /\ UserInv' /\ [Next]_vars => [Store!Next]_(Store!vars)
  BY StoreStep
<1> QED
  BY <1>1, <1>2, UserInit, StoreInit, PTL DEF Spec, ImplementsStore, Store!Spec
=============================================================================
