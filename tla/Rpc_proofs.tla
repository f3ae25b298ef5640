----------------------------- MODULE Rpc_proofs -----------------------------
(***************************************************************************)
(* Proofs about RpcCall, for any nodes, users, calls and slots: types, that *)
(* the slots taken are those of the calls in progress, that a call is not  *)
(* sent to a node dropped before its selection began, and that a user's    *)
(* calls stay with their node while the selector knows it.                 *)
(*                                                                         *)
(* And about Frames, for requests and answers of any content and length:   *)
(* what is written first is what is read first, whatever follows it, over  *)
(* TCP and over KCP, sealed or plain, in both response protocols.          *)
(***************************************************************************)
EXTENDS RpcCall, Frames, FiniteSetTheorems, SequenceTheorems, TLAPS

-----------------------------------------------------------------------------
(* Types *)

Place == {"idle", "admitted", "select", "loop", "read", "decide", "bind",
          "go", "local", "wait"}

CallRecord ==
    [send : Sends, user : User \cup {None}, at : Place, todo : SUBSET User,
     uid : User \cup {None}, sel : Node \cup {None}, seen : SUBSET Node,
     answered : BOOLEAN]

\* Everything but the slots, whose bound is that of the calls that hold them.
Typed ==
    /\ known \in [Node -> {"new", "active", "paused", "gone"}]
    /\ ring \subseteq Node /\ pick \in [User -> Node \cup {None}]
    /\ refresh \in [busy : BOOLEAN, dropped : SUBSET Node, new : BOOLEAN]
    /\ meta \in [User -> Node \cup {None}]
    /\ cache \in [User -> Node \cup {None}]
    /\ conn \in [User -> Node \cup {None}]
    /\ home \in [User -> Node \cup {None, "any"}]
    /\ uploads \subseteq User \X (Node \cup {None})
    /\ client \in {"none", "ready", "registered"}
    /\ localUp \in BOOLEAN
    /\ call \in [Call -> CallRecord]

\* Where a call is with its users: one for each that its context names and that
\* has no node yet, the one in hand among them.
Progress ==
    \A c \in Call :
        /\ At(c) \in {"admitted", "select"} =>
              call[c].todo = Named(call[c].send.ctx, call[c].user)
        /\ At(c) \in {"read", "decide", "bind"} => call[c].uid \in call[c].todo
        /\ At(c) \in Selecting /\ call[c].send.ctx # "bind" =>
              call[c].todo \subseteq {call[c].user}
        /\ At(c) \in {"admitted", "select"} /\ call[c].send.ctx # "node" => call[c].sel = None

TypeInv == Typed /\ Progress

\* No call, no refresh and every way to enter a call are records of their types.
LEMMA Records ==
    /\ NoCall \in CallRecord /\ NoCall.at = "idle"
    /\ NoRefresh \in [busy : BOOLEAN, dropped : SUBSET Node, new : BOOLEAN]
    /\ sendMessage \in Sends /\ sendMessage.ctx = "conn"
  BY DEF NoCall, CallRecord, Sends, Place, NoRefresh, sendMessage

\* Initially nothing is known, stored or called.
THEOREM TypeInit == Init => TypeInv
<1> SUFFICES ASSUME Init PROVE TypeInv
  OBVIOUS
<1>2. call \in [Call -> CallRecord] /\ \A c \in Call : call[c].at = "idle"
  BY Records DEF Init
<1>3. Typed
  BY Records, <1>2 DEF Init, Typed
<1>4. Progress
  BY <1>2 DEF Progress, At, Selecting
<1> QED
  BY <1>3, <1>4 DEF TypeInv

\* The selector's view keeps its type when discovery changes it.
LEMMA RehashTypes ==
    ASSUME Typed, NEW r \in SUBSET Node, Rehash(r)
    PROVE  /\ ring' = r /\ ring' \subseteq Node /\ pick' \in [User -> Node \cup {None}]
           /\ \A u \in User : pick'[u] \in r \cup {None}
  BY DEF Rehash, Typed

\* What holds of one call's record as it makes its way.
OnItsWay(r) ==
    /\ r.at \in {"admitted", "select"} => r.todo = Named(r.send.ctx, r.user)
    /\ r.at \in {"read", "decide", "bind"} => r.uid \in r.todo
    /\ r.at \in Selecting /\ r.send.ctx # "bind" => r.todo \subseteq {r.user}
    /\ r.at \in {"admitted", "select"} /\ r.send.ctx # "node" => r.sel = None

\* Only the call that moves changes its record.
LEMMA CallMoves ==
    ASSUME TypeInv, NEW c \in Call, NEW r \in CallRecord, OnItsWay(r),
           call' = [call EXCEPT ![c] = r]
    PROVE  /\ call' \in [Call -> CallRecord] /\ Progress'
           /\ call'[c] = r /\ \A d \in Call : d # c => call'[d] = call[d]
<1>1. /\ call' \in [Call -> CallRecord] /\ call'[c] = r
      /\ \A d \in Call : d # c => call'[d] = call[d]
  BY DEF Typed, TypeInv
<1> QED
  BY <1>1 DEF Progress, At, TypeInv, OnItsWay

\* A call that ends is idle.
LEMMA ReleaseMoves ==
    ASSUME TypeInv, NEW c \in Call, Release(c)
    PROVE  /\ call' \in [Call -> CallRecord] /\ Progress'
           /\ call'[c] = NoCall /\ \A d \in Call : d # c => call'[d] = call[d]
<1>1. OnItsWay(NoCall)
  BY Records DEF OnItsWay, Selecting
<1> QED
  BY <1>1, Records, CallMoves DEF Release

\* A call begins where it is admitted to, with the users its context names.
LEMMA EnterMoves ==
    ASSUME TypeInv, NEW c \in Call, NEW send \in Sends, NEW u \in User,
           NEW p \in {"admitted", "local", "select"}, NEW n \in Node \cup {None},
           n # None => send.ctx = "node", Enter(c, send, u, p, n)
    PROVE  /\ call' \in [Call -> CallRecord] /\ Progress'
           /\ At(c)' = p /\ call'[c].seen = KnownNodes /\ call'[c].send = send
           /\ \A d \in Call : d # c => call'[d] = call[d]
<1> DEFINE r == [NoCall EXCEPT !.send = send, !.user = u, !.sel = n, !.at = p,
                               !.todo = Named(send.ctx, u), !.seen = KnownNodes]
<1>1. /\ Named(send.ctx, u) \in SUBSET User
      /\ send.ctx # "bind" => Named(send.ctx, u) \subseteq {u}
  BY DEF Named
<1>2. KnownNodes \in SUBSET Node /\ p \in Place /\ p \notin {"read", "decide", "bind"}
  BY DEF KnownNodes, Place
<1>3. /\ r \in CallRecord
      /\ r.send = send /\ r.user = u /\ r.at = p /\ r.todo = Named(send.ctx, u)
      /\ r.sel = n /\ r.seen = KnownNodes
  BY <1>1, <1>2, Records DEF CallRecord
<1>4. OnItsWay(r)
  BY <1>1, <1>2, <1>3 DEF OnItsWay
<1>5. call' = [call EXCEPT ![c] = r]
  BY DEF Enter
<1> QED
  BY <1>3, <1>4, <1>5, CallMoves DEF At

\* The next user has its node, and the call goes on with the others or goes out.
LEMMA DecidedMoves ==
    ASSUME TypeInv, NEW c \in Call, NEW u \in User, NEW n \in Node \cup {None},
           At(c) \in Selecting, Decided(c, u, n)
    PROVE  /\ call' \in [Call -> CallRecord] /\ Progress'
           /\ home' \in [User -> Node \cup {None, "any"}]
           /\ At(c)' \in {"go", "loop"} /\ call'[c].sel = n
           /\ At(c)' = "loop" => call[c].todo # {u}
           /\ call'[c].todo = call[c].todo \ {u}
           /\ call'[c].seen = call[c].seen /\ call'[c].send = call[c].send
           /\ call'[c].user = call[c].user
           /\ \A d \in Call : d # c => call'[d] = call[d]
<1> DEFINE r == [call[c] EXCEPT !.todo = @ \ {u}, !.sel = n, !.uid = None,
                                !.at = IF call[c].todo = {u} THEN "go" ELSE "loop"]
<1>1. call[c] \in CallRecord
  BY DEF TypeInv, Typed
<1>2. r \in CallRecord /\ r.at \in {"go", "loop"} /\ r.sel = n /\ r.todo = call[c].todo \ {u}
      /\ r.seen = call[c].seen /\ r.send = call[c].send /\ r.user = call[c].user
      /\ (r.at = "loop" => call[c].todo # {u})
  BY <1>1 DEF CallRecord, Place
<1>3. OnItsWay(r)
  BY <1>2 DEF OnItsWay, Selecting, TypeInv, Progress, At
<1>4. call' = [call EXCEPT ![c] = r]
  BY DEF Decided
<1>5. home' \in [User -> Node \cup {None, "any"}]
  BY DEF Decided, TypeInv, Typed
<1> QED
  BY <1>2, <1>3, <1>4, <1>5, CallMoves DEF At

\* A binding keeps the stores' types.
LEMMA Storing ==
    ASSUME Typed, NEW u \in User, NEW n \in Node \cup {None}, ProcessNode(u, n)
    PROVE  /\ meta' \in [User -> Node \cup {None}] /\ cache' \in [User -> Node \cup {None}]
           /\ uploads' \subseteq User \X (Node \cup {None})
  BY DEF ProcessNode, Typed

\* Every step keeps the types and the progress of the calls.
THEOREM TypeStep == TypeInv /\ [Next]_vars => TypeInv'
<1> SUFFICES ASSUME TypeInv, [Next]_vars PROVE TypeInv'
  OBVIOUS
<1> USE DEF bindingVars, clientVars, callVars, discoveryVars
<1>1. ASSUME UpdateAdds PROVE TypeInv'
  <2>1. PICK list \in Listings : 
          /\ refresh' = [busy |-> TRUE, dropped |-> KnownNodes \ Present(list),
                         new |-> ~(Present(list) \subseteq KnownNodes)]
          /\ known' = [n \in Node |-> IF n \in Present(list) THEN list[n] ELSE known[n]]
          /\ Rehash(ring \cup Present(list))
          /\ call' = [c \in Call |-> IF At(c) \in Selecting
                       THEN [call[c] EXCEPT !.seen = @ \cup Present(list)] ELSE call[c]]
    BY <1>1 DEF UpdateAdds
  <2>2. Present(list) \subseteq Node /\ KnownNodes \subseteq Node
        /\ list \in [Node -> {"new", "active", "paused", "gone"}]
    BY DEF Present, KnownNodes, Listings
  <2>3. \A c \in Call : /\ call'[c] \in CallRecord
                        /\ call'[c].send = call[c].send /\ call'[c].user = call[c].user
                        /\ call'[c].at = call[c].at /\ call'[c].todo = call[c].todo
                        /\ call'[c].uid = call[c].uid /\ call'[c].sel = call[c].sel
    <3> SUFFICES ASSUME NEW c \in Call
                 PROVE  /\ call'[c] \in CallRecord
                        /\ call'[c].send = call[c].send /\ call'[c].user = call[c].user
                        /\ call'[c].at = call[c].at /\ call'[c].todo = call[c].todo
                        /\ call'[c].uid = call[c].uid /\ call'[c].sel = call[c].sel
      OBVIOUS
    <3>1. call[c] \in CallRecord
      BY DEF TypeInv, Typed
    <3>2. call'[c] = [call[c] EXCEPT !.seen = @ \cup Present(list)] \/ call'[c] = call[c]
      BY <2>1
    <3> QED
      BY <3>1, <3>2, <2>2 DEF CallRecord
  <2>4. call' \in [Call -> CallRecord]
    BY <2>1, <2>3
  <2>5. Progress'
    BY <2>3 DEF TypeInv, Progress, At
  <2>6. ring' \subseteq Node /\ pick' \in [User -> Node \cup {None}]
    BY <2>1, <2>2, RehashTypes DEF TypeInv, Typed
  <2>7. refresh' \in [busy : BOOLEAN, dropped : SUBSET Node, new : BOOLEAN]
        /\ known' \in [Node -> {"new", "active", "paused", "gone"}]
    BY <2>1, <2>2 DEF TypeInv, Typed
  <2>8. home' \in [User -> Node \cup {None, "any"}]
    BY <1>1 DEF UpdateAdds, Unsettle, TypeInv, Typed
  <2> QED
    BY <1>1, <2>4, <2>5, <2>6, <2>7, <2>8 DEF UpdateAdds, TypeInv, Typed
<1>2. ASSUME UpdateSweeps PROVE TypeInv'
  BY <1>2, RehashTypes, Records DEF UpdateSweeps, Unsettle, TypeInv, Typed, Progress, At
<1>3. ASSUME Startup PROVE TypeInv'
  BY <1>3, RehashTypes DEF Startup, RegisterClient, Listings, TypeInv, Typed, Progress, At
<1>4. ASSUME WatchRegisters PROVE TypeInv'
  BY <1>4, RehashTypes DEF WatchRegisters, RegisterClient, Listings, TypeInv, Typed, Progress, At
<1>5. ASSUME RegisterLocalServices PROVE TypeInv'
  BY <1>5 DEF RegisterLocalServices, TypeInv, Typed, Progress, At
<1>6. ASSUME NEW c \in Call, NEW u \in User, StartRequest(c, u) PROVE TypeInv'
  BY <1>6, EnterMoves, Records DEF StartRequest, TypeInv, Typed
<1>7. ASSUME NEW c \in Call, NEW u \in User, NEW send \in Sends, NEW n \in Node \cup {None},
             Start(c, send, u, n)
      PROVE  TypeInv'
  BY <1>7, EnterMoves DEF Start, TypeInv, Typed
<1>8. ASSUME NEW c \in Call, Route(c) PROVE TypeInv'
  <2>1. CASE call' = [call EXCEPT ![c].at = "local", ![c].seen = {}]
    <3> DEFINE r == [call[c] EXCEPT !.at = "local", !.seen = {}]
    <3>0. call[c] \in CallRecord
      BY DEF TypeInv, Typed
    <3>1. r \in CallRecord /\ r.at = "local"
      BY <3>0 DEF CallRecord, Place
    <3>2. OnItsWay(r) /\ call' = [call EXCEPT ![c] = r]
      BY <2>1, <3>1 DEF OnItsWay, Selecting
    <3> QED
      BY <1>8, <3>1, <3>2, CallMoves DEF Route, TypeInv, Typed
  <2>2. CASE call' = [call EXCEPT ![c].at = "select", ![c].seen = KnownNodes]
    <3> DEFINE r == [call[c] EXCEPT !.at = "select", !.seen = KnownNodes]
    <3>0. call[c] \in CallRecord
      BY DEF TypeInv, Typed
    <3>1. /\ r \in CallRecord /\ r.at = "select"
          /\ r.todo = call[c].todo /\ r.send = call[c].send /\ r.user = call[c].user
          /\ r.sel = call[c].sel
      BY <3>0 DEF CallRecord, Place, KnownNodes
    <3>2. call[c].todo = Named(r.send.ctx, r.user) /\ (r.send.ctx # "node" => r.sel = None)
      BY <1>8, <3>1 DEF Route, TypeInv, Progress
    <3>3. OnItsWay(r)
      BY <3>1, <3>2 DEF OnItsWay, Named
    <3>4. call' = [call EXCEPT ![c] = r]
      BY <2>2
    <3> QED
      BY <1>8, <3>1, <3>3, <3>4, CallMoves DEF Route, TypeInv, Typed
  <2>3. CASE Release(c)
    BY <1>8, <2>3, ReleaseMoves DEF Route, TypeInv, Typed
  <2> QED
    BY <1>8, <2>1, <2>2, <2>3 DEF Route
<1>9. ASSUME NEW c \in Call, SelectCarried(c) PROVE TypeInv'
  <2>1. CASE Release(c)
    BY <1>9, <2>1, ReleaseMoves DEF SelectCarried, TypeInv, Typed
  <2>2. CASE ~Release(c)
    <3>1. PICK n \in IF ~Alive(Carried(c)) /\ call[c].send.ctx \in {"bind", "node"}
                     THEN AnyOf(ring) ELSE {Carried(c)} :
             call' = [call EXCEPT ![c].sel = n,
                        ![c].at = IF call[c].todo = {} THEN "go" ELSE "loop"]
      BY <1>9, <2>2 DEF SelectCarried
    <3>2. call[c] \in CallRecord /\ n \in Node \cup {None}
      <4>1. call[c] \in CallRecord /\ ring \subseteq Node
        BY DEF TypeInv, Typed
      <4>2. OnConn(c) => call[c].user \in User
        BY <1>9, <4>1 DEF SelectCarried, OnConn, Named, TypeInv, Progress, CallRecord
      <4> QED
        BY <4>1, <4>2, <3>1 DEF AnyOf, Carried, CallRecord, TypeInv, Typed
    <3> DEFINE r == [call[c] EXCEPT !.sel = n,
                               !.at = IF call[c].todo = {} THEN "go" ELSE "loop"]
    <3>3. /\ r \in CallRecord /\ r.at \in {"go", "loop"}
          /\ r.todo = call[c].todo /\ r.send = call[c].send /\ r.user = call[c].user
      BY <3>2 DEF CallRecord, Place
    <3>4. OnItsWay(r)
      BY <1>9, <3>3 DEF SelectCarried, OnItsWay, Selecting, TypeInv, Progress
    <3>5. call' = [call EXCEPT ![c] = r]
      BY <3>1
    <3> QED
      BY <1>9, <2>2, <3>3, <3>4, <3>5, CallMoves DEF SelectCarried, TypeInv, Typed
  <2> QED
    BY <2>1, <2>2
<1>10. ASSUME NEW c \in Call, ReadMeta(c) PROVE TypeInv'
  <2> DEFINE r == [call[c] EXCEPT !.sel = meta[call[c].uid], !.at = "decide"]
  <2>1. call[c] \in CallRecord /\ call[c].at = "read" /\ call' = [call EXCEPT ![c] = r]
    BY <1>10 DEF ReadMeta, At, TypeInv, Typed
  <2>2. call[c].uid \in call[c].todo
    BY <2>1 DEF TypeInv, Progress, At
  <2>3. meta[call[c].uid] \in Node \cup {None}
    BY <2>1, <2>2 DEF CallRecord, TypeInv, Typed
  <2>4. /\ r \in CallRecord /\ r.at = "decide" /\ r.uid = call[c].uid
        /\ r.todo = call[c].todo /\ r.send = call[c].send /\ r.user = call[c].user
    BY <2>1, <2>3 DEF CallRecord, Place
  <2>5. OnItsWay(r)
    BY <2>1, <2>2, <2>4 DEF OnItsWay, Selecting, TypeInv, Progress, At
  <2> QED
    BY <1>10, <2>1, <2>4, <2>5, CallMoves DEF ReadMeta, TypeInv, Typed
<1>11. ASSUME NEW c \in Call, Decide(c) PROVE TypeInv'
  BY <1>11 DEF Decide, Decided, OnConn, CallRecord, Place, TypeInv, Typed, Progress, At, Selecting
<1>12. ASSUME NEW c \in Call, Bind(c) PROVE TypeInv'
  <2>1. call[c].uid \in User /\ call[c].sel \in Node \cup {None} /\ At(c) \in Selecting
    BY <1>12 DEF Bind, TypeInv, Typed, Progress, CallRecord, Selecting
  <2> QED
    BY <1>12, <2>1, DecidedMoves, Storing DEF Bind, TypeInv, Typed
<1>13. ASSUME NEW c \in Call, NEW u \in User, SelectLocal(c, u) PROVE TypeInv'
  <2>1. /\ At(c) \in Selecting /\ call[c].sel \in Node \cup {None}
        /\ cache[u] \in Node \cup {None}
    BY <1>13 DEF SelectLocal, TypeInv, Typed, CallRecord, Selecting
  <2>2. CASE Decided(c, u, call[c].sel) \/ Decided(c, u, cache[u])
    <3>1. call' \in [Call -> CallRecord] /\ Progress' /\ home' \in [User -> Node \cup {None, "any"}]
      BY <2>1, <2>2, DecidedMoves
    <3>2. ProcessNode(u, call[c].sel) \/ UNCHANGED <<meta, cache, uploads>>
      BY <1>13 DEF SelectLocal
    <3> QED
      BY <1>13, <2>1, <3>1, <3>2, Storing DEF SelectLocal, TypeInv, Typed
  <2>3. CASE ~(Decided(c, u, call[c].sel) \/ Decided(c, u, cache[u]))
    <3> DEFINE r == [call[c] EXCEPT !.uid = u, !.sel = None, !.at = "read"]
    <3>1. /\ call' = [call EXCEPT ![c].uid = u, ![c].sel = None, ![c].at = "read"]
          /\ UNCHANGED <<meta, cache, uploads, home>>
      BY <1>13, <2>3 DEF SelectLocal
    <3>2. call[c] \in CallRecord
      BY DEF TypeInv, Typed
    <3>3. /\ r \in CallRecord /\ r.at = "read" /\ r.uid = u
          /\ r.todo = call[c].todo /\ r.send = call[c].send /\ r.user = call[c].user
      BY <3>2 DEF CallRecord, Place
    <3>4. OnItsWay(r)
      BY <1>13, <3>3 DEF SelectLocal, OnItsWay, Selecting, TypeInv, Progress
    <3>5. call' = [call EXCEPT ![c] = r]
      BY <3>1
    <3> QED
      BY <1>13, <3>1, <3>3, <3>4, <3>5, CallMoves DEF SelectLocal, TypeInv, Typed
  <2> QED
    BY <2>2, <2>3
<1>14. ASSUME NEW c \in Call, Go(c) PROVE TypeInv'
  <2>1. CASE Release(c)
    BY <1>14, <2>1, ReleaseMoves DEF Go, TypeInv, Typed
  <2>2. CASE ~Release(c)
    <3> DEFINE r == [NoCall EXCEPT !.send = call[c].send, !.at = "wait"]
    <3>1. call[c].send \in Sends
      BY DEF TypeInv, Typed, CallRecord
    <3>2. r \in CallRecord /\ r.at = "wait"
      BY <3>1, Records DEF CallRecord, Place
    <3>3. OnItsWay(r) /\ call' = [call EXCEPT ![c] = r]
      BY <1>14, <2>2, <3>2 DEF Go, OnItsWay, Selecting
    <3> QED
      BY <1>14, <3>2, <3>3, CallMoves DEF Go, TypeInv, Typed
  <2> QED
    BY <2>1, <2>2
<1>15. ASSUME NEW c \in Call, LocalRequestEnds(c) PROVE TypeInv'
  BY <1>15, ReleaseMoves DEF LocalRequestEnds, TypeInv, Typed
<1>16. ASSUME NEW c \in Call, LocalCallEnds(c) PROVE TypeInv'
  BY <1>16, ReleaseMoves DEF LocalCallEnds, TypeInv, Typed
<1>17. ASSUME NEW c \in Call, Answered(c) PROVE TypeInv'
  <2> DEFINE r == [call[c] EXCEPT !.answered = TRUE]
  <2>1. r \in CallRecord /\ r.at = "wait"
    BY ZenonT(30), <1>17 DEF Answered, At, TypeInv, Typed, CallRecord
  <2>2. OnItsWay(r) /\ call' = [call EXCEPT ![c] = r]
    BY <1>17, <2>1 DEF Answered, OnItsWay, Selecting
  <2> QED
    BY <1>17, <2>1, <2>2, CallMoves DEF Answered, TypeInv, Typed
<1>18. ASSUME NEW c \in Call, Return(c) PROVE TypeInv'
  BY <1>18, ReleaseMoves DEF Return, TypeInv, Typed
<1>19. ASSUME NEW c \in Call, Timeout(c) PROVE TypeInv'
  BY <1>19, ReleaseMoves DEF Timeout, TypeInv, Typed
<1>20. ASSUME NEW u \in User, NEW n \in Node, OtherBinds(u, n) PROVE TypeInv'
  BY <1>20 DEF OtherBinds, TypeInv, Typed, Progress, At
<1>21. ASSUME NEW u \in User, NEW n \in Node, UpdateUserNodeInfo(u, n) PROVE TypeInv'
  BY <1>21 DEF UpdateUserNodeInfo, TypeInv, Typed, Progress, At
<1>22. CASE UNCHANGED vars
  BY <1>22 DEF vars, TypeInv, Typed, Progress, At
<1> QED
  BY <1>1, <1>2, <1>3, <1>4, <1>5, <1>6, <1>7, <1>8, <1>9, <1>10, <1>11, <1>12, <1>13,
     <1>14, <1>15, <1>16, <1>17, <1>18, <1>19, <1>20, <1>21, <1>22 DEF Next, CallStep


-----------------------------------------------------------------------------
(* Invariants *)

Holders == {c \in Call : At(c) \in Holding}

\* The slots are those of the calls between admission and end.
Balance == slots = Cardinality(Holders) /\ slots <= Slots

BalanceInv == TypeInv /\ Balance

\* The calls are finitely many.
LEMMA HoldersFinite == IsFiniteSet(Holders) /\ Cardinality(Holders) \in Nat
<1>1. Holders \subseteq Call
  BY DEF Holders
<1>2. IsFiniteSet(Holders)
  BY <1>1, RpcCallAssumption, FS_Subset
<1> QED
  BY <1>2, FS_CardinalityType

\* A call that takes a slot begins to hold it.
LEMMA Taken ==
    ASSUME Balance, TakeSlot, NEW c \in Call, At(c) \notin Holding, At(c)' \in Holding,
           \A d \in Call : d # c => call'[d] = call[d]
    PROVE  Balance'
<1>1. Holders' = Holders \cup {c} /\ c \notin Holders
  BY DEF Holders, At
<1>2. Cardinality(Holders') = Cardinality(Holders) + 1
  BY <1>1, HoldersFinite, FS_AddElement
<1> QED
  BY <1>2, HoldersFinite, RpcCallAssumption DEF Balance, TakeSlot

\* A call that gives its slot back holds none.
LEMMA Given ==
    ASSUME BalanceInv, NEW c \in Call, At(c) \in Holding, Release(c)
    PROVE  Balance'
<1>1. /\ At(c)' = "idle" /\ \A d \in Call : d # c => call'[d] = call[d]
  BY ReleaseMoves, Records DEF BalanceInv, At
<1>2. Holders' = Holders \ {c} /\ c \in Holders
  BY <1>1 DEF Holders, At, Holding, Selecting
<1>3. Cardinality(Holders') = Cardinality(Holders) - 1
  BY <1>2, HoldersFinite, FS_RemoveElement
<1> QED
  BY <1>3, HoldersFinite, RpcCallAssumption DEF Balance, BalanceInv, Release

\* A step between admission and end, or outside them, leaves the slots alone.
LEMMA Kept ==
    ASSUME Balance, UNCHANGED slots, \A c \in Call : At(c)' \in Holding <=> At(c) \in Holding
    PROVE  Balance'
<1>1. Holders' = Holders
  BY DEF Holders
<1> QED
  BY <1>1 DEF Balance

\* A step of one call that holds its slot before and after.
LEMMA Moved ==
    ASSUME Balance, UNCHANGED slots, NEW c \in Call, At(c) \in Holding, At(c)' \in Holding,
           \A d \in Call : d # c => call'[d] = call[d]
    PROVE  Balance'
<1>1. \A d \in Call : At(d)' \in Holding <=> At(d) \in Holding
  BY DEF At
<1> QED
  BY <1>1, Kept

\* Initially no slot is taken.
THEOREM BalanceInit == Init => BalanceInv
<1> SUFFICES ASSUME Init PROVE BalanceInv
  OBVIOUS
<1>1. TypeInv
  BY TypeInit
<1>2. Holders = {}
  BY Records DEF Init, Holders, At, Holding, Selecting
<1>3. Balance
  BY <1>2, FS_EmptySet, RpcCallAssumption DEF Init, Balance
<1> QED
  BY <1>1, <1>3 DEF BalanceInv

\* Every step keeps the slots and the calls that hold them in balance.
THEOREM BalanceStep == BalanceInv /\ [Next]_vars => BalanceInv'
<1> SUFFICES ASSUME BalanceInv, [Next]_vars PROVE BalanceInv'
  OBVIOUS
<1>0. TypeInv /\ Balance /\ TypeInv' /\ call \in [Call -> CallRecord]
  BY TypeStep DEF BalanceInv, TypeInv, Typed
<1> SUFFICES Balance'
  BY <1>0 DEF BalanceInv
<1> USE DEF bindingVars, clientVars, callVars, discoveryVars
<1>1. ASSUME UpdateAdds PROVE Balance'
  <2>1. \A c \in Call : call'[c].at = call[c].at
    BY <1>0, <1>1 DEF UpdateAdds, CallRecord
  <2> QED
    BY <1>0, <1>1, <2>1, Kept DEF UpdateAdds, At
<1>2. ASSUME UNCHANGED callVars PROVE Balance'
  BY <1>0, <1>2, Kept DEF At
<1>3. ASSUME \/ UpdateSweeps \/ Startup \/ WatchRegisters \/ RegisterLocalServices
             \/ \E u \in User, n \in Node : OtherBinds(u, n) \/ UpdateUserNodeInfo(u, n)
      PROVE  Balance'
  BY <1>2, <1>3 DEF UpdateSweeps, Startup, WatchRegisters, RegisterLocalServices, OtherBinds,
     UpdateUserNodeInfo
<1>4. ASSUME NEW c \in Call, NEW u \in User, StartRequest(c, u) PROVE Balance'
  <2>1. PICK p \in {"local", "select"} : Enter(c, sendMessage, u, p, None)
    BY <1>4 DEF StartRequest
  <2>2. At(c)' = p /\ \A d \in Call : d # c => call'[d] = call[d]
    BY <1>0, <2>1, EnterMoves, Records
  <2> QED
    BY <1>0, <1>4, <2>2, Taken DEF StartRequest, Holding, Selecting
<1>5. ASSUME NEW c \in Call, NEW u \in User, NEW send \in Sends, NEW n \in Node \cup {None},
             Start(c, send, u, n)
      PROVE  Balance'
  <2>1. At(c)' = "admitted" /\ \A d \in Call : d # c => call'[d] = call[d]
    BY <1>0, <1>5, EnterMoves DEF Start
  <2> QED
    BY <1>0, <1>5, <2>1, Taken DEF Start, Holding, Selecting
<1>6. ASSUME NEW c \in Call, At(c) \in Holding, Release(c) PROVE Balance'
  BY <1>6, Given
<1>7. ASSUME NEW c \in Call, Route(c) PROVE Balance'
  <2>1. CASE UNCHANGED slots
    <3>1. /\ call'[c].at \in {"local", "select"} \/ Release(c)
          /\ Release(c) \/ \A d \in Call : d # c => call'[d] = call[d]
      BY <1>0, <1>7 DEF Route, CallRecord
    <3> QED
      BY <1>0, <1>6, <1>7, <2>1, <3>1, Moved DEF Route, Holding, Selecting, At
  <2>2. CASE Release(c)
    BY <1>6, <1>7, <2>2 DEF Route, Holding
  <2> QED
    BY <1>7, <2>1, <2>2 DEF Route
<1>8. ASSUME NEW c \in Call, SelectCarried(c) PROVE Balance'
  <2>1. CASE Release(c)
    BY <1>6, <1>8, <2>1 DEF SelectCarried, Holding, Selecting
  <2>2. CASE ~Release(c)
    <3>1. call'[c].at \in {"go", "loop"} /\ \A d \in Call : d # c => call'[d] = call[d]
      BY ZenonT(30), <1>0, <1>8, <2>2 DEF SelectCarried, CallRecord
    <3> QED
      BY <1>0, <1>8, <2>2, <3>1, Moved DEF SelectCarried, Holding, Selecting, At
  <2> QED
    BY <2>1, <2>2
<1>9. ASSUME NEW c \in Call, ReadMeta(c) PROVE Balance'
  <2>1. call'[c].at = "decide" /\ \A d \in Call : d # c => call'[d] = call[d]
    BY <1>0, <1>9 DEF ReadMeta, CallRecord
  <2> QED
    BY <1>0, <1>9, <2>1, Moved DEF ReadMeta, Holding, Selecting, At
<1>10. ASSUME NEW c \in Call, NEW u \in User, NEW n \in Node \cup {None}, UNCHANGED slots,
              At(c) \in Selecting, Decided(c, u, n)
       PROVE  Balance'
  BY <1>0, <1>10, DecidedMoves, Moved DEF Holding, Selecting
<1>11. ASSUME NEW c \in Call, Decide(c) PROVE Balance'
  <2>1. call[c].uid \in User /\ call[c].sel \in Node \cup {None} /\ At(c) \in Selecting
    BY <1>0, <1>11 DEF Decide, TypeInv, Progress, CallRecord, Selecting
  <2>2. CASE Decided(c, call[c].uid, call[c].sel)
    BY <1>10, <1>11, <2>1, <2>2 DEF Decide
  <2>3. CASE ~Decided(c, call[c].uid, call[c].sel)
    <3>1. call'[c].at = "bind" /\ \A d \in Call : d # c => call'[d] = call[d]
      BY <1>0, <1>11, <2>3 DEF Decide, CallRecord
    <3> QED
      BY <1>0, <1>11, <3>1, Moved DEF Decide, Holding, Selecting, At
  <2> QED
    BY <2>2, <2>3
<1>12. ASSUME NEW c \in Call, Bind(c) PROVE Balance'
  <2>1. call[c].uid \in User /\ call[c].sel \in Node \cup {None} /\ At(c) \in Selecting
    BY <1>0, <1>12 DEF Bind, TypeInv, Progress, CallRecord, Selecting
  <2> QED
    BY <1>10, <1>12, <2>1 DEF Bind
<1>13. ASSUME NEW c \in Call, NEW u \in User, SelectLocal(c, u) PROVE Balance'
  <2>1. /\ At(c) \in Selecting /\ call[c].sel \in Node \cup {None}
        /\ cache[u] \in Node \cup {None}
    BY <1>0, <1>13 DEF SelectLocal, TypeInv, Typed, CallRecord, Selecting
  <2>2. CASE Decided(c, u, call[c].sel) \/ Decided(c, u, cache[u])
    BY <1>10, <1>13, <2>1, <2>2 DEF SelectLocal
  <2>3. CASE ~(Decided(c, u, call[c].sel) \/ Decided(c, u, cache[u]))
    <3>1. call'[c].at = "read" /\ \A d \in Call : d # c => call'[d] = call[d]
      BY <1>0, <1>13, <2>3 DEF SelectLocal, CallRecord
    <3> QED
      BY <1>0, <1>13, <2>1, <3>1, Moved DEF SelectLocal, Holding, Selecting, At
  <2> QED
    BY <2>2, <2>3
<1>14. ASSUME NEW c \in Call, Go(c) PROVE Balance'
  <2>1. CASE Release(c)
    BY <1>6, <1>14, <2>1 DEF Go, Holding
  <2>2. CASE ~Release(c)
    <3> DEFINE r == [NoCall EXCEPT !.send = call[c].send, !.at = "wait"]
    <3>1. call' = [call EXCEPT ![c] = r]
      BY <1>14, <2>2 DEF Go
    <3>2. r.at = "wait"
      BY Records DEF CallRecord
    <3>3. At(c)' = "wait" /\ \A d \in Call : d # c => call'[d] = call[d]
      BY <1>0, <3>1, <3>2 DEF At
    <3> QED
      BY <1>0, <1>14, <2>2, <3>3, Moved DEF Go, Holding
  <2> QED
    BY <2>1, <2>2
<1>15. ASSUME NEW c \in Call, LocalRequestEnds(c) \/ LocalCallEnds(c) \/ Return(c) \/ Timeout(c)
       PROVE  Balance'
  BY <1>6, <1>15 DEF LocalRequestEnds, LocalCallEnds, Return, Timeout, Holding
<1>16. ASSUME NEW c \in Call, Answered(c) PROVE Balance'
  <2>1. \A d \in Call : call'[d].at = call[d].at
    BY <1>0, <1>16 DEF Answered, CallRecord
  <2> QED
    BY <1>0, <1>16, <2>1, Kept DEF Answered, At
<1>17. CASE UNCHANGED vars
  BY <1>2, <1>17 DEF vars
<1> QED
  BY <1>1, <1>3, <1>4, <1>5, <1>7, <1>8, <1>9, <1>11, <1>12, <1>13, <1>14, <1>15, <1>16,
     <1>17 DEF Next, CallStep

\* The slots taken are exactly those of the calls between admission and end, and
\* no more than the policy gives: no way out of the Send functions loses one or
\* gives one back twice.
THEOREM SlotsCorrect == Spec => [](TypeOK /\ SlotsBalance)
<1>1. Spec => []BalanceInv
  BY BalanceInit, BalanceStep, PTL DEF Spec
<1>2. BalanceInv => TypeOK /\ SlotsBalance
  BY HoldersFinite, RpcCallAssumption DEF BalanceInv, Balance, SlotsBalance, Holders, TypeOK,
     TypeInv, Typed, CallRecord
<1> QED
  BY <1>1, <1>2, PTL

-----------------------------------------------------------------------------
(* The selection *)

\* The ring offers known nodes only, a selection knows them all, and what it
\* settles on is one of them.
Chosen ==
    /\ ring \subseteq KnownNodes
    /\ \A u \in User : pick[u] \in ring \cup {None}
    /\ \A c \in Call :
          /\ At(c) \in Selecting => client = "registered" /\ KnownNodes \subseteq call[c].seen
          /\ At(c) = "bind" \/ (At(c) = "go" /\ call[c].send.ctx # "all") =>
                call[c].sel \in call[c].seen \cup {None}

ChosenInv == TypeInv /\ Chosen

\* A step of one call, when the selector's view stays as it is.
LEMMA ChosenFrame ==
    ASSUME ChosenInv, UNCHANGED <<known, ring, pick, client>>, NEW c \in Call,
           \A d \in Call : d # c => call'[d] = call[d],
           At(c)' \in Selecting => client = "registered" /\ KnownNodes \subseteq call'[c].seen,
           At(c)' = "bind" \/ (At(c)' = "go" /\ call'[c].send.ctx # "all") =>
                call'[c].sel \in call'[c].seen \cup {None}
    PROVE  Chosen'
  BY DEF ChosenInv, Chosen, At, KnownNodes

\* An idle call has chosen nothing.
LEMMA ChosenRelease ==
    ASSUME ChosenInv, UNCHANGED <<known, ring, pick, client>>, NEW c \in Call, Release(c)
    PROVE  Chosen'
<1>1. /\ At(c)' = "idle" /\ \A d \in Call : d # c => call'[d] = call[d]
  BY ReleaseMoves, Records DEF ChosenInv, At
<1> QED
  BY <1>1, ChosenFrame DEF Selecting

\* Registering the module gives the selector its first view; nobody selects yet.
LEMMA ChosenRegister ==
    ASSUME ChosenInv, RegisterClient, client # "registered", UNCHANGED call
    PROVE  Chosen'
<1>1. PICK list \in Listings : known' = list
  BY DEF RegisterClient
<1>2. {n \in Node : known'[n] = "active"} \subseteq KnownNodes'
  BY DEF KnownNodes
<1>3. /\ ring' \subseteq KnownNodes' /\ \A u \in User : pick'[u] \in ring' \cup {None}
  <2>1. {n \in Node : known'[n] = "active"} \in SUBSET Node
    OBVIOUS
  <2> QED
    BY <1>2, <2>1, RehashTypes DEF RegisterClient, ChosenInv, TypeInv
<1>4. \A c \in Call : At(c)' \notin Selecting /\ At(c)' = At(c)
  BY DEF ChosenInv, Chosen, At
<1> QED
  BY <1>3, <1>4 DEF ChosenInv, Chosen, At, Selecting

\* Initially nothing is known and nothing selected.
THEOREM ChosenInit == Init => ChosenInv
<1> SUFFICES ASSUME Init PROVE ChosenInv
  OBVIOUS
<1>1. \A c \in Call : At(c) = "idle"
  BY Records DEF Init, At
<1> QED
  BY <1>1, TypeInit DEF ChosenInv, Chosen, Init, Selecting

\* Every step keeps the choice among known nodes.
THEOREM ChosenStep == ChosenInv /\ [Next]_vars => ChosenInv'
<1> SUFFICES ASSUME ChosenInv, [Next]_vars PROVE ChosenInv'
  OBVIOUS
<1>0. TypeInv /\ Chosen /\ TypeInv' /\ call \in [Call -> CallRecord]
      /\ \A c \in Call : call[c] \in CallRecord
  BY TypeStep DEF ChosenInv, TypeInv, Typed
<1> SUFFICES Chosen'
  BY <1>0 DEF ChosenInv
<1> USE DEF bindingVars, clientVars, callVars, discoveryVars
<1>1. ASSUME UpdateAdds PROVE Chosen'
  <2>1. PICK list \in Listings :
          /\ known' = [n \in Node |-> IF n \in Present(list) THEN list[n] ELSE known[n]]
          /\ Rehash(ring \cup Present(list))
          /\ call' = [c \in Call |-> IF At(c) \in Selecting
                       THEN [call[c] EXCEPT !.seen = @ \cup Present(list)] ELSE call[c]]
    BY <1>1 DEF UpdateAdds
  <2>2. KnownNodes' = KnownNodes \cup Present(list) /\ ring \cup Present(list) \in SUBSET Node
    BY <1>0, <2>1 DEF KnownNodes, Present, Chosen
  <2>3. ring' = ring \cup Present(list) /\ \A u \in User : pick'[u] \in ring' \cup {None}
    BY <1>0, <2>1, <2>2, RehashTypes DEF TypeInv
  <2>4. \A c \in Call : /\ At(c)' = At(c) /\ call'[c].sel = call[c].sel
                        /\ call'[c].send = call[c].send
                        /\ call[c].seen \subseteq call'[c].seen
                        /\ At(c) \in Selecting => Present(list) \subseteq call'[c].seen
    BY <1>0, <2>1 DEF CallRecord, At
  <2> QED
    BY <1>0, <1>1, <2>2, <2>3, <2>4 DEF UpdateAdds, Chosen
<1>2. ASSUME UpdateSweeps PROVE Chosen'
  <2> DEFINE r == {n \in ring \ refresh.dropped : known[n] # "paused"}
  <2>1. /\ known' = [n \in Node |-> IF n \in refresh.dropped THEN "gone" ELSE known[n]]
        /\ Rehash(r) /\ UNCHANGED <<client, call>>
    BY <1>2 DEF UpdateSweeps
  <2>2. r \in SUBSET Node /\ r \subseteq KnownNodes' /\ KnownNodes' \subseteq KnownNodes
    BY <1>0, <2>1 DEF KnownNodes, Chosen, TypeInv, Typed
  <2>3. ring' = r /\ \A u \in User : pick'[u] \in r \cup {None}
    BY <1>0, <2>1, <2>2, RehashTypes DEF TypeInv
  <2> QED
    BY <1>0, <2>1, <2>2, <2>3 DEF Chosen, At
<1>3. ASSUME Startup PROVE Chosen'
  <2>1. CASE RegisterClient
    BY <1>3, <2>1, ChosenRegister DEF Startup
  <2>2. CASE ~RegisterClient
    BY <1>0, <1>3, <2>2 DEF Startup, Chosen, At, KnownNodes
  <2> QED
    BY <2>1, <2>2
<1>4. ASSUME WatchRegisters PROVE Chosen'
  BY <1>4, ChosenRegister DEF WatchRegisters
<1>5. ASSUME UNCHANGED <<discoveryVars, client, call>> PROVE Chosen'
  BY <1>0, <1>5 DEF Chosen, At, KnownNodes
<1>6. ASSUME NEW c \in Call, NEW u \in User, StartRequest(c, u) PROVE Chosen'
  <2>1. UNCHANGED <<known, ring, pick, client>>
    BY <1>6 DEF StartRequest
  <2>2. CASE Enter(c, sendMessage, u, "local", None)
    <3>1. At(c)' = "local" /\ \A d \in Call : d # c => call'[d] = call[d]
      BY <1>0, <2>2, EnterMoves, Records
    <3> QED
      BY <2>1, <3>1, ChosenFrame DEF Selecting
  <2>3. CASE client = "registered" /\ Enter(c, sendMessage, u, "select", None)
    <3>1. /\ At(c)' = "select" /\ call'[c].seen = KnownNodes
          /\ \A d \in Call : d # c => call'[d] = call[d]
      BY <1>0, <2>3, EnterMoves, Records
    <3> QED
      BY <2>1, <2>3, <3>1, ChosenFrame
  <2> QED
    BY <1>6, <2>2, <2>3 DEF StartRequest
<1>7. ASSUME NEW c \in Call, NEW u \in User, NEW send \in Sends, NEW n \in Node \cup {None},
             Start(c, send, u, n)
      PROVE  Chosen'
  <2>1. At(c)' = "admitted" /\ \A d \in Call : d # c => call'[d] = call[d]
    BY <1>0, <1>7, EnterMoves DEF Start
  <2> QED
    BY <1>7, <2>1, ChosenFrame DEF Start, Selecting
<1>8. ASSUME NEW c \in Call, Route(c) PROVE Chosen'
  <2>1. CASE Release(c)
    BY <1>8, <2>1, ChosenRelease DEF Route
  <2>2. CASE ~Release(c)
    <3>1. /\ \/ call'[c].at = "local"
             \/ call'[c].at = "select" /\ call'[c].seen = KnownNodes /\ client = "registered"
          /\ \A d \in Call : d # c => call'[d] = call[d]
      BY <1>0, <1>8, <2>2 DEF Route, CallRecord
    <3> QED
      BY <1>8, <3>1, ChosenFrame DEF Route, Selecting, At
  <2> QED
    BY <2>1, <2>2
<1>9. ASSUME NEW c \in Call, SelectCarried(c) PROVE Chosen'
  <2>1. CASE Release(c)
    BY <1>9, <2>1, ChosenRelease DEF SelectCarried
  <2>2. CASE ~Release(c)
    <3>1. PICK n \in IF ~Alive(Carried(c)) /\ call[c].send.ctx \in {"bind", "node"}
                     THEN AnyOf(ring) ELSE {Carried(c)} :
             call' = [call EXCEPT ![c].sel = n,
                        ![c].at = IF call[c].todo = {} THEN "go" ELSE "loop"]
      BY <1>9, <2>2 DEF SelectCarried
    <3>2. /\ call'[c].sel = n /\ call'[c].send = call[c].send /\ call'[c].seen = call[c].seen
          /\ call'[c].at = (IF call[c].todo = {} THEN "go" ELSE "loop")
          /\ \A d \in Call : d # c => call'[d] = call[d]
      BY <1>0, <3>1 DEF CallRecord
    <3>3. ring \subseteq call[c].seen /\ KnownNodes \subseteq call[c].seen /\ client = "registered"
      BY <1>0, <1>9 DEF SelectCarried, Selecting, Chosen
    <3>4. CASE call[c].todo # {}
      BY <1>9, <2>2, <3>2, <3>3, <3>4, ChosenFrame DEF SelectCarried, At
    <3>5. CASE call[c].todo = {}
      <4>1. call[c].todo = Named(call[c].send.ctx, call[c].user)
        BY <1>0, <1>9 DEF SelectCarried, TypeInv, Progress
      <4>2. call[c].send.ctx \in {"bind", "node", "all"}
        BY <3>5, <4>1 DEF Named
      <4>3. call[c].send.ctx # "all" => n \in call[c].seen \cup {None}
        BY <3>1, <3>3, <4>2 DEF Alive, AnyOf
      <4> QED
        BY <1>9, <2>2, <3>2, <3>3, <3>5, <4>3, ChosenFrame DEF SelectCarried, At, Selecting
    <3> QED
      BY <3>4, <3>5
  <2> QED
    BY <2>1, <2>2
<1>10. ASSUME NEW c \in Call, ReadMeta(c) PROVE Chosen'
  <2>1. /\ call'[c].at = "decide" /\ call'[c].seen = call[c].seen
        /\ \A d \in Call : d # c => call'[d] = call[d]
    BY <1>0, <1>10 DEF ReadMeta, CallRecord
  <2>2. KnownNodes \subseteq call[c].seen /\ client = "registered"
    BY <1>0, <1>10 DEF ReadMeta, Selecting, Chosen
  <2> QED
    BY <1>10, <2>1, <2>2, ChosenFrame DEF ReadMeta, At
<1>11. ASSUME NEW c \in Call, NEW u \in User, NEW n \in Node \cup {None}, At(c) \in Selecting,
              n \in call[c].seen \cup {None}, Decided(c, u, n), UNCHANGED <<discoveryVars, client>>
       PROVE  Chosen'
  <2>1. KnownNodes \subseteq call[c].seen /\ client = "registered"
    BY <1>0, <1>11 DEF Chosen
  <2> QED
    BY <1>0, <1>11, <2>1, DecidedMoves, ChosenFrame
<1>12. ASSUME NEW c \in Call, Decide(c) PROVE Chosen'
  <2>1. /\ call[c].uid \in User /\ call[c].sel \in Node \cup {None} /\ At(c) \in Selecting
        /\ KnownNodes \subseteq call[c].seen /\ ring \subseteq call[c].seen /\ client = "registered"
    BY <1>0, <1>12 DEF Decide, TypeInv, Progress, CallRecord, Selecting, Chosen
  <2>2. CASE Alive(call[c].sel) /\ Decided(c, call[c].uid, call[c].sel)
    BY <1>11, <1>12, <2>1, <2>2 DEF Decide, Alive
  <2>3. CASE call' = [call EXCEPT ![c].sel = pick[call[c].uid], ![c].at = "bind"]
    <3>1. /\ call'[c].at = "bind" /\ call'[c].seen = call[c].seen
          /\ call'[c].sel = pick[call[c].uid]
          /\ \A d \in Call : d # c => call'[d] = call[d]
      BY <1>0, <2>3 DEF CallRecord
    <3>2. call'[c].sel \in call'[c].seen \cup {None}
      BY <1>0, <2>1, <3>1 DEF Chosen
    <3> QED
      BY <1>12, <2>1, <3>1, <3>2, ChosenFrame DEF Decide, At
  <2> QED
    BY <1>12, <2>2, <2>3 DEF Decide
<1>13. ASSUME NEW c \in Call, Bind(c) PROVE Chosen'
  <2>1. /\ call[c].uid \in User /\ call[c].sel \in Node \cup {None} /\ At(c) \in Selecting
        /\ call[c].sel \in call[c].seen \cup {None}
    BY <1>0, <1>13 DEF Bind, TypeInv, Progress, CallRecord, Selecting, Chosen
  <2> QED
    BY <1>11, <1>13, <2>1 DEF Bind
<1>14. ASSUME NEW c \in Call, NEW u \in User, SelectLocal(c, u) PROVE Chosen'
  <2>1. /\ At(c) \in Selecting /\ call[c].sel \in Node \cup {None}
        /\ cache[u] \in Node \cup {None}
        /\ KnownNodes \subseteq call[c].seen /\ client = "registered"
    BY <1>0, <1>14 DEF SelectLocal, TypeInv, Typed, CallRecord, Selecting, Chosen
  <2>2. CASE \/ Alive(call[c].sel) /\ Decided(c, u, call[c].sel)
             \/ Alive(cache[u]) /\ Decided(c, u, cache[u])
    BY <1>11, <1>14, <2>1, <2>2 DEF SelectLocal, Alive
  <2>3. CASE call' = [call EXCEPT ![c].uid = u, ![c].sel = None, ![c].at = "read"]
    <3>1. /\ call'[c].at = "read" /\ call'[c].seen = call[c].seen
          /\ \A d \in Call : d # c => call'[d] = call[d]
      BY <1>0, <2>3 DEF CallRecord
    <3> QED
      BY <1>14, <2>1, <3>1, ChosenFrame DEF SelectLocal, At
  <2> QED
    BY <1>14, <2>2, <2>3 DEF SelectLocal
<1>15. ASSUME NEW c \in Call, Go(c) PROVE Chosen'
  <2>1. CASE Release(c)
    BY <1>15, <2>1, ChosenRelease DEF Go
  <2>2. CASE ~Release(c)
    <3> DEFINE r == [NoCall EXCEPT !.send = call[c].send, !.at = "wait"]
    <3>1. call' = [call EXCEPT ![c] = r]
      BY <1>15, <2>2 DEF Go
    <3>2. r.at = "wait"
      BY Records DEF CallRecord
    <3>3. At(c)' = "wait" /\ \A d \in Call : d # c => call'[d] = call[d]
      BY <1>0, <3>1, <3>2 DEF At
    <3> QED
      BY <1>15, <3>3, ChosenFrame DEF Go, Selecting
  <2> QED
    BY <2>1, <2>2
<1>16. ASSUME NEW c \in Call, LocalRequestEnds(c) \/ LocalCallEnds(c) \/ Return(c) \/ Timeout(c)
       PROVE  Chosen'
  BY <1>16, ChosenRelease DEF LocalRequestEnds, LocalCallEnds, Return, Timeout
<1>17. ASSUME NEW c \in Call, Answered(c) PROVE Chosen'
  <2>1. call'[c].at = "wait" /\ \A d \in Call : d # c => call'[d] = call[d]
    BY <1>0, <1>17 DEF Answered, At, CallRecord
  <2> QED
    BY <1>17, <2>1, ChosenFrame DEF Answered, At, Selecting
<1>18. ASSUME \/ RegisterLocalServices \/ UNCHANGED vars
              \/ \E u \in User, n \in Node : OtherBinds(u, n) \/ UpdateUserNodeInfo(u, n)
       PROVE  Chosen'
  BY <1>5, <1>18 DEF RegisterLocalServices, OtherBinds, UpdateUserNodeInfo, vars
<1> QED
  BY <1>1, <1>2, <1>3, <1>4, <1>6, <1>7, <1>8, <1>9, <1>10, <1>12, <1>13, <1>14, <1>15,
     <1>16, <1>17, <1>18 DEF Next, CallStep

\* A call whose selection began after discovery had dropped a node is not sent
\* to it, from whichever context, cache or store the node's name comes.
THEOREM RemovedCorrect == Spec => []RemovedIsAvoided
<1>1. Spec => []ChosenInv
  BY ChosenInit, ChosenStep, PTL DEF Spec
<1>2. ChosenInv => RemovedIsAvoided
  BY DEF ChosenInv, Chosen, RemovedIsAvoided
<1> QED
  BY <1>1, <1>2, PTL

-----------------------------------------------------------------------------
(* The user's node *)

\* A selection for one user is about to give the user's node again, or the one
\* the ring gives when that node is not alive.
OnCourse(c, u) ==
    u \in call[c].todo /\ call[c].send.ctx # "bind" =>
        /\ At(c) \in {"loop", "decide"} /\ Alive(call[c].sel) => call[c].sel = home[u]
        /\ At(c) = "decide" /\ ~Alive(call[c].sel) => ~Alive(home[u]) \/ home[u] = pick[u]
        /\ At(c) = "bind" => /\ call[c].sel = pick[u]
                             /\ ~Alive(home[u]) \/ home[u] = pick[u]

\* A node named for the user has appeared and, if it is alive, serves the user.
Fits(u, n) == n \in Node => known[n] # "new" /\ (Alive(n) => n = home[u])

\* So has the one of its connection, unless a selection is about to bind to it.
Binding(c, u) == At(c) = "bind" /\ OnConn(c) /\ call[c].user = u /\ call[c].sel = conn[u]
Routed(u) ==
    /\ conn[u] \in Node => known[conn[u]] # "new"
    /\ Alive(conn[u]) => conn[u] = home[u] \/ \E c \in Call : Binding(c, u)

\* The node of a user is the one stored for it, and no cache, connection or
\* upload on its way names another that is alive or has yet to appear.
Settled(u) ==
    home[u] # "any" =>
        /\ meta[u] = home[u]
        /\ Fits(u, home[u]) /\ Fits(u, cache[u])
        /\ \A n \in Node : <<u, n>> \in uploads => Fits(u, n)
        /\ Routed(u)
        /\ \A c \in Call : OnCourse(c, u)

StayInv == ChosenInv /\ \A u \in User : Settled(u)

\* A name that fits still does when no node comes and the user's is kept, or
\* replaced after its end.
LEMMA FitsKept ==
    ASSUME NEW u \in User, NEW n, Fits(u, n), UNCHANGED known,
           home'[u] = home[u] \/ (~Alive(home[u]) /\ Fits(u, home[u]))
    PROVE  Fits(u, n)'
  BY DEF Fits, Alive, KnownNodes

\* A step that leaves the user's names alone, and whose call, if it makes one,
\* neither was about to bind nor is now anywhere it should not be.
LEMMA SettledFrame ==
    ASSUME NEW u \in User, Settled(u), UNCHANGED <<known, pick>>,
           home'[u] = home[u], meta'[u] = meta[u], cache'[u] = cache[u], conn'[u] = conn[u],
           \A n \in Node : <<u, n>> \in uploads' => <<u, n>> \in uploads,
           \A c \in Call : \/ call'[c] = call[c]
                           \/ OnCourse(c, u)' /\ ~Binding(c, u)
    PROVE  Settled(u)'
<1> SUFFICES ASSUME home[u] # "any" PROVE Settled(u)'
  BY DEF Settled
<1>1. \A n : Alive(n)' <=> Alive(n)
  BY DEF Alive, KnownNodes
<1>2. \A n : Fits(u, n) => Fits(u, n)'
  BY <1>1 DEF Fits
<1>3. \A c \in Call : OnCourse(c, u)'
  <2> SUFFICES ASSUME NEW c \in Call, call'[c] = call[c] PROVE OnCourse(c, u)'
    OBVIOUS
  <2> QED
    BY <1>1 DEF Settled, OnCourse, At
<1>4. \A c \in Call : Binding(c, u) => Binding(c, u)'
  BY DEF Binding, At, OnConn
<1>5. Routed(u)'
  BY <1>1, <1>4 DEF Settled, Routed
<1>6. /\ Fits(u, home[u])' /\ Fits(u, cache[u])'
      /\ \A n \in Node : <<u, n>> \in uploads' => Fits(u, n)'
  BY <1>2 DEF Settled, Fits, Alive, KnownNodes
<1> QED
  BY <1>3, <1>5, <1>6 DEF Settled

\* A change of discovery that no selection for the user meets: nodes that were
\* named do not come alive by it.
LEMMA SettledDiscovery ==
    ASSUME NEW u \in User, Settled(u), \A c \in Call : ~MaySelect(c, u), ChosenInv,
           home'[u] = home[u], meta'[u] = meta[u], cache'[u] \in {cache[u], None},
           UNCHANGED <<conn, uploads>>,
           \A c \in Call : At(c)' = At(c) /\ call'[c].todo = call[c].todo
                           /\ call'[c].user = call[c].user,
           \A n \in Node : known[n] # "new" => /\ known'[n] # "new"
                                               /\ n \in KnownNodes' => n \in KnownNodes
    PROVE  Settled(u)'
<1> SUFFICES ASSUME home[u] # "any" PROVE Settled(u)'
  BY DEF Settled
<1>1. \A n : Fits(u, n) => Fits(u, n)'
  BY DEF Fits, Alive
<1>2. \A c \in Call : OnCourse(c, u)'
  BY DEF OnCourse, MaySelect, Selecting, At
<1>3. \A c \in Call : ~Binding(c, u)
  BY DEF Binding, MaySelect, Selecting
<1>4. Fits(u, home[u])'
  BY <1>1 DEF Settled, Fits
<1>5. Fits(u, cache[u])'
  <2>1. CASE cache'[u] = cache[u]
    BY <1>1, <2>1 DEF Settled, Fits
  <2>2. CASE cache'[u] = None
    BY <2>2, RpcCallAssumption DEF Fits
  <2> QED
    BY <2>1, <2>2
<1>6. Routed(u)'
  <2>1. Alive(conn[u])' => conn'[u] = home'[u]
    <3> SUFFICES ASSUME Alive(conn[u])' PROVE conn'[u] = home'[u]
      OBVIOUS
    <3>1. conn[u] \in Node /\ conn[u] \in KnownNodes' /\ conn[u] # None
      BY DEF Alive, KnownNodes
    <3> QED
      BY <3>1, <1>3 DEF Settled, Routed, Alive
  <2>2. conn'[u] \in Node => known'[conn'[u]] # "new"
    BY DEF Settled, Routed
  <2> QED
    BY <2>1, <2>2 DEF Routed
<1>7. meta'[u] = home'[u] /\ \A n \in Node : <<u, n>> \in uploads' => Fits(u, n)'
  BY <1>1 DEF Settled
<1> QED
  BY <1>2, <1>4, <1>5, <1>6, <1>7 DEF Settled

\* A user that gets its node: the one it had, or, when that is not alive, the one
\* the ring gives, stored for it.
LEMMA SettledDecided ==
    ASSUME StayInv, TypeInv', NEW c \in Call, NEW u \in User, NEW n \in Node \cup {None},
           At(c) \in Selecting, u \in call[c].todo, Decided(c, u, n),
           UNCHANGED <<known, ring, pick, conn>>,
           ProcessNode(u, n) \/ UNCHANGED <<meta, cache, uploads>>,
           home[u] # "any" /\ home[u] # n =>
              \/ call[c].send.ctx = "bind"
              \/ ~Alive(home[u]) /\ n = pick[u] /\ ProcessNode(u, n),
           At(c) = "bind" => u = call[c].uid /\ n = call[c].sel
    PROVE  \A v \in User : Settled(v)'
<1>0. /\ TypeInv /\ Typed /\ Progress /\ Chosen /\ \A v \in User : Settled(v)
      /\ \A v \in User : OnCourse(c, v) \/ home[v] = "any"
  BY DEF StayInv, ChosenInv, TypeInv, Settled
<1>1. /\ At(c)' \in {"go", "loop"} /\ call'[c].todo = call[c].todo \ {u}
      /\ call'[c].send = call[c].send /\ call'[c].user = call[c].user
      /\ \A d \in Call : d # c => call'[d] = call[d]
  BY <1>0, DecidedMoves
<1>2. /\ home'[u] = IF home[u] = "any" \/ (call[c].send.ctx = "bind" /\ home[u] # n)
                    THEN "any" ELSE n
      /\ \A v \in User : v # u => home'[v] = home[v]
  BY <1>0 DEF Decided, Typed
<1>3. \A v \in User : v # u => /\ meta'[v] = meta[v] /\ cache'[v] = cache[v]
                               /\ \A m \in Node : <<v, m>> \in uploads' => <<v, m>> \in uploads
  BY <1>0 DEF ProcessNode, Typed
<1>4. \A m : Alive(m)' <=> Alive(m)
  BY DEF Alive, KnownNodes
<1>5. \A v \in User : OnCourse(c, v)'
  <2> SUFFICES ASSUME NEW v \in User, v \in call[c].todo \ {u}, call[c].send.ctx # "bind"
               PROVE  FALSE
    BY <1>1 DEF OnCourse
  <2> QED
    BY <1>0 DEF Progress
<1>6. ASSUME NEW v \in User, v # u PROVE Settled(v)'
  <2>1. ~Binding(c, v)
    <3> SUFFICES ASSUME Binding(c, v) PROVE FALSE
      OBVIOUS
    <3>1. call[c].todo \subseteq {v} /\ u \in call[c].todo
      BY <1>0 DEF Binding, OnConn, Progress, Selecting
    <3> QED
      BY <1>6, <3>1
  <2>2. \A d \in Call : call'[d] = call[d] \/ (OnCourse(d, v)' /\ ~Binding(d, v))
    BY <1>1, <1>5, <2>1
  <2> QED
    BY <1>0, <1>2, <1>3, <1>6, <2>2, SettledFrame
<1>7. Settled(u)'
  <2> SUFFICES ASSUME home'[u] # "any" PROVE Settled(u)'
    BY DEF Settled
  <2>1. home[u] # "any" /\ home'[u] = n /\ Settled(u)
    BY <1>0, <1>2
  <2>2. n = home[u] \/ (~Alive(home[u]) /\ n = pick[u] /\ ProcessNode(u, n))
    BY <1>2, <2>1
  <2>3. Fits(u, n)'
    <3>1. CASE n = home[u]
      BY <1>4, <2>1, <3>1 DEF Settled, Fits
    <3>2. CASE n = pick[u]
      BY <1>0, <2>1, <3>2, RpcCallAssumption DEF Chosen, Fits, KnownNodes
    <3> QED
      BY <2>2, <3>1, <3>2
  <2>4. \A m : Fits(u, m) => Fits(u, m)'
    BY <1>4, <2>1, <2>2 DEF Settled, Fits
  <2>5. meta'[u] = n
    BY <1>0, <2>1, <2>2 DEF ProcessNode, Typed, Settled
  <2>6. Fits(u, cache[u])' /\ \A m \in Node : <<u, m>> \in uploads' => Fits(u, m)'
    <3>1. CASE UNCHANGED <<meta, cache, uploads>>
      <4>1. Fits(u, cache'[u]) => Fits(u, cache[u])'
        BY <2>4, <3>1 DEF Fits
      <4> QED
        BY <2>1, <2>4, <3>1, <4>1 DEF Settled, Fits
    <3>2. CASE ProcessNode(u, n)
      <4>1. cache'[u] = n /\ \A m \in Node : <<u, m>> \in uploads' => <<u, m>> \in uploads \/ m = n
        BY <1>0, <3>2 DEF ProcessNode, Typed
      <4> QED
        BY <2>1, <2>3, <2>4, <4>1 DEF Settled, Fits
    <3> QED
      BY <3>1, <3>2
  <2>7. Routed(u)'
    <3>1. conn'[u] \in Node => known'[conn'[u]] # "new"
      BY <2>1 DEF Settled, Routed
    <3>2. ASSUME Alive(conn[u]) PROVE conn[u] = n \/ \E d \in Call : Binding(d, u)'
      <4>1. CASE conn[u] = home[u]
        BY <2>2, <3>2, <4>1
      <4>2. CASE conn[u] # home[u]
        <5>1. PICK d \in Call : Binding(d, u)
          BY <2>1, <3>2, <4>2 DEF Settled, Routed
        <5>2. CASE d = c
          BY <5>1, <5>2 DEF Binding
        <5>3. CASE d # c
          BY <1>1, <5>1, <5>3 DEF Binding, At, OnConn
        <5> QED
          BY <5>2, <5>3
      <4> QED
        BY <4>1, <4>2
    <3> QED
      BY <1>4, <2>1, <3>1, <3>2 DEF Routed
  <2>8. ASSUME NEW d \in Call PROVE OnCourse(d, u)'
    <3>1. CASE d = c
      BY <1>5, <3>1
    <3>2. CASE d # c
      <4>1. call'[d] = call[d] /\ OnCourse(d, u)
        BY <1>1, <2>1, <3>2 DEF Settled
      <4>2. CASE n = home[u]
        BY <1>4, <2>1, <4>1, <4>2 DEF OnCourse, At
      <4>3. CASE ~Alive(home[u]) /\ n = pick[u]
        BY <1>4, <2>1, <4>1, <4>3 DEF OnCourse, At
      <4> QED
        BY <2>2, <4>2, <4>3
    <3> QED
      BY <3>1, <3>2
  <2> QED
    BY <2>1, <2>3, <2>5, <2>6, <2>7, <2>8 DEF Settled
<1> QED
  BY <1>6, <1>7

\* Initially no user has a node.
THEOREM StayInit == Init => StayInv
<1> SUFFICES ASSUME Init PROVE StayInv
  OBVIOUS
<1>1. \A c \in Call : At(c) = "idle"
  BY Records DEF Init, At
<1>2. ASSUME NEW u \in User PROVE Settled(u)
  BY <1>1, RpcCallAssumption DEF Init, Settled, Fits, Routed, OnCourse, Alive
<1> QED
  BY <1>2, ChosenInit DEF StayInv

\* A step of a call that is not selecting for anybody before it and not on its
\* way to a node after it.
LEMMA SettledAside ==
    ASSUME StayInv, NEW c \in Call, At(c) # "bind", At(c)' \notin {"loop", "decide", "bind"},
           UNCHANGED <<known, pick, bindingVars, home>>,
           \A d \in Call : d # c => call'[d] = call[d]
    PROVE  \A u \in User : Settled(u)'
<1> SUFFICES ASSUME NEW u \in User PROVE Settled(u)'
  OBVIOUS
<1>1. \A d \in Call : call'[d] = call[d] \/ (OnCourse(d, u)' /\ ~Binding(d, u))
  BY DEF OnCourse, Binding
<1> QED
  BY <1>1, SettledFrame DEF StayInv, bindingVars

\* So is a call that ends elsewhere than at its binding.
LEMMA SettledRelease ==
    ASSUME StayInv, NEW c \in Call, At(c) # "bind", Release(c),
           UNCHANGED <<known, pick, bindingVars, home>>
    PROVE  \A u \in User : Settled(u)'
<1>1. At(c)' = "idle" /\ \A d \in Call : d # c => call'[d] = call[d]
  BY ReleaseMoves, Records DEF StayInv, ChosenInv, At
<1> QED
  BY <1>1, SettledAside

\* The module's registration is the selector's first view, and nobody selects.
LEMMA SettledRegister ==
    ASSUME StayInv, RegisterClient, client # "registered",
           UNCHANGED <<bindingVars, call, home>>
    PROVE  \A u \in User : Settled(u)'
<1> SUFFICES ASSUME NEW u \in User PROVE Settled(u)'
  OBVIOUS
<1>1. \A c \in Call : ~MaySelect(c, u)
  BY DEF StayInv, ChosenInv, Chosen, MaySelect
<1>2. \A n \in Node : known[n] # "new" => /\ known'[n] # "new"
                                          /\ n \in KnownNodes' => n \in KnownNodes
  <2>1. PICK list \in Listings : known' = list
    BY DEF RegisterClient
  <2> QED
    BY <2>1 DEF Listings, Later, KnownNodes, StayInv, ChosenInv, TypeInv, Typed
<1> QED
  BY <1>1, <1>2, SettledDiscovery DEF StayInv, bindingVars, At

\* Every step keeps the users settled.
THEOREM StayStep == StayInv /\ [Next]_vars => StayInv'
<1> SUFFICES ASSUME StayInv, [Next]_vars PROVE StayInv'
  OBVIOUS
<1>0. /\ ChosenInv /\ ChosenInv' /\ TypeInv /\ TypeInv' /\ Typed /\ Progress /\ Chosen
      /\ call \in [Call -> CallRecord] /\ \A c \in Call : call[c] \in CallRecord
      /\ \A u \in User : Settled(u)
  BY ChosenStep DEF StayInv, ChosenInv, TypeInv, Typed
<1> SUFFICES ASSUME TRUE PROVE \A u \in User : Settled(u)'
  BY <1>0 DEF StayInv
<1> USE DEF clientVars, callVars, discoveryVars
<1>1. ASSUME UpdateAdds, NEW u \in User PROVE Settled(u)'
  <2>1. PICK list \in Listings :
          /\ known' = [n \in Node |-> IF n \in Present(list) THEN list[n] ELSE known[n]]
          /\ call' = [c \in Call |-> IF At(c) \in Selecting
                       THEN [call[c] EXCEPT !.seen = @ \cup Present(list)] ELSE call[c]]
    BY <1>1 DEF UpdateAdds
  <2>2. \A n \in Node : known[n] # "new" => /\ known'[n] # "new"
                                            /\ n \in KnownNodes' => n \in KnownNodes
    BY <1>0, <2>1 DEF Listings, Later, Present, KnownNodes, Typed
  <2>3. \A c \in Call : At(c)' = At(c) /\ call'[c].todo = call[c].todo
                        /\ call'[c].user = call[c].user
    BY <1>0, <2>1 DEF CallRecord, At
  <2>4. CASE \E c \in Call : MaySelect(c, u)
    BY <1>1, <2>4 DEF UpdateAdds, Unsettle, Settled
  <2>5. CASE \A c \in Call : ~MaySelect(c, u)
    <3>1. home'[u] = home[u] /\ UNCHANGED bindingVars
      BY <1>1, <2>5 DEF UpdateAdds, Unsettle
    <3> QED
      BY <1>0, <2>2, <2>3, <2>5, <3>1, SettledDiscovery DEF bindingVars
  <2> QED
    BY <2>4, <2>5
<1>2. ASSUME UpdateSweeps, NEW u \in User PROVE Settled(u)'
  <2>1. /\ known' = [n \in Node |-> IF n \in refresh.dropped THEN "gone" ELSE known[n]]
        /\ cache' = (IF refresh.new \/ refresh.dropped # {} THEN [v \in User |-> None] ELSE cache)
        /\ UNCHANGED <<meta, conn, uploads, call>>
    BY <1>2 DEF UpdateSweeps
  <2>2. \A n \in Node : known[n] # "new" => /\ known'[n] # "new"
                                            /\ n \in KnownNodes' => n \in KnownNodes
    BY <1>0, <2>1 DEF KnownNodes, Typed
  <2>3. \A c \in Call : At(c)' = At(c) /\ call'[c].todo = call[c].todo
                        /\ call'[c].user = call[c].user
    BY <2>1 DEF At
  <2>4. CASE \E c \in Call : MaySelect(c, u)
    BY <1>2, <2>4 DEF UpdateSweeps, Unsettle, Settled
  <2>5. CASE \A c \in Call : ~MaySelect(c, u)
    <3>1. home'[u] = home[u]
      BY <1>2, <2>5 DEF UpdateSweeps, Unsettle
    <3>2. cache'[u] \in {cache[u], None}
      BY <2>1
    <3> QED
      BY <1>0, <2>1, <2>2, <2>3, <2>5, <3>1, <3>2, SettledDiscovery
  <2> QED
    BY <2>4, <2>5
<1>3. ASSUME Startup, NEW u \in User PROVE Settled(u)'
  <2>1. CASE RegisterClient
    BY <1>3, <2>1, SettledRegister DEF Startup
  <2>2. CASE UNCHANGED <<known, ring, pick>>
    <3>1. UNCHANGED <<known, pick, home, meta, cache, conn, uploads, call>>
      BY <1>3, <2>2 DEF Startup, bindingVars
    <3> QED
      BY <1>0, <3>1, SettledFrame
  <2> QED
    BY <1>3, <2>1, <2>2 DEF Startup
<1>4. ASSUME WatchRegisters, NEW u \in User PROVE Settled(u)'
  BY <1>4, SettledRegister DEF WatchRegisters
<1>5. ASSUME NEW u \in User,
             UNCHANGED <<known, pick, home, meta, cache, conn, uploads, call>>
      PROVE  Settled(u)'
  BY <1>0, <1>5, SettledFrame
<1>6. ASSUME NEW c \in Call, NEW v \in User, StartRequest(c, v), NEW u \in User PROVE Settled(u)'
  <2>1. PICK p \in {"local", "select"} : Enter(c, sendMessage, v, p, None)
    BY <1>6 DEF StartRequest
  <2>2. At(c)' = p /\ \A d \in Call : d # c => call'[d] = call[d]
    BY <1>0, <2>1, EnterMoves, Records
  <2> QED
    BY <1>6, <2>2, SettledAside DEF StartRequest
<1>7. ASSUME NEW c \in Call, NEW v \in User, NEW send \in Sends, NEW n \in Node \cup {None},
             Start(c, send, v, n), NEW u \in User
      PROVE  Settled(u)'
  <2>1. At(c)' = "admitted" /\ \A d \in Call : d # c => call'[d] = call[d]
    BY <1>0, <1>7, EnterMoves DEF Start
  <2> QED
    BY <1>7, <2>1, SettledAside DEF Start
<1>8. ASSUME NEW c \in Call, Route(c), NEW u \in User PROVE Settled(u)'
  <2>1. CASE Release(c)
    BY <1>8, <2>1, SettledRelease DEF Route
  <2>2. CASE ~Release(c)
    <3>1. /\ call'[c].at \in {"local", "select"}
          /\ \A d \in Call : d # c => call'[d] = call[d]
      BY <1>0, <1>8, <2>2 DEF Route, CallRecord
    <3> QED
      BY <1>8, <3>1, SettledAside DEF Route, At
  <2> QED
    BY <2>1, <2>2
<1>9. ASSUME NEW c \in Call, SelectCarried(c), NEW u \in User PROVE Settled(u)'
  <2>1. CASE Release(c)
    BY <1>9, <2>1, SettledRelease DEF SelectCarried
  <2>2. CASE ~Release(c)
    <3>1. PICK n \in IF ~Alive(Carried(c)) /\ call[c].send.ctx \in {"bind", "node"}
                     THEN AnyOf(ring) ELSE {Carried(c)} :
             call' = [call EXCEPT ![c].sel = n,
                        ![c].at = IF call[c].todo = {} THEN "go" ELSE "loop"]
      BY <1>9, <2>2 DEF SelectCarried
    <3>2. /\ call'[c].sel = n /\ call'[c].send = call[c].send /\ call'[c].todo = call[c].todo
          /\ call'[c].at \in {"go", "loop"}
          /\ \A d \in Call : d # c => call'[d] = call[d]
      BY <1>0, <3>1 DEF CallRecord
    <3>3. UNCHANGED <<known, pick, home, meta, cache, conn, uploads>>
      BY <1>9 DEF SelectCarried, bindingVars
    <3>4. \A m : Alive(m)' <=> Alive(m)
      BY <3>3 DEF Alive, KnownNodes
    <3>5. home[u] # "any" => OnCourse(c, u)'
      <4> SUFFICES ASSUME home[u] # "any", u \in call[c].todo, call[c].send.ctx # "bind",
                          Alive(n)
                   PROVE  n = home[u]
        BY <3>2, <3>3, <3>4 DEF OnCourse, At
      <4>1. At(c) = "select" /\ CtxFree(c)
        BY <1>9 DEF SelectCarried
      <4>2. /\ call[c].todo = Named(call[c].send.ctx, call[c].user)
            /\ call[c].send.ctx # "node" => call[c].sel = None
        BY <1>0, <4>1 DEF Progress
      <4>3. call[c].send.ctx # "node" /\ u = call[c].user
        BY <4>2 DEF Named
      <4>4. n = Carried(c)
        BY <3>1, <4>3
      <4>5. OnConn(c) /\ n = conn[u]
        BY <4>2, <4>3, <4>4 DEF Carried, Alive
      <4>6. \A d \in Call : ~Binding(d, u)
        BY <4>1, <4>3, <4>5 DEF CtxFree, Binding, Selecting
      <4> QED
        BY <1>0, <4>5, <4>6 DEF Settled, Routed
    <3>6. CASE home[u] = "any"
      BY <3>3, <3>6 DEF Settled
    <3>7. CASE home[u] # "any"
      <4>1. \A d \in Call : call'[d] = call[d] \/ (OnCourse(d, u)' /\ ~Binding(d, u))
        BY <1>9, <3>2, <3>5, <3>7 DEF Binding, SelectCarried
      <4> QED
        BY <1>0, <3>3, <4>1, SettledFrame
    <3> QED
      BY <3>6, <3>7
  <2> QED
    BY <2>1, <2>2
<1>10. ASSUME NEW c \in Call, ReadMeta(c), NEW u \in User PROVE Settled(u)'
  <2>1. /\ call'[c].at = "decide" /\ call'[c].sel = meta[call[c].uid]
        /\ call'[c].todo = call[c].todo /\ call'[c].send = call[c].send
        /\ \A d \in Call : d # c => call'[d] = call[d]
    BY <1>0, <1>10 DEF ReadMeta, CallRecord
  <2>2. UNCHANGED <<known, pick, home, meta, cache, conn, uploads>>
    BY <1>10 DEF ReadMeta, bindingVars
  <2>3. \A m : Alive(m)' <=> Alive(m)
    BY <2>2 DEF Alive, KnownNodes
  <2>4. CASE home[u] = "any"
    BY <2>2, <2>4 DEF Settled
  <2>5. CASE home[u] # "any"
    <3>1. OnCourse(c, u)'
      <4> SUFFICES ASSUME u \in call[c].todo, call[c].send.ctx # "bind"
                   PROVE  call'[c].sel = home[u]
        BY <2>1, <2>2, <2>3 DEF OnCourse, At
      <4>1. call[c].uid = u
        BY <1>0, <1>10 DEF ReadMeta, Progress, Selecting
      <4> QED
        BY <1>0, <2>1, <2>5, <4>1 DEF Settled
    <3>2. \A d \in Call : call'[d] = call[d] \/ (OnCourse(d, u)' /\ ~Binding(d, u))
      BY <1>10, <2>1, <3>1 DEF Binding, ReadMeta
    <3> QED
      BY <1>0, <2>2, <3>2, SettledFrame
  <2> QED
    BY <2>4, <2>5
<1>11. ASSUME NEW c \in Call, Decide(c), NEW u \in User PROVE Settled(u)'
  <2> DEFINE v == call[c].uid
  <2>1. /\ v \in User /\ v \in call[c].todo /\ call[c].sel \in Node \cup {None}
        /\ At(c) \in Selecting /\ At(c) = "decide"
        /\ call[c].send.ctx # "bind" => call[c].todo \subseteq {call[c].user}
    BY <1>0, <1>11 DEF Decide, Progress, CallRecord, Selecting
  <2>2. CASE Alive(call[c].sel)
    <3>1. Decided(c, v, call[c].sel) /\ UNCHANGED <<known, ring, pick, conn, meta, cache, uploads>>
      BY <1>11, <2>2 DEF Decide
    <3>2. home[v] # "any" /\ home[v] # call[c].sel => call[c].send.ctx = "bind"
      BY <1>0, <2>1, <2>2 DEF Settled, OnCourse
    <3> QED
      BY <1>0, <2>1, <3>1, <3>2, SettledDecided
  <2>3. CASE ~Alive(call[c].sel)
    <3>1. /\ call' = [call EXCEPT ![c].sel = pick[v], ![c].at = "bind"]
          /\ conn' = IF OnConn(c) THEN [conn EXCEPT ![v] = pick[v]] ELSE conn
          /\ UNCHANGED <<known, ring, pick, home, meta, cache, uploads>>
      BY <1>11, <2>3 DEF Decide
    <3>2. /\ call'[c].at = "bind" /\ call'[c].sel = pick[v] /\ call'[c].todo = call[c].todo
          /\ call'[c].send = call[c].send /\ call'[c].user = call[c].user
          /\ \A d \in Call : d # c => call'[d] = call[d]
      BY <1>0, <3>1 DEF CallRecord
    <3>3. \A m : Alive(m)' <=> Alive(m)
      BY <3>1 DEF Alive, KnownNodes
    <3>4. CASE home[u] = "any"
      BY <3>1, <3>4 DEF Settled
    <3>5. CASE home[u] # "any"
      <4>1. OnCourse(c, u)'
        <5> SUFFICES ASSUME u \in call[c].todo, call[c].send.ctx # "bind"
                     PROVE  pick[v] = pick[u] /\ (~Alive(home[u]) \/ home[u] = pick[u])
          BY <3>1, <3>2, <3>3 DEF OnCourse, At
        <5>1. u = v
          BY <2>1
        <5> QED
          BY <1>0, <2>1, <2>3, <3>5, <5>1 DEF Settled, OnCourse
      <4>2. \A d \in Call : call'[d] = call[d] \/ (OnCourse(d, u)' /\ ~Binding(d, u))
        BY <2>1, <3>2, <4>1 DEF Binding
      <4>3. CASE conn'[u] = conn[u]
        BY <1>0, <3>1, <4>2, <4>3, SettledFrame
      <4>4. CASE conn'[u] # conn[u]
        <5>1. OnConn(c) /\ u = v /\ conn'[u] = pick[u] /\ u = call[c].user
          BY <1>0, <2>1, <3>1, <4>4 DEF Typed, OnConn
        <5>2. Binding(c, u)'
          BY <3>2, <5>1 DEF Binding, At, OnConn
        <5>3. pick[u] \in Node => known[pick[u]] # "new"
          BY <1>0, RpcCallAssumption DEF Chosen, KnownNodes
        <5>4. Routed(u)'
          BY <3>1, <5>1, <5>2, <5>3 DEF Routed
        <5>5. ASSUME NEW d \in Call PROVE OnCourse(d, u)'
          <6>1. CASE call'[d] = call[d]
            <7>1. OnCourse(d, u)
              BY <1>0, <3>5 DEF Settled
            <7> QED
              BY <3>1, <3>3, <6>1, <7>1 DEF OnCourse, At
          <6> QED
            BY <4>2, <6>1
        <5>6. \A m : Fits(u, m) => Fits(u, m)'
          BY <3>1, <3>3 DEF Fits
        <5>7. /\ meta'[u] = home'[u] /\ Fits(u, home[u])' /\ Fits(u, cache[u])'
              /\ \A m \in Node : <<u, m>> \in uploads' => Fits(u, m)'
          BY <1>0, <3>1, <3>5, <5>6 DEF Settled, Fits, Alive, KnownNodes
        <5> QED
          BY <5>4, <5>5, <5>7 DEF Settled
      <4> QED
        BY <4>3, <4>4
    <3> QED
      BY <3>4, <3>5
  <2> QED
    BY <2>2, <2>3
<1>12. ASSUME NEW c \in Call, Bind(c), NEW u \in User PROVE Settled(u)'
  <2> DEFINE v == call[c].uid
  <2>1. /\ v \in User /\ v \in call[c].todo /\ call[c].sel \in Node \cup {None}
        /\ At(c) \in Selecting /\ At(c) = "bind"
    BY <1>0, <1>12 DEF Bind, Progress, CallRecord, Selecting
  <2>2. /\ Decided(c, v, call[c].sel) /\ ProcessNode(v, call[c].sel)
        /\ UNCHANGED <<known, ring, pick, conn>>
    BY <1>12 DEF Bind
  <2>3. home[v] # "any" /\ home[v] # call[c].sel =>
           call[c].send.ctx = "bind" \/ (~Alive(home[v]) /\ call[c].sel = pick[v])
    BY <1>0, <2>1 DEF Settled, OnCourse
  <2> QED
    BY <1>0, <2>1, <2>2, <2>3, SettledDecided
<1>13. ASSUME NEW c \in Call, NEW v \in User, SelectLocal(c, v), NEW u \in User PROVE Settled(u)'
  <2>1. /\ At(c) = "loop" /\ At(c) \in Selecting /\ v \in call[c].todo
        /\ call[c].sel \in Node \cup {None} /\ cache[v] \in Node \cup {None}
        /\ UNCHANGED <<known, ring, pick, conn>>
    BY <1>0, <1>13 DEF SelectLocal, Typed, CallRecord, Selecting
  <2>2. CASE Alive(call[c].sel)
    <3>1. /\ Decided(c, v, call[c].sel)
          /\ ProcessNode(v, call[c].sel) \/ UNCHANGED <<meta, cache, uploads>>
      BY <1>13, <2>2 DEF SelectLocal
    <3>2. home[v] # "any" /\ home[v] # call[c].sel => call[c].send.ctx = "bind"
      BY <1>0, <2>1, <2>2 DEF Settled, OnCourse
    <3> QED
      BY <1>0, <2>1, <3>1, <3>2, SettledDecided
  <2>3. CASE ~Alive(call[c].sel) /\ Alive(cache[v])
    <3>1. Decided(c, v, cache[v]) /\ UNCHANGED <<meta, cache, uploads>>
      BY <1>13, <2>3 DEF SelectLocal
    <3>2. home[v] # "any" => home[v] = cache[v]
      BY <1>0, <2>1, <2>3 DEF Settled, Fits, Alive
    <3> QED
      BY <1>0, <2>1, <3>1, <3>2, SettledDecided
  <2>4. CASE ~Alive(call[c].sel) /\ ~Alive(cache[v])
    <3>1. /\ call' = [call EXCEPT ![c].uid = v, ![c].sel = None, ![c].at = "read"]
          /\ UNCHANGED <<meta, cache, uploads, home>>
      BY <1>13, <2>4 DEF SelectLocal
    <3>2. call'[c].at = "read" /\ \A d \in Call : d # c => call'[d] = call[d]
      BY <1>0, <3>1 DEF CallRecord
    <3> QED
      BY <2>1, <3>1, <3>2, SettledAside DEF At, bindingVars
  <2> QED
    BY <2>2, <2>3, <2>4
<1>14. ASSUME NEW c \in Call, Go(c), NEW u \in User PROVE Settled(u)'
  <2>1. CASE Release(c)
    BY <1>14, <2>1, SettledRelease DEF Go
  <2>2. CASE ~Release(c)
    <3> DEFINE r == [NoCall EXCEPT !.send = call[c].send, !.at = "wait"]
    <3>1. call' = [call EXCEPT ![c] = r]
      BY <1>14, <2>2 DEF Go
    <3>2. r.at = "wait"
      BY Records DEF CallRecord
    <3>3. At(c)' = "wait" /\ \A d \in Call : d # c => call'[d] = call[d]
      BY <1>0, <3>1, <3>2 DEF At
    <3> QED
      BY <1>14, <3>3, SettledAside DEF Go
  <2> QED
    BY <2>1, <2>2
<1>15. ASSUME NEW c \in Call, LocalRequestEnds(c) \/ LocalCallEnds(c) \/ Return(c) \/ Timeout(c),
              NEW u \in User
       PROVE  Settled(u)'
  BY <1>15, SettledRelease DEF LocalRequestEnds, LocalCallEnds, Return, Timeout
<1>16. ASSUME NEW c \in Call, Answered(c), NEW u \in User PROVE Settled(u)'
  <2>1. call'[c].at = "wait" /\ \A d \in Call : d # c => call'[d] = call[d]
    BY <1>0, <1>16 DEF Answered, At, CallRecord
  <2> QED
    BY <1>16, <2>1, SettledAside DEF Answered, At
<1>17. ASSUME NEW v \in User, NEW n \in Node, OtherBinds(v, n), NEW u \in User PROVE Settled(u)'
  <2>1. CASE u = v
    BY <1>0, <1>17, <2>1 DEF OtherBinds, Typed, Settled
  <2>2. CASE u # v
    <3>1. /\ UNCHANGED <<known, pick, cache, uploads, conn, call>>
          /\ home'[u] = home[u] /\ meta'[u] = meta[u]
      BY <1>0, <1>17, <2>2 DEF OtherBinds, Typed
    <3> QED
      BY <1>0, <3>1, SettledFrame
  <2> QED
    BY <2>1, <2>2
<1>18. ASSUME NEW v \in User, NEW n \in Node, UpdateUserNodeInfo(v, n), NEW u \in User
       PROVE  Settled(u)'
  <2>1. /\ UNCHANGED <<known, pick, cache, meta, call, home>>
        /\ \A m \in Node : <<u, m>> \in uploads' => <<u, m>> \in uploads
        /\ <<v, n>> \in uploads
    BY <1>18 DEF UpdateUserNodeInfo
  <2>2. CASE u = v /\ home[u] # "any"
    <3>1. conn'[u] = n /\ Fits(u, n)
      BY <1>0, <1>18, <2>1, <2>2 DEF UpdateUserNodeInfo, Typed, Settled
    <3>2. \A m : Alive(m)' <=> Alive(m)
      BY <2>1 DEF Alive, KnownNodes
    <3>3. \A m : Fits(u, m) => Fits(u, m)'
      BY <2>1, <3>2 DEF Fits
    <3>4. Routed(u)'
      BY <2>1, <3>1, <3>2 DEF Fits, Routed
    <3>5. \A c \in Call : OnCourse(c, u)'
      BY <1>0, <2>1, <2>2, <3>2 DEF Settled, OnCourse, At
    <3>6. /\ meta'[u] = home'[u] /\ Fits(u, home[u])' /\ Fits(u, cache[u])'
          /\ \A m \in Node : <<u, m>> \in uploads' => Fits(u, m)'
      BY <1>0, <2>1, <2>2, <3>3 DEF Settled, Fits, Alive, KnownNodes
    <3> QED
      BY <3>4, <3>5, <3>6 DEF Settled
  <2>3. CASE u = v /\ home[u] = "any"
    BY <2>1, <2>3 DEF Settled
  <2>4. CASE u # v
    <3>1. conn'[u] = conn[u]
      BY <1>0, <1>18, <2>4 DEF UpdateUserNodeInfo, Typed
    <3> QED
      BY <1>0, <2>1, <3>1, SettledFrame
  <2> QED
    BY <2>2, <2>3, <2>4
<1>19. ASSUME RegisterLocalServices \/ UNCHANGED vars, NEW u \in User PROVE Settled(u)'
  BY <1>5, <1>19 DEF RegisterLocalServices, vars, bindingVars
<1> QED
  BY <1>1, <1>2, <1>3, <1>4, <1>6, <1>7, <1>8, <1>9, <1>10, <1>11, <1>12, <1>13, <1>14,
     <1>15, <1>16, <1>17, <1>18, <1>19 DEF Next, CallStep

\* A step gives a user with an alive node no other, unless it is settled no more.
LEMMA NodeKept ==
    ASSUME StayInv, [Next]_vars, NEW u \in User,
           home[u] # None, home'[u] # "any", home'[u] # home[u]
    PROVE  ~Alive(home[u])
<1>0. /\ TypeInv /\ Typed /\ Progress /\ Chosen
      /\ call \in [Call -> CallRecord] /\ \A c \in Call : call[c] \in CallRecord
      /\ \A v \in User : Settled(v)
  BY DEF StayInv, ChosenInv, TypeInv, Typed
<1>1. ASSUME NEW c \in Call, NEW v \in User, NEW n, Decided(c, v, n)
      PROVE  u = v /\ home[u] # "any" /\ home[u] # n /\ call[c].send.ctx # "bind"
  BY <1>0, <1>1 DEF Decided, Typed
<1>2. CASE UpdateAdds \/ UpdateSweeps
  BY <1>0, <1>2 DEF UpdateAdds, UpdateSweeps, Unsettle, Typed
<1>3. ASSUME NEW c \in Call, Decide(c) PROVE ~Alive(home[u])
  <2>1. call[c].uid \in User /\ call[c].uid \in call[c].todo
    BY <1>0, <1>3 DEF Decide, Progress, CallRecord
  <2>2. Alive(call[c].sel) /\ Decided(c, call[c].uid, call[c].sel)
    BY <1>3 DEF Decide
  <2> QED
    BY <1>0, <1>1, <1>3, <2>1, <2>2 DEF Decide, Settled, OnCourse
<1>4. ASSUME NEW c \in Call, Bind(c) PROVE ~Alive(home[u])
  <2>1. call[c].uid \in User /\ call[c].uid \in call[c].todo
    BY <1>0, <1>4 DEF Bind, Progress, CallRecord
  <2> QED
    BY <1>0, <1>1, <1>4, <2>1 DEF Bind, Settled, OnCourse
<1>5. ASSUME NEW c \in Call, NEW v \in User, SelectLocal(c, v) PROVE ~Alive(home[u])
  <2>1. \/ Alive(call[c].sel) /\ Decided(c, v, call[c].sel)
        \/ Alive(cache[v]) /\ Decided(c, v, cache[v])
    BY <1>5 DEF SelectLocal
  <2>2. CASE Alive(call[c].sel) /\ Decided(c, v, call[c].sel)
    BY <1>0, <1>1, <1>5, <2>2 DEF SelectLocal, Settled, OnCourse
  <2>3. CASE Alive(cache[v]) /\ Decided(c, v, cache[v])
    BY <1>0, <1>1, <2>3 DEF Settled, Fits, Alive, KnownNodes
  <2> QED
    BY <2>1, <2>2, <2>3
<1>6. ASSUME NEW v \in User, NEW n \in Node, OtherBinds(v, n) PROVE FALSE
  BY <1>0, <1>6 DEF OtherBinds, Typed
<1> QED
  BY <1>2, <1>3, <1>4, <1>5, <1>6 DEF Next, CallStep, vars, Startup, WatchRegisters,
     RegisterLocalServices, StartRequest, Start, Route, SelectCarried, ReadMeta, Go,
     LocalRequestEnds, LocalCallEnds, Answered, Return, Timeout, UpdateUserNodeInfo

\* A user's calls keep going to the node that served the last one while the
\* selector knows that node, whatever the connection's context, the cache and
\* Redis name by then.
THEOREM StaysPutCorrect == Spec => StaysPut
<1>1. Spec => []StayInv
  BY StayInit, StayStep, PTL DEF Spec
<1>2. StayInv /\ [Next]_vars =>
         [\A u \in User : home[u] # None /\ home'[u] # "any" /\ home'[u] # home[u] =>
                             ~Alive(home[u])]_vars
  BY NodeKept
<1> QED
  BY <1>1, <1>2, PTL DEF Spec, StaysPut

-----------------------------------------------------------------------------
(* Frames: the pieces of a concatenation *)

Stream == Seq(Int)

\* Two streams, one after the other.
LEMMA Cat ==
    ASSUME NEW a \in Stream, NEW b \in Stream
    PROVE  /\ a \o b \in Stream /\ Len(a) \in Nat /\ Len(b) \in Nat
           /\ Len(a \o b) = Len(a) + Len(b)
           /\ \A i \in 1..Len(a) : (a \o b)[i] = a[i]
           /\ \A i \in 1..Len(b) : (a \o b)[Len(a) + i] = b[i]
  BY ConcatProperties, LenProperties DEF Stream

\* Three streams, one after the other.
LEMMA CatThree ==
    ASSUME NEW a \in Stream, NEW b \in Stream, NEW c \in Stream
    PROVE  (a \o b) \o c = a \o (b \o c)
  BY ConcatAssociative DEF Stream

\* What is taken after a prefix is what was put there.
LEMMA TakeMiddle ==
    ASSUME NEW a \in Stream, NEW b \in Stream, NEW c \in Stream
    PROVE  /\ Take((a \o b) \o c, Len(a), Len(b)) = b
           /\ Take(a \o b, Len(a), Len(b)) = b
<1> USE DEF Stream
<1>1. ASSUME NEW t \in Stream, \A i \in 1..Len(b) : t[Len(a) + i] = b[i],
             Len(t) >= Len(a) + Len(b)
      PROVE  Take(t, Len(a), Len(b)) = b
  <2> DEFINE u == SubSeq(t, Len(a) + 1, Len(a) + Len(b))
  <2>0. Len(a) \in Nat /\ Len(b) \in Nat /\ Len(t) \in Nat
    BY LenProperties
  <2>1. /\ u \in Seq(Int) /\ Len(u) = Len(b)
        /\ \A i \in 1..Len(b) : u[i] = t[Len(a) + i]
    <3>1. \A i \in (Len(a) + 1)..(Len(a) + Len(b)) : t[i] \in Int
      BY <1>1, <2>0, ElementOfSeq
    <3> HIDE DEF u
    <3>2. /\ u \in Seq(Int)
          /\ Len(u) = IF Len(a) + 1 <= Len(a) + Len(b) THEN Len(a) + Len(b) - (Len(a) + 1) + 1 ELSE 0
          /\ \A i \in 1..(Len(a) + Len(b) - (Len(a) + 1) + 1) : u[i] = t[(Len(a) + 1) + i - 1]
      <4> DEFINE f == Len(a) + 1
                 l == Len(a) + Len(b)
      <4>1. f \in Int /\ l \in Int /\ \A i \in f..l : t[i] \in Int
        BY <2>0, <3>1
      <4>2. u = SubSeq(t, f, l)
        BY DEF u
      <4> HIDE DEF f, l
      <4>3. /\ u \in Seq(Int)
            /\ Len(u) = IF f <= l THEN l - f + 1 ELSE 0
            /\ \A i \in 1..(l - f + 1) : u[i] = t[f + i - 1]
        BY <4>1, <4>2, SubSeqProperties
      <4> QED BY <4>3 DEF f, l
    <3> QED BY <2>0, <3>2
  <2> HIDE DEF u
  <2>2. u = b
    BY <1>1, <2>1, SeqEqual
  <2> QED BY <2>2 DEF u, Take
<1>2. a \o b \in Stream /\ (a \o b) \o c \in Stream
  BY ConcatProperties
<1>3. /\ Len(a) \in Nat /\ Len(b) \in Nat /\ Len(c) \in Nat
      /\ Len(a \o b) = Len(a) + Len(b) /\ Len((a \o b) \o c) = Len(a) + Len(b) + Len(c)
  BY <1>2, ConcatProperties, LenProperties
<1>4. \A i \in 1..Len(b) : (a \o b)[Len(a) + i] = b[i]
  BY <1>3, ConcatProperties
<1>5. \A i \in 1..Len(b) : ((a \o b) \o c)[Len(a) + i] = b[i]
  BY <1>2, <1>3, <1>4, ConcatProperties
<1>6. Take((a \o b) \o c, Len(a), Len(b)) = b
  <2> DEFINE t == (a \o b) \o c
  <2>1. t \in Stream /\ Len(t) >= Len(a) + Len(b) /\ \A i \in 1..Len(b) : t[Len(a) + i] = b[i]
    BY <1>2, <1>3, <1>5
  <2> HIDE DEF t
  <2>2. Take(t, Len(a), Len(b)) = b
    BY <1>1, <2>1
  <2> QED BY <2>2 DEF t
<1>7. Take(a \o b, Len(a), Len(b)) = b
  <2> DEFINE t == a \o b
  <2>1. t \in Stream /\ Len(t) >= Len(a) + Len(b) /\ \A i \in 1..Len(b) : t[Len(a) + i] = b[i]
    BY <1>2, <1>3, <1>4
  <2> HIDE DEF t
  <2>2. Take(t, Len(a), Len(b)) = b
    BY <1>1, <2>1
  <2> QED BY <2>2 DEF t
<1> QED BY <1>6, <1>7

\* What is left after a prefix is what followed it; the prefix is what was
\* taken first.
LEMMA DropPrefix ==
    ASSUME NEW a \in Stream, NEW c \in Stream
    PROVE  Drop(a \o c, Len(a)) = c /\ Take(a \o c, 0, Len(a)) = a
<1> USE DEF Stream
<1>1. Len(a \o c) = Len(a) + Len(c) /\ Len(a) \in Nat /\ Len(c) \in Nat
  BY ConcatProperties, LenProperties
<1>2. Drop(a \o c, Len(a)) = Take(a \o c, Len(a), Len(c))
  BY <1>1 DEF Drop, Take
<1>3. <<>> \in Stream /\ Len(<<>>) = 0 /\ <<>> \o a = a
  BY ConcatEmptySeq, EmptySeq
<1>4. Take((<<>> \o a) \o c, 0, Len(a)) = a
  BY <1>3, TakeMiddle
<1> QED BY <1>2, <1>3, <1>4, TakeMiddle

\* The last dot of a name is the one between its parts when the second part
\* has none.
LEMMA LastDotIs ==
    ASSUME NEW m \in Stream, NEW n \in Stream, \A i \in 1..Len(n) : n[i] # Dot
    PROVE  LastDot((m \o <<Dot>>) \o n) = Len(m) + 1
<1> DEFINE s == (m \o <<Dot>>) \o n
           I == {i \in 1..Len(s) : s[i] = Dot}
<1>1. /\ <<Dot>> \in Stream /\ Len(<<Dot>>) = 1 /\ <<Dot>>[1] = Dot
      /\ m \o <<Dot>> \in Stream
  BY ConcatProperties DEF Stream, Dot
<1>2. /\ Len(m) \in Nat /\ Len(n) \in Nat
      /\ Len(m \o <<Dot>>) = Len(m) + 1 /\ Len(s) = Len(m) + 1 + Len(n)
      /\ (m \o <<Dot>>)[Len(m) + 1] = Dot
  BY <1>1, ConcatProperties, LenProperties DEF Stream
<1>3. s[Len(m) + 1] = Dot
  BY <1>1, <1>2, ConcatProperties DEF Stream
<1>4. \A i \in 1..Len(s) : i > Len(m) + 1 => s[i] = n[i - (Len(m) + 1)]
  BY <1>1, <1>2, ConcatProperties DEF Stream
<1> HIDE DEF s
<1>5. Len(m) + 1 \in I /\ \A i \in I : i <= Len(m) + 1
  BY <1>2, <1>3, <1>4
<1>6. I # {} /\ I \subseteq Int
  BY <1>5
<1> HIDE DEF I
<1>7. Max(I) = Len(m) + 1
  <2>1. \E x \in I : \A y \in I : x >= y
    BY <1>2, <1>5, <1>6
  <2>2. Max(I) \in I /\ \A y \in I : Max(I) >= y
    BY <2>1, Zenon DEF Max
  <2> DEFINE v == Max(I)
  <2>3. v \in Int /\ v >= Len(m) + 1 /\ v <= Len(m) + 1
    BY <1>5, <1>6, <2>2
  <2> HIDE DEF v
  <2>4. v = Len(m) + 1
    BY <1>2, <2>3
  <2> QED BY <2>4 DEF v
<1>8. LastDot(s) = IF I # {} THEN Max(I) ELSE 0
  BY DEF LastDot, SelectLastInSeq, I
<1> QED BY <1>6, <1>7, <1>8 DEF s

-----------------------------------------------------------------------------
(* Frames: requests *)

\* The requests a client may send: the method's name has no dot, the sizes
\* fit their fields, and without a MAC there is no sequence number.
Sendable ==
    {r \in [module : Stream, method : Stream, data : Stream, seq : Int, mac : Int] :
        /\ \A i \in 1..Len(r.method) : r.method[i] # Dot
        /\ Len(Name(r)) < SizeWrap /\ Len(r.data) < SizeWrap
        /\ r.mac = 0 => r.seq = 0}

\* A head of two parts is one of four elements.
LEMMA HeadIs ==
    ASSUME NEW k \in Int, NEW r \in Sendable
    PROVE  /\ <<Request, k>> \o Sizes(r) \in Stream /\ Len(<<Request, k>> \o Sizes(r)) = RequestHead
           /\ (<<Request, k>> \o Sizes(r))[1] = Request /\ (<<Request, k>> \o Sizes(r))[2] = k
           /\ (<<Request, k>> \o Sizes(r))[3] = Len(Name(r))
           /\ (<<Request, k>> \o Sizes(r))[4] = Len(r.data)
           /\ Name(r) \in Stream /\ r.data \in Stream
           /\ Len(Name(r)) \in Nat /\ Len(r.data) \in Nat
<1>1. r.module \in Stream /\ r.method \in Stream /\ r.data \in Stream
  BY DEF Sendable
<1>2. <<Dot>> \in Stream
  BY DEF Stream, Dot
<1>3. Name(r) \in Stream
  BY <1>1, <1>2, ConcatProperties DEF Name, Stream
<1>4. Len(Name(r)) \in Nat /\ Len(r.data) \in Nat
  BY <1>1, <1>3, LenProperties DEF Stream
<1>5. Len(Name(r)) % SizeWrap = Len(Name(r)) /\ Len(r.data) % SizeWrap = Len(r.data)
  <2>1. Len(Name(r)) < SizeWrap /\ Len(r.data) < SizeWrap
    BY DEF Sendable
  <2> HIDE DEF Sendable
  <2>2. \A n \in Nat : n < SizeWrap => n % SizeWrap = n
    BY FramesAssumption
  <2> QED BY <1>4, <2>1, <2>2
<1>6. Sizes(r) = <<Len(Name(r)), Len(r.data)>>
  BY <1>5 DEF Sizes
<1>7. ASSUME NEW a \in Int, NEW b \in Int, NEW c \in Int, NEW d \in Int
      PROVE  /\ <<a, b>> \o <<c, d>> \in Stream /\ Len(<<a, b>> \o <<c, d>>) = 4
             /\ (<<a, b>> \o <<c, d>>)[1] = a /\ (<<a, b>> \o <<c, d>>)[2] = b
             /\ (<<a, b>> \o <<c, d>>)[3] = c /\ (<<a, b>> \o <<c, d>>)[4] = d
  <2>1. /\ <<a, b>> \in Seq(Int) /\ Len(<<a, b>>) = 2 /\ <<a, b>>[1] = a /\ <<a, b>>[2] = b
        /\ <<c, d>> \in Seq(Int) /\ Len(<<c, d>>) = 2 /\ <<c, d>>[1] = c /\ <<c, d>>[2] = d
    OBVIOUS
  <2> QED BY <2>1, ConcatProperties DEF Stream
<1> QED BY <1>1, <1>3, <1>4, <1>6, <1>7 DEF Request, RequestHead

\* A stream begins with the head of a frame.
Begins(x, h) == x[1] = h[1] /\ x[2] = h[2] /\ x[3] = h[3] /\ x[4] = h[4]

\* A frame tells where it ends, whatever comes behind it.
Apart(f, rest) ==
    LET s == f \o rest IN
    /\ f \in Stream /\ s \in Stream /\ Len(f) \in Nat /\ Len(f) >= RequestHead
    /\ Len(s) = Len(f) + Len(rest) /\ Len(rest) \in Nat
    /\ Begins(s, f) /\ LogicSize(f) = Len(f) /\ LogicSize(s) = Len(f)
    /\ Take(s, 0, Len(f)) = f /\ Drop(s, Len(f)) = rest

\* Its name and its data are where the head says.
Holds(f, body, n, d) == Take(f, body, Len(n)) = n /\ Take(f, body + Len(n), Len(d)) = d

\* A frame whose head gives its length is apart from what follows it.
LEMMA ApartFrom ==
    ASSUME NEW f \in Stream, NEW rest \in Stream, Len(f) >= RequestHead, LogicSize(f) = Len(f)
    PROVE  Apart(f, rest)
<1> DEFINE s == f \o rest
<1>1. /\ s \in Stream /\ Len(f) \in Nat /\ Len(rest) \in Nat /\ Len(s) = Len(f) + Len(rest)
      /\ \A i \in 1..Len(f) : s[i] = f[i]
  BY Cat
<1>2. Take(s, 0, Len(f)) = f /\ Drop(s, Len(f)) = rest
  BY DropPrefix
<1> HIDE DEF s
<1>3. \A i \in 1..4 : s[i] = f[i]
  BY <1>1 DEF RequestHead
<1>4. Begins(s, f)
  BY <1>3 DEF Begins
<1>5. LogicSize(s) = LogicSize(f)
  BY <1>4 DEF Begins, LogicSize
<1> QED BY <1>1, <1>2, <1>4, <1>5 DEF s, Apart

\* The length a plain frame's head gives, and that of one with a MAC.
LEMMA SizeIs ==
    ASSUME NEW f, NEW a \in Nat, NEW b \in Nat, f[3] = a, f[4] = b
    PROVE  /\ f[2] = Logic => LogicSize(f) = RequestHead + a + b
           /\ f[2] = LogicMAC => LogicSize(f) = RequestHead + a + b + 2
  BY DEF LogicSize, Logic, LogicMAC, RequestHead

\* How a plain frame comes apart.
LEMMA PlainParts ==
    ASSUME NEW h \in Stream, Len(h) = RequestHead, NEW n \in Stream, NEW d \in Stream,
           NEW rest \in Stream, h[2] = Logic, h[3] = Len(n), h[4] = Len(d)
    PROVE  /\ Apart((h \o n) \o d, rest) /\ Begins((h \o n) \o d, h)
           /\ Holds((h \o n) \o d, RequestHead, n, d)
<1> DEFINE g == h \o n
           f == g \o d
<1>1. /\ Len(n) \in Nat /\ Len(d) \in Nat /\ RequestHead = 4
      /\ h[2] = Logic /\ h[3] = Len(n) /\ h[4] = Len(d)
  BY Cat DEF RequestHead
<1>2. g \in Stream /\ Len(g) = RequestHead + Len(n) /\ \A i \in 1..Len(h) : g[i] = h[i]
  BY Cat
<1>3. \A i \in 1..4 : g[i] = h[i]
  BY <1>1, <1>2
<1>4. Holds(f, RequestHead, n, d)
  <2>1. Take((h \o n) \o d, Len(h), Len(n)) = n
    BY TakeMiddle
  <2>2. Take(g \o d, Len(g), Len(d)) = d
    BY <1>2, TakeMiddle
  <2> QED BY <1>2, <2>1, <2>2 DEF Holds
<1> HIDE DEF g
<1>5. f \in Stream /\ Len(f) = Len(g) + Len(d) /\ \A i \in 1..Len(g) : f[i] = g[i]
  BY <1>2, Cat
<1> HIDE DEF f
<1>6. Len(f) = 4 + Len(n) + Len(d) /\ Len(f) >= 4 /\ Len(g) >= 4
  BY <1>1, <1>2, <1>5
<1>7. \A i \in 1..4 : f[i] = g[i]
  BY ONLY <1>1, <1>2, <1>5, <1>6
<1>8. Begins(f, h)
  BY <1>3, <1>7 DEF Begins
<1>9. f[2] = Logic /\ f[3] = Len(n) /\ f[4] = Len(d)
  BY <1>1, <1>8 DEF Begins
<1>10. LogicSize(f) = Len(f)
  BY <1>1, <1>6, <1>9, SizeIs
<1>11. Apart(f, rest)
  BY <1>1, <1>5, <1>6, <1>10, ApartFrom
<1> QED BY <1>4, <1>8, <1>11 DEF f, g

WithMAC(h, q, n, d, m) == (((h \o <<q>>) \o n) \o d) \o <<m>>
MACApart(f, h, q, n, d, m, rest) ==
    /\ Apart(f, rest) /\ Begins(f, h) /\ Holds(f, RequestHead + 1, n, d)
    /\ f[RequestHead + 1] = q /\ f[Len(f)] = m

\* How a frame with a MAC comes apart.
LEMMA MACParts ==
    ASSUME NEW h \in Stream, Len(h) = RequestHead, NEW q \in Int, NEW n \in Stream, NEW d \in Stream,
           NEW m \in Int, NEW rest \in Stream, h[2] = LogicMAC, h[3] = Len(n), h[4] = Len(d)
    PROVE  MACApart(WithMAC(h, q, n, d, m), h, q, n, d, m, rest)
<1> DEFINE g == h \o <<q>>
           b == g \o n
           c == b \o d
           f == c \o <<m>>
<1>1. /\ <<q>> \in Stream /\ Len(<<q>>) = 1 /\ <<q>>[1] = q
      /\ <<m>> \in Stream /\ Len(<<m>>) = 1 /\ <<m>>[1] = m
  BY DEF Stream
<1>2. /\ Len(n) \in Nat /\ Len(d) \in Nat /\ RequestHead = 4
      /\ h[2] = LogicMAC /\ h[3] = Len(n) /\ h[4] = Len(d)
  BY Cat DEF RequestHead
<1>3. g \in Stream /\ Len(g) = 5 /\ g[5] = q /\ \A i \in 1..4 : g[i] = h[i]
  <2>1. /\ g \in Stream /\ Len(g) = Len(h) + Len(<<q>>)
        /\ \A i \in 1..Len(h) : g[i] = h[i]
        /\ \A i \in 1..Len(<<q>>) : g[Len(h) + i] = <<q>>[i]
    BY <1>1, Cat
  <2> QED BY <1>1, <1>2, <2>1
<1> HIDE DEF g
<1>4. b \in Stream /\ Len(b) = Len(g) + Len(n) /\ \A i \in 1..Len(g) : b[i] = g[i]
  BY <1>3, Cat
<1>5. Holds(f, RequestHead + 1, n, d)
  <2>1. d \o <<m>> \in Stream
    BY <1>1, Cat
  <2>2. f = b \o (d \o <<m>>)
    <3> HIDE DEF b
    <3>1. \A x \in Stream : (b \o d) \o x = b \o (d \o x)
      BY <1>4, CatThree
    <3> QED BY <1>1, <3>1, Zenon
  <2>3. Take((g \o n) \o (d \o <<m>>), Len(g), Len(n)) = n
    BY <1>3, <2>1, TakeMiddle
  <2>4. Take((b \o d) \o <<m>>, Len(b), Len(d)) = d
    BY <1>1, <1>4, TakeMiddle
  <2>5. Len(g) = RequestHead + 1 /\ Len(b) = RequestHead + 1 + Len(n)
    BY <1>2, <1>3, <1>4
  <2>6. Take(f, RequestHead + 1, Len(n)) = n
    BY <2>2, <2>3, <2>5
  <2> HIDE DEF b
  <2>7. Take(f, RequestHead + 1 + Len(n), Len(d)) = d
    BY <2>4, <2>5
  <2> QED BY <2>6, <2>7 DEF Holds
<1> HIDE DEF b
<1>6. c \in Stream /\ Len(c) = Len(b) + Len(d) /\ \A i \in 1..Len(b) : c[i] = b[i]
  BY <1>4, Cat
<1> HIDE DEF c
<1>7. /\ f \in Stream /\ Len(f) = Len(c) + Len(<<m>>)
      /\ \A i \in 1..Len(c) : f[i] = c[i]
      /\ \A i \in 1..Len(<<m>>) : f[Len(c) + i] = <<m>>[i]
  <2> DEFINE one == <<m>>
  <2>1. one \in Stream /\ c \in Stream
    BY <1>1, <1>6
  <2> HIDE DEF one
  <2>2. /\ c \o one \in Stream /\ Len(c \o one) = Len(c) + Len(one)
        /\ \A i \in 1..Len(c) : (c \o one)[i] = c[i]
        /\ \A i \in 1..Len(one) : (c \o one)[Len(c) + i] = one[i]
    BY <2>1, Cat
  <2> QED BY <2>2 DEF one
<1> HIDE DEF f
<1>8. /\ Len(f) = 4 + Len(n) + Len(d) + 2 /\ Len(f) >= 4
      /\ Len(b) >= 5 /\ Len(c) >= 5 /\ Len(c) = Len(f) - 1 /\ Len(c) \in Nat /\ Len(b) \in Nat
  BY <1>1, <1>2, <1>3, <1>4, <1>6, <1>7
<1>9. \A i \in 1..5 : f[i] = g[i]
  <2>1. \A i \in 1..5 : i \in 1..Len(g) /\ i \in 1..Len(b) /\ i \in 1..Len(c)
    BY <1>3, <1>8
  <2> QED BY <1>4, <1>6, <1>7, <2>1
<1>10. Begins(f, h) /\ f[RequestHead + 1] = q /\ f[Len(f)] = m
  <2>1. f[1] = g[1] /\ f[2] = g[2] /\ f[3] = g[3] /\ f[4] = g[4] /\ f[5] = g[5]
    BY <1>9
  <2>2. f[Len(c) + 1] = m
    BY <1>1, <1>7
  <2>3. Len(c) + 1 = Len(f) /\ RequestHead + 1 = 5
    BY <1>2, <1>8
  <2>4. g[1] = h[1] /\ g[2] = h[2] /\ g[3] = h[3] /\ g[4] = h[4] /\ g[5] = q
    BY <1>3
  <2> QED BY <2>1, <2>2, <2>3, <2>4 DEF Begins
<1>11. f[2] = LogicMAC /\ f[3] = Len(n) /\ f[4] = Len(d)
  BY <1>2, <1>10 DEF Begins
<1>12. LogicSize(f) = Len(f)
  <2>1. LogicSize(f) = RequestHead + Len(n) + Len(d) + 2
    BY <1>2, <1>11, SizeIs
  <2> QED BY <1>2, <1>8, <2>1
<1>13. Apart(f, rest)
  BY <1>2, <1>7, <1>8, <1>12, ApartFrom
<1>14. f = WithMAC(h, q, n, d, m)
  BY DEF f, c, b, g, WithMAC
<1> QED BY <1>5, <1>10, <1>13, <1>14 DEF MACApart

\* A name comes apart at its last dot.
LEMMA NameParts ==
    ASSUME NEW r \in Sendable
    PROVE  /\ LastDot(Name(r)) = Len(r.module) + 1 /\ Len(r.module) \in Nat
           /\ SubSeq(Name(r), 1, LastDot(Name(r)) - 1) = r.module
           /\ Drop(Name(r), LastDot(Name(r))) = r.method
<1>1. r.module \in Stream /\ r.method \in Stream /\ \A i \in 1..Len(r.method) : r.method[i] # Dot
  BY DEF Sendable
<1>2. <<Dot>> \in Stream /\ Len(<<Dot>>) = 1
  BY DEF Stream, Dot
<1>3. LastDot(Name(r)) = Len(r.module) + 1
  BY <1>1, LastDotIs DEF Name
<1>4. /\ r.module \o <<Dot>> \in Stream /\ <<Dot>> \o r.method \in Stream
      /\ Len(r.module) \in Nat /\ Len(r.module \o <<Dot>>) = Len(r.module) + 1
  <2>1. /\ r.module \o <<Dot>> \in Stream /\ Len(r.module) \in Nat
        /\ Len(r.module \o <<Dot>>) = Len(r.module) + Len(<<Dot>>)
    BY <1>1, <1>2, Cat
  <2> QED BY <1>1, <1>2, <2>1, Cat
<1>5. Drop(Name(r), Len(r.module) + 1) = r.method
  <2>1. Drop((r.module \o <<Dot>>) \o r.method, Len(r.module \o <<Dot>>)) = r.method
    BY <1>1, <1>4, DropPrefix
  <2> QED BY <1>4, <2>1 DEF Name
<1>6. SubSeq(Name(r), 1, Len(r.module)) = r.module
  <2>1. Name(r) = r.module \o (<<Dot>> \o r.method)
    BY <1>1, <1>2, CatThree DEF Name
  <2>2. Take(r.module \o (<<Dot>> \o r.method), 0, Len(r.module)) = r.module
    BY <1>1, <1>4, DropPrefix
  <2>3. Take(Name(r), 0, Len(r.module)) = SubSeq(Name(r), 1, Len(r.module))
    BY <1>4 DEF Take
  <2> QED BY <2>1, <2>2, <2>3
<1>7. Len(r.module) + 1 - 1 = Len(r.module)
  BY <1>4
<1> QED BY <1>3, <1>4, <1>5, <1>6, <1>7

\* A frame with the parts of a request is that request.
LEMMA PartsParse ==
    ASSUME NEW r \in Sendable, NEW f, NEW rest, f[3] = Len(Name(r)), f[4] = Len(r.data),
           \/ /\ f[2] = LogicMAC /\ Holds(f, RequestHead + 1, Name(r), r.data)
              /\ f[RequestHead + 1] = r.seq /\ f[LogicSize(f)] = r.mac
           \/ /\ f[2] # LogicMAC /\ Holds(f, RequestHead, Name(r), r.data)
              /\ r.seq = 0 /\ r.mac = 0
    PROVE  ParseLogic(f, rest) = Got(r, rest)
<1> DEFINE body == RequestHead + (IF f[2] = LogicMAC THEN 1 ELSE 0)
           seq == IF f[2] = LogicMAC THEN f[RequestHead + 1] ELSE 0
           mac == IF f[2] = LogicMAC THEN f[LogicSize(f)] ELSE 0
<1>1. LastDot(Name(r)) # 0
  BY NameParts
<1>2. r = [module |-> r.module, method |-> r.method, data |-> r.data, seq |-> r.seq, mac |-> r.mac]
  BY DEF Sendable
<1>3. body = IF f[2] = LogicMAC THEN RequestHead + 1 ELSE RequestHead
  BY DEF RequestHead
<1>4. Take(f, body, f[3]) = Name(r) /\ Take(f, body + f[3], f[4]) = r.data
  <2> HIDE DEF body
  <2> QED BY <1>3 DEF Holds
<1>5. seq = r.seq /\ mac = r.mac
  OBVIOUS
<1>6. ParseLogic(f, rest) =
        LET name == Take(f, body, f[3]) IN
        IF LastDot(name) = 0 THEN Refused(f)
        ELSE Got([module |-> SubSeq(name, 1, LastDot(name) - 1), method |-> Drop(name, LastDot(name)),
                  data |-> Take(f, body + f[3], f[4]), seq |-> seq, mac |-> mac], rest)
  BY DEF ParseLogic
<1> HIDE DEF body, seq, mac
<1> QED BY <1>1, <1>2, <1>4, <1>5, <1>6, NameParts

\* What is sent can be told from what follows, and is what was meant.
LEMMA FrameFacts ==
    ASSUME NEW r \in Sendable, r # Beat, NEW rest \in Stream
    PROVE  LET f == EncodeRequest(r) IN
           /\ Apart(f, rest) /\ ParseLogic(f, rest) = Got(r, rest)
           /\ f[1] = Request /\ f[2] \in {Logic, LogicMAC}
<1> DEFINE f == EncodeRequest(r)
<1>1. r.seq \in Int /\ r.mac \in Int /\ (r.mac = 0 => r.seq = 0)
  BY DEF Sendable
<1>2. Logic # LogicMAC /\ Logic \in Int /\ LogicMAC \in Int
  BY DEF Logic, LogicMAC
<1>3. CASE r.mac = 0
  <2> DEFINE h == <<Request, Logic>> \o Sizes(r)
  <2>1. f = (h \o Name(r)) \o r.data
    BY <1>3 DEF EncodeRequest, EncodeTgfBinaryFrame
  <2>2. /\ h \in Stream /\ Len(h) = RequestHead /\ h[1] = Request /\ h[2] = Logic
        /\ h[3] = Len(Name(r)) /\ h[4] = Len(r.data) /\ Name(r) \in Stream /\ r.data \in Stream
    BY <1>2, HeadIs
  <2> HIDE DEF h, f
  <2>3. Apart(f, rest) /\ Begins(f, h) /\ Holds(f, RequestHead, Name(r), r.data)
    BY <2>1, <2>2, PlainParts
  <2>4. f[1] = Request /\ f[2] = Logic /\ f[3] = Len(Name(r)) /\ f[4] = Len(r.data)
    BY <2>2, <2>3 DEF Begins
  <2>5. ParseLogic(f, rest) = Got(r, rest)
    BY <1>1, <1>2, <1>3, <2>3, <2>4, PartsParse
  <2> QED BY <2>3, <2>4, <2>5 DEF f
<1>4. CASE r.mac # 0
  <2> DEFINE h == <<Request, LogicMAC>> \o Sizes(r)
  <2>1. f = WithMAC(h, r.seq, Name(r), r.data, r.mac)
    BY <1>4 DEF EncodeRequest, EncodeTgfBinaryMACFrame, WithMAC
  <2>2. /\ h \in Stream /\ Len(h) = RequestHead /\ h[1] = Request /\ h[2] = LogicMAC
        /\ h[3] = Len(Name(r)) /\ h[4] = Len(r.data) /\ Name(r) \in Stream /\ r.data \in Stream
    BY <1>2, HeadIs
  <2> HIDE DEF h, f
  <2>3. /\ Apart(f, rest) /\ Begins(f, h) /\ Holds(f, RequestHead + 1, Name(r), r.data)
        /\ f[RequestHead + 1] = r.seq /\ f[Len(f)] = r.mac
    <3>1. MACApart(WithMAC(h, r.seq, Name(r), r.data, r.mac), h, r.seq, Name(r), r.data, r.mac, rest)
      BY <1>1, <2>2, MACParts
    <3>2. MACApart(f, h, r.seq, Name(r), r.data, r.mac, rest)
      BY <2>1, <3>1
    <3> QED BY <3>2 DEF MACApart
  <2>4. f[1] = Request /\ f[2] = LogicMAC /\ f[3] = Len(Name(r)) /\ f[4] = Len(r.data)
    BY <2>2, <2>3 DEF Begins
  <2>5. ParseLogic(f, rest) = Got(r, rest)
    <3>1. LogicSize(f) = Len(f)
      BY <2>3 DEF Apart
    <3> QED BY <2>3, <2>4, <3>1, PartsParse
  <2> QED BY <2>3, <2>4, <2>5 DEF f
<1> QED BY <1>3, <1>4

\* The request read first from a TCP stream is the one written first, and
\* what is left is what was written behind it.
THEOREM RequestRead ==
    ASSUME NEW r \in Sendable \cup {Beat}, NEW rest \in Stream
    PROVE  ReadFrame(EncodeRequest(r) \o rest) = Got(r, rest)
<1> DEFINE f == EncodeRequest(r)
           s == f \o rest
<1>1. CASE r = Beat
  <2>1. f = <<Request, Heartbeat>>
    BY <1>1 DEF EncodeRequest, EncodeTgfHeartbeatFrame
  <2>2. f \in Stream /\ Len(f) = 2 /\ f[1] = Request /\ f[2] = Heartbeat
    BY <2>1 DEF Stream, Request, Heartbeat
  <2> HIDE DEF f
  <2>3. /\ Len(rest) \in Nat /\ Len(s) = Len(f) + Len(rest)
        /\ \A i \in 1..Len(f) : s[i] = f[i]
    BY <2>2, Cat
  <2>4. Drop(s, Len(f)) = rest
    BY <2>2, DropPrefix
  <2> HIDE DEF s
  <2>5. ~(Len(s) < 2) /\ s[1] = Request /\ s[2] = Heartbeat /\ Drop(s, 2) = rest
    BY <2>2, <2>3, <2>4
  <2>6. ReadFrame(s) = Got(Beat, rest)
    BY <2>5 DEF ReadFrame
  <2> QED BY <1>1, <2>6 DEF s, f
<1>2. CASE r # Beat
  <2>1. Apart(f, rest) /\ ParseLogic(f, rest) = Got(r, rest) /\ f[1] = Request /\ f[2] \in {Logic, LogicMAC}
    BY <1>2, FrameFacts
  <2> HIDE DEF f
  <2>2. /\ Len(f) \in Nat /\ Len(f) >= 4 /\ Len(s) = Len(f) + Len(rest) /\ Len(rest) \in Nat
        /\ s[1] = Request /\ s[2] \in {Logic, LogicMAC} /\ LogicSize(s) = Len(f)
        /\ Take(s, 0, Len(f)) = f /\ Drop(s, Len(f)) = rest
    BY <2>1 DEF Apart, Begins, RequestHead
  <2> HIDE DEF s
  <2>3. ~(Len(s) < 2) /\ ~(Len(s) < RequestHead) /\ ~(Len(s) < LogicSize(s)) /\ s[2] # Heartbeat
    BY <2>2 DEF RequestHead, Heartbeat, Logic, LogicMAC
  <2>4. ReadFrame(s) = ParseLogic(Take(s, 0, LogicSize(s)), Drop(s, LogicSize(s)))
    BY <2>2, <2>3 DEF ReadFrame
  <2>5. ReadFrame(s) = Got(r, rest)
    BY <2>1, <2>2, <2>4
  <2> QED BY <2>5 DEF s, f
<1> QED BY <1>1, <1>2

\* A request of which only a part has arrived is not read yet.
THEOREM RequestAwaited ==
    ASSUME NEW r \in Sendable \cup {Beat}, NEW n \in Nat, n < Len(EncodeRequest(r))
    PROVE  ReadFrame(SubSeq(EncodeRequest(r), 1, n)) = Blocked(SubSeq(EncodeRequest(r), 1, n))
<1> DEFINE f == EncodeRequest(r)
           s == SubSeq(f, 1, n)
<1>1. /\ f \in Stream
      /\ \/ f[1] = Request /\ f[2] \in {Logic, LogicMAC} /\ LogicSize(f) = Len(f)
         \/ Len(f) = 2
  <2>1. CASE r = Beat
    <3>1. f = <<Request, Heartbeat>>
      BY <2>1 DEF EncodeRequest, EncodeTgfHeartbeatFrame
    <3> QED BY <3>1 DEF Stream, Request, Heartbeat
  <2>2. CASE r # Beat
    <3>1. <<>> \in Stream
      BY DEF Stream
    <3>2. Apart(f, <<>>) /\ f[1] = Request /\ f[2] \in {Logic, LogicMAC}
      BY <2>2, <3>1, FrameFacts
    <3> QED BY <3>2 DEF Apart
  <2> QED BY <2>1, <2>2
<1>f. n < Len(f)
  OBVIOUS
<1> HIDE DEF f
<1>2. Len(f) \in Nat
  BY <1>1, LenProperties DEF Stream
<1>3. Len(s) = n /\ \A i \in 1..n : s[i] = f[i]
  <2>1. \A i \in 1..n : f[i] \in Int
    BY <1>1, <1>2, <1>f, ElementOfSeq DEF Stream
  <2>2. /\ Len(s) = IF 1 <= n THEN n - 1 + 1 ELSE 0
        /\ \A i \in 1..(n - 1 + 1) : s[i] = f[1 + i - 1]
    BY <2>1, SubSeqProperties
  <2> HIDE DEF s
  <2> QED BY <2>2
<1> HIDE DEF s
<1>4. CASE n < 2
  BY <1>3, <1>4 DEF ReadFrame, s, f
<1>5. CASE n >= 2
  <2>1. s[1] = Request /\ s[2] \in {Logic, LogicMAC} /\ LogicSize(f) = Len(f) /\ s[2] = f[2]
    <3>1. s[1] = f[1] /\ s[2] = f[2]
      BY <1>3, <1>5
    <3>2. Len(f) # 2
      BY <1>f, <1>2, <1>5
    <3> QED BY <1>1, <3>1, <3>2
  <2>2. ~(Len(s) < 2) /\ s[2] # Heartbeat
    BY <1>3, <1>5, <2>1 DEF Heartbeat, Logic, LogicMAC
  <2>3. Len(s) < RequestHead \/ Len(s) < LogicSize(s)
    <3>1. CASE n >= 4
      <4>1. s[3] = f[3] /\ s[4] = f[4]
        BY <1>3, <3>1
      <4>2. LogicSize(s) = LogicSize(f)
        BY <2>1, <4>1 DEF LogicSize
      <4> QED BY <1>3, <1>f, <2>1, <4>2
    <3>2. CASE n < 4
      BY <1>3, <3>2 DEF RequestHead
    <3> QED BY <3>1, <3>2
  <2>4. ReadFrame(s) = Blocked(s)
    BY <2>1, <2>2, <2>3 DEF ReadFrame
  <2> QED BY <2>4 DEF s, f
<1> QED BY <1>4, <1>5

-----------------------------------------------------------------------------
(* Frames: KCP *)

\* What opens under the key it was sealed with is what was sealed.
LEMMA SealOpen ==
    ASSUME NEW key \in Int, NEW p \in Stream
    PROVE  /\ Open(key, Seal(key, p)) = Got(p, <<>>) /\ Seal(key, p) \in Stream
           /\ Len(Seal(key, p)) \in Nat /\ Len(Seal(key, p)) >= Len(p)
           /\ key # 0 => Len(Seal(key, p)) >= 2 /\ Seal(key, p)[1] = Nonce
           /\ key # 0 => Last(Seal(key, p)) = key
<1>1. Len(p) \in Nat /\ \A i \in 1..Len(p) : p[i] \in Int
  BY LenProperties, ElementOfSeq DEF Stream
<1>2. CASE key = 0
  BY <1>1, <1>2 DEF Open, Seal
<1>3. CASE key # 0
  <2> DEFINE e == [i \in DOMAIN p |-> p[i] + 1000]
             a == <<Nonce>> \o e
             z == a \o <<key>>
  <2>1. /\ <<Nonce>> \in Stream /\ Len(<<Nonce>>) = 1 /\ <<Nonce>>[1] = Nonce
        /\ <<key>> \in Stream /\ Len(<<key>>) = 1 /\ <<key>>[1] = key
    BY DEF Stream, Nonce
  <2>2. e \in Stream /\ Len(e) = Len(p) /\ \A i \in 1..Len(p) : e[i] = p[i] + 1000
    <3>1. DOMAIN p = 1..Len(p)
      BY LenProperties DEF Stream
    <3>2. e = [i \in 1..Len(p) |-> p[i] + 1000]
      BY <3>1
    <3>3. e \in Seq(Int)
      BY <1>1, <3>2, IsASeq
    <3>4. Len(e) = Len(p)
      BY <1>1, <3>2, <3>3, LenProperties
    <3> QED BY <3>2, <3>3, <3>4 DEF Stream
  <2> HIDE DEF e
  <2>3. /\ a \in Stream /\ Len(a) = Len(<<Nonce>>) + Len(e)
        /\ \A i \in 1..Len(<<Nonce>>) : a[i] = <<Nonce>>[i]
        /\ \A i \in 1..Len(e) : a[Len(<<Nonce>>) + i] = e[i]
    <3> DEFINE one == <<Nonce>>
    <3>1. one \in Stream /\ e \in Stream
      BY <2>1, <2>2
    <3> HIDE DEF one
    <3>2. /\ one \o e \in Stream /\ Len(one \o e) = Len(one) + Len(e)
          /\ \A i \in 1..Len(one) : (one \o e)[i] = one[i]
          /\ \A i \in 1..Len(e) : (one \o e)[Len(one) + i] = e[i]
      BY <3>1, Cat
    <3> QED BY <3>2 DEF one
  <2> HIDE DEF a
  <2>4. /\ z \in Stream /\ Len(z) = Len(a) + Len(<<key>>)
        /\ \A i \in 1..Len(a) : z[i] = a[i]
        /\ \A i \in 1..Len(<<key>>) : z[Len(a) + i] = <<key>>[i]
    BY <2>1, <2>3, Cat
  <2>5. Seal(key, p) = z
    BY <1>3 DEF Seal, a, e
  <2> HIDE DEF z
  <2>6. Len(a) = Len(p) + 1 /\ Len(z) = Len(p) + 2 /\ a[1] = Nonce
    BY <1>1, <2>1, <2>2, <2>3, <2>4
  <2>7. \A i \in 1..Len(p) : z[i + 1] = p[i] + 1000
    <3>1. \A i \in 1..Len(p) : a[1 + i] = e[i]
      BY <2>1, <2>2, <2>3
    <3>2. \A i \in 1..Len(p) : z[1 + i] = a[1 + i]
      BY <1>1, <2>4, <2>6
    <3> QED BY <1>1, <2>2, <3>1, <3>2
  <2>8. z[1] = Nonce /\ z[Len(z)] = key
    BY <1>1, <2>1, <2>4, <2>6
  <2>9. [i \in 1..(Len(z) - 2) |-> z[i + 1] - 1000] = p
    <3>1. p = [i \in 1..Len(p) |-> p[i]]
      BY LenProperties DEF Stream
    <3>2. Len(z) - 2 = Len(p)
      BY <1>1, <2>6
    <3>3. \A i \in 1..Len(p) : z[i + 1] - 1000 = p[i]
      BY <1>1, <2>7
    <3> QED BY <3>1, <3>2, <3>3
  <2>10. Open(key, z) = Got(p, <<>>)
    BY SMTT(30), <1>1, <1>3, <2>6, <2>8, <2>9 DEF Open, Last, Overhead
  <2> QED BY <1>1, <2>4, <2>5, <2>6, <2>8, <2>10 DEF Last
<1> QED BY <1>2, <1>3

\* A reader of a KCP stream opens what the length prefix cuts out.
LEMMA CutOut ==
    ASSUME NEW key \in Int, NEW z \in Stream, NEW rest \in Stream,
           Len(z) > 0, Len(z) <= MaxFrame
    PROVE  /\ (<<Len(z)>> \o z) \o rest \in Stream
           /\ ReadKCPFrame(key, (<<Len(z)>> \o z) \o rest) = [Open(key, z) EXCEPT !.rest = rest]
<1> DEFINE n == Len(z)
           a == <<n>>
           w == a \o z
           s == w \o rest
<1>1. n \in Nat /\ n > 0 /\ n <= MaxFrame
  BY LenProperties DEF Stream
<1> HIDE DEF n
<1>2. n = Len(z)
  BY DEF n
<1>3. a \in Stream /\ Len(a) = 1 /\ a[1] = n
  BY <1>1 DEF Stream
<1> HIDE DEF a
<1>4. w \in Stream /\ Len(w) = 1 + n /\ w[1] = n
  <2>1. w \in Stream /\ Len(w) = Len(a) + Len(z) /\ \A i \in 1..Len(a) : w[i] = a[i]
    BY <1>3, Cat
  <2> HIDE DEF w
  <2> QED BY <1>2, <1>3, <2>1
<1>5. Take((a \o z) \o rest, Len(a), Len(z)) = z
  BY <1>3, TakeMiddle
<1>6. Take(s, 1, n) = z
  BY <1>2, <1>3, <1>5
<1> HIDE DEF w
<1>7. Drop(s, 1 + n) = rest
  <2>1. Drop(s, Len(w)) = rest
    BY <1>4, DropPrefix
  <2> QED BY <1>4, <2>1
<1>8. s \in Stream /\ Len(s) = 1 + n + Len(rest) /\ s[1] = n /\ Len(rest) \in Nat
  <2>1. /\ s \in Stream /\ Len(s) = Len(w) + Len(rest) /\ Len(rest) \in Nat
        /\ \A i \in 1..Len(w) : s[i] = w[i]
    BY <1>4, Cat
  <2> HIDE DEF s
  <2> QED BY <1>1, <1>4, <2>1
<1> HIDE DEF s
<1>9. Len(s) # 0 /\ ~(s[1] = 0 \/ s[1] > MaxFrame) /\ ~(Len(s) < 1 + s[1])
  BY <1>1, <1>8, FramesAssumption
<1>10. ReadKCPFrame(key, s) = [Open(key, z) EXCEPT !.rest = rest]
  BY <1>6, <1>7, <1>8, <1>9 DEF ReadKCPFrame
<1> QED BY <1>8, <1>10 DEF s, w, a, n

\* What is read first from a KCP stream is the payload written first, sealed
\* or plain, if it is neither empty nor over the limit; what is left is what
\* was written behind it.
LEMMA PayloadRead ==
    ASSUME NEW key \in Int, NEW p \in Stream, NEW rest \in Stream,
           Len(p) > 0, Len(Seal(key, p)) <= MaxFrame
    PROVE  ReadKCPFrame(key, WriteKCPFrame(key, p) \o rest) = Got(p, rest)
<1> DEFINE z == Seal(key, p)
<1>1. z \in Stream /\ Len(z) \in Nat /\ Len(z) > 0 /\ Open(key, z) = Got(p, <<>>)
  <2>1. Len(p) \in Nat
    BY LenProperties DEF Stream
  <2> QED BY <2>1, SealOpen
<1>2. WriteKCPFrame(key, p) = <<Len(z)>> \o z
  BY <1>1, FramesAssumption DEF WriteKCPFrame
<1> HIDE DEF z
<1>3. Len(z) <= MaxFrame
  BY DEF z
<1>4. ReadKCPFrame(key, (<<Len(z)>> \o z) \o rest) = [Open(key, z) EXCEPT !.rest = rest]
  BY <1>1, <1>3, CutOut
<1>5. [Open(key, z) EXCEPT !.rest = rest] = Got(p, rest)
  BY <1>1 DEF Got
<1> QED BY <1>2, <1>4, <1>5

\* A request cut out whole is the request that was sent.
LEMMA RequestDecoded ==
    ASSUME NEW r \in Sendable \cup {Beat}, NEW rest \in Stream
    PROVE  /\ DecodeTgfBinaryFrame(EncodeRequest(r), rest) = Got(r, rest)
           /\ EncodeRequest(r) \in Stream /\ Len(EncodeRequest(r)) > 0
<1> DEFINE f == EncodeRequest(r)
<1>1. CASE r = Beat
  <2>1. f = <<Request, Heartbeat>>
    BY <1>1 DEF EncodeRequest, EncodeTgfHeartbeatFrame
  <2>2. f \in Stream /\ Len(f) = 2 /\ f[1] = Request /\ f[2] = Heartbeat
    BY <2>1 DEF Stream, Request, Heartbeat
  <2> HIDE DEF f
  <2>3. DecodeTgfBinaryFrame(f, rest) = Got(Beat, rest)
    BY <2>2 DEF DecodeTgfBinaryFrame
  <2> QED BY <1>1, <2>2, <2>3 DEF f
<1>2. CASE r # Beat
  <2>1. Apart(f, rest) /\ ParseLogic(f, rest) = Got(r, rest) /\ f[1] = Request /\ f[2] \in {Logic, LogicMAC}
    BY <1>2, FrameFacts
  <2> HIDE DEF f
  <2>2. /\ f \in Stream /\ Len(f) \in Nat /\ Len(f) >= 4 /\ LogicSize(f) = Len(f)
    BY <2>1 DEF Apart, RequestHead
  <2>3. /\ ~(Len(f) < 2 \/ f[1] # Request) /\ f[2] # Heartbeat
        /\ ~(Len(f) < RequestHead \/ Len(f) < LogicSize(f))
    BY <2>1, <2>2 DEF RequestHead, Heartbeat, Logic, LogicMAC
  <2>4. DecodeTgfBinaryFrame(f, rest) = Got(r, rest)
    BY <2>1, <2>3 DEF DecodeTgfBinaryFrame
  <2> QED BY <2>2, <2>4 DEF f
<1> QED BY <1>1, <1>2

\* The same over KCP, sealed or plain, for requests within the limit.
THEOREM RequestReadOverKCP ==
    ASSUME NEW r \in Sendable \cup {Beat}, NEW rest \in Stream, NEW key \in Int,
           Len(Seal(key, EncodeRequest(r))) <= MaxFrame
    PROVE  ReadKCPRequest(key, WriteKCPFrame(key, EncodeRequest(r)) \o rest) = Got(r, rest)
<1> DEFINE f == EncodeRequest(r)
           s == WriteKCPFrame(key, f) \o rest
<1>1. DecodeTgfBinaryFrame(f, rest) = Got(r, rest) /\ f \in Stream /\ Len(f) > 0
  BY RequestDecoded
<1>2. ReadKCPFrame(key, s) = Got(f, rest)
  BY <1>1, PayloadRead
<1> HIDE DEF f, s
<1>3. ReadKCPRequest(key, s) = DecodeTgfBinaryFrame(f, rest)
  BY <1>2 DEF ReadKCPRequest, Got
<1> QED BY <1>1, <1>3 DEF f, s

\* What was sealed under one key is refused by a reader that has another.
THEOREM OtherKeyRefused ==
    ASSUME NEW ours \in Int \ {0}, NEW theirs \in Int \ {0}, ours # theirs,
           NEW p \in Stream, NEW rest \in Stream, Len(Seal(ours, p)) <= MaxFrame
    PROVE  ReadKCPFrame(theirs, WriteKCPFrame(ours, p) \o rest).is = "refused"
<1> DEFINE z == Seal(ours, p)
<1>1. z \in Stream /\ Len(z) \in Nat /\ Len(z) >= 2 /\ Last(z) = ours
  BY SealOpen
<1>2. WriteKCPFrame(ours, p) = <<Len(z)>> \o z
  BY <1>1, FramesAssumption DEF WriteKCPFrame
<1>3. Len(z) <= MaxFrame /\ Len(z) > 0
  BY <1>1
<1> HIDE DEF z
<1>4. ReadKCPFrame(theirs, (<<Len(z)>> \o z) \o rest) = [Open(theirs, z) EXCEPT !.rest = rest]
  BY <1>1, <1>3, CutOut
<1>5. Open(theirs, z) = Refused(z)
  BY <1>1 DEF Open
<1>6. [Open(theirs, z) EXCEPT !.rest = rest].is = "refused"
  BY <1>5 DEF Refused
<1> QED BY <1>2, <1>4, <1>6

-----------------------------------------------------------------------------
(* Frames: answers *)

\* The answers a server may send: the type fits its field and the code is
\* one of 32 bits.
Sayable ==
    {m \in [kind : {Logic, Heartbeat, ReplaceLogin}, type : Stream, code : Int, reqId : Int,
            reply : Stream, zips : BOOLEAN] :
        /\ Len(m.type) < SizeWrap
        /\ 0 - (CodeWrap \div 2) <= m.code /\ m.code < CodeWrap \div 2}

\* A code survives its way through the unsigned field.
LEMMA CodeKept ==
    ASSUME NEW c \in Int, 0 - (CodeWrap \div 2) <= c, c < CodeWrap \div 2
    PROVE  c % CodeWrap \in Nat /\ Signed(c % CodeWrap) = c
<1> DEFINE half == CodeWrap \div 2
<1>1. half \in Nat \ {0} /\ CodeWrap = 2 * half
  BY FramesAssumption
<1>2. CodeWrap \div 2 = half
  BY <1>1
<1>3. CASE c >= 0
  <2>1. c % CodeWrap = c
    BY <1>1, <1>2, <1>3
  <2> QED BY <1>1, <1>2, <1>3, <2>1 DEF Signed
<1>4. CASE c < 0
  <2>1. c % CodeWrap = c + CodeWrap
    BY <1>1, <1>2, <1>4
  <2> QED BY <1>1, <1>2, <1>4, <2>1 DEF Signed
<1> QED BY <1>3, <1>4

\* The body, with its flag, gives the reply back.
LEMMA BodyKept ==
    ASSUME NEW m \in Sayable
    PROVE  /\ Body(m) \in Stream /\ Len(Body(m)) \in Nat /\ CompressFlag(m) \in {0, 1}
           /\ \A code \in Int :
                DecodeLogicBody(m.type, Body(m), CompressFlag(m), code)
                  = Seen(Logic, m.type, m.reply, code)
<1>1. m.reply \in Stream /\ Len(m.reply) \in Nat
  BY LenProperties DEF Sayable, Stream
<1>2. CASE Compresses(m)
  <2> DEFINE a == <<800 + Len(m.reply)>>
  <2>1. a \in Stream /\ Len(a) = 1
    BY <1>1 DEF Stream
  <2>2. Body(m) = a \o m.reply /\ CompressFlag(m) = 1
    BY <1>2 DEF Body, CompressFlag, Gzip
  <2> HIDE DEF a
  <2>3. Body(m) \in Stream /\ Len(Body(m)) = 1 + Len(m.reply)
    <3>1. a \o m.reply \in Stream /\ Len(a \o m.reply) = Len(a) + Len(m.reply)
      BY <1>1, <2>1, Cat
    <3> QED BY <2>1, <2>2, <3>1
  <2>4. Drop(a \o m.reply, Len(a)) = m.reply
    BY <1>1, <2>1, DropPrefix
  <2>5. Gunzip(Body(m)) = m.reply
    <3>1. Tail(Body(m)) = SubSeq(Body(m), 2, Len(Body(m)))
      BY <2>3, TailIsSubSeq DEF Stream
    <3> QED BY <2>1, <2>2, <2>4, <3>1 DEF Drop, Gunzip
  <2> QED BY <1>1, <2>2, <2>3, <2>5 DEF DecodeLogicBody
<1>3. CASE ~Compresses(m)
  BY <1>1, <1>3 DEF Body, CompressFlag, DecodeLogicBody
<1> QED BY <1>2, <1>3

\* What is known of a frame with head h, type n and body d, and of a stream
\* that begins with it.
Parted(f, h, n, d, rest) ==
    LET s == f \o rest IN
    /\ f \in Stream /\ s \in Stream /\ Len(f) \in Nat
    /\ Len(f) = Len(h) + Len(n) + Len(d) /\ Len(s) >= Len(f)
    /\ \A i \in 1..Len(h) : f[i] = h[i] /\ s[i] = h[i]
    /\ Take(f, Len(h), Len(n)) = n /\ Take(f, Len(h) + Len(n), Len(d)) = d
    /\ Take(s, 0, Len(f)) = f /\ Drop(s, Len(f)) = rest

\* How a frame with a head, a type and a body comes apart.
LEMMA FrameParts ==
    ASSUME NEW h \in Stream, NEW n \in Stream, NEW d \in Stream, NEW rest \in Stream
    PROVE  Parted((h \o n) \o d, h, n, d, rest)
<1> DEFINE g == h \o n
           f == g \o d
           s == f \o rest
<1>1. /\ g \in Stream /\ Len(h) \in Nat /\ Len(n) \in Nat /\ Len(g) = Len(h) + Len(n)
      /\ \A i \in 1..Len(h) : g[i] = h[i]
  BY Cat
<1>2. Take(f, Len(h), Len(n)) = n
  BY TakeMiddle
<1> HIDE DEF g
<1>3. /\ f \in Stream /\ Len(d) \in Nat /\ Len(f) = Len(g) + Len(d)
      /\ \A i \in 1..Len(g) : f[i] = g[i]
  BY <1>1, Cat
<1>4. Take(f, Len(h) + Len(n), Len(d)) = d
  BY <1>1, TakeMiddle
<1> HIDE DEF f
<1>5. /\ s \in Stream /\ Len(rest) \in Nat /\ Len(s) = Len(f) + Len(rest)
      /\ \A i \in 1..Len(f) : s[i] = f[i]
  BY <1>3, Cat
<1>6. Take(s, 0, Len(f)) = f /\ Drop(s, Len(f)) = rest
  BY <1>3, DropPrefix
<1> HIDE DEF s
<1>7. \A i \in 1..Len(h) : i \in 1..Len(g) /\ i \in 1..Len(f)
  BY <1>1, <1>3
<1>8. \A i \in 1..Len(h) : f[i] = h[i] /\ s[i] = h[i]
  BY <1>1, <1>3, <1>5, <1>7
<1>9. Len(f) \in Nat /\ Len(f) = Len(h) + Len(n) + Len(d) /\ Len(s) >= Len(f)
  BY <1>1, <1>3, <1>5
<1>10. Parted(f, h, n, d, rest)
  BY <1>2, <1>3, <1>4, <1>5, <1>6, <1>8, <1>9 DEF Parted, s
<1> QED BY <1>10 DEF f, g

\* The head of an answer in the new protocol, and in the old.
V2HeadOf(m) == <<Response, Logic, CompressFlag(m), m.code % CodeWrap>>
                 \o <<Len(m.type), Len(Body(m))>>
V1HeadOf(m) == <<CompressFlag(m)>> \o <<Len(m.type), Len(Body(m))>>

\* An answer is its head, its type and its body.
LEMMA AnswerIs ==
    ASSUME NEW m \in Sayable
    PROVE  /\ EncodeBinaryResponseFrame(TRUE, m) = (V2HeadOf(m) \o m.type) \o Body(m)
           /\ EncodeBinaryResponseFrame(FALSE, m) = (V1HeadOf(m) \o m.type) \o Body(m)
           /\ m.type \in Stream /\ Len(m.type) \in Nat
<1>1. m.type \in Stream /\ Len(m.type) \in Nat /\ Len(m.type) < SizeWrap
  BY LenProperties DEF Sayable, Stream
<1>2. Len(m.type) % SizeWrap = Len(m.type)
  <2>1. \A n \in Nat : n < SizeWrap => n % SizeWrap = n
    BY FramesAssumption
  <2> QED BY <1>1, <2>1
<1> DEFINE sizes == <<Len(m.type) % SizeWrap, Len(Body(m))>>
<1>3. sizes = <<Len(m.type), Len(Body(m))>>
  BY <1>2
<1>4. EncodeBinaryResponseFrame(TRUE, m)
        = ((<<Response, Logic, CompressFlag(m), m.code % CodeWrap>> \o sizes) \o m.type) \o Body(m)
  BY Zenon DEF EncodeBinaryResponseFrame
<1>5. EncodeBinaryResponseFrame(FALSE, m) = ((<<CompressFlag(m)>> \o sizes) \o m.type) \o Body(m)
  BY Zenon DEF EncodeBinaryResponseFrame
<1> HIDE DEF sizes
<1> QED BY <1>1, <1>3, <1>4, <1>5, Zenon DEF V2HeadOf, V1HeadOf

\* What the elements of the two heads are.
LEMMA HeadsAre ==
    ASSUME NEW m \in Sayable
    PROVE  /\ V2HeadOf(m) \in Stream /\ Len(V2HeadOf(m)) = V2Head
           /\ V2HeadOf(m)[1] = Response /\ V2HeadOf(m)[2] = Logic
           /\ V2HeadOf(m)[3] = CompressFlag(m) /\ V2HeadOf(m)[4] = m.code % CodeWrap
           /\ V2HeadOf(m)[5] = Len(m.type) /\ V2HeadOf(m)[6] = Len(Body(m))
           /\ V1HeadOf(m) \in Stream /\ Len(V1HeadOf(m)) = V1Head
           /\ V1HeadOf(m)[1] = CompressFlag(m)
           /\ V1HeadOf(m)[2] = Len(m.type) /\ V1HeadOf(m)[3] = Len(Body(m))
<1>1. m.code % CodeWrap \in Int
  <2>1. m.code \in Int /\ 0 - (CodeWrap \div 2) <= m.code /\ m.code < CodeWrap \div 2
    BY DEF Sayable
  <2> QED BY <2>1, CodeKept
<1>2. CompressFlag(m) \in Int /\ Len(m.type) \in Int /\ Len(Body(m)) \in Int
  BY BodyKept, AnswerIs
<1>3. ASSUME NEW a \in Int, NEW b \in Int, NEW c \in Int, NEW d \in Int, NEW x \in Int, NEW y \in Int
      PROVE  LET h == <<a, b, c, d>> \o <<x, y>> IN
             /\ h \in Stream /\ Len(h) = 6 /\ h[1] = a /\ h[2] = b /\ h[3] = c /\ h[4] = d
             /\ h[5] = x /\ h[6] = y
  <2>1. /\ <<a, b, c, d>> \in Seq(Int) /\ Len(<<a, b, c, d>>) = 4
        /\ <<a, b, c, d>>[1] = a /\ <<a, b, c, d>>[2] = b
        /\ <<a, b, c, d>>[3] = c /\ <<a, b, c, d>>[4] = d
        /\ <<x, y>> \in Seq(Int) /\ Len(<<x, y>>) = 2 /\ <<x, y>>[1] = x /\ <<x, y>>[2] = y
    OBVIOUS
  <2> QED BY <2>1, ConcatProperties DEF Stream
<1>4. ASSUME NEW a \in Int, NEW x \in Int, NEW y \in Int
      PROVE  LET h == <<a>> \o <<x, y>> IN
             h \in Stream /\ Len(h) = 3 /\ h[1] = a /\ h[2] = x /\ h[3] = y
  <2>1. /\ <<a>> \in Seq(Int) /\ Len(<<a>>) = 1 /\ <<a>>[1] = a
        /\ <<x, y>> \in Seq(Int) /\ Len(<<x, y>>) = 2 /\ <<x, y>>[1] = x /\ <<x, y>>[2] = y
    OBVIOUS
  <2> QED BY <2>1, ConcatProperties DEF Stream
<1>5. Response \in Int /\ Logic \in Int
  BY DEF Response, Logic
<1> QED BY <1>1, <1>2, <1>3, <1>4, <1>5 DEF V2HeadOf, V1HeadOf, V2Head, V1Head

\* A whole logic frame of the new protocol decodes to what was meant.
LEMMA V2Decoded ==
    ASSUME NEW m \in Sayable, NEW f, NEW rest, NEW more \in Stream,
           Parted(f, V2HeadOf(m), m.type, Body(m), more)
    PROVE  DecodeServerFrame(f, rest) = Got(Seen(Logic, m.type, m.reply, m.code), rest)
<1> DEFINE h == V2HeadOf(m)
           b == Body(m)
           z == CompressFlag(m)
<1>1. /\ Len(h) = 6 /\ h[1] = Response /\ h[2] = Logic /\ h[3] = z
      /\ h[4] = m.code % CodeWrap /\ h[5] = Len(m.type) /\ h[6] = Len(b)
  BY HeadsAre DEF V2Head
<1>2. Len(m.type) \in Nat /\ Len(b) \in Nat
  BY AnswerIs, BodyKept
<1>3. m.code \in Int /\ Signed(m.code % CodeWrap) = m.code
  <2>1. m.code \in Int /\ 0 - (CodeWrap \div 2) <= m.code /\ m.code < CodeWrap \div 2
    BY DEF Sayable
  <2> QED BY <2>1, CodeKept
<1>4. DecodeLogicBody(m.type, b, z, m.code) = Seen(Logic, m.type, m.reply, m.code)
  BY <1>3, BodyKept
<1>5. /\ Len(f) = Len(h) + Len(m.type) + Len(b) /\ \A i \in 1..Len(h) : f[i] = h[i]
      /\ Take(f, Len(h), Len(m.type)) = m.type /\ Take(f, Len(h) + Len(m.type), Len(b)) = b
  BY DEF Parted
<1> HIDE DEF h, b, z
<1>6. /\ f[1] = Response /\ f[2] = Logic /\ f[3] = z
      /\ f[4] = m.code % CodeWrap /\ f[5] = Len(m.type) /\ f[6] = Len(b)
  <2>1. \A i \in 1..6 : f[i] = h[i]
    BY <1>1, <1>5
  <2>2. /\ f[1] = h[1] /\ f[2] = h[2] /\ f[3] = h[3]
        /\ f[4] = h[4] /\ f[5] = h[5] /\ f[6] = h[6]
    BY <2>1
  <2> QED
    BY <1>1, <2>2
<1>7. /\ Len(f) > 0 /\ ~(Len(f) < 2) /\ f[2] \in {Heartbeat, Logic, ReplaceLogin}
      /\ ~(Len(f) < V2Head \/ Len(f) < V2Head + f[5] + f[6])
      /\ Take(f, V2Head, f[5]) = m.type /\ Take(f, V2Head + f[5], f[6]) = b
  <2>1. Len(f) = 6 + Len(m.type) + Len(b)
    BY <1>1, <1>5
  <2>2. f[2] \in {Heartbeat, Logic, ReplaceLogin}
    BY <1>6
  <2>3. ~(Len(f) < V2Head \/ Len(f) < V2Head + f[5] + f[6])
    BY <1>2, <1>6, <2>1 DEF V2Head
  <2>4. Take(f, V2Head, f[5]) = m.type /\ Take(f, V2Head + f[5], f[6]) = b
    BY <1>1, <1>5, <1>6 DEF V2Head
  <2> QED
    BY <1>2, <2>1, <2>2, <2>3, <2>4
<1>8. DecodeServerFrame(f, rest)
        = Got(DecodeLogicBody(Take(f, V2Head, f[5]), Take(f, V2Head + f[5], f[6]),
                              f[3], Signed(f[4])), rest)
  BY <1>6, <1>7 DEF DecodeServerFrame
<1> QED BY <1>3, <1>4, <1>6, <1>7, <1>8

\* The answer read first from a TCP stream in the new protocol is the one
\* written first, and what is left is what was written behind it.
THEOREM AnswerRead ==
    ASSUME NEW m \in Sayable, NEW rest \in Stream
    PROVE  ReadServerFrame(EncodeResponse(TRUE, m) \o rest) = Got(Meant(TRUE, m), rest)
<1> DEFINE f == EncodeResponse(TRUE, m)
           s == f \o rest
<1>0. m.kind \in {Logic, Heartbeat, ReplaceLogin}
  BY DEF Sayable
<1>1. CASE m.kind # Logic
  <2>1. f = <<Response, m.kind>> /\ m.kind \in {Heartbeat, ReplaceLogin}
    BY <1>0, <1>1 DEF EncodeResponse, HeartbeatResponseFrame, ReplaceLoginNotifyFrame,
                      Logic, Heartbeat, ReplaceLogin
  <2>2. f \in Stream /\ Len(f) = 2 /\ f[1] = Response /\ f[2] = m.kind
    <3>1. ASSUME NEW k \in Int
          PROVE  /\ <<Response, k>> \in Stream /\ Len(<<Response, k>>) = 2
                 /\ <<Response, k>>[1] = Response /\ <<Response, k>>[2] = k
      BY DEF Stream, Response
    <3>2. m.kind \in Int
      BY <2>1 DEF Heartbeat, ReplaceLogin
    <3> QED BY <2>1, <3>1, <3>2
  <2> HIDE DEF f
  <2>3. /\ Len(rest) \in Nat /\ Len(s) = Len(f) + Len(rest)
        /\ \A i \in 1..Len(f) : s[i] = f[i]
    BY <2>2, Cat
  <2>4. Drop(s, Len(f)) = rest
    BY <2>2, DropPrefix
  <2> HIDE DEF s
  <2>5. Len(s) > 0 /\ ~(Len(s) < 2) /\ s[1] = Response /\ s[2] = m.kind /\ Drop(s, 2) = rest
    BY <2>2, <2>3, <2>4
  <2>6. ReadServerFrame(s) = Got(Signal(m.kind), rest)
    BY <2>1, <2>5 DEF ReadServerFrame
  <2> QED BY <1>1, <2>6 DEF s, f, Meant
<1>2. CASE m.kind = Logic
  <2> DEFINE h == V2HeadOf(m)
             b == Body(m)
  <2>1. f = (h \o m.type) \o b
    <3>1. f = EncodeBinaryResponseFrame(TRUE, m)
      BY <1>2 DEF EncodeResponse, Logic, Heartbeat, ReplaceLogin
    <3> QED BY <3>1, AnswerIs
  <2>2. /\ h \in Stream /\ Len(h) = 6 /\ h[1] = Response /\ h[2] = Logic
        /\ h[5] = Len(m.type) /\ h[6] = Len(b)
    BY HeadsAre DEF V2Head
  <2>3. Len(m.type) \in Nat /\ Len(b) \in Nat /\ m.type \in Stream /\ b \in Stream
    BY AnswerIs, BodyKept
  <2> HIDE DEF f, h, b
  <2>4. Parted(f, h, m.type, b, rest)
    BY <2>1, <2>2, <2>3, FrameParts
  <2>5. /\ Len(f) = Len(h) + Len(m.type) + Len(b) /\ Len(s) >= Len(f)
        /\ \A i \in 1..Len(h) : s[i] = h[i]
        /\ Take(s, 0, Len(f)) = f /\ Drop(s, Len(f)) = rest
        /\ Len(s) \in Nat
    <3>1. \A t \in Stream : Len(t) \in Nat
      BY LenProperties DEF Stream
    <3> QED BY <2>4, <3>1 DEF Parted
  <2>6. DecodeServerFrame(f, rest) = Got(Seen(Logic, m.type, m.reply, m.code), rest)
    BY <2>4, V2Decoded DEF h, b
  <2> HIDE DEF s
  <2>7. /\ Len(s) > 0 /\ ~(Len(s) < 2) /\ s[1] = Response /\ s[2] = Logic
        /\ s[2] \notin {Heartbeat, ReplaceLogin}
        /\ V2Head + s[5] + s[6] = Len(f) /\ ~(Len(s) < V2Head \/ Len(s) < V2Head + s[5] + s[6])
    <3>1. /\ s[1] = h[1] /\ s[2] = h[2] /\ s[5] = h[5] /\ s[6] = h[6]
      BY <2>2, <2>5
    <3>2. V2Head + s[5] + s[6] = Len(f) /\ Len(f) >= 6
      BY <2>2, <2>3, <2>5, <3>1 DEF V2Head
    <3> QED BY <2>2, <2>5, <3>1, <3>2 DEF V2Head, Logic, Heartbeat, ReplaceLogin
  <2>8. ReadServerFrame(s) = DecodeServerFrame(Take(s, 0, V2Head + s[5] + s[6]),
                                               Drop(s, V2Head + s[5] + s[6]))
    BY <2>7 DEF ReadServerFrame
  <2>9. ReadServerFrame(s) = Got(Seen(Logic, m.type, m.reply, m.code), rest)
    BY <2>5, <2>6, <2>7, <2>8
  <2> QED BY <1>2, <2>9 DEF s, f, Meant
<1> QED BY <1>1, <1>2

\* A whole logic frame of the old protocol gives what was meant, but no code.
LEMMA V1Decoded ==
    ASSUME NEW m \in Sayable, NEW f, NEW rest, NEW more \in Stream,
           Parted(f, V1HeadOf(m), m.type, Body(m), more)
    PROVE  /\ DecodeV1Logic(f, rest) = Got(Seen(Logic, m.type, m.reply, 0), rest)
           /\ Len(f) \in Nat /\ Len(f) >= V1Head /\ f[1] = CompressFlag(m)
<1> DEFINE h == V1HeadOf(m)
           b == Body(m)
           z == CompressFlag(m)
<1>1. Len(h) = 3 /\ h[1] = z /\ h[2] = Len(m.type) /\ h[3] = Len(b)
  BY HeadsAre DEF V1Head
<1>2. Len(m.type) \in Nat /\ Len(b) \in Nat
  BY AnswerIs, BodyKept
<1>3. DecodeLogicBody(m.type, b, z, 0) = Seen(Logic, m.type, m.reply, 0)
  BY BodyKept
<1>4. /\ Len(f) \in Nat /\ Len(f) = Len(h) + Len(m.type) + Len(b)
      /\ \A i \in 1..Len(h) : f[i] = h[i]
      /\ Take(f, Len(h), Len(m.type)) = m.type /\ Take(f, Len(h) + Len(m.type), Len(b)) = b
  BY DEF Parted
<1> HIDE DEF h, b
<1>5. f[1] = z /\ f[2] = Len(m.type) /\ f[3] = Len(b)
  BY <1>1, <1>4
<1>6. /\ ~(Len(f) < V1Head \/ Len(f) < V1Head + f[2] + f[3])
      /\ Take(f, V1Head, f[2]) = m.type /\ Take(f, V1Head + f[2], f[3]) = b
  BY <1>1, <1>2, <1>4, <1>5 DEF V1Head
<1>7. DecodeV1Logic(f, rest) = Got(DecodeLogicBody(m.type, b, z, 0), rest)
  BY <1>5, <1>6 DEF DecodeV1Logic
<1> QED BY <1>1, <1>2, <1>3, <1>4, <1>5, <1>7 DEF V1Head

\* An answer cut out whole is the answer that was sent, in either protocol.
LEMMA AnswerDecoded ==
    ASSUME NEW m \in Sayable, NEW rest \in Stream, NEW v2 \in BOOLEAN
    PROVE  /\ DecodeServerFrame(EncodeResponse(v2, m), rest) = Got(Meant(v2, m), rest)
           /\ EncodeResponse(v2, m) \in Stream /\ Len(EncodeResponse(v2, m)) > 0
<1> DEFINE f == EncodeResponse(v2, m)
<1>0. m.kind \in {Logic, Heartbeat, ReplaceLogin} /\ CompressFlag(m) \in {0, 1}
  BY BodyKept DEF Sayable
<1>1. CASE m.kind # Logic
  <2>1. m.kind \in {Heartbeat, ReplaceLogin} /\ m.kind \in Int
    BY <1>0, <1>1 DEF Heartbeat, ReplaceLogin
  <2>2. f = IF v2 THEN <<Response, m.kind>> ELSE <<m.kind>>
    BY <2>1 DEF EncodeResponse, HeartbeatResponseFrame, ReplaceLoginNotifyFrame,
                Heartbeat, ReplaceLogin
  <2>3. ASSUME NEW k \in Int
        PROVE  /\ <<Response, k>> \in Stream /\ Len(<<Response, k>>) = 2
               /\ <<Response, k>>[1] = Response /\ <<Response, k>>[2] = k
               /\ <<k>> \in Stream /\ Len(<<k>>) = 1 /\ <<k>>[1] = k
    BY DEF Stream, Response
  <2>4. /\ f \in Stream
        /\ IF v2 THEN Len(f) = 2 /\ f[1] = Response /\ f[2] = m.kind
           ELSE Len(f) = 1 /\ f[1] = m.kind
    BY <2>1, <2>2, <2>3
  <2> HIDE DEF f
  <2>5. Logic # Response /\ Heartbeat # Response /\ ReplaceLogin # Response
    BY DEF Logic, Response, Heartbeat, ReplaceLogin
  <2>6. DecodeServerFrame(f, rest) = Got(Signal(m.kind), rest)
    BY <1>1, <2>1, <2>4, <2>5 DEF DecodeServerFrame
  <2> QED BY <1>1, <2>4, <2>6 DEF f, Meant
<1>2. CASE m.kind = Logic
  <2> DEFINE h == IF v2 THEN V2HeadOf(m) ELSE V1HeadOf(m)
  <2>1. f = EncodeBinaryResponseFrame(v2, m)
    BY <1>2 DEF EncodeResponse, Logic, Heartbeat, ReplaceLogin
  <2>2. f = (h \o m.type) \o Body(m)
    BY <2>1, AnswerIs
  <2>3. h \in Stream /\ Len(h) >= 3 /\ m.type \in Stream /\ Body(m) \in Stream
    <3>1. V2HeadOf(m) \in Stream /\ Len(V2HeadOf(m)) = 6 /\ V1HeadOf(m) \in Stream /\ Len(V1HeadOf(m)) = 3
      BY HeadsAre DEF V1Head, V2Head
    <3>2. m.type \in Stream /\ Body(m) \in Stream
      BY AnswerIs, BodyKept
    <3>3. h = V2HeadOf(m) \/ h = V1HeadOf(m)
      OBVIOUS
    <3> HIDE DEF h
    <3>4. h \in Stream /\ (Len(h) = 6 \/ Len(h) = 3)
      BY <3>1, <3>3, Zenon
    <3>5. Len(h) >= 3
      BY <3>4
    <3> QED BY <3>2, <3>4, <3>5
  <2>4. <<>> \in Stream
    BY DEF Stream
  <2> HIDE DEF f, h
  <2>5. Parted(f, h, m.type, Body(m), <<>>)
    BY <2>2, <2>3, <2>4, FrameParts
  <2>6. f \in Stream /\ Len(f) > 0
    <3>1. f \in Stream /\ Len(f) = Len(h) + Len(m.type) + Len(Body(m))
      BY <2>5 DEF Parted
    <3>2. Len(m.type) \in Nat /\ Len(Body(m)) \in Nat /\ Len(h) \in Nat
      BY <2>3, AnswerIs, BodyKept, LenProperties DEF Stream
    <3> QED BY <2>3, <3>1, <3>2
  <2>7. CASE v2
    <3>1. Parted(f, V2HeadOf(m), m.type, Body(m), <<>>)
      BY <2>5, <2>7 DEF h
    <3>2. DecodeServerFrame(f, rest) = Got(Seen(Logic, m.type, m.reply, m.code), rest)
      BY <2>4, <3>1, V2Decoded
    <3> QED BY <1>2, <2>6, <2>7, <3>2 DEF f, Meant
  <2>8. CASE ~v2
    <3>1. Parted(f, V1HeadOf(m), m.type, Body(m), <<>>)
      BY <2>5, <2>8 DEF h
    <3>2. /\ DecodeV1Logic(f, rest) = Got(Seen(Logic, m.type, m.reply, 0), rest)
          /\ Len(f) \in Nat /\ Len(f) >= 3 /\ f[1] = CompressFlag(m)
      BY <2>4, <3>1, V1Decoded DEF V1Head
    <3>3. /\ Len(f) # 0 /\ Len(f) # 1
          /\ f[1] # Response /\ f[1] # ReplaceLogin /\ f[1] # Request
      <4>1. f[1] = 0 \/ f[1] = 1
        BY <1>0, <3>2
      <4>2. Len(f) # 0 /\ Len(f) # 1
        <5>1. \A k \in Nat : k >= 3 => k # 0 /\ k # 1
          OBVIOUS
        <5> QED BY <3>2, <5>1, Zenon
      <4>3. f[1] # Response /\ f[1] # ReplaceLogin /\ f[1] # Request
        BY <4>1 DEF Response, ReplaceLogin, Request
      <4> QED BY <4>2, <4>3
    <3>4. DecodeServerFrame(f, rest) = DecodeV1Logic(f, rest)
      BY <3>3 DEF DecodeServerFrame
    <3> QED BY <1>2, <2>6, <2>8, <3>2, <3>4 DEF f, Meant
  <2> QED BY <2>7, <2>8
<1> QED BY <1>1, <1>2

\* Over KCP the answer read first is the one written first, in either
\* protocol, sealed or plain, compressed or not, if it is within the limit.
THEOREM AnswerReadOverKCP ==
    ASSUME NEW m \in Sayable, NEW rest \in Stream, NEW v2 \in BOOLEAN, NEW key \in Int,
           Len(Seal(key, EncodeResponse(v2, m))) <= MaxFrame
    PROVE  ReadKCPAnswer(key, WriteKCPFrame(key, EncodeResponse(v2, m)) \o rest)
             = Got(Meant(v2, m), rest)
<1> DEFINE f == EncodeResponse(v2, m)
           s == WriteKCPFrame(key, f) \o rest
<1>1. DecodeServerFrame(f, rest) = Got(Meant(v2, m), rest) /\ f \in Stream /\ Len(f) > 0
  BY AnswerDecoded
<1>2. ReadKCPFrame(key, s) = Got(f, rest)
  BY <1>1, PayloadRead
<1> HIDE DEF f, s
<1>3. ReadKCPAnswer(key, s) = DecodeServerFrame(f, rest)
  BY <1>2 DEF ReadKCPAnswer, Got
<1> QED BY <1>1, <1>3 DEF f, s

\* The old protocol over TCP gives the answer too, when it is not compressed:
\* the flag of one that is would be taken for a heartbeat.
THEOREM OldAnswerRead ==
    ASSUME NEW m \in Sayable, NEW rest \in Stream, m.kind = Logic => ~Compresses(m)
    PROVE  ReadServerFrame(EncodeResponse(FALSE, m) \o rest) = Got(Meant(FALSE, m), rest)
<1> DEFINE f == EncodeResponse(FALSE, m)
           s == f \o rest
<1>0. m.kind \in {Logic, Heartbeat, ReplaceLogin}
  BY DEF Sayable
<1>1. CASE m.kind # Logic
  <2>1. m.kind \in {Heartbeat, ReplaceLogin} /\ m.kind \in Int
    BY <1>0, <1>1 DEF Heartbeat, ReplaceLogin
  <2>a. f = <<m.kind>>
    BY <2>1 DEF EncodeResponse, HeartbeatResponseFrame, ReplaceLoginNotifyFrame,
                Heartbeat, ReplaceLogin
  <2>2. f \in Stream /\ Len(f) = 1 /\ f[1] = m.kind
    <3>1. ASSUME NEW k \in Int
          PROVE  <<k>> \in Stream /\ Len(<<k>>) = 1 /\ <<k>>[1] = k
      BY DEF Stream
    <3> QED BY <2>1, <2>a, <3>1
  <2> HIDE DEF f
  <2>3. /\ Len(rest) \in Nat /\ Len(s) = Len(f) + Len(rest)
        /\ \A i \in 1..Len(f) : s[i] = f[i]
    BY <2>2, Cat
  <2>4. Drop(s, Len(f)) = rest
    BY <2>2, DropPrefix
  <2> HIDE DEF s
  <2>5. Len(s) # 0 /\ s[1] = m.kind /\ m.kind # Response /\ Drop(s, 1) = rest
    BY <2>1, <2>2, <2>3, <2>4 DEF Response, Heartbeat, ReplaceLogin
  <2>6. ReadServerFrame(s) = Got(Signal(m.kind), rest)
    BY <2>1, <2>5 DEF ReadServerFrame
  <2> QED BY <1>1, <2>6 DEF s, f, Meant
<1>2. CASE m.kind = Logic
  <2> DEFINE h == V1HeadOf(m)
             b == Body(m)
  <2>1. f = (h \o m.type) \o b
    <3>1. f = EncodeBinaryResponseFrame(FALSE, m)
      BY <1>2 DEF EncodeResponse, Logic, Heartbeat, ReplaceLogin
    <3> QED BY <3>1, AnswerIs
  <2>2. /\ h \in Stream /\ Len(h) = 3 /\ h[1] = 0 /\ h[2] = Len(m.type) /\ h[3] = Len(b)
    BY <1>2, HeadsAre DEF V1Head, CompressFlag
  <2>3. Len(m.type) \in Nat /\ Len(b) \in Nat /\ m.type \in Stream /\ b \in Stream
    BY AnswerIs, BodyKept
  <2> HIDE DEF f, h, b
  <2>4. Parted(f, h, m.type, b, rest)
    BY <2>1, <2>2, <2>3, FrameParts
  <2>5. /\ Len(f) = Len(h) + Len(m.type) + Len(b) /\ Len(s) >= Len(f)
        /\ \A i \in 1..Len(h) : s[i] = h[i]
        /\ Take(s, 0, Len(f)) = f /\ Drop(s, Len(f)) = rest
        /\ Len(s) \in Nat
    <3>1. \A t \in Stream : Len(t) \in Nat
      BY LenProperties DEF Stream
    <3> QED BY <2>4, <3>1 DEF Parted
  <2>6. DecodeV1Logic(f, rest) = Got(Seen(Logic, m.type, m.reply, 0), rest)
    BY <2>4, V1Decoded DEF h, b
  <2> HIDE DEF s
  <2>7. /\ Len(s) # 0 /\ s[1] # Response /\ s[1] \notin {Heartbeat, ReplaceLogin}
        /\ V1Head + s[2] + s[3] = Len(f) /\ ~(Len(s) < V1Head \/ Len(s) < V1Head + s[2] + s[3])
    <3>1. s[1] = h[1] /\ s[2] = h[2] /\ s[3] = h[3]
      BY <2>2, <2>5
    <3>2. V1Head + s[2] + s[3] = Len(f) /\ Len(f) >= 3
      BY <2>2, <2>3, <2>5, <3>1 DEF V1Head
    <3> QED BY <2>2, <2>5, <3>1, <3>2 DEF V1Head, Response, Heartbeat, ReplaceLogin
  <2>8. ReadServerFrame(s) = DecodeV1Logic(Take(s, 0, V1Head + s[2] + s[3]),
                                           Drop(s, V1Head + s[2] + s[3]))
    BY <2>7 DEF ReadServerFrame
  <2>9. ReadServerFrame(s) = Got(Seen(Logic, m.type, m.reply, 0), rest)
    BY <2>5, <2>6, <2>7, <2>8
  <2> QED BY <1>2, <2>9 DEF s, f, Meant
<1> QED BY <1>1, <1>2
=============================================================================
