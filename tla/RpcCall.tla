------------------------------ MODULE RpcCall -------------------------------
(***************************************************************************)
(* The calling side of one service module in one process: how a call is    *)
(* admitted, routed to the in-process dispatcher or to a remote node       *)
(* (rpcserver.go Send..., sendMessage), how the node is chosen for a user  *)
(* (plugins.go CustomSelector), and how the slot taken from the method's   *)
(* policy comes back.  The policy itself is MethodPolicy; here it is a     *)
(* number of slots.                                                        *)
(*                                                                         *)
(* Discovery is outside: each update the selector gets lists any later     *)
(* stage of each node.  An address appears, is paused and goes once: no     *)
(* node comes back under an address it had, and any node may be dead.       *)
(***************************************************************************)
EXTENDS Naturals, FiniteSets

CONSTANTS Node,        \* addresses of the module's nodes
          User,
          Call,        \* goroutines of this process that make calls
          Uses,        \* the functions each calls, out of Sends
          Slots,       \* MaxConcurrency of the called method
          Discovery,   \* FALSE: WithoutConsul, the client never starts
          InProcess,   \* WithInProcessDispatch, the module is served here too
          PushGate,    \* Gate.Push: tell the gateway which node a user got
          MaxUploads,  \* bound: more at a time are lost
          None

\* The functions that make a call: whose context it carries, whether it looks
\* at the in-process dispatcher, who waits for the answer and what bounds it.
sendMessage == [by |-> "request", ctx |-> "conn", local |-> TRUE, answer |-> "timed"]
SendRPCMessage == [by |-> "service", ctx |-> "user", local |-> TRUE, answer |-> "timed"]
SendAsyncRPCMessage == [by |-> "service", ctx |-> "user", local |-> FALSE, answer |-> "owner"]
SendNoReplyRPCMessage == [by |-> "service", ctx |-> "user", local |-> TRUE, answer |-> "none"]
SendNoReplyRPCMessageByAddress ==
    [by |-> "service", ctx |-> "node", local |-> TRUE, answer |-> "none"]
SendRPCMessageByStr == [by |-> "service", ctx |-> "conn", local |-> FALSE, answer |-> "timed"]
BorderRPCMessage == [by |-> "service", ctx |-> "all", local |-> FALSE, answer |-> "timed"]
NewBindRPCContext == [SendRPCMessage EXCEPT !.ctx = "bind"]

Sends == {sendMessage, SendRPCMessage, SendAsyncRPCMessage, SendNoReplyRPCMessage,
          SendNoReplyRPCMessageByAddress, SendRPCMessageByStr, BorderRPCMessage,
          NewBindRPCContext}

ASSUME RpcCallAssumption ==
    /\ IsFiniteSet(Call) /\ Slots \in Nat \ {0} /\ MaxUploads \in Nat
    /\ {Discovery, InProcess, PushGate} \subseteq BOOLEAN
    /\ Uses \in [Call -> SUBSET Sends]
    /\ None \notin Node

VARIABLES
    known,      \* CustomSelector.servers: "active" or "paused"; a node that is
                \* not in it is "new" or "gone"
    ring,       \* CustomSelector.h
    pick,       \* the node h gives for a user, fixed while the ring is
    refresh,    \* UpdateServer between its two loops
    meta,       \* Redis RedisKeyUserNodeMeta: the node of a user
    cache,      \* CustomSelector.cacheManager
    conn,       \* the node in the context of the user's connection
    uploads,    \* UploadUserNodeInfo calls on their way to the gateway
    client,     \* rpcClient: "none", "ready", "registered" (with this module)
    localUp,    \* localDispatchEnabled and the module in localDispatcher
    call, slots,
    home        \* the node the last selection of a user gave, "any" once one of
                \* them raced a change of discovery, or the user was moved

discoveryVars == <<known, ring, pick, refresh>>
bindingVars == <<meta, cache, conn, uploads>>
clientVars == <<client, localUp>>
callVars == <<call, slots>>
vars == <<discoveryVars, bindingVars, clientVars, callVars, home>>

-----------------------------------------------------------------------------
(* Calls *)

NoRefresh == [busy |-> FALSE, dropped |-> {}, new |-> FALSE]


Selecting == {"select", "loop", "read", "decide", "bind"}
Holding == Selecting \cup {"admitted", "go", "local", "wait"}

NoCall == [send |-> sendMessage, user |-> None, at |-> "idle", todo |-> {},
           uid |-> None, sel |-> None, seen |-> {}, answered |-> FALSE]

At(c) == call[c].at
MaySelect(c, u) == At(c) \in Selecting /\ (u \in call[c].todo \/ u = call[c].user)

KnownNodes == {n \in Node : known[n] \in {"active", "paused"}}
AliveIfNamed(n) == n # None

\* checkServerAlive
Alive(n) == n # None /\ n \in KnownNodes

Init ==
    /\ known = [n \in Node |-> "new"]
    /\ ring = {} /\ pick = [u \in User |-> None]
    /\ refresh = NoRefresh
    /\ meta = [u \in User |-> None] /\ cache = meta /\ conn = meta
    /\ uploads = {}
    /\ client = "none" /\ localUp = FALSE
    /\ call = [c \in Call |-> NoCall]
    /\ slots = 0
    /\ home = meta

-----------------------------------------------------------------------------
(* Discovery and the selector's view of it *)

\* a node appears, is paused by its operator, and goes: the later stages
Later(stage) == CASE stage = "new" -> {"new", "active", "paused"}
                  [] stage = "active" -> {"active", "paused", "gone"}
                  [] stage = "paused" -> {"paused", "gone"}
                  [] OTHER -> {"gone"}
Listings == {list \in [Node -> {"new", "active", "paused", "gone"}] :
                \A n \in Node : list[n] \in Later(known[n])}
Present(list) == {n \in Node : list[n] \in {"active", "paused"}}

\* Hash.Get gives one node of the ring for a key until the ring changes
Rehash(r) ==
    /\ ring' = r
    /\ pick' \in {f \in [User -> r \cup {None}] :
                    /\ \A u \in User : f[u] = None <=> r = {}
                    /\ r = ring => f = pick}

\* a selection in progress sees another ring or another list of servers
Unsettle == home' = [u \in User |-> IF \E c \in Call : MaySelect(c, u) THEN "any" ELSE home[u]]

\* UpdateServer, first loop: every listed node enters ring and servers
UpdateAdds ==
    /\ client = "registered" /\ ~refresh.busy
    /\ \E list \in Listings \ {known} :
          /\ refresh' = [busy |-> TRUE, dropped |-> KnownNodes \ Present(list),
                         new |-> ~(Present(list) \subseteq KnownNodes)]
          /\ known' = [n \in Node |-> IF n \in Present(list) THEN list[n] ELSE known[n]]
          /\ Rehash(ring \cup Present(list))
          /\ call' = [c \in Call |-> IF At(c) \in Selecting
                       THEN [call[c] EXCEPT !.seen = @ \cup Present(list)] ELSE call[c]]
    /\ Unsettle
    /\ UNCHANGED <<bindingVars, clientVars, slots>>

\* second loop: what the listing dropped leaves both, what is paused the ring;
\* a node that came or went clears the users' cache (clearAllUserCache)
UpdateSweeps ==
    /\ refresh.busy
    /\ LET dropped == refresh.dropped
       IN /\ known' = [n \in Node |-> IF n \in dropped THEN "gone" ELSE known[n]]
          /\ Rehash({n \in ring \ dropped : known[n] # "paused"})
          /\ cache' = IF refresh.new \/ dropped # {} THEN [u \in User |-> None] ELSE cache
    /\ refresh' = NoRefresh
    /\ Unsettle
    /\ UNCHANGED <<meta, conn, uploads, clientVars, callVars>>

-----------------------------------------------------------------------------
(* The client *)

\* registerClient: a new selector, given the current listing before it is used
RegisterClient ==
    /\ client' = "registered"
    /\ known' \in {list \in Listings : Present(list) # {}}
    /\ Rehash({n \in Node : known'[n] = "active"})

\* getRPCClient: startup, retried by every call until it succeeds, registers
\* what Consul lists already
Startup ==
    /\ Discovery /\ client = "none"
    /\ RegisterClient \/ (client' = "ready" /\ UNCHANGED <<known, ring, pick>>)
    /\ UNCHANGED <<refresh, bindingVars, localUp, callVars, home>>

\* watchBaseDiscovery finds a module that was not listed at startup
WatchRegisters ==
    /\ client = "ready"
    /\ RegisterClient
    /\ UNCHANGED <<refresh, bindingVars, localUp, callVars, home>>

\* registerLocalServices, at the end of Run
RegisterLocalServices ==
    /\ InProcess /\ ~localUp
    /\ localUp' = TRUE
    /\ UNCHANGED <<discoveryVars, bindingVars, client, callVars, home>>

-----------------------------------------------------------------------------
(* Admission and routing *)

ReleaseIfSent(c) ==
    /\ call' = [call EXCEPT ![c] = NoCall]
    /\ slots' = IF At(c) \in {"admitted", "select"} THEN slots ELSE slots - 1

\* release(err), for whatever reason the call ends
Release(c) ==
    /\ call' = [call EXCEPT ![c] = NoCall]
    /\ slots' = slots - 1

\* whom the context names: a bind context lists every user, one made for an
\* address or for all nodes none
Named(ctx, u) == CASE ctx = "bind" -> User
                   [] ctx \in {"node", "all"} -> {}
                   [] OTHER -> {u}

\* applyMethodPolicy admits while a slot is free (its other refusals are
\* MethodPolicy's); a refused call has changed nothing
TakeSlot == slots < Slots /\ slots' = slots + 1

Enter(c, send, u, p, addr) ==
    call' = [call EXCEPT ![c] = [NoCall EXCEPT !.send = send, !.user = u, !.sel = addr, !.at = p,
                                  !.todo = Named(send.ctx, u), !.seen = KnownNodes]]

\* sendMessage: a request from a user's connection, which has logged in, looks
\* for its way before it takes a slot
StartRequest(c, u) ==
    /\ At(c) = "idle" /\ sendMessage \in Uses[c]
    /\ TakeSlot
    /\ \/ localUp /\ Enter(c, sendMessage, u, "local", None)
       \/ ~localUp /\ client = "registered" /\ Enter(c, sendMessage, u, "select", None)
    /\ UNCHANGED <<discoveryVars, bindingVars, clientVars, home>>

\* the other functions take it first
Start(c, send, u, addr) ==
    /\ At(c) = "idle" /\ send \in Uses[c] \ {sendMessage}
    /\ addr # None <=> send.ctx = "node"
    /\ TakeSlot
    /\ Enter(c, send, u, "admitted", addr)
    /\ UNCHANGED <<discoveryVars, bindingVars, clientVars, home>>

Route(c) ==
    /\ At(c) = "admitted"
    /\ LET here == localUp /\ call[c].send.local
       IN \/ /\ here
             /\ call' = [call EXCEPT ![c].at = "local", ![c].seen = {}]
             /\ UNCHANGED slots
          \/ /\ ~here /\ client = "registered"
             /\ call' = [call EXCEPT ![c].at = "select", ![c].seen = KnownNodes]
             /\ UNCHANGED slots
          \/ ~here /\ client # "registered" /\ Release(c)
    /\ UNCHANGED <<discoveryVars, bindingVars, clientVars, home>>

\* localGateDispatch: the handler of a request returns, fails or panics
LocalRequestEnds(c) ==
    /\ At(c) = "local" /\ call[c].send = sendMessage
    /\ Release(c)
    /\ UNCHANGED <<discoveryVars, bindingVars, clientVars, home>>

\* dispatcherT.Call: so does that of a call, in the background if nobody waits
LocalCallEnds(c) ==
    /\ At(c) = "local" /\ call[c].send # sendMessage
    /\ Release(c)
    /\ UNCHANGED <<discoveryVars, bindingVars, clientVars, home>>

-----------------------------------------------------------------------------
(* CustomSelector.Select, called by xclient.Go and Oneshot *)

\* the share.Context is locked for the whole of Select
OnConn(c) == call[c].send.ctx = "conn"
CtxFree(c) == OnConn(c) =>
    \A d \in Call \ {c} : ~(/\ OnConn(d) /\ call[d].user = call[c].user
                            /\ At(d) \in Selecting \ {"select"})

Carried(c) == IF OnConn(c) THEN conn[call[c].user] ELSE call[c].sel

\* a random key: any node of the ring
AnyOf(r) == IF r = {} THEN {None} ELSE r

\* the node the context carries is tried first; a bind context, or one that
\* names no user, falls back on a random node
SelectCarried(c) ==
    /\ At(c) = "select" /\ CtxFree(c)
    /\ IF KnownNodes = {} THEN Release(c)
       ELSE /\ \E n \in IF ~Alive(Carried(c)) /\ call[c].send.ctx \in {"bind", "node"}
                        THEN AnyOf(ring) ELSE {Carried(c)} :
                 call' = [call EXCEPT ![c].sel = n,
                            ![c].at = IF call[c].todo = {} THEN "go" ELSE "loop"]
            /\ UNCHANGED slots
    /\ UNCHANGED <<discoveryVars, bindingVars, clientVars, home>>

\* the next user of the context has got its node
Decided(c, u, n) ==
    /\ call' = [call EXCEPT ![c].todo = @ \ {u}, ![c].sel = n, ![c].uid = None,
                            ![c].at = IF call[c].todo = {u} THEN "go" ELSE "loop"]
    /\ home' = [home EXCEPT ![u] =
                  IF @ = "any" \/ (call[c].send.ctx = "bind" /\ @ # n) THEN "any" ELSE n]

SaveNothing(u, n) == UNCHANGED <<meta, cache, uploads>>

\* processNode: the binding is stored and cached, and the gateway told
ProcessNode(u, n) ==
    /\ meta' = [meta EXCEPT ![u] = n]
    /\ cache' = [cache EXCEPT ![u] = n]
    /\ uploads' = IF PushGate /\ Cardinality(uploads) < MaxUploads
                  THEN uploads \cup {<<u, n>>} ELSE uploads

\* one turn of the loop: the node at hand, or the one in the local cache
SelectLocal(c, u) ==
    /\ At(c) = "loop" /\ u \in call[c].todo
    /\ \/ /\ Alive(call[c].sel)
          /\ IF call[c].send.ctx = "bind" THEN ProcessNode(u, call[c].sel)
             ELSE UNCHANGED <<meta, cache, uploads>>
          /\ Decided(c, u, call[c].sel)
       \/ /\ ~Alive(call[c].sel) /\ Alive(cache[u])
          /\ Decided(c, u, cache[u])
          /\ UNCHANGED <<meta, cache, uploads>>
       \/ /\ ~Alive(call[c].sel) /\ ~Alive(cache[u])
          /\ call' = [call EXCEPT ![c].uid = u, ![c].sel = None, ![c].at = "read"]
          /\ UNCHANGED <<meta, cache, uploads, home>>
    /\ UNCHANGED <<discoveryVars, conn, clientVars, slots>>

\* db.GetMap of the user's nodes
ReadMeta(c) ==
    /\ At(c) = "read"
    /\ call' = [call EXCEPT ![c].sel = meta[call[c].uid], ![c].at = "decide"]
    /\ UNCHANGED <<slots, discoveryVars, bindingVars, clientVars, home>>

\* a stored node that is alive is taken, otherwise the ring gives one, and the
\* context takes it.  The found node is not cached for the user: its entry is
\* set under the node's name (cacheManager.Set(uid, selected))
Decide(c) ==
    /\ At(c) = "decide"
    /\ LET u == call[c].uid  n == call[c].sel
       IN \/ Alive(n) /\ Decided(c, u, n) /\ UNCHANGED conn
          \/ /\ ~Alive(n)
             /\ call' = [call EXCEPT ![c].sel = pick[u], ![c].at = "bind"]
             /\ conn' = IF OnConn(c) THEN [conn EXCEPT ![u] = pick[u]] ELSE conn
             /\ UNCHANGED home
    /\ UNCHANGED <<slots, discoveryVars, meta, cache, uploads, clientVars>>

Bind(c) ==
    /\ At(c) = "bind"
    /\ ProcessNode(call[c].uid, call[c].sel)
    /\ Decided(c, call[c].uid, call[c].sel)
    /\ UNCHANGED <<slots, discoveryVars, conn, clientVars>>

\* another process that does not find the user's node alive binds the user anew
\* (at most once)
OtherBinds(u, n) ==
    /\ meta' = [meta EXCEPT ![u] = n]
    /\ home[u] # "any" /\ home' = [home EXCEPT ![u] = "any"]
    /\ UNCHANGED <<discoveryVars, cache, uploads, conn, clientVars, callVars>>

\* UploadUserNodeInfo arrives, if it does, in whatever order
UpdateUserNodeInfo(u, n) ==
    /\ <<u, n>> \in uploads
    /\ uploads' = uploads \ {<<u, n>>}
    /\ conn' = [conn EXCEPT ![u] = n]
    /\ UNCHANGED <<discoveryVars, meta, cache, clientVars, callVars, home>>

-----------------------------------------------------------------------------
(* The call itself *)

\* no node, or no connection to it: the error comes back at once.  A one-way
\* call is over when it is written
Go(c) ==
    /\ At(c) = "go"
    /\ \/ Release(c)
       \/ /\ call[c].send.answer # "none"
          /\ call[c].sel # None \/ call[c].send.ctx = "all"
          /\ call' = [call EXCEPT ![c] = [NoCall EXCEPT !.send = call[c].send, !.at = "wait"]]
          /\ UNCHANGED slots
    /\ UNCHANGED <<discoveryVars, bindingVars, clientVars, home>>

\* the node's answer or its connection's failure reaches call.Done (external)
Answered(c) ==
    /\ At(c) = "wait" /\ ~call[c].answered
    /\ call' = [call EXCEPT ![c].answered = TRUE]
    /\ UNCHANGED <<slots, discoveryVars, bindingVars, clientVars, home>>

\* the caller's select, or Call.Done of an asynchronous call
Return(c) ==
    /\ At(c) = "wait" /\ call[c].answered
    /\ Release(c)
    /\ UNCHANGED <<discoveryVars, bindingVars, clientVars, home>>

\* resolveRPCTimeout has passed (for a broadcast, the limit of rpcx itself);
\* an asynchronous call has none
Timeout(c) ==
    /\ At(c) = "wait" /\ call[c].send.answer = "timed"
    /\ Release(c)
    /\ UNCHANGED <<discoveryVars, bindingVars, clientVars, home>>

CallStep(c) ==
    \/ Route(c)
    \/ SelectCarried(c) \/ ReadMeta(c) \/ Decide(c) \/ Bind(c)
    \/ \E u \in User : SelectLocal(c, u)
    \/ Go(c)

Next ==
    \/ UpdateAdds \/ UpdateSweeps
    \/ Startup \/ WatchRegisters \/ RegisterLocalServices
    \/ \E c \in Call, u \in User :
        StartRequest(c, u) \/ \E send \in Sends, n \in Node \cup {None} : Start(c, send, u, n)
    \/ \E c \in Call : \/ CallStep(c) \/ LocalRequestEnds(c) \/ LocalCallEnds(c)
                        \/ Answered(c) \/ Return(c) \/ Timeout(c)
    \/ \E u \in User, n \in Node : OtherBinds(u, n) \/ UpdateUserNodeInfo(u, n)

Spec == Init /\ [][Next]_vars

-----------------------------------------------------------------------------

\* The shape of the state: what the selector of rpc/plugins.go and the calls in
\* progress (rpcserver.go) can hold.
TypeOK ==
    /\ known \in [Node -> {"new", "active", "paused", "gone"}]
    /\ ring \subseteq Node /\ pick \in [User -> Node \cup {None}]
    /\ {meta, cache, conn} \subseteq [User -> Node \cup {None}]
    /\ home \in [User -> Node \cup {None, "any"}]
    /\ uploads \subseteq User \X (Node \cup {None})
    /\ slots \in 0 .. Slots
    /\ \A c \in Call : call[c].send \in Sends /\ call[c].sel \in Node \cup {None}

\* A slot is taken exactly while an admitted call is between its admission and
\* its end: every way out of the Send functions, errors of the client, the
\* selector and the handler included, gives it back once (rpcserver.go).
SlotsBalance ==
    slots = Cardinality({c \in Call : At(c) \in Holding})

\* A call whose selection began after discovery had dropped a node is not sent
\* to it, whatever the connection's context, the local cache and Redis still
\* say (checkServerAlive in plugins.go Select).
RemovedIsAvoided ==
    \A c \in Call : At(c) = "go" /\ call[c].send.ctx # "all" =>
                       call[c].sel \in call[c].seen \cup {None}

\* A user's calls keep going to the node that served the last one while the
\* selector knows that node, from whichever context they come: once bound, a
\* user moves only when its node goes, a bind call moves it, or a selection
\* raced a change of discovery (plugins.go Select, processNode).
StaysPut ==
    [][\A u \in User : home[u] # None /\ home'[u] # "any" /\ home'[u] # home[u] =>
            ~Alive(home[u])]_vars
=============================================================================
