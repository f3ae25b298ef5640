---------------------------- MODULE ResumeWindow ----------------------------
(***************************************************************************)
(* The resume window of a gateway node (rpc/tcp.go): a session that ends   *)
(* by itself stays for a while in the table `detached', pushes to its user *)
(* are buffered there, and a login that presents the session's resume      *)
(* token gets them before anything else.                                   *)
(*                                                                         *)
(* One user on one node.  A session is named by its connection, and so is  *)
(* its token.  Logins hold the login lock of GateLogin, one at a time; a   *)
(* single caller pushes, so that pushes have an order: push i is number i. *)
(***************************************************************************)
EXTENDS Integers, Sequences

CONSTANTS
    Conn,         \* connections; each makes at most one login
    None,         \* no connection, no token
    MaxPush,      \* bound: pushes of the caller
    BufferLimit,  \* resumeBufferLimit
    QueueCap      \* capacity of writeChan

ASSUME ResumeAssumption ==
    /\ None \notin Conn
    /\ MaxPush \in Nat
    /\ BufferLimit \in Nat \ {0}
    /\ QueueCap \in Nat \ {0}

VARIABLES
    sess,      \* connection -> UserConnectData.state
    body,      \* connection -> progress of the one Offline that won the CAS
    replaced,  \* connections whose replaceFlag is set
    named,     \* connections whose userId is set
    queue,     \* connection -> frames in writeChan
    got,       \* connection -> frames written to the client
    users,     \* the connection under the user's id in TCPServer.users
    reader,    \* connection -> where its handleConn is
    removed,   \* connections whose handleConn has removedSelf
    detached,  \* the session under the user's id in TCPServer.detached
    buffer,    \* session -> detachedSession.pushes
    expired,   \* sessions whose expireAt has passed
    timer,     \* session -> its time.AfterFunc
    login,     \* where the running login is
    who,       \* the connection that logs in
    token,     \* connection -> LoginReq.ResumeToken
    taken,     \* the session consumeDetachedSession has found
    batch,     \* the pushes it replays
    pusher,    \* where the ToUser call is
    target,    \* the connection or session it has found
    next,      \* the number of its push
    boxed,     \* history: push -> the session it was buffered for
    fate       \* history: push -> what has become of it

sessVars  == <<sess, body, replaced, named>>
readVars  == <<reader, removed>>
tableVars == <<detached, buffer, expired, timer>>
loginVars == <<login, who, token, taken, batch>>
pushVars  == <<pusher, target, next, boxed>>
vars == <<sessVars, queue, got, users, readVars, tableVars, loginVars, pushVars, fate>>

Push == 1..MaxPush
\* "refused": not made yet, or ToUser returned an error; "kept": accepted and not lost
Fate == {"refused", "kept", "overflow", "stranger", "expired", "closed", "raced"}

PushesIn(s) == {s[i] : i \in DOMAIN s}

\* The pushes in sequence s are lost for this reason.
Lose(s, why) == fate' = [p \in Push |-> IF p \in PushesIn(s) THEN why ELSE fate[p]]

\* The connection's `stop' channel is closed.
Stopped(c) == body[c] = "done"

\* The login has found this session and is about to empty it.
Claimed(d) == taken = d /\ login \in {"take", "drain"}

\* What is lost when the entry of `detached' is dropped or replaced now.
Entry == IF detached = None \/ Claimed(detached) THEN <<>> ELSE buffer[detached]

Init ==
    /\ sess = [c \in Conn |-> "idle"]
    /\ body = [c \in Conn |-> "no"]
    /\ replaced = {} /\ named = {}
    /\ queue = [c \in Conn |-> <<>>]
    /\ got = [c \in Conn |-> <<>>]
    /\ users = None
    /\ reader = [c \in Conn |-> "read"]
    /\ removed = {}
    /\ detached = None
    /\ buffer = [c \in Conn |-> <<>>]
    /\ expired = {}
    /\ timer = [c \in Conn |-> "none"]
    /\ login = "no" /\ who = None /\ taken = None /\ batch = <<>>
    /\ token = [c \in Conn |-> None]
    /\ pusher = "idle" /\ target = None /\ next = 1
    /\ boxed = [p \in Push |-> None]
    /\ fate = [p \in Push |-> "refused"]

-----------------------------------------------------------------------------
(* Connections: handleConn, Offline, Send, the writer *)

\* tryBeginOfflining by the caller that wins, and replaceFlag.Store (GateLogin
\* takes them apart).
BeginOfflining(c, replace) ==
    /\ sess[c] # "offlining"
    /\ sess' = [sess EXCEPT ![c] = "offlining"]
    /\ replaced' = IF replace THEN replaced \cup {c} ELSE replaced
    /\ body' = [body EXCEPT ![c] = "hook"]

\* A Send to c gives up: Offline(false), which does nothing when c is offlining.
TimedOut(c) ==
    \/ BeginOfflining(c, FALSE)
    \/ sess[c] = "offlining" /\ UNCHANGED <<sess, replaced, body>>

\* The OfflineHook RPCs return; the connection and `stop' are closed.
Close(c) ==
    /\ body[c] = "hook"
    /\ body' = [body EXCEPT ![c] = "done"]
    /\ UNCHANGED <<sess, replaced, named, queue, got, users, readVars, tableVars, loginVars, pushVars, fate>>

\* writeMessage: a frame reaches the client as long as the connection lives.
WriteFrame(c) ==
    /\ reader[c] = "read" /\ ~Stopped(c) /\ queue[c] # <<>>
    /\ got' = [got EXCEPT ![c] = Append(@, Head(queue[c]))]
    /\ queue' = [queue EXCEPT ![c] = Tail(@)]
    /\ UNCHANGED <<sessVars, users, readVars, tableVars, loginVars, pushVars, fate>>

\* ReadFrame returns an error: the client is gone, or the connection was closed.
ReaderEnds(c) ==
    /\ reader[c] = "read"
    /\ reader' = [reader EXCEPT ![c] = "look"]
    /\ UNCHANGED <<sessVars, queue, got, users, removed, tableVars, loginVars, pushVars, fate>>

\* The deferred cleanup: is the user's entry this connection's?
CleanupLook(c) ==
    /\ reader[c] = "look"
    /\ reader' = [reader EXCEPT ![c] = IF c \in named /\ users = c THEN "del" ELSE "offline"]
    /\ UNCHANGED <<sessVars, queue, got, users, removed, tableVars, loginVars, pushVars, fate>>

CleanupDel(c) ==
    /\ reader[c] = "del"
    /\ users' = None
    /\ removed' = removed \cup {c}
    /\ reader' = [reader EXCEPT ![c] = "offline"]
    /\ UNCHANGED <<sessVars, queue, got, tableVars, loginVars, pushVars, fate>>

\* Offline(false): runs the body, or finds that another caller has won the CAS.
CleanupOffline(c) ==
    /\ reader[c] = "offline"
    /\ \/ /\ BeginOfflining(c, FALSE)
          /\ reader' = [reader EXCEPT ![c] = "wait"]
       \/ /\ sess[c] = "offlining"
          /\ reader' = [reader EXCEPT ![c] = "natural"]
          /\ UNCHANGED <<sess, replaced, body>>
    /\ UNCHANGED <<named, queue, got, users, removed, tableVars, loginVars, pushVars, fate>>

CleanupReturns(c) ==
    /\ reader[c] = "wait" /\ body[c] = "done"
    /\ reader' = [reader EXCEPT ![c] = "natural"]
    /\ UNCHANGED <<sessVars, queue, got, users, removed, tableVars, loginVars, pushVars, fate>>

-----------------------------------------------------------------------------
(* afterNaturalDisconnect and maybeDetachSession *)

\* removedSelf && !replaceFlag: detached.Set, over whatever entry is there
Detach(c) ==
    /\ reader[c] = "natural" /\ c \in removed /\ c \notin replaced
    /\ detached' = c
    /\ Lose(Entry, "raced")
    /\ reader' = [reader EXCEPT ![c] = "arm"]
    /\ UNCHANGED <<sessVars, queue, got, users, removed, buffer, expired, timer, loginVars, pushVars>>

NoDetach(c) ==
    /\ reader[c] = "natural" /\ ~(c \in removed /\ c \notin replaced)
    /\ reader' = [reader EXCEPT ![c] = "gone"]
    /\ UNCHANGED <<sessVars, queue, got, users, removed, tableVars, loginVars, pushVars, fate>>

ArmTimerNever(c) ==
    /\ reader[c] = "arm"
    /\ reader' = [reader EXCEPT ![c] = "online"]
    /\ UNCHANGED <<sessVars, queue, got, users, removed, tableVars, loginVars, pushVars, fate>>

ArmTimer(c) ==
    /\ reader[c] = "arm"
    /\ timer' = [timer EXCEPT ![c] = "armed"]
    /\ reader' = [reader EXCEPT ![c] = "online"]
    /\ UNCHANGED <<sessVars, queue, got, users, removed, detached, buffer, expired, loginVars, pushVars, fate>>

\* Has a session of the user come online meanwhile, and is the entry still c's?
OnlineCheck(c) ==
    /\ reader[c] = "online"
    /\ reader' = [reader EXCEPT ![c] = IF users # None /\ detached = c THEN "undo" ELSE "gone"]
    /\ UNCHANGED <<sessVars, queue, got, users, removed, tableVars, loginVars, pushVars, fate>>

\* Then the entry is deleted and its timer stopped.
Undo(c) ==
    /\ reader[c] = "undo"
    /\ detached' = None
    /\ Lose(Entry, "raced")
    /\ timer' = [timer EXCEPT ![c] = IF @ = "armed" THEN "stopped" ELSE @]
    /\ reader' = [reader EXCEPT ![c] = "gone"]
    /\ UNCHANGED <<sessVars, queue, got, users, removed, buffer, expired, loginVars, pushVars>>

\* The clock reaches expireAt; the timer of the window runs after that.
Expire(c) ==
    /\ timer[c] = "armed" /\ c \notin expired
    /\ expired' = expired \cup {c}
    /\ UNCHANGED <<sessVars, queue, got, users, readVars, detached, buffer, timer, loginVars, pushVars, fate>>

TimerLook(c) ==
    /\ timer[c] = "armed" /\ c \in expired
    /\ timer' = [timer EXCEPT ![c] = IF detached = c THEN "del" ELSE "fired"]
    /\ UNCHANGED <<sessVars, queue, got, users, readVars, detached, buffer, expired, loginVars, pushVars, fate>>

TimerDel(c) ==
    /\ timer[c] = "del"
    /\ timer' = [timer EXCEPT ![c] = "fired"]
    /\ detached' = None
    /\ Lose(Entry, IF detached = c THEN "expired" ELSE "raced")
    /\ UNCHANGED <<sessVars, queue, got, users, readVars, buffer, expired, loginVars, pushVars>>

CleanupStep(c) ==
    \/ CleanupLook(c) \/ CleanupDel(c) \/ CleanupOffline(c) \/ CleanupReturns(c)
    \/ NoDetach(c) \/ Detach(c) \/ ArmTimer(c)
    \/ OnlineCheck(c) \/ Undo(c)

-----------------------------------------------------------------------------
(* GateService.Login and DoLogin, under the login lock *)

LoginTo(pc) == login' = pc

\* The client presents the token of an earlier session, or none.
StartLogin(c, t) ==
    /\ who = None /\ sess[c] = "idle"
    /\ t \in named \cup {None}
    /\ who' = c
    /\ token' = [token EXCEPT ![c] = t]
    /\ LoginTo("kick")
    /\ UNCHANGED <<sessVars, queue, got, users, readVars, tableVars, taken, batch, pushVars, fate>>

\* The kick of a session that is online on this node: Offline(userId, true).
Kick ==
    /\ login = "kick"
    /\ \/ /\ users # None
          /\ BeginOfflining(users, TRUE)
          /\ taken' = users
          /\ LoginTo("kicked")
       \/ /\ IF users = None THEN TRUE ELSE sess[users] = "offlining"
          /\ LoginTo("begin")
          /\ UNCHANGED <<sess, replaced, body, taken>>
    /\ UNCHANGED <<named, queue, got, users, readVars, tableVars, who, token, batch, pushVars, fate>>

KickReturns ==
    /\ login = "kicked" /\ body[taken] = "done"
    /\ taken' = None
    /\ LoginTo("begin")
    /\ UNCHANGED <<sessVars, queue, got, users, readVars, tableVars, who, token, batch, pushVars, fate>>

LoginEnds == who' = None /\ taken' = None /\ batch' = <<>> /\ LoginTo("no")

TryBeginLoginPublished ==
    /\ login = "begin"
    /\ \/ /\ sess[who] = "idle"
          /\ sess' = [sess EXCEPT ![who] = "loggingIn"]
          /\ taken' = detached
          /\ users' = who
          /\ LoginTo(IF detached = None THEN "publish" ELSE "take")
          /\ UNCHANGED <<who, batch>>
       \/ /\ sess[who] # "idle"
          /\ LoginEnds
          /\ UNCHANGED <<sess, users>>
    /\ UNCHANGED <<body, replaced, named, queue, got, readVars, tableVars, token, pushVars, fate>>

\* tryBeginLogin, and the detached.Get of consumeDetachedSession
TryBeginLogin ==
    /\ login = "begin"
    /\ \/ /\ sess[who] = "idle"
          /\ sess' = [sess EXCEPT ![who] = "loggingIn"]
          /\ taken' = detached
          /\ LoginTo(IF detached = None THEN "publish" ELSE "take")
          /\ UNCHANGED <<who, batch>>
       \/ /\ sess[who] # "idle"
          /\ LoginEnds
          /\ UNCHANGED sess
    /\ UNCHANGED <<body, replaced, named, queue, got, users, readVars, tableVars, token, pushVars, fate>>

\* detached.Del: drops what is under the user's id by now
TakeDetached ==
    /\ login = "take"
    /\ detached' = None
    /\ Lose(Entry, "raced")
    /\ LoginTo("drain")
    /\ UNCHANGED <<sessVars, queue, got, users, readVars, buffer, expired, timer, who, token, taken, batch, pushVars>>

MayResumeAny == taken \notin expired
MayResumeSwapped == token[who] = taken /\ taken \in expired

\* The token and the time that DrainDetached compares
MayResume == token[who] = taken /\ taken \notin expired

\* Under ds.mu the timer is stopped and the pushes are taken out.
DrainDetached ==
    /\ login = "drain"
    /\ timer' = [timer EXCEPT ![taken] = IF @ = "armed" THEN "stopped" ELSE @]
    /\ buffer' = [buffer EXCEPT ![taken] = <<>>]
    /\ \/ /\ MayResume
          /\ batch' = buffer[taken]
          /\ UNCHANGED fate
       \/ /\ ~MayResume
          /\ batch' = <<>>
          /\ Lose(buffer[taken], IF token[who] # taken THEN "stranger"
                                 ELSE IF taken \in expired THEN "expired" ELSE "kept")
    /\ LoginTo("replay")
    /\ UNCHANGED <<sessVars, queue, got, users, readVars, detached, expired, who, token, taken, pushVars>>

\* One Send of the replay; the first error ends it.
Replay ==
    /\ login = "replay"
    /\ \/ /\ batch = <<>>
          /\ LoginTo("publish")
          /\ UNCHANGED <<sess, replaced, body, queue, batch, fate>>
       \/ /\ batch # <<>> /\ ~Stopped(who) /\ Len(queue[who]) < QueueCap
          /\ queue' = [queue EXCEPT ![who] = Append(@, Head(batch))]
          /\ batch' = Tail(batch)
          /\ UNCHANGED <<sess, replaced, body, login, fate>>
       \/ /\ batch # <<>> /\ Stopped(who)
          /\ Lose(batch, "closed")
          /\ batch' = <<>>
          /\ LoginTo("publish")
          /\ UNCHANGED <<sess, replaced, body, queue>>
       \/ /\ batch # <<>> /\ ~Stopped(who) /\ Len(queue[who]) = QueueCap  \* ErrConnSendTimeout
          /\ TimedOut(who)
          /\ Lose(batch, "closed")
          /\ batch' = <<>>
          /\ LoginTo("publish")
          /\ UNCHANGED queue
    /\ UNCHANGED <<named, got, users, readVars, tableVars, who, token, taken, pushVars>>

\* users.Set
Publish ==
    /\ login = "publish"
    /\ users' = who
    /\ LoginTo("name")
    /\ UNCHANGED <<sessVars, queue, got, readVars, tableVars, who, token, taken, batch, pushVars, fate>>

Name ==
    /\ login = "name"
    /\ named' = named \cup {who}
    /\ LoginTo("mark")
    /\ UNCHANGED <<sess, body, replaced, queue, got, users, readVars, tableVars, who, token, taken, batch, pushVars, fate>>

\* markOnline, and users.Del when the connection went offline meanwhile
MarkOnline ==
    /\ login = "mark"
    /\ \/ /\ sess[who] = "loggingIn"
          /\ sess' = [sess EXCEPT ![who] = "online"]
          /\ UNCHANGED users
       \/ /\ sess[who] # "loggingIn"
          /\ users' = None
          /\ UNCHANGED sess
    /\ LoginEnds
    /\ UNCHANGED <<body, replaced, named, queue, got, readVars, tableVars, token, pushVars, fate>>

LoginStep ==
    \/ Kick \/ KickReturns \/ TryBeginLogin \/ TakeDetached
    \/ DrainDetached \/ Replay \/ Publish \/ Name \/ MarkOnline

-----------------------------------------------------------------------------
(* ToUser *)

PushReturns ==
    /\ pusher' = "idle" /\ target' = None
    /\ next' = next + 1

\* users.Get
StartPush ==
    /\ pusher = "idle" /\ next <= MaxPush
    /\ target' = users
    /\ pusher' = IF users = None THEN "window" ELSE "send"
    /\ UNCHANGED <<sessVars, queue, got, users, readVars, tableVars, loginVars, next, boxed, fate>>

\* Send to the connection found: queued, closed, or out of patience.
SendPush ==
    /\ pusher = "send"
    /\ \/ /\ Stopped(target)
          /\ UNCHANGED <<sess, replaced, body, queue, fate>>
       \/ /\ ~Stopped(target) /\ Len(queue[target]) < QueueCap
          /\ queue' = [queue EXCEPT ![target] = Append(@, next)]
          /\ fate' = [fate EXCEPT ![next] = "kept"]
          /\ UNCHANGED <<sess, replaced, body>>
       \/ /\ ~Stopped(target) /\ Len(queue[target]) = QueueCap
          /\ TimedOut(target)
          /\ UNCHANGED <<queue, fate>>
    /\ PushReturns
    /\ UNCHANGED <<named, got, users, readVars, tableVars, loginVars, boxed>>

\* bufferDetachedPush: detached.Get
FindWindow ==
    /\ pusher = "window"
    /\ \/ /\ detached = None
          /\ PushReturns
       \/ /\ detached # None
          /\ target' = detached
          /\ pusher' = "append"
          /\ UNCHANGED next
    /\ UNCHANGED <<sessVars, queue, got, users, readVars, tableVars, loginVars, boxed, fate>>

\* The oldest push gives way to a new one when the buffer is full.
Room(s) == IF Len(s) >= BufferLimit THEN Tail(s) ELSE s

\* Under ds.mu
AppendPush ==
    /\ pusher = "append"
    /\ LET old == buffer[target]
       IN \/ /\ target \in expired
             /\ UNCHANGED <<buffer, boxed, fate>>
          \/ /\ target \notin expired
             /\ buffer' = [buffer EXCEPT ![target] = Append(Room(old), next)]
             /\ boxed' = [boxed EXCEPT ![next] = target]
             /\ fate' = [p \in Push |->
                          CASE p = next -> IF target = detached \/ Claimed(target) THEN "kept" ELSE "raced"
                            [] p # next /\ p \in PushesIn(old) \ PushesIn(Room(old)) /\ fate[p] = "kept" -> "overflow"
                            [] OTHER -> fate[p]]
    /\ PushReturns
    /\ UNCHANGED <<sessVars, queue, got, users, readVars, detached, expired, timer, loginVars>>

PushStep == StartPush \/ SendPush \/ FindWindow \/ AppendPush

-----------------------------------------------------------------------------
Next ==
    \/ \E c \in Conn :
          \/ Close(c) \/ WriteFrame(c) \/ ReaderEnds(c)
          \/ CleanupStep(c) \/ Expire(c) \/ TimerLook(c) \/ TimerDel(c)
          \/ \E t \in Conn \cup {None} : StartLogin(c, t)
    \/ LoginStep \/ PushStep

Spec == Init /\ [][Next]_vars

\* A cleanup that has begun goes on (its RPCs have timeouts), the clock moves
\* and due timers run; nobody has to connect, log in, push or leave.
FairSpec ==
    /\ Spec
    /\ \A c \in Conn :
          /\ WF_vars(Close(c)) /\ WF_vars(CleanupStep(c))
          /\ WF_vars(Expire(c)) /\ WF_vars(TimerLook(c)) /\ WF_vars(TimerDel(c))

-----------------------------------------------------------------------------
TypeOK ==
    /\ sess \in [Conn -> {"idle", "loggingIn", "online", "offlining"}]
    /\ body \in [Conn -> {"no", "hook", "done"}]
    /\ replaced \subseteq Conn /\ named \subseteq Conn /\ removed \subseteq Conn
    /\ queue \in [Conn -> Seq(Push)] /\ got \in [Conn -> Seq(Push)]
    /\ \A c \in Conn : Len(queue[c]) <= QueueCap /\ Len(buffer[c]) <= BufferLimit
    /\ {users, detached, who, taken, target} \subseteq Conn \cup {None}
    /\ reader \in [Conn -> {"read", "look", "del", "offline", "wait", "natural",
                            "arm", "online", "undo", "gone"}]
    /\ buffer \in [Conn -> Seq(Push)]
    /\ expired \subseteq Conn
    /\ timer \in [Conn -> {"none", "armed", "del", "fired", "stopped"}]
    /\ login \in {"no", "kick", "kicked", "begin", "take", "drain", "replay",
                  "publish", "name", "mark"}
    /\ token \in [Conn -> Conn \cup {None}]
    /\ batch \in Seq(Push)
    /\ pusher \in {"idle", "window", "send", "append"}
    /\ next \in 1..(MaxPush + 1)
    /\ boxed \in [Push -> Conn \cup {None}]
    /\ fate \in [Push -> Fate]

Sent(c) == got[c] \o queue[c]

\* Every push that ToUser accepted is on its way to a connection, buffered in
\* the session that waits, or lost for a reason the design admits: an overflow,
\* a login without the token, the end of the window, a connection that closed
\* during the replay - or the races that ResumeIsLossless is about.
NothingVanishes ==
    \A p \in Push :
        LET places == {c \in Conn : p \in PushesIn(Sent(c))}
                      \cup {d \in Conn : (d = detached \/ Claimed(d)) /\ p \in PushesIn(buffer[d])}
                      \cup (IF p \in PushesIn(batch) THEN {who} ELSE {})
        IN (places # {}) = (fate[p] = "kept") /\ \A c, d \in places : c = d

\* A connection gets its pushes in the order they were made, those that were
\* buffered before the others (DoLogin replays before it publishes).
InOrder == \A c \in Conn : \A i, j \in DOMAIN Sent(c) : i < j => Sent(c)[i] < Sent(c)[j]

\* What was buffered for a session reaches only a connection that presented the
\* token of that session.
RightfulResume ==
    \A c \in Conn : \A p \in PushesIn(Sent(c)) : boxed[p] # None => boxed[p] = token[c]

\* An entry of `detached' does not stay for ever, whether anybody logs in or not.
WindowCloses == \A c \in Conn : (detached = c) ~> (detached # c)

\* "No push is lost when the user is back within 30s" (rpc/tcp.go:1333).
ResumeIsLossless == \A p \in Push : fate[p] # "raced"
=============================================================================
