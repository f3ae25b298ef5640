------------------------------ MODULE GateConn ------------------------------
(***************************************************************************)
(* One connection of a gateway: the reader, logic and writer goroutines of *)
(* rpc/tcp.go (handleConn, doLogic, writeMessage), Send and Offline that   *)
(* join them, the frame authentication of rpc/frame_mac.go and the client  *)
(* of robot/tcp_client.go at the other end of the wire.                    *)
(*                                                                         *)
(* Requests are numbered as the client sends them; number LoginNo is the   *)
(* login, from whose answer on the client authenticates its frames.  A     *)
(* client is hasty when it does not await that answer.  Heartbeats have    *)
(* number 0.                                                               *)
(***************************************************************************)
EXTENDS Integers, Sequences

CONSTANTS
    Sender,       \* goroutines of the client that call Send
    MaxReq,       \* bound: requests of the client
    LoginNo,      \* the request that logs in
    RequiresMAC,  \* connRequiresFrameMAC && frameMACActive
    ReqCap,       \* capacity of reqChan
    QueueCap,     \* capacity of writeChan
    WireCap       \* bound: frames on the wire to the gateway

ASSUME ConnAssumption ==
    /\ MaxReq \in Nat /\ LoginNo \in 1..MaxReq
    /\ RequiresMAC \in BOOLEAN
    /\ {ReqCap, QueueCap, WireCap} \subseteq Nat \ {0}

VARIABLES
    sess,      \* UserConnectData.state
    body,      \* progress of the Offline that won the CAS
    key,       \* macKey is set
    lastSeq,   \* macLastSeq
    reader,    \* where the reader goroutine is
    inbox,     \* reqChan
    logic,     \* where the logic goroutine is
    work,      \* the request it handles
    doLogin,   \* where the DoLogin is that the login RPC calls
    queue,     \* writeChan
    writer,    \* "run" or "gone"
    kick,      \* where a TCPServer.Offline(userId, true) is
    rejected,  \* history: the frame of a live session that was refused, or NoFrame
    wire,      \* frames from the client
    back,      \* answers the client has received, without heartbeats
    next,      \* number of the client's next request
    keyed,     \* the client has EnableFrameMAC'd
    macSeq,    \* the client's macSeq
    sending,   \* sender -> the frame it is about to write
    left,      \* the client has closed its end
    hasty      \* history: a request was made after the login and before its answer

connVars   == <<sess, body>>
macVars    == <<key, lastSeq, rejected>>
logicVars  == <<inbox, logic, work, doLogin>>
clientVars == <<next, keyed, macSeq, sending, left, hasty>>
vars == <<connVars, macVars, reader, logicVars, queue, writer, kick, wire, back, clientVars>>

NoFrame == [n |-> 0, seq |-> 0]
Frame   == [n : 0..MaxReq, seq : 0..MaxReq]
Answer  == [n : 0..MaxReq, kind : {"ok", "busy", "beat", "kick"}]

Stopped == body = "done"

Init ==
    /\ sess = "idle" /\ body = "no"
    /\ key = FALSE /\ lastSeq = 0 /\ rejected = NoFrame
    /\ reader = "read" /\ writer = "run" /\ kick = "no"
    /\ inbox = <<>> /\ logic = "take" /\ work = 0 /\ doLogin = "no"
    /\ queue = <<>> /\ wire = <<>> /\ back = <<>>
    /\ next = 1 /\ keyed = FALSE /\ macSeq = 0 /\ left = FALSE /\ hasty = FALSE
    /\ sending = [s \in Sender |-> NoFrame]

-----------------------------------------------------------------------------
(* The client *)

\* LoginRes has reached the client.
LoggedIn == \E i \in DOMAIN back : back[i] = [n |-> LoginNo, kind |-> "ok"]

\* Send: the frame gets its number before it is written.
PrepareFrame(s) ==
    /\ sending[s] = NoFrame /\ ~left /\ next <= MaxReq
    /\ hasty' = (hasty \/ (next > LoginNo /\ ~LoggedIn))
    /\ keyed' = (keyed \/ (LoggedIn /\ RequiresMAC))
    /\ macSeq' = IF keyed' THEN macSeq + 1 ELSE macSeq
    /\ sending' = [sending EXCEPT ![s] = [n |-> next, seq |-> IF keyed' THEN macSeq' ELSE 0]]
    /\ next' = next + 1
    /\ UNCHANGED <<connVars, macVars, reader, logicVars, queue, writer, kick, wire, back, left>>

WriteRequest(s) ==
    /\ sending[s] # NoFrame
    /\ sending' = [sending EXCEPT ![s] = NoFrame]
    /\ \/ Len(wire) < WireCap /\ ~left /\ ~Stopped /\ wire' = Append(wire, sending[s])
       \/ (left \/ Stopped) /\ UNCHANGED wire
    /\ UNCHANGED <<connVars, macVars, reader, logicVars, queue, writer, kick, back, next, keyed, macSeq, left, hasty>>

Heartbeat ==
    /\ ~left /\ ~Stopped /\ Len(wire) < WireCap
    /\ wire' = Append(wire, NoFrame)
    /\ UNCHANGED <<connVars, macVars, reader, logicVars, queue, writer, kick, back, clientVars>>

Leave ==
    /\ ~left
    /\ left' = TRUE
    /\ UNCHANGED <<connVars, macVars, reader, logicVars, queue, writer, kick, wire, back, next, keyed, macSeq, sending, hasty>>

-----------------------------------------------------------------------------
(* Offline and Send *)

\* tryBeginOfflining by the caller that wins
BeginOfflining ==
    /\ sess # "offlining"
    /\ sess' = "offlining" /\ body' = "hook"

\* The OfflineHook RPCs return; the connection and `stop' are closed.
Close ==
    /\ body = "hook"
    /\ body' = "done"
    /\ UNCHANGED <<sess, macVars, reader, logicVars, queue, writer, kick, wire, back, clientVars>>

\* Send of answer a: it is queued, or finds `stop' closed, or times out on a
\* full queue and takes the connection offline.
Send(a) ==
    \/ /\ ~Stopped /\ Len(queue) < QueueCap
       /\ queue' = Append(queue, a)
       /\ UNCHANGED connVars
    \/ /\ Stopped
       /\ UNCHANGED <<queue, connVars>>
    \/ /\ ~Stopped /\ Len(queue) = QueueCap
       /\ BeginOfflining \/ (sess = "offlining" /\ UNCHANGED connVars)
       /\ UNCHANGED queue

\* trySendNoWait: the answer is dropped when the queue is full.
TrySend(a) == queue' = IF ~Stopped /\ Len(queue) < QueueCap THEN Append(queue, a) ELSE queue

\* After a Send that timed out its goroutine has run the body of Offline.
SendDone == body' # "hook" \/ body = "hook"

WriteFrame ==
    /\ writer = "run" /\ ~Stopped /\ queue # <<>>
    /\ queue' = Tail(queue)
    /\ \/ /\ ~left
          /\ back' = IF Head(queue).kind = "beat" THEN back ELSE Append(back, Head(queue))
          /\ UNCHANGED writer
       \/ /\ writer' = "gone"   \* a write error: the goroutine returns, nothing else
          /\ UNCHANGED back
    /\ UNCHANGED <<connVars, macVars, reader, logicVars, kick, wire, clientVars>>

WriterStops ==
    /\ writer = "run" /\ Stopped
    /\ writer' = "gone"
    /\ UNCHANGED <<connVars, macVars, reader, logicVars, queue, kick, wire, back, clientVars>>

-----------------------------------------------------------------------------
(* The reader *)

ReaderTo(pc) == reader' = pc

ReadHeartbeat ==
    /\ reader = "read" /\ ~Stopped /\ wire # <<>> /\ Head(wire) = NoFrame
    /\ wire' = Tail(wire)
    /\ ReaderTo("beat")
    /\ UNCHANGED <<connVars, macVars, logicVars, queue, writer, kick, back, clientVars>>

SendHeartbeat ==
    /\ reader = "beat"
    /\ Send([n |-> 0, kind |-> "beat"])
    /\ ReaderTo(IF SendDone THEN "read" ELSE "closing")
    /\ UNCHANGED <<macVars, logicVars, writer, kick, wire, back, clientVars>>

AuthSkipsOne(f) ==
    IF sess = "online" /\ key THEN f.seq > lastSeq + 1 ELSE f.seq = 0
AuthOptional(f) == f.seq = 0 \/ (sess = "online" /\ key /\ f.seq > lastSeq)

\* checkInboundFrameAuth
Authentic(f) ==
    IF sess = "online" /\ key THEN f.seq > lastSeq ELSE f.seq = 0

\* A request is checked and put into reqChan; a full channel is answered "busy".
ReadRequest ==
    /\ reader = "read" /\ ~Stopped /\ wire # <<>> /\ Head(wire) # NoFrame
    /\ wire' = Tail(wire)
    /\ LET f == Head(wire)
       IN \/ /\ Authentic(f)
             /\ lastSeq' = IF f.seq > 0 THEN f.seq ELSE lastSeq
             /\ \/ Len(inbox) < ReqCap /\ inbox' = Append(inbox, f.n) /\ UNCHANGED queue
                \/ Len(inbox) = ReqCap /\ TrySend([n |-> f.n, kind |-> "busy"]) /\ UNCHANGED inbox
             /\ UNCHANGED <<reader, rejected>>
          \/ /\ ~Authentic(f)
             /\ rejected' = IF sess = "offlining" THEN rejected ELSE f
             /\ ReaderTo("cleanup")
             /\ UNCHANGED <<lastSeq, inbox, queue>>
    /\ UNCHANGED <<connVars, key, logic, work, doLogin, writer, kick, back, clientVars>>

\* ReadFrame fails: the connection is closed at either end, or nothing has come
\* until the read deadline.
ReadError ==
    /\ reader = "read"
    /\ left \/ Stopped \/ wire = <<>>
    /\ ReaderTo("cleanup")
    /\ UNCHANGED <<connVars, macVars, logicVars, queue, writer, kick, wire, back, clientVars>>

CleanupLeaves ==
    /\ reader = "cleanup"
    /\ ReaderTo("gone")
    /\ UNCHANGED <<connVars, macVars, logicVars, queue, writer, kick, wire, back, clientVars>>

\* The deferred Offline(false)
Cleanup ==
    /\ reader = "cleanup"
    /\ \/ BeginOfflining /\ ReaderTo("wait")
       \/ sess = "offlining" /\ UNCHANGED connVars /\ ReaderTo("gone")
    /\ UNCHANGED <<macVars, logicVars, queue, writer, kick, wire, back, clientVars>>

\* The body that the reader has run, in the cleanup or in a Send, is over.
ReaderResumes ==
    /\ Stopped
    /\ \/ reader = "wait" /\ ReaderTo("gone")
       \/ reader = "closing" /\ ReaderTo("read")
    /\ UNCHANGED <<connVars, macVars, logicVars, queue, writer, kick, wire, back, clientVars>>

ReaderStep == ReadHeartbeat \/ SendHeartbeat \/ ReadRequest \/ ReadError \/ Cleanup \/ ReaderResumes

-----------------------------------------------------------------------------
(* The logic goroutine: doLogic, and the login RPC it waits for *)

LogicTo(pc) == logic' = pc

TakeBusyToo ==
    /\ logic = "take" /\ inbox # <<>>
    /\ inbox' = Tail(inbox) /\ work' = Head(inbox)
    /\ doLogin' = IF work' = LoginNo THEN "begin" ELSE doLogin
    /\ LogicTo("rpc")
    /\ IF sess = "loggingIn" THEN TrySend([n |-> work', kind |-> "busy"]) ELSE UNCHANGED queue
    /\ UNCHANGED <<connVars, macVars, reader, writer, kick, wire, back, clientVars>>

\* The RPC is sent, unless the connection is not idle or online.
Take ==
    /\ logic = "take" /\ inbox # <<>>
    /\ inbox' = Tail(inbox)
    /\ \/ /\ sess \in {"idle", "online"}
          /\ work' = Head(inbox)
          /\ doLogin' = IF Head(inbox) = LoginNo THEN "begin" ELSE doLogin
          /\ LogicTo("rpc")
          /\ UNCHANGED queue
       \/ /\ sess = "loggingIn"
          /\ TrySend([n |-> Head(inbox), kind |-> "busy"])
          /\ UNCHANGED <<work, doLogin, logic>>
       \/ /\ sess = "offlining"
          /\ UNCHANGED <<queue, work, doLogin, logic>>
    /\ UNCHANGED <<connVars, macVars, reader, writer, kick, wire, back, clientVars>>

\* The reply of the service; the login's comes after DoLogin has returned.
Reply ==
    /\ logic = "rpc"
    /\ work = LoginNo => doLogin = "ok"
    /\ LogicTo("answer")
    /\ UNCHANGED <<connVars, macVars, reader, inbox, work, doLogin, queue, writer, kick, wire, back, clientVars>>

\* The RPC failed or timed out: nothing is sent.
ReplyFails ==
    /\ logic = "rpc"
    /\ LogicTo("take")
    /\ work' = 0
    /\ UNCHANGED <<connVars, macVars, reader, inbox, doLogin, queue, writer, kick, wire, back, clientVars>>

SendAnswer ==
    /\ logic = "answer"
    /\ Send([n |-> work, kind |-> "ok"])
    /\ LogicTo(IF SendDone THEN "take" ELSE "closing")
    /\ work' = 0
    /\ UNCHANGED <<macVars, reader, inbox, doLogin, writer, kick, wire, back, clientVars>>

LogicEndsWhenEmpty ==
    /\ Stopped /\ inbox = <<>>
    /\ \/ logic = "take" /\ LogicTo("gone")
       \/ logic = "closing" /\ UNCHANGED logic
    /\ UNCHANGED <<connVars, macVars, reader, inbox, work, doLogin, queue, writer, kick, wire, back, clientVars>>

LogicEnds ==
    /\ Stopped
    /\ \/ logic = "take" /\ LogicTo("gone")
       \/ logic = "closing" /\ LogicTo("take")
    /\ UNCHANGED <<connVars, macVars, reader, inbox, work, doLogin, queue, writer, kick, wire, back, clientVars>>

LogicStep == Take \/ Reply \/ ReplyFails \/ SendAnswer \/ LogicEnds

TryBeginLogin ==
    /\ doLogin = "begin"
    /\ \/ /\ sess = "idle"
          /\ sess' = "loggingIn"
          /\ doLogin' = "key"
       \/ /\ sess # "idle"
          /\ doLogin' = "failed"
          /\ UNCHANGED sess
    /\ UNCHANGED <<body, macVars, reader, inbox, logic, work, queue, writer, kick, wire, back, clientVars>>

\* The session key is there before the session is online.
DeriveKey ==
    /\ doLogin = "key"
    /\ key' = RequiresMAC
    /\ doLogin' = "mark"
    /\ UNCHANGED <<connVars, lastSeq, rejected, reader, inbox, logic, work, queue, writer, kick, wire, back, clientVars>>

MarkOnline ==
    /\ doLogin = "mark"
    /\ \/ /\ sess = "loggingIn"
          /\ sess' = "online"
          /\ doLogin' = "ok"
       \/ /\ sess # "loggingIn"
          /\ doLogin' = "failed"
          /\ UNCHANGED sess
    /\ UNCHANGED <<body, macVars, reader, inbox, logic, work, queue, writer, kick, wire, back, clientVars>>

DoLogin == TryBeginLogin \/ DeriveKey \/ MarkOnline

-----------------------------------------------------------------------------
(* TCPServer.Offline(userId, true), by another login of the user *)

KickTo(pc) == kick' = pc

Kick ==
    /\ kick = "no" /\ sess = "online"
    /\ KickTo("notify")
    /\ UNCHANGED <<connVars, macVars, reader, logicVars, queue, writer, wire, back, clientVars>>

\* The notice is sent; waitSendDrained ends when the queue is empty or in time.
SendNotice ==
    /\ kick = "notify"
    /\ Send([n |-> 0, kind |-> "kick"])
    /\ KickTo("drain")
    /\ UNCHANGED <<macVars, reader, logicVars, writer, wire, back, clientVars>>

KickOffline ==
    /\ kick = "drain"
    /\ BeginOfflining \/ (sess = "offlining" /\ UNCHANGED connVars)
    /\ KickTo("done")
    /\ UNCHANGED <<macVars, reader, logicVars, queue, writer, wire, back, clientVars>>

KickStep == SendNotice \/ KickOffline

-----------------------------------------------------------------------------
Next ==
    \/ \E s \in Sender : PrepareFrame(s) \/ WriteRequest(s)
    \/ Heartbeat \/ Leave
    \/ Close \/ WriteFrame \/ WriterStops
    \/ ReaderStep \/ LogicStep \/ DoLogin
    \/ Kick \/ KickStep

Spec == Init /\ [][Next]_vars

\* The goroutines of the gateway run, RPCs and socket calls have timeouts;
\* nothing is expected of the client.
FairSpec ==
    /\ Spec
    /\ WF_vars(Close) /\ WF_vars(WriteFrame) /\ WF_vars(WriterStops)
    /\ WF_vars(ReaderStep) /\ WF_vars(LogicStep) /\ WF_vars(DoLogin) /\ WF_vars(KickStep)

-----------------------------------------------------------------------------
TypeOK ==
    /\ sess \in {"idle", "loggingIn", "online", "offlining"}
    /\ body \in {"no", "hook", "done"}
    /\ (sess = "offlining") = (body # "no")
    /\ key \in BOOLEAN /\ lastSeq \in 0..MaxReq /\ rejected \in Frame
    /\ reader \in {"read", "beat", "closing", "cleanup", "wait", "gone"}
    /\ inbox \in Seq(1..MaxReq) /\ Len(inbox) <= ReqCap
    /\ logic \in {"take", "rpc", "answer", "closing", "gone"}
    /\ work \in 0..MaxReq
    /\ doLogin \in {"no", "begin", "key", "mark", "ok", "failed"}
    /\ queue \in Seq(Answer) /\ Len(queue) <= QueueCap
    /\ writer \in {"run", "gone"}
    /\ kick \in {"no", "notify", "drain", "done"}
    /\ wire \in Seq(Frame) /\ Len(wire) <= WireCap
    /\ back \in Seq(Answer)
    /\ next \in 1..(MaxReq + 1)
    /\ keyed \in BOOLEAN /\ left \in BOOLEAN /\ hasty \in BOOLEAN
    /\ macSeq \in 0..MaxReq
    /\ sending \in [Sender -> Frame]

\* A client that sends with one goroutine and awaits the answer to its login is
\* never disconnected by checkInboundFrameAuth. (A session that is going offline
\* refuses every authenticated frame, since it no longer is online.)
HonestIsAccepted == rejected # NoFrame => hasty

\* What the client gets back, and what is queued for it, answers each request at
\* most once, and the services' replies come in the order of the requests.
AnswersInOrder ==
    LET sent == back \o queue
    IN \A i, j \in DOMAIN sent : i < j =>
          /\ sent[i].n > 0 => sent[i].n # sent[j].n
          /\ sent[i].kind = "ok" /\ sent[j].kind = "ok" => sent[i].n < sent[j].n

\* From the moment a session is online, the requests the reader lets through
\* have been authenticated against its key.
OnlineIsAuthenticated ==
    [][(RequiresMAC /\ sess = "online" /\ Len(inbox') > Len(inbox)) => lastSeq' > lastSeq]_vars

\* However a connection goes offline - a reader that ends, a kick, a Send that
\* gives up - all three goroutines end (and handleConn returns its slot).
AllGoroutinesEnd ==
    (sess = "offlining") ~> (reader = "gone" /\ logic = "gone" /\ writer = "gone")

\* A writer that died of a write error does not leave a connection behind: the
\* next Sends fill the queue and give up, or the client is silent.
DeadWriterIsNoticed == (writer = "gone") ~> (sess = "offlining")
=============================================================================
