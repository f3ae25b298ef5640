--------------------------- MODULE GateConn_proofs ---------------------------
(***************************************************************************)
(* Proofs about GateConn, for any bounds and capacities: types, and that   *)
(* no request reaches an online session unauthenticated.  For a client     *)
(* that sends with one goroutine: that a client which awaits the answer to *)
(* its login is never refused, and that answers come once and in order.    *)
(***************************************************************************)
EXTENDS GateConn, SequenceTheorems, TLAPS

-----------------------------------------------------------------------------
(* Sequences *)

\* A sequence and the element appended.
LEMMA Appended ==
    ASSUME NEW S, NEW s \in Seq(S), NEW x \in S
    PROVE  /\ Append(s, x) \in Seq(S) /\ Len(Append(s, x)) = Len(s) + 1 /\ Len(s) \in Nat
           /\ \A i \in DOMAIN Append(s, x) : i \in Nat
           /\ \A i \in DOMAIN Append(s, x) : IF i \in DOMAIN s THEN i <= Len(s) /\ Append(s, x)[i] = s[i]
                                             ELSE i = Len(s) + 1 /\ Append(s, x)[i] = x
           /\ \A i \in DOMAIN s : i \in DOMAIN Append(s, x)
<1>1. /\ Len(s) \in Nat /\ DOMAIN s = 1 .. Len(s)
      /\ Append(s, x) \in Seq(S) /\ Len(Append(s, x)) = Len(s) + 1
      /\ DOMAIN Append(s, x) = 1 .. Len(s) + 1
      /\ \A i \in 1 .. Len(s) : Append(s, x)[i] = s[i]
      /\ Append(s, x)[Len(s) + 1] = x
  OBVIOUS
<1>2. /\ \A i \in 1 .. Len(s) + 1 : i \in Nat /\ IF i \in 1 .. Len(s) THEN i <= Len(s) ELSE i = Len(s) + 1
      /\ \A i \in 1 .. Len(s) : i \in 1 .. Len(s) + 1
  BY <1>1
<1> QED
  BY <1>1, <1>2

\* A sequence without its first element.
LEMMA Tailed ==
    ASSUME NEW S, NEW s \in Seq(S), s # <<>>
    PROVE  /\ Head(s) \in S /\ Tail(s) \in Seq(S) /\ Len(s) \in Nat /\ Len(Tail(s)) = Len(s) - 1
           /\ 1 \in DOMAIN s /\ Head(s) = s[1]
           /\ \A i \in DOMAIN Tail(s) : i \in Nat /\ i + 1 \in DOMAIN s /\ 1 < i + 1 /\ Tail(s)[i] = s[i + 1]
<1>1. /\ Len(s) \in Nat \ {0} /\ DOMAIN s = 1 .. Len(s)
      /\ Head(s) \in S /\ Tail(s) \in Seq(S) /\ Len(Tail(s)) = Len(s) - 1
      /\ DOMAIN Tail(s) = 1 .. Len(s) - 1 /\ Head(s) = s[1]
      /\ \A i \in 1 .. Len(s) - 1 : Tail(s)[i] = s[i + 1]
  BY HeadTailProperties, EmptySeq, LenProperties
<1>2. /\ 1 \in 1 .. Len(s)
      /\ \A i \in 1 .. Len(s) - 1 : i \in Nat /\ i + 1 \in 1 .. Len(s) /\ 1 < i + 1
  BY <1>1
<1> QED
  BY <1>1, <1>2

\* The elements of a sequence.
LEMMA Elements == ASSUME NEW S, NEW s \in Seq(S) PROVE \A i \in DOMAIN s : s[i] \in S
  OBVIOUS

\* The empty sequence.
LEMMA Empty == \A S : <<>> \in Seq(S) /\ Len(<<>>) = 0 /\ DOMAIN <<>> = {}
  BY EmptySeq

-----------------------------------------------------------------------------
(* Types *)

\* A heartbeat carries no sequence number, there are fewer sequence numbers than
\* requests, and a session's key is there when it becomes online.
Shaped ==
    /\ \A i \in DOMAIN wire : wire[i].n = 0 => wire[i].seq = 0
    /\ \A s \in Sender : sending[s].n = 0 => sending[s].seq = 0
    /\ macSeq < next
    /\ sess = "online" \/ doLogin = "mark" => key = RequiresMAC

TypeInv == TypeOK /\ Shaped

\* Offline by any caller.
LEMMA OffliningTypes ==
    ASSUME TypeOK, BeginOfflining \/ (sess = "offlining" /\ UNCHANGED connVars)
    PROVE  /\ sess' = "offlining" /\ body' \in {"hook", "done"}
           /\ sess' = sess \/ sess # "offlining"
  BY DEF TypeOK, BeginOfflining, connVars

\* Send of an answer.
LEMMA SendTypes ==
    ASSUME TypeOK, NEW a \in Answer, Send(a)
    PROVE  /\ queue' \in Seq(Answer) /\ Len(queue') <= QueueCap
           /\ queue' = queue \/ queue' = Append(queue, a)
           /\ sess' = sess \/ sess' = "offlining"
           /\ sess' \in {"idle", "loggingIn", "online", "offlining"}
           /\ body' \in {"no", "hook", "done"}
           /\ (sess' = "offlining") = (body' # "no")
<1>1. queue \in Seq(Answer) /\ Len(queue) \in Nat /\ Len(queue) <= QueueCap
  BY DEF TypeOK
<1>2. Append(queue, a) \in Seq(Answer) /\ Len(Append(queue, a)) = Len(queue) + 1
  BY <1>1, Appended
<1>3. CASE ~Stopped /\ Len(queue) < QueueCap /\ queue' = Append(queue, a) /\ UNCHANGED connVars
  BY <1>1, <1>2, <1>3, ConnAssumption DEF TypeOK, connVars
<1>4. CASE Stopped /\ UNCHANGED <<queue, connVars>>
  BY <1>1, <1>4 DEF TypeOK, connVars
<1>5. CASE /\ BeginOfflining \/ (sess = "offlining" /\ UNCHANGED connVars)
           /\ UNCHANGED queue
  BY <1>1, <1>5, OffliningTypes
<1> QED
  BY <1>3, <1>4, <1>5 DEF Send

\* trySendNoWait of an answer.
LEMMA TrySendTypes ==
    ASSUME TypeOK, NEW a \in Answer, TrySend(a)
    PROVE  /\ queue' \in Seq(Answer) /\ Len(queue') <= QueueCap
           /\ queue' = queue \/ queue' = Append(queue, a)
<1>1. queue \in Seq(Answer) /\ Len(queue) \in Nat /\ Len(queue) <= QueueCap
  BY DEF TypeOK
<1>2. Append(queue, a) \in Seq(Answer) /\ Len(Append(queue, a)) = Len(queue) + 1
  BY <1>1, Appended
<1> QED
  BY <1>1, <1>2, ConnAssumption DEF TrySend

\* The frame at the head of the wire.
LEMMA FrameRead ==
    ASSUME TypeInv, wire # <<>>
    PROVE  /\ Head(wire) \in Frame /\ Head(wire).n \in 0 .. MaxReq /\ Head(wire).seq \in 0 .. MaxReq
           /\ Head(wire) # NoFrame => Head(wire).n \in 1 .. MaxReq
           /\ Tail(wire) \in Seq(Frame) /\ Len(Tail(wire)) <= WireCap
           /\ \A i \in DOMAIN Tail(wire) : Tail(wire)[i].n = 0 => Tail(wire)[i].seq = 0
<1>1. wire \in Seq(Frame) /\ Len(wire) <= WireCap
  BY DEF TypeInv, TypeOK
<1>2. /\ Head(wire) \in Frame /\ Tail(wire) \in Seq(Frame) /\ Len(wire) \in Nat
      /\ Len(Tail(wire)) = Len(wire) - 1
      /\ 1 \in DOMAIN wire /\ Head(wire) = wire[1]
      /\ \A i \in DOMAIN Tail(wire) : i + 1 \in DOMAIN wire /\ Tail(wire)[i] = wire[i + 1]
  BY <1>1, Tailed
<1>3. Head(wire).n \in 0 .. MaxReq /\ Head(wire).seq \in 0 .. MaxReq
  BY <1>2 DEF Frame
<1>4. ASSUME Head(wire) # NoFrame PROVE Head(wire).n # 0
  <2>1. Head(wire).n = 0 => Head(wire).seq = 0
    BY <1>2 DEF TypeInv, Shaped
  <2> QED
    BY <1>2, <1>4, <2>1 DEF Frame, NoFrame
<1> QED
  BY <1>1, <1>2, <1>3, <1>4, ConnAssumption DEF TypeInv, Shaped

\* Initially nothing has been sent.
THEOREM TypeInit == Init => TypeInv
<1> SUFFICES ASSUME Init PROVE TypeInv
  OBVIOUS
<1>1. /\ MaxReq \in Nat \ {0} /\ ReqCap \in Nat /\ QueueCap \in Nat /\ WireCap \in Nat
      /\ NoFrame \in Frame
  BY ConnAssumption DEF Frame, NoFrame
<1>2. inbox \in Seq(1 .. MaxReq) /\ queue \in Seq(Answer) /\ wire \in Seq(Frame) /\ back \in Seq(Answer)
      /\ Len(inbox) = 0 /\ Len(queue) = 0 /\ Len(wire) = 0 /\ DOMAIN wire = {}
  BY Empty DEF Init
<1>3. TypeOK
  <2>1. /\ lastSeq \in 0 .. MaxReq /\ work \in 0 .. MaxReq /\ next \in 1 .. (MaxReq + 1)
        /\ macSeq \in 0 .. MaxReq /\ rejected \in Frame /\ sending \in [Sender -> Frame]
    BY <1>1 DEF Init
  <2>2. Len(inbox) <= ReqCap /\ Len(queue) <= QueueCap /\ Len(wire) <= WireCap
    BY <1>1, <1>2
  <2> QED
    BY <1>2, <2>1, <2>2 DEF Init, TypeOK
<1>4. Shaped
  BY <1>2 DEF Init, Shaped, NoFrame
<1> QED
  BY <1>3, <1>4 DEF TypeInv

\* Every step keeps the types.
THEOREM TypeStep == TypeInv /\ [Next]_vars => TypeInv'
<1> SUFFICES ASSUME TypeInv, [Next]_vars PROVE TypeInv'
  OBVIOUS
<1>0. TypeOK /\ Shaped
  BY DEF TypeInv
<1> USE <1>0, ConnAssumption DEF TypeInv, connVars, macVars, logicVars, clientVars
<1>1. ASSUME NEW s \in Sender, PrepareFrame(s) PROVE TypeInv'
  <2> DEFINE f == [n |-> next, seq |-> IF keyed' THEN macSeq' ELSE 0]
  <2>1. /\ macSeq' \in 0 .. MaxReq /\ macSeq' < next' /\ next' \in 1 .. (MaxReq + 1)
        /\ keyed' \in BOOLEAN /\ hasty' \in BOOLEAN
    BY <1>1 DEF PrepareFrame, TypeOK, Shaped, LoggedIn
  <2>2. f \in Frame /\ f.n # 0
    BY <1>1, <2>1 DEF PrepareFrame, TypeOK, Frame
  <2>3. sending' = [sending EXCEPT ![s] = f]
    BY <1>1 DEF PrepareFrame
  <2> HIDE DEF f
  <2>4. sending' \in [Sender -> Frame] /\ \A t \in Sender : sending'[t] = IF t = s THEN f ELSE sending[t]
    BY <2>2, <2>3 DEF TypeOK
  <2>5. TypeOK'
    BY <1>1, <2>1, <2>4 DEF PrepareFrame, TypeOK
  <2>6. Shaped'
    BY <1>1, <2>1, <2>2, <2>4 DEF PrepareFrame, Shaped
  <2> QED
    BY <2>5, <2>6
<1>2. ASSUME NEW s \in Sender, WriteRequest(s) PROVE TypeInv'
  <2>1. sending[s] \in Frame /\ NoFrame \in Frame
    BY <1>0 DEF TypeOK, Frame, NoFrame
  <2>2. /\ sending' \in [Sender -> Frame]
        /\ \A t \in Sender : sending'[t] = IF t = s THEN NoFrame ELSE sending[t]
    BY <1>2, <2>1 DEF WriteRequest, TypeOK
  <2>3. /\ wire' \in Seq(Frame) /\ Len(wire') <= WireCap
        /\ \A i \in DOMAIN wire' : wire'[i].n = 0 => wire'[i].seq = 0
    <3>1. CASE Len(wire) < WireCap /\ wire' = Append(wire, sending[s])
      <4>1. wire \in Seq(Frame)
        BY DEF TypeOK
      <4>2. wire' \in Seq(Frame) /\ Len(wire') <= WireCap
        BY <2>1, <3>1, <4>1, Appended
      <4>3. \A i \in DOMAIN wire' : wire'[i] = sending[s] \/ (i \in DOMAIN wire /\ wire'[i] = wire[i])
        BY <2>1, <3>1, <4>1, Appended
      <4> QED
        BY <4>2, <4>3 DEF Shaped
    <3>2. CASE UNCHANGED wire
      BY <3>2 DEF TypeOK, Shaped
    <3> QED
      BY <1>2, <3>1, <3>2 DEF WriteRequest
  <2>4. TypeOK'
    BY <1>2, <2>2, <2>3 DEF WriteRequest, TypeOK
  <2>5. Shaped'
    BY <1>2, <2>2, <2>3 DEF WriteRequest, Shaped, NoFrame
  <2> QED
    BY <2>4, <2>5
<1>3. ASSUME Heartbeat PROVE TypeInv'
  <2>1. wire \in Seq(Frame) /\ NoFrame \in Frame
    BY <1>0 DEF TypeOK, Frame, NoFrame
  <2>2. /\ wire' \in Seq(Frame) /\ Len(wire') <= WireCap
        /\ \A i \in DOMAIN wire' : wire'[i] = NoFrame \/ (i \in DOMAIN wire /\ wire'[i] = wire[i])
    BY <1>3, <2>1, Appended DEF Heartbeat
  <2>3. TypeOK'
    BY <1>3, <2>2 DEF Heartbeat, TypeOK
  <2>4. Shaped'
    BY <1>3, <2>2 DEF Heartbeat, Shaped, NoFrame
  <2> QED
    BY <2>3, <2>4
<1>4. ASSUME Leave PROVE TypeInv'
  BY <1>4 DEF Leave, TypeOK, Shaped
<1>5. ASSUME Close PROVE TypeInv'
  BY <1>5 DEF Close, TypeOK, Shaped
<1>6. ASSUME WriteFrame PROVE TypeInv'
  <2>1. /\ queue \in Seq(Answer) /\ queue # <<>> /\ back \in Seq(Answer)
        /\ Len(queue) <= QueueCap /\ queue' = Tail(queue)
        /\ back' = back \/ back' = Append(back, Head(queue))
    BY <1>6 DEF WriteFrame, TypeOK
  <2>2. Head(queue) \in Answer /\ Tail(queue) \in Seq(Answer) /\ Len(Tail(queue)) <= QueueCap
    BY <2>1, Tailed
  <2>3. back' \in Seq(Answer)
    <3>1. Append(back, Head(queue)) \in Seq(Answer)
      BY <2>1, <2>2
    <3> QED
      BY <2>1, <3>1
  <2>4. queue' \in Seq(Answer) /\ Len(queue') <= QueueCap /\ writer' \in {"run", "gone"}
    <3>1. writer' = writer \/ writer' = "gone"
      BY <1>6 DEF WriteFrame
    <3> QED
      BY <2>1, <2>2, <3>1 DEF TypeOK
  <2>5. UNCHANGED <<connVars, macVars, reader, logicVars, kick, wire, clientVars>>
    BY <1>6 DEF WriteFrame
  <2>6. TypeOK'
    BY <2>3, <2>4, <2>5 DEF TypeOK
  <2>7. Shaped'
    BY <1>6 DEF WriteFrame, Shaped
  <2> QED
    BY <2>6, <2>7
<1>7. ASSUME WriterStops PROVE TypeInv'
  BY <1>7 DEF WriterStops, TypeOK, Shaped
<1>8. ASSUME ReadHeartbeat PROVE TypeInv'
  <2>1. TypeOK'
    BY <1>8, FrameRead DEF ReadHeartbeat, ReaderTo, TypeOK
  <2>2. Shaped'
    BY <1>8, FrameRead DEF ReadHeartbeat, ReaderTo, Shaped
  <2> QED
    BY <2>1, <2>2
<1>9. ASSUME SendHeartbeat PROVE TypeInv'
  <2>1. [n |-> 0, kind |-> "beat"] \in Answer
    BY DEF Answer
  <2>2. TypeOK'
    BY <1>9, <2>1, SendTypes DEF SendHeartbeat, ReaderTo, TypeOK
  <2>3. Shaped'
    BY <1>9, <2>1, SendTypes DEF SendHeartbeat, ReaderTo, Shaped
  <2> QED
    BY <2>2, <2>3
<1>10. ASSUME ReadRequest PROVE TypeInv'
  <2> DEFINE f == Head(wire)
  <2>1. /\ f \in Frame /\ f.n \in 1 .. MaxReq /\ f.seq \in 0 .. MaxReq
        /\ wire' = Tail(wire) /\ Tail(wire) \in Seq(Frame) /\ Len(Tail(wire)) <= WireCap
        /\ \A i \in DOMAIN Tail(wire) : Tail(wire)[i].n = 0 => Tail(wire)[i].seq = 0
    BY <1>10, FrameRead DEF ReadRequest
  <2>2. [n |-> f.n, kind |-> "busy"] \in Answer
    BY <2>1 DEF Answer
  <2>3. /\ lastSeq' \in 0 .. MaxReq /\ rejected' \in Frame
        /\ reader' \in {"read", "beat", "closing", "cleanup", "wait", "gone"}
    BY <1>10, <2>1 DEF ReadRequest, ReaderTo, TypeOK
  <2>4. /\ inbox' \in Seq(1 .. MaxReq) /\ Len(inbox') <= ReqCap
        /\ queue' \in Seq(Answer) /\ Len(queue') <= QueueCap
    <3>1. CASE Len(inbox) < ReqCap /\ inbox' = Append(inbox, f.n) /\ UNCHANGED queue
      BY <2>1, <3>1, Appended DEF TypeOK
    <3>2. CASE TrySend([n |-> f.n, kind |-> "busy"]) /\ UNCHANGED inbox
      BY <2>2, <3>2, TrySendTypes DEF TypeOK
    <3>3. CASE UNCHANGED <<inbox, queue>>
      BY <3>3 DEF TypeOK
    <3> QED
      BY <1>10, <3>1, <3>2, <3>3 DEF ReadRequest
  <2>5. TypeOK'
    BY <1>10, <2>1, <2>3, <2>4 DEF ReadRequest, TypeOK
  <2>6. Shaped'
    BY <1>10, <2>1 DEF ReadRequest, Shaped
  <2> QED
    BY <2>5, <2>6
<1>11. ASSUME ReadError \/ ReaderResumes PROVE TypeInv'
  BY SMTT(30), <1>11 DEF ReadError, ReaderResumes, ReaderTo, TypeOK, Shaped
<1>12. ASSUME Cleanup PROVE TypeInv'
  <2>1. TypeOK'
    BY <1>12, OffliningTypes DEF Cleanup, ReaderTo, TypeOK
  <2>2. Shaped'
    BY <1>12, OffliningTypes DEF Cleanup, ReaderTo, Shaped
  <2> QED
    BY <2>1, <2>2
<1>13. ASSUME Take PROVE TypeInv'
  <2>1. /\ inbox \in Seq(1 .. MaxReq) /\ inbox # <<>> /\ Len(inbox) <= ReqCap
        /\ inbox' = Tail(inbox)
    BY <1>13 DEF Take, TypeOK
  <2>2. Head(inbox) \in 1 .. MaxReq /\ Tail(inbox) \in Seq(1 .. MaxReq) /\ Len(Tail(inbox)) <= ReqCap
    BY <2>1, Tailed
  <2>3. [n |-> Head(inbox), kind |-> "busy"] \in Answer
    BY <2>2 DEF Answer
  <2>4. queue' \in Seq(Answer) /\ Len(queue') <= QueueCap
    BY <1>13, <2>3, TrySendTypes DEF Take, TypeOK
  <2>5. TypeOK'
    BY SMTT(30), <1>13, <2>1, <2>2, <2>4 DEF Take, LogicTo, TypeOK
  <2>6. Shaped'
    BY <1>13 DEF Take, Shaped
  <2> QED
    BY <2>5, <2>6
<1>14. ASSUME Reply \/ ReplyFails \/ LogicEnds PROVE TypeInv'
  BY SMTT(30), <1>14 DEF Reply, ReplyFails, LogicEnds, LogicTo, TypeOK, Shaped
<1>15. ASSUME SendAnswer PROVE TypeInv'
  <2>1. [n |-> work, kind |-> "ok"] \in Answer
    BY DEF TypeOK, Answer
  <2>2. TypeOK'
    BY <1>15, <2>1, SendTypes DEF SendAnswer, LogicTo, TypeOK
  <2>3. Shaped'
    BY <1>15, <2>1, SendTypes DEF SendAnswer, LogicTo, Shaped
  <2> QED
    BY <2>2, <2>3
<1>16. ASSUME DoLogin PROVE TypeInv'
  <2>1. TypeOK'
    BY <1>16 DEF DoLogin, TryBeginLogin, DeriveKey, MarkOnline, TypeOK
  <2>2. Shaped'
    BY <1>16 DEF DoLogin, TryBeginLogin, DeriveKey, MarkOnline, Shaped, TypeOK
  <2> QED
    BY <2>1, <2>2
<1>17. ASSUME Kick PROVE TypeInv'
  BY <1>17 DEF Kick, KickTo, TypeOK, Shaped
<1>18. ASSUME SendNotice PROVE TypeInv'
  <2>1. [n |-> 0, kind |-> "kick"] \in Answer
    BY DEF Answer
  <2>2. TypeOK'
    BY <1>18, <2>1, SendTypes DEF SendNotice, KickTo, TypeOK
  <2>3. Shaped'
    BY <1>18, <2>1, SendTypes DEF SendNotice, KickTo, Shaped
  <2> QED
    BY <2>2, <2>3
<1>19. ASSUME KickOffline PROVE TypeInv'
  <2>1. TypeOK'
    BY <1>19, OffliningTypes DEF KickOffline, KickTo, TypeOK
  <2>2. Shaped'
    BY <1>19, OffliningTypes DEF KickOffline, KickTo, Shaped
  <2> QED
    BY <2>1, <2>2
<1>20. CASE UNCHANGED vars
  BY <1>20 DEF vars, TypeOK, Shaped
<1> QED
  BY <1>1, <1>2, <1>3, <1>4, <1>5, <1>6, <1>7, <1>8, <1>9, <1>10, <1>11, <1>12, <1>13, <1>14,
     <1>15, <1>16, <1>17, <1>18, <1>19, <1>20 DEF Next, ReaderStep, LogicStep, KickStep

\* The variables of GateConn keep their types, for any senders and bounds.
THEOREM TypeCorrect == Spec => []TypeOK
<1>1. TypeInv => TypeOK
  BY DEF TypeInv
<1> QED
  BY <1>1, TypeInit, TypeStep, PTL DEF Spec

-----------------------------------------------------------------------------
(* Authentication *)

\* Only a frame that checkInboundFrameAuth has passed reaches the channel.
THEOREM AuthenticatedStep ==
    ASSUME TypeInv, [Next]_vars, RequiresMAC, sess = "online", Len(inbox') > Len(inbox)
    PROVE  lastSeq' > lastSeq
<1>0. TypeOK /\ Shaped
  BY DEF TypeInv
<1>1. inbox \in Seq(1 .. MaxReq) /\ Len(inbox) \in Nat
  BY <1>0 DEF TypeOK
<1>2. CASE ReadRequest
  <2>1. /\ Head(wire).seq \in 0 .. MaxReq /\ lastSeq \in 0 .. MaxReq /\ key
    BY <1>0, <1>2, FrameRead DEF ReadRequest, TypeOK, Shaped
  <2>2. Authentic(Head(wire)) /\ lastSeq' = IF Head(wire).seq > 0 THEN Head(wire).seq ELSE lastSeq
    BY <1>1, <1>2 DEF ReadRequest
  <2> QED
    BY <2>1, <2>2, ConnAssumption DEF Authentic
<1>3. CASE Take
  <2>1. inbox # <<>> /\ inbox' = Tail(inbox)
    BY <1>3 DEF Take
  <2>2. Len(Tail(inbox)) = Len(inbox) - 1
    BY <1>1, <2>1, Tailed
  <2> QED
    BY <1>1, <2>1, <2>2
<1>4. CASE ~ReadRequest /\ ~Take
  <2>1. UNCHANGED inbox
    BY <1>4 DEF Next, ReaderStep, LogicStep, KickStep, PrepareFrame, WriteRequest, Heartbeat, Leave,
       Close, WriteFrame, WriterStops, ReadHeartbeat, SendHeartbeat, ReadError, Cleanup,
       ReaderResumes, Reply, ReplyFails, SendAnswer, LogicEnds, DoLogin, TryBeginLogin, DeriveKey,
       MarkOnline, Kick, SendNotice, KickOffline, vars, logicVars
  <2> QED
    BY <1>1, <2>1
<1> QED
  BY <1>2, <1>3, <1>4

\* From the moment a session is online, only authenticated requests reach the
\* services, for any number of senders and any capacities.
THEOREM AuthenticatedCorrect == Spec => OnlineIsAuthenticated
<1>1. TypeInv /\ [Next]_vars =>
          [(RequiresMAC /\ sess = "online" /\ Len(inbox') > Len(inbox)) => lastSeq' > lastSeq]_vars
  BY AuthenticatedStep
<1> QED
  BY <1>1, TypeInit, TypeStep, PTL DEF Spec, OnlineIsAuthenticated

-----------------------------------------------------------------------------
(* The invariant *)

\* The client sends with one goroutine.
OneSender == \A s, t \in Sender : s = t

\* What the gateway has yet to read.
Pending == {wire[i] : i \in DOMAIN wire} \cup {sending[s] : s \in Sender}

\* A frame made after another has a higher number, and a higher sequence number
\* if the first had one.
Later(f, g) == g.n > 0 => f.n < g.n /\ (f.seq > 0 => f.seq < g.seq)

\* Frames arrive in the order they were made.
WireOrder ==
    \A i \in DOMAIN wire : wire[i].n > 0 =>
        /\ \A j \in DOMAIN wire : i < j => Later(wire[i], wire[j])
        /\ \A s \in Sender : Later(wire[i], sending[s])

\* A frame yet to be read: it is authenticated with a fresh number exactly if
\* the client has its key, and it comes after the login that has begun.
Fresh(f) ==
    /\ f.n = 0 => f.seq = 0
    /\ f.n < next /\ f.seq <= macSeq
    /\ f.seq > 0 => keyed /\ f.seq > lastSeq
    /\ f.n > LoginNo /\ RequiresMAC /\ ~hasty => f.seq > 0
    /\ f.n > 0 /\ doLogin # "no" => f.n > LoginNo

Frames ==
    /\ \A f \in Pending : Fresh(f)
    /\ WireOrder
    /\ lastSeq <= macSeq /\ (macSeq > 0 => keyed)

\* Request n is before all that the gateway has yet to read.
Passed(n) == n < next /\ \A f \in Pending : f.n > 0 => n < f.n

Busy == logic \in {"rpc", "answer"}

\* The requests the gateway holds are handled in their order.
Handling ==
    /\ \A i \in DOMAIN inbox : /\ Passed(inbox[i])
                               /\ \A j \in DOMAIN inbox : i < j => inbox[i] < inbox[j]
    /\ Busy => /\ work > 0 /\ Passed(work)
               /\ \A i \in DOMAIN inbox : work < inbox[i]

\* An answer is to no request that is still held, and a service's answer is to
\* one before all of them.
Settled(a) ==
    /\ a.kind \in {"beat", "kick"} => a.n = 0
    /\ a.kind = "ok" => a.n > 0
    /\ a.n > 0 =>
          /\ Passed(a.n)
          /\ Busy => a.n # work /\ (a.kind = "ok" => a.n < work)
          /\ \A i \in DOMAIN inbox : a.n # inbox[i] /\ (a.kind = "ok" => a.n < inbox[i])

\* One answer precedes another.
Before(a, b) ==
    /\ a.n > 0 => a.n # b.n
    /\ a.kind = "ok" /\ b.kind = "ok" => a.n < b.n

Answering ==
    /\ \A i \in DOMAIN back : /\ Settled(back[i])
                              /\ \A j \in DOMAIN back : i < j => Before(back[i], back[j])
                              /\ \A j \in DOMAIN queue : Before(back[i], queue[j])
    /\ \A i \in DOMAIN queue : /\ Settled(queue[i])
                               /\ \A j \in DOMAIN queue : i < j => Before(queue[i], queue[j])

\* The session's state, the login and its key.
SessionKey ==
    /\ sess = "loggingIn" => doLogin \in {"key", "mark"}
    /\ sess = "online" => doLogin = "ok"
    /\ doLogin = "ok" => sess \in {"online", "offlining"}
    /\ doLogin \in {"mark", "ok"} => key = RequiresMAC

\* There is one login, and its answer means that it has succeeded.
LoginAnswer(a) == a.kind = "ok" /\ a.n = LoginNo
OneLogin ==
    /\ doLogin # "no" => next > LoginNo /\ \A i \in DOMAIN inbox : inbox[i] > LoginNo
    /\ logic = "rpc" /\ work = LoginNo => doLogin # "no"
    /\ logic = "answer" /\ work = LoginNo => doLogin = "ok"
    /\ \A i \in DOMAIN back : LoginAnswer(back[i]) => doLogin = "ok"
    /\ \A i \in DOMAIN queue : LoginAnswer(queue[i]) => doLogin = "ok"
    /\ keyed => RequiresMAC /\ doLogin = "ok"

ConnInv == TypeInv /\ Frames /\ Handling /\ Answering /\ SessionKey /\ OneLogin /\ HonestIsAccepted

-----------------------------------------------------------------------------
(* The frames *)

\* What the client and the wire hold are frames.
LEMMA FrameTypes ==
    ASSUME TypeOK
    PROVE  /\ \A i \in DOMAIN wire : wire[i] \in Frame /\ wire[i].n \in Nat /\ wire[i].seq \in Nat
           /\ \A s \in Sender : sending[s] \in Frame /\ sending[s].n \in Nat /\ sending[s].seq \in Nat
           /\ Pending \subseteq Frame /\ \A f \in Pending : f.n \in Nat /\ f.seq \in Nat
<1>1. \A f \in Frame : f.n \in Nat /\ f.seq \in Nat
  BY ConnAssumption DEF Frame
<1>2. wire \in Seq(Frame) /\ sending \in [Sender -> Frame]
  BY DEF TypeOK
<1>3. \A i \in DOMAIN wire : wire[i] \in Frame
  BY <1>2
<1> QED
  BY <1>1, <1>2, <1>3 DEF Pending

\* The counters of the client and the gateway.
LEMMA CounterTypes ==
    ASSUME TypeOK
    PROVE  next \in Nat /\ macSeq \in Nat /\ lastSeq \in Nat /\ LoginNo \in Nat /\ work \in Nat
  BY ConnAssumption DEF TypeOK

\* A frame stays fresh while no other is read and no login begins.
LEMMA FreshKept ==
    ASSUME TypeOK, TypeOK', NEW g, g.n \in Nat, g.seq \in Nat, Fresh(g),
           next' >= next, macSeq' >= macSeq, keyed => keyed', hasty => hasty',
           lastSeq' = lastSeq, doLogin' # "no" => doLogin # "no"
    PROVE  Fresh(g)'
<1>1. /\ next \in Nat /\ macSeq \in Nat /\ lastSeq \in Nat /\ LoginNo \in Nat
      /\ next' \in Nat /\ macSeq' \in Nat /\ hasty \in BOOLEAN /\ hasty' \in BOOLEAN
      /\ keyed \in BOOLEAN /\ keyed' \in BOOLEAN
  BY ConnAssumption DEF TypeOK
<1> QED
  BY <1>1 DEF Fresh

\* Most steps leave the frames and their numbers alone.
LEMMA FramesAlone ==
    ASSUME [Next]_vars, ~\E s \in Sender : PrepareFrame(s) \/ WriteRequest(s),
           ~Heartbeat, ~ReadHeartbeat, ~ReadRequest
    PROVE  /\ UNCHANGED <<wire, sending, next, macSeq, keyed, lastSeq, hasty, rejected>>
           /\ ~Take => (doLogin' # "no" => doLogin # "no")
<1> USE DEF connVars, macVars, logicVars, clientVars
<1>1. CASE Leave \/ Close \/ WriteFrame \/ WriterStops
  BY <1>1 DEF Leave, Close, WriteFrame, WriterStops
<1>2. CASE SendHeartbeat \/ ReadError \/ Cleanup \/ ReaderResumes
  BY <1>2 DEF SendHeartbeat, ReadError, Cleanup, ReaderResumes
<1>3. CASE LogicStep
  BY <1>3 DEF LogicStep, Take, Reply, ReplyFails, SendAnswer, LogicEnds
<1>4. CASE DoLogin
  BY <1>4 DEF DoLogin, TryBeginLogin, DeriveKey, MarkOnline
<1>5. CASE Kick \/ KickStep
  BY <1>5 DEF Kick, KickStep, SendNotice, KickOffline
<1>6. CASE UNCHANGED vars
  BY <1>6 DEF vars
<1> QED
  BY <1>1, <1>2, <1>3, <1>4, <1>5, <1>6 DEF Next, ReaderStep

\* The frame that is made is fresh, and the others stay so.
LEMMA PrepareFrameStep ==
    ASSUME ConnInv, TypeInv', NEW s \in Sender, PrepareFrame(s)
    PROVE  /\ Frames'
           /\ next' > next /\ \A f \in Pending' : f \in Pending \/ f.n = next
<1>. PICK f : f = [n |-> next, seq |-> IF keyed' THEN macSeq' ELSE 0]
  OBVIOUS
<1>0. TypeOK /\ TypeOK' /\ Frames /\ OneLogin /\ Shaped /\ Shaped'
  BY DEF ConnInv, TypeInv
<1>1. /\ next' = next + 1 /\ sending' = [sending EXCEPT ![s] = f]
      /\ macSeq' = IF keyed' THEN macSeq + 1 ELSE macSeq
      /\ hasty' = (hasty \/ (next > LoginNo /\ ~LoggedIn))
      /\ keyed' = (keyed \/ (LoggedIn /\ RequiresMAC))
      /\ UNCHANGED <<wire, lastSeq, doLogin>>
  BY DEF PrepareFrame, macVars, logicVars
<1>2. /\ next \in Nat /\ macSeq \in Nat /\ lastSeq \in Nat /\ LoginNo \in Nat
      /\ lastSeq <= macSeq /\ macSeq < next /\ macSeq' >= macSeq /\ macSeq' \in Nat
      /\ next \in Nat \ {0}
  BY <1>0, <1>1, CounterTypes DEF Frames, Shaped, TypeOK
<1>10. /\ (keyed => keyed') /\ (hasty => hasty') /\ (macSeq' > 0 => keyed')
       /\ (next > LoginNo /\ RequiresMAC /\ ~hasty' => keyed')
  <2>1. /\ (keyed => keyed') /\ (hasty => hasty')
        /\ (next > LoginNo /\ RequiresMAC /\ ~hasty' => keyed')
    BY <1>1, Zenon
  <2>2. macSeq > 0 => keyed
    BY <1>0 DEF Frames
  <2> QED
    BY <1>1, <1>2, <2>1, <2>2
<1>3. f.n = next /\ f.seq = IF keyed' THEN macSeq' ELSE 0
  OBVIOUS
<1>4. \A t \in Sender : sending'[t] = IF t = s THEN f ELSE sending[t]
  BY <1>0, <1>1 DEF TypeOK
<1>5. Pending' \subseteq Pending \cup {f}
  BY <1>1, <1>4 DEF Pending
<1>6. Fresh(f)'
  <2>1. LoggedIn => doLogin = "ok"
    BY <1>0 DEF LoggedIn, OneLogin, LoginAnswer
  <2>2. doLogin # "no" => next > LoginNo
    BY <1>0 DEF OneLogin
  <2>3. f.n < next' /\ f.n # 0 /\ f.seq <= macSeq' /\ (f.seq > 0 => keyed' /\ f.seq > lastSeq')
    BY <1>1, <1>2, <1>3
  <2>4. f.n > LoginNo /\ RequiresMAC /\ ~hasty' => f.seq > 0
    BY <1>1, <1>2, <1>3, <1>10
  <2> QED
    BY <1>1, <1>2, <1>3, <2>2, <2>3, <2>4 DEF Fresh
<1>7. \A g \in Pending : Fresh(g)'
  <2> SUFFICES ASSUME NEW g \in Pending PROVE Fresh(g)'
    OBVIOUS
  <2>1. g.n \in Nat /\ g.seq \in Nat /\ Fresh(g)
    BY <1>0, FrameTypes DEF Frames
  <2>2. next' >= next /\ macSeq' >= macSeq /\ lastSeq' = lastSeq /\ doLogin' = doLogin
    BY <1>1, <1>2
  <2>3. (keyed => keyed') /\ (hasty => hasty')
    BY <1>10
  <2> QED
    BY <1>0, <2>1, <2>2, <2>3, FreshKept
<1>8. WireOrder'
  <2>1. \A i \in DOMAIN wire : wire[i] \in Pending /\ wire[i].n \in Nat /\ wire[i].seq \in Nat
    BY <1>0, FrameTypes DEF Pending
  <2>2. ASSUME NEW i \in DOMAIN wire PROVE Later(wire[i], f)
    <3>1. Fresh(wire[i])
      BY <1>0, <2>1 DEF Frames
    <3>2. /\ wire[i].n < next /\ wire[i].seq <= macSeq
          /\ (wire[i].seq > 0 => keyed)
      BY <3>1 DEF Fresh
    <3> QED
      BY <1>1, <1>2, <1>3, <1>10, <2>1, <3>2 DEF Later
  <2> QED
    BY <1>0, <1>1, <1>4, <2>2 DEF WireOrder, Frames, Later
<1>9. Frames'
  <2>1. \A g \in Pending' : Fresh(g)'
    BY <1>5, <1>6, <1>7
  <2>2. lastSeq' <= macSeq'
    BY <1>1, <1>2
  <2>3. macSeq' > 0 => keyed'
    BY <1>10
  <2> QED
    BY <1>8, <2>1, <2>2, <2>3 DEF Frames
<1> QED
  BY <1>1, <1>2, <1>3, <1>5, <1>9

\* A frame that is put on the wire comes after those that are there.
LEMMA WriteRequestStep ==
    ASSUME OneSender, ConnInv, TypeInv', NEW s \in Sender, WriteRequest(s)
    PROVE  /\ Frames'
           /\ next' = next /\ \A f \in Pending' : f \in Pending \/ f = NoFrame
<1>0. TypeOK /\ TypeOK' /\ Frames /\ Shaped /\ Shaped'
  BY DEF ConnInv, TypeInv
<1>1. /\ sending' = [sending EXCEPT ![s] = NoFrame]
      /\ wire' = wire \/ wire' = Append(wire, sending[s])
      /\ UNCHANGED <<lastSeq, doLogin, next, macSeq, keyed, hasty>>
  BY DEF WriteRequest, macVars, logicVars
<1>2. \A t \in Sender : sending'[t] = NoFrame
  BY <1>0, <1>1 DEF TypeOK, OneSender
<1>3. /\ \A i \in DOMAIN wire' : i \in Nat
      /\ \A i \in DOMAIN wire' : IF i \in DOMAIN wire THEN i <= Len(wire) /\ wire'[i] = wire[i]
                                 ELSE i = Len(wire) + 1 /\ wire'[i] = sending[s]
      /\ Len(wire) \in Nat
  <2>1. wire \in Seq(Frame) /\ sending[s] \in Frame
    BY <1>0 DEF TypeOK
  <2>2. DOMAIN wire = 1 .. Len(wire) /\ Len(wire) \in Nat
    BY <2>1
  <2>3. CASE wire' = wire
    BY <2>2, <2>3
  <2>4. CASE wire' = Append(wire, sending[s])
    BY <2>1, <2>4, Appended
  <2> QED
    BY <1>1, <2>3, <2>4
<1>4. Pending' \subseteq Pending \cup {NoFrame}
  BY <1>2, <1>3 DEF Pending
<1>5. next \in Nat /\ macSeq \in Nat
  BY <1>0, CounterTypes
<1>6. \A g \in Pending : Fresh(g)'
  <2> SUFFICES ASSUME NEW g \in Pending PROVE Fresh(g)'
    OBVIOUS
  <2>1. g.n \in Nat /\ g.seq \in Nat /\ Fresh(g)
    BY <1>0, FrameTypes DEF Frames
  <2> QED
    BY <1>0, <1>1, <1>5, <2>1, FreshKept
<1>7. Fresh(NoFrame)'
  BY <1>0, <1>1, CounterTypes, ConnAssumption DEF Fresh, NoFrame, TypeOK
<1>8. WireOrder'
  <2> SUFFICES ASSUME NEW i \in DOMAIN wire', wire'[i].n > 0
               PROVE  /\ \A j \in DOMAIN wire' : i < j => Later(wire'[i], wire'[j])
                      /\ \A t \in Sender : Later(wire'[i], sending'[t])
    BY DEF WireOrder
  <2>1. \A t \in Sender : Later(wire'[i], sending'[t])
    BY <1>2 DEF Later, NoFrame
  <2>2. ASSUME NEW j \in DOMAIN wire', i < j PROVE Later(wire'[i], wire'[j])
    <3>1. i \in DOMAIN wire
      BY <1>3, <2>2
    <3>2. CASE j \in DOMAIN wire
      BY <1>0, <1>3, <2>2, <3>1, <3>2 DEF Frames, WireOrder
    <3>3. CASE j \notin DOMAIN wire
      BY <1>0, <1>3, <2>2, <3>1, <3>3 DEF Frames, WireOrder
    <3> QED
      BY <3>2, <3>3
  <2> QED
    BY <2>1, <2>2
<1>9. Frames'
  BY <1>0, <1>1, <1>4, <1>6, <1>7, <1>8 DEF Frames
<1> QED
  BY <1>1, <1>4, <1>9

\* A heartbeat has no number.
LEMMA HeartbeatStep ==
    ASSUME ConnInv, TypeInv', Heartbeat
    PROVE  /\ Frames'
           /\ next' = next /\ \A f \in Pending' : f \in Pending \/ f = NoFrame
<1>0. TypeOK /\ TypeOK' /\ Frames /\ Shaped /\ Shaped'
  BY DEF ConnInv, TypeInv
<1>1. /\ wire' = Append(wire, NoFrame)
      /\ UNCHANGED <<lastSeq, doLogin, next, macSeq, keyed, hasty, sending>>
  BY DEF Heartbeat, macVars, logicVars, clientVars
<1>2. /\ \A i \in DOMAIN wire' : i \in Nat
      /\ \A i \in DOMAIN wire' : IF i \in DOMAIN wire THEN i <= Len(wire) /\ wire'[i] = wire[i]
                                 ELSE i = Len(wire) + 1 /\ wire'[i] = NoFrame
      /\ Len(wire) \in Nat
  <2>1. wire \in Seq(Frame) /\ NoFrame \in Frame
    BY <1>0, ConnAssumption DEF TypeOK, NoFrame, Frame
  <2> QED
    BY <1>1, <2>1, Appended
<1>3. Pending' \subseteq Pending \cup {NoFrame}
  BY <1>1, <1>2 DEF Pending
<1>4. next \in Nat /\ macSeq \in Nat
  BY <1>0, CounterTypes
<1>5. \A g \in Pending : Fresh(g)'
  <2> SUFFICES ASSUME NEW g \in Pending PROVE Fresh(g)'
    OBVIOUS
  <2>1. g.n \in Nat /\ g.seq \in Nat /\ Fresh(g)
    BY <1>0, FrameTypes DEF Frames
  <2> QED
    BY <1>0, <1>1, <1>4, <2>1, FreshKept
<1>6. Fresh(NoFrame)'
  BY <1>0, <1>1, CounterTypes, ConnAssumption DEF Fresh, NoFrame, TypeOK
<1>7. WireOrder'
  <2> SUFFICES ASSUME NEW i \in DOMAIN wire', wire'[i].n > 0
               PROVE  /\ \A j \in DOMAIN wire' : i < j => Later(wire'[i], wire'[j])
                      /\ \A t \in Sender : Later(wire'[i], sending'[t])
    BY DEF WireOrder
  <2>1. i \in DOMAIN wire /\ wire'[i] = wire[i]
    BY <1>2 DEF NoFrame
  <2>2. \A j \in DOMAIN wire' : wire'[j] = NoFrame \/ (j \in DOMAIN wire /\ wire'[j] = wire[j])
    BY <1>2
  <2> QED
    BY <1>0, <1>1, <2>1, <2>2 DEF Frames, WireOrder, Later, NoFrame
<1>8. Frames'
  BY <1>0, <1>1, <1>3, <1>5, <1>6, <1>7 DEF Frames
<1> QED
  BY <1>1, <1>3, <1>8

\* A frame that is read comes before all that are left.
LEMMA ReadStep ==
    ASSUME ConnInv, TypeInv', ReadHeartbeat \/ ReadRequest
    PROVE  /\ Frames'
           /\ next' = next /\ Pending' \subseteq Pending
           /\ \E f \in Pending : f = Head(wire) /\ (f.n > 0 => Passed(f.n)')
<1>0. TypeOK /\ TypeOK' /\ Frames /\ Shaped /\ Shaped'
  BY DEF ConnInv, TypeInv
<1>1. /\ wire # <<>> /\ wire' = Tail(wire)
      /\ lastSeq' = lastSeq \/ (lastSeq' = Head(wire).seq /\ Head(wire).seq > 0)
      /\ UNCHANGED <<doLogin, next, macSeq, keyed, hasty, sending>>
  BY DEF ReadHeartbeat, ReadRequest, macVars, logicVars, clientVars
<1>2. /\ 1 \in DOMAIN wire /\ Head(wire) = wire[1]
      /\ \A i \in DOMAIN wire' : i \in Nat /\ i + 1 \in DOMAIN wire /\ 1 < i + 1 /\ wire'[i] = wire[i + 1]
  <2>1. wire \in Seq(Frame)
    BY <1>0 DEF TypeOK
  <2> QED
    BY <1>1, <2>1, Tailed
<1>3. Pending' \subseteq Pending /\ Head(wire) \in Pending
  BY <1>1, <1>2 DEF Pending
<1>4. Head(wire).n \in Nat /\ Head(wire).seq \in Nat /\ Fresh(Head(wire))
  BY <1>0, <1>3, FrameTypes DEF Frames
<1>5. Head(wire).n > 0 => \A g \in Pending' : Later(Head(wire), g)
  BY <1>0, <1>1, <1>2 DEF Pending, Frames, WireOrder
<1>6. next \in Nat /\ macSeq \in Nat /\ lastSeq \in Nat
  BY <1>0, CounterTypes
<1>7. ASSUME NEW g \in Pending' PROVE Fresh(g)'
  <2>1. g.n \in Nat /\ g.seq \in Nat /\ Fresh(g)
    BY <1>0, <1>3, FrameTypes DEF Frames
  <2>2. g.seq > 0 => g.seq > lastSeq'
    <3>1. CASE lastSeq' = lastSeq
      BY <2>1, <3>1 DEF Fresh
    <3>2. CASE lastSeq' = Head(wire).seq /\ Head(wire).seq > 0
      BY <1>4, <1>5, <2>1, <3>2 DEF Fresh, Later
    <3> QED
      BY <1>1, <3>1, <3>2
  <2> QED
    BY <1>1, <2>1, <2>2 DEF Fresh
<1>8. WireOrder'
  <2> SUFFICES ASSUME NEW i \in DOMAIN wire', wire'[i].n > 0
               PROVE  /\ \A j \in DOMAIN wire' : i < j => Later(wire'[i], wire'[j])
                      /\ \A t \in Sender : Later(wire'[i], sending'[t])
    BY DEF WireOrder
  <2>1. \A j \in DOMAIN wire' : i < j => i + 1 < j + 1
    BY <1>2
  <2> QED
    BY <1>0, <1>1, <1>2, <2>1 DEF Frames, WireOrder
<1>9. lastSeq' <= macSeq
  BY <1>0, <1>1, <1>4, <1>6 DEF Frames, Fresh
<1>10. Frames'
  BY <1>0, <1>1, <1>7, <1>8, <1>9 DEF Frames
<1>11. \E f \in Pending : f = Head(wire) /\ (f.n > 0 => Passed(f.n)')
  <2> PICK f \in Pending : f = Head(wire)
    BY <1>3
  <2> QED
    BY <1>1, <1>4, <1>5 DEF Passed, Fresh, Later
<1> QED
  BY <1>1, <1>3, <1>10, <1>11

\* Every step keeps the frames in order and fresh.
THEOREM FramesStep ==
    ASSUME OneSender, ConnInv, [Next]_vars
    PROVE  /\ Frames'
           /\ next' >= next /\ \A f \in Pending' : f \in Pending \/ f.n = 0 \/ f.n = next
<1>0. TypeOK /\ TypeOK' /\ Frames /\ TypeInv' /\ next \in Nat
  BY TypeStep, CounterTypes DEF ConnInv, TypeInv
<1>1. CASE \E s \in Sender : PrepareFrame(s)
  BY SMTT(30), <1>0, <1>1, PrepareFrameStep DEF TypeOK
<1>2. CASE \E s \in Sender : WriteRequest(s)
  BY <1>0, <1>2, WriteRequestStep DEF NoFrame
<1>3. CASE Heartbeat
  BY <1>0, <1>3, HeartbeatStep DEF NoFrame
<1>4. CASE ReadHeartbeat \/ ReadRequest
  BY <1>0, <1>4, ReadStep
<1>5. ASSUME UNCHANGED <<wire, sending, next, macSeq, keyed, lastSeq, hasty>>
      PROVE  Pending' = Pending /\ next' >= next
  BY <1>0, <1>5 DEF Pending
<1>6. CASE Take
  <2>1. UNCHANGED <<wire, sending, next, macSeq, keyed, lastSeq, hasty>>
    BY <1>6 DEF Take, macVars, clientVars
  <2>2. ASSUME NEW g \in Pending PROVE Fresh(g)'
    <3>1. g.n \in Nat /\ g.seq \in Nat /\ Fresh(g)
      BY <1>0, <2>2, FrameTypes DEF Frames
    <3>2. inbox # <<>> /\ (doLogin' = doLogin \/ Head(inbox) = LoginNo)
      BY <1>6 DEF Take
    <3>3. Head(inbox) = inbox[1] /\ 1 \in DOMAIN inbox
      BY <1>0, <3>2, Tailed DEF TypeOK
    <3>4. g.n > 0 => Head(inbox) < g.n
      BY <3>3 DEF ConnInv, Handling, Passed
    <3> QED
      BY <2>1, <3>1, <3>2, <3>4 DEF Fresh
  <2> QED
    BY <1>0, <1>5, <2>1, <2>2 DEF Frames, WireOrder
<1>7. CASE /\ ~\E s \in Sender : PrepareFrame(s) \/ WriteRequest(s)
           /\ ~Heartbeat /\ ~ReadHeartbeat /\ ~ReadRequest /\ ~Take
  <2>1. /\ UNCHANGED <<wire, sending, next, macSeq, keyed, lastSeq, hasty>>
        /\ doLogin' # "no" => doLogin # "no"
    BY <1>7, FramesAlone
  <2>2. \A g \in Pending : Fresh(g)'
    BY <1>0, <2>1 DEF Frames, Fresh
  <2> QED
    BY <1>0, <1>5, <2>1, <2>2 DEF Frames, WireOrder
<1> QED
  BY <1>1, <1>2, <1>3, <1>4, <1>6, <1>7

\* What is before all that the gateway has yet to read stays so.
LEMMA PassedKept ==
    ASSUME OneSender, ConnInv, [Next]_vars, NEW n \in Nat, Passed(n)
    PROVE  Passed(n)'
<1>1. next \in Nat /\ next' \in Nat
  BY SMTT(30), TypeStep, CounterTypes DEF ConnInv, TypeInv, TypeOK
<1>2. n < next /\ \A f \in Pending : f.n > 0 => n < f.n
  BY DEF Passed
<1>3. next' >= next /\ \A f \in Pending' : f \in Pending \/ f.n = 0 \/ f.n = next
  BY FramesStep
<1> QED
  BY <1>1, <1>2, <1>3 DEF Passed

-----------------------------------------------------------------------------
(* The requests *)

\* The logic goroutine becomes busy by taking a request.
LEMMA BusyStep ==
    ASSUME [Next]_vars, ~Take \/ ReadRequest
    PROVE  /\ Busy' => Busy /\ work' = work
           /\ logic' = "rpc" => logic = "rpc"
           /\ logic' = "answer" => logic = "answer" \/ (work = LoginNo => doLogin = "ok")
           /\ ~ReadRequest => inbox' = inbox
<1> USE DEF connVars, macVars, logicVars, clientVars
<1>1. CASE \E s \in Sender : PrepareFrame(s) \/ WriteRequest(s)
  BY <1>1 DEF PrepareFrame, WriteRequest, Busy
<1>2. CASE Heartbeat \/ Leave \/ Close \/ WriteFrame \/ WriterStops
  BY <1>2 DEF Heartbeat, Leave, Close, WriteFrame, WriterStops, Busy
<1>3. CASE ReadHeartbeat \/ SendHeartbeat \/ ReadRequest
  BY <1>3 DEF ReadHeartbeat, SendHeartbeat, ReadRequest, Busy
<1>4. CASE ReadError \/ Cleanup \/ ReaderResumes
  BY <1>4 DEF ReadError, Cleanup, ReaderResumes, Busy
<1>5. CASE Reply \/ ReplyFails \/ SendAnswer \/ LogicEnds
  BY <1>5 DEF Reply, ReplyFails, SendAnswer, LogicEnds, LogicTo, Busy
<1>6. CASE DoLogin
  BY <1>6 DEF DoLogin, TryBeginLogin, DeriveKey, MarkOnline, Busy
<1>7. CASE Kick \/ KickStep
  BY <1>7 DEF Kick, KickStep, SendNotice, KickOffline, Busy
<1>8. CASE UNCHANGED vars
  BY <1>8 DEF vars, Busy
<1> QED
  BY <1>1, <1>2, <1>3, <1>4, <1>5, <1>6, <1>7, <1>8 DEF Next, ReaderStep, LogicStep

\* The first request of the channel.
LEMMA RequestTaken ==
    ASSUME ConnInv, Take
    PROVE  /\ Head(inbox) \in 1 .. MaxReq /\ Head(inbox) \in Nat \ {0} /\ Head(inbox) = inbox[1]
           /\ 1 \in DOMAIN inbox /\ Passed(Head(inbox)) /\ inbox' = Tail(inbox)
           /\ \A i \in DOMAIN inbox' : /\ i + 1 \in DOMAIN inbox /\ inbox'[i] = inbox[i + 1]
                                       /\ inbox'[i] \in Nat /\ Passed(inbox'[i])
                                       /\ Head(inbox) < inbox'[i]
           /\ \A i, j \in DOMAIN inbox' : i < j => inbox'[i] < inbox'[j]
           /\ ~Busy
           /\ Busy' => work' = Head(inbox) /\ sess \in {"idle", "online"}
<1>1. inbox \in Seq(1 .. MaxReq) /\ inbox # <<>> /\ inbox' = Tail(inbox)
  BY DEF ConnInv, TypeInv, TypeOK, Take
<1>2. /\ Head(inbox) \in 1 .. MaxReq /\ Head(inbox) = inbox[1] /\ 1 \in DOMAIN inbox
      /\ \A i \in DOMAIN inbox' : i \in Nat /\ i + 1 \in DOMAIN inbox /\ 1 < i + 1 /\ inbox'[i] = inbox[i + 1]
  BY <1>1, Tailed
<1>3. \A i \in DOMAIN inbox : inbox[i] \in 1 .. MaxReq
  BY <1>1, Elements
<1>4. \A i \in DOMAIN inbox : inbox[i] \in Nat \ {0}
  BY <1>3, ConnAssumption
<1>5. \A i \in DOMAIN inbox : Passed(inbox[i]) /\ \A j \in DOMAIN inbox : i < j => inbox[i] < inbox[j]
  BY DEF ConnInv, Handling
<1>6. \A i, j \in DOMAIN inbox' : i < j => inbox'[i] < inbox'[j]
  <2> SUFFICES ASSUME NEW i \in DOMAIN inbox', NEW j \in DOMAIN inbox', i < j
               PROVE  inbox'[i] < inbox'[j]
    OBVIOUS
  <2>1. i + 1 < j + 1
    BY <1>2
  <2> QED
    BY <1>2, <1>5, <2>1
<1>7. ~Busy /\ (Busy' => work' = Head(inbox) /\ sess \in {"idle", "online"})
  BY DEF Take, LogicTo, Busy
<1> QED
  BY <1>1, <1>2, <1>4, <1>5, <1>6, <1>7

\* The request that has been read.
LEMMA RequestRead ==
    ASSUME OneSender, ConnInv, [Next]_vars, ReadRequest
    PROVE  \E f \in Frame :
              /\ f = Head(wire) /\ f.n \in 1 .. MaxReq /\ f.n \in Nat \ {0} /\ f.seq \in Nat
              /\ Fresh(f) /\ Passed(f.n)' /\ \A n \in Nat : Passed(n) => n < f.n
<1>1. wire # <<>> /\ Head(wire) # NoFrame /\ TypeInv /\ TypeInv'
  BY TypeStep DEF ReadRequest, ConnInv
<1>2. PICK f \in Pending : f = Head(wire) /\ (f.n > 0 => Passed(f.n)')
  BY <1>1, ReadStep
<1>3. f \in Frame /\ f.n \in 1 .. MaxReq
  BY <1>1, <1>2, FrameRead
<1>4. f.n \in Nat \ {0} /\ f.seq \in Nat
  BY <1>3, ConnAssumption DEF Frame
<1>5. Fresh(f)
  BY <1>2 DEF ConnInv, Frames
<1>6. \A n \in Nat : Passed(n) => n < f.n
  BY <1>2, <1>4 DEF Passed
<1> QED
  BY <1>2, <1>3, <1>4, <1>5, <1>6

\* A request that is read is put behind those in the channel, or is not.
LEMMA RequestPut ==
    ASSUME OneSender, ConnInv, ReadRequest, NEW f \in Frame, f = Head(wire), f.n \in 1 .. MaxReq
    PROVE  \/ inbox' = inbox
           \/ /\ Len(inbox) \in Nat
              /\ \A i \in DOMAIN inbox' : i \in Nat
              /\ \A i \in DOMAIN inbox' : IF i \in DOMAIN inbox THEN i <= Len(inbox) /\ inbox'[i] = inbox[i]
                                          ELSE i = Len(inbox) + 1 /\ inbox'[i] = f.n
<1>1. inbox \in Seq(1 .. MaxReq)
  BY DEF ConnInv, TypeInv, TypeOK
<1>2. inbox' = inbox \/ inbox' = Append(inbox, f.n)
  BY DEF ReadRequest
<1> QED
  BY <1>1, <1>2, Appended

\* The types of what the gateway holds.
LEMMA HeldTypes ==
    ASSUME TypeOK
    PROVE  /\ \A i \in DOMAIN inbox : inbox[i] \in Nat \ {0}
           /\ work \in Nat
<1>1. inbox \in Seq(1 .. MaxReq)
  BY DEF TypeOK
<1>2. \A i \in DOMAIN inbox : inbox[i] \in 1 .. MaxReq
  BY <1>1, Elements
<1> QED
  BY <1>2, CounterTypes, ConnAssumption

\* Requests are handled in their order.
THEOREM HandlingStep ==
    ASSUME OneSender, ConnInv, [Next]_vars
    PROVE  Handling'
<1>0. TypeOK /\ TypeOK' /\ Handling
  BY TypeStep DEF ConnInv, TypeInv
<1>1. /\ \A i \in DOMAIN inbox : inbox[i] \in Nat \ {0} /\ Passed(inbox[i])
      /\ \A i, j \in DOMAIN inbox : i < j => inbox[i] < inbox[j]
      /\ Busy => work \in Nat \ {0} /\ Passed(work) /\ \A i \in DOMAIN inbox : work < inbox[i]
  BY <1>0, HeldTypes DEF Handling
<1>2. \A n \in Nat : Passed(n) => Passed(n)'
  BY PassedKept
<1>3. CASE Take
  <2>1. /\ Head(inbox) \in Nat \ {0} /\ Passed(Head(inbox))
        /\ \A i \in DOMAIN inbox' : inbox'[i] \in Nat /\ Passed(inbox'[i]) /\ Head(inbox) < inbox'[i]
        /\ \A i, j \in DOMAIN inbox' : i < j => inbox'[i] < inbox'[j]
        /\ Busy' => work' = Head(inbox)
    BY <1>3, RequestTaken
  <2>2. (\A i \in DOMAIN inbox : Passed(inbox[i]))'
    BY <1>2, <2>1
  <2> QED
    BY <1>2, <2>1, <2>2 DEF Handling
<1>4. CASE ReadRequest
  <2>1. PICK f \in Frame :
              /\ f = Head(wire) /\ f.n \in 1 .. MaxReq /\ f.n \in Nat \ {0}
              /\ Passed(f.n)' /\ \A n \in Nat : Passed(n) => n < f.n
    BY <1>4, RequestRead
  <2>2. Busy' => Busy /\ work' = work
    BY <1>4, BusyStep
  <2>3. CASE inbox' = inbox
    BY <1>1, <1>2, <2>2, <2>3 DEF Handling
  <2>4. CASE inbox' # inbox
    <3>1. /\ Len(inbox) \in Nat
          /\ \A i \in DOMAIN inbox' : i \in Nat
          /\ \A i \in DOMAIN inbox' : IF i \in DOMAIN inbox THEN i <= Len(inbox) /\ inbox'[i] = inbox[i]
                                      ELSE i = Len(inbox) + 1 /\ inbox'[i] = f.n
      BY <1>4, <2>1, <2>4, RequestPut
    <3>2. /\ \A i \in DOMAIN inbox : inbox[i] < f.n
          /\ Busy => work < f.n
      BY <1>1, <2>1
    <3>3. (\A i \in DOMAIN inbox : Passed(inbox[i]))'
      BY <1>1, <1>2, <2>1, <3>1
    <3>4. ASSUME NEW i \in DOMAIN inbox', NEW j \in DOMAIN inbox', i < j PROVE inbox'[i] < inbox'[j]
      <4>1. i \in DOMAIN inbox /\ inbox'[i] = inbox[i]
        BY <3>1, <3>4
      <4>2. CASE j \in DOMAIN inbox
        BY <1>1, <3>1, <3>4, <4>1, <4>2
      <4>3. CASE j \notin DOMAIN inbox
        BY <3>1, <3>2, <4>1, <4>3
      <4> QED
        BY <4>2, <4>3
    <3>5. Busy' => work' > 0 /\ Passed(work)' /\ \A i \in DOMAIN inbox' : work' < inbox'[i]
      <4> SUFFICES ASSUME Busy' PROVE work' > 0 /\ Passed(work)' /\ \A i \in DOMAIN inbox' : work' < inbox'[i]
        OBVIOUS
      <4>1. Busy /\ work' = work
        BY <2>2
      <4> QED
        BY <1>1, <1>2, <3>1, <3>2, <4>1
    <3> QED
      BY <3>3, <3>4, <3>5 DEF Handling
  <2> QED
    BY <2>3, <2>4
<1>5. CASE ~Take /\ ~ReadRequest
  <2>1. inbox' = inbox /\ (Busy' => Busy /\ work' = work)
    BY <1>5, BusyStep
  <2> QED
    BY <1>1, <1>2, <2>1 DEF Handling
<1> QED
  BY <1>3, <1>4, <1>5

-----------------------------------------------------------------------------
(* The login *)

\* What a step other than the login's own changes of a session.
LEMMA SessionAlone ==
    ASSUME TypeInv, [Next]_vars, ~Take, ~DoLogin
    PROVE  (sess' = sess \/ sess' = "offlining") /\ UNCHANGED <<doLogin, key>>
<1> USE DEF connVars, macVars, logicVars, clientVars
<1>0. TypeOK
  BY DEF TypeInv
<1>1. CASE \E s \in Sender : PrepareFrame(s) \/ WriteRequest(s)
  BY <1>1 DEF PrepareFrame, WriteRequest
<1>2. CASE Heartbeat \/ Leave \/ Close \/ WriteFrame \/ WriterStops
  BY <1>2 DEF Heartbeat, Leave, Close, WriteFrame, WriterStops
<1>3. CASE ReadHeartbeat \/ ReadRequest \/ ReadError \/ ReaderResumes
  BY <1>3 DEF ReadHeartbeat, ReadRequest, ReadError, ReaderResumes
<1>4. CASE Cleanup \/ KickOffline
  BY <1>0, <1>4, OffliningTypes DEF Cleanup, KickOffline
<1>5. ASSUME NEW a, Send(a) PROVE sess' = sess \/ sess' = "offlining"
  BY <1>5 DEF Send, BeginOfflining
<1>6. CASE SendHeartbeat \/ SendAnswer \/ SendNotice
  BY <1>5, <1>6 DEF SendHeartbeat, SendAnswer, SendNotice
<1>7. CASE Reply \/ ReplyFails \/ LogicEnds \/ Kick
  BY <1>7 DEF Reply, ReplyFails, LogicEnds, Kick
<1>8. CASE UNCHANGED vars
  BY <1>8 DEF vars
<1> QED
  BY <1>1, <1>2, <1>3, <1>4, <1>6, <1>7, <1>8 DEF Next, ReaderStep, LogicStep, KickStep

\* The session's state follows its login.
THEOREM SessionStep ==
    ASSUME ConnInv, [Next]_vars
    PROVE  SessionKey'
<1>0. TypeInv /\ TypeOK /\ SessionKey /\ OneLogin
  BY DEF ConnInv, TypeInv
<1>1. CASE Take
  <2>1. sess' = sess /\ key' = key
    BY <1>1 DEF Take, connVars, macVars
  <2>2. CASE doLogin' = doLogin
    BY <1>0, <2>1, <2>2 DEF SessionKey
  <2>3. CASE doLogin' # doLogin
    <3>1. Head(inbox) = LoginNo /\ doLogin' = "begin" /\ sess \in {"idle", "online"}
      BY <1>1, <2>3 DEF Take
    <3>2. Head(inbox) = inbox[1] /\ 1 \in DOMAIN inbox
      BY <1>1, RequestTaken
    <3>3. doLogin = "no"
      BY <1>0, <3>1, <3>2, CounterTypes DEF OneLogin
    <3> QED
      BY <1>0, <2>1, <3>1, <3>3 DEF SessionKey
  <2> QED
    BY <2>2, <2>3
<1>2. CASE DoLogin
  <2>1. CASE TryBeginLogin
    BY <1>0, <2>1 DEF TryBeginLogin, macVars, SessionKey
  <2>2. CASE DeriveKey
    BY <1>0, <2>2 DEF DeriveKey, connVars, SessionKey
  <2>3. CASE MarkOnline
    BY <1>0, <2>3 DEF MarkOnline, macVars, SessionKey
  <2> QED
    BY <1>2, <2>1, <2>2, <2>3 DEF DoLogin
<1>3. CASE ~Take /\ ~DoLogin
  <2>1. (sess' = sess \/ sess' = "offlining") /\ doLogin' = doLogin /\ key' = key
    BY <1>0, <1>3, SessionAlone
  <2> QED
    BY <1>0, <2>1 DEF SessionKey
<1> QED
  BY <1>1, <1>2, <1>3

\* A frame is refused only if a request overtook the answer to the login.
THEOREM AcceptedStep ==
    ASSUME OneSender, ConnInv, [Next]_vars
    PROVE  HonestIsAccepted'
<1>0. TypeInv /\ TypeOK /\ SessionKey /\ OneLogin /\ HonestIsAccepted
  BY DEF ConnInv, TypeInv
<1>1. CASE ReadRequest
  <2>1. PICK f \in Frame : f = Head(wire) /\ f.n \in Nat \ {0} /\ f.seq \in Nat /\ Fresh(f)
    BY <1>1, RequestRead
  <2>2. hasty' = hasty
    BY <1>1 DEF ReadRequest, clientVars
  <2>3. ASSUME ~Authentic(f), sess # "offlining" PROVE hasty
    <3>1. key \in BOOLEAN /\ LoginNo \in Nat /\ lastSeq \in Nat
      BY <1>0, CounterTypes DEF TypeOK
    <3>2. CASE sess = "online" /\ key
      <4>1. doLogin = "ok" /\ RequiresMAC
        BY <1>0, <3>2 DEF SessionKey
      <4>2. f.n > LoginNo
        BY <2>1, <4>1 DEF Fresh
      <4>3. f.seq = 0
        BY <2>1, <2>3, <3>1, <3>2 DEF Fresh, Authentic
      <4> QED
        BY <2>1, <4>1, <4>2, <4>3 DEF Fresh
    <3>3. CASE ~(sess = "online" /\ key)
      <4>1. f.seq > 0
        BY <2>1, <2>3, <3>3 DEF Authentic
      <4>2. keyed
        BY <2>1, <4>1 DEF Fresh
      <4>3. RequiresMAC /\ doLogin = "ok"
        BY <1>0, <4>2 DEF OneLogin
      <4> QED
        BY <1>0, <2>3, <3>3, <4>3 DEF SessionKey
    <3> QED
      BY <3>2, <3>3
  <2>4. rejected' = rejected \/ (~Authentic(f) /\ sess # "offlining")
    BY <1>1, <2>1 DEF ReadRequest
  <2> QED
    BY <1>0, <2>2, <2>3, <2>4 DEF HonestIsAccepted
<1>2. CASE \E s \in Sender : PrepareFrame(s)
  <2>1. rejected' = rejected /\ (hasty => hasty')
    BY <1>2 DEF PrepareFrame, macVars
  <2> QED
    BY <1>0, <2>1 DEF HonestIsAccepted
<1>3. CASE \E s \in Sender : WriteRequest(s)
  BY <1>0, <1>3 DEF WriteRequest, macVars, HonestIsAccepted
<1>4. CASE Heartbeat \/ ReadHeartbeat
  BY <1>0, <1>4 DEF Heartbeat, ReadHeartbeat, macVars, clientVars, HonestIsAccepted
<1>5. CASE /\ ~\E s \in Sender : PrepareFrame(s) \/ WriteRequest(s)
           /\ ~Heartbeat /\ ~ReadHeartbeat /\ ~ReadRequest
  <2>1. UNCHANGED <<rejected, hasty>>
    BY <1>5, FramesAlone
  <2> QED
    BY <1>0, <2>1 DEF HonestIsAccepted
<1> QED
  BY <1>1, <1>2, <1>3, <1>4, <1>5

-----------------------------------------------------------------------------
(* The answers *)

\* What a step does to the answers: nothing, a new one is queued that is settled
\* and comes after the others, or the first is taken and received or lost.
Queues(a) ==
    /\ back' = back /\ queue' = Append(queue, a)
    /\ a \in Answer
    /\ \A b \in Answer : Settled(b) => Before(b, a)
    /\ LoginAnswer(a) => doLogin' = "ok"
Writes ==
    /\ queue # <<>> /\ queue' = Tail(queue)
    /\ back' = back \/ back' = Append(back, Head(queue))

\* An answer that is settled stays so.
LEMMA SettledKept ==
    ASSUME OneSender, ConnInv, [Next]_vars, NEW a \in Answer, Settled(a)
    PROVE  Settled(a)'
<1>0. TypeOK /\ a.n \in Nat
  BY ConnAssumption DEF ConnInv, TypeInv, Answer
<1>1. a.n > 0 =>
          /\ Passed(a.n) /\ Passed(a.n)'
          /\ Busy => a.n # work /\ (a.kind = "ok" => a.n < work)
          /\ \A i \in DOMAIN inbox : a.n # inbox[i] /\ (a.kind = "ok" => a.n < inbox[i])
  BY <1>0, PassedKept DEF Settled
<1>2. a.n > 0 => /\ Busy' => a.n # work' /\ (a.kind = "ok" => a.n < work')
                 /\ \A i \in DOMAIN inbox' : a.n # inbox'[i] /\ (a.kind = "ok" => a.n < inbox'[i])
  <2> SUFFICES ASSUME a.n > 0
               PROVE  /\ Busy' => a.n # work' /\ (a.kind = "ok" => a.n < work')
                      /\ \A i \in DOMAIN inbox' : a.n # inbox'[i] /\ (a.kind = "ok" => a.n < inbox'[i])
    OBVIOUS
  <2>1. CASE Take
    <3>1. /\ 1 \in DOMAIN inbox /\ Head(inbox) = inbox[1]
          /\ \A i \in DOMAIN inbox' : i + 1 \in DOMAIN inbox /\ inbox'[i] = inbox[i + 1]
          /\ Busy' => work' = Head(inbox)
      BY <2>1, RequestTaken
    <3> QED
      BY <1>1, <3>1
  <2>2. CASE ReadRequest
    <3>1. PICK f \in Frame : /\ f = Head(wire) /\ f.n \in 1 .. MaxReq /\ f.n \in Nat \ {0}
                             /\ \A n \in Nat : Passed(n) => n < f.n
      BY <2>2, RequestRead
    <3>2. a.n < f.n
      BY <1>0, <1>1, <3>1
    <3>3. Busy' => Busy /\ work' = work
      BY <2>2, BusyStep
    <3>4. \/ inbox' = inbox
          \/ \A i \in DOMAIN inbox' : IF i \in DOMAIN inbox THEN inbox'[i] = inbox[i] ELSE inbox'[i] = f.n
      BY <2>2, <3>1, RequestPut
    <3>5. Busy' => a.n # work' /\ (a.kind = "ok" => a.n < work')
      BY <1>1, <3>3
    <3>6. \A i \in DOMAIN inbox' : a.n # inbox'[i] /\ (a.kind = "ok" => a.n < inbox'[i])
      BY <1>0, <1>1, <3>1, <3>2, <3>4
    <3> QED
      BY <3>5, <3>6
  <2>3. CASE ~Take /\ ~ReadRequest
    <3>1. inbox' = inbox /\ (Busy' => Busy /\ work' = work)
      BY <2>3, BusyStep
    <3> QED
      BY <1>1, <3>1
  <2> QED
    BY <2>1, <2>2, <2>3
<1> QED
  BY <1>1, <1>2 DEF Settled

\* An answer that is no reply and has no number, or that the queue refuses.
LEMMA QueuesNumberless ==
    ASSUME NEW a \in Answer, a.n = 0, a.kind \in {"beat", "kick"},
           back' = back, queue' = Append(queue, a)
    PROVE  Queues(a) /\ Settled(a)'
<1>1. \A b \in Answer : b.n > 0 => b.n # a.n
  BY ConnAssumption DEF Answer
<1> QED
  BY <1>1 DEF Queues, Before, LoginAnswer, Settled

\* The answers of the reader.
LEMMA ReaderQueues ==
    ASSUME OneSender, ConnInv, [Next]_vars, ReadRequest
    PROVE  UNCHANGED <<back, queue>> \/ \E a \in Answer : Queues(a) /\ Settled(a)'
<1>0. TypeOK
  BY DEF ConnInv, TypeInv
<1>1. PICK f \in Frame :
              /\ f = Head(wire) /\ f.n \in 1 .. MaxReq /\ f.n \in Nat \ {0}
              /\ Passed(f.n)' /\ \A n \in Nat : Passed(n) => n < f.n
  BY RequestRead
<1> PICK a : a = [n |-> f.n, kind |-> "busy"]
  OBVIOUS
<1>2. a \in Answer /\ a.n = f.n /\ a.kind = "busy"
  BY <1>1 DEF Answer
<1>3. back' = back /\ (queue' = queue \/ (queue' = Append(queue, a) /\ inbox' = inbox))
  BY <1>1 DEF ReadRequest, TrySend
<1>4. CASE queue' = Append(queue, a) /\ inbox' = inbox
  <2>1. /\ \A i \in DOMAIN inbox : inbox[i] \in Nat /\ inbox[i] < f.n
        /\ Busy => work \in Nat /\ work < f.n
    BY <1>0, <1>1, HeldTypes DEF ConnInv, Handling
  <2>2. Busy' => Busy /\ work' = work
    BY BusyStep
  <2>3. Settled(a)'
    BY <1>1, <1>2, <1>4, <2>1, <2>2 DEF Settled
  <2>4. \A b \in Answer : Settled(b) => Before(b, a)
    <3> SUFFICES ASSUME NEW b \in Answer, Settled(b), b.n > 0 PROVE b.n # a.n
      BY <1>2 DEF Before
    <3>1. b.n \in Nat /\ Passed(b.n)
      BY ConnAssumption DEF Answer, Settled
    <3> QED
      BY <1>1, <1>2, <3>1
  <2> QED
    BY <1>2, <1>3, <1>4, <2>3, <2>4 DEF Queues, LoginAnswer
<1> QED
  BY <1>3, <1>4

\* The answers of the logic goroutine: that it is busy with a login ...
LEMMA TakeQueues ==
    ASSUME OneSender, ConnInv, [Next]_vars, Take
    PROVE  UNCHANGED <<back, queue>> \/ \E a \in Answer : Queues(a) /\ Settled(a)'
<1> PICK a : a = [n |-> Head(inbox), kind |-> "busy"]
  OBVIOUS
<1>1. /\ Head(inbox) \in 1 .. MaxReq /\ Head(inbox) \in Nat \ {0} /\ Head(inbox) = inbox[1]
      /\ 1 \in DOMAIN inbox /\ Passed(Head(inbox))
      /\ \A i \in DOMAIN inbox' : inbox'[i] \in Nat /\ Head(inbox) < inbox'[i]
      /\ ~Busy
  BY RequestTaken
<1>2. a \in Answer /\ a.n = Head(inbox) /\ a.kind = "busy"
  BY <1>1 DEF Answer
<1>3. back' = back /\ (queue' = queue \/ (queue' = Append(queue, a) /\ UNCHANGED logic))
  BY DEF Take, TrySend
<1>4. CASE queue' = Append(queue, a) /\ UNCHANGED logic
  <2>1. ~Busy'
    BY <1>1, <1>4 DEF Busy
  <2>2. Passed(a.n)'
    BY <1>1, <1>2, PassedKept
  <2>3. Settled(a)'
    BY <1>1, <1>2, <2>1, <2>2 DEF Settled
  <2>4. \A b \in Answer : Settled(b) => Before(b, a)
    BY <1>1, <1>2 DEF Settled, Before
  <2> QED
    BY <1>2, <1>3, <1>4, <2>3, <2>4 DEF Queues, LoginAnswer
<1> QED
  BY <1>3, <1>4

\* ... and the replies of the services.
LEMMA AnswerQueues ==
    ASSUME OneSender, ConnInv, [Next]_vars, SendAnswer
    PROVE  UNCHANGED <<back, queue>> \/ \E a \in Answer : Queues(a) /\ Settled(a)'
<1> PICK a : a = [n |-> work, kind |-> "ok"]
  OBVIOUS
<1>0. TypeOK /\ Handling /\ OneLogin
  BY DEF ConnInv, TypeInv
<1>1. /\ Busy /\ work \in Nat \ {0} /\ Passed(work) /\ inbox' = inbox /\ doLogin' = doLogin
      /\ logic = "answer" /\ ~Busy'
      /\ \A i \in DOMAIN inbox : inbox[i] \in Nat /\ work < inbox[i]
  <2>1. logic = "answer" /\ logic' \in {"take", "closing"} /\ inbox' = inbox /\ doLogin' = doLogin
    BY DEF SendAnswer, LogicTo
  <2> QED
    BY <1>0, <2>1, HeldTypes DEF Busy, Handling
<1>2. a \in Answer /\ a.n = work /\ a.kind = "ok"
  BY <1>0 DEF Answer, TypeOK
<1>3. back' = back /\ (queue' = queue \/ queue' = Append(queue, a))
  BY DEF SendAnswer, Send
<1>4. CASE queue' = Append(queue, a)
  <2>1. Passed(a.n)'
    BY <1>1, <1>2, PassedKept
  <2>2. Settled(a)'
    BY <1>1, <1>2, <2>1 DEF Settled
  <2>3. \A b \in Answer : Settled(b) => Before(b, a)
    <3> SUFFICES ASSUME NEW b \in Answer, Settled(b) PROVE Before(b, a)
      OBVIOUS
    <3>1. b.n \in Nat /\ (b.n > 0 => b.n # work /\ (b.kind = "ok" => b.n < work))
      BY <1>1, ConnAssumption DEF Settled, Answer
    <3>2. b.kind = "ok" => b.n > 0
      BY DEF Settled
    <3> QED
      BY <1>1, <1>2, <3>1, <3>2 DEF Before
  <2>4. LoginAnswer(a) => doLogin' = "ok"
    BY <1>0, <1>1, <1>2 DEF OneLogin, LoginAnswer
  <2> QED
    BY <1>2, <1>3, <1>4, <2>2, <2>3, <2>4 DEF Queues
<1> QED
  BY <1>3, <1>4

\* Every step does one of these to the answers.
LEMMA QueueStep ==
    ASSUME OneSender, ConnInv, [Next]_vars
    PROVE  \/ UNCHANGED <<back, queue>>
           \/ \E a \in Answer : Queues(a) /\ Settled(a)'
           \/ Writes /\ UNCHANGED doLogin
<1> USE DEF connVars, macVars, logicVars, clientVars
<1>1. CASE ReadRequest
  BY <1>1, ReaderQueues
<1>2. CASE Take
  BY <1>2, TakeQueues
<1>3. CASE SendAnswer
  BY <1>3, AnswerQueues
<1>4. CASE SendHeartbeat
  <2>1. [n |-> 0, kind |-> "beat"] \in Answer
    BY ConnAssumption DEF Answer
  <2>2. back' = back /\ (queue' = queue \/ queue' = Append(queue, [n |-> 0, kind |-> "beat"]))
    BY <1>4 DEF SendHeartbeat, Send
  <2> QED
    BY <2>1, <2>2, QueuesNumberless
<1>5. CASE SendNotice
  <2>1. [n |-> 0, kind |-> "kick"] \in Answer
    BY ConnAssumption DEF Answer
  <2>2. back' = back /\ (queue' = queue \/ queue' = Append(queue, [n |-> 0, kind |-> "kick"]))
    BY <1>5 DEF SendNotice, Send
  <2> QED
    BY <2>1, <2>2, QueuesNumberless
<1>6. CASE WriteFrame
  BY <1>6 DEF WriteFrame, Writes
<1>7. CASE \E s \in Sender : PrepareFrame(s) \/ WriteRequest(s)
  BY <1>7 DEF PrepareFrame, WriteRequest
<1>8. CASE Heartbeat \/ Leave \/ Close \/ WriterStops
  BY <1>8 DEF Heartbeat, Leave, Close, WriterStops
<1>9. CASE ReadHeartbeat \/ ReadError \/ Cleanup \/ ReaderResumes
  BY <1>9 DEF ReadHeartbeat, ReadError, Cleanup, ReaderResumes
<1>10. CASE Reply \/ ReplyFails \/ LogicEnds
  BY <1>10 DEF Reply, ReplyFails, LogicEnds
<1>11. CASE DoLogin
  BY <1>11 DEF DoLogin, TryBeginLogin, DeriveKey, MarkOnline
<1>12. CASE Kick \/ KickOffline
  BY <1>12 DEF Kick, KickOffline
<1>13. CASE UNCHANGED vars
  BY <1>13 DEF vars
<1> QED
  BY <1>1, <1>2, <1>3, <1>4, <1>5, <1>6, <1>7, <1>8, <1>9, <1>10, <1>11, <1>12, <1>13
     DEF Next, ReaderStep, LogicStep, KickStep

\* Answers come once and in order.
THEOREM AnsweringStep ==
    ASSUME OneSender, ConnInv, [Next]_vars
    PROVE  Answering'
<1>0. TypeOK /\ Answering /\ queue \in Seq(Answer) /\ back \in Seq(Answer)
  BY DEF ConnInv, TypeInv, TypeOK
<1>1. /\ \A i \in DOMAIN back : back[i] \in Answer
      /\ \A i \in DOMAIN queue : queue[i] \in Answer
  BY <1>0
<1>2. \A a \in Answer : Settled(a) => Settled(a)'
  BY SettledKept
<1>3. /\ \A i \in DOMAIN back : Settled(back[i])
      /\ \A i \in DOMAIN queue : Settled(queue[i])
      /\ \A i, j \in DOMAIN back : i < j => Before(back[i], back[j])
      /\ \A i, j \in DOMAIN queue : i < j => Before(queue[i], queue[j])
      /\ \A i \in DOMAIN back, j \in DOMAIN queue : Before(back[i], queue[j])
  BY <1>0 DEF Answering
<1>4. CASE UNCHANGED <<back, queue>>
  BY <1>1, <1>2, <1>3, <1>4 DEF Answering
<1>5. CASE \E a \in Answer : Queues(a) /\ Settled(a)'
  <2>1. PICK a \in Answer : Queues(a) /\ Settled(a)'
    BY <1>5
  <2>2. back' = back /\ queue' = Append(queue, a) /\ \A b \in Answer : Settled(b) => Before(b, a)
    BY <2>1 DEF Queues
  <2>3. /\ Len(queue) \in Nat /\ \A i \in DOMAIN queue' : i \in Nat
        /\ \A i \in DOMAIN queue' : IF i \in DOMAIN queue THEN i <= Len(queue) /\ queue'[i] = queue[i]
                                    ELSE i = Len(queue) + 1 /\ queue'[i] = a
    BY <1>0, <2>2, Appended
  <2>4. (\A i \in DOMAIN queue : Settled(queue[i]))'
    BY <1>1, <1>2, <1>3, <2>1, <2>3
  <2>5. (\A i \in DOMAIN back : Settled(back[i]))'
    BY <1>1, <1>2, <1>3, <2>2
  <2>6. \A i, j \in DOMAIN queue' : i < j => Before(queue'[i], queue'[j])
    <3> SUFFICES ASSUME NEW i \in DOMAIN queue', NEW j \in DOMAIN queue', i < j
                 PROVE  Before(queue'[i], queue'[j])
      OBVIOUS
    <3>1. i \in DOMAIN queue /\ queue'[i] = queue[i]
      BY <2>3
    <3>2. CASE j \in DOMAIN queue
      BY <1>3, <2>3, <3>1, <3>2
    <3>3. CASE j \notin DOMAIN queue
      BY <1>1, <1>3, <2>2, <2>3, <3>1, <3>3
    <3> QED
      BY <3>2, <3>3
  <2>7. \A i \in DOMAIN back', j \in DOMAIN queue' : Before(back'[i], queue'[j])
    BY <1>1, <1>3, <2>2, <2>3
  <2> QED
    BY <1>3, <2>2, <2>4, <2>5, <2>6, <2>7 DEF Answering, Before
<1>6. CASE Writes
  <2>1. /\ queue # <<>> /\ queue' = Tail(queue)
        /\ back' = back \/ back' = Append(back, Head(queue))
    BY <1>6 DEF Writes
  <2>2. /\ Head(queue) \in Answer /\ 1 \in DOMAIN queue /\ Head(queue) = queue[1]
        /\ \A i \in DOMAIN queue' : i \in Nat /\ i + 1 \in DOMAIN queue /\ 1 < i + 1
                                    /\ queue'[i] = queue[i + 1]
    BY <1>0, <2>1, Tailed
  <2>3. /\ Len(back) \in Nat /\ \A i \in DOMAIN back' : i \in Nat
        /\ \A i \in DOMAIN back' : IF i \in DOMAIN back THEN i <= Len(back) /\ back'[i] = back[i]
                                   ELSE i = Len(back) + 1 /\ back'[i] = Head(queue)
    <3>1. CASE back' = back
      <4>1. DOMAIN back = 1 .. Len(back) /\ Len(back) \in Nat
        BY <1>0
      <4> QED
        BY <3>1, <4>1
    <3>2. CASE back' = Append(back, Head(queue))
      BY <1>0, <2>2, <3>2, Appended
    <3> QED
      BY <2>1, <3>1, <3>2
  <2>4. (\A i \in DOMAIN queue : Settled(queue[i]))'
    BY <1>1, <1>2, <1>3, <2>2
  <2>5. (\A i \in DOMAIN back : Settled(back[i]))'
    BY <1>1, <1>2, <1>3, <2>2, <2>3
  <2>6. \A i, j \in DOMAIN queue' : i < j => Before(queue'[i], queue'[j])
    <3> SUFFICES ASSUME NEW i \in DOMAIN queue', NEW j \in DOMAIN queue', i < j
                 PROVE  Before(queue'[i], queue'[j])
      OBVIOUS
    <3>1. i + 1 < j + 1
      BY <2>2
    <3> QED
      BY <1>3, <2>2, <3>1
  <2>7. \A i, j \in DOMAIN back' : i < j => Before(back'[i], back'[j])
    <3> SUFFICES ASSUME NEW i \in DOMAIN back', NEW j \in DOMAIN back', i < j
                 PROVE  Before(back'[i], back'[j])
      OBVIOUS
    <3>1. i \in DOMAIN back /\ back'[i] = back[i]
      BY <2>3
    <3>2. CASE j \in DOMAIN back
      BY <1>3, <2>3, <3>1, <3>2
    <3>3. CASE j \notin DOMAIN back
      BY <1>3, <2>2, <2>3, <3>1, <3>3
    <3> QED
      BY <3>2, <3>3
  <2>8. \A i \in DOMAIN back', j \in DOMAIN queue' : Before(back'[i], queue'[j])
    BY <1>3, <2>2, <2>3
  <2> QED
    BY <2>4, <2>5, <2>6, <2>7, <2>8 DEF Answering, Before
<1> QED
  BY <1>4, <1>5, <1>6, QueueStep

\* There is one login, and its answer is given when it has succeeded.
THEOREM OneLoginStep ==
    ASSUME OneSender, ConnInv, [Next]_vars
    PROVE  OneLogin'
<1>0. TypeInv /\ TypeOK /\ OneLogin /\ Handling /\ LoginNo \in Nat
  BY CounterTypes DEF ConnInv, TypeInv
<1>1. next' >= next /\ next \in Nat /\ next' \in Nat
  BY SMTT(30), TypeStep, FramesStep, CounterTypes DEF ConnInv, TypeInv, TypeOK
<1>2. ASSUME Take
      PROVE  /\ Head(inbox) \in Nat /\ next > Head(inbox) /\ \A i \in DOMAIN inbox' : inbox'[i] > Head(inbox)
             /\ \A i \in DOMAIN inbox' : \E j \in DOMAIN inbox : inbox'[i] = inbox[j]
             /\ Busy' => work' = Head(inbox)
             /\ doLogin # "no" => Head(inbox) # LoginNo
             /\ doLogin' = doLogin \/ (Head(inbox) = LoginNo /\ doLogin' = "begin")
             /\ logic' = "take" \/ (logic' = "rpc" /\ (Head(inbox) = LoginNo => doLogin' = "begin"))
  <2>1. /\ Head(inbox) \in Nat /\ Head(inbox) = inbox[1] /\ 1 \in DOMAIN inbox /\ Passed(Head(inbox))
        /\ \A i \in DOMAIN inbox' : /\ i + 1 \in DOMAIN inbox /\ inbox'[i] = inbox[i + 1]
                                    /\ inbox'[i] \in Nat /\ Head(inbox) < inbox'[i]
        /\ Busy' => work' = Head(inbox)
    BY <1>2, RequestTaken
  <2>2. doLogin # "no" => Head(inbox) # LoginNo
    BY <1>0, <2>1 DEF OneLogin
  <2>3. next > Head(inbox)
    BY <1>1, <2>1 DEF Passed
  <2>4. /\ doLogin' = doLogin \/ (Head(inbox) = LoginNo /\ doLogin' = "begin")
        /\ logic' = "take" \/ (logic' = "rpc" /\ (Head(inbox) = LoginNo => doLogin' = "begin"))
    BY <1>2 DEF Take, LogicTo
  <2>5. /\ \A i \in DOMAIN inbox' : inbox'[i] > Head(inbox)
        /\ \A i \in DOMAIN inbox' : \E j \in DOMAIN inbox : inbox'[i] = inbox[j]
    BY <2>1
  <2> QED
    BY <2>1, <2>2, <2>3, <2>4, <2>5
<1>3. (doLogin = "ok" => doLogin' = "ok") /\ (~Take => (doLogin' # "no" => doLogin # "no"))
  <2>1. CASE Take
    BY <1>2, <2>1
  <2>2. CASE DoLogin
    BY <2>2 DEF DoLogin, TryBeginLogin, DeriveKey, MarkOnline
  <2>3. CASE ~Take /\ ~DoLogin
    BY <1>0, <2>3, SessionAlone
  <2> QED
    BY <2>1, <2>2, <2>3
<1>4. (doLogin # "no" => next > LoginNo /\ \A i \in DOMAIN inbox : inbox[i] > LoginNo)'
  <2> SUFFICES ASSUME doLogin' # "no" PROVE next' > LoginNo /\ \A i \in DOMAIN inbox' : inbox'[i] > LoginNo
    OBVIOUS
  <2>1. CASE Take
    <3>1. CASE doLogin # "no"
      BY <1>0, <1>1, <1>2, <2>1, <3>1 DEF OneLogin
    <3>2. CASE doLogin = "no"
      BY <1>0, <1>1, <1>2, <2>1, <3>2
    <3> QED
      BY <3>1, <3>2
  <2>2. CASE ReadRequest
    <3>1. PICK f \in Frame : f = Head(wire) /\ f.n \in 1 .. MaxReq /\ f.n \in Nat \ {0} /\ Fresh(f)
      BY <2>2, RequestRead
    <3>2. doLogin # "no"
      BY <2>2 DEF ReadRequest
    <3>3. f.n > LoginNo /\ next > LoginNo /\ \A i \in DOMAIN inbox : inbox[i] > LoginNo
      BY <1>0, <3>1, <3>2 DEF OneLogin, Fresh
    <3>4. \A i \in DOMAIN inbox' : (i \in DOMAIN inbox /\ inbox'[i] = inbox[i]) \/ inbox'[i] = f.n
      BY <2>2, <3>1, RequestPut
    <3> QED
      BY <1>0, <1>1, <3>3, <3>4
  <2>3. CASE ~Take /\ ~ReadRequest
    <3>1. inbox' = inbox /\ doLogin # "no"
      BY <1>3, <2>3, BusyStep
    <3> QED
      BY <1>0, <1>1, <3>1 DEF OneLogin
  <2> QED
    BY <2>1, <2>2, <2>3
<1>5. /\ logic' = "rpc" /\ work' = LoginNo => doLogin' # "no"
      /\ logic' = "answer" /\ work' = LoginNo => doLogin' = "ok"
  <2>1. CASE Take
    BY <1>2, <2>1 DEF Busy
  <2>2. CASE ~Take
    <3>1. /\ Busy' => work' = work
          /\ logic' = "rpc" => logic = "rpc"
          /\ logic' = "answer" => logic = "answer" \/ (work = LoginNo => doLogin = "ok")
      BY <2>2, BusyStep
    <3>2. doLogin # "no" => doLogin' # "no"
      <4>1. CASE DoLogin
        BY <4>1 DEF DoLogin, TryBeginLogin, DeriveKey, MarkOnline
      <4>2. CASE ~DoLogin
        BY <1>0, <2>2, <4>2, SessionAlone
      <4> QED
        BY <4>1, <4>2
    <3> QED
      BY <1>0, <1>3, <3>1, <3>2 DEF OneLogin, Busy
  <2> QED
    BY <2>1, <2>2
<1>6. /\ \A i \in DOMAIN back' : LoginAnswer(back'[i]) => doLogin' = "ok"
      /\ \A i \in DOMAIN queue' : LoginAnswer(queue'[i]) => doLogin' = "ok"
  <2>0. queue \in Seq(Answer) /\ back \in Seq(Answer)
    BY <1>0 DEF TypeOK
  <2>1. CASE UNCHANGED <<back, queue>>
    BY <1>0, <1>3, <2>1 DEF OneLogin
  <2>2. CASE \E a \in Answer : Queues(a)
    <3>1. PICK a \in Answer : Queues(a)
      BY <2>2
    <3>2. back' = back /\ queue' = Append(queue, a) /\ (LoginAnswer(a) => doLogin' = "ok")
      BY <3>1 DEF Queues
    <3>3. \A i \in DOMAIN queue' : (i \in DOMAIN queue /\ queue'[i] = queue[i]) \/ queue'[i] = a
      BY <2>0, <3>2, Appended
    <3> QED
      BY <1>0, <1>3, <3>2, <3>3 DEF OneLogin
  <2>3. CASE Writes
    <3>1. /\ queue # <<>> /\ queue' = Tail(queue)
          /\ back' = back \/ back' = Append(back, Head(queue))
      BY <2>3 DEF Writes
    <3>2. /\ Head(queue) \in Answer /\ 1 \in DOMAIN queue /\ Head(queue) = queue[1]
          /\ \A i \in DOMAIN queue' : i + 1 \in DOMAIN queue /\ queue'[i] = queue[i + 1]
      BY <2>0, <3>1, Tailed
    <3>3. \A i \in DOMAIN back' : (i \in DOMAIN back /\ back'[i] = back[i]) \/ back'[i] = Head(queue)
      BY <2>0, <3>1, <3>2, Appended
    <3> QED
      BY <1>0, <1>3, <3>2, <3>3 DEF OneLogin
  <2> QED
    BY <2>1, <2>2, <2>3, QueueStep
<1>7. keyed' => RequiresMAC /\ doLogin' = "ok"
  <2>1. CASE \E s \in Sender : PrepareFrame(s)
    <3>1. keyed' => keyed \/ (LoggedIn /\ RequiresMAC)
      BY <2>1, Zenon DEF PrepareFrame
    <3>2. LoggedIn => doLogin = "ok"
      BY <1>0 DEF LoggedIn, OneLogin, LoginAnswer
    <3>3. keyed => RequiresMAC /\ doLogin = "ok"
      BY <1>0 DEF OneLogin
    <3> QED
      BY <1>3, <3>1, <3>2, <3>3
  <2>2. CASE ~\E s \in Sender : PrepareFrame(s)
    <3>1. keyed' = keyed
      <4>1. CASE \E s \in Sender : WriteRequest(s)
        BY <4>1 DEF WriteRequest
      <4>2. CASE Heartbeat \/ ReadHeartbeat \/ ReadRequest
        BY <4>2 DEF Heartbeat, ReadHeartbeat, ReadRequest, clientVars
      <4> QED
        BY <2>2, <4>1, <4>2, FramesAlone
    <3> QED
      BY <1>0, <1>3, <3>1 DEF OneLogin
  <2> QED
    BY <2>1, <2>2
<1> QED
  BY <1>4, <1>5, <1>6, <1>7 DEF OneLogin, LoginAnswer

-----------------------------------------------------------------------------
(* The theorems *)

\* Initially nothing has been sent.
THEOREM ConnInit == Init => ConnInv
<1> SUFFICES ASSUME Init PROVE ConnInv
  OBVIOUS
<1>1. TypeInv /\ next = 1 /\ LoginNo \in Nat
  BY TypeInit, ConnAssumption DEF Init
<1>2. /\ DOMAIN wire = {} /\ DOMAIN inbox = {} /\ DOMAIN queue = {} /\ DOMAIN back = {}
      /\ \A s \in Sender : sending[s] = NoFrame
  BY Empty DEF Init
<1>3. \A f \in Pending : f = NoFrame
  BY <1>2 DEF Pending
<1>4. Frames
  BY <1>1, <1>2, <1>3 DEF Init, Frames, Fresh, WireOrder, NoFrame
<1>5. Handling /\ Answering
  BY <1>2 DEF Init, Handling, Busy, Answering
<1>6. SessionKey /\ OneLogin /\ HonestIsAccepted
  BY <1>2 DEF Init, SessionKey, OneLogin, HonestIsAccepted
<1> QED
  BY <1>1, <1>4, <1>5, <1>6 DEF ConnInv

\* Every step of a client with one sender keeps the invariant.
THEOREM ConnStep == OneSender /\ ConnInv /\ [Next]_vars => ConnInv'
<1> SUFFICES ASSUME OneSender, ConnInv, [Next]_vars PROVE ConnInv'
  OBVIOUS
<1>1. TypeInv'
  BY TypeStep DEF ConnInv
<1>2. Frames'
  BY FramesStep
<1>3. Handling' /\ Answering'
  BY HandlingStep, AnsweringStep
<1>4. SessionKey' /\ OneLogin' /\ HonestIsAccepted'
  BY SessionStep, OneLoginStep, AcceptedStep
<1> QED
  BY <1>1, <1>2, <1>3, <1>4 DEF ConnInv

\* A client that sends with one goroutine and awaits the answer to its login is
\* never refused, whatever the capacities and the number of its requests.
THEOREM AcceptedCorrect == OneSender => (Spec => []HonestIsAccepted)
<1> SUFFICES ASSUME OneSender PROVE Spec => []HonestIsAccepted
  OBVIOUS
<1>1. ConnInv /\ [Next]_vars => ConnInv'
  BY ConnStep
<1>2. ConnInv => HonestIsAccepted
  BY DEF ConnInv
<1> QED
  BY <1>1, <1>2, ConnInit, PTL DEF Spec

\* The answers a connection sends are in order if those received and queued are.
LEMMA InOrder == ConnInv => AnswersInOrder
<1> SUFFICES ASSUME ConnInv PROVE AnswersInOrder
  OBVIOUS
<1> DEFINE sent == back \o queue
<1>1. back \in Seq(Answer) /\ queue \in Seq(Answer)
  BY DEF ConnInv, TypeInv, TypeOK
<1>2. /\ Len(back) \in Nat /\ Len(queue) \in Nat
      /\ DOMAIN back = 1 .. Len(back) /\ DOMAIN queue = 1 .. Len(queue)
      /\ DOMAIN sent = 1 .. Len(back) + Len(queue)
      /\ \A i \in 1 .. Len(back) + Len(queue) :
            sent[i] = IF i <= Len(back) THEN back[i] ELSE queue[i - Len(back)]
  BY <1>1
<1> HIDE DEF sent
<1>3. ASSUME NEW i \in DOMAIN sent, NEW j \in DOMAIN sent, i < j PROVE Before(sent[i], sent[j])
  <2>1. CASE i <= Len(back) /\ j <= Len(back)
    <3>1. i \in DOMAIN back /\ j \in DOMAIN back /\ sent[i] = back[i] /\ sent[j] = back[j]
      BY <1>2, <1>3, <2>1
    <3> QED
      BY <1>3, <3>1 DEF ConnInv, Answering
  <2>2. CASE i <= Len(back) /\ j > Len(back)
    <3>1. /\ i \in DOMAIN back /\ j - Len(back) \in DOMAIN queue
          /\ sent[i] = back[i] /\ sent[j] = queue[j - Len(back)]
      BY <1>2, <1>3, <2>2
    <3> QED
      BY <3>1 DEF ConnInv, Answering
  <2>3. CASE i > Len(back) /\ j > Len(back)
    <3>1. /\ i - Len(back) \in DOMAIN queue /\ j - Len(back) \in DOMAIN queue
          /\ i - Len(back) < j - Len(back)
          /\ sent[i] = queue[i - Len(back)] /\ sent[j] = queue[j - Len(back)]
      BY <1>2, <1>3, <2>3
    <3> QED
      BY <3>1 DEF ConnInv, Answering
  <2> QED
    BY <1>2, <1>3, <2>1, <2>2, <2>3
<1> QED
  BY <1>3 DEF AnswersInOrder, Before, sent

\* The client gets at most one answer to each request, and the services' replies
\* in the order of the requests.
THEOREM OrderCorrect == OneSender => (Spec => []AnswersInOrder)
<1> SUFFICES ASSUME OneSender PROVE Spec => []AnswersInOrder
  OBVIOUS
<1>1. ConnInv /\ [Next]_vars => ConnInv'
  BY ConnStep
<1> QED
  BY <1>1, ConnInit, InOrder, PTL DEF Spec
=============================================================================
