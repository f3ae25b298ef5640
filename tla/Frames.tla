------------------------------- MODULE Frames -------------------------------
(***************************************************************************)
(* The wire formats of the gateway: requests over TCP, KCP and WebSocket   *)
(* (rpc/conn.go, rpc/kcp.go, rpc/frame_mac.go, rpc/frame_crypto.go), the   *)
(* answers in the two response protocols (rpc/tcp.go), and the clients'    *)
(* codecs (robot/).                                                        *)
(*                                                                         *)
(* A byte stream is a sequence of numbers.  A multi-byte field (a size, a  *)
(* sequence number, a code, a MAC, an AEAD nonce or tag) is one element,   *)
(* and a size or code is kept modulo its width.  A WebSocket message is    *)
(* the record that protobuf carries.                                       *)
(***************************************************************************)
EXTENDS Integers, Sequences, SequencesExt

CONSTANTS
    SizeWrap,       \* 2^16: width of the method and data sizes
    CodeWrap,       \* 2^32: width of the answer's code
    MaxFrame,       \* kcpMaxFrameSize, wsReadLimit
    CompressMin     \* compressMinSize

ASSUME FramesAssumption ==
    /\ SizeWrap \in Nat \ {0} /\ MaxFrame \in Nat /\ CompressMin \in Nat \ {0}
    /\ CodeWrap \in Nat \ {0} /\ CodeWrap % 2 = 0

Request  == 250     \* requestMagicNumber
Response == 251     \* responseMagicNumber
Heartbeat == 1
Logic == 2
ReplaceLogin == 3
LogicMAC == 4
Dot == 46

RequestHead == 4    \* elements of [magic][type][methodSize][dataSize]
V2Head == 6         \* of [magic][type][compress][code][methodSize][dataSize]
V1Head == 3         \* of [compress][methodSize][dataSize]

Take(s, from, n) == SubSeq(s, from + 1, from + n)
Drop(s, n) == SubSeq(s, n + 1, Len(s))

\* What one read of a stream gives: a frame and what is left; nothing yet;
\* or an error, which ends the connection.
Got(f, rest) == [is |-> "frame", frame |-> f, rest |-> rest]
Blocked(s) == [is |-> "blocked", frame |-> <<>>, rest |-> s]
Refused(s) == [is |-> "refused", frame |-> <<>>, rest |-> s]

\* The frames that repeated reads of s give until one blocks or fails.
ReadAll(Read(_), s) ==
    FoldLeft(LAMBDA acc, i :
                IF acc.is # "frame" THEN acc
                ELSE LET r == Read(acc.rest) IN
                     [is |-> r.is, rest |-> r.rest,
                      out |-> IF r.is = "frame" THEN Append(acc.out, r.frame)
                              ELSE acc.out],
             [is |-> "frame", rest |-> s, out |-> <<>>],
             [i \in 1..(Len(s) + 1) |-> i]).out

-----------------------------------------------------------------------------
(* Requests *)

\* A request is [module, method, data, seq, mac]; mac is 0 when the client
\* has not enabled frame MACs.
Beat == [module |-> <<>>, method |-> <<>>, data |-> <<>>, seq |-> 0, mac |-> 0]
Name(r) == r.module \o <<Dot>> \o r.method

Sizes(r) == <<Len(Name(r)) % SizeWrap, Len(r.data) % SizeWrap>>

EncodeTgfBinaryFrame(r) ==
    <<Request, Logic>> \o Sizes(r) \o Name(r) \o r.data

\* Mutant of EncodeTgfBinaryMACFrame: the sequence number comes with the MAC.
MACFrameSeqLast(r) ==
    <<Request, LogicMAC>> \o Sizes(r) \o Name(r) \o r.data \o <<r.seq, r.mac>>

EncodeTgfBinaryMACFrame(r) ==
    <<Request, LogicMAC>> \o Sizes(r) \o <<r.seq>> \o Name(r) \o r.data \o <<r.mac>>

EncodeTgfHeartbeatFrame == <<Request, Heartbeat>>

\* tcp.Send and KCPClient.SendLogic.
EncodeRequest(r) ==
    IF r = Beat THEN EncodeTgfHeartbeatFrame
    ELSE IF r.mac = 0 THEN EncodeTgfBinaryFrame(r) ELSE EncodeTgfBinaryMACFrame(r)

\* The length that the header of a logic frame announces.
LogicSize(raw) ==
    RequestHead + raw[3] + raw[4] + (IF raw[2] = LogicMAC THEN 2 ELSE 0)

\* Where the last dot of a name is; 0 when it has none.
LastDot(name) == SelectLastInSeq(name, LAMBDA x : x = Dot)

\* The parts of a complete logic frame.  The name is split at its last dot;
\* without a dot the frame is refused.
ParseLogic(raw, rest) ==
    LET withMAC == raw[2] = LogicMAC
        body == RequestHead + (IF withMAC THEN 1 ELSE 0)
        name == Take(raw, body, raw[3])
        ix == LastDot(name)
    IN  IF ix = 0 THEN Refused(raw)
        ELSE Got([module |-> SubSeq(name, 1, ix - 1),
                  method |-> Drop(name, ix),
                  data |-> Take(raw, body + raw[3], raw[4]),
                  seq |-> IF withMAC THEN raw[RequestHead + 1] ELSE 0,
                  mac |-> IF withMAC THEN raw[LogicSize(raw)] ELSE 0], rest)

\* tcpFramedConn.ReadFrame: peeks at the header, then waits for the rest.
ReadFrame(s) ==
    IF Len(s) < 2 THEN Blocked(s)
    ELSE IF s[1] # Request THEN Refused(s)
    ELSE IF s[2] = Heartbeat THEN Got(Beat, Drop(s, 2))
    ELSE IF s[2] \notin {Logic, LogicMAC} THEN Refused(s)
    ELSE IF Len(s) < RequestHead \/ Len(s) < LogicSize(s) THEN Blocked(s)
    ELSE ParseLogic(Take(s, 0, LogicSize(s)), Drop(s, LogicSize(s)))

\* The same of a frame that KCP's length prefix has cut out: here a frame
\* that is shorter than its header says is an error.
DecodeTgfBinaryFrame(raw, rest) ==
    IF Len(raw) < 2 \/ raw[1] # Request THEN Refused(raw)
    ELSE IF raw[2] = Heartbeat THEN Got(Beat, rest)
    ELSE IF raw[2] \notin {Logic, LogicMAC} THEN Refused(raw)
    ELSE IF Len(raw) < RequestHead \/ Len(raw) < LogicSize(raw) THEN Refused(raw)
    ELSE ParseLogic(raw, rest)

-----------------------------------------------------------------------------
(* KCP: a length prefix around a sealed or plain payload.  Key 0 is none, *)
(* BadKey one of the wrong length.                                         *)

BadKey == 9
Nonce == 7
Overhead == 2       \* elements of the nonce and the tag

\* No side goes on in plain text when its key is of no use: the listener does
\* not start, the connection is closed, the client panics.
StartKCPListener(key) == key # BadKey
NewKCPFramedConn(key) == key # BadKey
DialKCP(key) == key # BadKey /\ NewKCPFramedConn(key)

\* The external AEAD: what it opens was sealed under the same key.
Seal(key, p) == IF key = 0 THEN p
                ELSE <<Nonce>> \o [i \in DOMAIN p |-> p[i] + 1000] \o <<key>>
Open(key, p) == IF key = 0 THEN Got(p, <<>>)
                ELSE IF Len(p) < Overhead \/ Last(p) # key THEN Refused(p)
                ELSE Got([i \in 1..(Len(p) - 2) |-> p[i + 1] - 1000], <<>>)

\* A frame that is too large is an error of the writer: nothing is written.
WriteKCPFrame(key, plain) ==
    LET p == Seal(key, plain) IN
    IF Len(p) > MaxFrame THEN <<>> ELSE <<Len(p)>> \o p

ReadKCPFrame(key, s) ==
    IF Len(s) = 0 THEN Blocked(s)
    ELSE IF s[1] = 0 \/ s[1] > MaxFrame THEN Refused(s)
    ELSE IF Len(s) < 1 + s[1] THEN Blocked(s)
    ELSE [Open(key, Take(s, 1, s[1])) EXCEPT !.rest = Drop(s, 1 + s[1])]

\* kcpFramedConn.ReadFrame.
ReadKCPRequest(key, s) ==
    LET r == ReadKCPFrame(key, s) IN
    IF r.is = "frame" THEN DecodeTgfBinaryFrame(r.frame, r.rest) ELSE r

-----------------------------------------------------------------------------
(* Answers *)

\* An answer is [kind, type, code, reqId, reply, zips]: kind is Logic,
\* Heartbeat or ReplaceLogin; zips says whether compressing it succeeds.
\* gzip is external: it marks its output and Gunzip gives the input back.
Gzip(d) == <<800 + Len(d)>> \o d
Gunzip(z) == Tail(z)

Compresses(m) == Len(m.reply) >= CompressMin /\ m.zips

\* If compressing fails the answer goes out as it is, without the flag.
CompressFlag(m) == IF Compresses(m) THEN 1 ELSE 0
Body(m) == IF Compresses(m) THEN Gzip(m.reply) ELSE m.reply

HeartbeatResponseFrame(v2) == IF v2 THEN <<Response, Heartbeat>> ELSE <<Heartbeat>>
ReplaceLoginNotifyFrame(v2) == IF v2 THEN <<Response, ReplaceLogin>> ELSE <<ReplaceLogin>>

EncodeBinaryResponseFrame(v2, m) ==
    (IF v2 THEN <<Response, Logic, CompressFlag(m), m.code % CodeWrap>>
     ELSE <<CompressFlag(m)>>)
    \o <<Len(m.type) % SizeWrap, Len(Body(m))>> \o m.type \o Body(m)

\* encodeWSResponseFrame: the fields of a WSResponse.
EncodeWSResponseFrame(m) ==
    [type |-> m.type, zip |-> CompressFlag(m) = 1, data |-> Body(m),
     reqId |-> m.reqId, code |-> m.code]

EncodeResponse(v2, m) ==
    IF m.kind = Heartbeat THEN HeartbeatResponseFrame(v2)
    ELSE IF m.kind = ReplaceLogin THEN ReplaceLoginNotifyFrame(v2)
    ELSE EncodeBinaryResponseFrame(v2, m)

\* What a client makes of an answer (ServerFrame).
Seen(kind, type, data, code) ==
    [kind |-> kind, type |-> type, data |-> data, code |-> code]
Signal(kind) == Seen(kind, <<>>, <<>>, 0)

DecodeLogicBody(type, data, compress, code) ==
    Seen(Logic, type, IF compress = 1 /\ Len(data) > 0 THEN Gunzip(data) ELSE data, code)

\* uint32 to int32.
Signed(c) == IF c >= CodeWrap \div 2 THEN c - CodeWrap ELSE c

DecodeV1Logic(raw, rest) ==
    IF Len(raw) < V1Head \/ Len(raw) < V1Head + raw[2] + raw[3] THEN Refused(raw)
    ELSE Got(DecodeLogicBody(Take(raw, V1Head, raw[2]),
                             Take(raw, V1Head + raw[2], raw[3]), raw[1], 0), rest)

\* DecodeServerFrame: a whole frame, as KCP delivers it.
DecodeServerFrame(raw, rest) ==
    IF Len(raw) = 0 THEN Refused(raw)
    ELSE IF raw[1] = Response THEN
        IF Len(raw) < 2 \/ raw[2] \notin {Heartbeat, Logic, ReplaceLogin} THEN Refused(raw)
        ELSE IF raw[2] # Logic THEN Got(Signal(raw[2]), rest)
        ELSE IF Len(raw) < V2Head \/ Len(raw) < V2Head + raw[5] + raw[6] THEN Refused(raw)
        ELSE Got(DecodeLogicBody(Take(raw, V2Head, raw[5]), Take(raw, V2Head + raw[5], raw[6]),
                                 raw[3], Signed(raw[4])), rest)
    ELSE IF Len(raw) = 1 /\ raw[1] \in {Heartbeat, ReplaceLogin} THEN Got(Signal(raw[1]), rest)
    ELSE IF raw[1] = ReplaceLogin THEN Refused(raw)
    ELSE IF raw[1] = Request THEN
        IF Len(raw) >= 2 /\ raw[2] = Heartbeat THEN Got(Signal(Heartbeat), rest)
        ELSE Refused(raw)
    ELSE DecodeV1Logic(raw, rest)

\* ReadServerFrame: the same from TCP's stream, where a leading 1 is always
\* taken for a heartbeat.
ReadServerFrame(s) ==
    IF Len(s) = 0 THEN Blocked(s)
    ELSE IF s[1] = Response THEN
        IF Len(s) < 2 THEN Blocked(s)
        ELSE IF s[2] \in {Heartbeat, ReplaceLogin} THEN Got(Signal(s[2]), Drop(s, 2))
        ELSE IF s[2] # Logic THEN Refused(s)
        ELSE IF Len(s) < V2Head \/ Len(s) < V2Head + s[5] + s[6] THEN Blocked(s)
        ELSE DecodeServerFrame(Take(s, 0, V2Head + s[5] + s[6]), Drop(s, V2Head + s[5] + s[6]))
    ELSE IF s[1] \in {Heartbeat, ReplaceLogin} THEN Got(Signal(s[1]), Drop(s, 1))
    ELSE IF Len(s) < V1Head \/ Len(s) < V1Head + s[2] + s[3] THEN Blocked(s)
    ELSE DecodeV1Logic(Take(s, 0, V1Head + s[2] + s[3]), Drop(s, V1Head + s[2] + s[3]))

\* KCPClient.ReadServerFrame.
ReadKCPAnswer(key, s) ==
    LET r == ReadKCPFrame(key, s) IN
    IF r.is = "frame" THEN DecodeServerFrame(r.frame, r.rest) ELSE r

-----------------------------------------------------------------------------
(* WebSocket: messages [type, module, service, data] *)

Ping == [type |-> "ping", module |-> <<>>, service |-> <<>>, data |-> <<>>]

\* ws.Send takes the first two parts of a name.
SendWS(r) ==
    LET name == Name(r)
        first == SelectInSeq(name, LAMBDA x : x = Dot)
        rest == Drop(name, first)
        second == SelectInSeq(rest, LAMBDA x : x = Dot)
    IN  [type |-> "binary", module |-> SubSeq(name, 1, first - 1),
         service |-> IF second = 0 THEN rest ELSE SubSeq(rest, 1, second - 1),
         data |-> r.data]

EncodeWSRequest(r) == IF r = Beat THEN Ping ELSE SendWS(r)

\* One goroutine writes what the heartbeat and the senders have queued.
WSWritten(sent) == [i \in DOMAIN sent |-> EncodeWSRequest(sent[i])]

\* newWSFramedConn: control messages are handled below ReadMessage, and one
\* that is over the limit is an error of it.
Delivered(s) == SelectSeq(s, LAMBDA m : m.type \notin {"ping", "pong", "close"})
WithinLimit(m) == Len(m.module) + Len(m.service) + Len(m.data) <= MaxFrame

\* wsFramedConn.ReadFrame skips what is not binary.
ReadWSFrame(s) ==
    LET i == SelectInSeq(s, LAMBDA m : m.type = "binary" \/ ~WithinLimit(m)) IN
    IF i = 0 THEN Blocked(<<>>)
    ELSE IF ~WithinLimit(s[i]) THEN Refused(s)
    ELSE Got([module |-> s[i].module, method |-> s[i].service, data |-> s[i].data,
              seq |-> 0, mac |-> 0], Drop(s, i))

-----------------------------------------------------------------------------
(* Conversations: c is [via, client, server, v2, sent, cut], with the keys *)
(* of the two sides.                                                       *)

Bytes(c, key, Encode(_)) ==
    LET Frame(m) == CASE c.via = "tcp" -> Encode(m)
                      [] c.via = "kcp" /\ StartKCPListener(c.server) /\ DialKCP(c.client) ->
                            WriteKCPFrame(key, Encode(m))
                      [] OTHER -> <<>>
    IN  FlattenSeq([i \in DOMAIN c.sent |-> Frame(c.sent[i])])

\* The connection breaks after c.cut elements.
Arrived(c, s) == SubSeq(s, 1, IF c.cut < Len(s) THEN c.cut ELSE Len(s))
Whole(c, s) == c.cut >= Len(s)

RequestBytes(c) == Bytes(c, c.client, EncodeRequest)
AnswerBytes(c) == Bytes(c, c.server, LAMBDA m : EncodeResponse(c.v2, m))

RequestsRead(c) ==
    ReadAll(LAMBDA s : IF c.via = "kcp" THEN ReadKCPRequest(c.server, s) ELSE ReadFrame(s),
            Arrived(c, RequestBytes(c)))

WSRequestsRead(c) == ReadAll(ReadWSFrame, Delivered(WSWritten(c.sent)))

\* What the robots' read loops see, up to the first error.
TCPAnswersRead(s) == ReadAll(ReadServerFrame, s)
KCPAnswersRead(key, s) == ReadAll(LAMBDA rest : ReadKCPAnswer(key, rest), s)

AnswersRead(c) ==
    LET s == Arrived(c, AnswerBytes(c)) IN
    IF c.via = "kcp" THEN KCPAnswersRead(c.client, s) ELSE TCPAnswersRead(s)

\* What the sender of an answer means by it; v1 frames carry no code.
Meant(v2, m) == IF m.kind # Logic THEN Signal(m.kind)
                ELSE Seen(Logic, m.type, m.reply, IF v2 THEN m.code ELSE 0)

MeantBy(v2, sent) == [i \in DOMAIN sent |-> Meant(v2, sent[i])]

\* The robot's WebSocket reader: binary messages that are no WSResponse (the
\* heartbeat and kick frames) are skipped.
WSRead(c) ==
    LET answers == SelectSeq(c.sent, LAMBDA m : m.kind = Logic)
        See(w) == Seen(Logic, w.type, IF w.zip THEN Gunzip(w.data) ELSE w.data, w.code)
    IN  [i \in DOMAIN answers |-> See(EncodeWSResponseFrame(answers[i]))]

\* wss reads with a loop of its own, which does the same.
WSSRead(c) == WSRead(c)

\* Nothing but what was sent is read, in order; and all of it if it arrived.
ReadAsSent(c, s, read, meant) ==
    IsPrefix(read, meant) /\ (Whole(c, s) => read = meant)
=============================================================================
