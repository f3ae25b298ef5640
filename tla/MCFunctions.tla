----------------------------- MODULE MCFunctions -----------------------------
(***************************************************************************)
(* The pure parts of the code over bounded inputs.  Every state is one     *)
(* input, nothing moves, and the invariants compare what the functions     *)
(* return with their reference definitions.                                *)
(***************************************************************************)
EXTENDS Frames, Weights, ConfigValues, WebChain, LoginToken, SheetExport

VARIABLE input

Is(kind) == input.is = kind

-----------------------------------------------------------------------------
(* Two messages in a row, over a connection that may break. *)

Large == [i \in 1..MaxFrame |-> 1]
Requests == {Beat} \union
    [module : {<<7>>, <<7, Dot, 7>>}, method : {<<8>>}, data : {<<>>, <<250>>, <<250, 1>>, Large},
     seq : {3}, mac : {9}]
    \union [module : {<<7>>, <<7, Dot, 7>>}, method : {<<8>>}, data : {<<>>, <<250>>, <<250, 1>>},
            seq : {0}, mac : {0}]
Signals == [kind : {Heartbeat, ReplaceLogin}, type : {<<>>}, code : {0}, reqId : {0},
            reply : {<<>>}, zips : {TRUE}]
Answers == Signals \union
    [kind : {Logic}, type : {<<>>, <<7>>}, code : {0, -2}, reqId : {5},
     reply : {<<>>, <<250>>, <<1, 3>>, Large}, zips : BOOLEAN]

Keys == {<<0, 0>>, <<4, 4>>, <<0, 4>>, <<4, 0>>, <<4, 5>>, <<BadKey, BadKey>>}
Talks(messages, v2s) ==
    {c \in [is : {"talk"}, via : {"tcp", "kcp", "ws", "wss"}, client : {k[1] : k \in Keys},
            server : {k[2] : k \in Keys}, v2 : v2s, sent : TupleOf(messages, 2),
            cut : {0, 3, 11, 99}] :
        /\ IF c.via = "kcp" THEN <<c.client, c.server>> \in Keys ELSE c.client = 0 /\ c.server = 0
        /\ c.client # c.server => c.cut = 99
        /\ c.via \in {"ws", "wss"} => c.cut = 99}

\* FramesAreRead: over TCP, KCP and WebSocket, plain or sealed, a server
\* reads the requests that were sent, and a client, whichever response
\* protocol it speaks, the answers: each once, in order, whole, and every one
\* of them unless the connection broke.  Over KCP nothing is read when the
\* keys of the two sides differ or are of no use, and an answer over the
\* limit is not sent; over WebSocket a request over the limit ends the
\* reading, heartbeats are not read, and a client can name no module with a
\* dot.  Not covered are requests whose data does not fit its 16-bit size,
\* and the old protocol over TCP when an answer is compressed: there the flag
\* looks like a heartbeat (robot/response_decoder.go).
FramesAreRead ==
    LET c == input
        ws == c.via \in {"ws", "wss"}
        logic == SelectSeq(c.sent, LAMBDA r : r # Beat)
        replies == SelectSeq(c.sent, LAMBDA m : m.kind = Logic)
        keyed == c.client = c.server /\ c.client # BadKey
        Fits(m) == \/ c.via = "tcp"
                   \/ WriteKCPFrame(c.server, EncodeResponse(c.v2, m)) # <<>>
    IN
    /\ Is("request") /\ ~ws /\ keyed /\ (\A i \in DOMAIN logic : Len(logic[i].data) < SizeWrap) =>
        ReadAsSent(c, RequestBytes(c), RequestsRead(c), c.sent)
    /\ Is("request") /\ ws /\ (\A i \in DOMAIN logic : Len(logic[i].module) = 1) =>
        LET plain == [i \in DOMAIN logic |-> [logic[i] EXCEPT !.seq = 0, !.mac = 0]]
            large == SelectInSeq(plain, LAMBDA r : r.data = Large)
        IN  WSRequestsRead(c) = (IF large = 0 THEN plain ELSE SubSeq(plain, 1, large - 1))
    /\ Is("answer") /\ ws =>
        (IF c.via = "ws" THEN WSRead(c) ELSE WSSRead(c)) = MeantBy(TRUE, replies)
    /\ Is("answer") /\ ~ws /\ keyed =>
        \/ ~c.v2 /\ c.via = "tcp" /\ \E i \in 1..2 : Compresses(c.sent[i])
        \/ ReadAsSent(c, AnswerBytes(c), AnswersRead(c), MeantBy(c.v2, SelectSeq(c.sent, Fits)))
    /\ (Is("request") \/ Is("answer")) /\ ~keyed =>
        (IF Is("request") THEN RequestsRead(c) ELSE AnswersRead(c)) = <<>>

-----------------------------------------------------------------------------
(* A builder's items, then draws. *)

Items == [ratio : {-1, 1, 3}, amount : {-1, 0, 1, 2}]
Draws == [is : {"draws"}, added : TupleOf(Items, 2) \union TupleOf(Items, 1),
          randoms : [1..3 -> {0, 2}]]

\* DrawsInProportion: after any draws the sum is that of the items in stock,
\* every random number below it hits one of them, and each is hit by as many
\* of the numbers as its ratio says.
DrawsInProportion ==
    Is("draws") =>
        \A n \in 0..Len(input.randoms) :
            LET w == Rolled(input.added, SubSeq(input.randoms, 1, n))
                Hits(i) == {r \in 0..(w.total - 1) : OnlyRoll(w, r) = i}
            IN  /\ Hits(0) = {}
                /\ \A i \in DOMAIN w.items : Cardinality(Hits(i)) = Ratio(w.items[i])

-----------------------------------------------------------------------------
(* A process starts with the variables of its deployment and a file; then  *)
(* an operator edits the file and reloads, and code sets the timeout.      *)

Values(t, p, l, a) == Timeout :> t @@ Push :> p @@ Level :> l @@ AdminToken :> a
Files == {Values("200", Unset, "warn", "b"), Values("3000000000", "off", Unset, Unset),
          Values("x", "yes", "info", "b"), Values(Unset, "x", "loud", "a"),
          Values("0", "", "", "")}
Deployments == {Values(Unset, Unset, Unset, Unset), Values("200", "no", "warn", "a"),
                Values("x", "", Unset, "a")}
Posts == [do : {"post"}, method : {"POST"}, authorization : {"a", ""}, x : {"b"}]
         \union [do : {"post"}, method : {"OPTIONS", "GET"}, authorization : {"a"}, x : {""}]
Events == [do : {"edit"}, file : Files] \union Posts \union {[do |-> "reload"], [do |-> "set"]}
Runs == [is : {"config"}, env : Deployments, events : TupleOf(Events, 4),
         file : {Values("200", Unset, "warn", "b"), Values("0", "", "", "")}]

Happens(p, e) ==
    CASE e.do = "edit" -> [p EXCEPT !.file = e.file]
      [] e.do = "reload" -> Reload(p)
      [] e.do = "post" -> AuthMiddleware(p, e)
      [] e.do = "set" -> SetDefaultRPCTimeout(p, 70)

\* ConfigFollowsSources: at any time the string view and the typed view of
\* the configuration read the same (an integer beyond 32 bits excepted); a
\* reload that reports success has brought every value that the file sets,
\* and the settings follow; one that reports an error has changed nothing
\* that anybody reads.  A post to the admin server reloads if it carries the
\* token that the last good reload has left in force, and otherwise changes
\* nothing; its answer says which of these it was.
ConfigFollowsSources ==
    Is("config") =>
        \A n \in 0..Len(input.events) :
            LET At(i) == FoldLeft(Happens, InitConfig(input.env, input.file),
                                  SubSeq(input.events, 1, i))
                p == At(n)
                before == At(n - 1)
                e == input.events[n]
                Posted == n > 0 /\ e.do = "post"
                Admitted == /\ e.method = "POST" /\ before.current[AdminToken] # ""
                            /\ before.current[AdminToken] =
                                 IF e.authorization = "" THEN e.x ELSE e.authorization
                Reloaded == n > 0 /\ (e.do = "reload" \/ (Posted /\ Admitted))
            IN  /\ p.current[Timeout] > Int32Max \/ GetStrConfigInt(p, Timeout) = p.current[Timeout]
                /\ GetStrConfigInt(p, Push) = 1 <=> p.current[Push]
                /\ p.snapshot[Level] = p.current[Level]
                /\ Reloaded /\ ~p.failed =>
                    /\ \A k \in Key : p.file[k] \notin {Unset, ""} =>
                            p.current[k] = Parsed(k, p.file[k])
                    /\ ResolveRPCTimeout(p) =
                            (IF p.current[Timeout] > 0 THEN p.current[Timeout] ELSE 5000)
                    /\ p.level = ParseLogLevel(p.current[Level])
                /\ Reloaded /\ p.failed =>
                    [p EXCEPT !.env = before.env, !.failed = before.failed,
                              !.status = before.status] = before
                /\ Posted =>
                    /\ ~Admitted => [p EXCEPT !.status = before.status] = before
                    /\ Admitted <=> p.status \in {200, 500}
                    /\ Admitted => (p.status = 500 <=> p.failed)

-----------------------------------------------------------------------------
(* Two requests to an HTTP server. *)

NoError == [is |-> {}, carries |-> 0]
Errors == {NoError, [is |-> {"x"}, carries |-> 0], [is |-> {"DeadlineExceeded"}, carries |-> 0],
           [is |-> {"RateLimited"}, carries |-> 0], [is |-> {"RPCTimeOut", "x"}, carries |-> 0],
           [is |-> {"x"}, carries |-> 418]}
Plain(acts) == [at |-> 0, by |-> "acts", backend |-> TRUE, token |-> "t", signed |-> "a",
                body |-> [size |-> 1, sound |-> TRUE], error |-> NoError, encodes |-> TRUE,
                acts |-> acts]
Does(what) == [do |-> what, status |-> 0]
Writes(s) == [do |-> "write", status |-> s]
HTTPRequests ==
    {Plain(acts) : acts \in {<<>>, <<Writes(404)>>, <<Writes(200), Writes(500)>>,
        <<Does("panic")>>, <<Writes(200), Does("panic")>>, <<Does("abort")>>,
        <<Writes(503), Does("abort")>>}}
    \union {[Plain(<<>>) EXCEPT !.by = by, !.error = e] : by \in {"RPC", "Invoke"}, e \in Errors}
    \union {[Plain(<<>>) EXCEPT !.by = "RPC", !.backend = b, !.body = body, !.token = t] :
                b \in BOOLEAN, t \in {"t", ""},
                body \in [size : {0, MaxBody}, sound : {TRUE}]
                         \union [size : {1, MaxBody + 1}, sound : {FALSE}]}
    \union {[Plain(<<>>) EXCEPT !.by = by, !.backend = b, !.encodes = FALSE] :
                by \in {"RPC", "Invoke"}, b \in BOOLEAN}
Options == [access : {TRUE}, metrics : {TRUE}, recover : BOOLEAN, qps : {0, 1, 2},
            auth : {"off", "", "t"}, hook : {{}},
            registered : {<<>>, <<[target |-> "RateLimited", status |-> 418],
                                  [target |-> "x", status |-> 700]>>}]
Exchanges == [is : {"http"}, o : Options, q : TupleOf(HTTPRequests, 2), gap : {0, 1, 4},
              platforms : {<<>>}, asked : {FALSE}]

\* A webhook route for the platform "x", which the business looks up as it
\* was registered by the first of two providers, or with a blank.
Padded(b) == [core |-> "x", padded |-> b]
Providers ==
    {Nil, [Nil EXCEPT !.can = {"webhook"}]}
    \union [name : {Padded(FALSE), Padded(TRUE)}, accepts : {{"a"}, {"b"}}, metered : {FALSE},
            can : {Capability, {"webhook"}, {"login", "audit"}}]
Callbacks == {[Plain(<<Writes(202)>>) EXCEPT !.signed = s] : s \in {"a", "b", "panics"}}
Hooks == {[e EXCEPT !.o.hook = {Get(Registry(e.platforms), Padded(e.asked), "webhook")}] :
            e \in [is : {"http"}, o : {o \in Options : o.qps = 0 /\ o.registered = <<>>},
                   q : TupleOf(Callbacks, 2), gap : {0}, asked : BOOLEAN,
                   platforms : TupleOf(Providers, 2)]}

\* What holds of an input e after its requests q: one and two are the server
\* after the first and after the second.
Accounted(e, q, one, two) ==
    LET o == e.o
        after == <<one, two>>
        Sent(S) == Cardinality({i \in 1..2 : after[i].sent \in S})
        Cut(i) == after[i].panic # "none"
        all == Framework \o SelectSeq(o.registered, LAMBDA entry : entry.status \in 100..599)
        Admitted(i) == /\ o.auth \in {"off", q[i].token} \ {""}
                       /\ i = 1 \/ two.limited = 0
        Named(i) == {j \in DOMAIN all : all[j].target \in q[i].error.is}
    IN  /\ two.inflight = 0 /\ two.total = 2
        /\ two.c4 = Sent(400..499) /\ two.c5 = Sent(500..599)
        /\ two.log = SelectSeq(<<IF Cut(1) THEN 0 ELSE one.sent,
                                 IF Cut(2) THEN 0 ELSE two.sent>>, LAMBDA s : s # 0)
        /\ \A i \in 1..2 : o.recover =>
            /\ Cut(i) => q[i].acts # <<>> /\ Last(q[i].acts).do = "abort"
            /\ q[i].acts = <<Does("panic")>> /\ Admitted(i) => after[i].sent = 500
        /\ o.qps > 0 =>
            /\ one.limited = 0
            /\ two.limited = 1 <=> o.qps = 1 /\ e.gap * o.qps < Second
        /\ \A i \in 1..2 :
            (/\ q[i].by # "acts" /\ q[i].backend /\ q[i].body.size = 1 /\ q[i].body.sound
             /\ q[i].error.carries = 0
             /\ Admitted(i) /\ Named(i) # {})
            => after[i].sent = all[CHOOSE j \in Named(i) : \A k \in Named(i) : k <= j].status
        /\ o.hook # {} =>
            LET named == SelectSeq(e.platforms, LAMBDA p : p.name.core = "x")
                accepts == IF ~e.asked /\ named # <<>> /\ "webhook" \in named[1].can
                           THEN named[1].accepts ELSE {}
                Let(i) == Admitted(i) /\ accepts # {}
            IN  /\ \A i \in 1..2 :
                    after[i].sent = 202 <=> Let(i) /\ q[i].signed \in accepts
                /\ two.calls = Cardinality({i \in 1..2 : Let(i)})
                /\ two.fails = Cardinality({i \in 1..2 : Let(i) /\ after[i].sent = 401})

\* The second request finds what the first has left.
Both(e, q, one) == Accounted(e, q, one, Serve(e.o, q[2], one))

\* RequestsAreAccounted: after any requests nothing counts as in flight, each
\* has been counted once, as a client or server error exactly when the
\* client was sent one, and logged with the status it was sent (unless its
\* connection was cut); with Recover only an abort cuts a connection, and a
\* handler that panics before it writes is a 500.  The limiter admits no
\* more than its rate and one burst, and an error of the backend has the
\* status that was registered for it last.  A platform's webhook route is
\* reached by the callbacks that the first provider registered under its
\* name accepts, if that one verifies webhooks, and by no others; its meters
\* count each check once, and as failed those that were answered 401.
RequestsAreAccounted ==
    Is("http") =>
        LET q == [i \in 1..2 |-> [input.q[i] EXCEPT !.at = (i - 1) * input.gap]]
        IN  Both(input, q, Serve(input.o, q[1], Server(input.o)))

-----------------------------------------------------------------------------
(* A token is made after some of the events, and comes with a login at the *)
(* end; the configuration or the code gives other secrets and checks.      *)

Changes == [do : {"wait", "off"}, to : {""}] \union [do : {"reload"}, to : {"", "s", "t"}]
    \union [do : {"explicit"}, to : {"", "s"}] \union [do : {"check"}, to : {"u", "", "no", "none"}]
Logins == [is : {"login"}, first : {"", "s"}, changes : TupleOf(Changes, 3), made : 0..3,
           ttl : {0, 1}, user : {"u", "v"}]

Changed(p, c) ==
    CASE c.do = "wait" -> p
      [] c.do = "off" -> WithoutLoginCheck(p)
      [] c.do = "reload" -> ReloadSecret(p, c.to)
      [] c.do = "explicit" -> WithLoginTokenSecret(p, c.to)
      [] c.do = "check" -> WithLoginCheck(p, c.to)

\* TokensFollowSecret: unless the check is off or the business's own, the
\* login of a token's user, and of nobody else, goes on while the token has
\* not expired and the secret in force, the last one given in code or else
\* the last one of the configuration, is the one it was made with; a token
\* outlives other changes, and without a secret nobody logs in.
TokensFollowSecret ==
    Is("login") =>
        LET At(i) == FoldLeft(Changed, [explicit |-> "", configured |-> input.first,
                                        custom |-> "none", off |-> FALSE],
                              SubSeq(input.changes, 1, i))
            Of(i, do) == SelectSeq(SubSeq(input.changes, 1, i), LAMBDA c : c.do = do)
            Given(i, do, otherwise) == IF Of(i, do) = <<>> THEN otherwise ELSE Last(Of(i, do)).to
            InForce(i) == IF Given(i, "explicit", "") # "" THEN Given(i, "explicit", "")
                          ELSE Given(i, "reload", input.first)
            Time(i) == Len(Of(i, "wait"))
            token == GenerateLoginToken(At(input.made), "u", input.ttl, Time(input.made))
            goesOn == CheckLoginCredential(At(3), input.user, token, Time(3))
        IN  (Of(3, "off") = <<>> /\ Given(3, "check", "none") = "none") =>
                (goesOn <=> /\ InForce(3) # "" /\ InForce(3) = InForce(input.made)
                            /\ Time(3) <= Time(input.made) + input.ttl
                            /\ input.user = "u")

-----------------------------------------------------------------------------
(* Three exports, each with one disturbance at most.                       *)

Calm == [before |-> {}, edit |-> [f \in Book |-> "no"], fails |-> {}, panics |-> "no"]
Rounds ==
    UNION {{[Calm EXCEPT !.before = b],
            [Calm EXCEPT !.before = b, !.edit["a"] = "replaced"],
            [Calm EXCEPT !.before = b, !.edit["b"] = "rewritten"],
            [Calm EXCEPT !.before = b, !.fails = {"a"}],
            [Calm EXCEPT !.before = b, !.panics = "b"],
            [Calm EXCEPT !.before = b, !.panics = "go"],
            [Calm EXCEPT !.before = b, !.panics = "cs"]} : b \in SUBSET Book}
Exports == [is : {"export"}, rounds : TupleOf(Rounds, 3)]

\* ExportsAreCurrent: an export that ends leaves the JSON file of every
\* workbook at the revision the workbook had when it began, or a later one,
\* and the structs of all of them, whatever exports before it wrote only half
\* of that or skipped; but for a JSON file whose writing failed, or whose
\* workbook was replaced, between its digest and its writing.
ExportsAreCurrent ==
    Is("export") =>
        \A n \in 1..3 :
            LET At(i) == FoldLeft(Round, Empty, SubSeq(input.rounds, 1, i))
                began == At(n - 1).book
            IN  At(n).up =>
                /\ At(n).go = Book /\ At(n).cs = Book
                /\ \A f \in Book \ At(n).tainted :
                      At(n).json[f] >= began[f] + (IF f \in input.rounds[n].before THEN 1 ELSE 0)

-----------------------------------------------------------------------------
Init ==
    \/ input \in {[c EXCEPT !.is = "request"] : c \in Talks(Requests, {TRUE})}
    \/ input \in {[c EXCEPT !.is = "answer"] : c \in Talks(Answers, BOOLEAN)}
    \/ input \in Draws
    \/ input \in Runs
    \/ input \in Exchanges \union Hooks
    \/ input \in Logins
    \/ input \in Exports

Next == UNCHANGED input
Spec == Init /\ [][Next]_input
=============================================================================
