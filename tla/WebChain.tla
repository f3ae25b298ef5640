------------------------------ MODULE WebChain ------------------------------
(***************************************************************************)
(* HTTP requests through the server of web/: the built-in middlewares      *)
(* (web/middleware.go) in the order of buildHandler (web/web.go), the      *)
(* bridge to the backend and its table of errors (web/bridge.go,           *)
(* rpc/http_bridge.go).  Trace identifiers are left out.                   *)
(*                                                                         *)
(* Options o are [access, metrics, recover, qps, auth, registered]: which  *)
(* middlewares are on, the limit (0 for none), the token the route's Auth  *)
(* wants ("off" without Auth, "" not configured) and the error statuses    *)
(* that the business has registered, and hook the verifier of a platform's *)
(* webhook route, {} on other routes.  A request q is [at, by, backend,    *)
(* token, signed, body, error, encodes, acts]: by says whether its handler *)
(* is the bridge (RPC), calls the backend itself (Invoke), or does acts, a *)
(* sequence of [do, status]; backend whether there is one; a body [size,   *)
(* sound] is unsound if it cannot be read or is no JSON.                   *)
(***************************************************************************)
EXTENDS Integers, Sequences, SequencesExt, Platform

CONSTANTS
    Second,     \* clock units per second
    MaxBody     \* DefaultMaxBodyBytes

ASSUME WebAssumption == Second \in Nat \ {0} /\ MaxBody \in Nat

\* A server: its limiter's bucket, its meters (calls and fails are the
\* webhook platform's) and its access log.  An
\* exchange x extends it with the status that went out (sent, 0 for none),
\* the recorder's (rec), and the panic on its way up.
Server(o) ==
    [tokens |-> (IF o.qps > 1 THEN o.qps ELSE 1) * Second, last |-> 0, inflight |-> 0,
     total |-> 0, c4 |-> 0, c5 |-> 0, limited |-> 0, log |-> <<>>,
     calls |-> 0, fails |-> 0,
     sent |-> 0, rec |-> 0, panic |-> "none"]

\* ResponseRecorder.  As in net/http the first status counts, and a write
\* without one means 200.
WriteHeader(x, s) ==
    [x EXCEPT !.sent = IF @ = 0 THEN s ELSE @, !.rec = IF @ = 0 THEN s ELSE @]
Status(x) == IF x.rec = 0 THEN 200 ELSE x.rec
Wrote(x) == x.rec # 0

-----------------------------------------------------------------------------
(* The bridge.  An error is [is, carries]: the sentinels that errors.Is    *)
(* finds in it, and the status of an HTTPStatusCarrier in its chain (0 for *)
(* none); no error is the empty set.                                       *)

Framework ==
    <<[target |-> "BackendNotConfigured", status |-> 503], [target |-> "BodyTooLarge", status |-> 413],
      [target |-> "RateLimited", status |-> 429], [target |-> "Overload", status |-> 503],
      [target |-> "CircuitOpen", status |-> 503], [target |-> "RPCTimeOut", status |-> 504],
      [target |-> "ServiceNotFound", status |-> 503]>>

\* A later registration is found before an earlier one.
RegisterErrorStatus(table, e) ==
    IF e.status < 100 \/ e.status > 599 THEN table ELSE <<e>> \o table

ErrorTable(o) == FoldLeft(RegisterErrorStatus, <<>>, Framework \o o.registered)

StatusFromError(o, e) ==
    LET found == SelectSeq(ErrorTable(o), LAMBDA entry : entry.target \in e.is) IN
    CASE e.carries # 0 -> e.carries
      [] e.carries = 0 /\ found # <<>> -> found[1].status
      [] OTHER -> IF "DeadlineExceeded" \in e.is THEN 504 ELSE 502

\* The limit is on the bytes, and comes before the decoding.
DecodeJSONLimit(body) ==
    IF body.size > MaxBody THEN "BodyTooLarge"
    ELSE IF body.sound THEN "nil" ELSE "decode"

\* WriteJSON answers 500 when the value cannot be encoded; an ErrorResponse
\* always can.
WriteJSON(x, status, encodes) == WriteHeader(x, IF encodes THEN status ELSE 500)
WriteError(x, status) == WriteJSON(x, status, TRUE)

\* The error of a call through the backend, which may not be configured.
Invoke(q) ==
    IF q.backend THEN q.error ELSE [is |-> {"BackendNotConfigured"}, carries |-> 0]

\* What Invoke's handlers do with its result, as its comment shows.
InvokeHandler(o, q, x) ==
    IF Invoke(q).is # {} THEN WriteError(x, StatusFromError(o, Invoke(q)))
    ELSE WriteJSON(x, 200, q.encodes)

\* RPC: decode, invoke, encode.
RPC(o, q, x) ==
    IF ~q.backend THEN WriteError(x, 503)
    ELSE IF DecodeJSONLimit(q.body) = "nil" THEN InvokeHandler(o, q, x)
    ELSE WriteError(x, IF DecodeJSONLimit(q.body) = "BodyTooLarge" THEN 413 ELSE 400)

\* Any other handler: it writes, and may panic (or abort, as net/http says);
\* of what it writes before that the first counts.
Acts(q, x) ==
    LET stop == SelectInSeq(q.acts, LAMBDA a : a.do # "write")
        y == IF q.acts # <<>> /\ q.acts[1].do = "write" THEN WriteHeader(x, q.acts[1].status) ELSE x
    IN  IF stop = 0 THEN y ELSE [y EXCEPT !.panic = q.acts[stop].do]

Route(o, q, x) ==
    IF q.by = "RPC" THEN RPC(o, q, x)
    ELSE IF q.by = "Invoke" THEN InvokeHandler(o, q, x)
    ELSE Acts(q, x)

-----------------------------------------------------------------------------
(* The middlewares, the innermost first. *)

\* WebhookMiddleware without a verifier lets nobody in either.
Unverified(o, q, x, y) ==
    IF o.hook = {Nil} THEN WriteHeader(x, 503)
    ELSE IF q.signed = "panics" THEN [y EXCEPT !.panic = "panic"]
    ELSE WriteHeader(y, 401)

WebhookMiddleware(o, q, x) ==
    LET v == CHOOSE v \in o.hook : TRUE IN
    IF o.hook = {} \/ (o.hook # {Nil} /\ q.signed \in v.accepts)
    THEN Route(o, q, IF o.hook = {} THEN x ELSE VerifyWebhook(v, q, x))
    ELSE Unverified(o, q, x, VerifyWebhook(v, q, x))

\* Auth with BearerToken: without a configured token it lets nobody in.
Auth(o, q, x) ==
    IF o.auth = "off" \/ (o.auth # "" /\ q.token = o.auth) THEN WebhookMiddleware(o, q, x)
    ELSE WriteHeader(x, IF o.auth = "" THEN 503 ELSE 401)

\* The token bucket, in units of 1/Second of a token.
Refilled(o, q, x) ==
    LET capacity == (IF o.qps > 1 THEN o.qps ELSE 1) * Second
        filled == x.tokens + (q.at - x.last) * o.qps
    IN  [x EXCEPT !.tokens = IF filled > capacity THEN capacity ELSE filled, !.last = q.at]

\* x after the refill.
Allow(o, q, x) ==
    IF o.qps = 0 \/ x.tokens >= Second
    THEN Auth(o, q, IF o.qps = 0 THEN x ELSE [x EXCEPT !.tokens = @ - Second])
    ELSE WriteHeader([x EXCEPT !.limited = @ + 1], 429)

RateLimit(o, q, x) == Allow(o, q, IF o.qps = 0 THEN x ELSE Refilled(o, q, x))

\* Recover turns a panic into a 500 unless an answer has begun; an abort
\* goes on up.
Recovered(o, y) ==
    IF ~o.recover \/ y.panic # "panic" THEN y
    ELSE [(IF Wrote(y) THEN y ELSE WriteHeader(y, 500)) EXCEPT !.panic = "none"]
Recover(o, q, x) == Recovered(o, RateLimit(o, q, x))

Counted(y) ==
    [y EXCEPT !.inflight = @ - 1, !.total = @ + 1,
              !.c5 = IF Status(y) >= 500 THEN @ + 1 ELSE @,
              !.c4 = IF Status(y) \in 400..499 THEN @ + 1 ELSE @]

\* Mutant of Deferred: without the defer a panic escapes the meters.
NotDeferred(o, y) == IF o.metrics /\ y.panic = "none" THEN Counted(y) ELSE y

\* Metrics counts in a defer, whatever the handler does.
Deferred(o, y) == IF o.metrics THEN Counted(y) ELSE y
Metrics(o, q, x) ==
    Deferred(o, Recover(o, q, IF o.metrics THEN [x EXCEPT !.inflight = @ + 1] ELSE x))

\* AccessLog does not: a panic that nobody recovers leaves no line.
Logged(o, y) ==
    IF o.access /\ y.panic = "none" THEN [y EXCEPT !.log = Append(@, Status(y))] ELSE y
AccessLog(o, q, x) == Logged(o, Metrics(o, q, x))

\* One request, from a fresh exchange; net/http answers 200 for a handler
\* that wrote nothing, and cuts the connection when a panic reaches it.
Answered(y) == IF y.panic = "none" /\ y.sent = 0 THEN [y EXCEPT !.sent = 200] ELSE y
Serve(o, q, server) ==
    Answered(AccessLog(o, q, [server EXCEPT !.sent = 0, !.rec = 0, !.panic = "none"]))
=============================================================================
