------------------------------ MODULE Platform ------------------------------
(***************************************************************************)
(* Third-party platforms: the registry (platform/registry.go), the meters  *)
(* that it wraps around a provider (platform/metrics.go) and the gate of   *)
(* the platforms' webhooks (platform/webhook.go).                          *)
(*                                                                         *)
(* A provider is [name, can, accepts]: the capabilities it implements, and *)
(* the callbacks whose signature it accepts.  A name is [core, padded];    *)
(* names are compared as they are written, blanks included.                *)
(***************************************************************************)
EXTENDS Naturals, FiniteSets, FiniteSetsExt, SequencesExt, TLC

Capability == {"login", "payment", "audit", "webhook"}
Bit == [login |-> 1, payment |-> 2, audit |-> 4, webhook |-> 8]

Nil == [name |-> [core |-> "", padded |-> FALSE], can |-> {}, accepts |-> {}, metered |-> FALSE]

TrimSpace(name) == [name EXCEPT !.padded = FALSE]

\* wrapWithMetrics: the shims that the mask selects of the sixteen types.
Mask(p) == FoldSet(LAMBDA c, mask : mask + Bit[c], 0, p.can)
WrapWithMetrics(p) ==
    [p EXCEPT !.can = {c \in Capability : (Mask(p) \div Bit[c]) % 2 = 1}, !.metered = TRUE]

\* Register refuses no provider, no name and a name that is taken.
Register(registry, p) ==
    LET name == TrimSpace(p.name) IN
    IF p = Nil \/ name.core = "" \/ name \in DOMAIN registry THEN registry
    ELSE name :> WrapWithMetrics(p) @@ registry

Registry(providers) == FoldLeft(Register, <<>>, providers)

\* Login, Payment, Audit and Webhook: the provider if it is there and has
\* the capability.
Get(registry, name, capability) ==
    IF name \in DOMAIN registry /\ capability \in registry[name].can
    THEN registry[name] ELSE Nil

\* observePlatformCall in a deferred call: a verifier that panics has
\* returned no error.
ObservePlatformCall(v, x, error) ==
    IF ~v.metered THEN x
    ELSE [x EXCEPT !.calls = @ + 1, !.fails = IF error THEN @ + 1 ELSE @]

VerifyWebhook(v, q, x) == ObservePlatformCall(v, x, q.signed \notin v.accepts \union {"panics"})
=============================================================================
