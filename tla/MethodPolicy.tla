---------------------------- MODULE MethodPolicy ----------------------------
(***************************************************************************)
(* The per-method policy of rpc/rpcserver_policy.go: a circuit breaker, a  *)
(* token bucket and a concurrency semaphore that every send path runs      *)
(* through (applyMethodPolicy) and leaves through the release closure.     *)
(*                                                                         *)
(* The breaker mixes a mutex with atomics: allow() loads `state' without   *)
(* the mutex, decides Open -> HalfOpen under it, and takes the half-open   *)
(* probe with a CAS outside it.  Each of these is a step of its own here,  *)
(* so every interleaving of callers is explored.                           *)
(*                                                                         *)
(* Time is abstracted: `ripe' says that RecoveryInterval has passed since  *)
(* openedAt, and tokens are refilled one at a time.                        *)
(***************************************************************************)
EXTENDS Integers, FiniteSets

CONSTANTS
    Caller,         \* goroutines that send RPCs of this method
    MaxRuntime,     \* bound: methodRuntime objects SetMethodPolicy creates
    MaxConcurrency, \* 0: no semaphore
    Limited,        \* RateLimit > 0: there is a token bucket
    Capacity,       \* its capacity
    Threshold       \* FailureThreshold; 0: no breaker

ASSUME PolicyAssumption ==
    /\ IsFiniteSet(Caller)
    /\ MaxRuntime \in Nat \ {0}
    /\ MaxConcurrency \in Nat
    /\ Limited \in BOOLEAN
    /\ Capacity \in Nat
    /\ Threshold \in Nat

Runtime == 1..MaxRuntime

VARIABLES
    rt,      \* the runtime rpcMethodPolicies holds for the method
    cb,      \* runtime -> its circuitState
    sem,     \* runtime -> slots of the semaphore in use
    tokens,  \* runtime -> whole tokens in the bucket
    call,    \* caller -> where it is in beforeCall / release
    streak   \* history: runtime -> network failures marked since any other outcome

vars == <<rt, cb, sem, tokens, call, streak>>

CbState == {"closed", "open", "halfopen"}
Breaker == [state : CbState, fails : 0..Threshold, ripe : BOOLEAN, probe : BOOLEAN]

\* load: about to Load state; open: has seen Open; cas: about to CAS the probe;
\* bucket, sem: past the breaker, past the bucket; giveback: rejected with the
\* probe; call: admitted; mark: slot returned, about to mark the outcome.
Pc == {"idle", "load", "open", "cas", "bucket", "sem", "giveback", "call", "mark"}
Call == [pc : Pc, rt : Runtime, probe : BOOLEAN]

\* How a call can end: nil, a ServiceError (the remote handler answered with
\* an error), or anything else (timeout, no server, broken connection).
Outcome == {"nil", "service", "network"}

\* openedAt is the zero time, long ago.
NewBreaker == [state |-> "closed", fails |-> 0, ripe |-> TRUE, probe |-> FALSE]

Init ==
    /\ rt = 1
    /\ cb = [r \in Runtime |-> NewBreaker]
    /\ sem = [r \in Runtime |-> 0]
    /\ tokens = [r \in Runtime |-> Capacity]
    /\ call = [c \in Caller |-> [pc |-> "idle", rt |-> 1, probe |-> FALSE]]
    /\ streak = [r \in Runtime |-> 0]

-----------------------------------------------------------------------------
At(c, pc) == call[c].pc = pc
Rt(c) == call[c].rt
Goto(c, pc) == call' = [call EXCEPT ![c].pc = pc]
Reject(c) == call' = [call EXCEPT ![c].pc = "idle", ![c].probe = FALSE]

\* Mutant of RejectAfterBreaker: the probe is not returned.
RejectKeepsProbe(c) == Reject(c)

\* A rejected call first returns the probe if it had taken it.
RejectAfterBreaker(c) == IF call[c].probe THEN Goto(c, "giveback") ELSE Reject(c)

\* applyMethodPolicy: resolve the runtime; without a breaker go to the bucket.
Begin(c) ==
    /\ At(c, "idle")
    /\ call' = [call EXCEPT ![c] = [pc |-> IF Threshold > 0 THEN "load" ELSE "bucket",
                                    rt |-> rt, probe |-> FALSE]]
    /\ UNCHANGED <<rt, cb, sem, tokens, streak>>

\* allow(): the unlocked Load of state.
LoadState(c) ==
    /\ At(c, "load")
    /\ Goto(c, CASE cb[Rt(c)].state = "closed"   -> "bucket"
                 [] cb[Rt(c)].state = "open"     -> "open"
                 [] cb[Rt(c)].state = "halfopen" -> "cas")
    /\ UNCHANGED <<rt, cb, sem, tokens, streak>>

\* Mutant of OpenToHalf: the probe of an earlier half-open phase stays taken.
OpenToHalfKeepsProbe(c) ==
    /\ At(c, "open")
    /\ IF cb[Rt(c)].ripe
       THEN /\ cb' = [cb EXCEPT ![Rt(c)].state = "halfopen"]
            /\ Goto(c, "cas")
       ELSE /\ Reject(c)
            /\ UNCHANGED cb
    /\ UNCHANGED <<rt, sem, tokens, streak>>

\* allow(), the locked block: it does not look at state again.
OpenToHalf(c) ==
    /\ At(c, "open")
    /\ IF cb[Rt(c)].ripe
       THEN /\ cb' = [cb EXCEPT ![Rt(c)].state = "halfopen", ![Rt(c)].probe = FALSE]
            /\ Goto(c, "cas")
       ELSE /\ Reject(c)
            /\ UNCHANGED cb
    /\ UNCHANGED <<rt, sem, tokens, streak>>

\* probeAllow()
ProbeAllow(c) ==
    /\ At(c, "cas")
    /\ IF cb[Rt(c)].probe
       THEN /\ Reject(c)
            /\ UNCHANGED cb
       ELSE /\ cb' = [cb EXCEPT ![Rt(c)].probe = TRUE]
            /\ call' = [call EXCEPT ![c].pc = "bucket", ![c].probe = TRUE]
    /\ UNCHANGED <<rt, sem, tokens, streak>>

\* tokenBucket.allow()
TakeToken(c) ==
    /\ At(c, "bucket")
    /\ IF Limited /\ tokens[Rt(c)] = 0
       THEN /\ RejectAfterBreaker(c)
            /\ UNCHANGED tokens
       ELSE /\ tokens' = IF Limited THEN [tokens EXCEPT ![Rt(c)] = @ - 1] ELSE tokens
            /\ Goto(c, "sem")
    /\ UNCHANGED <<rt, cb, sem, streak>>

\* The non-blocking send on the semaphore; then beforeCall returns.
Acquire(c) ==
    /\ At(c, "sem")
    /\ IF MaxConcurrency > 0 /\ sem[Rt(c)] >= MaxConcurrency
       THEN /\ RejectAfterBreaker(c)
            /\ UNCHANGED sem
       ELSE /\ sem' = IF MaxConcurrency > 0 THEN [sem EXCEPT ![Rt(c)] = @ + 1] ELSE sem
            /\ Goto(c, "call")
    /\ UNCHANGED <<rt, cb, tokens, streak>>

\* releaseProbe() of a call that the bucket or the semaphore rejected.
GiveBack(c) ==
    /\ At(c, "giveback")
    /\ cb' = [cb EXCEPT ![Rt(c)].probe = FALSE]
    /\ Reject(c)
    /\ UNCHANGED <<rt, sem, tokens, streak>>

\* The call ends and release() first drains its slot of the semaphore.
Release(c) ==
    /\ At(c, "call")
    /\ sem' = IF sem[Rt(c)] > 0 THEN [sem EXCEPT ![Rt(c)] = @ - 1] ELSE sem
    /\ IF Threshold > 0 THEN Goto(c, "mark") ELSE Reject(c)
    /\ UNCHANGED <<rt, cb, tokens, streak>>

IsCircuitFailure(o) == o = "network"

Success(b) == [b EXCEPT !.fails = 0, !.state = "closed", !.probe = FALSE]

\* Mutant of Failure: one failure too many is needed to trip.
FailureOffByOne(b) ==
    IF b.state = "halfopen"
    THEN [b EXCEPT !.state = "open", !.ripe = FALSE, !.probe = FALSE]
    ELSE IF b.fails >= Threshold
         THEN [b EXCEPT !.state = "open", !.ripe = FALSE]
         ELSE [b EXCEPT !.fails = @ + 1]

\* Only fails >= Threshold is ever asked, so fails stops at Threshold.
Failure(b) ==
    LET n == IF b.fails < Threshold THEN b.fails + 1 ELSE Threshold IN
    IF b.state = "halfopen"
    THEN [b EXCEPT !.state = "open", !.ripe = FALSE, !.probe = FALSE]
    ELSE IF n >= Threshold
         THEN [b EXCEPT !.fails = n, !.state = "open", !.ripe = FALSE]
         ELSE [b EXCEPT !.fails = n]

\* release(), second half: markFailure() or markSuccess().
Mark(c, o) ==
    LET r == Rt(c) IN
    /\ At(c, "mark")
    /\ cb' = [cb EXCEPT ![r] = IF IsCircuitFailure(o) THEN Failure(@) ELSE Success(@)]
    /\ streak' = [streak EXCEPT ![r] = IF o # "network" THEN 0
                                       ELSE IF @ < Threshold THEN @ + 1 ELSE @]
    /\ Reject(c)
    /\ UNCHANGED <<rt, sem, tokens>>

\* RecoveryInterval has passed since openedAt.
Ripen(r) ==
    /\ ~cb[r].ripe
    /\ cb' = [cb EXCEPT ![r].ripe = TRUE]
    /\ UNCHANGED <<rt, sem, tokens, call, streak>>

\* Enough time for one more token.
Refill(r) ==
    /\ Limited /\ tokens[r] < Capacity
    /\ tokens' = [tokens EXCEPT ![r] = @ + 1]
    /\ UNCHANGED <<rt, cb, sem, call, streak>>

\* SetMethodPolicy: calls in progress keep the runtime they resolved.
SetMethodPolicy ==
    /\ rt < MaxRuntime
    /\ rt' = rt + 1
    /\ UNCHANGED <<cb, sem, tokens, call, streak>>

-----------------------------------------------------------------------------
\* The rest of a call that has begun.
CallStep(c) ==
    \/ LoadState(c) \/ OpenToHalf(c) \/ ProbeAllow(c) \/ TakeToken(c) \/ Acquire(c)
    \/ GiveBack(c) \/ Release(c) \/ \E o \in Outcome : Mark(c, o)

Next ==
    \/ \E c \in Caller : Begin(c) \/ CallStep(c)
    \/ \E r \in Runtime : Ripen(r) \/ Refill(r)
    \/ SetMethodPolicy

Spec == Init /\ [][Next]_vars

\* A call that has begun runs to its end: every send path puts a timeout on
\* it (resolveRPCTimeout), and then runs release.
FairSpec == Spec /\ \A c \in Caller : WF_vars(CallStep(c))

-----------------------------------------------------------------------------
\* Every variable has its type; the bucket never goes below empty nor above
\* its capacity, and a breaker counts at most Threshold failures.
TypeOK ==
    /\ rt \in Runtime
    /\ cb \in [Runtime -> Breaker]
    /\ sem \in [Runtime -> Nat]
    /\ tokens \in [Runtime -> 0..Capacity]
    /\ call \in [Caller -> Call]
    /\ streak \in [Runtime -> 0..Threshold]

Admitted(r) == {c \in Caller : At(c, "call") /\ Rt(c) = r}

\* The semaphore counts exactly the admitted calls of its runtime, also
\* across a SetMethodPolicy in the middle of them, so no slot is ever lost
\* and never more than MaxConcurrency calls are admitted (lines 208-228).
SemaphoreExact ==
    MaxConcurrency > 0 =>
        \A r \in Runtime : /\ sem[r] = Cardinality(Admitted(r))
                           /\ sem[r] <= MaxConcurrency

\* Callers that hold the half-open probe of r and have not marked or returned it.
Probers(r) == {c \in Caller : call[c].probe /\ Rt(c) = r}

\* In HalfOpen the probe is taken only while some call holds it; so the
\* breaker cannot be stuck refusing every call (the E1 fix, lines 178-181).
ProbeHasOwner ==
    \A r \in Runtime :
        cb[r].state = "halfopen" /\ cb[r].probe => Probers(r) # {}

\* A closed breaker is below its threshold.
ClosedBelowThreshold ==
    Threshold > 0 =>
        \A r \in Runtime : cb[r].state = "closed" => cb[r].fails < Threshold

\* The breaker trips only on Threshold network failures in a row: business
\* errors of a healthy node never open it (lines 255-264).
TripsOnNetworkOnly ==
    [][\A r \in Runtime :
          cb[r].state = "closed" /\ cb'[r].state = "open" => streak'[r] >= Threshold]_vars

\* A call that took the probe ends, and the next caller finds HalfOpen over
\* or the probe free (lines 178-181).
HalfOpenResolves ==
    \A r \in Runtime :
        (cb[r].state = "halfopen" /\ cb[r].probe) ~>
            ~(cb[r].state = "halfopen" /\ cb[r].probe)

\* "HalfOpen ... only one probe" (lines 73 and 334): at most one call is
\* under way that was admitted as the probe of a half-open breaker.
OneProbe ==
    \A r \in Runtime :
        Cardinality({c \in Probers(r) : call[c].pc = "call"}) <= 1
=============================================================================
