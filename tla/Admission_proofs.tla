-------------------------- MODULE Admission_proofs --------------------------
(***************************************************************************)
(* Proofs about what lets requests in.  MethodPolicy, for any finite set   *)
(* of callers and any policy: the breaker can neither be stuck on a probe  *)
(* nobody holds nor be closed above its threshold, and the semaphore       *)
(* counts exactly the admitted calls.                                      *)
(*                                                                         *)
(* WebChain, for any options, requests and handlers: every request is      *)
(* counted and logged once, the limiter keeps its rate, and neither a      *)
(* route's handler nor a webhook is reached without its token or           *)
(* signature.                                                              *)
(***************************************************************************)
EXTENDS MethodPolicy, WebChain, FiniteSetTheorems, TLAPS

-----------------------------------------------------------------------------
(* Types *)

\* The breaker keeps its type through markFailure and markSuccess.
LEMMA BreakerType ==
    ASSUME NEW b \in Breaker
    PROVE  Failure(b) \in Breaker /\ Success(b) \in Breaker
<1>1. b.fails \in 0..Threshold /\ Threshold \in Nat
  BY PolicyAssumption DEF Breaker
<1> DEFINE n == IF b.fails < Threshold THEN b.fails + 1 ELSE Threshold
<1>2. n \in 0..Threshold /\ 0 \in 0..Threshold
  BY <1>1
<1>3. Success(b) \in Breaker
  BY <1>2 DEF Success, Breaker, CbState
<1> HIDE DEF n
<1>4. /\ [b EXCEPT !.state = "open", !.ripe = FALSE, !.probe = FALSE] \in Breaker
      /\ [b EXCEPT !.fails = n, !.state = "open", !.ripe = FALSE] \in Breaker
      /\ [b EXCEPT !.fails = n] \in Breaker
  BY <1>2 DEF Breaker, CbState
<1>5. Failure(b) \in Breaker
  BY <1>4 DEF Failure, n
<1> QED
  BY <1>3, <1>5

\* The other changes of a breaker.
LEMMA BreakerMoves ==
    ASSUME NEW b \in Breaker
    PROVE  /\ [b EXCEPT !.state = "halfopen", !.probe = FALSE] \in Breaker
           /\ \A x \in BOOLEAN : [b EXCEPT !.probe = x] \in Breaker
           /\ [b EXCEPT !.ripe = TRUE] \in Breaker
BY DEF Breaker, CbState

\* The moves of a caller keep the type of call, and change its caller alone.
LEMMA CallerMoves ==
    ASSUME TypeOK, NEW c \in Caller
    PROVE  /\ \A pc \in Pc : Goto(c, pc) =>
                /\ call' \in [Caller -> Call]
                /\ call'[c].pc = pc /\ call'[c].rt = Rt(c)
                /\ call'[c].probe = call[c].probe
                /\ \A d \in Caller : d # c => call'[d] = call[d]
           /\ Reject(c) =>
                /\ call' \in [Caller -> Call]
                /\ call'[c].pc = "idle" /\ call'[c].rt = Rt(c) /\ ~call'[c].probe
                /\ \A d \in Caller : d # c => call'[d] = call[d]
           /\ Rt(c) \in Runtime
           /\ call[c].probe \in BOOLEAN
BY DEF TypeOK, Call, Pc, Goto, Reject, Rt

\* A policy that SetMethodPolicy has just built is well typed.
THEOREM TypeInit == Init => TypeOK
<1> SUFFICES ASSUME Init PROVE TypeOK
  OBVIOUS
<1>1. NewBreaker \in Breaker
  BY PolicyAssumption DEF NewBreaker, Breaker, CbState
<1> QED
  BY <1>1, PolicyAssumption DEF Init, TypeOK, Runtime, Call, Pc

\* What a step does to the callers: at most one of them, c, moves, and it
\* keeps the runtime it resolved unless it begins.
LEMMA StepMoves ==
    ASSUME TypeOK, NEW c \in Caller
    PROVE  /\ Begin(c) =>
                /\ call' \in [Caller -> Call]
                /\ call'[c].pc \in {"load", "bucket"} /\ ~call'[c].probe
                /\ call'[c].pc = "load" => Threshold > 0
                /\ \A d \in Caller : d # c => call'[d] = call[d]
           /\ CallStep(c) =>
                /\ call' \in [Caller -> Call]
                /\ call'[c].rt = Rt(c)
                /\ \A d \in Caller : d # c => call'[d] = call[d]
<1>1. ASSUME Begin(c)
      PROVE  /\ call' \in [Caller -> Call]
             /\ call'[c].pc \in {"load", "bucket"} /\ ~call'[c].probe
             /\ call'[c].pc = "load" => Threshold > 0
             /\ \A d \in Caller : d # c => call'[d] = call[d]
  <2> DEFINE n == [pc |-> IF Threshold > 0 THEN "load" ELSE "bucket", rt |-> rt, probe |-> FALSE]
  <2>1. n \in Call
    BY DEF TypeOK, Call, Pc
  <2> QED
    BY <1>1, <2>1 DEF Begin, TypeOK
<1>2. ASSUME CallStep(c)
      PROVE  /\ call' \in [Caller -> Call]
             /\ call'[c].rt = Rt(c)
             /\ \A d \in Caller : d # c => call'[d] = call[d]
  <2>0. (\E pc \in Pc : Goto(c, pc)) \/ Reject(c) \/ ProbeAllow(c)
    <3>1. cb[Rt(c)].state \in CbState
      BY CallerMoves DEF TypeOK, Breaker
    <3>2. \A pc \in {"bucket", "open", "cas", "sem", "giveback", "call", "mark"} : pc \in Pc
      BY DEF Pc
    <3>3. CASE LoadState(c)
      BY <3>1, <3>2, <3>3 DEF LoadState, CbState
    <3>4. CASE OpenToHalf(c) \/ GiveBack(c) \/ (\E o \in Outcome : Mark(c, o))
      BY <3>2, <3>4 DEF OpenToHalf, GiveBack, Mark
    <3>5. CASE TakeToken(c) \/ Acquire(c) \/ Release(c)
      BY <3>2, <3>5 DEF TakeToken, Acquire, Release, RejectAfterBreaker
    <3> QED
      BY <1>2, <3>3, <3>4, <3>5 DEF CallStep
  <2>1. CASE (\E pc \in Pc : Goto(c, pc)) \/ Reject(c)
    BY <2>1, CallerMoves
  <2>2. CASE ProbeAllow(c)
    <3>1. CASE cb[Rt(c)].probe
      BY <2>2, <3>1, CallerMoves DEF ProbeAllow
    <3>2. CASE ~cb[Rt(c)].probe
      BY <2>2, <3>2 DEF ProbeAllow, TypeOK, Call, Pc, Rt
    <3> QED
      BY <3>1, <3>2
  <2> QED
    BY <2>0, <2>1, <2>2
<1> QED
  BY <1>1, <1>2

\* Every step keeps the types.
THEOREM TypeStep == TypeOK /\ [Next]_vars => TypeOK'
<1> SUFFICES ASSUME TypeOK, [Next]_vars PROVE TypeOK'
  OBVIOUS
<1> USE PolicyAssumption
<1>1. ASSUME NEW c \in Caller, Begin(c) PROVE TypeOK'
  <2>1. call' \in [Caller -> Call] /\ Rt(c) \in Runtime
    BY <1>1, StepMoves, CallerMoves DEF CallStep
  <2> QED
    BY <1>1, <2>1 DEF Begin, TypeOK
<1>2. ASSUME NEW c \in Caller, LoadState(c) PROVE TypeOK'
  <2>1. call' \in [Caller -> Call] /\ Rt(c) \in Runtime
    BY <1>2, StepMoves, CallerMoves DEF CallStep
  <2> QED
    BY <1>2, <2>1 DEF LoadState, TypeOK
<1>3. ASSUME NEW c \in Caller, OpenToHalf(c) PROVE TypeOK'
  <2>1. call' \in [Caller -> Call] /\ Rt(c) \in Runtime
    BY <1>3, StepMoves, CallerMoves DEF CallStep
  <2>2. cb[Rt(c)] \in Breaker
    BY <2>1 DEF TypeOK
  <2>3. cb' \in [Runtime -> Breaker]
    BY <1>3, <2>1, <2>2, BreakerMoves, BreakerType DEF OpenToHalf, TypeOK
  <2> QED
    BY <1>3, <2>1, <2>3 DEF OpenToHalf, TypeOK
<1>4. ASSUME NEW c \in Caller, ProbeAllow(c) PROVE TypeOK'
  <2>1. call' \in [Caller -> Call] /\ Rt(c) \in Runtime
    BY <1>4, StepMoves, CallerMoves DEF CallStep
  <2>2. cb[Rt(c)] \in Breaker
    BY <2>1 DEF TypeOK
  <2>3. cb' \in [Runtime -> Breaker]
    BY <1>4, <2>1, <2>2, BreakerMoves, BreakerType DEF ProbeAllow, TypeOK
  <2> QED
    BY <1>4, <2>1, <2>3 DEF ProbeAllow, TypeOK
<1>5. ASSUME NEW c \in Caller, TakeToken(c) PROVE TypeOK'
  <2>1. call' \in [Caller -> Call] /\ Rt(c) \in Runtime
    BY <1>5, StepMoves, CallerMoves DEF CallStep
  <2> QED
    BY <1>5, <2>1 DEF TakeToken, TypeOK
<1>6. ASSUME NEW c \in Caller, Acquire(c) PROVE TypeOK'
  <2>1. call' \in [Caller -> Call] /\ Rt(c) \in Runtime
    BY <1>6, StepMoves, CallerMoves DEF CallStep
  <2> QED
    BY <1>6, <2>1 DEF Acquire, TypeOK
<1>7. ASSUME NEW c \in Caller, GiveBack(c) PROVE TypeOK'
  <2>1. call' \in [Caller -> Call] /\ Rt(c) \in Runtime
    BY <1>7, StepMoves, CallerMoves DEF CallStep
  <2>2. cb[Rt(c)] \in Breaker
    BY <2>1 DEF TypeOK
  <2>3. cb' \in [Runtime -> Breaker]
    BY <1>7, <2>1, <2>2, BreakerMoves, BreakerType DEF GiveBack, TypeOK
  <2> QED
    BY <1>7, <2>1, <2>3 DEF GiveBack, TypeOK
<1>8. ASSUME NEW c \in Caller, Release(c) PROVE TypeOK'
  <2>1. call' \in [Caller -> Call] /\ Rt(c) \in Runtime
    BY <1>8, StepMoves, CallerMoves DEF CallStep
  <2> QED
    BY <1>8, <2>1 DEF Release, TypeOK
<1>9. ASSUME NEW c \in Caller, NEW o \in Outcome, Mark(c, o) PROVE TypeOK'
  <2>1. call' \in [Caller -> Call] /\ Rt(c) \in Runtime
    BY <1>9, StepMoves, CallerMoves DEF CallStep
  <2>2. cb[Rt(c)] \in Breaker
    BY <2>1 DEF TypeOK
  <2>3. cb' \in [Runtime -> Breaker]
    BY <1>9, <2>1, <2>2, BreakerMoves, BreakerType DEF Mark, TypeOK
  <2> QED
    BY <1>9, <2>1, <2>3 DEF Mark, TypeOK
<1>10. ASSUME NEW r \in Runtime, Ripen(r) PROVE TypeOK'
  <2>1. cb' \in [Runtime -> Breaker]
    BY <1>10, BreakerMoves DEF Ripen, TypeOK
  <2> QED
    BY <1>10, <2>1 DEF Ripen, TypeOK
<1>11. ASSUME NEW r \in Runtime, Refill(r) PROVE TypeOK'
  <2>1. tokens[r] \in 0..Capacity /\ tokens[r] < Capacity
    BY <1>11 DEF Refill, TypeOK
  <2>2. tokens[r] + 1 \in 0..Capacity
    BY <2>1
  <2>3. tokens' \in [Runtime -> 0..Capacity]
    BY <1>11, <2>2 DEF Refill, TypeOK
  <2> QED
    BY <1>11, <2>3 DEF Refill, TypeOK
<1>12. ASSUME SetMethodPolicy PROVE TypeOK'
  BY <1>12 DEF SetMethodPolicy, TypeOK, Runtime
<1>13. CASE UNCHANGED vars
  BY <1>13 DEF vars, TypeOK
<1> QED
  BY <1>1, <1>2, <1>3, <1>4, <1>5, <1>6, <1>7, <1>8, <1>9, <1>10, <1>11, <1>12, <1>13
     DEF Next, CallStep

\* Every state the policy can reach is well typed.
THEOREM TypeCorrect == Spec => []TypeOK
  BY TypeInit, TypeStep, PTL DEF Spec

-----------------------------------------------------------------------------
(* The breaker *)

\* A call holds the probe only between its CAS and its mark, and nothing
\* touches a breaker that does not exist.
ProbePcs ==
    \A c \in Caller :
        /\ call[c].pc \in {"idle", "load", "open", "cas"} => ~call[c].probe
        /\ call[c].pc \in {"load", "open", "cas"} \/ call[c].probe => Threshold > 0

BreakerInv ==
    /\ TypeOK
    /\ ProbePcs
    /\ ProbeHasOwner
    /\ ClosedBelowThreshold

\* markFailure and markSuccess leave no taken probe in HalfOpen, and no
\* closed breaker at its threshold.
LEMMA MarkEffect ==
    ASSUME NEW b \in Breaker, Threshold > 0,
           b.state = "closed" => b.fails < Threshold
    PROVE  /\ Success(b).state = "closed" /\ Success(b).fails < Threshold
           /\ Failure(b).state # "halfopen"
           /\ Failure(b).state = "closed" => Failure(b).fails < Threshold
<1>1. b.fails \in 0..Threshold /\ Threshold \in Nat
  BY PolicyAssumption DEF Breaker
<1>2. Success(b).state = "closed" /\ Success(b).fails < Threshold
  BY <1>1 DEF Success, Breaker
<1> DEFINE n == IF b.fails < Threshold THEN b.fails + 1 ELSE Threshold
<1> HIDE DEF n
<1>3. CASE b.state = "halfopen"
  BY <1>2, <1>3 DEF Failure, Breaker
<1>4. CASE b.state # "halfopen" /\ n >= Threshold
  BY <1>2, <1>4 DEF Failure, Breaker, n
<1>5. CASE b.state # "halfopen" /\ ~(n >= Threshold)
  <2>1. Failure(b) = [b EXCEPT !.fails = n]
    BY <1>5 DEF Failure, n
  <2>2. n \in Nat
    BY <1>1 DEF n
  <2>3. Failure(b).state = b.state /\ Failure(b).fails = n
    BY <2>1 DEF Breaker
  <2> QED
    BY <1>1, <1>2, <1>5, <2>2, <2>3
<1> QED
  BY <1>3, <1>4, <1>5

\* As long as c, the only caller that moves, does not drop a probe, every
\* runtime that had an owner of its probe still has one.
LEMMA MoveKeepsProbes ==
    ASSUME NEW c \in Caller,
           call[c].probe => call'[c].probe /\ call'[c].rt = Rt(c),
           \A d \in Caller : d # c => call'[d] = call[d]
    PROVE  \A r \in Runtime : Probers(r) # {} => Probers(r)' # {}
<1> SUFFICES ASSUME NEW r \in Runtime, NEW d \in Probers(r) PROVE d \in Probers(r)'
  OBVIOUS
<1>1. d \in Caller /\ call[d].probe /\ call[d].rt = r
  BY DEF Probers, Rt
<1>2. CASE d = c
  BY <1>1, <1>2 DEF Probers, Rt
<1>3. CASE d # c
  BY <1>1, <1>3 DEF Probers, Rt
<1> QED
  BY <1>2, <1>3

\* A new breaker is closed, with no failures and no probe taken.
THEOREM BreakerInit == Init => BreakerInv
<1> SUFFICES ASSUME Init PROVE BreakerInv
  OBVIOUS
<1>1. TypeOK
  BY TypeInit
<1>2. ProbePcs /\ ProbeHasOwner
  BY DEF Init, ProbePcs, ProbeHasOwner, NewBreaker
<1>3. ClosedBelowThreshold
  BY DEF Init, ClosedBelowThreshold, NewBreaker
<1> QED
  BY <1>1, <1>2, <1>3 DEF BreakerInv

\* Every step keeps the breaker invariant.
THEOREM BreakerStep == BreakerInv /\ [Next]_vars => BreakerInv'
<1> SUFFICES ASSUME BreakerInv, [Next]_vars PROVE BreakerInv'
  OBVIOUS
<1>0. TypeOK /\ TypeOK'
  BY TypeStep DEF BreakerInv
<1> USE <1>0, PolicyAssumption
<1>1. ASSUME NEW c \in Caller, Begin(c) PROVE BreakerInv'
  <2>1. /\ ~call[c].probe /\ ~call'[c].probe
        /\ call'[c].pc \in {"load", "bucket"} /\ (call'[c].pc = "load" => Threshold > 0)
        /\ \A d \in Caller : d # c => call'[d] = call[d]
    BY <1>1, StepMoves DEF Begin, At, BreakerInv, ProbePcs
  <2>2. ProbePcs'
    BY <2>1 DEF BreakerInv, ProbePcs
  <2>3. \A r \in Runtime : Probers(r) # {} => Probers(r)' # {}
    BY <2>1, MoveKeepsProbes
  <2> QED
    BY <1>1, <2>2, <2>3 DEF Begin, BreakerInv, ProbeHasOwner, ClosedBelowThreshold
<1>2. ASSUME NEW c \in Caller, LoadState(c) PROVE BreakerInv'
  <2>1. \A d \in Caller : d # c => call'[d] = call[d]
    BY <1>2, StepMoves DEF CallStep
  <2>2. call'[c].rt = Rt(c) /\ call'[c].probe = call[c].probe
    BY <1>2, CallerMoves DEF LoadState, At, RejectAfterBreaker, Pc, BreakerInv,
       ProbePcs, TypeOK, Breaker, CbState
  <2>3. ProbePcs'
    BY <1>2, <2>1, <2>2, CallerMoves DEF LoadState, At, RejectAfterBreaker, Pc,
       BreakerInv, ProbePcs, TypeOK, Breaker, CbState
  <2>4. \A r \in Runtime : Probers(r) # {} => Probers(r)' # {}
    BY <2>1, <2>2, MoveKeepsProbes
  <2> QED
    BY <1>2, <2>3, <2>4 DEF LoadState, BreakerInv, ProbeHasOwner, ClosedBelowThreshold
<1>3. ASSUME NEW c \in Caller, OpenToHalf(c) PROVE BreakerInv'
  <2>1. /\ ~call[c].probe /\ ~call'[c].probe /\ call'[c].pc \in {"cas", "idle"}
        /\ Threshold > 0 /\ Rt(c) \in Runtime
        /\ \A d \in Caller : d # c => call'[d] = call[d]
    BY <1>3, CallerMoves DEF OpenToHalf, At, Pc, BreakerInv, ProbePcs
  <2>2. ProbePcs'
    BY <2>1 DEF BreakerInv, ProbePcs
  <2>3. \A r \in Runtime : Probers(r) # {} => Probers(r)' # {}
    BY <2>1, MoveKeepsProbes
  <2>4. \A r \in Runtime : \/ cb'[r] = cb[r]
                          \/ /\ cb'[r].state = "halfopen"
                             /\ ~cb'[r].probe
    BY <1>3, <2>1 DEF OpenToHalf, TypeOK, Breaker
  <2> QED
    BY <2>2, <2>3, <2>4 DEF BreakerInv, ProbeHasOwner, ClosedBelowThreshold
<1>4. ASSUME NEW c \in Caller, ProbeAllow(c) PROVE BreakerInv'
  <2>0. ~call[c].probe /\ Threshold > 0 /\ Rt(c) \in Runtime
    BY <1>4, CallerMoves DEF ProbeAllow, At, BreakerInv, ProbePcs
  <2>1. CASE cb[Rt(c)].probe
    <3>1. ~call'[c].probe /\ call'[c].pc = "idle" /\ \A d \in Caller : d # c => call'[d] = call[d]
      BY <1>4, <2>1, CallerMoves DEF ProbeAllow
    <3>2. ProbePcs'
      BY <3>1 DEF BreakerInv, ProbePcs
    <3>3. \A r \in Runtime : Probers(r) # {} => Probers(r)' # {}
      BY <2>0, <3>1, MoveKeepsProbes
    <3> QED
      BY <1>4, <2>1, <3>2, <3>3 DEF ProbeAllow, BreakerInv, ProbeHasOwner,
         ClosedBelowThreshold
  <2>2. CASE ~cb[Rt(c)].probe
    <3>1. /\ call'[c].probe /\ call'[c].pc = "bucket" /\ call'[c].rt = Rt(c)
          /\ \A d \in Caller : d # c => call'[d] = call[d]
      BY <1>4, <2>2 DEF ProbeAllow, TypeOK, Call, Rt
    <3>2. ProbePcs'
      BY <2>0, <3>1 DEF BreakerInv, ProbePcs
    <3>3. \A r \in Runtime : r = Rt(c) => c \in Probers(r)'
      BY <3>1 DEF Probers, Rt
    <3>4. \A r \in Runtime : r # Rt(c) => cb'[r] = cb[r]
      BY <1>4, <2>2 DEF ProbeAllow, TypeOK
    <3>5. cb'[Rt(c)].state = cb[Rt(c)].state /\ cb'[Rt(c)].fails = cb[Rt(c)].fails
      BY <1>4, <2>0, <2>2 DEF ProbeAllow, TypeOK, Breaker
    <3>6. ProbeHasOwner'
      <4>1. \A r \in Runtime : Probers(r) # {} => Probers(r)' # {}
        BY <2>0, <3>1, MoveKeepsProbes
      <4>2. \A r \in Runtime : cb'[r].state = "halfopen" /\ cb'[r].probe => Probers(r)' # {}
        BY <3>3, <3>4, <4>1 DEF BreakerInv, ProbeHasOwner
      <4> QED
        BY <4>2 DEF ProbeHasOwner
    <3>7. ClosedBelowThreshold'
      BY <3>4, <3>5 DEF BreakerInv, ClosedBelowThreshold
    <3> QED
      BY <3>2, <3>6, <3>7 DEF BreakerInv
  <2> QED
    BY <2>1, <2>2
<1>5. ASSUME NEW c \in Caller, TakeToken(c) PROVE BreakerInv'
  <2>1. \A d \in Caller : d # c => call'[d] = call[d]
    BY <1>5, StepMoves DEF CallStep
  <2>2. \/ \E pc \in {"giveback", "sem"} : pc \in Pc /\ Goto(c, pc)
        \/ ~call[c].probe /\ Reject(c)
    BY <1>5 DEF TakeToken, RejectAfterBreaker, Pc
  <2>3. \/ /\ call'[c].pc \notin {"idle", "load", "open", "cas"}
           /\ call'[c].rt = Rt(c) /\ call'[c].probe = call[c].probe
        \/ /\ call'[c].pc = "idle"
           /\ ~call[c].probe /\ ~call'[c].probe
    BY <2>2, CallerMoves
  <2>4. ProbePcs'
    BY <2>1, <2>3 DEF BreakerInv, ProbePcs
  <2>5. \A r \in Runtime : Probers(r) # {} => Probers(r)' # {}
    <3>1. call[c].probe => call'[c].probe /\ call'[c].rt = Rt(c)
      BY <2>3
    <3> QED
      BY <2>1, <3>1, MoveKeepsProbes
  <2> QED
    BY <1>5, <2>4, <2>5 DEF TakeToken, BreakerInv, ProbeHasOwner, ClosedBelowThreshold
<1>6. ASSUME NEW c \in Caller, Acquire(c) PROVE BreakerInv'
  <2>1. \A d \in Caller : d # c => call'[d] = call[d]
    BY <1>6, StepMoves DEF CallStep
  <2>2. \/ \E pc \in {"giveback", "call"} : pc \in Pc /\ Goto(c, pc)
        \/ ~call[c].probe /\ Reject(c)
    BY <1>6 DEF Acquire, RejectAfterBreaker, Pc
  <2>3. \/ /\ call'[c].pc \notin {"idle", "load", "open", "cas"}
           /\ call'[c].rt = Rt(c) /\ call'[c].probe = call[c].probe
        \/ /\ call'[c].pc = "idle"
           /\ ~call[c].probe /\ ~call'[c].probe
    BY <2>2, CallerMoves
  <2>4. ProbePcs'
    BY <2>1, <2>3 DEF BreakerInv, ProbePcs
  <2>5. \A r \in Runtime : Probers(r) # {} => Probers(r)' # {}
    <3>1. call[c].probe => call'[c].probe /\ call'[c].rt = Rt(c)
      BY <2>3
    <3> QED
      BY <2>1, <3>1, MoveKeepsProbes
  <2> QED
    BY <1>6, <2>4, <2>5 DEF Acquire, BreakerInv, ProbeHasOwner, ClosedBelowThreshold
<1>7. ASSUME NEW c \in Caller, GiveBack(c) PROVE BreakerInv'
  <2>1. /\ ~call'[c].probe /\ call'[c].pc = "idle" /\ Rt(c) \in Runtime
        /\ \A d \in Caller : d # c => call'[d] = call[d]
    BY <1>7, CallerMoves DEF GiveBack
  <2>2. ProbePcs'
    BY <2>1 DEF BreakerInv, ProbePcs
  <2>3. /\ ~cb'[Rt(c)].probe /\ cb'[Rt(c)].state = cb[Rt(c)].state
        /\ cb'[Rt(c)].fails = cb[Rt(c)].fails
        /\ \A r \in Runtime : r # Rt(c) => cb'[r] = cb[r]
    BY <1>7, <2>1 DEF GiveBack, TypeOK, Breaker
  <2>4. \A r \in Runtime : r # Rt(c) => Probers(r) \subseteq Probers(r)'
    BY <2>1 DEF Probers, Rt
  <2>5. ProbeHasOwner' /\ ClosedBelowThreshold'
    BY <2>3, <2>4 DEF BreakerInv, ProbeHasOwner, ClosedBelowThreshold
  <2> QED
    BY <2>2, <2>5 DEF BreakerInv
<1>8. ASSUME NEW c \in Caller, Release(c) PROVE BreakerInv'
  <2>1. \A d \in Caller : d # c => call'[d] = call[d]
    BY <1>8, StepMoves DEF CallStep
  <2>2. IF Threshold > 0 THEN Goto(c, "mark") ELSE Reject(c)
    BY <1>8 DEF Release
  <2>3. call[c].probe => Threshold > 0
    BY DEF BreakerInv, ProbePcs
  <2>4. \/ /\ call'[c].pc = "mark" /\ Threshold > 0
           /\ call'[c].rt = Rt(c) /\ call'[c].probe = call[c].probe
        \/ /\ call'[c].pc = "idle"
           /\ ~call[c].probe /\ ~call'[c].probe
    BY <2>2, <2>3, CallerMoves DEF Pc
  <2>5. ProbePcs'
    BY <2>1, <2>4 DEF BreakerInv, ProbePcs
  <2>6. \A r \in Runtime : Probers(r) # {} => Probers(r)' # {}
    <3>1. call[c].probe => call'[c].probe /\ call'[c].rt = Rt(c)
      BY <2>4
    <3> QED
      BY <2>1, <3>1, MoveKeepsProbes
  <2> QED
    BY <1>8, <2>5, <2>6 DEF Release, BreakerInv, ProbeHasOwner, ClosedBelowThreshold
<1>9. ASSUME NEW c \in Caller, NEW o \in Outcome, Mark(c, o) PROVE BreakerInv'
  <2>1. /\ ~call'[c].probe /\ call'[c].pc = "idle" /\ Rt(c) \in Runtime
        /\ \A d \in Caller : d # c => call'[d] = call[d]
    BY <1>9, CallerMoves DEF Mark
  <2>2. ProbePcs'
    BY <2>1 DEF BreakerInv, ProbePcs
  <2> DEFINE b == cb[Rt(c)]
  <2>3. b \in Breaker /\ (b.state = "closed" /\ Threshold > 0 => b.fails < Threshold)
    BY <2>1 DEF BreakerInv, ClosedBelowThreshold, TypeOK
  <2>4. cb'[Rt(c)] \in {Failure(b), Success(b)} /\ \A r \in Runtime : r # Rt(c) => cb'[r] = cb[r]
    BY <1>9, <2>1 DEF Mark, TypeOK
  <2>5. \A r \in Runtime : r # Rt(c) => Probers(r) \subseteq Probers(r)'
    BY <2>1 DEF Probers, Rt
  <2>6. cb'[Rt(c)].state # "halfopen"
    BY <2>3, <2>4 DEF Failure, Success, Breaker
  <2>7. ClosedBelowThreshold'
    <3> SUFFICES ASSUME Threshold > 0, NEW r \in Runtime, cb'[r].state = "closed"
                 PROVE  cb'[r].fails < Threshold
      BY DEF ClosedBelowThreshold
    <3>1. CASE r = Rt(c)
      BY <2>3, <2>4, <3>1, MarkEffect
    <3>2. CASE r # Rt(c)
      BY <2>4, <3>2 DEF BreakerInv, ClosedBelowThreshold
    <3> QED
      BY <3>1, <3>2
  <2>8. ProbeHasOwner'
    BY <2>4, <2>5, <2>6 DEF BreakerInv, ProbeHasOwner
  <2> QED
    BY <2>2, <2>7, <2>8 DEF BreakerInv
<1>10. ASSUME NEW r \in Runtime, Ripen(r) PROVE BreakerInv'
  <2>1. \A s \in Runtime : /\ cb'[s].state = cb[s].state /\ cb'[s].fails = cb[s].fails
                          /\ cb'[s].probe = cb[s].probe
    BY <1>10 DEF Ripen, TypeOK, Breaker
  <2> QED
    BY <1>10, <2>1 DEF Ripen, BreakerInv, ProbePcs, ProbeHasOwner, ClosedBelowThreshold,
       Probers, Rt
<1>11. ASSUME NEW r \in Runtime, Refill(r) PROVE BreakerInv'
  BY <1>11 DEF Refill, BreakerInv, ProbePcs, ProbeHasOwner, ClosedBelowThreshold,
     Probers, Rt
<1>12. ASSUME SetMethodPolicy PROVE BreakerInv'
  BY <1>12 DEF SetMethodPolicy, BreakerInv, ProbePcs, ProbeHasOwner,
     ClosedBelowThreshold, Probers, Rt
<1>13. CASE UNCHANGED vars
  BY <1>13 DEF vars, BreakerInv, ProbePcs, ProbeHasOwner, ClosedBelowThreshold, Probers, Rt
<1> QED
  BY <1>1, <1>2, <1>3, <1>4, <1>5, <1>6, <1>7, <1>8, <1>9, <1>10, <1>11, <1>12, <1>13
     DEF Next, CallStep

\* The half-open probe always has an owner, so the breaker recovers when that
\* call ends; and a closed breaker is below its threshold.
THEOREM BreakerCorrect == Spec => [](ProbeHasOwner /\ ClosedBelowThreshold)
<1>1. Spec => []BreakerInv
  BY BreakerInit, BreakerStep, PTL DEF Spec
<1>2. BreakerInv => ProbeHasOwner /\ ClosedBelowThreshold
  BY DEF BreakerInv
<1> QED
  BY <1>1, <1>2, PTL

\* A breaker that is closed has counted fewer failures than its threshold, so
\* the failure that reaches it is the one that opens it (breaker.markFailure).
THEOREM ClosedCorrect == Spec => []ClosedBelowThreshold
  BY BreakerCorrect, PTL

-----------------------------------------------------------------------------
(* The semaphore *)

SemaphoreInv == TypeOK /\ SemaphoreExact

\* A step that neither admits nor ends a call leaves the count alone.
LEMMA SemaphoreFrame ==
    ASSUME SemaphoreExact, UNCHANGED sem, NEW c \in Caller,
           call'[c].pc # "call", call[c].pc # "call",
           \A d \in Caller : d # c => call'[d] = call[d]
    PROVE  SemaphoreExact'
<1>1. \A r \in Runtime : Admitted(r)' = Admitted(r)
  BY DEF Admitted, At, Rt
<1> QED
  BY <1>1 DEF SemaphoreExact

\* The admitted calls of a runtime are finitely many.
LEMMA AdmittedFinite ==
    ASSUME NEW r \in Runtime
    PROVE  IsFiniteSet(Admitted(r)) /\ Cardinality(Admitted(r)) \in Nat
<1>1. Admitted(r) \subseteq Caller
  BY DEF Admitted
<1>2. IsFiniteSet(Admitted(r))
  BY <1>1, PolicyAssumption, FS_Subset
<1> QED
  BY <1>2, FS_CardinalityType

\* A new semaphore is empty and nobody is admitted.
THEOREM SemaphoreInit == Init => SemaphoreInv
<1> SUFFICES ASSUME Init PROVE SemaphoreInv
  OBVIOUS
<1>1. \A r \in Runtime : Admitted(r) = {}
  BY DEF Init, Admitted, At
<1>2. \A r \in Runtime : sem[r] = 0
  BY DEF Init
<1> QED
  BY <1>1, <1>2, TypeInit, FS_EmptySet, PolicyAssumption DEF SemaphoreInv, SemaphoreExact

\* Every step keeps the semaphore exact.
THEOREM SemaphoreStep == SemaphoreInv /\ [Next]_vars => SemaphoreInv'
<1> SUFFICES ASSUME SemaphoreInv, [Next]_vars PROVE SemaphoreInv'
  OBVIOUS
<1>0. TypeOK /\ TypeOK' /\ SemaphoreExact
  BY TypeStep DEF SemaphoreInv
<1> USE <1>0, PolicyAssumption
<1> SUFFICES SemaphoreExact'
  BY DEF SemaphoreInv
<1>1. ASSUME NEW c \in Caller, Begin(c) PROVE SemaphoreExact'
  <2>1. \A d \in Caller : d # c => call'[d] = call[d]
    BY <1>1, StepMoves DEF CallStep
  <2>2. call'[c].pc # "call" /\ call[c].pc # "call"
    BY <1>1, StepMoves, CallerMoves DEF Begin, At, RejectAfterBreaker, Pc, TypeOK,
       Breaker, CbState, Call
  <2>3. UNCHANGED sem
    BY <1>1 DEF Begin
  <2> QED
    BY <2>1, <2>2, <2>3, SemaphoreFrame
<1>2. ASSUME NEW c \in Caller, LoadState(c) PROVE SemaphoreExact'
  <2>1. \A d \in Caller : d # c => call'[d] = call[d]
    BY <1>2, StepMoves DEF CallStep
  <2>2. call'[c].pc # "call" /\ call[c].pc # "call"
    BY <1>2, StepMoves, CallerMoves DEF LoadState, At, RejectAfterBreaker, Pc, TypeOK,
       Breaker, CbState, Call
  <2>3. UNCHANGED sem
    BY <1>2 DEF LoadState
  <2> QED
    BY <2>1, <2>2, <2>3, SemaphoreFrame
<1>3. ASSUME NEW c \in Caller, OpenToHalf(c) PROVE SemaphoreExact'
  <2>1. \A d \in Caller : d # c => call'[d] = call[d]
    BY <1>3, StepMoves DEF CallStep
  <2>2. call'[c].pc # "call" /\ call[c].pc # "call"
    BY <1>3, StepMoves, CallerMoves DEF OpenToHalf, At, RejectAfterBreaker, Pc, TypeOK,
       Breaker, CbState, Call
  <2>3. UNCHANGED sem
    BY <1>3 DEF OpenToHalf
  <2> QED
    BY <2>1, <2>2, <2>3, SemaphoreFrame
<1>4. ASSUME NEW c \in Caller, ProbeAllow(c) PROVE SemaphoreExact'
  <2>1. \A d \in Caller : d # c => call'[d] = call[d]
    BY <1>4, StepMoves DEF CallStep
  <2>2. call'[c].pc # "call" /\ call[c].pc # "call"
    BY <1>4, StepMoves, CallerMoves DEF ProbeAllow, At, RejectAfterBreaker, Pc, TypeOK,
       Breaker, CbState, Call
  <2>3. UNCHANGED sem
    BY <1>4 DEF ProbeAllow
  <2> QED
    BY <2>1, <2>2, <2>3, SemaphoreFrame
<1>5. ASSUME NEW c \in Caller, TakeToken(c) PROVE SemaphoreExact'
  <2>1. \A d \in Caller : d # c => call'[d] = call[d]
    BY <1>5, StepMoves DEF CallStep
  <2>2. call'[c].pc # "call" /\ call[c].pc # "call"
    BY <1>5, StepMoves, CallerMoves DEF TakeToken, At, RejectAfterBreaker, Pc, TypeOK,
       Breaker, CbState, Call
  <2>3. UNCHANGED sem
    BY <1>5 DEF TakeToken
  <2> QED
    BY <2>1, <2>2, <2>3, SemaphoreFrame
<1>6. ASSUME NEW c \in Caller, Acquire(c) PROVE SemaphoreExact'
  <2>1. \A d \in Caller : d # c => call'[d] = call[d]
    BY <1>6, StepMoves DEF CallStep
  <2>2. CASE MaxConcurrency > 0 /\ sem[Rt(c)] >= MaxConcurrency
    <3>1. call'[c].pc # "call" /\ call[c].pc # "call" /\ UNCHANGED sem
      BY <1>6, <2>2, CallerMoves DEF Acquire, At, RejectAfterBreaker, Pc
    <3> QED
      BY <2>1, <3>1, SemaphoreFrame
  <2>3. CASE MaxConcurrency > 0 /\ ~(sem[Rt(c)] >= MaxConcurrency)
    <3>1. PICK q \in Runtime : q = Rt(c)
      BY CallerMoves
    <3>2. call'[c].pc = "call" /\ call'[c].rt = q /\ call[c].pc = "sem" /\ call[c].rt = q
      BY <1>6, <2>3, <3>1, CallerMoves DEF Acquire, At, Pc, Rt
    <3>3. /\ Admitted(q)' = Admitted(q) \cup {c} /\ c \notin Admitted(q)
          /\ \A r \in Runtime : r # q => Admitted(r)' = Admitted(r)
      BY <2>1, <3>2 DEF Admitted, At, Rt
    <3>4. Cardinality(Admitted(q)') = Cardinality(Admitted(q)) + 1
      BY <3>3, AdmittedFinite, FS_AddElement
    <3>5. /\ sem'[q] = sem[q] + 1 /\ sem[q] \in Nat /\ sem[q] < MaxConcurrency
          /\ \A r \in Runtime : r # q => sem'[r] = sem[r]
      BY <1>6, <2>3, <3>1 DEF Acquire, TypeOK
    <3>6. \A r \in Runtime : /\ sem[r] = Cardinality(Admitted(r))
                             /\ sem[r] <= MaxConcurrency
      BY <2>3 DEF SemaphoreExact
    <3>7. sem'[q] = Cardinality(Admitted(q)') /\ sem'[q] <= MaxConcurrency
      BY <3>4, <3>5, <3>6
    <3>8. \A r \in Runtime : /\ sem'[r] = Cardinality(Admitted(r)')
                             /\ sem'[r] <= MaxConcurrency
      BY <3>3, <3>5, <3>6, <3>7
    <3> QED
      BY <3>8 DEF SemaphoreExact
  <2>4. CASE ~(MaxConcurrency > 0)
    BY <2>4 DEF SemaphoreExact
  <2> QED
    BY <2>2, <2>3, <2>4
<1>7. ASSUME NEW c \in Caller, GiveBack(c) PROVE SemaphoreExact'
  <2>1. \A d \in Caller : d # c => call'[d] = call[d]
    BY <1>7, StepMoves DEF CallStep
  <2>2. call'[c].pc # "call" /\ call[c].pc # "call"
    BY <1>7, StepMoves, CallerMoves DEF GiveBack, At, RejectAfterBreaker, Pc, TypeOK,
       Breaker, CbState, Call
  <2>3. UNCHANGED sem
    BY <1>7 DEF GiveBack
  <2> QED
    BY <2>1, <2>2, <2>3, SemaphoreFrame
<1>8. ASSUME NEW c \in Caller, Release(c) PROVE SemaphoreExact'
  <2>1. \A d \in Caller : d # c => call'[d] = call[d]
    BY <1>8, StepMoves DEF CallStep
  <2>2. PICK q \in Runtime : q = Rt(c)
    BY CallerMoves
  <2>3. CASE MaxConcurrency > 0
    <3>1. call[c].pc = "call" /\ call'[c].pc # "call" /\ call[c].rt = q
      BY <1>8, <2>2, CallerMoves DEF Release, At, Pc, Rt
    <3>2. /\ Admitted(q)' = Admitted(q) \ {c} /\ c \in Admitted(q)
          /\ \A r \in Runtime : r # q => Admitted(r)' = Admitted(r)
      BY <2>1, <3>1 DEF Admitted, At, Rt
    <3>3. /\ Cardinality(Admitted(q)') = Cardinality(Admitted(q)) - 1
          /\ Cardinality(Admitted(q)') \in Nat
      <4>1. IsFiniteSet(Admitted(q))
        BY AdmittedFinite
      <4> QED
        BY <3>2, <4>1, FS_RemoveElement, FS_CardinalityType
    <3>4. \A r \in Runtime : /\ sem[r] = Cardinality(Admitted(r)) /\ sem[r] \in Nat
                             /\ sem[r] <= MaxConcurrency
      BY <2>3 DEF SemaphoreExact, TypeOK
    <3>5. sem[q] > 0
      BY <3>3, <3>4
    <3>6. sem'[q] = sem[q] - 1 /\ \A r \in Runtime : r # q => sem'[r] = sem[r]
      BY <1>8, <2>2, <3>5 DEF Release, TypeOK
    <3>7. sem'[q] = Cardinality(Admitted(q)') /\ sem'[q] <= MaxConcurrency
      BY <3>3, <3>4, <3>6
    <3>8. \A r \in Runtime : /\ sem'[r] = Cardinality(Admitted(r)')
                             /\ sem'[r] <= MaxConcurrency
      BY <3>2, <3>4, <3>6, <3>7
    <3> QED
      BY <3>8 DEF SemaphoreExact
  <2>4. CASE ~(MaxConcurrency > 0)
    BY <2>4 DEF SemaphoreExact
  <2> QED
    BY <2>3, <2>4
<1>9. ASSUME NEW c \in Caller, NEW o \in Outcome, Mark(c, o) PROVE SemaphoreExact'
  <2>1. \A d \in Caller : d # c => call'[d] = call[d]
    BY <1>9, StepMoves DEF CallStep
  <2>2. call'[c].pc # "call" /\ call[c].pc # "call"
    BY <1>9, StepMoves, CallerMoves DEF Mark, At, RejectAfterBreaker, Pc, TypeOK,
       Breaker, CbState, Call
  <2>3. UNCHANGED sem
    BY <1>9 DEF Mark
  <2> QED
    BY <2>1, <2>2, <2>3, SemaphoreFrame
<1>10. ASSUME NEW r \in Runtime, Ripen(r) PROVE SemaphoreExact'
  BY <1>10 DEF Ripen, SemaphoreExact, Admitted, At, Rt
<1>11. ASSUME NEW r \in Runtime, Refill(r) PROVE SemaphoreExact'
  BY <1>11 DEF Refill, SemaphoreExact, Admitted, At, Rt
<1>12. ASSUME SetMethodPolicy PROVE SemaphoreExact'
  BY <1>12 DEF SetMethodPolicy, SemaphoreExact, Admitted, At, Rt
<1>13. CASE UNCHANGED vars
  BY <1>13 DEF vars, SemaphoreExact, Admitted, At, Rt
<1> QED
  BY <1>1, <1>2, <1>3, <1>4, <1>5, <1>6, <1>7, <1>8, <1>9, <1>10, <1>11, <1>12, <1>13
     DEF Next, CallStep

\* The semaphore counts exactly the admitted calls, and stays within bounds.
THEOREM SemaphoreCorrect == Spec => []SemaphoreExact
<1>1. Spec => []SemaphoreInv
  BY SemaphoreInit, SemaphoreStep, PTL DEF Spec
<1>2. SemaphoreInv => SemaphoreExact
  BY DEF SemaphoreInv
<1> QED
  BY <1>1, <1>2, PTL

-----------------------------------------------------------------------------
(* WebChain *)

\* A server, or an exchange with it.
IsServer(x) ==
    /\ x = [tokens |-> x.tokens, last |-> x.last, inflight |-> x.inflight, total |-> x.total,
            c4 |-> x.c4, c5 |-> x.c5, limited |-> x.limited, log |-> x.log,
            calls |-> x.calls, fails |-> x.fails, sent |-> x.sent, rec |-> x.rec, panic |-> x.panic]
    /\ x.tokens \in Int /\ x.last \in Int /\ x.inflight \in Int /\ x.total \in Int /\ x.c4 \in Int
    /\ x.c5 \in Int /\ x.limited \in Int /\ x.calls \in Int /\ x.fails \in Int

\* An exchange: the recorder has seen what went out.
IsExchange(x) == IsServer(x) /\ x.rec = x.sent

\* From x to z the meters and the access log of the server stay as they are.
Unmetered(x, z) ==
    /\ z.inflight = x.inflight /\ z.total = x.total /\ z.c4 = x.c4 /\ z.c5 = x.c5 /\ z.log = x.log

\* And the limiter.
Beneath(x, z) ==
    /\ Unmetered(x, z)
    /\ z.tokens = x.tokens /\ z.last = x.last /\ z.limited = x.limited

\* A header goes out as the first one or not at all, and changes nothing else.
LEMMA HeaderWritten ==
    ASSUME NEW x, IsExchange(x), NEW s
    PROVE  LET z == WriteHeader(x, s) IN
           /\ IsExchange(z) /\ Beneath(x, z) /\ z.calls = x.calls /\ z.fails = x.fails
           /\ z.panic = x.panic /\ z.sent = IF x.sent = 0 THEN s ELSE x.sent
<1> DEFINE first == IF x.sent = 0 THEN s ELSE x.sent
           z == WriteHeader(x, s)
<1>0. x = [tokens |-> x.tokens, last |-> x.last, inflight |-> x.inflight, total |-> x.total,
           c4 |-> x.c4, c5 |-> x.c5, limited |-> x.limited, log |-> x.log,
           calls |-> x.calls, fails |-> x.fails, sent |-> x.sent, rec |-> x.rec, panic |-> x.panic]
  BY DEF IsExchange, IsServer
<1>a. x.rec = x.sent
  BY DEF IsExchange
<1>1. z = [tokens |-> x.tokens, last |-> x.last, inflight |-> x.inflight, total |-> x.total,
           c4 |-> x.c4, c5 |-> x.c5, limited |-> x.limited, log |-> x.log,
           calls |-> x.calls, fails |-> x.fails, sent |-> first, rec |-> first, panic |-> x.panic]
  <2>1. z = [x EXCEPT !.sent = first, !.rec = first]
    BY <1>a DEF WriteHeader
  <2> HIDE DEF z, first
  <2> QED BY <1>0, <2>1
<1> HIDE DEF z
<1>2. IsServer(z) /\ z.rec = z.sent
  BY <1>a, <1>1 DEF IsExchange, IsServer
<1>3. Beneath(x, z)
  BY <1>1 DEF Beneath, Unmetered
<1> QED BY <1>1, <1>2, <1>3 DEF IsExchange, z

\* A panic on its way up changes nothing else.
LEMMA Panicked ==
    ASSUME NEW x, IsExchange(x), NEW what
    PROVE  LET z == [x EXCEPT !.panic = what] IN
           /\ IsExchange(z) /\ Beneath(x, z) /\ z.calls = x.calls /\ z.fails = x.fails
           /\ z.panic = what /\ z.sent = x.sent
<1> DEFINE z == [x EXCEPT !.panic = what]
<1>0. x = [tokens |-> x.tokens, last |-> x.last, inflight |-> x.inflight, total |-> x.total,
           c4 |-> x.c4, c5 |-> x.c5, limited |-> x.limited, log |-> x.log,
           calls |-> x.calls, fails |-> x.fails, sent |-> x.sent, rec |-> x.rec, panic |-> x.panic]
  BY DEF IsExchange, IsServer
<1>a. x.rec = x.sent
  BY DEF IsExchange
<1>1. z = [tokens |-> x.tokens, last |-> x.last, inflight |-> x.inflight, total |-> x.total,
           c4 |-> x.c4, c5 |-> x.c5, limited |-> x.limited, log |-> x.log,
           calls |-> x.calls, fails |-> x.fails, sent |-> x.sent, rec |-> x.rec, panic |-> what]
  BY <1>0
<1> HIDE DEF z
<1>2. IsServer(z) /\ z.rec = z.sent
  BY <1>a, <1>1 DEF IsExchange, IsServer
<1>3. Beneath(x, z)
  BY <1>1 DEF Beneath, Unmetered
<1> QED BY <1>1, <1>2, <1>3 DEF IsExchange, z

\* Whatever handles a route answers, or panics, and touches neither the
\* limiter nor any meter.
LEMMA Routed ==
    ASSUME NEW o, NEW q, NEW x, IsExchange(x)
    PROVE  LET z == Route(o, q, x) IN
           /\ IsExchange(z) /\ Beneath(x, z) /\ z.calls = x.calls /\ z.fails = x.fails
<1> DEFINE Fine(z) == IsExchange(z) /\ Beneath(x, z) /\ z.calls = x.calls /\ z.fails = x.fails
<1>1. ASSUME NEW s PROVE Fine(WriteHeader(x, s))
  BY HeaderWritten
<1>2. Fine(x)
  BY DEF Beneath, Unmetered, IsExchange
<1>3. ASSUME NEW z, Fine(z), NEW what PROVE Fine([z EXCEPT !.panic = what])
  <2> DEFINE p == [z EXCEPT !.panic = what]
  <2>1. /\ IsExchange(p) /\ Beneath(z, p) /\ p.calls = z.calls /\ p.fails = z.fails
    BY <1>3, Panicked
  <2> HIDE DEF p
  <2>2. Fine(p)
    BY <1>3, <2>1 DEF Beneath, Unmetered
  <2> QED BY <2>2 DEF p
<1>4. Fine(Acts(q, x))
  <2> DEFINE stop == SelectInSeq(q.acts, LAMBDA a : a.do # "write")
             y == IF q.acts # <<>> /\ q.acts[1].do = "write" THEN WriteHeader(x, q.acts[1].status) ELSE x
  <2> HIDE DEF Fine
  <2>1. Fine(y)
    BY <1>1, <1>2
  <2>2. Acts(q, x) = IF stop = 0 THEN y ELSE [y EXCEPT !.panic = q.acts[stop].do]
    BY DEF Acts
  <2> HIDE DEF stop, y
  <2> QED BY <1>3, <2>1, <2>2
<1> HIDE DEF Fine
<1>5. ASSUME NEW s, NEW b PROVE Fine(WriteJSON(x, s, b)) /\ Fine(WriteError(x, s))
  BY <1>1 DEF WriteJSON, WriteError
<1>6. Fine(InvokeHandler(o, q, x))
  BY <1>5 DEF InvokeHandler
<1>7. Fine(RPC(o, q, x))
  BY <1>5, <1>6 DEF RPC
<1>8. Fine(Route(o, q, x))
  BY <1>4, <1>6, <1>7 DEF Route
<1> QED BY <1>8 DEF Fine

\* A verifier changes the meters of its platform only.
LEMMA Verified ==
    ASSUME NEW x, IsExchange(x), NEW q, NEW v, v.metered \in BOOLEAN
    PROVE  LET z == VerifyWebhook(v, q, x)
               refused == q.signed \notin v.accepts \union {"panics"}
           IN  /\ IsExchange(z) /\ Beneath(x, z) /\ z.sent = x.sent /\ z.panic = x.panic
               /\ z.calls = IF v.metered THEN x.calls + 1 ELSE x.calls
               /\ z.fails = IF v.metered /\ refused THEN x.fails + 1 ELSE x.fails
<1> DEFINE z == VerifyWebhook(v, q, x)
           refused == q.signed \notin v.accepts \union {"panics"}
           n == x.calls + 1
           m == IF refused THEN x.fails + 1 ELSE x.fails
<1>0. x = [tokens |-> x.tokens, last |-> x.last, inflight |-> x.inflight, total |-> x.total,
           c4 |-> x.c4, c5 |-> x.c5, limited |-> x.limited,
           log |-> x.log, calls |-> x.calls, fails |-> x.fails,
           sent |-> x.sent, rec |-> x.rec, panic |-> x.panic]
  BY DEF IsExchange, IsServer
<1>1. CASE ~v.metered
  <2>1. z = x
    BY <1>1 DEF VerifyWebhook, ObservePlatformCall
  <2> QED BY <1>1, <2>1 DEF Beneath, Unmetered
<1>2. CASE v.metered
  <2>1. z = [tokens |-> x.tokens, last |-> x.last, inflight |-> x.inflight, total |-> x.total,
            c4 |-> x.c4, c5 |-> x.c5, limited |-> x.limited,
            log |-> x.log, calls |-> n, fails |-> m,
            sent |-> x.sent, rec |-> x.rec, panic |-> x.panic]
    <3>1. z = [x EXCEPT !.calls = n, !.fails = m]
      BY <1>2 DEF VerifyWebhook, ObservePlatformCall
    <3> HIDE DEF z, n, m
    <3> QED BY <1>0, <3>1
  <2>2. n \in Int /\ m \in Int
    BY DEF IsExchange, IsServer
  <2>3. x.rec = x.sent
    BY DEF IsExchange
  <2> HIDE DEF z, n, m
  <2>4. IsExchange(z)
    BY <2>1, <2>2, <2>3 DEF IsExchange, IsServer
  <2>5. Beneath(x, z) /\ z.sent = x.sent /\ z.panic = x.panic /\ z.calls = n /\ z.fails = m
    BY <2>1 DEF Beneath, Unmetered
  <2> QED BY <1>2, <2>4, <2>5 DEF z, n, m
<1> QED BY <1>1, <1>2

\* Below the limiter nothing touches it or the meters.
LEMMA AuthKeeps ==
    ASSUME NEW o, NEW q, NEW x, IsExchange(x), \A v \in o.hook : v.metered \in BOOLEAN
    PROVE  LET z == Auth(o, q, x) IN IsExchange(z) /\ Beneath(x, z)
<1> DEFINE Fine(z) == IsExchange(z) /\ Beneath(x, z)
<1>1. ASSUME NEW a, Fine(a), NEW b, IsExchange(b), Beneath(a, b) PROVE Fine(b)
  BY <1>1 DEF Beneath, Unmetered
<1>2. Fine(x)
  BY DEF Beneath, Unmetered
<1>3. ASSUME NEW a, Fine(a), NEW s PROVE Fine(WriteHeader(a, s)) /\ Fine([a EXCEPT !.panic = s])
  <2>1. /\ IsExchange(WriteHeader(a, s)) /\ Beneath(a, WriteHeader(a, s))
        /\ IsExchange([a EXCEPT !.panic = s]) /\ Beneath(a, [a EXCEPT !.panic = s])
    BY <1>3, HeaderWritten, Panicked
  <2> QED BY <1>1, <1>3, <2>1
<1>4. ASSUME NEW a, Fine(a) PROVE Fine(Route(o, q, a))
  BY <1>1, <1>4, Routed
<1>5. Fine(WebhookMiddleware(o, q, x))
  <2> DEFINE v == CHOOSE v \in o.hook : TRUE
             y == VerifyWebhook(v, q, x)
  <2>1. CASE o.hook = {}
    <3>1. WebhookMiddleware(o, q, x) = Route(o, q, x)
      BY <2>1 DEF WebhookMiddleware
    <3> QED BY <1>2, <1>4, <3>1
  <2>2. CASE o.hook # {}
    <3>1. v \in o.hook
      BY <2>2
    <3>2. v.metered \in BOOLEAN
      BY <3>1
    <3> HIDE DEF v
    <3>3. Fine(y)
      BY <3>2, Verified
    <3>4. WebhookMiddleware(o, q, x) = Route(o, q, y) \/ WebhookMiddleware(o, q, x) = Unverified(o, q, x, y)
      BY <2>2 DEF WebhookMiddleware, v
    <3> HIDE DEF y
    <3>5. \/ Unverified(o, q, x, y) = WriteHeader(x, 503)
          \/ Unverified(o, q, x, y) = [y EXCEPT !.panic = "panic"]
          \/ Unverified(o, q, x, y) = WriteHeader(y, 401)
      BY DEF Unverified
    <3>6. Fine(Route(o, q, y)) /\ Fine(WriteHeader(y, 401)) /\ Fine([y EXCEPT !.panic = "panic"])
      <4>1. Fine(Route(o, q, y))
        BY <1>4, <3>3
      <4> HIDE DEF Fine
      <4>2. Fine(WriteHeader(y, 401))
        <5>1. ASSUME NEW s PROVE Fine(WriteHeader(y, s))
          BY <1>3, <3>3, Zenon
        <5> QED BY <5>1
      <4>3. Fine([y EXCEPT !.panic = "panic"])
        BY <1>3, <3>3
      <4> QED BY <4>1, <4>2, <4>3
    <3>7. Fine(WriteHeader(x, 503))
      BY HeaderWritten
    <3> DEFINE u == Unverified(o, q, x, y)
               w == WebhookMiddleware(o, q, x)
    <3>8. Fine(u)
      <4>1. CASE u = WriteHeader(x, 503)
        BY <3>7, <4>1
      <4>2. CASE u = [y EXCEPT !.panic = "panic"]
        <5> HIDE DEF u, Fine
        <5> QED BY <3>6, <4>2
      <4>3. CASE u = WriteHeader(y, 401)
        BY <3>6, <4>3
      <4> QED BY <3>5, <4>1, <4>2, <4>3
    <3> HIDE DEF Fine, u, w
    <3>9. Fine(w)
      BY <3>4, <3>6, <3>8 DEF w, u
    <3> QED BY <3>9 DEF w
  <2> QED BY <2>1, <2>2
<1>6. Auth(o, q, x) = WebhookMiddleware(o, q, x) \/ \E s : Auth(o, q, x) = WriteHeader(x, s)
  BY ZenonT(30) DEF Auth
<1>7. Fine(Auth(o, q, x))
  <2> HIDE DEF Fine
  <2> QED BY <1>2, <1>3, <1>5, <1>6
<1> QED BY <1>7

\* The limiter changes its bucket and its own meter only; a request that it
\* admits pays for that.
LEMMA RateLimited ==
    ASSUME NEW o, NEW q, NEW x, IsExchange(x), \A v \in o.hook : v.metered \in BOOLEAN,
           o.qps \in Nat, q.at \in Int
    PROVE  LET z == RateLimit(o, q, x)
               full == o.qps = 0 \/ Refilled(o, q, x).tokens >= Second
           IN  /\ IsExchange(z) /\ Unmetered(x, z)
               /\ o.qps > 0 => z.last = q.at
               /\ o.qps = 0 => z.tokens = x.tokens /\ z.last = x.last
               /\ full => /\ z.limited = x.limited
                          /\ \E y : /\ z = Auth(o, q, y) /\ IsExchange(y) /\ Unmetered(x, y)
                                    /\ y.sent = x.sent /\ y.panic = x.panic /\ y.calls = x.calls
                                    /\ y.fails = x.fails
               /\ full /\ o.qps > 0 => z.tokens = Refilled(o, q, x).tokens - Second
               /\ ~full => /\ z.limited = x.limited + 1 /\ z.tokens = Refilled(o, q, x).tokens
                           /\ z.sent = (IF x.sent = 0 THEN 429 ELSE x.sent)
                           /\ z.panic = x.panic /\ z.calls = x.calls /\ z.fails = x.fails
<1> DEFINE z == RateLimit(o, q, x)
           full == o.qps = 0 \/ Refilled(o, q, x).tokens >= Second
           r == Refilled(o, q, x)
           n == r.tokens
<1>0. x = [tokens |-> x.tokens, last |-> x.last, inflight |-> x.inflight, total |-> x.total,
           c4 |-> x.c4, c5 |-> x.c5, limited |-> x.limited,
           log |-> x.log, calls |-> x.calls, fails |-> x.fails,
           sent |-> x.sent, rec |-> x.rec, panic |-> x.panic]
  BY DEF IsExchange, IsServer
<1>a. x.rec = x.sent
  BY DEF IsExchange
<1>1. r = [tokens |-> n, last |-> q.at, inflight |-> x.inflight, total |-> x.total,
           c4 |-> x.c4, c5 |-> x.c5, limited |-> x.limited,
           log |-> x.log, calls |-> x.calls, fails |-> x.fails,
           sent |-> x.sent, rec |-> x.rec, panic |-> x.panic] /\ n \in Int
  <2> DEFINE capacity == (IF o.qps > 1 THEN o.qps ELSE 1) * Second
             filled == x.tokens + (q.at - x.last) * o.qps
             m == IF filled > capacity THEN capacity ELSE filled
  <2>1. r = [x EXCEPT !.tokens = m, !.last = q.at]
    BY DEF Refilled
  <2>2. m \in Int
    <3>1. capacity \in Int /\ filled \in Int
      BY WebAssumption DEF IsExchange, IsServer
    <3> HIDE DEF capacity, filled
    <3> QED BY <3>1
  <2> HIDE DEF r, m
  <2>3. r = [tokens |-> m, last |-> q.at, inflight |-> x.inflight, total |-> x.total,
             c4 |-> x.c4, c5 |-> x.c5, limited |-> x.limited,
             log |-> x.log, calls |-> x.calls, fails |-> x.fails,
             sent |-> x.sent, rec |-> x.rec, panic |-> x.panic]
    BY <1>0, <2>1
  <2> QED BY <2>2, <2>3
<1>2. IsExchange(r) /\ Unmetered(x, r) /\ r.limited = x.limited /\ r.last = q.at /\ r.sent = x.sent
      /\ r.panic = x.panic /\ r.calls = x.calls /\ r.fails = x.fails
  <2> HIDE DEF r, n
  <2>1. IsExchange(r)
    BY <1>1, <1>a DEF IsExchange, IsServer
  <2> QED BY <1>1, <2>1 DEF Unmetered
<1>3. CASE o.qps = 0
  <2>1. z = Auth(o, q, x) /\ full
    BY <1>3 DEF RateLimit, Allow
  <2>2. IsExchange(Auth(o, q, x)) /\ Beneath(x, Auth(o, q, x))
    BY AuthKeeps
  <2>3. Unmetered(x, x)
    BY DEF Unmetered
  <2> HIDE DEF z, full
  <2> QED BY <1>3, <2>1, <2>2, <2>3 DEF Beneath, z, full
<1>4. CASE o.qps > 0 /\ n >= Second
  <2> DEFINE y == [r EXCEPT !.tokens = @ - Second]
             m == n - Second
  <2>1. z = Auth(o, q, y) /\ full
    BY <1>4 DEF RateLimit, Allow
  <2>2. y = [tokens |-> m, last |-> q.at, inflight |-> x.inflight, total |-> x.total,
             c4 |-> x.c4, c5 |-> x.c5, limited |-> x.limited,
             log |-> x.log, calls |-> x.calls, fails |-> x.fails,
             sent |-> x.sent, rec |-> x.rec, panic |-> x.panic] /\ m \in Int
    <3>1. m \in Int
      <4> HIDE DEF r
      <4> QED BY <1>1, WebAssumption
    <3>2. y = [r EXCEPT !.tokens = m]
      OBVIOUS
    <3> HIDE DEF y, m, r, n
    <3> QED BY <1>1, <3>1, <3>2
  <2> HIDE DEF y, m, r, n
  <2>3. IsExchange(y)
    BY <1>a, <2>2 DEF IsExchange, IsServer
  <2>4. Unmetered(x, y) /\ y.limited = x.limited /\ y.last = q.at /\ y.tokens = m /\ y.sent = x.sent
        /\ y.panic = x.panic /\ y.calls = x.calls /\ y.fails = x.fails
    BY <2>2 DEF Unmetered
  <2>5. IsExchange(Auth(o, q, y)) /\ Beneath(y, Auth(o, q, y))
    BY <2>3, AuthKeeps
  <2> HIDE DEF z, full
  <2>6. IsExchange(z) /\ Unmetered(x, z) /\ z.last = q.at /\ z.limited = x.limited /\ z.tokens = m
    BY <2>1, <2>4, <2>5 DEF Beneath, Unmetered
  <2> QED BY <1>4, <2>1, <2>3, <2>4, <2>6 DEF z, full, m, n, r
<1>5. CASE o.qps > 0 /\ ~(n >= Second)
  <2> DEFINE m == x.limited + 1
             y == [r EXCEPT !.limited = @ + 1]
  <2>1. z = WriteHeader(y, 429) /\ ~full
    BY <1>5 DEF RateLimit, Allow
  <2>2. y = [tokens |-> n, last |-> q.at, inflight |-> x.inflight, total |-> x.total,
             c4 |-> x.c4, c5 |-> x.c5, limited |-> m,
             log |-> x.log, calls |-> x.calls, fails |-> x.fails,
             sent |-> x.sent, rec |-> x.rec, panic |-> x.panic] /\ m \in Int
    <3>1. m \in Int
      BY DEF IsExchange, IsServer
    <3>2. y = [r EXCEPT !.limited = m]
      BY <1>2
    <3> HIDE DEF y, m, r, n
    <3> QED BY <1>1, <3>1, <3>2
  <2> HIDE DEF y, m, r, n
  <2>3. IsExchange(y)
    BY <1>1, <1>a, <2>2 DEF IsExchange, IsServer
  <2>4. Unmetered(x, y) /\ y.limited = m /\ y.last = q.at /\ y.tokens = n /\ y.sent = x.sent
        /\ y.panic = x.panic /\ y.calls = x.calls /\ y.fails = x.fails
    BY <2>2 DEF Unmetered
  <2> HIDE DEF z, full
  <2>5. IsExchange(z) /\ Beneath(y, z) /\ z.calls = y.calls /\ z.fails = y.fails
        /\ z.panic = y.panic /\ z.sent = IF y.sent = 0 THEN 429 ELSE y.sent
    BY <2>1, <2>3, HeaderWritten
  <2>6. Unmetered(x, z) /\ z.last = q.at /\ z.limited = m /\ z.tokens = n
    BY <2>4, <2>5 DEF Beneath, Unmetered
  <2> QED BY <1>5, <2>1, <2>4, <2>5, <2>6 DEF z, full, m, n, r
<1>6. o.qps = 0 \/ (o.qps > 0 /\ n >= Second) \/ (o.qps > 0 /\ ~(n >= Second))
  OBVIOUS
<1> QED BY <1>3, <1>4, <1>5, <1>6

\* What the server keeps of an exchange besides its meters.
Elsewhere(x, z) ==
    /\ z.tokens = x.tokens /\ z.last = x.last /\ z.limited = x.limited
    /\ z.calls = x.calls /\ z.fails = x.fails

\* The meters count an exchange once, by what went out.
LEMMA CountedOnce ==
    ASSUME NEW x, IsExchange(x)
    PROVE  LET z == Counted(x) IN
           /\ IsExchange(z) /\ Elsewhere(x, z) /\ z.sent = x.sent /\ z.panic = x.panic /\ z.log = x.log
           /\ z.inflight = x.inflight - 1 /\ z.total = x.total + 1
           /\ z.c4 = IF x.sent \in 400..499 THEN x.c4 + 1 ELSE x.c4
           /\ z.c5 = IF x.sent >= 500 THEN x.c5 + 1 ELSE x.c5
<1> DEFINE z == Counted(x)
           four == IF x.sent \in 400..499 THEN x.c4 + 1 ELSE x.c4
           five == IF x.sent >= 500 THEN x.c5 + 1 ELSE x.c5
           less == x.inflight - 1
           more == x.total + 1
<1>0. x = [tokens |-> x.tokens, last |-> x.last, inflight |-> x.inflight, total |-> x.total,
           c4 |-> x.c4, c5 |-> x.c5, limited |-> x.limited,
           log |-> x.log, calls |-> x.calls, fails |-> x.fails,
           sent |-> x.sent, rec |-> x.rec, panic |-> x.panic]
  BY DEF IsExchange, IsServer
<1>a. x.rec = x.sent
  BY DEF IsExchange
<1>1. z = [x EXCEPT !.inflight = less, !.total = more, !.c5 = five, !.c4 = four]
  <2>1. Status(x) >= 500 <=> x.sent >= 500
    BY <1>a DEF Status
  <2>2. Status(x) \in 400..499 <=> x.sent \in 400..499
    BY <1>a DEF Status
  <2> QED BY ZenonT(30), <2>1, <2>2 DEF Counted
<1>2. z = [tokens |-> x.tokens, last |-> x.last, inflight |-> less, total |-> more,
           c4 |-> four, c5 |-> five, limited |-> x.limited,
           log |-> x.log, calls |-> x.calls, fails |-> x.fails,
           sent |-> x.sent, rec |-> x.rec, panic |-> x.panic]
  <2> HIDE DEF z, four, five, less, more
  <2> QED BY <1>0, <1>1
<1>3. four \in Int /\ five \in Int /\ less \in Int /\ more \in Int
  BY DEF IsExchange, IsServer
<1> HIDE DEF z, four, five, less, more
<1>4. IsExchange(z)
  BY <1>a, <1>2, <1>3 DEF IsExchange, IsServer
<1> QED BY <1>2, <1>4 DEF Elsewhere, z, four, five, less, more

\* The access log gets a line with what went out, unless a panic goes on up.
LEMMA LoggedOnce ==
    ASSUME NEW x, IsExchange(x), NEW o
    PROVE  LET z == Answered(Logged(o, x)) IN
           /\ IsServer(z) /\ Elsewhere(x, z) /\ z.panic = x.panic
           /\ z.inflight = x.inflight /\ z.total = x.total /\ z.c4 = x.c4 /\ z.c5 = x.c5
           /\ z.sent = IF x.panic = "none" /\ x.sent = 0 THEN 200 ELSE x.sent
           /\ z.log = IF o.access /\ x.panic = "none" THEN Append(x.log, z.sent) ELSE x.log
<1> DEFINE line == IF o.access /\ x.panic = "none" THEN Append(x.log, Status(x)) ELSE x.log
           y == Logged(o, x)
           out == IF x.panic = "none" /\ x.sent = 0 THEN 200 ELSE x.sent
           z == Answered(y)
<1>0. x = [tokens |-> x.tokens, last |-> x.last, inflight |-> x.inflight, total |-> x.total,
           c4 |-> x.c4, c5 |-> x.c5, limited |-> x.limited,
           log |-> x.log, calls |-> x.calls, fails |-> x.fails,
           sent |-> x.sent, rec |-> x.rec, panic |-> x.panic]
  BY DEF IsExchange, IsServer
<1>1. y = [tokens |-> x.tokens, last |-> x.last, inflight |-> x.inflight, total |-> x.total,
           c4 |-> x.c4, c5 |-> x.c5, limited |-> x.limited,
           log |-> line, calls |-> x.calls, fails |-> x.fails,
           sent |-> x.sent, rec |-> x.rec, panic |-> x.panic]
  <2>1. y = x \/ y = [x EXCEPT !.log = line]
    BY DEF Logged
  <2>2. y = x => line = x.log \/ y = [x EXCEPT !.log = line]
    BY DEF Logged
  <2> HIDE DEF y, line
  <2> QED BY <1>0, <2>1, <2>2
<1>2. z = [tokens |-> x.tokens, last |-> x.last, inflight |-> x.inflight, total |-> x.total,
           c4 |-> x.c4, c5 |-> x.c5, limited |-> x.limited,
           log |-> line, calls |-> x.calls, fails |-> x.fails,
           sent |-> out, rec |-> x.rec, panic |-> x.panic]
  <2>1. y.panic = x.panic /\ y.sent = x.sent
    <3> HIDE DEF y, line
    <3> QED BY <1>1
  <2>2. CASE x.panic = "none" /\ x.sent = 0
    <3>1. z = [y EXCEPT !.sent = out]
      BY <2>1, <2>2 DEF Answered
    <3> HIDE DEF z, y, line, out
    <3> QED BY <1>1, <3>1
  <2>3. CASE ~(x.panic = "none" /\ x.sent = 0)
    <3>1. z = y /\ out = x.sent
      BY <2>1, <2>3 DEF Answered
    <3> HIDE DEF z, y, line, out
    <3> QED BY <1>1, <3>1
  <2> QED BY <2>2, <2>3
<1>3. line = IF o.access /\ x.panic = "none" THEN Append(x.log, out) ELSE x.log
  BY DEF Status, IsExchange
<1> HIDE DEF y, z, line, out
<1>4. IsServer(z)
  BY <1>2 DEF IsServer, IsExchange
<1> QED BY <1>2, <1>3, <1>4 DEF Elsewhere, z, y, out

\* What the middlewares above the limiter make of what comes up from it.
LEMMA Leaves ==
    ASSUME NEW x, IsExchange(x), NEW o
    PROVE  LET z == Answered(Logged(o, Deferred(o, Recovered(o, x))))
               caught == o.recover /\ x.panic = "panic"
           IN  /\ IsServer(z) /\ Elsewhere(x, z)
               /\ z.panic = IF caught THEN "none" ELSE x.panic
               /\ z.sent = IF x.sent # 0 THEN x.sent
                           ELSE IF caught THEN 500 ELSE IF x.panic = "none" THEN 200 ELSE x.sent
               /\ o.metrics =>
                    /\ z.inflight = x.inflight - 1 /\ z.total = x.total + 1
                    /\ z.c4 = IF z.sent \in 400..499 THEN x.c4 + 1 ELSE x.c4
                    /\ z.c5 = IF z.sent >= 500 THEN x.c5 + 1 ELSE x.c5
               /\ ~o.metrics => z.inflight = x.inflight /\ z.total = x.total /\ z.c4 = x.c4 /\ z.c5 = x.c5
               /\ z.log = IF o.access /\ z.panic = "none" THEN Append(x.log, z.sent) ELSE x.log
<1> DEFINE caught == o.recover /\ x.panic = "panic"
           a == IF Wrote(x) THEN x ELSE WriteHeader(x, 500)
           b == Recovered(o, x)
           c == Deferred(o, b)
           z == Answered(Logged(o, c))
<1>1. IsExchange(b) /\ Elsewhere(x, b) /\ Unmetered(x, b)
      /\ b.panic = (IF caught THEN "none" ELSE x.panic)
      /\ b.sent = (IF caught /\ x.sent = 0 THEN 500 ELSE x.sent)
  <2>1. CASE ~caught
    <3>1. b = x
      BY <2>1 DEF Recovered
    <3> QED BY <2>1, <3>1 DEF Elsewhere, Unmetered
  <2>2. CASE caught
    <3>1. b = [a EXCEPT !.panic = "none"]
      BY <2>2 DEF Recovered
    <3>2. IsExchange(a) /\ Elsewhere(x, a) /\ Unmetered(x, a) /\ a.sent = (IF x.sent = 0 THEN 500 ELSE x.sent)
      <4>1. CASE Wrote(x)
        BY <4>1 DEF Wrote, IsExchange, Elsewhere, Unmetered
      <4>2. CASE ~Wrote(x)
        <5>1. a = WriteHeader(x, 500)
          BY <4>2
        <5> HIDE DEF a
        <5> QED BY <5>1, HeaderWritten DEF Elsewhere, Unmetered, Beneath
      <4> QED BY <4>1, <4>2
    <3> HIDE DEF a, b
    <3>3. IsExchange(b) /\ Beneath(a, b) /\ b.calls = a.calls /\ b.fails = a.fails
          /\ b.panic = "none" /\ b.sent = a.sent
      BY <3>1, <3>2, Panicked
    <3> QED BY <2>2, <3>2, <3>3 DEF Elsewhere, Unmetered, Beneath
  <2> QED BY <2>1, <2>2
<1> HIDE DEF b
<1>2. /\ IsExchange(c) /\ Elsewhere(b, c) /\ c.sent = b.sent /\ c.panic = b.panic /\ c.log = b.log
      /\ o.metrics =>
            /\ c.inflight = b.inflight - 1 /\ c.total = b.total + 1
            /\ c.c4 = IF b.sent \in 400..499 THEN b.c4 + 1 ELSE b.c4
            /\ c.c5 = IF b.sent >= 500 THEN b.c5 + 1 ELSE b.c5
      /\ ~o.metrics => Unmetered(b, c)
  <2>1. CASE o.metrics
    <3>1. c = Counted(b)
      BY <2>1 DEF Deferred
    <3> HIDE DEF c
    <3> QED BY <1>1, <2>1, <3>1, CountedOnce
  <2>2. CASE ~o.metrics
    <3>1. c = b
      BY <2>2 DEF Deferred
    <3> QED BY <1>1, <2>2, <3>1 DEF Elsewhere, Unmetered
  <2> QED BY <2>1, <2>2
<1> HIDE DEF c
<1>3. /\ IsServer(z) /\ Elsewhere(c, z) /\ z.panic = c.panic
      /\ z.inflight = c.inflight /\ z.total = c.total /\ z.c4 = c.c4 /\ z.c5 = c.c5
      /\ z.sent = IF c.panic = "none" /\ c.sent = 0 THEN 200 ELSE c.sent
      /\ z.log = IF o.access /\ c.panic = "none" THEN Append(c.log, z.sent) ELSE c.log
  BY <1>2, LoggedOnce
<1> HIDE DEF z
<1>4. /\ IsServer(z) /\ Elsewhere(x, z) /\ z.panic = (IF caught THEN "none" ELSE x.panic)
      /\ z.sent = IF x.sent # 0 THEN x.sent
                  ELSE IF caught THEN 500 ELSE IF x.panic = "none" THEN 200 ELSE x.sent
      /\ z.log = IF o.access /\ z.panic = "none" THEN Append(x.log, z.sent) ELSE x.log
  BY <1>1, <1>2, <1>3 DEF Elsewhere, Unmetered
<1> QED BY <1>1, <1>2, <1>3, <1>4 DEF z, c, b, Elsewhere, Unmetered

\* The exchange that comes to the limiter.
Arrives(o, server) ==
    LET x == [server EXCEPT !.sent = 0, !.rec = 0, !.panic = "none"]
    IN  IF o.metrics THEN [x EXCEPT !.inflight = @ + 1] ELSE x

\* It is a fresh one, and is counted as in flight.
LEMMA Fresh ==
    ASSUME NEW server, IsServer(server), NEW o
    PROVE  LET x == Arrives(o, server) IN
           /\ IsExchange(x) /\ Elsewhere(server, x) /\ x.sent = 0 /\ x.panic = "none"
           /\ x.inflight = (IF o.metrics THEN server.inflight + 1 ELSE server.inflight)
           /\ x.total = server.total /\ x.c4 = server.c4 /\ x.c5 = server.c5 /\ x.log = server.log
           /\ \A q : Serve(o, q, server)
                       = Answered(Logged(o, Deferred(o, Recovered(o, RateLimit(o, q, x)))))
<1> DEFINE a == [server EXCEPT !.sent = 0, !.rec = 0, !.panic = "none"]
           x == Arrives(o, server)
           n == IF o.metrics THEN server.inflight + 1 ELSE server.inflight
<1>0. server = [tokens |-> server.tokens, last |-> server.last, inflight |-> server.inflight, total |-> server.total,
                c4 |-> server.c4, c5 |-> server.c5, limited |-> server.limited,
                log |-> server.log, calls |-> server.calls, fails |-> server.fails,
                sent |-> server.sent, rec |-> server.rec, panic |-> server.panic]
  BY DEF IsServer
<1>1. a = [tokens |-> server.tokens, last |-> server.last, inflight |-> server.inflight, total |-> server.total,
           c4 |-> server.c4, c5 |-> server.c5, limited |-> server.limited,
           log |-> server.log, calls |-> server.calls, fails |-> server.fails,
           sent |-> 0, rec |-> 0, panic |-> "none"]
  <2>1. a = [server EXCEPT !.sent = 0, !.rec = 0, !.panic = "none"]
    OBVIOUS
  <2> HIDE DEF a
  <2> QED BY <1>0, <2>1
<1>2. x = [tokens |-> server.tokens, last |-> server.last, inflight |-> n, total |-> server.total,
           c4 |-> server.c4, c5 |-> server.c5, limited |-> server.limited,
           log |-> server.log, calls |-> server.calls, fails |-> server.fails,
           sent |-> 0, rec |-> 0, panic |-> "none"]
  <2>1. CASE o.metrics
    <3>1. x = [a EXCEPT !.inflight = @ + 1]
      BY <2>1 DEF Arrives
    <3>2. a.inflight = server.inflight
      <4> HIDE DEF a
      <4> QED BY <1>1
    <3>3. x = [a EXCEPT !.inflight = n]
      BY <2>1, <3>1, <3>2
    <3> HIDE DEF a, n, x
    <3> QED BY <1>1, <3>3
  <2>2. CASE ~o.metrics
    <3>1. x = a /\ n = server.inflight
      BY <2>2 DEF Arrives
    <3> HIDE DEF a, n, x
    <3> QED BY <1>1, <3>1
  <2> QED BY <2>1, <2>2
<1>3. n \in Int
  BY DEF IsServer
<1>4. \A q : Serve(o, q, server) = Answered(Logged(o, Deferred(o, Recovered(o, RateLimit(o, q, x)))))
  BY DEF Serve, AccessLog, Metrics, Recover, Arrives
<1> HIDE DEF x, n
<1>5. IsExchange(x)
  BY <1>2, <1>3 DEF IsExchange, IsServer
<1>6. Elsewhere(server, x) /\ x.sent = 0 /\ x.panic = "none" /\ x.inflight = n
      /\ x.total = server.total /\ x.c4 = server.c4 /\ x.c5 = server.c5 /\ x.log = server.log
  BY <1>2 DEF Elsewhere
<1> QED BY <1>4, <1>5, <1>6 DEF x, n

\* What the theorems say of the options and the request, whatever they are.
Plausible(o, q) == o.qps \in Nat /\ q.at \in Int /\ \A v \in o.hook : v.metered \in BOOLEAN

\* After any request nothing of it counts as in flight, it has been counted
\* once, as a client or a server error exactly when that went out, and it has
\* a line in the access log with what went out unless its connection was cut;
\* with Recover no panic cuts it (web/middleware.go).
THEOREM RequestCounted ==
    ASSUME NEW server, IsServer(server), NEW o, NEW q, Plausible(o, q)
    PROVE  LET y == Serve(o, q, server) IN
           /\ IsServer(y) /\ y.inflight = server.inflight
           /\ o.metrics => /\ y.total = server.total + 1
                           /\ y.c4 = IF y.sent \in 400..499 THEN server.c4 + 1 ELSE server.c4
                           /\ y.c5 = IF y.sent >= 500 THEN server.c5 + 1 ELSE server.c5
           /\ y.log = IF o.access /\ y.panic = "none" THEN Append(server.log, y.sent) ELSE server.log
           /\ o.recover => y.panic # "panic"
<1> DEFINE x == Arrives(o, server)
           z == RateLimit(o, q, x)
           y == Serve(o, q, server)
<1>1. /\ IsExchange(x) /\ x.sent = 0 /\ x.panic = "none"
      /\ x.inflight = (IF o.metrics THEN server.inflight + 1 ELSE server.inflight)
      /\ x.total = server.total /\ x.c4 = server.c4 /\ x.c5 = server.c5 /\ x.log = server.log
      /\ y = Answered(Logged(o, Deferred(o, Recovered(o, z))))
  BY Fresh
<1> HIDE DEF x, y
<1>2. IsExchange(z) /\ Unmetered(x, z)
  BY <1>1, RateLimited DEF Plausible
<1> HIDE DEF z
<1>3. /\ IsServer(y)
      /\ y.panic = IF o.recover /\ z.panic = "panic" THEN "none" ELSE z.panic
      /\ o.metrics =>
            /\ y.inflight = z.inflight - 1 /\ y.total = z.total + 1
            /\ y.c4 = IF y.sent \in 400..499 THEN z.c4 + 1 ELSE z.c4
            /\ y.c5 = IF y.sent >= 500 THEN z.c5 + 1 ELSE z.c5
      /\ ~o.metrics => y.inflight = z.inflight
      /\ y.log = IF o.access /\ y.panic = "none" THEN Append(z.log, y.sent) ELSE z.log
  <2> DEFINE w == Answered(Logged(o, Deferred(o, Recovered(o, z))))
  <2>1. /\ IsServer(w)
        /\ w.panic = IF o.recover /\ z.panic = "panic" THEN "none" ELSE z.panic
        /\ o.metrics =>
              /\ w.inflight = z.inflight - 1 /\ w.total = z.total + 1
              /\ w.c4 = IF w.sent \in 400..499 THEN z.c4 + 1 ELSE z.c4
              /\ w.c5 = IF w.sent >= 500 THEN z.c5 + 1 ELSE z.c5
        /\ ~o.metrics => w.inflight = z.inflight
        /\ w.log = IF o.access /\ w.panic = "none" THEN Append(z.log, w.sent) ELSE z.log
    BY <1>2, Leaves
  <2>2. y = w
    BY <1>1 DEF z
  <2> HIDE DEF w
  <2> QED BY <2>1, <2>2
<1>4. server.inflight \in Int
  BY DEF IsServer
<1> QED BY <1>1, <1>2, <1>3, <1>4 DEF Unmetered, y

\* A request that the limiter lets in is paid for from what was left and what
\* came in since, the bucket never holds more than its burst, and no request
\* is refused that could be paid for (tokenBucketLimiter).
THEOREM AdmissionsPaid ==
    ASSUME NEW server, IsServer(server), NEW o, NEW q, Plausible(o, q), o.qps > 0,
           q.at >= server.last, server.tokens \in 0 .. Server(o).tokens
    PROVE  LET y == Serve(o, q, server)
               income == server.tokens + (q.at - server.last) * o.qps
           IN  /\ y.tokens \in 0 .. Server(o).tokens /\ y.last = q.at
               /\ y.limited = server.limited => y.tokens + Second <= income
               /\ y.limited # server.limited =>
                    y.limited = server.limited + 1 /\ y.sent = 429 /\ y.tokens <= income /\ income < Second
<1> DEFINE x == Arrives(o, server)
           z == RateLimit(o, q, x)
           y == Serve(o, q, server)
           income == server.tokens + (q.at - server.last) * o.qps
           burst == (IF o.qps > 1 THEN o.qps ELSE 1) * Second
           n == IF income > burst THEN burst ELSE income
<1>1. /\ IsExchange(x) /\ Elsewhere(server, x) /\ x.sent = 0 /\ x.panic = "none"
      /\ y = Answered(Logged(o, Deferred(o, Recovered(o, z))))
  BY Fresh
<1>2. Server(o).tokens = burst
  BY DEF Server
<1>3. Refilled(o, q, x).tokens = n
  <2>1. x.tokens = server.tokens /\ x.last = server.last
    BY <1>1 DEF Elsewhere
  <2>2. x = [tokens |-> x.tokens, last |-> x.last, inflight |-> x.inflight, total |-> x.total,
             c4 |-> x.c4, c5 |-> x.c5, limited |-> x.limited,
             log |-> x.log, calls |-> x.calls, fails |-> x.fails,
             sent |-> x.sent, rec |-> x.rec, panic |-> x.panic]
    BY <1>1 DEF IsExchange, IsServer
  <2> DEFINE r == Refilled(o, q, x)
  <2>3. r = [x EXCEPT !.tokens = n, !.last = q.at]
    <3> HIDE DEF x
    <3> QED BY <2>1 DEF Refilled
  <2> HIDE DEF r, n, x
  <2>4. r = [tokens |-> n, last |-> q.at, inflight |-> x.inflight, total |-> x.total,
             c4 |-> x.c4, c5 |-> x.c5, limited |-> x.limited,
             log |-> x.log, calls |-> x.calls, fails |-> x.fails,
             sent |-> x.sent, rec |-> x.rec, panic |-> x.panic]
    BY <2>2, <2>3
  <2> QED BY <2>4 DEF r
<1>4. burst \in Nat /\ Second <= burst /\ income \in Nat /\ server.tokens \in Nat /\ Second \in Nat
      /\ server.limited \in Int
  <2>1. o.qps \in Nat /\ Second \in Nat /\ Second > 0
    BY WebAssumption DEF Plausible
  <2>2. burst \in Nat /\ Second <= burst
    <3>1. CASE o.qps > 1
      <4>1. burst = o.qps * Second
        BY <3>1
      <4>2. o.qps * Second >= 1 * Second
        BY <2>1, <3>1
      <4> HIDE DEF burst
      <4> QED BY <2>1, <4>1, <4>2
    <3>2. CASE ~(o.qps > 1)
      BY <2>1, <3>2
    <3> QED BY <3>1, <3>2
  <2> HIDE DEF burst
  <2>3. server.tokens \in Nat /\ q.at \in Int /\ server.last \in Int
    BY <1>2, <2>2 DEF IsServer, Plausible
  <2>4. q.at - server.last \in Nat
    BY <2>3
  <2>5. (q.at - server.last) * o.qps \in Nat
    BY <2>1, <2>4
  <2> QED BY <2>1, <2>2, <2>3, <2>5 DEF IsServer
<1> HIDE DEF x, y, burst, income
<1>5. /\ IsExchange(z) /\ z.last = q.at
      /\ n >= Second => z.limited = x.limited /\ z.tokens = n - Second
      /\ ~(n >= Second) => z.limited = x.limited + 1 /\ z.tokens = n /\ z.sent = 429 /\ z.panic = "none"
  <2>1. o.qps \in Nat /\ q.at \in Int /\ o.qps # 0 /\ \A v \in o.hook : v.metered \in BOOLEAN
    BY DEF Plausible
  <2> HIDE DEF n, z
  <2> QED BY <1>1, <1>3, <2>1, RateLimited DEF z
<1> HIDE DEF z
<1>6. Elsewhere(z, y) /\ (z.sent # 0 => y.sent = z.sent)
  <2> DEFINE w == Answered(Logged(o, Deferred(o, Recovered(o, z))))
  <2>1. Elsewhere(z, w) /\ (z.sent # 0 => w.sent = z.sent)
    BY <1>5, Leaves
  <2> QED BY <1>1, <2>1 DEF z
<1>7. x.limited = server.limited
  BY <1>1 DEF Elsewhere
<1>8. n \in 0 .. burst /\ n <= income
  BY <1>4
<1>9. CASE n >= Second
  <2>1. y.tokens = n - Second /\ y.limited = server.limited /\ y.last = q.at
    BY <1>5, <1>6, <1>7, <1>9 DEF Elsewhere
  <2> HIDE DEF n
  <2> QED BY <1>2, <1>4, <1>8, <1>9, <2>1 DEF y, income
<1>10. CASE ~(n >= Second)
  <2>1. y.tokens = n /\ y.limited = server.limited + 1 /\ y.last = q.at /\ y.sent = 429
    BY <1>5, <1>6, <1>7, <1>10 DEF Elsewhere
  <2>2. income < Second
    BY <1>4, <1>10
  <2> HIDE DEF n
  <2> QED BY <1>2, <1>4, <1>8, <2>1, <2>2 DEF y, income
<1> QED BY <1>9, <1>10

\* Since the time start the limiter has let n requests in, for which the burst
\* and the rate's share of that time have paid.
Within(o, x, n, start) ==
    /\ x.tokens \in 0 .. Server(o).tokens
    /\ n * Second + x.tokens <= Server(o).tokens + (x.last - start) * o.qps

\* A new server has let nobody in, and is one.
LEMMA NewServer ==
    ASSUME NEW o, o.qps \in Nat
    PROVE  IsServer(Server(o)) /\ Within(o, Server(o), 0, Server(o).last)
<1> DEFINE burst == (IF o.qps > 1 THEN o.qps ELSE 1) * Second
           x == Server(o)
<1>1. burst \in Nat
  BY WebAssumption
<1>2. x = [tokens |-> burst, last |-> 0, inflight |-> 0, total |-> 0, c4 |-> 0, c5 |-> 0,
           limited |-> 0, log |-> <<>>, calls |-> 0, fails |-> 0,
           sent |-> 0, rec |-> 0, panic |-> "none"]
  BY DEF Server
<1> HIDE DEF x, burst
<1>3. IsServer(x)
  BY <1>1, <1>2 DEF IsServer
<1>4. x.tokens = burst /\ x.last = 0
  BY <1>2
<1> QED BY <1>1, <1>3, <1>4, WebAssumption DEF Within, x

\* In any run the requests let in since any time are at most the burst and
\* what the rate makes of the time since: each one keeps it so.
THEOREM RateHolds ==
    ASSUME NEW server, IsServer(server), NEW o, NEW q, Plausible(o, q), o.qps > 0,
           q.at >= server.last, NEW n \in Nat, NEW start \in Int, Within(o, server, n, start)
    PROVE  LET y == Serve(o, q, server)
           IN  Within(o, y, IF y.limited = server.limited THEN n + 1 ELSE n, start)
<1> DEFINE y == Serve(o, q, server)
           gap == q.at - server.last
           before == server.last - start
<1>1. /\ y.tokens \in 0 .. Server(o).tokens /\ y.last = q.at
      /\ y.limited = server.limited => y.tokens + Second <= server.tokens + gap * o.qps
      /\ y.limited # server.limited => y.tokens <= server.tokens + gap * o.qps
  BY AdmissionsPaid DEF Within
<1>2. n * Second + server.tokens <= Server(o).tokens + before * o.qps
  BY DEF Within
<1>3. o.qps \in Int /\ gap \in Int /\ before \in Int /\ server.tokens \in Int /\ Second \in Int
      /\ Server(o).tokens \in Int
  <2>1. IsServer(Server(o))
    BY NewServer DEF Plausible
  <2> QED BY <2>1, WebAssumption DEF IsServer, Plausible
<1>4. (q.at - start) * o.qps = gap * o.qps + before * o.qps
  <2>1. q.at - start = gap + before /\ q.at \in Int /\ server.last \in Int
    BY DEF IsServer, Plausible
  <2> HIDE DEF gap, before
  <2> QED BY <1>3, <2>1
<1>5. (n + 1) * Second = n * Second + Second /\ n * Second \in Int
      /\ gap * o.qps \in Int /\ before * o.qps \in Int /\ y.tokens \in Int
  <2> HIDE DEF gap, before, y
  <2> QED BY <1>1, <1>3
<1> HIDE DEF y, gap, before
<1>6. CASE y.limited = server.limited
  <2>1. (n + 1) * Second + y.tokens <= Server(o).tokens + (y.last - start) * o.qps
    BY <1>1, <1>2, <1>3, <1>4, <1>5, <1>6
  <2> QED BY <1>1, <1>6, <2>1 DEF Within, y
<1>7. CASE y.limited # server.limited
  <2>1. n * Second + y.tokens <= Server(o).tokens + (y.last - start) * o.qps
    BY <1>1, <1>2, <1>3, <1>4, <1>5, <1>7
  <2> QED BY <1>1, <1>7, <2>1 DEF Within, y
<1> QED BY <1>6, <1>7

\* The request carries the token that the route's Auth wants, if it has one.
HasToken(o, q) == o.auth = "off" \/ (o.auth # "" /\ q.token = o.auth)

\* It passes the limiter.
PaysFor(o, q, server) == o.qps = 0 \/ Refilled(o, q, Arrives(o, server)).tokens >= Second

\* What the refused get is fixed by the limiter and the configured token; no
\* handler and no verifier has any part in it.
THEOREM OnlyWithToken ==
    ASSUME NEW server, IsServer(server), NEW o, NEW q, Plausible(o, q), ~HasToken(o, q)
    PROVE  LET y == Serve(o, q, server) IN
           /\ y.panic = "none" /\ y.calls = server.calls /\ y.fails = server.fails
           /\ y.sent = IF y.limited # server.limited THEN 429 ELSE IF o.auth = "" THEN 503 ELSE 401
<1> DEFINE x == Arrives(o, server)
           z == RateLimit(o, q, x)
           y == Serve(o, q, server)
           full == o.qps = 0 \/ Refilled(o, q, x).tokens >= Second
           code == IF o.auth = "" THEN 503 ELSE 401
<1>1. /\ IsExchange(x) /\ Elsewhere(server, x) /\ x.sent = 0 /\ x.panic = "none"
      /\ y = Answered(Logged(o, Deferred(o, Recovered(o, z))))
  BY Fresh
<1> HIDE DEF x, y
<1>2. /\ IsExchange(z)
      /\ full => z.limited = x.limited
      /\ full => \E a : /\ z = Auth(o, q, a) /\ IsExchange(a)
                        /\ a.sent = 0 /\ a.panic = "none" /\ a.calls = x.calls /\ a.fails = x.fails
      /\ ~full => /\ z.limited = x.limited + 1
                  /\ z.sent = 429 /\ z.panic = "none" /\ z.calls = x.calls /\ z.fails = x.fails
  <2>1. o.qps \in Nat /\ q.at \in Int /\ \A v \in o.hook : v.metered \in BOOLEAN
    BY DEF Plausible
  <2> HIDE DEF z
  <2> QED BY <1>1, <2>1, RateLimited DEF z
<1> HIDE DEF z
<1>3. z.panic = "none" /\ z.calls = x.calls /\ z.fails = x.fails /\ z.sent = IF full THEN code ELSE 429
  <2>1. CASE full
    <3>1. PICK a : /\ z = Auth(o, q, a) /\ IsExchange(a)
                   /\ a.sent = 0 /\ a.panic = "none" /\ a.calls = x.calls /\ a.fails = x.fails
      BY <1>2, <2>1
    <3>2. Auth(o, q, a) = WriteHeader(a, code)
      BY DEF Auth, HasToken
    <3> HIDE DEF code, full
    <3> QED BY <2>1, <3>1, <3>2, HeaderWritten
  <2>2. CASE ~full
    BY <1>2, <2>2
  <2> QED BY <2>1, <2>2
<1>4. /\ Elsewhere(z, y) /\ y.panic = "none" /\ y.sent = z.sent
  <2> DEFINE w == Answered(Logged(o, Deferred(o, Recovered(o, z))))
  <2>1. /\ Elsewhere(z, w) /\ w.panic = (IF o.recover /\ z.panic = "panic" THEN "none" ELSE z.panic)
        /\ w.sent = IF z.sent # 0 THEN z.sent
                    ELSE IF o.recover /\ z.panic = "panic" THEN 500 ELSE IF z.panic = "none" THEN 200 ELSE z.sent
    BY <1>2, Leaves
  <2>2. y = w
    BY <1>1 DEF z
  <2>3. z.sent # 0
    <3>1. code # 0
      OBVIOUS
    <3> HIDE DEF full, code
    <3> QED BY <1>3, <3>1
  <2> HIDE DEF w
  <2> QED BY <1>3, <2>1, <2>2, <2>3
<1>5. server.limited \in Int /\ x.limited = server.limited /\ x.calls = server.calls /\ x.fails = server.fails
  BY <1>1 DEF IsServer, Elsewhere
<1>6. full <=> y.limited = server.limited
  <2> HIDE DEF full
  <2> QED BY <1>2, <1>4, <1>5 DEF Elsewhere
<1>7. /\ y.panic = "none" /\ y.calls = server.calls /\ y.fails = server.fails
      /\ y.sent = IF y.limited # server.limited THEN 429 ELSE code
  <2> HIDE DEF full, code
  <2> QED BY <1>3, <1>4, <1>5, <1>6 DEF Elsewhere
<1> QED BY <1>7 DEF y

\* A platform's webhook route is reached by the callbacks whose signature its
\* verifier accepts, and by no others: they get a 401, or a 500 when the
\* verifier panicked, or a 503 when there is none; each check is counted once,
\* as failed exactly when it refused (platform/webhook.go, platform/metrics.go).
THEOREM OnlyVerified ==
    ASSUME NEW server, IsServer(server), NEW o, NEW q, Plausible(o, q),
           HasToken(o, q), PaysFor(o, q, server),
           NEW v, o.hook = {v}, v = Nil \/ v.metered, v # Nil => q.signed \notin v.accepts
    PROVE  LET y == Serve(o, q, server)
               panics == q.signed = "panics"
           IN  /\ y.calls = server.calls + (IF v = Nil THEN 0 ELSE 1)
               /\ y.fails = server.fails + (IF v = Nil \/ panics THEN 0 ELSE 1)
               /\ v = Nil => y.sent = 503 /\ y.panic = "none"
               /\ v # Nil /\ ~panics => y.sent = 401 /\ y.panic = "none"
               /\ v # Nil /\ panics => IF o.recover THEN y.sent = 500 /\ y.panic = "none"
                                       ELSE y.sent = 0 /\ y.panic = "panic"
<1> DEFINE x == Arrives(o, server)
           z == RateLimit(o, q, x)
           y == Serve(o, q, server)
           panics == q.signed = "panics"
<1>1. /\ IsExchange(x) /\ Elsewhere(server, x) /\ x.sent = 0 /\ x.panic = "none"
      /\ y = Answered(Logged(o, Deferred(o, Recovered(o, z))))
  BY Fresh
<1> HIDE DEF y
<1>2. PICK a : /\ z = Auth(o, q, a) /\ IsExchange(a)
               /\ a.sent = 0 /\ a.panic = "none" /\ a.calls = x.calls /\ a.fails = x.fails
  <2>1. o.qps \in Nat /\ q.at \in Int /\ \A w \in o.hook : w.metered \in BOOLEAN
    BY DEF Plausible
  <2>2. o.qps = 0 \/ Refilled(o, q, x).tokens >= Second
    BY DEF PaysFor
  <2> HIDE DEF z, x
  <2> QED BY <1>1, <2>1, <2>2, RateLimited DEF z
<1> HIDE DEF x
<1>3. IsExchange(z)
  <2>1. o.qps \in Nat /\ q.at \in Int /\ \A w \in o.hook : w.metered \in BOOLEAN
    BY DEF Plausible
  <2> QED BY <1>1, <2>1, RateLimited
<1> DEFINE b == VerifyWebhook(v, q, a)
           refused == q.signed \notin v.accepts \union {"panics"}
<1>4. z = Unverified(o, q, a, b)
  <2>1. (CHOOSE w \in o.hook : TRUE) = v
    OBVIOUS
  <2>2. Auth(o, q, a) = WebhookMiddleware(o, q, a)
    BY DEF HasToken, Auth
  <2>3. ~(o.hook = {} \/ (o.hook # {Nil} /\ q.signed \in v.accepts))
    OBVIOUS
  <2>4. WebhookMiddleware(o, q, a) = Unverified(o, q, a, b)
    BY <2>1, <2>3 DEF WebhookMiddleware
  <2> QED BY <1>2, <2>2, <2>4
<1>5. v.metered \in BOOLEAN /\ (v = Nil <=> o.hook = {Nil}) /\ ~Nil.metered /\ (v # Nil => v.metered)
      /\ (v # Nil => (refused <=> ~panics))
  BY DEF Plausible, Nil
<1>6. /\ IsExchange(b) /\ b.sent = 0 /\ b.panic = "none"
      /\ b.calls = (IF v.metered THEN x.calls + 1 ELSE x.calls)
      /\ b.fails = (IF v.metered /\ refused THEN x.fails + 1 ELSE x.fails)
  BY <1>2, <1>5, Verified
<1> HIDE DEF z, b, refused
<1>7. /\ z.calls = (IF v = Nil THEN x.calls ELSE x.calls + 1)
      /\ z.fails = (IF v = Nil \/ panics THEN x.fails ELSE x.fails + 1)
      /\ z.panic = (IF v # Nil /\ panics THEN "panic" ELSE "none")
      /\ z.sent = IF v = Nil THEN 503 ELSE IF panics THEN 0 ELSE 401
  <2>1. CASE v = Nil
    <3>1. z = WriteHeader(a, 503)
      BY <1>4, <1>5, <2>1 DEF Unverified
    <3> HIDE DEF panics
    <3> QED BY <1>2, <2>1, <3>1, HeaderWritten
  <2>2. CASE v # Nil /\ panics
    <3>1. z = [b EXCEPT !.panic = "panic"]
      BY <1>4, <1>5, <2>2 DEF Unverified
    <3>2. /\ z.calls = b.calls /\ z.fails = b.fails /\ z.panic = "panic" /\ z.sent = b.sent
      BY <1>6, <3>1, Panicked
    <3> HIDE DEF panics
    <3> QED BY <1>5, <1>6, <2>2, <3>2
  <2>3. CASE v # Nil /\ ~panics
    <3>1. z = WriteHeader(b, 401)
      BY <1>4, <1>5, <2>3 DEF Unverified
    <3> HIDE DEF panics
    <3> QED BY <1>5, <1>6, <2>3, <3>1, HeaderWritten
  <2> QED BY <2>1, <2>2, <2>3
<1>8. /\ Elsewhere(z, y) /\ y.panic = (IF o.recover /\ z.panic = "panic" THEN "none" ELSE z.panic)
      /\ y.sent = IF z.sent # 0 THEN z.sent
                  ELSE IF o.recover /\ z.panic = "panic" THEN 500 ELSE IF z.panic = "none" THEN 200 ELSE z.sent
  <2> DEFINE w == Answered(Logged(o, Deferred(o, Recovered(o, z))))
  <2>1. /\ Elsewhere(z, w) /\ w.panic = (IF o.recover /\ z.panic = "panic" THEN "none" ELSE z.panic)
        /\ w.sent = IF z.sent # 0 THEN z.sent
                    ELSE IF o.recover /\ z.panic = "panic" THEN 500 ELSE IF z.panic = "none" THEN 200 ELSE z.sent
    BY <1>3, Leaves
  <2>2. y = w
    BY <1>1 DEF z
  <2> HIDE DEF w
  <2> QED BY <2>1, <2>2
<1>9. x.calls = server.calls /\ x.fails = server.fails /\ server.calls \in Int /\ server.fails \in Int
  BY <1>1 DEF Elsewhere, IsServer
<1> HIDE DEF panics
<1> QED BY <1>7, <1>8, <1>9 DEF Elsewhere, y, panics
=============================================================================
