--------------------------- MODULE Database_proofs ---------------------------
(***************************************************************************)
(* Proofs about two parts of db/, one after the other.  FailureReplay, for *)
(* any tables, revisions, faults and crashes: types, and that a payload    *)
(* whose Enqueue succeeded is in one place until it is replayed or given   *)
(* up.  HashCache, for any fields, clients, writers, stores and faults:    *)
(* types, that a loaded hash shows what the last finished calls left, and  *)
(* that what they left is saved or dirty.                                  *)
(***************************************************************************)
EXTENDS FailureReplay, HashCache, SequenceTheorems, FiniteSetTheorems, TLAPS

-----------------------------------------------------------------------------
(* Sequences of payloads *)

Occurs(s, p) == \E i \in DOMAIN s : s[i] = p
Distinct(s) == \A i, j \in DOMAIN s : s[i] = s[j] => i = j

\* The empty sequence has no payload.
LEMMA NothingOccurs ==
    /\ <<>> \in Seq(Payload) /\ Distinct(<<>>)
    /\ \A p : ~Occurs(<<>>, p)
  BY EmptySeq DEF Distinct, Occurs

\* A sequence's payloads and the one appended.
LEMMA OccursAppended ==
    ASSUME NEW s \in Seq(Payload), NEW p \in Payload
    PROVE  /\ Append(s, p) \in Seq(Payload)
           /\ \A q : Occurs(Append(s, p), q) <=> Occurs(s, q) \/ q = p
           /\ Distinct(s) /\ ~Occurs(s, p) => Distinct(Append(s, p))
<1>1. /\ Len(s) \in Nat /\ DOMAIN s = 1 .. Len(s)
      /\ Append(s, p) \in Seq(Payload) /\ DOMAIN Append(s, p) = 1 .. Len(s) + 1
      /\ \A i \in 1 .. Len(s) : Append(s, p)[i] = s[i]
      /\ Append(s, p)[Len(s) + 1] = p
  OBVIOUS
<1>2. \A i \in 1 .. Len(s) + 1 : i \in 1 .. Len(s) \/ i = Len(s) + 1
  BY <1>1
<1>3. \A i \in 1 .. Len(s) : i \in 1 .. Len(s) + 1
  BY <1>1
<1>4. Len(s) + 1 \in 1 .. Len(s) + 1
  BY <1>1
<1>5. \A q : Occurs(Append(s, p), q) <=> Occurs(s, q) \/ q = p
  BY <1>1, <1>2, <1>3, <1>4 DEF Occurs
<1>6. ASSUME Distinct(s), ~Occurs(s, p) PROVE Distinct(Append(s, p))
  BY <1>1, <1>2, <1>6 DEF Distinct, Occurs
<1> QED
  BY <1>1, <1>5, <1>6

\* A sequence's payloads without the first.
LEMMA OccursInTail ==
    ASSUME NEW s \in Seq(Payload), s # <<>>
    PROVE  /\ Head(s) \in Payload /\ Tail(s) \in Seq(Payload) /\ Occurs(s, Head(s))
           /\ Distinct(s) => Distinct(Tail(s))
           /\ \A q : Occurs(s, q) <=> Occurs(Tail(s), q) \/ q = Head(s)
           /\ Distinct(s) => ~Occurs(Tail(s), Head(s))
<1>1. /\ Len(s) \in Nat \ {0} /\ DOMAIN s = 1 .. Len(s)
      /\ Head(s) \in Payload /\ Tail(s) \in Seq(Payload)
      /\ DOMAIN Tail(s) = 1 .. Len(s) - 1 /\ Head(s) = s[1]
      /\ \A i \in 1 .. Len(s) - 1 : Tail(s)[i] = s[i + 1]
  BY HeadTailProperties, EmptySeq, LenProperties
<1>2. \A i \in 1 .. Len(s) : i = 1 \/ (i - 1 \in 1 .. Len(s) - 1 /\ (i - 1) + 1 = i)
  BY <1>1
<1>3. \A i \in 1 .. Len(s) - 1 : i + 1 \in 1 .. Len(s) /\ i + 1 # 1
  BY <1>1
<1>4. \A q : Occurs(s, q) <=> Occurs(Tail(s), q) \/ q = Head(s)
  <2> SUFFICES ASSUME NEW q PROVE Occurs(s, q) <=> Occurs(Tail(s), q) \/ q = Head(s)
    OBVIOUS
  <2>1. ASSUME Occurs(s, q) PROVE Occurs(Tail(s), q) \/ q = Head(s)
    <3>1. PICK i \in 1 .. Len(s) : s[i] = q
      BY <1>1, <2>1 DEF Occurs
    <3>2. CASE i = 1
      BY <1>1, <3>1, <3>2
    <3>3. CASE i # 1
      BY <1>1, <1>2, <3>1, <3>3 DEF Occurs
    <3> QED
      BY <3>2, <3>3
  <2>2. ASSUME Occurs(Tail(s), q) \/ q = Head(s) PROVE Occurs(s, q)
    BY <1>1, <1>3, <2>2 DEF Occurs
  <2> QED
    BY <2>1, <2>2
<1>5. Distinct(s) => Distinct(Tail(s)) /\ ~Occurs(Tail(s), Head(s))
  BY <1>1, <1>3 DEF Distinct, Occurs
<1> QED
  BY <1>1, <1>4, <1>5

-----------------------------------------------------------------------------
(* The invariant *)

\* A payload is only in the hand of a replay in progress, and a batch and a
\* dirty entry carry a revision that was written.
Shape ==
    \A t \in Table :
        /\ phase[t] \in {"off", "drain", "up"} => hand[t] = <<>>
        /\ phase[t] = "requeue" => hand[t] # <<>>
        /\ round[t].pc # "idle" => round[t].rev > 0 /\ mem[t] > 0
        /\ dirty[t] => mem[t] > 0

Queueing == {t \in Table : round[t].pc = "queue"}

\* There is a refused batch to every payload that is owed or about to be, so
\* the next one has a number of its own.
Budget == IsFiniteSet(owed) /\ Cardinality(owed) + Cardinality(Queueing) <= faults

\* The file and the hands hold the payloads that are owed, each once.
Once ==
    /\ Distinct(file) /\ \A t \in Table : Distinct(hand[t])
    /\ \A p \in Payload : \A t \in Table : Occurs(hand[t], p) =>
          ~Occurs(file, p) /\ \A s \in Table : Occurs(hand[s], p) => s = t
    /\ \A p \in Payload : p \in owed <=> Occurs(file, p) \/ \E t \in Table : Occurs(hand[t], p)

ReplayInv == TypeOK /\ Shape /\ Budget /\ Once

-----------------------------------------------------------------------------
(* Numbers *)

\* The tables about to enqueue are finitely many.
LEMMA QueueingFinite == IsFiniteSet(Queueing) /\ Cardinality(Queueing) \in Nat
<1>1. Queueing \subseteq Table
  BY DEF Queueing
<1> QED
  BY <1>1, ReplayAssumption, FS_Subset, FS_CardinalityType

\* Fewer payloads are owed than there are numbers when one is about to be.
LEMMA FreshNo ==
    ASSUME TypeOK, Budget, NEW t \in Table, round[t].pc = "queue"
    PROVE  NextNo \in 1 .. MaxFaults /\ \A p \in owed : p.no # NextNo
<1>1. Cardinality(Queueing) # 0
  <2>1. t \in Queueing
    BY DEF Queueing
  <2> QED
    BY <2>1, QueueingFinite, FS_EmptySet
<1>2. Cardinality(owed) \in Nat /\ Cardinality(owed) < MaxFaults
  <2>1. Cardinality(owed) \in Nat
    BY FS_CardinalityType DEF Budget
  <2> QED
    BY <1>1, <2>1, QueueingFinite, ReplayAssumption DEF Budget, TypeOK
<1>3. \E n \in 1 .. MaxFaults : \A p \in owed : p.no # n
  <2> SUFFICES ASSUME \A n \in 1 .. MaxFaults : \E p \in owed : p.no = n PROVE FALSE
    OBVIOUS
  <2> DEFINE f == [n \in 1 .. MaxFaults |-> CHOOSE p \in owed : p.no = n]
  <2>1. \A n \in 1 .. MaxFaults : f[n] \in owed /\ f[n].no = n
    OBVIOUS
  <2>2. f \in [1 .. MaxFaults -> owed]
    BY <2>1
  <2>3. IsFiniteSet(1 .. MaxFaults) /\ Cardinality(1 .. MaxFaults) = MaxFaults
    BY <1>2, FS_Interval, ReplayAssumption
  <2> HIDE DEF f
  <2>4. \E m, n \in 1 .. MaxFaults : m # n /\ f[m] = f[n]
    <3>1. IsFiniteSet(owed) /\ Cardinality(owed) < Cardinality(1 .. MaxFaults)
      BY <1>2, <2>3 DEF Budget
    <3> QED
      BY ONLY <2>2, <2>3, <3>1, FS_PigeonHole
  <2> QED
    BY <2>1, <2>4
<1> QED
  BY <1>3 DEF NextNo

\* No more payloads owed and no more about to be leave numbers enough.
LEMMA BudgetKept ==
    ASSUME TypeOK, Budget, owed' \subseteq owed, Queueing' \subseteq Queueing,
           faults' \in Nat, faults' >= faults
    PROVE  Budget'
<1>1. IsFiniteSet(owed') /\ Cardinality(owed') \in Nat /\ Cardinality(owed') <= Cardinality(owed)
      /\ Cardinality(owed) \in Nat
  BY FS_Subset, FS_CardinalityType DEF Budget
<1>2. Cardinality(Queueing') \in Nat /\ Cardinality(Queueing') <= Cardinality(Queueing)
  BY QueueingFinite, FS_Subset, FS_CardinalityType
<1> QED
  BY <1>1, <1>2, QueueingFinite DEF Budget, TypeOK

\* A refused batch is one more fault and one more payload about to be.
LEMMA BudgetFault ==
    ASSUME TypeOK, Budget, NEW t \in Table, FlushFault(t)
    PROVE  Budget'
<1>1. Queueing' = Queueing \cup {t}
  BY DEF FlushFault, Queueing, TypeOK, Round
<1>2. Cardinality(Queueing') <= Cardinality(Queueing) + 1 /\ Cardinality(Queueing') \in Nat
  BY SMTT(30), <1>1, QueueingFinite, FS_AddElement
<1>3. Cardinality(owed) \in Nat
  BY FS_CardinalityType DEF Budget
<1> QED
  BY <1>2, <1>3, QueueingFinite DEF FlushFault, Budget, TypeOK

\* It becomes owed, or it does not.
LEMMA BudgetEnqueue ==
    ASSUME TypeOK, Budget, NEW t \in Table, Enqueue(t)
    PROVE  Budget'
<1>1. Queueing' = Queueing \ {t} /\ t \in Queueing
  BY DEF Enqueue, Queueing, TypeOK, Round, NoRound
<1>2. Cardinality(Queueing') = Cardinality(Queueing) - 1 /\ Cardinality(Queueing') \in Nat
  BY <1>1, QueueingFinite, FS_RemoveElement, FS_CardinalityType
<1>3. Cardinality(owed) \in Nat
  BY FS_CardinalityType DEF Budget
<1>4. PICK p : owed' = owed \/ owed' = owed \cup {p}
  BY DEF Enqueue
<1>5. /\ IsFiniteSet(owed') /\ Cardinality(owed') \in Nat
      /\ Cardinality(owed') <= Cardinality(owed) + 1
  <2>1. CASE owed' = owed
    BY <1>3, <2>1 DEF Budget
  <2>2. CASE owed' = owed \cup {p}
    <3>1. /\ IsFiniteSet(owed \cup {p})
          /\ Cardinality(owed \cup {p}) \in {Cardinality(owed), Cardinality(owed) + 1}
      BY FS_AddElement DEF Budget
    <3> QED
      BY <1>3, <2>2, <3>1
  <2> QED
    BY <1>4, <2>1, <2>2
<1> QED
  BY SMTT(30), <1>2, <1>3, <1>5, QueueingFinite DEF Enqueue, boundVars, Budget, TypeOK

-----------------------------------------------------------------------------
(* Steps *)

\* Initially there are no managers, no batches and no payloads.
THEOREM ReplayInit == Init => ReplayInv
<1> SUFFICES ASSUME Init PROVE ReplayInv
  OBVIOUS
<1>1. TypeOK
  BY NothingOccurs, ReplayAssumption DEF Init, TypeOK, Phase, Round, NoRound
<1>2. Shape
  BY DEF Init, Shape, NoRound
<1>3. Queueing = {}
  BY DEF Init, Queueing, NoRound
<1>4. Budget
  BY <1>3, FS_EmptySet DEF Init, Budget
<1>5. Once
  BY NothingOccurs DEF Init, Once
<1> QED
  BY <1>1, <1>2, <1>4, <1>5 DEF ReplayInv

\* Every step keeps the types.
THEOREM TypeStep == ReplayInv /\ [Next]_vars => TypeOK' /\ Shape'
<1> SUFFICES ASSUME ReplayInv, [Next]_vars PROVE TypeOK' /\ Shape'
  OBVIOUS
<1>0. TypeOK /\ Shape /\ Budget
  BY DEF ReplayInv
<1> USE <1>0, ReplayAssumption DEF procVars, boundVars, Phase, Round, NoRound
<1>1. ASSUME NEW t \in Table, Register(t) PROVE TypeOK' /\ Shape'
  BY <1>1 DEF Register, TypeOK, Shape
<1>2. ASSUME NEW t \in Table, Drain(t) PROVE TypeOK' /\ Shape'
  BY <1>2, NothingOccurs DEF Drain, TypeOK, Shape
<1>3. ASSUME NEW t \in Table, phase[t] = "replay", hand[t] # <<>>
      PROVE  /\ Head(hand[t]) \in Payload /\ Tail(hand[t]) \in Seq(Payload)
             /\ Head(hand[t]).rev \in 0 .. MaxRev /\ Head(hand[t]).table \in Table
  <2>1. hand[t] \in Seq(Payload)
    BY DEF TypeOK
  <2>2. Head(hand[t]) \in Payload /\ Tail(hand[t]) \in Seq(Payload)
    BY <1>3, <2>1, OccursInTail
  <2> QED
    BY <2>2 DEF Payload
<1>4. ASSUME NEW t \in Table, ReplayOk(t) PROVE TypeOK' /\ Shape'
  BY <1>3, <1>4 DEF ReplayOk, TypeOK, Shape
<1>5. ASSUME NEW t \in Table, ReplayFault(t) PROVE TypeOK' /\ Shape'
  <2>1. row' \in [Table -> 0 .. MaxRev]
    BY <1>3, <1>5 DEF ReplayFault, TypeOK
  <2>2. faults' \in 0 .. MaxFaults /\ phase' \in [Table -> Phase]
    BY <1>5 DEF ReplayFault, TypeOK
  <2>3. TypeOK'
    BY <1>5, <2>1, <2>2 DEF ReplayFault, TypeOK
  <2>4. Shape'
    BY <1>5 DEF ReplayFault, TypeOK, Shape
  <2> QED
    BY <2>3, <2>4
<1>6. ASSUME NEW t \in Table, ReplayUnknown(t) PROVE TypeOK' /\ Shape'
  BY <1>6 DEF ReplayUnknown, TypeOK, Shape
<1>7. ASSUME NEW t \in Table, Requeue(t) PROVE TypeOK' /\ Shape'
  <2>1. hand[t] \in Seq(Payload) /\ hand[t] # <<>> /\ file \in Seq(Payload)
    BY <1>7 DEF Requeue, TypeOK, Shape
  <2>2. /\ Tail(hand[t]) \in Seq(Payload) /\ Append(file, Head(hand[t])) \in Seq(Payload)
    BY <2>1, OccursInTail, OccursAppended
  <2> QED
    BY <1>7, <2>2 DEF Requeue, TypeOK, Shape
<1>8. ASSUME NEW t \in Table, ReplayDone(t) PROVE TypeOK' /\ Shape'
  BY <1>8 DEF ReplayDone, TypeOK, Shape
<1>9. ASSUME NEW t \in Table, Write(t) PROVE TypeOK' /\ Shape'
  BY SMTT(30), <1>9 DEF Write, TypeOK, Shape
<1>10. ASSUME NEW t \in Table, Collect(t) PROVE TypeOK' /\ Shape'
  BY <1>10 DEF Collect, TypeOK, Shape
<1>11. ASSUME NEW t \in Table, FlushOk(t) PROVE TypeOK' /\ Shape'
  BY <1>11 DEF FlushOk, TypeOK, Shape
<1>12. ASSUME NEW t \in Table, FlushFault(t) PROVE TypeOK' /\ Shape'
  <2>1. /\ row' \in [Table -> 0 .. MaxRev] /\ faults' \in 0 .. MaxFaults
        /\ round' \in [Table -> Round]
    <3>1. round[t].rev \in 0 .. MaxRev
      BY DEF TypeOK
    <3>2. row' \in [Table -> 0 .. MaxRev]
      BY <1>12, <3>1 DEF FlushFault, TypeOK
    <3>3. round \in [Table -> Round] /\ round' = [round EXCEPT ![t].pc = "queue"]
      BY <1>12 DEF FlushFault, TypeOK
    <3>4. round' \in [Table -> Round]
      BY ONLY <3>3, <1>12 DEF Round
    <3>5. faults' \in 0 .. MaxFaults
      BY <1>12 DEF FlushFault, TypeOK
    <3> QED
      BY <3>2, <3>4, <3>5
  <2>2. TypeOK'
    BY <1>12, <2>1 DEF FlushFault, TypeOK
  <2>3. Shape'
    BY <1>12 DEF FlushFault, TypeOK, Shape
  <2> QED
    BY <2>2, <2>3
<1>13. ASSUME NEW t \in Table, Enqueue(t) PROVE TypeOK' /\ Shape'
  <2> DEFINE p == [no |-> NextNo, table |-> t, rev |-> round[t].rev]
  <2>1. round[t] \in Round /\ round[t].rev > 0
    BY <1>13 DEF Enqueue, TypeOK, Shape
  <2>2. p \in Payload
    BY <1>13, <2>1, FreshNo DEF Enqueue, Payload
  <2>3. Append(file, p) \in Seq(Payload)
    BY <2>2, OccursAppended DEF TypeOK
  <2>4. file' \in Seq(Payload) /\ owed' \subseteq Payload
    BY <1>13, <2>2, <2>3 DEF Enqueue, TypeOK
  <2> QED
    BY <1>13, <2>4 DEF Enqueue, TypeOK, Shape
<1>14. ASSUME Crash PROVE TypeOK' /\ Shape'
  BY <1>14, NothingOccurs DEF Crash, TypeOK, Shape
<1>15. CASE UNCHANGED vars
  BY <1>15 DEF vars, TypeOK, Shape
<1> QED
  BY <1>1, <1>2, <1>4, <1>5, <1>6, <1>7, <1>8, <1>9, <1>10, <1>11, <1>12, <1>13, <1>14, <1>15
     DEF Next, ReplayStep, FlushStep

\* Every step keeps a number for every payload.
THEOREM BudgetStep == ReplayInv /\ [Next]_vars => Budget'
<1> SUFFICES ASSUME ReplayInv, [Next]_vars PROVE Budget'
  OBVIOUS
<1>0. TypeOK /\ Budget /\ TypeOK'
  BY TypeStep DEF ReplayInv
<1>1. ASSUME NEW t \in Table,
             \/ Register(t) \/ Drain(t) \/ ReplayOk(t) \/ ReplayFault(t) \/ ReplayUnknown(t)
             \/ Requeue(t) \/ ReplayDone(t) \/ Write(t) \/ Collect(t) \/ FlushOk(t)
      PROVE  Budget'
  <2>1. owed' \subseteq owed
    BY <1>1 DEF Register, Drain, ReplayOk, ReplayFault, ReplayUnknown, Requeue, ReplayDone,
       Write, Collect, FlushOk
  <2>2. Queueing' \subseteq Queueing
    <3>1. CASE Collect(t)
      BY <1>0, <3>1 DEF Collect, Queueing, TypeOK
    <3>2. CASE FlushOk(t)
      BY <1>0, <3>2 DEF FlushOk, Queueing, TypeOK, NoRound
    <3>3. CASE ~Collect(t) /\ ~FlushOk(t)
      <4>1. UNCHANGED round
        BY <1>1, <3>3 DEF Register, Drain, ReplayOk, ReplayFault, ReplayUnknown, Requeue,
           ReplayDone, Write
      <4> QED
        BY <4>1 DEF Queueing
    <3> QED
      BY <3>1, <3>2, <3>3
  <2>3. faults' = faults \/ faults' = faults + 1
    <3>1. CASE ReplayFault(t)
      BY <3>1 DEF ReplayFault
    <3>2. CASE ReplayOk(t) \/ Requeue(t) \/ Write(t) \/ Collect(t) \/ FlushOk(t)
      BY <3>2 DEF ReplayOk, Requeue, Write, Collect, FlushOk, boundVars
    <3>3. CASE Register(t) \/ Drain(t) \/ ReplayUnknown(t) \/ ReplayDone(t)
      BY <3>3 DEF Register, Drain, ReplayUnknown, ReplayDone, boundVars
    <3> QED
      BY <1>1, <3>1, <3>2, <3>3
  <2>4. faults' \in Nat /\ faults' >= faults
    BY <1>0, <2>3, ReplayAssumption DEF TypeOK
  <2> QED
    BY <1>0, <2>1, <2>2, <2>4, BudgetKept
<1>2. CASE Crash \/ UNCHANGED vars
  BY <1>0, <1>2, BudgetKept DEF Crash, vars, procVars, boundVars, Queueing, NoRound, TypeOK
<1> QED
  BY <1>0, <1>1, <1>2, BudgetFault, BudgetEnqueue DEF Next, ReplayStep, FlushStep

\* One payload leaves one replay's hand.
LEMMA Handled ==
    ASSUME TypeOK, Shape, Once, NEW t \in Table, hand[t] # <<>>,
           hand' = [hand EXCEPT ![t] = Tail(@)]
    PROVE  /\ Head(hand[t]) \in Payload /\ Occurs(hand[t], Head(hand[t]))
           /\ \A u \in Table : Distinct(hand'[u])
           /\ \A u \in Table : \A q \in Payload :
                 Occurs(hand'[u], q) <=> Occurs(hand[u], q) /\ q # Head(hand[t])
<1>1. hand[t] \in Seq(Payload) /\ hand'[t] = Tail(hand[t])
      /\ \A u \in Table : u # t => hand'[u] = hand[u]
  BY DEF TypeOK
<1>2. /\ Head(hand[t]) \in Payload /\ Occurs(hand[t], Head(hand[t]))
      /\ Distinct(hand'[t])
      /\ \A q \in Payload : Occurs(hand'[t], q) <=> Occurs(hand[t], q) /\ q # Head(hand[t])
  BY <1>1, OccursInTail DEF Once
<1>3. \A u \in Table : u # t => ~Occurs(hand[u], Head(hand[t]))
  BY <1>2 DEF Once
<1> QED
  BY <1>1, <1>2, <1>3 DEF Once

\* Every step keeps each owed payload in one place.
THEOREM OnceStep == ReplayInv /\ [Next]_vars => Once'
<1> SUFFICES ASSUME ReplayInv, [Next]_vars PROVE Once'
  OBVIOUS
<1>0. TypeOK /\ Shape /\ Budget /\ Once
  BY DEF ReplayInv
<1>1. ASSUME NEW t \in Table, Drain(t) PROVE Once'
  <2>1. /\ hand[t] = <<>> /\ hand' = [hand EXCEPT ![t] = file] /\ file' = <<>> /\ owed' = owed
    BY <1>0, <1>1 DEF Drain, Shape
  <2>2. hand'[t] = file /\ \A u \in Table : u # t => hand'[u] = hand[u]
    BY <1>0, <2>1 DEF TypeOK
  <2>3. \A q : ~Occurs(file', q) /\ ~Occurs(hand[t], q)
    BY <2>1, NothingOccurs
  <2>4. Distinct(file') /\ \A u \in Table : Distinct(hand'[u])
    BY <1>0, <2>1, <2>2, NothingOccurs DEF Once
  <2>5. \A q : \A u \in Table : Occurs(hand'[u], q) <=> IF u = t THEN Occurs(file, q)
                                                                ELSE Occurs(hand[u], q)
    BY <2>2
  <2> QED
    BY <1>0, <2>1, <2>3, <2>4, <2>5 DEF Once
<1>2. ASSUME NEW t \in Table, ReplayOk(t) PROVE Once'
  <2>1. /\ hand[t] # <<>> /\ hand' = [hand EXCEPT ![t] = Tail(@)] /\ file' = file
        /\ owed' = owed \ {Head(hand[t])}
    BY <1>2 DEF ReplayOk
  <2>2. /\ Head(hand[t]) \in Payload /\ Occurs(hand[t], Head(hand[t]))
        /\ \A u \in Table : Distinct(hand'[u])
        /\ \A u \in Table : \A q \in Payload :
              Occurs(hand'[u], q) <=> Occurs(hand[u], q) /\ q # Head(hand[t])
    BY <1>0, <2>1, Handled
  <2> QED
    BY <1>0, <2>1, <2>2 DEF Once
<1>3. ASSUME NEW t \in Table, Requeue(t) PROVE Once'
  <2> DEFINE p == Head(hand[t])
  <2>1. /\ hand[t] # <<>> /\ hand' = [hand EXCEPT ![t] = Tail(@)]
        /\ \/ file' = Append(file, p) /\ owed' = owed
           \/ file' = file /\ owed' = owed \ {p}
    BY <1>0, <1>3 DEF Requeue, Shape
  <2>2. /\ p \in Payload /\ Occurs(hand[t], p)
        /\ \A u \in Table : Distinct(hand'[u])
        /\ \A u \in Table : \A q \in Payload : Occurs(hand'[u], q) <=> Occurs(hand[u], q) /\ q # p
    BY <1>0, <2>1, Handled
  <2>3. ~Occurs(file, p)
    BY <1>0, <2>2 DEF Once
  <2> HIDE DEF p
  <2>4. CASE file' = file /\ owed' = owed \ {p}
    BY <1>0, <2>2, <2>4 DEF Once
  <2>5. CASE file' = Append(file, p) /\ owed' = owed
    <3>1. Distinct(file') /\ \A q : Occurs(file', q) <=> Occurs(file, q) \/ q = p
      BY <1>0, <2>2, <2>3, <2>5, OccursAppended DEF Once, TypeOK
    <3> QED
      BY <1>0, <2>2, <2>5, <3>1 DEF Once
  <2> QED
    BY <2>1, <2>4, <2>5
<1>4. ASSUME NEW t \in Table, Enqueue(t) PROVE Once'
  <2> DEFINE p == [no |-> NextNo, table |-> t, rev |-> round[t].rev]
  <2>1. /\ UNCHANGED hand
        /\ \/ file' = Append(file, p) /\ owed' = owed \cup {p}
           \/ UNCHANGED <<file, owed>>
    BY <1>4 DEF Enqueue
  <2>2. p \in Payload /\ p \notin owed
    <3>1. round[t] \in Round /\ round[t].rev > 0 /\ NextNo \in 1 .. MaxFaults
      BY <1>0, <1>4, FreshNo DEF Enqueue, TypeOK, Shape
    <3>2. \A q \in owed : q.no # NextNo
      BY <1>0, <1>4, FreshNo DEF Enqueue
    <3> QED
      BY <3>1, <3>2, ReplayAssumption DEF Payload, Round
  <2> HIDE DEF p
  <2>3. ~Occurs(file, p) /\ \A u \in Table : ~Occurs(hand[u], p)
    BY <1>0, <2>2 DEF Once
  <2>4. CASE file' = Append(file, p) /\ owed' = owed \cup {p}
    <3>1. Distinct(file') /\ \A q : Occurs(file', q) <=> Occurs(file, q) \/ q = p
      BY <1>0, <2>2, <2>3, <2>4, OccursAppended DEF Once, TypeOK
    <3> QED
      BY <1>0, <2>1, <2>2, <2>3, <2>4, <3>1 DEF Once
  <2>5. CASE UNCHANGED <<file, owed>>
    BY <1>0, <2>1, <2>5 DEF Once
  <2> QED
    BY <2>1, <2>4, <2>5
<1>5. ASSUME Crash PROVE Once'
  <2>1. \A t \in Table : hand'[t] = <<>>
    BY <1>5 DEF Crash
  <2>2. /\ \A q : \A t \in Table : ~Occurs(hand'[t], q)
        /\ \A t \in Table : Distinct(hand'[t])
    BY <2>1, NothingOccurs
  <2>3. file' = file /\ owed' = {q \in owed : Occurs(file, q)}
    BY <1>5 DEF Crash, Occurs
  <2> QED
    BY <1>0, <2>2, <2>3 DEF Once
<1>6. CASE UNCHANGED <<file, hand, owed>>
  BY <1>0, <1>6 DEF Once
<1> QED
  BY <1>1, <1>2, <1>3, <1>4, <1>5, <1>6 DEF Next, ReplayStep, FlushStep, Register, ReplayFault,
     ReplayUnknown, ReplayDone, Write, Collect, FlushOk, FlushFault, vars, procVars

\* A payload that is in the file or in one hand once has one place.
LEMMA PlacesOf ==
    ASSUME ReplayInv, NEW p \in Payload
    PROVE  Cardinality(Places(p)) = IF p \in owed THEN 1 ELSE 0
<1>0. Once
  BY DEF ReplayInv
<1>1. CASE p \notin owed
  <2>1. Places(p) = {}
    BY <1>0, <1>1 DEF Once, Places, Positions, Occurs
  <2> QED
    BY <1>1, <2>1, FS_EmptySet
<1>2. CASE p \in owed /\ Occurs(file, p)
  <2>1. PICK i \in DOMAIN file : file[i] = p
    BY <1>2 DEF Occurs
  <2>2. Positions(file, p) = {i}
    BY <1>0, <2>1 DEF Once, Distinct, Positions
  <2>3. \A t \in Table : Positions(hand[t], p) = {}
    BY <1>0, <1>2 DEF Once, Positions, Occurs
  <2>4. Places(p) = {<<"file", i>>}
    BY <2>2, <2>3 DEF Places
  <2> QED
    BY <1>2, <2>4, FS_Singleton
<1>3. CASE p \in owed /\ ~Occurs(file, p)
  <2>1. PICK t \in Table : Occurs(hand[t], p)
    BY <1>0, <1>3 DEF Once
  <2>2. PICK i \in DOMAIN hand[t] : hand[t][i] = p
    BY <2>1 DEF Occurs
  <2>3. Positions(hand[t], p) = {i}
    BY <1>0, <2>2 DEF Once, Distinct, Positions
  <2>4. \A u \in Table : u # t => Positions(hand[u], p) = {}
    BY <1>0, <2>1 DEF Once, Positions, Occurs
  <2>5. Positions(file, p) = {}
    BY <1>3 DEF Positions, Occurs
  <2>6. Places(p) = {<<t, i>>}
    BY <2>3, <2>4, <2>5 DEF Places
  <2> QED
    BY <1>3, <2>6, FS_Singleton
<1> QED
  BY <1>1, <1>2, <1>3

\* A payload whose Enqueue succeeded is in the file or in the hand of one
\* replay, once, until it is replayed or given up, whatever crashes, faults and
\* replays of the shared file come between (failure_queue.go:291-293).
THEOREM OnePlaceCorrect == Spec => [](TypeOK /\ OnePlace)
<1>1. ReplayInv /\ [Next]_vars => ReplayInv'
  BY TypeStep, BudgetStep, OnceStep DEF ReplayInv
<1>2. Spec => []ReplayInv
  BY <1>1, ReplayInit, PTL DEF Spec
<1>3. ReplayInv => TypeOK /\ OnePlace
  BY PlacesOf DEF ReplayInv, OnePlace
<1> QED
  BY <1>2, <1>3, PTL

-----------------------------------------------------------------------------
(* HashCache: the invariant *)

\* Between the first and the last effect of a Set, Push or Remove.
Busy == {"append", "put", "mark", "tomb", "relist"}

At(c, pcs) == op[c].pc \in pcs

\* Only its writer changes a field; a Remove has taken it off its list.
OwnCalls ==
    \A c \in Client :
        /\ op[c].call \in {"Set", "Push", "Remove"} \/ At(c, Busy) => Owner[op[c].field] = c
        /\ At(c, {"tomb", "relist"}) => op[c].field \notin op[c].keys

\* A call that owns its cacheData finds it in the map, with the value it put.
OwnEntries ==
    \A c \in Client : At(c, {"append", "put", "mark"}) /\ op[c].own =>
        /\ cacheMap[op[c].field] # NoEntry
        /\ cacheMap[op[c].field].val = rev[op[c].field]
        /\ ~cacheMap[op[c].field].del

\* An entry e and a row d of a field both say v: the entry when there is one,
\* the row when MySQL is in use and the entry is not dirty.
Stands(e, d, rows, v) ==
    /\ e # NoEntry => e.val = v /\ (e.del <=> v = Absent)
    /\ rows /\ ~(e # NoEntry /\ e.upd) => d = v

Settled ==
    /\ \A f \in Field : f \notin lost /\ f \notin MidWrite =>
           Stands(cacheMap[f], db[f], Longevity, truth[f])
    /\ \A c \in Client : At(c, {"relist"}) /\ op[c].field \notin lost =>
           Stands(cacheMap[op[c].field], db[op[c].field], Longevity, Absent)

\* What Redis holds is the whole hash.
Whole == ~partial /\ (Live(redis) # {} \/ ~Longevity)

Cached ==
    /\ ~Longevity => ~partial
    /\ UseCache /\ Whole => \A f \in Field : f \notin lost /\ f \notin MidWrite => redis[f] = truth[f]
    /\ \A c \in Client : UseCache /\ op[c].field \notin lost =>
           /\ At(c, {"mark"}) /\ Whole => redis[op[c].field] = rev[op[c].field]
           /\ At(c, {"tomb", "relist"}) => redis[op[c].field] = Absent

\* A load has read the truth, but for the fields it may have read too early.
Flight ==
    /\ flight.pc \in {"mysql", "fillR", "put"} => Longevity
    /\ flight.pc \in {"redis", "put"} => UseCache
    /\ flight.pc \in {"redis", "mysql"} => Live(flight.rows) = {}
    /\ flight.pc \in {"fill", "fillR", "put"} =>
           /\ MidWrite \subseteq flight.bad
           /\ \A f \in Field : f \notin flight.bad /\ f \notin lost => flight.rows[f] = truth[f]
    /\ flight.pc = "put" =>
           \A f \in Live(flight.rows) : f \notin flight.bad /\ f \notin lost => cacheMap[f] # NoEntry

\* A list has the fields that exist, and they are in the map.
Lists(ks) ==
    \A f \in Field : f \notin lost /\ f \notin MidWrite =>
        (f \in ks <=> truth[f] # Absent) /\ (f \in ks => cacheMap[f] # NoEntry)

\* A call has a list in hand.
Reading == {"list", "have", "append", "tomb", "relist"}

Trusted == members # NoList /\ ~astray /\ clearing # "cleared"

Listed ==
    /\ Trusted => Lists(members)
    /\ \A c \in Client :
         /\ At(c, Reading) /\ ~op[c].old =>
                Lists(op[c].keys) /\ \A f \in MidWrite : Owner[f] = c
         /\ At(c, {"have", "append"}) /\ ~op[c].old /\ members # NoList =>
                op[c].keys = members
         /\ At(c, {"put", "mark"}) /\ op[c].own /\ op[c].field \notin lost /\ Trusted =>
                op[c].field \in members

HashInv == HashTypeOK /\ OwnCalls /\ OwnEntries /\ Settled /\ Cached /\ Flight /\ Listed

-----------------------------------------------------------------------------
(* The steps of the calls *)

\* No call: idle, of some field.
LEMMA NoCallIs ==
    /\ NoCall \in CallSet
    /\ NoCall.call = "none" /\ NoCall.pc = "idle" /\ ~NoCall.own /\ ~NoCall.old
    /\ NoCall.keys = {} /\ ~NoCall.loaded
<1>1. (CHOOSE f \in Field : TRUE) \in Field
  BY HashAssumption
<1> QED
  BY <1>1 DEF NoCall, CallSet

\* No load: none has read anything.
LEMMA NoFlightIs ==
    /\ NoFlight \in FlightSet /\ NoFlight.pc = "none" /\ NoFlight.bad = {}
    /\ \A f \in Field : NoFlight.rows[f] = Absent
  BY DEF NoFlight, FlightSet, Absent

\* The fields of a call.
LEMMA CallFields ==
    ASSUME HashTypeOK, NEW c \in Client
    PROVE  /\ op[c] \in CallSet /\ op[c].field \in Field /\ op[c].keys \in SUBSET Field
           /\ op[c].own \in BOOLEAN /\ op[c].old \in BOOLEAN /\ op[c].loaded \in BOOLEAN
  BY DEF HashTypeOK, CallSet

\* The other calls stay where they are; they may have grown old.
OthersStay(c) ==
    \A d \in Client : d # c =>
        /\ op'[d].call = op[d].call /\ op'[d].pc = op[d].pc /\ op'[d].field = op[d].field
        /\ op'[d].keys = op[d].keys /\ op'[d].own = op[d].own
        /\ op[d].old => op'[d].old

\* All of them old that may be reading what c changes.
OthersAge(c) == \A d \in Client : d # c => op'[d].pc \in {"idle", "miss"} \/ op'[d].old

\* All of them old that have another list than ks in hand.
OthersHave(c, ks) ==
    \A d \in Client : d # c /\ op'[d].pc \in {"have", "append"} => op'[d].keys = ks \/ op'[d].old

\* The marks a step of another call or of a timer leaves on a call.
LEMMA MarkedCall ==
    ASSUME NEW r \in CallSet
    PROVE  LET s == [r EXCEPT !.old = TRUE] IN
           /\ s \in CallSet /\ s.old
           /\ s.call = r.call /\ s.pc = r.pc /\ s.field = r.field /\ s.keys = r.keys /\ s.own = r.own
  BY DEF CallSet

\* What Changed does to the calls and to the load, c going on as call.
LEMMA ChangedIs ==
    ASSUME HashTypeOK, NEW c \in Client, NEW f \in Field, NEW call \in CallSet, Changed(c, f, call)
    PROVE  /\ op' \in [Client -> CallSet] /\ op'[c] = call /\ OthersStay(c) /\ OthersAge(c)
           /\ flight' \in FlightSet /\ flight'.pc = flight.pc /\ flight'.rows = flight.rows
           /\ flight.pc # "none" => flight'.bad = flight.bad \cup {f}
<1>1. \A d \in Client : op[d] \in CallSet
  BY DEF HashTypeOK
<1> DEFINE s(d) == [op[d] EXCEPT !.old = TRUE]
<1>2. \A d \in Client : /\ s(d) \in CallSet /\ s(d).old /\ s(d).call = op[d].call /\ s(d).pc = op[d].pc
                        /\ s(d).field = op[d].field /\ s(d).keys = op[d].keys /\ s(d).own = op[d].own
  BY <1>1, MarkedCall
<1>3. op' = [d \in Client |-> IF d = c THEN call
                              ELSE IF op[d].pc \in {"idle", "miss"} THEN op[d] ELSE s(d)]
  BY DEF Changed, Aged
<1> HIDE DEF s
<1>4. op' \in [Client -> CallSet] /\ op'[c] = call /\ OthersStay(c) /\ OthersAge(c)
  BY <1>1, <1>2, <1>3 DEF OthersStay, OthersAge
<1>5. /\ flight' \in FlightSet /\ flight'.pc = flight.pc /\ flight'.rows = flight.rows
      /\ flight.pc # "none" => flight'.bad = flight.bad \cup {f}
  BY DEF Changed, HashTypeOK, FlightSet
<1> QED
  BY <1>4, <1>5

\* What SetList does to the calls, c going on as call.
LEMMA SetListIs ==
    ASSUME HashTypeOK, NEW c \in Client, NEW call \in CallSet, NEW ks \in SUBSET Field,
           SetList(c, ks, call)
    PROVE  /\ op' \in [Client -> CallSet] /\ op'[c] = call /\ OthersStay(c) /\ OthersHave(c, ks)
           /\ members' = ks /\ astray' = op[c].old /\ astray' \in BOOLEAN
<1>1. \A d \in Client : op[d] \in CallSet
  BY DEF HashTypeOK
<1> DEFINE s(d) == [op[d] EXCEPT !.old = TRUE]
<1>2. \A d \in Client : /\ s(d) \in CallSet /\ s(d).old /\ s(d).call = op[d].call /\ s(d).pc = op[d].pc
                        /\ s(d).field = op[d].field /\ s(d).keys = op[d].keys /\ s(d).own = op[d].own
  BY <1>1, MarkedCall
<1>3. op' = [d \in Client |->
                IF d = c THEN call
                ELSE IF op[d].pc \in {"have", "append"} /\ op[d].keys # ks THEN s(d) ELSE op[d]]
  BY DEF SetList
<1> HIDE DEF s
<1>4. op' \in [Client -> CallSet] /\ op'[c] = call /\ OthersStay(c) /\ OthersHave(c, ks)
  BY <1>1, <1>2, <1>3 DEF OthersStay, OthersHave
<1>5. members' = ks /\ astray' = op[c].old /\ astray' \in BOOLEAN
  BY CallFields DEF SetList
<1> QED
  BY <1>4, <1>5

\* A step that sets one call only.
LEMMA OneCall ==
    ASSUME HashTypeOK, NEW c \in Client, NEW call \in CallSet, op' = [op EXCEPT ![c] = call]
    PROVE  op' \in [Client -> CallSet] /\ op'[c] = call /\ OthersStay(c) /\ \A d \in Client \ {c} : op'[d] = op[d]
  BY DEF HashTypeOK, OthersStay

\* What a step of call c does to the calls.
LEMMA PushOp ==
    ASSUME HashTypeOK, NEW c \in Client, NEW f \in Field, Push(c, f)
    PROVE  /\ op' \in [Client -> CallSet] /\ OthersStay(c) /\ OthersAge(c)
           /\ op'[c].call = "Push" /\ op'[c].pc = "put" /\ op'[c].field = f
           /\ op'[c].own /\ ~op'[c].old /\ op[c].pc = "idle"
           /\ flight' \in FlightSet /\ flight'.pc = flight.pc /\ flight'.rows = flight.rows
           /\ flight.pc # "none" => flight'.bad = flight.bad \cup {f}
<1> DEFINE call == [NoCall EXCEPT !.call = "Push", !.field = f, !.pc = "put", !.own = TRUE]
<1>1. /\ call \in CallSet /\ call.call = "Push" /\ call.pc = "put" /\ call.field = f
      /\ call.own /\ ~call.old
  BY NoCallIs DEF CallSet
<1>2. Changed(c, f, call) /\ op[c].pc = "idle"
  BY DEF Push, Starts
<1> HIDE DEF call
<1> QED
  BY <1>1, <1>2, ChangedIs, CallFields

\* Begin: the call has the list in hand, or must load it.
LEMMA BeginOp ==
    ASSUME HashTypeOK, NEW c \in Client, NEW f \in Field, NEW w \in Uses[c], Begin(c, w, f)
    PROVE  /\ op' \in [Client -> CallSet] /\ OthersStay(c) /\ \A d \in Client \ {c} : op'[d] = op[d]
           /\ op'[c].call = w /\ op'[c].field = f /\ ~op'[c].own /\ op[c].pc = "idle"
           /\ w \in {"Get", "GetAll", "Set", "Remove"} /\ (w \in {"Set", "Remove"} => Owner[f] = c)
           /\ IF members = NoList THEN op'[c].pc = "miss"
              ELSE op'[c].pc = "have" /\ op'[c].keys = members /\ op'[c].old = Unsettled
<1> DEFINE call0 == [NoCall EXCEPT !.call = w, !.field = f]
           call == IF members = NoList THEN [call0 EXCEPT !.pc = "miss"]
                   ELSE [call0 EXCEPT !.pc = "have", !.keys = members, !.old = Unsettled]
<1>1. w \in {"Get", "GetAll", "Set", "Remove"} /\ (w \in {"Set", "Remove"} => Owner[f] = c)
  BY HashAssumption DEF Begin
<1>2. Unsettled \in BOOLEAN
  BY DEF Unsettled, HashTypeOK
<1>3. call0 \in CallSet /\ call0.call = w /\ call0.field = f /\ ~call0.own
  BY <1>1, NoCallIs DEF CallSet
<1> HIDE DEF call0
<1>4. /\ call \in CallSet /\ call.call = w /\ call.field = f /\ ~call.own
      /\ IF members = NoList THEN call.pc = "miss"
         ELSE call.pc = "have" /\ call.keys = members /\ call.old = Unsettled
  <2>1. CASE members = NoList
    BY <1>3, <2>1 DEF CallSet
  <2>2. CASE members # NoList
    <3> DEFINE b == Unsettled
    <3>0. members \in SUBSET Field
      BY <2>2 DEF HashTypeOK
    <3>1. members \in SUBSET Field /\ b \in BOOLEAN
      BY <1>2, <3>0, Zenon
    <3>2. call = [call0 EXCEPT !.pc = "have", !.keys = members, !.old = b]
      BY <2>2
    <3> HIDE DEF b, call
    <3>3. /\ call \in CallSet /\ call.call = w /\ call.field = f /\ ~call.own
          /\ call.pc = "have" /\ call.keys = members /\ call.old = b
      BY <1>3, <3>1, <3>2 DEF CallSet
    <3> QED
      BY <2>2, <3>3 DEF b
  <2> QED
    BY <2>1, <2>2
<1>5. op' = [op EXCEPT ![c] = call] /\ op[c].pc = "idle"
  BY DEF Begin, Starts, call0
<1> HIDE DEF call
<1> QED
  BY <1>1, <1>4, <1>5, OneCall

\* Load: the call waits for the load in flight.
LEMMA LoadOp ==
    ASSUME HashTypeOK, NEW c \in Client, Load(c)
    PROVE  /\ op' \in [Client -> CallSet] /\ OthersStay(c) /\ \A d \in Client \ {c} : op'[d] = op[d]
           /\ op[c].pc = "miss" /\ op'[c].pc = "load" /\ op'[c].call = op[c].call /\ op'[c].field = op[c].field
           /\ op'[c].keys = op[c].keys /\ op'[c].own = op[c].own /\ op'[c].old = op[c].old
<1> DEFINE call == [op[c] EXCEPT !.pc = "load"]
<1>1. /\ call \in CallSet /\ call.pc = "load" /\ call.call = op[c].call /\ call.field = op[c].field
      /\ call.keys = op[c].keys /\ call.own = op[c].own /\ call.old = op[c].old
  BY CallFields DEF CallSet
<1>2. op' = [op EXCEPT ![c] = call] /\ op[c].pc = "miss"
  BY DEF Load, HashTypeOK
<1> HIDE DEF call
<1> QED
  BY <1>1, <1>2, OneCall

\* SetLoaded: the list the load found is written.
LEMMA SetLoadedOp ==
    ASSUME HashTypeOK, NEW c \in Client, SetLoaded(c)
    PROVE  /\ op' \in [Client -> CallSet] /\ OthersStay(c) /\ OthersHave(c, op[c].keys)
           /\ op[c].pc = "list" /\ op'[c].pc = "have" /\ op'[c].call = op[c].call /\ op'[c].field = op[c].field
           /\ op'[c].keys = op[c].keys /\ op'[c].own = op[c].own /\ op'[c].old = op[c].old
           /\ members' = op[c].keys /\ astray' = op[c].old /\ astray' \in BOOLEAN
<1> DEFINE call == [op[c] EXCEPT !.pc = "have"]
<1>1. /\ call \in CallSet /\ call.pc = "have" /\ call.call = op[c].call /\ call.field = op[c].field
      /\ call.keys = op[c].keys /\ call.own = op[c].own /\ call.old = op[c].old
  BY CallFields DEF CallSet
<1>2. SetList(c, op[c].keys, call) /\ op[c].pc = "list"
  BY DEF SetLoaded
<1> HIDE DEF call
<1> QED
  BY <1>1, <1>2, SetListIs, CallFields

\* Read: the call ends, and may store the empty list.
LEMMA ReadOp ==
    ASSUME HashTypeOK, NEW c \in Client, Read(c)
    PROVE  /\ op' \in [Client -> CallSet] /\ OthersStay(c)
           /\ op'[c] = NoCall /\ op[c].pc = "have"
           /\ \/ /\ OthersHave(c, {}) /\ op[c].keys = {} /\ op[c].loaded
                 /\ members' = op[c].keys /\ astray' = op[c].old /\ astray' \in BOOLEAN
              \/ members' = members /\ astray' = astray /\ \A d \in Client \ {c} : op'[d] = op[d]
<1>1. CASE op[c].call = "GetAll" /\ op[c].loaded /\ op[c].keys = {}
  <2>1. SetList(c, {}, NoCall) /\ op[c].pc = "have"
    BY <1>1 DEF Read
  <2> QED
    BY <1>1, <2>1, SetListIs, NoCallIs
<1>2. CASE ~(op[c].call = "GetAll" /\ op[c].loaded /\ op[c].keys = {})
  <2>1. op' = [op EXCEPT ![c] = NoCall] /\ members' = members /\ astray' = astray /\ op[c].pc = "have"
    BY <1>2 DEF Read
  <2> QED
    BY <2>1, OneCall, NoCallIs DEF OthersStay
<1> QED
  BY <1>1, <1>2

\* Set: the call owns the cacheData it put.
LEMMA SetOp ==
    ASSUME HashTypeOK, NEW c \in Client, Set(c)
    PROVE  /\ op' \in [Client -> CallSet] /\ OthersStay(c) /\ OthersAge(c)
           /\ op'[c].pc = "append" /\ op'[c].field = op[c].field /\ op'[c].keys = op[c].keys
           /\ op'[c].own /\ op'[c].old = op[c].old /\ op'[c].call = "Set"
           /\ op[c].pc = "have" /\ op[c].call = "Set"
           /\ flight' \in FlightSet /\ flight'.pc = flight.pc /\ flight'.rows = flight.rows
           /\ flight.pc # "none" => flight'.bad = flight.bad \cup {op[c].field}
<1> DEFINE call == [op[c] EXCEPT !.pc = "append", !.own = TRUE]
<1>1. /\ call \in CallSet /\ call.pc = "append" /\ call.call = op[c].call /\ call.field = op[c].field
      /\ call.keys = op[c].keys /\ call.own /\ call.old = op[c].old
  BY CallFields DEF CallSet
<1>2. /\ Changed(c, op[c].field, call)
      /\ op[c].pc = "have" /\ op[c].call = "Set"
  BY DEF Set
<1> HIDE DEF call
<1> QED
  BY <1>1, <1>2, ChangedIs, CallFields

\* Enlist: the list is written with the new field, or left as it is.
LEMMA EnlistOp ==
    ASSUME HashTypeOK, NEW c \in Client, Enlist(c)
    PROVE  /\ op' \in [Client -> CallSet] /\ OthersStay(c)
           /\ op'[c].call = "Set" /\ op'[c].pc = "put" /\ op'[c].field = op[c].field
           /\ op'[c].own = op[c].own /\ ~op'[c].old /\ op[c].pc = "append"
           /\ \/ /\ op[c].field \notin op[c].keys /\ members' = op[c].keys \cup {op[c].field}
                 /\ OthersHave(c, members') /\ astray' = op[c].old /\ astray' \in BOOLEAN
              \/ /\ op[c].field \in op[c].keys /\ members' = members
                 /\ astray' = (astray \/ op[c].old) /\ \A d \in Client \ {c} : op'[d] = op[d]
<1> DEFINE f == op[c].field
           call == [NoCall EXCEPT !.call = "Set", !.pc = "put", !.field = f, !.own = op[c].own]
<1>1. f \in Field /\ op[c].own \in BOOLEAN /\ op[c].keys \cup {f} \in SUBSET Field
  BY CallFields
<1>2. /\ call \in CallSet /\ call.call = "Set" /\ call.pc = "put" /\ call.field = f
      /\ call.own = op[c].own /\ ~call.old
  BY <1>1, NoCallIs DEF CallSet
<1>3. /\ op[c].pc = "append"
      /\ IF f \notin op[c].keys THEN SetList(c, op[c].keys \cup {f}, call)
         ELSE op' = [op EXCEPT ![c] = call] /\ astray' = (astray \/ op[c].old) /\ members' = members
  BY DEF Enlist
<1> HIDE DEF call
<1>4. CASE f \notin op[c].keys
  BY <1>1, <1>2, <1>3, <1>4, SetListIs, CallFields
<1>5. CASE f \in op[c].keys
  BY <1>2, <1>3, <1>5, OneCall DEF OthersStay
<1> QED
  BY <1>4, <1>5

\* WriteCache: the call goes on to mark its cacheData.
LEMMA WriteCacheOp ==
    ASSUME HashTypeOK, NEW c \in Client, WriteCache(c)
    PROVE  /\ op' \in [Client -> CallSet] /\ OthersStay(c) /\ \A d \in Client \ {c} : op'[d] = op[d]
           /\ op[c].pc = "put" /\ op'[c].pc = "mark" /\ op'[c].call = op[c].call /\ op'[c].field = op[c].field
           /\ op'[c].keys = op[c].keys /\ op'[c].own = op[c].own /\ op'[c].old = op[c].old
<1> DEFINE call == [op[c] EXCEPT !.pc = "mark"]
<1>1. /\ call \in CallSet /\ call.pc = "mark" /\ call.call = op[c].call /\ call.field = op[c].field
      /\ call.keys = op[c].keys /\ call.own = op[c].own /\ call.old = op[c].old
  BY CallFields DEF CallSet
<1>2. op' = [op EXCEPT ![c] = call] /\ op[c].pc = "put"
  BY DEF WriteCache, HashTypeOK
<1> HIDE DEF call
<1> QED
  BY <1>1, <1>2, OneCall

\* MarkUpdate: the call ends.
LEMMA MarkUpdateOp ==
    ASSUME HashTypeOK, NEW c \in Client, MarkUpdate(c)
    PROVE  /\ op' \in [Client -> CallSet] /\ OthersStay(c) /\ \A d \in Client \ {c} : op'[d] = op[d]
           /\ op'[c] = NoCall /\ op[c].pc = "mark"
  BY OneCall, NoCallIs DEF MarkUpdate

\* Remove: the field is off the list the call has in hand.
LEMMA RemoveOp ==
    ASSUME HashTypeOK, NEW c \in Client, Remove(c)
    PROVE  /\ op' \in [Client -> CallSet] /\ OthersStay(c) /\ OthersAge(c)
           /\ op'[c].call = "Remove" /\ op'[c].pc = "tomb" /\ op'[c].field = op[c].field
           /\ op'[c].keys = op[c].keys \ {op[c].field} /\ op'[c].old = op[c].old
           /\ op[c].pc = "have" /\ op[c].call = "Remove"
           /\ flight' \in FlightSet /\ flight'.pc = flight.pc /\ flight'.rows = flight.rows
           /\ flight.pc # "none" => flight'.bad = flight.bad \cup {op[c].field}
<1> DEFINE call == [op[c] EXCEPT !.pc = "tomb", !.keys = @ \ {op[c].field}]
<1>1. /\ call \in CallSet /\ call.pc = "tomb" /\ call.field = op[c].field
      /\ call.keys = op[c].keys \ {op[c].field} /\ call.old = op[c].old /\ call.call = op[c].call
  BY CallFields DEF CallSet
<1>2. Changed(c, op[c].field, call) /\ op[c].pc = "have" /\ op[c].call = "Remove"
  BY DEF Remove
<1> HIDE DEF call
<1> QED
  BY <1>1, <1>2, ChangedIs, CallFields

\* Tomb: the call goes on to store its list.
LEMMA TombOp ==
    ASSUME HashTypeOK, NEW c \in Client, Tomb(c)
    PROVE  /\ op' \in [Client -> CallSet] /\ OthersStay(c) /\ \A d \in Client \ {c} : op'[d] = op[d]
           /\ op[c].pc = "tomb" /\ op'[c].pc = "relist" /\ op'[c].call = op[c].call /\ op'[c].field = op[c].field
           /\ op'[c].keys = op[c].keys /\ op'[c].own = op[c].own /\ op'[c].old = op[c].old
<1> DEFINE call == [op[c] EXCEPT !.pc = "relist"]
<1>1. /\ call \in CallSet /\ call.pc = "relist" /\ call.call = op[c].call /\ call.field = op[c].field
      /\ call.keys = op[c].keys /\ call.own = op[c].own /\ call.old = op[c].old
  BY CallFields DEF CallSet
<1>2. op' = [op EXCEPT ![c] = call] /\ op[c].pc = "tomb"
  BY DEF Tomb, HashTypeOK
<1> HIDE DEF call
<1> QED
  BY <1>1, <1>2, OneCall

\* Relist: the shortened list is written and the call ends.
LEMMA RelistOp ==
    ASSUME HashTypeOK, NEW c \in Client, Relist(c)
    PROVE  /\ op' \in [Client -> CallSet] /\ OthersStay(c) /\ OthersHave(c, op[c].keys)
           /\ op'[c] = NoCall /\ op[c].pc = "relist"
           /\ members' = op[c].keys /\ astray' = op[c].old /\ astray' \in BOOLEAN
<1>1. SetList(c, op[c].keys, NoCall) /\ op[c].pc = "relist"
  BY DEF Relist
<1> QED
  BY <1>1, NoCallIs, SetListIs, CallFields

\* The load and the timers move no call but those that wait for the load.
AllStay ==
    \A d \in Client :
        /\ op'[d].call = op[d].call /\ op'[d].field = op[d].field
        /\ op[d].pc # "load" => op'[d].pc = op[d].pc /\ op'[d].keys = op[d].keys
        /\ op'[d].own => op[d].own
        /\ op[d].old => op'[d].old

\* Loaded: the calls that waited have the rows' fields, the others go on.
LEMMA LoadedIs ==
    ASSUME HashTypeOK, NEW ops \in [Client -> CallSet], op' = Loaded(ops),
           flight.pc \in {"fill", "fillR", "put"},
           \A d \in Client : ops[d].call = op[d].call /\ ops[d].pc = op[d].pc
               /\ ops[d].field = op[d].field /\ ops[d].keys = op[d].keys /\ ops[d].old = op[d].old
    PROVE  /\ op' \in [Client -> CallSet]
           /\ \A d \in Client :
                 /\ op'[d].call = op[d].call /\ op'[d].field = op[d].field /\ op'[d].own = ops[d].own
                 /\ op[d].pc # "load" => op'[d].pc = op[d].pc /\ op'[d].keys = op[d].keys
                                            /\ op'[d].old = op[d].old
                 /\ op[d].pc = "load" => op'[d].pc = "list" /\ op'[d].keys = Live(flight.rows)
                                            /\ (op'[d].old <=> op[d].old \/ flight.bad # {})
<1>1. Live(flight.rows) \in SUBSET Field
  BY DEF Live
<1> DEFINE fin(d) == [ops[d] EXCEPT !.pc = "list", !.keys = Live(flight.rows), !.loaded = TRUE,
                                   !.old = @ \/ flight.bad # {}]
<1>2. \A d \in Client : /\ fin(d) \in CallSet /\ fin(d).call = ops[d].call
                        /\ fin(d).field = ops[d].field /\ fin(d).own = ops[d].own
                        /\ fin(d).pc = "list" /\ fin(d).keys = Live(flight.rows)
                        /\ fin(d).old <=> ops[d].old \/ flight.bad # {}
  <2> TAKE d \in Client
  <2>1. ops[d] \in CallSet /\ (ops[d].old \/ flight.bad # {}) \in BOOLEAN
    OBVIOUS
  <2> DEFINE b == ops[d].old \/ flight.bad # {}
  <2>2. b \in BOOLEAN /\ fin(d) = [ops[d] EXCEPT !.pc = "list", !.keys = Live(flight.rows),
                                                !.loaded = TRUE, !.old = b]
    BY <2>1 DEF CallSet
  <2> HIDE DEF b
  <2>3. /\ fin(d) \in CallSet /\ fin(d).call = ops[d].call
        /\ fin(d).field = ops[d].field /\ fin(d).own = ops[d].own
        /\ fin(d).pc = "list" /\ fin(d).keys = Live(flight.rows) /\ fin(d).old = b
    BY <1>1, <2>1, <2>2 DEF CallSet
  <2> QED
    BY <2>3 DEF b
<1>3. op' = [d \in Client |-> IF op[d].pc # "load" THEN ops[d] ELSE fin(d)]
  BY DEF Loaded
<1> HIDE DEF fin
<1> QED
  BY <1>2, <1>3

\* LoadFault: a read ends, a write goes on with a list that is old.
LEMMA LoadFaultOp ==
    ASSUME HashTypeOK, LoadFault
    PROVE  /\ op' \in [Client -> CallSet]
           /\ \A d \in Client :
                 \/ op[d].pc # "load" /\ op'[d] = op[d]
                 \/ op[d].pc = "load" /\ op[d].call \in {"Get", "GetAll"} /\ op'[d] = NoCall
                 \/ /\ op[d].pc = "load" /\ op'[d].pc = "have" /\ op'[d].old
                    /\ op'[d].call = op[d].call /\ op'[d].field = op[d].field
<1>1. \A d \in Client : op[d] \in CallSet
  BY DEF HashTypeOK
<1> DEFINE fin(d) == [op[d] EXCEPT !.pc = "have", !.loaded = TRUE, !.old = TRUE]
<1>2. \A d \in Client : /\ fin(d) \in CallSet /\ fin(d).call = op[d].call
                        /\ fin(d).field = op[d].field /\ fin(d).pc = "have" /\ fin(d).old
  BY <1>1 DEF CallSet
<1>3. op' = [d \in Client |-> IF op[d].pc # "load" THEN op[d]
                              ELSE IF op[d].call \in {"Get", "GetAll"} THEN NoCall ELSE fin(d)]
  BY DEF LoadFault
<1> HIDE DEF fin
<1> QED
  BY <1>1, <1>2, <1>3, NoCallIs

\* A load that is over, or that goes on to fill Redis.
LEMMA FillOp ==
    ASSUME HashTypeOK, Fill
    PROVE  /\ op' \in [Client -> CallSet] /\ AllStay
           /\ \A d \in Client : op[d].field \in Live(flight.rows) => ~op'[d].own
           /\ \/ flight.pc = "fillR" /\ UseCache /\ \A d \in Client : op'[d].pc = op[d].pc
                    /\ op'[d].keys = op[d].keys /\ op'[d].old = op[d].old
              \/ /\ \A d \in Client :
                       /\ op[d].pc # "load" => op'[d].old = op[d].old
                       /\ op[d].pc = "load" => /\ op'[d].pc = "list"
                                               /\ op'[d].keys = Live(flight.rows)
                                               /\ (op'[d].old <=> op[d].old \/ flight.bad # {})
                 /\ flight' = NoFlight
<1>1. \A d \in Client : op[d] \in CallSet
  BY DEF HashTypeOK
<1> DEFINE ops == [d \in Client |-> IF op[d].field \in Live(flight.rows)
                                    THEN [op[d] EXCEPT !.own = FALSE] ELSE op[d]]
<1>2. \A d \in Client : /\ ops[d] \in CallSet /\ ops[d].call = op[d].call /\ ops[d].pc = op[d].pc
                        /\ ops[d].field = op[d].field /\ ops[d].keys = op[d].keys
                        /\ ops[d].old = op[d].old
                        /\ ops[d].own => op[d].own /\ op[d].field \notin Live(flight.rows)
  BY ZenonT(30), <1>1 DEF CallSet
<1>3. ops \in [Client -> CallSet]
  BY <1>2
<1>4. /\ flight.pc \in {"fill", "fillR"}
      /\ op' = IF flight.pc = "fillR" /\ UseCache THEN ops ELSE Loaded(ops)
      /\ ~(flight.pc = "fillR" /\ UseCache) => flight' = NoFlight
  BY DEF Fill
<1> HIDE DEF ops
<1>5. CASE flight.pc = "fillR" /\ UseCache
  BY <1>2, <1>3, <1>4, <1>5 DEF AllStay
<1>6. CASE ~(flight.pc = "fillR" /\ UseCache)
  <2>1. op' = Loaded(ops) /\ flight' = NoFlight
    BY <1>4, <1>6
  <2> QED
    BY <1>2, <1>3, <1>4, <2>1, LoadedIs DEF AllStay
<1> QED
  BY <1>5, <1>6

\* Refill: the load is over.
LEMMA RefillOp ==
    ASSUME HashTypeOK, Refill
    PROVE  /\ op' \in [Client -> CallSet] /\ AllStay
           /\ \A d \in Client :
                 /\ op[d].pc # "load" => op'[d].old = op[d].old
                 /\ op[d].pc = "load" => /\ op'[d].pc = "list" /\ op'[d].keys = Live(flight.rows)
                                         /\ (op'[d].old <=> op[d].old \/ flight.bad # {})
<1>1. op \in [Client -> CallSet] /\ op' = Loaded(op) /\ flight.pc = "put"
  BY DEF HashTypeOK, Refill
<1> QED
  BY <1>1, LoadedIs DEF AllStay

\* PreClear: every call is old, and owns nothing that left the map.
LEMMA PreClearOp ==
    ASSUME HashTypeOK, PreClear
    PROVE  /\ op' \in [Client -> CallSet] /\ AllStay
           /\ \A d \in Client : /\ op'[d].pc = op[d].pc /\ op'[d].keys = op[d].keys
                                /\ op'[d].pc \in {"idle", "miss"} \/ op'[d].old
                                /\ op'[d].pc \notin {"idle", "miss"} /\ op'[d].own =>
                                       members = NoList \/ op'[d].field \notin members
<1>1. \A d \in Client : op[d] \in CallSet
  BY DEF HashTypeOK
<1> DEFINE gone == IF members = NoList THEN {} ELSE members
           fin(d) == [op[d] EXCEPT !.old = TRUE, !.own = @ /\ op[d].field \notin gone]
<1>2. \A d \in Client : /\ fin(d) \in CallSet /\ fin(d).call = op[d].call /\ fin(d).pc = op[d].pc
                        /\ fin(d).field = op[d].field /\ fin(d).keys = op[d].keys /\ fin(d).old
                        /\ fin(d).own => op[d].own /\ op[d].field \notin gone
  BY <1>1 DEF CallSet
<1>3. op' = [d \in Client |-> IF op[d].pc \in {"idle", "miss"} THEN op[d] ELSE fin(d)]
  BY DEF PreClear
<1> HIDE DEF fin
<1> QED
  BY <1>1, <1>2, <1>3 DEF AllStay

\* HashTypeOK holds after any step.
THEOREM HashTypeStep == HashInv /\ [HashNext]_hashVars => HashTypeOK'
<1> SUFFICES ASSUME HashInv, [HashNext]_hashVars PROVE HashTypeOK'
  OBVIOUS
<1> USE DEF HashInv
<1>1. ASSUME NEW c \in Client, NEW f \in Field, Push(c, f) PROVE HashTypeOK'
  <2>1. /\ rev' = [rev EXCEPT ![f] = @ + 1] /\ cacheMap' = [cacheMap EXCEPT ![f].val = rev'[f]]
        /\ calls' = [calls EXCEPT ![c] = @ + 1] /\ cacheMap[f] \in EntrySet
    BY <1>1 DEF Push, Starts, HashTypeOK
  <2>2. rev' \in [Field -> Nat \ {0}]
    BY <2>1 DEF HashTypeOK
  <2>3. [cacheMap[f] EXCEPT !.val = rev'[f]] \in EntrySet
    BY <2>1, <2>2 DEF EntrySet
  <2>4. cacheMap' \in [Field -> EntrySet \cup {NoEntry}] /\ calls' \in [Client -> Nat]
    BY <2>1, <2>3 DEF HashTypeOK
  <2> QED
    BY <1>1, <2>2, <2>4, PushOp DEF HashTypeOK, Push, ghosts
<1>2. ASSUME NEW c \in Client, NEW f \in Field, NEW w \in Uses[c], Begin(c, w, f) PROVE HashTypeOK'
  <2>1. rev' \in [Field -> Nat \ {0}] /\ calls' \in [Client -> Nat]
    BY <1>2 DEF Begin, Starts, HashTypeOK
  <2> QED
    BY <1>2, <2>1, BeginOp DEF HashTypeOK, Begin, ghosts, stores
<1>3. ASSUME NEW c \in Client, Load(c) PROVE HashTypeOK'
  BY <1>3, LoadOp DEF HashTypeOK, Load, ghosts, stores, NoFlight, Absent, FlightSet
<1>4. ASSUME NEW c \in Client, SetLoaded(c) PROVE HashTypeOK'
  BY <1>4, SetLoadedOp, CallFields DEF HashTypeOK, SetLoaded, stores
<1>5. ASSUME NEW c \in Client, Read(c) PROVE HashTypeOK'
  BY <1>5, ReadOp, CallFields DEF HashTypeOK, Read, stores
<1>6. ASSUME NEW c \in Client, Set(c) PROVE HashTypeOK'
  BY <1>6, SetOp, CallFields DEF HashTypeOK, Set, Entry, EntrySet
<1>7. ASSUME NEW c \in Client, Enlist(c) PROVE HashTypeOK'
  <2>1. op' \in [Client -> CallSet] /\ members' \in (SUBSET Field) \cup {NoList} /\ astray' \in BOOLEAN
    BY <1>7, EnlistOp, CallFields DEF HashTypeOK
  <2> QED
    BY <1>7, <2>1 DEF HashTypeOK, Enlist, stores
<1>8. ASSUME NEW c \in Client, WriteCache(c) PROVE HashTypeOK'
  BY <1>8, WriteCacheOp, CallFields DEF HashTypeOK, WriteCache, Put
<1>9. ASSUME NEW c \in Client, MarkUpdate(c) PROVE HashTypeOK'
  <2> DEFINE f == op[c].field
  <2>1. f \in Field /\ rev[f] \in Nat
    BY CallFields DEF HashTypeOK
  <2>2. cacheMap' \in [Field -> EntrySet \cup {NoEntry}]
    <3>1. CASE op[c].own
      <4>1. cacheMap[f] \in EntrySet
        BY <1>9, <2>1, <3>1 DEF HashTypeOK, OwnEntries, At, MarkUpdate
      <4>2. [cacheMap[f] EXCEPT !.upd = TRUE] \in EntrySet
        BY <4>1 DEF EntrySet
      <4> QED
        BY <1>9, <2>1, <4>2 DEF MarkUpdate, HashTypeOK
    <3>2. CASE ~op[c].own
      BY <1>9, <3>2 DEF MarkUpdate, HashTypeOK
    <3> QED
      BY <3>1, <3>2
  <2>3. truth' \in [Field -> Nat] /\ lost' \subseteq Field
    BY <1>9, <2>1 DEF MarkUpdate, HashTypeOK
  <2> QED
    BY <1>9, <2>2, <2>3, MarkUpdateOp DEF HashTypeOK, MarkUpdate
<1>10. ASSUME NEW c \in Client, Remove(c) PROVE HashTypeOK'
  BY <1>10, RemoveOp, CallFields DEF HashTypeOK, Remove, Absent
<1>11. ASSUME NEW c \in Client, Tomb(c) PROVE HashTypeOK'
  <2> DEFINE f == op[c].field
  <2>1. op' \in [Client -> CallSet] /\ f \in Field
    BY <1>11, TombOp, CallFields
  <2>2. Entry(Absent, TRUE, TRUE) \in EntrySet
    BY DEF Entry, EntrySet, Absent
  <2>3. cacheMap' \in [Field -> EntrySet \cup {NoEntry}]
    BY <1>11, <2>1, <2>2 DEF Tomb, HashTypeOK
  <2>4. lost' \subseteq Field
    BY <1>11, <2>1 DEF Tomb, HashTypeOK
  <2> QED
    BY <1>11, <2>1, <2>3, <2>4 DEF HashTypeOK, Tomb
<1>12. ASSUME NEW c \in Client, Relist(c) PROVE HashTypeOK'
  BY <1>12, RelistOp, CallFields DEF HashTypeOK, Relist, stores, Absent
<1>13. ASSUME LoadRedis PROVE HashTypeOK'
  BY <1>13 DEF HashTypeOK, LoadRedis, MidWrite, stores, ghosts, FlightSet
<1>14. ASSUME LoadRows PROVE HashTypeOK'
  BY <1>14 DEF HashTypeOK, LoadRows, MidWrite, Dirty, stores, ghosts, FlightSet
<1>15. ASSUME LoadFault PROVE HashTypeOK'
  <2>1. op' \in [Client -> CallSet] /\ flight' \in FlightSet
    BY <1>15, LoadFaultOp, NoFlightIs DEF LoadFault
  <2>2. failures' \in Nat
    <3>1. failures' = failures + 1
      BY <1>15 DEF LoadFault
    <3> QED
      BY <3>1 DEF HashTypeOK
  <2>3. UNCHANGED <<mode, members, clearing, cacheMap, redis, db, rev, calls, truth, astray, lost, partial>>
    BY <1>15 DEF LoadFault, stores, ghosts
  <2> QED
    BY <2>1, <2>2, <2>3 DEF HashTypeOK
<1>16. ASSUME Fill PROVE HashTypeOK'
  BY <1>16, FillOp DEF HashTypeOK, Fill, Live, Dirty, NoFlight, Absent, Entry, EntrySet, FlightSet
<1>17. ASSUME Refill PROVE HashTypeOK'
  BY <1>17, RefillOp DEF HashTypeOK, Refill, Live, NoFlight, Absent, FlightSet
<1>18. ASSUME Flush PROVE HashTypeOK'
  BY <1>18 DEF HashTypeOK, Flush, Dirty, EntrySet, ghosts
<1>19. ASSUME ClearCollect PROVE HashTypeOK'
  BY <1>19 DEF HashTypeOK, ClearCollect, stores, ghosts
<1>22. ASSUME ClearList PROVE HashTypeOK'
  <2>1. members' \in (SUBSET Field) \cup {NoList} /\ clearing' \in {"no", "doomed", "cleared"}
    BY <1>22 DEF ClearList
  <2> QED
    BY <1>22, <2>1 DEF HashTypeOK, ClearList, stores, ghosts
<1>23. ASSUME RedisExpire PROVE HashTypeOK'
  BY <1>23 DEF HashTypeOK, RedisExpire, Absent
<1>20. ASSUME PreClear PROVE HashTypeOK'
  <2>1. cacheMap' \in [Field -> EntrySet \cup {NoEntry}]
    BY <1>20 DEF HashTypeOK, PreClear
  <2>2. lost' \subseteq Field
    BY <1>20 DEF HashTypeOK, PreClear, Dirty
  <2>3. flight' \in FlightSet
    <3> DEFINE gone == IF members = NoList THEN {} ELSE members
    <3>1. gone \subseteq Field
      BY DEF HashTypeOK
    <3>2. flight' = IF flight.pc = "none" THEN flight ELSE [flight EXCEPT !.bad = @ \cup gone]
      BY <1>20 DEF PreClear
    <3> HIDE DEF gone
    <3> QED
      BY <3>1, <3>2 DEF HashTypeOK, FlightSet
  <2> QED
    BY <1>20, <2>1, <2>2, <2>3, PreClearOp DEF HashTypeOK, PreClear
<1>21. CASE UNCHANGED hashVars
  BY <1>21 DEF HashTypeOK, hashVars, stores, ghosts
<1> QED
  BY <1>1, <1>2, <1>3, <1>4, <1>5, <1>6, <1>7, <1>8, <1>9, <1>10, <1>11, <1>12, <1>13,
     <1>14, <1>15, <1>16, <1>17, <1>18, <1>19, <1>20, <1>21, <1>22, <1>23
     DEF HashNext, Loading, Calling, Timers

-----------------------------------------------------------------------------
(* Who may be changing a field *)

\* Calls that go on as they were still write what they own.
LEMMA OwnCallsOthers ==
    ASSUME HashTypeOK, OwnCalls, NEW c \in Client, OthersStay(c),
           op'[c].call \in {"Set", "Push", "Remove"} \/ op'[c].pc \in Busy => Owner[op'[c].field] = c,
           op'[c].pc \in {"tomb", "relist"} => op'[c].field \notin op'[c].keys
    PROVE  OwnCalls'
  BY DEF OwnCalls, OthersStay, At


\* OwnCalls is kept: a field is changed by its writer only.
THEOREM OwnCallsStep == HashInv /\ [HashNext]_hashVars => OwnCalls'
<1> SUFFICES ASSUME HashInv, [HashNext]_hashVars PROVE OwnCalls'
  OBVIOUS
<1>a. HashTypeOK /\ OwnCalls
  BY DEF HashInv
<1>b. \A c \in Client : /\ op[c] \in CallSet
                        /\ op[c].call \in {"Set", "Push", "Remove"} \/ op[c].pc \in Busy => Owner[op[c].field] = c
                        /\ op[c].pc \in {"tomb", "relist"} => op[c].field \notin op[c].keys
  BY <1>a DEF OwnCalls, At, HashTypeOK
<1>1. ASSUME NEW c \in Client, NEW f \in Field, Push(c, f) PROVE OwnCalls'
  <2>1. Owner[f] = c
    BY <1>1 DEF Push
  <2> QED
    BY <1>a, <1>1, <2>1, PushOp, OwnCallsOthers
<1>2. ASSUME NEW c \in Client, NEW f \in Field, NEW w \in Uses[c], Begin(c, w, f) PROVE OwnCalls'
  BY <1>a, <1>2, BeginOp, OwnCallsOthers DEF Busy
<1>3. ASSUME NEW c \in Client, Load(c) PROVE OwnCalls'
  BY <1>a, <1>b, <1>3, LoadOp, OwnCallsOthers DEF Busy
<1>4. ASSUME NEW c \in Client, SetLoaded(c) PROVE OwnCalls'
  BY <1>a, <1>b, <1>4, SetLoadedOp, OwnCallsOthers DEF Busy
<1>5. ASSUME NEW c \in Client, Read(c) PROVE OwnCalls'
  BY <1>a, <1>5, ReadOp, NoCallIs, OwnCallsOthers DEF Busy
<1>6. ASSUME NEW c \in Client, Set(c) PROVE OwnCalls'
  BY <1>a, <1>b, <1>6, SetOp, OwnCallsOthers
<1>7. ASSUME NEW c \in Client, Enlist(c) PROVE OwnCalls'
  BY <1>a, <1>b, <1>7, EnlistOp, OwnCallsOthers DEF Busy
<1>8. ASSUME NEW c \in Client, WriteCache(c) PROVE OwnCalls'
  BY <1>a, <1>b, <1>8, WriteCacheOp, OwnCallsOthers DEF Busy
<1>9. ASSUME NEW c \in Client, MarkUpdate(c) PROVE OwnCalls'
  BY <1>a, <1>9, MarkUpdateOp, NoCallIs, OwnCallsOthers DEF Busy
<1>10. ASSUME NEW c \in Client, Remove(c) PROVE OwnCalls'
  BY <1>a, <1>b, <1>10, RemoveOp, OwnCallsOthers
<1>11. ASSUME NEW c \in Client, Tomb(c) PROVE OwnCalls'
  BY <1>a, <1>b, <1>11, TombOp, OwnCallsOthers DEF Busy
<1>12. ASSUME NEW c \in Client, Relist(c) PROVE OwnCalls'
  BY <1>a, <1>12, RelistOp, NoCallIs, OwnCallsOthers DEF Busy
<1>13. ASSUME LoadFault PROVE OwnCalls'
  BY <1>a, <1>b, <1>13, LoadFaultOp, NoCallIs DEF OwnCalls, At, Busy
<1>14. ASSUME Fill PROVE OwnCalls'
  BY <1>a, <1>b, <1>14, FillOp DEF OwnCalls, At, Busy, AllStay
<1>15. ASSUME Refill PROVE OwnCalls'
  BY <1>a, <1>b, <1>15, RefillOp DEF OwnCalls, At, Busy, AllStay
<1>16. ASSUME PreClear PROVE OwnCalls'
  BY <1>a, <1>b, <1>16, PreClearOp DEF OwnCalls, At, AllStay
<1>17. CASE op' = op
  BY <1>a, <1>17 DEF OwnCalls, At
<1>18. LoadRedis \/ LoadRows \/ Flush \/ ClearCollect \/ ClearList \/ RedisExpire \/ UNCHANGED hashVars
          => op' = op
  BY DEF LoadRedis, LoadRows, Flush, ClearCollect, ClearList, RedisExpire, hashVars
<1> QED
  BY <1>1, <1>2, <1>3, <1>4, <1>5, <1>6, <1>7, <1>8, <1>9, <1>10, <1>11, <1>12, <1>13,
     <1>14, <1>15, <1>16, <1>17, <1>18
     DEF HashNext, Loading, Calling, Timers

\* A step of call c takes part in no other field's change.
LEMMA MidMoves ==
    ASSUME HashTypeOK, OwnCalls, NEW c \in Client, OthersStay(c),
           op'[c].pc \in Busy => Owner[op'[c].field] = c
    PROVE  /\ \A f \in Field : f \in MidWrite' <=>
                  (f \in MidWrite /\ Owner[f] # c) \/ (op'[c].pc \in Busy /\ op'[c].field = f)
           /\ \A f \in Field : f \in MidWrite /\ Owner[f] = c <=> op[c].pc \in Busy /\ op[c].field = f
<1>1. \A f \in Field : Owner[f] \in Client
  BY HashAssumption
<1>2. op[c].pc \in Busy => Owner[op[c].field] = c
  BY DEF OwnCalls, At
<1>3. \A f \in Field : f \in MidWrite <=> op[Owner[f]].field = f /\ op[Owner[f]].pc \in Busy
  BY DEF MidWrite, Busy
<1>4. \A f \in Field : f \in MidWrite' <=> op'[Owner[f]].field = f /\ op'[Owner[f]].pc \in Busy
  BY DEF MidWrite, Busy
<1>5. ASSUME NEW f \in Field, Owner[f] # c PROVE f \in MidWrite' <=> f \in MidWrite
  BY <1>1, <1>3, <1>4, <1>5 DEF OthersStay
<1> QED
  BY <1>1, <1>2, <1>3, <1>4, <1>5

\* A step that leaves everyone where it was at, or outside, a change.
LEMMA MidStays ==
    ASSUME \A d \in Client : /\ op'[d].field = op[d].field \/ op[d].pc \notin Busy
                             /\ op'[d].pc \in Busy <=> op[d].pc \in Busy
    PROVE  MidWrite' = MidWrite
<1>1. \A f \in Field : Owner[f] \in Client
  BY HashAssumption
<1> QED
  BY <1>1 DEF MidWrite, Busy

\* A call enters its change with Set, Push or Remove, and leaves it with the
\* last write; no other step begins or ends a change.
LEMMA MidSteps ==
    ASSUME HashInv
    PROVE  /\ \A c \in Client : (\E f \in Field : Push(c, f)) \/ Set(c) \/ Remove(c) =>
                  MidWrite' = MidWrite \cup {op'[c].field} /\ op'[c].field \notin MidWrite
           /\ \A c \in Client : MarkUpdate(c) \/ Relist(c) =>
                  MidWrite' = MidWrite \ {op[c].field} /\ op[c].field \in MidWrite
           /\ \A c \in Client : (\E f \in Field : \E w \in Uses[c] : Begin(c, w, f)) \/ Load(c)
                  \/ SetLoaded(c) \/ Read(c) \/ Enlist(c) \/ WriteCache(c) \/ Tomb(c) =>
                  MidWrite' = MidWrite
           /\ Loading \/ Timers => MidWrite' = MidWrite
<1>a. HashTypeOK /\ OwnCalls
  BY DEF HashInv
<1>b. \A c \in Client : /\ op[c] \in CallSet /\ op[c].field \in Field
                        /\ op[c].call \in {"Set", "Push", "Remove"} \/ op[c].pc \in Busy => Owner[op[c].field] = c
  BY <1>a, CallFields DEF OwnCalls, At
<1>1. ASSUME NEW c \in Client, NEW f \in Field, Push(c, f)
      PROVE  MidWrite' = MidWrite \cup {op'[c].field} /\ op'[c].field \notin MidWrite
  <2>1. Owner[f] = c
    BY <1>1 DEF Push
  <2> QED
    BY <1>a, <1>1, <2>1, PushOp, MidMoves DEF Busy, MidWrite
<1>2. ASSUME NEW c \in Client, Set(c)
      PROVE  MidWrite' = MidWrite \cup {op'[c].field} /\ op'[c].field \notin MidWrite
  BY <1>a, <1>b, <1>2, SetOp, MidMoves DEF Busy, MidWrite
<1>3. ASSUME NEW c \in Client, Remove(c)
      PROVE  MidWrite' = MidWrite \cup {op'[c].field} /\ op'[c].field \notin MidWrite
  BY <1>a, <1>b, <1>3, RemoveOp, MidMoves DEF Busy, MidWrite
<1>4. ASSUME NEW c \in Client, MarkUpdate(c)
      PROVE  MidWrite' = MidWrite \ {op[c].field} /\ op[c].field \in MidWrite
  BY <1>a, <1>b, <1>4, MarkUpdateOp, NoCallIs, MidMoves DEF Busy, MidWrite
<1>5. ASSUME NEW c \in Client, Relist(c)
      PROVE  MidWrite' = MidWrite \ {op[c].field} /\ op[c].field \in MidWrite
  BY <1>a, <1>b, <1>5, RelistOp, NoCallIs, MidMoves DEF Busy, MidWrite
<1>6. ASSUME NEW c \in Client, NEW f \in Field, NEW w \in Uses[c], Begin(c, w, f)
      PROVE  MidWrite' = MidWrite
  BY <1>a, <1>6, BeginOp, MidStays DEF Busy, OthersStay
<1>7. ASSUME NEW c \in Client, Load(c) PROVE MidWrite' = MidWrite
  BY <1>a, <1>b, <1>7, LoadOp, MidStays DEF Busy, OthersStay
<1>8. ASSUME NEW c \in Client, SetLoaded(c) PROVE MidWrite' = MidWrite
  BY <1>a, <1>b, <1>8, SetLoadedOp, MidStays DEF Busy, OthersStay
<1>9. ASSUME NEW c \in Client, Read(c) PROVE MidWrite' = MidWrite
  BY <1>a, <1>9, ReadOp, NoCallIs, MidStays DEF Busy, OthersStay
<1>10. ASSUME NEW c \in Client, Enlist(c) PROVE MidWrite' = MidWrite
  BY <1>a, <1>10, EnlistOp, MidStays DEF Busy, OthersStay
<1>11. ASSUME NEW c \in Client, WriteCache(c) PROVE MidWrite' = MidWrite
  BY <1>a, <1>b, <1>11, WriteCacheOp, MidStays DEF Busy, OthersStay
<1>12. ASSUME NEW c \in Client, Tomb(c) PROVE MidWrite' = MidWrite
  BY <1>a, <1>b, <1>12, TombOp, MidStays DEF Busy, OthersStay
<1>13. ASSUME LoadFault PROVE MidWrite' = MidWrite
  BY <1>a, <1>13, LoadFaultOp, NoCallIs, MidStays DEF Busy
<1>14. ASSUME Fill PROVE MidWrite' = MidWrite
  BY <1>a, <1>14, FillOp, MidStays DEF Busy, AllStay
<1>15. ASSUME Refill PROVE MidWrite' = MidWrite
  BY <1>a, <1>15, RefillOp, MidStays DEF Busy, AllStay
<1>16. ASSUME PreClear PROVE MidWrite' = MidWrite
  BY <1>a, <1>16, PreClearOp, MidStays DEF AllStay
<1>17. ASSUME op' = op PROVE MidWrite' = MidWrite
  BY <1>17, MidStays
<1>18. LoadRedis \/ LoadRows \/ Flush \/ ClearCollect \/ ClearList \/ RedisExpire => op' = op
  BY DEF LoadRedis, LoadRows, Flush, ClearCollect, ClearList, RedisExpire
<1>19. Loading \/ Timers => MidWrite' = MidWrite
  BY <1>13, <1>14, <1>15, <1>16, <1>17, <1>18 DEF Loading, Timers
<1> QED
  BY <1>1, <1>2, <1>3, <1>4, <1>5, <1>6, <1>7, <1>8, <1>9, <1>10, <1>11, <1>12, <1>19

-----------------------------------------------------------------------------
(* A call that owns its cacheData finds it *)

\* A step of call c that touches no field of another writer.
LEMMA OwnEntriesOthers ==
    ASSUME HashTypeOK, OwnCalls, OwnEntries, NEW c \in Client, OthersStay(c),
           \A g \in Field : Owner[g] # c => cacheMap'[g] = cacheMap[g] /\ rev'[g] = rev[g],
           op'[c].pc \in {"append", "put", "mark"} /\ op'[c].own =>
               /\ cacheMap'[op'[c].field] # NoEntry
               /\ cacheMap'[op'[c].field].val = rev'[op'[c].field]
               /\ ~cacheMap'[op'[c].field].del
    PROVE  OwnEntries'
<1> SUFFICES ASSUME NEW d \in Client, op'[d].pc \in {"append", "put", "mark"}, op'[d].own
             PROVE  /\ cacheMap'[op'[d].field] # NoEntry
                    /\ cacheMap'[op'[d].field].val = rev'[op'[d].field]
                    /\ ~cacheMap'[op'[d].field].del
  BY DEF OwnEntries, At
<1>1. CASE d = c
  BY <1>1
<1>2. CASE d # c
  <2>1. op[d].pc \in {"append", "put", "mark"} /\ op[d].own /\ op'[d].field = op[d].field
    BY <1>2 DEF OthersStay
  <2>2. Owner[op[d].field] = d /\ op[d].field \in Field
    BY <2>1, CallFields DEF OwnCalls, At, Busy
  <2> QED
    BY <1>2, <2>1, <2>2 DEF OwnEntries, At
<1> QED
  BY <1>1, <1>2

\* OwnEntries is kept: whoever puts another cacheData disowns the call.
THEOREM OwnEntriesStep == HashInv /\ [HashNext]_hashVars => OwnEntries'
<1> SUFFICES ASSUME HashInv, [HashNext]_hashVars PROVE OwnEntries'
  OBVIOUS
<1>a. HashTypeOK /\ OwnCalls /\ OwnEntries
  BY DEF HashInv
<1>b. \A c \in Client : /\ op[c].field \in Field
                        /\ op[c].call \in {"Set", "Push", "Remove"} \/ op[c].pc \in Busy => Owner[op[c].field] = c
                        /\ op[c].pc \in {"append", "put", "mark"} /\ op[c].own =>
                              /\ cacheMap[op[c].field] # NoEntry
                              /\ cacheMap[op[c].field].val = rev[op[c].field]
                              /\ ~cacheMap[op[c].field].del
  BY <1>a, CallFields DEF OwnCalls, OwnEntries, At
<1>1. ASSUME NEW c \in Client, NEW f \in Field, Push(c, f) PROVE OwnEntries'
  <2>1. /\ Owner[f] = c /\ cacheMap[f] \in EntrySet /\ ~cacheMap[f].del
        /\ rev' = [rev EXCEPT ![f] = @ + 1] /\ cacheMap' = [cacheMap EXCEPT ![f].val = rev'[f]]
    BY <1>1, <1>a DEF Push, HashTypeOK
  <2> DEFINE e == [cacheMap[f] EXCEPT !.val = rev'[f]]
  <2>2. rev'[f] \in Nat
    BY <1>a, <2>1 DEF HashTypeOK
  <2>3. e \in EntrySet /\ e.val = rev'[f] /\ ~e.del
    BY <2>1, <2>2 DEF EntrySet
  <2>4. cacheMap'[f] = e /\ \A g \in Field : g # f => cacheMap'[g] = cacheMap[g] /\ rev'[g] = rev[g]
    BY <1>a, <2>1 DEF HashTypeOK
  <2> HIDE DEF e
  <2> QED
    BY <1>a, <1>1, <2>1, <2>3, <2>4, PushOp, OwnEntriesOthers, HashAssumption
<1>2. ASSUME NEW c \in Client, NEW f \in Field, NEW w \in Uses[c], Begin(c, w, f) PROVE OwnEntries'
  <2>1. cacheMap' = cacheMap /\ \A g \in Field : Owner[g] # c => rev'[g] = rev[g]
    BY <1>2, <1>a DEF Begin, stores, HashTypeOK
  <2> QED
    BY <1>a, <1>2, <2>1, BeginOp, OwnEntriesOthers
<1>3. ASSUME NEW c \in Client, Load(c) \/ SetLoaded(c) \/ Read(c) \/ Enlist(c) \/ WriteCache(c) \/ Relist(c)
      PROVE OwnEntries'
  <2>1. cacheMap' = cacheMap /\ rev' = rev
    BY <1>3 DEF Load, SetLoaded, Read, Enlist, WriteCache, Relist, stores
  <2>2. /\ OthersStay(c)
        /\ op'[c].pc \in {"append", "put", "mark"} /\ op'[c].own =>
               op[c].pc \in {"append", "put", "mark"} /\ op[c].own /\ op'[c].field = op[c].field
    BY <1>a, <1>3, LoadOp, SetLoadedOp, ReadOp, EnlistOp, WriteCacheOp, RelistOp, NoCallIs
  <2> QED
    BY <1>a, <1>b, <2>1, <2>2, OwnEntriesOthers
<1>4. ASSUME NEW c \in Client, Set(c) PROVE OwnEntries'
  <2> DEFINE f == op[c].field
  <2>1. cacheMap' = [cacheMap EXCEPT ![f] = Entry(rev[f], FALSE, FALSE)] /\ rev' = rev
    BY <1>4 DEF Set
  <2>2. /\ Entry(rev[f], FALSE, FALSE).val = rev[f] /\ ~Entry(rev[f], FALSE, FALSE).del
        /\ Entry(rev[f], FALSE, FALSE) \in EntrySet
    BY <1>a, <1>b DEF Entry, EntrySet, HashTypeOK
  <2>3. cacheMap'[f] = Entry(rev[f], FALSE, FALSE) /\ \A g \in Field : g # f => cacheMap'[g] = cacheMap[g]
    BY <1>a, <1>b, <2>1 DEF HashTypeOK
  <2>4. OthersStay(c) /\ op'[c].field = f /\ op[c].call = "Set"
    BY <1>a, <1>4, SetOp
  <2>5. Owner[f] = c /\ \A g \in Field : Owner[g] # c => cacheMap'[g] = cacheMap[g] /\ rev'[g] = rev[g]
    BY <1>b, <2>1, <2>3, <2>4
  <2>6. Entry(rev[f], FALSE, FALSE) # NoEntry
    BY <2>2, HashAssumption
  <2> HIDE DEF f
  <2>7. /\ cacheMap'[op'[c].field] # NoEntry /\ cacheMap'[op'[c].field].val = rev'[op'[c].field]
        /\ ~cacheMap'[op'[c].field].del
    BY <2>1, <2>2, <2>3, <2>4, <2>6
  <2> QED
    BY <1>a, <2>4, <2>5, <2>7, OwnEntriesOthers
<1>5. ASSUME NEW c \in Client, MarkUpdate(c) \/ Remove(c) \/ Tomb(c) PROVE OwnEntries'
  <2>1. /\ rev' = rev /\ OthersStay(c) /\ op'[c].pc \in {"idle", "tomb", "relist"} /\ Owner[op[c].field] = c
    BY <1>a, <1>b, <1>5, MarkUpdateOp, RemoveOp, TombOp, NoCallIs DEF MarkUpdate, Remove, Tomb, Busy
  <2>2. \A g \in Field : g # op[c].field => cacheMap'[g] = cacheMap[g]
    BY <1>a, <1>5 DEF MarkUpdate, Remove, Tomb, HashTypeOK
  <2> QED
    BY <1>a, <2>1, <2>2, OwnEntriesOthers
<1>6. ASSUME LoadFault PROVE OwnEntries'
  <2>1. cacheMap' = cacheMap /\ rev' = rev
    BY <1>6 DEF LoadFault, stores
  <2> QED
    BY <1>a, <1>b, <1>6, <2>1, LoadFaultOp, NoCallIs DEF OwnEntries, At
<1>7. ASSUME Fill PROVE OwnEntries'
  <2>1. rev' = rev /\ \A g \in Field : g \notin Live(flight.rows) => cacheMap'[g] = cacheMap[g]
    BY <1>7 DEF Fill
  <2>2. \A d \in Client : op'[d].pc \in {"append", "put", "mark"} /\ op'[d].own =>
            /\ op[d].pc \in {"append", "put", "mark"} /\ op[d].own
            /\ op'[d].field = op[d].field /\ op[d].field \notin Live(flight.rows)
    BY <1>a, <1>7, FillOp DEF AllStay
  <2> QED
    BY <1>b, <2>1, <2>2 DEF OwnEntries, At
<1>8. ASSUME Refill PROVE OwnEntries'
  <2>1. rev' = rev /\ cacheMap' = cacheMap
    BY <1>8 DEF Refill
  <2>2. \A d \in Client : op'[d].pc \in {"append", "put", "mark"} /\ op'[d].own =>
            op[d].pc \in {"append", "put", "mark"} /\ op[d].own /\ op'[d].field = op[d].field
    BY <1>a, <1>8, RefillOp DEF AllStay
  <2> QED
    BY <1>b, <2>1, <2>2 DEF OwnEntries, At
<1>9. ASSUME PreClear PROVE OwnEntries'
  <2>1. rev' = rev /\ \A g \in Field : members = NoList \/ g \notin members => cacheMap'[g] = cacheMap[g]
    BY <1>9 DEF PreClear
  <2>2. \A d \in Client : op'[d].pc \in {"append", "put", "mark"} /\ op'[d].own =>
            /\ op[d].pc \in {"append", "put", "mark"} /\ op[d].own /\ op'[d].field = op[d].field
            /\ members = NoList \/ op[d].field \notin members
    BY <1>a, <1>9, PreClearOp DEF AllStay
  <2> QED
    BY <1>b, <2>1, <2>2 DEF OwnEntries, At
<1>10. ASSUME Flush PROVE OwnEntries'
  <2>1. rev' = rev /\ op' = op
    BY <1>10 DEF Flush
  <2>2. \A g \in Field : /\ cacheMap[g] # NoEntry => cacheMap'[g] # NoEntry
                         /\ cacheMap[g] # NoEntry =>
                                cacheMap'[g].val = cacheMap[g].val /\ cacheMap'[g].del = cacheMap[g].del
    <3> TAKE g \in Field
    <3>1. CASE g \in Dirty
      <4>1. cacheMap[g] \in EntrySet /\ cacheMap'[g] = [cacheMap[g] EXCEPT !.upd = FALSE]
        BY <1>10, <1>a, <3>1 DEF Flush, Dirty, HashTypeOK
      <4>2. [cacheMap[g] EXCEPT !.upd = FALSE] \in EntrySet
        BY <4>1 DEF EntrySet
      <4> QED
        BY <4>1, <4>2, HashAssumption DEF EntrySet
    <3>2. CASE g \notin Dirty
      BY <1>10, <3>2 DEF Flush
    <3> QED
      BY <3>1, <3>2
  <2> QED
    BY <1>b, <2>1, <2>2 DEF OwnEntries, At
<1>11. ASSUME op' = op, cacheMap' = cacheMap, rev' = rev PROVE OwnEntries'
  BY <1>a, <1>11 DEF OwnEntries, At
<1>12. LoadRedis \/ LoadRows \/ ClearCollect \/ ClearList \/ RedisExpire \/ UNCHANGED hashVars
          => op' = op /\ cacheMap' = cacheMap /\ rev' = rev
  BY DEF LoadRedis, LoadRows, ClearCollect, ClearList, RedisExpire, hashVars, stores
<1> QED
  BY <1>1, <1>2, <1>3, <1>4, <1>5, <1>6, <1>7, <1>8, <1>9, <1>10, <1>11, <1>12
     DEF HashNext, Loading, Calling, Timers

-----------------------------------------------------------------------------
(* Map and MySQL hold what the last finished call left *)

\* A step that changes no truth and loses no field that does not stand.
LEMMA SettledKept ==
    ASSUME HashInv, mode' = mode, truth' = truth, MidWrite' = MidWrite, lost \subseteq lost',
           \A g \in Field \ lost' : \A v : Stands(cacheMap[g], db[g], Longevity, v) =>
               Stands(cacheMap'[g], db'[g], Longevity, v),
           \A d \in Client : op'[d].pc = "relist" => op[d].pc = "relist" /\ op'[d].field = op[d].field
    PROVE  Settled'
<1>1. Longevity' = Longevity
  BY DEF Longevity
<1>2. \A d \in Client : op[d].field \in Field
  BY CallFields DEF HashInv
<1> QED
  BY <1>1, <1>2 DEF HashInv, Settled, At

\* A call c that begins to change a field.
LEMMA SettledEnter ==
    ASSUME HashInv, NEW c \in Client, OthersStay(c), mode' = mode, truth' = truth, db' = db,
           op'[c].pc \in Busy \ {"relist"}, Owner[op'[c].field] = c,
           MidWrite' = MidWrite \cup {op'[c].field}, lost \ {op'[c].field} \subseteq lost',
           \A g \in Field : g # op'[c].field => cacheMap'[g] = cacheMap[g]
    PROVE  Settled'
<1>1. Longevity' = Longevity
  BY DEF Longevity
<1>2. \A d \in Client : d # c /\ op[d].pc = "relist" => op[d].field \in Field /\ op[d].field # op'[c].field
  BY CallFields DEF HashInv, OwnCalls, At, Busy
<1>3. \A d \in Client : op'[d].pc = "relist" => d # c /\ op[d].pc = "relist" /\ op'[d].field = op[d].field
  BY DEF OthersStay
<1> QED
  BY <1>1, <1>2, <1>3 DEF HashInv, Settled, At

\* A call c that ends its change of a field, which stands.
LEMMA SettledLeave ==
    ASSUME HashInv, NEW c \in Client, OthersStay(c), mode' = mode, db' = db,
           op'[c].pc = "idle", MidWrite' = MidWrite \ {op[c].field}, lost \subseteq lost',
           op[c].field \in Field, Owner[op[c].field] = c,
           \A g \in Field : g # op[c].field => cacheMap'[g] = cacheMap[g] /\ truth'[g] = truth[g],
           op[c].field \notin lost' =>
               Stands(cacheMap'[op[c].field], db[op[c].field], Longevity, truth'[op[c].field])
    PROVE  Settled'
<1>1. Longevity' = Longevity
  BY DEF Longevity
<1>2. \A d \in Client : d # c /\ op[d].pc = "relist" => op[d].field \in Field /\ op[d].field # op[c].field
  BY CallFields DEF HashInv, OwnCalls, At, Busy
<1>3. \A d \in Client : op'[d].pc = "relist" => d # c /\ op[d].pc = "relist" /\ op'[d].field = op[d].field
  BY DEF OthersStay
<1> QED
  BY <1>1, <1>2, <1>3 DEF HashInv, Settled, At

\* Settled is kept: map and MySQL agree with what the last call left.
THEOREM SettledStep == HashInv /\ [HashNext]_hashVars => Settled'
<1> SUFFICES ASSUME HashInv, [HashNext]_hashVars PROVE Settled'
  OBVIOUS
<1>a. HashTypeOK /\ OwnCalls /\ OwnEntries /\ Settled /\ Flight
  BY DEF HashInv
<1>b. \A c \in Client : /\ op[c].field \in Field
                        /\ op[c].call \in {"Set", "Push", "Remove"} \/ op[c].pc \in Busy => Owner[op[c].field] = c
  BY <1>a, CallFields DEF OwnCalls, At
<1>1. ASSUME NEW c \in Client, NEW f \in Field, Push(c, f) PROVE Settled'
  <2>1. /\ Owner[f] = c /\ mode' = mode /\ truth' = truth /\ db' = db /\ lost' = lost
        /\ \A g \in Field : g # f => cacheMap'[g] = cacheMap[g]
    BY <1>1, <1>a DEF Push, ghosts, HashTypeOK
  <2>2. MidWrite' = MidWrite \cup {op'[c].field}
    BY <1>1, MidSteps
  <2> QED
    BY <1>a, <1>1, <2>1, <2>2, PushOp, SettledEnter DEF Busy
<1>2. ASSUME NEW c \in Client, Set(c) PROVE Settled'
  <2>1. /\ mode' = mode /\ truth' = truth /\ db' = db /\ lost' = lost \ {op[c].field}
        /\ \A g \in Field : g # op[c].field => cacheMap'[g] = cacheMap[g]
    BY <1>2, <1>a, <1>b DEF Set, HashTypeOK
  <2>2. MidWrite' = MidWrite \cup {op'[c].field}
    BY <1>2, MidSteps
  <2>3. OthersStay(c) /\ op'[c].pc = "append" /\ op'[c].field = op[c].field /\ Owner[op[c].field] = c
    BY <1>a, <1>b, <1>2, SetOp
  <2> QED
    BY <2>1, <2>2, <2>3, SettledEnter DEF Busy
<1>3. ASSUME NEW c \in Client, Remove(c) PROVE Settled'
  <2>1. mode' = mode /\ truth' = truth /\ db' = db /\ lost' = lost \ {op[c].field} /\ cacheMap' = cacheMap
    BY <1>3 DEF Remove
  <2>2. MidWrite' = MidWrite \cup {op'[c].field}
    BY <1>3, MidSteps
  <2>3. OthersStay(c) /\ op'[c].pc = "tomb" /\ op'[c].field = op[c].field /\ Owner[op[c].field] = c
    BY <1>a, <1>b, <1>3, RemoveOp
  <2> QED
    BY <2>1, <2>2, <2>3, SettledEnter DEF Busy
<1>4. ASSUME NEW c \in Client, MarkUpdate(c) PROVE Settled'
  <2> DEFINE f == op[c].field
  <2>0. op[c].pc = "mark" /\ op'[c].pc = "idle" /\ OthersStay(c) /\ f \in Field /\ Owner[f] = c
    BY <1>a, <1>b, <1>4, MarkUpdateOp, NoCallIs DEF Busy
  <2>1. /\ mode' = mode /\ db' = db
        /\ lost' = IF op[c].own THEN lost ELSE lost \cup {f}
        /\ truth'[f] = rev[f] /\ rev[f] \in Nat \ {0}
        /\ \A g \in Field : g # f => cacheMap'[g] = cacheMap[g] /\ truth'[g] = truth[g]
    BY <1>4, <1>a, <1>b DEF MarkUpdate, HashTypeOK
  <2>2. MidWrite' = MidWrite \ {f}
    BY <1>4, MidSteps
  <2>3. ASSUME f \notin lost' PROVE Stands(cacheMap'[f], db[f], Longevity, truth'[f])
    <3>1. op[c].own /\ cacheMap[f] # NoEntry /\ cacheMap[f].val = rev[f] /\ ~cacheMap[f].del
      BY <1>a, <2>0, <2>1, <2>3 DEF OwnEntries, At
    <3>2. cacheMap[f] \in EntrySet
      BY <1>a, <2>0, <3>1 DEF HashTypeOK
    <3>3. CASE Longevity
      <4> DEFINE e == [cacheMap[f] EXCEPT !.upd = TRUE]
      <4>1. cacheMap'[f] = e
        BY <1>4, <1>a, <2>0, <3>1, <3>3 DEF MarkUpdate, HashTypeOK
      <4>2. e.val = rev[f] /\ ~e.del /\ e.upd /\ e \in EntrySet
        BY <3>1, <3>2 DEF EntrySet
      <4>3. e # NoEntry
        BY <4>2, HashAssumption
      <4> HIDE DEF e
      <4> QED
        BY <2>1, <4>1, <4>2, <4>3 DEF Stands, Absent
    <3>4. CASE ~Longevity
      <4>1. cacheMap' = cacheMap
        BY <1>4, <3>4 DEF MarkUpdate
      <4> QED
        BY <2>1, <3>1, <3>4, <4>1 DEF Stands, Absent
    <3> QED
      BY <3>3, <3>4
  <2> HIDE DEF f
  <2>4. lost \subseteq lost'
    BY <2>1
  <2> QED
    BY <2>0, <2>1, <2>2, <2>3, <2>4, SettledLeave DEF f
<1>5. ASSUME NEW c \in Client, Tomb(c) PROVE Settled'
  <2> DEFINE f == op[c].field
  <2>0. /\ op'[c].pc = "relist" /\ op'[c].field = f /\ \A d \in Client \ {c} : op'[d] = op[d]
        /\ f \in Field /\ Owner[f] = c /\ op[c].pc = "tomb"
    BY <1>a, <1>b, <1>5, TombOp DEF Busy
  <2>1. /\ mode' = mode /\ db' = db /\ truth' = truth
        /\ lost' = IF cacheMap[f] = NoEntry /\ db[f] # Absent THEN lost \cup {f} ELSE lost
        /\ cacheMap' = IF ~Longevity THEN [cacheMap EXCEPT ![f] = NoEntry]
                       ELSE IF cacheMap[f] = NoEntry THEN cacheMap
                       ELSE [cacheMap EXCEPT ![f] = Entry(Absent, TRUE, TRUE)]
    BY <1>5 DEF Tomb
  <2>2. MidWrite' = MidWrite /\ f \in MidWrite
    BY <1>5, <2>0, MidSteps DEF MidWrite
  <2>3. ASSUME f \notin lost' PROVE Stands(cacheMap'[f], db[f], Longevity, Absent)
    <3>1. Entry(Absent, TRUE, TRUE).val = Absent /\ Entry(Absent, TRUE, TRUE).del /\ Entry(Absent, TRUE, TRUE).upd
      BY DEF Entry
    <3>2. CASE ~Longevity
      BY <1>a, <2>0, <2>1, <3>2 DEF Stands, HashTypeOK
    <3>3. CASE Longevity /\ cacheMap[f] = NoEntry
      BY <2>1, <2>3, <3>3 DEF Stands
    <3>4. CASE Longevity /\ cacheMap[f] # NoEntry
      <4>1. cacheMap'[f] = Entry(Absent, TRUE, TRUE)
        BY <1>a, <2>0, <2>1, <3>4 DEF HashTypeOK
      <4>2. Entry(Absent, TRUE, TRUE) # NoEntry
        <5>1. Entry(Absent, TRUE, TRUE) \in EntrySet
          BY DEF Entry, EntrySet, Absent
        <5> QED
          BY <5>1, HashAssumption
      <4> QED
        BY <3>1, <4>1, <4>2 DEF Stands
    <3> QED
      BY <3>2, <3>3, <3>4
  <2>4. \A g \in Field : g # f => cacheMap'[g] = cacheMap[g]
    BY <1>a, <2>1 DEF HashTypeOK
  <2>5. Longevity' = Longevity /\ lost \subseteq lost'
    BY <2>1 DEF Longevity
  <2>6. \A g \in Field : g \notin lost' /\ g \notin MidWrite' =>
            Stands(cacheMap'[g], db'[g], Longevity', truth'[g])
    BY <1>a, <2>1, <2>2, <2>4, <2>5 DEF Settled
  <2>7. ASSUME NEW d \in Client, op'[d].pc = "relist", op'[d].field \notin lost'
        PROVE  Stands(cacheMap'[op'[d].field], db'[op'[d].field], Longevity', Absent)
    <3>1. CASE d = c
      BY <2>0, <2>1, <2>3, <2>5, <2>7, <3>1
    <3>2. CASE d # c
      <4>1. op[d].pc = "relist" /\ op'[d].field = op[d].field
        BY <2>0, <2>7, <3>2
      <4>2. op[d].field \in Field /\ op[d].field # f
        BY <1>b, <2>0, <3>2, <4>1 DEF Busy
      <4> QED
        BY <1>a, <2>1, <2>4, <2>5, <2>7, <4>1, <4>2 DEF Settled, At
    <3> QED
      BY <3>1, <3>2
  <2> QED
    BY <2>6, <2>7 DEF Settled, At
<1>6. ASSUME NEW c \in Client, Relist(c) PROVE Settled'
  <2> DEFINE f == op[c].field
  <2>0. op[c].pc = "relist" /\ op'[c].pc = "idle" /\ OthersStay(c) /\ f \in Field /\ Owner[f] = c
    BY <1>a, <1>b, <1>6, RelistOp, NoCallIs DEF Busy
  <2>1. /\ mode' = mode /\ db' = db /\ lost' = lost /\ cacheMap' = cacheMap
        /\ truth'[f] = Absent /\ \A g \in Field : g # f => truth'[g] = truth[g]
    BY <1>6, <1>a, <1>b DEF Relist, stores, HashTypeOK
  <2>2. MidWrite' = MidWrite \ {f}
    BY <1>6, MidSteps
  <2>3. f \notin lost' => Stands(cacheMap'[f], db[f], Longevity, truth'[f])
    BY <1>a, <2>0, <2>1 DEF Settled, At
  <2> QED
    BY <2>0, <2>1, <2>2, <2>3, SettledLeave
<1>7. ASSUME NEW c \in Client, NEW f \in Field, NEW w \in Uses[c], Begin(c, w, f) PROVE Settled'
  <2>1. mode' = mode /\ truth' = truth /\ lost' = lost /\ cacheMap' = cacheMap /\ db' = db
    BY <1>7 DEF Begin, stores, ghosts
  <2>2. MidWrite' = MidWrite
    BY <1>7, MidSteps
  <2>3. \A d \in Client : op'[d].pc = "relist" => op[d].pc = "relist" /\ op'[d].field = op[d].field
    BY <1>a, <1>7, BeginOp
  <2> QED
    BY <2>1, <2>2, <2>3, SettledKept
<1>8. ASSUME NEW c \in Client, Load(c) \/ SetLoaded(c) \/ Read(c) \/ Enlist(c) \/ WriteCache(c) PROVE Settled'
  <2>1. mode' = mode /\ truth' = truth /\ lost' = lost /\ cacheMap' = cacheMap /\ db' = db
    BY <1>8 DEF Load, SetLoaded, Read, Enlist, WriteCache, stores, ghosts
  <2>2. MidWrite' = MidWrite
    BY <1>8, MidSteps
  <2>3. \A d \in Client : op'[d].pc = "relist" => op[d].pc = "relist" /\ op'[d].field = op[d].field
    BY <1>a, <1>8, LoadOp, SetLoadedOp, ReadOp, EnlistOp, WriteCacheOp, NoCallIs DEF OthersStay
  <2> QED
    BY <2>1, <2>2, <2>3, SettledKept
<1>9. ASSUME Loading \/ Timers PROVE mode' = mode /\ truth' = truth /\ MidWrite' = MidWrite /\ lost \subseteq lost'
  BY <1>9, MidSteps DEF Loading, Timers, LoadRedis, LoadRows, LoadFault, Fill, Refill, Flush,
     ClearCollect, PreClear, ClearList, RedisExpire, ghosts
<1>10. ASSUME Fill PROVE Settled'
  <2> DEFINE rows == flight.rows
  <2>1. /\ mode' = mode /\ truth' = truth /\ db' = db /\ lost' = lost \cup (Live(rows) \cap (Dirty \cup flight.bad))
        /\ \A g \in Field : cacheMap'[g] = IF g \in Live(rows) THEN Entry(rows[g], FALSE, FALSE) ELSE cacheMap[g]
        /\ flight.pc \in {"fill", "fillR"}
    BY <1>10 DEF Fill
  <2>2. /\ MidWrite \subseteq flight.bad
        /\ \A f \in Field : f \notin flight.bad /\ f \notin lost => rows[f] = truth[f]
    BY <1>a, <2>1 DEF Flight
  <2>3. MidWrite' = MidWrite /\ Longevity' = Longevity
    BY <1>10, <2>1, MidSteps DEF Loading, Longevity
  <2>4. ASSUME NEW g \in Field, g \notin lost', g \notin MidWrite'
        PROVE  Stands(cacheMap'[g], db'[g], Longevity', truth'[g])
    <3>1. Stands(cacheMap[g], db[g], Longevity, truth[g])
      BY <1>a, <2>1, <2>3, <2>4 DEF Settled
    <3>2. CASE g \in Live(rows)
      <4>1. rows[g] # Absent /\ g \notin Dirty /\ g \notin flight.bad /\ g \notin lost
        BY <2>1, <2>4, <3>2 DEF Live
      <4>2. rows[g] = truth[g]
        BY <2>2, <4>1
      <4>3. /\ Entry(rows[g], FALSE, FALSE).val = rows[g] /\ ~Entry(rows[g], FALSE, FALSE).del
            /\ ~Entry(rows[g], FALSE, FALSE).upd
        BY DEF Entry
      <4>4. Longevity => db[g] = truth[g]
        BY <3>1, <4>1 DEF Stands, Dirty
      <4> QED
        BY <2>1, <2>3, <3>2, <4>1, <4>2, <4>3, <4>4 DEF Stands
    <3>3. CASE g \notin Live(rows)
      BY <2>1, <2>3, <3>1, <3>3
    <3> QED
      BY <3>2, <3>3
  <2>5. ASSUME NEW d \in Client, op'[d].pc = "relist", op'[d].field \notin lost'
        PROVE  Stands(cacheMap'[op'[d].field], db'[op'[d].field], Longevity', Absent)
    <3>1. op[d].pc = "relist" /\ op'[d].field = op[d].field
      BY <1>a, <1>10, <2>5, FillOp DEF AllStay
    <3>2. op[d].field \in Field /\ op[d].field \in MidWrite
      BY <1>b, <3>1 DEF MidWrite, Busy
    <3>3. op[d].field \notin Live(rows) /\ op[d].field \notin lost
      BY <2>1, <2>2, <2>5, <3>1, <3>2
    <3> QED
      BY <1>a, <2>1, <2>3, <3>1, <3>2, <3>3 DEF Settled, At
  <2> QED
    BY <2>4, <2>5 DEF Settled, At
<1>11. ASSUME Flush PROVE Settled'
  <2>1. op' = op /\ lost' = lost
    BY <1>11 DEF Flush, ghosts
  <2>2. ASSUME NEW g \in Field \ lost', NEW v, Stands(cacheMap[g], db[g], Longevity, v)
        PROVE  Stands(cacheMap'[g], db'[g], Longevity, v)
    <3>1. CASE g \in Dirty
      <4> DEFINE e == [cacheMap[g] EXCEPT !.upd = FALSE]
      <4>1. cacheMap[g] \in EntrySet /\ cacheMap'[g] = e /\ db'[g] = cacheMap[g].val /\ cacheMap[g] # NoEntry
        BY <1>11, <1>a, <3>1 DEF Flush, Dirty, HashTypeOK
      <4>2. e.val = cacheMap[g].val /\ e.del = cacheMap[g].del
        BY <4>1 DEF EntrySet
      <4> HIDE DEF e
      <4> QED
        BY <2>2, <4>1, <4>2 DEF Stands
    <3>2. CASE g \notin Dirty
      BY <1>11, <2>2, <3>2 DEF Flush
    <3> QED
      BY <3>1, <3>2
  <2> QED
    BY <1>9, <1>11, <2>1, <2>2, SettledKept DEF Timers
<1>12. ASSUME PreClear PROVE Settled'
  <2>1. ASSUME NEW g \in Field \ lost', NEW v, Stands(cacheMap[g], db[g], Longevity, v)
        PROVE  Stands(cacheMap'[g], db'[g], Longevity, v)
    <3> DEFINE gone == IF members = NoList THEN {} ELSE members
    <3>1. /\ cacheMap'[g] = IF g \in gone THEN NoEntry ELSE cacheMap[g]
          /\ lost' = lost \cup (gone \cap Dirty) /\ db' = db
      BY <1>12 DEF PreClear
    <3> HIDE DEF gone
    <3>2. CASE g \in gone
      BY <2>1, <3>1, <3>2 DEF Stands, Dirty
    <3>3. CASE g \notin gone
      BY <2>1, <3>1, <3>3
    <3> QED
      BY <3>2, <3>3
  <2>2. \A d \in Client : op'[d].pc = "relist" => op[d].pc = "relist" /\ op'[d].field = op[d].field
    BY <1>a, <1>12, PreClearOp DEF AllStay
  <2> QED
    BY <1>9, <1>12, <2>1, <2>2, SettledKept DEF Timers
<1>13. ASSUME LoadRedis \/ LoadRows \/ LoadFault \/ Refill \/ ClearCollect \/ ClearList \/ RedisExpire PROVE Settled'
  <2>1. cacheMap' = cacheMap /\ db' = db
    BY <1>13 DEF LoadRedis, LoadRows, LoadFault, Refill, ClearCollect, ClearList, RedisExpire, stores
  <2>2. \A d \in Client : op'[d].pc = "relist" => op[d].pc = "relist" /\ op'[d].field = op[d].field
    <3>1. CASE LoadFault
      BY <1>a, <3>1, LoadFaultOp, NoCallIs
    <3>2. CASE Refill
      BY <1>a, <3>2, RefillOp DEF AllStay
    <3>3. CASE op' = op
      BY <3>3
    <3> QED
      BY <1>13, <3>1, <3>2, <3>3 DEF LoadRedis, LoadRows, ClearCollect, ClearList, RedisExpire
  <2> QED
    BY <1>9, <1>13, <2>1, <2>2, SettledKept DEF Loading, Timers
<1>14. CASE UNCHANGED hashVars
  BY <1>a, <1>14 DEF Settled, At, hashVars, stores, ghosts, Longevity, MidWrite
<1> QED
  BY <1>1, <1>2, <1>3, <1>4, <1>5, <1>6, <1>7, <1>8, <1>10, <1>11, <1>12, <1>13, <1>14
     DEF HashNext, Loading, Calling, Timers

-----------------------------------------------------------------------------
(* Redis holds what the last finished call left, or part of the hash *)

\* A step that leaves Redis and the truth alone.
LEMMA CachedKept ==
    ASSUME HashInv, mode' = mode, truth' = truth, redis' = redis, partial' = partial,
           MidWrite' = MidWrite, lost \subseteq lost',
           \A d \in Client :
               /\ op'[d].pc = "mark" => /\ op[d].pc = "mark" /\ op'[d].field = op[d].field
                                        /\ rev'[op[d].field] = rev[op[d].field]
               /\ op'[d].pc \in {"tomb", "relist"} =>
                      op[d].pc \in {"tomb", "relist"} /\ op'[d].field = op[d].field
    PROVE  Cached'
<1>1. (Longevity' <=> Longevity) /\ (UseCache' <=> UseCache) /\ (Whole' <=> Whole)
  BY DEF Longevity, UseCache, Whole, Live
<1> QED
  BY <1>1 DEF HashInv, Cached, At

\* A step of call c that changes Redis, and the truth, at its own field only.
LEMMA CachedOwn ==
    ASSUME HashInv, NEW c \in Client, OthersStay(c), NEW f \in Field, Owner[f] = c, mode' = mode,
           partial' => Longevity \/ partial, MidWrite \ {f} \subseteq MidWrite', lost \ {f} \subseteq lost',
           \A g \in Field : g # f => truth'[g] = truth[g] /\ redis'[g] = redis[g],
           \A g \in Field : Owner[g] # c => rev'[g] = rev[g],
           UseCache /\ Whole' => Whole,
           UseCache /\ Whole' /\ f \notin lost' /\ f \notin MidWrite' => redis'[f] = truth'[f],
           op'[c].pc \in {"mark", "tomb", "relist"} => op'[c].field = f,
           UseCache /\ f \notin lost' =>
               /\ op'[c].pc = "mark" /\ Whole' => redis'[f] = rev'[f]
               /\ op'[c].pc \in {"tomb", "relist"} => redis'[f] = Absent
    PROVE  Cached'
<1>1. (Longevity' <=> Longevity) /\ (UseCache' <=> UseCache)
  BY DEF Longevity, UseCache
<1>2. \A d \in Client : d # c /\ op'[d].pc \in {"mark", "tomb", "relist"} =>
          /\ op[d].pc = op'[d].pc /\ op'[d].field = op[d].field /\ op[d].field \in Field
          /\ op[d].field # f /\ Owner[op[d].field] # c
  <2> SUFFICES ASSUME NEW d \in Client, d # c, op'[d].pc \in {"mark", "tomb", "relist"}
               PROVE  /\ op[d].pc = op'[d].pc /\ op'[d].field = op[d].field /\ op[d].field \in Field
                      /\ op[d].field # f /\ Owner[op[d].field] # c
    OBVIOUS
  <2>1. op[d].pc = op'[d].pc /\ op'[d].field = op[d].field
    BY DEF OthersStay
  <2>2. Owner[op[d].field] = d /\ op[d].field \in Field
    BY <2>1, CallFields DEF HashInv, OwnCalls, At, Busy
  <2> QED
    BY <2>1, <2>2
<1>3. ~Longevity' => ~partial'
  BY <1>1 DEF HashInv, Cached
<1>4. UseCache' /\ Whole' => \A g \in Field : g \notin lost' /\ g \notin MidWrite' => redis'[g] = truth'[g]
  BY <1>1 DEF HashInv, Cached
<1>5. ASSUME NEW d \in Client, UseCache', op'[d].field \notin lost'
      PROVE  /\ op'[d].pc = "mark" /\ Whole' => redis'[op'[d].field] = rev'[op'[d].field]
             /\ op'[d].pc \in {"tomb", "relist"} => redis'[op'[d].field] = Absent
  <2>1. CASE d = c
    BY <1>1, <1>5, <2>1
  <2>2. CASE d # c
    BY <1>1, <1>2, <1>5, <2>2 DEF HashInv, Cached, At
  <2> QED
    BY <2>1, <2>2
<1> QED
  BY <1>3, <1>4, <1>5 DEF Cached, At

\* Cached is kept: a whole Redis hash agrees with what the last call left.
THEOREM CachedStep == HashInv /\ [HashNext]_hashVars => Cached'
<1> SUFFICES ASSUME HashInv, [HashNext]_hashVars PROVE Cached'
  OBVIOUS
<1>a. HashTypeOK /\ OwnCalls /\ Cached /\ Flight
  BY DEF HashInv
<1>b. \A c \in Client : /\ op[c].field \in Field
                        /\ op[c].call \in {"Set", "Push", "Remove"} \/ op[c].pc \in Busy => Owner[op[c].field] = c
  BY <1>a, CallFields DEF OwnCalls, At
<1>c. ASSUME mode' = mode, redis' = redis, partial' = partial
      PROVE  (UseCache' <=> UseCache) /\ (Whole' <=> Whole) /\ (Longevity' <=> Longevity)
  BY <1>c DEF Whole, Live, Longevity, UseCache
<1>1. ASSUME NEW c \in Client, NEW f \in Field, Push(c, f) PROVE Cached'
  <2>1. /\ Owner[f] = c /\ mode' = mode /\ truth' = truth /\ redis' = redis /\ partial' = partial /\ lost' = lost
        /\ \A g \in Field : Owner[g] # c => rev'[g] = rev[g]
    BY <1>1, <1>a DEF Push, ghosts, HashTypeOK
  <2>2. MidWrite' = MidWrite \cup {f}
    BY <1>a, <1>1, PushOp, MidSteps
  <2> QED
    BY <1>a, <1>c, <1>1, <2>1, <2>2, PushOp, CachedOwn
<1>2. ASSUME NEW c \in Client, Set(c) PROVE Cached'
  <2>1. /\ mode' = mode /\ truth' = truth /\ redis' = redis /\ partial' = partial /\ rev' = rev
        /\ lost' = lost \ {op[c].field}
    BY <1>2 DEF Set
  <2>2. /\ OthersStay(c) /\ op'[c].pc = "append" /\ op'[c].field = op[c].field
        /\ Owner[op[c].field] = c /\ op[c].field \in Field
    BY <1>a, <1>b, <1>2, SetOp
  <2>3. MidWrite' = MidWrite \cup {op[c].field}
    BY <1>2, <2>2, MidSteps
  <2> QED
    BY <1>a, <1>c, <2>1, <2>2, <2>3, CachedOwn
<1>3. ASSUME NEW c \in Client, Remove(c) PROVE Cached'
  <2> DEFINE f == op[c].field
  <2>1. /\ mode' = mode /\ truth' = truth /\ partial' = partial /\ rev' = rev
        /\ lost' = lost \ {f} /\ redis' = IF UseCache THEN [redis EXCEPT ![f] = Absent] ELSE redis
    BY <1>3 DEF Remove
  <2>2. /\ OthersStay(c) /\ op'[c].pc = "tomb" /\ op'[c].field = f
        /\ Owner[f] = c /\ f \in Field
    BY <1>a, <1>b, <1>3, RemoveOp
  <2>3. MidWrite' = MidWrite \cup {f}
    BY <1>3, <2>2, MidSteps
  <2>4. /\ \A g \in Field : g # f => redis'[g] = redis[g]
        /\ UseCache => redis'[f] = Absent
    BY <1>a, <2>1, <2>2 DEF HashTypeOK
  <2>5. UseCache /\ Whole' => Whole
    BY <2>1, <2>4 DEF Whole, Live, Longevity
  <2> HIDE DEF f
  <2> QED
    BY <2>1, <2>2, <2>3, <2>4, <2>5, CachedOwn
<1>4. ASSUME NEW c \in Client, MarkUpdate(c) PROVE Cached'
  <2> DEFINE f == op[c].field
  <2>1. /\ mode' = mode /\ partial' = partial /\ rev' = rev /\ redis' = redis /\ lost \subseteq lost'
        /\ truth'[f] = rev[f] /\ \A g \in Field : g # f => truth'[g] = truth[g]
    BY <1>4, <1>a, <1>b DEF MarkUpdate, HashTypeOK
  <2>2. /\ OthersStay(c) /\ op'[c].pc = "idle" /\ Owner[f] = c /\ f \in Field /\ op[c].pc = "mark"
    BY <1>a, <1>b, <1>4, MarkUpdateOp, NoCallIs DEF Busy
  <2>3. MidWrite' = MidWrite \ {f}
    BY <1>4, <2>2, MidSteps
  <2>4. UseCache /\ Whole /\ f \notin lost => redis[f] = rev[f]
    BY <1>a, <2>2 DEF Cached, At
  <2> HIDE DEF f
  <2> QED
    BY <1>c, <2>1, <2>2, <2>3, <2>4, CachedOwn
<1>5. ASSUME NEW c \in Client, Relist(c) PROVE Cached'
  <2> DEFINE f == op[c].field
  <2>1. /\ mode' = mode /\ partial' = partial /\ rev' = rev /\ redis' = redis /\ lost' = lost
        /\ truth'[f] = Absent /\ \A g \in Field : g # f => truth'[g] = truth[g]
    BY <1>5, <1>a, <1>b DEF Relist, stores, HashTypeOK
  <2>2. /\ OthersStay(c) /\ op'[c].pc = "idle" /\ Owner[f] = c /\ f \in Field /\ op[c].pc = "relist"
    BY <1>a, <1>b, <1>5, RelistOp, NoCallIs DEF Busy
  <2>3. MidWrite' = MidWrite \ {f}
    BY <1>5, <2>2, MidSteps
  <2>4. UseCache /\ f \notin lost => redis[f] = Absent
    BY <1>a, <2>2 DEF Cached, At
  <2> HIDE DEF f
  <2> QED
    BY <1>c, <2>1, <2>2, <2>3, <2>4, CachedOwn
<1>6. ASSUME NEW c \in Client, Tomb(c) PROVE Cached'
  <2>1. /\ mode' = mode /\ partial' = partial /\ rev' = rev /\ redis' = redis /\ lost \subseteq lost'
        /\ truth' = truth
    BY <1>6 DEF Tomb
  <2>2. MidWrite' = MidWrite
    BY <1>6, MidSteps
  <2> QED
    BY <1>a, <1>6, <2>1, <2>2, TombOp, CachedKept DEF OthersStay
<1>7. ASSUME NEW c \in Client, WriteCache(c) PROVE Cached'
  <2> DEFINE f == op[c].field
  <2>1. /\ mode' = mode /\ rev' = rev /\ lost' = lost /\ truth' = truth
        /\ redis' = IF UseCache THEN [redis EXCEPT ![f] = rev[f]] ELSE redis
        /\ partial' = (partial \/ (UseCache /\ Longevity /\ Live(redis) = {}
                                     /\ (Live(truth) \cup MidWrite) \ {f} # {}))
    BY <1>7 DEF WriteCache, Put
  <2>2. /\ OthersStay(c) /\ op'[c].pc = "mark" /\ op'[c].field = f /\ Owner[f] = c /\ f \in Field
        /\ op[c].pc = "put"
    BY <1>a, <1>b, <1>7, WriteCacheOp DEF Busy
  <2>3. MidWrite' = MidWrite /\ f \in MidWrite
    BY <1>7, <2>2, MidSteps DEF MidWrite
  <2>4. /\ \A g \in Field : g # f => redis'[g] = redis[g]
        /\ UseCache => redis'[f] = rev[f]
    BY <1>a, <2>1, <2>2 DEF HashTypeOK
  <2>5. partial' => Longevity \/ partial
    BY <2>1
  <2>6. CASE UseCache /\ Whole' => Whole
    <3> HIDE DEF f
    <3> QED
      BY <2>1, <2>2, <2>3, <2>4, <2>5, <2>6, CachedOwn
  <2>7. CASE UseCache /\ Whole' /\ ~Whole
    <3>1. Longevity' <=> Longevity
      BY <2>1 DEF Longevity
    <3>2. ~partial' /\ ~partial /\ Longevity /\ Live(redis) = {} /\ (Live(truth) \cup MidWrite) \subseteq {f}
      BY <2>1, <2>7, <3>1 DEF Whole
    <3>3. \A g \in Field : g # f => redis'[g] = Absent /\ truth'[g] = Absent
      BY <2>1, <2>4, <3>2 DEF Live
    <3>4. \A d \in Client : op'[d].pc \in {"mark", "tomb", "relist"} => d = c
      <4> SUFFICES ASSUME NEW d \in Client, d # c, op'[d].pc \in {"mark", "tomb", "relist"} PROVE FALSE
        OBVIOUS
      <4>1. op[d].pc \in Busy /\ Owner[op[d].field] = d /\ op[d].field \in Field
        BY <1>b, <2>2 DEF OthersStay, Busy
      <4>2. op[d].field \in MidWrite
        BY <4>1 DEF MidWrite, Busy
      <4> QED
        BY <2>2, <3>2, <4>1, <4>2
    <3>5. UseCache' <=> UseCache
      BY <2>1 DEF UseCache
    <3> QED
      BY <2>1, <2>2, <2>3, <2>4, <3>1, <3>2, <3>3, <3>4, <3>5 DEF Cached, At
  <2> QED
    BY <2>6, <2>7
<1>8. ASSUME NEW c \in Client, NEW f \in Field, NEW w \in Uses[c], Begin(c, w, f) PROVE Cached'
  <2>1. /\ mode' = mode /\ truth' = truth /\ lost' = lost /\ redis' = redis /\ partial' = partial
        /\ \A g \in Field : Owner[g] # c => rev'[g] = rev[g]
    BY <1>8, <1>a DEF Begin, stores, ghosts, HashTypeOK
  <2>2. MidWrite' = MidWrite
    BY <1>8, MidSteps
  <2>3. \A d \in Client : op'[d].pc \in {"mark", "tomb", "relist"} => d # c /\ op'[d] = op[d]
    BY <1>a, <1>8, BeginOp
  <2>4. \A d \in Client : op'[d].pc = "mark" => rev'[op[d].field] = rev[op[d].field]
    BY <1>b, <2>1, <2>3 DEF Busy
  <2> QED
    BY <2>1, <2>2, <2>3, <2>4, CachedKept
<1>9. ASSUME NEW c \in Client, Load(c) \/ SetLoaded(c) \/ Read(c) \/ Enlist(c) PROVE Cached'
  <2>1. mode' = mode /\ truth' = truth /\ lost' = lost /\ redis' = redis /\ partial' = partial /\ rev' = rev
    BY <1>9 DEF Load, SetLoaded, Read, Enlist, stores, ghosts
  <2>2. MidWrite' = MidWrite
    BY <1>9, MidSteps
  <2>3. \A d \in Client : op'[d].pc \in {"mark", "tomb", "relist"} =>
            op[d].pc = op'[d].pc /\ op'[d].field = op[d].field
    BY <1>a, <1>9, LoadOp, SetLoadedOp, ReadOp, EnlistOp, NoCallIs DEF OthersStay
  <2> QED
    BY <2>1, <2>2, <2>3, CachedKept
<1>10. ASSUME Refill PROVE Cached'
  <2> DEFINE rows == flight.rows
  <2>1. /\ mode' = mode /\ truth' = truth /\ rev' = rev /\ lost' = lost \cup (Live(rows) \cap flight.bad)
        /\ \A g \in Field : redis'[g] = IF g \in Live(rows) THEN rows[g] ELSE redis[g]
        /\ partial' = (partial \/ (Live(rows) # {} /\ flight.bad # {}))
        /\ flight.pc = "put"
    BY <1>10 DEF Refill
  <2>2. /\ MidWrite \subseteq flight.bad /\ Longevity /\ UseCache
        /\ \A f \in Field : f \notin flight.bad /\ f \notin lost => rows[f] = truth[f]
    BY <1>a, <2>1 DEF Flight
  <2>3. MidWrite' = MidWrite /\ (Longevity' <=> Longevity) /\ (UseCache' <=> UseCache)
    BY <1>10, <2>1, MidSteps DEF Loading, Longevity, UseCache
  <2>4. \A d \in Client : op'[d].pc \in {"mark", "tomb", "relist"} =>
            /\ op[d].pc = op'[d].pc /\ op'[d].field = op[d].field
            /\ op[d].field \in MidWrite /\ op[d].field \in Field
    <3> SUFFICES ASSUME NEW d \in Client, op'[d].pc \in {"mark", "tomb", "relist"}
                 PROVE  /\ op[d].pc = op'[d].pc /\ op'[d].field = op[d].field
                        /\ op[d].field \in MidWrite /\ op[d].field \in Field
      OBVIOUS
    <3>1. op[d].pc = op'[d].pc /\ op'[d].field = op[d].field
      BY <1>a, <1>10, RefillOp DEF AllStay
    <3> QED
      BY <1>b, <3>1 DEF MidWrite, Busy
  <2>5. ASSUME NEW d \in Client, op'[d].field \notin lost'
        PROVE  op'[d].pc \in {"tomb", "relist"} => redis'[op'[d].field] = Absent
    BY <1>a, <2>1, <2>2, <2>4, <2>5 DEF Cached, At
  <2>6. CASE Live(rows) = {}
    <3>1. redis' = redis /\ (partial' <=> partial)
      <4>1. redis = [g \in Field |-> redis[g]] /\ redis' = [g \in Field |-> redis'[g]]
        BY <1>a, <1>10 DEF HashTypeOK, Refill
      <4> QED
        BY <2>1, <2>6, <4>1
    <3>2. Whole' <=> Whole
      BY <2>3, <3>1 DEF Whole, Live
    <3> QED
      BY <1>a, <2>1, <2>3, <2>4, <3>1, <3>2 DEF Cached, At
  <2>7. CASE flight.bad # {} /\ Live(rows) # {}
    <3>1. partial'
      BY <2>1, <2>7
    <3> QED
      BY <2>2, <2>3, <2>5, <3>1 DEF Cached, Whole, At
  <2>8. CASE flight.bad = {}
    <3>1. MidWrite = {} /\ (partial' <=> partial)
      BY <2>1, <2>2, <2>8
    <3>2. ASSUME NEW g \in Field, g \notin lost', Whole' PROVE redis'[g] = truth'[g]
      <4>1. g \notin lost /\ ~partial /\ rows[g] = truth[g]
        BY <2>1, <2>2, <2>8, <3>1, <3>2 DEF Whole
      <4>2. CASE g \in Live(rows)
        BY <2>1, <4>1, <4>2
      <4>3. CASE g \notin Live(rows)
        <5>1. truth[g] = Absent
          BY <4>1, <4>3 DEF Live
        <5>2. CASE Live(redis) = {}
          BY <2>1, <4>3, <5>1, <5>2 DEF Live
        <5>3. CASE Live(redis) # {}
          BY <1>a, <2>1, <2>2, <3>1, <4>1, <4>3, <5>3 DEF Cached, Whole
        <5> QED
          BY <5>2, <5>3
      <4> QED
        BY <4>2, <4>3
    <3>3. \A d \in Client : op'[d].pc \notin {"mark", "tomb", "relist"}
      BY <2>4, <3>1
    <3> QED
      BY <2>2, <2>3, <3>2, <3>3 DEF Cached, At
  <2> QED
    BY <2>6, <2>7, <2>8
<1>11. ASSUME RedisExpire PROVE Cached'
  <2>1. /\ mode' = mode /\ lost' = lost /\ op' = op /\ UseCache /\ Longevity /\ ~partial'
        /\ \A g \in Field : redis'[g] = Absent
    BY <1>11 DEF RedisExpire
  <2>2. (Longevity' <=> Longevity) /\ Live(redis)' = {}
    BY <2>1 DEF Longevity, Live
  <2>3. ~Whole'
    BY <2>1, <2>2 DEF Whole
  <2> QED
    BY <1>b, <2>1, <2>2, <2>3 DEF Cached, At
<1>12. ASSUME LoadRedis \/ LoadRows \/ LoadFault \/ Fill \/ Flush \/ ClearCollect \/ PreClear \/ ClearList PROVE Cached'
  <2>1. mode' = mode /\ truth' = truth /\ lost \subseteq lost' /\ redis' = redis /\ partial' = partial /\ rev' = rev
    BY <1>12 DEF LoadRedis, LoadRows, LoadFault, Fill, Flush, ClearCollect, PreClear, ClearList, stores, ghosts
  <2>2. MidWrite' = MidWrite
    BY <1>12, MidSteps DEF Loading, Timers
  <2>3. \A d \in Client : op'[d].pc \in {"mark", "tomb", "relist"} =>
            op[d].pc = op'[d].pc /\ op'[d].field = op[d].field
    <3>1. CASE LoadFault
      BY <1>a, <3>1, LoadFaultOp, NoCallIs
    <3>2. CASE Fill
      BY <1>a, <3>2, FillOp DEF AllStay
    <3>3. CASE PreClear
      BY <1>a, <3>3, PreClearOp DEF AllStay
    <3>4. CASE op' = op
      BY <3>4
    <3> QED
      BY <1>12, <3>1, <3>2, <3>3, <3>4 DEF LoadRedis, LoadRows, Flush, ClearCollect, ClearList
  <2> QED
    BY <2>1, <2>2, <2>3, CachedKept
<1>13. CASE UNCHANGED hashVars
  <2>1. /\ mode' = mode /\ truth' = truth /\ lost' = lost /\ redis' = redis /\ partial' = partial
        /\ rev' = rev /\ op' = op
    BY <1>13 DEF hashVars, stores, ghosts
  <2>2. MidWrite' = MidWrite
    BY <2>1, MidStays
  <2> QED
    BY <2>1, <2>2, CachedKept
<1> QED
  BY <1>1, <1>2, <1>3, <1>4, <1>5, <1>6, <1>7, <1>8, <1>9, <1>10, <1>11, <1>12, <1>13
     DEF HashNext, Loading, Calling, Timers

-----------------------------------------------------------------------------
(* A load reads the truth, but for the fields it knows it may have missed *)

\* A step that spoils at most the fields it adds to `bad', or those that are
\* there already because they are being changed.
LEMMA FlightKept ==
    ASSUME HashInv, mode' = mode, NEW F \in SUBSET Field,
           flight'.pc = flight.pc, flight'.rows = flight.rows,
           flight.pc # "none" => flight'.bad = flight.bad \cup F,
           MidWrite' \subseteq MidWrite \cup F, lost \ F \subseteq lost',
           \A g \in Field : g \notin F /\ g \notin MidWrite =>
               truth'[g] = truth[g] /\ (cacheMap[g] # NoEntry => cacheMap'[g] # NoEntry)
    PROVE  Flight'
<1>1. (Longevity' <=> Longevity) /\ (UseCache' <=> UseCache) /\ Live(flight'.rows) = Live(flight.rows)
  BY DEF Longevity, UseCache
<1>2. CASE flight.pc \in {"none", "redis", "mysql"}
  BY <1>1, <1>2 DEF HashInv, Flight, Live
<1>3. CASE flight.pc \in {"fill", "fillR", "put"}
  <2>1. /\ MidWrite \subseteq flight.bad /\ flight'.bad = flight.bad \cup F
        /\ \A f \in Field : f \notin flight.bad /\ f \notin lost => flight.rows[f] = truth[f]
        /\ flight.pc = "put" =>
               \A f \in Live(flight.rows) : f \notin flight.bad /\ f \notin lost => cacheMap[f] # NoEntry
    BY <1>3 DEF HashInv, Flight
  <2>2. MidWrite' \subseteq flight'.bad
    BY <2>1
  <2>3. \A f \in Field : f \notin flight'.bad /\ f \notin lost' => flight'.rows[f] = truth'[f]
    BY <2>1
  <2>4. flight.pc = "put" =>
            \A f \in Live(flight'.rows) : f \notin flight'.bad /\ f \notin lost' => cacheMap'[f] # NoEntry
    BY <1>1, <2>1 DEF Live
  <2>5. (Live(flight.rows))' = Live(flight'.rows)
    BY DEF Live
  <2>6. /\ flight.pc \in {"mysql", "fillR", "put"} => Longevity
        /\ flight.pc \in {"redis", "put"} => UseCache
    BY DEF HashInv, Flight
  <2> QED
    BY <1>1, <1>3, <2>2, <2>3, <2>4, <2>5, <2>6 DEF Flight
<1>4. flight.pc \in {"none", "redis", "mysql", "fill", "fillR", "put"}
  BY DEF HashInv, HashTypeOK, FlightSet
<1> QED
  BY <1>2, <1>3, <1>4

\* Flight is kept: what a load read and did not mark bad is the truth.
THEOREM FlightStep == HashInv /\ [HashNext]_hashVars => Flight'
<1> SUFFICES ASSUME HashInv, [HashNext]_hashVars PROVE Flight'
  OBVIOUS
<1>a. HashTypeOK /\ OwnCalls /\ Settled /\ Cached /\ Flight
  BY DEF HashInv
<1>b. \A c \in Client : /\ op[c].field \in Field
                        /\ op[c].call \in {"Set", "Push", "Remove"} \/ op[c].pc \in Busy => Owner[op[c].field] = c
  BY <1>a, CallFields DEF OwnCalls, At
<1>1. ASSUME NEW c \in Client, NEW f \in Field, Push(c, f) PROVE Flight'
  <2>1. /\ mode' = mode /\ truth' = truth /\ lost' = lost
        /\ \A g \in Field : g \notin {f} => cacheMap'[g] = cacheMap[g]
    BY <1>1, <1>a DEF Push, ghosts, HashTypeOK
  <2>2. MidWrite' = MidWrite \cup {f}
    BY <1>a, <1>1, PushOp, MidSteps
  <2>3. /\ flight'.pc = flight.pc /\ flight'.rows = flight.rows
        /\ flight.pc # "none" => flight'.bad = flight.bad \cup {f}
    BY <1>a, <1>1, PushOp
  <2> QED
    BY <2>1, <2>2, <2>3, FlightKept
<1>2. ASSUME NEW c \in Client, Set(c) PROVE Flight'
  <2>1. /\ mode' = mode /\ truth' = truth /\ lost' = lost \ {op[c].field}
        /\ \A g \in Field : g \notin {op[c].field} => cacheMap'[g] = cacheMap[g]
    BY <1>2, <1>a DEF Set, HashTypeOK
  <2>2. MidWrite' = MidWrite \cup {op[c].field}
    BY <1>a, <1>2, SetOp, MidSteps
  <2>3. /\ flight'.pc = flight.pc /\ flight'.rows = flight.rows
        /\ flight.pc # "none" => flight'.bad = flight.bad \cup {op[c].field}
    BY <1>a, <1>2, SetOp
  <2>4. {op[c].field} \in SUBSET Field
    BY <1>b
  <2> QED
    BY <2>1, <2>2, <2>3, <2>4, FlightKept
<1>3. ASSUME NEW c \in Client, Remove(c) PROVE Flight'
  <2>1. mode' = mode /\ truth' = truth /\ lost' = lost \ {op[c].field} /\ cacheMap' = cacheMap
    BY <1>3 DEF Remove
  <2>2. MidWrite' = MidWrite \cup {op[c].field}
    BY <1>a, <1>3, RemoveOp, MidSteps
  <2>3. /\ flight'.pc = flight.pc /\ flight'.rows = flight.rows
        /\ flight.pc # "none" => flight'.bad = flight.bad \cup {op[c].field}
    BY <1>a, <1>3, RemoveOp
  <2>4. {op[c].field} \in SUBSET Field
    BY <1>b
  <2> QED
    BY <2>1, <2>2, <2>3, <2>4, FlightKept
<1>4. ASSUME NEW c \in Client, MarkUpdate(c) \/ Relist(c) PROVE Flight'
  <2>1. /\ mode' = mode /\ lost \subseteq lost' /\ flight' = flight
        /\ \A g \in Field : g # op[c].field => truth'[g] = truth[g] /\ cacheMap'[g] = cacheMap[g]
    BY <1>4, <1>a DEF MarkUpdate, Relist, stores, HashTypeOK
  <2>2. MidWrite' \subseteq MidWrite /\ op[c].field \in MidWrite
    BY <1>4, MidSteps
  <2>3. flight'.bad = flight.bad \cup {} /\ {} \in SUBSET Field
    BY <2>1
  <2> QED
    BY <2>1, <2>2, <2>3, FlightKept
<1>5. ASSUME NEW c \in Client, Tomb(c) PROVE Flight'
  <2>1. /\ mode' = mode /\ lost \subseteq lost' /\ flight' = flight /\ truth' = truth
        /\ \A g \in Field : g # op[c].field => cacheMap'[g] = cacheMap[g]
    BY <1>5, <1>a DEF Tomb, HashTypeOK
  <2>2. MidWrite' = MidWrite /\ op[c].field \in MidWrite
    BY <1>a, <1>b, <1>5, MidSteps, TombOp DEF MidWrite, Busy
  <2>3. flight'.bad = flight.bad \cup {} /\ {} \in SUBSET Field
    BY <2>1
  <2> QED
    BY <2>1, <2>2, <2>3, FlightKept
<1>6. ASSUME mode' = mode, lost' = lost, flight' = flight, truth' = truth, MidWrite' = MidWrite,
             \A g \in Field : cacheMap[g] # NoEntry => cacheMap'[g] # NoEntry
      PROVE  Flight'
  <2>1. flight'.bad = flight.bad \cup {} /\ {} \in SUBSET Field
    BY <1>6
  <2> QED
    BY <1>6, <2>1, FlightKept
<1>7. ASSUME NEW c \in Client, (\E f \in Field : \E w \in Uses[c] : Begin(c, w, f)) \/ SetLoaded(c)
                               \/ Read(c) \/ Enlist(c) \/ WriteCache(c)
      PROVE  Flight'
  <2>1. mode' = mode /\ lost' = lost /\ flight' = flight /\ truth' = truth /\ cacheMap' = cacheMap
    BY <1>7 DEF Begin, SetLoaded, Read, Enlist, WriteCache, stores, ghosts
  <2>2. MidWrite' = MidWrite
    BY <1>7, MidSteps
  <2> QED
    BY <1>6, <2>1, <2>2
<1>8. ASSUME NEW c \in Client, Load(c) PROVE Flight'
  <2>1. mode' = mode /\ lost' = lost /\ truth' = truth /\ cacheMap' = cacheMap
    BY <1>8 DEF Load, stores, ghosts
  <2>2. CASE flight.pc # "none"
    <3>1. flight' = flight
      BY <1>8, <2>2 DEF Load
    <3>2. MidWrite' = MidWrite
      BY <1>8, MidSteps
    <3> QED
      BY <1>6, <2>1, <3>1, <3>2
  <2>3. CASE flight.pc = "none"
    <3>1. flight' = [NoFlight EXCEPT !.pc = IF UseCache THEN "redis" ELSE "mysql"]
      BY <1>8, <2>3 DEF Load
    <3>2. flight'.pc = IF UseCache THEN "redis" ELSE "mysql"
      BY <3>1 DEF NoFlight
    <3>3. Live(flight'.rows) = {}
      BY <3>1 DEF NoFlight, Live
    <3>4. UseCache \/ Longevity
      <4>1. mode \in (SUBSET {"redis", "mysql"}) \ {{}}
        BY <1>a, HashAssumption DEF HashTypeOK
      <4> QED
        BY <4>1 DEF UseCache, Longevity
    <3>5. (Longevity' <=> Longevity) /\ (UseCache' <=> UseCache) /\ Live(flight.rows)' = Live(flight'.rows)
      BY <2>1 DEF Longevity, UseCache, Live
    <3> QED
      BY <3>2, <3>3, <3>4, <3>5 DEF Flight
  <2> QED
    BY <2>2, <2>3
<1>9. ASSUME LoadRedis PROVE Flight'
  <2>1. mode' = mode /\ lost' = lost /\ truth' = truth /\ MidWrite' = MidWrite /\ UseCache /\ flight.pc = "redis"
    BY <1>9, <1>a, MidSteps DEF LoadRedis, Loading, ghosts, Flight
  <2>2. (Longevity' <=> Longevity) /\ (UseCache' <=> UseCache) /\ Live(flight.rows)' = Live(flight'.rows)
    BY <2>1 DEF Longevity, UseCache, Live
  <2>3. flight \in FlightSet /\ Live(flight.rows) = {}
    BY <1>a, <2>1 DEF HashTypeOK, Flight
  <2>4. CASE Live(redis) # {}
    <3> DEFINE more == IF partial THEN Field ELSE {}
    <3>1. flight' = [pc |-> "fill", rows |-> redis, bad |-> flight.bad \cup MidWrite \cup more]
      BY <1>9, <2>4 DEF LoadRedis
    <3>2. flight'.pc = "fill" /\ flight'.rows = redis /\ flight'.bad = flight.bad \cup MidWrite \cup more
      BY <3>1
    <3>3. ASSUME NEW f \in Field, f \notin flight'.bad, f \notin lost PROVE redis[f] = truth[f]
      <4>1. ~partial /\ f \notin MidWrite
        BY <3>2, <3>3
      <4> QED
        BY <1>a, <2>1, <2>4, <3>3, <4>1 DEF Cached, Whole
    <3> QED
      BY <2>1, <2>2, <3>2, <3>3 DEF Flight
  <2>5. CASE Live(redis) = {}
    <3>1. flight' = [flight EXCEPT !.pc = IF Longevity THEN "mysql" ELSE "fill", !.bad = @ \cup MidWrite]
      BY <1>9, <2>5 DEF LoadRedis
    <3>2. /\ flight'.pc = (IF Longevity THEN "mysql" ELSE "fill") /\ flight'.rows = flight.rows
          /\ flight'.bad = flight.bad \cup MidWrite
      BY <2>3, <3>1 DEF FlightSet
    <3>3. CASE Longevity
      BY <2>1, <2>2, <2>3, <3>2, <3>3 DEF Flight
    <3>4. CASE ~Longevity
      <4>1. ASSUME NEW f \in Field, f \notin flight'.bad, f \notin lost PROVE flight'.rows[f] = truth[f]
        <5>1. f \notin MidWrite /\ redis[f] = truth[f]
          BY <1>a, <2>1, <3>2, <3>4, <4>1 DEF Cached, Whole
        <5> QED
          BY <2>3, <2>5, <3>2, <5>1 DEF Live
      <4> QED
        BY <2>1, <2>2, <3>2, <3>4, <4>1 DEF Flight
    <3> QED
      BY <3>3, <3>4
  <2> QED
    BY <2>4, <2>5
<1>10. ASSUME LoadRows PROVE Flight'
  <2>1. /\ mode' = mode /\ lost' = lost /\ truth' = truth /\ MidWrite' = MidWrite /\ Longevity
        /\ flight' = [pc |-> "fillR", rows |-> db, bad |-> flight.bad \cup MidWrite \cup Dirty]
    BY <1>10, <1>a, MidSteps DEF LoadRows, Loading, ghosts, Flight
  <2>2. flight'.pc = "fillR" /\ flight'.rows = db /\ flight'.bad = flight.bad \cup MidWrite \cup Dirty
    BY <2>1
  <2>3. ASSUME NEW f \in Field, f \notin flight'.bad, f \notin lost PROVE db[f] = truth[f]
    BY <1>a, <2>1, <2>2, <2>3 DEF Settled, Stands, Dirty
  <2>4. Longevity' <=> Longevity
    BY <2>1 DEF Longevity
  <2> QED
    BY <2>1, <2>2, <2>3, <2>4 DEF Flight
<1>11. ASSUME flight' = NoFlight PROVE Flight'
  BY <1>11, NoFlightIs DEF Flight
<1>12. ASSUME Fill PROVE Flight'
  <2>1. CASE flight.pc = "fillR" /\ UseCache
    <3> DEFINE rows == flight.rows
    <3>1. /\ flight' = [flight EXCEPT !.pc = "put"] /\ mode' = mode /\ truth' = truth /\ lost \subseteq lost'
          /\ \A g \in Field : cacheMap'[g] = IF g \in Live(rows) THEN Entry(rows[g], FALSE, FALSE) ELSE cacheMap[g]
      BY <1>12, <2>1 DEF Fill
    <3>2. flight \in FlightSet /\ Longevity /\ MidWrite \subseteq flight.bad
      BY <1>a, <2>1 DEF HashTypeOK, Flight
    <3>3. flight'.pc = "put" /\ flight'.rows = flight.rows /\ flight'.bad = flight.bad
      BY <3>1, <3>2 DEF FlightSet
    <3>4. /\ MidWrite' = MidWrite /\ (Longevity' <=> Longevity) /\ (UseCache' <=> UseCache)
          /\ Live(flight.rows)' = Live(flight'.rows)
      BY <1>12, <3>1, MidSteps DEF Loading, Longevity, UseCache, Live
    <3>5. \A g \in Live(rows) : g \in Field /\ cacheMap'[g] # NoEntry
      <4> SUFFICES ASSUME NEW g \in Live(rows) PROVE g \in Field /\ cacheMap'[g] # NoEntry
        OBVIOUS
      <4>1. g \in Field /\ rows[g] \in Nat
        BY <3>2 DEF Live, FlightSet
      <4>2. Entry(rows[g], FALSE, FALSE) \in EntrySet
        BY <4>1 DEF Entry, EntrySet
      <4> QED
        BY <3>1, <4>1, <4>2, HashAssumption
    <3>6. \A f \in Field : f \notin flight.bad /\ f \notin lost => rows[f] = truth[f]
      BY <1>a, <2>1 DEF Flight
    <3> QED
      BY <2>1, <3>1, <3>2, <3>3, <3>4, <3>5, <3>6 DEF Flight
  <2>2. CASE ~(flight.pc = "fillR" /\ UseCache)
    BY <1>11, <1>12, <2>2 DEF Fill
  <2> QED
    BY <2>1, <2>2
<1>13. ASSUME LoadFault \/ Refill PROVE Flight'
  BY <1>11, <1>13 DEF LoadFault, Refill
<1>14. ASSUME PreClear PROVE Flight'
  <2> DEFINE gone == IF members = NoList THEN {} ELSE members
  <2>1. /\ mode' = mode /\ truth' = truth /\ lost \subseteq lost'
        /\ flight' = IF flight.pc = "none" THEN flight ELSE [flight EXCEPT !.bad = @ \cup gone]
        /\ \A g \in Field : g \notin gone => cacheMap'[g] = cacheMap[g]
    BY <1>14 DEF PreClear
  <2>2. gone \in SUBSET Field /\ flight \in FlightSet
    BY <1>a DEF HashTypeOK
  <2> HIDE DEF gone
  <2>3. /\ flight'.pc = flight.pc /\ flight'.rows = flight.rows
        /\ flight.pc # "none" => flight'.bad = flight.bad \cup gone
    BY <2>1, <2>2 DEF FlightSet
  <2>4. MidWrite' = MidWrite
    BY <1>14, MidSteps DEF Timers
  <2> QED
    BY <2>1, <2>2, <2>3, <2>4, FlightKept
<1>15. ASSUME Flush PROVE Flight'
  <2>1. mode' = mode /\ lost' = lost /\ truth' = truth /\ flight' = flight /\ MidWrite' = MidWrite
    BY <1>15, MidSteps DEF Flush, ghosts, Timers
  <2>2. ASSUME NEW g \in Field, cacheMap[g] # NoEntry PROVE cacheMap'[g] # NoEntry
    <3>1. cacheMap[g] \in EntrySet
      BY <1>a, <2>2 DEF HashTypeOK
    <3>2. [cacheMap[g] EXCEPT !.upd = FALSE] \in EntrySet
      BY <3>1 DEF EntrySet
    <3>3. cacheMap'[g] = IF g \in Dirty THEN [cacheMap[g] EXCEPT !.upd = FALSE] ELSE cacheMap[g]
      BY <1>15 DEF Flush
    <3> QED
      BY <2>2, <3>2, <3>3, HashAssumption
  <2> QED
    BY <1>6, <2>1, <2>2
<1>16. ASSUME ClearCollect \/ ClearList \/ RedisExpire \/ UNCHANGED hashVars PROVE Flight'
  <2>1. mode' = mode /\ lost' = lost /\ truth' = truth /\ flight' = flight /\ cacheMap' = cacheMap /\ op' = op
    BY <1>16 DEF ClearCollect, ClearList, RedisExpire, hashVars, stores, ghosts
  <2>2. MidWrite' = MidWrite
    BY <2>1, MidStays
  <2> QED
    BY <1>6, <2>1, <2>2
<1> QED
  BY <1>1, <1>2, <1>3, <1>4, <1>5, <1>7, <1>8, <1>9, <1>10, <1>12, <1>13, <1>14, <1>15, <1>16
     DEF HashNext, Loading, Calling, Timers

-----------------------------------------------------------------------------
(* The list has the fields that exist *)

\* While one call is changing a field, every list another call has is old.
LEMMA AloneWriting ==
    ASSUME HashInv, NEW c \in Client, NEW d \in Client, c # d, op[d].pc \in Busy, op[c].pc \in Reading
    PROVE  op[c].old
<1>1. Owner[op[d].field] = d /\ op[d].field \in Field
  BY CallFields DEF HashInv, OwnCalls, At
<1>2. op[d].field \in MidWrite
  BY <1>1 DEF MidWrite, Busy
<1> QED
  BY <1>1, <1>2 DEF HashInv, Listed, At

\* A step that loses no entry of a settled field: the lists stay right, and a
\* new one is right when nothing was being changed.
LEMMA ListedKept ==
    ASSUME HashInv, MidWrite' = MidWrite, lost \subseteq lost', truth' = truth,
           \A g \in Field : g \notin MidWrite /\ cacheMap[g] # NoEntry => cacheMap'[g] # NoEntry,
           Trusted' => Trusted /\ members' = members,
           members' # NoList => members' = members,
           \A d \in Client :
               /\ op'[d].pc \in Reading /\ ~op'[d].old =>
                    \/ op[d].pc \in Reading /\ ~op[d].old /\ op'[d].keys = op[d].keys
                    \/ /\ MidWrite = {}
                       /\ \A g \in Field : g \notin lost' =>
                             /\ g \in op'[d].keys <=> truth[g] # Absent
                             /\ g \in op'[d].keys => cacheMap'[g] # NoEntry
               /\ op'[d].pc \in {"have", "append"} /\ ~op'[d].old =>
                    \/ op[d].pc \in {"have", "append"} /\ ~op[d].old /\ op'[d].keys = op[d].keys
                    \/ op'[d].keys = members'
               /\ op'[d].pc \in {"put", "mark"} /\ op'[d].own =>
                    op[d].pc \in {"put", "mark"} /\ op[d].own /\ op'[d].field = op[d].field
    PROVE  Listed'
<1>1. ASSUME NEW ks, Lists(ks), NEW g \in Field, g \notin lost', g \notin MidWrite'
      PROVE  (g \in ks <=> truth'[g] # Absent) /\ (g \in ks => cacheMap'[g] # NoEntry)
  BY <1>1 DEF Lists
<1>2. Trusted' => Lists(members)'
  <2>1. Trusted => Lists(members)
    BY DEF HashInv, Listed
  <2> QED
    BY <1>1, <2>1 DEF Lists
<1>3. ASSUME NEW d \in Client
      PROVE  /\ op'[d].pc \in Reading /\ ~op'[d].old =>
                    Lists(op[d].keys)' /\ \A f \in MidWrite' : Owner[f] = d
             /\ op'[d].pc \in {"have", "append"} /\ ~op'[d].old /\ members' # NoList =>
                    op'[d].keys = members'
             /\ op'[d].pc \in {"put", "mark"} /\ op'[d].own /\ op'[d].field \notin lost' /\ Trusted' =>
                    op'[d].field \in members'
  <2>1. ASSUME op'[d].pc \in Reading, ~op'[d].old
        PROVE  Lists(op[d].keys)' /\ \A f \in MidWrite' : Owner[f] = d
    <3>1. CASE op[d].pc \in Reading /\ ~op[d].old /\ op'[d].keys = op[d].keys
      <4>1. Lists(op[d].keys) /\ \A f \in MidWrite : Owner[f] = d
        BY <3>1 DEF HashInv, Listed, At
      <4> QED
        BY <1>1, <3>1, <4>1 DEF Lists
    <3>2. CASE /\ MidWrite = {}
               /\ \A g \in Field : g \notin lost' =>
                      /\ g \in op'[d].keys <=> truth[g] # Absent
                      /\ g \in op'[d].keys => cacheMap'[g] # NoEntry
      BY <3>2 DEF Lists
    <3> QED
      BY <2>1, <3>1, <3>2
  <2>2. ASSUME op'[d].pc \in {"have", "append"}, ~op'[d].old, members' # NoList
        PROVE  op'[d].keys = members'
    BY <2>2 DEF HashInv, Listed, At
  <2>3. ASSUME op'[d].pc \in {"put", "mark"}, op'[d].own, op'[d].field \notin lost', Trusted'
        PROVE  op'[d].field \in members'
    BY <2>3 DEF HashInv, Listed, At
  <2> QED
    BY <2>1, <2>2, <2>3
<1> QED
  BY <1>2, <1>3 DEF Listed, At

\* Call c writes a list: the one it has, and f, a field it is changing or none.
LEMMA ListedSet ==
    ASSUME HashInv, NEW c \in Client, OthersStay(c), OthersHave(c, members'), op[c].pc \in Reading,
           members' # NoList, members' \in SUBSET Field, astray' = op[c].old, lost' = lost, cacheMap' = cacheMap,
           MidWrite' \subseteq MidWrite,
           \A g \in Field : Owner[g] # c => (g \in MidWrite' <=> g \in MidWrite),
           \A g \in Field : g \notin MidWrite =>
               truth'[g] = truth[g] /\ (g \in members' <=> g \in op[c].keys),
           \A g \in Field : g \in MidWrite /\ g \notin MidWrite' => truth'[g] = Absent /\ g \notin members',
           op[c].pc \notin Busy => MidWrite' = MidWrite /\ truth' = truth,
           op'[c].pc \in Reading => op'[c].keys = members' /\ op'[c].old = op[c].old /\ MidWrite' = MidWrite
                                        /\ truth' = truth,
           op'[c].pc \in {"put", "mark"} => op'[c].field \in members'
    PROVE  Listed'
<1>0. op[c].pc \in Reading /\ ~op[c].old => Lists(op[c].keys) /\ \A f \in MidWrite : Owner[f] = c
  BY DEF HashInv, Listed, At
<1>1. ASSUME ~op[c].old PROVE Lists(members)'
  <2> SUFFICES ASSUME NEW g \in Field, g \notin lost', g \notin MidWrite'
               PROVE  /\ g \in members' <=> truth'[g] # Absent
                      /\ g \in members' => cacheMap'[g] # NoEntry
    BY DEF Lists
  <2>1. CASE g \in MidWrite
    BY <2>1
  <2>2. CASE g \notin MidWrite
    BY <1>0, <1>1, <2>2 DEF Lists
  <2> QED
    BY <2>1, <2>2
<1>2. Trusted' => Lists(members)'
  BY <1>1 DEF Trusted
<1>3. \A d \in Client : d # c => /\ op'[d].pc = op[d].pc /\ op'[d].keys = op[d].keys
                                 /\ op'[d].field = op[d].field /\ op'[d].own = op[d].own
                                 /\ op[d].old => op'[d].old
  BY DEF OthersStay
<1>4. ASSUME NEW d \in Client, op'[d].pc \in Reading, ~op'[d].old
      PROVE  Lists(op[d].keys)' /\ \A f \in MidWrite' : Owner[f] = d
  <2>1. CASE d = c
    <3>1. ~op[c].old /\ op'[c].keys = members' /\ MidWrite' = MidWrite
      BY <1>4, <2>1
    <3>2. Lists(op[c].keys)'
      BY <1>1, <3>1 DEF Lists
    <3> QED
      BY <1>0, <2>1, <3>1, <3>2
  <2>2. CASE d # c
    <3>1. op[d].pc \in Reading /\ ~op[d].old /\ op'[d].keys = op[d].keys
      BY <1>3, <1>4, <2>2
    <3>2. Lists(op[d].keys) /\ \A f \in MidWrite : Owner[f] = d
      BY <3>1 DEF HashInv, Listed, At
    <3>3. op[c].pc \notin Busy
      BY <2>2, <3>1, AloneWriting
    <3> QED
      BY <3>1, <3>2, <3>3 DEF Lists
  <2> QED
    BY <2>1, <2>2
<1>5. ASSUME NEW d \in Client, op'[d].pc \in {"have", "append"}, ~op'[d].old
      PROVE  op'[d].keys = members'
  BY <1>5 DEF OthersHave, Reading
<1>6. ASSUME NEW d \in Client, op'[d].pc \in {"put", "mark"}, op'[d].own, Trusted'
      PROVE  op'[d].field \in members'
  <2>1. CASE d = c
    BY <1>6, <2>1
  <2>2. CASE d # c
    <3>1. ~op[c].old /\ op[d].pc \in Busy
      BY <1>3, <1>6, <2>2 DEF Trusted, Busy
    <3> QED
      BY <2>2, <3>1, AloneWriting
  <2> QED
    BY <2>1, <2>2
<1> QED
  BY <1>2, <1>4, <1>5, <1>6 DEF Listed, At

\* Call c begins to change field f: every list another call has is old now.
LEMMA ListedEnter ==
    ASSUME HashInv, NEW c \in Client, OthersStay(c), OthersAge(c), NEW f \in Field, Owner[f] = c,
           members' = members, astray' = astray, clearing' = clearing, truth' = truth,
           MidWrite' = MidWrite \cup {f}, lost \ {f} \subseteq lost',
           \A g \in Field : g # f => cacheMap'[g] = cacheMap[g],
           op'[c].pc \in Reading => /\ op[c].pc = "have" /\ op'[c].old = op[c].old
                                    /\ op'[c].keys \in {op[c].keys, op[c].keys \ {f}},
           op'[c].pc = "append" => op'[c].keys = op[c].keys,
           op'[c].pc # "have",
           op'[c].pc \in {"put", "mark"} => (op'[c].field = f /\ (f \notin lost' /\ Trusted => f \in members))
    PROVE  Listed'
<1>1. Trusted' <=> Trusted
  BY DEF Trusted
<1>2. Trusted' => Lists(members)'
  BY <1>1 DEF HashInv, Listed, Lists
<1>3. \A d \in Client : d # c => /\ op'[d].pc = op[d].pc /\ op'[d].field = op[d].field
                                 /\ op'[d].own = op[d].own
                                 /\ op'[d].pc \in Reading => op'[d].old
  BY DEF OthersStay, OthersAge, Reading
<1>4. ASSUME NEW d \in Client, op'[d].pc \in Reading, ~op'[d].old
      PROVE  Lists(op[d].keys)' /\ \A g \in MidWrite' : Owner[g] = d
  <2>1. d = c
    BY <1>3, <1>4
  <2>2. op[c].pc = "have" /\ ~op[c].old /\ op'[c].keys \in {op[c].keys, op[c].keys \ {f}}
    BY <1>4, <2>1
  <2>3. Lists(op[c].keys) /\ \A g \in MidWrite : Owner[g] = c
    BY <2>2 DEF HashInv, Listed, At, Reading
  <2>4. Lists(op[c].keys)'
    BY <2>2, <2>3 DEF Lists
  <2> QED
    BY <2>1, <2>3, <2>4
<1>5. ASSUME NEW d \in Client, op'[d].pc \in {"have", "append"}, ~op'[d].old, members' # NoList
      PROVE  op'[d].keys = members'
  <2>1. d = c /\ op'[c].pc = "append"
    BY <1>3, <1>5 DEF Reading
  <2>2. op[c].pc = "have" /\ ~op[c].old /\ op'[c].keys = op[c].keys
    BY <1>5, <2>1 DEF Reading
  <2> QED
    BY <1>5, <2>1, <2>2 DEF HashInv, Listed, At
<1>6. ASSUME NEW d \in Client, op'[d].pc \in {"put", "mark"}, op'[d].own, op'[d].field \notin lost', Trusted'
      PROVE  op'[d].field \in members'
  <2>1. CASE d = c
    BY <1>1, <1>6, <2>1
  <2>2. CASE d # c
    <3>1. op[d].pc \in {"put", "mark"} /\ op[d].own /\ op'[d].field = op[d].field
      BY <1>3, <1>6, <2>2
    <3>2. Owner[op[d].field] = d
      BY <3>1 DEF HashInv, OwnCalls, At, Busy
    <3>3. op[d].field \notin lost
      BY <1>6, <2>2, <3>1, <3>2, CallFields DEF HashInv
    <3> QED
      BY <1>1, <1>6, <3>1, <3>3 DEF HashInv, Listed, At
  <2> QED
    BY <2>1, <2>2
<1> QED
  BY <1>2, <1>4, <1>5, <1>6 DEF Listed, At

\* Listed is kept: the list, and a list in hand that is not old, are right.
THEOREM ListedStep == HashInv /\ [HashNext]_hashVars => Listed'
<1> SUFFICES ASSUME HashInv, [HashNext]_hashVars PROVE Listed'
  OBVIOUS
<1>a. HashTypeOK /\ OwnCalls /\ OwnEntries /\ Settled /\ Flight /\ Listed
  BY DEF HashInv
<1>b. \A c \in Client : /\ op[c].field \in Field /\ op[c].keys \in SUBSET Field
                        /\ op[c].call \in {"Set", "Push", "Remove"} \/ op[c].pc \in Busy => Owner[op[c].field] = c
  BY <1>a, CallFields DEF OwnCalls, At
<1>c. \A ks \in SUBSET Field : ks # NoList
  BY HashAssumption
<1>1. ASSUME NEW c \in Client, NEW f \in Field, Push(c, f) PROVE Listed'
  <2>1. /\ Owner[f] = c /\ members' = members /\ astray' = astray /\ clearing' = clearing
        /\ truth' = truth /\ lost' = lost /\ cacheMap[f] # NoEntry /\ ~cacheMap[f].del
        /\ \A g \in Field : g # f => cacheMap'[g] = cacheMap[g]
    BY <1>1, <1>a DEF Push, ghosts, HashTypeOK
  <2>2. MidWrite' = MidWrite \cup {f} /\ f \notin MidWrite
    BY <1>a, <1>1, PushOp, MidSteps
  <2>3. ASSUME f \notin lost, Trusted PROVE f \in members
    <3>1. truth[f] # Absent
      BY <1>a, <2>1, <2>2, <2>3 DEF Settled, Stands
    <3> QED
      BY <1>a, <2>2, <2>3, <3>1 DEF Listed, Lists
  <2>4. op'[c].pc = "put" /\ op'[c].field = f /\ OthersStay(c) /\ OthersAge(c)
    BY <1>a, <1>1, PushOp
  <2> QED
    BY <2>1, <2>2, <2>3, <2>4, ListedEnter DEF Reading
<1>2. ASSUME NEW c \in Client, Set(c) PROVE Listed'
  <2>1. /\ members' = members /\ astray' = astray /\ clearing' = clearing
        /\ truth' = truth /\ lost' = lost \ {op[c].field}
        /\ \A g \in Field : g # op[c].field => cacheMap'[g] = cacheMap[g]
    BY <1>2, <1>a DEF Set, HashTypeOK
  <2>2. MidWrite' = MidWrite \cup {op[c].field}
    BY <1>a, <1>2, SetOp, MidSteps
  <2>3. /\ op'[c].pc = "append" /\ op[c].pc = "have" /\ op'[c].old = op[c].old /\ op'[c].keys = op[c].keys
        /\ OthersStay(c) /\ OthersAge(c) /\ Owner[op[c].field] = c /\ op[c].field \in Field
    BY <1>a, <1>b, <1>2, SetOp
  <2> QED
    BY <2>1, <2>2, <2>3, ListedEnter
<1>3. ASSUME NEW c \in Client, Remove(c) PROVE Listed'
  <2>1. /\ members' = members /\ astray' = astray /\ clearing' = clearing
        /\ truth' = truth /\ lost' = lost \ {op[c].field} /\ cacheMap' = cacheMap
    BY <1>3 DEF Remove
  <2>2. MidWrite' = MidWrite \cup {op[c].field}
    BY <1>a, <1>3, RemoveOp, MidSteps
  <2>3. /\ op'[c].pc = "tomb" /\ op[c].pc = "have" /\ op'[c].old = op[c].old
        /\ op'[c].keys = op[c].keys \ {op[c].field}
        /\ OthersStay(c) /\ OthersAge(c) /\ Owner[op[c].field] = c /\ op[c].field \in Field
    BY <1>a, <1>b, <1>3, RemoveOp
  <2> QED
    BY <2>1, <2>2, <2>3, ListedEnter
<1>4. ASSUME NEW c \in Client, MarkUpdate(c) PROVE Listed'
  <2> DEFINE f == op[c].field
  <2>1. /\ members' = members /\ astray' = astray /\ clearing' = clearing
        /\ lost' = IF op[c].own THEN lost ELSE lost \cup {f}
        /\ truth'[f] = rev[f] /\ rev[f] # Absent
        /\ \A g \in Field : g # f => truth'[g] = truth[g] /\ cacheMap'[g] = cacheMap[g]
    BY <1>4, <1>a, <1>b DEF MarkUpdate, HashTypeOK, Absent
  <2>2. MidWrite' = MidWrite \ {f}
    BY <1>4, MidSteps
  <2>3. op'[c].pc = "idle" /\ op[c].pc = "mark" /\ \A d \in Client \ {c} : op'[d] = op[d]
    BY <1>a, <1>4, MarkUpdateOp, NoCallIs
  <2>4. Trusted' <=> Trusted
    BY <2>1 DEF Trusted
  <2>5. ASSUME Trusted, f \notin lost' PROVE f \in members /\ cacheMap'[f] # NoEntry
    <3>1. op[c].own /\ f \notin lost
      BY <2>1, <2>5
    <3>2. f \in members
      BY <1>a, <2>3, <2>5, <3>1 DEF Listed, At
    <3>3. cacheMap[f] # NoEntry
      BY <1>a, <2>3, <3>1 DEF OwnEntries, At
    <3>4. cacheMap[f] \in EntrySet
      BY <1>a, <1>b, <3>3 DEF HashTypeOK
    <3>5. [cacheMap[f] EXCEPT !.upd = TRUE] \in EntrySet
      BY <3>4 DEF EntrySet
    <3>6. cacheMap'[f] = IF Longevity THEN [cacheMap[f] EXCEPT !.upd = TRUE] ELSE cacheMap[f]
      BY <1>4, <1>a, <1>b, <3>1 DEF MarkUpdate, HashTypeOK
    <3> QED
      BY <3>2, <3>3, <3>5, <3>6, HashAssumption
  <2>6. ASSUME Trusted', NEW g \in Field, g \notin lost', g \notin MidWrite'
        PROVE  (g \in members' <=> truth'[g] # Absent) /\ (g \in members' => cacheMap'[g] # NoEntry)
    <3>1. CASE g = f
      BY <2>1, <2>4, <2>5, <2>6, <3>1
    <3>2. CASE g # f
      <4>1. g \notin lost /\ g \notin MidWrite /\ Lists(members)
        BY <1>a, <2>1, <2>2, <2>4, <2>6, <3>2 DEF Listed
      <4> QED
        BY <2>1, <3>2, <4>1 DEF Lists
    <3> QED
      BY <3>1, <3>2
  <2>7. \A d \in Client : op'[d].pc \in Reading => op'[d].old
    BY <2>3, AloneWriting DEF Busy, Reading
  <2>8. ASSUME NEW d \in Client, op'[d].pc \in {"put", "mark"}, op'[d].own, op'[d].field \notin lost', Trusted'
        PROVE  op'[d].field \in members'
    <3>1. op'[d] = op[d] /\ op[d].field \notin lost
      BY <2>1, <2>3, <2>8
    <3> QED
      BY <1>a, <2>1, <2>4, <2>8, <3>1 DEF Listed, At
  <2> QED
    BY <2>6, <2>7, <2>8 DEF Listed, Lists, At, Reading
<1>5. ASSUME NEW c \in Client, SetLoaded(c) PROVE Listed'
  <2>1. lost' = lost /\ cacheMap' = cacheMap /\ truth' = truth
    BY <1>5 DEF SetLoaded, stores
  <2>2. MidWrite' = MidWrite
    BY <1>5, MidSteps
  <2>3. /\ OthersStay(c) /\ members' = op[c].keys /\ OthersHave(c, members') /\ op[c].pc = "list"
        /\ astray' = op[c].old /\ op'[c].pc = "have" /\ op'[c].keys = members' /\ op'[c].old = op[c].old
    BY <1>a, <1>5, SetLoadedOp
  <2> QED
    BY <1>b, <1>c, <2>1, <2>2, <2>3, ListedSet DEF Reading, Busy
<1>6. ASSUME NEW c \in Client, Relist(c) PROVE Listed'
  <2>1. /\ lost' = lost /\ cacheMap' = cacheMap
        /\ truth' = [truth EXCEPT ![op[c].field] = Absent]
    BY <1>6 DEF Relist, stores
  <2>2. MidWrite' = MidWrite \ {op[c].field} /\ op[c].field \in MidWrite
    BY <1>6, MidSteps
  <2>3. /\ OthersStay(c) /\ members' = op[c].keys /\ OthersHave(c, members') /\ op[c].pc = "relist"
        /\ astray' = op[c].old /\ op'[c].pc = "idle"
    BY <1>a, <1>6, RelistOp, NoCallIs
  <2>4. op[c].field \notin op[c].keys /\ Owner[op[c].field] = c
    BY <1>a, <1>b, <2>3 DEF OwnCalls, At, Busy
  <2>5. truth'[op[c].field] = Absent /\ \A g \in Field : g # op[c].field => truth'[g] = truth[g]
    BY <1>a, <1>b, <2>1 DEF HashTypeOK
  <2>6. members' \in SUBSET Field /\ members' # NoList
    BY <1>b, <1>c, <2>3
  <2> QED
    BY <2>1, <2>2, <2>3, <2>4, <2>5, <2>6, ListedSet DEF Reading, Busy
<1>7. ASSUME NEW c \in Client, Enlist(c) PROVE Listed'
  <2> DEFINE f == op[c].field
  <2>1. lost' = lost /\ cacheMap' = cacheMap /\ truth' = truth /\ clearing' = clearing
    BY <1>7 DEF Enlist, stores
  <2>2. MidWrite' = MidWrite
    BY <1>7, MidSteps
  <2>3. OthersStay(c) /\ op[c].pc = "append" /\ op'[c].pc = "put" /\ op'[c].field = f /\ op'[c].own = op[c].own
    BY <1>a, <1>7, EnlistOp
  <2>4. f \in MidWrite
    BY <1>b, <2>3 DEF MidWrite, Busy
  <2>5. CASE f \notin op[c].keys
    <3>1. members' = op[c].keys \cup {f} /\ OthersHave(c, members') /\ astray' = op[c].old
      BY <1>a, <1>7, <2>5, EnlistOp
    <3>2. members' \in SUBSET Field /\ members' # NoList
      BY <1>b, <1>c, <3>1
    <3> QED
      BY <2>1, <2>2, <2>3, <2>4, <3>1, <3>2, ListedSet DEF Reading, Busy
  <2>6. CASE f \in op[c].keys
    <3>1. members' = members /\ astray' = (astray \/ op[c].old) /\ \A d \in Client \ {c} : op'[d] = op[d]
      BY <1>a, <1>7, <2>6, EnlistOp
    <3>2. Trusted' => Trusted /\ ~op[c].old
      BY <2>1, <3>1 DEF Trusted
    <3>3. Trusted' => f \in members'
      BY <1>a, <2>3, <2>6, <3>1, <3>2 DEF Listed, At, Trusted
    <3>4. Trusted' => Lists(members)'
      BY <1>a, <2>1, <2>2, <3>1, <3>2 DEF Listed, Lists
    <3>5. ASSUME NEW d \in Client, op'[d].pc \in Reading, ~op'[d].old PROVE FALSE
      BY <2>3, <3>1, <3>5, AloneWriting DEF Busy, Reading
    <3>6. ASSUME NEW d \in Client, op'[d].pc \in {"put", "mark"}, op'[d].own, op'[d].field \notin lost', Trusted'
          PROVE  op'[d].field \in members'
      <4>1. CASE d = c
        BY <2>3, <3>3, <3>6, <4>1
      <4>2. CASE d # c
        BY <1>a, <2>1, <3>1, <3>2, <3>6, <4>2 DEF Listed, At
      <4> QED
        BY <4>1, <4>2
    <3> QED
      BY <3>4, <3>5, <3>6 DEF Listed, At, Reading
  <2> QED
    BY <2>5, <2>6
<1>8. ASSUME NEW c \in Client, Read(c) PROVE Listed'
  <2>1. lost' = lost /\ cacheMap' = cacheMap /\ truth' = truth /\ clearing' = clearing
    BY <1>8 DEF Read, stores
  <2>2. MidWrite' = MidWrite
    BY <1>8, MidSteps
  <2>3. OthersStay(c) /\ op[c].pc = "have" /\ op'[c].pc = "idle"
    BY <1>a, <1>8, ReadOp, NoCallIs
  <2>4. CASE members' = op[c].keys /\ OthersHave(c, members') /\ astray' = op[c].old
    BY <1>b, <1>c, <2>1, <2>2, <2>3, <2>4, ListedSet DEF Reading, Busy
  <2>5. CASE members' = members /\ astray' = astray /\ \A d \in Client \ {c} : op'[d] = op[d]
    <3>1. Trusted' <=> Trusted
      BY <2>1, <2>5 DEF Trusted
    <3>2. \A d \in Client : op'[d].pc # "idle" => op'[d] = op[d]
      BY <2>3, <2>5
    <3> QED
      BY <2>1, <2>2, <2>5, <3>1, <3>2, ListedKept DEF Reading
  <2> QED
    BY <1>a, <1>8, <2>4, <2>5, ReadOp
<1>9. ASSUME NEW c \in Client, NEW f \in Field, NEW w \in Uses[c], Begin(c, w, f) PROVE Listed'
  <2>1. /\ members' = members /\ astray' = astray /\ clearing' = clearing
        /\ truth' = truth /\ lost' = lost /\ cacheMap' = cacheMap
    BY <1>9 DEF Begin, stores, ghosts
  <2>2. MidWrite' = MidWrite /\ (Trusted' <=> Trusted)
    BY <1>9, <2>1, MidSteps DEF Trusted
  <2>3. /\ \A d \in Client \ {c} : op'[d] = op[d]
        /\ IF members = NoList THEN op'[c].pc = "miss"
           ELSE op'[c].pc = "have" /\ op'[c].keys = members /\ op'[c].old = Unsettled
    BY <1>a, <1>9, BeginOp
  <2>4. ASSUME op'[c].pc \in Reading, ~op'[c].old
        PROVE  /\ MidWrite = {} /\ op'[c].keys = members'
               /\ \A g \in Field : g \notin lost' =>
                      (g \in op'[c].keys <=> truth[g] # Absent) /\ (g \in op'[c].keys => cacheMap'[g] # NoEntry)
    <3>1. members # NoList /\ op'[c].keys = members /\ ~Unsettled
      BY <2>3, <2>4 DEF Reading
    <3>2. MidWrite = {} /\ Trusted
      BY <3>1 DEF Unsettled, Trusted
    <3> QED
      BY <1>a, <2>1, <3>1, <3>2 DEF Listed, Lists
  <2>5. op'[c].pc \in {"miss", "have"}
    BY <2>3
  <2> QED
    BY <2>1, <2>2, <2>3, <2>4, <2>5, ListedKept DEF Reading
<1>10. ASSUME NEW c \in Client, Load(c) \/ WriteCache(c) PROVE Listed'
  <2>1. /\ members' = members /\ astray' = astray /\ clearing' = clearing
        /\ truth' = truth /\ lost' = lost /\ cacheMap' = cacheMap
    BY <1>10 DEF Load, WriteCache, stores, ghosts
  <2>2. MidWrite' = MidWrite /\ (Trusted' <=> Trusted)
    BY <1>10, <2>1, MidSteps DEF Trusted
  <2>3. \A d \in Client : /\ op'[d].pc \in Reading \cup {"have", "append"} => op'[d] = op[d]
                          /\ op'[d].pc \in {"put", "mark"} =>
                                /\ op[d].pc \in {"put", "mark"}
                                /\ op'[d].own = op[d].own /\ op'[d].field = op[d].field
    BY <1>a, <1>10, LoadOp, WriteCacheOp DEF Reading
  <2> QED
    BY <2>1, <2>2, <2>3, ListedKept
<1>11. ASSUME NEW c \in Client, Tomb(c) PROVE Listed'
  <2>1. /\ members' = members /\ astray' = astray /\ clearing' = clearing
        /\ truth' = truth /\ lost \subseteq lost'
        /\ \A g \in Field : g # op[c].field => cacheMap'[g] = cacheMap[g]
    BY <1>11, <1>a DEF Tomb, HashTypeOK
  <2>2. MidWrite' = MidWrite /\ (Trusted' <=> Trusted)
    BY <1>11, <2>1, MidSteps DEF Trusted
  <2>3. /\ \A d \in Client \ {c} : op'[d] = op[d]
        /\ op[c].pc = "tomb" /\ op'[c].pc = "relist" /\ op'[c].keys = op[c].keys /\ op'[c].old = op[c].old
    BY <1>a, <1>11, TombOp
  <2>4. op[c].field \in MidWrite
    BY <1>b, <2>3 DEF MidWrite, Busy
  <2> QED
    BY <2>1, <2>2, <2>3, <2>4, ListedKept DEF Reading
<1>12. ASSUME mode' = mode, members' = members, astray' = astray, clearing' = clearing, truth' = truth,
              lost \subseteq lost', MidWrite' = MidWrite,
              \A g \in Field : cacheMap[g] # NoEntry => cacheMap'[g] # NoEntry,
              \A d \in Client :
                 /\ op[d].pc # "load" =>
                       /\ op'[d].pc = op[d].pc /\ op'[d].keys = op[d].keys /\ op'[d].field = op[d].field
                       /\ (op[d].old => op'[d].old) /\ (op'[d].own => op[d].own)
                 /\ op[d].pc = "load" => op'[d].pc \in {"load", "list"}
                 /\ op[d].pc = "load" /\ op'[d].pc = "list" /\ ~op'[d].old =>
                       /\ MidWrite = {}
                       /\ \A g \in Field : g \notin lost' =>
                             /\ g \in op'[d].keys <=> truth[g] # Absent
                             /\ g \in op'[d].keys => cacheMap'[g] # NoEntry
       PROVE Listed'
  <2>1. Trusted' <=> Trusted
    BY <1>12 DEF Trusted
  <2> QED
    BY <1>12, <2>1, ListedKept DEF Reading
<1>13. ASSUME LoadRedis \/ LoadRows \/ RedisExpire \/ UNCHANGED hashVars PROVE Listed'
  <2>1. /\ mode' = mode /\ members' = members /\ astray' = astray /\ clearing' = clearing
        /\ truth' = truth /\ lost' = lost /\ cacheMap' = cacheMap /\ op' = op
    BY <1>13 DEF LoadRedis, LoadRows, RedisExpire, hashVars, stores, ghosts
  <2>2. MidWrite' = MidWrite
    BY <2>1, MidStays
  <2> QED
    BY <1>12, <2>1, <2>2
<1>14. ASSUME LoadFault PROVE Listed'
  <2>1. /\ members' = members /\ astray' = astray /\ clearing' = clearing
        /\ truth' = truth /\ lost' = lost /\ cacheMap' = cacheMap
    BY <1>14 DEF LoadFault, stores, ghosts
  <2>2. MidWrite' = MidWrite /\ (Trusted' <=> Trusted)
    BY <1>14, <2>1, MidSteps DEF Loading, Trusted
  <2>3. \A d \in Client : op'[d] = op[d] \/ op'[d].pc = "idle" \/ (op'[d].pc = "have" /\ op'[d].old)
    BY <1>a, <1>14, LoadFaultOp, NoCallIs
  <2> QED
    BY <2>1, <2>2, <2>3, ListedKept DEF Reading
<1>15. ASSUME Fill \/ Refill PROVE Listed'
  <2> DEFINE rows == flight.rows
  <2>1. /\ mode' = mode /\ members' = members /\ astray' = astray /\ clearing' = clearing
        /\ truth' = truth /\ lost \subseteq lost' /\ flight.pc \in {"fill", "fillR", "put"}
    BY <1>15 DEF Fill, Refill
  <2>2. MidWrite' = MidWrite
    BY <1>15, MidSteps DEF Loading
  <2>3. /\ MidWrite \subseteq flight.bad
        /\ \A f \in Field : f \notin flight.bad /\ f \notin lost => rows[f] = truth[f]
    BY <1>a, <2>1 DEF Flight
  <2>4. \A g \in Field : /\ cacheMap[g] # NoEntry => cacheMap'[g] # NoEntry
                         /\ Fill /\ g \in Live(rows) => cacheMap'[g] # NoEntry
    <3> SUFFICES ASSUME NEW g \in Field
                 PROVE  /\ cacheMap[g] # NoEntry => cacheMap'[g] # NoEntry
                        /\ Fill /\ g \in Live(rows) => cacheMap'[g] # NoEntry
      OBVIOUS
    <3>1. CASE Fill
      <4>1. rows[g] \in Nat
        BY <1>a DEF HashTypeOK, FlightSet
      <4>2. Entry(rows[g], FALSE, FALSE) \in EntrySet
        BY <4>1 DEF Entry, EntrySet
      <4>3. cacheMap'[g] = IF g \in Live(rows) THEN Entry(rows[g], FALSE, FALSE) ELSE cacheMap[g]
        BY <3>1 DEF Fill
      <4> QED
        BY <4>2, <4>3, HashAssumption
    <3>2. CASE ~Fill
      BY <1>15, <3>2 DEF Refill
    <3> QED
      BY <3>1, <3>2
  <2>5. ASSUME flight.bad = {}, NEW g \in Field, g \notin lost'
        PROVE  (g \in Live(rows) <=> truth[g] # Absent) /\ (g \in Live(rows) => cacheMap'[g] # NoEntry)
    <3>1. g \notin lost /\ rows[g] = truth[g]
      BY <2>1, <2>3, <2>5
    <3>2. g \in Live(rows) <=> truth[g] # Absent
      BY <3>1 DEF Live
    <3>3. CASE Fill
      BY <2>4, <3>2, <3>3
    <3>4. CASE Refill
      <4>1. flight.pc = "put" /\ cacheMap' = cacheMap
        BY <3>4 DEF Refill
      <4> QED
        BY <1>a, <2>5, <3>1, <3>2, <4>1 DEF Flight
    <3> QED
      BY <1>15, <3>3, <3>4
  <2>6. \A d \in Client :
            /\ op[d].pc # "load" =>
                  /\ op'[d].pc = op[d].pc /\ op'[d].keys = op[d].keys /\ op'[d].field = op[d].field
                  /\ (op[d].old => op'[d].old) /\ (op'[d].own => op[d].own)
            /\ op[d].pc = "load" => op'[d].pc \in {"load", "list"}
            /\ op[d].pc = "load" /\ op'[d].pc = "list" /\ ~op'[d].old =>
                  flight.bad = {} /\ op'[d].keys = Live(rows)
    BY <1>a, <1>15, FillOp, RefillOp DEF AllStay
  <2> HIDE DEF rows
  <2> QED
    BY <1>12, <2>1, <2>2, <2>3, <2>4, <2>5, <2>6
<1>16. ASSUME Flush PROVE Listed'
  <2>1. /\ mode' = mode /\ members' = members /\ astray' = astray /\ clearing' = clearing
        /\ truth' = truth /\ lost' = lost /\ op' = op
        /\ \A g \in Field : cacheMap'[g] = IF g \in Dirty THEN [cacheMap[g] EXCEPT !.upd = FALSE] ELSE cacheMap[g]
    BY <1>16 DEF Flush, ghosts
  <2>2. ASSUME NEW g \in Field, cacheMap[g] # NoEntry PROVE cacheMap'[g] # NoEntry
    <3>1. cacheMap[g] \in EntrySet
      BY <1>a, <2>2 DEF HashTypeOK
    <3>2. [cacheMap[g] EXCEPT !.upd = FALSE] \in EntrySet
      BY <3>1 DEF EntrySet
    <3> QED
      BY <2>1, <2>2, <3>2, HashAssumption
  <2>3. MidWrite' = MidWrite
    BY <2>1, MidStays
  <2> QED
    BY <1>12, <2>1, <2>2, <2>3
<1>17. ASSUME ClearCollect \/ ClearList PROVE Listed'
  <2>1. /\ truth' = truth /\ lost' = lost /\ op' = op /\ cacheMap' = cacheMap
        /\ Trusted' => Trusted /\ members' = members
        /\ members' # NoList => members' = members
    BY <1>17 DEF ClearCollect, ClearList, ghosts, stores, Trusted
  <2>2. MidWrite' = MidWrite
    BY <2>1, MidStays
  <2> QED
    BY <2>1, <2>2, ListedKept
<1>18. ASSUME PreClear PROVE Listed'
  <2>1. ~Trusted'
    BY <1>18 DEF PreClear, Trusted
  <2>2. \A d \in Client : op'[d].pc \in Reading => op'[d].old
    BY <1>a, <1>18, PreClearOp DEF Reading
  <2> QED
    BY <2>1, <2>2 DEF Listed, At, Reading
<1> QED
  BY <1>1, <1>2, <1>3, <1>4, <1>5, <1>6, <1>7, <1>8, <1>9, <1>10, <1>11, <1>13, <1>14, <1>15,
     <1>16, <1>17, <1>18
     DEF HashNext, Loading, Calling, Timers

-----------------------------------------------------------------------------
(* HashCache: the theorems *)

\* The manager begins in the invariant: nothing loaded, Redis empty or whole.
THEOREM HashInitial == HashInit => HashInv
<1> SUFFICES ASSUME HashInit PROVE HashInv
  OBVIOUS
<1>1. /\ flight = NoFlight /\ \A c \in Client : op[c] = NoCall
      /\ members = NoList /\ lost = {} /\ ~partial /\ ~astray
      /\ \A f \in Field : cacheMap[f] = NoEntry /\ rev[f] = 1
      /\ \A f \in Field : truth[f] = IF f \in Saved THEN 1 ELSE Absent
      /\ \A f \in Field : db[f] = IF Longevity THEN truth[f] ELSE Absent
  BY DEF HashInit
<1>2. HashTypeOK
  <2>1. /\ truth \in [Field -> Nat] /\ db \in [Field -> Nat] /\ redis \in [Field -> Nat]
        /\ rev \in [Field -> Nat \ {0}] /\ cacheMap \in [Field -> EntrySet \cup {NoEntry}]
    BY DEF HashInit, Absent
  <2>2. flight \in FlightSet /\ op \in [Client -> CallSet]
    BY NoFlightIs, NoCallIs DEF HashInit
  <2>3. /\ mode \in Modes /\ members = NoList /\ clearing = "no" /\ calls \in [Client -> Nat] /\ failures = 0
        /\ astray = FALSE /\ lost = {} /\ partial = FALSE
    BY DEF HashInit
  <2> QED
    BY <2>1, <2>2, <2>3 DEF HashTypeOK
<1>3. OwnCalls /\ OwnEntries
  BY <1>1, NoCallIs DEF OwnCalls, OwnEntries, At, Busy
<1>4. Settled
  BY <1>1, NoCallIs DEF Settled, Stands, At
<1>5. Cached
  <2>1. CASE redis = [f \in Field |-> Absent] /\ (UseCache => Longevity)
    BY <1>1, <2>1, NoCallIs DEF Cached, Whole, Live, At
  <2>2. CASE redis = truth
    BY <1>1, <2>2, NoCallIs DEF Cached, At
  <2> QED
    BY <2>1, <2>2 DEF HashInit
<1>6. Flight
  BY <1>1, NoFlightIs DEF Flight
<1>7. Listed
  BY <1>1, NoCallIs DEF Listed, Trusted, At, Reading
<1> QED
  BY <1>2, <1>3, <1>4, <1>5, <1>6, <1>7 DEF HashInv

\* HashInv is inductive.
THEOREM HashStep == HashInv /\ [HashNext]_hashVars => HashInv'
  BY HashTypeStep, OwnCallsStep, OwnEntriesStep, SettledStep, CachedStep, FlightStep, ListedStep
     DEF HashInv

\* Every reachable state is in HashInv.
THEOREM HashInvariant == HashSpec => []HashInv
  BY HashInitial, HashStep, PTL DEF HashSpec

\* Entries, calls and loads keep their types, and no cacheData is marked dirty
\* that is not in the map.
THEOREM HashTypeCorrect == HashSpec => []HashTypeOK
<1>1. HashInv => HashTypeOK
  BY DEF HashInv
<1> QED
  BY <1>1, HashInvariant, PTL

\* While the hash is loaded, a field that nobody is writing is listed exactly
\* when it exists and is found with the value of its last finished call
\* (hashAutoCacheManager.Get, GetAll, Set, Push, Remove and loadCache).
THEOREM ExactCorrect == HashSpec => []HashIsExact
<1>1. ASSUME HashInv PROVE HashIsExact
  <2> SUFFICES ASSUME members # NoList, ~astray, clearing # "cleared", NEW f \in Field, f \notin lost, Quiet(f)
               PROVE  /\ f \in members <=> truth[f] # Absent
                      /\ f \in members => cacheMap[f] # NoEntry /\ cacheMap[f].val = truth[f] /\ ~cacheMap[f].del
                      /\ f \notin members => cacheMap[f] = NoEntry \/ cacheMap[f].del
    BY DEF HashIsExact
  <2>1. f \notin MidWrite
    BY DEF Quiet, MidWrite
  <2>2. (f \in members <=> truth[f] # Absent) /\ (f \in members => cacheMap[f] # NoEntry)
    BY <1>1, <2>1 DEF HashInv, Listed, Trusted, Lists
  <2>3. Stands(cacheMap[f], db[f], Longevity, truth[f])
    BY <1>1, <2>1 DEF HashInv, Settled
  <2> QED
    BY <2>2, <2>3 DEF Stands
<1> QED
  BY <1>1, HashInvariant, PTL

\* What a finished Set, Push or Remove left is in MySQL, or still dirty in the
\* map for the next flush, unless one of the two named losses hit the field.
THEOREM SavedCorrect == HashSpec => []SavedOrDirty
<1>1. ASSUME HashInv PROVE SavedOrDirty
  <2> SUFFICES ASSUME Longevity, NEW f \in Field, f \notin lost, Quiet(f)
               PROVE  db[f] = truth[f] \/ (f \in Dirty /\ cacheMap[f].val = truth[f])
    BY DEF SavedOrDirty
  <2>1. f \notin MidWrite
    BY DEF Quiet, MidWrite
  <2>2. Stands(cacheMap[f], db[f], Longevity, truth[f])
    BY <1>1, <2>1 DEF HashInv, Settled
  <2> QED
    BY <2>2 DEF Stands, Dirty
<1> QED
  BY <1>1, HashInvariant, PTL

=============================================================================
