--------------------------- MODULE FailureReplay ---------------------------
(***************************************************************************)
(* The failure queue of db/: a batch that MySQL refused is appended to the *)
(* process-wide file, and a table's manager, when InitStruct creates it,   *)
(* drains the file and replays what belongs to tables it knows             *)
(* (failure_queue.go, failure_replay.go, wireFailureReplay in manager.go). *)
(* Managers of several tables share the file and are created in any order, *)
(* also concurrently; the process may crash and start again.               *)
(*                                                                         *)
(* A table is one row, and the content of the row is its revision: a batch *)
(* is the revision it was collected with.  The flush round, modelled in    *)
(* detail by WriteBehind, is three steps here.                             *)
(***************************************************************************)
EXTENDS Integers, FiniteSets, Sequences

CONSTANTS
    Table,
    MaxRev,     \* bound: revisions a table's row takes
    MaxFaults,  \* bound: batches MySQL refuses (live or in a replay)
    MaxCrashes  \* bound: crashes of the process

ASSUME ReplayAssumption ==
    /\ IsFiniteSet(Table)
    /\ MaxRev \in Nat
    /\ MaxFaults \in Nat
    /\ MaxCrashes \in Nat

VARIABLES
    row,        \* table -> revision of its row in MySQL
    phase,      \* table -> where its manager is in InitStruct; "off": none
    mem,        \* table -> revision its manager holds in memory, 0: none
    dirty,      \* table -> data_update of that entry
    round,      \* table -> its flush round
    hand,       \* table -> payloads its startup replay drained and has yet to handle
    file,       \* longevity_failures.log
    newest,     \* table -> last revision the business wrote
    faults,     \* batches refused so far
    crashes,
    owed        \* history: payloads acknowledged by Enqueue, not replayed or given up

procVars == <<phase, mem, dirty, round, hand>>
boundVars == <<newest, faults, crashes>>
vars == <<row, procVars, file, boundVars, owed>>

-----------------------------------------------------------------------------
(* `no' tells payloads apart; the table and the revision are its content. *)
Payload == [no : 1..MaxFaults, table : Table, rev : 1..MaxRev]

\* drain: flusher registered, file not read; replay, requeue: handling the
\* first payload of hand; up: New() has returned.
Phase == {"off", "drain", "replay", "requeue", "up"}

Round == [pc : {"idle", "exec", "queue"}, rev : 0..MaxRev]
NoRound == [pc |-> "idle", rev |-> 0]

Registered == {t \in Table : phase[t] # "off"}

Init ==
    /\ row = [t \in Table |-> 0]
    /\ phase = [t \in Table |-> "off"]
    /\ mem = [t \in Table |-> 0]
    /\ dirty = [t \in Table |-> FALSE]
    /\ round = [t \in Table |-> NoRound]
    /\ hand = [t \in Table |-> <<>>]
    /\ file = <<>>
    /\ newest = [t \in Table |-> 0]
    /\ faults = 0 /\ crashes = 0
    /\ owed = {}

-----------------------------------------------------------------------------
(* InitStruct: register, drain, replay *)

\* registerReplayFlusher
Register(t) ==
    /\ phase[t] = "off"
    /\ phase' = [phase EXCEPT ![t] = "drain"]
    /\ UNCHANGED <<row, mem, dirty, round, hand, file, boundVars, owed>>

\* Mutant of Drain: the file is read and not truncated.
DrainKeepsFile(t) ==
    /\ phase[t] = "drain"
    /\ hand' = [hand EXCEPT ![t] = file]
    /\ phase' = [phase EXCEPT ![t] = "replay"]
    /\ UNCHANGED <<row, mem, dirty, round, file, boundVars, owed>>

\* Drain(): all lines are read and the file truncated under the queue's lock.
Drain(t) ==
    /\ phase[t] = "drain"
    /\ hand' = [hand EXCEPT ![t] = file]
    /\ file' = <<>>
    /\ phase' = [phase EXCEPT ![t] = "replay"]
    /\ UNCHANGED <<row, mem, dirty, round, boundVars, owed>>

\* ReplayPayload: the flusher of the payload's table executes the upsert.
ReplayOk(t) ==
    LET p == Head(hand[t]) IN
    /\ phase[t] = "replay" /\ hand[t] # <<>>
    /\ p.table \in Registered
    /\ row' = [row EXCEPT ![p.table] = p.rev]
    /\ hand' = [hand EXCEPT ![t] = Tail(@)]
    /\ owed' = owed \ {p}
    /\ UNCHANGED <<phase, mem, dirty, round, file, boundVars>>

\* MySQL refuses the batch (or reports an error for one it has executed).
ReplayFault(t) ==
    LET p == Head(hand[t]) IN
    /\ phase[t] = "replay" /\ hand[t] # <<>>
    /\ p.table \in Registered
    /\ faults < MaxFaults
    /\ faults' = faults + 1
    /\ row' \in {row, [row EXCEPT ![p.table] = p.rev]}
    /\ phase' = [phase EXCEPT ![t] = "requeue"]
    /\ UNCHANGED <<mem, dirty, round, hand, file, newest, crashes, owed>>

\* errNoReplayFlusher: the payload's table has no manager yet.
ReplayUnknown(t) ==
    /\ phase[t] = "replay" /\ hand[t] # <<>>
    /\ Head(hand[t]).table \notin Registered
    /\ phase' = [phase EXCEPT ![t] = "requeue"]
    /\ UNCHANGED <<row, mem, dirty, round, hand, file, boundVars, owed>>

\* Mutant of Requeue: the payload goes back to the batch being replayed.
RequeueToHand(t) ==
    /\ phase[t] = "requeue"
    /\ hand' = [hand EXCEPT ![t] = Append(Tail(@), Head(@))]
    /\ phase' = [phase EXCEPT ![t] = "replay"]
    /\ UNCHANGED <<row, mem, dirty, round, file, boundVars, owed>>

\* Whatever was not replayed is appended to the file again; when that fails
\* too, the payload is given up, as the log line says.
Requeue(t) ==
    LET p == Head(hand[t]) IN
    /\ phase[t] = "requeue"
    /\ \/ file' = Append(file, p) /\ UNCHANGED owed
       \/ owed' = owed \ {p} /\ UNCHANGED file
    /\ hand' = [hand EXCEPT ![t] = Tail(@)]
    /\ phase' = [phase EXCEPT ![t] = "replay"]
    /\ UNCHANGED <<row, mem, dirty, round, boundVars>>

ReplayDone(t) ==
    /\ phase[t] = "replay" /\ hand[t] = <<>>
    /\ phase' = [phase EXCEPT ![t] = "up"]
    /\ UNCHANGED <<row, mem, dirty, round, hand, file, boundVars, owed>>

-----------------------------------------------------------------------------
(* The manager at work *)

\* The business writes the row through the cache (Set, or Push).
Write(t) ==
    /\ phase[t] = "up"
    /\ newest[t] < MaxRev
    /\ newest' = [newest EXCEPT ![t] = @ + 1]
    /\ mem' = [mem EXCEPT ![t] = newest[t] + 1]
    /\ dirty' = [dirty EXCEPT ![t] = TRUE]
    /\ UNCHANGED <<row, phase, round, hand, file, faults, crashes, owed>>

\* Phase 1 of flushDirtyLocked.
Collect(t) ==
    /\ phase[t] = "up" /\ round[t] = NoRound
    /\ dirty[t]
    /\ round' = [round EXCEPT ![t] = [pc |-> "exec", rev |-> mem[t]]]
    /\ UNCHANGED <<row, phase, mem, dirty, hand, file, boundVars, owed>>

\* flushBatch succeeds; the flag is cleared unless the entry has changed.
FlushOk(t) ==
    /\ round[t].pc = "exec"
    /\ row' = [row EXCEPT ![t] = round[t].rev]
    /\ dirty' = [dirty EXCEPT ![t] = (mem[t] # round[t].rev)]
    /\ round' = [round EXCEPT ![t] = NoRound]
    /\ UNCHANGED <<phase, mem, hand, file, boundVars, owed>>

\* flushBatch fails, its retries exhausted.
FlushFault(t) ==
    /\ round[t].pc = "exec"
    /\ faults < MaxFaults
    /\ faults' = faults + 1
    /\ row' \in {row, [row EXCEPT ![t] = round[t].rev]}
    /\ round' = [round EXCEPT ![t].pc = "queue"]
    /\ UNCHANGED <<phase, mem, dirty, hand, file, newest, crashes, owed>>

\* The payload of a refused batch; faults numbers the payloads, and is bounded.
NextNo == CHOOSE n \in 1..MaxFaults : \A p \in owed : p.no # n

\* The refused batch is enqueued; an error of the queue is only logged, and
\* the entry stays dirty either way.
Enqueue(t) ==
    LET p == [no |-> NextNo, table |-> t, rev |-> round[t].rev] IN
    /\ round[t].pc = "queue"
    /\ \/ file' = Append(file, p) /\ owed' = owed \cup {p}
       \/ UNCHANGED <<file, owed>>
    /\ round' = [round EXCEPT ![t] = NoRound]
    /\ UNCHANGED <<row, phase, mem, dirty, hand, boundVars>>

-----------------------------------------------------------------------------
\* The process dies and starts again: only MySQL and the file remain.  What
\* a replay had drained and not requeued is lost, as the comment on
\* FileFailureQueue concedes (failure_queue.go:131-132).
Crash ==
    /\ crashes < MaxCrashes
    /\ crashes' = crashes + 1
    /\ phase' = [t \in Table |-> "off"]
    /\ mem' = [t \in Table |-> 0]
    /\ dirty' = [t \in Table |-> FALSE]
    /\ round' = [t \in Table |-> NoRound]
    /\ hand' = [t \in Table |-> <<>>]
    /\ owed' = {p \in owed : \E i \in DOMAIN file : file[i] = p}
    /\ UNCHANGED <<row, file, newest, faults>>

\* The rest of an InitStruct that has begun.
ReplayStep(t) ==
    \/ Drain(t) \/ ReplayOk(t) \/ ReplayFault(t) \/ ReplayUnknown(t)
    \/ Requeue(t) \/ ReplayDone(t)

FlushStep(t) == Collect(t) \/ FlushOk(t) \/ FlushFault(t) \/ Enqueue(t)

Next ==
    \/ \E t \in Table : Register(t) \/ ReplayStep(t) \/ Write(t) \/ FlushStep(t)
    \/ Crash

Spec == Init /\ [][Next]_vars

\* An InitStruct that has begun goes on.
FairSpec == Spec /\ \A t \in Table : WF_vars(ReplayStep(t))

-----------------------------------------------------------------------------
\* Every variable has its type; a payload always carries a revision that a
\* business write created.
TypeOK ==
    /\ row \in [Table -> 0..MaxRev]
    /\ phase \in [Table -> Phase]
    /\ mem \in [Table -> 0..MaxRev]
    /\ dirty \in [Table -> BOOLEAN]
    /\ round \in [Table -> Round]
    /\ hand \in [Table -> Seq(Payload)]
    /\ file \in Seq(Payload)
    /\ newest \in [Table -> 0..MaxRev]
    /\ faults \in 0..MaxFaults
    /\ crashes \in 0..MaxCrashes
    /\ owed \subseteq Payload

Positions(s, p) == {i \in DOMAIN s : s[i] = p}

\* Where payload p is: places in the file and in the hands of the replays.
Places(p) == {<<"file", i>> : i \in Positions(file, p)}
                \cup UNION {{<<t, i>> : i \in Positions(hand[t], p)} : t \in Table}

\* A payload whose Enqueue succeeded is never lost and never doubled until it
\* has been replayed or a failing Enqueue gave it up, however many managers replay the shared file at once
\* (failure_queue.go:291-293, failure_replay.go:84-91).
OnePlace == \A p \in Payload : Cardinality(Places(p)) = (IF p \in owed THEN 1 ELSE 0)

\* A startup replay ends: what it puts back is not handled again by itself.
ReplayEnds == \A t \in Table : phase[t] = "replay" ~> phase[t] \in {"up", "off"}

\* "The duplicates in the queue are covered by the idempotent upsert"
\* (manager.go:812-813): a row never goes back to an older revision.
RowNeverRegresses == [][\A t \in Table : row'[t] >= row[t]]_vars
=============================================================================
