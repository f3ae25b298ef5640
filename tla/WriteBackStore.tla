-------------------------- MODULE WriteBackStore --------------------------
(***************************************************************************)
(* What db/manager.go promises of one table, without maps, flags, versions *)
(* or batches: a returned write (latest) may be ahead of the database      *)
(* (durable), but then its key is owed, and a key stops being owed only    *)
(* when the database has caught up with it.                                *)
(***************************************************************************)
EXTENDS Integers

CONSTANTS
    Key,
    Revision    \* the revisions a write can have

VARIABLES
    latest,     \* key -> newest revision a returned write marked
    durable,    \* key -> revision in the database
    owed        \* keys the store still has to save

vars == <<latest, durable, owed>>

Init ==
    /\ latest = [k \in Key |-> 0]
    /\ durable = [k \in Key |-> 0]
    /\ owed = {}

\* A write of k has begun.
Begin(k) ==
    /\ owed' = owed \cup {k}
    /\ UNCHANGED <<latest, durable>>

\* A write of k returns.
Return(k) ==
    /\ owed' = owed \cup {k}
    /\ latest' \in [Key -> Nat]
    /\ latest'[k] >= latest[k]
    /\ \A j \in Key \ {k} : latest'[j] = latest[j]
    /\ UNCHANGED durable

\* The database moves forward, with revisions that were or are being written.
Persist ==
    /\ durable' \in [Key -> Nat]
    /\ \A k \in Key : durable'[k] >= durable[k]
    /\ UNCHANGED <<latest, owed>>

\* A key that the database has caught up with is no longer owed.
Settle(k) ==
    /\ k \in owed
    /\ durable[k] >= latest[k]
    /\ owed' = owed \ {k}
    /\ UNCHANGED <<latest, durable>>

Next == Persist \/ \E k \in Key : Begin(k) \/ Return(k) \/ Settle(k)

Spec == Init /\ [][Next]_vars

\* Whatever is not owed is saved.
SettledIsSaved == \A k \in Key : k \notin owed => latest[k] <= durable[k]

EventuallyDurable ==
    \A k \in Key, r \in Revision \ {0} : (latest[k] = r) ~> (durable[k] >= r)
===========================================================================
