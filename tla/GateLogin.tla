----------------------------- MODULE GateLogin -----------------------------
(***************************************************************************)
(* One user logging in on several gateway nodes: rpc/gate.go (Login,       *)
(* Offline), rpc/login_lock.go (login lock, owner record, kicking the old  *)
(* session) and the session state machine of rpc/tcp.go.                   *)
(*                                                                         *)
(* Every connection is an attempt of the same user to be online.  Four     *)
(* goroutines touch a connection: the login RPC it sent, its reader, which *)
(* cleans up when the connection ends, the kick by another login, and any  *)
(* sender whose Send times out.  They meet in the atomic session state, in *)
(* the users table of the node and in the owner record in Redis.           *)
(*                                                                         *)
(* The login lock is never lost: while a login holds it, its watchdog      *)
(* keeps refreshing it.                                                    *)
(***************************************************************************)
EXTENDS FiniteSets

CONSTANTS
    Conn,   \* connections; each makes at most one login attempt
    Node,   \* gateway addresses
    Home,   \* connection -> the node that accepted it
    None    \* no connection, no owner

ASSUME GateAssumption ==
    /\ IsFiniteSet(Conn)
    /\ Home \in [Conn -> Node]
    /\ None \notin Conn \cup Node

VARIABLES
    sess,     \* connection -> UserConnectData.state ("new": not accepted yet)
    named,    \* connections whose UserConnectData.userId is set
    users,    \* node -> connection under the user's id in TCPServer.users
    owner,    \* the gate owner in user:node:meta
    lock,     \* holder of the login lock
    login,    \* connection -> where its GateService.Login is
    seen,     \* connection -> the owner that Login read
    kick,     \* connection -> the Offline that its Login asked a node for
    body,     \* connection -> progress of the one UserConnectData.Offline that won
    mode,     \* connection -> the `replace' argument of that call
    replaced, \* connections whose replaceFlag is set
    reader,   \* connection -> where its handleConn is
    removed,  \* connections whose handleConn has removedSelf
    missed    \* history: a remote kick failed or was not answered in time

connVars   == <<sess, named, body, mode, replaced>>
loginVars  == <<login, seen, kick, missed>>
sharedVars == <<users, owner, lock>>
readerVars == <<reader, removed>>
vars == <<connVars, loginVars, sharedVars, readerVars>>

-----------------------------------------------------------------------------
SessionState == {"new", "idle", "loggingIn", "online", "offlining"}

LoginPc == {"no", "lock", "owner", "kicking", "begin", "publish", "name", "mark",
            "setOwner", "undo", "unlock", "done"}

Kick == [pc : {"no", "lookup", "cas", "wait", "done"}, victim : Conn \cup {None}]
NoKick == [pc |-> "no", victim |-> None]

ReaderPc == {"no", "read", "look", "del", "offline", "wait", "clear", "gone"}

Init ==
    /\ sess = [c \in Conn |-> "new"]
    /\ named = {}
    /\ users = [n \in Node |-> None]
    /\ owner = None
    /\ lock = None
    /\ login = [c \in Conn |-> "no"]
    /\ seen = [c \in Conn |-> None]
    /\ kick = [c \in Conn |-> NoKick]
    /\ body = [c \in Conn |-> "no"]
    /\ mode = [c \in Conn |-> FALSE]
    /\ replaced = {}
    /\ reader = [c \in Conn |-> "no"]
    /\ removed = {}
    /\ missed = FALSE

LoginAt(c, pc) == login[c] = pc
LoginTo(c, pc) == login' = [login EXCEPT ![c] = pc]
ReaderAt(c, pc) == reader[c] = pc
ReaderTo(c, pc) == reader' = [reader EXCEPT ![c] = pc]
KickTo(c, pc) == kick' = [kick EXCEPT ![c].pc = pc]

-----------------------------------------------------------------------------
(* UserConnectData.Offline *)

\* tryBeginOfflining: the one caller that gets here runs the body.
BeginOfflining(v, replace) ==
    /\ sess' = [sess EXCEPT ![v] = "offlining"]
    /\ mode' = [mode EXCEPT ![v] = replace]
    /\ body' = [body EXCEPT ![v] = "flag"]

\* replaceFlag.Store
StoreFlag(v) ==
    /\ body[v] = "flag"
    /\ replaced' = IF mode[v] THEN replaced \cup {v} ELSE replaced
    /\ body' = [body EXCEPT ![v] = "hook"]
    /\ UNCHANGED <<sess, named, mode, loginVars, sharedVars, readerVars>>

\* The OfflineHook RPCs return, the connection and `stop' are closed.
Close(v) ==
    /\ body[v] = "hook"
    /\ body' = [body EXCEPT ![v] = "done"]
    /\ UNCHANGED <<sess, named, mode, replaced, loginVars, sharedVars, readerVars>>

\* A Send to c times out: its goroutine runs Offline(false).
SendTimeout(c) ==
    /\ sess[c] \notin {"new", "offlining"}
    /\ BeginOfflining(c, FALSE)
    /\ UNCHANGED <<named, replaced, loginVars, sharedVars, readerVars>>

-----------------------------------------------------------------------------
(* GateService.Login, up to the end of the kick *)

Connect(c) ==
    /\ sess[c] = "new"
    /\ sess' = [sess EXCEPT ![c] = "idle"]
    /\ ReaderTo(c, "read")
    /\ UNCHANGED <<named, body, mode, replaced, loginVars, sharedVars, removed>>

StartLogin(c) ==
    /\ LoginAt(c, "no")
    /\ sess[c] = "idle"
    /\ LoginTo(c, "lock")
    /\ UNCHANGED <<connVars, seen, kick, missed, sharedVars, readerVars>>

AcquireLoginLock(c) ==
    /\ LoginAt(c, "lock")
    /\ lock = None
    /\ lock' = c
    /\ LoginTo(c, "owner")
    /\ UNCHANGED <<connVars, seen, kick, missed, users, owner, readerVars>>

\* The retries are exhausted, or Redis fails.
LockUnavailable(c) ==
    /\ LoginAt(c, "lock")
    /\ LoginTo(c, "done")
    /\ UNCHANGED <<connVars, seen, kick, missed, sharedVars, readerVars>>

\* GetGateOwner; an owner, local or remote, is asked to take the user offline.
GetGateOwner(c) ==
    /\ LoginAt(c, "owner")
    /\ seen' = [seen EXCEPT ![c] = owner]
    /\ IF owner = None
       THEN LoginTo(c, "begin") /\ UNCHANGED kick
       ELSE LoginTo(c, "kicking") /\ KickTo(c, "lookup")
    /\ UNCHANGED <<connVars, missed, sharedVars, readerVars>>

\* TCPServer.Offline on the owner's node: look the user up.
KickLookup(c) ==
    LET v == users[seen[c]] IN
    /\ kick[c].pc = "lookup"
    /\ kick' = [kick EXCEPT ![c] = [pc |-> IF v = None THEN "done" ELSE "cas",
                                    victim |-> v]]
    /\ UNCHANGED <<connVars, login, seen, missed, sharedVars, readerVars>>

\* Offline(true) of the connection found; Offline(false) comes first if the
\* notification cannot be sent in time.  Whoever lost the CAS returns at once.
KickOffline(c) ==
    LET v == kick[c].victim IN
    /\ kick[c].pc = "cas"
    /\ IF sess[v] = "offlining"
       THEN KickTo(c, "done") /\ UNCHANGED <<sess, mode, body>>
       ELSE KickTo(c, "wait") /\ \E replace \in BOOLEAN : BeginOfflining(v, replace)
    /\ UNCHANGED <<named, replaced, login, seen, missed, sharedVars, readerVars>>

\* The body has run to its end.
KickReturns(c) ==
    /\ kick[c].pc = "wait"
    /\ body[kick[c].victim] = "done"
    /\ KickTo(c, "done")
    /\ UNCHANGED <<connVars, login, seen, missed, sharedVars, readerVars>>

\* The kick has returned to Login.
Kicked(c) ==
    /\ LoginAt(c, "kicking")
    /\ kick[c].pc = "done"
    /\ LoginTo(c, "begin")
    /\ UNCHANGED <<connVars, seen, kick, missed, sharedVars, readerVars>>

\* A remote kick fails or is not answered in time; Login goes on.  The remote
\* node may never have got it, or still be at it.
KickFails(c) ==
    /\ LoginAt(c, "kicking")
    /\ seen[c] # Home[c]
    /\ missed' = TRUE
    /\ LoginTo(c, "begin")
    /\ kick' \in {kick, [kick EXCEPT ![c] = IF @.pc = "lookup" THEN NoKick ELSE @]}
    /\ UNCHANGED <<connVars, seen, sharedVars, readerVars>>

-----------------------------------------------------------------------------
(* DoLogin, and the end of Login *)

TryBeginLogin(c) ==
    /\ LoginAt(c, "begin")
    /\ IF sess[c] = "idle"
       THEN /\ sess' = [sess EXCEPT ![c] = "loggingIn"]
            /\ LoginTo(c, "publish")
       ELSE LoginTo(c, "undo") /\ UNCHANGED sess
    /\ UNCHANGED <<named, body, mode, replaced, seen, kick, missed, sharedVars, readerVars>>

\* users.Set(userId, u)
Publish(c) ==
    /\ LoginAt(c, "publish")
    /\ users' = [users EXCEPT ![Home[c]] = c]
    /\ LoginTo(c, "name")
    /\ UNCHANGED <<connVars, seen, kick, missed, owner, lock, readerVars>>

\* UserConnectData.Login: userId, then the LoginHook RPCs.
Name(c) ==
    /\ LoginAt(c, "name")
    /\ named' = named \cup {c}
    /\ LoginTo(c, "mark")
    /\ UNCHANGED <<sess, body, mode, replaced, seen, kick, missed, sharedVars, readerVars>>

\* markOnline; when the connection went offline meanwhile, DoLogin takes the
\* user's entry back, whoever it belongs to, and fails.
MarkOnline(c) ==
    /\ LoginAt(c, "mark")
    /\ IF sess[c] = "loggingIn"
       THEN /\ sess' = [sess EXCEPT ![c] = "online"]
            /\ LoginTo(c, "setOwner")
            /\ UNCHANGED users
       ELSE /\ users' = [users EXCEPT ![Home[c]] = None]
            /\ LoginTo(c, "undo")
            /\ UNCHANGED sess
    /\ UNCHANGED <<named, body, mode, replaced, seen, kick, missed, owner, lock, readerVars>>

\* Mutant of SetGateOwner: the login lock is given up before the owner is set.
SetGateOwnerUnlocked(c) ==
    /\ LoginAt(c, "setOwner")
    /\ IF lock = c THEN /\ lock' = None
                        /\ UNCHANGED <<owner, login>>
       ELSE /\ owner' = Home[c]
            /\ LoginTo(c, "unlock")
            /\ UNCHANGED lock
    /\ UNCHANGED <<connVars, seen, kick, missed, users, readerVars>>

SetGateOwner(c) ==
    /\ LoginAt(c, "setOwner")
    /\ owner' = Home[c]
    /\ LoginTo(c, "unlock")
    /\ UNCHANGED <<connVars, seen, kick, missed, users, lock, readerVars>>

\* A failed DoLogin after a kick clears the owner it had read, if unchanged.
UndoOwner(c) ==
    /\ LoginAt(c, "undo")
    /\ owner' = IF owner = seen[c] THEN None ELSE owner
    /\ LoginTo(c, "unlock")
    /\ UNCHANGED <<connVars, seen, kick, missed, users, lock, readerVars>>

\* Mutant of ReleaseLoginLock: release() finds `released' already set.
ReleaseLoginLockSkipped(c) ==
    /\ LoginAt(c, "unlock")
    /\ LoginTo(c, "done")
    /\ UNCHANGED <<connVars, seen, kick, missed, sharedVars, readerVars>>

\* The deferred release of the login lock; Login has returned.
ReleaseLoginLock(c) ==
    /\ LoginAt(c, "unlock")
    /\ lock' = IF lock = c THEN None ELSE lock
    /\ LoginTo(c, "done")
    /\ UNCHANGED <<connVars, seen, kick, missed, users, owner, readerVars>>

-----------------------------------------------------------------------------
(* handleConn *)

\* ReadFrame fails: the client is gone, or Offline has closed the connection.
ReaderEnds(c) ==
    /\ ReaderAt(c, "read")
    /\ ReaderTo(c, "look")
    /\ UNCHANGED <<connVars, loginVars, sharedVars, removed>>

\* The deferred cleanup: is the user's entry this connection?
CleanupLook(c) ==
    /\ ReaderAt(c, "look")
    /\ ReaderTo(c, IF c \in named /\ users[Home[c]] = c THEN "del" ELSE "offline")
    /\ UNCHANGED <<connVars, loginVars, sharedVars, removed>>

\* users.Del(userId), whatever the entry is by now.
CleanupDel(c) ==
    /\ ReaderAt(c, "del")
    /\ users' = [users EXCEPT ![Home[c]] = None]
    /\ removed' = removed \cup {c}
    /\ ReaderTo(c, "offline")
    /\ UNCHANGED <<connVars, loginVars, owner, lock>>

\* Offline(false)
CleanupOffline(c) ==
    /\ ReaderAt(c, "offline")
    /\ IF sess[c] = "offlining"
       THEN ReaderTo(c, "clear") /\ UNCHANGED <<sess, mode, body>>
       ELSE ReaderTo(c, "wait") /\ BeginOfflining(c, FALSE)
    /\ UNCHANGED <<named, replaced, loginVars, sharedVars, removed>>

CleanupReturns(c) ==
    /\ ReaderAt(c, "wait")
    /\ body[c] = "done"
    /\ ReaderTo(c, "clear")
    /\ UNCHANGED <<connVars, loginVars, sharedVars, removed>>

\* Mutant of AfterDisconnect: the owner is deleted without the comparison.
AfterDisconnectAnyOwner(c) ==
    /\ ReaderAt(c, "clear")
    /\ owner' = IF c \in removed /\ c \notin replaced THEN None ELSE owner
    /\ ReaderTo(c, "gone")
    /\ UNCHANGED <<connVars, loginVars, users, lock, removed>>

\* afterNaturalDisconnect: ClearGateOwner compares the address of the node.
AfterDisconnect(c) ==
    /\ ReaderAt(c, "clear")
    /\ owner' = IF c \in removed /\ c \notin replaced /\ owner = Home[c]
                THEN None ELSE owner
    /\ ReaderTo(c, "gone")
    /\ UNCHANGED <<connVars, loginVars, users, lock, removed>>

-----------------------------------------------------------------------------
OfflineStep(c) == StoreFlag(c) \/ Close(c)

KickStep(c) == KickLookup(c) \/ KickOffline(c) \/ KickReturns(c)

\* The rest of a Login that has got the lock.
LoginStep(c) ==
    \/ GetGateOwner(c) \/ Kicked(c) \/ KickFails(c)
    \/ TryBeginLogin(c) \/ Publish(c) \/ Name(c) \/ MarkOnline(c)
    \/ SetGateOwner(c) \/ UndoOwner(c) \/ ReleaseLoginLock(c)

LockStep(c) == AcquireLoginLock(c) \/ LockUnavailable(c)

\* The rest of a handleConn whose connection has ended.
CleanupStep(c) ==
    \/ CleanupLook(c) \/ CleanupDel(c) \/ CleanupOffline(c) \/ CleanupReturns(c)
    \/ AfterDisconnect(c)

Next ==
    \E c \in Conn :
        \/ Connect(c) \/ StartLogin(c) \/ LockStep(c) \/ LoginStep(c)
        \/ KickStep(c) \/ OfflineStep(c) \/ SendTimeout(c)
        \/ ReaderEnds(c) \/ CleanupStep(c)

Spec == Init /\ [][Next]_vars

\* Calls that have begun run to their end: the RPCs inside have timeouts.  A
\* reader whose connection was closed sees it.
FairSpec ==
    /\ Spec
    /\ \A c \in Conn :
        /\ WF_vars(LoginStep(c)) /\ WF_vars(LockStep(c)) /\ WF_vars(KickStep(c))
        /\ WF_vars(OfflineStep(c)) /\ WF_vars(CleanupStep(c))
        /\ WF_vars(body[c] = "done" /\ ReaderEnds(c))

-----------------------------------------------------------------------------
(* Properties *)

\* Every variable has its type; the session states and the program counters
\* of the goroutines are those of the code.
TypeOK ==
    /\ sess \in [Conn -> SessionState]
    /\ named \subseteq Conn
    /\ users \in [Node -> Conn \cup {None}]
    /\ owner \in Node \cup {None}
    /\ lock \in Conn \cup {None}
    /\ login \in [Conn -> LoginPc]
    /\ seen \in [Conn -> Node \cup {None}]
    /\ kick \in [Conn -> Kick]
    /\ \A c \in Conn : kick[c].pc \in {"cas", "wait"} => kick[c].victim # None
    /\ body \in [Conn -> {"no", "flag", "hook", "done"}]
    /\ mode \in [Conn -> BOOLEAN]
    /\ replaced \subseteq Conn
    /\ reader \in [Conn -> ReaderPc]
    /\ removed \subseteq Conn
    /\ missed \in BOOLEAN

\* c is online and its reader still takes requests of the client.
Serving(c) == sess[c] = "online" /\ ReaderAt(c, "read")

\* The user is served by one connection at a time, whatever ends or is kicked
\* beside the logins, as long as no remote kick failed (gate.go:86-105).
SingleOnline ==
    ~missed => \A c, d \in Conn : Serving(c) /\ Serving(d) => c = d

\* A connection that serves the user, its login over, is the one the owner
\* record leads to: the cleanup of earlier connections does not disturb the
\* record of a later login (tcp.go:1379, login_lock.go:67-70).
ServingIsOwner ==
    ~missed => \A c \in Conn : Serving(c) /\ LoginAt(c, "done") => owner = Home[c]

\* ... and the one its node finds, so that the next login kicks it.
ServingIsFound ==
    /\ ServingIsOwner
    /\ ~missed => \A c \in Conn : Serving(c) /\ LoginAt(c, "done") => users[Home[c]] = c

\* A session that began to go offline stays offline, whatever a login in
\* progress on it does (tcp.go:504-515).
OffliningIsFinal ==
    [][\A c \in Conn : sess[c] = "offlining" => sess'[c] = "offlining"]_vars

\* A login that got the lock ends and gives it back, also when it fails, or
\* waits for the cleanup of the session it kicks.
LoginEnds == \A c \in Conn : LoginAt(c, "owner") ~> (LoginAt(c, "done") /\ lock # c)

\* When the kick has returned and the new session runs its LoginHooks, the
\* OfflineHooks of the session that was the owner are over (gate.go:97-99,
\* login_lock.go:72-75).
HooksInOrder ==
    ~missed => \A c, d \in Conn :
        /\ c # d /\ c \in named /\ LoginAt(c, "done")
        /\ LoginAt(d, "mark") /\ kick[d].pc = "done" /\ seen[d] = Home[c]
        => body[c] \notin {"flag", "hook"}
=============================================================================
