-------------------------- MODULE GateLogin_proofs --------------------------
(***************************************************************************)
(* Proofs about GateLogin, for any number of connections and nodes: types, *)
(* the session state machine, and, when every connection has a node of its *)
(* own, that one connection at a time serves the user and that the owner   *)
(* record and its node's table lead to it.  With two connections on one    *)
(* node the last is not true (OneNode of MCGateLogin).                     *)
(*                                                                         *)
(* And about LoginToken, for any secrets, users and times: whom a token    *)
(* lets in.                                                                *)
(***************************************************************************)
EXTENDS GateLogin, LoginToken, TLAPS

-----------------------------------------------------------------------------
(* Types *)

\* A kick looks up the owner its Login has read, and there is none before.
Asked ==
    \A c \in Conn :
        /\ kick[c].pc = "lookup" => seen[c] # None
        /\ login[c] \in {"no", "lock", "owner"} => kick[c] = NoKick

TypeInv == TypeOK /\ Asked

\* The initial state is well typed: no connection, no session, no owner.
THEOREM TypeInit == Init => TypeInv
<1> SUFFICES ASSUME Init PROVE TypeInv
  OBVIOUS
<1>1. NoKick \in Kick /\ NoKick.pc = "no"
  BY DEF NoKick, Kick
<1>2. kick \in [Conn -> Kick] /\ \A c \in Conn : kick[c] = NoKick
  BY <1>1 DEF Init
<1>3. TypeOK
  BY <1>1, <1>2 DEF Init, TypeOK, SessionState, LoginPc, ReaderPc
<1>4. Asked
  BY <1>1, <1>2 DEF Asked
<1> QED
  BY <1>3, <1>4 DEF TypeInv

\* Moving a kick keeps its type.
LEMMA KickMoves ==
    ASSUME TypeOK, NEW c \in Conn, NEW pc \in {"no", "lookup", "cas", "wait", "done"},
           KickTo(c, pc), pc \in {"cas", "wait"} => kick[c].victim # None
    PROVE  /\ kick' \in [Conn -> Kick]
           /\ \A d \in Conn : kick'[d].pc \in {"cas", "wait"} => kick'[d].victim # None
           /\ kick'[c].pc = pc
           /\ \A d \in Conn \ {c} : kick'[d] = kick[d]
  BY DEF KickTo, TypeOK, Kick

\* Every step keeps the types.
THEOREM TypeStep == TypeInv /\ [Next]_vars => TypeInv'
<1> SUFFICES ASSUME TypeInv, [Next]_vars PROVE TypeInv'
  OBVIOUS
<1> USE GateAssumption DEF connVars, loginVars, sharedVars, readerVars,
      TypeInv, TypeOK, Asked, SessionState, LoginPc, Kick, NoKick,
      ReaderPc
<1>1. ASSUME NEW c \in Conn, Connect(c) PROVE TypeInv'
  BY <1>1 DEF Connect, ReaderTo
<1>2. ASSUME NEW c \in Conn, StartLogin(c) PROVE TypeInv'
  BY <1>2 DEF StartLogin, LoginAt, LoginTo
<1>3. ASSUME NEW c \in Conn, AcquireLoginLock(c) PROVE TypeInv'
  BY <1>3 DEF AcquireLoginLock, LoginAt, LoginTo
<1>4. ASSUME NEW c \in Conn, LockUnavailable(c) PROVE TypeInv'
  BY <1>4 DEF LockUnavailable, LoginAt, LoginTo
<1>5. ASSUME NEW c \in Conn, GetGateOwner(c) PROVE TypeInv'
  <2>1. kick[c] = NoKick /\ seen' \in [Conn -> Node \cup {None}] /\ seen'[c] = owner
    BY <1>5 DEF GetGateOwner, LoginAt, TypeInv, TypeOK, Asked
  <2>2. CASE owner = None
    BY <1>5, <2>1, <2>2 DEF GetGateOwner, LoginAt, LoginTo, connVars, sharedVars,
       readerVars, TypeInv, TypeOK, Asked, SessionState, LoginPc, Kick, NoKick, ReaderPc
  <2>3. CASE owner # None
    <3>1. KickTo(c, "lookup") /\ LoginTo(c, "kicking")
      BY <1>5, <2>3 DEF GetGateOwner
    <3>2. TypeOK'
      BY <1>5, <2>1, <3>1, KickMoves DEF GetGateOwner, LoginTo, connVars,
         sharedVars, readerVars, TypeInv, TypeOK, LoginPc
    <3>3. \A d \in Conn \ {c} : kick'[d] = kick[d] /\ seen'[d] = seen[d] /\ login'[d] = login[d]
      BY <1>5, <3>1, KickMoves DEF GetGateOwner, LoginTo, TypeInv, TypeOK
    <3>4. login'[c] = "kicking"
      BY <3>1 DEF LoginTo, TypeInv, TypeOK
    <3> QED
      BY <2>1, <2>3, <3>2, <3>3, <3>4 DEF TypeInv, Asked
  <2> QED
    BY <2>2, <2>3
<1>6. ASSUME NEW c \in Conn, Kicked(c) PROVE TypeInv'
  BY <1>6 DEF Kicked, LoginAt, LoginTo
<1>7. ASSUME NEW c \in Conn, KickFails(c) PROVE TypeInv'
  <2>1. /\ kick' \in [Conn -> Kick]
        /\ \A d \in Conn : kick'[d] = kick[d] \/ kick'[d] = NoKick
    <3>1. CASE kick' = kick
      BY <3>1 DEF TypeInv, TypeOK
    <3>2. CASE kick' = [kick EXCEPT ![c] = IF @.pc = "lookup" THEN NoKick ELSE @]
      BY <3>2 DEF TypeInv, TypeOK, Kick, NoKick
    <3> QED
      BY <1>7, <3>1, <3>2 DEF KickFails
  <2>2. NoKick.pc = "no"
    BY DEF NoKick
  <2>3. /\ login' \in [Conn -> LoginPc] /\ login'[c] = "begin" /\ missed' = TRUE
        /\ \A d \in Conn \ {c} : login'[d] = login[d]
    BY <1>7 DEF KickFails, LoginTo, TypeInv, TypeOK, LoginPc
  <2>4. TypeOK'
    BY <1>7, <2>1, <2>2, <2>3 DEF KickFails, connVars, sharedVars, readerVars, TypeInv,
       TypeOK
  <2>5. Asked'
    BY <1>7, <2>1, <2>2, <2>3 DEF KickFails, TypeInv, Asked
  <2> QED
    BY <2>4, <2>5 DEF TypeInv
<1>8. ASSUME NEW c \in Conn, TryBeginLogin(c) PROVE TypeInv'
  BY SMTT(30), <1>8 DEF TryBeginLogin, LoginAt, LoginTo
<1>9. ASSUME NEW c \in Conn, Publish(c) PROVE TypeInv'
  BY <1>9 DEF Publish, LoginAt, LoginTo
<1>10. ASSUME NEW c \in Conn, Name(c) PROVE TypeInv'
  BY <1>10 DEF Name, LoginAt, LoginTo
<1>11. ASSUME NEW c \in Conn, MarkOnline(c) PROVE TypeInv'
  BY SMTT(30), <1>11 DEF MarkOnline, LoginAt, LoginTo
<1>12. ASSUME NEW c \in Conn, SetGateOwner(c) PROVE TypeInv'
  BY <1>12 DEF SetGateOwner, LoginAt, LoginTo
<1>13. ASSUME NEW c \in Conn, UndoOwner(c) PROVE TypeInv'
  BY <1>13 DEF UndoOwner, LoginAt, LoginTo
<1>14. ASSUME NEW c \in Conn, ReleaseLoginLock(c) PROVE TypeInv'
  BY <1>14 DEF ReleaseLoginLock, LoginAt, LoginTo
<1>15. ASSUME NEW c \in Conn, KickLookup(c) PROVE TypeInv'
  <2> DEFINE v == users[seen[c]]
  <2>1. v \in Conn \cup {None}
    BY <1>15 DEF KickLookup, TypeInv, TypeOK, Asked
  <2> DEFINE k == [pc |-> IF v = None THEN "done" ELSE "cas", victim |-> v]
  <2>2. k \in Kick /\ k.pc # "lookup" /\ (k.pc \in {"cas", "wait"} => k.victim # None)
    BY <2>1 DEF Kick
  <2>3. kick' = [kick EXCEPT ![c] = k] /\ kick[c].pc = "lookup"
    BY <1>15 DEF KickLookup
  <2> HIDE DEF k
  <2>4. /\ kick' \in [Conn -> Kick]
        /\ kick'[c] = k
        /\ \A d \in Conn \ {c} : kick'[d] = kick[d]
    BY <2>2, <2>3 DEF TypeInv, TypeOK
  <2>5. login[c] \notin {"no", "lock", "owner"}
    BY <2>3 DEF TypeInv, Asked, NoKick
  <2> QED
    BY <1>15, <2>2, <2>4, <2>5 DEF KickLookup, connVars, sharedVars, readerVars,
       TypeInv, TypeOK, Asked
<1>16. ASSUME NEW c \in Conn, KickOffline(c) PROVE TypeInv'
  <2> DEFINE v == kick[c].victim
  <2>1. v \in Conn /\ login[c] \notin {"no", "lock", "owner"} /\ login' = login /\ seen' = seen
    BY <1>16 DEF KickOffline, TypeInv, TypeOK, Asked, Kick, NoKick
  <2>2. KickTo(c, "done") \/ KickTo(c, "wait")
    BY <1>16 DEF KickOffline
  <2>3. /\ kick' \in [Conn -> Kick]
        /\ \A d \in Conn : kick'[d].pc \in {"cas", "wait"} => kick'[d].victim # None
        /\ kick'[c].pc # "lookup"
        /\ \A d \in Conn \ {c} : kick'[d] = kick[d]
    BY <2>1, <2>2, KickMoves, GateAssumption DEF TypeInv
  <2>4. /\ sess' \in [Conn -> SessionState]
        /\ mode' \in [Conn -> BOOLEAN]
        /\ body' \in [Conn -> {"no", "flag", "hook", "done"}]
    <3>1. CASE sess[v] = "offlining"
      BY <1>16, <3>1 DEF KickOffline, TypeInv, TypeOK
    <3>2. CASE sess[v] # "offlining"
      <4>1. PICK r \in BOOLEAN : BeginOfflining(v, r)
        BY <1>16, <3>2 DEF KickOffline
      <4> QED
        BY <2>1, <4>1 DEF BeginOfflining, TypeInv, TypeOK, SessionState
    <3> QED
      BY <3>1, <3>2
  <2>5. TypeOK'
    BY <1>16, <2>3, <2>4 DEF KickOffline, sharedVars, readerVars, TypeInv, TypeOK
  <2>6. Asked'
    BY <2>1, <2>3 DEF TypeInv, Asked
  <2> QED
    BY <2>5, <2>6 DEF TypeInv
<1>17. ASSUME NEW c \in Conn, KickReturns(c) PROVE TypeInv'
  BY <1>17 DEF KickReturns, KickTo
<1>18. ASSUME NEW c \in Conn, StoreFlag(c) PROVE TypeInv'
  BY <1>18 DEF StoreFlag
<1>19. ASSUME NEW c \in Conn, Close(c) PROVE TypeInv'
  BY <1>19 DEF Close
<1>20. ASSUME NEW c \in Conn, SendTimeout(c) PROVE TypeInv'
  BY <1>20 DEF SendTimeout, BeginOfflining
<1>21. ASSUME NEW c \in Conn, ReaderEnds(c) PROVE TypeInv'
  BY <1>21 DEF ReaderEnds, ReaderAt, ReaderTo
<1>22. ASSUME NEW c \in Conn, CleanupLook(c) PROVE TypeInv'
  BY <1>22 DEF CleanupLook, ReaderAt, ReaderTo
<1>23. ASSUME NEW c \in Conn, CleanupDel(c) PROVE TypeInv'
  BY <1>23 DEF CleanupDel, ReaderAt, ReaderTo
<1>24. ASSUME NEW c \in Conn, CleanupOffline(c) PROVE TypeInv'
  <2>1. /\ sess' \in [Conn -> SessionState]
        /\ mode' \in [Conn -> BOOLEAN]
        /\ body' \in [Conn -> {"no", "flag", "hook", "done"}]
        /\ reader' \in [Conn -> ReaderPc]
    <3>1. CASE sess[c] = "offlining"
      BY <1>24, <3>1 DEF CleanupOffline, ReaderTo, TypeInv, TypeOK, ReaderPc
    <3>2. CASE sess[c] # "offlining"
      <4>1. ReaderTo(c, "wait") /\ BeginOfflining(c, FALSE)
        BY <1>24, <3>2 DEF CleanupOffline
      <4>2. reader' \in [Conn -> ReaderPc]
        BY <4>1 DEF ReaderTo, TypeInv, TypeOK, ReaderPc
      <4> QED
        BY <4>1, <4>2 DEF BeginOfflining, TypeInv, TypeOK, SessionState
    <3> QED
      BY <3>1, <3>2
  <2> QED
    BY <1>24, <2>1 DEF CleanupOffline, loginVars, sharedVars, TypeInv, TypeOK, Asked
<1>25. ASSUME NEW c \in Conn, CleanupReturns(c) PROVE TypeInv'
  BY <1>25 DEF CleanupReturns, ReaderAt, ReaderTo
<1>26. ASSUME NEW c \in Conn, AfterDisconnect(c) PROVE TypeInv'
  BY <1>26 DEF AfterDisconnect, ReaderAt, ReaderTo
<1>27. CASE UNCHANGED vars
  BY <1>27 DEF vars
<1> QED
  BY <1>1, <1>2, <1>3, <1>4, <1>5, <1>6, <1>7, <1>8, <1>9, <1>10, <1>11,
     <1>12, <1>13, <1>14, <1>15, <1>16, <1>17, <1>18, <1>19, <1>20, <1>21,
     <1>22, <1>23, <1>24, <1>25, <1>26, <1>27 DEF Next, LockStep, LoginStep,
     KickStep, OfflineStep, CleanupStep

\* Every reachable state is well typed.
THEOREM TypeCorrect == Spec => []TypeOK
<1>1. Spec => []TypeInv
  BY TypeInit, TypeStep, PTL DEF Spec
<1>2. TypeInv => TypeOK
  BY DEF TypeInv
<1> QED
  BY <1>1, <1>2, PTL

-----------------------------------------------------------------------------
(* Sessions *)

\* No step takes a session out of "offlining".
THEOREM OffliningStep ==
    TypeOK /\ [Next]_vars
        => \A d \in Conn : sess[d] = "offlining" => sess'[d] = "offlining"
<1> SUFFICES ASSUME TypeOK, [Next]_vars, NEW d \in Conn, sess[d] = "offlining"
             PROVE  sess'[d] = "offlining"
  OBVIOUS
<1> USE GateAssumption DEF connVars, loginVars, sharedVars, readerVars,
      TypeOK
<1>1. ASSUME NEW c \in Conn, Connect(c) PROVE sess'[d] = "offlining"
  BY <1>1 DEF Connect, ReaderTo
<1>2. ASSUME NEW c \in Conn, StartLogin(c) PROVE sess'[d] = "offlining"
  BY <1>2 DEF StartLogin, LoginAt, LoginTo
<1>3. ASSUME NEW c \in Conn, AcquireLoginLock(c) PROVE sess'[d] = "offlining"
  BY <1>3 DEF AcquireLoginLock, LoginAt, LoginTo
<1>4. ASSUME NEW c \in Conn, LockUnavailable(c) PROVE sess'[d] = "offlining"
  BY <1>4 DEF LockUnavailable, LoginAt, LoginTo
<1>5. ASSUME NEW c \in Conn, GetGateOwner(c) PROVE sess'[d] = "offlining"
  BY <1>5 DEF GetGateOwner, LoginAt, LoginTo, KickTo
<1>6. ASSUME NEW c \in Conn, Kicked(c) PROVE sess'[d] = "offlining"
  BY <1>6 DEF Kicked, LoginAt, LoginTo
<1>7. ASSUME NEW c \in Conn, KickFails(c) PROVE sess'[d] = "offlining"
  BY <1>7 DEF KickFails, LoginAt, LoginTo
<1>8. ASSUME NEW c \in Conn, TryBeginLogin(c) PROVE sess'[d] = "offlining"
  BY <1>8 DEF TryBeginLogin, LoginAt, LoginTo
<1>9. ASSUME NEW c \in Conn, Publish(c) PROVE sess'[d] = "offlining"
  BY <1>9 DEF Publish, LoginAt, LoginTo
<1>10. ASSUME NEW c \in Conn, Name(c) PROVE sess'[d] = "offlining"
  BY <1>10 DEF Name, LoginAt, LoginTo
<1>11. ASSUME NEW c \in Conn, MarkOnline(c) PROVE sess'[d] = "offlining"
  BY <1>11 DEF MarkOnline, LoginAt, LoginTo
<1>12. ASSUME NEW c \in Conn, SetGateOwner(c) PROVE sess'[d] = "offlining"
  BY <1>12 DEF SetGateOwner, LoginAt, LoginTo
<1>13. ASSUME NEW c \in Conn, UndoOwner(c) PROVE sess'[d] = "offlining"
  BY <1>13 DEF UndoOwner, LoginAt, LoginTo
<1>14. ASSUME NEW c \in Conn, ReleaseLoginLock(c) PROVE sess'[d] = "offlining"
  BY <1>14 DEF ReleaseLoginLock, LoginAt, LoginTo
<1>15. ASSUME NEW c \in Conn, KickLookup(c) PROVE sess'[d] = "offlining"
  BY <1>15 DEF KickLookup
<1>16. ASSUME NEW c \in Conn, KickOffline(c) PROVE sess'[d] = "offlining"
  BY <1>16 DEF KickOffline, KickTo, BeginOfflining
<1>17. ASSUME NEW c \in Conn, KickReturns(c) PROVE sess'[d] = "offlining"
  BY <1>17 DEF KickReturns, KickTo
<1>18. ASSUME NEW c \in Conn, StoreFlag(c) PROVE sess'[d] = "offlining"
  BY <1>18 DEF StoreFlag
<1>19. ASSUME NEW c \in Conn, Close(c) PROVE sess'[d] = "offlining"
  BY <1>19 DEF Close
<1>20. ASSUME NEW c \in Conn, SendTimeout(c) PROVE sess'[d] = "offlining"
  BY <1>20 DEF SendTimeout, BeginOfflining
<1>21. ASSUME NEW c \in Conn, ReaderEnds(c) PROVE sess'[d] = "offlining"
  BY <1>21 DEF ReaderEnds, ReaderAt, ReaderTo
<1>22. ASSUME NEW c \in Conn, CleanupLook(c) PROVE sess'[d] = "offlining"
  BY <1>22 DEF CleanupLook, ReaderAt, ReaderTo
<1>23. ASSUME NEW c \in Conn, CleanupDel(c) PROVE sess'[d] = "offlining"
  BY <1>23 DEF CleanupDel, ReaderAt, ReaderTo
<1>24. ASSUME NEW c \in Conn, CleanupOffline(c) PROVE sess'[d] = "offlining"
  BY <1>24 DEF CleanupOffline, ReaderAt, ReaderTo, BeginOfflining
<1>25. ASSUME NEW c \in Conn, CleanupReturns(c) PROVE sess'[d] = "offlining"
  BY <1>25 DEF CleanupReturns, ReaderAt, ReaderTo
<1>26. ASSUME NEW c \in Conn, AfterDisconnect(c) PROVE sess'[d] = "offlining"
  BY <1>26 DEF AfterDisconnect, ReaderAt, ReaderTo
<1>27. CASE UNCHANGED vars
  BY <1>27 DEF vars
<1> QED
  BY <1>1, <1>2, <1>3, <1>4, <1>5, <1>6, <1>7, <1>8, <1>9, <1>10, <1>11,
     <1>12, <1>13, <1>14, <1>15, <1>16, <1>17, <1>18, <1>19, <1>20, <1>21,
     <1>22, <1>23, <1>24, <1>25, <1>26, <1>27 DEF Next, LockStep, LoginStep,
     KickStep, OfflineStep, CleanupStep

\* A session that began to go offline stays offline (tcp.go:504-515).
THEOREM OffliningCorrect == Spec => OffliningIsFinal
<1>1. TypeOK /\ [Next]_vars => [\A c \in Conn : sess[c] = "offlining" => sess'[c] = "offlining"]_vars
  BY OffliningStep
<1> QED
  BY <1>1, TypeCorrect, PTL DEF Spec, OffliningIsFinal

-----------------------------------------------------------------------------
(* The invariant behind SingleOnline *)

\* Every connection has a gateway of its own.
OnePerNode == \A c, d \in Conn : Home[c] = Home[d] => c = d

\* From the kick's end to the release of the lock.
AfterKick == {"begin", "publish", "name", "mark", "setOwner", "undo", "unlock"}

\* A login past AcquireLoginLock holds the lock.
LockHeld ==
    \A c \in Conn : login[c] \in {"owner", "kicking"} \cup AfterKick => lock = c

\* What a session can be while its login is under way.
Progress ==
    \A c \in Conn :
        /\ login[c] = "no" => sess[c] \in {"new", "idle", "offlining"}
        /\ login[c] \in {"lock", "owner", "kicking", "begin"} => sess[c] \in {"idle", "offlining"}
        /\ login[c] \in {"publish", "name", "mark"} => sess[c] \in {"loggingIn", "offlining"}
        /\ login[c] = "undo" => sess[c] = "offlining"

\* From Publish on, the node of a connection that is read finds it.
Listed ==
    \A c \in Conn :
        ReaderAt(c, "read") /\ (login[c] \in {"name", "mark"} \/ sess[c] = "online")
            => users[Home[c]] = c

\* The owner record leads to the connection that serves.
Owned == \A c \in Conn : Serving(c) /\ login[c] \in {"unlock", "done"} => owner = Home[c]

\* After the kick of its login, no other connection serves the user.
Alone == \A c, d \in Conn : c # d /\ login[d] \in AfterKick => ~Serving(c)

\* While a login kicks, a connection that still serves is the one it kicks.
Targeted ==
    \A c, d \in Conn :
        c # d /\ login[d] = "kicking" /\ Serving(c) =>
            /\ seen[d] = Home[c]
            /\ \/ kick[d].pc = "lookup"
               \/ kick[d].pc = "cas" /\ kick[d].victim = c

OnlineInv ==
    /\ TypeInv
    /\ LockHeld
    /\ Progress
    /\ Listed
    /\ ~missed => Owned /\ Alone /\ Targeted

\* It holds before the first connection.
THEOREM OnlineInit == Init => OnlineInv
<1> SUFFICES ASSUME Init PROVE OnlineInv
  OBVIOUS
<1>1. TypeInv
  BY TypeInit
<1> QED
  BY <1>1 DEF Init, OnlineInv, LockHeld, AfterKick, Progress, Listed, Owned, Alone,
     Targeted, Serving, ReaderAt

\* The login lock excludes: AcquireLoginLock waits for it to be free.
LEMMA LockHeldStep == TypeOK /\ LockHeld /\ [Next]_vars => LockHeld'
<1> SUFFICES ASSUME TypeOK, LockHeld, [Next]_vars PROVE LockHeld'
  OBVIOUS
<1> USE GateAssumption DEF connVars, loginVars, sharedVars, readerVars,
      TypeOK, LockHeld, AfterKick
<1>1. ASSUME NEW c \in Conn, Connect(c) PROVE LockHeld'
  BY <1>1 DEF Connect, ReaderTo
<1>2. ASSUME NEW c \in Conn, StartLogin(c) PROVE LockHeld'
  BY <1>2 DEF StartLogin, LoginAt, LoginTo
<1>3. ASSUME NEW c \in Conn, AcquireLoginLock(c) PROVE LockHeld'
  BY <1>3 DEF AcquireLoginLock, LoginAt, LoginTo
<1>4. ASSUME NEW c \in Conn, LockUnavailable(c) PROVE LockHeld'
  BY <1>4 DEF LockUnavailable, LoginAt, LoginTo
<1>5. ASSUME NEW c \in Conn, GetGateOwner(c) PROVE LockHeld'
  BY <1>5 DEF GetGateOwner, LoginAt, LoginTo, KickTo
<1>6. ASSUME NEW c \in Conn, Kicked(c) PROVE LockHeld'
  BY <1>6 DEF Kicked, LoginAt, LoginTo
<1>7. ASSUME NEW c \in Conn, KickFails(c) PROVE LockHeld'
  BY <1>7 DEF KickFails, LoginAt, LoginTo
<1>8. ASSUME NEW c \in Conn, TryBeginLogin(c) PROVE LockHeld'
  BY <1>8 DEF TryBeginLogin, LoginAt, LoginTo
<1>9. ASSUME NEW c \in Conn, Publish(c) PROVE LockHeld'
  BY <1>9 DEF Publish, LoginAt, LoginTo
<1>10. ASSUME NEW c \in Conn, Name(c) PROVE LockHeld'
  BY <1>10 DEF Name, LoginAt, LoginTo
<1>11. ASSUME NEW c \in Conn, MarkOnline(c) PROVE LockHeld'
  BY <1>11 DEF MarkOnline, LoginAt, LoginTo
<1>12. ASSUME NEW c \in Conn, SetGateOwner(c) PROVE LockHeld'
  BY <1>12 DEF SetGateOwner, LoginAt, LoginTo
<1>13. ASSUME NEW c \in Conn, UndoOwner(c) PROVE LockHeld'
  BY <1>13 DEF UndoOwner, LoginAt, LoginTo
<1>14. ASSUME NEW c \in Conn, ReleaseLoginLock(c) PROVE LockHeld'
  BY <1>14 DEF ReleaseLoginLock, LoginAt, LoginTo
<1>15. ASSUME NEW c \in Conn, KickLookup(c) PROVE LockHeld'
  BY <1>15 DEF KickLookup
<1>16. ASSUME NEW c \in Conn, KickOffline(c) PROVE LockHeld'
  BY <1>16 DEF KickOffline, KickTo, BeginOfflining
<1>17. ASSUME NEW c \in Conn, KickReturns(c) PROVE LockHeld'
  BY <1>17 DEF KickReturns, KickTo
<1>18. ASSUME NEW c \in Conn, StoreFlag(c) PROVE LockHeld'
  BY <1>18 DEF StoreFlag
<1>19. ASSUME NEW c \in Conn, Close(c) PROVE LockHeld'
  BY <1>19 DEF Close
<1>20. ASSUME NEW c \in Conn, SendTimeout(c) PROVE LockHeld'
  BY <1>20 DEF SendTimeout, BeginOfflining
<1>21. ASSUME NEW c \in Conn, ReaderEnds(c) PROVE LockHeld'
  BY <1>21 DEF ReaderEnds, ReaderAt, ReaderTo
<1>22. ASSUME NEW c \in Conn, CleanupLook(c) PROVE LockHeld'
  BY <1>22 DEF CleanupLook, ReaderAt, ReaderTo
<1>23. ASSUME NEW c \in Conn, CleanupDel(c) PROVE LockHeld'
  BY <1>23 DEF CleanupDel, ReaderAt, ReaderTo
<1>24. ASSUME NEW c \in Conn, CleanupOffline(c) PROVE LockHeld'
  BY <1>24 DEF CleanupOffline, ReaderAt, ReaderTo, BeginOfflining
<1>25. ASSUME NEW c \in Conn, CleanupReturns(c) PROVE LockHeld'
  BY <1>25 DEF CleanupReturns, ReaderAt, ReaderTo
<1>26. ASSUME NEW c \in Conn, AfterDisconnect(c) PROVE LockHeld'
  BY <1>26 DEF AfterDisconnect, ReaderAt, ReaderTo
<1>27. CASE UNCHANGED vars
  BY <1>27 DEF vars
<1> QED
  BY <1>1, <1>2, <1>3, <1>4, <1>5, <1>6, <1>7, <1>8, <1>9, <1>10, <1>11,
     <1>12, <1>13, <1>14, <1>15, <1>16, <1>17, <1>18, <1>19, <1>20, <1>21,
     <1>22, <1>23, <1>24, <1>25, <1>26, <1>27 DEF Next, LockStep, LoginStep,
     KickStep, OfflineStep, CleanupStep

\* A login and its session move together.
LEMMA ProgressStep == TypeOK /\ Progress /\ [Next]_vars => Progress'
<1> SUFFICES ASSUME TypeOK, Progress, [Next]_vars PROVE Progress'
  OBVIOUS
<1> USE GateAssumption DEF connVars, loginVars, sharedVars, readerVars,
      TypeOK, Progress
<1>1. ASSUME NEW c \in Conn, Connect(c) PROVE Progress'
  BY <1>1 DEF Connect, ReaderTo
<1>2. ASSUME NEW c \in Conn, StartLogin(c) PROVE Progress'
  BY <1>2 DEF StartLogin, LoginAt, LoginTo
<1>3. ASSUME NEW c \in Conn, AcquireLoginLock(c) PROVE Progress'
  BY <1>3 DEF AcquireLoginLock, LoginAt, LoginTo
<1>4. ASSUME NEW c \in Conn, LockUnavailable(c) PROVE Progress'
  BY <1>4 DEF LockUnavailable, LoginAt, LoginTo
<1>5. ASSUME NEW c \in Conn, GetGateOwner(c) PROVE Progress'
  BY <1>5 DEF GetGateOwner, LoginAt, LoginTo, KickTo
<1>6. ASSUME NEW c \in Conn, Kicked(c) PROVE Progress'
  BY <1>6 DEF Kicked, LoginAt, LoginTo
<1>7. ASSUME NEW c \in Conn, KickFails(c) PROVE Progress'
  BY <1>7 DEF KickFails, LoginAt, LoginTo
<1>8. ASSUME NEW c \in Conn, TryBeginLogin(c) PROVE Progress'
  BY <1>8 DEF TryBeginLogin, LoginAt, LoginTo
<1>9. ASSUME NEW c \in Conn, Publish(c) PROVE Progress'
  BY <1>9 DEF Publish, LoginAt, LoginTo
<1>10. ASSUME NEW c \in Conn, Name(c) PROVE Progress'
  BY <1>10 DEF Name, LoginAt, LoginTo
<1>11. ASSUME NEW c \in Conn, MarkOnline(c) PROVE Progress'
  BY <1>11 DEF MarkOnline, LoginAt, LoginTo
<1>12. ASSUME NEW c \in Conn, SetGateOwner(c) PROVE Progress'
  BY <1>12 DEF SetGateOwner, LoginAt, LoginTo
<1>13. ASSUME NEW c \in Conn, UndoOwner(c) PROVE Progress'
  BY <1>13 DEF UndoOwner, LoginAt, LoginTo
<1>14. ASSUME NEW c \in Conn, ReleaseLoginLock(c) PROVE Progress'
  BY <1>14 DEF ReleaseLoginLock, LoginAt, LoginTo
<1>15. ASSUME NEW c \in Conn, KickLookup(c) PROVE Progress'
  BY <1>15 DEF KickLookup
<1>16. ASSUME NEW c \in Conn, KickOffline(c) PROVE Progress'
  BY <1>16 DEF KickOffline, KickTo, BeginOfflining
<1>17. ASSUME NEW c \in Conn, KickReturns(c) PROVE Progress'
  BY <1>17 DEF KickReturns, KickTo
<1>18. ASSUME NEW c \in Conn, StoreFlag(c) PROVE Progress'
  BY <1>18 DEF StoreFlag
<1>19. ASSUME NEW c \in Conn, Close(c) PROVE Progress'
  BY <1>19 DEF Close
<1>20. ASSUME NEW c \in Conn, SendTimeout(c) PROVE Progress'
  BY <1>20 DEF SendTimeout, BeginOfflining
<1>21. ASSUME NEW c \in Conn, ReaderEnds(c) PROVE Progress'
  BY <1>21 DEF ReaderEnds, ReaderAt, ReaderTo
<1>22. ASSUME NEW c \in Conn, CleanupLook(c) PROVE Progress'
  BY <1>22 DEF CleanupLook, ReaderAt, ReaderTo
<1>23. ASSUME NEW c \in Conn, CleanupDel(c) PROVE Progress'
  BY <1>23 DEF CleanupDel, ReaderAt, ReaderTo
<1>24. ASSUME NEW c \in Conn, CleanupOffline(c) PROVE Progress'
  BY <1>24 DEF CleanupOffline, ReaderAt, ReaderTo, BeginOfflining
<1>25. ASSUME NEW c \in Conn, CleanupReturns(c) PROVE Progress'
  BY <1>25 DEF CleanupReturns, ReaderAt, ReaderTo
<1>26. ASSUME NEW c \in Conn, AfterDisconnect(c) PROVE Progress'
  BY <1>26 DEF AfterDisconnect, ReaderAt, ReaderTo
<1>27. CASE UNCHANGED vars
  BY <1>27 DEF vars
<1> QED
  BY <1>1, <1>2, <1>3, <1>4, <1>5, <1>6, <1>7, <1>8, <1>9, <1>10, <1>11,
     <1>12, <1>13, <1>14, <1>15, <1>16, <1>17, <1>18, <1>19, <1>20, <1>21,
     <1>22, <1>23, <1>24, <1>25, <1>26, <1>27 DEF Next, LockStep, LoginStep,
     KickStep, OfflineStep, CleanupStep

\* Only the cleanup of a connection itself, or its own failing login, removes
\* its entry.
LEMMA ListedStep ==
    TypeOK /\ OnePerNode /\ Progress /\ Listed /\ [Next]_vars => Listed'
<1> SUFFICES ASSUME TypeOK, OnePerNode, Progress, Listed, [Next]_vars PROVE Listed'
  OBVIOUS
<1> USE GateAssumption DEF connVars, loginVars, sharedVars, readerVars,
      TypeOK, Listed, Progress, OnePerNode, ReaderAt
<1>1. ASSUME NEW c \in Conn, Connect(c) PROVE Listed'
  BY <1>1 DEF Connect, ReaderTo
<1>2. ASSUME NEW c \in Conn, StartLogin(c) PROVE Listed'
  BY <1>2 DEF StartLogin, LoginAt, LoginTo
<1>3. ASSUME NEW c \in Conn, AcquireLoginLock(c) PROVE Listed'
  BY <1>3 DEF AcquireLoginLock, LoginAt, LoginTo
<1>4. ASSUME NEW c \in Conn, LockUnavailable(c) PROVE Listed'
  BY <1>4 DEF LockUnavailable, LoginAt, LoginTo
<1>5. ASSUME NEW c \in Conn, GetGateOwner(c) PROVE Listed'
  BY <1>5 DEF GetGateOwner, LoginAt, LoginTo, KickTo
<1>6. ASSUME NEW c \in Conn, Kicked(c) PROVE Listed'
  BY <1>6 DEF Kicked, LoginAt, LoginTo
<1>7. ASSUME NEW c \in Conn, KickFails(c) PROVE Listed'
  BY <1>7 DEF KickFails, LoginAt, LoginTo
<1>8. ASSUME NEW c \in Conn, TryBeginLogin(c) PROVE Listed'
  BY <1>8 DEF TryBeginLogin, LoginAt, LoginTo
<1>9. ASSUME NEW c \in Conn, Publish(c) PROVE Listed'
  BY <1>9 DEF Publish, LoginAt, LoginTo
<1>10. ASSUME NEW c \in Conn, Name(c) PROVE Listed'
  BY <1>10 DEF Name, LoginAt, LoginTo
<1>11. ASSUME NEW c \in Conn, MarkOnline(c) PROVE Listed'
  BY <1>11 DEF MarkOnline, LoginAt, LoginTo
<1>12. ASSUME NEW c \in Conn, SetGateOwner(c) PROVE Listed'
  BY <1>12 DEF SetGateOwner, LoginAt, LoginTo
<1>13. ASSUME NEW c \in Conn, UndoOwner(c) PROVE Listed'
  BY <1>13 DEF UndoOwner, LoginAt, LoginTo
<1>14. ASSUME NEW c \in Conn, ReleaseLoginLock(c) PROVE Listed'
  BY <1>14 DEF ReleaseLoginLock, LoginAt, LoginTo
<1>15. ASSUME NEW c \in Conn, KickLookup(c) PROVE Listed'
  BY <1>15 DEF KickLookup
<1>16. ASSUME NEW c \in Conn, KickOffline(c) PROVE Listed'
  BY <1>16 DEF KickOffline, KickTo, BeginOfflining
<1>17. ASSUME NEW c \in Conn, KickReturns(c) PROVE Listed'
  BY <1>17 DEF KickReturns, KickTo
<1>18. ASSUME NEW c \in Conn, StoreFlag(c) PROVE Listed'
  BY <1>18 DEF StoreFlag
<1>19. ASSUME NEW c \in Conn, Close(c) PROVE Listed'
  BY <1>19 DEF Close
<1>20. ASSUME NEW c \in Conn, SendTimeout(c) PROVE Listed'
  BY <1>20 DEF SendTimeout, BeginOfflining
<1>21. ASSUME NEW c \in Conn, ReaderEnds(c) PROVE Listed'
  BY <1>21 DEF ReaderEnds, ReaderAt, ReaderTo
<1>22. ASSUME NEW c \in Conn, CleanupLook(c) PROVE Listed'
  BY <1>22 DEF CleanupLook, ReaderAt, ReaderTo
<1>23. ASSUME NEW c \in Conn, CleanupDel(c) PROVE Listed'
  BY <1>23 DEF CleanupDel, ReaderAt, ReaderTo
<1>24. ASSUME NEW c \in Conn, CleanupOffline(c) PROVE Listed'
  BY <1>24 DEF CleanupOffline, ReaderAt, ReaderTo, BeginOfflining
<1>25. ASSUME NEW c \in Conn, CleanupReturns(c) PROVE Listed'
  BY <1>25 DEF CleanupReturns, ReaderAt, ReaderTo
<1>26. ASSUME NEW c \in Conn, AfterDisconnect(c) PROVE Listed'
  BY <1>26 DEF AfterDisconnect, ReaderAt, ReaderTo
<1>27. CASE UNCHANGED vars
  BY <1>27 DEF vars
<1> QED
  BY <1>1, <1>2, <1>3, <1>4, <1>5, <1>6, <1>7, <1>8, <1>9, <1>10, <1>11,
     <1>12, <1>13, <1>14, <1>15, <1>16, <1>17, <1>18, <1>19, <1>20, <1>21,
     <1>22, <1>23, <1>24, <1>25, <1>26, <1>27 DEF Next, LockStep, LoginStep,
     KickStep, OfflineStep, CleanupStep

\* While no remote kick fails, a login kicks whoever serves before it goes on.
LEMMA AloneStep ==
    ASSUME OnePerNode, TypeOK, LockHeld, Progress, Listed, Owned, Alone, Targeted,
           [Next]_vars, ~missed'
    PROVE  Owned' /\ Alone' /\ Targeted'
<1> USE GateAssumption DEF connVars, loginVars, sharedVars, readerVars,
      TypeOK, LockHeld, AfterKick, Listed, Progress, OnePerNode, Owned,
      Alone, Targeted, Serving, ReaderAt
<1>1. ASSUME NEW c \in Conn, Connect(c) PROVE Owned' /\ Alone' /\ Targeted'
  BY <1>1 DEF Connect, ReaderTo
<1>2. ASSUME NEW c \in Conn, StartLogin(c) PROVE Owned' /\ Alone' /\ Targeted'
  BY <1>2 DEF StartLogin, LoginAt, LoginTo
<1>3. ASSUME NEW c \in Conn, AcquireLoginLock(c) PROVE Owned' /\ Alone' /\ Targeted'
  BY <1>3 DEF AcquireLoginLock, LoginAt, LoginTo
<1>4. ASSUME NEW c \in Conn, LockUnavailable(c) PROVE Owned' /\ Alone' /\ Targeted'
  BY <1>4 DEF LockUnavailable, LoginAt, LoginTo
<1>5. ASSUME NEW c \in Conn, GetGateOwner(c) PROVE Owned' /\ Alone' /\ Targeted'
  <2>1. \A d \in Conn : d # c /\ Serving(d) => owner = Home[d] /\ owner # None
    BY <1>5 DEF GetGateOwner, LoginAt, TypeOK, SessionState, LoginPc, LockHeld,
       AfterKick, Progress, Owned, Serving
  <2>2. /\ sess' = sess /\ reader' = reader /\ owner' = owner
        /\ seen' = [seen EXCEPT ![c] = owner]
    BY <1>5 DEF GetGateOwner, connVars, sharedVars, readerVars
  <2>3. \A d \in Conn : Serving(d)' <=> Serving(d)
    BY <2>2 DEF Serving, ReaderAt
  <2>4. CASE owner = None
    <3>1. LoginTo(c, "begin") /\ kick' = kick
      BY <1>5, <2>4 DEF GetGateOwner
    <3> QED
      BY <1>5, <2>1, <2>2, <2>3, <2>4, <3>1 DEF GetGateOwner, LoginAt, LoginTo,
         TypeOK, AfterKick, Owned, Alone, Targeted
  <2>5. CASE owner # None
    <3>1. LoginTo(c, "kicking") /\ KickTo(c, "lookup")
      BY <1>5, <2>5 DEF GetGateOwner
    <3>2. kick'[c].pc = "lookup" /\ \A d \in Conn \ {c} : kick'[d] = kick[d]
      BY <3>1, KickMoves
    <3>3. login'[c] = "kicking" /\ \A d \in Conn \ {c} : login'[d] = login[d]
      BY <3>1 DEF LoginTo, TypeOK
    <3>4. seen'[c] = owner /\ \A d \in Conn \ {c} : seen'[d] = seen[d]
      BY <2>2 DEF TypeOK
    <3> QED
      BY <2>1, <2>2, <2>3, <3>2, <3>3, <3>4 DEF AfterKick, Owned, Alone, Targeted
  <2> QED
    BY <2>4, <2>5
<1>6. ASSUME NEW c \in Conn, Kicked(c) PROVE Owned' /\ Alone' /\ Targeted'
  BY <1>6 DEF Kicked, LoginAt, LoginTo
<1>7. ASSUME NEW c \in Conn, KickFails(c) PROVE Owned' /\ Alone' /\ Targeted'
  BY <1>7 DEF KickFails, LoginAt, LoginTo
<1>8. ASSUME NEW c \in Conn, TryBeginLogin(c) PROVE Owned' /\ Alone' /\ Targeted'
  BY <1>8 DEF TryBeginLogin, LoginAt, LoginTo
<1>9. ASSUME NEW c \in Conn, Publish(c) PROVE Owned' /\ Alone' /\ Targeted'
  BY <1>9 DEF Publish, LoginAt, LoginTo
<1>10. ASSUME NEW c \in Conn, Name(c) PROVE Owned' /\ Alone' /\ Targeted'
  BY <1>10 DEF Name, LoginAt, LoginTo
<1>11. ASSUME NEW c \in Conn, MarkOnline(c) PROVE Owned' /\ Alone' /\ Targeted'
  <2>1. /\ \A d \in Conn \ {c} : sess'[d] = sess[d] /\ login'[d] = login[d]
        /\ reader' = reader
    BY <1>11 DEF MarkOnline, LoginTo, readerVars, TypeOK
  <2>2. /\ login[c] = "mark" /\ login'[c] \in {"setOwner", "undo"}
        /\ owner' = owner /\ seen' = seen /\ kick' = kick
    BY <1>11 DEF MarkOnline, LoginAt, LoginTo, TypeOK
  <2>3. \A d \in Conn \ {c} : login[d] \notin {"kicking"} \cup AfterKick
    BY <2>2 DEF LockHeld, AfterKick
  <2>4. Owned'
    BY <2>1, <2>2 DEF Owned, Serving, ReaderAt
  <2>5. Alone'
    BY <2>1, <2>2, <2>3 DEF AfterKick, Alone, Serving, ReaderAt
  <2>6. Targeted'
    BY <2>1, <2>2, <2>3 DEF Targeted, Serving, ReaderAt
  <2> QED
    BY <2>4, <2>5, <2>6
<1>12. ASSUME NEW c \in Conn, SetGateOwner(c) PROVE Owned' /\ Alone' /\ Targeted'
  BY <1>12 DEF SetGateOwner, LoginAt, LoginTo
<1>13. ASSUME NEW c \in Conn, UndoOwner(c) PROVE Owned' /\ Alone' /\ Targeted'
  BY <1>13 DEF UndoOwner, LoginAt, LoginTo
<1>14. ASSUME NEW c \in Conn, ReleaseLoginLock(c) PROVE Owned' /\ Alone' /\ Targeted'
  BY <1>14 DEF ReleaseLoginLock, LoginAt, LoginTo
<1>15. ASSUME NEW c \in Conn, KickLookup(c) PROVE Owned' /\ Alone' /\ Targeted'
  BY <1>15 DEF KickLookup
<1>16. ASSUME NEW c \in Conn, KickOffline(c) PROVE Owned' /\ Alone' /\ Targeted'
  BY <1>16 DEF KickOffline, KickTo, BeginOfflining
<1>17. ASSUME NEW c \in Conn, KickReturns(c) PROVE Owned' /\ Alone' /\ Targeted'
  BY <1>17 DEF KickReturns, KickTo
<1>18. ASSUME NEW c \in Conn, StoreFlag(c) PROVE Owned' /\ Alone' /\ Targeted'
  BY <1>18 DEF StoreFlag
<1>19. ASSUME NEW c \in Conn, Close(c) PROVE Owned' /\ Alone' /\ Targeted'
  BY <1>19 DEF Close
<1>20. ASSUME NEW c \in Conn, SendTimeout(c) PROVE Owned' /\ Alone' /\ Targeted'
  BY <1>20 DEF SendTimeout, BeginOfflining
<1>21. ASSUME NEW c \in Conn, ReaderEnds(c) PROVE Owned' /\ Alone' /\ Targeted'
  BY <1>21 DEF ReaderEnds, ReaderAt, ReaderTo
<1>22. ASSUME NEW c \in Conn, CleanupLook(c) PROVE Owned' /\ Alone' /\ Targeted'
  BY <1>22 DEF CleanupLook, ReaderAt, ReaderTo
<1>23. ASSUME NEW c \in Conn, CleanupDel(c) PROVE Owned' /\ Alone' /\ Targeted'
  BY <1>23 DEF CleanupDel, ReaderAt, ReaderTo
<1>24. ASSUME NEW c \in Conn, CleanupOffline(c) PROVE Owned' /\ Alone' /\ Targeted'
  BY SMTT(30), <1>24 DEF CleanupOffline, ReaderAt, ReaderTo, BeginOfflining
<1>25. ASSUME NEW c \in Conn, CleanupReturns(c) PROVE Owned' /\ Alone' /\ Targeted'
  BY <1>25 DEF CleanupReturns, ReaderAt, ReaderTo
<1>26. ASSUME NEW c \in Conn, AfterDisconnect(c) PROVE Owned' /\ Alone' /\ Targeted'
  BY <1>26 DEF AfterDisconnect, ReaderAt, ReaderTo
<1>27. CASE UNCHANGED vars
  BY <1>27 DEF vars
<1> QED
  BY <1>1, <1>2, <1>3, <1>4, <1>5, <1>6, <1>7, <1>8, <1>9, <1>10, <1>11,
     <1>12, <1>13, <1>14, <1>15, <1>16, <1>17, <1>18, <1>19, <1>20, <1>21,
     <1>22, <1>23, <1>24, <1>25, <1>26, <1>27 DEF Next, LockStep, LoginStep,
     KickStep, OfflineStep, CleanupStep

\* Every step keeps the invariant.
THEOREM OnlineStep == OnePerNode /\ OnlineInv /\ [Next]_vars => OnlineInv'
<1> SUFFICES ASSUME OnePerNode, OnlineInv, [Next]_vars PROVE OnlineInv'
  OBVIOUS
<1>1. TypeInv' /\ LockHeld' /\ Progress' /\ Listed'
  BY TypeStep, LockHeldStep, ProgressStep, ListedStep DEF OnlineInv, TypeInv
<1>2. missed => missed'
  <2>1. ASSUME NEW c \in Conn, KickFails(c) PROVE missed'
    BY <2>1 DEF KickFails
  <2> QED
    BY <2>1 DEF Next, LockStep, LoginStep, KickStep, OfflineStep, CleanupStep,
       Connect, StartLogin, AcquireLoginLock, LockUnavailable, GetGateOwner,
       Kicked, TryBeginLogin, Publish, Name, MarkOnline, SetGateOwner,
       UndoOwner, ReleaseLoginLock, KickLookup, KickOffline, KickReturns,
       StoreFlag, Close, SendTimeout, ReaderEnds, CleanupLook, CleanupDel,
       CleanupOffline, CleanupReturns, AfterDisconnect, vars, connVars,
       loginVars, sharedVars, readerVars
<1>3. ~missed' => Owned' /\ Alone' /\ Targeted'
  BY <1>2, AloneStep DEF OnlineInv, TypeInv
<1> QED
  BY <1>1, <1>3 DEF OnlineInv

\* Two connections that serve are one.
LEMMA OnlineIsSingle == ASSUME OnePerNode, OnlineInv PROVE SingleOnline
<1> SUFFICES ASSUME ~missed, NEW c \in Conn, NEW d \in Conn, Serving(c), Serving(d)
             PROVE  c = d
  BY DEF SingleOnline
<1>1. /\ login[c] \in {"setOwner", "unlock", "done"}
      /\ login[d] \in {"setOwner", "unlock", "done"}
  BY DEF OnlineInv, TypeInv, TypeOK, LoginPc, Progress, Serving
<1>2. CASE login[c] = "setOwner" \/ login[d] = "setOwner"
  BY <1>2 DEF OnlineInv, Alone, AfterKick
<1>3. CASE login[c] # "setOwner" /\ login[d] # "setOwner"
  BY <1>1, <1>3 DEF OnlineInv, Owned, OnePerNode
<1> QED
  BY <1>2, <1>3

\* With a gateway to each connection the user is served by one of them at a
\* time, and the owner record and its node's table lead to it, as long as no
\* remote kick has failed (gate.go:86-105).
THEOREM OnlineCorrect == OnePerNode => (Spec => [](SingleOnline /\ ServingIsFound))
<1> SUFFICES ASSUME OnePerNode PROVE Spec => [](SingleOnline /\ ServingIsFound)
  OBVIOUS
<1>1. OnlineInv /\ [Next]_vars => OnlineInv'
  BY OnlineStep
<1>2. OnlineInv => SingleOnline /\ ServingIsFound
  <2> SUFFICES ASSUME OnlineInv PROVE SingleOnline /\ ServingIsFound
    OBVIOUS
  <2>1. SingleOnline
    BY OnlineIsSingle
  <2>2. ServingIsFound
    BY DEF OnlineInv, Owned, Listed, ServingIsFound, ServingIsOwner, Serving, LoginAt
  <2> QED
    BY <2>1, <2>2
<1> QED
  BY <1>1, <1>2, OnlineInit, PTL DEF Spec

\* A connection that serves the user is found by the others: the owner record
\* names its node and the node's table holds it (gate.go Login, Offline).
THEOREM ServingCorrect == OnePerNode => (Spec => []ServingIsFound)
  BY OnlineCorrect, PTL

-----------------------------------------------------------------------------
(* LoginToken *)

\* Under the default check, the login with a token that was made goes on for
\* the user it was made for, and for nobody else, as long as it has not
\* expired and the secret in force, which is not empty, is the one it was
\* made with; whoever made it, and however the secrets have changed since.
THEOREM TokenAdmits ==
    ASSUME NEW p, ~p.off, p.custom = "none",
           NEW secret, NEW whose, NEW expire, NEW user, NEW time
    PROVE  CheckLoginCredential(p, user, BuildLoginToken(secret, whose, expire), time)
             <=> /\ whose = user /\ user # ""
                 /\ secret = ResolveLoginTokenSecret(p) /\ secret # ""
                 /\ time <= expire
<1> DEFINE sign == <<secret, <<whose, expire>>>>
           t == <<whose, expire, sign>>
           ours == ResolveLoginTokenSecret(p)
<1>1. CASE secret = "" \/ whose = ""
  <2>1. BuildLoginToken(secret, whose, expire) = <<>>
    BY <1>1 DEF BuildLoginToken
  <2>2. ~CheckLoginCredential(p, user, <<>>, time)
    BY DEF CheckLoginCredential
  <2> QED BY <1>1, <2>1, <2>2
<1>2. CASE secret # "" /\ whose # ""
  <2>1. BuildLoginToken(secret, whose, expire) = t
    BY <1>2 DEF BuildLoginToken, SignLoginPayload
  <2>2. Len(t) = 3 /\ t[1] = whose /\ t[2] = expire /\ t[3] = sign /\ t # <<>>
    OBVIOUS
  <2>3. sign = SignLoginPayload(ours, <<whose, expire>>) <=> secret = ours
    BY DEF SignLoginPayload
  <2> HIDE DEF t, sign, ours
  <2>4. VerifyLoginToken(ours, t, time)
          = (IF secret = ours /\ time <= expire THEN whose ELSE "")
    BY <2>2, <2>3 DEF VerifyLoginToken
  <2>5. ActiveLoginCheck(p, t, time) = HmacCheckLogin(p, t, time)
    BY DEF ActiveLoginCheck
  <2> DEFINE found == IF ours = "" THEN "" ELSE VerifyLoginToken(ours, t, time)
  <2>6. HmacCheckLogin(p, t, time) = [ok |-> found # "", user |-> found]
    BY DEF HmacCheckLogin, ours
  <2> HIDE DEF found
  <2>7. CheckLoginCredential(p, user, t, time) <=> found # "" /\ found \in {"", user}
    <3> DEFINE c == ActiveLoginCheck(p, t, time)
    <3>1. c.ok = (found # "") /\ c.user = found
      <4>1. c = [ok |-> found # "", user |-> found]
        BY <2>5, <2>6
      <4> HIDE DEF c
      <4> QED BY <4>1, Zenon
    <3>2. CheckLoginCredential(p, user, t, time) <=> p.off \/ (t # <<>> /\ c.ok /\ c.user \in {"", user})
      BY Zenon DEF CheckLoginCredential
    <3> HIDE DEF c
    <3> QED BY <2>2, <3>1, <3>2, Zenon
  <2>8. CheckLoginCredential(p, user, t, time) <=> found = user /\ user # ""
    BY <2>7
  <2>9. found = IF ours # "" /\ secret = ours /\ time <= expire THEN whose ELSE ""
    BY <2>4 DEF found
  <2>10. CheckLoginCredential(p, user, t, time)
          <=> whose = user /\ user # "" /\ secret = ours /\ secret # "" /\ time <= expire
    BY <1>2, <2>8, <2>9
  <2> QED BY <2>1, <2>10 DEF ours
<1> QED BY <1>1, <1>2

\* Without a secret in force nobody logs in with a token, whatever the token.
THEOREM NoSecretNoLogin ==
    ASSUME NEW p, ~p.off, p.custom = "none", ResolveLoginTokenSecret(p) = "",
           NEW token, NEW user, NEW time
    PROVE  ~CheckLoginCredential(p, user, token, time)
<1>1. HmacCheckLogin(p, token, time) = [ok |-> FALSE, user |-> ""]
  BY DEF HmacCheckLogin
<1>2. ActiveLoginCheck(p, token, time) = [ok |-> FALSE, user |-> ""]
  BY <1>1 DEF ActiveLoginCheck
<1>3. ActiveLoginCheck(p, token, time).ok = FALSE
  <2> DEFINE c == ActiveLoginCheck(p, token, time)
  <2> HIDE DEF c
  <2>1. c = [ok |-> FALSE, user |-> ""]
    BY <1>2 DEF c
  <2>2. c.ok = FALSE
    BY <2>1, Zenon
  <2> QED BY <2>2 DEF c
<1> QED BY <1>3, Zenon DEF CheckLoginCredential
=============================================================================
