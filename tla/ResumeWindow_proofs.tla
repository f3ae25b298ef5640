------------------------- MODULE ResumeWindow_proofs -------------------------
(***************************************************************************)
(* Proofs about ResumeWindow, for any connections, pushes and capacities:  *)
(* types, that buffered pushes reach only who presents their token, that   *)
(* pushes arrive in order, and that none vanishes.                         *)
(***************************************************************************)
EXTENDS ResumeWindow, SequenceTheorems, TLAPS

-----------------------------------------------------------------------------
(* Sequences of pushes *)

\* In the order in which the pushes were made.
Sorted(s) == \A i, j \in DOMAIN s : i < j => s[i] < s[j]

\* A sequence and the push appended.
LEMMA Appended ==
    ASSUME NEW s \in Seq(Push), NEW x \in Push
    PROVE  /\ Append(s, x) \in Seq(Push) /\ Len(s) \in Nat /\ Len(Append(s, x)) = Len(s) + 1
           /\ PushesIn(Append(s, x)) = PushesIn(s) \cup {x}
           /\ Sorted(s) /\ (\A p \in PushesIn(s) : p < x) => Sorted(Append(s, x))
<1>1. /\ Len(s) \in Nat /\ DOMAIN s = 1 .. Len(s)
      /\ Append(s, x) \in Seq(Push) /\ Len(Append(s, x)) = Len(s) + 1
      /\ DOMAIN Append(s, x) = 1 .. Len(s) + 1
      /\ \A i \in 1 .. Len(s) : Append(s, x)[i] = s[i]
      /\ Append(s, x)[Len(s) + 1] = x
  OBVIOUS
<1>2. \A i \in 1 .. Len(s) + 1 : i \in 1 .. Len(s) \/ i = Len(s) + 1
  BY <1>1
<1>3. PushesIn(Append(s, x)) = PushesIn(s) \cup {x}
  <2>1. PushesIn(Append(s, x)) \subseteq PushesIn(s) \cup {x}
    BY <1>1, <1>2 DEF PushesIn
  <2>2. PushesIn(s) \cup {x} \subseteq PushesIn(Append(s, x))
    BY <1>1 DEF PushesIn
  <2> QED
    BY <2>1, <2>2
<1>4. ASSUME Sorted(s), \A p \in PushesIn(s) : p < x
      PROVE  Sorted(Append(s, x))
  <2>1. \A i \in 1 .. Len(s) : s[i] < x
    BY <1>1, <1>4 DEF PushesIn
  <2>2. \A i, j \in 1 .. Len(s) + 1 : i < j => i \in 1 .. Len(s)
    BY <1>1
  <2> QED
    BY <1>1, <1>2, <1>4, <2>1, <2>2 DEF Sorted
<1> QED
  BY <1>1, <1>3, <1>4

\* A sequence without its first push.
LEMMA Tailed ==
    ASSUME NEW s \in Seq(Push), s # <<>>
    PROVE  /\ Head(s) \in Push /\ Tail(s) \in Seq(Push)
           /\ Len(s) \in Nat /\ Len(Tail(s)) = Len(s) - 1
           /\ PushesIn(s) = PushesIn(Tail(s)) \cup {Head(s)}
           /\ Sorted(s) => Sorted(Tail(s)) /\ \A p \in PushesIn(Tail(s)) : Head(s) < p
<1>1. /\ Len(s) \in Nat \ {0} /\ DOMAIN s = 1 .. Len(s)
      /\ Head(s) \in Push /\ Tail(s) \in Seq(Push) /\ Len(Tail(s)) = Len(s) - 1
      /\ DOMAIN Tail(s) = 1 .. Len(s) - 1 /\ Head(s) = s[1]
      /\ \A i \in 1 .. Len(s) - 1 : Tail(s)[i] = s[i + 1]
  BY HeadTailProperties, EmptySeq, LenProperties
<1>2. /\ 1 \in 1 .. Len(s)
      /\ \A i \in 1 .. Len(s) - 1 : i + 1 \in 1 .. Len(s) /\ 1 < i + 1
      /\ \A i \in 1 .. Len(s) : i = 1 \/ (i - 1 \in 1 .. Len(s) - 1 /\ (i - 1) + 1 = i)
      /\ \A i, j \in 1 .. Len(s) - 1 : i < j => i + 1 < j + 1
  BY <1>1
<1>3. PushesIn(s) = PushesIn(Tail(s)) \cup {Head(s)}
  <2>1. PushesIn(s) \subseteq PushesIn(Tail(s)) \cup {Head(s)}
    <3> SUFFICES ASSUME NEW i \in 1 .. Len(s) PROVE s[i] \in PushesIn(Tail(s)) \cup {Head(s)}
      BY <1>1 DEF PushesIn
    <3>1. CASE i = 1
      BY <1>1, <3>1
    <3>2. CASE i # 1
      <4>1. i - 1 \in DOMAIN Tail(s) /\ Tail(s)[i - 1] = s[i]
        BY <1>1, <1>2, <3>2
      <4> QED
        BY <4>1 DEF PushesIn
    <3> QED
      BY <3>1, <3>2
  <2>2. PushesIn(Tail(s)) \cup {Head(s)} \subseteq PushesIn(s)
    BY <1>1, <1>2 DEF PushesIn
  <2> QED
    BY <2>1, <2>2
<1>4. ASSUME Sorted(s)
      PROVE  Sorted(Tail(s)) /\ \A p \in PushesIn(Tail(s)) : Head(s) < p
  <2>1. \A i, j \in 1 .. Len(s) : i < j => s[i] < s[j]
    BY <1>1, <1>4 DEF Sorted
  <2>2. \A i, j \in 1 .. Len(s) - 1 : i < j => Tail(s)[i] < Tail(s)[j]
    BY <1>1, <1>2, <2>1
  <2>3. \A i \in 1 .. Len(s) - 1 : Head(s) < Tail(s)[i]
    BY <1>1, <1>2, <2>1
  <2> QED
    BY <1>1, <2>2, <2>3 DEF Sorted, PushesIn
<1> QED
  BY <1>1, <1>3, <1>4

\* The empty sequence.
LEMMA Empty ==
    /\ <<>> \in Seq(Push) /\ Len(<<>>) = 0 /\ PushesIn(<<>>) = {} /\ Sorted(<<>>)
    /\ <<>> \o <<>> = <<>>
    /\ \A s \in Seq(Push) : PushesIn(s) = {} => s = <<>>
<1>1. <<>> \in Seq(Push) /\ Len(<<>>) = 0 /\ DOMAIN <<>> = {}
  BY EmptySeq
<1>2. ASSUME NEW s \in Seq(Push), s # <<>> PROVE PushesIn(s) # {}
  BY <1>2, Tailed
<1>3. <<>> \o <<>> = <<>>
  BY <1>1, ConcatEmptySeq
<1> QED
  BY <1>1, <1>2, <1>3 DEF PushesIn, Sorted

\* The pushes of a sequence are pushes.
LEMMA Members == ASSUME NEW s \in Seq(Push) PROVE PushesIn(s) \subseteq Push
  BY DEF PushesIn

\* What is queued after what was written, and a queued push that is written.
LEMMA Queued ==
    ASSUME NEW g \in Seq(Push), NEW q \in Seq(Push)
    PROVE  /\ g \o q \in Seq(Push)
           /\ \A x \in Push : g \o Append(q, x) = Append(g \o q, x)
           /\ q # <<>> => Append(g, Head(q)) \o Tail(q) = g \o q
<1>1. g \o q \in Seq(Push)
  OBVIOUS
<1>2. ASSUME NEW x \in Push PROVE g \o Append(q, x) = Append(g \o q, x)
  <2>1. /\ g \o Append(q, x) \in Seq(Push) /\ Append(g \o q, x) \in Seq(Push)
        /\ Len(g) \in Nat /\ Len(q) \in Nat
        /\ Len(g \o Append(q, x)) = Len(g) + Len(q) + 1
        /\ Len(Append(g \o q, x)) = Len(g) + Len(q) + 1
    OBVIOUS
  <2>2. ASSUME NEW i \in 1 .. Len(g) + Len(q) + 1
        PROVE (g \o Append(q, x))[i] = Append(g \o q, x)[i]
    BY <2>1
  <2> QED
    BY <2>1, <2>2, SeqEqual
<1>3. ASSUME q # <<>> PROVE Append(g, Head(q)) \o Tail(q) = g \o q
  <2>1. /\ Head(q) \in Push /\ Tail(q) \in Seq(Push) /\ Len(q) \in Nat \ {0}
        /\ Len(Tail(q)) = Len(q) - 1 /\ Head(q) = q[1]
        /\ \A i \in 1 .. Len(q) - 1 : Tail(q)[i] = q[i + 1]
    BY <1>3, HeadTailProperties, EmptySeq, LenProperties
  <2>2. /\ Append(g, Head(q)) \o Tail(q) \in Seq(Push)
        /\ Len(g) \in Nat
        /\ Len(Append(g, Head(q)) \o Tail(q)) = Len(g) + Len(q)
        /\ Len(g \o q) = Len(g) + Len(q)
    BY <2>1
  <2>3. ASSUME NEW i \in 1 .. Len(g) + Len(q)
        PROVE (Append(g, Head(q)) \o Tail(q))[i] = (g \o q)[i]
    BY <2>1, <2>2
  <2> QED
    BY <1>1, <2>2, <2>3, SeqEqual
<1> QED
  BY <1>1, <1>2, <1>3

\* A buffer with room for one more push.
LEMMA RoomMade ==
    ASSUME NEW s \in Seq(Push), Len(s) <= BufferLimit
    PROVE  /\ Room(s) \in Seq(Push) /\ Len(Room(s)) < BufferLimit
           /\ PushesIn(Room(s)) \subseteq PushesIn(s)
           /\ Sorted(s) => Sorted(Room(s))
<1>1. CASE Len(s) >= BufferLimit
  <2>1. s # <<>>
    BY <1>1, Empty, ResumeAssumption
  <2> QED
    BY <1>1, <2>1, Tailed, ResumeAssumption DEF Room
<1>2. CASE ~(Len(s) >= BufferLimit)
  BY <1>2, ResumeAssumption DEF Room
<1> QED
  BY <1>1, <1>2

-----------------------------------------------------------------------------
(* Types *)

\* The connections and the push that a login or a ToUser call in progress is about.
Bound ==
    /\ who = None <=> login = "no"
    /\ login \in {"kicked", "take", "drain"} => taken # None
    /\ pusher \in {"send", "append"} => target # None
    /\ pusher # "idle" => next <= MaxPush

TypeInv == TypeOK /\ Bound

\* Offline by any caller.
LEMMA OffliningTypes ==
    ASSUME TypeOK, NEW c \in Conn, NEW r \in BOOLEAN,
           BeginOfflining(c, r) \/ (sess[c] = "offlining" /\ UNCHANGED <<sess, replaced, body>>)
    PROVE  /\ sess' \in [Conn -> {"idle", "loggingIn", "online", "offlining"}]
           /\ body' \in [Conn -> {"no", "hook", "done"}]
           /\ replaced' \subseteq Conn
           /\ \A d \in Conn : sess[d] # "idle" => sess'[d] # "idle"
           /\ \A d \in Conn : d # c => sess'[d] = sess[d]
           /\ sess'[c] = "offlining"
  BY DEF TypeOK, BeginOfflining

\* Initially nobody is connected and nothing was pushed.
THEOREM TypeInit == Init => TypeInv
  BY Empty, ResumeAssumption DEF Init, TypeInv, TypeOK, Bound, Push, Fate

\* A step keeps the types.
THEOREM TypeStep == TypeInv /\ [Next]_vars => TypeInv'
<1> SUFFICES ASSUME TypeInv, [Next]_vars PROVE TypeInv'
  OBVIOUS
<1>t. TypeOK /\ Bound
  BY DEF TypeInv
<1> USE <1>t, ResumeAssumption
<1>1. ASSUME NEW c \in Conn, Close(c) PROVE TypeInv'
  BY <1>1 DEF Close, TypeInv, TypeOK, Bound, sessVars, readVars, tableVars, loginVars, pushVars
<1>2. ASSUME NEW c \in Conn, WriteFrame(c) PROVE TypeInv'
  <2>1. /\ queue[c] \in Seq(Push) /\ got[c] \in Seq(Push) /\ queue[c] # <<>>
        /\ Len(queue[c]) <= QueueCap
    BY <1>2 DEF TypeOK, WriteFrame
  <2>2. /\ Tail(queue[c]) \in Seq(Push) /\ Len(Tail(queue[c])) <= QueueCap
        /\ Append(got[c], Head(queue[c])) \in Seq(Push)
    BY <2>1, Tailed, Appended
  <2> QED
    BY <1>2, <2>2 DEF WriteFrame, TypeInv, TypeOK, Bound, sessVars, readVars, tableVars, loginVars, pushVars
<1>3. ASSUME NEW c \in Conn, ReaderEnds(c) PROVE TypeInv'
  BY <1>3 DEF ReaderEnds, TypeInv, TypeOK, Bound, sessVars, readVars, tableVars, loginVars, pushVars
<1>4. ASSUME NEW c \in Conn, CleanupLook(c) PROVE TypeInv'
  BY <1>4 DEF CleanupLook, TypeInv, TypeOK, Bound, sessVars, readVars, tableVars, loginVars, pushVars
<1>5. ASSUME NEW c \in Conn, CleanupDel(c) PROVE TypeInv'
  BY SMTT(30), <1>5 DEF CleanupDel, TypeInv, TypeOK, Bound, sessVars, readVars, tableVars, loginVars, pushVars
<1>6. ASSUME NEW c \in Conn, CleanupOffline(c) PROVE TypeInv'
  <2>1. BeginOfflining(c, FALSE) \/ (sess[c] = "offlining" /\ UNCHANGED <<sess, replaced, body>>)
    BY <1>6 DEF CleanupOffline
  <2>2. /\ sess' \in [Conn -> {"idle", "loggingIn", "online", "offlining"}]
        /\ body' \in [Conn -> {"no", "hook", "done"}]
        /\ replaced' \subseteq Conn
    BY <2>1, OffliningTypes
  <2> QED
    BY ZenonT(30), <1>6, <2>2 DEF CleanupOffline, TypeInv, TypeOK, Bound, sessVars, readVars, tableVars, loginVars, pushVars
<1>7. ASSUME NEW c \in Conn, CleanupReturns(c) PROVE TypeInv'
  BY <1>7 DEF CleanupReturns, TypeInv, TypeOK, Bound, sessVars, readVars, tableVars, loginVars, pushVars
<1>8. ASSUME NEW c \in Conn, NoDetach(c) PROVE TypeInv'
  BY <1>8 DEF NoDetach, TypeInv, TypeOK, Bound, sessVars, readVars, tableVars, loginVars, pushVars
<1>9. ASSUME NEW c \in Conn, Detach(c) PROVE TypeInv'
  BY SMTT(30), <1>9 DEF Detach, Lose, Fate, TypeInv, TypeOK, Bound, sessVars, readVars, tableVars, loginVars, pushVars
<1>10. ASSUME NEW c \in Conn, ArmTimer(c) PROVE TypeInv'
  BY <1>10 DEF ArmTimer, TypeInv, TypeOK, Bound, sessVars, readVars, tableVars, loginVars, pushVars
<1>11. ASSUME NEW c \in Conn, OnlineCheck(c) PROVE TypeInv'
  BY <1>11 DEF OnlineCheck, TypeInv, TypeOK, Bound, sessVars, readVars, tableVars, loginVars, pushVars
<1>12. ASSUME NEW c \in Conn, Undo(c) PROVE TypeInv'
  BY SMTT(30), <1>12 DEF Undo, Lose, Fate, TypeInv, TypeOK, Bound, sessVars, readVars, tableVars, loginVars, pushVars
<1>13. ASSUME NEW c \in Conn, Expire(c) PROVE TypeInv'
  BY <1>13 DEF Expire, TypeInv, TypeOK, Bound, sessVars, readVars, tableVars, loginVars, pushVars
<1>14. ASSUME NEW c \in Conn, TimerLook(c) PROVE TypeInv'
  BY <1>14 DEF TimerLook, TypeInv, TypeOK, Bound, sessVars, readVars, tableVars, loginVars, pushVars
<1>15. ASSUME NEW c \in Conn, TimerDel(c) PROVE TypeInv'
  BY SMTT(30), <1>15 DEF TimerDel, Lose, Fate, TypeInv, TypeOK, Bound, sessVars, readVars, tableVars, loginVars, pushVars
<1>16. ASSUME NEW c \in Conn, NEW t \in Conn \cup {None}, StartLogin(c, t) PROVE TypeInv'
  BY SMTT(30), <1>16 DEF StartLogin, LoginTo, TypeInv, TypeOK, Bound, sessVars, readVars, tableVars, loginVars, pushVars
<1>17. ASSUME Kick PROVE TypeInv'
  <2>1. CASE users # None /\ BeginOfflining(users, TRUE) /\ taken' = users /\ login' = "kicked"
    <3>1. users \in Conn
      BY <2>1 DEF TypeOK
    <3>2. /\ sess' \in [Conn -> {"idle", "loggingIn", "online", "offlining"}]
          /\ body' \in [Conn -> {"no", "hook", "done"}]
          /\ replaced' \subseteq Conn
      BY <2>1, <3>1, OffliningTypes
    <3> QED
      BY SMTT(30), <1>17, <2>1, <3>1, <3>2 DEF Kick, TypeInv, TypeOK, Bound, sessVars, readVars, tableVars, loginVars, pushVars
  <2>2. CASE login' = "begin" /\ UNCHANGED <<sess, replaced, body, taken>>
    BY <1>17, <2>2 DEF Kick, TypeInv, TypeOK, Bound, sessVars, readVars, tableVars, loginVars, pushVars
  <2> QED
    BY <1>17, <2>1, <2>2 DEF Kick, LoginTo
<1>18. ASSUME KickReturns PROVE TypeInv'
  BY SMTT(30), <1>18, Empty DEF KickReturns, LoginTo, LoginEnds, TypeInv, TypeOK, Bound, sessVars, readVars, tableVars, loginVars, pushVars
<1>19. ASSUME TryBeginLogin PROVE TypeInv'
  <2>1. TypeOK'
    <3>1. /\ sess' \in [Conn -> {"idle", "loggingIn", "online", "offlining"}]
          /\ batch' \in Seq(Push)
          /\ login' \in {"no", "take", "publish"}
          /\ {who', taken'} \subseteq Conn \cup {None}
      <4>1. CASE sess[who] = "idle"
        <5>1. /\ sess' = [sess EXCEPT ![who] = "loggingIn"]
              /\ taken' = detached /\ who' = who /\ batch' = batch
              /\ login' = IF detached = None THEN "publish" ELSE "take"
          BY <1>19, <4>1 DEF TryBeginLogin, LoginTo
        <5> QED
          BY <5>1 DEF TypeOK
      <4>2. CASE sess[who] # "idle"
        BY <1>19, <4>2, Empty DEF TryBeginLogin, LoginTo, LoginEnds, TypeOK
      <4> QED
        BY <4>1, <4>2
    <3>2. UNCHANGED <<body, replaced, named, queue, got, users, readVars, tableVars, token, pushVars, fate>>
      BY <1>19 DEF TryBeginLogin
    <3> QED
      BY ZenonT(30), <3>1, <3>2 DEF TypeOK, readVars, tableVars, pushVars
  <2>2. Bound'
    BY <1>19 DEF TryBeginLogin, LoginTo, LoginEnds, Bound, loginVars, pushVars
  <2> QED
    BY <2>1, <2>2 DEF TypeInv
<1>20. ASSUME TakeDetached PROVE TypeInv'
  BY SMTT(30), <1>20 DEF TakeDetached, LoginTo, Lose, Fate, TypeInv, TypeOK, Bound, sessVars, readVars, tableVars, loginVars, pushVars
<1>21. ASSUME DrainDetached PROVE TypeInv'
  <2>1. /\ taken \in Conn /\ buffer[taken] \in Seq(Push) /\ fate' \in [Push -> Fate]
        /\ batch' \in Seq(Push)
    <3>1. taken \in Conn /\ buffer[taken] \in Seq(Push) /\ fate \in [Push -> Fate]
      BY <1>21 DEF DrainDetached, TypeOK, Bound
    <3>2. batch' \in Seq(Push)
      BY <1>21, <3>1, Empty DEF DrainDetached
    <3>3. fate' \in [Push -> Fate]
      BY <1>21, <3>1 DEF DrainDetached, Lose, Fate
    <3> QED
      BY <3>1, <3>2, <3>3
  <2>2. /\ buffer' \in [Conn -> Seq(Push)]
        /\ \A c \in Conn : Len(buffer'[c]) <= BufferLimit
    <3>1. buffer' = [buffer EXCEPT ![taken] = <<>>]
      BY <1>21 DEF DrainDetached
    <3>2. buffer \in [Conn -> Seq(Push)] /\ \A c \in Conn : Len(buffer[c]) <= BufferLimit
      BY DEF TypeOK
    <3> QED
      BY <2>1, <3>1, <3>2, Empty
  <2>3. timer' \in [Conn -> {"none", "armed", "del", "fired", "stopped"}]
    BY <1>21, <2>1 DEF DrainDetached, TypeOK
  <2> QED
    BY <1>21, <2>1, <2>2, <2>3 DEF DrainDetached, LoginTo, TypeInv, TypeOK, Bound, sessVars, readVars, tableVars, loginVars, pushVars
<1>22. ASSUME Replay PROVE TypeInv'
  <2>1. /\ login = "replay" /\ who \in Conn /\ queue[who] \in Seq(Push) /\ batch \in Seq(Push)
        /\ Len(queue[who]) <= QueueCap /\ Len(queue[who]) \in Nat
    BY <1>22 DEF Replay, TypeOK, Bound
  <2>2. CASE /\ batch = <<>> /\ login' = "publish"
             /\ UNCHANGED <<sess, replaced, body, queue, batch, fate>>
    BY <1>22, <2>2 DEF Replay, TypeInv, TypeOK, Bound, sessVars, readVars, tableVars, loginVars, pushVars
  <2>3. CASE /\ batch # <<>> /\ Len(queue[who]) < QueueCap
             /\ queue' = [queue EXCEPT ![who] = Append(@, Head(batch))]
             /\ batch' = Tail(batch)
             /\ UNCHANGED <<sess, replaced, body, login, fate>>
    <3>1. /\ Head(batch) \in Push /\ Tail(batch) \in Seq(Push)
          /\ Append(queue[who], Head(batch)) \in Seq(Push)
          /\ Len(Append(queue[who], Head(batch))) <= QueueCap
      BY <2>1, <2>3, Tailed, Appended
    <3> QED
      BY <1>22, <2>1, <2>3, <3>1 DEF Replay, TypeInv, TypeOK, Bound, sessVars, readVars, tableVars, loginVars, pushVars
  <2>4. CASE /\ Lose(batch, "closed") /\ batch' = <<>> /\ login' = "publish" /\ UNCHANGED queue
             /\ TimedOut(who) \/ UNCHANGED <<sess, replaced, body>>
    <3>1. /\ sess' \in [Conn -> {"idle", "loggingIn", "online", "offlining"}]
          /\ body' \in [Conn -> {"no", "hook", "done"}]
          /\ replaced' \subseteq Conn
      <4>1. CASE UNCHANGED <<sess, replaced, body>>
        BY <4>1 DEF TypeOK
      <4>2. CASE TimedOut(who)
        BY <2>1, <4>2, OffliningTypes DEF TimedOut
      <4> QED
        BY <2>4, <4>1, <4>2
    <3> QED
      BY <1>22, <2>4, <3>1, Empty DEF Replay, Lose, Fate, TypeInv, TypeOK, Bound, sessVars, readVars, tableVars, loginVars, pushVars
  <2> QED
    BY <1>22, <2>2, <2>3, <2>4 DEF Replay, LoginTo
<1>23. ASSUME Publish PROVE TypeInv'
  BY SMTT(30), <1>23, Empty DEF Publish, LoginTo, LoginEnds, TypeInv, TypeOK, Bound, sessVars, readVars, tableVars, loginVars, pushVars
<1>24. ASSUME Name PROVE TypeInv'
  BY <1>24, Empty DEF Name, LoginTo, LoginEnds, TypeInv, TypeOK, Bound, sessVars, readVars, tableVars, loginVars, pushVars
<1>25. ASSUME MarkOnline PROVE TypeInv'
  BY SMTT(30), <1>25, Empty DEF MarkOnline, LoginTo, LoginEnds, TypeInv, TypeOK, Bound, sessVars, readVars, tableVars, loginVars, pushVars
<1>26. ASSUME StartPush PROVE TypeInv'
  BY <1>26 DEF StartPush, TypeInv, TypeOK, Bound, sessVars, readVars, tableVars, loginVars, pushVars
<1>27. ASSUME SendPush PROVE TypeInv'
  <2>1. /\ target \in Conn /\ queue[target] \in Seq(Push) /\ Len(queue[target]) <= QueueCap
        /\ next \in Push /\ next + 1 \in 1 .. (MaxPush + 1)
    <3>1. /\ target \in Conn /\ queue[target] \in Seq(Push) /\ Len(queue[target]) <= QueueCap
          /\ next \in 1 .. (MaxPush + 1) /\ next <= MaxPush
      BY <1>27 DEF SendPush, TypeOK, Bound
    <3> QED
      BY <3>1 DEF Push
  <2>2. CASE UNCHANGED <<sess, replaced, body, queue, fate>>
    BY SMTT(30), <1>27, <2>1, <2>2 DEF SendPush, PushReturns, TypeInv, TypeOK, Bound, sessVars, readVars, tableVars, loginVars, pushVars
  <2>3. CASE /\ Len(queue[target]) < QueueCap
             /\ queue' = [queue EXCEPT ![target] = Append(@, next)]
             /\ fate' = [fate EXCEPT ![next] = "kept"]
             /\ UNCHANGED <<sess, replaced, body>>
    <3>1. /\ Append(queue[target], next) \in Seq(Push)
          /\ Len(Append(queue[target], next)) <= QueueCap
      BY <2>1, <2>3, Appended
    <3>2. fate' \in [Push -> Fate]
      BY <2>1, <2>3 DEF TypeOK, Fate
    <3> QED
      <4>1. TypeOK'
        <5>1. /\ queue \in [Conn -> Seq(Push)] /\ \A c \in Conn : Len(queue[c]) <= QueueCap
          BY DEF TypeOK
        <5>2. /\ queue' \in [Conn -> Seq(Push)] /\ \A c \in Conn : Len(queue'[c]) <= QueueCap
          BY <2>1, <2>3, <3>1, <5>1
        <5>3. next' \in 1 .. (MaxPush + 1) /\ target' = None /\ pusher' = "idle"
          BY <1>27, <2>1 DEF SendPush, PushReturns
        <5>4. UNCHANGED <<named, got, users, readVars, tableVars, loginVars, boxed>>
          BY <1>27 DEF SendPush
        <5> QED
          BY ZenonT(30), <2>3, <3>2, <5>2, <5>3, <5>4 DEF TypeOK, readVars, tableVars, loginVars
      <4>2. Bound'
        BY <1>27 DEF SendPush, PushReturns, Bound, loginVars
      <4> QED
        BY <4>1, <4>2 DEF TypeInv
  <2>4. CASE TimedOut(target) /\ UNCHANGED <<queue, fate>>
    <3>1. /\ sess' \in [Conn -> {"idle", "loggingIn", "online", "offlining"}]
          /\ body' \in [Conn -> {"no", "hook", "done"}]
          /\ replaced' \subseteq Conn
      BY <2>1, <2>4, OffliningTypes DEF TimedOut
    <3> QED
      <4>1. TypeOK'
        <5>1. next' \in 1 .. (MaxPush + 1) /\ target' = None /\ pusher' = "idle"
          BY <1>27, <2>1 DEF SendPush, PushReturns
        <5>2. UNCHANGED <<named, got, users, readVars, tableVars, loginVars, boxed>>
          BY <1>27 DEF SendPush
        <5>3. UNCHANGED <<queue, fate>>
          BY <2>4
        <5> QED
          BY <3>1, <5>1, <5>2, <5>3, SMTT(30) DEF TypeOK, readVars, tableVars, loginVars
      <4>2. Bound'
        BY <1>27 DEF SendPush, PushReturns, Bound, loginVars
      <4> QED
        BY <4>1, <4>2 DEF TypeInv
  <2> QED
    BY <1>27, <2>2, <2>3, <2>4 DEF SendPush
<1>28. ASSUME FindWindow PROVE TypeInv'
  <2>1. next' \in 1 .. (MaxPush + 1) /\ (pusher' # "idle" => next' <= MaxPush)
    <3>1. next \in 1 .. (MaxPush + 1) /\ next <= MaxPush
      BY <1>28 DEF FindWindow, TypeOK, Bound
    <3> QED
      BY <1>28, <3>1 DEF FindWindow, PushReturns
  <2>2. TypeOK'
    BY <1>28, <2>1 DEF FindWindow, PushReturns, TypeOK, sessVars, readVars, tableVars, loginVars, pushVars
  <2>3. Bound'
    BY <1>28, <2>1 DEF FindWindow, PushReturns, Bound, loginVars
  <2> QED
    BY <2>2, <2>3 DEF TypeInv
<1>29. ASSUME AppendPush PROVE TypeInv'
  <2>1. /\ target \in Conn /\ buffer[target] \in Seq(Push) /\ Len(buffer[target]) <= BufferLimit
        /\ next \in Push /\ next + 1 \in 1 .. (MaxPush + 1)
    <3>1. /\ target \in Conn /\ buffer[target] \in Seq(Push) /\ Len(buffer[target]) <= BufferLimit
          /\ next \in 1 .. (MaxPush + 1) /\ next <= MaxPush
      BY <1>29 DEF AppendPush, TypeOK, Bound
    <3> QED
      BY <3>1 DEF Push
  <2>2. /\ Append(Room(buffer[target]), next) \in Seq(Push)
        /\ Len(Append(Room(buffer[target]), next)) <= BufferLimit
    BY <2>1, RoomMade, Appended
  <2>3. fate' \in [Push -> Fate] /\ boxed' \in [Push -> Conn \cup {None}]
    <3>1. fate \in [Push -> Fate] /\ boxed \in [Push -> Conn \cup {None}]
      BY DEF TypeOK
    <3> QED
      BY <1>29, <2>1, <3>1 DEF AppendPush, Fate
  <2>4. /\ buffer' \in [Conn -> Seq(Push)]
        /\ \A c \in Conn : Len(buffer'[c]) <= BufferLimit
    <3>1. \/ UNCHANGED buffer
          \/ buffer' = [buffer EXCEPT ![target] = Append(Room(buffer[target]), next)]
      BY <1>29 DEF AppendPush
    <3>2. buffer \in [Conn -> Seq(Push)] /\ \A c \in Conn : Len(buffer[c]) <= BufferLimit
      BY DEF TypeOK
    <3> QED
      BY <2>1, <2>2, <3>1, <3>2
  <2>5. TypeOK'
    <3>1. next' \in 1 .. (MaxPush + 1) /\ target' = None /\ pusher' = "idle"
      BY <1>29, <2>1 DEF AppendPush, PushReturns
    <3>2. UNCHANGED <<sessVars, queue, got, users, readVars, detached, expired, timer, loginVars>>
      BY <1>29 DEF AppendPush
    <3> QED
      BY ZenonT(30), <2>3, <2>4, <3>1, <3>2 DEF TypeOK, sessVars, readVars, loginVars
  <2>6. Bound'
    BY <1>29 DEF AppendPush, PushReturns, Bound, loginVars
  <2> QED
    BY <2>5, <2>6 DEF TypeInv
<1>30. CASE UNCHANGED vars
  <2>1. TypeOK'
    BY <1>30 DEF vars, TypeOK, sessVars, readVars, tableVars, loginVars, pushVars
  <2>2. Bound'
    BY <1>30 DEF vars, Bound, loginVars, pushVars
  <2> QED
    BY <2>1, <2>2 DEF TypeInv
<1> QED
  BY <1>1, <1>2, <1>3, <1>4, <1>5, <1>6, <1>7, <1>8, <1>9, <1>10, <1>11, <1>12, <1>13, <1>14, <1>15, <1>16, <1>17, <1>18, <1>19, <1>20, <1>21, <1>22, <1>23, <1>24, <1>25, <1>26, <1>27, <1>28, <1>29, <1>30
     DEF Next, CleanupStep, LoginStep, PushStep

-----------------------------------------------------------------------------
(* The invariant *)

\* The connection's own Detach is to come.
Undetached(c) == reader[c] \in {"read", "look", "del", "offline", "wait", "natural"}

\* The login that runs has not published its connection, or not yet found what
\* it will replay.
Unpublished == {"kick", "kicked", "begin", "take", "drain", "replay", "publish"}
Unreplayed  == {"kick", "kicked", "begin", "take", "drain"}

\* Who logs in has not been reached by a push before its session was replayed.
Logins ==
    /\ login \in {"take", "drain", "replay", "publish", "name", "mark"} => sess[who] # "idle"
    /\ login # "replay" => batch = <<>>
    /\ users # None => sess[users] # "idle"
    /\ pusher = "send" => sess[target] # "idle"
    /\ pusher = "append" => ~Undetached(target)
    /\ login \in Unpublished => users # who /\ (pusher = "send" => target # who)
    /\ login \in Unreplayed => Sent(who) = <<>>
    /\ \A c \in Conn : sess[c] = "idle" => Sent(c) = <<>>

\* A session has no window before its connection has detached it.
Windows ==
    \A c \in Conn : Undetached(c) =>
        detached # c /\ buffer[c] = <<>> /\ (login \in {"take", "drain"} => taken # c)

\* Only pushes that were made are anywhere, and in the order they were made.
Made(s)   == \A p \in PushesIn(s) : p < next
Orders ==
    /\ \A c \in Conn : Sorted(Sent(c)) /\ Made(Sent(c)) /\ Sorted(buffer[c]) /\ Made(buffer[c])
    /\ Sorted(batch) /\ Made(batch)
    /\ \A q \in PushesIn(batch) : \A p \in PushesIn(Sent(who)) : p < q
    /\ \A p \in Push : p >= next => boxed[p] = None /\ fate[p] = "refused"

\* A buffered push bears the session it was buffered for.
Boxes ==
    /\ \A d \in Conn : \A p \in PushesIn(buffer[d]) : boxed[p] = d
    /\ \A p \in PushesIn(batch) : boxed[p] = token[who]
    /\ RightfulResume

\* A session's buffer is one that may still be delivered.
Live(d) == d = detached \/ Claimed(d)

\* Every push is in one place at most, in one if it is kept.
InSent(p)   == \E c \in Conn : p \in PushesIn(Sent(c))
InBuffer(p) == \E d \in Conn : Live(d) /\ p \in PushesIn(buffer[d])
Placed ==
    /\ \A p \in PushesIn(batch) : ~InSent(p) /\ \A d \in Conn : p \notin PushesIn(buffer[d])
    /\ \A d \in Conn : \A p \in PushesIn(buffer[d]) : ~InSent(p)
    /\ \A c, d \in Conn : \A p \in PushesIn(Sent(c)) : p \in PushesIn(Sent(d)) => c = d
    /\ \A p \in Push : fate[p] = "kept" <=> InSent(p) \/ p \in PushesIn(batch) \/ InBuffer(p)

ResumeInv == TypeInv /\ Logins /\ Windows /\ Orders /\ Boxes /\ Placed

-----------------------------------------------------------------------------
(* Steps of connections *)

\* What the steps of connections, cleanups and timers leave alone.
Background ==
    /\ UNCHANGED <<login, who, token, taken, batch, pusher, target, next, boxed, buffer>>
    /\ \A c \in Conn : Sent(c)' = Sent(c)
    /\ \A c \in Conn : sess[c] # "idle" => sess'[c] # "idle"
    /\ users' \in {users, None}
    /\ \A c \in Conn : Undetached(c)' => Undetached(c)

\* The entry of `detached' is dropped, or replaced by a session with no pushes.
Dropped ==
    /\ \E why \in Fate \ {"kept"} : Lose(Entry, why)
    /\ detached' # None => buffer[detached'] = <<>>

\* The pushes that are lost with the entry are nowhere else.
LEMMA EntryPushes ==
    ASSUME TypeInv, Orders, Boxes, Placed, NEW p \in PushesIn(Entry)
    PROVE  /\ p \in Push /\ p < next /\ ~InSent(p) /\ p \notin PushesIn(batch)
           /\ detached \in Conn /\ ~Claimed(detached) /\ p \in PushesIn(buffer[detached])
           /\ \A d \in Conn : p \in PushesIn(buffer[d]) => d = detached
<1>1. detached \in Conn /\ ~Claimed(detached) /\ p \in PushesIn(buffer[detached])
  BY Empty DEF Entry, TypeInv, TypeOK
<1>2. p \in Push
  BY <1>1, Members DEF TypeInv, TypeOK
<1>3. p < next
  BY <1>1 DEF Orders, Made
<1>4. ~InSent(p) /\ p \notin PushesIn(batch)
  BY <1>1 DEF Placed
<1>5. \A d \in Conn : p \in PushesIn(buffer[d]) => d = detached
  BY <1>1 DEF Boxes
<1> QED
  BY <1>1, <1>2, <1>3, <1>4, <1>5

\* Pushes stay in one place when an entry is dropped.
LEMMA PlacedDropped ==
    ASSUME TypeInv, Orders, Boxes, Placed, Dropped,
           UNCHANGED <<batch, buffer>>,
           \A c \in Conn : Sent(c)' = Sent(c),
           \A d \in Conn : Claimed(d)' <=> Claimed(d),
           detached' \in Conn \cup {None}
    PROVE  Placed' /\ \A p \in Push : p >= next => fate'[p] = fate[p]
<1>1. PICK why \in Fate \ {"kept"} : Lose(Entry, why)
  BY DEF Dropped
<1>2. \A p \in Push : fate'[p] = IF p \in PushesIn(Entry) THEN why ELSE fate[p]
  BY <1>1 DEF Lose
<1>3. \A p \in Push : InSent(p)' <=> InSent(p)
  BY DEF InSent
<1>4. ASSUME NEW p \in Push
      PROVE  fate'[p] = "kept" <=> InSent(p)' \/ p \in PushesIn(batch)' \/ InBuffer(p)'
  <2>1. fate[p] = "kept" <=> InSent(p) \/ p \in PushesIn(batch) \/ InBuffer(p)
    BY DEF Placed
  <2>2. CASE p \in PushesIn(Entry)
    <3>1. ~InBuffer(p)'
      <4> SUFFICES ASSUME NEW d \in Conn, Live(d)', p \in PushesIn(buffer[d])' PROVE FALSE
        BY DEF InBuffer
      <4>1. d = detached /\ ~Claimed(d)
        BY <2>2, EntryPushes
      <4>2. d = detached'
        BY <4>1 DEF Live
      <4> QED
        BY <4>2, Empty, ResumeAssumption DEF Dropped
    <3> QED
      BY <1>2, <1>3, <2>2, <3>1, EntryPushes
  <2>3. CASE p \notin PushesIn(Entry)
    <3>1. ASSUME InBuffer(p) PROVE InBuffer(p)'
      <4>1. PICK d \in Conn : Live(d) /\ p \in PushesIn(buffer[d])
        BY <3>1 DEF InBuffer
      <4>2. Claimed(d)
        BY <2>3, <4>1, ResumeAssumption DEF Live, Entry
      <4> QED
        BY <4>1, <4>2 DEF InBuffer, Live
    <3>2. ASSUME InBuffer(p)' PROVE InBuffer(p)
      <4>1. PICK d \in Conn : Live(d)' /\ p \in PushesIn(buffer[d])'
        BY <3>2 DEF InBuffer
      <4>2. d # detached'
        BY <4>1, Empty, ResumeAssumption DEF Dropped
      <4> QED
        BY <4>1, <4>2 DEF InBuffer, Live
    <3> QED
      BY <1>2, <1>3, <2>1, <2>3, <3>1, <3>2
  <2> QED
    BY <2>2, <2>3
<1>5. Placed'
  BY <1>3, <1>4, Members DEF Placed, TypeInv, TypeOK
<1> QED
  BY <1>2, <1>5, EntryPushes DEF TypeInv, TypeOK, Push

\* Logins, orders and boxes where only connections move.
LEMMA BackgroundKept ==
    ASSUME TypeInv, Logins, Orders, Boxes, Background,
           \A p \in Push : p >= next => fate'[p] = fate[p]
    PROVE  Logins' /\ Orders' /\ Boxes'
<1>1. Logins'
  <2>1. login \in Unreplayed => who \in Conn
    BY DEF TypeInv, TypeOK, Bound, Unreplayed
  <2>2. login \in {"take", "drain", "replay", "publish", "name", "mark"} => who \in Conn
    BY DEF TypeInv, TypeOK, Bound
  <2>3. pusher \in {"send", "append"} => target \in Conn
    BY DEF TypeInv, TypeOK, Bound
  <2>4. users' # None => users' = users /\ users \in Conn
    BY DEF TypeInv, TypeOK, Background
  <2> QED
    <3>1. /\ login' \in {"take", "drain", "replay", "publish", "name", "mark"} => sess'[who'] # "idle"
          /\ login' # "replay" => batch' = <<>>
          /\ users' # None => sess'[users'] # "idle"
          /\ pusher' = "send" => sess'[target'] # "idle"
      BY <2>2, <2>3, <2>4 DEF Logins, Background
    <3>2. pusher' = "append" => ~Undetached(target)'
      BY <2>3 DEF Logins, Background
    <3>3. login' \in Unpublished => users' # who' /\ (pusher' = "send" => target' # who')
      BY DEF Logins, Background, TypeInv, Bound, Unpublished
    <3>4. login' \in Unreplayed => Sent(who)' = <<>>
      BY <2>1 DEF Logins, Background
    <3>5. \A c \in Conn : sess'[c] = "idle" => Sent(c)' = <<>>
      BY DEF Logins, Background
    <3>6. target' = target /\ who' = who
      BY DEF Background
    <3> QED
      BY <3>1, <3>2, <3>3, <3>4, <3>5, <3>6 DEF Logins
<1>2. Orders'
  <2>1. who \in Conn \/ batch = <<>>
    BY DEF Logins, TypeInv, TypeOK, Bound
  <2> QED
    BY <2>1, Empty DEF Orders, Made, Background
<1>3. Boxes'
  BY DEF Boxes, RightfulResume, Background
<1> QED
  BY <1>1, <1>2, <1>3

\* The whole invariant where only connections move.
LEMMA BackgroundStep ==
    ASSUME ResumeInv, TypeInv', Background,
           \/ UNCHANGED <<detached, fate>>
           \/ Dropped /\ \A d \in Conn : detached' = d => ~Undetached(d)'
    PROVE  ResumeInv'
<1>1. /\ TypeInv /\ Logins /\ Windows /\ Orders /\ Boxes /\ Placed
      /\ detached \in Conn \cup {None} /\ detached' \in Conn \cup {None}
  BY DEF ResumeInv, TypeInv, TypeOK
<1>2. \A d \in Conn : Claimed(d)' <=> Claimed(d)
  BY DEF Claimed, Background
<1>3. Placed' /\ \A p \in Push : p >= next => fate'[p] = fate[p]
  <2>1. CASE UNCHANGED <<detached, fate>>
    BY <1>1, <1>2, <2>1 DEF Placed, InSent, InBuffer, Live, Background
  <2>2. CASE Dropped
    BY <1>1, <1>2, <2>2, PlacedDropped DEF Background
  <2> QED
    BY <2>1, <2>2
<1>4. Windows'
  BY <1>1, ResumeAssumption DEF Windows, Background
<1>5. Logins' /\ Orders' /\ Boxes'
  BY <1>1, <1>3, BackgroundKept
<1> QED
  BY <1>3, <1>4, <1>5 DEF ResumeInv

\* A frame is written.
LEMMA Written ==
    ASSUME TypeInv, NEW c \in Conn, WriteFrame(c)
    PROVE  \A d \in Conn : Sent(d)' = Sent(d)
<1>1. queue \in [Conn -> Seq(Push)] /\ got \in [Conn -> Seq(Push)]
  BY DEF TypeInv, TypeOK
<1>2. /\ queue[c] # <<>>
      /\ got' = [got EXCEPT ![c] = Append(@, Head(queue[c]))]
      /\ queue' = [queue EXCEPT ![c] = Tail(@)]
  BY DEF WriteFrame
<1>3. Append(got[c], Head(queue[c])) \o Tail(queue[c]) = got[c] \o queue[c]
  BY <1>1, <1>2, Queued
<1> QED
  BY <1>1, <1>2, <1>3 DEF Sent

\* A push is queued.
LEMMA Queues ==
    ASSUME TypeInv, NEW c \in Conn, NEW x \in Push,
           queue' = [queue EXCEPT ![c] = Append(@, x)], UNCHANGED got
    PROVE  Sent(c)' = Append(Sent(c), x) /\ \A d \in Conn : d # c => Sent(d)' = Sent(d)
<1>1. queue \in [Conn -> Seq(Push)] /\ got \in [Conn -> Seq(Push)]
  BY DEF TypeInv, TypeOK
<1>2. got[c] \o Append(queue[c], x) = Append(got[c] \o queue[c], x)
  BY <1>1, Queued
<1> QED
  BY <1>1, <1>2 DEF Sent

\* What was sent to a connection.
LEMMA SentTypes ==
    ASSUME TypeInv, NEW c \in Conn
    PROVE  Sent(c) \in Seq(Push) /\ PushesIn(Sent(c)) \subseteq Push
<1>1. queue[c] \in Seq(Push) /\ got[c] \in Seq(Push)
  BY DEF TypeInv, TypeOK
<1> QED
  BY <1>1, Queued, Members DEF Sent

\* The steps of a connection, of its cleanup and of its timer.
ConnStep(c) ==
    \/ Close(c) \/ WriteFrame(c) \/ ReaderEnds(c)
    \/ CleanupStep(c) \/ Expire(c) \/ TimerLook(c) \/ TimerDel(c)

\* A connection's steps leave the login and the push alone; when they drop a
\* detached session, no session is under the user's id that is yet to come.
LEMMA ConnBackground ==
    ASSUME ResumeInv, NEW c \in Conn, ConnStep(c)
    PROVE  /\ Background
           /\ \/ UNCHANGED <<detached, fate>>
              \/ Dropped /\ \A d \in Conn : detached' = d => ~Undetached(d)'
<1>1. /\ TypeInv /\ Windows /\ reader \in [Conn -> {"read", "look", "del", "offline", "wait",
            "natural", "arm", "online", "undo", "gone"}]
      /\ sess \in [Conn -> {"idle", "loggingIn", "online", "offlining"}]
      /\ users \in Conn \cup {None}
  BY DEF ResumeInv, TypeInv, TypeOK
<1>2. UNCHANGED <<queue, got>> => \A d \in Conn : Sent(d)' = Sent(d)
  BY DEF Sent
<1>3. CASE Close(c)
  BY <1>1, <1>2, <1>3 DEF Close, Background, Undetached, sessVars, readVars, tableVars, loginVars, pushVars
<1>4. CASE WriteFrame(c)
  BY <1>1, <1>2, <1>4, Written DEF WriteFrame, Background, Undetached, sessVars, readVars, tableVars, loginVars, pushVars
<1>5. CASE ReaderEnds(c)
  BY <1>1, <1>2, <1>5 DEF ReaderEnds, Background, Undetached, sessVars, readVars, tableVars, loginVars, pushVars
<1>6. CASE CleanupLook(c)
  BY <1>1, <1>2, <1>6 DEF CleanupLook, Background, Undetached, sessVars, readVars, tableVars, loginVars, pushVars
<1>7. CASE CleanupDel(c)
  BY <1>1, <1>2, <1>7 DEF CleanupDel, Background, Undetached, sessVars, readVars, tableVars, loginVars, pushVars
<1>8. CASE CleanupOffline(c)
  <2>1. \A d \in Conn : sess[d] # "idle" => sess'[d] # "idle"
    BY <1>1, <1>8 DEF CleanupOffline, BeginOfflining
  <2> QED
    BY <1>1, <1>2, <1>8, <2>1 DEF CleanupOffline, Background, Undetached, sessVars, readVars, tableVars, loginVars, pushVars
<1>9. CASE CleanupReturns(c)
  BY <1>1, <1>2, <1>9 DEF CleanupReturns, Background, Undetached, sessVars, readVars, tableVars, loginVars, pushVars
<1>10. CASE NoDetach(c)
  BY <1>1, <1>2, <1>10 DEF NoDetach, Background, Undetached, sessVars, readVars, tableVars, loginVars, pushVars
<1>11. CASE ArmTimer(c)
  BY <1>1, <1>2, <1>11 DEF ArmTimer, Background, Undetached, sessVars, readVars, tableVars, loginVars, pushVars
<1>12. CASE OnlineCheck(c)
  BY <1>1, <1>2, <1>12 DEF OnlineCheck, Background, Undetached, sessVars, readVars, tableVars, loginVars, pushVars
<1>13. CASE Expire(c)
  BY <1>1, <1>2, <1>13 DEF Expire, Background, Undetached, sessVars, readVars, tableVars, loginVars, pushVars
<1>14. CASE TimerLook(c)
  BY <1>1, <1>2, <1>14 DEF TimerLook, Background, Undetached, sessVars, readVars, tableVars, loginVars, pushVars
<1>15. CASE Detach(c)
  <2>1. Background
    BY <1>1, <1>2, <1>15 DEF Detach, Background, Undetached, sessVars, readVars, tableVars, loginVars, pushVars
  <2>2. Dropped
    BY <1>1, <1>15, Empty DEF Detach, Windows, Undetached, Dropped, Fate
  <2>3. \A d \in Conn : detached' = d => ~Undetached(d)'
    BY <1>1, <1>15, ResumeAssumption DEF Detach, Undetached
  <2> QED
    BY <2>1, <2>2, <2>3
<1>16. CASE Undo(c)
  <2>1. Background
    BY <1>1, <1>2, <1>16 DEF Undo, Background, Undetached, sessVars, readVars, tableVars, loginVars, pushVars
  <2>2. Dropped
    BY <1>1, <1>16, Empty DEF Undo, Windows, Undetached, Dropped, Fate
  <2>3. \A d \in Conn : detached' = d => ~Undetached(d)'
    BY <1>1, <1>16, ResumeAssumption DEF Undo, Undetached
  <2> QED
    BY <2>1, <2>2, <2>3
<1>17. CASE TimerDel(c)
  <2>1. Background
    BY <1>1, <1>2, <1>17 DEF TimerDel, Background, Undetached, sessVars, readVars, tableVars, loginVars, pushVars
  <2>2. Dropped
    BY <1>1, <1>17, Empty DEF TimerDel, Windows, Undetached, Dropped, Fate
  <2>3. \A d \in Conn : detached' = d => ~Undetached(d)'
    BY <1>1, <1>17, ResumeAssumption DEF TimerDel, Undetached
  <2> QED
    BY <2>1, <2>2, <2>3
<1> QED
  BY <1>3, <1>4, <1>5, <1>6, <1>7, <1>8, <1>9, <1>10, <1>11, <1>12, <1>13, <1>14, <1>15, <1>16, <1>17 DEF ConnStep, CleanupStep

-----------------------------------------------------------------------------
(* Steps of logins *)

\* What the invariant says, taken apart.
LEMMA Parts ==
    ResumeInv <=> TypeInv /\ Logins /\ Windows /\ Orders /\ Boxes /\ Placed
  BY DEF ResumeInv

\* Orders, boxes and places do not depend on where the login is.
LEMMA HoldingsKept ==
    ASSUME ResumeInv, UNCHANGED <<queue, got, detached, buffer, batch, next, boxed, fate>>,
           batch = <<>> \/ who' = who,
           \A c \in Conn : Sent(c) # <<>> => token'[c] = token[c],
           batch = <<>> \/ token'[who] = token[who],
           \A d \in Conn : Live(d)' <=> Live(d)
    PROVE  Orders' /\ Boxes' /\ Placed'
<1>1. \A c \in Conn : Sent(c)' = Sent(c)
  BY DEF Sent
<1>2. Orders'
  <2>1. \A q \in PushesIn(batch) : \A p \in PushesIn(Sent(who))' : p < q
    <3>1. CASE batch = <<>>
      BY <3>1, Empty
    <3>2. CASE batch # <<>>
      <4>1. who \in Conn /\ who' = who
        BY <3>2, Parts DEF Logins, TypeInv, TypeOK, Bound
      <4> QED
        BY <1>1, <4>1, Parts DEF Orders
    <3> QED
      BY <3>1, <3>2
  <2> QED
    BY <1>1, <2>1, Parts DEF Orders, Made
<1>3. Boxes'
  <2>1. \A c \in Conn : \A p \in PushesIn(Sent(c)) : boxed[p] # None => boxed[p] = token'[c]
    BY Parts, Empty DEF Boxes, RightfulResume
  <2> QED
    BY <1>1, <2>1, Parts, Empty DEF Boxes, RightfulResume
<1>4. Placed'
  BY <1>1, Parts DEF Placed, InSent, InBuffer
<1> QED
  BY <1>2, <1>3, <1>4

\* A login begins: the push's place and the windows stay as they are.
LEMMA StartLoginStep ==
    ASSUME ResumeInv, TypeInv', NEW c \in Conn, NEW t \in Conn \cup {None}, StartLogin(c, t)
    PROVE  ResumeInv'
<1>1. /\ TypeInv /\ Logins /\ Windows /\ TypeOK /\ login = "no" /\ batch = <<>> /\ who = None
      /\ sess[c] = "idle" /\ Sent(c) = <<>> /\ who' = c /\ login' = "kick"
      /\ token' = [token EXCEPT ![c] = t] /\ token \in [Conn -> Conn \cup {None}]
  BY Parts DEF StartLogin, LoginTo, TypeInv, TypeOK, Bound, Logins
<1>2. UNCHANGED <<sess, body, replaced, named, queue, got, users, reader, removed, detached, buffer,
                  expired, timer, taken, batch, pusher, target, next, boxed, fate>>
  BY DEF StartLogin, sessVars, readVars, tableVars, pushVars
<1>3. \A d \in Conn : Sent(d)' = Sent(d)
  BY <1>2 DEF Sent
<1>4. Logins'
  <2>1. users' # None => sess'[users'] # "idle"
    BY <1>1, <1>2 DEF Logins
  <2>2. users' # who' /\ (pusher' = "send" => target' # who')
    BY <1>1, <1>2, ResumeAssumption DEF Logins
  <2>3. /\ pusher' = "send" => sess'[target'] # "idle"
        /\ pusher' = "append" => ~Undetached(target)'
    BY <1>1, <1>2 DEF Logins, Undetached
  <2>4. Sent(who)' = <<>>
    BY <1>1, <1>3
  <2>5. \A d \in Conn : sess'[d] = "idle" => Sent(d)' = <<>>
    BY <1>1, <1>2, <1>3 DEF Logins
  <2> QED
    BY <1>1, <1>2, <2>1, <2>2, <2>3, <2>4, <2>5 DEF Logins
<1>5. Windows'
  BY <1>1, <1>2 DEF Windows, Undetached
<1>6. Orders' /\ Boxes' /\ Placed'
  <2>1. \A d \in Conn : Sent(d) # <<>> => token'[d] = token[d]
    BY <1>1
  <2>2. \A d \in Conn : Live(d)' <=> Live(d)
    BY <1>1, <1>2 DEF Live, Claimed
  <2> QED
    BY <1>1, <1>2, <2>1, <2>2, HoldingsKept
<1> QED
  BY <1>4, <1>5, <1>6, Parts DEF ResumeInv

\* A step of the login that moves no push.
LEMMA LoginControl ==
    ASSUME ResumeInv, TypeInv',
           UNCHANGED <<queue, got, reader, detached, buffer, token, batch, pusher, target, next,
                       boxed, fate>>,
           \A c \in Conn : sess[c] # "idle" => sess'[c] # "idle",
           batch = <<>> \/ who' = who,
           \A d \in Conn : Live(d)' <=> Live(d),
           login' \in {"take", "drain", "replay", "publish", "name", "mark"} => sess'[who'] # "idle",
           login' # "replay" => batch = <<>>,
           users' # None => sess'[users'] # "idle",
           login' \in Unpublished => users' # who' /\ (pusher = "send" => target # who'),
           login' \in Unreplayed => Sent(who)' = <<>>,
           login' \in {"take", "drain"} => \A c \in Conn : Undetached(c) => taken' # c
    PROVE  ResumeInv'
<1>1. Windows'
  BY Parts DEF Windows, Undetached
<1>2. Logins'
  <2>1. pusher \in {"send", "append"} => target \in Conn
    BY Parts DEF TypeInv, TypeOK, Bound
  <2>2. /\ pusher' = "send" => sess'[target'] # "idle"
        /\ pusher' = "append" => ~Undetached(target)'
    BY <2>1, Parts DEF Logins, Undetached
  <2>3. \A c \in Conn : sess'[c] = "idle" => Sent(c)' = <<>>
    BY Parts DEF Logins, Sent
  <2>4. batch' = batch /\ pusher' = pusher /\ target' = target
    OBVIOUS
  <2> QED
    BY <2>2, <2>3, <2>4 DEF Logins
<1>3. Orders' /\ Boxes' /\ Placed'
  BY HoldingsKept
<1> QED
  BY <1>1, <1>2, <1>3 DEF ResumeInv

\* The kick marks the old session, and loses nothing.
LEMMA KickStep ==
    ASSUME ResumeInv, TypeInv', Kick PROVE ResumeInv'
<1>1. /\ TypeInv /\ Logins /\ TypeOK /\ login = "kick" /\ login' \in {"kicked", "begin"}
      /\ who \in Conn /\ users # who /\ (pusher = "send" => target # who) /\ Sent(who) = <<>>
      /\ batch = <<>> /\ users \in Conn \cup {None}
  BY Parts DEF Kick, LoginTo, TypeInv, TypeOK, Bound, Logins, Unpublished, Unreplayed
<1>2. UNCHANGED <<named, queue, got, users, reader, detached, buffer, who, token, batch,
                  pusher, target, next, boxed, fate>>
  BY DEF Kick, readVars, tableVars, pushVars
<1>3. /\ sess \in [Conn -> {"idle", "loggingIn", "online", "offlining"}]
      /\ \A c \in Conn : sess[c] # "idle" => sess'[c] # "idle"
  BY <1>1 DEF Kick, BeginOfflining, TypeOK
<1>4. \A d \in Conn : Live(d)' <=> Live(d)
  BY <1>1, <1>2 DEF Live, Claimed
<1>5. users' # None => sess'[users'] # "idle"
  BY <1>1, <1>2, <1>3 DEF Logins
<1>6. Sent(who)' = <<>>
  BY <1>1, <1>2 DEF Sent
<1> QED
  BY <1>1, <1>2, <1>3, <1>4, <1>5, <1>6, LoginControl

\* The login goes on when the kicked connection has been cleaned up.
LEMMA KickReturnsStep ==
    ASSUME ResumeInv, TypeInv', KickReturns PROVE ResumeInv'
<1>1. /\ TypeInv /\ Logins /\ login = "kicked" /\ login' = "begin"
      /\ users # who /\ (pusher = "send" => target # who) /\ Sent(who) = <<>>
      /\ batch = <<>> /\ users \in Conn \cup {None}
  BY Parts DEF KickReturns, LoginTo, TypeInv, TypeOK, Bound, Logins, Unpublished, Unreplayed
<1>2. UNCHANGED <<sess, named, queue, got, users, reader, detached, buffer, who, token, batch,
                  pusher, target, next, boxed, fate>>
  BY DEF KickReturns, sessVars, readVars, tableVars, pushVars
<1>3. \A d \in Conn : Live(d)' <=> Live(d)
  BY <1>1, <1>2 DEF Live, Claimed
<1>4. users' # None => sess'[users'] # "idle"
  BY <1>1, <1>2 DEF Logins
<1>5. Sent(who)' = <<>>
  BY <1>1, <1>2 DEF Sent
<1> QED
  BY <1>1, <1>2, <1>3, <1>4, <1>5, LoginControl

\* The login takes its session from idle, and reads which one is detached.
LEMMA TryBeginLoginStep ==
    ASSUME ResumeInv, TypeInv', TryBeginLogin PROVE ResumeInv'
<1>1. /\ TypeInv /\ Logins /\ Windows /\ login = "begin" /\ who \in Conn
      /\ users # who /\ (pusher = "send" => target # who) /\ Sent(who) = <<>>
      /\ batch = <<>> /\ users \in Conn \cup {None}
      /\ sess \in [Conn -> {"idle", "loggingIn", "online", "offlining"}]
  BY Parts DEF TryBeginLogin, TypeInv, TypeOK, Bound, Logins, Unpublished, Unreplayed
<1>2. UNCHANGED <<named, queue, got, users, reader, detached, buffer, token,
                  pusher, target, next, boxed, fate>>
  BY DEF TryBeginLogin, readVars, tableVars, pushVars
<1>3. Sent(who) = <<>> /\ (who' = who => Sent(who)' = <<>>)
  BY <1>1, <1>2 DEF Sent
<1>4. CASE sess[who] = "idle"
  <2>1. /\ sess' = [sess EXCEPT ![who] = "loggingIn"] /\ taken' = detached /\ who' = who
        /\ batch' = batch /\ login' = IF detached = None THEN "publish" ELSE "take"
    BY <1>4 DEF TryBeginLogin, LoginTo
  <2>2. \A c \in Conn : sess[c] # "idle" => sess'[c] # "idle"
    BY <1>1, <2>1
  <2>3. sess'[who'] # "idle" /\ (users' # None => sess'[users'] # "idle")
    BY <1>1, <1>2, <2>1 DEF Logins
  <2>4. \A d \in Conn : Live(d)' <=> Live(d)
    BY <1>1, <1>2, <2>1, ResumeAssumption DEF Live, Claimed
  <2>5. \A c \in Conn : Undetached(c) => taken' # c
    BY <1>1, <2>1 DEF Windows
  <2> QED
    BY <1>1, <1>2, <1>3, <2>1, <2>2, <2>3, <2>4, <2>5, LoginControl
<1>5. CASE sess[who] # "idle"
  <2>1. who' = None /\ taken' = None /\ batch' = <<>> /\ login' = "no" /\ sess' = sess
    BY <1>5 DEF TryBeginLogin, LoginEnds, LoginTo
  <2>2. users' # None => sess'[users'] # "idle"
    BY <1>1, <1>2, <2>1 DEF Logins
  <2>3. \A d \in Conn : Live(d)' <=> Live(d)
    BY <1>1, <1>2, <2>1, ResumeAssumption DEF Live, Claimed
  <2> QED
    BY <1>1, <1>2, <2>1, <2>2, <2>3, LoginControl DEF Unpublished, Unreplayed
<1> QED
  BY <1>4, <1>5

\* From here the user's pushes go to the new connection.
LEMMA PublishStep ==
    ASSUME ResumeInv, TypeInv', Publish PROVE ResumeInv'
<1>1. TypeInv /\ Logins /\ login = "publish" /\ login' = "name" /\ batch = <<>> /\ sess[who] # "idle"
  BY Parts DEF Publish, LoginTo, Logins
<1>2. users' = who /\ UNCHANGED <<sess, queue, got, reader, detached, buffer, who, token, batch,
                  pusher, target, next, boxed, fate>>
  BY DEF Publish, sessVars, readVars, tableVars, pushVars
<1>3. \A d \in Conn : Live(d)' <=> Live(d)
  BY <1>1, <1>2 DEF Live, Claimed
<1> QED
  BY <1>1, <1>2, <1>3, LoginControl DEF Unpublished, Unreplayed

\* The connection gets the user's name.
LEMMA NameStep ==
    ASSUME ResumeInv, TypeInv', Name PROVE ResumeInv'
<1>1. /\ TypeInv /\ Logins /\ login = "name" /\ login' = "mark" /\ batch = <<>> /\ sess[who] # "idle"
      /\ (users # None => sess[users] # "idle")
  BY Parts DEF Name, LoginTo, Logins
<1>2. UNCHANGED <<sess, queue, got, users, reader, detached, buffer, who, token, batch,
                  pusher, target, next, boxed, fate>>
  BY DEF Name, readVars, tableVars, pushVars
<1>3. \A d \in Conn : Live(d)' <=> Live(d)
  BY <1>1, <1>2 DEF Live, Claimed
<1> QED
  BY <1>1, <1>2, <1>3, LoginControl DEF Unpublished, Unreplayed

\* The session goes online, or the user is taken out again.
LEMMA MarkOnlineStep ==
    ASSUME ResumeInv, TypeInv', MarkOnline PROVE ResumeInv'
<1>1. /\ TypeInv /\ Logins /\ login = "mark" /\ batch = <<>>
      /\ sess \in [Conn -> {"idle", "loggingIn", "online", "offlining"}]
      /\ users \in Conn \cup {None} /\ who \in Conn /\ (users # None => sess[users] # "idle")
  BY Parts DEF MarkOnline, Logins, TypeInv, TypeOK, Bound
<1>2. /\ UNCHANGED <<queue, got, reader, detached, buffer, token, pusher, target, next, boxed, fate>>
      /\ login' = "no" /\ batch' = <<>>
  BY DEF MarkOnline, LoginEnds, LoginTo, readVars, tableVars, pushVars
<1>3. /\ \A c \in Conn : sess[c] # "idle" => sess'[c] # "idle"
      /\ users' # None => sess'[users'] # "idle"
  BY <1>1 DEF MarkOnline
<1>4. \A d \in Conn : Live(d)' <=> Live(d)
  BY <1>1, <1>2 DEF Live, Claimed
<1> QED
  BY <1>1, <1>2, <1>3, <1>4, LoginControl DEF Unpublished, Unreplayed

\* The login drops what is detached under the user's id by now.
LEMMA TakeDetachedStep ==
    ASSUME ResumeInv, TypeInv', TakeDetached PROVE ResumeInv'
<1>1. /\ TypeInv /\ Logins /\ Windows /\ Orders /\ Boxes /\ Placed
      /\ login = "take" /\ login' = "drain" /\ detached' = None /\ batch = <<>>
  BY Parts DEF TakeDetached, LoginTo, Logins
<1>2. UNCHANGED <<sess, queue, got, users, reader, buffer, who, token, taken, batch,
                  pusher, target, next, boxed>>
  BY DEF TakeDetached, sessVars, readVars, pushVars
<1>3. \A c \in Conn : Sent(c)' = Sent(c)
  BY <1>2 DEF Sent
<1>4. Dropped
  BY <1>1 DEF TakeDetached, Dropped, Fate
<1>5. \A d \in Conn : Claimed(d)' <=> Claimed(d)
  BY <1>1, <1>2 DEF Claimed
<1>6. Placed' /\ \A p \in Push : p >= next => fate'[p] = fate[p]
  BY <1>1, <1>2, <1>3, <1>4, <1>5, PlacedDropped
<1>7. Windows'
  BY <1>1, <1>2, ResumeAssumption DEF Windows, Undetached
<1>8. who \in Conn /\ (pusher = "append" => target \in Conn)
  BY <1>1 DEF TypeInv, TypeOK, Bound
<1>9. Orders' /\ Boxes'
  BY <1>1, <1>2, <1>3, <1>6, <1>8 DEF Orders, Made, Boxes, RightfulResume
<1>10. Logins'
  BY <1>1, <1>2, <1>3, <1>8 DEF Logins, Unpublished, Unreplayed, Undetached
<1> QED
  BY <1>6, <1>7, <1>9, <1>10 DEF ResumeInv

\* The pushes move from the buffer to the batch, in their order.
LEMMA DrainDetachedStep ==
    ASSUME ResumeInv, TypeInv', DrainDetached PROVE ResumeInv'
<1>1. /\ TypeInv /\ Logins /\ Windows /\ Orders /\ Boxes /\ Placed
      /\ login = "drain" /\ login' = "replay" /\ batch = <<>>
      /\ who \in Conn /\ Sent(who) = <<>> /\ sess[who] # "idle"
      /\ users # who /\ (pusher = "send" => target # who) /\ (pusher = "append" => target \in Conn)
  BY Parts DEF DrainDetached, LoginTo, Logins, TypeInv, TypeOK, Bound, Unpublished, Unreplayed
<1>2. /\ taken \in Conn /\ buffer \in [Conn -> Seq(Push)] /\ fate \in [Push -> Fate]
      /\ PushesIn(buffer[taken]) \subseteq Push
  BY <1>1, Members DEF TypeInv, TypeOK, Bound
<1>3. UNCHANGED <<sess, queue, got, users, reader, detached, who, token, taken,
                  pusher, target, next, boxed>>
  BY DEF DrainDetached, sessVars, readVars, pushVars
<1>4. \A c \in Conn : Sent(c)' = Sent(c)
  BY <1>3 DEF Sent
<1>5. /\ buffer' = [buffer EXCEPT ![taken] = <<>>]
      /\ \/ MayResume /\ batch' = buffer[taken] /\ UNCHANGED fate
         \/ /\ ~MayResume /\ batch' = <<>>
            /\ \A p \in Push : fate'[p] = fate[p] \/ (p \in PushesIn(buffer[taken]) /\ fate'[p] # "kept")
            /\ \A p \in PushesIn(buffer[taken]) : fate'[p] # "kept"
  <2>1. buffer' = [buffer EXCEPT ![taken] = <<>>]
    BY DEF DrainDetached
  <2>2. CASE MayResume
    BY <2>1, <2>2 DEF DrainDetached
  <2>3. CASE ~MayResume
    <3>1. batch' = <<>> /\ \E why \in {"stranger", "expired"} : Lose(buffer[taken], why)
      BY <2>3 DEF DrainDetached, MayResume
    <3>2. /\ \A p \in Push : p \notin PushesIn(buffer[taken]) => fate'[p] = fate[p]
          /\ \A p \in PushesIn(buffer[taken]) : fate'[p] # "kept"
      BY <1>2, <3>1 DEF Lose
    <3> QED
      BY <2>1, <2>3, <3>1, <3>2
  <2> QED
    BY <2>2, <2>3
<1>6. Windows'
  BY <1>1, <1>2, <1>3, <1>5 DEF Windows, Undetached
<1>7. Logins'
  BY <1>1, <1>3, <1>4 DEF Logins, Unpublished, Unreplayed, Undetached
<1>8. \A p \in Push : p >= next => p \notin PushesIn(buffer[taken])
  BY <1>1, <1>2 DEF Orders, Made, TypeInv, TypeOK, Push
<1>9. Orders'
  <2>1. \A c \in Conn : /\ Sorted(Sent(c))' /\ Made(Sent(c))'
                         /\ Sorted(buffer[c])' /\ Made(buffer[c])'
    BY <1>1, <1>2, <1>3, <1>4, <1>5, Empty DEF Orders, Made
  <2>2. Sorted(batch)' /\ Made(batch)'
    BY <1>1, <1>2, <1>3, <1>5, Empty DEF Orders, Made
  <2>3. PushesIn(Sent(who))' = {}
    BY <1>1, <1>3, <1>4, Empty
  <2>4. \A p \in Push : p >= next => boxed'[p] = None /\ fate'[p] = "refused"
    BY <1>1, <1>3, <1>5, <1>8 DEF Orders
  <2> QED
    BY <1>3, <2>1, <2>2, <2>3, <2>4 DEF Orders
<1>10. Boxes'
  <2>1. \A d \in Conn : \A p \in PushesIn(buffer'[d]) : boxed'[p] = d
    BY <1>1, <1>2, <1>3, <1>5, Empty DEF Boxes
  <2>2. \A p \in PushesIn(batch') : boxed'[p] = token'[who']
    BY <1>1, <1>2, <1>3, <1>5, Empty DEF Boxes, MayResume
  <2> QED
    BY <1>1, <1>3, <1>4, <2>1, <2>2 DEF Boxes, RightfulResume
<1>11. Placed'
  <2>1. \A p \in Push : InSent(p)' <=> InSent(p)
    BY <1>4 DEF InSent
  <2>2. \A d \in Conn : d # taken => \A p \in PushesIn(buffer[taken]) : p \notin PushesIn(buffer[d])
    BY <1>1, <1>2 DEF Boxes
  <2>3. \A d \in Conn : \A p \in PushesIn(buffer'[d]) : d # taken /\ p \in PushesIn(buffer[d])
    BY <1>2, <1>5, Empty
  <2>4. \A p \in PushesIn(batch') : p \in PushesIn(buffer[taken])
    BY <1>5, Empty
  <2>5. ASSUME NEW p \in Push
        PROVE  InBuffer(p) <=> p \in PushesIn(buffer[taken]) \/ InBuffer(p)'
    <3>1. Live(taken)
      BY <1>1 DEF Live, Claimed
    <3>2. \A d \in Conn : d # taken => (Live(d) <=> Live(d)')
      BY <1>1, <1>3 DEF Live, Claimed
    <3>3. \A d \in Conn : d # taken => buffer'[d] = buffer[d]
      BY <1>2, <1>5
    <3> QED
      BY <1>2, <2>3, <3>1, <3>2, <3>3 DEF InBuffer
  <2>6. \A p \in PushesIn(buffer[taken]) : ~InSent(p) /\ ~InBuffer(p)'
    BY <1>1, <1>2, <2>2, <2>3 DEF Placed, InBuffer
  <2>7. ASSUME NEW p \in Push
        PROVE  fate'[p] = "kept" <=> InSent(p)' \/ p \in PushesIn(batch') \/ InBuffer(p)'
    <3>1. fate[p] = "kept" <=> InSent(p) \/ InBuffer(p)
      BY <1>1, Empty DEF Placed
    <3> QED
      BY <1>5, <2>1, <2>5, <2>6, <3>1, Empty
  <2> QED
    BY <1>1, <1>2, <1>3, <1>4, <2>1, <2>2, <2>3, <2>4, <2>7, Members
       DEF Placed, TypeInv, TypeOK
<1> QED
  BY <1>6, <1>7, <1>9, <1>10, <1>11 DEF ResumeInv

\* The rest of a replay is lost.
LEMMA BatchLost ==
    ASSUME ResumeInv, TypeInv', login = "replay", login' = "publish",
           Lose(batch, "closed"), batch' = <<>>,
           UNCHANGED <<queue, got, users, reader, detached, buffer, who, token, taken, pusher, target,
                       next, boxed>>,
           \A c \in Conn : sess[c] # "idle" => sess'[c] # "idle"
    PROVE  ResumeInv'
<1>1. /\ TypeInv /\ Logins /\ Windows /\ Orders /\ Boxes /\ Placed
      /\ who \in Conn /\ sess[who] # "idle" /\ users # who /\ (pusher = "send" => target # who)
      /\ (pusher \in {"send", "append"} => target \in Conn) /\ PushesIn(batch) \subseteq Push
      /\ users \in Conn \cup {None}
  BY Parts, Members DEF Logins, TypeInv, TypeOK, Bound, Unpublished
<1>2. \A c \in Conn : Sent(c)' = Sent(c)
  BY DEF Sent
<1>3. /\ \A p \in Push : p \notin PushesIn(batch) => fate'[p] = fate[p]
      /\ \A p \in PushesIn(batch) : fate'[p] # "kept" /\ p < next
  BY <1>1 DEF Lose, Orders, Made
<1>4. Logins'
  BY <1>1, <1>2 DEF Logins, Unpublished, Unreplayed, Undetached
<1>5. Windows'
  BY <1>1 DEF Windows, Undetached
<1>6. Orders'
  <2>1. \A p \in Push : p >= next => boxed'[p] = None /\ fate'[p] = "refused"
    BY <1>1, <1>3 DEF Orders, TypeInv, TypeOK, Push
  <2> QED
    BY <1>1, <1>2, <2>1, Empty DEF Orders, Made
<1>7. Boxes'
  BY <1>1, <1>2, Empty DEF Boxes, RightfulResume
<1>8. Placed'
  <2>1. \A p \in Push : InSent(p)' <=> InSent(p)
    BY <1>2 DEF InSent
  <2>2. \A p \in Push : InBuffer(p)' <=> InBuffer(p)
    BY DEF InBuffer, Live, Claimed
  <2>3. \A p \in PushesIn(batch) : ~InSent(p) /\ ~InBuffer(p)
    BY <1>1 DEF Placed, InBuffer
  <2>4. \A p \in Push : fate'[p] = "kept" <=> InSent(p)' \/ p \in PushesIn(batch') \/ InBuffer(p)'
    BY <1>1, <1>3, <2>1, <2>2, <2>3, Empty DEF Placed
  <2> QED
    BY SMTT(30), <1>1, <1>2, <2>1, <2>4, Empty, Members DEF Placed, TypeInv, TypeOK
<1> QED
  BY <1>4, <1>5, <1>6, <1>7, <1>8 DEF ResumeInv

\* The next push of a replay is queued.
LEMMA BatchSent ==
    ASSUME ResumeInv, TypeInv', login = "replay", batch # <<>>,
           queue' = [queue EXCEPT ![who] = Append(@, Head(batch))],
           batch' = Tail(batch),
           UNCHANGED <<sess, got, users, reader, detached, buffer, login, who, token, taken, pusher, target,
                       next, boxed, fate>>
    PROVE  ResumeInv'
<1>1. /\ TypeInv /\ Logins /\ Windows /\ Orders /\ Boxes /\ Placed
      /\ who \in Conn /\ sess[who] # "idle" /\ batch \in Seq(Push)
  BY Parts DEF Logins, TypeInv, TypeOK, Bound
<1> DEFINE h == Head(batch)
<1>2. /\ h \in Push /\ Tail(batch) \in Seq(Push) /\ PushesIn(batch) = PushesIn(Tail(batch)) \cup {h}
      /\ Sorted(Tail(batch)) /\ \A p \in PushesIn(Tail(batch)) : h < p
  BY <1>1, Tailed DEF Orders
<1>3. h \notin PushesIn(Tail(batch)) /\ PushesIn(Tail(batch)) \subseteq Push
  BY <1>2, Members, ResumeAssumption DEF Push
<1>4. Sent(who)' = Append(Sent(who), h) /\ \A d \in Conn : d # who => Sent(d)' = Sent(d)
  BY <1>1, <1>2, Queues
<1>5. /\ PushesIn(Sent(who))' = PushesIn(Sent(who)) \cup {h}
      /\ Sorted(Sent(who)) /\ (\A p \in PushesIn(Sent(who)) : p < h) => Sorted(Sent(who))'
  BY <1>1, <1>2, <1>4, SentTypes, Appended
<1>6. Logins'
  BY <1>1, <1>4 DEF Logins, Unpublished, Unreplayed, Undetached
<1>7. Windows'
  BY <1>1 DEF Windows, Undetached
<1>8. Orders'
  <2>1. \A p \in PushesIn(Sent(who)) : p < h
    BY <1>1, <1>2 DEF Orders
  <2>2. \A c \in Conn : Sorted(Sent(c))'
    BY <1>1, <1>4, <1>5, <2>1 DEF Orders
  <2>3. h < next
    BY <1>1, <1>2 DEF Orders, Made
  <2>4. \A c \in Conn : Made(Sent(c))'
    BY <1>1, <1>4, <1>5, <2>3 DEF Orders, Made
  <2>5. Sorted(batch)' /\ Made(batch)'
    BY <1>1, <1>2 DEF Orders, Made
  <2>6. \A q \in PushesIn(batch)' : \A p \in PushesIn(Sent(who))' : p < q
    BY <1>1, <1>2, <1>5 DEF Orders
  <2>7. who' = who
    OBVIOUS
  <2> QED
    BY <1>1, <2>2, <2>4, <2>5, <2>6, <2>7 DEF Orders, Made
<1>9. Boxes'
  <2>1. RightfulResume'
    BY <1>1, <1>2, <1>4, <1>5 DEF Boxes, RightfulResume
  <2> QED
    BY <1>1, <1>2, <2>1 DEF Boxes
<1>10. Placed'
  <2>1. ~InSent(h) /\ \A d \in Conn : h \notin PushesIn(buffer[d])
    BY <1>1, <1>2 DEF Placed
  <2>2. \A p \in Push : InSent(p)' <=> InSent(p) \/ p = h
    BY <1>1, <1>2, <1>4, <1>5 DEF InSent
  <2>3. \A p \in Push : InBuffer(p)' <=> InBuffer(p)
    BY DEF InBuffer, Live, Claimed
  <2>4. \A p \in PushesIn(batch') : ~InSent(p)' /\ \A d \in Conn : p \notin PushesIn(buffer'[d])
    BY <1>1, <1>2, <1>3, <2>2 DEF Placed
  <2>5. \A d \in Conn : \A p \in PushesIn(buffer'[d]) : ~InSent(p)'
    BY <1>1, <2>1, <2>2, Members DEF Placed, TypeInv, TypeOK
  <2>6. \A c, d \in Conn : \A p \in PushesIn(Sent(c))' : p \in PushesIn(Sent(d))' => c = d
    <3>1. \A c \in Conn : h \notin PushesIn(Sent(c))
      BY <2>1 DEF InSent
    <3> QED
      BY <1>1, <1>4, <1>5, <3>1 DEF Placed
  <2>7. \A p \in Push : fate'[p] = "kept" <=> InSent(p)' \/ p \in PushesIn(batch') \/ InBuffer(p)'
    BY <1>1, <1>2, <2>2, <2>3 DEF Placed
  <2> QED
    BY <2>4, <2>5, <2>6, <2>7 DEF Placed
<1> QED
  BY <1>6, <1>7, <1>8, <1>9, <1>10 DEF ResumeInv

\* A push moves from the batch to the queue, ahead of those after it.
LEMMA ReplayStep ==
    ASSUME ResumeInv, TypeInv', Replay PROVE ResumeInv'
<1>1. /\ TypeInv /\ Logins /\ who \in Conn /\ sess[who] # "idle" /\ login = "replay"
      /\ users # who /\ (pusher = "send" => target # who)
      /\ sess \in [Conn -> {"idle", "loggingIn", "online", "offlining"}]
  BY Parts DEF Replay, Logins, TypeInv, TypeOK, Bound, Unpublished
<1>2. UNCHANGED <<got, users, reader, detached, buffer, who, token, taken, pusher, target, next, boxed>>
  BY DEF Replay, readVars, tableVars, pushVars
<1>3. CASE batch = <<>> /\ login' = "publish" /\ UNCHANGED <<sess, replaced, body, queue, batch, fate>>
  <2>1. \A d \in Conn : Live(d)' <=> Live(d)
    BY <1>1, <1>2, <1>3 DEF Live, Claimed
  <2>2. users # None => sess[users] # "idle"
    BY <1>1 DEF Logins
  <2> QED
    BY <1>1, <1>2, <1>3, <2>1, <2>2, LoginControl DEF Unreplayed
<1>4. CASE /\ batch # <<>> /\ queue' = [queue EXCEPT ![who] = Append(@, Head(batch))]
           /\ batch' = Tail(batch) /\ UNCHANGED <<sess, replaced, body, login, fate>>
  BY <1>1, <1>2, <1>4, BatchSent
<1>5. CASE /\ Lose(batch, "closed") /\ batch' = <<>> /\ login' = "publish" /\ UNCHANGED queue
           /\ TimedOut(who) \/ UNCHANGED <<sess, replaced, body>>
  <2>1. \A c \in Conn : sess[c] # "idle" => sess'[c] # "idle"
    BY <1>1, <1>5 DEF TimedOut, BeginOfflining
  <2> QED
    BY <1>1, <1>2, <1>5, <2>1, BatchLost
<1> QED
  BY <1>3, <1>4, <1>5 DEF Replay, LoginTo

-----------------------------------------------------------------------------
(* Steps of ToUser *)

\* A step of ToUser that moves no push.
LEMMA PushControl ==
    ASSUME ResumeInv, TypeInv',
           UNCHANGED <<queue, got, users, reader, detached, buffer, login, who, token, taken, batch,
                       boxed, fate>>,
           \A c \in Conn : sess[c] # "idle" => sess'[c] # "idle",
           next' = next \/ next' = next + 1,
           pusher' = "send" => sess'[target'] # "idle" /\ (login \in Unpublished => target' # who),
           pusher' = "append" => ~Undetached(target)'
    PROVE  ResumeInv'
<1>1. /\ TypeInv /\ Logins /\ Windows /\ Orders /\ Boxes /\ Placed /\ next \in 1 .. (MaxPush + 1)
      /\ users \in Conn \cup {None} /\ (login # "no" => who \in Conn)
  BY Parts DEF TypeInv, TypeOK, Bound
<1>2. \A c \in Conn : Sent(c)' = Sent(c)
  BY DEF Sent
<1>3. next' >= next /\ next \in Nat /\ next' \in Nat
  BY <1>1
<1>4. Logins'
  BY <1>1, <1>2 DEF Logins, Unreplayed, Unpublished
<1>5. Windows'
  BY <1>1 DEF Windows, Undetached
<1>6. Orders'
  <2>1. \A s : s \in Seq(Push) /\ Made(s) => Made(s)'
    <3> SUFFICES ASSUME NEW s, s \in Seq(Push), Made(s), NEW p \in PushesIn(s) PROVE p < next'
      BY DEF Made
    <3>1. p \in Push /\ p < next
      BY Members DEF Made
    <3> QED
      BY <1>3, <3>1 DEF Push
  <2>2. \A c \in Conn : Made(Sent(c))' /\ Made(buffer[c])'
    <3>1. \A c \in Conn : Sent(c) \in Seq(Push) /\ buffer[c] \in Seq(Push) /\ Made(Sent(c)) /\ Made(buffer[c])
      BY <1>1, SentTypes DEF Orders, TypeInv, TypeOK
    <3> QED
      BY <1>2, <2>1, <3>1 DEF Made
  <2>3. Made(batch)'
    BY <1>1, <2>1 DEF Orders, TypeInv, TypeOK, Made
  <2>4. \A p \in Push : p >= next' => boxed'[p] = None /\ fate'[p] = "refused"
    BY <1>1, <1>3, ResumeAssumption DEF Orders, Push
  <2>5. login = "replay" \/ batch = <<>>
    BY <1>1 DEF Logins
  <2>6. \A q \in PushesIn(batch) : \A p \in PushesIn(Sent(who))' : p < q
    BY <1>1, <1>2, <2>5, Empty DEF Orders
  <2>7. who' = who /\ batch' = batch /\ buffer' = buffer
    OBVIOUS
  <2> QED
    BY <1>1, <1>2, <2>2, <2>3, <2>4, <2>6, <2>7 DEF Orders
<1>7. Boxes'
  BY <1>1, <1>2 DEF Boxes, RightfulResume
<1>8. Placed'
  <2>1. \A p \in Push : (InSent(p)' <=> InSent(p)) /\ (InBuffer(p)' <=> InBuffer(p))
    BY <1>2 DEF InSent, InBuffer, Live, Claimed
  <2>2. PushesIn(batch) \subseteq Push /\ \A d \in Conn : PushesIn(buffer[d]) \subseteq Push
    BY <1>1, Members DEF TypeInv, TypeOK
  <2> QED
    BY <1>1, <1>2, <2>1, <2>2 DEF Placed
<1> QED
  BY <1>4, <1>5, <1>6, <1>7, <1>8 DEF ResumeInv

\* A push starts towards a connection or a window.
LEMMA StartPushStep ==
    ASSUME ResumeInv, TypeInv', StartPush PROVE ResumeInv'
<1>1. Logins /\ TypeInv /\ users \in Conn \cup {None}
  BY Parts DEF TypeInv, TypeOK
<1>2. /\ UNCHANGED <<sess, queue, got, users, reader, detached, buffer, login, who, token, taken, batch,
                     next, boxed, fate>>
      /\ target' = users /\ pusher' = IF users = None THEN "window" ELSE "send"
  BY DEF StartPush, sessVars, readVars, tableVars, loginVars
<1> QED
  BY <1>1, <1>2, PushControl DEF Logins

\* It finds the session that is detached, or its sender gets an error.
LEMMA FindWindowStep ==
    ASSUME ResumeInv, TypeInv', FindWindow PROVE ResumeInv'
<1>1. Windows /\ TypeInv /\ detached \in Conn \cup {None}
  BY Parts DEF TypeInv, TypeOK
<1>2. UNCHANGED <<sess, queue, got, users, reader, detached, buffer, login, who, token, taken, batch,
                  boxed, fate>>
  BY DEF FindWindow, sessVars, readVars, tableVars, loginVars
<1>3. \/ pusher' = "idle" /\ next' = next + 1
      \/ pusher' = "append" /\ target' = detached /\ detached # None /\ next' = next
  BY DEF FindWindow, PushReturns
<1>4. pusher' = "append" => ~Undetached(target)'
  BY <1>1, <1>2, <1>3 DEF Windows, Undetached
<1> QED
  BY <1>2, <1>3, <1>4, PushControl

\* The push that is being made is nowhere yet.
LEMMA NextIsNew ==
    ASSUME ResumeInv, pusher # "idle"
    PROVE  /\ next \in Push /\ boxed[next] = None /\ fate[next] = "refused" /\ ~InSent(next)
           /\ next \notin PushesIn(batch) /\ \A d \in Conn : next \notin PushesIn(buffer[d])
           /\ \A c \in Conn : \A p \in PushesIn(Sent(c)) \cup PushesIn(buffer[c]) : p < next
           /\ \A p \in PushesIn(batch) : p < next
<1>1. /\ TypeInv /\ Orders /\ next \in 1 .. (MaxPush + 1) /\ next <= MaxPush
  BY Parts DEF TypeInv, TypeOK, Bound
<1>2. next \in Push /\ next >= next /\ ~(next < next)
  BY <1>1, ResumeAssumption DEF Push
<1> QED
  BY <1>1, <1>2 DEF Orders, Made, InSent

\* With the push, everything that was made is made, and only later pushes are to come.
LEMMA NextIsMade ==
    ASSUME ResumeInv, pusher # "idle", next' = next + 1
    PROVE  /\ \A p \in Push : (p < next' <=> p < next \/ p = next) /\ (p >= next' <=> p >= next /\ p # next)
           /\ next \in Push
<1>1. next \in Push
  BY NextIsNew
<1> QED
  BY <1>1, ResumeAssumption DEF Push

\* The push is queued for the connection found.
LEMMA PushSent ==
    ASSUME ResumeInv, TypeInv', NEW t \in Conn, t = target, pusher = "send", pusher' = "idle", next' = next + 1,
           queue' = [queue EXCEPT ![t] = Append(@, next)],
           fate' = [fate EXCEPT ![next] = "kept"],
           UNCHANGED <<sess, got, users, reader, detached, buffer, login, who, token, taken, batch, boxed>>
    PROVE  ResumeInv'
<1>1. /\ TypeInv /\ Logins /\ Windows /\ Orders /\ Boxes /\ Placed
      /\ sess[t] # "idle" /\ (login \in Unpublished => t # who)
      /\ fate \in [Push -> Fate] /\ (login # "no" => who \in Conn)
  BY Parts DEF Logins, TypeInv, TypeOK, Bound
<1>2. /\ next \in Push /\ boxed[next] = None /\ ~InSent(next)
      /\ next \notin PushesIn(batch) /\ \A d \in Conn : next \notin PushesIn(buffer[d])
      /\ \A c \in Conn : \A p \in PushesIn(Sent(c)) \cup PushesIn(buffer[c]) : p < next
      /\ \A p \in PushesIn(batch) : p < next
  BY NextIsNew
<1>3. \A p \in Push : (p < next' <=> p < next \/ p = next) /\ (p >= next' <=> p >= next /\ p # next)
  BY NextIsMade
<1>4. Sent(t)' = Append(Sent(t), next) /\ \A d \in Conn : d # t => Sent(d)' = Sent(d)
  BY <1>1, <1>2, Queues
<1>5. /\ PushesIn(Sent(t))' = PushesIn(Sent(t)) \cup {next}
      /\ Sorted(Sent(t)) /\ (\A p \in PushesIn(Sent(t)) : p < next) => Sorted(Sent(t))'
      /\ \A c \in Conn : PushesIn(Sent(c)) \subseteq Push
  BY <1>1, <1>2, <1>4, SentTypes, Appended
<1>6. Logins'
  BY <1>1, <1>4 DEF Logins, Unpublished, Unreplayed, Undetached
<1>7. Windows'
  BY <1>1 DEF Windows, Undetached
<1>8. Orders'
  <2>1. \A c \in Conn : Sorted(Sent(c))'
    BY <1>1, <1>2, <1>4, <1>5 DEF Orders
  <2>2. \A c \in Conn : Made(Sent(c))'
    BY <1>1, <1>2, <1>3, <1>4, <1>5 DEF Made
  <2>3. (\A c \in Conn : PushesIn(buffer[c]) \subseteq Push) /\ PushesIn(batch) \subseteq Push
    BY <1>1, Members DEF TypeInv, TypeOK
  <2>4. \A c \in Conn : Sorted(buffer[c])' /\ Made(buffer[c])'
    BY <1>1, <1>2, <1>3, <2>3 DEF Orders, Made
  <2>5. Sorted(batch)' /\ Made(batch)'
    BY <1>1, <1>2, <1>3, <2>3 DEF Orders, Made
  <2>6. \A q \in PushesIn(batch) : \A p \in PushesIn(Sent(who))' : p < q
    <3>1. CASE batch = <<>>
      BY <3>1, Empty
    <3>2. CASE batch # <<>>
      <4>1. who \in Conn /\ t # who
        BY <1>1, <3>2 DEF Logins, Unpublished
      <4> QED
        BY <1>1, <1>4, <4>1 DEF Orders
    <3> QED
      BY <3>1, <3>2
  <2>7. \A p \in Push : p >= next' => boxed'[p] = None /\ fate'[p] = "refused"
    BY <1>1, <1>3 DEF Orders
  <2>8. who' = who /\ batch' = batch
    OBVIOUS
  <2> QED
    BY <2>1, <2>2, <2>4, <2>5, <2>6, <2>7, <2>8 DEF Orders
<1>9. Boxes'
  <2>1. RightfulResume'
    BY <1>1, <1>2, <1>4, <1>5 DEF Boxes, RightfulResume
  <2> QED
    BY <1>1, <2>1 DEF Boxes
<1>10. Placed'
  <2>1. \A p \in Push : InSent(p)' <=> InSent(p) \/ p = next
    BY <1>1, <1>4, <1>5 DEF InSent
  <2>2. \A p \in Push : InBuffer(p)' <=> InBuffer(p)
    BY DEF InBuffer, Live, Claimed
  <2>3. \A p \in PushesIn(batch') : ~InSent(p)' /\ \A d \in Conn : p \notin PushesIn(buffer'[d])
    BY <1>1, <1>2, <2>1, Members DEF Placed, TypeInv, TypeOK
  <2>4. \A d \in Conn : \A p \in PushesIn(buffer'[d]) : ~InSent(p)'
    <3>1. \A d \in Conn : \A p \in PushesIn(buffer[d]) : ~InSent(p) /\ p # next /\ p \in Push
      BY <1>1, <1>2, Members DEF Placed, TypeInv, TypeOK
    <3> QED
      BY <2>1, <3>1
  <2>5. \A c, d \in Conn : \A p \in PushesIn(Sent(c))' : p \in PushesIn(Sent(d))' => c = d
    <3>1. \A c \in Conn : next \notin PushesIn(Sent(c))
      BY <1>2 DEF InSent
    <3>2. \A c, d \in Conn : \A p \in PushesIn(Sent(c)) : p \in PushesIn(Sent(d)) => c = d
      BY <1>1 DEF Placed
    <3> QED
      BY <1>4, <1>5, <3>1, <3>2
  <2>6. \A p \in Push : fate'[p] = "kept" <=> InSent(p)' \/ p \in PushesIn(batch') \/ InBuffer(p)'
    BY <1>1, <1>2, <2>1, <2>2 DEF Placed
  <2> QED
    BY <2>3, <2>4, <2>5, <2>6 DEF Placed
<1> QED
  BY <1>6, <1>7, <1>8, <1>9, <1>10 DEF ResumeInv

\* It comes last in a queue, or its sender gets an error.
LEMMA SendPushStep ==
    ASSUME ResumeInv, TypeInv', SendPush PROVE ResumeInv'
<1>1. /\ TypeInv /\ target \in Conn /\ pusher = "send"
      /\ sess \in [Conn -> {"idle", "loggingIn", "online", "offlining"}]
  BY Parts DEF SendPush, TypeInv, TypeOK, Bound
<1>2. /\ UNCHANGED <<got, users, reader, detached, buffer, login, who, token, taken, batch, boxed>>
      /\ pusher' = "idle" /\ next' = next + 1
  BY DEF SendPush, PushReturns, readVars, tableVars, loginVars
<1>3. CASE queue' = [queue EXCEPT ![target] = Append(@, next)] /\ fate' = [fate EXCEPT ![next] = "kept"]
           /\ UNCHANGED <<sess, replaced, body>>
  BY <1>1, <1>2, <1>3, PushSent
<1>4. CASE UNCHANGED <<queue, fate>> /\ (TimedOut(target) \/ UNCHANGED <<sess, replaced, body>>)
  <2>1. \A c \in Conn : sess[c] # "idle" => sess'[c] # "idle"
    BY <1>1, <1>4 DEF TimedOut, BeginOfflining
  <2> QED
    BY <1>2, <1>4, <2>1, PushControl
<1> QED
  BY <1>3, <1>4 DEF SendPush

\* The push is buffered in the session found.
LEMMA PushBoxed ==
    ASSUME ResumeInv, TypeInv', AppendPush,
           buffer' = [buffer EXCEPT ![target] = Append(Room(buffer[target]), next)],
           boxed' = [boxed EXCEPT ![next] = target],
           fate' = [p \in Push |->
                      CASE p = next -> IF target = detached \/ Claimed(target) THEN "kept" ELSE "raced"
                        [] p # next /\ p \in PushesIn(buffer[target]) \ PushesIn(Room(buffer[target]))
                           /\ fate[p] = "kept" -> "overflow"
                        [] OTHER -> fate[p]]
    PROVE  ResumeInv'
<1>1. /\ TypeInv /\ Logins /\ Windows /\ Orders /\ Boxes /\ Placed
      /\ target \in Conn /\ pusher = "append" /\ pusher' = "idle" /\ next' = next + 1
      /\ ~Undetached(target) /\ buffer[target] \in Seq(Push) /\ Len(buffer[target]) <= BufferLimit
      /\ buffer \in [Conn -> Seq(Push)] /\ boxed \in [Push -> Conn \cup {None}]
      /\ users \in Conn \cup {None} /\ (login # "no" => who \in Conn)
  BY Parts DEF AppendPush, PushReturns, Logins, TypeInv, TypeOK, Bound
<1>2. UNCHANGED <<sess, queue, got, users, reader, detached, login, who, token, taken, batch>>
  BY DEF AppendPush, sessVars, readVars, loginVars
<1>3. /\ next \in Push /\ boxed[next] = None /\ fate[next] = "refused" /\ ~InSent(next)
      /\ next \notin PushesIn(batch) /\ \A d \in Conn : next \notin PushesIn(buffer[d])
      /\ \A c \in Conn : \A p \in PushesIn(Sent(c)) \cup PushesIn(buffer[c]) : p < next
      /\ \A p \in PushesIn(batch) : p < next
  BY <1>1, NextIsNew
<1>4. \A p \in Push : (p < next' <=> p < next \/ p = next) /\ (p >= next' <=> p >= next /\ p # next)
  BY <1>1, NextIsMade
<1> DEFINE old == buffer[target]
           kept == PushesIn(Room(old))
<1>5. /\ Room(old) \in Seq(Push) /\ kept \subseteq PushesIn(old) /\ Sorted(Room(old))
      /\ PushesIn(old) \subseteq Push
  BY <1>1, RoomMade, Members DEF Orders
<1>6. /\ PushesIn(buffer'[target]) = kept \cup {next} /\ Sorted(buffer'[target])
      /\ \A d \in Conn : d # target => buffer'[d] = buffer[d]
  <2>1. buffer'[target] = Append(Room(old), next)
    BY <1>1
  <2>2. \A p \in kept : p < next
    BY <1>1, <1>3, <1>5
  <2> QED
    BY <1>1, <1>3, <1>5, <2>1, <2>2, Appended
<1>7. \A c \in Conn : Sent(c)' = Sent(c)
  BY <1>2 DEF Sent
<1>8. /\ fate'[next] = IF Live(target) THEN "kept" ELSE "raced"
      /\ \A p \in Push : p # next => fate'[p] = IF p \in PushesIn(old) \ kept /\ fate[p] = "kept"
                                               THEN "overflow" ELSE fate[p]
  BY <1>3 DEF Live
<1>9. Logins'
  BY <1>1, <1>2, <1>7 DEF Logins, Unpublished, Unreplayed, Undetached
<1>10. Windows'
  BY <1>1, <1>2, <1>6 DEF Windows, Undetached
<1>11. (\A c \in Conn : PushesIn(Sent(c)) \subseteq Push /\ PushesIn(buffer[c]) \subseteq Push)
       /\ PushesIn(batch) \subseteq Push
  BY <1>1, SentTypes, Members DEF TypeInv, TypeOK
<1>12. Orders'
  <2>1. \A c \in Conn : Sorted(Sent(c))' /\ Made(Sent(c))'
    BY <1>1, <1>3, <1>4, <1>7, <1>11 DEF Orders, Made
  <2>2. \A c \in Conn : Sorted(buffer[c])' /\ Made(buffer[c])'
    BY <1>1, <1>3, <1>4, <1>5, <1>6, <1>11 DEF Orders, Made
  <2>3. Sorted(batch)' /\ Made(batch)'
    BY <1>1, <1>2, <1>3, <1>4, <1>11 DEF Orders, Made
  <2>4. \A q \in PushesIn(batch) : \A p \in PushesIn(Sent(who))' : p < q
    <3>1. CASE batch = <<>>
      BY <3>1, Empty
    <3>2. CASE batch # <<>>
      BY <1>1, <1>2, <1>7, <3>2 DEF Logins, Orders
    <3> QED
      BY <3>1, <3>2
  <2>5. \A p \in Push : p >= next' => boxed'[p] = None /\ fate'[p] = "refused"
    BY <1>1, <1>3, <1>4, <1>8 DEF Orders
  <2> QED
    BY <1>2, <2>1, <2>2, <2>3, <2>4, <2>5 DEF Orders
<1>13. Boxes'
  <2>1. boxed'[next] = target /\ \A p \in Push : p # next => boxed'[p] = boxed[p]
    BY <1>1, <1>3
  <2>2. \A d \in Conn : \A p \in PushesIn(buffer'[d]) : boxed'[p] = d
    BY <1>1, <1>3, <1>5, <1>6, <1>11, <2>1 DEF Boxes
  <2>3. \A p \in PushesIn(batch') : boxed'[p] = token'[who']
    BY <1>1, <1>2, <1>3, <1>11, <2>1 DEF Boxes
  <2>4. RightfulResume'
    BY <1>1, <1>2, <1>3, <1>7, <1>11, <2>1 DEF Boxes, RightfulResume, InSent
  <2> QED
    BY <2>2, <2>3, <2>4 DEF Boxes
<1>14. Placed'
  <2>1. \A p \in Push : InSent(p)' <=> InSent(p)
    BY <1>7 DEF InSent
  <2>2. \A d \in Conn : Live(d)' <=> Live(d)
    BY <1>2 DEF Live, Claimed
  <2>3. \A d \in Conn : \A p \in PushesIn(old) : p \in PushesIn(buffer[d]) => d = target
    BY <1>1 DEF Boxes
  <2>4. \A d \in Conn : \A p \in PushesIn(buffer'[d]) : p = next \/ p \in PushesIn(buffer[d])
    BY <1>5, <1>6
  <2>5. ASSUME NEW p \in Push, p # next
        PROVE  InBuffer(p)' <=> InBuffer(p) /\ p \notin PushesIn(old) \ kept
    BY <1>1, <1>5, <1>6, <2>2, <2>3, <2>5 DEF InBuffer
  <2>6. \A p \in Push : p = next => (InBuffer(p)' <=> Live(target))
    BY <1>1, <1>3, <1>6, <2>2 DEF InBuffer
  <2>7. ASSUME NEW p \in Push
        PROVE  fate'[p] = "kept" <=> InSent(p)' \/ p \in PushesIn(batch') \/ InBuffer(p)'
    <3>1. CASE p = next
      BY <1>2, <1>3, <1>8, <2>1, <2>6, <3>1
    <3>2. CASE p # next
      <4>1. fate[p] = "kept" <=> InSent(p) \/ p \in PushesIn(batch) \/ InBuffer(p)
        BY <1>1 DEF Placed
      <4>2. p \in PushesIn(old) => ~InSent(p) /\ p \notin PushesIn(batch)
        BY <1>1 DEF Placed
      <4> QED
        BY <1>2, <1>8, <2>1, <2>5, <3>2, <4>1, <4>2
    <3> QED
      BY <3>1, <3>2
  <2>8. \A p \in PushesIn(batch') : ~InSent(p)' /\ \A d \in Conn : p \notin PushesIn(buffer'[d])
    BY <1>1, <1>2, <1>3, <1>11, <2>1, <2>4 DEF Placed
  <2>9. \A d \in Conn : \A p \in PushesIn(buffer'[d]) : ~InSent(p)'
    <3>1. \A d \in Conn : \A p \in PushesIn(buffer[d]) : ~InSent(p) /\ p \in Push
      BY <1>1, <1>11 DEF Placed
    <3> QED
      BY <1>3, <2>1, <2>4, <3>1
  <2>10. \A c, d \in Conn : \A p \in PushesIn(Sent(c))' : p \in PushesIn(Sent(d))' => c = d
    BY <1>1, <1>7 DEF Placed
  <2> QED
    BY <2>7, <2>8, <2>9, <2>10 DEF Placed
<1> QED
  BY <1>9, <1>10, <1>12, <1>13, <1>14 DEF ResumeInv

\* It comes last in the buffer, and the oldest one gives way when that is
\* full; or its sender gets an error, when the window has closed.
LEMMA AppendPushStep ==
    ASSUME ResumeInv, TypeInv', AppendPush PROVE ResumeInv'
<1>1. CASE UNCHANGED <<buffer, boxed, fate>>
  <2>1. /\ UNCHANGED <<sess, queue, got, users, reader, detached, login, who, token, taken, batch>>
        /\ pusher' = "idle" /\ next' = next + 1
    BY DEF AppendPush, PushReturns, sessVars, readVars, loginVars
  <2> QED
    BY <1>1, <2>1, PushControl
<1>2. CASE ~(UNCHANGED <<buffer, boxed, fate>>)
  BY <1>2, PushBoxed DEF AppendPush
<1> QED
  BY <1>1, <1>2

-----------------------------------------------------------------------------
(* Theorems *)

\* Initially nothing was pushed.
THEOREM ResumeInit == Init => ResumeInv
<1> SUFFICES ASSUME Init PROVE ResumeInv
  OBVIOUS
<1>1. TypeInv
  BY TypeInit
<1>2. \A c \in Conn : Sent(c) = <<>>
  BY Empty DEF Init, Sent
<1>3. Logins
  BY <1>2, ResumeAssumption DEF Init, Logins, Unpublished, Unreplayed
<1>4. Windows
  BY ResumeAssumption DEF Init, Windows
<1>5. Orders
  BY <1>2, Empty DEF Init, Orders, Made
<1>6. Boxes
  BY <1>2, Empty DEF Init, Boxes, RightfulResume
<1>7. Placed
  BY <1>2, Empty DEF Init, Placed, InSent, InBuffer
<1> QED
  BY <1>1, <1>3, <1>4, <1>5, <1>6, <1>7 DEF ResumeInv

\* A step keeps the invariant.
THEOREM ResumeStep == ResumeInv /\ [Next]_vars => ResumeInv'
<1> SUFFICES ASSUME ResumeInv, [Next]_vars PROVE ResumeInv'
  OBVIOUS
<1>1. TypeInv'
  BY Parts, TypeStep
<1>2. ASSUME NEW c \in Conn, ConnStep(c) PROVE ResumeInv'
  BY <1>1, <1>2, ConnBackground, BackgroundStep
<1>3. ASSUME NEW c \in Conn, NEW t \in Conn \cup {None}, StartLogin(c, t) PROVE ResumeInv'
  BY <1>1, <1>3, StartLoginStep
<1>4. CASE LoginStep
  BY <1>1, <1>4, KickStep, KickReturnsStep, TryBeginLoginStep, TakeDetachedStep, DrainDetachedStep,
     ReplayStep, PublishStep, NameStep, MarkOnlineStep DEF LoginStep
<1>5. CASE PushStep
  BY <1>1, <1>5, StartPushStep, SendPushStep, FindWindowStep, AppendPushStep DEF PushStep
<1>6. CASE UNCHANGED vars
  <2>1. /\ UNCHANGED <<sess, queue, got, users, reader, detached, buffer, login, who, token, taken, batch,
                       pusher, target, next, boxed, fate>>
    BY <1>6 DEF vars, sessVars, readVars, tableVars, loginVars, pushVars
  <2>2. Background
    BY <2>1 DEF Background, Sent, Undetached
  <2> QED
    BY <1>1, <2>1, <2>2, BackgroundStep
<1> QED
  BY <1>2, <1>3, <1>4, <1>5, <1>6 DEF Next, ConnStep

\* Types of the resume window: the capacity of a queue and the limit of a
\* buffer included.
THEOREM TypeCorrect == Spec => []TypeOK
<1>1. Init => TypeInv
  BY TypeInit
<1>2. TypeInv /\ [Next]_vars => TypeInv'
  BY TypeStep
<1>3. TypeInv => TypeOK
  BY DEF TypeInv
<1> QED
  BY <1>1, <1>2, <1>3, PTL DEF Spec

\* The inductive invariant holds.
THEOREM ResumeCorrect == Spec => []ResumeInv
<1>1. Init => ResumeInv
  BY ResumeInit
<1>2. ResumeInv /\ [Next]_vars => ResumeInv'
  BY ResumeStep
<1> QED
  BY <1>1, <1>2, PTL DEF Spec

\* What was buffered for a session reaches only a connection that presented
\* the session's token (rpc/tcp.go, consumeDetachedSession).
THEOREM RightfulCorrect == Spec => []RightfulResume
<1>1. ResumeInv => RightfulResume
  BY DEF ResumeInv, Boxes
<1> QED
  BY <1>1, ResumeCorrect, PTL

\* A connection gets its pushes in the order they were made, the replayed ones
\* before the others (rpc/tcp.go, DoLogin).
THEOREM OrderCorrect == Spec => []InOrder
<1>1. ResumeInv => InOrder
  BY DEF ResumeInv, Orders, Sorted, InOrder
<1> QED
  BY <1>1, ResumeCorrect, PTL

\* Every push that was accepted is in one place, or lost for a reason that is
\* recorded (rpc/tcp.go, ToUser and the detached sessions).
THEOREM PlacesCorrect == Spec => []NothingVanishes
<1>1. ASSUME ResumeInv PROVE NothingVanishes
  <2>1. TypeInv /\ Logins /\ Boxes /\ Placed
    BY <1>1, Parts
  <2> SUFFICES ASSUME NEW p \in Push
               PROVE  LET places == {c \in Conn : p \in PushesIn(Sent(c))}
                        \cup {d \in Conn : (d = detached \/ Claimed(d)) /\ p \in PushesIn(buffer[d])}
                        \cup (IF p \in PushesIn(batch) THEN {who} ELSE {})
                      IN (places # {}) = (fate[p] = "kept") /\ \A c, d \in places : c = d
    BY DEF NothingVanishes
  <2> DEFINE places == {c \in Conn : p \in PushesIn(Sent(c))}
                        \cup {d \in Conn : (d = detached \/ Claimed(d)) /\ p \in PushesIn(buffer[d])}
                        \cup (IF p \in PushesIn(batch) THEN {who} ELSE {})
  <2>2. places # {} <=> InSent(p) \/ InBuffer(p) \/ p \in PushesIn(batch)
    BY DEF InSent, InBuffer, Live
  <2>3. fate[p] = "kept" <=> InSent(p) \/ InBuffer(p) \/ p \in PushesIn(batch)
    BY <2>1 DEF Placed
  <2>4. ASSUME NEW c \in places, NEW d \in places PROVE c = d
    <3>1. \/ c \in Conn /\ p \in PushesIn(Sent(c))
          \/ c \in Conn /\ p \in PushesIn(buffer[c])
          \/ c = who /\ p \in PushesIn(batch)
      OBVIOUS
    <3>2. \/ d \in Conn /\ p \in PushesIn(Sent(d))
          \/ d \in Conn /\ p \in PushesIn(buffer[d])
          \/ d = who /\ p \in PushesIn(batch)
      OBVIOUS
    <3> QED
      BY <2>1, <3>1, <3>2 DEF Placed, Boxes, InSent
  <2> QED
    BY <2>2, <2>3, <2>4
<1> QED
  BY <1>1, ResumeCorrect, PTL
=============================================================================
