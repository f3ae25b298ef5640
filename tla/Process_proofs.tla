--------------------------- MODULE Process_proofs ---------------------------
(***************************************************************************)
(* Proofs about ServiceLifecycle, for any services, modes, requests and    *)
(* faults: types, that a published module is served, and that a graceful   *)
(* exit saves what was written before it; about the game configuration it  *)
(* serves, HotReload, for any types, readers and watchers: types, and that *)
(* no type goes back to an older content; and about its own configuration, *)
(* ConfigValues, for any values: that its two views stay the same, and     *)
(* that a reload does all or nothing.                                      *)
(***************************************************************************)
EXTENDS ServiceLifecycle, HotReload, ConfigValues, TLAPS

-----------------------------------------------------------------------------
(* The invariant *)

\* The types of what Run sets up, of the entries and Destroy, and of the rest.
RunTypes ==
    /\ mode \in Modes
    /\ run \in {"hooks", "startup", "listen", "register", "health", "http", "web", "beat", "up"}
    /\ started \subseteq Service /\ kv \subseteq Service
    /\ accept \in {"off", "open", "closed"} /\ plugin \in BOOLEAN
    /\ serving \in {"off", "on", "shut"} /\ http \in {"off", "on", "shut"}
EntryTypes ==
    /\ agent \subseteq Entry /\ held \subseteq Entry /\ stopped \subseteq held \cup {"node"} /\ away \subseteq held
    /\ loop \in [Entry -> {"off", "wait", "update", "reregister", "again", "end"}]
    /\ winner \in {"none", "signal", "manual"}
    /\ destroy \in {"no", "unregister", "unregisterHTTP", "http", "drain", "flush", "services", "done"}
    /\ helper \in [Entry -> {"no", "entry", "keys", "done"}]
    /\ late \subseteq {"unregister", "drain"}
    /\ faults \in 0..MaxFaults
RestTypes ==
    /\ early \in BOOLEAN /\ hung \in BOOLEAN
    /\ sig \in BOOLEAN /\ seq \in {"idle", "server", "others", "hooks", "done"}
    /\ exit \in {"none", "graceful", "error"}
    /\ running \subseteq seen /\ seen \subseteq Request /\ dirty \subseteq Request \cup {"destroy"}

\* A heartbeat and a helper that takes an entry off have its handle.
Handles ==
    /\ loop["web"] # "off" => "web" \in held
    /\ \A e \in Entry : helper[e] = "entry" => e \in held

\* Where Run is tells what has been set up, and by which kind of process.
Stages ==
    /\ run # "hooks" => plugin = (mode = "cluster")
    /\ run \in {"startup", "listen", "register", "health"} => mode # "client"
    /\ serving = "off" => mode = "client" \/ run \in {"hooks", "startup", "listen"}
    /\ serving # "off" => mode # "client"
    /\ run \in {"web", "beat", "up"} => http # "off"
    /\ kv # {} => /\ mode = "cluster" /\ kv \subseteq started
                  /\ run \in {"health", "http", "web", "beat", "up"}

Unregistering == {"no", "unregister"}
Accepting     == Unregistering \cup {"unregisterHTTP"}
Serving       == Accepting \cup {"http"}
Draining      == Serving \cup {"drain"}

\* How far Destroy is, and what that leaves behind if no signal met Run
\* half-way: the keys are deleted before the servers stop, unless Consul was too
\* slow, and the servers stop before the drain.
Destroying ==
    /\ winner = "none" => destroy = "no" /\ helper["node"] = "no"
    /\ winner # "none" => destroy # "no" /\ helper["node"] # "no"
    /\ serving = "shut" => destroy \notin Serving
    /\ ~sig => ~early
    /\ ~early =>
          /\ sig \/ winner # "none" => run = "up"
          /\ plugin /\ helper["node"] = "done" => kv = {}
          /\ destroy \notin Unregistering => helper["node"] = "done" \/ "unregister" \in late
          /\ destroy \notin Accepting => http # "on"
          /\ destroy \notin Serving => serving # "on" /\ ("http" \notin running \/ "drain" \in late)
          /\ destroy \notin Draining => "rpc" \notin running \/ "drain" \in late

\* Work that the shutdown does not wait for.
Excused(r) ==
    \/ r \in {"rpc", "http"} /\ "drain" \in late
    \/ r = "gate" /\ mode = "single"

\* How far the shutdown is: the last flush comes after Destroy and the handlers.
Flushing ==
    /\ ~sig => seq = "idle"
    /\ seq = "idle" => winner # "signal"
    /\ winner = "signal" => seq \in {"server", "hooks", "done"}
    /\ seq \in {"hooks", "done"} /\ winner = "signal" => destroy = "done"
    /\ "gate" \in running => mode = "single"
    /\ seq = "done" /\ winner = "signal" /\ ~early => \A r \in dirty : Excused(r)
    /\ exit = "graceful" => seq = "done"

LifeInv == RunTypes /\ EntryTypes /\ RestTypes /\ Handles /\ Stages /\ Destroying /\ Flushing

-----------------------------------------------------------------------------
(* Steps *)

\* They are all the types.
LEMMA TypeParts == TypeOK <=> RunTypes /\ EntryTypes /\ RestTypes
  BY DEF TypeOK, RunTypes, EntryTypes, RestTypes

\* Initially nothing has been set up.
THEOREM LifeInit == Init => LifeInv
<1> SUFFICES ASSUME Init PROVE LifeInv
  OBVIOUS
<1>1. RunTypes /\ EntryTypes /\ RestTypes
  <2>1. RunTypes
    BY DEF Init, RunTypes
  <2>2. EntryTypes
    BY LifecycleAssumption DEF Init, EntryTypes
  <2>3. RestTypes
    BY DEF Init, RestTypes
  <2> QED
    BY <2>1, <2>2, <2>3
<1>2. Handles /\ Stages
  BY DEF Init, Handles, Stages, Entry
<1>3. Destroying /\ Flushing
  BY DEF Init, Destroying, Flushing, Unregistering, Accepting, Serving, Draining, Entry
<1> QED
  BY <1>1, <1>2, <1>3 DEF LifeInv

\* A call of Consul stays within the bound of its failures.
LEMMA FaultTypes == EntryTypes /\ (Fault \/ NoFault) => faults' \in 0 .. MaxFaults
  BY LifecycleAssumption DEF EntryTypes, Fault, NoFault

\* A new handle.
LEMMA HoldTypes ==
    ASSUME EntryTypes, NEW e \in Entry, Hold(e) \/ UNCHANGED <<held, agent, faults>>
    PROVE  /\ held' \subseteq Entry /\ agent' \subseteq Entry /\ held \subseteq held'
           /\ faults' \in 0 .. MaxFaults
<1>1. faults' \in 0 .. MaxFaults
  BY FaultTypes DEF Hold, NoFault
<1> QED
  BY <1>1 DEF EntryTypes, Hold

\* The entries and their helper when Destroy begins.
LEMMA EnterTypes ==
    ASSUME EntryTypes, Handles, NEW who \in {"signal", "manual"}, Enter(who)
    PROVE  /\ winner' \in {"none", "signal", "manual"} /\ destroy' = "unregister"
           /\ stopped' \subseteq held \cup {"node"}
           /\ helper' \in [Entry -> {"no", "entry", "keys", "done"}]
           /\ \A e \in Entry : helper'[e] = "entry" => e \in held
           /\ helper'["node"] # "no" /\ (helper'["node"] = "done" => ~plugin)
<1>1. /\ winner' = who /\ destroy' = "unregister"
      /\ stopped' = stopped \cup {e \in {"node"} : loop[e] # "off"}
      /\ helper' = [helper EXCEPT !["node"] = IF "node" \in held THEN "entry"
                                              ELSE IF plugin THEN "keys" ELSE "done"]
  BY DEF Enter
<1>2. helper'["node"] \in {"entry", "keys", "done"} /\ (helper'["node"] = "entry" => "node" \in held)
      /\ (helper'["node"] = "done" => ~plugin)
  BY <1>1 DEF EntryTypes, Entry
<1>3. \A e \in Entry : e # "node" => helper'[e] = helper[e]
  BY <1>1 DEF EntryTypes
<1>4. helper' \in [Entry -> {"no", "entry", "keys", "done"}]
  BY <1>1 DEF EntryTypes
<1> QED
  BY <1>1, <1>2, <1>3, <1>4 DEF EntryTypes, Handles

\* A heartbeat touches its entry and its own place only, and has a handle.
LEMMA BeatStep ==
    ASSUME EntryTypes, NEW e \in Entry, Renew(e) \/ LoopEnds(e)
    PROVE  /\ agent' \subseteq Entry /\ faults' \in 0 .. MaxFaults
           /\ loop' \in [Entry -> {"off", "wait", "update", "reregister", "again", "end"}]
           /\ \A f \in Entry : loop'[f] # "off" => loop[f] # "off" \/ f \in held
           /\ UNCHANGED beatFrame
<1> USE LifecycleAssumption DEF EntryTypes, LoopTo, Fault, NoFault
<1>1. CASE Tick(e) \/ LoopEnds(e)
  BY <1>1 DEF Tick, LoopEnds
<1>2. CASE \E from \in {"update", "again"} : Renewed(e, from)
  BY <1>2 DEF Renewed
<1>3. CASE UpdateFails(e)
  BY <1>3 DEF UpdateFails
<1>4. CASE Reregister(e)
  BY <1>4 DEF Reregister
<1>5. CASE RenewFails(e)
  BY <1>5 DEF RenewFails
<1> QED
  BY <1>1, <1>2, <1>3, <1>4, <1>5 DEF Renew

\* Every step keeps the types.
THEOREM TypeStep == LifeInv /\ [Next]_vars => (RunTypes /\ EntryTypes /\ RestTypes /\ Handles)'
<1> SUFFICES ASSUME LifeInv, [Next]_vars PROVE (RunTypes /\ EntryTypes /\ RestTypes /\ Handles)'
  OBVIOUS
<1>0. RunTypes /\ EntryTypes /\ RestTypes /\ Handles /\ Stages /\ Destroying /\ Flushing
  BY DEF LifeInv
<1> USE <1>0 DEF Entry, consulVars, listenVars, runVars, beatVars, destroyVars, signalVars, workVars, beatFrame
<1>1. CASE PreServe
  <2>1. RunTypes' /\ RestTypes'
    BY <1>1 DEF PreServe, RunTo, RunTypes, RestTypes
  <2>2. EntryTypes' /\ Handles'
    BY <1>1 DEF PreServe, RunTo, EntryTypes, Handles
  <2> QED
    BY <2>1, <2>2
<1>2. CASE Startup
  <2>1. RunTypes' /\ RestTypes'
    BY <1>2 DEF Startup, RunTo, RunTypes, RestTypes
  <2>2. EntryTypes' /\ Handles'
    BY <1>2 DEF Startup, RunTo, EntryTypes, Handles
  <2> QED
    BY <2>1, <2>2
<1>3. CASE Listen
  <2>1. RunTypes' /\ RestTypes'
    BY <1>3 DEF Listen, RunTo, RunTypes, RestTypes
  <2>2. EntryTypes' /\ Handles'
    BY <1>3 DEF Listen, RunTo, EntryTypes, Handles
  <2> QED
    BY <2>1, <2>2
<1>4. CASE Register
  <2>1. RunTypes' /\ RestTypes'
    BY <1>4, FaultTypes DEF Register, RunTo, RunTypes, RestTypes
  <2>2. EntryTypes' /\ Handles'
    BY <1>4, FaultTypes DEF Register, RunTo, EntryTypes, Handles
  <2> QED
    BY <2>1, <2>2
<1>5. CASE SetupHealth
  <2>1. RunTypes' /\ RestTypes'
    BY <1>5, HoldTypes DEF SetupHealth, RunTo, RunTypes, RestTypes
  <2>2. EntryTypes'
    BY <1>5, HoldTypes DEF SetupHealth, RunTo, EntryTypes, Handles
  <2>3. Handles'
    BY <1>5, HoldTypes DEF SetupHealth, RunTo, EntryTypes, Handles
  <2> QED
    BY <2>1, <2>2, <2>3
<1>6. CASE StartHTTP
  <2>1. RunTypes' /\ RestTypes'
    BY <1>6 DEF StartHTTP, RunTo, RunTypes, RestTypes
  <2>2. EntryTypes' /\ Handles'
    BY <1>6 DEF StartHTTP, RunTo, EntryTypes, Handles
  <2> QED
    BY <2>1, <2>2
<1>7. CASE RegisterHTTP
  <2>1. RunTypes' /\ RestTypes'
    BY <1>7, HoldTypes DEF RegisterHTTP, RunTo, RunTypes, RestTypes
  <2>2. EntryTypes'
    BY <1>7, HoldTypes DEF RegisterHTTP, RunTo, EntryTypes, Handles
  <2>3. Handles'
    BY <1>7, HoldTypes DEF RegisterHTTP, RunTo, EntryTypes, Handles
  <2> QED
    BY <2>1, <2>2, <2>3
<1>8. CASE StartBeat
  <2>1. RunTypes' /\ RestTypes'
    BY <1>8 DEF StartBeat, RunTo, RunTypes, RestTypes
  <2>2. EntryTypes' /\ Handles'
    BY <1>8 DEF StartBeat, RunTo, EntryTypes, Handles
  <2> QED
    BY <2>1, <2>2
<1>9. CASE ListenFails \/ ForcedExit \/ GracefulExit
  <2>1. RunTypes' /\ RestTypes'
    BY <1>9 DEF ListenFails, ForcedExit, GracefulExit, RunTypes, RestTypes
  <2>2. EntryTypes' /\ Handles'
    BY <1>9 DEF ListenFails, ForcedExit, GracefulExit, EntryTypes, Handles
  <2> QED
    BY <2>1, <2>2
<1>10. CASE \E e \in Entry : Renew(e) \/ LoopEnds(e)
  <2>1. RunTypes' /\ RestTypes'
    BY <1>10, BeatStep DEF RunTypes, RestTypes
  <2>2. EntryTypes' /\ Handles'
    BY <1>10, BeatStep DEF EntryTypes, Handles
  <2> QED
    BY <2>1, <2>2
<1>11. CASE AgentRestart \/ \E e \in Entry : Reap(e)
  <2>1. RunTypes' /\ RestTypes'
    BY <1>11, FaultTypes DEF AgentRestart, Reap, RunTypes, RestTypes
  <2>2. EntryTypes'
    BY <1>11, FaultTypes DEF AgentRestart, Reap, EntryTypes, Handles
  <2>3. Handles'
    BY <1>11, FaultTypes DEF AgentRestart, Reap, EntryTypes, Handles
  <2> QED
    BY <2>1, <2>2, <2>3
<1>12. CASE \E r \in Request : Arrive(r)
  <2>1. RunTypes' /\ RestTypes'
    BY <1>12 DEF Arrive, CanArrive, Request, RunTypes, RestTypes
  <2>2. EntryTypes' /\ Handles'
    BY <1>12 DEF Arrive, CanArrive, Request, EntryTypes, Handles
  <2> QED
    BY <2>1, <2>2
<1>13. CASE \E r \in Request : Finish(r)
  <2>1. RunTypes' /\ RestTypes'
    BY <1>13 DEF Finish, Request, RunTypes, RestTypes
  <2>2. EntryTypes' /\ Handles'
    BY <1>13 DEF Finish, Request, EntryTypes, Handles
  <2> QED
    BY <2>1, <2>2
<1>14. CASE ManualDestroy
  <2>1. RunTypes' /\ RestTypes'
    BY <1>14, EnterTypes DEF ManualDestroy, RunTypes, RestTypes
  <2>2. EntryTypes'
    BY <1>14, EnterTypes DEF ManualDestroy, EntryTypes, Handles
  <2>3. Handles'
    BY <1>14, EnterTypes DEF ManualDestroy, EntryTypes, Handles
  <2> QED
    BY <2>1, <2>2, <2>3
<1>15. CASE CallDestroy
  <2>1. RunTypes' /\ RestTypes'
    BY <1>15, EnterTypes DEF CallDestroy, RunTypes, RestTypes
  <2>2. EntryTypes'
    BY <1>15, EnterTypes DEF CallDestroy, EntryTypes, Handles
  <2>3. Handles'
    BY <1>15, EnterTypes DEF CallDestroy, EntryTypes, Handles
  <2> QED
    BY <2>1, <2>2, <2>3
<1>16. CASE \E e \in Entry : Deregister(e)
  <2>1. RunTypes' /\ RestTypes'
    BY <1>16, FaultTypes DEF Deregister, RunTypes, RestTypes
  <2>2. EntryTypes'
    <3>1. faults' \in 0 .. MaxFaults
      BY <1>16, FaultTypes DEF Deregister
    <3>2. agent' \subseteq Entry /\ away' \subseteq held
      <4>1. PICK e \in Entry : Deregister(e)
        BY <1>16
      <4>2. e \in held
        BY <4>1 DEF Deregister, Handles
      <4>3. (agent' = agent \ {e} /\ away' = away \cup {e}) \/ UNCHANGED <<agent, away>>
        BY <4>1 DEF Deregister
      <4>4. agent \subseteq Entry /\ away \subseteq held
        BY DEF EntryTypes
      <4> QED
        BY ONLY <4>2, <4>3, <4>4
    <3>3. helper' \in [Entry -> {"no", "entry", "keys", "done"}]
      BY <1>16 DEF Deregister, EntryTypes
    <3> QED
      BY <1>16, <3>1, <3>2, <3>3 DEF Deregister, EntryTypes
  <2>3. Handles'
    BY <1>16, FaultTypes DEF Deregister, EntryTypes, Handles
  <2> QED
    BY <2>1, <2>2, <2>3
<1>17. CASE StopPlugin
  <2>1. RunTypes' /\ RestTypes'
    BY <1>17 DEF StopPlugin, RunTypes, RestTypes
  <2>2. EntryTypes' /\ Handles'
    BY <1>17 DEF StopPlugin, EntryTypes, Handles
  <2> QED
    BY <2>1, <2>2
<1>18. CASE Unregistered
  <2>1. RunTypes' /\ RestTypes'
    BY <1>18 DEF Unregistered, DestroyTo, Await, RunTypes, RestTypes
  <2>2. EntryTypes' /\ Handles'
    BY <1>18 DEF Unregistered, DestroyTo, Await, EntryTypes, Handles
  <2> QED
    BY <2>1, <2>2
<1>19. CASE StopAccept
  <2>1. RunTypes' /\ RestTypes'
    BY <1>19 DEF StopAccept, DestroyTo, RunTypes, RestTypes
  <2>2. EntryTypes' /\ Handles'
    BY <1>19 DEF StopAccept, DestroyTo, EntryTypes, Handles
  <2> QED
    BY <2>1, <2>2
<1>20. CASE ShutdownHTTP
  <2>1. RunTypes' /\ RestTypes'
    BY <1>20 DEF ShutdownHTTP, DestroyTo, Await, RunTypes, RestTypes
  <2>2. EntryTypes' /\ Handles'
    BY <1>20 DEF ShutdownHTTP, DestroyTo, Await, EntryTypes, Handles
  <2> QED
    BY <2>1, <2>2
<1>21. CASE DrainInFlight
  <2>1. RunTypes' /\ RestTypes'
    BY <1>21 DEF DrainInFlight, DestroyTo, Await, RunTypes, RestTypes
  <2>2. EntryTypes' /\ Handles'
    BY <1>21 DEF DrainInFlight, DestroyTo, Await, EntryTypes, Handles
  <2> QED
    BY <2>1, <2>2
<1>22. CASE FlushAll
  <2>1. RunTypes' /\ RestTypes'
    BY <1>22 DEF FlushAll, DestroyTo, RunTypes, RestTypes
  <2>2. EntryTypes' /\ Handles'
    BY <1>22 DEF FlushAll, DestroyTo, EntryTypes, Handles
  <2> QED
    BY <2>1, <2>2
<1>23. CASE DestroyServices
  <2>1. RunTypes' /\ RestTypes'
    BY <1>23 DEF DestroyServices, DestroyTo, RunTypes, RestTypes
  <2>2. EntryTypes' /\ Handles'
    BY <1>23 DEF DestroyServices, DestroyTo, EntryTypes, Handles
  <2> QED
    BY <2>1, <2>2
<1>24. CASE Signal
  <2>1. RunTypes' /\ RestTypes'
    BY <1>24 DEF Signal, RunTypes, RestTypes
  <2>2. EntryTypes' /\ Handles'
    BY <1>24 DEF Signal, EntryTypes, Handles
  <2> QED
    BY <2>1, <2>2
<1>25. CASE OtherHandlers
  <2>0. /\ dirty' \in {dirty, dirty \cup {"destroy"}}
        /\ seq' = "hooks" \/ seq' = seq
        /\ hung' = TRUE \/ hung' = hung
    BY <1>25 DEF OtherHandlers
  <2>1. RunTypes' /\ RestTypes'
    <3>1. RunTypes' /\ running' \subseteq seen' /\ seen' \subseteq Request
      BY <1>25 DEF OtherHandlers, RunTypes, RestTypes
    <3>2. dirty' \subseteq Request \cup {"destroy"} /\ hung' \in BOOLEAN
      BY <2>0 DEF RestTypes
    <3> QED
      BY <1>25, <2>0, <3>1, <3>2 DEF OtherHandlers, RestTypes
  <2>2. EntryTypes' /\ Handles'
    BY <1>25 DEF OtherHandlers, EntryTypes, Handles
  <2> QED
    BY <2>1, <2>2
<1>26. CASE FinalFlush
  <2>1. RunTypes' /\ RestTypes'
    BY <1>26 DEF FinalFlush, RunTypes, RestTypes
  <2>2. EntryTypes' /\ Handles'
    BY <1>26 DEF FinalFlush, EntryTypes, Handles
  <2> QED
    BY <2>1, <2>2
<1>27. CASE UNCHANGED vars
  <2>1. RunTypes' /\ RestTypes'
    BY <1>27 DEF vars, RunTypes, RestTypes
  <2>2. EntryTypes' /\ Handles'
    BY <1>27 DEF vars, EntryTypes, Handles
  <2> QED
    BY <2>1, <2>2
<1> QED
  BY ONLY [Next]_vars, <1>1, <1>2, <1>3, <1>4, <1>5, <1>6, <1>7, <1>8, <1>9, <1>10, <1>11, <1>12, <1>13, <1>14,
     <1>15, <1>16, <1>17, <1>18, <1>19, <1>20, <1>21, <1>22, <1>23, <1>24, <1>25, <1>26, <1>27
     DEF Next, RunStep, DestroyStep, ShutdownStep

\* Every step of Run leaves what the next one relies on.
THEOREM StagesStep == LifeInv /\ [Next]_vars => Stages'
<1> SUFFICES ASSUME LifeInv, [Next]_vars PROVE Stages'
  OBVIOUS
<1>0. TypeOK /\ EntryTypes /\ Handles /\ Stages /\ Destroying /\ Flushing
  BY TypeParts DEF LifeInv
<1> USE <1>0 DEF TypeOK, Stages, Destroying, Serving, Accepting, Unregistering, consulVars, listenVars, runVars, beatVars, destroyVars, signalVars, workVars, beatFrame
<1>1. CASE PreServe
  BY <1>1 DEF PreServe, RunTo
<1>2. CASE Startup
  BY <1>2 DEF Startup, RunTo
<1>3. CASE Listen
  BY <1>3 DEF Listen, RunTo
<1>4. CASE Register
  BY <1>4 DEF Register, RunTo, Fault, NoFault
<1>5. CASE SetupHealth
  BY <1>5 DEF SetupHealth, RunTo, Hold, Fault, NoFault
<1>6. CASE StartHTTP
  BY <1>6 DEF StartHTTP, RunTo
<1>7. CASE RegisterHTTP
  BY <1>7 DEF RegisterHTTP, RunTo, Hold, Fault, NoFault
<1>8. CASE StartBeat
  BY <1>8 DEF StartBeat, RunTo
<1>9. CASE ListenFails \/ ForcedExit \/ GracefulExit
  BY <1>9 DEF ListenFails, ForcedExit, GracefulExit
<1>10. CASE \E e \in Entry : Renew(e) \/ LoopEnds(e)
  BY <1>10, BeatStep
<1>11. CASE AgentRestart \/ \E e \in Entry : Reap(e)
  BY <1>11 DEF AgentRestart, Reap, Fault
<1>12. CASE \E r \in Request : Arrive(r)
  BY <1>12 DEF Arrive, CanArrive, Request
<1>13. CASE \E r \in Request : Finish(r)
  BY <1>13 DEF Finish, Request
<1>14. CASE ManualDestroy
  BY <1>14 DEF ManualDestroy, Enter
<1>15. CASE CallDestroy
  BY <1>15 DEF CallDestroy, Enter
<1>16. CASE \E e \in Entry : Deregister(e)
  BY <1>16 DEF Deregister, Fault, NoFault
<1>17. CASE StopPlugin
  BY <1>17 DEF StopPlugin
<1>18. CASE Unregistered
  BY <1>18 DEF Unregistered, DestroyTo, Await
<1>19. CASE StopAccept
  BY <1>19 DEF StopAccept, DestroyTo
<1>20. CASE ShutdownHTTP
  BY <1>20 DEF ShutdownHTTP, DestroyTo, Await
<1>21. CASE DrainInFlight
  BY <1>21 DEF DrainInFlight, DestroyTo, Await
<1>22. CASE FlushAll
  BY <1>22 DEF FlushAll, DestroyTo
<1>23. CASE DestroyServices
  BY <1>23 DEF DestroyServices, DestroyTo
<1>24. CASE Signal
  BY <1>24 DEF Signal
<1>25. CASE OtherHandlers
  BY <1>25 DEF OtherHandlers
<1>26. CASE FinalFlush
  BY <1>26 DEF FinalFlush
<1>27. CASE UNCHANGED vars
  BY <1>27 DEF vars
<1> QED
  BY ONLY [Next]_vars, <1>1, <1>2, <1>3, <1>4, <1>5, <1>6, <1>7, <1>8, <1>9, <1>10, <1>11, <1>12, <1>13, <1>14,
     <1>15, <1>16, <1>17, <1>18, <1>19, <1>20, <1>21, <1>22, <1>23, <1>24, <1>25, <1>26, <1>27
     DEF Next, RunStep, DestroyStep, ShutdownStep

\* Every step of Destroy leaves what the next one relies on.
THEOREM DestroyingStep == LifeInv /\ [Next]_vars => Destroying'
<1> SUFFICES ASSUME LifeInv, [Next]_vars PROVE Destroying'
  OBVIOUS
<1>0. TypeOK /\ EntryTypes /\ Handles /\ Stages /\ Destroying /\ Flushing
  BY TypeParts DEF LifeInv
<1> USE <1>0 DEF TypeOK, Stages, Destroying, Unregistering, Accepting, Serving, Draining, consulVars, listenVars, runVars, beatVars, destroyVars, signalVars, workVars, beatFrame
<1>1. CASE PreServe
  BY <1>1 DEF PreServe, RunTo
<1>2. CASE Startup
  BY <1>2 DEF Startup, RunTo
<1>3. CASE Listen
  BY <1>3 DEF Listen, RunTo
<1>4. CASE Register
  BY <1>4 DEF Register, RunTo, Fault, NoFault
<1>5. CASE SetupHealth
  BY <1>5 DEF SetupHealth, RunTo, Hold, Fault, NoFault
<1>6. CASE StartHTTP
  BY <1>6 DEF StartHTTP, RunTo
<1>7. CASE RegisterHTTP
  BY <1>7 DEF RegisterHTTP, RunTo, Hold, Fault, NoFault
<1>8. CASE StartBeat
  BY <1>8 DEF StartBeat, RunTo
<1>9. CASE ListenFails \/ ForcedExit \/ GracefulExit
  BY <1>9 DEF ListenFails, ForcedExit, GracefulExit
<1>10. CASE \E e \in Entry : Renew(e) \/ LoopEnds(e)
  BY <1>10, BeatStep
<1>11. CASE AgentRestart \/ \E e \in Entry : Reap(e)
  BY <1>11 DEF AgentRestart, Reap, Fault
<1>12. CASE \E r \in Request : Arrive(r)
  BY <1>12 DEF Arrive, CanArrive, Request
<1>13. CASE \E r \in Request : Finish(r)
  BY <1>13 DEF Finish, Request
<1>14. CASE ManualDestroy
  <2>1. winner' = "manual" /\ destroy' = "unregister" /\ winner = "none"
    BY <1>14 DEF ManualDestroy, Enter
  <2>2. helper'["node"] # "no" /\ (helper'["node"] = "done" => ~plugin)
    BY <1>14, EnterTypes DEF ManualDestroy
  <2> QED
    BY <1>14, <2>1, <2>2 DEF ManualDestroy
<1>15. CASE CallDestroy
  <2>1. CASE Enter("signal") /\ winner = "none"
    <3>1. winner' = "signal" /\ destroy' = "unregister"
      BY <2>1 DEF Enter
    <3>2. helper'["node"] # "no" /\ (helper'["node"] = "done" => ~plugin)
      BY <2>1, EnterTypes
    <3> QED
      BY <1>15, <2>1, <3>1, <3>2 DEF CallDestroy
  <2>2. CASE UNCHANGED <<winner, destroy, stopped, helper>>
    BY <1>15, <2>2 DEF CallDestroy
  <2> QED
    BY <1>15, <2>1, <2>2 DEF CallDestroy, Enter
<1>16. CASE \E e \in Entry : Deregister(e)
  BY <1>16 DEF Deregister, Fault, NoFault
<1>17. CASE StopPlugin
  BY <1>17 DEF StopPlugin
<1>18. CASE Unregistered
  BY <1>18 DEF Unregistered, DestroyTo, Await
<1>19. CASE StopAccept
  BY <1>19 DEF StopAccept, DestroyTo
<1>20. CASE ShutdownHTTP
  BY <1>20 DEF ShutdownHTTP, DestroyTo, Await
<1>21. CASE DrainInFlight
  BY <1>21 DEF DrainInFlight, DestroyTo, Await
<1>22. CASE FlushAll
  BY <1>22 DEF FlushAll, DestroyTo
<1>23. CASE DestroyServices
  BY <1>23 DEF DestroyServices, DestroyTo
<1>24. CASE Signal
  <2>1. (~early' => run = "up") /\ sig' = TRUE /\ ~early
    BY <1>24, Zenon DEF Signal, Destroying
  <2> QED
    BY <1>24, <2>1 DEF Signal
<1>25. CASE OtherHandlers
  BY <1>25 DEF OtherHandlers
<1>26. CASE FinalFlush
  BY <1>26 DEF FinalFlush
<1>27. CASE UNCHANGED vars
  BY <1>27 DEF vars
<1> QED
  BY ONLY [Next]_vars, <1>1, <1>2, <1>3, <1>4, <1>5, <1>6, <1>7, <1>8, <1>9, <1>10, <1>11, <1>12, <1>13, <1>14,
     <1>15, <1>16, <1>17, <1>18, <1>19, <1>20, <1>21, <1>22, <1>23, <1>24, <1>25, <1>26, <1>27
     DEF Next, RunStep, DestroyStep, ShutdownStep

\* Every step of the shutdown leaves what the next one relies on.
THEOREM FlushingStep == LifeInv /\ [Next]_vars => Flushing'
<1> SUFFICES ASSUME LifeInv, [Next]_vars PROVE Flushing'
  OBVIOUS
<1>0. TypeOK /\ EntryTypes /\ Handles /\ Stages /\ Destroying /\ Flushing
  BY TypeParts DEF LifeInv
<1> USE <1>0 DEF TypeOK, Flushing, Excused, Destroying, Unregistering, Accepting, Serving, Draining, consulVars, listenVars, runVars, beatVars, destroyVars, signalVars, workVars, beatFrame
<1>1. CASE PreServe
  BY <1>1 DEF PreServe, RunTo
<1>2. CASE Startup
  BY <1>2 DEF Startup, RunTo
<1>3. CASE Listen
  BY <1>3 DEF Listen, RunTo
<1>4. CASE Register
  BY <1>4 DEF Register, RunTo, Fault, NoFault
<1>5. CASE SetupHealth
  BY <1>5 DEF SetupHealth, RunTo, Hold, Fault, NoFault
<1>6. CASE StartHTTP
  BY <1>6 DEF StartHTTP, RunTo
<1>7. CASE RegisterHTTP
  BY <1>7 DEF RegisterHTTP, RunTo, Hold, Fault, NoFault
<1>8. CASE StartBeat
  BY <1>8 DEF StartBeat, RunTo
<1>9. CASE ListenFails \/ ForcedExit \/ GracefulExit
  BY <1>9 DEF ListenFails, ForcedExit, GracefulExit
<1>10. CASE \E e \in Entry : Renew(e) \/ LoopEnds(e)
  BY <1>10, BeatStep
<1>11. CASE AgentRestart \/ \E e \in Entry : Reap(e)
  BY <1>11 DEF AgentRestart, Reap, Fault
<1>12. CASE \E r \in Request : Arrive(r)
  BY <1>12 DEF Arrive, CanArrive, Request
<1>13. CASE \E r \in Request : Finish(r)
  BY <1>13 DEF Finish, Request
<1>14. CASE ManualDestroy
  BY <1>14 DEF ManualDestroy, Enter
<1>15. CASE CallDestroy
  BY <1>15 DEF CallDestroy, Enter
<1>16. CASE \E e \in Entry : Deregister(e)
  BY <1>16 DEF Deregister, Fault, NoFault
<1>17. CASE StopPlugin
  BY <1>17 DEF StopPlugin
<1>18. CASE Unregistered
  BY <1>18 DEF Unregistered, DestroyTo, Await
<1>19. CASE StopAccept
  BY <1>19 DEF StopAccept, DestroyTo
<1>20. CASE ShutdownHTTP
  BY <1>20 DEF ShutdownHTTP, DestroyTo, Await
<1>21. CASE DrainInFlight
  BY <1>21 DEF DrainInFlight, DestroyTo, Await
<1>22. CASE FlushAll
  BY <1>22 DEF FlushAll, DestroyTo
<1>23. CASE DestroyServices
  BY <1>23 DEF DestroyServices, DestroyTo
<1>24. CASE Signal
  BY <1>24 DEF Signal
<1>25. CASE OtherHandlers
  BY <1>25 DEF OtherHandlers
<1>26. CASE FinalFlush
  BY <1>26 DEF FinalFlush
<1>27. CASE UNCHANGED vars
  BY <1>27 DEF vars
<1> QED
  BY ONLY [Next]_vars, <1>1, <1>2, <1>3, <1>4, <1>5, <1>6, <1>7, <1>8, <1>9, <1>10, <1>11, <1>12, <1>13, <1>14,
     <1>15, <1>16, <1>17, <1>18, <1>19, <1>20, <1>21, <1>22, <1>23, <1>24, <1>25, <1>26, <1>27
     DEF Next, RunStep, DestroyStep, ShutdownStep

-----------------------------------------------------------------------------
(* The theorems *)

\* Every step keeps the invariant.
THEOREM LifeStep == LifeInv /\ [Next]_vars => LifeInv'
  BY TypeStep, StagesStep, DestroyingStep, FlushingStep DEF LifeInv

\* The variables of ServiceLifecycle keep their types.
THEOREM TypeCorrect == Spec => []TypeOK
<1>1. LifeInv => TypeOK
  BY TypeParts DEF LifeInv
<1> QED
  BY <1>1, LifeInit, LifeStep, PTL DEF Spec

\* While it can be discovered, a module is served - unless a signal met Run
\* half-way or Consul was too slow - for any services, modes and faults.
THEOREM ListedCorrect == Spec => []ListedIsServed
<1>1. LifeInv => ListedIsServed
  BY TypeParts DEF LifeInv, TypeOK, Stages, Destroying, ListedIsServed, Serving, Accepting, Unregistering
<1> QED
  BY <1>1, LifeInit, LifeStep, PTL DEF Spec

\* What was written before a graceful exit is saved, or the shutdown did not wait
\* for it, for any requests and faults.
THEOREM ExitCorrect == Spec => []GracefulExitLosesNothing
<1>1. LifeInv => GracefulExitLosesNothing
  <2> SUFFICES ASSUME LifeInv, exit = "graceful", ~early, winner = "signal", NEW r \in running \cup dirty
               PROVE  Excused(r)
    BY DEF GracefulExitLosesNothing, Excused
  <2>1. seq = "done" /\ destroy = "done"
    BY DEF LifeInv, Flushing
  <2>2. CASE r \in dirty
    BY <2>1, <2>2 DEF LifeInv, Flushing
  <2>3. CASE r \in running
    <3>1. r \in {"rpc", "http", "gate"}
      BY <2>3 DEF LifeInv, RestTypes, Request
    <3>2. r \in {"rpc", "http"} => "drain" \in late
      BY <2>1, <2>3 DEF LifeInv, Destroying, Draining, Serving, Accepting, Unregistering
    <3>3. r = "gate" => mode = "single"
      BY <2>3 DEF LifeInv, Flushing
    <3> QED
      BY <3>1, <3>2, <3>3 DEF Excused
  <2> QED
    BY <2>2, <2>3
<1> QED
  BY <1>1, LifeInit, LifeStep, PTL DEF Spec

-----------------------------------------------------------------------------
(* The game configuration: the invariant *)

\* How new a map is: one with nothing in it is older than every revision.
Age(c) == IF c \in Revision THEN c ELSE 0

\* Whatever was read is no newer than the editor, nor than the bytes now in
\* memory, unless these are those of a file being saved.
Below(t, c) == c \in Revision => c <= rev[t] /\ (context[t] # Bad => c <= context[t])

\* A file is being saved, or is what its editor last wrote.
OnDisk == \A t \in Type : file[t] \in {Bad, rev[t]}

\* The bytes in memory are no newer than the editor.
InMemory == \A t \in Type : context[t] # Bad => context[t] <= rev[t]

\* Nor is a map newer than the bytes.
Maps == \A t \in Type : Below(t, data[t])

\* A load's bytes parse to a map no older than the one that was there when it
\* read them, and a map that was there is replaced but never taken away.
Load(a) ==
    /\ Below(work[a].type, work[a].res)
    /\ work[a].res # Bad => Age(work[a].base) <= Age(work[a].res)
    /\ work[a].base # None => data[work[a].type] # None
Loads == \A a \in Actor : work[a].pc = "load" => Load(a)

ReloadInv == ReloadTypeOK /\ OnDisk /\ InMemory /\ Maps /\ Loads

-----------------------------------------------------------------------------
(* Types *)

\* The initial state of the configuration is well typed.
LEMMA ReloadTypeInit == ReloadInit => ReloadTypeOK
<1> SUFFICES ASSUME ReloadInit PROVE ReloadTypeOK
  OBVIOUS
<1>1. 1 \in Revision /\ 0 \in 0..MaxManual
  BY ReloadAssumption DEF Revision
<1>2. /\ rev \in [Type -> Revision] /\ file \in [Type -> Revision \cup {Bad}]
      /\ context \in [Type -> Revision \cup {Bad}] /\ data \in [Type -> Revision \cup {None, Empty}]
  BY <1>1 DEF ReloadInit
<1>3. /\ work \in [Actor -> WorkSet]
      /\ \A a \in Actor : work[a].pc = "idle"
  BY DEF ReloadInit, NoWork, WorkSet
<1> QED BY <1>1, <1>2, <1>3 DEF ReloadInit, ReloadTypeOK

\* What is on its way to the watchers is well typed.
WatchType == watch \in [Watcher -> [run: {"new", "on", "stopping", "gone"}, event: BOOLEAN,
                                   timer: BOOLEAN, trigger: BOOLEAN]]

\* A call put in the place of another is well typed when it is.
LEMMA WorkTypes ==
    ASSUME ReloadTypeOK, NEW a \in Actor, NEW w \in WorkSet, work' = [work EXCEPT ![a] = w],
           w.pc \in {"lock", "load"} => w.type \in Type,
           w.pc = "load" => w.res # None
    PROVE  /\ work' \in [Actor -> WorkSet]
           /\ \A b \in Actor : work'[b].pc \in {"lock", "load"} => work'[b].type \in Type
           /\ \A b \in Actor : work'[b].pc = "load" => work'[b].res # None
  BY DEF ReloadTypeOK

\* No call is a call.
LEMMA NoWorkType == NoWork \in WorkSet
  BY DEF NoWork, WorkSet

\* A save of the editor keeps the types.
LEMMA EditTypes ==
    ASSUME ReloadTypeOK, NEW t \in Type, WriteBegin(t) \/ WriteEnd(t)
    PROVE  ReloadTypeOK'
<1>1. ASSUME NEW c, Change(t, c) PROVE WatchType' /\ unseen' \in BOOLEAN
  <2>1. \A w \in Watcher : (watch[w].event \/ Listens(w)) \in BOOLEAN
    BY DEF ReloadTypeOK, Listens
  <2>2. watch' = [w \in Watcher |-> [watch[w] EXCEPT !.event = watch[w].event \/ Listens(w)]]
    BY <1>1 DEF Change
  <2>3. \A e \in BOOLEAN : \A w \in Watcher :
          [watch[w] EXCEPT !.event = e] \in [run: {"new", "on", "stopping", "gone"},
                                             event: BOOLEAN, timer: BOOLEAN, trigger: BOOLEAN]
    BY DEF ReloadTypeOK
  <2>4. WatchType'
    <3>1. \A w \in Watcher : [watch[w] EXCEPT !.event = watch[w].event \/ Listens(w)]
              \in [run: {"new", "on", "stopping", "gone"}, event: BOOLEAN, timer: BOOLEAN, trigger: BOOLEAN]
      BY <2>1, <2>3
    <3> QED BY <2>2, <3>1, Zenon DEF WatchType
  <2>5. unseen' \in BOOLEAN
    BY <1>1, Zenon DEF Change
  <2> QED BY <2>4, <2>5
<1>2. CASE WriteBegin(t)
  <2>1. rev' \in [Type -> Revision] /\ file' \in [Type -> Revision \cup {Bad}]
    BY <1>2, ReloadAssumption DEF WriteBegin, Change, ReloadTypeOK, Revision
  <2> QED BY <1>1, <1>2, <2>1 DEF WriteBegin, Change, ReloadTypeOK, WatchType, locks
<1>3. CASE WriteEnd(t)
  <2>1. file' \in [Type -> Revision \cup {Bad}]
    BY <1>3 DEF WriteEnd, Change, ReloadTypeOK
  <2> QED BY <1>1, <1>3, <2>1 DEF WriteEnd, Change, ReloadTypeOK, WatchType, locks
<1> QED BY <1>2, <1>3

\* The end of a load keeps the types of the calls and of newLock.
LEMMA ReturnTypes ==
    ASSUME ReloadTypeOK, NEW a \in Actor, work[a].pc = "load", Return(a)
    PROVE  /\ work' \in [Actor -> WorkSet]
           /\ \A b \in Actor : work'[b].pc \in {"lock", "load"} => work'[b].type \in Type
           /\ \A b \in Actor : work'[b].pc = "load" => work'[b].res # None
           /\ newLock' \in Reader \cup {None}
<1> DEFINE w == IF a \in Reloader
                THEN [NoWork EXCEPT !.pc = "range", !.todo = work[a].todo,
                                    !.done = work[a].done \cup {work[a].type}]
                ELSE [NoWork EXCEPT !.pc = IF a = Loader THEN "over" ELSE "idle"]
<1>1. w \in WorkSet /\ w.pc \in {"range", "over", "idle"}
  BY DEF ReloadTypeOK, NoWork, WorkSet
<1>2. work' = [work EXCEPT ![a] = w]
  BY DEF Return
<1>3. newLock' \in Reader \cup {None}
  BY DEF Return, ReloadTypeOK
<1> HIDE DEF w
<1> QED BY <1>1, <1>2, <1>3, WorkTypes

\* What a load reads is well typed.
LEMMA TakeTypes ==
    ASSUME ReloadTypeOK, NEW a \in Actor, NEW t \in Type
    PROVE  /\ Take(a, t) \in WorkSet
           /\ Take(a, t).pc = "load" /\ Take(a, t).type = t
           /\ Take(a, t).res = context[t] /\ Take(a, t).base = data[t]
           /\ Take(a, t).res # None
<1>1. /\ work[a] \in WorkSet
      /\ context[t] \in Revision \cup {Bad} /\ data[t] \in Revision \cup {None, Empty}
  BY DEF ReloadTypeOK
<1>2. None \notin Revision /\ None # Bad
  BY ReloadAssumption DEF Revision
<1> QED BY <1>1, <1>2 DEF Take, WorkSet

\* The steps of a load keep the types.
LEMMA LoadTypes ==
    ASSUME ReloadTypeOK, NEW a \in Actor, LoadStep(a)
    PROVE  ReloadTypeOK'
<1>1. CASE KeepOld(a)
  BY <1>1, ReturnTypes DEF KeepOld, ReloadTypeOK, store, ghosts
<1>2. CASE BuildEmpty(a)
  <2> DEFINE w == [work[a] EXCEPT !.res = Empty]
  <2>1. w \in WorkSet /\ w.pc = work[a].pc /\ w.type = work[a].type /\ w.res = Empty
    BY DEF WorkSet, ReloadTypeOK
  <2>2. work' = [work EXCEPT ![a] = w]
    BY <1>2 DEF BuildEmpty
  <2>3. w.pc \in {"lock", "load"} => w.type \in Type
    BY <2>1 DEF ReloadTypeOK
  <2>4. w.res # None
    BY <2>1, ReloadAssumption
  <2> HIDE DEF w
  <2> QED BY <1>2, <2>1, <2>2, <2>3, <2>4, WorkTypes DEF BuildEmpty, ReloadTypeOK, store, locks, ghosts
<1>3. CASE Store(a)
  <2>1. work[a].type \in Type /\ work[a].res \in Revision \cup {Empty}
    BY <1>3 DEF Store, ReloadTypeOK, WorkSet
  <2>2. data' \in [Type -> Revision \cup {None, Empty}]
    BY <1>3, <2>1 DEF Store, ReloadTypeOK
  <2>3. crossed' \subseteq Type
    BY <1>3, <2>1 DEF Store, ReloadTypeOK
  <2> QED BY <1>3, <2>2, <2>3, ReturnTypes DEF Store, ReloadTypeOK
<1> QED BY <1>1, <1>2, <1>3 DEF LoadStep

\* A first reader's steps and the preload keep the types.
LEMMA ReaderTypes ==
    ASSUME ReloadTypeOK, NEW t \in Type,
           Preload(t) \/ \E r \in Reader : FirstLoad(r) \/ Get(r, t)
    PROVE  ReloadTypeOK'
<1>1. CASE Preload(t)
  <2>1. Loader \in Actor
    BY DEF Actor
  <2>2. work' = [work EXCEPT ![Loader] = Take(Loader, t)]
    BY <1>1 DEF Preload
  <2> QED BY <1>1, <2>1, <2>2, TakeTypes, WorkTypes DEF Preload, ReloadTypeOK, store, locks, ghosts
<1>2. ASSUME NEW r \in Reader, Get(r, t) PROVE ReloadTypeOK'
  <2> DEFINE w == [NoWork EXCEPT !.pc = "lock", !.type = t]
  <2>1. r \in Actor /\ w \in WorkSet /\ w.pc = "lock" /\ w.type = t
    BY DEF Actor, NoWork, WorkSet
  <2>2. work' = [work EXCEPT ![r] = w]
    BY <1>2 DEF Get
  <2> HIDE DEF w
  <2> QED BY <1>2, <2>1, <2>2, WorkTypes DEF Get, ReloadTypeOK, store, locks, ghosts
<1>3. ASSUME NEW r \in Reader, FirstLoad(r) PROVE ReloadTypeOK'
  <2>1. r \in Actor /\ work[r].pc = "lock" /\ work[r].type \in Type
    BY <1>3 DEF Actor, FirstLoad, ReloadTypeOK
  <2>2. CASE data[work[r].type] # None
    <3>1. work' = [work EXCEPT ![r] = NoWork] /\ NoWork.pc = "idle"
      BY <1>3, <2>2 DEF FirstLoad, NoWork
    <3> QED BY <1>3, <2>1, <2>2, <3>1, NoWorkType, WorkTypes
            DEF FirstLoad, ReloadTypeOK, store, ghosts
  <2>3. CASE data[work[r].type] = None
    <3>1. work' = [work EXCEPT ![r] = Take(r, work[r].type)]
      BY <1>3, <2>3 DEF FirstLoad
    <3>2. loaders' \subseteq Type /\ newLock' \in Reader \cup {None}
      BY <1>3, <2>1, <2>3 DEF FirstLoad, ReloadTypeOK
    <3> QED BY <1>3, <2>1, <3>1, <3>2, TakeTypes, WorkTypes
            DEF FirstLoad, ReloadTypeOK, store, ghosts
  <2> QED BY <2>2, <2>3
<1> QED BY <1>1, <1>2, <1>3

\* The steps of a reload keep the types.
LEMMA ReloadStepTypes ==
    ASSUME ReloadTypeOK, NEW a \in Reloader, ReloadStep(a)
    PROVE  ReloadTypeOK'
<1>a. a \in Actor
  BY DEF Actor
<1>1. CASE LockReload(a)
  <2> DEFINE w == [NoWork EXCEPT !.pc = "files", !.todo = Type]
  <2>1. w \in WorkSet /\ w.pc = "files"
    BY DEF NoWork, WorkSet
  <2>2. work' = [work EXCEPT ![a] = w]
    BY <1>1 DEF LockReload
  <2> HIDE DEF w
  <2> QED BY <1>1, <1>a, <2>1, <2>2, WorkTypes DEF LockReload, ReloadTypeOK, store
<1>2. CASE BeginRange(a)
  <2> DEFINE w == [work[a] EXCEPT !.pc = "range", !.todo = loaders]
  <2>1. w \in WorkSet /\ w.pc = "range"
    BY ZenonT(30), <1>a DEF WorkSet, ReloadTypeOK
  <2>2. work' = [work EXCEPT ![a] = w]
    BY <1>2, <1>a DEF BeginRange, ReloadTypeOK
  <2> HIDE DEF w
  <2> QED BY <1>2, <1>a, <2>1, <2>2, WorkTypes DEF BeginRange, ReloadTypeOK, store, locks, ghosts
<1>3. CASE EndReload(a)
  <2>1. NoWork.pc = "idle" /\ work' = [work EXCEPT ![a] = NoWork]
    BY <1>3 DEF EndReload, NoWork
  <2> QED BY <1>3, <1>a, <2>1, NoWorkType, WorkTypes DEF EndReload, ReloadTypeOK, store, ghosts
<1>4. ASSUME NEW t \in Type, ReadFile(a, t) PROVE ReloadTypeOK'
  <2> DEFINE w == [work[a] EXCEPT !.todo = @ \ {t}]
  <2>1. w \in WorkSet /\ w.pc = "files"
    BY SMTT(30), <1>4, <1>a DEF WorkSet, ReloadTypeOK, ReadFile
  <2>2. work' = [work EXCEPT ![a] = w]
    BY <1>4, <1>a DEF ReadFile, ReloadTypeOK
  <2>3. context' \in [Type -> Revision \cup {Bad}]
    BY <1>4 DEF ReadFile, ReloadTypeOK
  <2> HIDE DEF w
  <2> QED BY <1>4, <1>a, <2>1, <2>2, <2>3, WorkTypes DEF ReadFile, ReloadTypeOK, locks, ghosts
<1>5. ASSUME NEW t \in Type, RunLoader(a, t) PROVE ReloadTypeOK'
  <2>1. work' = [work EXCEPT ![a] = Take(a, t)]
    BY <1>5 DEF RunLoader
  <2> QED BY <1>5, <1>a, <2>1, TakeTypes, WorkTypes DEF RunLoader, ReloadTypeOK, store, locks, ghosts
<1> QED BY <1>1, <1>2, <1>3, <1>4, <1>5 DEF ReloadStep

\* A call of ReloadGameConf by hand and the steps of the watcher keep the types.
LEMMA WatchTypes ==
    ASSUME ReloadTypeOK,
           \/ ReloadByHand \/ StopConfigWatcher
           \/ \E w \in Watcher : StartConfigWatcher(w) \/ WatcherStep(w)
    PROVE  ReloadTypeOK'
<1>1. ASSUME NEW a \in Actor, Call(a)
      PROVE  /\ work' \in [Actor -> WorkSet]
             /\ \A b \in Actor : work'[b].pc \in {"lock", "load"} => work'[b].type \in Type
             /\ \A b \in Actor : work'[b].pc = "load" => work'[b].res # None
  <2> DEFINE w == [NoWork EXCEPT !.pc = "wait"]
  <2>1. w \in WorkSet /\ w.pc = "wait"
    BY DEF NoWork, WorkSet
  <2>2. work' = [work EXCEPT ![a] = w]
    BY <1>1 DEF Call
  <2> HIDE DEF w
  <2> QED BY <2>1, <2>2, WorkTypes
<1>2. CASE ReloadByHand
  <2>1. Hand \in Actor
    BY DEF Actor, Reloader
  <2>2. manual' \in 0..MaxManual
    BY <1>2, ReloadAssumption DEF ReloadByHand, ReloadTypeOK
  <2> QED BY <1>1, <1>2, <2>1, <2>2 DEF ReloadByHand, ReloadTypeOK, store, locks, ghosts
<1>3. CASE StopConfigWatcher
  <2>1. unseen' \in BOOLEAN
    BY <1>3 DEF StopConfigWatcher, ReloadTypeOK, Pending
  <2> QED BY <1>3, <2>1 DEF StopConfigWatcher, ReloadTypeOK, store, locks
<1>4. ASSUME NEW w \in Watcher, StartConfigWatcher(w) \/ Schedule(w) \/ TimerFires(w) \/ Exit(w)
      PROVE  ReloadTypeOK'
  <2>1. WatchType' /\ (current' = w \/ current' = current)
    <3>1. CASE StartConfigWatcher(w)
      BY <3>1 DEF StartConfigWatcher, ReloadTypeOK, WatchType
    <3>2. CASE Schedule(w)
      BY ZenonT(30), <3>2 DEF Schedule, ReloadTypeOK, WatchType
    <3>3. CASE TimerFires(w)
      BY ZenonT(30), <3>3 DEF TimerFires, ReloadTypeOK, WatchType
    <3>4. CASE Exit(w)
      BY <3>4 DEF Exit, ReloadTypeOK, WatchType
    <3> QED BY <1>4, <3>1, <3>2, <3>3, <3>4
  <2>2. UNCHANGED <<store, rev, loaders, locks, work, manual, ghosts>>
    BY <1>4 DEF StartConfigWatcher, Schedule, TimerFires, Exit
  <2> QED BY <2>1, <2>2 DEF ReloadTypeOK, WatchType, store, locks, ghosts
<1>5. ASSUME NEW w \in Watcher, Trigger(w) PROVE ReloadTypeOK'
  <2>1. w \in Actor
    BY DEF Actor, Reloader
  <2>2. watch' \in [Watcher -> [run: {"new", "on", "stopping", "gone"},
                                event: BOOLEAN, timer: BOOLEAN, trigger: BOOLEAN]]
    BY ZenonT(30), <1>5 DEF Trigger, ReloadTypeOK
  <2> QED BY <1>1, <1>5, <2>1, <2>2 DEF Trigger, ReloadTypeOK, store, locks, ghosts
<1> QED BY <1>2, <1>3, <1>4, <1>5 DEF WatcherStep

-----------------------------------------------------------------------------
(* Every step *)

\* A step that leaves the files, the bytes and the maps alone and starts no
\* load keeps the invariant.
LEMMA NoLoadStarts ==
    ASSUME ReloadInv, ReloadTypeOK', UNCHANGED <<store, rev>>,
           \A b \in Actor : work'[b].pc = "load" => work'[b] = work[b]
    PROVE  ReloadInv'
  BY DEF ReloadInv, OnDisk, InMemory, Maps, Loads, Load, Below, store

\* A load begins: what it reads is at least as new as the map it replaces.
LEMMA LoadStarts ==
    ASSUME ReloadInv, ReloadTypeOK', UNCHANGED <<store, rev>>,
           NEW a \in Actor, NEW t \in Type, work' = [work EXCEPT ![a] = Take(a, t)]
    PROVE  ReloadInv'
<1>1. (OnDisk /\ InMemory /\ Maps)'
  BY DEF ReloadInv, OnDisk, InMemory, Maps, Below, store
<1>2. ASSUME NEW b \in Actor, b # a, work'[b].pc = "load" PROVE Load(b)'
  <2>1. work'[b] = work[b]
    BY <1>2 DEF ReloadInv, ReloadTypeOK
  <2> QED BY <1>2, <2>1 DEF ReloadInv, Loads, Load, Below, store
<1>3. Load(a)'
  <2>1. work'[a] = Take(a, t)
    BY DEF ReloadInv, ReloadTypeOK
  <2>2. /\ work'[a].type = t /\ work'[a].res = context[t] /\ work'[a].base = data[t]
        /\ context' = context /\ data' = data /\ rev' = rev
    BY <2>1, TakeTypes DEF ReloadInv, store
  <2>3. Below(t, context[t]) /\ Below(t, data[t])
    BY ReloadAssumption DEF ReloadInv, InMemory, Maps, Below, Revision
  <2>4. context[t] # Bad => Age(data[t]) <= Age(context[t])
    BY <2>3, ReloadAssumption DEF ReloadInv, ReloadTypeOK, Below, Age, Revision
  <2> QED BY <2>2, <2>3, <2>4 DEF Load, Below, Age
<1> QED BY <1>1, <1>2, <1>3 DEF ReloadInv, Loads

\* The editor's and the reload's reads of the files keep the order.
LEMMA FilesMove ==
    ASSUME ReloadInv, ReloadTypeOK', data' = data,
           \A b \in Actor : work'[b].pc = "load" => work'[b] = work[b],
           \A t \in Type : rev'[t] >= rev[t],
           \A t \in Type : file'[t] \in {Bad, rev'[t]},
           \A t \in Type : context'[t] \in {context[t], Bad, rev[t]}
    PROVE  ReloadInv'
<1>t. /\ \A t \in Type : rev[t] \in Revision /\ rev'[t] \in Revision
      /\ Revision \subseteq Nat /\ Bad \notin Revision
  BY ReloadAssumption DEF ReloadInv, ReloadTypeOK, Revision
<1>1. \A t \in Type : \A c : Below(t, c) => (c \in Revision => c <= rev'[t] /\ (context'[t] # Bad => c <= context'[t]))
  <2> SUFFICES ASSUME NEW t \in Type, NEW c \in Revision, Below(t, c)
               PROVE  c <= rev'[t] /\ (context'[t] # Bad => c <= context'[t])
    OBVIOUS
  <2>1. c \in Nat /\ rev[t] \in Nat /\ rev'[t] \in Nat /\ c <= rev[t]
    BY <1>t DEF Below
  <2> QED BY <2>1 DEF Below
<1>2. OnDisk'
  BY DEF OnDisk
<1>3. InMemory'
  <2> SUFFICES ASSUME NEW t \in Type, context'[t] # Bad PROVE context'[t] <= rev'[t]
    BY DEF InMemory
  <2>1. context'[t] = context[t] \/ context'[t] = rev[t]
    OBVIOUS
  <2>2. context[t] # Bad => context[t] \in Nat /\ context[t] <= rev[t]
    BY <1>t DEF ReloadInv, InMemory, ReloadTypeOK
  <2>3. rev[t] \in Nat /\ rev'[t] \in Nat /\ rev'[t] >= rev[t]
    BY <1>t
  <2> QED BY <2>1, <2>2, <2>3
<1>4. Maps'
  BY <1>1 DEF ReloadInv, Maps, Below
<1>5. Loads'
  BY <1>1 DEF ReloadInv, Loads, Load, Below, ReloadTypeOK
<1> QED BY <1>2, <1>3, <1>4, <1>5 DEF ReloadInv

\* A map that is stored is no newer than the bytes, and replaces none by none.
LEMMA StoreStep ==
    ASSUME ReloadInv, ReloadTypeOK', NEW a \in Actor, Store(a)
    PROVE  ReloadInv'
<1>1. /\ work[a].pc = "load" /\ work[a].type \in Type
      /\ work[a].res \in Revision \cup {Empty} /\ None \notin Revision \cup {Empty}
      /\ Load(a)
  BY ReloadAssumption DEF Store, ReloadInv, ReloadTypeOK, Loads, WorkSet, Revision
<1>2. data' = [data EXCEPT ![work[a].type] = work[a].res] /\ UNCHANGED <<file, rev, context>>
  BY DEF Store
<1>3. ASSUME NEW b \in Actor, work'[b].pc = "load" PROVE work'[b] = work[b]
  <2>1. work'[a].pc # "load"
    BY <1>1 DEF Store, Return, ReloadInv, ReloadTypeOK, NoWork
  <2> QED BY <1>3, <2>1 DEF Store, Return, ReloadInv, ReloadTypeOK
<1>4. (OnDisk /\ InMemory)'
  BY <1>2 DEF ReloadInv, OnDisk, InMemory
<1>5. Maps'
  BY <1>1, <1>2 DEF ReloadInv, ReloadTypeOK, Maps, Load, Below
<1>6. Loads'
  <2> SUFFICES ASSUME NEW b \in Actor, work'[b].pc = "load" PROVE Load(b)'
    BY DEF Loads
  <2>1. work'[b] = work[b] /\ Load(b)
    BY <1>3 DEF ReloadInv, Loads
  <2>2. work[b].type \in Type
    BY <2>1 DEF ReloadInv, ReloadTypeOK
  <2>3. data[work[b].type] # None => data'[work[b].type] # None
    BY <1>1, <1>2, <2>2 DEF ReloadInv, ReloadTypeOK
  <2> QED BY <1>2, <2>1, <2>3 DEF Load, Below
<1> QED BY <1>4, <1>5, <1>6 DEF ReloadInv

\* The steps of a load keep the invariant.
LEMMA LoadKeeps ==
    ASSUME ReloadInv, ReloadTypeOK', NEW a \in Actor, LoadStep(a)
    PROVE  ReloadInv'
<1>1. CASE KeepOld(a)
  <2>1. \A b \in Actor : work'[b].pc = "load" => work'[b] = work[b]
    BY <1>1 DEF KeepOld, Return, ReloadInv, ReloadTypeOK, NoWork
  <2> QED BY <1>1, <2>1, NoLoadStarts DEF KeepOld
<1>2. CASE BuildEmpty(a)
  <2>1. (OnDisk /\ InMemory /\ Maps)'
    BY <1>2 DEF BuildEmpty, ReloadInv, OnDisk, InMemory, Maps, Below, store
  <2>2. ASSUME NEW b \in Actor, b # a, work'[b].pc = "load" PROVE Load(b)'
    <3>1. work'[b] = work[b]
      BY <1>2, <2>2 DEF BuildEmpty, ReloadInv, ReloadTypeOK
    <3> QED BY <1>2, <2>2, <3>1 DEF BuildEmpty, ReloadInv, Loads, Load, Below, store
  <2>3. Load(a)'
    <3>1. /\ work'[a].res = Empty /\ work'[a].base = work[a].base /\ work'[a].type = work[a].type
          /\ work[a].base = None /\ UNCHANGED <<context, data, rev>>
      BY <1>2 DEF BuildEmpty, ReloadInv, ReloadTypeOK, WorkSet, Loads, Load, store
    <3>2. Empty \notin Revision /\ None \notin Revision
      BY ReloadAssumption DEF Revision
    <3> QED BY <3>1, <3>2 DEF Load, Below, Age
  <2> QED BY <2>1, <2>2, <2>3 DEF ReloadInv, Loads
<1>3. CASE Store(a)
  BY <1>3, StoreStep
<1> QED BY <1>1, <1>2, <1>3 DEF LoadStep

\* Every step keeps the types.
LEMMA ReloadTypeStep == ReloadTypeOK /\ [ReloadNext]_reloadVars => ReloadTypeOK'
<1> SUFFICES ASSUME ReloadTypeOK, [ReloadNext]_reloadVars PROVE ReloadTypeOK'
  OBVIOUS
<1>1. CASE UNCHANGED reloadVars
  BY <1>1 DEF reloadVars, ReloadTypeOK, store, locks, ghosts
<1>2. ASSUME NEW t \in Type, WriteBegin(t) \/ WriteEnd(t) \/ Preload(t) PROVE ReloadTypeOK'
  BY <1>2, EditTypes, ReaderTypes
<1>3. ASSUME NEW r \in Reader, FirstLoad(r) \/ \E t \in Type : Get(r, t) PROVE ReloadTypeOK'
  <2>1. PICK t \in Type : FirstLoad(r) \/ Get(r, t)
    BY <1>3 DEF FirstLoad, ReloadTypeOK, Actor
  <2> QED BY <2>1, ReaderTypes
<1>4. CASE \E a \in Actor : LoadStep(a)
  BY <1>4, LoadTypes
<1>5. CASE \E a \in Reloader : ReloadStep(a)
  BY <1>5, ReloadStepTypes
<1>6. CASE \/ ReloadByHand \/ StopConfigWatcher
           \/ \E w \in Watcher : StartConfigWatcher(w) \/ WatcherStep(w)
  BY <1>6, WatchTypes
<1> QED BY <1>1, <1>2, <1>3, <1>4, <1>5, <1>6 DEF ReloadNext

\* The invariant holds at first.
LEMMA ReloadStarts == ReloadInit => ReloadInv
<1> SUFFICES ASSUME ReloadInit PROVE ReloadInv
  OBVIOUS
<1>1. \A t \in Type : file[t] = 1 /\ context[t] = 1 /\ rev[t] = 1 /\ data[t] = None
  BY DEF ReloadInit
<1>2. None \notin Revision
  BY ReloadAssumption DEF Revision
<1>3. OnDisk /\ InMemory /\ Maps
  BY <1>1, <1>2 DEF OnDisk, InMemory, Maps, Below
<1>4. Loads
  BY DEF ReloadInit, Loads, NoWork
<1> QED BY <1>3, <1>4, ReloadTypeInit DEF ReloadInv

\* Every step keeps the invariant.
LEMMA ReloadKeeps == ReloadInv /\ [ReloadNext]_reloadVars => ReloadInv'
<1> SUFFICES ASSUME ReloadInv, [ReloadNext]_reloadVars PROVE ReloadInv'
  OBVIOUS
<1>t. ReloadTypeOK /\ ReloadTypeOK'
  BY ReloadTypeStep DEF ReloadInv
<1>1. CASE UNCHANGED reloadVars
  BY <1>1, <1>t, NoLoadStarts DEF reloadVars
<1>2. ASSUME NEW t \in Type, WriteBegin(t) \/ WriteEnd(t) PROVE ReloadInv'
  <2>1. /\ data' = data /\ context' = context /\ work' = work
        /\ \A u \in Type : rev'[u] >= rev[u]
        /\ \A u \in Type : file'[u] \in {Bad, rev'[u]}
    <3>1. \A u \in Type : rev[u] \in Nat
      BY <1>t, ReloadAssumption DEF ReloadTypeOK, Revision
    <3>2. CASE WriteBegin(t)
      BY <3>1, <3>2, <1>t DEF WriteBegin, Change, ReloadInv, OnDisk, ReloadTypeOK
    <3>3. CASE WriteEnd(t)
      BY <3>1, <3>3, <1>t DEF WriteEnd, Change, ReloadInv, OnDisk, ReloadTypeOK
    <3> QED BY <1>2, <3>2, <3>3
  <2> QED BY <1>t, <2>1, FilesMove
<1>3. ASSUME NEW t \in Type, Preload(t) PROVE ReloadInv'
  BY <1>3, <1>t, LoadStarts DEF Preload, Actor
<1>4. ASSUME NEW r \in Reader, FirstLoad(r) PROVE ReloadInv'
  <2>1. r \in Actor /\ work[r].type \in Type
    BY <1>4, <1>t DEF FirstLoad, ReloadTypeOK, Actor
  <2>2. CASE data[work[r].type] # None
    BY <1>4, <1>t, <2>1, <2>2, NoLoadStarts DEF FirstLoad, ReloadTypeOK, NoWork
  <2>3. CASE data[work[r].type] = None
    BY <1>4, <1>t, <2>1, <2>3, LoadStarts DEF FirstLoad
  <2> QED BY <2>2, <2>3
<1>5. ASSUME NEW r \in Reader, NEW t \in Type, Get(r, t) PROVE ReloadInv'
  BY <1>5, <1>t, NoLoadStarts DEF Get, ReloadTypeOK, NoWork, Actor
<1>6. ASSUME NEW a \in Actor, LoadStep(a) PROVE ReloadInv'
  BY <1>6, <1>t, LoadKeeps
<1>7. ASSUME NEW a \in Reloader, ReloadStep(a) PROVE ReloadInv'
  <2>a. a \in Actor
    BY DEF Actor
  <2>1. CASE LockReload(a) \/ BeginRange(a) \/ EndReload(a)
    <3>1. \A b \in Actor : work'[b].pc = "load" => work'[b] = work[b]
      <4>1. work[a] \in WorkSet
        BY <2>a, <1>t DEF ReloadTypeOK
      <4>2. \E w : w.pc # "load" /\ work' = [work EXCEPT ![a] = w]
        <5>1. CASE LockReload(a)
          <6> WITNESS [NoWork EXCEPT !.pc = "files", !.todo = Type]
          <6> QED BY <5>1 DEF LockReload, NoWork
        <5>2. CASE BeginRange(a)
          <6> WITNESS [work[a] EXCEPT !.pc = "range", !.todo = loaders]
          <6> QED BY <5>2, <4>1, <2>a, <1>t DEF BeginRange, WorkSet, ReloadTypeOK
        <5>3. CASE EndReload(a)
          <6> WITNESS NoWork
          <6> QED BY <5>3 DEF EndReload, NoWork
        <5> QED BY <2>1, <5>1, <5>2, <5>3
      <4> QED BY <4>2, <2>a, <1>t DEF ReloadTypeOK
    <3>2. UNCHANGED <<store, rev>>
      BY <2>1 DEF LockReload, BeginRange, EndReload
    <3> QED BY <3>1, <3>2, <1>t, NoLoadStarts
  <2>2. ASSUME NEW t \in Type, ReadFile(a, t) PROVE ReloadInv'
    <3>1. \A b \in Actor : work'[b].pc = "load" => work'[b] = work[b]
      BY <2>2, <2>a, <1>t DEF ReadFile, ReloadTypeOK, WorkSet
    <3>2. \A u \in Type : context'[u] \in {context[u], Bad, rev[u]}
      BY <2>2, <1>t DEF ReadFile, ReloadTypeOK, ReloadInv, OnDisk
    <3>3. \A u \in Type : rev'[u] >= rev[u] /\ file'[u] \in {Bad, rev'[u]}
      BY <2>2, <1>t, ReloadAssumption DEF ReadFile, ReloadInv, OnDisk, ReloadTypeOK, Revision
    <3>4. data' = data
      BY <2>2 DEF ReadFile
    <3> QED BY <3>1, <3>2, <3>3, <3>4, <1>t, FilesMove
  <2>3. ASSUME NEW t \in Type, RunLoader(a, t) PROVE ReloadInv'
    BY <2>3, <2>a, <1>t, LoadStarts DEF RunLoader
  <2> QED BY <1>7, <2>1, <2>2, <2>3 DEF ReloadStep
<1>8. CASE ReloadByHand
  BY <1>8, <1>t, NoLoadStarts DEF ReloadByHand, Call, ReloadTypeOK, NoWork, Actor, Reloader
<1>9. CASE StopConfigWatcher
  BY <1>9, <1>t, NoLoadStarts DEF StopConfigWatcher
<1>10. ASSUME NEW w \in Watcher, StartConfigWatcher(w) \/ WatcherStep(w) PROVE ReloadInv'
  <2>1. UNCHANGED <<store, rev>>
    BY <1>10 DEF StartConfigWatcher, WatcherStep, Schedule, TimerFires, Trigger, Exit
  <2>2. work' = work \/ work' = [work EXCEPT ![w] = [NoWork EXCEPT !.pc = "wait"]]
    BY <1>10 DEF StartConfigWatcher, WatcherStep, Schedule, TimerFires, Trigger, Exit, Call
  <2>3. \A b \in Actor : work'[b].pc = "load" => work'[b] = work[b]
    BY <2>2, <1>t DEF ReloadTypeOK, NoWork
  <2> QED BY <1>t, <2>1, <2>3, NoLoadStarts
<1> QED BY <1>1, <1>2, <1>3, <1>4, <1>5, <1>6, <1>7, <1>8, <1>9, <1>10 DEF ReloadNext

-----------------------------------------------------------------------------
(* The theorems *)

\* A step of the configuration takes no type back, but for an overtaken load.
LEMMA NoneGoesBack ==
    ReloadInv /\ [ReloadNext]_reloadVars =>
        \A t \in Type :
          LET old == IF data[t] \in {None, Empty} THEN 0 ELSE data[t]
              new == IF data'[t] \in {None, Empty} THEN 0 ELSE data'[t]
          IN new >= old \/ t \in crossed'
<1> SUFFICES ASSUME ReloadInv, [ReloadNext]_reloadVars, NEW t \in Type
             PROVE  LET old == IF data[t] \in {None, Empty} THEN 0 ELSE data[t]
                        new == IF data'[t] \in {None, Empty} THEN 0 ELSE data'[t]
                    IN new >= old \/ t \in crossed'
  OBVIOUS
<1>t. /\ ReloadTypeOK
      /\ None \notin Revision /\ Empty \notin Revision
      /\ Revision \subseteq Nat
  <2>1. Revision \subseteq Nat
    BY DEF Revision
  <2> QED BY <2>1, ReloadAssumption DEF ReloadInv
<1>1. (IF data[t] \in {None, Empty} THEN 0 ELSE data[t]) = Age(data[t])
  BY <1>t DEF ReloadTypeOK, Age
<1>2. Age(data[t]) \in Nat
  BY <1>t DEF Age
<1>3. CASE data'[t] = data[t]
  BY <1>1, <1>2, <1>3
<1>4. CASE data'[t] # data[t]
  <2>1. PICK a \in Actor : Store(a)
    <3>1. data' # data
      BY <1>4
    <3> QED BY <3>1 DEF ReloadNext, reloadVars, store, WriteBegin, WriteEnd, Change, Preload, FirstLoad, Get,
          ReloadByHand, StopConfigWatcher, LoadStep, KeepOld, BuildEmpty, ReloadStep, LockReload, ReadFile,
          BeginRange, RunLoader, EndReload, StartConfigWatcher, WatcherStep, Schedule, TimerFires, Trigger, Exit
  <2>2. /\ work[a].type = t /\ data'[t] = work[a].res /\ work[a].pc = "load"
        /\ work[a].res \in Revision \cup {Empty}
    BY <1>4, <1>t, <2>1 DEF Store, ReloadTypeOK, WorkSet
  <2>3. (IF data'[t] \in {None, Empty} THEN 0 ELSE data'[t]) = Age(work[a].res)
    BY <1>t, <2>2 DEF Age
  <2>4. Age(work[a].base) <= Age(work[a].res)
    BY <2>1, <2>2 DEF ReloadInv, Loads, Load, Store
  <2>5. data[t] # work[a].base => t \in crossed'
    BY <2>1, <2>2 DEF Store
  <2>6. Age(work[a].res) \in Nat
    BY <1>t DEF Age
  <2> QED BY <1>1, <1>2, <2>3, <2>4, <2>5, <2>6
<1> QED BY <1>3, <1>4

\* The variables of HotReload keep their types.
THEOREM ReloadTypeCorrect == ReloadSpec => []ReloadTypeOK
<1>1. ReloadInv => ReloadTypeOK
  BY DEF ReloadInv
<1> QED BY <1>1, ReloadStarts, ReloadKeeps, PTL DEF ReloadSpec

\* For any types, readers and watchers, and however often a file is saved: a
\* map once loaded is never replaced by that of an older revision nor by an
\* empty one, except by a load that another overtook.
THEOREM GoodStaysCorrect == ReloadSpec => GoodStays
<1>1. ReloadInv /\ [ReloadNext]_reloadVars =>
        [\A t \in Type :
          LET old == IF data[t] \in {None, Empty} THEN 0 ELSE data[t]
              new == IF data'[t] \in {None, Empty} THEN 0 ELSE data'[t]
          IN new >= old \/ t \in crossed']_reloadVars
  BY NoneGoesBack
<1> QED BY <1>1, ReloadStarts, ReloadKeeps, PTL DEF ReloadSpec, GoodStays

-----------------------------------------------------------------------------
(* ConfigValues: the two views and the settings *)

Integer == {Decimal[s] : s \in DOMAIN Decimal}

OnKeys(f) == f = [k \in Key |-> f[k]]

\* A configuration as the parsing gives it.
IsConfig(cfg) == OnKeys(cfg) /\ cfg[Timeout] \in Integer /\ cfg[Push] \in BOOLEAN

\* A process whose string view was made from its typed view; what its
\* variables and its file hold is any text.
IsProcess(p) ==
    /\ p = [env |-> p.env, file |-> p.file, current |-> p.current, snapshot |-> p.snapshot,
            timeout |-> p.timeout, level |-> p.level, failed |-> p.failed, status |-> p.status]
    /\ OnKeys(p.env) /\ OnKeys(p.file) /\ IsConfig(p.current)
    /\ p.snapshot = ExportEnvMap(p.current)

\* What the readers of the two views see.
SameInBothViews(p) ==
    /\ p.current[Timeout] > Int32Max \/ GetStrConfigInt(p, Timeout) = p.current[Timeout]
    /\ GetStrConfigInt(p, Push) = 1 <=> p.current[Push]
    /\ p.snapshot[Level] = p.current[Level] /\ p.snapshot[AdminToken] = p.current[AdminToken]

\* The settings follow the configuration.
Follows(p) ==
    /\ ResolveRPCTimeout(p) = (IF p.current[Timeout] > 0 THEN p.current[Timeout] ELSE 5000)
    /\ p.level = ParseLogLevel(p.current[Level])

\* The keys are four.
LEMMA KeysDiffer ==
    /\ Timeout # Push /\ Timeout # Level /\ Timeout # AdminToken
    /\ Push # Level /\ Push # AdminToken /\ Level # AdminToken
    /\ {Timeout, Push, Level, AdminToken} = Key
  BY DEF Timeout, Push, Level, AdminToken, Key

\* The decimals.
LEMMA DecimalIs ==
    /\ DOMAIN Decimal = {"5000", "200", "0", "3000000000"}
    /\ Decimal["5000"] = 5000 /\ Decimal["200"] = 200 /\ Decimal["0"] = 0
    /\ Decimal["3000000000"] = 2 * Int32Max
    /\ Integer \subseteq Int
<1>1. /\ DOMAIN Decimal = {"5000", "200", "0", "3000000000"}
      /\ Decimal["5000"] = 5000 /\ Decimal["200"] = 200 /\ Decimal["0"] = 0
      /\ Decimal["3000000000"] = 2 * Int32Max
  BY DEF Decimal
<1>2. Integer \subseteq Int
  <2>1. \A x \in DOMAIN Decimal : Decimal[x] \in Int
    BY <1>1, ConfigAssumption
  <2> QED BY <2>1 DEF Integer
<1> QED BY <1>1, <1>2

\* They are integers.
LEMMA IntegerIs == \A n \in Integer : n \in Int
  BY DecimalIs

\* The defaults.
LEMMA DefaultIs ==
    /\ DOMAIN Default = Key /\ Default[Timeout] = "5000" /\ Default[Push] = "true"
    /\ Default[Level] = "debug" /\ Default[AdminToken] = ""
  BY DEF Default, Key, Timeout, Push, Level, AdminToken

\* What the parsing and the printing of a key are.
LEMMA ParsedIs ==
    ASSUME NEW raw
    PROVE  /\ Parses(Timeout, raw) <=> raw \in DOMAIN Decimal
           /\ Parses(Push, raw) <=> raw \in TrueWords \cup FalseWords
           /\ Parses(Level, raw) /\ Parses(AdminToken, raw)
           /\ Parsed(Timeout, raw) = Decimal[raw] /\ Parsed(Push, raw) = (raw \in TrueWords)
           /\ Parsed(Level, raw) = raw /\ Parsed(AdminToken, raw) = raw
           /\ CanonicalString(Timeout, raw) = FormatInt(raw)
           /\ CanonicalString(Push, raw) = (IF raw THEN "1" ELSE "0")
           /\ CanonicalString(Level, raw) = raw /\ CanonicalString(AdminToken, raw) = raw
  BY KeysDiffer DEF Parses, Parsed, CanonicalString

\* Raw values whose integer parses give a configuration.
LEMMA ParsedSound ==
    ASSUME NEW raw, raw[Timeout] \in DOMAIN Decimal
    PROVE  IsConfig([k \in Key |-> Parsed(k, raw[k])])
<1> DEFINE cfg == [k \in Key |-> Parsed(k, raw[k])]
<1>1. cfg[Timeout] = Decimal[raw[Timeout]] /\ cfg[Push] = (raw[Push] \in TrueWords)
  BY KeysDiffer, ParsedIs
<1>2. OnKeys(cfg)
  BY DEF OnKeys
<1> HIDE DEF cfg
<1>3. IsConfig(cfg)
  BY <1>1, <1>2 DEF IsConfig, Integer
<1> QED BY <1>3 DEF cfg

\* An integer that was parsed prints as one that parses to it.
LEMMA FormatIs ==
    ASSUME NEW n \in Integer
    PROVE  FormatInt(n) \in DOMAIN Decimal /\ Decimal[FormatInt(n)] = n
  BY DEF FormatInt, Integer

\* The string view of a configuration.
LEMMA ExportIs ==
    ASSUME NEW cfg, IsConfig(cfg)
    PROVE  LET s == ExportEnvMap(cfg) IN
           /\ s[Timeout] \in DOMAIN Decimal /\ Decimal[s[Timeout]] = cfg[Timeout]
           /\ s[Push] = (IF cfg[Push] THEN "1" ELSE "0")
           /\ s[Level] = cfg[Level] /\ s[AdminToken] = cfg[AdminToken]
<1> DEFINE s == ExportEnvMap(cfg)
<1>1. cfg[Timeout] \in Integer
  BY DEF IsConfig
<1>2. /\ s[Timeout] = FormatInt(cfg[Timeout]) /\ s[Push] = (IF cfg[Push] THEN "1" ELSE "0")
      /\ s[Level] = cfg[Level] /\ s[AdminToken] = cfg[AdminToken]
  BY KeysDiffer, ParsedIs DEF ExportEnvMap
<1> HIDE DEF s
<1>3. s[Timeout] \in DOMAIN Decimal /\ Decimal[s[Timeout]] = cfg[Timeout]
  BY <1>1, <1>2, FormatIs
<1> QED BY <1>2, <1>3 DEF s

\* The two views read the same, an integer beyond 32 bits excepted.
THEOREM ViewsAgree ==
    ASSUME NEW p, IsProcess(p)
    PROVE  SameInBothViews(p)
<1> DEFINE c == p.current
           s == p.snapshot
<1>1. IsConfig(c) /\ s = ExportEnvMap(c)
  BY DEF IsProcess
<1>2. c[Timeout] \in Int /\ c[Push] \in BOOLEAN
  <2>1. c[Timeout] \in Integer /\ c[Push] \in BOOLEAN
    <3> HIDE DEF c
    <3> QED BY <1>1 DEF IsConfig
  <2>2. Integer \subseteq Int
    BY DecimalIs
  <2> HIDE DEF c
  <2> QED BY <2>1, <2>2
<1>3. /\ s[Timeout] \in DOMAIN Decimal /\ Decimal[s[Timeout]] = c[Timeout]
      /\ s[Push] = (IF c[Push] THEN "1" ELSE "0")
      /\ s[Level] = c[Level] /\ s[AdminToken] = c[AdminToken]
  BY <1>1, ExportIs
<1> HIDE DEF c, s
<1>4. c[Timeout] > Int32Max \/ GetStrConfigInt(p, Timeout) = c[Timeout]
  <2>1. s[Timeout] # "1"
    BY <1>3, DecimalIs
  <2> QED BY <1>2, <1>3, <2>1, ConfigAssumption DEF GetStrConfigInt, s
<1>5. GetStrConfigInt(p, Push) = 1 <=> c[Push]
  <2>1. CASE c[Push]
    BY <1>3, <2>1 DEF GetStrConfigInt, s
  <2>2. CASE ~c[Push]
    <3>1. s[Push] = "0"
      BY <1>3, <2>2
    <3>2. GetStrConfigInt(p, Push) = 0
      BY <3>1, DecimalIs, ConfigAssumption DEF GetStrConfigInt, s
    <3> QED BY <2>2, <3>2
  <2> QED BY <2>1, <2>2
<1> QED BY <1>3, <1>4, <1>5 DEF SameInBothViews, c, s

\* The values that no variable keeps from being parsed.
LEMMA RawIs ==
    ASSUME NEW env, NEW k \in Key
    PROVE  /\ env[k] \notin {Unset, ""} => Raw(env, k) = env[k]
           /\ env[k] \in {Unset, ""} => Raw(env, k) = Default[k]
  BY DEF Raw

\* The hooks set the timeout and the level, and nothing else.
LEMMA HooksApplied ==
    ASSUME NEW p, NEW cfg,
           p = [env |-> p.env, file |-> p.file, current |-> p.current, snapshot |-> p.snapshot,
                timeout |-> p.timeout, level |-> p.level, failed |-> p.failed, status |-> p.status]
    PROVE  ApplyHooks(p, cfg)
             = [env |-> p.env, file |-> p.file, current |-> p.current, snapshot |-> p.snapshot,
                timeout |-> IF cfg[Timeout] <= 0 THEN 5000 ELSE cfg[Timeout],
                level |-> ParseLogLevel(cfg[Level]), failed |-> p.failed, status |-> p.status]
<1> DEFINE t == IF cfg[Timeout] <= 0 THEN 5000 ELSE cfg[Timeout]
           l == ParseLogLevel(cfg[Level])
<1>1. ApplyHooks(p, cfg) = [p EXCEPT !.timeout = t, !.level = l]
  BY DEF ApplyHooks
<1> HIDE DEF t, l
<1> DEFINE r == [p EXCEPT !.timeout = t]
<1>2. r = [env |-> p.env, file |-> p.file, current |-> p.current, snapshot |-> p.snapshot,
           timeout |-> t, level |-> p.level, failed |-> p.failed, status |-> p.status]
  OBVIOUS
<1>3. [p EXCEPT !.timeout = t, !.level = l] = [r EXCEPT !.level = l]
  OBVIOUS
<1> HIDE DEF r
<1>4. [r EXCEPT !.level = l]
        = [env |-> p.env, file |-> p.file, current |-> p.current, snapshot |-> p.snapshot,
           timeout |-> t, level |-> l, failed |-> p.failed, status |-> p.status]
  BY <1>2
<1> QED BY <1>1, <1>3, <1>4 DEF t, l

\* A process that starts has both views and the settings from its sources,
\* whatever its variables and its file hold: a value that does not parse
\* counts as its default.
THEOREM ConfigStarts ==
    ASSUME NEW env, NEW dotenv, OnKeys(env), OnKeys(dotenv)
    PROVE  IsProcess(InitConfig(env, dotenv)) /\ Follows(InitConfig(env, dotenv))
<1> DEFINE e == GodotenvLoad(env, dotenv)
           raw == [k \in Key |-> IF Parses(k, Raw(e, k)) THEN Raw(e, k) ELSE Default[k]]
           cfg == Lenient(e)
           p == InitConfig(env, dotenv)
<1>1. OnKeys(e)
  BY DEF GodotenvLoad, OnKeys
<1>2. cfg = [k \in Key |-> Parsed(k, raw[k])]
  BY DEF Lenient
<1>3. raw[Timeout] \in DOMAIN Decimal
  <2>1. raw[Timeout] = IF Parses(Timeout, Raw(e, Timeout)) THEN Raw(e, Timeout) ELSE Default[Timeout]
    BY KeysDiffer
  <2>2. Default[Timeout] \in DOMAIN Decimal
    <3>1. Default[Timeout] = "5000"
      BY DefaultIs
    <3>2. DOMAIN Decimal = {"5000", "200", "0", "3000000000"}
      BY DecimalIs
    <3>3. "5000" \in DOMAIN Decimal
      BY <3>2
    <3> QED BY <3>1, <3>3
  <2>3. Parses(Timeout, Raw(e, Timeout)) => Raw(e, Timeout) \in DOMAIN Decimal
    BY ParsedIs
  <2> HIDE DEF raw, e
  <2> QED BY <2>1, <2>2, <2>3
<1>4. IsConfig(cfg)
  <2> HIDE DEF raw, cfg
  <2> QED BY <1>2, <1>3, ParsedSound
<1>5. p = [env |-> e, file |-> dotenv, current |-> cfg, snapshot |-> ExportEnvMap(cfg),
           timeout |-> IF cfg[Timeout] <= 0 THEN 5000 ELSE cfg[Timeout],
           level |-> ParseLogLevel(cfg[Level]), failed |-> FALSE, status |-> 0]
  <2> DEFINE b == [env |-> e, file |-> dotenv, current |-> cfg,
                   snapshot |-> ExportEnvMap(cfg), timeout |-> 0,
                   level |-> "", failed |-> FALSE, status |-> 0]
  <2>1. p = ApplyHooks(b, cfg)
    BY DEF InitConfig
  <2> HIDE DEF p, e, cfg
  <2>2. /\ b.env = e /\ b.file = dotenv /\ b.current = cfg /\ b.snapshot = ExportEnvMap(cfg)
        /\ b.failed = FALSE /\ b.status = 0
        /\ b = [env |-> b.env, file |-> b.file, current |-> b.current, snapshot |-> b.snapshot,
                timeout |-> b.timeout, level |-> b.level, failed |-> b.failed, status |-> b.status]
    OBVIOUS
  <2> HIDE DEF b
  <2> QED BY <2>1, <2>2, HooksApplied
<1> HIDE DEF e, cfg, p
<1>6. IsProcess(p)
  BY <1>1, <1>4, <1>5 DEF IsProcess
<1>7. Follows(p)
  <2>1. cfg[Timeout] \in Int
    BY <1>4, IntegerIs DEF IsConfig
  <2>2. /\ p.timeout = IF cfg[Timeout] <= 0 THEN 5000 ELSE cfg[Timeout]
        /\ p.current = cfg /\ p.level = ParseLogLevel(cfg[Level])
    BY <1>5
  <2> QED BY <2>1, <2>2 DEF Follows, ResolveRPCTimeout
<1> QED BY <1>6, <1>7 DEF p

\* A reload takes every value that the file sets, and the settings follow; or
\* it reports an error, and then the views and the settings are as before.
THEOREM ReloadAllOrNothing ==
    ASSUME NEW p, IsProcess(p)
    PROVE  LET q == Reload(p) IN
           /\ IsProcess(q)
           /\ q.failed => q = [p EXCEPT !.env = q.env, !.failed = TRUE]
           /\ ~q.failed =>
                /\ Follows(q)
                /\ \A k \in Key : p.file[k] \notin {Unset, ""} =>
                        Parses(k, p.file[k]) /\ q.current[k] = Parsed(k, p.file[k])
<1> DEFINE e == GodotenvOverload(p.env, p.file)
           raw == [k \in Key |-> Raw(e, k)]
           cfg == LoadFromEnv(e)
           q == Reload(p)
<1>0. p = [env |-> p.env, file |-> p.file, current |-> p.current, snapshot |-> p.snapshot,
           timeout |-> p.timeout, level |-> p.level, failed |-> p.failed, status |-> p.status]
  BY DEF IsProcess
<1>1. OnKeys(e) /\ \A k \in Key : p.file[k] \notin {Unset, ""} => Raw(e, k) = p.file[k]
  BY DEF GodotenvOverload, OnKeys, Raw
<1>2. CASE ~EnvParses(e)
  <2>a. q = [p EXCEPT !.env = e, !.failed = TRUE]
    BY <1>2 DEF Reload
  <2>1. q = [env |-> e, file |-> p.file, current |-> p.current, snapshot |-> p.snapshot,
             timeout |-> p.timeout, level |-> p.level, failed |-> TRUE, status |-> p.status]
    <3> HIDE DEF q, e
    <3> QED BY <1>0, <2>a
  <2>2. q = [p EXCEPT !.env = q.env, !.failed = TRUE]
    <3>1. q.env = e
      <4> HIDE DEF q, e
      <4> QED BY <2>1
    <3> HIDE DEF q, e
    <3> QED BY <2>a, <3>1, Zenon
  <2> HIDE DEF q, e
  <2>3. IsProcess(q)
    BY <1>1, <2>1 DEF IsProcess
  <2>4. q.failed
    BY <2>1
  <2> QED BY <2>2, <2>3, <2>4 DEF q
<1>3. CASE EnvParses(e)
  <2>1. cfg = [k \in Key |-> Parsed(k, raw[k])]
    BY DEF LoadFromEnv
  <2>2. raw[Timeout] \in DOMAIN Decimal /\ \A k \in Key : Parses(k, Raw(e, k))
    <3>1. \A k \in Key : Parses(k, Raw(e, k))
      BY <1>3 DEF EnvParses
    <3>2. raw[Timeout] = Raw(e, Timeout) /\ Timeout \in Key
      BY KeysDiffer
    <3> HIDE DEF raw, e
    <3> QED BY <3>1, <3>2, ParsedIs
  <2>3. IsConfig(cfg)
    <3> HIDE DEF raw, cfg
    <3> QED BY <2>1, <2>2, ParsedSound
  <2>4. q = [env |-> e, file |-> p.file, current |-> cfg, snapshot |-> ExportEnvMap(cfg),
             timeout |-> IF cfg[Timeout] <= 0 THEN 5000 ELSE cfg[Timeout],
             level |-> ParseLogLevel(cfg[Level]), failed |-> FALSE, status |-> p.status]
    <3>1. q = [ApplyHooks([p EXCEPT !.env = e, !.current = cfg, !.snapshot = ExportEnvMap(cfg)], cfg)
                 EXCEPT !.failed = FALSE]
      BY <1>3 DEF Reload
    <3> DEFINE b == [p EXCEPT !.env = e, !.current = cfg, !.snapshot = ExportEnvMap(cfg)]
    <3> HIDE DEF q, e, cfg
    <3>2. /\ b.env = e /\ b.file = p.file /\ b.current = cfg /\ b.snapshot = ExportEnvMap(cfg)
          /\ b.failed = p.failed /\ b.status = p.status
          /\ b = [env |-> b.env, file |-> b.file, current |-> b.current, snapshot |-> b.snapshot,
                  timeout |-> b.timeout, level |-> b.level, failed |-> b.failed, status |-> b.status]
      <4> DEFINE b1 == [p EXCEPT !.env = e]
                 b2 == [b1 EXCEPT !.current = cfg]
                 view == ExportEnvMap(cfg)
      <4>1. b1 = [env |-> e, file |-> p.file, current |-> p.current, snapshot |-> p.snapshot,
                  timeout |-> p.timeout, level |-> p.level, failed |-> p.failed, status |-> p.status]
        BY <1>0
      <4> HIDE DEF view
      <4>2. b = [b2 EXCEPT !.snapshot = view]
        BY DEF view
      <4> HIDE DEF b, b1
      <4>3. b2 = [env |-> e, file |-> p.file, current |-> cfg, snapshot |-> p.snapshot,
                  timeout |-> p.timeout, level |-> p.level, failed |-> p.failed, status |-> p.status]
        BY <4>1
      <4> HIDE DEF b2
      <4>4. b = [env |-> e, file |-> p.file, current |-> cfg, snapshot |-> view,
                 timeout |-> p.timeout, level |-> p.level, failed |-> p.failed, status |-> p.status]
        BY <4>2, <4>3
      <4> QED BY <4>4 DEF view
    <3> DEFINE t == IF cfg[Timeout] <= 0 THEN 5000 ELSE cfg[Timeout]
               done == ApplyHooks(b, cfg)
    <3>3. done = [env |-> e, file |-> p.file, current |-> cfg, snapshot |-> ExportEnvMap(cfg),
                  timeout |-> t, level |-> ParseLogLevel(cfg[Level]),
                  failed |-> p.failed, status |-> p.status]
      <4> HIDE DEF b
      <4> QED BY <3>2, HooksApplied
    <3>4. q = [done EXCEPT !.failed = FALSE]
      BY <3>1
    <3> HIDE DEF b, t, done
    <3>5. q = [env |-> e, file |-> p.file, current |-> cfg, snapshot |-> ExportEnvMap(cfg),
               timeout |-> t, level |-> ParseLogLevel(cfg[Level]),
               failed |-> FALSE, status |-> p.status]
      BY <3>3, <3>4
    <3> QED BY <3>5 DEF t
  <2>5. \A k \in Key : cfg[k] = Parsed(k, Raw(e, k))
    BY <2>1
  <2> HIDE DEF q, e, cfg
  <2>6. IsProcess(q)
    BY ZenonT(30), <1>0, <1>1, <2>3, <2>4 DEF IsProcess
  <2>7. Follows(q)
    <3>1. cfg[Timeout] \in Int
      BY <2>3, IntegerIs DEF IsConfig
    <3>2. /\ q.timeout = IF cfg[Timeout] <= 0 THEN 5000 ELSE cfg[Timeout]
          /\ q.current = cfg /\ q.level = ParseLogLevel(cfg[Level])
      BY <2>4
    <3> QED BY <3>1, <3>2 DEF Follows, ResolveRPCTimeout
  <2>8. ~q.failed /\ q.current = cfg
    BY <2>4
  <2>9. \A k \in Key : p.file[k] \notin {Unset, ""} =>
            Parses(k, p.file[k]) /\ q.current[k] = Parsed(k, p.file[k])
    BY <1>1, <2>2, <2>5, <2>8
  <2> QED BY <2>6, <2>7, <2>8, <2>9 DEF q
<1> QED BY <1>2, <1>3

\* A request to the admin server changes nothing but its answer unless it
\* carries the token in force; then it reloads, and its answer tells whether
\* that failed.
THEOREM PostReloads ==
    ASSUME NEW p, IsProcess(p), NEW r
    PROVE  LET q == AuthMiddleware(p, r)
               admitted == /\ r.method = "POST" /\ p.current[AdminToken] # ""
                           /\ ExtractRequestToken(r) = p.current[AdminToken]
           IN  /\ IsProcess(q)
               /\ admitted =>
                    q = [Reload(p) EXCEPT !.status = IF Reload(p).failed THEN 500 ELSE 200]
               /\ ~admitted => q = [p EXCEPT !.status = q.status] /\ q.status \in {401, 405, 503}
<1> DEFINE q == AuthMiddleware(p, r)
           admitted == /\ r.method = "POST" /\ p.current[AdminToken] # ""
                       /\ ExtractRequestToken(r) = p.current[AdminToken]
<1>1. ASSUME NEW x, IsProcess(x), NEW n
      PROVE  /\ IsProcess([x EXCEPT !.status = n])
             /\ [x EXCEPT !.status = n].status = n
  <2>1. x = [env |-> x.env, file |-> x.file, current |-> x.current, snapshot |-> x.snapshot,
             timeout |-> x.timeout, level |-> x.level, failed |-> x.failed, status |-> x.status]
    BY <1>1 DEF IsProcess
  <2> DEFINE y == [x EXCEPT !.status = n]
  <2>2. y = [env |-> x.env, file |-> x.file, current |-> x.current, snapshot |-> x.snapshot,
             timeout |-> x.timeout, level |-> x.level, failed |-> x.failed, status |-> n]
    BY <2>1
  <2> HIDE DEF y
  <2>3. IsProcess(y) /\ y.status = n
    BY <1>1, <2>2 DEF IsProcess
  <2> QED BY <2>3 DEF y
<1>2. IsProcess(Reload(p))
  BY ReloadAllOrNothing
<1>3. CASE admitted
  <2>1. q = [Reload(p) EXCEPT !.status = IF Reload(p).failed THEN 500 ELSE 200]
    BY <1>3 DEF AuthMiddleware, HandleConfigReload
  <2> HIDE DEF q
  <2>2. IsProcess(q)
    BY <1>1, <1>2, <2>1
  <2> QED BY <1>3, <2>1, <2>2 DEF q
<1>4. CASE ~admitted
  <2>1. \E n \in {401, 405, 503} : q = [p EXCEPT !.status = n]
    <3>1. CASE r.method = "OPTIONS"
      <4>1. r.method # "POST"
        BY <3>1
      <4>2. q = [p EXCEPT !.status = 405]
        BY <3>1, <4>1 DEF AuthMiddleware, HandleConfigReload
      <4> QED BY <4>2
    <3>2. CASE r.method # "OPTIONS" /\ p.current[AdminToken] = ""
      BY ZenonT(30), <3>2 DEF AuthMiddleware
    <3>3. CASE /\ r.method # "OPTIONS" /\ p.current[AdminToken] # ""
               /\ ExtractRequestToken(r) = p.current[AdminToken]
      <4>1. r.method # "POST"
        BY <1>4, <3>3
      <4>2. q = [p EXCEPT !.status = 405]
        BY <3>3, <4>1 DEF AuthMiddleware, HandleConfigReload
      <4> QED BY <4>2
    <3>4. CASE /\ r.method # "OPTIONS" /\ p.current[AdminToken] # ""
               /\ ExtractRequestToken(r) # p.current[AdminToken]
      BY ZenonT(30), <3>4 DEF AuthMiddleware
    <3> QED BY <3>1, <3>2, <3>3, <3>4
  <2> HIDE DEF q
  <2>2. PICK n \in {401, 405, 503} : q = [p EXCEPT !.status = n]
    BY <2>1
  <2>3. IsProcess(q) /\ q.status = n
    BY <1>1, <2>2
  <2> QED BY ZenonT(30), <1>4, <2>2, <2>3 DEF q
<1> QED BY <1>3, <1>4

\* The two views start as one and stay so, whatever comes next: a reload, a
\* request to the admin server, code that sets the timeout, or an edit of the
\* file; so they are the same after any sequence of these.
THEOREM ViewsStayTogether ==
    ASSUME NEW p, NEW env, NEW dotenv, NEW r, NEW ms, OnKeys(env), OnKeys(dotenv),
           \/ p = InitConfig(env, dotenv)
           \/ \E before : /\ IsProcess(before)
                          /\ \/ p = Reload(before) \/ p = AuthMiddleware(before, r)
                             \/ p = SetDefaultRPCTimeout(before, ms)
                             \/ p = [before EXCEPT !.file = dotenv]
    PROVE  IsProcess(p) /\ SameInBothViews(p)
<1>1. CASE p = InitConfig(env, dotenv)
  BY <1>1, ConfigStarts, ViewsAgree
<1>2. ASSUME NEW before, IsProcess(before),
             \/ p = Reload(before) \/ p = AuthMiddleware(before, r)
             \/ p = SetDefaultRPCTimeout(before, ms)
             \/ p = [before EXCEPT !.file = dotenv]
      PROVE  IsProcess(p)
  <2> DEFINE b == before
  <2>1. b = [env |-> b.env, file |-> b.file, current |-> b.current, snapshot |-> b.snapshot,
             timeout |-> b.timeout, level |-> b.level, failed |-> b.failed, status |-> b.status]
    BY <1>2 DEF IsProcess
  <2>2. CASE p = Reload(before) \/ p = AuthMiddleware(before, r)
    <3>1. IsProcess(Reload(before))
      BY <1>2, ReloadAllOrNothing
    <3>2. IsProcess(AuthMiddleware(before, r))
      BY ZenonT(30), <1>2, PostReloads
    <3> QED BY <2>2, <3>1, <3>2
  <2>3. CASE p = SetDefaultRPCTimeout(before, ms)
    <3>1. CASE ms <= 0
      BY <1>2, <2>3, <3>1 DEF SetDefaultRPCTimeout
    <3>2. CASE ~(ms <= 0)
      <4>1. p = [b EXCEPT !.timeout = ms]
        BY <2>3, <3>2 DEF SetDefaultRPCTimeout
      <4>2. p = [env |-> b.env, file |-> b.file, current |-> b.current, snapshot |-> b.snapshot,
                 timeout |-> ms, level |-> b.level, failed |-> b.failed, status |-> b.status]
        <5> HIDE DEF b
        <5> QED BY <2>1, <4>1
      <4> QED BY <1>2, <4>2 DEF IsProcess
    <3> QED BY <3>1, <3>2
  <2>4. CASE p = [before EXCEPT !.file = dotenv]
    <3>1. p = [env |-> b.env, file |-> dotenv, current |-> b.current, snapshot |-> b.snapshot,
               timeout |-> b.timeout, level |-> b.level, failed |-> b.failed, status |-> b.status]
      <4>1. p = [b EXCEPT !.file = dotenv]
        BY <2>4
      <4> HIDE DEF b
      <4> QED BY <2>1, <4>1
    <3> QED BY <1>2, <3>1 DEF IsProcess
  <2> QED BY <1>2, <2>2, <2>3, <2>4
<1> QED BY <1>1, <1>2, ViewsAgree
=============================================================================
