-------------------------- MODULE ServiceLifecycle --------------------------
(***************************************************************************)
(* One process of the framework from Run to exit: the start sequence of    *)
(* rpc/rpcserver.go, the heartbeats that keep its two entries of the       *)
(* Consul agent alive (the node's and that of its HTTP service), Destroy,  *)
(* and the shutdown that a signal starts in init.go.                       *)
(*                                                                         *)
(* Work arrives over RPC, over HTTP and over a gateway connection that     *)
(* dispatches in the process; what it writes is dirty until a flush.  The  *)
(* periodic flush (module WriteBehind) is left out: data stays dirty until *)
(* the shutdown saves it.                                                  *)
(***************************************************************************)
EXTENDS Naturals, FiniteSets

CONSTANTS
    Service,    \* the services given to WithService
    Gate,       \* the one of them that is a gateway
    Modes,      \* the ways to run: "cluster", "single", "client"
    WebModes,   \* those with an HTTP service that Consul is told of
    MaxWork,    \* bound: requests
    MaxFaults   \* bound: failed calls and restarts of the Consul agent

ASSUME LifecycleAssumption ==
    /\ Gate \in Service
    /\ Modes \subseteq {"cluster", "single", "client"} /\ Modes # {}
    /\ WebModes \subseteq Modes \ {"single"}
    /\ MaxWork \in Nat /\ MaxFaults \in Nat

VARIABLES
    mode,       \* one of Modes
    run,        \* where Run is
    started,    \* services whose Startup returned (true, nil)
    accept,     \* the gateway's listeners: "off", "open" or "closed"
    serving,    \* rpcx: "off", "on" or "shut"
    http,       \* the HTTP server: "off", "on" or "shut"
    plugin,     \* registryPlugin is set
    kv,         \* modules published in Consul's KV
    agent,      \* entries of the Consul agent that are present
    held,       \* entries this process has a handle of
    loop,       \* entry -> where its heartbeat goroutine is
    stopped,    \* entries whose stop channel is closed
    winner,     \* who won the CAS of Destroy: "none", "signal" or "manual"
    destroy,    \* where that Destroy is
    helper,     \* the goroutine of unregisterFromConsul and deregisterHTTPConsulServices
    late,       \* history: stages of Destroy that gave up waiting
    sig,        \* a signal was received
    early,      \* history: it came before Run returned
    seq,        \* where runShutdownSequence is
    hung,       \* a destroy handler never returns
    exit,       \* how the process ended, or "none"
    running,    \* requests in progress
    seen,       \* requests that have arrived
    dirty,      \* work whose writes are not saved
    away,       \* history: entries that were deregistered by Destroy
    faults

Entry   == {"node", "web"}
Request == {"rpc", "http", "gate"}

consulVars  == <<kv, agent, away, faults>>
listenVars  == <<accept, serving, http>>
runVars     == <<mode, run, started, plugin, held>>
beatVars    == <<loop, stopped>>
destroyVars == <<winner, destroy, helper, late>>
signalVars  == <<sig, early, seq, hung>>
workVars    == <<running, seen, dirty>>
vars == <<consulVars, listenVars, runVars, beatVars, destroyVars, signalVars, exit, workVars>>

Alive == exit = "none"

\* A call of Consul fails; each failure counts.
Fault == faults < MaxFaults /\ faults' = faults + 1
NoFault == UNCHANGED faults

Init ==
    /\ mode \in Modes /\ run = "hooks" /\ started = {} /\ plugin = FALSE
    /\ accept = "off" /\ serving = "off" /\ http = "off"
    /\ kv = {} /\ agent = {} /\ held = {} /\ away = {} /\ faults = 0
    /\ loop = [e \in Entry |-> "off"] /\ stopped = {}
    /\ winner = "none" /\ destroy = "no" /\ helper = [e \in Entry |-> "no"] /\ late = {}
    /\ sig = FALSE /\ early = FALSE /\ seq = "idle" /\ hung = FALSE /\ exit = "none"
    /\ running = {} /\ seen = {} /\ dirty = {}

-----------------------------------------------------------------------------
(* Run *)

RunTo(from, to) == Alive /\ run = from /\ run' = to

\* The hooks before Serve; a client-only process skips to those after it.
PreServe ==
    /\ RunTo("hooks", IF mode = "client" THEN "http" ELSE "startup")
    /\ plugin' = (mode = "cluster")
    /\ UNCHANGED <<consulVars, listenVars, mode, started, held, beatVars, destroyVars, signalVars, exit, workVars>>

\* Every service starts, or is left out from here on.
Startup ==
    /\ RunTo("startup", "listen")
    /\ \E ok \in SUBSET Service :
          /\ started' = ok
          /\ accept' = IF Gate \in ok THEN "open" ELSE "off"
    /\ UNCHANGED <<consulVars, serving, http, mode, plugin, held, beatVars, destroyVars, signalVars, exit, workVars>>

\* net.Listen and the Serve goroutine; rpcx serves nobody after its Shutdown.
Listen ==
    /\ RunTo("listen", "register")
    /\ serving' = IF serving = "off" THEN "on" ELSE serving
    /\ UNCHANGED <<consulVars, accept, http, mode, started, plugin, held, beatVars, destroyVars, signalVars, exit, workVars>>

\* RegisterName publishes one module after the other, or fails to.
Register ==
    /\ RunTo("register", "health")
    /\ IF mode = "cluster"
       THEN \/ kv' = started /\ NoFault
            \/ started # {} /\ (\E m \in started : kv' = started \ {m}) /\ Fault
       ELSE UNCHANGED <<kv, faults>>
    /\ UNCHANGED <<agent, away, listenVars, mode, started, plugin, held, beatVars, destroyVars, signalVars, exit, workVars>>

\* A handle of entry e and the entry itself, or neither.
Hold(e) ==
    \/ held' = held \cup {e} /\ agent' = agent \cup {e} /\ NoFault
    \/ Fault /\ UNCHANGED <<held, agent>>

SetupHealth ==
    /\ RunTo("health", "http")
    /\ IF kv # {} THEN Hold("node") ELSE UNCHANGED <<held, agent, faults>>
    /\ UNCHANGED <<kv, away, listenVars, mode, started, plugin, beatVars, destroyVars, signalVars, exit, workVars>>

StartHTTP ==
    /\ RunTo("http", "web")
    /\ http' = "on"
    /\ UNCHANGED <<consulVars, accept, serving, mode, started, plugin, held, beatVars, destroyVars, signalVars, exit, workVars>>

\* registerHTTPConsulServices: the entry and, with it, its heartbeat.
RegisterHTTP ==
    /\ RunTo("web", "beat")
    /\ IF mode \in WebModes THEN Hold("web") ELSE UNCHANGED <<held, agent, faults>>
    /\ loop' = [loop EXCEPT !["web"] = IF "web" \in held' THEN "wait" ELSE "off"]
    /\ UNCHANGED <<kv, away, listenVars, mode, started, plugin, stopped, destroyVars, signalVars, exit, workVars>>

\* startHealthCheckLoop; without a handle the ticks do nothing.
StartBeat ==
    /\ RunTo("beat", "up")
    /\ loop' = [loop EXCEPT !["node"] = IF mode = "cluster" THEN "wait" ELSE "off"]
    /\ UNCHANGED <<consulVars, listenVars, mode, started, plugin, held, stopped, destroyVars, signalVars, exit, workVars>>

\* Neither listener can be opened: os.Exit(1).
ListenFails ==
    /\ Alive /\ run \in {"listen", "http"}
    /\ exit' = "error"
    /\ UNCHANGED <<consulVars, listenVars, runVars, beatVars, destroyVars, signalVars, workVars>>

RunStep == PreServe \/ Startup \/ Listen \/ Register \/ SetupHealth \/ StartHTTP \/ RegisterHTTP \/ StartBeat

-----------------------------------------------------------------------------
(* The heartbeats: Renew of health.go and http_service.go *)

LoopTo(e, from, to) == Alive /\ loop[e] = from /\ loop' = [loop EXCEPT ![e] = to]

beatFrame == <<kv, away, listenVars, runVars, stopped, destroyVars, signalVars, exit, workVars>>

\* select takes a tick even when the stop channel is closed as well.
Tick(e) ==
    /\ e \in held /\ LoopTo(e, "wait", "update")
    /\ UNCHANGED <<agent, faults, beatFrame>>

Renewed(e, from) ==
    /\ LoopTo(e, from, "wait")
    /\ e \in agent /\ NoFault
    /\ UNCHANGED <<agent, beatFrame>>

\* Mutant: the failure is left to the next tick.
UpdateFailsIdly(e) ==
    /\ LoopTo(e, "update", "wait")
    /\ \/ e \notin agent /\ NoFault
       \/ Fault
    /\ UNCHANGED <<agent, beatFrame>>

\* UpdateTTL fails: the entry is gone, or the call did not get through.
UpdateFails(e) ==
    /\ LoopTo(e, "update", "reregister")
    /\ \/ e \notin agent /\ NoFault
       \/ Fault
    /\ UNCHANGED <<agent, beatFrame>>

\* ServiceRegister under the handle's lock, which Deregister does not take.
Reregister(e) ==
    /\ LoopTo(e, "reregister", "again")
    /\ agent' = agent \cup {e} /\ NoFault
    /\ UNCHANGED <<beatFrame>>

\* The renewal failed for good; the next tick tries again.
RenewFails(e) ==
    /\ \E from \in {"reregister", "again"} : LoopTo(e, from, "wait")
    /\ \/ loop[e] = "again" /\ e \notin agent /\ NoFault
       \/ Fault
    /\ UNCHANGED <<agent, beatFrame>>

LoopEnds(e) ==
    /\ e \in stopped /\ LoopTo(e, "wait", "end")
    /\ UNCHANGED <<agent, faults, beatFrame>>

Renew(e) == Tick(e) \/ (\E from \in {"update", "again"} : Renewed(e, from))
            \/ UpdateFails(e) \/ Reregister(e) \/ RenewFails(e)

\* The agent restarts and forgets its entries.
AgentRestart ==
    /\ agent # {} /\ Fault
    /\ agent' = {}
    /\ UNCHANGED <<kv, away, listenVars, runVars, beatVars, destroyVars, signalVars, exit, workVars>>

\* Nobody renews entry e any more: it turns critical and is reaped.
Reap(e) ==
    /\ Alive /\ e \in agent /\ loop[e] = "end"
    /\ agent' = agent \ {e}
    /\ UNCHANGED <<kv, away, faults, listenVars, runVars, beatVars, destroyVars, signalVars, exit, workVars>>

-----------------------------------------------------------------------------
(* Requests *)

\* A gateway connection outlives the listener that accepted it; in a single
\* process its requests are dispatched right here.
CanArrive(r) ==
    \/ r = "rpc"  /\ serving = "on" /\ kv # {}
    \/ r = "http" /\ http = "on"
    \/ r = "gate" /\ accept # "off" /\ mode = "single"

Arrive(r) ==
    /\ Alive /\ CanArrive(r) /\ r \notin seen /\ Cardinality(seen) < MaxWork
    /\ seen' = seen \cup {r} /\ running' = running \cup {r}
    /\ UNCHANGED <<consulVars, listenVars, runVars, beatVars, destroyVars, signalVars, exit, dirty>>

\* The handler ends, having written to the caches.
Finish(r) ==
    /\ Alive /\ r \in running
    /\ running' = running \ {r} /\ dirty' = dirty \cup {r}
    /\ UNCHANGED <<consulVars, listenVars, runVars, beatVars, destroyVars, signalVars, exit, seen>>

-----------------------------------------------------------------------------
(* Destroy *)

DestroyTo(from, to) == Alive /\ destroy = from /\ destroy' = to

\* The CompareAndSwap, then stopHealthCheckLoop: only a loop that runs has a
\* channel to close.
Enter(who) ==
    /\ winner = "none" /\ winner' = who
    /\ destroy' = "unregister"
    /\ stopped' = stopped \cup {e \in {"node"} : loop[e] # "off"}
    /\ helper' = [helper EXCEPT !["node"] = IF "node" \in held THEN "entry" ELSE IF plugin THEN "keys" ELSE "done"]

ManualDestroy ==
    /\ Alive /\ run = "up" /\ Enter("manual")
    /\ UNCHANGED <<consulVars, listenVars, runVars, loop, late, signalVars, exit, workVars>>

\* The helper goroutine takes the entry from the agent; a failure is logged.
Deregister(e) ==
    /\ Alive /\ helper[e] = "entry"
    /\ helper' = [helper EXCEPT ![e] = IF e = "node" /\ plugin THEN "keys" ELSE "done"]
    /\ \/ agent' = agent \ {e} /\ away' = away \cup {e} /\ NoFault
       \/ Fault /\ UNCHANGED <<agent, away>>
    /\ UNCHANGED <<kv, listenVars, runVars, beatVars, winner, destroy, late, signalVars, exit, workVars>>

\* Stop of the registry plugin deletes the keys and ends their refresh.
StopPlugin ==
    /\ Alive /\ helper["node"] = "keys"
    /\ helper' = [helper EXCEPT !["node"] = "done"]
    /\ kv' = {}
    /\ UNCHANGED <<agent, away, faults, listenVars, runVars, beatVars, winner, destroy, late, signalVars, exit, workVars>>

\* Mutant: a stage has no timeout.
AwaitForEver(stage, done) == done /\ UNCHANGED late

\* A stage is over when what it waits for is done, or after its timeout.
Await(stage, done) == \/ done /\ UNCHANGED late
                      \/ ~done /\ late' = late \cup {stage}

\* Mutants: the keys are not awaited; the entry is taken off without a handle.
UnregisteredAtOnce ==
    /\ DestroyTo("unregister", "unregisterHTTP")
    /\ stopped' = stopped \cup {e \in {"web"} : loop[e] # "off"}
    /\ helper' = [helper EXCEPT !["web"] = IF "web" \in held THEN "entry" ELSE "done"]
    /\ UNCHANGED <<consulVars, listenVars, runVars, loop, winner, late, signalVars, exit, workVars>>
\* The end of unregisterFromConsul; then the HTTP entry's heartbeat is
\* stopped and its helper started.
Unregistered ==
    /\ DestroyTo("unregister", "unregisterHTTP")
    /\ Await("unregister", helper["node"] = "done")
    /\ stopped' = stopped \cup {e \in {"web"} : loop[e] # "off"}
    /\ helper' = [helper EXCEPT !["web"] = IF "web" \in held THEN "entry" ELSE "done"]
    /\ UNCHANGED <<consulVars, listenVars, runVars, loop, winner, signalVars, exit, workVars>>

\* That helper is awaited as well, but nothing depends on it any more; then
\* stopGatewayAccept closes the listeners, not the connections.
StopAccept ==
    /\ DestroyTo("unregisterHTTP", "http")
    /\ accept' = IF accept = "open" THEN "closed" ELSE accept
    /\ http' = IF http = "on" THEN "shut" ELSE http
    /\ UNCHANGED <<consulVars, serving, runVars, beatVars, winner, helper, late, signalVars, exit, workVars>>

\* The HTTP server is drained, and rpcx' Shutdown begins.
ShutdownHTTP ==
    /\ DestroyTo("http", "drain")
    /\ Await("drain", "http" \notin running)
    /\ serving' = IF mode = "client" THEN serving ELSE "shut"
    /\ kv' \in {kv, {}}
    /\ UNCHANGED <<agent, away, faults, accept, http, runVars, beatVars, winner, helper, signalVars, exit, workVars>>

DrainInFlight ==
    /\ DestroyTo("drain", "flush")
    /\ Await("drain", "rpc" \notin running)
    /\ UNCHANGED <<consulVars, listenVars, runVars, beatVars, winner, helper, signalVars, exit, workVars>>

FlushAll ==
    /\ DestroyTo("flush", "services")
    /\ dirty' = {}
    /\ UNCHANGED <<consulVars, listenVars, runVars, beatVars, winner, helper, late, signalVars, exit, running, seen>>

\* destroyServiceSafely, service by service; what they write is new.
DestroyServices ==
    /\ DestroyTo("services", "done")
    /\ dirty' \in {dirty, dirty \cup {"destroy"}}
    /\ UNCHANGED <<consulVars, listenVars, runVars, beatVars, winner, helper, late, signalVars, exit, running, seen>>

DestroyStep == Unregistered \/ StopAccept \/ ShutdownHTTP \/ DrainInFlight \/ FlushAll \/ DestroyServices

-----------------------------------------------------------------------------
(* Signals: gracefulShutdown and runShutdownSequence *)

Signal ==
    /\ Alive /\ ~sig /\ sig' = TRUE
    /\ early' = (run # "up")
    /\ UNCHANGED <<consulVars, listenVars, runVars, beatVars, destroyVars, seq, hung, exit, workVars>>

\* The first handler is the server's Destroy, which returns at once to all
\* but the first caller.
CallDestroy ==
    /\ Alive /\ sig /\ seq = "idle"
    /\ IF winner = "none"
       THEN Enter("signal") /\ seq' = "server"
       ELSE seq' = "others" /\ UNCHANGED <<winner, destroy, stopped, helper>>
    /\ UNCHANGED <<consulVars, listenVars, runVars, loop, late, sig, early, hung, exit, workVars>>

\* Mutant: the handlers do not wait for one another.
OtherHandlersAtOnce ==
    /\ Alive /\ ~hung
    /\ seq \in {"others", "server"}
    /\ \/ seq' = "hooks" /\ dirty' \in {dirty, dirty \cup {"destroy"}} /\ UNCHANGED hung
       \/ hung' = TRUE /\ UNCHANGED <<seq, dirty>>
    /\ UNCHANGED <<consulVars, listenVars, runVars, beatVars, destroyVars, sig, early, exit, running, seen>>

\* The other handlers; one of them may hang.
OtherHandlers ==
    /\ Alive /\ ~hung
    /\ seq = "others" \/ (seq = "server" /\ destroy = "done")
    /\ \/ seq' = "hooks" /\ dirty' \in {dirty, dirty \cup {"destroy"}} /\ UNCHANGED hung
       \/ hung' = TRUE /\ UNCHANGED <<seq, dirty>>
    /\ UNCHANGED <<consulVars, listenVars, runVars, beatVars, destroyVars, sig, early, exit, running, seen>>

FinalFlush ==
    /\ Alive /\ seq = "hooks" /\ seq' = "done"
    /\ dirty' = {}
    /\ UNCHANGED <<consulVars, listenVars, runVars, beatVars, destroyVars, sig, early, hung, exit, running, seen>>

\* main receives from Run's channel and returns.
GracefulExit ==
    /\ Alive /\ seq = "done" /\ run = "up"
    /\ exit' = "graceful"
    /\ UNCHANGED <<consulVars, listenVars, runVars, beatVars, destroyVars, signalVars, workVars>>

\* The watchdog fires, or a second signal comes.
ForcedExit ==
    /\ Alive /\ seq \notin {"idle", "done"}
    /\ exit' = "error"
    /\ UNCHANGED <<consulVars, listenVars, runVars, beatVars, destroyVars, signalVars, workVars>>

ShutdownStep == CallDestroy \/ OtherHandlers \/ FinalFlush \/ GracefulExit

-----------------------------------------------------------------------------
Next ==
    \/ RunStep \/ ListenFails
    \/ \E e \in Entry : Renew(e) \/ LoopEnds(e) \/ Deregister(e) \/ Reap(e)
    \/ AgentRestart
    \/ \E r \in Request : Arrive(r) \/ Finish(r)
    \/ ManualDestroy \/ StopPlugin \/ DestroyStep
    \/ Signal \/ ForcedExit \/ ShutdownStep

Spec == Init /\ [][Next]_vars

\* Every goroutine of the process runs on, and timers fire, except that Consul
\* and the requests may take for ever and that nobody waits for the watchdog.
Fairness ==
    /\ WF_vars(RunStep) /\ WF_vars(DestroyStep) /\ WF_vars(ShutdownStep)
    /\ \A e \in Entry : WF_vars(Renew(e)) /\ WF_vars(LoopEnds(e))

FairSpec == Spec /\ Fairness

-----------------------------------------------------------------------------
(* Properties *)

TypeOK ==
    /\ mode \in Modes
    /\ run \in {"hooks", "startup", "listen", "register", "health", "http", "web", "beat", "up"}
    /\ started \subseteq Service /\ kv \subseteq Service
    /\ accept \in {"off", "open", "closed"} /\ plugin \in BOOLEAN
    /\ serving \in {"off", "on", "shut"} /\ http \in {"off", "on", "shut"}
    /\ agent \subseteq Entry /\ held \subseteq Entry /\ stopped \subseteq held \cup {"node"} /\ away \subseteq held
    /\ loop \in [Entry -> {"off", "wait", "update", "reregister", "again", "end"}]
    /\ early \in BOOLEAN /\ hung \in BOOLEAN
    /\ winner \in {"none", "signal", "manual"}
    /\ destroy \in {"no", "unregister", "unregisterHTTP", "http", "drain", "flush", "services", "done"}
    /\ helper \in [Entry -> {"no", "entry", "keys", "done"}]
    /\ late \subseteq {"unregister", "drain"}
    /\ sig \in BOOLEAN /\ seq \in {"idle", "server", "others", "hooks", "done"}
    /\ exit \in {"none", "graceful", "error"}
    /\ running \subseteq seen /\ seen \subseteq Request /\ dirty \subseteq Request \cup {"destroy"}
    /\ faults \in 0..MaxFaults

\* A module that others can discover has started and is served, from its
\* publication to the drain: only a signal that met Run half-way, or a Consul
\* that did not answer in time, leaves one listed that nobody serves
\* (rpc/rpcserver.go:845-860 and 995-1012).
ListedIsServed ==
    Alive => \A m \in kv : m \in started /\ (serving = "on" \/ early \/ "unregister" \in late)

\* A graceful exit saves all that was written before it, but for the work
\* that a stage of Destroy gave up waiting for, a request dispatched inside a
\* single process (nothing drains those), a signal during the start and a
\* Destroy that somebody else was still running
\* (rpc/rpcserver.go:1133-1140, init.go:129-150).
GracefulExitLosesNothing ==
    exit = "graceful" /\ ~early /\ winner = "signal" =>
        \A r \in running \cup dirty : \/ r \in {"rpc", "http"} /\ "drain" \in late
                                      \/ r = "gate" /\ mode = "single"

\* An entry that the agent forgot is restored by its heartbeat, unless the
\* process is being stopped (rpc/internal/health.go:187-207).
LostEntryIsRestored ==
    \A e \in Entry : (Alive /\ run = "up" /\ e \in held /\ e \notin agent)
                        ~> (e \in agent \/ ~Alive \/ winner # "none")

\* A signal ends the process without the watchdog's help, whatever Consul and
\* the requests in progress do; only a handler that hangs needs the watchdog
\* (init.go:172-201, rpc/rpcserver.go:985-989).
ShutdownEnds == sig ~> (~Alive \/ hung)

\* A node that Destroy took from the agent stays away (rpc/internal/health.go
\* 138-140 and 209-213; violated: Deregister does not take the lock under
\* which a Renew registers the entry again).
DeregisteredStaysAway == away \cap agent = {}
=============================================================================
