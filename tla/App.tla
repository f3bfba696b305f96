--------------------------------- MODULE App ---------------------------------
(***************************************************************************)
(* The life of an application (app/): Run starts its servers, registers     *)
(* them with Consul in an AfterStart hook, waits for a signal or for Stop,  *)
(* takes them off Consul in a BeforeStop hook, stops them and runs the      *)
(* cleanups.  The servers are those of transport/http, grpc and gateway;    *)
(* the hooks are those of discovery's ServiceRegistry.                      *)
(*                                                                         *)
(* A server has doors: "web", its http.Server, and "rpc", its grpc.Server;  *)
(* a gateway has both.  Its Start and its Stop run in goroutines of their   *)
(* own and are not ordered: a Stop that comes first finds no server object  *)
(* and does nothing, and the Start that follows opens a door nobody closes. *)
(*                                                                         *)
(* Consul probes what is registered and removes what stays critical.        *)
(***************************************************************************)
EXTENDS Health, Discovery, Functions

CONSTANT Configs  \* how an application may be set up

VARIABLES
  cfg,       \* the set-up
  pc,        \* where Run is
  todo,      \* the services the registry's loop has left
  ids,       \* serviceIDs: what the registry registered, in that order
  consul,    \* what Consul says of each service
  blame,     \* services of which a call of their own to Consul failed
  sick,      \* ghost: services that were not well when last probed
  cancelled, \* the application's context is done
  expired,   \* the context of the shutdown is done
  start,     \* where the goroutine that starts a server is
  stop,      \* where the goroutine that stops it is
  door,      \* its doors
  busy,      \* a request is being served behind the door
  deps       \* the status of what readiness depends on

registryVars == <<todo, ids, consul, blame, sick>>
serverVars == <<start, stop, door, busy>>
vars == <<cfg, pc, registryVars, cancelled, expired, serverVars, deps>>

Kinds == {"http", "grpc", "gateway"}
HasWeb == {"http", "gateway"}
HasRPC == {"grpc", "gateway"}
Doors == (HasWeb \X {"web"}) \cup (HasRPC \X {"rpc"})
Web(s) == <<s, "web">>
RPC(s) == <<s, "rpc">>
DoorsOf(s) == {d \in Doors : d[1] = s}

\* A server listens on a port that can be parsed.
ASSUME AppAssumption ==
  /\ \A c \in Configs : /\ c.servers \subseteq Kinds
                        /\ c.how \in {"server", "address"}
  /\ NoPort \notin Doors

\* The servers as the registry sees them: a gateway's address is that of its
\* gRPC port, its health endpoint is on the HTTP port.
Server(s) ==
  LET main == IF s \in HasRPC THEN RPC(s) ELSE Web(s)
      probed == IF s \in HasWeb THEN Web(s) ELSE RPC(s)
  IN [name |-> s, addr |-> Address("0.0.0.0", main),
      endpoint |-> Endpoint(IF s \in HasWeb THEN "http" ELSE "grpc",
                            Address("", probed))]

\* A service the application forgot to name.
Nameless == "nameless"

Service(how, s) ==
  IF s = Nameless THEN AddService("", NoAddress, "grpc")
  ELSE IF how = "server" THEN AddServer(s, Server(s))
  ELSE AddService(s, Server(s).addr, IF s \in HasRPC THEN "grpc" ELSE "http")

\* What Consul would keep of every service, for both ways to name it.
Records == [how \in {"server", "address"} |->
              [s \in Kinds |-> Registered(Service(how, s))]]
Record(s) == Records[cfg.how][s]

\* What the application added to the registry, in that order.
Added(s) ==
  IF s \in cfg.servers \/ (s = Nameless /\ cfg.nameless) THEN <<s>> ELSE <<>>
Services == Added("grpc") \o Added("gateway") \o Added("http")
              \o Added(Nameless)

Init ==
  /\ cfg \in Configs
  /\ pc = "idle" /\ todo = <<>>
  /\ ids = <<>> /\ consul = [s \in Kinds |-> "absent"] /\ blame = {}
  /\ sick = {}
  /\ cancelled = FALSE /\ expired = FALSE
  /\ start = [s \in Kinds |-> "none"] /\ stop = [s \in Kinds |-> "none"]
  /\ door = [d \in Doors |-> "none"] /\ busy = [d \in Doors |-> FALSE]
  /\ deps = Up

Dead == pc \in {"killed", "exited"}
Ended == pc \in {"returned", "failed", "killed", "exited"}

-----------------------------------------------------------------------------
(* Run *)

\* A BeforeStart hook may fail: then Run returns and start is not reached.
Run ==
  /\ pc = "idle"
  /\ pc' \in {"starting", "failed"}
  /\ UNCHANGED <<cfg, registryVars, cancelled, expired, serverVars, deps>>

\* A goroutine for every server; nobody reads what their Start returns.  The
\* AfterStart hook follows at once.
StartAll ==
  /\ pc = "starting" /\ pc' = "registering"
  /\ start' = [s \in Kinds |-> IF s \in cfg.servers THEN "spawned" ELSE "none"]
  /\ todo' = Services
  /\ UNCHANGED <<cfg, ids, consul, blame, sick, cancelled, expired, stop, door,
                 busy, deps>>

\* Mutant of RollBack: what was registered is forgotten only.
RollBackForgets ==
  /\ pc' = "waiting" /\ todo' = <<>> /\ ids' = <<>>
  /\ UNCHANGED <<consul, blame>>

\* A service failed: those before it are taken off, under the same context.
RollBack ==
  /\ pc' = "rollback" /\ todo' = ids
  /\ UNCHANGED <<ids, consul, blame>>

\* RegisterAll, a service at a time.  A new service is critical until a probe
\* passes, but Consul probes it before its time is up; a reply may be lost
\* after the service was registered.
Register ==
  /\ pc = "registering" /\ todo # <<>>
  /\ LET s == Head(todo)
         fails == cfg.flaky \/ cancelled
     IN \/ Refused(Service(cfg.how, s)) /\ RollBack
        \/ /\ ~Refused(Service(cfg.how, s)) /\ ~cancelled
           /\ consul' = [consul EXCEPT ![s] = "new"]
           /\ ids' = Append(ids, s)
           /\ todo' = Tail(todo)
           /\ UNCHANGED <<pc, blame>>
        \/ ~Refused(Service(cfg.how, s)) /\ fails /\ RollBack
        \/ /\ ~Refused(Service(cfg.how, s)) /\ fails
           /\ consul' = [consul EXCEPT ![s] = "new"]
           /\ blame' = blame \cup {s}
           /\ pc' = "rollback" /\ todo' = ids
           /\ UNCHANGED ids
  /\ UNCHANGED <<cfg, sick, cancelled, expired, serverVars, deps>>

\* One turn of unregisterAllLocked.  Unregister gives up when its context is
\* done, before the call or while the call is under way.
Unregister ==
  /\ pc \in {"rollback", "unregistering"} /\ todo # <<>>
  /\ todo' = Tail(todo)
  /\ LET s == Head(todo)
         over == IF pc = "rollback" THEN cancelled ELSE expired
     IN \/ ~over /\ consul' = [consul EXCEPT ![s] = "absent"]
           /\ UNCHANGED blame
        \/ /\ over \/ cfg.flaky
           /\ blame' = blame \cup {s}
           /\ UNCHANGED consul
  /\ UNCHANGED <<cfg, pc, ids, sick, cancelled, expired, serverVars, deps>>

\* The hook is done: the list is emptied after a rollback or UnregisterAll,
\* whatever failed.
HookReturns ==
  /\ pc \in {"registering", "rollback", "unregistering"} /\ todo = <<>>
  /\ ids' = IF pc = "registering" THEN ids ELSE <<>>
  /\ pc' = IF pc = "unregistering" THEN "stopping" ELSE "waiting"
  /\ stop' = IF pc = "unregistering"
             THEN [s \in Kinds |->
                     IF s \notin cfg.servers THEN "done"
                     ELSE IF s \in HasWeb THEN "web" ELSE "rpc"]
             ELSE stop
  /\ UNCHANGED <<cfg, todo, consul, blame, sick, cancelled, expired, start,
                 door, busy, deps>>

\* A signal, or the context: shutdown starts with the BeforeStop hook.
Shutdown ==
  /\ pc = "waiting" /\ pc' = "unregistering" /\ todo' = ids
  /\ UNCHANGED <<cfg, ids, consul, blame, sick, cancelled, expired, serverVars,
                 deps>>

ContextDone == cancelled /\ Shutdown

\* The process is gone, and with it every door.
Die(how) ==
  /\ pc' = how
  /\ door' = [d \in Doors |-> "shut"] /\ busy' = [d \in Doors |-> FALSE]
  /\ start' = [s \in Kinds |-> "none"] /\ stop' = [s \in Kinds |-> "done"]
  /\ UNCHANGED <<cfg, registryVars, cancelled, expired, deps>>

\* Signals are asked for in waitForShutdown only: before it one kills the
\* process, while shutdown runs one is dropped.
Signal ==
  \/ Shutdown
  \/ pc \in {"starting", "registering", "rollback"} /\ Die("killed")

Stop ==
  /\ ~Ended /\ ~cancelled /\ cancelled' = TRUE
  /\ UNCHANGED <<cfg, pc, registryVars, expired, serverVars, deps>>

\* The graceful timeout of shutdown.
Expire ==
  /\ pc \in {"unregistering", "stopping", "cleanup"} /\ ~expired
  /\ expired' = TRUE
  /\ UNCHANGED <<cfg, pc, registryVars, cancelled, serverVars, deps>>

\* Mutant of Drain: shutdown waits for the servers only.
DrainPatiently ==
  /\ pc = "stopping" /\ \A s \in Kinds : stop[s] = "done"
  /\ pc' = "cleanup"
  /\ UNCHANGED <<cfg, registryVars, cancelled, expired, serverVars, deps>>

\* Mutant of Drain: shutdown waits for nobody.
DrainAtOnce ==
  /\ pc = "stopping" /\ pc' = "cleanup"
  /\ UNCHANGED <<cfg, registryVars, cancelled, expired, serverVars, deps>>

\* shutdown goes on when every Stop returned, or at the timeout.
Drain ==
  /\ pc = "stopping" /\ (expired \/ \A s \in Kinds : stop[s] = "done")
  /\ pc' = "cleanup"
  /\ UNCHANGED <<cfg, registryVars, cancelled, expired, serverVars, deps>>

\* The cleanups and the AfterStop hook; their errors are logged.
Cleanup ==
  /\ pc = "cleanup" /\ pc' = "returned"
  /\ UNCHANGED <<cfg, registryVars, cancelled, expired, serverVars, deps>>

Exit == pc = "returned" /\ Die("exited")

-----------------------------------------------------------------------------
(* Start and Stop of the servers *)

\* net.Listen may fail, and then there is no grpc.Server.
StartRPC(s) ==
  /\ start[s] = "spawned" /\ s \in HasRPC
  /\ \/ /\ door[RPC(s)] = "none"
        /\ door' = [door EXCEPT ![RPC(s)] = "made"]
        /\ start' = [start EXCEPT ![s] =
                       IF s = "gateway" THEN "connecting" ELSE "done"]
     \/ /\ start' = [start EXCEPT ![s] = "done"]
        /\ UNCHANGED door
  /\ UNCHANGED <<cfg, pc, registryVars, cancelled, expired, stop, busy, deps>>

\* The http.Server is made; before it, a gateway connects to its own gRPC
\* port and registers its services, which may fail.
StartWeb(s) ==
  /\ s \in HasWeb
  /\ start[s] = IF s = "gateway" THEN "connecting" ELSE "spawned"
  /\ start' = [start EXCEPT ![s] = "done"]
  /\ \/ door' = [door EXCEPT ![Web(s)] = "made"]
     \/ s = "gateway" /\ UNCHANGED door
  /\ UNCHANGED <<cfg, pc, registryVars, cancelled, expired, stop, busy, deps>>

\* The goroutine that serves.  ListenAndServe may fail: the gateway has stopped
\* listening to that error, the application never did.
Serve(d) ==
  /\ door[d] = "made"
  /\ \/ door' = [door EXCEPT ![d] = "open"]
     \/ d[2] = "web" /\ door' = [door EXCEPT ![d] = "broken"]
  /\ UNCHANGED <<cfg, pc, registryVars, cancelled, expired, start, stop, busy,
                 deps>>

\* Bound: one request at a time.
Arrive(d) ==
  /\ door[d] = "open" /\ \A e \in Doors : ~busy[e]
  /\ busy' = [busy EXCEPT ![d] = TRUE]
  /\ UNCHANGED <<cfg, pc, registryVars, cancelled, expired, start, stop, door,
                 deps>>

Leave(d) ==
  /\ busy[d] /\ busy' = [busy EXCEPT ![d] = FALSE]
  /\ UNCHANGED <<cfg, pc, registryVars, cancelled, expired, start, stop, door,
                 deps>>

\* What the goroutine of Stop does next.
AfterWeb(s) == IF s \in HasRPC THEN "rpc" ELSE "done"

\* Stop begins with a door: nothing if it was not made, or else it lets nobody
\* in any more.
CloseDoor(s, d) ==
  /\ stop[s] = d[2]
  /\ IF door[d] = "none"
     THEN /\ stop' = [stop EXCEPT ![s] =
                        IF d[2] = "web" THEN AfterWeb(s) ELSE "done"]
          /\ UNCHANGED door
     ELSE /\ stop' = [stop EXCEPT ![s] =
                        IF d[2] = "web" THEN "webWait" ELSE "rpcWait"]
          /\ door' = [door EXCEPT ![d] = "closing"]
  /\ UNCHANGED <<cfg, pc, registryVars, cancelled, expired, start, busy, deps>>

\* http.Server.Shutdown: idle, or at the timeout with the request going on.
WebStopped(s) ==
  /\ stop[s] = "webWait"
  /\ \/ ~busy[Web(s)] /\ door' = [door EXCEPT ![Web(s)] = "shut"]
     \/ expired /\ UNCHANGED door
  /\ stop' = [stop EXCEPT ![s] = AfterWeb(s)]
  /\ UNCHANGED <<cfg, pc, registryVars, cancelled, expired, start, busy, deps>>

\* GracefulStop, and at the timeout Stop, which does not wait for handlers.
RPCStopped(s) ==
  /\ stop[s] = "rpcWait"
  /\ ~busy[RPC(s)] \/ expired
  /\ door' = [door EXCEPT ![RPC(s)] = "shut"]
  /\ stop' = [stop EXCEPT ![s] = "done"]
  /\ UNCHANGED <<cfg, pc, registryVars, cancelled, expired, start, busy, deps>>

\* What readiness depends on fails and comes back.
DepsChange ==
  /\ cfg.churn /\ ~Ended /\ deps' \in {Up, Down} \ {deps}
  /\ UNCHANGED <<cfg, pc, registryVars, cancelled, expired, serverVars>>

-----------------------------------------------------------------------------
(* Consul *)

Readiness == CHOOSE a \in RunChecks({PingChecker("deps", deps = Down)}) : TRUE
Liveness == CHOOSE a \in RunChecks({}) : TRUE

\* On an HTTP or a gRPC server the probe is behind the authenticator, unless
\* its path or method was made public; on a gateway it never is.
Behind(d) == cfg.guarded /\ d \in {Web("http"), RPC("grpc")}

\* What the check of a service finds.
Answers(check) ==
  LET d == check.addr.port
  IN CASE check.type = "tcp"  -> door[d] \in {"made", "open"} /\
                                 (door[d] = "made" => d[2] = "rpc")
       [] check.type = "http" ->
            /\ door[d] = "open" /\ d[2] = "web"
            /\ ~Behind(d)
            /\ Middleware("/healthz", Liveness, Readiness, 404) = 200
       [] check.type = "grpc" ->
            /\ door[d] = "open" /\ d[2] = "rpc"
            /\ ~Behind(d)
            /\ GRPCProbe(<<>>, "", Liveness, Readiness) = "SERVING"

\* Nothing of a server is in the way of a probe.
Well(s) == /\ \A d \in DoorsOf(s) : door[d] = "open"
           /\ cfg.how = "server" => \A d \in DoorsOf(s) : ~Behind(d)
           /\ deps = Up

\* The status of a service is what its last probe found.
Probe(s) ==
  /\ consul[s] # "absent"
  /\ consul' = [consul EXCEPT ![s] =
                  IF Answers(Record(s).check)
                  THEN "passing" ELSE "critical"]
  /\ sick' = IF Well(s) THEN sick \ {s} ELSE sick \cup {s}
  /\ UNCHANGED <<cfg, pc, todo, ids, blame, cancelled, expired, serverVars,
                 deps>>

\* DeregisterCriticalServiceAfter: by the last probe, however the server is
\* when its time is up.
Reap(s) ==
  /\ consul[s] = "critical"
  /\ consul' = [consul EXCEPT ![s] = "absent"]
  /\ UNCHANGED <<cfg, pc, todo, ids, blame, sick, cancelled, expired,
                 serverVars, deps>>

-----------------------------------------------------------------------------

Registry == Register \/ Unregister \/ HookReturns
Main == Run \/ StartAll \/ Registry \/ ContextDone \/ Signal \/ Drain
        \/ Cleanup \/ Exit
Starting(s) == StartRPC(s) \/ StartWeb(s) \/ \E d \in DoorsOf(s) : Serve(d)
Stopping(s) ==
  (\E d \in DoorsOf(s) : CloseDoor(s, d)) \/ WebStopped(s) \/ RPCStopped(s)
Agent(s) == Probe(s) \/ Reap(s)

Next ==
  \/ Main \/ Stop \/ Expire \/ DepsChange
  \/ \E s \in Kinds : Starting(s) \/ Stopping(s) \/ Agent(s)
  \/ \E d \in Doors : Arrive(d) \/ Leave(d)

\* Hooks and cleanups return and timers fire; a request may take for ever, a
\* Start may never run, and nobody has to stop the application.
Fairness ==
  /\ WF_vars(StartAll) /\ WF_vars(Registry) /\ WF_vars(ContextDone)
  /\ WF_vars(Drain) /\ WF_vars(Cleanup) /\ WF_vars(Expire)

Spec == Init /\ [][Next]_vars /\ Fairness

-----------------------------------------------------------------------------
(* Properties *)

\* A cleanup closes what handlers use: none runs behind a door that was
\* stopped, unless the graceful timeout passed (app.go:204, waitForShutdown
\* before runCleanups).  What escapes is a Start that came after its Stop.
CleanupQuiet ==
  pc \in {"cleanup", "returned"} /\ ~expired =>
    \A d \in Doors : busy[d] => door[d] = "open" /\ stop[d[1]] = "done"

\* A service Consul has and the registry does not know of is one whose own call
\* failed or was cut short: RegisterAll takes back what it registered, and no
\* failure keeps UnregisterAll from the others (registry.go:149, 178).
OrphanCause ==
  \A s \in Kinds : consul[s] # "absent" => s \in Range(ids) \cup blame

\* What Discover answers is a gRPC port (consul.go:317: it must not answer
\* HTTP ports) that takes calls, as services leave Consul before their servers
\* stop, unless their own call to Consul failed or the process died.
FoundIsOpen ==
  \A s \in Range(ids) \cup blame :
    LET r == Record(s)
        d == r.addr.port
    IN r.addr \in Discover({t \in {r} : consul[s] = "passing"}) =>
         /\ d[2] = "rpc"
         /\ door[d] \in {"made", "open"} \/ s \in blame \/ Dead

\* What Consul has of a service is true.
ConsulTrue == OrphanCause /\ FoundIsOpen

\* Consul removes no server that was well when it was last probed: one with all
\* its doors open, what it depends on up and its probe not behind the
\* authenticator (consul.go:385: the check goes where the health endpoint is).
\* One that recovers after a failed probe may still be removed before the next.
HealthyStays ==
  [][\A s \in Kinds :
       /\ consul[s] # "absent" /\ consul'[s] = "absent"
       /\ pc \notin {"rollback", "unregistering"}
       => s \in sick]_vars

\* Run returns once it was asked to, whatever a request still does
\* (app.go:199: the graceful timeout).
RunReturns ==
  (cancelled /\ pc # "idle") \/ pc = "unregistering" ~> Ended

\* The two faces of Health agree, and no checker that is down, or cannot tell,
\* is outvoted, composed or not, as long as no two share their name
\* (health.go:181: one result is kept for a name).  A gRPC status set by hand
\* counts for that name only, until it is cleared.
ProbesAgree ==
  pc = "idle" => \A x, y \in Statuses :
    LET a == RunChecks({Checker("a", x), Checker("b", y)})
        b == RunChecks({CompositeChecker("c", {Checker("a", x),
                                               Checker("b", y)})})
    IN /\ Cardinality(a) = 1 /\ a = b
       /\ \A r \in a :
            /\ HTTPProbe("GET", r) = 200 <=> x = Up /\ y = Up
            /\ GRPCProbe(<<>>, "readiness", Up, r) = "SERVING"
                 <=> HTTPCode(r) = 200
            /\ Down \in {x, y} =>
                 GRPCProbe(<<>>, "", Up, r) = "NOT_SERVING"
            /\ LET set == SetServingStatus(<<>>, "readiness", "SERVING")
                   cleared == ClearServingStatus(set, "readiness")
               IN /\ GRPCProbe(set, "readiness", Up, r) = "SERVING"
                  /\ \A o \in {set, cleared} :
                       GRPCProbe(o, "", Up, r) = ConvertStatus(r)
=============================================================================
