------------------------------ MODULE Lifecycle ------------------------------
(***************************************************************************)
(* The process from its start to its end (main/main.go): main sets the     *)
(* service up while its HTTP server is serving already, waits for the      *)
(* server, and closes the database; a goroutine cancels the server's       *)
(* context on a signal.  Every request is a goroutine of the server, every *)
(* CSR one that nothing waits for, and so is the loader.                   *)
(*                                                                         *)
(* External: Serve calls serverReady whether or not it can listen, and     *)
(* returns when it could not, or when the context is cancelled and the     *)
(* requests that it had accepted are answered.                             *)
(***************************************************************************)
EXTENDS Naturals, Config

CONSTANTS
    Configs,    \* the configurations the process is started with
    Slots,      \* requests the server can work on at the same time
    MaxCsrJobs  \* bound on the number of CSR goroutines

ASSUME MaxCsrJobsAssumption == MaxCsrJobs \in Nat

VARIABLES
    conf,       \* the configuration, and whether it is started with --migrate
    main,       \* what main does next
    server,     \* httpServer.Serve
    stopping,   \* ctx is cancelled
    routes,     \* endpoints of the router
    db,         \* the database of ctxManager
    loader,     \* the goroutine of NewProtocol runs
    req,        \* [Slots -> endpoint or step of the request, "idle"]
    csrJobs     \* number of goroutines that submit a CSR

lifeVars == <<conf, main, server, stopping, routes, db, loader, req, csrJobs>>

(* Mutant: ready before the endpoints of the service are there. *)
ScriptReadyEarly ==
    <<"await", "healtz", "openDb", "protocol", "readiness", "register", "sign", "signHash", "wait">>

(* What main does from the start of the server on. *)
Script ==
    <<"await", "healtz", "openDb", "protocol", "register", "sign", "signHash", "readiness", "wait">>

Services == {"register", "sign", "signHash"}
Endpoints == Services \cup {"healtz", "readiness"}

LifeTypeOK ==
    /\ conf \in [config : Configs, migrate : BOOLEAN]
    /\ main \in {Script[i] : i \in DOMAIN Script}
                    \cup {"load", "migrate", "serve", "close", "exit", "exited"}
    /\ server \in {"off", "starting", "listening", "draining", "stopped"}
    /\ stopping \in BOOLEAN /\ loader \in BOOLEAN
    /\ routes \subseteq Endpoints
    /\ main = "wait" => routes = Endpoints
    /\ db \in {"none", "open", "closed"}
    /\ req \in [Slots -> Endpoints \cup {"commit", "idle"}]
    /\ csrJobs \in 0..MaxCsrJobs

LifeInit ==
    /\ conf \in [config : Configs, migrate : BOOLEAN]
    /\ main = "load"
    /\ server = "off"
    /\ stopping = FALSE
    /\ routes = {}
    /\ db = "none"
    /\ loader = FALSE
    /\ req = [s \in Slots |-> "idle"]
    /\ csrJobs = 0

-----------------------------------------------------------------------------
(* The process is gone, and every goroutine with it. *)
Vanish ==
    /\ main' = "exited"
    /\ server' = "off"
    /\ stopping' = FALSE
    /\ routes' = {}
    /\ db' = "none"
    /\ loader' = FALSE
    /\ req' = [s \in Slots |-> "idle"]
    /\ csrJobs' = 0
    /\ UNCHANGED conf

MainGoto(from, to) == main = from /\ main' = to

LoadConfig ==
    /\ Load(conf.config)
    /\ MainGoto("load", IF conf.migrate THEN "migrate" ELSE "serve")
    /\ UNCHANGED <<conf, server, stopping, routes, db, loader, req, csrJobs>>

ConfigRefused == main = "load" /\ ~Load(conf.config) /\ Vanish

(* Migration has the steps.  The process does not serve afterwards. *)
MigrateAndExit == main = "migrate" /\ Vanish

StartServer ==
    /\ MainGoto("serve", "await")
    /\ server' = "starting"
    /\ UNCHANGED <<conf, stopping, routes, db, loader, req, csrJobs>>

(* Mutant: the step behind the next one is skipped. *)
SkipsStep(step) == MainGoto(step, Script[2 + CHOOSE i \in DOMAIN Script : Script[i] = step])

Does(step) == MainGoto(step, Script[1 + CHOOSE i \in DOMAIN Script : Script[i] = step])

(* Mutant: only a server that listens is ready. *)
AwaitListening ==
    /\ Does("await")
    /\ server = "listening"
    /\ UNCHANGED <<conf, server, stopping, routes, db, loader, req, csrJobs>>

AwaitServer ==
    /\ Does("await")
    /\ server # "starting"
    /\ UNCHANGED <<conf, server, stopping, routes, db, loader, req, csrJobs>>

(* The router is changed while the server uses it. *)
AddRoute(r) ==
    /\ Does(r)
    /\ routes' = routes \cup {r}
    /\ UNCHANGED <<conf, server, stopping, db, loader, req, csrJobs>>

OpenDatabase ==
    /\ Does("openDb")
    /\ GetCtxManager(conf.config)
    /\ db' = "open"
    /\ UNCHANGED <<conf, server, stopping, routes, loader, req, csrJobs>>

(* log.Fatal, in a process that serves: the database answers with an error or *)
(* refuses the connection.  While it does not answer at all, Ping waits, and  *)
(* main with it.                                                              *)
OpenFails == main = "openDb" /\ Vanish

(* NewProtocol starts the loader. *)
InitProtocol ==
    /\ Does("protocol")
    /\ loader' = TRUE
    /\ UNCHANGED <<conf, server, stopping, routes, db, req, csrJobs>>

InitFails == main = "protocol" /\ Vanish

(* Mutant: main goes on when the context is cancelled. *)
WaitForContext ==
    /\ MainGoto("wait", "close")
    /\ stopping
    /\ UNCHANGED <<conf, server, stopping, routes, db, loader, req, csrJobs>>

(* Mutant: the loader is one of the goroutines main waits for. *)
WaitForLoader ==
    /\ MainGoto("wait", "close")
    /\ server = "stopped" /\ ~loader
    /\ UNCHANGED <<conf, server, stopping, routes, db, loader, req, csrJobs>>

(* g.Wait: the server is the only goroutine of the group. *)
GroupWait ==
    /\ MainGoto("wait", "close")
    /\ server = "stopped"
    /\ UNCHANGED <<conf, server, stopping, routes, db, loader, req, csrJobs>>

(* The deferred Close. *)
CloseDatabase ==
    /\ MainGoto("close", "exit")
    /\ db' = "closed"
    /\ UNCHANGED <<conf, server, stopping, routes, loader, req, csrJobs>>

MainReturns == main = "exit" /\ Vanish

MainStep ==
    \/ LoadConfig \/ ConfigRefused \/ MigrateAndExit
    \/ StartServer \/ AwaitServer
    \/ \E r \in Endpoints : AddRoute(r)
    \/ OpenDatabase \/ OpenFails \/ InitProtocol \/ InitFails
    \/ GroupWait \/ CloseDatabase \/ MainReturns

-----------------------------------------------------------------------------
ServerGoto(from, to) ==
    /\ server \in from
    /\ server' = to
    /\ UNCHANGED <<conf, main, routes, db, loader, req, csrJobs>>

ServerListens == ServerGoto({"starting"}, "listening") /\ UNCHANGED stopping

(* The error makes the group cancel its context. *)
ListenFails == ServerGoto({"starting"}, "stopped") /\ stopping' = TRUE

Drain == stopping /\ ServerGoto({"starting", "listening"}, "draining") /\ UNCHANGED stopping

ServerStops ==
    /\ \A s \in Slots : req[s] = "idle"
    /\ ServerGoto({"draining"}, "stopped")
    /\ UNCHANGED stopping

ServerStep == ServerListens \/ ListenFails \/ Drain \/ ServerStops

(* shutdown: a SIGINT or SIGTERM cancels the context; later ones change nothing. *)
Shutdown ==
    /\ main \notin {"load", "migrate", "serve", "exited"}
    /\ stopping' = TRUE
    /\ UNCHANGED <<conf, main, server, routes, db, loader, req, csrJobs>>

(* A signal before shutdown has called signal.Notify, or one that cannot be   *)
(* handled.                                                                   *)
Killed == main # "exited" /\ Vanish

StartAgain ==
    /\ main = "exited"
    /\ main' = "load"
    /\ conf' \in [config : Configs, migrate : BOOLEAN]
    /\ UNCHANGED <<server, stopping, routes, db, loader, req, csrJobs>>

-----------------------------------------------------------------------------
RequestGoto(s, from, to) ==
    /\ req[s] = from
    /\ req' = [req EXCEPT ![s] = to]
    /\ UNCHANGED <<conf, main, server, stopping, routes, db, loader>>

Receive(s, r) ==
    /\ server = "listening" /\ r \in routes
    /\ RequestGoto(s, "idle", r)
    /\ UNCHANGED csrJobs

(* registerPublicKey: the CSR goroutine starts and the request goes on. *)
KeyRegistered(s) ==
    /\ csrJobs < MaxCsrJobs
    /\ RequestGoto(s, "register", "commit")
    /\ csrJobs' = csrJobs + 1

Answered(s) ==
    /\ \E step \in Endpoints \cup {"commit"} : RequestGoto(s, step, "idle")
    /\ UNCHANGED csrJobs

SubmitsCSR ==
    /\ csrJobs > 0
    /\ csrJobs' = csrJobs - 1
    /\ UNCHANGED <<conf, main, server, stopping, routes, db, loader, req>>

LifeNext ==
    \/ MainStep \/ ServerStep \/ Shutdown \/ Killed \/ StartAgain \/ SubmitsCSR
    \/ \E s \in Slots :
        (\E r \in Endpoints : Receive(s, r)) \/ KeyRegistered(s) \/ Answered(s)

(* main and the server run, and a request that was accepted is answered.  The *)
(* first includes that the database answers Ping, which has no deadline.      *)
LifeSpec ==
    /\ LifeInit /\ [][LifeNext]_lifeVars
    /\ WF_lifeVars(MainStep)
    /\ WF_lifeVars(ServerStep)
    /\ \A s \in Slots : WF_lifeVars(Answered(s))

-----------------------------------------------------------------------------
(* A client that is told by /readiness that the service is ready finds every  *)
(* endpoint, the database and the loader there, although main goes on adding  *)
(* endpoints to a server that is serving, and although a signal may arrive    *)
(* before main is done.                                                       *)
ReadyMeansServing ==
    (\E s \in Slots : req[s] = "readiness") =>
        Services \subseteq routes /\ db = "open" /\ loader

(* No request is served in a process whose configuration is not complete,     *)
(* before the database is open, or after main has closed it: the deferred     *)
(* Close waits for every request that was accepted before the signal.         *)
ServedWithDatabase ==
    (\E s \in Slots : req[s] \in Services \cup {"commit"}) =>
        Load(conf.config) /\ GetCtxManager(conf.config) /\ db = "open"

(* A start comes to an end, with every endpoint there or with the end of the  *)
(* process: main does not wait for a server that could not listen or was      *)
(* stopped by a signal at once.                                               *)
StartEnds == main = "await" ~> main \in {"wait", "exited"}

(* After a signal the process ends: the loader, which never ends, does not    *)
(* keep it.                                                                   *)
StopsAfterSignal == stopping ~> main = "exited"

(* "create a waitgroup that contains all asynchronous operations; a           *)
(* cancellable context is used to stop the operations gracefully"             *)
(* (main/main.go:97): when main has waited, no CSR is being submitted.        *)
AsynchronousOperationsAwaited == main = "close" => csrJobs = 0

=============================================================================
