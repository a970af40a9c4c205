---------------------------- MODULE LifecycleProofs ----------------------------
(***************************************************************************)
(* Proofs about the start and the end of the process: what a request finds *)
(* there follows from where main is, although main and the server go on    *)
(* side by side.                                                           *)
(***************************************************************************)
EXTENDS Lifecycle, TLAPS

Ending == {"wait", "close", "exit"}

(* The process does not serve, or not any more. *)
Offline == {"load", "migrate", "serve", "exited"}

(* main adds the endpoints in the order of its script. *)
RoutesFollowMain ==
    /\ "healtz" \in routes <=>
        main \in {"openDb", "protocol", "register", "sign", "signHash", "readiness"} \cup Ending
    /\ "register" \in routes <=> main \in {"sign", "signHash", "readiness"} \cup Ending
    /\ "sign" \in routes <=> main \in {"signHash", "readiness"} \cup Ending
    /\ "signHash" \in routes <=> main \in {"readiness"} \cup Ending
    /\ "readiness" \in routes <=> main \in Ending

(* And opens the database and starts the loader before them. *)
ContextFollowsMain ==
    /\ main \notin {"load", "exited"} => Load(conf.config)
    /\ main \in {"protocol", "register", "sign", "signHash", "readiness", "wait", "close"} =>
        db = "open" /\ GetCtxManager(conf.config)
    /\ main \in {"register", "sign", "signHash", "readiness"} \cup Ending => loader

(* The server works on requests for the endpoints that are there, and on none *)
(* when main has waited for it.                                               *)
ServerFollowsMain ==
    /\ main \in Offline => server = "off"
    /\ main \in {"close", "exit"} => server = "stopped"
    /\ server \in {"off", "starting", "stopped"} => \A s \in Slots : req[s] = "idle"
    /\ \A s \in Slots :
        /\ req[s] \in Endpoints => req[s] \in routes
        /\ req[s] = "commit" => "register" \in routes

LifeInv == LifeTypeOK /\ RoutesFollowMain /\ ContextFollowsMain /\ ServerFollowsMain

-----------------------------------------------------------------------------

(* The script, step by step. *)
LEMMA ScriptOrder ==
    /\ Does("await") => main = "await" /\ main' = "healtz"
    /\ Does("healtz") => main = "healtz" /\ main' = "openDb"
    /\ Does("openDb") => main = "openDb" /\ main' = "protocol"
    /\ Does("protocol") => main = "protocol" /\ main' = "register"
    /\ Does("register") => main = "register" /\ main' = "sign"
    /\ Does("sign") => main = "sign" /\ main' = "signHash"
    /\ Does("signHash") => main = "signHash" /\ main' = "readiness"
    /\ Does("readiness") => main = "readiness" /\ main' = "wait"
<1>1. DOMAIN Script = 1..9
  BY DEF Script
<1>2. /\ Script[1] = "await" /\ Script[2] = "healtz" /\ Script[3] = "openDb"
      /\ Script[4] = "protocol" /\ Script[5] = "register" /\ Script[6] = "sign"
      /\ Script[7] = "signHash" /\ Script[8] = "readiness" /\ Script[9] = "wait"
  BY DEF Script
<1>3. ASSUME NEW n \in 1..9, NEW i \in DOMAIN Script, Script[i] = Script[n] PROVE i = n
  BY <1>1, <1>2, <1>3
<1>4. ASSUME NEW n \in 1..9, NEW step, Script[n] = step, Does(step)
      PROVE  main = step /\ main' = Script[1 + n]
  <2>1. (CHOOSE i \in DOMAIN Script : Script[i] = step) = n
    BY <1>1, <1>3, <1>4
  <2> QED BY <1>4, <2>1 DEF Does, MainGoto
<1> QED BY <1>2, <1>4

(* What main does from the start of the server on. *)
LEMMA ScriptSteps ==
    {Script[i] : i \in DOMAIN Script} =
        {"await", "healtz", "openDb", "protocol", "register", "sign", "signHash", "readiness",
         "wait"}
BY DEF Script

Mains ==
    {"load", "migrate", "serve", "await", "healtz", "openDb", "protocol", "register", "sign",
     "signHash", "readiness", "wait", "close", "exit", "exited"}

(* main is at a step of the script or at one that stands before or after it.  *)
LEMMA MainIsTyped == LifeTypeOK => main \in Mains
BY ScriptSteps DEF LifeTypeOK, Mains

(* The type of the variables, with the steps of the script spelled out. *)
LEMMA TypesSuffice ==
    ASSUME conf' \in [config : Configs, migrate : BOOLEAN], main' \in Mains,
           server' \in {"off", "starting", "listening", "draining", "stopped"},
           stopping' \in BOOLEAN, loader' \in BOOLEAN, routes' \subseteq Endpoints,
           main' = "wait" => routes' = Endpoints, db' \in {"none", "open", "closed"},
           req' \in [Slots -> Endpoints \cup {"commit", "idle"}], csrJobs' \in 0..MaxCsrJobs
    PROVE  LifeTypeOK'
<1>1. main' \in {Script[i] : i \in DOMAIN Script}
                    \cup {"load", "migrate", "serve", "close", "exit", "exited"}
  BY ScriptSteps DEF Mains
<1>2. Script' = Script
  BY DEF Script
<1> QED BY <1>1, <1>2 DEF LifeTypeOK

(* The process is gone. *)
LEMMA VanishInv == ASSUME LifeInv, Vanish PROVE LifeInv'
<1>1. LifeTypeOK'
  <2>1. stopping' \in BOOLEAN /\ loader' \in BOOLEAN
    BY Zenon DEF Vanish
  <2>2. /\ conf' \in [config : Configs, migrate : BOOLEAN] /\ main' \in Mains
        /\ server' \in {"off", "starting", "listening", "draining", "stopped"}
        /\ routes' \subseteq Endpoints /\ main' # "wait" /\ db' \in {"none", "open", "closed"}
        /\ req' \in [Slots -> Endpoints \cup {"commit", "idle"}] /\ csrJobs' \in 0..MaxCsrJobs
    BY MaxCsrJobsAssumption DEF Vanish, Mains, LifeInv, LifeTypeOK
  <2> QED BY <2>1, <2>2, TypesSuffice
<1>2. RoutesFollowMain' /\ ContextFollowsMain'
  BY DEF Vanish, RoutesFollowMain, ContextFollowsMain, Ending
<1>3. ServerFollowsMain'
  BY DEF Vanish, ServerFollowsMain, Endpoints, Services
<1> QED BY <1>1, <1>2, <1>3 DEF LifeInv

(* A step of main that leaves the server, the requests and the endpoints      *)
(* alone, before the server is there or while it is.                          *)
LEMMA MainMoves ==
    ASSUME LifeInv, main' \in Mains, main' # "exited",
           db' \in {"none", "open", "closed"}, loader' \in BOOLEAN,
           UNCHANGED <<conf, server, stopping, routes, req, csrJobs>>,
           RoutesFollowMain', ContextFollowsMain',
           main' \in Offline => server = "off",
           main' \in {"close", "exit"} => server = "stopped"
    PROVE  LifeInv'
<1>1. main' = "wait" => routes' = Endpoints
  BY DEF LifeInv, LifeTypeOK, RoutesFollowMain, Ending, Endpoints, Services
<1>2. LifeTypeOK'
  <2>1. stopping' \in BOOLEAN
    BY Zenon DEF LifeInv, LifeTypeOK
  <2> QED BY <1>1, <2>1, TypesSuffice DEF LifeInv, LifeTypeOK
<1>3. ServerFollowsMain'
  BY DEF LifeInv, ServerFollowsMain
<1> QED BY <1>2, <1>3 DEF LifeInv

(* The configuration is accepted. *)
LEMMA LoadConfigInv == ASSUME LifeInv, LoadConfig PROVE LifeInv'
<1>1. /\ main = "load" /\ main' \in {"migrate", "serve"} /\ Load(conf.config)
      /\ UNCHANGED <<conf, server, stopping, routes, db, loader, req, csrJobs>>
  BY DEF LoadConfig, MainGoto
<1>2. RoutesFollowMain' /\ ContextFollowsMain'
  BY <1>1 DEF LifeInv, RoutesFollowMain, ContextFollowsMain, Ending
<1> QED BY <1>1, <1>2, MainMoves
        DEF LifeInv, LifeTypeOK, ServerFollowsMain, Offline, Mains

(* The server starts, with no endpoint. *)
LEMMA StartServerInv == ASSUME LifeInv, StartServer PROVE LifeInv'
<1>1. /\ main = "serve" /\ main' = "await" /\ server' = "starting"
      /\ UNCHANGED <<conf, stopping, routes, db, loader, req, csrJobs>>
  BY DEF StartServer, MainGoto
<1>2. LifeTypeOK'
  <2>1. stopping' \in BOOLEAN /\ loader' \in BOOLEAN
    BY <1>1, Zenon DEF LifeInv, LifeTypeOK
  <2> QED BY <1>1, <2>1, TypesSuffice DEF LifeInv, LifeTypeOK, Mains
<1>3. RoutesFollowMain' /\ ContextFollowsMain'
  BY <1>1 DEF LifeInv, RoutesFollowMain, ContextFollowsMain, Ending
<1>4. ServerFollowsMain'
  BY <1>1 DEF LifeInv, ServerFollowsMain, Offline
<1> QED BY <1>2, <1>3, <1>4 DEF LifeInv

(* Another endpoint is added. *)
LEMMA AddRouteInv == ASSUME LifeInv, NEW r \in Endpoints, AddRoute(r) PROVE LifeInv'
<1>1. /\ routes' = routes \cup {r}
      /\ UNCHANGED <<conf, server, stopping, db, loader, req, csrJobs>>
      /\ \/ r = "healtz" /\ main = "healtz" /\ main' = "openDb"
         \/ r = "register" /\ main = "register" /\ main' = "sign"
         \/ r = "sign" /\ main = "sign" /\ main' = "signHash"
         \/ r = "signHash" /\ main = "signHash" /\ main' = "readiness"
         \/ r = "readiness" /\ main = "readiness" /\ main' = "wait"
  BY ScriptOrder DEF AddRoute, Endpoints, Services
<1>2. RoutesFollowMain'
  BY <1>1 DEF LifeInv, RoutesFollowMain, Ending
<1>3. ContextFollowsMain'
  BY <1>1 DEF LifeInv, ContextFollowsMain, Ending
<1>4. ServerFollowsMain'
  BY <1>1 DEF LifeInv, ServerFollowsMain, Offline
<1>5. LifeTypeOK'
  <2>1. stopping' \in BOOLEAN /\ loader' \in BOOLEAN
    BY <1>1, Zenon DEF LifeInv, LifeTypeOK
  <2>2. routes' \subseteq Endpoints
    BY <1>1 DEF LifeInv, LifeTypeOK
  <2>3. main' = "wait" => routes' = Endpoints
    BY <1>2, <2>2 DEF RoutesFollowMain, Ending, Endpoints, Services
  <2>4. main' \in Mains
    BY <1>1 DEF Mains
  <2> QED BY <1>1, <2>1, <2>2, <2>3, <2>4, TypesSuffice DEF LifeInv, LifeTypeOK
<1> QED BY <1>2, <1>3, <1>4, <1>5 DEF LifeInv

(* main goes on without an endpoint. *)
LEMMA MainStepInv == ASSUME LifeInv, MainStep PROVE LifeInv'
<1> DEFINE Others == UNCHANGED <<conf, server, stopping, routes, req, csrJobs>>
<1>1. ASSUME ConfigRefused \/ MigrateAndExit \/ OpenFails \/ InitFails \/ MainReturns
      PROVE  LifeInv'
  BY <1>1, VanishInv DEF ConfigRefused, MigrateAndExit, OpenFails, InitFails, MainReturns
<1>2. CASE AwaitServer
  <2>1. main = "await" /\ main' = "healtz" /\ Others /\ UNCHANGED <<db, loader>>
    BY <1>2, ScriptOrder DEF AwaitServer
  <2>2. RoutesFollowMain' /\ ContextFollowsMain'
    BY <2>1 DEF LifeInv, RoutesFollowMain, ContextFollowsMain, Ending
  <2> QED BY <2>1, <2>2, MainMoves DEF LifeInv, LifeTypeOK, Offline, Mains
<1>3. CASE OpenDatabase
  <2>1. /\ main = "openDb" /\ main' = "protocol" /\ Others /\ UNCHANGED loader
        /\ db' = "open" /\ GetCtxManager(conf.config)
    BY <1>3, ScriptOrder DEF OpenDatabase
  <2>2. RoutesFollowMain' /\ ContextFollowsMain'
    BY <2>1 DEF LifeInv, RoutesFollowMain, ContextFollowsMain, Ending
  <2> QED BY <2>1, <2>2, MainMoves DEF LifeInv, LifeTypeOK, Offline, Mains
<1>4. CASE InitProtocol
  <2>1. /\ main = "protocol" /\ main' = "register" /\ Others /\ UNCHANGED db
        /\ loader'
    BY <1>4, ScriptOrder DEF InitProtocol
  <2>2. RoutesFollowMain' /\ ContextFollowsMain'
    BY <2>1 DEF LifeInv, RoutesFollowMain, ContextFollowsMain, Ending
  <2>3. loader' \in BOOLEAN
    BY <1>4, Zenon DEF InitProtocol
  <2> QED BY <2>1, <2>2, <2>3, MainMoves DEF LifeInv, LifeTypeOK, Offline, Mains
<1>5. CASE GroupWait
  <2>1. /\ main = "wait" /\ main' = "close" /\ Others /\ UNCHANGED <<db, loader>>
        /\ server = "stopped"
    BY <1>5 DEF GroupWait, MainGoto
  <2>2. RoutesFollowMain' /\ ContextFollowsMain'
    BY <2>1 DEF LifeInv, RoutesFollowMain, ContextFollowsMain, Ending
  <2> QED BY <2>1, <2>2, MainMoves DEF LifeInv, LifeTypeOK, Offline, Mains
<1>6. CASE CloseDatabase
  <2>1. main = "close" /\ main' = "exit" /\ Others /\ UNCHANGED loader /\ db' = "closed"
    BY <1>6 DEF CloseDatabase, MainGoto
  <2>2. RoutesFollowMain' /\ ContextFollowsMain'
    BY <2>1 DEF LifeInv, RoutesFollowMain, ContextFollowsMain, Ending
  <2>3. server = "stopped"
    BY <2>1 DEF LifeInv, ServerFollowsMain
  <2> QED BY <2>1, <2>2, <2>3, MainMoves DEF LifeInv, LifeTypeOK, Offline, Mains
<1> QED BY <1>1, <1>2, <1>3, <1>4, <1>5, <1>6, LoadConfigInv, StartServerInv, AddRouteInv
        DEF MainStep

(* The server moves; it stops only when every request is answered. *)
LEMMA ServerStepInv == ASSUME LifeInv, ServerStep PROVE LifeInv'
<1>1. /\ server \in {"starting", "listening", "draining"}
      /\ server' \in {"listening", "draining", "stopped"}
      /\ server' = "stopped" => \A s \in Slots : req[s] = "idle"
      /\ UNCHANGED <<conf, main, routes, db, loader, req, csrJobs>>
  BY DEF ServerStep, ServerListens, ListenFails, Drain, ServerStops, ServerGoto,
         LifeInv, ServerFollowsMain
<1>2. stopping' \in BOOLEAN /\ loader' \in BOOLEAN
  BY Zenon DEF ServerStep, ServerListens, ListenFails, Drain, ServerStops, ServerGoto,
               LifeInv, LifeTypeOK
<1>3. LifeTypeOK'
  BY <1>1, <1>2, MainIsTyped, TypesSuffice DEF LifeInv, LifeTypeOK
<1>4. RoutesFollowMain' /\ ContextFollowsMain'
  BY <1>1 DEF LifeInv, RoutesFollowMain, ContextFollowsMain
<1>5. ServerFollowsMain'
  BY <1>1 DEF LifeInv, ServerFollowsMain, Offline
<1> QED BY <1>3, <1>4, <1>5 DEF LifeInv

(* A request moves. *)
LEMMA RequestInv ==
    ASSUME LifeInv, NEW s \in Slots, NEW step \in Endpoints \cup {"commit", "idle"},
           RequestGoto(s, req[s], step), csrJobs' \in 0..MaxCsrJobs,
           step # "idle" => server \in {"listening", "draining"},
           step \in Endpoints => step \in routes,
           step = "commit" => "register" \in routes
    PROVE  LifeInv'
<1>1. /\ req' = [req EXCEPT ![s] = step]
      /\ UNCHANGED <<conf, main, server, stopping, routes, db, loader>>
  BY DEF RequestGoto
<1>2. stopping' \in BOOLEAN /\ loader' \in BOOLEAN
  BY <1>1, Zenon DEF LifeInv, LifeTypeOK
<1>3. LifeTypeOK'
  BY <1>1, <1>2, MainIsTyped, TypesSuffice DEF LifeInv, LifeTypeOK
<1>4. RoutesFollowMain' /\ ContextFollowsMain'
  BY <1>1 DEF LifeInv, RoutesFollowMain, ContextFollowsMain
<1>5. ServerFollowsMain'
  BY <1>1 DEF LifeInv, LifeTypeOK, ServerFollowsMain
<1> QED BY <1>3, <1>4, <1>5 DEF LifeInv

(* The steps of a request. *)
LEMMA RequestStepInv ==
    ASSUME LifeInv, NEW s \in Slots,
           (\E r \in Endpoints : Receive(s, r)) \/ KeyRegistered(s) \/ Answered(s)
    PROVE  LifeInv'
<1>1. ASSUME NEW r \in Endpoints, Receive(s, r) PROVE LifeInv'
  BY <1>1, RequestInv DEF Receive, RequestGoto, LifeInv, LifeTypeOK, Endpoints, Services
<1>2. CASE KeyRegistered(s)
  <2>1. csrJobs' \in 0..MaxCsrJobs
    BY <1>2, MaxCsrJobsAssumption DEF KeyRegistered, LifeInv, LifeTypeOK
  <2>2. RequestGoto(s, req[s], "commit") /\ req[s] = "register"
    BY <1>2 DEF KeyRegistered, RequestGoto
  <2>3. "register" \in routes /\ server \in {"listening", "draining"}
    BY <2>2 DEF LifeInv, LifeTypeOK, ServerFollowsMain, Endpoints, Services
  <2>4. "commit" \notin Endpoints
    BY DEF Endpoints, Services
  <2> QED BY <2>1, <2>2, <2>3, <2>4, RequestInv
<1>3. CASE Answered(s)
  <2>1. "idle" \notin Endpoints
    BY DEF Endpoints, Services
  <2> QED BY <1>3, <2>1, RequestInv DEF Answered, RequestGoto, LifeInv, LifeTypeOK
<1> QED BY <1>1, <1>2, <1>3

(* A signal, another start, a CSR that is submitted. *)
LEMMA OutsideInv == ASSUME LifeInv, Shutdown \/ StartAgain \/ SubmitsCSR PROVE LifeInv'
<1>1. /\ UNCHANGED <<server, routes, db, loader, req>>
      /\ \/ UNCHANGED <<conf, main>>
         \/ /\ main = "exited" /\ main' = "load"
            /\ conf' \in [config : Configs, migrate : BOOLEAN]
  BY DEF Shutdown, StartAgain, SubmitsCSR
<1>2. csrJobs' \in 0..MaxCsrJobs
  BY MaxCsrJobsAssumption DEF Shutdown, StartAgain, SubmitsCSR, LifeInv, LifeTypeOK
<1>3. stopping' \in BOOLEAN /\ loader' \in BOOLEAN
  BY <1>1, Zenon DEF Shutdown, StartAgain, SubmitsCSR, LifeInv, LifeTypeOK
<1>4. LifeTypeOK'
  BY <1>1, <1>2, <1>3, MainIsTyped, TypesSuffice DEF LifeInv, LifeTypeOK, Mains
<1>5. RoutesFollowMain' /\ ContextFollowsMain' /\ ServerFollowsMain'
  BY <1>1 DEF LifeInv, RoutesFollowMain, ContextFollowsMain, ServerFollowsMain, Ending, Offline
<1> QED BY <1>4, <1>5 DEF LifeInv

(* The initial states satisfy the invariant.                                  *)
LEMMA LifeInitInv == LifeInit => LifeInv
<1> SUFFICES ASSUME LifeInit PROVE LifeInv
  OBVIOUS
<1>1. stopping \in BOOLEAN /\ loader \in BOOLEAN
  BY Zenon DEF LifeInit
<1>2. LifeTypeOK
  BY <1>1, MaxCsrJobsAssumption DEF LifeInit, LifeTypeOK
<1>3. RoutesFollowMain /\ ContextFollowsMain /\ ServerFollowsMain
  BY DEF LifeInit, RoutesFollowMain, ContextFollowsMain, ServerFollowsMain, Ending, Offline,
         Endpoints, Services
<1> QED BY <1>2, <1>3 DEF LifeInv

(* Every step preserves the invariant. *)
LEMMA LifeNextInv == LifeInv /\ [LifeNext]_lifeVars => LifeInv'
<1> SUFFICES ASSUME LifeInv, [LifeNext]_lifeVars PROVE LifeInv'
  OBVIOUS
<1>1. CASE Killed
  BY <1>1, VanishInv DEF Killed
<1>2. CASE UNCHANGED lifeVars
  <2>1. UNCHANGED <<conf, main, server, stopping, routes, db, loader, req, csrJobs>>
    BY <1>2 DEF lifeVars
  <2>2. LifeTypeOK'
    BY <2>1, MainIsTyped, TypesSuffice DEF LifeInv, LifeTypeOK
  <2> QED BY <2>1, <2>2 DEF LifeInv, RoutesFollowMain, ContextFollowsMain, ServerFollowsMain
<1> QED BY <1>1, <1>2, MainStepInv, ServerStepInv, OutsideInv, RequestStepInv DEF LifeNext

(* The inductive invariant holds throughout. *)
THEOREM LifeInvariant == LifeSpec => []LifeInv
BY LifeInitInv, LifeNextInv, PTL DEF LifeSpec

(* Every variable keeps its type. *)
THEOREM LifeTypeCorrect == LifeSpec => []LifeTypeOK
BY LifeInvariant, PTL DEF LifeInv

(* /readiness is only served once everything else is there, however many      *)
(* requests run and whenever a signal arrives.                                *)
THEOREM ReadyIsServing == LifeSpec => []ReadyMeansServing
<1>1. LifeInv => ReadyMeansServing
  <2> SUFFICES ASSUME LifeInv, NEW s \in Slots, req[s] = "readiness"
               PROVE  Services \subseteq routes /\ db = "open" /\ loader
    BY DEF ReadyMeansServing
  <2>1. "readiness" \in routes /\ server \notin {"off", "starting", "stopped"}
    BY DEF LifeInv, ServerFollowsMain, Endpoints
  <2>2. main = "wait"
    BY <2>1 DEF LifeInv, RoutesFollowMain, ServerFollowsMain, Ending
  <2> QED BY <2>2 DEF LifeInv, LifeTypeOK, ContextFollowsMain, Endpoints, Ending
<1> QED BY <1>1, LifeInvariant, PTL

(* Every registration and every signature finds the database open, from the   *)
(* first that arrives while main is still adding endpoints to the last one    *)
(* before the deferred Close.                                                 *)
THEOREM DatabaseIsOpen == LifeSpec => []ServedWithDatabase
<1>1. LifeInv => ServedWithDatabase
  <2> SUFFICES ASSUME LifeInv, NEW s \in Slots, req[s] \in Services \cup {"commit"}
               PROVE  Load(conf.config) /\ GetCtxManager(conf.config) /\ db = "open"
    BY DEF ServedWithDatabase
  <2>1. routes \cap Services # {} /\ server \notin {"off", "starting", "stopped"}
    BY DEF LifeInv, ServerFollowsMain, Endpoints, Services
  <2>2. main \in {"sign", "signHash", "readiness", "wait"}
    BY <2>1 DEF LifeInv, RoutesFollowMain, ServerFollowsMain, Services, Ending
  <2> QED BY <2>2 DEF LifeInv, ContextFollowsMain
<1> QED BY <1>1, LifeInvariant, PTL

=============================================================================
