------------------------------- MODULE Plugin -------------------------------
(***************************************************************************)
(* One plugin process, from main to its end and its next start (main.go,   *)
(* internal/driver/driver.go, metadata.go, server.go): the configuration   *)
(* is checked, the instance finds out who it is, the driver is set up, and *)
(* two goroutines serve gRPC and metrics while main waits on a WaitGroup.  *)
(*                                                                         *)
(* Everything is lost when the process ends, except the socket file of a   *)
(* unix endpoint.  The container is always started again.  No signal is    *)
(* handled, so a SIGTERM is a Kill like any other.  Stop and ForceStop of  *)
(* the server are called by nobody in the repository; here they may be     *)
(* called at any time after Start, as their interface offers.              *)
(***************************************************************************)
EXTENDS Naturals

CONSTANTS
    Configs,      \* configurations the plugin is started with
    MaxCalls,     \* bound on calls being served at once
    MaxFaults     \* bound on failures, kills and stops

(***************************************************************************)
(* What main reads from its environment, as far as it makes a difference,  *)
(* and what it finds: is there a metadata service, what is in              *)
(* /linode-info/linode-id, can the metrics port be had.                    *)
(***************************************************************************)
Config ==
    [token    : BOOLEAN,
     url      : {"good", "bad"},
     prefix   : {"good", "long", "badchar"},
     metrics  : {"on", "off", "garbage"},
     endpoint : {"unix", "tcp", "other"},
     service  : BOOLEAN,
     idFile   : {"good", "absent", "garbage"},
     port     : BOOLEAN]

ASSUME PluginAssumption ==
    /\ Configs \subseteq Config
    /\ MaxCalls \in Nat /\ MaxFaults \in Nat

VARIABLES
    cfg,          \* the configuration; never changes
    pc,           \* where main is
    id,           \* Metadata.ID: 0 or the instance's
    ready,        \* LinodeDriver.ready
    wg,           \* the WaitGroup's counter
    serve,        \* the goroutine of serve
    grpc,         \* the gRPC server: open, draining or stopped
    calls,        \* calls being served
    metrics,      \* the goroutine of startMetricsServer
    shut,         \* has the metrics server been told to close?
    stop,         \* the call of Stop or ForceStop
    exit,         \* how the last process ended
    sock,         \* is there a socket file?
    faults

vars == <<cfg, pc, id, ready, wg, serve, grpc, calls, metrics, shut, stop,
          exit, sock, faults>>

Instance == 1     \* the id of this instance; 0 is no id

Init ==
    /\ cfg \in Configs
    /\ pc = "down" /\ id = 0 /\ ready = FALSE /\ wg = 0
    /\ serve = "off" /\ grpc = "open" /\ calls = 0
    /\ metrics = "off" /\ shut = FALSE
    /\ stop = [kind |-> "none", at |-> "none"]
    /\ exit = "none" /\ sock = FALSE /\ faults = 0

-----------------------------------------------------------------------------
(* The process ends; only the socket file stays. *)
Die(code) ==
    /\ pc' = "down" /\ id' = 0 /\ ready' = FALSE /\ wg' = 0
    /\ serve' = "off" /\ grpc' = "open" /\ calls' = 0
    /\ metrics' = "off" /\ shut' = FALSE
    /\ stop' = [kind |-> "none", at |-> "none"]
    /\ exit' = code

Fault == faults < MaxFaults /\ faults' = faults + 1

(* What main does not touch before it starts the goroutines. *)
Servers == <<wg, serve, grpc, calls, metrics, shut, stop>>

-----------------------------------------------------------------------------
(***************************************************************************)
(* main and handle, GetNodeMetadata, SetupLinodeDriver, Run                *)
(***************************************************************************)
Restart ==
    /\ pc = "down"
    /\ pc' = "boot" /\ exit' = "none"
    /\ UNCHANGED <<cfg, id, ready, Servers, sock, faults>>

(* NewLinodeClient, getAPIURLComponents: the URL must parse. *)
NewLinodeClient == cfg.url = "good"

(* handle, up to the client; the token is required. *)
Boot ==
    /\ pc = "boot"
    /\ IF cfg.token /\ NewLinodeClient
         THEN pc' = "service" /\ UNCHANGED <<id, ready, Servers, exit>>
         ELSE Die("error")
    /\ UNCHANGED <<cfg, sock, faults>>

(***************************************************************************)
(* GetNodeMetadata, steps 1 and 2: NewMetadataClient and GetMetadata.  An  *)
(* error of either means the API; an answer without an id does not.        *)
(***************************************************************************)
GetMetadata ==
    /\ pc = "service"
    /\ \/ cfg.service /\ pc' = "verify" /\ id' = Instance /\ UNCHANGED faults
       \/ cfg.service /\ pc' = "verify" /\ id' = 0 /\ Fault
       \/ cfg.service /\ pc' = "api" /\ Fault /\ UNCHANGED id
       \/ ~cfg.service /\ pc' = "api" /\ UNCHANGED <<id, faults>>
    /\ UNCHANGED <<cfg, ready, Servers, exit, sock>>

(* Step 3: the id in the file, then GetInstance *)
GetMetadataFromAPI ==
    /\ pc = "api"
    /\ \/ /\ cfg.idFile = "good"
          /\ pc' = "verify" /\ id' = Instance
          /\ UNCHANGED <<ready, Servers, exit, faults>>
       \/ cfg.idFile # "good" /\ Die("error") /\ UNCHANGED faults
       \/ cfg.idFile = "good" /\ Fault /\ Die("error")
    /\ UNCHANGED <<cfg, sock>>

(* Mutant: metadata without an id is taken. *)
validMetadata_Any == TRUE

(* Step 4 *)
validMetadata == id # 0

VerifyMetadata ==
    /\ pc = "verify"
    /\ IF validMetadata
         THEN pc' = "setup" /\ UNCHANGED <<id, ready, Servers, exit>>
         ELSE Die("error")
    /\ UNCHANGED <<cfg, sock, faults>>

(* At most MaxVolumeLabelPrefixLength characters, all of [0-9A-Za-z_-] *)
validPrefix == cfg.prefix = "good"

SetupLinodeDriver ==
    /\ pc = "setup"
    /\ IF validPrefix
         THEN pc' = "run" /\ UNCHANGED <<id, ready, Servers, exit>>
         ELSE Die("error")
    /\ UNCHANGED <<cfg, sock, faults>>

(* Mutant: Start does not count. *)
added_None == wg

(* wg.Add(1) *)
added == wg + 1

(* Run, up to the first goroutine of Start. *)
Run ==
    /\ pc = "run"
    /\ ready' = TRUE
    /\ wg' = added
    /\ serve' = "listen"
    /\ pc' = "start"
    /\ UNCHANGED <<cfg, id, grpc, calls, metrics, shut, stop, exit, sock, faults>>

(* ENABLE_METRICS that does not parse is logged, and off. *)
StartMetrics ==
    /\ pc = "start"
    /\ metrics' = IF cfg.metrics = "on" THEN "start" ELSE metrics
    /\ pc' = "wait"
    /\ UNCHANGED <<cfg, id, ready, wg, serve, grpc, calls, shut, stop, exit, sock, faults>>

(* Wait returns, Run returns, main exits. *)
Wait ==
    /\ pc = "wait" /\ wg = 0
    /\ Die("ok")
    /\ UNCHANGED <<cfg, sock, faults>>

-----------------------------------------------------------------------------
(***************************************************************************)
(* serve.  Whatever fails in it is fatal to the process.                   *)
(***************************************************************************)
(* Mutant: a socket file of an earlier process is left there. *)
leftover_Kept == sock

(* The socket file after os.Remove *)
leftover == FALSE

ServeListen ==
    /\ serve = "listen"
    /\ \/ /\ cfg.endpoint = "tcp" \/ (cfg.endpoint = "unix" /\ ~leftover)
          /\ serve' = "bound"
          /\ sock' = (cfg.endpoint = "unix")
          /\ UNCHANGED <<pc, id, ready, wg, grpc, calls, metrics, shut, stop, exit, faults>>
       \/ /\ cfg.endpoint = "other" \/ (cfg.endpoint = "unix" /\ leftover)
          /\ Die("fatal") /\ UNCHANGED <<sock, faults>>
       \/ Fault /\ Die("fatal") /\ UNCHANGED sock
    /\ UNCHANGED cfg

(* s.server is set; Serve of a server that was stopped before is an error. *)
ServeRun ==
    /\ serve = "bound"
    /\ IF grpc = "open"
         THEN /\ serve' = "serving"
              /\ UNCHANGED <<pc, id, ready, wg, grpc, calls, metrics, shut, stop, exit, sock>>
         ELSE Die("fatal") /\ sock' = FALSE
    /\ UNCHANGED <<cfg, faults>>

(* Serve returns nil after a stop: the goroutine ends, and counts nothing. *)
ServeReturn ==
    /\ serve = "serving" /\ grpc = "stopped"
    /\ serve' = "returned"
    /\ UNCHANGED <<cfg, pc, id, ready, wg, grpc, calls, metrics, shut, stop, exit, sock, faults>>

Serving == serve = "serving" /\ grpc = "open"

CallArrives ==
    /\ Serving /\ calls < MaxCalls
    /\ calls' = calls + 1
    /\ UNCHANGED <<cfg, pc, id, ready, wg, serve, grpc, metrics, shut, stop, exit, sock, faults>>

CallEnds ==
    /\ calls > 0
    /\ calls' = calls - 1
    /\ UNCHANGED <<cfg, pc, id, ready, wg, serve, grpc, metrics, shut, stop, exit, sock, faults>>

-----------------------------------------------------------------------------
(***************************************************************************)
(* startMetricsServer: the pointer is set, then ListenAndServe.  A port    *)
(* that cannot be had is fatal to the plugin; the one regular return of    *)
(* ListenAndServe, and so the one wg.Done, is after Shutdown or Close.     *)
(***************************************************************************)
MetricsNew ==
    /\ metrics = "start"
    /\ metrics' = "listen"
    /\ UNCHANGED <<cfg, pc, id, ready, wg, serve, grpc, calls, shut, stop, exit, sock, faults>>

MetricsListen ==
    /\ metrics = "listen" /\ ~shut
    /\ \/ /\ cfg.port /\ metrics' = "open"
          /\ UNCHANGED <<pc, id, ready, wg, serve, grpc, calls, shut, stop, exit, faults>>
       \/ ~cfg.port /\ Die("fatal") /\ UNCHANGED faults
       \/ cfg.port /\ Fault /\ Die("fatal")
    /\ UNCHANGED <<cfg, sock>>

(* Mutant: the goroutine does not count down. *)
doneMetrics_Not == wg

(* The deferred wg.Done *)
doneMetrics == wg - 1

MetricsClosed ==
    /\ metrics \in {"listen", "open"} /\ shut
    /\ metrics' = "closed"
    /\ wg' = doneMetrics
    /\ UNCHANGED <<cfg, pc, id, ready, serve, grpc, calls, shut, stop, exit, sock, faults>>

-----------------------------------------------------------------------------
(***************************************************************************)
(* Stop and ForceStop: the gRPC server first, then the metrics server.     *)
(* Each is reached through a pointer that its goroutine sets, without      *)
(* synchronisation: until the goroutine has gone on, Stop may still find   *)
(* nil, and a nil server is a panic.                                       *)
(***************************************************************************)
(* Mutant: the metrics server is stopped first. *)
firstStopped_Metrics == "metrics"

firstStopped == "grpc"

other(at) == IF at = "grpc" THEN "metrics" ELSE "grpc"

(* What Stop does after a part: the other one, or nothing more. *)
afterStop(at) == [stop EXCEPT !.at = IF at = firstStopped THEN other(at) ELSE "done"]

StopCalled(kind) ==
    /\ pc \in {"start", "wait"} /\ stop.kind = "none"
    /\ Fault
    /\ stop' = [kind |-> kind, at |-> firstStopped]
    /\ UNCHANGED <<cfg, pc, id, ready, wg, serve, grpc, calls, metrics, shut, exit, sock>>

serverMayBeNil == serve \in {"listen", "bound"}
serverMayBeSet == serve # "listen"

(* GracefulStop closes the listener, and its file, and lets calls finish;  *)
(* the Stop of grpc waits for nothing.                                     *)
StopGrpc ==
    /\ stop.at = "grpc"
    /\ \/ serverMayBeNil /\ Die("panic") /\ UNCHANGED sock
       \/ /\ serverMayBeSet /\ grpc = "open"
          /\ grpc' = IF stop.kind = "graceful" THEN "draining" ELSE "stopped"
          /\ sock' = IF serve = "serving" THEN FALSE ELSE sock
          /\ stop' = IF stop.kind = "graceful" THEN stop ELSE afterStop("grpc")
          /\ UNCHANGED <<pc, id, ready, wg, serve, calls, metrics, shut, exit>>
       \/ /\ grpc = "draining" /\ calls = 0
          /\ grpc' = "stopped"
          /\ stop' = afterStop("grpc")
          /\ UNCHANGED <<pc, id, ready, wg, serve, calls, metrics, shut, exit, sock>>
    /\ UNCHANGED <<cfg, faults>>

(* Shutdown or Close of the metrics server *)
StopMetrics ==
    /\ stop.at = "metrics"
    /\ \/ metrics \in {"off", "start", "listen"} /\ Die("panic")
       \/ /\ metrics \in {"listen", "open"}
          /\ shut' = TRUE
          /\ stop' = afterStop("metrics")
          /\ UNCHANGED <<pc, id, ready, wg, serve, grpc, calls, metrics, exit>>
    /\ UNCHANGED <<cfg, sock, faults>>

-----------------------------------------------------------------------------
(* A signal, the kernel, or a panic in a handler. *)
Kill ==
    /\ pc # "down"
    /\ Fault
    /\ Die("killed")
    /\ UNCHANGED <<cfg, sock>>

Main ==
    \/ Boot \/ GetMetadata \/ GetMetadataFromAPI \/ VerifyMetadata
    \/ SetupLinodeDriver \/ Run \/ StartMetrics \/ Wait

Serve == ServeListen \/ ServeRun \/ ServeReturn

Metrics == MetricsNew \/ MetricsListen \/ MetricsClosed

Stop == StopGrpc \/ StopMetrics

Next ==
    \/ Restart \/ Main \/ Serve \/ Metrics \/ Stop
    \/ CallArrives \/ CallEnds \/ Kill
    \/ \E kind \in {"graceful", "force"} : StopCalled(kind)

(***************************************************************************)
(* Fairness: the container is restarted, main and the goroutines run on,   *)
(* and every call ends (EveryCallEnds of ControllerServer).                *)
(***************************************************************************)
Fairness ==
    /\ WF_vars(Restart) /\ WF_vars(Main) /\ WF_vars(Serve)
    /\ WF_vars(Metrics) /\ WF_vars(Stop) /\ WF_vars(CallEnds)

Spec == Init /\ [][Next]_vars /\ Fairness

-----------------------------------------------------------------------------
(***************************************************************************)
(* Types; the WaitGroup never goes below zero (a panic) and is zero only   *)
(* before Start and after the metrics server has closed.                   *)
(***************************************************************************)
TypeOK ==
    /\ cfg \in Configs
    /\ pc \in {"down", "boot", "service", "api", "verify", "setup", "run", "start", "wait"}
    /\ id \in {0, Instance} /\ ready \in BOOLEAN
    /\ wg \in 0 .. 1
    /\ wg = 1 <=> pc \in {"start", "wait"} /\ metrics # "closed"
    /\ serve \in {"off", "listen", "bound", "serving", "returned"}
    /\ grpc \in {"open", "draining", "stopped"}
    /\ calls \in 0 .. MaxCalls
    /\ metrics \in {"off", "start", "listen", "open", "closed"}
    /\ shut \in BOOLEAN
    /\ stop \in [kind : {"none", "graceful", "force"},
                 at : {"none", "grpc", "metrics", "done"}]
    /\ exit \in {"none", "ok", "error", "fatal", "panic", "killed"}
    /\ sock \in BOOLEAN
    /\ faults \in 0 .. MaxFaults

(* Probe of the identity service: the answer to a caller. *)
Probe == ready

(***************************************************************************)
(* A call finds a plugin that is completely set up: it knows its instance, *)
(* its configuration was checked, and Probe never says "not ready" to      *)
(* anyone who can ask.                                                     *)
(***************************************************************************)
ServesOnlySetUp ==
    Serving \/ calls > 0 =>
      /\ id = Instance /\ Probe
      /\ cfg.token /\ cfg.url = "good" /\ cfg.prefix = "good" /\ cfg.endpoint # "other"

(***************************************************************************)
(* Wait "waits for the service to stop": main returns from Run only when   *)
(* the gRPC server has been stopped.                                       *)
(***************************************************************************)
WaitsForStop == [][exit' = "ok" /\ exit # "ok" => grpc = "stopped"]_vars

(***************************************************************************)
(* Stop "stops the service gracefully": no process that ends because of    *)
(* it, with or without the panic, takes a call with it that is being       *)
(* served.                                                                 *)
(***************************************************************************)
StopFinishesCalls ==
    [][exit' \in {"ok", "panic"} /\ exit = "none" /\ stop.kind = "graceful" => calls = 0]_vars

(* The configuration is one the plugin can work with. *)
Usable ==
    /\ cfg.token /\ cfg.url = "good" /\ cfg.prefix = "good" /\ cfg.endpoint # "other"
    /\ cfg.service \/ cfg.idFile = "good"
    /\ cfg.metrics = "on" => cfg.port

(***************************************************************************)
(* With a usable configuration the plugin always comes to serve again,     *)
(* whatever ended it, and whatever socket file the last process left.      *)
(***************************************************************************)
AlwaysServesAgain == Usable => []<>Serving

(***************************************************************************)
(* A Stop or ForceStop of a plugin that serves, with its metrics server    *)
(* open, lets main return by itself: the gRPC server drains, the metrics   *)
(* server closes and lowers the WaitGroup's counter, and Wait returns;     *)
(* nothing but a kill may be quicker.  Without a metrics server, which is  *)
(* the default, this is not so: nothing lowers the counter, and Stop       *)
(* dereferences the nil server and panics (StopMetrics).                   *)
(***************************************************************************)
StopReturns ==
    stop.kind # "none" /\ serve = "serving" /\ metrics = "open" ~> exit \in {"ok", "killed"}

=============================================================================
