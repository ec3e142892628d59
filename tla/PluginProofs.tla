---------------------------- MODULE PluginProofs ----------------------------
(***************************************************************************)
(* Proofs about Plugin, for every set of configurations and every bound.   *)
(* The argument is how far each of the concurrent parts can have come when *)
(* another one is at a given place: the goroutines run only after main has *)
(* checked everything, and whatever Stop does to the metrics server comes  *)
(* after the gRPC server has stopped.                                      *)
(***************************************************************************)
EXTENDS Plugin, TLAPS

(* What main has established when it is at pc. *)
Checked ==
    /\ pc \in {"service", "api", "verify", "setup", "run", "start", "wait"} =>
         cfg.token /\ cfg.url = "good"
    /\ pc \in {"setup", "run", "start", "wait"} => id = Instance
    /\ pc \in {"run", "start", "wait"} => cfg.prefix = "good"
    /\ pc \in {"start", "wait"} => ready

(* The goroutines, and the calls, live between Start and the end. *)
Started ==
    /\ serve # "off" <=> pc \in {"start", "wait"}
    /\ metrics # "off" => pc = "wait"
    /\ serve \in {"bound", "serving", "returned"} => cfg.endpoint # "other"
    /\ calls > 0 => serve \in {"serving", "returned"}

(* Stop goes from the gRPC server, which it drains, to the metrics server. *)
StopOrder ==
    /\ stop.kind # "none" => pc \in {"start", "wait"}
    /\ stop.kind = "none" <=> stop.at = "none"
    /\ grpc = "draining" => stop.at = "grpc"
    /\ grpc = "stopped" <=> stop.at \in {"metrics", "done"}
    /\ shut => stop.at = "done"
    /\ metrics = "closed" => shut
    /\ stop.kind = "graceful" /\ grpc = "stopped" => calls = 0

IInv == TypeOK /\ Checked /\ Started /\ StopOrder

-----------------------------------------------------------------------------
USE PluginAssumption DEF Instance

(* The configuration and the faults, which every step treats alike. *)
LEMMA Faults ==
    ASSUME TypeOK, Fault
    PROVE  faults' \in 0 .. MaxFaults
BY DEF TypeOK, Fault

(* A process that has ended, in whatever way (Die), is one that has not    *)
(* started: nothing of it is left but the socket file.                     *)
LEMMA DieInv ==
    ASSUME IInv, UNCHANGED cfg, sock' \in BOOLEAN, faults' \in 0 .. MaxFaults,
           NEW code \in {"ok", "error", "fatal", "panic", "killed"}, Die(code)
    PROVE  IInv'
<1> USE DEF Die
<1>1. TypeOK'
  <2>1. 0 \in 0 .. MaxCalls OBVIOUS
  <2>3. exit' \in {"none", "ok", "error", "fatal", "panic", "killed"} OBVIOUS
  <2>4. stop' \in [kind : {"none", "graceful", "force"},
                   at : {"none", "grpc", "metrics", "done"}]
    OBVIOUS
  <2>5. wg' \in 0 .. 1 /\ (wg' = 1 <=> pc' \in {"start", "wait"} /\ metrics' # "closed")
    OBVIOUS
  <2>6. ready' \in BOOLEAN /\ shut' \in BOOLEAN /\ id' \in {0, Instance}
    OBVIOUS
  <2>7. cfg' \in Configs BY DEF IInv, TypeOK
  <2> QED BY <2>1, <2>3, <2>4, <2>5, <2>6, <2>7 DEF TypeOK
<1>2. Checked' /\ Started' /\ StopOrder' BY DEF Checked, Started, StopOrder
<1> QED BY <1>1, <1>2 DEF IInv

(* main, up to Run: each stage adds what it has checked, or ends the       *)
(* process.                                                                *)
LEMMA MainInv ==
    ASSUME IInv, Restart \/ Main
    PROVE  IInv'
<1> USE DEF IInv, TypeOK, Checked, Started, StopOrder, Servers
<1>1. CASE Restart BY <1>1 DEF Restart
<1>2. CASE Boot
  <2>1. CASE cfg.token /\ NewLinodeClient BY <1>2, <2>1 DEF Boot, NewLinodeClient
  <2>2. CASE ~(cfg.token /\ NewLinodeClient) BY <1>2, <2>2, DieInv DEF Boot
  <2> QED BY <2>1, <2>2
<1>3. CASE GetMetadata BY <1>3 DEF GetMetadata, Fault
<1>4. CASE GetMetadataFromAPI
  <2>1. CASE Die("error") BY <1>4, <2>1, DieInv, Faults DEF GetMetadataFromAPI
  <2>2. CASE ~Die("error") BY <1>4, <2>2 DEF GetMetadataFromAPI
  <2> QED BY <2>1, <2>2
<1>5. CASE VerifyMetadata
  <2>1. CASE validMetadata BY <1>5, <2>1 DEF VerifyMetadata, validMetadata
  <2>2. CASE ~validMetadata BY <1>5, <2>2, DieInv DEF VerifyMetadata
  <2> QED BY <2>1, <2>2
<1>6. CASE SetupLinodeDriver
  <2>1. CASE validPrefix BY <1>6, <2>1 DEF SetupLinodeDriver, validPrefix
  <2>2. CASE ~validPrefix BY <1>6, <2>2, DieInv DEF SetupLinodeDriver
  <2> QED BY <2>1, <2>2
<1>7. CASE Run BY <1>7 DEF Run, added
<1>8. CASE StartMetrics BY <1>8 DEF StartMetrics
<1>9. CASE Wait BY <1>9, DieInv DEF Wait
<1> QED
  BY <1>1, <1>2, <1>3, <1>4, <1>5, <1>6, <1>7, <1>8, <1>9 DEF Main

(* serve and the calls it lets in.                                         *)
LEMMA ServeInv ==
    ASSUME IInv, Serve \/ CallArrives \/ CallEnds
    PROVE  IInv'
<1> USE DEF IInv, TypeOK, Checked, Started, StopOrder
<1>1. CASE ServeListen
  <2>1. CASE Die("fatal") BY <1>1, <2>1, DieInv, Faults DEF ServeListen
  <2>2. CASE ~Die("fatal")
    <3>1. TypeOK' BY <1>1, <2>2 DEF ServeListen
    <3>2. Checked' BY <1>1, <2>2 DEF ServeListen
    <3>3. Started' BY <1>1, <2>2 DEF ServeListen
    <3>4. StopOrder' BY <1>1, <2>2 DEF ServeListen
    <3> QED BY <3>1, <3>2, <3>3, <3>4
  <2> QED BY <2>1, <2>2
<1>2. CASE ServeRun
  <2>1. CASE grpc = "open" BY <1>2, <2>1 DEF ServeRun
  <2>2. CASE grpc # "open" BY <1>2, <2>2, DieInv DEF ServeRun
  <2> QED BY <2>1, <2>2
<1>3. CASE ServeReturn BY <1>3 DEF ServeReturn
<1>4. CASE CallArrives BY <1>4 DEF CallArrives, Serving
<1>5. CASE CallEnds BY <1>5 DEF CallEnds
<1> QED BY <1>1, <1>2, <1>3, <1>4, <1>5 DEF Serve

(* The metrics server: its one wg.Done is for the one wg.Add of Start.     *)
LEMMA MetricsInv ==
    ASSUME IInv, Metrics
    PROVE  IInv'
<1> USE DEF IInv, TypeOK, Checked, Started, StopOrder
<1>1. CASE MetricsNew BY <1>1 DEF MetricsNew
<1>2. CASE MetricsListen
  <2>1. CASE Die("fatal") BY <1>2, <2>1, DieInv, Faults DEF MetricsListen
  <2>2. CASE ~Die("fatal")
    <3>1. /\ metrics = "listen" /\ ~shut /\ metrics' = "open"
          /\ UNCHANGED <<cfg, pc, id, ready, wg, serve, grpc, calls, shut, stop, exit, sock, faults>>
      BY <1>2, <2>2 DEF MetricsListen
    <3>2. TypeOK' BY <3>1
    <3>3. Checked' /\ Started' BY <3>1
    <3>4. StopOrder' BY <3>1
    <3> QED BY <3>1, <3>2, <3>3, <3>4
  <2> QED BY <2>1, <2>2
<1>3. CASE MetricsClosed BY <1>3 DEF MetricsClosed, doneMetrics
<1> QED BY <1>1, <1>2, <1>3 DEF Metrics

(* Stop and ForceStop.                                                     *)
LEMMA StopInv ==
    ASSUME IInv, Stop \/ \E kind \in {"graceful", "force"} : StopCalled(kind)
    PROVE  IInv'
<1> USE DEF IInv, TypeOK, Checked, Started, StopOrder, firstStopped
<1>1. CASE StopGrpc
  <2>1. CASE Die("panic") BY <1>1, <2>1, DieInv DEF StopGrpc
  <2>2. CASE ~Die("panic")
    <3>1. TypeOK' BY <1>1, <2>2 DEF StopGrpc, serverMayBeSet, afterStop, other
    <3>2. Checked' BY <1>1, <2>2 DEF StopGrpc, serverMayBeSet, afterStop, other
    <3>3. Started' BY <1>1, <2>2 DEF StopGrpc, serverMayBeSet, afterStop, other
    <3>4. StopOrder'
      <4>1. CASE grpc = "open" /\ stop.kind = "graceful"
        <5>1. /\ stop.at = "grpc" /\ grpc' = "draining"
              /\ UNCHANGED <<pc, calls, metrics, shut, stop>>
          BY <1>1, <2>2, <4>1 DEF StopGrpc
        <5> QED BY <4>1, <5>1
      <4>2. CASE grpc = "open" /\ stop.kind # "graceful"
        <5>1. /\ stop.at = "grpc" /\ grpc' = "stopped"
              /\ stop' = [stop EXCEPT !.at = "metrics"]
              /\ UNCHANGED <<pc, calls, metrics, shut>>
          BY <1>1, <2>2, <4>2 DEF StopGrpc, afterStop, other
        <5> QED BY <4>2, <5>1
      <4>3. CASE grpc = "draining"
        BY <1>1, <2>2, <4>3 DEF StopGrpc, afterStop, other
      <4> QED BY <1>1, <2>2, <4>1, <4>2, <4>3 DEF StopGrpc
    <3> QED BY <3>1, <3>2, <3>3, <3>4
  <2> QED BY <2>1, <2>2
<1>2. CASE StopMetrics
  <2>1. CASE Die("panic") BY <1>2, <2>1, DieInv DEF StopMetrics
  <2>2. CASE ~Die("panic") BY <1>2, <2>2 DEF StopMetrics, afterStop, other
  <2> QED BY <2>1, <2>2
<1>3. ASSUME NEW kind \in {"graceful", "force"}, StopCalled(kind)
      PROVE  IInv'
  BY <1>3 DEF StopCalled, Fault
<1> QED BY <1>1, <1>2, <1>3 DEF Stop

(* Every step keeps the invariant. *)
LEMMA NextInv ==
    ASSUME IInv, [Next]_vars
    PROVE  IInv'
<1>1. CASE Kill BY <1>1, DieInv, Faults DEF Kill, IInv, TypeOK
<1>2. CASE UNCHANGED vars
  BY <1>2 DEF vars, IInv, TypeOK, Checked, Started, StopOrder
<1> QED BY <1>1, <1>2, MainInv, ServeInv, MetricsInv, StopInv DEF Next

(* The inductive invariant holds from the first state of a process on.     *)
LEMMA Inductive == Spec => []IInv
<1>1. Init => IInv
  <2> USE DEF Init
  <2>1. Init => 0 \in 0 .. MaxCalls /\ 0 \in 0 .. MaxFaults OBVIOUS
  <2>2. Init => stop \in [kind : {"none", "graceful", "force"},
                         at : {"none", "grpc", "metrics", "done"}]
    OBVIOUS
  <2>3. Init => wg \in 0 .. 1 /\ (wg = 1 <=> pc \in {"start", "wait"} /\ metrics # "closed")
    OBVIOUS
  <2>4. Init => ready \in BOOLEAN /\ shut \in BOOLEAN /\ sock \in BOOLEAN /\ id \in {0, Instance}
    OBVIOUS
  <2>5. Init => TypeOK BY <2>1, <2>2, <2>3, <2>4 DEF TypeOK
  <2>6. Init => Checked /\ Started /\ StopOrder BY DEF Checked, Started, StopOrder
  <2> QED BY <2>5, <2>6 DEF IInv
<1> QED BY <1>1, NextInv, PTL DEF Spec

-----------------------------------------------------------------------------
(***************************************************************************)
(* TypeOK for every configuration: in particular wg.Done is never called   *)
(* once too often, and the counter is zero only before Start and after the *)
(* metrics server has closed.                                              *)
(***************************************************************************)
THEOREM PluginTypeCorrect == Spec => []TypeOK
BY Inductive, PTL DEF IInv

(***************************************************************************)
(* Whoever can call the plugin finds it completely set up: checked         *)
(* configuration, known instance, Probe that says ready.                   *)
(***************************************************************************)
THEOREM SetUpBeforeServing == Spec => []ServesOnlySetUp
<1>1. IInv => ServesOnlySetUp
  BY DEF IInv, TypeOK, Checked, Started, ServesOnlySetUp, Serving, Probe
<1> QED BY <1>1, Inductive, PTL

(***************************************************************************)
(* main leaves Wait only after the gRPC server was stopped: the one        *)
(* wg.Done is behind Shutdown or Close, which Stop comes to last.          *)
(***************************************************************************)
THEOREM WaitReturnsAfterStop == Spec => WaitsForStop
<1>1. ASSUME IInv, [Next]_vars, exit' = "ok", exit # "ok"
      PROVE  grpc = "stopped"
  <2>1. Wait
    BY <1>1 DEF Next, vars, Restart, Main, Boot, GetMetadata, GetMetadataFromAPI,
      VerifyMetadata, SetupLinodeDriver, Run, StartMetrics, Serve, ServeListen,
      ServeRun, ServeReturn, Metrics, MetricsNew, MetricsListen, MetricsClosed,
      Stop, StopGrpc, StopMetrics, StopCalled, CallArrives, CallEnds, Kill, Die
  <2> QED BY <1>1, <2>1 DEF Wait, IInv, TypeOK, StopOrder
<1>2. IInv /\ [Next]_vars => [exit' = "ok" /\ exit # "ok" => grpc = "stopped"]_vars
  BY <1>1
<1> QED BY <1>2, Inductive, PTL DEF Spec, WaitsForStop

(***************************************************************************)
(* A graceful Stop never costs a call: neither the end of the process nor  *)
(* the panic on a server that is not set yet finds one being served.       *)
(***************************************************************************)
THEOREM StopLosesNoCall == Spec => StopFinishesCalls
<1>1. ASSUME IInv, [Next]_vars, exit' \in {"ok", "panic"}, exit = "none",
             stop.kind = "graceful"
      PROVE  calls = 0
  <2>1. \/ Wait
        \/ StopGrpc /\ Die("panic")
        \/ StopMetrics
    BY <1>1 DEF Next, vars, Restart, Main, Boot, GetMetadata, GetMetadataFromAPI,
      VerifyMetadata, SetupLinodeDriver, Run, StartMetrics, Serve, ServeListen,
      ServeRun, ServeReturn, Metrics, MetricsNew, MetricsListen, MetricsClosed,
      Stop, StopGrpc, StopCalled, CallArrives, CallEnds, Kill, Die
  <2>2. CASE Wait BY <1>1, <2>2 DEF Wait, IInv, TypeOK, StopOrder
  <2>3. CASE StopGrpc /\ Die("panic")
    BY <1>1, <2>3 DEF StopGrpc, serverMayBeNil, Die, IInv, TypeOK, Started
  <2>4. CASE StopMetrics BY <1>1, <2>4 DEF StopMetrics, IInv, TypeOK, StopOrder
  <2> QED BY <2>1, <2>2, <2>3, <2>4
<1>2. IInv /\ [Next]_vars =>
        [exit' \in {"ok", "panic"} /\ exit = "none" /\ stop.kind = "graceful" => calls = 0]_vars
  BY <1>1
<1> QED BY <1>2, Inductive, PTL DEF Spec, StopFinishesCalls

=============================================================================
