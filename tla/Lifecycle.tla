----------------------------- MODULE Lifecycle ------------------------------
(***************************************************************************)
(* A volume on its way between two nodes: the controller service and two   *)
(* node services, put together the way Kubernetes uses them.               *)
(*                                                                         *)
(* The controller is VolumeAttachment, which ControllerServer is shown to  *)
(* implement; each node is NodeServer with a host, a plugin process and a  *)
(* kubelet of its own.  What they share is the volume: the device is on    *)
(* the node the controller attached it to, and what one node wrote on it   *)
(* the other one finds.                                                    *)
(*                                                                         *)
(* The CO is what joins them.  `want' is where the scheduler has put the   *)
(* pods that use a volume.  The attach/detach controller publishes a       *)
(* volume to that node once no other node may have it, and unpublishes it  *)
(* from any other once kubelet there is done with it; kubelet stages and   *)
(* publishes only what the controller has answered OK for.                 *)
(*                                                                         *)
(* A kubelet may give up a call that takes too long.  The plugin then      *)
(* still finishes it, at any later point, and neither kubelet nor the      *)
(* attach/detach controller knows.                                         *)
(***************************************************************************)
EXTENDS Integers, Sequences

CONSTANTS
    NodeA, NodeB,
    Vols, Pods, Procs, Mappers, Profiles, Requests, Staging, Host, None,
    MaxStack, MaxFaults,       \* as in NodeServer
    MaxMoves                   \* bound on moves of pods to the other node

Nodes == {NodeA, NodeB}

VARIABLES
    want,         \* want[v]: the node of the pods that use v
    moves,        \* moves of pods so far
    where, va,    \* of the controller
    prof, disk,   \* of the volumes
    faults,
    mapsA, mntA, hA, muxA, coA, pubA, astrayA,    \* of one node
    mapsB, mntB, hB, muxB, coB, pubB, astrayB     \* and of the other

nodeA == <<mapsA, mntA, hA, muxA, coA, pubA, astrayA>>
nodeB == <<mapsB, mntB, hB, muxB, coB, pubB, astrayB>>

scheduler == <<want, moves>>
controller == <<where, va>>
volumes == <<prof, disk, faults>>

vars == <<scheduler, controller, volumes, nodeA, nodeB>>

AttachedTo(n) == {v \in Vols : where[v] = n}

C == INSTANCE VolumeAttachment WITH Ids <- Vols

A == INSTANCE NodeServer WITH
       attached <- AttachedTo(NodeA), maps <- mapsA, mnt <- mntA, h <- hA,
       mux <- muxA, co <- coA, pub <- pubA, astray <- astrayA

B == INSTANCE NodeServer WITH
       attached <- AttachedTo(NodeB), maps <- mapsB, mnt <- mntB, h <- hB,
       mux <- muxB, co <- coB, pub <- pubB, astray <- astrayB

ASSUME LifecycleAssumption ==
    /\ NodeA # NodeB /\ None \notin Nodes /\ MaxMoves \in Nat
    /\ A!NodeAssumption

Init ==
    /\ want \in [Vols -> Nodes] /\ moves = 0
    /\ C!Init /\ A!Init /\ B!Init

-----------------------------------------------------------------------------
(* The pods of a volume are moved to the other node. *)
Move(v) ==
    /\ moves < MaxMoves
    /\ moves' = moves + 1
    /\ want' = [want EXCEPT ![v] = IF @ = NodeA THEN NodeB ELSE NodeA]
    /\ UNCHANGED <<controller, volumes, nodeA, nodeB>>

(* kubelet counts v as unstaged on the node, and waits for no call about   *)
(* it.  Of the calls it has given up nobody knows.                         *)
DoneWith(v, n) ==
    IF n = NodeA THEN coA[v] = "none" /\ \A p \in Procs : A!About(p, v) => hA[p].late
                 ELSE coB[v] = "none" /\ \A p \in Procs : B!About(p, v) => hB[p].late

(* The attach/detach controller *)
CallController(v, n) ==
    /\ \/ want[v] = n /\ C!Publish(v, n)
       \/ want[v] # n /\ DoneWith(v, n) /\ C!Unpublish(v, n)
    /\ UNCHANGED <<scheduler, volumes, nodeA, nodeB>>

(* No staging on the node, not even one that was given up, is between the  *)
(* lookup of the device of v and its answer.  As in NodeServer, a device   *)
(* does not go in the middle of one.                                       *)
Untouched(v, n) ==
    IF n = NodeA THEN \A p \in Procs : A!About(p, v) => hA[p].pc \notin A!OnDevice
                 ELSE \A p \in Procs : B!About(p, v) => hB[p].pc \notin B!OnDevice

(* The controller service and the cloud *)
Arrive(v, n) == C!Attach(v, n) /\ UNCHANGED <<scheduler, volumes, nodeA, nodeB>>
Leave(v, n) ==
    /\ Untouched(v, n) /\ C!Detach(v, n)
    /\ UNCHANGED <<scheduler, volumes, nodeA, nodeB>>
Answer(v, n) ==
    /\ C!Published(v, n) \/ C!Unpublished(v, n)
    /\ UNCHANGED <<scheduler, volumes, nodeA, nodeB>>

(***************************************************************************)
(* kubelet of node n: it sets up what the pod that is to run there needs   *)
(* and the controller has attached, tears down what no pod there does, and *)
(* finishes a teardown it has begun.                                       *)
(***************************************************************************)
Kubelet(r, n, begun) ==
    IF r.op \in {"stage", "publish"}
      THEN want[r.vol] = n /\ va[r.vol][n] = "ok"
      ELSE want[r.vol] # n \/ begun

StepsOfA == UNCHANGED <<scheduler, controller, nodeB>>
StepsOfB == UNCHANGED <<scheduler, controller, nodeA>>

CallA(p, r) == StepsOfA /\ Kubelet(r, NodeA, A!Wanted(r)) /\ A!Call(p, r)
CallB(p, r) == StepsOfB /\ Kubelet(r, NodeB, B!Wanted(r)) /\ B!Call(p, r)

(* What the plugin of a node does once it was called. *)
RunA(p) == StepsOfA /\ (A!Lock(p) \/ A!HandlerStep(p) \/ A!Return(p))
RunB(p) == StepsOfB /\ (B!Lock(p) \/ B!HandlerStep(p) \/ B!Return(p))

(* Something on the host fails, or kubelet gives the call up. *)
FailA(p) == StepsOfA /\ (A!HostError(p) \/ A!Abandon(p))
FailB(p) == StepsOfB /\ (B!HostError(p) \/ B!Abandon(p))

(* The plugin dies, or the node does. *)
DieA == StepsOfA /\ (A!Crash \/ A!Reboot)
DieB == StepsOfB /\ (B!Crash \/ B!Reboot)

Next ==
    \/ \E v \in Vols : Move(v)
    \/ \E v \in Vols, n \in Nodes :
         CallController(v, n) \/ Arrive(v, n) \/ Leave(v, n) \/ Answer(v, n)
    \/ \E p \in Procs, r \in Requests : CallA(p, r) \/ CallB(p, r)
    \/ \E p \in Procs : RunA(p) \/ RunB(p) \/ FailA(p) \/ FailB(p)
    \/ DieA \/ DieB

Spec == Init /\ [][Next]_vars

(***************************************************************************)
(* Fairness.  Of the controller: what ControllerServer shows as            *)
(* PublishConverges and UnpublishConverges.  Of a node: that of            *)
(* NodeServer, one handler at a time.  Of the CO: it asks for something    *)
(* that is missing, and again if that fails.                               *)
(***************************************************************************)
Missing(r, staging, published) ==
    CASE r.op = "stage" -> staging[r.vol] # "staged"
      [] r.op = "publish" -> published[r.vol][r.pod] # "published"
      [] OTHER -> TRUE

Fairness ==
    /\ \A v \in Vols, n \in Nodes :
         /\ WF_vars(CallController(v, n) /\ va[v][n] # "unpub")
         /\ WF_vars(va[v][n] = "pub" /\ Arrive(v, n))
         /\ WF_vars(va[v][n] = "unpub" /\ Leave(v, n))
         /\ SF_vars(Answer(v, n))
    /\ \A p \in Procs : WF_vars(RunA(p)) /\ WF_vars(RunB(p))
    /\ SF_vars(\E p \in Procs, r \in Requests : Missing(r, coA, pubA) /\ CallA(p, r))
    /\ SF_vars(\E p \in Procs, r \in Requests : Missing(r, coB, pubB) /\ CallB(p, r))

FairSpec == Spec /\ Fairness

-----------------------------------------------------------------------------
(* Something of the node is on the device of v: a mount or a mapping. *)
UsedOn(v, n) ==
    IF n = NodeA THEN A!InUse(v) \/ \E m \in Mappers : mapsA[m] = v
                 ELSE B!InUse(v) \/ \E m \in Mappers : mapsB[m] = v

(* The volumes about which the kubelet of a node was not told the truth:   *)
(* it gave up a call, or a failure to close a mapping was answered OK.     *)
Astray(n) == IF n = NodeA THEN astrayA ELSE astrayB

(***************************************************************************)
(* A volume is mounted, or open, only on the node it is attached to: it is *)
(* never taken away from under a file system, and no two nodes ever have   *)
(* the same file system mounted.  The exceptions are those of              *)
(* NothingLeftBehind: what a call that was given up, or a close that       *)
(* failed unreported, has left on a node is there when the volume goes.    *)
(***************************************************************************)
UsedOnlyWhereAttached ==
    \A v \in Vols, n \in Nodes : UsedOn(v, n) => where[v] = n \/ v \in Astray(n)

(***************************************************************************)
(* What a pod wrote on one node it finds on the other: no staging on the   *)
(* next node formats what the last one left, and no call that was given up *)
(* on the last one does, whatever it has left there.                       *)
(***************************************************************************)
DataSurvivesMoves ==
    [][\A v \in Vols : disk[v] \in {"fs", "luksfs"} => disk'[v] = disk[v]]_vars

(* The pods that use v run on n and see their volume. *)
RunsOn(v, n) ==
    IF n = NodeA THEN \A t \in Pods : pubA[v][t] = "published" /\ A!Top(v, t) = v
                 ELSE \A t \in Pods : pubB[v][t] = "published" /\ B!Top(v, t) = v

(***************************************************************************)
(* A volume follows its pods: it is torn down on the old node, detached,    *)
(* attached, set up on the new one and shown to the pods, through crashes  *)
(* and reboots of either node at any point, unless they move on, a LUKS    *)
(* header was left without a key, or something of the volume has gone      *)
(* astray on a node: then an unstaging may fail for ever.                  *)
(***************************************************************************)
VolumeFollowsPods ==
    \A v \in Vols, n \in Nodes :
      want[v] = n ~> \/ RunsOn(v, n) \/ want[v] # n \/ disk[v] = "header"
                     \/ v \in astrayA \cup astrayB

=============================================================================
