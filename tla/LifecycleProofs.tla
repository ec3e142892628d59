--------------------------- MODULE LifecycleProofs --------------------------
(***************************************************************************)
(* Proofs about Lifecycle, for any two nodes, any volumes, pods and calls, *)
(* those that kubelet gives up included, and any number of moves, crashes  *)
(* and reboots.                                                            *)
(*                                                                         *)
(* They are put together from what is proved of the parts: the lemmas of   *)
(* VolumeAttachmentProofs about the controller, and those of               *)
(* NodeServerProofs about either node.  A node cannot be taken as a black  *)
(* box, because the devices are shared: what a handler saw of a device     *)
(* stays so only if the other node does not write on it.  What joins the   *)
(* parts is Bridge: a kubelet has to do with a volume only while the CO    *)
(* has an OK of the controller for it, which the controller gives for one  *)
(* node at a time and with the volume there.  That bounds what kubelet     *)
(* knows of.  A call it has given up may work on after the CO has moved    *)
(* on; but every staging, late or not, works on a device that is there     *)
(* (Grounded), and a device is in one place, so each node leaves the       *)
(* other's devices alone.                                                  *)
(***************************************************************************)
EXTENDS Lifecycle, TLAPS

OfC == INSTANCE VolumeAttachmentProofs WITH Ids <- Vols

OfA == INSTANCE NodeServerProofs WITH
         attached <- AttachedTo(NodeA), maps <- mapsA, mnt <- mntA, h <- hA,
         mux <- muxA, co <- coA, pub <- pubA, astray <- astrayA

OfB == INSTANCE NodeServerProofs WITH
         attached <- AttachedTo(NodeB), maps <- mapsB, mnt <- mntB, h <- hB,
         mux <- muxB, co <- coB, pub <- pubB, astray <- astrayB

Bridge ==
    \A v \in Vols :
      /\ OfA!Engaged(v) => va[v][NodeA] = "ok"
      /\ OfB!Engaged(v) => va[v][NodeB] = "ok"

IInv == OfC!Inv /\ OfA!NodeInv /\ OfB!NodeInv /\ Bridge

(* Labels are the names mappings are opened under, and no two volumes have *)
(* the same.                                                               *)
NamesFit == OfA!LabelIsMapper /\ OfA!MappersDiffer

-----------------------------------------------------------------------------
(* What is assumed of the nodes is what the lemmas about them assume. *)
LEMMA Assumed == OfA!NodeAssumption /\ OfB!NodeAssumption
  BY LifecycleAssumption DEF A!NodeAssumption, OfA!NodeAssumption, OfB!NodeAssumption,
     A!Profile, OfA!Profile, OfB!Profile, A!Request, OfA!Request, OfB!Request,
     A!Ops, OfA!Ops, OfB!Ops

(* The actions of node A are those the lemmas are about. *)
LEMMA SameA ==
    /\ A!Init => OfA!Init
    /\ \A p \in Procs, r \in Requests : A!Call(p, r) => OfA!Call(p, r)
    /\ \A p \in Procs :
         /\ A!Lock(p) => OfA!Lock(p)
         /\ A!HandlerStep(p) => OfA!HandlerStep(p)
         /\ A!Return(p) => OfA!Return(p)
         /\ A!HostError(p) => OfA!HostError(p)
         /\ A!Abandon(p) => OfA!Abandon(p)
    /\ A!Crash => OfA!Crash
    /\ A!Reboot => OfA!Reboot
<1>1. A!Init => OfA!Init
  BY DEF A!Idle, OfA!Idle, A!Init, OfA!Init, A!NoRequest, OfA!NoRequest, A!Paths,
         OfA!Paths
<1>2. ASSUME NEW p \in Procs, NEW r \in Requests, A!Call(p, r) PROVE OfA!Call(p, r)
  BY <1>2 DEF A!About, OfA!About, A!Allowed, OfA!Allowed, A!At, OfA!At, A!Busy, OfA!Busy,
         A!Call, OfA!Call, A!Wanted, OfA!Wanted, A!host, OfA!host
<1>3. ASSUME NEW p \in Procs, A!Lock(p) PROVE OfA!Lock(p)
  BY <1>3 DEF A!At, OfA!At, A!FirstStep, OfA!FirstStep, A!Local, OfA!Local, A!Lock,
         OfA!Lock, A!Lockable, OfA!Lockable, A!Reply, OfA!Reply
<1>4. ASSUME NEW p \in Procs, A!HandlerStep(p) PROVE OfA!HandlerStep(p)
  BY <1>4 DEF A!Activate, OfA!Activate, A!At, OfA!At, A!Die, OfA!Die, A!Formatted,
         OfA!Formatted, A!Goto, OfA!Goto, A!HandlerStep, OfA!HandlerStep, A!Idle,
         OfA!Idle, A!InUse, OfA!InUse, A!IsMountPoint, OfA!IsMountPoint, A!Local,
         OfA!Local, A!LuksActivate, OfA!LuksActivate, A!LuksFormat, OfA!LuksFormat,
         A!LuksKeyslot, OfA!LuksKeyslot, A!LuksOpen, OfA!LuksOpen, A!MountOn,
         OfA!MountOn, A!NoRequest, OfA!NoRequest, A!Paths, OfA!Paths, A!PubBind,
         OfA!PubBind, A!PubBlock, OfA!PubBlock, A!PubPoint, OfA!PubPoint, A!Reply,
         OfA!Reply, A!StageBlkid, OfA!StageBlkid, A!StageCheck, OfA!StageCheck,
         A!StageFind, OfA!StageFind, A!StageMkfs, OfA!StageMkfs, A!StageMount,
         OfA!StageMount, A!StagePoint, OfA!StagePoint, A!Top, OfA!Top, A!Unmounted,
         OfA!Unmounted, A!UnpubClean, OfA!UnpubClean, A!UnstageClean,
         OfA!UnstageClean, A!UnstageClose, OfA!UnstageClose, A!alreadyOpen,
         OfA!alreadyOpen, A!blkidValid, OfA!blkidValid, A!closed, OfA!closed,
         A!devicePathExists, OfA!devicePathExists, A!fmtAndMountSource,
         OfA!fmtAndMountSource, A!notActive, OfA!notActive, A!notMnt, OfA!notMnt
<1>5. ASSUME NEW p \in Procs, A!Return(p) PROVE OfA!Return(p)
  BY <1>5 DEF A!At, OfA!At, A!Idle, OfA!Idle, A!NoRequest, OfA!NoRequest, A!Return,
         OfA!Return, A!host, OfA!host
<1>6. ASSUME NEW p \in Procs, A!HostError(p) PROVE OfA!HostError(p)
  BY <1>6 DEF A!At, OfA!At, A!CloseSwallowed, OfA!CloseSwallowed, A!Fault,
         OfA!Fault, A!HostError, OfA!HostError, A!HostErrorReported,
         OfA!HostErrorReported, A!Reply, OfA!Reply, A!Steps, OfA!Steps,
         A!host, OfA!host
<1>9. ASSUME NEW p \in Procs, A!Abandon(p) PROVE OfA!Abandon(p)
  BY <1>9 DEF A!Abandon, OfA!Abandon, A!Busy, OfA!Busy, A!Fault, OfA!Fault,
         A!host, OfA!host
<1>7. A!Crash => OfA!Crash
  BY DEF A!Crash, OfA!Crash, A!Die, OfA!Die, A!Fault, OfA!Fault, A!Idle, OfA!Idle,
         A!NoRequest, OfA!NoRequest, A!host, OfA!host
<1>8. A!Reboot => OfA!Reboot
  BY DEF A!Die, OfA!Die, A!Fault, OfA!Fault, A!Idle, OfA!Idle, A!NoRequest,
         OfA!NoRequest, A!Paths, OfA!Paths, A!Reboot, OfA!Reboot
<1> QED BY <1>1, <1>2, <1>3, <1>4, <1>5, <1>6, <1>7, <1>8, <1>9

(* The actions of node B are those the lemmas are about. *)
LEMMA SameB ==
    /\ B!Init => OfB!Init
    /\ \A p \in Procs, r \in Requests : B!Call(p, r) => OfB!Call(p, r)
    /\ \A p \in Procs :
         /\ B!Lock(p) => OfB!Lock(p)
         /\ B!HandlerStep(p) => OfB!HandlerStep(p)
         /\ B!Return(p) => OfB!Return(p)
         /\ B!HostError(p) => OfB!HostError(p)
         /\ B!Abandon(p) => OfB!Abandon(p)
    /\ B!Crash => OfB!Crash
    /\ B!Reboot => OfB!Reboot
<1>1. B!Init => OfB!Init
  BY DEF B!Idle, OfB!Idle, B!Init, OfB!Init, B!NoRequest, OfB!NoRequest, B!Paths,
         OfB!Paths
<1>2. ASSUME NEW p \in Procs, NEW r \in Requests, B!Call(p, r) PROVE OfB!Call(p, r)
  BY <1>2 DEF B!About, OfB!About, B!Allowed, OfB!Allowed, B!At, OfB!At, B!Busy, OfB!Busy,
         B!Call, OfB!Call, B!Wanted, OfB!Wanted, B!host, OfB!host
<1>3. ASSUME NEW p \in Procs, B!Lock(p) PROVE OfB!Lock(p)
  BY <1>3 DEF B!At, OfB!At, B!FirstStep, OfB!FirstStep, B!Local, OfB!Local, B!Lock,
         OfB!Lock, B!Lockable, OfB!Lockable, B!Reply, OfB!Reply
<1>4. ASSUME NEW p \in Procs, B!HandlerStep(p) PROVE OfB!HandlerStep(p)
  BY <1>4 DEF B!Activate, OfB!Activate, B!At, OfB!At, B!Die, OfB!Die, B!Formatted,
         OfB!Formatted, B!Goto, OfB!Goto, B!HandlerStep, OfB!HandlerStep, B!Idle,
         OfB!Idle, B!InUse, OfB!InUse, B!IsMountPoint, OfB!IsMountPoint, B!Local,
         OfB!Local, B!LuksActivate, OfB!LuksActivate, B!LuksFormat, OfB!LuksFormat,
         B!LuksKeyslot, OfB!LuksKeyslot, B!LuksOpen, OfB!LuksOpen, B!MountOn,
         OfB!MountOn, B!NoRequest, OfB!NoRequest, B!Paths, OfB!Paths, B!PubBind,
         OfB!PubBind, B!PubBlock, OfB!PubBlock, B!PubPoint, OfB!PubPoint, B!Reply,
         OfB!Reply, B!StageBlkid, OfB!StageBlkid, B!StageCheck, OfB!StageCheck,
         B!StageFind, OfB!StageFind, B!StageMkfs, OfB!StageMkfs, B!StageMount,
         OfB!StageMount, B!StagePoint, OfB!StagePoint, B!Top, OfB!Top, B!Unmounted,
         OfB!Unmounted, B!UnpubClean, OfB!UnpubClean, B!UnstageClean,
         OfB!UnstageClean, B!UnstageClose, OfB!UnstageClose, B!alreadyOpen,
         OfB!alreadyOpen, B!blkidValid, OfB!blkidValid, B!closed, OfB!closed,
         B!devicePathExists, OfB!devicePathExists, B!fmtAndMountSource,
         OfB!fmtAndMountSource, B!notActive, OfB!notActive, B!notMnt, OfB!notMnt
<1>5. ASSUME NEW p \in Procs, B!Return(p) PROVE OfB!Return(p)
  BY <1>5 DEF B!At, OfB!At, B!Idle, OfB!Idle, B!NoRequest, OfB!NoRequest, B!Return,
         OfB!Return, B!host, OfB!host
<1>6. ASSUME NEW p \in Procs, B!HostError(p) PROVE OfB!HostError(p)
  BY <1>6 DEF B!At, OfB!At, B!CloseSwallowed, OfB!CloseSwallowed, B!Fault,
         OfB!Fault, B!HostError, OfB!HostError, B!HostErrorReported,
         OfB!HostErrorReported, B!Reply, OfB!Reply, B!Steps, OfB!Steps,
         B!host, OfB!host
<1>9. ASSUME NEW p \in Procs, B!Abandon(p) PROVE OfB!Abandon(p)
  BY <1>9 DEF B!Abandon, OfB!Abandon, B!Busy, OfB!Busy, B!Fault, OfB!Fault,
         B!host, OfB!host
<1>7. B!Crash => OfB!Crash
  BY DEF B!Crash, OfB!Crash, B!Die, OfB!Die, B!Fault, OfB!Fault, B!Idle, OfB!Idle,
         B!NoRequest, OfB!NoRequest, B!host, OfB!host
<1>8. B!Reboot => OfB!Reboot
  BY DEF B!Die, OfB!Die, B!Fault, OfB!Fault, B!Idle, OfB!Idle, B!NoRequest,
         OfB!NoRequest, B!Paths, OfB!Paths, B!Reboot, OfB!Reboot
<1> QED BY <1>1, <1>2, <1>3, <1>4, <1>5, <1>6, <1>7, <1>8, <1>9

-----------------------------------------------------------------------------
(* What is in a file system stays. *)
Kept == \A v \in Vols : disk[v] \in {"fs", "luksfs"} => disk'[v] = disk[v]

(* The names are those of the volumes, and so the same on both nodes. *)
LEMMA SameNames == NamesFit => OfB!LabelIsMapper /\ OfB!MappersDiffer
  BY DEF NamesFit, OfA!LabelIsMapper, OfA!MappersDiffer, OfB!LabelIsMapper, OfB!MappersDiffer

(* A step of node A. *)
StepA ==
    \/ \E p \in Procs, r \in Requests : CallA(p, r)
    \/ \E p \in Procs : RunA(p) \/ FailA(p)
    \/ DieA

(* It is a step of NodeServer, and a volume is taken up only with the OK   *)
(* of the controller.                                                      *)
LEMMA OwnStepA ==
    ASSUME IInv, StepA
    PROVE  /\ OfA!Next
           /\ UNCHANGED <<where, va, nodeB>>
           /\ \A v \in Vols : OfA!Engaged(v)' => va[v][NodeA] = "ok"
<1> USE Assumed DEF OfA!NodeAssumption
<1>1. UNCHANGED <<where, va, nodeB>>
  BY DEF StepA, CallA, RunA, FailA, DieA, StepsOfA, controller
<1>2. ASSUME NEW p \in Procs, NEW r \in Requests, CallA(p, r), NEW v \in Vols
      PROVE  OfA!Next /\ (OfA!Engaged(v)' => va[v][NodeA] = "ok")
  <2>1. OfA!Call(p, r) BY <1>2, SameA DEF CallA
  <2>2. OfA!Engaged(v)' => OfA!Engaged(v) \/ (r.op = "stage" /\ r.vol = v)
    BY <2>1, OfA!CallEngages DEF IInv
  <2>3. r.op = "stage" => va[r.vol][NodeA] = "ok" BY <1>2 DEF CallA, Kubelet
  <2> QED BY <2>1, <2>2, <2>3 DEF IInv, Bridge, OfA!Next
<1>3. ASSUME NEW v \in Vols, (\E p \in Procs : RunA(p) \/ FailA(p)) \/ DieA
      PROVE  OfA!Next /\ (OfA!Engaged(v)' => va[v][NodeA] = "ok")
  <2>1. \/ \E p \in Procs : \/ OfA!Lock(p) \/ OfA!HandlerStep(p) \/ OfA!Return(p)
                             \/ OfA!HostError(p) \/ OfA!Abandon(p)
        \/ OfA!Crash \/ OfA!Reboot
    BY <1>3, SameA DEF RunA, FailA, DieA
  <2>2. OfA!Engaged(v)' => OfA!Engaged(v)
    BY <2>1, OfA!StepEngages DEF IInv, OfA!NodeInv
  <2> QED BY <2>1, <2>2 DEF IInv, Bridge, OfA!Next
<1>4. OfA!Next
  BY SameA DEF StepA, CallA, RunA, FailA, DieA, OfA!Next
<1> QED BY <1>1, <1>2, <1>3, <1>4 DEF StepA

(* Node A writes on no device that node B works on. *)
LEMMA ApartA ==
    ASSUME NamesFit, IInv, OfA!Next, NEW q \in Procs, hB[q].pc \in OfB!OnDevice
    PROVE  disk'[hB[q].req.vol] = disk[hB[q].req.vol]
<1> USE Assumed DEF OfA!NodeAssumption, OfB!NodeAssumption
<1> DEFINE v == hB[q].req.vol
<1>1. v \in Vols /\ where[v] = NodeB BY DEF IInv, OfB!NodeInv, OfB!Grounded, AttachedTo
<1> SUFFICES ASSUME disk'[v] # disk[v] PROVE FALSE OBVIOUS
<1>2. PICK p \in Procs : hA[p].pc \in OfA!OnDevice /\ hA[p].req.vol = v
  <2> HIDE DEF v
  <2> QED BY <1>1, OfA!Writes, SameNames DEF IInv, OfA!NodeInv, NamesFit
<1>3. where[v] = NodeA BY <1>2 DEF IInv, OfA!NodeInv, OfA!Grounded, AttachedTo
<1> QED BY <1>1, <1>3, LifecycleAssumption

(* A step of node A keeps the invariant, and what is written. *)
LEMMA StepInvA ==
    ASSUME NamesFit, IInv, StepA
    PROVE  IInv' /\ Kept
<1> USE Assumed DEF OfA!NodeAssumption, OfB!NodeAssumption
<1>1. OfA!Next /\ UNCHANGED <<where, va, nodeB>> BY OwnStepA
<1>2. OfA!NodeInv' /\ OfA!Kept
  BY <1>1, OfA!NextNode, SameNames DEF IInv, NamesFit
<1>3. prof' = prof BY <1>1, OfA!ProfStays DEF IInv, OfA!NodeInv
<1>4. disk' \in [Vols -> OfB!Contents] /\ faults' \in 0 .. MaxFaults
  BY <1>2 DEF OfA!NodeInv, OfA!Inv, OfA!TypeOK, OfA!Contents, OfB!Contents
<1>5. AttachedTo(NodeB)' = AttachedTo(NodeB) /\ AttachedTo(NodeB) \subseteq Vols
  BY <1>1 DEF AttachedTo
<1>6. OfB!NodeInv'
  <2>1. \A p \in Procs : hB[p].pc \in OfB!OnDevice =>
          /\ disk'[hB[p].req.vol] = disk[hB[p].req.vol]
          /\ hB[p].req.vol \in AttachedTo(NodeB)'
    BY <1>1, <1>5, ApartA DEF IInv, OfB!NodeInv, OfB!Grounded
  <2> QED BY <1>1, <1>3, <1>4, <1>5, <2>1, SameNames, OfB!Elsewhere
          DEF IInv, nodeB, NamesFit
<1>7. OfC!Inv'
  BY <1>1, LifecycleAssumption, OfC!NextInv DEF IInv, OfC!vars
<1>8. \A v \in Vols : OfB!Engaged(v)' => OfB!Engaged(v)
  BY <1>1 DEF nodeB, OfB!Engaged, OfB!Awaits, OfB!About, OfB!Busy
<1>9. Bridge' BY <1>1, <1>8, OwnStepA DEF IInv, Bridge
<1> QED BY <1>2, <1>6, <1>7, <1>9 DEF IInv, Kept, OfA!Kept, OfA!Formatted

(* A step of node B. *)
StepB ==
    \/ \E p \in Procs, r \in Requests : CallB(p, r)
    \/ \E p \in Procs : RunB(p) \/ FailB(p)
    \/ DieB

(* It is a step of NodeServer, and a volume is taken up only with the OK   *)
(* of the controller.                                                      *)
LEMMA OwnStepB ==
    ASSUME IInv, StepB
    PROVE  /\ OfB!Next
           /\ UNCHANGED <<where, va, nodeA>>
           /\ \A v \in Vols : OfB!Engaged(v)' => va[v][NodeB] = "ok"
<1> USE Assumed DEF OfB!NodeAssumption
<1>1. UNCHANGED <<where, va, nodeA>>
  BY DEF StepB, CallB, RunB, FailB, DieB, StepsOfB, controller
<1>2. ASSUME NEW p \in Procs, NEW r \in Requests, CallB(p, r), NEW v \in Vols
      PROVE  OfB!Next /\ (OfB!Engaged(v)' => va[v][NodeB] = "ok")
  <2>1. OfB!Call(p, r) BY <1>2, SameB DEF CallB
  <2>2. OfB!Engaged(v)' => OfB!Engaged(v) \/ (r.op = "stage" /\ r.vol = v)
    BY <2>1, OfB!CallEngages DEF IInv
  <2>3. r.op = "stage" => va[r.vol][NodeB] = "ok" BY <1>2 DEF CallB, Kubelet
  <2> QED BY <2>1, <2>2, <2>3 DEF IInv, Bridge, OfB!Next
<1>3. ASSUME NEW v \in Vols, (\E p \in Procs : RunB(p) \/ FailB(p)) \/ DieB
      PROVE  OfB!Next /\ (OfB!Engaged(v)' => va[v][NodeB] = "ok")
  <2>1. \/ \E p \in Procs : \/ OfB!Lock(p) \/ OfB!HandlerStep(p) \/ OfB!Return(p)
                             \/ OfB!HostError(p) \/ OfB!Abandon(p)
        \/ OfB!Crash \/ OfB!Reboot
    BY <1>3, SameB DEF RunB, FailB, DieB
  <2>2. OfB!Engaged(v)' => OfB!Engaged(v)
    BY <2>1, OfB!StepEngages DEF IInv, OfB!NodeInv
  <2> QED BY <2>1, <2>2 DEF IInv, Bridge, OfB!Next
<1>4. OfB!Next
  BY SameB DEF StepB, CallB, RunB, FailB, DieB, OfB!Next
<1> QED BY <1>1, <1>2, <1>3, <1>4 DEF StepB

(* Node B writes on no device that node A works on. *)
LEMMA ApartB ==
    ASSUME NamesFit, IInv, OfB!Next, NEW q \in Procs, hA[q].pc \in OfA!OnDevice
    PROVE  disk'[hA[q].req.vol] = disk[hA[q].req.vol]
<1> USE Assumed DEF OfA!NodeAssumption, OfB!NodeAssumption
<1> DEFINE v == hA[q].req.vol
<1>1. v \in Vols /\ where[v] = NodeA BY DEF IInv, OfA!NodeInv, OfA!Grounded, AttachedTo
<1> SUFFICES ASSUME disk'[v] # disk[v] PROVE FALSE OBVIOUS
<1>2. PICK p \in Procs : hB[p].pc \in OfB!OnDevice /\ hB[p].req.vol = v
  <2> HIDE DEF v
  <2> QED BY <1>1, OfB!Writes, SameNames DEF IInv, OfB!NodeInv, NamesFit
<1>3. where[v] = NodeB BY <1>2 DEF IInv, OfB!NodeInv, OfB!Grounded, AttachedTo
<1> QED BY <1>1, <1>3, LifecycleAssumption

(* A step of node B keeps the invariant, and what is written. *)
LEMMA StepInvB ==
    ASSUME NamesFit, IInv, StepB
    PROVE  IInv' /\ Kept
<1> USE Assumed DEF OfA!NodeAssumption, OfB!NodeAssumption
<1>1. OfB!Next /\ UNCHANGED <<where, va, nodeA>> BY OwnStepB
<1>2. OfB!NodeInv' /\ OfB!Kept
  BY <1>1, OfB!NextNode, SameNames DEF IInv, NamesFit
<1>3. prof' = prof BY <1>1, OfB!ProfStays DEF IInv, OfB!NodeInv
<1>4. disk' \in [Vols -> OfA!Contents] /\ faults' \in 0 .. MaxFaults
  BY <1>2 DEF OfB!NodeInv, OfB!Inv, OfB!TypeOK, OfB!Contents, OfA!Contents
<1>5. AttachedTo(NodeA)' = AttachedTo(NodeA) /\ AttachedTo(NodeA) \subseteq Vols
  BY <1>1 DEF AttachedTo
<1>6. OfA!NodeInv'
  <2>1. \A p \in Procs : hA[p].pc \in OfA!OnDevice =>
          /\ disk'[hA[p].req.vol] = disk[hA[p].req.vol]
          /\ hA[p].req.vol \in AttachedTo(NodeA)'
    BY <1>1, <1>5, ApartB DEF IInv, OfA!NodeInv, OfA!Grounded
  <2> QED BY <1>1, <1>3, <1>4, <1>5, <2>1, SameNames, OfA!Elsewhere
          DEF IInv, nodeA, NamesFit
<1>7. OfC!Inv'
  BY <1>1, LifecycleAssumption, OfC!NextInv DEF IInv, OfC!vars
<1>8. \A v \in Vols : OfA!Engaged(v)' => OfA!Engaged(v)
  BY <1>1 DEF nodeA, OfA!Engaged, OfA!Awaits, OfA!About, OfA!Busy
<1>9. Bridge' BY <1>1, <1>8, OwnStepB DEF IInv, Bridge
<1> QED BY <1>2, <1>6, <1>7, <1>9 DEF IInv, Kept, OfB!Kept, OfB!Formatted

-----------------------------------------------------------------------------
(* A step of the controller, or of the CO that calls it, on v and n. *)
Control(v, n) ==
    CallController(v, n) \/ Arrive(v, n) \/ Leave(v, n) \/ Answer(v, n)

(* The devices that stagings work on are there after the step too. *)
StillThere ==
    /\ \A p \in Procs : hA[p].pc \in OfA!OnDevice => hA[p].req.vol \in AttachedTo(NodeA)'
    /\ \A p \in Procs : hB[p].pc \in OfB!OnDevice => hB[p].req.vol \in AttachedTo(NodeB)'

(* It is a step of VolumeAttachment, takes the OK for a volume away from   *)
(* no node that has to do with it, and no device from under a staging.     *)
LEMMA ControlView ==
    ASSUME IInv, NEW v \in Vols, NEW n \in Nodes, Control(v, n)
    PROVE  OfC!Next /\ Bridge' /\ UNCHANGED <<volumes, nodeA, nodeB>> /\ StillThere
<1> USE Assumed DEF OfA!NodeAssumption, OfB!NodeAssumption
<1>1. UNCHANGED <<volumes, nodeA, nodeB>>
  BY DEF Control, CallController, Arrive, Leave, Answer
<1>2. \/ OfC!Publish(v, n) \/ OfC!Attach(v, n) \/ OfC!Published(v, n)
      \/ (OfC!Unpublish(v, n) /\ DoneWith(v, n)) \/ OfC!Detach(v, n) \/ OfC!Unpublished(v, n)
  BY DEF Control, CallController, Arrive, Leave, Answer, C!Publish, C!Attach, C!Published,
     C!Unpublish, C!Detach, C!Unpublished, C!SetView, OfC!Publish, OfC!Attach,
     OfC!Published, OfC!Unpublish, OfC!Detach, OfC!Unpublished, OfC!SetView
<1>3. \A w \in Vols : /\ OfA!Engaged(w)' <=> OfA!Engaged(w)
                      /\ OfB!Engaged(w)' <=> OfB!Engaged(w)
  BY <1>1 DEF nodeA, nodeB, OfA!Engaged, OfA!Awaits, OfA!About, OfA!Busy, OfB!Engaged, OfB!Awaits, OfB!About, OfB!Busy
<1>4. DoneWith(v, n) => (n = NodeA => ~OfA!Engaged(v)) /\ (n = NodeB => ~OfB!Engaged(v))
  BY LifecycleAssumption DEF DoneWith, A!About, A!Busy, B!About, B!Busy, OfA!Engaged,
     OfA!Awaits, OfA!About, OfA!Busy, OfB!Engaged, OfB!Awaits, OfB!About, OfB!Busy
<1>5. /\ va \in [Vols -> [Nodes -> OfC!Views]]
      /\ NodeA \in Nodes /\ NodeB \in Nodes
      /\ \A w \in Vols : /\ OfA!Engaged(w) => va[w][NodeA] = "ok"
                         /\ OfB!Engaged(w) => va[w][NodeB] = "ok"
  BY DEF IInv, Bridge, OfC!Inv, OfC!TypeOK, Nodes
<1>6. ASSUME NEW w \in Vols, NEW m \in Nodes, va[w][m] = "ok",
             w = v /\ m = n => ~DoneWith(v, n)
      PROVE  va'[w][m] = "ok"
  BY <1>2, <1>5, <1>6 DEF OfC!Publish, OfC!Attach, OfC!Published, OfC!Unpublish,
     OfC!Detach, OfC!Unpublished, OfC!SetView
<1>7. Bridge' BY <1>3, <1>4, <1>5, <1>6 DEF Bridge
<1>8. OfC!Next BY <1>2 DEF OfC!Next
<1>9. /\ where \in [Vols -> Nodes \cup {None}] /\ None \notin Nodes /\ NodeA # NodeB
      /\ \A p \in Procs : hA[p].pc \in OfA!OnDevice =>
           hA[p].req.vol \in Vols /\ where[hA[p].req.vol] = NodeA
      /\ \A p \in Procs : hB[p].pc \in OfB!OnDevice =>
           hB[p].req.vol \in Vols /\ where[hB[p].req.vol] = NodeB
  BY LifecycleAssumption DEF IInv, OfC!Inv, OfC!TypeOK, OfA!NodeInv, OfA!Grounded,
     OfB!NodeInv, OfB!Grounded, AttachedTo
<1>10. \/ where' = where
       \/ where[v] = None /\ where' = [where EXCEPT ![v] = n]
       \/ Untouched(v, n) /\ where[v] = n /\ where' = [where EXCEPT ![v] = None]
  BY DEF Control, CallController, Arrive, Leave, Answer, C!Publish, C!Attach, C!Published,
     C!Unpublish, C!Detach, C!Unpublished, C!SetView
<1>11. Untouched(v, n) =>
         /\ n = NodeA => \A p \in Procs : hA[p].pc \in OfA!OnDevice => hA[p].req.vol # v
         /\ n = NodeB => \A p \in Procs : hB[p].pc \in OfB!OnDevice => hB[p].req.vol # v
  BY <1>9 DEF Untouched, A!About, A!Busy, A!OnDevice, OfA!OnDevice, B!About, B!Busy,
     B!OnDevice, OfB!OnDevice
<1>12. StillThere BY <1>5, <1>9, <1>10, <1>11 DEF StillThere, AttachedTo, Nodes
<1> QED BY <1>1, <1>7, <1>8, <1>12

(* What the scheduler and the controller do keeps the invariant. *)
LEMMA ControlInv ==
    ASSUME NamesFit, IInv,
           \/ \E v \in Vols : Move(v)
           \/ \E v \in Vols, n \in Nodes : Control(v, n)
           \/ UNCHANGED vars
    PROVE  IInv' /\ Kept
<1> USE Assumed DEF OfA!NodeAssumption, OfB!NodeAssumption
<1>1. /\ UNCHANGED <<volumes, nodeA, nodeB>>
      /\ OfC!Inv' /\ Bridge' /\ StillThere
  <2>1. CASE \E v \in Vols, n \in Nodes : Control(v, n)
    BY <2>1, ControlView, LifecycleAssumption, OfC!NextInv DEF IInv
  <2>2. CASE (\E v \in Vols : Move(v)) \/ UNCHANGED vars
    <3>1. UNCHANGED <<volumes, nodeA, nodeB, where, va>>
      BY <2>2 DEF Move, vars, controller
    <3>2. OfC!Inv' BY <3>1, LifecycleAssumption, OfC!NextInv DEF IInv, OfC!vars
    <3>3. Bridge'
      BY <3>1 DEF IInv, Bridge, nodeA, nodeB, OfA!Engaged, OfA!Awaits, OfA!About, OfA!Busy,
         OfB!Engaged, OfB!Awaits, OfB!About, OfB!Busy
    <3>4. StillThere
      BY <3>1 DEF StillThere, AttachedTo, IInv, OfA!NodeInv, OfA!Grounded, OfB!NodeInv,
         OfB!Grounded
    <3> QED BY <3>1, <3>2, <3>3, <3>4
  <2> QED BY <2>1, <2>2
<1>2. /\ AttachedTo(NodeA)' \subseteq Vols /\ AttachedTo(NodeB)' \subseteq Vols
  BY DEF AttachedTo
<1>3. /\ disk' \in [Vols -> OfA!Contents] /\ disk' \in [Vols -> OfB!Contents]
      /\ disk' = disk /\ faults' \in 0 .. MaxFaults
  BY <1>1 DEF volumes, IInv, OfA!NodeInv, OfA!Inv, OfA!TypeOK, OfB!NodeInv, OfB!Inv, OfB!TypeOK
<1>4. OfA!NodeInv'
  BY <1>1, <1>2, <1>3, OfA!Elsewhere DEF IInv, nodeA, volumes, StillThere, NamesFit
<1>5. OfB!NodeInv'
  BY <1>1, <1>2, <1>3, SameNames, OfB!Elsewhere DEF IInv, nodeB, volumes, StillThere
<1> QED BY <1>1, <1>3, <1>4, <1>5 DEF IInv, Kept

(* The first state: nothing is attached and nobody has asked for anything. *)
LEMMA InitInv == Init => IInv
<1> USE Assumed DEF OfA!NodeAssumption, OfB!NodeAssumption
<1> SUFFICES ASSUME Init PROVE IInv OBVIOUS
<1>1. OfC!Inv
  BY LifecycleAssumption, OfC!InitInv DEF Init, C!Init, OfC!Init
<1>2. OfA!NodeInv /\ OfB!NodeInv
  BY SameA, SameB, OfA!InitNode, OfB!InitNode DEF Init
<1>3. \A v \in Vols : ~OfA!Engaged(v) /\ ~OfB!Engaged(v)
  BY DEF Init, A!Init, B!Init, A!Idle, B!Idle, OfA!Engaged, OfA!Awaits, OfA!About, OfA!Busy,
     OfB!Engaged, OfB!Awaits, OfB!About, OfB!Busy
<1> QED BY <1>1, <1>2, <1>3 DEF IInv, Bridge

(* Every step keeps the invariant, and what is written. *)
LEMMA NextInv ==
    ASSUME NamesFit, IInv, [Next]_vars
    PROVE  IInv' /\ Kept
<1>1. \/ StepA \/ StepB
      \/ \E v \in Vols : Move(v)
      \/ \E v \in Vols, n \in Nodes : Control(v, n)
      \/ UNCHANGED vars
  BY DEF Next, StepA, StepB, Control
<1> QED BY <1>1, StepInvA, StepInvB, ControlInv

(* The invariant holds in every reachable state. *)
LEMMA Inductive == NamesFit => (Spec => []IInv)
<1> SUFFICES ASSUME NamesFit PROVE Spec => []IInv OBVIOUS
<1>1. IInv /\ [Next]_vars => IInv' BY NextInv
<1> QED BY <1>1, InitInv, PTL DEF Spec

-----------------------------------------------------------------------------
(***************************************************************************)
(* A volume is mounted or mapped only on the node that has it: however     *)
(* often its pods move, and wherever a plugin or a node dies in the middle *)
(* of a teardown, it is not detached under a file system, and no two nodes *)
(* ever use one device.  Excepted are the volumes of which something has   *)
(* gone astray on the node: kubelet gave up a call about it, or luksClose  *)
(* took a failure for a mapping that is no longer active.                  *)
(***************************************************************************)
THEOREM UsedInOnePlace == NamesFit => (Spec => []UsedOnlyWhereAttached)
<1> SUFFICES ASSUME NamesFit PROVE Spec => []UsedOnlyWhereAttached OBVIOUS
<1> USE Assumed DEF OfA!NodeAssumption, OfB!NodeAssumption
<1>1. ASSUME IInv PROVE UsedOnlyWhereAttached
  <2> SUFFICES ASSUME NEW v \in Vols, NEW n \in Nodes, UsedOn(v, n),
                      v \notin Astray(n)
               PROVE  where[v] = n
    BY DEF UsedOnlyWhereAttached
  <2>1. va[v][n] = "ok" => where[v] = n BY <1>1 DEF IInv, OfC!Inv, OfC!ViewIsTrue
  <2>2. CASE n = NodeA
    <3>1. OfA!Uses(v)
      BY <2>2 DEF UsedOn, A!InUse, A!Paths, OfA!Uses, OfA!InUse, OfA!Paths
    <3>2. OfA!Engaged(v)
      BY <1>1, <2>2, <3>1, OfA!UsesIsStaged DEF IInv, OfA!Engaged, Astray
    <3> QED BY <1>1, <2>1, <2>2, <3>2 DEF IInv, Bridge
  <2>3. CASE n = NodeB
    <3>1. OfB!Uses(v)
      BY <2>3, LifecycleAssumption DEF UsedOn, B!InUse, B!Paths, OfB!Uses, OfB!InUse, OfB!Paths
    <3>2. OfB!Engaged(v)
      BY <1>1, <2>3, <3>1, LifecycleAssumption, OfB!UsesIsStaged
      DEF IInv, OfB!Engaged, Astray
    <3> QED BY <1>1, <2>1, <2>3, <3>2 DEF IInv, Bridge
  <2> QED BY <2>2, <2>3 DEF Nodes
<1> QED BY <1>1, Inductive, PTL

(***************************************************************************)
(* What is in the file system of a volume survives every move: no staging, *)
(* on this node or on the next, formats over it, although each decides on  *)
(* what it saw of the device and the device is shared, and although a      *)
(* staging that kubelet has given up works on, unknown to the CO.          *)
(***************************************************************************)
THEOREM DataSafe == NamesFit => (Spec => DataSurvivesMoves)
<1> SUFFICES ASSUME NamesFit PROVE Spec => DataSurvivesMoves OBVIOUS
<1>1. IInv /\ [Next]_vars =>
        [\A v \in Vols : disk[v] \in {"fs", "luksfs"} => disk'[v] = disk[v]]_vars
  BY NextInv DEF Kept
<1> QED BY <1>1, Inductive, PTL DEF Spec, DataSurvivesMoves

=============================================================================
