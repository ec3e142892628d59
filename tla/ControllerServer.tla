-------------------------- MODULE ControllerServer --------------------------
(***************************************************************************)
(* The CSI controller service of the driver                                *)
(* (internal/driver/controllerserver.go, controllerserver_helper.go): the  *)
(* five operations that change the cloud, as concurrent gRPC handlers.     *)
(*                                                                         *)
(* The controller keeps no state of its own and takes no lock.  A handler  *)
(* is a sequence of Linode API calls with local decisions in between; one  *)
(* action below is one API call together with the code that runs up to the *)
(* next one.  Any number of handlers interleave, with the cloud finishing  *)
(* its jobs in between, API calls failing with or without effect, waits    *)
(* timing out, and the process crashing and starting again.                *)
(*                                                                         *)
(* The callers are the sidecars of the container orchestrator (CO).  `pv'  *)
(* and `va' are what the CO has been told; with Orderly = TRUE it keeps    *)
(* the discipline of Kubernetes (see Allowed), with Orderly = FALSE it     *)
(* may issue any request at any time.                                      *)
(***************************************************************************)
EXTENDS LinodeAPI, Capacity

CONSTANTS
    Procs,        \* handler slots: the bound on concurrent calls
    Names,        \* names the CO gives to volumes
    LabelOf,      \* the Linode label made from a name (prefix, normalised, cut)
    Region,       \* region of the controller's own metadata
    Requests,     \* the requests the CO can make
    InitVols,     \* the account's volumes at the start
    InitPv,       \* the volumes the CO knows of at the start
    Orderly,      \* does the CO keep its discipline?
    MaxFaults     \* bound on API failures and controller crashes

VARIABLES
    h,            \* the handlers
    pv,           \* pv[name]: the volume the CO was given for a name
    va,           \* va[v][n]: the CO's view of the attachment of v to n
    faults        \* failures so far

vars == <<vols, h, pv, va, faults>>

Ops == {"create", "delete", "publish", "unpublish", "expand"}

Codes == {"OK", "InvalidArgument", "NotFound", "AlreadyExists",
          "FailedPrecondition", "ResourceExhausted", "Unavailable",
          "Internal", "Unknown"}

(* A field an operation does not have is None, as is one the CO left out. *)
Request ==
    [op     : Ops,
     name   : Names \cup {None},
     vol    : Ids \cup {None},           \* delete, publish, unpublish, expand
     node   : Nodes \cup {None},         \* publish, unpublish
     range  : CapacityRange,             \* create, expand
     src    : Ids \cup {None},           \* create: volume to clone
     region : Regions \cup {None},       \* create: topology requirement
     enc    : BOOLEAN,                   \* create: encryption asked for
     access : {"writer", "other"}]       \* create, publish: access mode

NoRequest ==
    [op |-> "none", name |-> None, vol |-> None, node |-> None,
     range |-> NoRange, src |-> None, region |-> None, enc |-> FALSE,
     access |-> "other"]

(* The API calls of each operation, in order. *)
CreateSteps ==
    {"create_region", "create_source", "create_list", "create_new", "create_wait"}
DeleteSteps == {"delete_get", "delete_do"}
PublishSteps == {"pub_instance", "pub_get", "pub_capacity", "pub_attach", "pub_wait"}
UnpublishSteps == {"unpub_get", "unpub_detach", "unpub_wait"}
ExpandSteps == {"exp_get", "exp_resize", "exp_wait"}

Steps ==
    CreateSteps \cup DeleteSteps \cup PublishSteps \cup UnpublishSteps \cup ExpandSteps

Handler ==
    [pc   : Steps \cup {"idle", "done"},
     req  : Requests \cup {NoRequest},
     id   : Ids \cup {None},             \* create: the volume found or made
     code : Codes]

Idle == [pc |-> "idle", req |-> NoRequest, id |-> None, code |-> "OK"]

ASSUME ControllerAssumption ==
    /\ Requests \subseteq Request
    /\ LabelOf \in [Names -> Labels]
    /\ Region \in Regions
    /\ None \notin Names
    /\ Orderly \in BOOLEAN
    /\ MaxFaults \in Nat

(* Volumes of the account at the start are not attached. *)
ASSUME InitAssumption ==
    /\ InitVols \in [Ids -> Volume]
    /\ \A v \in Ids : InitVols[v].linode = None /\ InitVols[v].target = None
    /\ InitPv \in [Names -> Ids \cup {None}]

Init ==
    /\ vols = InitVols
    /\ h = [p \in Procs |-> Idle]
    /\ pv = InitPv
    /\ va = [v \in Ids |-> [n \in Nodes |-> "none"]]
    /\ faults = 0

-----------------------------------------------------------------------------
(***************************************************************************)
(* Pieces of a handler.                                                    *)
(***************************************************************************)
At(p, pc) == h[p].pc = pc

Busy(p) == h[p].pc # "idle"

Goto(p, pc) == h' = [h EXCEPT ![p].pc = pc]

Reply(p, code) == h' = [h EXCEPT ![p].pc = "done", ![p].code = code]

Fault == faults < MaxFaults /\ faults' = faults + 1

(* An API call that had its effect but whose answer was lost. *)
ReplyLost(p) == Fault /\ Reply(p, "Internal")

(* A call that returned goes on with the next step. *)
Continue(p, pc) == Goto(p, pc) /\ UNCHANGED faults

CO == <<pv, va>>

(* Everything but the handlers. *)
Local == <<vols, pv, va, faults>>

-----------------------------------------------------------------------------
(***************************************************************************)
(* The CO.                                                                 *)
(***************************************************************************)
Known == {pv[n] : n \in Names} \ {None}

SameTarget(r, s) ==
    \/ r.op = "create" /\ s.op = "create" /\ r.name = s.name
    \/ r.op # "create" /\ s.op # "create" /\ r.vol = s.vol
    \/ r.op = "create" /\ s.op # "create" /\ r.name \in Names /\ pv[r.name] = s.vol
    \/ r.op # "create" /\ s.op = "create" /\ s.name \in Names /\ pv[s.name] = r.vol

(***************************************************************************)
(* The discipline of the CSI sidecars: at most one call in flight about a  *)
(* volume; a volume is published to a node only when it is not, and may    *)
(* not be, published to another, and once unpublishing has begun it is     *)
(* retried until it succeeds.                                              *)
(***************************************************************************)
Allowed(r) ==
    /\ \A q \in Procs : Busy(q) => ~SameTarget(r, h[q].req)
    /\ r.op \in {"delete", "expand"} => r.vol \in Known \cup {None}
    /\ r.op = "publish" /\ r.vol \in Ids /\ r.node \in Nodes =>
         /\ r.vol \in Known
         /\ va[r.vol][r.node] # "unpub"
         /\ \A m \in Nodes \ {r.node} : va[r.vol][m] = "none"
    /\ r.op = "unpublish" /\ r.vol \in Ids /\ r.node \in Nodes =>
         va[r.vol][r.node] # "none"

SetView(r, view) == va' = [va EXCEPT ![r.vol][r.node] = view]

-----------------------------------------------------------------------------
(***************************************************************************)
(* The code of each handler up to its first API call.                      *)
(***************************************************************************)
AfterParams(r) == IF r.src = None THEN "create_list" ELSE "create_source"

regionOf(r) == IF r.region = None THEN Region ELSE r.region

encryptionStatus(r) == IF r.enc THEN "enabled" ELSE "disabled"

(* validateCreateVolumeRequest, then the size of prepareVolumeParams *)
EnterCreate(r) ==
    IF r.name = None \/ r.access # "writer" THEN <<"done", "InvalidArgument">>
    ELSE IF ~getRequestCapacitySize(r.range).ok THEN <<"done", "Unknown">>
    ELSE IF r.enc THEN <<"create_region", "OK">>
    ELSE <<AfterParams(r), "OK">>

EnterDelete(r) ==
    IF r.vol = None THEN <<"done", "InvalidArgument">> ELSE <<"delete_get", "OK">>

(* Mutant: the node id is not required. *)
EnterPublish_NoNodeCheck(r) ==
    IF r.vol = None \/ r.access # "writer"
      THEN <<"done", "InvalidArgument">> ELSE <<"pub_instance", "OK">>

(* validateControllerPublishVolumeRequest *)
EnterPublish(r) ==
    IF r.node = None \/ r.vol = None \/ r.access # "writer"
      THEN <<"done", "InvalidArgument">> ELSE <<"pub_instance", "OK">>

EnterUnpublish(r) ==
    IF r.vol = None \/ r.node = None
      THEN <<"done", "InvalidArgument">> ELSE <<"unpub_get", "OK">>

EnterExpand(r) ==
    IF r.vol = None THEN <<"done", "InvalidArgument">>
    ELSE IF ~getRequestCapacitySize(r.range).ok THEN <<"done", "Internal">>
    ELSE <<"exp_get", "OK">>

Enter(r) ==
    CASE r.op = "create"    -> EnterCreate(r)
      [] r.op = "delete"    -> EnterDelete(r)
      [] r.op = "publish"   -> EnterPublish(r)
      [] r.op = "unpublish" -> EnterUnpublish(r)
      [] r.op = "expand"    -> EnterExpand(r)

Call(p, r) ==
    /\ At(p, "idle")
    /\ Orderly => Allowed(r)
    /\ h' = [h EXCEPT ![p] = [pc |-> Enter(r)[1], req |-> r, id |-> None,
                              code |-> Enter(r)[2]]]
    /\ CASE r.op = "publish" /\ r.vol \in Ids /\ r.node \in Nodes
              /\ va[r.vol][r.node] = "none" -> SetView(r, "pub")
         [] r.op = "unpublish" /\ r.vol \in Ids /\ r.node \in Nodes
              -> SetView(r, "unpub")
         [] OTHER -> UNCHANGED va
    /\ UNCHANGED <<vols, pv, faults>>

(* The CO receives the answer. *)
Return(p) ==
    LET r == h[p].req
        ok == h[p].code = "OK"
    IN
    /\ At(p, "done")
    /\ h' = [h EXCEPT ![p] = Idle]
    /\ pv' = CASE r.op = "create" /\ ok -> [pv EXCEPT ![r.name] = h[p].id]
               [] r.op = "delete" /\ ok ->
                    [n \in Names |-> IF pv[n] = r.vol THEN None ELSE pv[n]]
               [] OTHER -> pv
    /\ CASE r.op = "publish" /\ ok /\ va[r.vol][r.node] = "pub" -> SetView(r, "ok")
         [] r.op = "unpublish" /\ ok -> SetView(r, "none")
         [] OTHER -> UNCHANGED va
    /\ UNCHANGED <<vols, faults>>

-----------------------------------------------------------------------------
(***************************************************************************)
(* CreateVolume                                                            *)
(***************************************************************************)

(* isEncryptionSupported: GetRegion *)
CreateRegion(p) ==
    LET r == h[p].req IN
    /\ At(p, "create_region")
    /\ IF regionOf(r) \in EncRegions
         THEN Goto(p, AfterParams(r)) ELSE Reply(p, "Internal")
    /\ UNCHANGED Local

(* getContentSourceVolume: GetVolume of the volume to clone.  A source that *)
(* does not parse is refused like one that does not exist.  Left out are   *)
(* sources that are no volume (a snapshot, or nothing), which are refused  *)
(* with InvalidArgument before this call.                                  *)
CreateSource(p) ==
    LET r == h[p].req IN
    /\ At(p, "create_source")
    /\ CASE ~Exists(r.src) -> Reply(p, "Internal")
         [] Exists(r.src) /\ vols[r.src].region # regionOf(r) -> Reply(p, "InvalidArgument")
         [] OTHER -> Goto(p, "create_list")
    /\ UNCHANGED Local

(* Mutant: an existing volume is taken whatever its size. *)
SizeMatches_Any(r, size) == TRUE

(* Mutant: an existing volume is never taken. *)
SizeMatches_Never(r, size) == FALSE

(* The size check of createAndWaitForVolume, on the volume found or made. *)
SizeMatches(r, size) == r.src # None \/ size = TargetSizeGB(r.range)

(* Mutant: no look for an existing volume. *)
existing_None(r) == {}

(* attemptCreateLinodeVolume: ListVolumes with the label *)
existing(r) == VolumesLabelled(LabelOf[r.name])

CreateList(p) ==
    LET r == h[p].req
        found == existing(r)
    IN
    /\ At(p, "create_list")
    /\ \/ found = {} /\ Goto(p, "create_new")
       \/ Cardinality(found) > 1 /\ Reply(p, "AlreadyExists")
       \/ \E v \in found :
            /\ found = {v}
            /\ IF SizeMatches(r, vols[v].size)
                 THEN h' = [h EXCEPT ![p].pc = "create_wait", ![p].id = v]
                 ELSE Reply(p, "AlreadyExists")
    /\ UNCHANGED Local

(* createLinodeVolume or cloneLinodeVolume: CreateVolume, CloneVolume *)
CreateNew(p) ==
    LET r == h[p].req
        l == LabelOf[r.name]
    IN
    /\ At(p, "create_new")
    /\ \E v \in Ids :
         /\ CreateAccepted(l)
         /\ IF r.src = None
              THEN Create(v, l, TargetSizeGB(r.range), regionOf(r), encryptionStatus(r))
              ELSE Exists(r.src) /\ Clone(v, l, r.src)
         /\ \/ h' = [h EXCEPT ![p].pc = "create_wait", ![p].id = v] /\ UNCHANGED faults
            \/ ReplyLost(p)
    /\ UNCHANGED CO

(* Refused by the API: label taken, source gone, or no volume left to make. *)
CreateRefused(p) ==
    LET r == h[p].req IN
    /\ At(p, "create_new")
    /\ \/ ~CreateAccepted(LabelOf[r.name])
       \/ r.src # None /\ ~Exists(r.src)
       \/ \A v \in Ids : vols[v].status # "absent"
    /\ Reply(p, "Internal")
    /\ UNCHANGED Local

(* WaitForVolumeStatus(active) sees the volume active. *)
CreateActive(p) ==
    /\ At(p, "create_wait")
    /\ vols[h[p].id].status = "active"
    /\ Reply(p, "OK")
    /\ UNCHANGED Local

(***************************************************************************)
(* WaitForVolumeStatus fails: the volume is not active in time, or a       *)
(* GetVolume of the polling fails, whatever the status is by then.  The    *)
(* error message reads vol.ID from the volume that came with the error:    *)
(* with a volume the handler answers Internal, with a nil one (what        *)
(* linodego returns on a timeout) the handler panics.  The gRPC server has *)
(* no recovery interceptor, so the panic ends the process, and every       *)
(* handler with it.                                                        *)
(***************************************************************************)
CreateTimeout(p) ==
    /\ At(p, "create_wait")
    /\ \/ vols[h[p].id].status # "active" /\ UNCHANGED faults
       \/ vols[h[p].id].status = "active" /\ Fault
    /\ \/ Reply(p, "Internal")
       \/ h' = [q \in Procs |-> Idle]
    /\ UNCHANGED <<vols, pv, va>>

-----------------------------------------------------------------------------
(***************************************************************************)
(* DeleteVolume                                                            *)
(***************************************************************************)
(* Mutant: the volume is deleted even if it is attached. *)
inUse_Never(v) == FALSE

(* errVolumeInUse *)
inUse(v) == vols[v].linode # None

(* Mutant: a volume that is not there is an error. *)
DeleteGet_NotFound(p) ==
    LET v == h[p].req.vol IN
    /\ At(p, "delete_get")
    /\ CASE ~Exists(v) -> Reply(p, "NotFound")
         [] Exists(v) /\ inUse(v) -> Reply(p, "FailedPrecondition")
         [] OTHER -> Goto(p, "delete_do")
    /\ UNCHANGED Local

DeleteGet(p) ==
    LET v == h[p].req.vol IN
    /\ At(p, "delete_get")
    /\ CASE ~Exists(v) -> Reply(p, "OK")
         [] Exists(v) /\ inUse(v) -> Reply(p, "FailedPrecondition")
         [] OTHER -> Goto(p, "delete_do")
    /\ UNCHANGED Local

(* Mutant: a refused delete is reported as done. *)
DeleteRefusedCode_OK == "OK"

DeleteRefusedCode == "Internal"

DeleteDo(p) ==
    LET v == h[p].req.vol IN
    /\ At(p, "delete_do")
    /\ \/ /\ DeleteAccepted(v) /\ Delete(v)
          /\ \/ Reply(p, "OK") /\ UNCHANGED faults
             \/ ReplyLost(p)
       \/ /\ ~DeleteAccepted(v)
          /\ Reply(p, DeleteRefusedCode) /\ UNCHANGED <<vols, faults>>
    /\ UNCHANGED CO

-----------------------------------------------------------------------------
(***************************************************************************)
(* ControllerPublishVolume                                                 *)
(***************************************************************************)

(* getInstance *)
PubInstance(p) ==
    /\ At(p, "pub_instance")
    /\ IF h[p].req.node \in Instances
         THEN Goto(p, "pub_get") ELSE Reply(p, "NotFound")
    /\ UNCHANGED Local

(* Mutant: a volume that is already attached is not recognised. *)
attachedHere_Never(v, n) == FALSE

attachedHere(v, n) == vols[v].linode = n

(* getAndValidateVolume *)
PubGet(p) ==
    LET v == h[p].req.vol
        n == h[p].req.node
    IN
    /\ At(p, "pub_get")
    /\ CASE ~Exists(v) -> Reply(p, "NotFound")
         [] Exists(v) /\ attachedHere(v, n) -> Reply(p, "OK")
         [] Exists(v) /\ vols[v].linode \notin {n, None} -> Reply(p, "AlreadyExists")
         [] OTHER -> Goto(p, "pub_capacity")
    /\ UNCHANGED Local

(* checkAttachmentCapacity, canAttach: ListInstanceDisks, then             *)
(* ListInstanceVolumes.  The two calls are one step because the disks do   *)
(* not change here (Limit is a constant; Limits has disks that do), and    *)
(* so is the ListInstanceDisks that words the refusal.                     *)
PubCapacity(p) ==
    LET n == h[p].req.node IN
    /\ At(p, "pub_capacity")
    /\ IF Cardinality(InstanceVolumes(n)) < Limit[n]
         THEN Goto(p, "pub_attach") ELSE Reply(p, "ResourceExhausted")
    /\ UNCHANGED Local

(* attachVolume *)
PubAttach(p) ==
    LET v == h[p].req.vol
        n == h[p].req.node
    IN
    /\ At(p, "pub_attach")
    /\ \/ /\ AttachAccepted(v, n) /\ Attach(v, n)
          /\ Continue(p, "pub_wait") \/ ReplyLost(p)
       \/ /\ ~AttachAccepted(v, n)
          /\ Reply(p, IF AlreadyAttached(v) THEN "Unavailable" ELSE "Internal")
          /\ UNCHANGED <<vols, faults>>
    /\ UNCHANGED CO

(* Mutant: the wait has no timeout. *)
PubWait_NoTimeout(p) ==
    LET v == h[p].req.vol IN
    /\ At(p, "pub_wait")
    /\ Exists(v) /\ vols[v].linode = h[p].req.node
    /\ Reply(p, "OK")
    /\ UNCHANGED Local

(* WaitForVolumeLinodeID: attached in time, or the timeout *)
PubWait(p) ==
    LET v == h[p].req.vol IN
    /\ At(p, "pub_wait")
    /\ IF Exists(v) /\ vols[v].linode = h[p].req.node
         THEN Reply(p, "OK") ELSE Reply(p, "Unknown")
    /\ UNCHANGED Local

-----------------------------------------------------------------------------
(***************************************************************************)
(* ControllerUnpublishVolume                                               *)
(***************************************************************************)
(* Mutant: unpublishing a volume that is already detached is an error. *)
UnpubGet_NotIdempotent(p) ==
    LET v == h[p].req.vol IN
    /\ At(p, "unpub_get")
    /\ IF vols[v].linode = None THEN Reply(p, "Internal") ELSE Goto(p, "unpub_detach")
    /\ UNCHANGED Local

UnpubGet(p) ==
    LET v == h[p].req.vol IN
    /\ At(p, "unpub_get")
    /\ IF ~Exists(v) \/ vols[v].linode \notin {h[p].req.node, None}
         THEN Reply(p, "OK") ELSE Goto(p, "unpub_detach")
    /\ UNCHANGED Local

UnpubDetach(p) ==
    LET v == h[p].req.vol IN
    /\ At(p, "unpub_detach")
    /\ \/ /\ DetachAccepted(v) /\ Detach(v)
          /\ Continue(p, "unpub_wait") \/ ReplyLost(p)
       \/ /\ ~DetachAccepted(v)
          /\ Reply(p, IF Exists(v) THEN "Internal" ELSE "OK")
          /\ UNCHANGED <<vols, faults>>
    /\ UNCHANGED CO

(* Mutant: the answer does not wait for the detach. *)
detached_NoWait(v) == Exists(v)

detached(v) == Exists(v) /\ vols[v].linode = None

(* WaitForVolumeLinodeID(nil): detached in time, or the timeout *)
UnpubWait(p) ==
    LET v == h[p].req.vol IN
    /\ At(p, "unpub_wait")
    /\ IF detached(v)
         THEN Reply(p, "OK") ELSE Reply(p, "Internal")
    /\ UNCHANGED Local

-----------------------------------------------------------------------------
(***************************************************************************)
(* ControllerExpandVolume                                                  *)
(***************************************************************************)
(* Mutant: no check against shrinking. *)
resizeDown_Never(v, size) == FALSE

(* errResizeDown *)
resizeDown(v, size) == vols[v].size > size

(* Mutant: the size asked for, not the one worked out from the range. *)
newSize_Required(r) == bytesToGB(r.range.required)

newSize(r) == TargetSizeGB(r.range)

ExpGet(p) ==
    LET r == h[p].req IN
    /\ At(p, "exp_get")
    /\ IF ~Exists(r.vol) \/ resizeDown(r.vol, newSize(r))
         THEN Reply(p, "Internal") ELSE Goto(p, "exp_resize")
    /\ UNCHANGED Local

ExpResize(p) ==
    LET v == h[p].req.vol
        size == newSize(h[p].req)
    IN
    /\ At(p, "exp_resize")
    /\ \/ /\ ResizeAccepted(v, size) /\ Resize(v, size)
          /\ Continue(p, "exp_wait") \/ ReplyLost(p)
       \/ /\ ~ResizeAccepted(v, size)
          /\ Reply(p, "Internal") /\ UNCHANGED <<vols, faults>>
    /\ UNCHANGED CO

ExpWait(p) ==
    LET v == h[p].req.vol IN
    /\ At(p, "exp_wait")
    /\ IF vols[v].status = "active" THEN Reply(p, "OK") ELSE Reply(p, "Internal")
    /\ UNCHANGED Local

-----------------------------------------------------------------------------
(***************************************************************************)
(* Failures.                                                               *)
(***************************************************************************)

(* An API call that fails without effect; where it is one of the polls of  *)
(* the wait of a create, that is CreateTimeout.                            *)
ApiError(p) ==
    /\ h[p].pc \in Steps \ {"create_wait"}
    /\ Fault
    /\ Reply(p, IF At(p, "pub_wait") THEN "Unknown" ELSE "Internal")
    /\ UNCHANGED <<vols, pv, va>>

(* The controller process dies and is started again. *)
Crash ==
    /\ Fault
    /\ h' = [p \in Procs |-> Idle]
    /\ UNCHANGED <<vols, pv, va>>

-----------------------------------------------------------------------------
CreateStep(p) ==
    \/ CreateRegion(p) \/ CreateSource(p) \/ CreateList(p)
    \/ CreateNew(p) \/ CreateRefused(p) \/ CreateActive(p) \/ CreateTimeout(p)

DeleteStep(p) == DeleteGet(p) \/ DeleteDo(p)

PublishStep(p) ==
    \/ PubInstance(p) \/ PubGet(p) \/ PubCapacity(p) \/ PubAttach(p) \/ PubWait(p)

UnpublishStep(p) == UnpubGet(p) \/ UnpubDetach(p) \/ UnpubWait(p)

ExpandStep(p) == ExpGet(p) \/ ExpResize(p) \/ ExpWait(p)

HandlerStep(p) ==
    \/ CreateStep(p) \/ DeleteStep(p) \/ PublishStep(p)
    \/ UnpublishStep(p) \/ ExpandStep(p)

CloudJobDone(v) == JobDone(v) /\ UNCHANGED <<h, pv, va, faults>>

CloudBecomeActive(v) == BecomeActive(v) /\ UNCHANGED <<h, pv, va, faults>>

Next ==
    \/ \E p \in Procs, r \in Requests : Call(p, r)
    \/ \E p \in Procs : Return(p) \/ HandlerStep(p) \/ ApiError(p)
    \/ \E v \in Ids : CloudJobDone(v) \/ CloudBecomeActive(v)
    \/ Crash

Spec == Init /\ [][Next]_vars

(***************************************************************************)
(* Fairness.  Every handler is a goroutine whose API calls and waits are   *)
(* bounded in time, so it takes its next step and its answer is delivered; *)
(* the cloud finishes the jobs it accepted; the sidecars put a failed      *)
(* create, publish or unpublish back on their work queue and retry it for  *)
(* ever.                                                                   *)
(***************************************************************************)
Retry(r) ==
    /\ \/ r.op = "create" /\ r.name \in Names /\ pv[r.name] = None
       \/ /\ r.vol \in Ids /\ r.node \in Nodes
          /\ \/ r.op = "publish" /\ va[r.vol][r.node] = "pub"
             \/ r.op = "unpublish" /\ va[r.vol][r.node] = "unpub"
    /\ \E p \in Procs : Call(p, r)

Fairness ==
    /\ \A p \in Procs : WF_vars(HandlerStep(p)) /\ WF_vars(Return(p))
    /\ \A v \in Ids : WF_vars(CloudJobDone(v)) /\ WF_vars(CloudBecomeActive(v))
    /\ \A r \in Requests : SF_vars(Retry(r))

FairSpec == Spec /\ Fairness

(* What the handlers guarantee on their own, whatever the callers do. *)
FreeSpec == Spec /\ \A p \in Procs : WF_vars(HandlerStep(p)) /\ WF_vars(Return(p))

-----------------------------------------------------------------------------
(* A request that passed the checks of its handler. *)
Valid(r) ==
    /\ r \in Requests
    /\ r.op = "create" => r.name \in Names
    /\ r.op # "create" => r.vol \in Ids
    /\ r.op \in {"publish", "unpublish"} => r.node \in Nodes

(* The op a step belongs to. *)
OpOf(pc) ==
    CASE pc \in CreateSteps -> "create"
      [] pc \in DeleteSteps -> "delete"
      [] pc \in PublishSteps -> "publish"
      [] pc \in UnpublishSteps -> "unpublish"
      [] pc \in ExpandSteps -> "expand"

(***************************************************************************)
(* Where a handler is agrees with the request it serves: only a checked    *)
(* request gets as far as an API call or an OK, each step belongs to the   *)
(* operation of the request, and a create past its list-or-create step     *)
(* holds the id of a volume.                                               *)
(***************************************************************************)
HandlerOK(p) ==
    /\ h[p].pc \in Steps => h[p].code = "OK" /\ h[p].req.op = OpOf(h[p].pc)
    /\ h[p].pc # "idle" /\ h[p].code = "OK" => Valid(h[p].req)
    /\ At(p, "create_source") => h[p].req.src \in Ids
    /\ At(p, "create_wait") => h[p].id \in Ids
    /\ At(p, "done") /\ h[p].code = "OK" /\ h[p].req.op = "create" => h[p].id \in Ids

(* The types of the state, and HandlerOK for every handler slot. *)
TypeOK ==
    /\ vols \in [Ids -> Volume]
    /\ h \in [Procs -> Handler]
    /\ pv \in [Names -> Ids \cup {None}]
    /\ va \in [Ids -> [Nodes -> {"none", "pub", "ok", "unpub"}]]
    /\ faults \in 0 .. MaxFaults
    /\ \A p \in Procs : HandlerOK(p)

Answered(p, op) == At(p, "done") /\ h[p].req.op = op /\ h[p].code = "OK"

(***************************************************************************)
(* Once ControllerPublishVolume has answered OK, the volume exists and     *)
(* stays attached to that node, with nothing pending that would move it,   *)
(* until the CO asks for it to be unpublished, whatever other calls, lost  *)
(* answers, late cloud jobs, timeouts and restarts happen in between.      *)
(***************************************************************************)
PublishedIsAttached ==
    \A v \in Ids, n \in Nodes :
      va[v][n] = "ok" => Exists(v) /\ vols[v].linode = n /\ vols[v].target = n

(***************************************************************************)
(* A volume the CO does not count as published (never published, or        *)
(* ControllerUnpublishVolume answered OK for it) is on no node and no late *)
(* job of an earlier publish will put it on one.                           *)
(***************************************************************************)
UnpublishedIsDetached ==
    \A v \in Ids :
      (\A n \in Nodes : va[v][n] = "none") =>
        vols[v].linode = None /\ vols[v].target = None

(***************************************************************************)
(* All of publishing and unpublishing, at once: with `where' taken from    *)
(* the LinodeID the API shows, every step of the handlers, the cloud and   *)
(* the failures is a step VolumeAttachment allows, or leaves what the CO   *)
(* relies on alone.                                                        *)
(***************************************************************************)
Attachment ==
    INSTANCE VolumeAttachment WITH where <- [v \in Ids |-> vols[v].linode]

ImplementsAttachment == Attachment!Spec

(***************************************************************************)
(* CreateVolume is idempotent: retries after errors, lost answers and      *)
(* crashes never leave two volumes with the label of one name.             *)
(***************************************************************************)
OneVolumePerLabel ==
    \A v, w \in Ids :
      Exists(v) /\ Exists(w) /\ vols[v].label = vols[w].label => v = w

(***************************************************************************)
(* Two names never have one volume: what CreateVolume finds by a label,    *)
(* cut to the length the API takes, was made for the name it is asked for. *)
(***************************************************************************)
OwnVolumePerName ==
    \A m, n \in Names : pv[m] = pv[n] /\ pv[m] # None => m = n

(***************************************************************************)
(* Two successful answers to CreateVolume for one name give the same       *)
(* volume, unless the first one has been deleted since.                    *)
(***************************************************************************)
SameVolumeForName ==
    [][\A n \in Names :
         pv[n] # None /\ pv'[n] \notin {None, pv[n]} => ~Exists(pv[n])]_vars

(***************************************************************************)
(* What CreateVolume answers OK for is an existing volume that has the     *)
(* label, size, region and encryption of the request, also when it was     *)
(* found rather than made; a clone is in the region asked for.             *)
(***************************************************************************)
CreatedAsRequested ==
    \A p \in Procs :
      Answered(p, "create") =>
        LET r == h[p].req
            vol == vols[h[p].id]
        IN
        /\ Exists(h[p].id)
        /\ vol.label = LabelOf[r.name]
        /\ vol.region = regionOf(r)
        /\ r.src = None => vol.size = TargetSizeGB(r.range) /\ vol.enc = encryptionStatus(r)

(***************************************************************************)
(* No sequence of calls makes a volume smaller (errResizeDown).            *)
(***************************************************************************)
NeverShrinks ==
    [][\A v \in Ids : Exists(v) => vols'[v].size >= vols[v].size]_vars

(***************************************************************************)
(* When ControllerExpandVolume answers OK the volume has at least the size *)
(* it asked the API for, whatever other resizes were in flight.            *)
(***************************************************************************)
ExpandedAsAsked ==
    \A p \in Procs :
      Answered(p, "expand") =>
        vols[h[p].req.vol].size >= TargetSizeGB(h[p].req.range)

(***************************************************************************)
(* When DeleteVolume answers OK the volume is gone, and it stays gone.     *)
(***************************************************************************)
DeletedIsGone ==
    \A p \in Procs : Answered(p, "delete") => ~Exists(h[p].req.vol)

(***************************************************************************)
(* Deleting again and again succeeds in the end once the volume is on no   *)
(* node, also when an earlier delete took effect and its answer was lost,  *)
(* or two deletes ran into each other; but not if the waits of creates go  *)
(* on failing, because the panic of each can take the delete with it.      *)
(***************************************************************************)
DeleteConverges ==
    \A v \in Ids :
      /\ []<>(\E p \in Procs : Busy(p) /\ h[p].req.op = "delete" /\ h[p].req.vol = v)
      /\ <>[](vols[v].linode = None /\ vols[v].target = None)
      /\ <>[](\A p \in Procs : ~At(p, "create_wait"))
      => []<>(\E p \in Procs : Answered(p, "delete") /\ h[p].req.vol = v)

(***************************************************************************)
(* Every call is answered, or the process it ran in died.                  *)
(***************************************************************************)
EveryCallEnds == \A p \in Procs : Busy(p) ~> At(p, "idle")

(***************************************************************************)
(* A publish that the CO retries succeeds in the end, unless the CO turns  *)
(* to unpublishing: timeouts, "is already attached" refusals and lost      *)
(* answers are all passed.                                                 *)
(***************************************************************************)
PublishConverges ==
    \A v \in Ids, n \in Nodes : va[v][n] = "pub" ~> va[v][n] \in {"ok", "unpub"}

(***************************************************************************)
(* A create that the CO retries ends with a volume for the name, through   *)
(* lost answers, failed waits and the crashes they cause.                  *)
(***************************************************************************)
CreateConverges ==
    \A p \in Procs, n \in Names :
      (Busy(p) /\ h[p].req.op = "create" /\ h[p].req.name = n) ~> pv[n] # None

(* An unpublish that the CO retries succeeds in the end. *)
UnpublishConverges ==
    \A v \in Ids, n \in Nodes : va[v][n] = "unpub" ~> va[v][n] = "none"

-----------------------------------------------------------------------------
(***************************************************************************)
(* A statement of the repository that the code does not keep.              *)
(***************************************************************************)

(* A create whose wait for the active status fails answers an error.       *)
WaitFailureAnswered ==
    [][\A p \in Procs :
         At(p, "create_wait") /\ h'[p].pc # "create_wait" => h'[p].pc = "done"]_vars

=============================================================================
