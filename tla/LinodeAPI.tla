----------------------------- MODULE LinodeAPI ------------------------------
(***************************************************************************)
(* The Linode block storage API, as far as the driver uses it through      *)
(* linodego (pkg/linode-client/linode_client.go).  It is outside the       *)
(* repository: what follows is what the controller relies on.              *)
(*                                                                         *)
(*  - Volume ids are never used twice.                                     *)
(*  - Attaching and detaching are asynchronous.  A call is accepted at     *)
(*    once and LinodeID changes later, which is why the controller waits   *)
(*    for it.  `linode' is what GetVolume shows, `target' is where the     *)
(*    accepted job is taking the volume; the two differ exactly while a    *)
(*    job is pending.                                                      *)
(*  - AttachVolume of a volume that is attached, or being attached or      *)
(*    detached, is refused ("is already attached").  DetachVolume names    *)
(*    the volume only, not the instance; it is refused while a job is      *)
(*    pending and does nothing to a volume that is not attached.           *)
(*  - A new, cloned or resized volume becomes active some time later.      *)
(*                                                                         *)
(* Guards selects the checks the API makes on its own account, in addition *)
(* to the driver's and to the refusals above, which it always makes.  With *)
(* Guards = {} every property rests on the driver's own checks and those   *)
(* refusals.                                                               *)
(***************************************************************************)
EXTENDS Integers, FiniteSets

CONSTANTS
    Ids,         \* volume ids the API can hand out (bounds how many are created)
    Labels,      \* volume labels
    Nodes,       \* node ids a request can name
    Instances,   \* the nodes that are Linode instances of this account
    Regions,
    InstanceRegion,  \* region of each node
    EncRegions,  \* the regions with the "Block Storage Encryption" capability
    Limit,       \* attachments each node has room for: maxVolumeAttachments - disks
    Guards,      \* checks made by the API itself
    None

ASSUME NoneAssumption ==
    None \notin Ids \cup Labels \cup Nodes \cup Regions

ASSUME CloudAssumption ==
    /\ Instances \subseteq Nodes
    /\ EncRegions \subseteq Regions
    /\ InstanceRegion \in [Nodes -> Regions]
    /\ Limit \in [Nodes -> Int]
    /\ Guards \subseteq {"label", "capacity", "delete", "shrink", "region"}

VARIABLE vols    \* the account's volumes

Volume ==
    [status : {"absent", "creating", "active", "resizing", "deleted"},
     label  : Labels \cup {None},
     size   : Nat,                        \* in GiB
     region : Regions \cup {None},
     enc    : {"enabled", "disabled"},
     linode : Nodes \cup {None},          \* Volume.LinodeID
     target : Nodes \cup {None}]

Absent ==
    [status |-> "absent", label |-> None, size |-> 0, region |-> None,
     enc |-> "disabled", linode |-> None, target |-> None]

Exists(v) == vols[v].status \notin {"absent", "deleted"}

JobPending(v) == vols[v].linode # vols[v].target

(* ListVolumes filtered by label, and ListInstanceVolumes. *)
VolumesLabelled(l) == {v \in Ids : Exists(v) /\ vols[v].label = l}

InstanceVolumes(n) == {v \in Ids : Exists(v) /\ vols[v].linode = n}

-----------------------------------------------------------------------------
(***************************************************************************)
(* The calls that change the cloud: each pairs the condition under which   *)
(* it is accepted with the effect it then has.                             *)
(***************************************************************************)
CreateAccepted(l) == "label" \in Guards => VolumesLabelled(l) = {}

(* CreateVolume *)
Create(v, l, size, region, enc) ==
    /\ vols[v].status = "absent"
    /\ vols' = [vols EXCEPT ![v] =
                  [status |-> "creating", label |-> l, size |-> size,
                   region |-> region, enc |-> enc,
                   linode |-> None, target |-> None]]

(* CloneVolume: size, region and encryption are those of the source. *)
Clone(v, l, src) == Create(v, l, vols[src].size, vols[src].region, vols[src].enc)

DeleteAccepted(v) ==
    /\ Exists(v)
    /\ "delete" \in Guards => vols[v].linode = None /\ ~JobPending(v)

Delete(v) ==
    vols' = [vols EXCEPT ![v] =
               [@ EXCEPT !.status = "deleted", !.linode = None, !.target = None]]

AttachAccepted(v, n) ==
    /\ Exists(v) /\ n \in Instances
    /\ vols[v].linode = None /\ vols[v].target = None
    /\ "capacity" \in Guards =>
          Cardinality({w \in Ids : Exists(w) /\ vols[w].target = n}) < Limit[n]
    /\ "region" \in Guards => vols[v].region = InstanceRegion[n]

(* "is already attached": the refusal that attachVolume recognises. *)
AlreadyAttached(v) == Exists(v) /\ ~(vols[v].linode = None /\ vols[v].target = None)

Attach(v, n) == vols' = [vols EXCEPT ![v].target = n]

DetachAccepted(v) == Exists(v) /\ ~JobPending(v)

Detach(v) == vols' = [vols EXCEPT ![v].target = None]

ResizeAccepted(v, size) ==
    /\ Exists(v)
    /\ "shrink" \in Guards => size >= vols[v].size

Resize(v, size) ==
    vols' = [vols EXCEPT ![v] = [@ EXCEPT !.size = size, !.status = "resizing"]]

-----------------------------------------------------------------------------
(***************************************************************************)
(* What the cloud does by itself.                                          *)
(***************************************************************************)
JobDone(v) ==
    /\ Exists(v) /\ JobPending(v)
    /\ vols' = [vols EXCEPT ![v].linode = vols[v].target]

BecomeActive(v) ==
    /\ vols[v].status \in {"creating", "resizing"}
    /\ vols' = [vols EXCEPT ![v].status = "active"]

=============================================================================
