------------------------------- MODULE Limits -------------------------------
(***************************************************************************)
(* How many volumes fit on an instance.  The node service works the number *)
(* out from its own metadata and reports it when the plugin registers      *)
(* (NodeGetInfo); the scheduler places volumes by that report; and the     *)
(* controller works the number out again, from the API's description of    *)
(* the instance, each time a volume is to be attached (canAttach).         *)
(* Sources: internal/driver/limits.go, metadata.go (memoryToBytes),        *)
(* nodeserver.go (NodeGetInfo), controllerserver_helper.go (canAttach,     *)
(* maxAllowedVolumeAttachments).                                           *)
(***************************************************************************)
EXTENDS Integers

CONSTANTS
    MiB,           \* bytes in a MiB: 2^20 in the code, any positive number here
    MemorySizes,   \* instance memory, in MB, as the API and the metadata give it
    MaxDisks,      \* bound on the instance's disks
    MaxPlaced,     \* bound on what the scheduler places
    MaxOutside     \* bound on volumes attached by others

ASSUME LimitsAssumption ==
    /\ MiB \in Nat \ {0}
    /\ MemorySizes \subseteq Nat
    /\ MaxDisks \in Nat /\ MaxPlaced \in Nat /\ MaxOutside \in Nat

VARIABLES
    mem,        \* memory of the instance, in MB
    disks,      \* its disks now
    registered, \* has the plugin been asked for its limit?
    reported,   \* MaxVolumesPerNode of the last NodeGetInfo
    placed,     \* volumes the scheduler has placed on the node
    attached,   \* of them, those attached to it
    outside,    \* volumes attached to it, not by the CO
    changed     \* have the disks changed since the plugin first registered?

vars == <<mem, disks, registered, reported, placed, attached, outside, changed>>

maxPersistentAttachments == 8

maxAttachments == 64

BytesInGiB == 1024 * MiB

maxVolumeAttachments(memoryBytes) ==
    LET attachments == memoryBytes \div BytesInGiB IN
    IF attachments > maxAttachments THEN maxAttachments
    ELSE IF attachments < maxPersistentAttachments THEN maxPersistentAttachments
    ELSE attachments

minMemory == BytesInGiB

memoryToBytes(sizeMB) == IF sizeMB < 1024 THEN minMemory ELSE sizeMB * MiB

(* Mutant: the instance's own disks are not counted. *)
nodeLimit_NoDisks(sizeMB, d) == maxVolumeAttachments(memoryToBytes(sizeMB))

(* What NodeGetInfo reports. *)
nodeLimit(sizeMB, d) == maxVolumeAttachments(memoryToBytes(sizeMB)) - d

(* maxAllowedVolumeAttachments: the controller's own number. *)
maxAllowedVolumeAttachments(sizeMB, d) == maxVolumeAttachments(sizeMB * MiB) - d

(* canAttach: the API lists every volume of the instance, whoever has      *)
(* attached it.                                                            *)
canAttach == attached + outside < maxAllowedVolumeAttachments(mem, disks)

-----------------------------------------------------------------------------
Init ==
    /\ mem \in MemorySizes
    /\ disks \in 0 .. MaxDisks /\ outside \in 0 .. MaxOutside
    /\ reported = 0 /\ placed = 0 /\ attached = 0
    /\ registered = FALSE /\ changed = FALSE

(* Called again whenever the plugin registers again. *)
NodeGetInfo ==
    /\ reported' = nodeLimit(mem, disks)
    /\ registered' = TRUE
    /\ UNCHANGED <<mem, disks, placed, attached, outside, changed>>

(* External: the user adds or removes a disk. *)
ChangeDisks ==
    /\ disks' \in 0 .. MaxDisks
    /\ disks' # disks
    /\ changed' = TRUE
    /\ UNCHANGED <<mem, registered, reported, placed, attached, outside>>

(* External: the user attaches volumes to the instance, or detaches them,  *)
(* without the CO.                                                         *)
ChangeOutside ==
    /\ outside' \in 0 .. MaxOutside
    /\ outside' # outside
    /\ UNCHANGED <<mem, disks, registered, reported, placed, attached, changed>>

(* External: the scheduler places a pod with one more volume.  A limit of  *)
(* 0 or less, which NodeGetInfo reports for an instance with as many disks *)
(* as attachments, is no limit to the CO.                                  *)
Place ==
    /\ registered /\ placed < MaxPlaced
    /\ reported > 0 => placed < reported
    /\ placed' = placed + 1
    /\ UNCHANGED <<mem, disks, registered, reported, attached, outside, changed>>

(* ControllerPublishVolume of a placed volume. *)
Publish ==
    /\ attached < placed
    /\ canAttach
    /\ attached' = attached + 1
    /\ UNCHANGED <<mem, disks, registered, reported, placed, outside, changed>>

(* ControllerUnpublishVolume, after the pod is gone. *)
Unpublish ==
    /\ attached > 0
    /\ attached' = attached - 1
    /\ placed' = placed - 1
    /\ UNCHANGED <<mem, disks, registered, reported, outside, changed>>

Next == NodeGetInfo \/ ChangeDisks \/ ChangeOutside \/ Place \/ Publish \/ Unpublish

Spec == Init /\ [][Next]_vars

-----------------------------------------------------------------------------
(***************************************************************************)
(* The bookkeeping of the node: its types, and that only placed volumes    *)
(* are attached.                                                           *)
(***************************************************************************)
TypeOK ==
    /\ mem \in MemorySizes
    /\ disks \in 0 .. MaxDisks
    /\ registered \in BOOLEAN /\ reported \in Int
    /\ placed \in Nat /\ attached \in 0 .. placed
    /\ outside \in 0 .. MaxOutside
    /\ changed \in BOOLEAN

(***************************************************************************)
(* The node service and the controller agree on the limit although they    *)
(* read the memory from different places and only one of them has a lower  *)
(* bound for it: a volume placed by the node's report is not refused with  *)
(* ResourceExhausted, unless the disks were changed or left no room at all *)
(* (the report is then no limit), or volumes attached outside the CO, of   *)
(* which the report knows nothing, take up the room: each of them costs    *)
(* one of the placed ones, and no more.                                    *)
(***************************************************************************)
PlacedCanAttach ==
    ~changed /\ reported > 0 /\ attached + outside < placed => canAttach

=============================================================================
