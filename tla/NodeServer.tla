----------------------------- MODULE NodeServer -----------------------------
(***************************************************************************)
(* The CSI node service of the driver (internal/driver/nodeserver.go,      *)
(* nodeserver_helpers.go, luks.go): staging, unstaging, publishing and     *)
(* unpublishing a volume on one node, for file system, LUKS and raw block  *)
(* volumes.                                                                *)
(*                                                                         *)
(* The service itself keeps nothing but a mutex, which every handler holds *)
(* from its first to its last line.  What it works on is the state of the  *)
(* host, which survives the process: what is written on each device, the   *)
(* open device-mapper mappings, and the mount table.  One action below is  *)
(* one effect on the host, or one look at it, so that the process can die  *)
(* between any two of them.                                                *)
(*                                                                         *)
(* The caller is kubelet.  It may repeat a call whose answer is late while *)
(* the first one is still in the driver, until one of them succeeds; it    *)
(* goes on to another operation on a volume only when it waits for no      *)
(* other call about it.  A call whose deadline has passed it waits for no  *)
(* longer (Abandon), but nothing tells the handler, which may be queued    *)
(* for the mutex, and which then does its work after all.                  *)
(***************************************************************************)
EXTENDS Integers, Sequences

CONSTANTS
    Vols,         \* the volumes of this node
    Pods,         \* the pods that use them; each has a target path per volume
    Procs,        \* handler slots: the bound on concurrent calls
    Mappers,      \* names of device-mapper devices
    Profiles,     \* what the volumes can be: sets of functions from Vols
    Requests,     \* the requests kubelet can make
    Staging,      \* the staging path, among the paths of a volume
    Host,         \* the host's own file system
    None,
    MaxStack,     \* bound on mounts on top of each other
    MaxFaults     \* bound on failures, crashes and reboots

Paths == Pods \cup {Staging}

(***************************************************************************)
(* A volume: its volume mode, its LUKS attributes ("missing": no key, name *)
(* or cipher; "badsize": a key size that is no number; "nodash": a cipher  *)
(* without a mode), the mapper name in its volume context and the label in *)
(* its volume id, None for an id without one.                              *)
(***************************************************************************)
Profile ==
    [block  : BOOLEAN,
     luks   : {"off", "good", "missing", "badsize", "nodash"},
     mapper : Mappers,
     label  : Mappers \cup {None}]

Ops == {"stage", "unstage", "publish", "unpublish"}

(* A request that fails its validation has a field missing. *)
Request ==
    [op : Ops, vol : Vols, pod : Pods \cup {None}, complete : BOOLEAN]

NoRequest == [op |-> "none", vol |-> None, pod |-> None, complete |-> FALSE]

ASSUME NodeAssumption ==
    /\ Profiles \subseteq [Vols -> Profile]
    /\ Requests \subseteq Request
    /\ \A r \in Requests : r.op \in {"publish", "unpublish"} => r.pod \in Pods
    /\ Staging \notin Pods
    /\ None \notin Vols \cup Pods \cup Mappers \cup Procs
    /\ Host \notin Vols
    /\ MaxStack \in Nat /\ MaxFaults \in Nat

(***************************************************************************)
(* The variable astray is there for the properties only.  Since the last   *)
(* reboot, a call about such a volume was given up by kubelet, or its      *)
(* mapping was left open by a close that failed and was answered with OK.  *)
(***************************************************************************)
VARIABLES
    prof,       \* what each volume is; never changes
    attached,   \* the volumes whose device is there
    disk,       \* what is written on each device
    maps,       \* maps[m]: the volume that is open under a mapper name
    mnt,        \* mnt[v][t]: what is mounted on a path, the last on top
    h,          \* the handlers
    mux,        \* who holds the mutex
    co,         \* co[v]: kubelet's view of the staging of v
    pub,        \* pub[v][t]: its view of the publication of v for pod t
    astray,     \* the volumes kubelet was not told the truth about
    faults

host == <<attached, disk, maps, mnt>>

vars == <<prof, attached, disk, maps, mnt, h, mux, co, pub, astray, faults>>

(***************************************************************************)
(* "header" is a LUKS header without a key slot; "luks" one with a key and *)
(* nothing in it; "luksfs" one with a file system in it.                   *)
(***************************************************************************)
Contents == {"blank", "fs", "header", "luks", "luksfs"}

Steps ==
    {"queued",
     "stage_find", "stage_point", "stage_blkid", "luks_format", "luks_keyslot",
     "luks_activate", "luks_open", "stage_check", "stage_mkfs", "stage_mount",
     "unstage_clean", "unstage_close",
     "pub_point", "pub_bind", "pub_block", "unpub_clean"}

Codes == {"OK", "InvalidArgument", "Internal", "Unknown"}

Handler ==
    [pc   : Steps \cup {"idle", "done"},
     req  : Requests \cup {NoRequest},
     code : Codes,
     late : BOOLEAN]            \* nobody waits for the answer

Idle == [pc |-> "idle", req |-> NoRequest, code |-> "OK", late |-> FALSE]

Init ==
    /\ prof \in Profiles
    /\ attached = {}
    /\ disk = [v \in Vols |-> "blank"]
    /\ maps = [m \in Mappers |-> None]
    /\ mnt = [v \in Vols |-> [t \in Paths |-> <<>>]]
    /\ h = [p \in Procs |-> Idle]
    /\ mux = None
    /\ co = [v \in Vols |-> "none"]
    /\ pub = [v \in Vols |-> [t \in Pods |-> "none"]]
    /\ astray = {}
    /\ faults = 0

-----------------------------------------------------------------------------
At(p, pc) == h[p].pc = pc

Busy(p) == h[p].pc # "idle"

About(p, v) == Busy(p) /\ h[p].req.vol = v

Goto(p, pc) == h' = [h EXCEPT ![p].pc = pc] /\ UNCHANGED mux

(* Every return unlocks the mutex. *)
Reply(p, code) ==
    /\ h' = [h EXCEPT ![p].pc = "done", ![p].code = code]
    /\ mux' = None

(* The process is gone, and the mutex with it. *)
Die == h' = [p \in Procs |-> Idle] /\ mux' = None

Fault == faults < MaxFaults /\ faults' = faults + 1

(* Everything but the handlers and the mutex. *)
Local == <<prof, attached, disk, maps, mnt, co, pub, astray, faults>>

-----------------------------------------------------------------------------
(***************************************************************************)
(* kubelet.                                                                *)
(***************************************************************************)

(* A request whose answer kubelet is still waiting for. *)
Wanted(r) ==
    /\ r.complete
    /\ \/ r.op = "stage" /\ co[r.vol] = "staging"
       \/ r.op = "unstage" /\ co[r.vol] = "unstaging"
       \/ r.op = "publish" /\ pub[r.vol][r.pod] = "publishing"
       \/ r.op = "unpublish" /\ pub[r.vol][r.pod] = "unpublishing"

Allowed(r) ==
    /\ \A q \in Procs : About(q, r.vol) /\ ~h[q].late => h[q].req = r /\ Wanted(r)
    /\ r.op = "publish" =>
         /\ co[r.vol] = "staged"
         /\ pub[r.vol][r.pod] # "unpublishing"
         /\ Len(mnt[r.vol][r.pod]) < MaxStack
    /\ r.op = "unpublish" => pub[r.vol][r.pod] # "none"
    /\ r.op = "unstage" =>
         co[r.vol] # "none" /\ \A t \in Pods : pub[r.vol][t] = "none"

Call(p, r) ==
    /\ At(p, "idle")
    /\ Allowed(r)
    /\ h' = [h EXCEPT ![p] = [pc |-> "queued", req |-> r, code |-> "OK", late |-> FALSE]]
    /\ co' = CASE r.op = "stage" /\ co[r.vol] # "staged" -> [co EXCEPT ![r.vol] = "staging"]
               [] r.op = "unstage" -> [co EXCEPT ![r.vol] = "unstaging"]
               [] OTHER -> co
    /\ pub' = CASE r.op = "publish" /\ pub[r.vol][r.pod] = "none" ->
                     [pub EXCEPT ![r.vol][r.pod] = "publishing"]
                [] r.op = "unpublish" -> [pub EXCEPT ![r.vol][r.pod] = "unpublishing"]
                [] OTHER -> pub
    /\ UNCHANGED <<prof, host, mux, astray, faults>>

Return(p) ==
    LET r == h[p].req
        ok == h[p].code = "OK" /\ ~h[p].late
    IN
    /\ At(p, "done")
    /\ h' = [h EXCEPT ![p] = Idle]
    /\ co' = CASE r.op = "stage" /\ ok -> [co EXCEPT ![r.vol] = "staged"]
               [] r.op = "unstage" /\ ok -> [co EXCEPT ![r.vol] = "none"]
               [] OTHER -> co
    /\ pub' = CASE r.op = "publish" /\ ok -> [pub EXCEPT ![r.vol][r.pod] = "published"]
                [] r.op = "unpublish" /\ ok -> [pub EXCEPT ![r.vol][r.pod] = "none"]
                [] OTHER -> pub
    /\ UNCHANGED <<prof, host, mux, astray, faults>>

(* The deadline of a call passes before its answer. *)
Abandon(p) ==
    /\ Busy(p) /\ ~h[p].late
    /\ Fault
    /\ h' = [h EXCEPT ![p].late = TRUE]
    /\ astray' = astray \cup {h[p].req.vol}
    /\ UNCHANGED <<prof, host, mux, co, pub>>

(***************************************************************************)
(* ControllerPublishVolume and ControllerUnpublishVolume: the device of a  *)
(* volume may appear after staging has been asked for, and goes when       *)
(* kubelet has unstaged the volume and waits for no call about it.  A call *)
(* that kubelet has given up may still be in the driver, with one          *)
(* exception: a staging between the lookup of its device and its answer.   *)
(* What the commands of the host do to a device that goes away under them  *)
(* is not modelled.                                                        *)
(***************************************************************************)
OnDevice ==
    {"stage_point", "stage_blkid", "luks_format", "luks_keyslot", "luks_activate",
     "luks_open", "stage_check", "stage_mkfs", "stage_mount"}

Attach(v) ==
    /\ v \notin attached
    /\ attached' = attached \cup {v}
    /\ UNCHANGED <<prof, disk, maps, mnt, h, mux, co, pub, astray, faults>>

Detach(v) ==
    /\ v \in attached
    /\ co[v] = "none"
    /\ \A p \in Procs : About(p, v) => h[p].late /\ h[p].pc \notin OnDevice
    /\ attached' = attached \ {v}
    /\ UNCHANGED <<prof, disk, maps, mnt, h, mux, co, pub, astray, faults>>

-----------------------------------------------------------------------------
(***************************************************************************)
(* The host, as far as the service uses it through mount-utils and         *)
(* libcryptsetup.                                                          *)
(***************************************************************************)
IsMountPoint(v, t) == mnt[v][t] # <<>>

Top(v, t) == IF IsMountPoint(v, t) THEN mnt[v][t][Len(mnt[v][t])] ELSE Host

MountOn(v, t, source) == mnt' = [mnt EXCEPT ![v][t] = Append(@, source)]

(* Is the file system of u mounted anywhere? *)
InUse(u) == \E v \in Vols, t \in Paths : \E i \in DOMAIN mnt[v][t] : mnt[v][t][i] = u

(* Does a device, or the mapping opened on it, hold a file system? *)
Formatted(u) == disk[u] \in {"fs", "luksfs"}

(***************************************************************************)
(* mount.CleanupMountPoint: a path that is no mount point is removed; one  *)
(* that is gets one unmount, and it is an error if it still is one.        *)
(***************************************************************************)
Unmounted(v, t) == IF IsMountPoint(v, t) THEN SubSeq(mnt[v][t], 1, Len(mnt[v][t]) - 1) ELSE <<>>

-----------------------------------------------------------------------------
(***************************************************************************)
(* Handlers.  The mutex is taken first; the validation is under it.        *)
(***************************************************************************)
FirstStep(r) ==
    CASE r.op = "stage" -> "stage_find"
      [] r.op = "unstage" -> "unstage_clean"
      [] r.op = "publish" -> IF prof[r.vol].block THEN "pub_block" ELSE "pub_point"
      [] r.op = "unpublish" -> "unpub_clean"

(* Mutant: the handlers do not exclude each other. *)
Lockable_Always == TRUE

Lockable == mux = None

Lock(p) ==
    LET r == h[p].req IN
    /\ At(p, "queued") /\ Lockable
    /\ IF r.complete
         THEN h' = [h EXCEPT ![p].pc = FirstStep(r)] /\ mux' = p
         ELSE Reply(p, "InvalidArgument")
    /\ UNCHANGED Local

(* VerifyDevicePath: the by-id link of the volume's device is there. *)
devicePathExists(v) == v \in attached

(* NodeStageVolume: ParseLinodeVolumeKey and findDevicePath *)
StageFind(p) ==
    LET v == h[p].req.vol IN
    /\ At(p, "stage_find")
    /\ CASE prof[v].label = None -> Reply(p, "Unknown")
         [] prof[v].label # None /\ ~devicePathExists(v) -> Reply(p, "Internal")
         [] OTHER -> Goto(p, "stage_point")
    /\ UNCHANGED Local

(* Mutant: the answer of ensureMountPoint is read the wrong way round. *)
notMnt_Inverted(v, t) == IsMountPoint(v, t)

(* ensureMountPoint *)
notMnt(v, t) == ~IsMountPoint(v, t)

(* A mount point, and a block volume, needs no more. *)
StagePoint(p) ==
    LET v == h[p].req.vol IN
    /\ At(p, "stage_point")
    /\ IF ~notMnt(v, Staging) \/ prof[v].block
         THEN Reply(p, "OK")
         ELSE Goto(p, IF prof[v].luks = "off" THEN "stage_check" ELSE "stage_blkid")
    /\ UNCHANGED Local

(* Mutant: blkid finds nothing on any device. *)
blkidValid_Never(v) == FALSE

(* blkidValid: exit code 2 is a device with nothing on it. *)
blkidValid(v) == disk[v] # "blank"

(* formatLUKSVolume: blkid, and the validation of the LUKS context *)
StageBlkid(p) ==
    LET v == h[p].req.vol IN
    /\ At(p, "stage_blkid")
    /\ IF prof[v].luks = "missing"
         THEN Reply(p, "Internal")
         ELSE Goto(p, IF blkidValid(v) THEN "luks_open" ELSE "luks_format")
    /\ UNCHANGED Local

(***************************************************************************)
(* luksFormat: the parameters (a cipher that cannot be split is an index   *)
(* out of range, and nothing recovers from the panic), Format, the key     *)
(* slot, and the activation under the mapper name.                         *)
(***************************************************************************)
LuksFormat(p) ==
    LET v == h[p].req.vol IN
    /\ At(p, "luks_format")
    /\ \/ prof[v].luks = "badsize" /\ Reply(p, "Internal") /\ UNCHANGED disk
       \/ prof[v].luks = "nodash" /\ Die /\ UNCHANGED disk
       \/ /\ prof[v].luks = "good"
          /\ disk' = [disk EXCEPT ![v] = "header"]
          /\ Goto(p, "luks_keyslot")
    /\ UNCHANGED <<prof, attached, maps, mnt, co, pub, astray, faults>>

LuksKeyslot(p) ==
    /\ At(p, "luks_keyslot")
    /\ disk' = [disk EXCEPT ![h[p].req.vol] = "luks"]
    /\ Goto(p, "luks_activate")
    /\ UNCHANGED <<prof, attached, maps, mnt, co, pub, astray, faults>>

Activate(p, v) ==
    /\ maps' = [maps EXCEPT ![prof[v].mapper] = v]
    /\ Goto(p, "stage_check")

LuksActivate(p) ==
    LET v == h[p].req.vol IN
    /\ At(p, "luks_activate")
    /\ IF maps[prof[v].mapper] = None
         THEN Activate(p, v) ELSE Reply(p, "Internal") /\ UNCHANGED maps
    /\ UNCHANGED <<prof, attached, disk, mnt, co, pub, astray, faults>>

(* Mutant: a device that is open already is an error. *)
alreadyOpen_Error(m) == FALSE

(* Code -17 of ActivateByPassphrase *)
alreadyOpen(m) == maps[m] # None

(* luksOpen *)
LuksOpen(p) ==
    LET v == h[p].req.vol
        m == prof[v].mapper
    IN
    /\ At(p, "luks_open")
    /\ \/ disk[v] \in {"luks", "luksfs"} /\ maps[m] = None /\ Activate(p, v)
       \/ /\ disk[v] \in {"luks", "luksfs"} /\ alreadyOpen(m)
          /\ Goto(p, "stage_check") /\ UNCHANGED maps
       \/ /\ disk[v] \notin {"luks", "luksfs"} \/ (maps[m] # None /\ ~alreadyOpen(m))
          /\ Reply(p, "Internal") /\ UNCHANGED maps
    /\ UNCHANGED <<prof, attached, disk, mnt, co, pub, astray, faults>>

(* mountVolume: what is formatted and mounted *)
fmtAndMountSource(v) == IF prof[v].luks = "off" THEN v ELSE maps[prof[v].mapper]

(* FormatAndMount: look, make a file system if there is none, mount. *)
StageCheck(p) ==
    /\ At(p, "stage_check")
    /\ Goto(p, IF Formatted(fmtAndMountSource(h[p].req.vol)) THEN "stage_mount" ELSE "stage_mkfs")
    /\ UNCHANGED Local

StageMkfs(p) ==
    LET u == fmtAndMountSource(h[p].req.vol) IN
    /\ At(p, "stage_mkfs")
    /\ disk' = [disk EXCEPT ![u] = IF prof[u].luks = "off" THEN "fs" ELSE "luksfs"]
    /\ Goto(p, "stage_mount")
    /\ UNCHANGED <<prof, attached, maps, mnt, co, pub, astray, faults>>

StageMount(p) ==
    LET v == h[p].req.vol IN
    /\ At(p, "stage_mount")
    /\ MountOn(v, Staging, fmtAndMountSource(v))
    /\ Reply(p, "OK")
    /\ UNCHANGED <<prof, attached, disk, maps, co, pub, astray, faults>>

-----------------------------------------------------------------------------
(* NodeUnstageVolume: CleanupMountPoint of the staging path *)
UnstageClean(p) ==
    LET v == h[p].req.vol IN
    /\ At(p, "unstage_clean")
    /\ mnt' = [mnt EXCEPT ![v][Staging] = Unmounted(v, Staging)]
    /\ IF Unmounted(v, Staging) = <<>>
         THEN Goto(p, "unstage_close") ELSE Reply(p, "Internal")
    /\ UNCHANGED <<prof, attached, disk, maps, co, pub, astray, faults>>

(* Mutant: closing what is not open is an error. *)
notActive_Error(m) == FALSE

(* InitByName finds no mapping of this name.  An error of the call itself  *)
(* is read the same way: see CloseSwallowed.                               *)
notActive(m) == maps[m] = None

(* Mutant: the mapping is left alone. *)
closed_Never(m) == maps

closed(m) == [maps EXCEPT ![m] = None]

(* closeLuksMountSource, luksClose: the name is the label of the volume id. *)
UnstageClose(p) ==
    LET m == prof[h[p].req.vol].label IN
    /\ At(p, "unstage_close")
    /\ \/ m = None /\ Reply(p, "Internal") /\ UNCHANGED maps
       \/ m # None /\ notActive(m) /\ Reply(p, "OK") /\ UNCHANGED maps
       \/ /\ m # None /\ ~notActive(m)
          /\ IF maps[m] # None /\ ~InUse(maps[m])
               THEN maps' = closed(m) /\ Reply(p, "OK")
               ELSE Reply(p, "Internal") /\ UNCHANGED maps
    /\ UNCHANGED <<prof, attached, disk, mnt, co, pub, astray, faults>>

-----------------------------------------------------------------------------
(* NodePublishVolume of a file system: ensureMountPoint, then a bind mount *)
(* of whatever the staging path shows.                                     *)
PubPoint(p) ==
    LET r == h[p].req IN
    /\ At(p, "pub_point")
    /\ IF notMnt(r.vol, r.pod) THEN Goto(p, "pub_bind") ELSE Reply(p, "OK")
    /\ UNCHANGED Local

PubBind(p) ==
    LET r == h[p].req IN
    /\ At(p, "pub_bind")
    /\ MountOn(r.vol, r.pod, Top(r.vol, Staging))
    /\ Reply(p, "OK")
    /\ UNCHANGED <<prof, attached, disk, maps, co, pub, astray, faults>>

(* nodePublishVolumeBlock: mounts again whatever is there.  A device path  *)
(* that is not given fails like one that does not exist.                   *)
PubBlock(p) ==
    LET r == h[p].req IN
    /\ At(p, "pub_block")
    /\ IF devicePathExists(r.vol)
         THEN MountOn(r.vol, r.pod, r.vol) /\ Reply(p, "OK")
         ELSE Reply(p, "Internal") /\ UNCHANGED mnt
    /\ UNCHANGED <<prof, attached, disk, maps, co, pub, astray, faults>>

(* Mutant: unpublishing what is not mounted is an error. *)
UnpubClean_NotIdempotent(p) ==
    LET r == h[p].req IN
    /\ At(p, "unpub_clean")
    /\ mnt' = [mnt EXCEPT ![r.vol][r.pod] = Unmounted(r.vol, r.pod)]
    /\ Reply(p, IF IsMountPoint(r.vol, r.pod) /\ Unmounted(r.vol, r.pod) = <<>>
                  THEN "OK" ELSE "Internal")
    /\ UNCHANGED <<prof, attached, disk, maps, co, pub, astray, faults>>

(* NodeUnpublishVolume: CleanupMountPoint of the target path *)
UnpubClean(p) ==
    LET r == h[p].req IN
    /\ At(p, "unpub_clean")
    /\ mnt' = [mnt EXCEPT ![r.vol][r.pod] = Unmounted(r.vol, r.pod)]
    /\ Reply(p, IF Unmounted(r.vol, r.pod) = <<>> THEN "OK" ELSE "Internal")
    /\ UNCHANGED <<prof, attached, disk, maps, co, pub, astray, faults>>

-----------------------------------------------------------------------------
(* A command or system call of the host fails without effect, and the      *)
(* handler says so.                                                        *)
HostErrorReported(p) ==
    /\ h[p].pc \in Steps \ {"queued"}
    /\ Reply(p, "Internal")
    /\ UNCHANGED astray

(* luksClose takes every error of NewLuksDeviceByName to say that the      *)
(* device is no longer active: the answer is OK, the mapping stays open.   *)
CloseSwallowed(p) ==
    LET m == prof[h[p].req.vol].label IN
    /\ At(p, "unstage_close") /\ m # None /\ maps[m] # None
    /\ Reply(p, "OK")
    /\ astray' = astray \cup {maps[m]}

HostError(p) ==
    /\ Fault
    /\ HostErrorReported(p) \/ CloseSwallowed(p)
    /\ UNCHANGED <<prof, host, co, pub>>

(* The plugin dies and is started again; the host goes on. *)
Crash ==
    /\ Fault /\ Die
    /\ UNCHANGED <<prof, host, co, pub, astray>>

(* The node starts again: what is on the devices is all that is left. *)
Reboot ==
    /\ Fault /\ Die
    /\ maps' = [m \in Mappers |-> None]
    /\ mnt' = [v \in Vols |-> [t \in Paths |-> <<>>]]
    /\ co' = [v \in Vols |-> "none"]
    /\ pub' = [v \in Vols |-> [t \in Pods |-> "none"]]
    /\ astray' = {}
    /\ UNCHANGED <<prof, attached, disk>>

HandlerStep(p) ==
    \/ StageFind(p) \/ StagePoint(p) \/ StageBlkid(p)
    \/ LuksFormat(p) \/ LuksKeyslot(p) \/ LuksActivate(p) \/ LuksOpen(p)
    \/ StageCheck(p) \/ StageMkfs(p) \/ StageMount(p)
    \/ UnstageClean(p) \/ UnstageClose(p)
    \/ PubPoint(p) \/ PubBind(p) \/ PubBlock(p) \/ UnpubClean(p)

Next ==
    \/ \E p \in Procs, r \in Requests : Call(p, r)
    \/ \E p \in Procs : Lock(p) \/ HandlerStep(p) \/ Return(p) \/ HostError(p) \/ Abandon(p)
    \/ \E v \in Vols : Attach(v) \/ Detach(v)
    \/ Crash \/ Reboot

Spec == Init /\ [][Next]_vars

(***************************************************************************)
(* Fairness.  A handler runs on; Go hands a mutex to a goroutine that has  *)
(* waited too long, so everyone who queues for it gets it; the device of a *)
(* volume that is to be staged appears; and kubelet retries for ever what  *)
(* failed.                                                                 *)
(***************************************************************************)
Retry(r) == Wanted(r) /\ \E p \in Procs : Call(p, r)

Fairness ==
    /\ \A p \in Procs : WF_vars(HandlerStep(p)) /\ WF_vars(Return(p)) /\ SF_vars(Lock(p))
    /\ \A v \in Vols : WF_vars(co[v] = "staging" /\ Attach(v))
    /\ \A r \in Requests : SF_vars(Retry(r))

FairSpec == Spec /\ Fairness

-----------------------------------------------------------------------------
(***************************************************************************)
(* Types, and who holds the mutex: exactly the handler that is past the    *)
(* queue and has not returned.                                             *)
(***************************************************************************)
TypeOK ==
    /\ prof \in Profiles
    /\ attached \subseteq Vols
    /\ disk \in [Vols -> Contents]
    /\ maps \in [Mappers -> Vols \cup {None}]
    /\ mnt \in [Vols -> [Paths -> Seq(Vols \cup {Host})]]
    /\ h \in [Procs -> Handler]
    /\ \A p \in Procs : mux = p <=> h[p].pc \in Steps \ {"queued"}
    /\ co \in [Vols -> {"none", "staging", "staged", "unstaging"}]
    /\ pub \in [Vols -> [Pods -> {"none", "publishing", "published", "unpublishing"}]]
    /\ astray \subseteq Vols
    /\ faults \in 0 .. MaxFaults

(***************************************************************************)
(* A pod sees its volume: while kubelet counts a volume as published for a *)
(* pod, the top mount on the pod's target path is that volume's file       *)
(* system (its device, for a block volume), and not the bare directory of  *)
(* the host or another volume, through repeated calls and restarts.  Left  *)
(* out are the volumes a call about which kubelet gave up, as that call    *)
(* may still undo it, and those that are still open since an earlier       *)
(* unstaging whose failure was not reported.                               *)
(***************************************************************************)
PublishedShowsVolume ==
    \A v \in Vols \ astray, t \in Pods :
      pub[v][t] = "published" => IsMountPoint(v, t) /\ Top(v, t) = v

(***************************************************************************)
(* NodeUnpublishVolume and NodeUnstageVolume leave nothing behind: what    *)
(* kubelet counts as unpublished has no mount, and a volume it counts as   *)
(* unstaged (and may detach) has no staging mount and no open mapping.     *)
(* There are two ways out: a call that kubelet had given up does its work  *)
(* later, and luksClose answers OK when it could not look up the mapping.  *)
(***************************************************************************)
NothingLeftBehind ==
    \A v \in Vols \ astray :
      /\ \A t \in Pods : pub[v][t] = "none" => ~IsMountPoint(v, t)
      /\ co[v] = "none" =>
           ~IsMountPoint(v, Staging) /\ \A m \in Mappers : maps[m] # v

(***************************************************************************)
(* A file system, once made, is never formatted over, by luksFormat or by  *)
(* FormatAndMount: every decision to format still holds when it is carried *)
(* out, although calls are repeated while earlier ones run, and calls that *)
(* were given up run between others.                                       *)
(***************************************************************************)
NeverReformatted ==
    [][\A v \in Vols : Formatted(v) => disk'[v] = disk[v]]_vars

(***************************************************************************)
(* A staging that kubelet retries succeeds in the end, through crashes in  *)
(* the middle of formatting and opening, if its parameters are good.  It   *)
(* does not get out of a LUKS header without a key slot, and nothing is    *)
(* claimed of a mapping left open since an earlier unstaging, which is     *)
(* taken for the volume (code -17) though its device has gone and come.    *)
(***************************************************************************)
StageConverges ==
    \A v \in Vols :
      co[v] = "staging" /\ prof[v].luks \in {"off", "good"} /\ prof[v].label # None
        ~> \/ co[v] # "staging" \/ disk[v] = "header"
           \/ v \in astray /\ \E m \in Mappers : maps[m] = v

(***************************************************************************)
(* An unstaging that kubelet retries succeeds, or kubelet stages again;    *)
(* only a mount left by a call that was given up can keep a LUKS device    *)
(* from being closed for ever.                                             *)
(***************************************************************************)
UnstageConverges ==
    \A v \in Vols :
      co[v] = "unstaging" /\ prof[v].label # None ~> co[v] # "unstaging" \/ v \in astray

(* An unpublishing that kubelet retries succeeds, however many mounts were *)
(* stacked on the target path by repeated calls.                           *)
NodeUnpublishConverges ==
    \A v \in Vols, t \in Pods : pub[v][t] = "unpublishing" ~> pub[v][t] = "none"

-----------------------------------------------------------------------------
(***************************************************************************)
(* Statements of the repository that the code does not keep.               *)
(***************************************************************************)

(* formatLUKSVolume "checks if the device ... is already formatted", formats *)
(* it if not, and "Finally, it prepares the LUKS volume for mounting": a    *)
(* staging with good parameters succeeds in the end.                       *)
LuksStageSucceeds ==
    \A v \in Vols :
      co[v] = "staging" /\ prof[v].luks = "good" ~> co[v] # "staging"

(* closeLuksMountSource "closes a LUKS-encrypted mount source for a given  *)
(* volume ID": an unstaged volume is open under no mapper name.            *)
UnstagedIsClosed ==
    \A v \in Vols : co[v] = "none" => \A m \in Mappers : maps[m] # v

(* closeLuksMountSource "Returns an error if any operation fails during    *)
(* the process": the answer to an unstaging is OK only if the mapping that *)
(* it was to close is closed.                                              *)
CloseReportsFailure ==
    [][\A p \in Procs :
         LET m == prof[h[p].req.vol].label IN
         At(p, "unstage_close") /\ h'[p].pc = "done" /\ h'[p].code = "OK"
           => maps'[m] = None]_vars

=============================================================================
