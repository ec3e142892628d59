# A formal model of the Linode block storage CSI driver

This directory holds TLA+ modules for the driver in `src/`, the TLC
configurations that check them on small instances, and theorems about them that
TLAPS checks for every value of the constants. `PROJECT.json` maps each
definition to the source lines it stands for and lists runs, mutants, hazards,
findings and theorems.

    tlc -workers 2 -config Attach.cfg MCController     # one of the runs
    tlapm ControllerServerProofs.tla                   # one of the proof modules

## 1. The system

The driver is one binary that runs in two roles. The *controller* (one pod per
cluster, with the CSI sidecars external-provisioner, -attacher and -resizer as
its clients) turns CSI calls into calls of the Linode API. The *node plugin*
(one pod per node, with kubelet as its client) formats, encrypts and mounts the
devices of attached volumes. "CO" (container orchestrator) below is Kubernetes
with its sidecars.

### 1.1 Components

| Component | Code | State it keeps | Operations |
|---|---|---|---|
| Controller, provisioning | `internal/driver/controllerserver.go`, `controllerserver_helper.go` | none | CreateVolume, DeleteVolume |
| Controller, attachment | same | none | ControllerPublishVolume, ControllerUnpublishVolume |
| Controller, resize | same | none | ControllerExpandVolume |
| Controller, read-only | same | none | ListVolumes, ValidateVolumeCapabilities, ControllerGetCapabilities |
| Capacity arithmetic | `controllerserver_helper.go` | none | getRequestCapacitySize and helpers |
| Attachment limits | `limits.go`, `metadata.go`, `nodeserver.go`, `controllerserver_helper.go` | node metadata read at start | NodeGetInfo, canAttach |
| Linode API and client | `pkg/linode-client` (the API itself is outside) | the account's volumes and instances | list, get, create, clone, attach, detach, resize, delete |
| Node service | `nodeserver.go`, `nodeserver_helpers.go`, `pkg/mount-manager`, `pkg/filesystem` | one mutex; mounts and directories of the host | NodeStage/UnstageVolume, NodePublish/UnpublishVolume |
| LUKS | `luks.go`, `pkg/cryptsetup-client` | device-mapper mappings of the host | format, open, close |
| Device lookup | `pkg/device-manager`, `nodeserver_helpers.go` | `/dev/disk/by-id` | findDevicePath |
| Volume keys and labels | `pkg/linode-volumes/utils.go` | none | building and parsing `<id>-<label>`, hashing ids |
| Metadata and start-up | `metadata.go`, `driver.go`, `main.go` | node id, region, memory, ready flag | read metadata, set up the services |
| gRPC and metrics servers | `server.go`, `pkg/observability` | listeners, a WaitGroup | Start, Wait, Stop, ForceStop |
| Identity service | `identityserver.go` | reads the ready flag | Probe, GetPluginInfo, GetPluginCapabilities |

### 1.2 How they interact

- The sidecars call the controller over gRPC, **concurrently**, and retry what
  failed. The controller takes no lock and remembers nothing between calls, so
  all of its safety rests on what it reads from the API and on the CO's
  discipline.
- The controller calls the Linode API synchronously, but attach, detach, create,
  clone and resize only *start* a job: the controller polls (`WaitForVolumeLinodeID`,
  `WaitForVolumeStatus`) with a timeout, and the job goes on after the timeout.
- The node service reports how many volumes the node takes (`NodeGetInfo`, once
  per registration), the scheduler places by that number, and the controller
  checks a number of its own when it attaches.
- Node and controller talk only through the CO: the volume id is
  `<id>-<label>`, and the publish context carries the device path.

### 1.3 What is hard

Every handler is a read-decide-act sequence of separate API calls with nothing
held in between, so each decision may be stale when it is acted on. A call may
have its effect and lose its answer; a wait may time out with the job still
running; the process may die between any two calls; the CO then repeats the
call, and the repetition must find what the first attempt left behind. Names are
cut to labels, bytes to GiB. `PROJECT.json` ("hazards") lists these with lines
and the properties that would catch each.

What makes the components correct:

- *attachment*: what was reported as published stays attached to that node; what
  was reported as unpublished is attached nowhere and no late job attaches it;
  both operations end in success when retried;
- *provisioning*: one volume per name however often the call is repeated; the
  answer describes a volume as requested; a deleted volume is gone; retries end
  in success;
- *resize*: no interleaving shrinks a volume; an OK means the size is there;
- *capacity*: the size lies in the range and is never below the minimum;
- *limits*: a volume the scheduler places by the node's report is not refused by
  the controller;
- *node service*: a pod sees its own volume; a file system is never formatted
  over; nothing stays mounted or open after unpublish and unstage; retries end in
  success;
- *volume ids*: an id leads back to the volume and the device it was made for;
- *plugin process*: a call finds a plugin that is set up; main leaves only after a
  stop, and a stop takes no call with it; a restarted plugin serves again;
- *all together*: a volume is used only on the node that has it, keeps its data
  when its pods move, and arrives where they are.

## 2. The modules

| Module | Contents |
|---|---|
| `Capacity` | bytes and GiB, minimum size, choice of the size from a CapacityRange; operators only |
| `LinodeAPI` | the volumes of the account and what each API call accepts and does (external) |
| `ControllerServer` | extends both: handlers, the CO's view, failures; specification and properties |
| `ControllerServerProofs` | what the arithmetic guarantees, types, what each step of a handler can change, and the theorems about provisioning and resize |
| `VolumeKey` | labels and volume ids: how they are made, cut and split; operators only |
| `VolumeIds` | extends `ControllerServer` and `VolumeKey`: the controller's volumes under the ids the CO gets |
| `VolumeKeyProofs` | theorems about both |
| `MCController` | requests, initial accounts, names and prefix for TLC |
| `Limits`, `LimitsProofs`, `MCLimits` | attachment limits: model, theorem, instance |
| `NodeServer`, `NodeServerProofs`, `MCNode` | the node service on one node, with LUKS: model, theorems, instances |
| `VolumeAttachment` | abstract specification: what the controller promises about attachments |
| `VolumeAttachmentProofs` | what the CO may conclude from that promise |
| `AttachmentProofs` | the safety of attachment; `ControllerServer` implements `VolumeAttachment` |
| `Plugin`, `PluginProofs`, `MCPlugin` | the plugin process: start-up, the two servers, stop, kill, restart |
| `Lifecycle`, `LifecycleProofs`, `MCLifecycle` | the composition, `VolumeAttachment` and two instances of `NodeServer`: model, theorems, instance |

    Capacity   LinodeAPI             NodeServer (x 2)
         \      /                          |
       ControllerServer -- implements -> VolumeAttachment
             |    \                        |
    VolumeKey -- VolumeIds             Lifecycle        Plugin   Limits

`Lifecycle` uses the abstract `VolumeAttachment` in place of `ControllerServer`:
that is what the refinement is for. It keeps the composition small enough to
check, and what is shown of it holds of every implementation of the abstract
specification.

### 2.1 ControllerServer and the code

State: `vols`, the account (`linode` is `Volume.LinodeID`, `target` is where an
accepted job takes it); `h`, one record per handler slot with its program
counter, request, the id of the volume a create found or made, and the gRPC code
of its answer; `pv` and `va`, what the CO was told about names and attachments;
`faults`, a bound.

One action is **one API call with the code up to the next one**. That is the
exact grain of interference: everything else in a handler is local. `PubCapacity`
joins `ListInstanceDisks` and `ListInstanceVolumes` (and, on a refusal, the second
`ListInstanceDisks` for the wording): the disks do not change in this model, so only
the list of volumes can be stale.

| Handler | Actions |
|---|---|
| CreateVolume | `Call`/`EnterCreate` (validation, size), `CreateRegion` (encryption capability), `CreateSource` (source of a clone and its region), `CreateList` (existing volume by label), `CreateNew`/`CreateRefused` (create or clone), `CreateActive`/`CreateTimeout` (wait for active) |
| DeleteVolume | `DeleteGet`, `DeleteDo` |
| ControllerPublishVolume | `PubInstance`, `PubGet`, `PubCapacity`, `PubAttach`, `PubWait` |
| ControllerUnpublishVolume | `UnpubGet`, `UnpubDetach`, `UnpubWait` |
| ControllerExpandVolume | `ExpGet`, `ExpResize`, `ExpWait` |

`ApiError` is a call that fails with no effect, the `ReplyLost` disjuncts a call
that had its effect and lost its answer, `Crash` the death of the process. A
failed wait in a create is `CreateTimeout`: the error message reads `vol.ID`, and
with the nil volume that comes with a timeout the handler panics; no recovery
interceptor is installed, so all handlers end. While the volume is not active it
may happen any number of times and is not counted as a fault; a `GetVolume` of the
polling that fails although the volume is active takes the same path, as a fault.

Abstracted: an empty id is `None`. An id that does not parse is hashed to a
number by the driver, that is, to an id the account does not have; `Ids` and
`Nodes` include such ids. A content source that is no volume is turned down with
InvalidArgument before any API call and left out. Tags, volume context, topology in the answers, logs, metrics and traces are left
out. `LabelOf` (prefix and truncation) is a parameter; `VolumeIds` says how
`VolumeKey` makes it from prefix and name.

**The CO.** With `Orderly = TRUE`, `Allowed` keeps what the sidecars keep: one
call in flight per volume, publish on a node only when no other node may have
the volume, and an unpublish once begun is repeated until it succeeds. With
`Orderly = FALSE` any request may come at any time. Restarting the sidecar while
the controller still serves its old call is the second case.

**The API.** `Guards` switches on checks the API may make by itself (unique
labels, attachment limit, no delete of attached volumes, no shrinking, equal
regions). `Guards = {}` is an API without these optional checks; this is how the
safety of attachment and provisioning is checked and proved. Two refusals are no
option and always assumed: the API does not attach a volume that is attached or
moving, and does not detach one with a job pending. The `free` run switches the
optional checks on, because callers without discipline are exactly where the
driver relies on the API.

### 2.2 Limits and the code

`NodeGetInfo` sets `reported` from the metadata memory (`memoryToBytes`, which
has a floor of 1 GiB) less the disks; `Publish` is guarded by `canAttach`, from
the API's memory (no floor) less the disks. `Place` is the scheduler,
`ChangeDisks` the user. There are three cases in which a placed volume can be
refused. One is that disks were changed, which `changed` remembers. The second is an
instance with as many disks as attachments: NodeGetInfo then reports 0 or less, which
the CSI specification and kubelet read as "no limit", so `Place` goes on (up to
`MaxPlaced`) and the controller refuses what is placed; `PlacedCanAttach` is stated
for reports above 0. The third are volumes somebody attaches to the instance outside
the CO (`outside`, `ChangeOutside`): canAttach counts them, the report does not know
of them. `PlacedCanAttach` says what each costs: one of the placed volumes, and no
more.

### 2.3 NodeServer and the code

Every handler holds `NodeServer.mux` from its first line to its last, so the
service has no interleaving inside; what is hard is what a dead or failed handler
leaves on the host and what a repeated call makes of it. State of the host:
`attached` (devices), `disk` (what is written on each: nothing, a file system, a
LUKS header with or without key and file system), `maps` (open mappings by name),
`mnt` (a stack of mounts per path). State of the process: `h` and `mux`. State of
kubelet: `co` and `pub`.

| Handler | Actions |
|---|---|
| NodeStageVolume | `Lock` (mutex, validation), `StageFind`, `StagePoint`, `StageBlkid`, `LuksFormat`, `LuksKeyslot`, `LuksActivate` or `LuksOpen`, `StageCheck`, `StageMkfs`, `StageMount` |
| NodeUnstageVolume | `Lock`, `UnstageClean`, `UnstageClose` |
| NodePublishVolume | `Lock`, `PubPoint`, `PubBind` (file system) or `PubBlock` |
| NodeUnpublishVolume | `Lock`, `UnpubClean` |

`HostError` is a command or system call that fails. There are two kinds of it.
Nearly all are answered Internal (`HostErrorReported`). The lookup of a mapping in
`luksClose` is the exception (`CloseSwallowed`): every error of `NewLuksDeviceByName`,
that is of `InitByName`, is read as "no longer active", so unstage answers OK with a
live mapping left open. `Crash` is the death of the plugin (the host keeps its state),
`Reboot` that of the node (only the devices' contents remain). A cipher without a mode
makes `luksFormat` index out of range; the step `LuksFormat` then ends the process.
mount-utils and libcryptsetup are external: `CleanupMountPoint` unmounts once and fails
if the path is still a mount point, `FormatAndMount` makes a file system only on a
device without one, `Deactivate` fails on a device in use. Left out: directories and
files at the paths, mount options, file system types, partitions, the udev trigger.

kubelet may repeat a call while the first one is still in the driver, as long as
none has succeeded, and turns to another operation on the volume when it waits
for no other call about it. It stops waiting when a call's deadline passes
(`Abandon`, counted as a fault). The handlers do not look at their context after
they got the mutex, so such a call is then *late*: it still does its work, at any
later point, and its answer changes nobody's view.

`astray` collects, until the next reboot, the volumes about which kubelet was not told
the truth: a call about it was given up, or a failed close was answered OK. A late
staging or publishing leaves mounts and mappings that kubelet does not know of, and so
does a swallowed failure. `PublishedShowsVolume` and `NothingLeftBehind` are therefore
stated for the other volumes, and say that there are no further ways out.
`NeverReformatted` and `NodeUnpublishConverges` hold for all volumes. `UnstageConverges`
ends at `astray`: a late publish mounts what nobody unmounts, and a LUKS mapping in use
is not closed. `StageConverges` ends at a mapping that went astray and is still open:
the next staging takes it for the volume, although its device has gone and come.

`Attach` and `Detach` are the controller's. A device goes when kubelet counts the volume
as unstaged and waits for no call about it; a late handler, of which the CO cannot know,
does not hold it back. One case is left out: a device does not go while a late staging
is between its lookup and its answer (`OnDevice`), because what blkid, mkfs, mount and
libcryptsetup do with a device that disappears under them is not in this repository.

### 2.4 VolumeAttachment

State: `where` (the node that has a volume) and `va` (the CO's view). Six actions:
the CO asks (`Publish`, `Unpublish`), the driver answers OK (`Published`,
`Unpublished`), and volumes arrive and leave (`Attach`, `Detach`) while asked for.
No handlers, jobs, timeouts, failures. The refinement mapping takes `where[v]` to
`vols[v].linode` (with `None` for a volume that is gone) and `va` to itself.

### 2.5 VolumeKey, VolumeIds and the code

Texts are sequences of characters, because here the characters matter: cutting to
`LinodeVolumeLabelLength`, prefixing, splitting at the first dash. A number is one
character that is no dash. `hashStringToInt` is a parameter.

`ControllerServer` identifies a volume with its number and leaves labels opaque.
`VolumeIds` joins the two: labels are texts of at most `LinodeVolumeLabelLength`
characters, `LabelOf` is what `prepareVolumeParams` makes of prefix and name, and
every volume of the account has a label. `KeyFindsDevice` is then about the id the
CO really gets, read by the controller (number) and by the node (label). The
instances have a prefix and names with dashes, all of them cut.

### 2.6 Plugin and the code

`pc` follows `main`: `Boot` (token, client URL), `GetMetadata` or
`GetMetadataFromAPI`, `VerifyMetadata`, `SetupLinodeDriver` (label prefix), `Run`
and `StartMetrics` (the two halves of `Start`), `Wait`. `serve` and `metrics`
follow the two goroutines, `stop` a call of Stop or ForceStop. `Die` is every end
of the process; only the socket file survives it. Two things in the code shape the
model: `klog.Fatalf` in either goroutine ends the whole process, so a metrics port
that cannot be had takes the CSI services with it; and the pointers `s.server` and
`s.metricsServer` are set by the goroutines without synchronisation, so `Stop` may
find nil until the goroutine has gone on to serve. That is a data race, and the
model lets `Stop` see either value. With metrics off, which is the default, `Stop`
always panics at the metrics server, against the comment "Stops the service gracefully"
(`server.go:44`), and without the panic `Wait` would not return. The gRPC server has
finished its calls by then, which is why `StopFinishesCalls` holds even so. The
WaitGroup is raised once and lowered only by the metrics goroutine; `WaitsForStop`
holds because Stop ends the gRPC server first, and `StopReturns`, that main returns
after a stop, is stated for a plugin that serves with its metrics server open. Nothing
in the repository calls Stop or ForceStop, and no signal is handled.

### 2.7 Lifecycle

Two hosts, two plugins, two kubelets, one controller. `want` is where the pods of
a volume are to run, and `Move` changes it at any time. The rules of the CO are
those of Kubernetes: attach when no other node has a stake; detach when kubelet of
that node is done with the volume; stage and publish only after an OK of the
controller. `Attach` and `Detach` of `NodeServer`, which there happen at will,
are here what the controller does.

Each kubelet may give up calls (`Abandon`, in `FailA` and `FailB`) and be told OK about
a mapping that is open. Such a call works on after the CO has moved the volume, even
while the other node stages it. "Done with a volume" (`DoneWith`) is what kubelet knows:
nothing staged, and no call it still waits for. What is kept from `NodeServer` is that
a device does not go in the middle of a staging (`Untouched`). The exceptions are those
of the nodes: `UsedOnlyWhereAttached` leaves out, on a node, the volumes astray there;
`VolumeFollowsPods` ends at a volume astray on either node, whose unstaging may fail for
ever, and at a LUKS header without a key. `DataSurvivesMoves` has no exception.

## 3. Runs

Common bounds: two handler slots, because every race in this code is between two
calls (a third could only interfere with steps already interfered with, as there
is no shared state but the account); two nodes, the least that lets a volume
move; two names; two or three volume ids, so that a name can be made again after
its volume was deleted; a GiB of two bytes and a minimum size of 1 GiB, so that
sizes below, at, between and above whole GiB are all single-digit numbers. At
most `MaxFaults` failures or crashes happen; timeouts are not bounded. No
symmetry is used: the model values play different parts in the requests.

| Run | Question | Properties | Bounds |
|---|---|---|---|
| `attach` | Do publish and unpublish tell the truth under late jobs, faults, a delete and a resize in the way? | `PublishedIsAttached`, `UnpublishedIsDetached`, `ImplementsAttachment` | orderly CO, `Guards = {}`, 2 volumes, 2 nodes with room for 1, 2 faults |
| `provision` | Is CreateVolume idempotent and true to the request; can a sequence shrink a volume; does a volume id lead back to its volume? | `TypeOK`, `OneVolumePerLabel`, `OwnVolumePerName`, `CreatedAsRequested`, `SameVolumeForName`, `NeverShrinks`, `KeyFindsDevice` | orderly CO, `Guards = {}`, empty account, 3 ids, encrypted create, clone, deletes, three resizes, every kind of request that is turned down, 1 fault |
| `free` | What holds if callers keep no discipline, and does every call end? | `ExpandedAsAsked`, `DeletedIsGone`, `EveryCallEnds`, `DeleteConverges` | any request at any time, creates included, all `Guards`, one volume, which is being made at the start, 1 fault |
| `converge` | Do retries get through? | `PublishConverges`, `UnpublishConverges`, `CreateConverges` | orderly CO, one volume, two nodes, one name to make, 2 faults |
| `limits` | Is a placed volume ever refused? | `PlacedCanAttach` | memory sizes around every threshold of the table, up to 9 disks, one more than the smallest limit, up to 66 placed volumes, two more than the largest, and 2 attached outside the CO |
| `node` | Do pods see their volume; is anything left behind, formatted twice, or stuck? | `TypeOK`, `PublishedShowsVolume`, `NothingLeftBehind`, `NeverReformatted`, `StageConverges`, `UnstageConverges`, `NodeUnpublishConverges` | one volume of each of seven kinds, one pod, two handlers, 2 faults or abandoned calls, at most 2 stacked mounts before a further publish is asked for |
| `plugin` | Does the process serve only when set up, stop as it says, and come back? | `TypeOK`, `ServesOnlySetUp`, `WaitsForStop`, `StopFinishesCalls`, `AlwaysServesAgain`, `StopReturns` | 21 configurations: the usable ones and each single mistake; 2 calls, 3 faults, kills or stops |
| `lifecycle` | Is a moving volume safe, and does it arrive? | `UsedOnlyWhereAttached`, `DataSurvivesMoves`, `VolumeFollowsPods` | two nodes, one volume of each kind that can be staged, two pods, one handler per node, 2 faults or given-up calls, 2 moves |
| `wait_failure` | violated | `WaitFailureAnswered` | one create |
| `keyless_header` | violated | `LuksStageSucceeds` | one LUKS volume, 1 fault |
| `label_prefix` | violated | `UnstagedIsClosed` | one LUKS volume whose label is not its name |
| `swallowed_close` | violated | `CloseReportsFailure` | one LUKS volume, 1 fault |

In `node` the second handler is what repeats or follows a late call; a second pod
is left to `lifecycle`, where two pods share one staged volume. In `lifecycle` one
handler per node keeps liveness in reach: a late call there works on while the volume
is on the other node, and is finished before the next call on its own; that a late call
meets later ones on its own node is in `node` and, for both nodes and any number of
handlers, in the theorems of `LifecycleProofs`. Two moves bring a volume there and
back, so that each node finds both what it left itself and what the other one left.
Three faults in `plugin` allow a kill
after a failure after a stop.

One volume is enough for the node service: the paths, the device and the mapper
name of a volume are its own, and the mutex, the one thing volumes share, is
contended by the two handlers about the one volume.

Deadlock is checked in all passing runs.

### 3.1 Findings

The four violations are disagreements between the code and what the repository
says of it:

- **wait_failure**: the error path of the wait for the active status uses a nil
  volume after a timeout. `CreateConverges` shows that retries recover even so.
- **keyless_header**: a failure between the LUKS format and its first key slot
  leaves a header that blkid takes for a formatted device and that no key opens:
  every retry of the staging fails. `StageConverges` shows that staging gets out of
  everything else, a mapping that went astray aside.
- **label_prefix**: staging opens the mapping under the name of the request,
  unstaging closes the one named by the label. With `LINODE_VOLUME_LABEL_PREFIX`
  set (or a name longer than a label) nothing is found to close, and the mapping
  stays open when the volume is detached.
- **swallowed_close**: `luksClose` reads every failure to look the mapping up as a
  mapping that is closed, so unstage answers OK with the mapping open.
  `NothingLeftBehind` shows that, given-up calls aside, this is the only way to leave
  something behind when labels are the mapper names.

Seen in the code and not given a run of their own: the conversion of bytes to GiB
truncates, so a required size that is no whole number of GiB gives a smaller volume,
and a clone is made without a size and not compared with the required one, against
the comment "Volume MUST be at least this big" (`controllerserver_helper.go:357`);
without a metrics server, the default, `Stop` stops the gRPC server and then
dereferences nil (2.6); unpublish checks `LinodeID`
against the node and then calls `DetachVolume`, which names no node, so that it
takes the volume off another node if the CO's discipline is broken in between
(under an orderly CO `UnpublishSafe` excludes it); the room on a node is counted
before `AttachVolume`, and volumes whose attachment is under way are not counted,
so two publishes pass the check together and the API's own limit is what stops the
second; an instance with as many disks as
attachments reports a limit of 0, which is none to the CO; two names that agree
in the characters left beside the prefix get one
label, and the second create adopts the first one's volume; the comment in
`GetPluginCapabilities` says that only offline expansion is supported and the code
announces ONLINE; the comment of `DeleteVolume`
promises success for a volume that does not exist, but one that disappears
between the lookup and the delete gives Internal (the retry succeeds); the
comment of
`getAndValidateVolume` says that the region is checked and it is not; a limit below the required size is ignored rather
than refused; the comment on `maxVolumeAttachments` promises 8 attachments below
16 GiB, where 12 GiB gives 12; an existing volume is adopted by label and size
whatever its region, encryption and source (harmless when one name is always
requested alike, as a claim is; `CreateSafe` has that as its hypothesis
`RetriesAlike`).

### 3.2 Fairness

`FreeSpec` assumes only that each handler takes its next step and that its answer
is delivered: a handler is a goroutine, the HTTP client and the waits have
timeouts. `EveryCallEnds` needs no more. `FairSpec` adds that the cloud finishes
the jobs it accepted, and strong fairness of retrying: the sidecars put a failed
create, publish or unpublish back on a work queue for ever, but under the CO's
discipline a given retry is enabled only between other calls about the same
volume, so weak fairness would not say that it is made. No fairness is assumed of
fresh requests, of API errors or of crashes. In `NodeServer`, `FairSpec` adds
strong fairness of `Lock`, because Go hands a mutex to a goroutine that has
waited too long, and that the device of a volume to be staged appears, which is
what `converge` shows of the controller. The retries of kubelet are strongly fair
one by one: each pod and each operation has a retry of its own.

`DeleteConverges` needs only `FreeSpec`: it says that a delete that is asked for
again and again, of a volume that stays unattached, is answered OK again and again,
provided creates do not keep on waiting: the panic of a failed wait takes
the deletes of the same process with it.
`Plugin` assumes that the container is restarted (its restart policy), that main
and the goroutines run on, and that calls end, which `EveryCallEnds` shows for the
controller's. `Lifecycle` assumes of the controller what `converge` shows
(`PublishConverges`, `UnpublishConverges`), of each plugin that its handler runs
on, and of each kubelet that it does not for ever leave undone everything that is
missing on its node.

## 4. Proofs

**ControllerServerProofs, capacity.** From `GiBAssumption` and `MinSizeAssumption` (both positive):
`AtLeastMinimum`, every accepted range gives at least the minimum size in GiB;
`ConsistentRangeHonoured`, if the required size is not above the limit then the
size in bytes lies between them. They rest on two lemmas about `\div`.

**LimitsProofs.** `PlacedVolumesAttach`: `Spec => []PlacedCanAttach`, for every
set of memory sizes and number of disks. The one fact that is not bookkeeping is
a lemma that `maxVolumeAttachments` is the same with and without the floor of
1 GiB, because both are below the smallest limit. `PlacedCanAttach` alone is not
inductive; the invariant adds that, while the disks are unchanged, the report is
the controller's own number and `placed` keeps to it if it is above 0. Volumes attached
outside the CO may come and go: the statement counts them against the placed ones.

**ControllerServerProofs, provisioning.** From `NoneAssumption`, `CloudAssumption`,
`ControllerAssumption` and `InitAssumption`, and for every set of requests,
handlers, volumes, nodes and every bound:

| Theorem | Statement | Hypothesis, and why it is there |
|---|---|---|
| `TypeCorrect` | `[]TypeOK`, with each handler at a step its checked request allows | none |
| `ExpandSafe`, `VolumesNeverShrink` | `[]ExpandedAsAsked`, `NeverShrinks` | `GrowthGuarded`: the CO is orderly, or the API refuses to shrink |
| `DeleteSafe` | `[]DeletedIsGone` | `OnlyMadeDeleted`: deletes name volumes that were made |
| `OneVolumeEach` | `[]OneVolumePerLabel` | `LabelsGuarded`: the CO is orderly and names have distinct labels, or the API refuses a label in use |
| `SameVolume` | `SameVolumeForName` | `OrderlyNames`: orderly CO, distinct labels |
| `OwnVolumes` | `[]OwnVolumePerName` | `OrderlyNames` |
| `CreateSafe` | `[]CreatedAsRequested` | `OrderlyRequests`: `OrderlyNames`, and `RetriesAlike` |

Each hypothesis is a condition on the constants. The last five have in them that
the initial account fits the initial view of the CO, and every one holds in the
instances of the runs, so none is empty. They say on what the code relies:

- *an orderly CO or the API's check*: the handlers read, decide and act in separate
  calls. With one call about a name or volume at a time (the sidecars' discipline)
  the driver's own check is enough; otherwise only the API's check at the moment of
  the effect is.
- *distinct labels*: names that agree after the cut get one label; `LabelsApart`
  and `NamesApart` say when they do not.
- *deletes of what was made*: a delete of an id that no volume has yet is answered
  OK, and a volume made later could get that id.
- *requests for one name are alike* (`RetriesAlike`: the same source and, if there is
  none, the same region and encryption): a volume found by its label is checked for
  its size only. The class and the data source of a Kubernetes claim cannot be
  changed. For clones the region need not be repeated: the driver compares it with
  the region of the source.

The theorems share one layer of lemmas: `StepForms` and `StepShape` say which
handler moves and what a step can do to the account; `VolumeSteps` puts every step
into one of four classes: the volumes stay as they are (`Same`), one is made
(`Making`), removed (`Removing`) or resized (`Resizing`). Each invariant is then
proved against these classes, not against every action. None of the properties is
inductive, because each is about an answer that other handlers' steps follow:

- `GrowthInv`: under an orderly CO a handler that is about to resize asks for no less
  than the volume has; one that waits, or has answered OK, has at least what it asked
  for;
- `DeleteInv`: ids that were given out stay given out, so that a deleted one never
  comes back, and every delete is of such an id;
- `LabelInv`: a handler about to create has seen that no volume has the label, and
  that is still so;
- `NameInv`: the volume the CO knows under a name has the label of the name, and so
  has the one a handler holds;
- `MakeInv`: every volume with the label of a name is as the requests for that name
  ask, and the one a handler holds has passed the size check.

**AttachmentProofs, safety.** For every choice of `Guards`:

- `PublishSafe`: `Orderly => (Spec => []PublishedIsAttached)`;
- `UnpublishSafe`: `Orderly => (Spec => []UnpublishedIsDetached)`.

Neither is inductive: that the volume is attached when publish answers depends on
where the handler is, and that nothing moves it afterwards on where *all other*
handlers about the volume can be. The invariant is

    AttachInv == TypeOK /\ Serial /\ Placement /\ Progress

- `Serial`: at most one handler is busy with a volume (kept by `Allowed`);
- `Placement`: a volume, and the job under way, is only on or heading for a node
  the CO has a stake in, and the CO has a stake in at most one node;
- `Progress`: what a handler has established: the CO's view fits its request; an
  unpublish that waits has cleared the target; a delete about to be made is of a
  volume published nowhere; a publish that answered OK has the volume on its node
  with no job pending, and an unpublish that answered OK has it on none.

The proof has one step per action of `Next` and below it one per conjunct that
the action can disturb. `Guards` never appears as a fact: the optional checks of the
API are not needed. Its refusal to attach or detach what is moving is.

**VolumeAttachmentProofs.** `ViewHolds`: if `None` is no node, then
`Spec => []ViewIsTrue`: a published volume is on its node, a node without a stake
does not have it, and no two nodes have a stake. The invariant adds the types.

**AttachmentProofs, refinement.** `AttachmentImplemented`:
`Orderly => (Spec => ImplementsAttachment)`. Init maps to Init; with `AttachInv` in
the current and in the next state, every action of `ControllerServer` maps to one
step of `VolumeAttachment` or to none: a call to `Publish` or `Unpublish`, an
answer that is read to `Published` or `Unpublished`, the end of a job to `Attach`
or `Detach`, the delete of a volume to a `Detach` or to nothing, and everything
else to a stutter. `AttachInv` is what makes the guards of the abstract steps true,
for example that a volume only arrives on a node that has asked for it. Together
with `ViewHolds` this gives the safety of attachment a second, shorter statement.

**VolumeKeyProofs.** For every alphabet, prefix, name and label length:
`LabelFits`, a label is never longer than the API takes; `LabelsApart`, two names
that fit beside the prefix share a label only if they are equal; `KeyRoundTrip`, a
volume id made from a number and a label the API can have accepted leads back to
both, although the label may contain dashes. From `TextAssumption` and
`LabelAssumption`, about the volumes of the controller:

- `NamesApart`: if each name fits a label together with the prefix
  (`NamesFitPrefix`), different names have different labels, which is what
  `OneVolumeEach`, `SameVolume`, `OwnVolumes` and `CreateSafe` ask for. The deployment is such a
  configuration: the provisioner makes names of 20 characters
  (`--volume-name-prefix=pvc`, `--volume-name-uuid-length=16`), the driver takes a
  prefix of at most 12, and a label has 32;
- `KeysFindDevices`: `LabelsGuarded => (Spec => []KeyFindsDevice)`. The invariant is
  `AllLabelled` (a volume gets its label from a name when it is made and keeps it)
  with the types and `OneVolumePerLabel`. Nothing is asked of the names themselves
  where the API keeps labels apart: a cut label still leads to its own volume.

**NodeServerProofs.** From `NodeAssumption`, for every set of volumes, pods,
requests and handlers:

- `NodeTypeCorrect`: `Spec => []TypeOK`, in which the mutex is held by exactly the
  handler between the lock and its answer;
- `FormattedOnce`: `Spec => NeverReformatted`, with no hypothesis: not on kubelet,
  not on the labels, and also for volumes with abandoned calls;
- `LeavesNothing`: `LabelIsMapper => (Spec => []NothingLeftBehind)`;
- `PodsSeeTheirVolume`: `MappersDiffer => (Spec => []PublishedShowsVolume)`.

The last two are about the volumes that are not `astray`: without that exception they
are false, because of given-up calls and because of the finding `swallowed_close`. They
say that nothing else, no crash, reported failure, repetition or reboot, has the effect.

`LabelIsMapper` (the label of a LUKS volume is the name its mapping was opened
under) is what the run `label_prefix` breaks: with a label prefix the theorem is
false. `MappersDiffer` holds because a mapper name is the name of a persistent
volume. Both hold in the instance of `node`. The argument has three layers:

- `Inv`: what the handler that holds the mutex saw of the device and of the mappings
  is still so when it acts (`Seen`), and every mapping was opened by a staging of its
  volume. This alone gives `FormattedOnce`: the format steps are reached only from a
  look at a blank device, and nobody else writes in between;
- `Kubelet`: kubelet waits for one operation on a volume at a time, and its view of
  the volume fits that operation;
- `AllGone` and `AllShown`, for volumes that are not astray: what is
  mounted and mapped follows from kubelet's view and from the answers it has not
  read yet. An unstage that has unmounted and is about to close the mapping, and an
  OK that is still under way, are the places where the properties alone are not
  inductive.

The last section, *A node among others*, states for use in `LifecycleProofs` what
one node contributes when the devices are not its own. Two invariants are added:
`AllOwn`, a path of a volume shows that volume or the host's own file system, and
`Grounded`, a staging between its lookup and its answer, late or not, has its device.
A node is `Engaged` with a volume if kubelet there does not count it as unstaged or
waits for a call about it. Of the volumes that are not astray a node mounts and maps
only those kubelet has taken up (`UsesIsStaged`); it writes only on the device a staging
is at work on (`Writes`); nothing but a call for its staging engages it with a volume
(`CallEngages`, `StepEngages`); and its invariant survives any change elsewhere that
neither writes on a device one of its stagings works on nor takes it away (`Elsewhere`).

**LifecycleProofs.** For any two nodes and any volumes, pods, requests and numbers
of faults and moves, from `LifecycleAssumption` (two different nodes, and what
`NodeServer` assumes of its constants):

- `UsedInOnePlace`: `NamesFit => (Spec => []UsedOnlyWhereAttached)`;
- `DataSafe`: `NamesFit => (Spec => DataSurvivesMoves)`.

`NamesFit` is `LabelIsMapper` and `MappersDiffer` of the node service. With a label
prefix the first is false, and so is `UsedOnlyWhereAttached`: that is the finding
`label_prefix`. Both hold in the instance of `lifecycle`. Given-up calls and swallowed
failures happen in `Spec`; `UsedOnlyWhereAttached` excepts, node by node, the volumes
they concern, and `DataSurvivesMoves` excepts none. The theorems of the parts
cannot simply be put side by side, because what a handler on one node saw of a
device is true later only if the other node does not write on it. The invariant is

    IInv == (invariant of VolumeAttachment) /\ (that of either node) /\ Bridge

- `Bridge`: a node is engaged with a volume only while the CO has an OK of the
  controller for that node. The CO detaches only when kubelet of the node is done with
  the volume, as far as kubelet knows (`DoneWith`).

`UsedOnlyWhereAttached` follows from `Bridge`: what is used and not astray is staged, so
the CO has an OK, and the volume is there. `Bridge` says nothing of calls that were given
up. What keeps the nodes apart when they write is `Grounded`: a staging works on a device
that is on its node, and a device is on one node only. So each step of one node leaves the
devices alone on which the other is at work, `Untouched` keeps the controller from taking
them away, and `Elsewhere` keeps the other's invariant.
The lemmas of the parts are used through INSTANCE with the variables of node A, of
node B and of the controller; the proof has no second copy of them.

**PluginProofs.** From `PluginAssumption`, for every set of configurations:
`PluginTypeCorrect` (`[]TypeOK`: the WaitGroup never goes below zero),
`SetUpBeforeServing` (`[]ServesOnlySetUp`), `WaitReturnsAfterStop` (`WaitsForStop`)
and `StopLosesNoCall` (`StopFinishesCalls`). The invariant `IInv` adds to the types
what each step of `main` has checked (`Checked`), that the goroutines and calls live
only after `Start` (`Started`), and the order of a stop (`StopOrder`): gRPC server
first, and drained if the stop is graceful, then the metrics server, whose close is
the only thing that lets `Wait` return.

**Only model-checked.** The liveness properties (`EveryCallEnds`, the `...Converges`,
`AlwaysServesAgain`, `StopReturns`, `VolumeFollowsPods`): fairness and ENABLED are out of
the prover's reach. Every other property of a passing run is stated by a theorem. The
four violated properties are counterexamples and have none. Not proved either is the
composition with `ControllerServer` itself in place of `VolumeAttachment`:
`AttachmentImplemented` and `Lifecycle`, each proved on its own, meet in the abstract
specification.

## 5. Not modelled

Not modelled for good:

- logging, metrics and traces (`pkg/observability`, `pkg/logger`): no effect on the
  driver's state; of the metrics server, what it does to the process is in `Plugin`;
- ListVolumes, ValidateVolumeCapabilities and the capability lists: one read of the
  API or none, and an answer; nothing is kept between two calls. (ListVolumes
  without a starting token returns all that the API lists and no next token; with
  one it always returns the next number.) NodeExpandVolume, which looks the volume
  up and changes nothing, and NodeGetVolumeStats, which reads statfs;
- directories, mount options, partitions and the udev trigger of device lookup;
- what the kernel and the host's commands do when a device goes in the middle of a
  staging; devices that go while mounted or open are modelled as gone, and what was
  mounted or open stays so until it is unmounted or closed;
- content sources of a create that are no volume: turned down before any API call;
- the splitting of the API URL into host and version.

Left to do, if the driver grows: the attachment limit counted together with jobs
under way (today the API's own limit is what stops the second of two publishes), and
NodeExpandVolume, once it resizes anything.
