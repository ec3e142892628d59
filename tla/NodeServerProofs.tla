-------------------------- MODULE NodeServerProofs --------------------------
(***************************************************************************)
(* Proofs about NodeServer, for every set of volumes, pods, requests and   *)
(* handler slots, and every bound.  The argument has three layers:         *)
(*                                                                         *)
(*   Inv      what the handler that holds the mutex has seen on the host   *)
(*            is still so: only it changes the devices and the mappings;   *)
(*   Kubelet  what the calls kubelet waits for have to do with its view;   *)
(*   Host     what the mount table and the mappings have to do with that   *)
(*            view, for the volumes that are not astray: no call about     *)
(*            them was given up, and no failure to close them passed over. *)
(***************************************************************************)
EXTENDS NodeServer, TLAPS

StageSteps ==
    {"stage_find", "stage_point", "stage_blkid", "luks_format", "luks_keyslot",
     "luks_activate", "luks_open", "stage_check", "stage_mkfs", "stage_mount"}

LuksSteps == {"stage_blkid", "luks_format", "luks_keyslot", "luks_activate", "luks_open"}

MountSteps == {"stage_check", "stage_mkfs", "stage_mount"}

(* The operation a step belongs to, and what its request is like. *)
Position(p) ==
    LET r == h[p].req
        pc == h[p].pc
    IN
    /\ pc = "idle" <=> r = NoRequest
    /\ pc = "idle" <=> r \notin Requests
    /\ pc \in StageSteps => r.op = "stage"
    /\ pc \in {"unstage_clean", "unstage_close"} => r.op = "unstage"
    /\ pc \in {"pub_point", "pub_bind", "pub_block"} => r.op = "publish"
    /\ pc \in {"pub_point", "pub_bind"} => ~prof[r.vol].block
    /\ pc = "unpub_clean" => r.op = "unpublish"
    /\ pc # "idle" /\ h[p].late => r.vol \in astray

(* What a staging relies on until it has mounted the volume. *)
Seen(p) ==
    LET v == h[p].req.vol
        pc == h[p].pc
    IN
    /\ pc \in OnDevice => prof[v].label # None
    /\ pc \in LuksSteps => prof[v].luks # "off"
    /\ pc \in LuksSteps \cup MountSteps => ~prof[v].block
    /\ pc = "luks_format" => disk[v] = "blank"
    /\ pc = "luks_keyslot" => disk[v] = "header"
    /\ pc \in MountSteps => fmtAndMountSource(v) # None
    /\ pc = "stage_mkfs" => ~Formatted(fmtAndMountSource(v))

(* A mapping is one that a staging of its volume has opened. *)
Mapped ==
    \A m \in Mappers : maps[m] # None =>
      LET u == maps[m]
      IN  prof[u].mapper = m /\ prof[u].luks # "off" /\ prof[u].label # None

Inv == TypeOK /\ (\A p \in Procs : Position(p) /\ Seen(p)) /\ Mapped

-----------------------------------------------------------------------------
(* kubelet waits for the answer of p, which is about v. *)
Awaits(p, v) == About(p, v) /\ ~h[p].late

(* Its view of v while it waits for the answer to r. *)
View(r, v) ==
    /\ r.op = "stage" => co[v] \in {"staging", "staged"}
    /\ r.op = "unstage" =>
         co[v] \in {"unstaging", "none"} /\ \A t \in Pods : pub[v][t] = "none"
    /\ r.op = "publish" =>
         co[v] = "staged" /\ pub[v][r.pod] \in {"publishing", "published"}
    /\ r.op = "unpublish" =>
         co[v] = "staged" /\ pub[v][r.pod] \in {"unpublishing", "none"}

Ordered(v) == \A t \in Pods : pub[v][t] # "none" => co[v] = "staged"

(* It waits for one operation on a volume at a time. *)
Kubelet ==
    /\ \A v \in Vols : Ordered(v)
    /\ \A p \in Procs, q \in Procs, v \in Vols :
         Awaits(p, v) /\ Awaits(q, v) => h[p].req = h[q].req
    /\ \A p \in Procs, v \in Vols : Awaits(p, v) => View(h[p].req, v)

-----------------------------------------------------------------------------
(* Nothing of v is left by its staging. *)
Closed(v) == mnt[v][Staging] = <<>> /\ \A m \in Mappers : maps[m] # v

Answered(p, v, op) == About(p, v) /\ h[p].pc = "done" /\ h[p].code = "OK" /\ h[p].req.op = op

Gone(v) ==
    /\ co[v] = "none" => Closed(v)
    /\ \A t \in Pods : pub[v][t] = "none" => mnt[v][t] = <<>>
    /\ \A p \in Procs :
         /\ About(p, v) /\ h[p].pc = "unstage_close" => mnt[v][Staging] = <<>>
         /\ Answered(p, v, "unstage") => Closed(v)
         /\ Answered(p, v, "unpublish") => mnt[v][h[p].req.pod] = <<>>

(* Only v is mounted on the paths of v. *)
Own(v) == \A t \in Paths : \A i \in DOMAIN mnt[v][t] : mnt[v][t][i] = v

Shown(v) ==
    /\ Own(v)
    /\ co[v] = "staged" /\ ~prof[v].block => mnt[v][Staging] # <<>>
    /\ \A t \in Pods : pub[v][t] = "published" => mnt[v][t] # <<>>
    /\ \A p \in Procs :
         /\ Answered(p, v, "stage") /\ ~prof[v].block => mnt[v][Staging] # <<>>
         /\ Answered(p, v, "publish") => mnt[v][h[p].req.pod] # <<>>

AllGone == \A v \in Vols \ astray : Gone(v)
AllShown == \A v \in Vols \ astray : Shown(v)

(* closeLuksMountSource finds what luksOpen opened: the label of a LUKS    *)
(* volume is its mapper name, as it is without a label prefix.             *)
LabelIsMapper ==
    \A f \in Profiles, v \in Vols :
      f[v].luks # "off" => f[v].label \in {f[v].mapper, None}

(* The mapper name is the name of the volume, and no two have the same.    *)
MappersDiffer ==
    \A f \in Profiles, u \in Vols, v \in Vols :
      f[u].luks # "off" /\ f[v].luks # "off" /\ f[u].mapper = f[v].mapper => u = v

-----------------------------------------------------------------------------
(* The steps between the mutex and the answer. *)
Active == Steps \ {"queued"}

(* p, and no other handler, goes on with its request. *)
OnlyMoves(p) ==
    /\ h' \in [Procs -> Handler]
    /\ \A q \in Procs \ {p} : h'[q] = h[q]
    /\ h'[p].req = h[p].req /\ h'[p].late = h[p].late
    /\ h[p].pc # "idle" /\ h'[p].pc # "idle"
    /\ \A q \in Procs : mux' = q <=> h'[q].pc \in Active

(* A handler is busy with a request kubelet can make.                      *)
LEMMA RequestOf ==
    ASSUME Inv, NEW p \in Procs, h[p].pc # "idle"
    PROVE  /\ h[p].req \in Requests /\ h[p].req.vol \in Vols
           /\ h[p].req.op \in {"publish", "unpublish"} => h[p].req.pod \in Pods
           /\ h[p].req.op \in Ops
BY NodeAssumption DEF Inv, Position, Request

(* No other handler is past the queue while p is.                          *)
LEMMA Exclusive ==
    ASSUME Inv, NEW p \in Procs, h[p].pc \in Active, NEW q \in Procs, q # p
    PROVE  h[q].pc \notin Active
BY DEF Inv, TypeOK, Active

(* What a volume is made of.                                               *)
LEMMA ProfileOf ==
    ASSUME Inv, NEW v \in Vols
    PROVE  /\ prof[v] \in Profile
           /\ prof[v].mapper \in Mappers
           /\ prof[v].label # None => prof[v].label \in Mappers
           /\ v # None /\ Host # v
<1>1. prof \in [Vols -> Profile] BY NodeAssumption DEF Inv, TypeOK
<1>2. prof[v] \in Profile BY <1>1
<1>3. v # None /\ Host # v BY NodeAssumption
<1> QED BY <1>2, <1>3 DEF Profile

(* Goto: the mutex stays with p.                                           *)
LEMMA Going ==
    ASSUME Inv, NEW p \in Procs, h[p].pc \in Active,
           NEW pc \in Active, Goto(p, pc)
    PROVE  OnlyMoves(p) /\ h'[p].pc = pc /\ h'[p].code = h[p].code
<1>1. h \in [Procs -> Handler] BY DEF Inv, TypeOK
<1>2. h' = [h EXCEPT ![p].pc = pc] /\ mux' = mux BY DEF Goto
<1>3. /\ h' \in [Procs -> Handler]
      /\ h'[p].pc = pc /\ h'[p].code = h[p].code
      /\ h'[p].req = h[p].req /\ h'[p].late = h[p].late
      /\ \A q \in Procs \ {p} : h'[q] = h[q]
  BY <1>1, <1>2 DEF Handler, Active
<1>4. \A q \in Procs : mux' = q <=> h'[q].pc \in Active
  BY <1>2, <1>3 DEF Inv, TypeOK, Active
<1>5. h[p].pc # "idle" /\ pc # "idle" BY DEF Active, Steps
<1> QED BY <1>3, <1>4, <1>5 DEF OnlyMoves

(* Reply: the mutex is free.                                               *)
LEMMA Replying ==
    ASSUME Inv, NEW p \in Procs, h[p].pc \in Active \/ (h[p].pc = "queued" /\ mux = None),
           NEW code \in Codes, Reply(p, code)
    PROVE  OnlyMoves(p) /\ h'[p].pc = "done" /\ h'[p].code = code
<1>1. h \in [Procs -> Handler] BY DEF Inv, TypeOK
<1>2. h' = [h EXCEPT ![p].pc = "done", ![p].code = code] /\ mux' = None BY DEF Reply
<1>3. /\ h' \in [Procs -> Handler]
      /\ h'[p].pc = "done" /\ h'[p].code = code
      /\ h'[p].req = h[p].req /\ h'[p].late = h[p].late
      /\ \A q \in Procs \ {p} : h'[q] = h[q]
  BY <1>1, <1>2 DEF Handler
<1>4. \A q \in Procs \ {p} : h[q].pc \notin Active
  BY NodeAssumption DEF Inv, TypeOK, Active
<1>5. \A q \in Procs : mux' = q <=> h'[q].pc \in Active
  BY <1>2, <1>3, <1>4, NodeAssumption DEF Active, Steps
<1>6. h[p].pc # "idle" BY DEF Active, Steps
<1> QED BY <1>3, <1>5, <1>6 DEF OnlyMoves

(* The state but for the handlers. *)
HostType ==
    /\ disk \in [Vols -> Contents]
    /\ maps \in [Mappers -> Vols \cup {None}]
    /\ mnt \in [Vols -> [Paths -> Seq(Vols \cup {Host})]]

(* A step of p keeps Inv if what p relies on, and what a mapping is, hold  *)
(* after it: the others rely on nothing.                                   *)
LEMMA MoveInv ==
    ASSUME Inv, NEW p \in Procs, h[p].pc \in Active \/ mux = None,
           OnlyMoves(p), UNCHANGED <<prof, attached, co, pub>>,
           astray' = astray \/ \E u \in Vols : astray' = astray \cup {u},
           faults' \in 0 .. MaxFaults, HostType', Position(p)', Seen(p)', Mapped'
    PROVE  Inv'
<1>1. TypeOK' BY DEF Inv, TypeOK, HostType, OnlyMoves, Active
<1>2. ASSUME NEW q \in Procs, q # p PROVE Position(q)' /\ Seen(q)'
  <2>1. h'[q] = h[q] BY <1>2 DEF OnlyMoves
  <2>2. h[q].pc \notin Active BY <1>2, NodeAssumption DEF Inv, TypeOK, Active
  <2>3. Position(q)' BY <2>1 DEF Inv, Position
  <2>4. Seen(q)'
    BY <2>1, <2>2 DEF Seen, Active, Steps, OnDevice, StageSteps, LuksSteps, MountSteps
  <2> QED BY <2>3, <2>4
<1> QED BY <1>1, <1>2 DEF Inv

(* A reply that leaves the host alone.                                     *)
LEMMA ReplyInv ==
    ASSUME Inv, NEW p \in Procs, h[p].pc \in Active \/ (h[p].pc = "queued" /\ mux = None),
           NEW code \in Codes, Reply(p, code), UNCHANGED <<prof, attached, co, pub>>,
           astray' = astray \/ \E u \in Vols : astray' = astray \cup {u},
           faults' \in 0 .. MaxFaults, HostType', Mapped'
    PROVE  Inv'
<1>1. OnlyMoves(p) /\ h'[p].pc = "done" BY Replying
<1>2. h'[p].req = h[p].req /\ h'[p].late = h[p].late BY <1>1 DEF OnlyMoves
<1>3. h[p].pc # "idle" BY <1>1 DEF OnlyMoves
<1>4. Position(p)'
  BY <1>1, <1>2, <1>3 DEF Inv, Position, StageSteps
<1>5. Seen(p)'
  BY <1>1 DEF Seen, OnDevice, StageSteps, LuksSteps, MountSteps
<1> QED BY <1>1, <1>4, <1>5, MoveInv

(* A plugin that has died has no handler.                                  *)
LEMMA DieInv ==
    ASSUME Inv, Die, prof' = prof, attached' = attached,
           co' \in [Vols -> {"none", "staging", "staged", "unstaging"}],
           pub' \in [Vols -> [Pods -> {"none", "publishing", "published", "unpublishing"}]],
           astray' \subseteq Vols,
           faults' \in 0 .. MaxFaults, HostType', Mapped'
    PROVE  Inv'
<1>1. \A p \in Procs : h'[p] = Idle BY DEF Die
<1>2. Idle \in Handler BY DEF Idle, Handler, Codes
<1>3. h' \in [Procs -> Handler] BY <1>2 DEF Die
<1>4. \A p \in Procs : h'[p].pc = "idle" /\ h'[p].req = NoRequest BY <1>1 DEF Idle
<1>5. \A p \in Procs : mux' = p <=> h'[p].pc \in Steps \ {"queued"}
  BY <1>4, NodeAssumption DEF Die, Steps
<1>6. TypeOK' BY <1>3, <1>5 DEF Inv, TypeOK, HostType
<1>7. NoRequest \notin Requests BY NodeAssumption DEF NoRequest, Request, Ops
<1>8. ASSUME NEW p \in Procs PROVE Position(p)' /\ Seen(p)'
  BY <1>4, <1>7
     DEF Position, Seen, OnDevice, StageSteps, LuksSteps, MountSteps
<1> QED BY <1>6, <1>8 DEF Inv

-----------------------------------------------------------------------------
(* s is what is left of t after unmounts. *)
Shorter(s, t) ==
    (t = <<>> => s = <<>>) /\ \A i \in DOMAIN s : i \in DOMAIN t /\ s[i] = t[i]

(* The mount table after a mount and after an unmount.                     *)
LEMMA MountFacts ==
    ASSUME Inv, NEW v \in Vols, NEW t \in Paths, NEW x \in Vols \cup {Host},
           MountOn(v, t, x)
    PROVE  /\ mnt' \in [Vols -> [Paths -> Seq(Vols \cup {Host})]]
           /\ mnt'[v][t] = Append(mnt[v][t], x)
           /\ \A s \in Paths \ {t} : mnt'[v][s] = mnt[v][s]
           /\ \A u \in Vols \ {v} : mnt'[u] = mnt[u]
<1>1. mnt \in [Vols -> [Paths -> Seq(Vols \cup {Host})]] BY DEF Inv, TypeOK
<1>2. Append(mnt[v][t], x) \in Seq(Vols \cup {Host}) BY <1>1
<1> QED BY <1>1, <1>2 DEF MountOn

(* What taking one mount off a path leaves. *)
LEMMA UnmountFacts ==
    ASSUME Inv, NEW v \in Vols, NEW t \in Paths,
           mnt' = [mnt EXCEPT ![v][t] = Unmounted(v, t)]
    PROVE  /\ mnt' \in [Vols -> [Paths -> Seq(Vols \cup {Host})]]
           /\ mnt'[v][t] = Unmounted(v, t)
           /\ Shorter(mnt'[v][t], mnt[v][t])
           /\ \A s \in Paths \ {t} : mnt'[v][s] = mnt[v][s]
           /\ \A u \in Vols \ {v} : mnt'[u] = mnt[u]
<1> DEFINE S == Vols \cup {Host}
<1>1. mnt \in [Vols -> [Paths -> Seq(S)]] BY DEF Inv, TypeOK
<1>2. mnt[v][t] \in Seq(S) BY <1>1
<1>3. /\ Unmounted(v, t) \in Seq(S)
      /\ Shorter(Unmounted(v, t), mnt[v][t])
  <2> HIDE DEF S
  <2> DEFINE s == mnt[v][t]
  <2>1. CASE s = <<>>
    <3>1. Unmounted(v, t) = <<>> BY <2>1 DEF Unmounted, IsMountPoint
    <3> QED BY <2>1, <3>1 DEF Shorter
  <2>2. CASE s # <<>>
    <3>1. Unmounted(v, t) = SubSeq(s, 1, Len(s) - 1) BY <2>2 DEF Unmounted, IsMountPoint
    <3>2. s \in Seq(S) BY <1>2
    <3>3. Len(s) \in Nat /\ Len(s) > 0 BY <2>2, <3>2
    <3>4. SubSeq(s, 1, Len(s) - 1) \in Seq(S) BY <3>2, <3>3
    <3>5. /\ DOMAIN SubSeq(s, 1, Len(s) - 1) = 1 .. Len(s) - 1
          /\ DOMAIN s = 1 .. Len(s)
          /\ \A i \in 1 .. Len(s) - 1 : SubSeq(s, 1, Len(s) - 1)[i] = s[i]
      BY <3>2, <3>3
    <3> QED BY <2>2, <3>1, <3>3, <3>4, <3>5 DEF Shorter
  <2> QED BY <2>1, <2>2
<1> QED BY <1>1, <1>3

(* The devices keep what FormatAndMount may not touch. *)
Kept == \A v \in Vols : Formatted(v) => disk'[v] = disk[v]

(* NodeStageVolume up to the mount: every decision to format is made on    *)
(* what is still on the device when it is carried out.                     *)
LEMMA StageInv ==
    ASSUME Inv, NEW p \in Procs,
           StageFind(p) \/ StagePoint(p) \/ StageBlkid(p) \/ StageCheck(p)
    PROVE  Inv' /\ Kept
<1> DEFINE v == h[p].req.vol
<1>1. h[p].pc \in {"stage_find", "stage_point", "stage_blkid", "stage_check"}
  BY DEF StageFind, StagePoint, StageBlkid, StageCheck, At
<1>2. h[p].pc \in Active /\ h[p].pc # "idle" BY <1>1 DEF Active, Steps
<1>3. v \in Vols /\ h[p].req.op = "stage" /\ Position(p) /\ Seen(p)
  BY <1>1, <1>2, RequestOf DEF Inv, Position, StageSteps
<1>4. UNCHANGED Local BY DEF StageFind, StagePoint, StageBlkid, StageCheck
<1>5. /\ UNCHANGED <<prof, attached, co, pub, astray>> /\ faults' \in 0 .. MaxFaults
      /\ HostType' /\ Mapped' /\ Kept
  BY <1>4 DEF Local, Inv, TypeOK, HostType, Mapped, Kept
<1>6. v # None /\ prof[v].mapper \in Mappers BY <1>3, ProfileOf
<1>7. ASSUME NEW code \in Codes, Reply(p, code) PROVE Inv'
  BY <1>2, <1>5, <1>7, ReplyInv
<1>8. ASSUME NEW pc \in OnDevice, Goto(p, pc),
             prof[v].label # None,
             pc \in LuksSteps => prof[v].luks # "off",
             pc \in LuksSteps \cup MountSteps => ~prof[v].block,
             pc = "luks_format" => disk[v] = "blank",
             pc # "luks_keyslot",
             pc \in MountSteps => fmtAndMountSource(v) # None,
             pc = "stage_mkfs" => ~Formatted(fmtAndMountSource(v))
      PROVE  Inv'
  <2>1. pc \in Active BY <1>8 DEF OnDevice, StageSteps, Active, Steps
  <2>2. OnlyMoves(p) /\ h'[p].pc = pc BY <1>2, <1>8, <2>1, Going
  <2>3. h'[p].req = h[p].req /\ h'[p].late = h[p].late BY <2>2 DEF OnlyMoves
  <2>4. Position(p)'
    BY <1>2, <1>3, <1>5, <1>8, <2>2, <2>3 DEF Position, OnDevice, StageSteps
  <2>5. UNCHANGED <<prof, disk, maps>> BY <1>4 DEF Local
  <2>6. Seen(p)' BY <1>8, <2>2, <2>3, <2>5 DEF Seen, fmtAndMountSource, Formatted
  <2> QED BY <1>2, <1>5, <2>2, <2>4, <2>6, MoveInv
<1> SUFFICES Inv' BY <1>5
<1>9. CASE StageFind(p)
  BY <1>7, <1>8, <1>9
     DEF StageFind, Codes, OnDevice, StageSteps, LuksSteps, MountSteps
<1>10. CASE StagePoint(p)
  <2>1. prof[v].label # None BY <1>3, <1>10 DEF StagePoint, At, Seen, OnDevice, StageSteps
  <2>2. CASE ~notMnt(v, Staging) \/ prof[v].block
    BY <1>7, <1>10, <2>2 DEF StagePoint, Codes
  <2>3. CASE notMnt(v, Staging) /\ ~prof[v].block /\ prof[v].luks = "off"
    <3>1. Goto(p, "stage_check") BY <1>10, <2>3 DEF StagePoint
    <3>2. fmtAndMountSource(v) # None BY <1>6, <2>3 DEF fmtAndMountSource
    <3> QED BY <1>8, <2>1, <2>3, <3>1, <3>2 DEF OnDevice, StageSteps, LuksSteps, MountSteps
  <2>4. CASE notMnt(v, Staging) /\ ~prof[v].block /\ prof[v].luks # "off"
    <3>1. Goto(p, "stage_blkid") BY <1>10, <2>4 DEF StagePoint
    <3> QED BY <1>8, <2>1, <2>4, <3>1 DEF OnDevice, StageSteps, LuksSteps, MountSteps
  <2> QED BY <2>2, <2>3, <2>4
<1>11. CASE StageBlkid(p)
  <2>1. prof[v].label # None /\ prof[v].luks # "off" /\ ~prof[v].block
    BY <1>3, <1>11 DEF StageBlkid, At, Seen, OnDevice, StageSteps, LuksSteps
  <2> QED
    BY <1>7, <1>8, <1>11, <2>1
       DEF StageBlkid, blkidValid, Codes, OnDevice, StageSteps, LuksSteps, MountSteps
<1>12. CASE StageCheck(p)
  <2>1. prof[v].label # None /\ fmtAndMountSource(v) # None /\ ~prof[v].block
    BY <1>3, <1>12 DEF StageCheck, At, Seen, OnDevice, StageSteps, MountSteps
  <2> QED
    BY <1>8, <1>12, <2>1 DEF StageCheck, OnDevice, StageSteps, LuksSteps, MountSteps
<1> QED BY <1>9, <1>10, <1>11, <1>12

(* A staging that goes on after it has changed a device or a mapping.      *)
LEMMA StageGoes ==
    ASSUME Inv, NEW p \in Procs, h[p].pc \in OnDevice,
           NEW pc \in OnDevice, Goto(p, pc),
           UNCHANGED <<prof, attached, mnt, co, pub, astray, faults>>,
           HostType', Mapped',
           pc \in LuksSteps => h[p].pc \in LuksSteps,
           pc \in MountSteps => h[p].pc \in LuksSteps \cup MountSteps,
           pc # "stage_mkfs", pc # "luks_format",
           pc = "luks_keyslot" => disk'[h[p].req.vol] = "header",
           pc \in MountSteps => maps'[prof[h[p].req.vol].mapper] # None \/ prof[h[p].req.vol].luks = "off"
    PROVE  Inv'
<1>1. h[p].pc \in Active /\ pc \in Active /\ h[p].pc # "idle"
  BY DEF OnDevice, StageSteps, Active, Steps
<1>2. OnlyMoves(p) /\ h'[p].pc = pc BY <1>1, Going
<1>3. h'[p].req = h[p].req /\ h'[p].late = h[p].late BY <1>2 DEF OnlyMoves
<1>4. Position(p) /\ Seen(p) BY DEF Inv
<1>5. Position(p)'
  BY <1>1, <1>2, <1>3, <1>4 DEF Position, OnDevice, StageSteps
<1>6. h[p].req.vol \in Vols /\ h[p].req.vol # None BY <1>1, RequestOf, ProfileOf
<1>7. Seen(p)' BY <1>2, <1>3, <1>4, <1>6 DEF Seen, fmtAndMountSource
<1>8. faults' \in 0 .. MaxFaults BY DEF Inv, TypeOK
<1> QED BY <1>1, <1>2, <1>5, <1>7, <1>8, MoveInv

(* luksFormat and luksOpen.                                                *)
LEMMA LuksInv ==
    ASSUME Inv, NEW p \in Procs,
           LuksFormat(p) \/ LuksKeyslot(p) \/ LuksActivate(p) \/ LuksOpen(p)
    PROVE  Inv' /\ Kept
<1> DEFINE v == h[p].req.vol
           m == prof[v].mapper
<1>1. h[p].pc \in {"luks_format", "luks_keyslot", "luks_activate", "luks_open"}
  BY DEF LuksFormat, LuksKeyslot, LuksActivate, LuksOpen, At
<1>2. /\ h[p].pc \in Active /\ h[p].pc # "idle" /\ h[p].pc \in OnDevice
      /\ h[p].pc \in LuksSteps
  BY <1>1 DEF Active, Steps, OnDevice, StageSteps, LuksSteps
<1>3. v \in Vols /\ Seen(p) BY <1>2, RequestOf DEF Inv
<1>4. m \in Mappers /\ v # None /\ prof[v].luks # "off" /\ prof[v].label # None
  BY <1>2, <1>3, ProfileOf DEF Seen
<1>5. HostType /\ Mapped /\ faults \in 0 .. MaxFaults BY DEF Inv, TypeOK, HostType
<1>6. UNCHANGED <<prof, attached, mnt, co, pub, astray, faults>>
  BY DEF LuksFormat, LuksKeyslot, LuksActivate, LuksOpen
<1>7. ASSUME UNCHANGED <<disk, maps>> PROVE HostType' /\ Mapped' /\ Kept
  BY <1>5, <1>6, <1>7 DEF HostType, Mapped, Kept
<1>8. ASSUME NEW code \in Codes, Reply(p, code), UNCHANGED <<disk, maps>>
      PROVE  Inv' /\ Kept
  BY <1>2, <1>5, <1>6, <1>7, <1>8, ReplyInv
<1>9. ASSUME NEW c \in Contents, disk' = [disk EXCEPT ![v] = c], maps' = maps, ~Formatted(v)
      PROVE  HostType' /\ Mapped' /\ Kept /\ disk'[v] = c
  BY <1>3, <1>5, <1>6, <1>9 DEF HostType, Mapped, Kept
<1>10. ASSUME Activate(p, v), disk' = disk
       PROVE  Inv' /\ Kept
  <2>1. maps' = [maps EXCEPT ![m] = v] /\ Goto(p, "stage_check") BY <1>10 DEF Activate
  <2>2. HostType' BY <1>3, <1>4, <1>5, <1>6, <1>10, <2>1 DEF HostType
  <2>3. Mapped' BY <1>3, <1>4, <1>5, <1>6, <2>1 DEF Mapped, HostType
  <2>4. maps'[m] = v BY <1>4, <1>5, <2>1 DEF HostType
  <2>6. Inv'
    BY <1>2, <1>4, <1>6, <2>1, <2>2, <2>3, <2>4, StageGoes
       DEF OnDevice, StageSteps, LuksSteps, MountSteps
  <2> QED BY <1>10, <2>6 DEF Kept
<1>11. CASE LuksFormat(p)
  <2>1. disk[v] = "blank" BY <1>3, <1>11 DEF LuksFormat, At, Seen
  <2>2. CASE prof[v].luks = "badsize"
    BY <1>8, <1>11, <2>2 DEF LuksFormat, Codes
  <2>3. CASE prof[v].luks = "nodash"
    <3>1. Die /\ UNCHANGED <<disk, maps>> BY <1>11, <2>3 DEF LuksFormat
    <3>2. /\ co' \in [Vols -> {"none", "staging", "staged", "unstaging"}]
          /\ pub' \in [Vols -> [Pods -> {"none", "publishing", "published", "unpublishing"}]]
          /\ astray' \subseteq Vols
      BY <1>6 DEF Inv, TypeOK
    <3> QED BY <1>5, <1>6, <1>7, <3>1, <3>2, DieInv
  <2>4. CASE prof[v].luks = "good"
    <3>1. disk' = [disk EXCEPT ![v] = "header"] /\ Goto(p, "luks_keyslot") /\ maps' = maps
      BY <1>11, <2>4 DEF LuksFormat
    <3>2. HostType' /\ Mapped' /\ Kept /\ disk'[v] = "header"
      BY <1>9, <2>1, <3>1 DEF Formatted, Contents
    <3>3. Inv'
      BY <1>2, <1>6, <3>1, <3>2, StageGoes DEF OnDevice, StageSteps, LuksSteps, MountSteps
    <3> QED BY <3>2, <3>3
  <2> QED BY <1>11, <2>2, <2>3, <2>4 DEF LuksFormat
<1>12. CASE LuksKeyslot(p)
  <2>1. disk[v] = "header" BY <1>3, <1>12 DEF LuksKeyslot, At, Seen
  <2>2. disk' = [disk EXCEPT ![v] = "luks"] /\ Goto(p, "luks_activate") /\ maps' = maps
    BY <1>12 DEF LuksKeyslot
  <2>3. HostType' /\ Mapped' /\ Kept
    BY <1>9, <2>1, <2>2 DEF Formatted, Contents
  <2>4. Inv'
    BY <1>2, <1>6, <2>2, <2>3, StageGoes DEF OnDevice, StageSteps, LuksSteps, MountSteps
  <2> QED BY <2>3, <2>4
<1>13. CASE LuksActivate(p)
  BY <1>8, <1>10, <1>13 DEF LuksActivate, Codes
<1>14. CASE LuksOpen(p)
  <2>1. disk' = disk BY <1>14 DEF LuksOpen
  <2>2. CASE Activate(p, v) BY <1>10, <2>1, <2>2
  <2>3. CASE alreadyOpen(m) /\ Goto(p, "stage_check") /\ maps' = maps
    <3>1. maps'[m] # None BY <2>3 DEF alreadyOpen
    <3>2. Inv'
      BY <1>2, <1>6, <1>7, <2>1, <2>3, <3>1, StageGoes
         DEF OnDevice, StageSteps, LuksSteps, MountSteps
    <3> QED BY <1>7, <2>1, <2>3, <3>2
  <2>4. CASE Reply(p, "Internal") /\ maps' = maps
    BY <1>8, <2>1, <2>4 DEF Codes
  <2> QED BY <1>14, <2>2, <2>3, <2>4 DEF LuksOpen
<1> QED BY <1>11, <1>12, <1>13, <1>14

(* FormatAndMount, after it has looked.                                    *)
LEMMA FormatInv ==
    ASSUME Inv, NEW p \in Procs, StageMkfs(p) \/ StageMount(p)
    PROVE  Inv' /\ Kept
<1> DEFINE v == h[p].req.vol
           u == fmtAndMountSource(v)
<1>1. h[p].pc \in {"stage_mkfs", "stage_mount"} BY DEF StageMkfs, StageMount, At
<1>2. h[p].pc \in Active /\ h[p].pc # "idle" /\ h[p].pc \in OnDevice \cap MountSteps
  BY <1>1 DEF Active, Steps, OnDevice, StageSteps, MountSteps
<1>3. v \in Vols /\ Seen(p) BY <1>2, RequestOf DEF Inv
<1>4. HostType /\ Mapped /\ faults \in 0 .. MaxFaults BY DEF Inv, TypeOK, HostType
<1>5. u # None BY <1>2, <1>3 DEF Seen
<1>6. u \in Vols
  BY <1>3, <1>4, <1>5, ProfileOf DEF fmtAndMountSource, HostType
<1>7. CASE StageMkfs(p)
  <2>1. ~Formatted(u) BY <1>3, <1>7 DEF StageMkfs, At, Seen
  <2>2. /\ UNCHANGED <<prof, attached, mnt, maps, co, pub, astray, faults>>
        /\ Goto(p, "stage_mount")
    BY <1>7 DEF StageMkfs
  <2>3. PICK c \in Contents : disk' = [disk EXCEPT ![u] = c]
    BY <1>7 DEF StageMkfs, Contents
  <2>4. Kept BY <1>4, <1>6, <2>1, <2>3 DEF Kept, HostType
  <2>5. HostType' BY <1>4, <1>6, <2>2, <2>3 DEF HostType
  <2>6. Mapped' BY <1>4, <2>2 DEF Mapped
  <2>7. maps'[prof[v].mapper] # None \/ prof[v].luks = "off"
    BY <1>5, <2>2 DEF fmtAndMountSource
  <2>8. Inv'
    BY <1>2, <2>2, <2>5, <2>6, <2>7, StageGoes DEF OnDevice, StageSteps, LuksSteps, MountSteps
  <2> QED BY <2>4, <2>8
<1>8. CASE StageMount(p)
  <2>1. /\ UNCHANGED <<prof, attached, disk, maps, co, pub, astray, faults>>
        /\ Reply(p, "OK") /\ MountOn(v, Staging, u)
    BY <1>8 DEF StageMount
  <2>2. HostType' BY <1>3, <1>4, <1>6, <2>1, MountFacts DEF HostType, Paths
  <2>3. Mapped' BY <1>4, <2>1 DEF Mapped
  <2>4. Inv' BY <1>2, <1>4, <2>1, <2>2, <2>3, ReplyInv DEF Codes
  <2> QED BY <2>1, <2>4 DEF Kept
<1> QED BY <1>7, <1>8

(* A handler that goes from one step of its operation to the next and      *)
(* leaves devices and mappings alone; not for the steps of a staging.      *)
LEMMA OtherGoes ==
    ASSUME Inv, NEW p \in Procs, h[p].pc \in Active,
           NEW pc \in Active \ StageSteps, Goto(p, pc),
           UNCHANGED <<prof, attached, disk, maps, co, pub, astray, faults>>, HostType',
           pc \in {"unstage_clean", "unstage_close"} => h[p].req.op = "unstage",
           pc \in {"pub_point", "pub_bind", "pub_block"} => h[p].req.op = "publish",
           pc \in {"pub_point", "pub_bind"} => ~prof[h[p].req.vol].block,
           pc = "unpub_clean" => h[p].req.op = "unpublish"
    PROVE  Inv'
<1>1. h[p].pc # "idle" /\ pc # "idle" BY DEF Active, Steps
<1>2. OnlyMoves(p) /\ h'[p].pc = pc BY Going
<1>3. h'[p].req = h[p].req /\ h'[p].late = h[p].late BY <1>2 DEF OnlyMoves
<1>4. Position(p) BY DEF Inv
<1>5. Position(p)' BY <1>1, <1>2, <1>3, <1>4 DEF Position
<1>6. Seen(p)' BY <1>2 DEF Seen, OnDevice, StageSteps, LuksSteps, MountSteps
<1>7. faults' \in 0 .. MaxFaults /\ Mapped' BY DEF Inv, TypeOK, Mapped
<1> QED BY <1>2, <1>5, <1>6, <1>7, MoveInv

(* NodeUnstageVolume.                                                      *)
LEMMA UnstageInv ==
    ASSUME Inv, NEW p \in Procs, UnstageClean(p) \/ UnstageClose(p)
    PROVE  Inv' /\ Kept
<1> DEFINE v == h[p].req.vol
           m == prof[v].label
<1>1. h[p].pc \in {"unstage_clean", "unstage_close"} BY DEF UnstageClean, UnstageClose, At
<1>2. h[p].pc \in Active /\ h[p].pc # "idle" BY <1>1 DEF Active, Steps
<1>3. v \in Vols /\ h[p].req.op = "unstage" BY <1>1, <1>2, RequestOf DEF Inv, Position
<1>4. HostType /\ Mapped /\ faults \in 0 .. MaxFaults BY DEF Inv, TypeOK, HostType
<1>5. CASE UnstageClean(p)
  <2>1. /\ UNCHANGED <<prof, attached, disk, maps, co, pub, astray, faults>>
        /\ mnt' = [mnt EXCEPT ![v][Staging] = Unmounted(v, Staging)]
    BY <1>5 DEF UnstageClean
  <2>2. HostType' /\ Mapped'
    BY <1>3, <1>4, <2>1, UnmountFacts DEF HostType, Paths, Mapped
  <2>3. CASE Goto(p, "unstage_close")
    BY <1>2, <1>3, <2>1, <2>2, <2>3, OtherGoes DEF Kept, Active, Steps, StageSteps
  <2>4. CASE Reply(p, "Internal")
    BY <1>2, <1>4, <2>1, <2>2, <2>4, ReplyInv DEF Kept, Codes
  <2> QED BY <1>5, <2>3, <2>4 DEF UnstageClean
<1>6. CASE UnstageClose(p)
  <2>1. UNCHANGED <<prof, attached, disk, mnt, co, pub, astray, faults>>
    BY <1>6 DEF UnstageClose
  <2>2. PICK code \in Codes : Reply(p, code) BY <1>6 DEF UnstageClose, Codes
  <2>3. HostType' /\ Mapped'
    <3>1. CASE maps' = maps BY <1>4, <2>1, <3>1 DEF HostType, Mapped
    <3>2. CASE m # None /\ maps' = closed(m)
      BY <1>3, <1>4, <2>1, <3>2, ProfileOf DEF HostType, Mapped, closed
    <3> QED BY <1>6, <3>1, <3>2 DEF UnstageClose
  <2> QED BY <1>2, <1>4, <2>1, <2>2, <2>3, ReplyInv DEF Kept
<1> QED BY <1>5, <1>6

(* NodePublishVolume and NodeUnpublishVolume.                              *)
LEMMA PublishInv ==
    ASSUME Inv, NEW p \in Procs,
           PubPoint(p) \/ PubBind(p) \/ PubBlock(p) \/ UnpubClean(p)
    PROVE  Inv' /\ Kept
<1> DEFINE r == h[p].req
<1>1. h[p].pc \in {"pub_point", "pub_bind", "pub_block", "unpub_clean"}
  BY DEF PubPoint, PubBind, PubBlock, UnpubClean, At
<1>2. h[p].pc \in Active /\ h[p].pc # "idle" BY <1>1 DEF Active, Steps
<1>3. r.vol \in Vols /\ r.pod \in Pods /\ Position(p)
  BY <1>1, <1>2, RequestOf DEF Inv, Position
<1>4. HostType /\ Mapped /\ faults \in 0 .. MaxFaults BY DEF Inv, TypeOK, HostType
<1>5. UNCHANGED <<prof, attached, disk, maps, co, pub, astray, faults>>
  BY DEF PubPoint, PubBind, PubBlock, UnpubClean, Local
<1>6. Kept /\ Mapped' BY <1>4, <1>5 DEF Kept, Mapped
<1>7. HostType'
  <2>1. CASE mnt' = mnt BY <1>4, <1>5, <2>1 DEF HostType
  <2>2. ASSUME NEW x \in Vols \cup {Host}, MountOn(r.vol, r.pod, x) PROVE HostType'
    BY <1>3, <1>4, <1>5, <2>2, MountFacts DEF HostType, Paths
  <2>3. CASE mnt' = [mnt EXCEPT ![r.vol][r.pod] = Unmounted(r.vol, r.pod)]
    BY <1>3, <1>4, <1>5, <2>3, UnmountFacts DEF HostType, Paths
  <2>4. Top(r.vol, Staging) \in Vols \cup {Host}
    <3>1. mnt[r.vol][Staging] \in Seq(Vols \cup {Host}) BY <1>3, <1>4 DEF HostType, Paths
    <3> QED BY <3>1 DEF Top, IsMountPoint
  <2> QED
    BY <1>3, <2>1, <2>2, <2>3, <2>4 DEF PubPoint, PubBind, PubBlock, UnpubClean, Local
<1>8. CASE \E code \in Codes : Reply(p, code)
  BY <1>2, <1>4, <1>5, <1>6, <1>7, <1>8, ReplyInv
<1>9. CASE PubPoint(p) /\ Goto(p, "pub_bind")
  <2>1. r.op = "publish" /\ ~prof[r.vol].block BY <1>3, <1>9 DEF PubPoint, At, Position
  <2> QED
    BY <1>2, <1>5, <1>6, <1>7, <1>9, <2>1, OtherGoes DEF Active, Steps, StageSteps
<1> QED BY <1>8, <1>9 DEF PubPoint, PubBind, PubBlock, UnpubClean, Codes

(* A close that fails unreported leaves a volume open.                     *)
LEMMA SwallowedFacts ==
    ASSUME Inv, NEW p \in Procs, CloseSwallowed(p)
    PROVE  /\ h[p].pc = "unstage_close" /\ h[p].pc \in Active /\ Reply(p, "OK")
           /\ prof[h[p].req.vol].label \in Mappers
           /\ maps[prof[h[p].req.vol].label] \in Vols
           /\ astray' = astray \cup {maps[prof[h[p].req.vol].label]}
<1>1. h[p].pc = "unstage_close" BY DEF CloseSwallowed, At
<1>2. h[p].pc \in Active /\ h[p].pc # "idle" BY <1>1 DEF Active, Steps
<1>3. prof[h[p].req.vol].label \in Mappers BY <1>2, RequestOf, ProfileOf DEF CloseSwallowed
<1> QED BY <1>1, <1>2, <1>3 DEF CloseSwallowed, Inv, TypeOK

(* Lock and HostError.                                                     *)
LEMMA LockInv ==
    ASSUME Inv, NEW p \in Procs, Lock(p) \/ HostError(p)
    PROVE  Inv' /\ Kept
<1> DEFINE r == h[p].req
<1>1. HostType /\ Mapped /\ faults \in 0 .. MaxFaults BY DEF Inv, TypeOK, HostType
<1>2. CASE HostError(p)
  <2>1. UNCHANGED <<prof, attached, disk, maps, mnt, co, pub>>
    BY <1>2 DEF HostError, host
  <2>2. faults' \in 0 .. MaxFaults BY <1>1, <1>2, NodeAssumption DEF HostError, Fault
  <2>3. HostType' /\ Mapped' /\ Kept BY <1>1, <2>1 DEF HostType, Mapped, Kept
  <2>4. PICK code \in Codes :
          /\ h[p].pc \in Active /\ Reply(p, code)
          /\ astray' = astray \/ \E u \in Vols : astray' = astray \cup {u}
    <3>1. CASE HostErrorReported(p) BY <3>1 DEF HostErrorReported, Active, Codes
    <3>2. CASE CloseSwallowed(p) BY <3>2, SwallowedFacts DEF Codes
    <3> QED BY <1>2, <3>1, <3>2 DEF HostError
  <2> QED BY <2>1, <2>2, <2>3, <2>4, ReplyInv
<1>3. CASE Lock(p)
  <2>1. /\ h[p].pc = "queued" /\ mux = None
        /\ UNCHANGED <<prof, attached, disk, maps, mnt, co, pub, astray, faults>>
    BY <1>3 DEF Lock, At, Lockable, Local
  <2>2. HostType' /\ Mapped' /\ Kept BY <1>1, <2>1 DEF HostType, Mapped, Kept
  <2>3. CASE ~r.complete
    <3>1. Reply(p, "InvalidArgument") BY <1>3, <2>3 DEF Lock
    <3> QED BY <1>1, <2>1, <2>2, <3>1, ReplyInv DEF Codes
  <2>4. CASE r.complete
    <3>1. h' = [h EXCEPT ![p].pc = FirstStep(r)] /\ mux' = p BY <1>3, <2>4 DEF Lock
    <3>2. r.vol \in Vols /\ r.op \in Ops /\ Position(p) BY <2>1, RequestOf DEF Inv
    <3>3. /\ FirstStep(r) \in {"stage_find", "unstage_clean", "pub_block", "pub_point", "unpub_clean"}
          /\ FirstStep(r) = "stage_find" => r.op = "stage"
          /\ FirstStep(r) = "unstage_clean" => r.op = "unstage"
          /\ FirstStep(r) \in {"pub_block", "pub_point"} => r.op = "publish"
          /\ FirstStep(r) = "pub_point" => ~prof[r.vol].block
          /\ FirstStep(r) = "unpub_clean" => r.op = "unpublish"
      BY <3>2 DEF FirstStep, Ops
    <3>4. FirstStep(r) \in Active BY <3>3 DEF Active, Steps
    <3>5. h \in [Procs -> Handler] BY DEF Inv, TypeOK
    <3>6. /\ h' \in [Procs -> Handler] /\ h'[p].pc = FirstStep(r)
          /\ h'[p].req = r /\ h'[p].late = h[p].late
          /\ \A q \in Procs \ {p} : h'[q] = h[q]
      BY <3>1, <3>4, <3>5 DEF Handler, Active
    <3>7. \A q \in Procs \ {p} : h[q].pc \notin Active
      BY <2>1, NodeAssumption DEF Inv, TypeOK, Active
    <3>8. OnlyMoves(p)
      BY <2>1, <3>1, <3>3, <3>4, <3>6, <3>7 DEF OnlyMoves
    <3>9. Position(p)'
      BY <2>1, <3>2, <3>3, <3>6 DEF Position, StageSteps
    <3>10. Seen(p)'
      BY <3>3, <3>6 DEF Seen, OnDevice, StageSteps, LuksSteps, MountSteps
    <3> QED BY <1>1, <2>1, <2>2, <3>8, <3>9, <3>10, MoveInv
  <2> QED BY <2>3, <2>4
<1> QED BY <1>2, <1>3

(* The plugin dies, with or without its host.                              *)
LEMMA CrashInv ==
    ASSUME Inv, Crash \/ Reboot
    PROVE  Inv' /\ Kept
<1>1. HostType /\ Mapped /\ faults \in 0 .. MaxFaults BY DEF Inv, TypeOK, HostType
<1>2. faults' \in 0 .. MaxFaults BY <1>1, NodeAssumption DEF Crash, Reboot, Fault
<1>3. Die /\ UNCHANGED <<prof, attached, disk>> BY DEF Crash, Reboot, host
<1>4. CASE Crash
  <2>1. UNCHANGED <<maps, mnt, co, pub, astray>> BY <1>4 DEF Crash, host
  <2>2. HostType' /\ Mapped' BY <1>1, <1>3, <2>1 DEF HostType, Mapped
  <2>3. /\ co' \in [Vols -> {"none", "staging", "staged", "unstaging"}]
        /\ pub' \in [Vols -> [Pods -> {"none", "publishing", "published", "unpublishing"}]]
        /\ astray' \subseteq Vols
    BY <2>1 DEF Inv, TypeOK
  <2> QED BY <1>2, <1>3, <2>2, <2>3, DieInv DEF Kept
<1>5. CASE Reboot
  <2>1. /\ co' \in [Vols -> {"none", "staging", "staged", "unstaging"}]
        /\ pub' \in [Vols -> [Pods -> {"none", "publishing", "published", "unpublishing"}]]
        /\ astray' \subseteq Vols
    BY <1>5 DEF Reboot
  <2>2. <<>> \in Seq(Vols \cup {Host}) OBVIOUS
  <2>3. HostType' BY <1>1, <1>3, <1>5, <2>2 DEF Reboot, HostType
  <2>4. Mapped' BY <1>5 DEF Reboot, Mapped
  <2> QED BY <1>2, <1>3, <2>1, <2>3, <2>4, DieInv DEF Kept
<1> QED BY <1>4, <1>5

-----------------------------------------------------------------------------
(* kubelet's steps, pointwise.                                             *)
LEMMA CallFacts ==
    ASSUME Inv, NEW p \in Procs, NEW r \in Requests, Call(p, r)
    PROVE  /\ h[p].pc = "idle" /\ Allowed(r)
           /\ h' \in [Procs -> Handler]
           /\ h'[p].pc = "queued" /\ h'[p].req = r /\ ~h'[p].late
           /\ \A q \in Procs \ {p} : h'[q] = h[q]
           /\ co' \in [Vols -> {"none", "staging", "staged", "unstaging"}]
           /\ \A u \in Vols : co'[u] =
                IF u = r.vol /\ r.op = "stage" /\ co[u] # "staged" THEN "staging"
                ELSE IF u = r.vol /\ r.op = "unstage" THEN "unstaging" ELSE co[u]
           /\ pub' \in [Vols -> [Pods -> {"none", "publishing", "published", "unpublishing"}]]
           /\ \A u \in Vols, t \in Pods : pub'[u][t] =
                IF u = r.vol /\ t = r.pod /\ r.op = "publish" /\ pub[u][t] = "none" THEN "publishing"
                ELSE IF u = r.vol /\ t = r.pod /\ r.op = "unpublish" THEN "unpublishing"
                ELSE pub[u][t]
           /\ UNCHANGED <<prof, attached, disk, maps, mnt, mux, astray, faults>>
<1>1. /\ h \in [Procs -> Handler]
      /\ co \in [Vols -> {"none", "staging", "staged", "unstaging"}]
      /\ pub \in [Vols -> [Pods -> {"none", "publishing", "published", "unpublishing"}]]
  BY DEF Inv, TypeOK
<1>2. r.vol \in Vols /\ r.op \in Ops /\ (r.op \in {"publish", "unpublish"} => r.pod \in Pods)
  BY NodeAssumption DEF Request
<1>3. h[p].pc = "idle" /\ Allowed(r) BY DEF Call, At
<1>4. h' = [h EXCEPT ![p] = [pc |-> "queued", req |-> r, code |-> "OK", late |-> FALSE]]
  BY DEF Call
<1>5. [pc |-> "queued", req |-> r, code |-> "OK", late |-> FALSE] \in Handler
  BY DEF Handler, Steps, Codes
<1>6. /\ h' \in [Procs -> Handler]
      /\ h'[p].pc = "queued" /\ h'[p].req = r /\ ~h'[p].late
      /\ \A q \in Procs \ {p} : h'[q] = h[q]
  BY <1>1, <1>4, <1>5
<1>7. /\ co' \in [Vols -> {"none", "staging", "staged", "unstaging"}]
      /\ \A u \in Vols : co'[u] =
           IF u = r.vol /\ r.op = "stage" /\ co[u] # "staged" THEN "staging"
           ELSE IF u = r.vol /\ r.op = "unstage" THEN "unstaging" ELSE co[u]
  <2>1. CASE r.op = "stage" /\ co[r.vol] # "staged"
    <3>1. co' = [co EXCEPT ![r.vol] = "staging"] BY <2>1 DEF Call
    <3> QED BY <1>1, <1>2, <2>1, <3>1
  <2>2. CASE r.op = "unstage"
    <3>1. co' = [co EXCEPT ![r.vol] = "unstaging"] BY <2>2 DEF Call
    <3> QED BY <1>1, <1>2, <2>2, <3>1
  <2>3. CASE ~(r.op = "stage" /\ co[r.vol] # "staged") /\ r.op # "unstage"
    <3>1. co' = co BY <2>3 DEF Call
    <3> QED BY <1>1, <2>3, <3>1
  <2> QED BY <2>1, <2>2, <2>3
<1>8. /\ pub' \in [Vols -> [Pods -> {"none", "publishing", "published", "unpublishing"}]]
      /\ \A u \in Vols, t \in Pods : pub'[u][t] =
           IF u = r.vol /\ t = r.pod /\ r.op = "publish" /\ pub[u][t] = "none" THEN "publishing"
           ELSE IF u = r.vol /\ t = r.pod /\ r.op = "unpublish" THEN "unpublishing"
           ELSE pub[u][t]
  <2>1. CASE r.op = "publish" /\ pub[r.vol][r.pod] = "none"
    <3>1. pub' = [pub EXCEPT ![r.vol][r.pod] = "publishing"] BY <2>1 DEF Call
    <3> QED BY <1>1, <1>2, <2>1, <3>1
  <2>2. CASE r.op = "unpublish"
    <3>1. pub' = [pub EXCEPT ![r.vol][r.pod] = "unpublishing"] BY <2>2 DEF Call
    <3> QED BY <1>1, <1>2, <2>2, <3>1
  <2>3. CASE ~(r.op = "publish" /\ pub[r.vol][r.pod] = "none") /\ r.op # "unpublish"
    <3>1. pub' = pub BY <2>3 DEF Call
    <3> QED BY <1>1, <2>3, <3>1
  <2> QED BY <2>1, <2>2, <2>3
<1>9. UNCHANGED <<prof, attached, disk, maps, mnt, mux, astray, faults>> BY DEF Call, host
<1> QED BY <1>3, <1>6, <1>7, <1>8, <1>9

(* What delivering an answer changes. *)
LEMMA ReturnFacts ==
    ASSUME Inv, NEW p \in Procs, Return(p)
    PROVE  LET r == h[p].req
               ok == h[p].code = "OK" /\ ~h[p].late
           IN
           /\ h[p].pc = "done"
           /\ h' \in [Procs -> Handler]
           /\ h'[p] = Idle
           /\ \A q \in Procs \ {p} : h'[q] = h[q]
           /\ co' \in [Vols -> {"none", "staging", "staged", "unstaging"}]
           /\ \A u \in Vols : co'[u] =
                IF u = r.vol /\ r.op = "stage" /\ ok THEN "staged"
                ELSE IF u = r.vol /\ r.op = "unstage" /\ ok THEN "none" ELSE co[u]
           /\ pub' \in [Vols -> [Pods -> {"none", "publishing", "published", "unpublishing"}]]
           /\ \A u \in Vols, t \in Pods : pub'[u][t] =
                IF u = r.vol /\ t = r.pod /\ r.op = "publish" /\ ok THEN "published"
                ELSE IF u = r.vol /\ t = r.pod /\ r.op = "unpublish" /\ ok THEN "none"
                ELSE pub[u][t]
           /\ UNCHANGED <<prof, attached, disk, maps, mnt, mux, astray, faults>>
<1> DEFINE r == h[p].req
           ok == h[p].code = "OK" /\ ~h[p].late
<1>1. /\ h \in [Procs -> Handler]
      /\ co \in [Vols -> {"none", "staging", "staged", "unstaging"}]
      /\ pub \in [Vols -> [Pods -> {"none", "publishing", "published", "unpublishing"}]]
  BY DEF Inv, TypeOK
<1>2. h[p].pc = "done" BY DEF Return, At
<1>3. r.vol \in Vols /\ r.op \in Ops /\ (r.op \in {"publish", "unpublish"} => r.pod \in Pods)
  BY <1>2, RequestOf
<1>4. Idle \in Handler BY DEF Idle, Handler, Codes
<1>5. h' \in [Procs -> Handler] /\ h'[p] = Idle /\ \A q \in Procs \ {p} : h'[q] = h[q]
  BY <1>1, <1>4 DEF Return
<1>6. /\ co' \in [Vols -> {"none", "staging", "staged", "unstaging"}]
      /\ \A u \in Vols : co'[u] =
           IF u = r.vol /\ r.op = "stage" /\ ok THEN "staged"
           ELSE IF u = r.vol /\ r.op = "unstage" /\ ok THEN "none" ELSE co[u]
  <2>1. CASE r.op = "stage" /\ ok
    <3>1. co' = [co EXCEPT ![r.vol] = "staged"] BY <2>1 DEF Return
    <3> QED BY <1>1, <1>3, <2>1, <3>1
  <2>2. CASE r.op = "unstage" /\ ok
    <3>1. co' = [co EXCEPT ![r.vol] = "none"] BY <2>2 DEF Return
    <3> QED BY <1>1, <1>3, <2>2, <3>1
  <2>3. CASE ~(r.op = "stage" /\ ok) /\ ~(r.op = "unstage" /\ ok)
    <3>1. co' = co BY <2>3 DEF Return
    <3> QED BY <1>1, <2>3, <3>1
  <2> QED BY <2>1, <2>2, <2>3
<1>7. /\ pub' \in [Vols -> [Pods -> {"none", "publishing", "published", "unpublishing"}]]
      /\ \A u \in Vols, t \in Pods : pub'[u][t] =
           IF u = r.vol /\ t = r.pod /\ r.op = "publish" /\ ok THEN "published"
           ELSE IF u = r.vol /\ t = r.pod /\ r.op = "unpublish" /\ ok THEN "none"
           ELSE pub[u][t]
  <2>1. CASE r.op = "publish" /\ ok
    <3>1. pub' = [pub EXCEPT ![r.vol][r.pod] = "published"] BY <2>1 DEF Return
    <3> QED BY <1>1, <1>3, <2>1, <3>1
  <2>2. CASE r.op = "unpublish" /\ ok
    <3>1. pub' = [pub EXCEPT ![r.vol][r.pod] = "none"] BY <2>2 DEF Return
    <3> QED BY <1>1, <1>3, <2>2, <3>1
  <2>3. CASE ~(r.op = "publish" /\ ok) /\ ~(r.op = "unpublish" /\ ok)
    <3>1. pub' = pub BY <2>3 DEF Return
    <3> QED BY <1>1, <2>3, <3>1
  <2> QED BY <2>1, <2>2, <2>3
<1>8. UNCHANGED <<prof, attached, disk, maps, mnt, mux, astray, faults>> BY DEF Return, host
<1> QED BY <1>2, <1>5, <1>6, <1>7, <1>8

(* A call that kubelet gives up runs on, marked astray. *)
LEMMA AbandonFacts ==
    ASSUME Inv, NEW p \in Procs, Abandon(p)
    PROVE  /\ h[p].pc # "idle" /\ ~h[p].late
           /\ h' \in [Procs -> Handler]
           /\ h'[p].pc = h[p].pc /\ h'[p].req = h[p].req /\ h'[p].code = h[p].code
           /\ h'[p].late
           /\ \A q \in Procs \ {p} : h'[q] = h[q]
           /\ astray' = astray \cup {h[p].req.vol}
           /\ faults' \in 0 .. MaxFaults
           /\ UNCHANGED <<prof, attached, disk, maps, mnt, mux, co, pub>>
<1>1. h \in [Procs -> Handler] /\ faults \in 0 .. MaxFaults BY DEF Inv, TypeOK
<1>2. h' = [h EXCEPT ![p].late = TRUE] BY DEF Abandon
<1>3. /\ h' \in [Procs -> Handler]
      /\ h'[p].pc = h[p].pc /\ h'[p].req = h[p].req /\ h'[p].code = h[p].code
      /\ h'[p].late
      /\ \A q \in Procs \ {p} : h'[q] = h[q]
  BY <1>1, <1>2 DEF Handler
<1>4. faults' \in 0 .. MaxFaults BY <1>1, NodeAssumption DEF Abandon, Fault
<1> QED BY <1>3, <1>4 DEF Abandon, Busy, host

(* A call that arrives, and an answer, leave the mutex alone.              *)
LEMMA MutexKept ==
    ASSUME Inv, NEW p \in Procs, h[p].pc \notin Active, h'[p].pc \notin Active,
           mux' = mux, \A q \in Procs \ {p} : h'[q] = h[q]
    PROVE  \A q \in Procs : mux' = q <=> h'[q].pc \in Active
BY DEF Inv, TypeOK, Active

(* Calls, answers and the cloud attaching and detaching keep the invariant. *)
LEMMA KubeletStepsInv ==
    ASSUME Inv,
           \/ \E p \in Procs, r \in Requests : Call(p, r)
           \/ \E p \in Procs : Return(p) \/ Abandon(p)
           \/ \E v \in Vols : Attach(v) \/ Detach(v)
    PROVE  Inv' /\ Kept
<1>1. HostType /\ Mapped BY DEF Inv, TypeOK, HostType
<1>2. NoRequest \notin Requests BY NodeAssumption DEF NoRequest, Request, Ops
<1>3. ASSUME UNCHANGED <<prof, disk, maps, mnt>> PROVE HostType' /\ Mapped' /\ Kept
  BY <1>1, <1>3 DEF HostType, Mapped, Kept
<1>4. ASSUME NEW p \in Procs, NEW r \in Requests, Call(p, r) PROVE Inv' /\ Kept
  <2> USE <1>4, CallFacts
  <2>1. h[p].pc = "idle" /\ h'[p].pc = "queued" OBVIOUS
  <2>2. \A q \in Procs : mux' = q <=> h'[q].pc \in Steps \ {"queued"}
    <3>1. h[p].pc \notin Active /\ h'[p].pc \notin Active BY <2>1 DEF Active, Steps
    <3>2. mux' = mux /\ \A q \in Procs \ {p} : h'[q] = h[q] OBVIOUS
    <3> QED BY <3>1, <3>2, MutexKept DEF Active
  <2>3. TypeOK' BY <2>2 DEF Inv, TypeOK
  <2>4. Position(p)' BY <1>2, <2>1 DEF Position, StageSteps
  <2>5. Seen(p)' BY <2>1 DEF Seen, OnDevice, StageSteps, LuksSteps, MountSteps
  <2>6. \A q \in Procs \ {p} : Position(q)' /\ Seen(q)'
    BY DEF Inv, Position, Seen, fmtAndMountSource, Formatted
  <2> QED BY <1>3, <2>3, <2>4, <2>5, <2>6 DEF Inv
<1>5. ASSUME NEW p \in Procs, Return(p) PROVE Inv' /\ Kept
  <2> USE <1>5, ReturnFacts
  <2>1. h[p].pc = "done" /\ h'[p].pc = "idle" /\ h'[p].req = NoRequest BY DEF Idle
  <2>2. \A q \in Procs : mux' = q <=> h'[q].pc \in Steps \ {"queued"}
    <3>1. h[p].pc \notin Active /\ h'[p].pc \notin Active BY <2>1 DEF Active, Steps
    <3>2. mux' = mux /\ \A q \in Procs \ {p} : h'[q] = h[q] OBVIOUS
    <3> QED BY <3>1, <3>2, MutexKept DEF Active
  <2>3. TypeOK' BY <2>2 DEF Inv, TypeOK
  <2>4. Position(p)' BY <1>2, <2>1 DEF Position, StageSteps
  <2>5. Seen(p)' BY <2>1 DEF Seen, OnDevice, StageSteps, LuksSteps, MountSteps
  <2>6. \A q \in Procs \ {p} : Position(q)' /\ Seen(q)'
    BY DEF Inv, Position, Seen, fmtAndMountSource, Formatted
  <2> QED BY <1>3, <2>3, <2>4, <2>5, <2>6 DEF Inv
<1>6. ASSUME NEW p \in Procs, Abandon(p) PROVE Inv' /\ Kept
  <2> USE <1>6, AbandonFacts
  <2>1. h[p].req.vol \in Vols BY RequestOf
  <2>2. TypeOK'
    <3>1. \A q \in Procs : h'[q].pc = h[q].pc OBVIOUS
    <3>2. \A q \in Procs : mux' = q <=> h'[q].pc \in Steps \ {"queued"}
      BY <3>1 DEF Inv, TypeOK
    <3> QED BY <2>1, <3>2 DEF Inv, TypeOK
  <2>3. \A q \in Procs : Position(q)' /\ Seen(q)'
    BY DEF Inv, Position, Seen, fmtAndMountSource, Formatted
  <2> QED BY <1>3, <2>2, <2>3 DEF Inv
<1>7. ASSUME NEW v \in Vols, Attach(v) \/ Detach(v) PROVE Inv' /\ Kept
  <2>1. UNCHANGED <<prof, disk, maps, mnt, h, mux, co, pub, astray, faults>> /\ attached' \subseteq Vols
    BY <1>7 DEF Attach, Detach, Inv, TypeOK
  <2>2. TypeOK' BY <2>1 DEF Inv, TypeOK
  <2>3. \A q \in Procs : Position(q)' /\ Seen(q)'
    BY <2>1 DEF Inv, Position, Seen, fmtAndMountSource, Formatted
  <2> QED BY <1>3, <2>1, <2>2, <2>3 DEF Inv
<1> QED BY <1>4, <1>5, <1>6, <1>7

(* Every step keeps the invariant. *)
LEMMA NextInv ==
    ASSUME Inv, [Next]_vars
    PROVE  Inv' /\ Kept
<1>1. ASSUME NEW p \in Procs, HandlerStep(p) PROVE Inv' /\ Kept
  BY <1>1, StageInv, LuksInv, FormatInv, UnstageInv, PublishInv DEF HandlerStep
<1>2. CASE UNCHANGED vars
  <2> USE <1>2 DEF vars
  <2>1. TypeOK' BY DEF Inv, TypeOK
  <2>2. \A q \in Procs : Position(q)' /\ Seen(q)'
    BY DEF Inv, Position, Seen, fmtAndMountSource, Formatted
  <2>3. Mapped' /\ Kept BY DEF Inv, Mapped, Kept
  <2> QED BY <2>1, <2>2, <2>3 DEF Inv
<1> QED BY <1>1, <1>2, LockInv, CrashInv, KubeletStepsInv DEF Next

(* The invariant at the start. *)
LEMMA InitInv == Init => Inv
<1> SUFFICES ASSUME Init PROVE Inv OBVIOUS
<1> USE DEF Init
<1>1. Idle \in Handler BY DEF Idle, Handler, Codes
<1>2. <<>> \in Seq(Vols \cup {Host}) OBVIOUS
<1>3. \A p \in Procs : h[p].pc = "idle" /\ h[p].req = NoRequest BY DEF Idle
<1>4. \A p \in Procs : mux = p <=> h[p].pc \in Steps \ {"queued"}
  BY <1>3, NodeAssumption DEF Steps
<1>5. faults \in 0 .. MaxFaults BY NodeAssumption
<1>6. TypeOK BY <1>1, <1>2, <1>4, <1>5 DEF TypeOK, Contents
<1>7. NoRequest \notin Requests BY NodeAssumption DEF NoRequest, Request, Ops
<1>8. \A p \in Procs : Position(p) /\ Seen(p)
  BY <1>3, <1>7 DEF Position, Seen, OnDevice, StageSteps, LuksSteps, MountSteps
<1>9. Mapped BY DEF Mapped
<1> QED BY <1>6, <1>8, <1>9 DEF Inv

(* The invariant holds in every reachable state. *)
LEMMA Inductive == Spec => []Inv
BY InitInv, NextInv, PTL DEF Spec

(***************************************************************************)
(* TypeOK for any number of volumes and handlers: in particular the mutex  *)
(* is held by exactly the one handler that is past the queue and has not   *)
(* answered.                                                               *)
(***************************************************************************)
THEOREM NodeTypeCorrect == Spec => []TypeOK
BY Inductive, PTL DEF Inv

(***************************************************************************)
(* No file system is ever formatted over, whatever the volumes are and     *)
(* however their mapper names collide: between the look at a device and    *)
(* the format nobody else writes on it, and after a crash the next staging *)
(* looks again.                                                            *)
(***************************************************************************)
THEOREM FormattedOnce == Spec => NeverReformatted
<1>1. Inv /\ [Next]_vars => [\A v \in Vols : Formatted(v) => disk'[v] = disk[v]]_vars
  BY NextInv DEF Kept
<1> QED BY <1>1, Inductive, PTL DEF Spec, NeverReformatted

-----------------------------------------------------------------------------
(* Whatever the plugin does, kubelet's view stays as it is.                *)
LEMMA StepShape ==
    ASSUME Inv, NEW p \in Procs, Lock(p) \/ HandlerStep(p) \/ HostError(p)
    PROVE  /\ UNCHANGED <<prof, co, pub>> /\ astray \subseteq astray'
           /\ OnlyMoves(p) \/ (Die /\ UNCHANGED <<maps, mnt>>)
<1>1. UNCHANGED <<prof, co, pub>> /\ astray \subseteq astray'
  BY DEF HostErrorReported, CloseSwallowed, Lock, HostError, host, Local, HandlerStep, StageFind, StagePoint, StageBlkid,
         LuksFormat, LuksKeyslot, LuksActivate, LuksOpen, StageCheck, StageMkfs,
         StageMount, UnstageClean, UnstageClose, PubPoint, PubBind, PubBlock, UnpubClean
<1>2. CASE Lock(p)
  <2>1. h[p].pc = "queued" /\ mux = None BY <1>2 DEF Lock, At, Lockable
  <2>2. CASE ~h[p].req.complete
    <3>1. Reply(p, "InvalidArgument") BY <1>2, <2>2 DEF Lock
    <3> QED BY <1>1, <2>1, <3>1, Replying DEF Codes
  <2>3. CASE h[p].req.complete
    <3>1. h' = [h EXCEPT ![p].pc = FirstStep(h[p].req)] /\ mux' = p BY <1>2, <2>3 DEF Lock
    <3>2. h[p].req.op \in Ops BY <2>1, RequestOf
    <3>3. FirstStep(h[p].req) \in Active BY <3>2 DEF FirstStep, Ops, Active, Steps
    <3>4. h \in [Procs -> Handler] BY DEF Inv, TypeOK
    <3>5. /\ h' \in [Procs -> Handler] /\ h'[p].pc \in Active
          /\ h'[p].req = h[p].req /\ h'[p].late = h[p].late
          /\ \A q \in Procs \ {p} : h'[q] = h[q]
      BY <3>1, <3>3, <3>4 DEF Handler, Active
    <3>6. \A q \in Procs \ {p} : h[q].pc \notin Active
      BY <2>1, NodeAssumption DEF Inv, TypeOK, Active
    <3>7. h'[p].pc # "idle" BY <3>5 DEF Active, Steps
    <3> QED BY <1>1, <2>1, <3>1, <3>5, <3>6, <3>7 DEF OnlyMoves
  <2> QED BY <2>2, <2>3
<1>3. CASE HandlerStep(p) \/ HostError(p)
  <2>1. h[p].pc \in Active
    BY <1>3 DEF HostError, HostErrorReported, CloseSwallowed, HandlerStep, StageFind, StagePoint, StageBlkid, LuksFormat,
       LuksKeyslot, LuksActivate, LuksOpen, StageCheck, StageMkfs, StageMount, UnstageClean,
       UnstageClose, PubPoint, PubBind, PubBlock, UnpubClean, At, Active, Steps
  <2>2. \/ Die /\ UNCHANGED <<maps, mnt>>
        \/ \E code \in Codes : Reply(p, code)
        \/ \E pc \in Active : Goto(p, pc)
    BY <1>3 DEF HostError, HostErrorReported, CloseSwallowed, HandlerStep, StageFind,
       StagePoint, StageBlkid, LuksFormat, LuksKeyslot, LuksActivate, LuksOpen, Activate, StageCheck, StageMkfs, StageMount,
       UnstageClean, UnstageClose, PubPoint, PubBind, PubBlock, UnpubClean, Codes, Active, Steps
  <2> QED BY <1>1, <2>1, <2>2, Replying, Going
<1> QED BY <1>2, <1>3

(* A step after which kubelet waits only for the answer to r about w, and  *)
(* for what it waited for before about the other volumes.                  *)
LEMMA ViewStep ==
    ASSUME Kubelet, NEW w \in Vols, NEW r,
           \A v \in Vols \ {w} : co'[v] = co[v] /\ \A t \in Pods : pub'[v][t] = pub[v][t],
           \A q \in Procs, v \in Vols \ {w} :
             Awaits(q, v)' => Awaits(q, v) /\ h'[q].req = h[q].req,
           \A q \in Procs : Awaits(q, w)' => h'[q].req = r,
           View(r, w)', Ordered(w)',
           \A q \in Procs :
             Awaits(q, w)' /\ r.op \in {"publish", "unpublish"} => r.pod \in Pods,
           \A q \in Procs, v \in Vols :
             Awaits(q, v) /\ h[q].req.op \in {"publish", "unpublish"} => h[q].req.pod \in Pods
    PROVE  Kubelet'
<1>1. \A v \in Vols : Ordered(v)' BY DEF Kubelet, Ordered
<1>2. \A p \in Procs, q \in Procs, v \in Vols :
        Awaits(p, v)' /\ Awaits(q, v)' => h'[p].req = h'[q].req
  BY DEF Kubelet
<1>3. ASSUME NEW p \in Procs, NEW v \in Vols, Awaits(p, v)'
      PROVE  View(h[p].req, v)'
  <2>1. CASE v = w BY <1>3, <2>1 DEF View
  <2>2. CASE v # w
    <3>1. View(h[p].req, v) /\ h'[p].req = h[p].req BY <1>3, <2>2 DEF Kubelet
    <3>2. co'[v] = co[v] /\ \A t \in Pods : pub'[v][t] = pub[v][t] BY <2>2
    <3>3. h[p].req.op \in {"publish", "unpublish"} => h[p].req.pod \in Pods BY <1>3, <2>2
    <3> QED BY <3>1, <3>2, <3>3 DEF View
  <2> QED BY <2>1, <2>2
<1> QED BY <1>1, <1>2, <1>3 DEF Kubelet

(* kubelet asks for one thing of a volume at a time.                       *)
LEMMA KubeletInv ==
    ASSUME Inv, Kubelet, [Next]_vars
    PROVE  Kubelet'
<1>0. \A q \in Procs, v \in Vols :
        Awaits(q, v) /\ h[q].req.op \in {"publish", "unpublish"} => h[q].req.pod \in Pods
  BY RequestOf DEF Awaits, About, Busy
<1>1. ASSUME NEW p \in Procs, OnlyMoves(p), UNCHANGED <<co, pub>>
      PROVE  Kubelet'
  <2>1. \A q \in Procs :
          /\ h'[q].req = h[q].req /\ h'[q].late = h[q].late
          /\ h'[q].pc = "idle" <=> h[q].pc = "idle"
    BY <1>1 DEF OnlyMoves
  <2>2. \A q \in Procs, v \in Vols : Awaits(q, v)' <=> Awaits(q, v)
    BY <2>1 DEF Awaits, About, Busy
  <2> QED BY <1>1, <2>1, <2>2 DEF Kubelet, View, Ordered
<1>2. ASSUME Die, \A v \in Vols : Ordered(v)'
      PROVE  Kubelet'
  <2>1. \A p \in Procs : h'[p].pc = "idle" BY <1>2 DEF Die, Idle
  <2>2. \A p \in Procs, v \in Vols : ~Awaits(p, v)' BY <2>1 DEF Awaits, About, Busy
  <2> QED BY <1>2, <2>2 DEF Kubelet
<1>3. ASSUME NEW p \in Procs, Lock(p) \/ HandlerStep(p) \/ HostError(p)
      PROVE  Kubelet'
  BY <1>1, <1>2, <1>3, StepShape DEF Kubelet, Ordered
<1>4. CASE Crash \/ Reboot
  <2>1. \A v \in Vols : Ordered(v)'
    <3>1. CASE Crash BY <3>1 DEF Crash, Kubelet, Ordered
    <3>2. CASE Reboot BY <3>2 DEF Reboot, Ordered
    <3> QED BY <1>4, <3>1, <3>2
  <2> QED BY <1>2, <1>4, <2>1 DEF Crash, Reboot
<1>5. ASSUME NEW p \in Procs, NEW r \in Requests, Call(p, r)
      PROVE  Kubelet'
  <2> DEFINE w == r.vol
  <2>1. w \in Vols /\ r.op \in Ops /\ (r.op \in {"publish", "unpublish"} => r.pod \in Pods)
    BY NodeAssumption DEF Request
  <2>2. /\ h[p].pc = "idle" /\ h'[p].pc = "queued" /\ h'[p].req = r /\ ~h'[p].late
        /\ \A q \in Procs \ {p} : h'[q] = h[q]
    BY <1>5, CallFacts
  <2>3. \A q \in Procs : About(q, w) /\ ~h[q].late => h[q].req = r /\ Wanted(r)
    BY <1>5, CallFacts DEF Allowed
  <2>4. \A v \in Vols : v # w => co'[v] = co[v] /\ \A t \in Pods : pub'[v][t] = pub[v][t]
    BY <1>5, CallFacts
  <2>5. \A q \in Procs \ {p}, v \in Vols : Awaits(q, v)' <=> Awaits(q, v)
    BY <2>2 DEF Awaits, About, Busy
  <2>6. \A v \in Vols : Awaits(p, v)' <=> v = w
    BY <2>1, <2>2 DEF Awaits, About, Busy
  <2>7. \A t \in Pods : pub[w][t] # "none" => co[w] = "staged" BY <2>1 DEF Kubelet, Ordered
  <2>12. /\ \A q \in Procs, v \in Vols \ {w} :
             Awaits(q, v)' => Awaits(q, v) /\ h'[q].req = h[q].req
        /\ \A q \in Procs : Awaits(q, w)' => h'[q].req = r
    BY <2>1, <2>2, <2>3, <2>5, <2>6 DEF Awaits
  <2>13. ASSUME View(r, w)', Ordered(w)' PROVE Kubelet'
    BY <1>0, <2>1, <2>4, <2>12, <2>13, ViewStep
  <2>8. CASE r.op = "stage"
    <3>1. co'[w] \in {"staging", "staged"} /\ (co[w] = "staged" => co'[w] = "staged")
      BY <1>5, <2>1, <2>8, CallFacts
    <3>2. \A t \in Pods : pub'[w][t] = pub[w][t]
      BY <1>5, <2>1, <2>8, CallFacts
    <3> QED BY <2>1, <2>7, <2>8, <2>13, <3>1, <3>2 DEF View, Ordered
  <2>9. CASE r.op = "unstage"
    <3>1. co'[w] = "unstaging" BY <1>5, <2>1, <2>9, CallFacts
    <3>2. \A t \in Pods : pub'[w][t] = "none"
      BY <1>5, <2>1, <2>9, CallFacts DEF Allowed
    <3> QED BY <2>1, <2>7, <2>9, <2>13, <3>1, <3>2 DEF View, Ordered
  <2>10. CASE r.op = "publish"
    <3>1. co'[w] = "staged" BY <1>5, <2>1, <2>10, CallFacts DEF Allowed
    <3>2. pub'[w][r.pod] \in {"publishing", "published"}
      <4>1. pub[w][r.pod] # "unpublishing" BY <1>5, <2>10, CallFacts DEF Allowed
      <4>2. pub[w][r.pod] \in {"none", "publishing", "published", "unpublishing"}
        BY <2>1, <2>10 DEF Inv, TypeOK
      <4> QED BY <1>5, <2>1, <2>10, <4>1, <4>2, CallFacts
    <3> QED BY <2>1, <2>7, <2>10, <2>13, <3>1, <3>2 DEF View, Ordered
  <2>11. CASE r.op = "unpublish"
    <3>1. pub'[w][r.pod] = "unpublishing" BY <1>5, <2>1, <2>11, CallFacts
    <3>2. pub[w][r.pod] # "none" BY <1>5, <2>11, CallFacts DEF Allowed
    <3>3. co'[w] = "staged" BY <1>5, <2>1, <2>7, <2>11, <3>2, CallFacts
    <3> QED BY <2>1, <2>7, <2>11, <2>13, <3>1, <3>3 DEF View, Ordered
  <2> QED BY <2>1, <2>8, <2>9, <2>10, <2>11 DEF Ops
<1>6. ASSUME NEW p \in Procs, Return(p)
      PROVE  Kubelet'
  <2>0. PICK r \in Requests : r = h[p].req BY <1>6, ReturnFacts, RequestOf
  <2> DEFINE w == r.vol
  <2>1. /\ h[p].pc = "done" /\ h'[p].pc = "idle"
        /\ \A q \in Procs \ {p} : h'[q] = h[q]
    BY <1>6, ReturnFacts DEF Idle
  <2>2. w \in Vols /\ r.op \in Ops /\ (r.op \in {"publish", "unpublish"} => r.pod \in Pods)
    BY <2>0, <2>1, RequestOf
  <2>3. \A v \in Vols : v # w => co'[v] = co[v] /\ \A t \in Pods : pub'[v][t] = pub[v][t]
    BY <1>6, <2>0, ReturnFacts
  <2>4. \A q \in Procs \ {p}, v \in Vols : Awaits(q, v)' <=> Awaits(q, v)
    BY <2>1 DEF Awaits, About, Busy
  <2>5. \A v \in Vols : ~Awaits(p, v)' BY <2>1 DEF Awaits, About, Busy
  <2>6. CASE ~(h[p].code = "OK" /\ ~h[p].late)
    <3>1. co'[w] = co[w] /\ \A t \in Pods : pub'[w][t] = pub[w][t]
      BY <1>6, <2>2, <2>6, ReturnFacts
    <3>2. \A v \in Vols : co'[v] = co[v] /\ \A t \in Pods : pub'[v][t] = pub[v][t]
      BY <2>3, <3>1
    <3>3. \A q \in Procs, v \in Vols : Awaits(q, v)' => Awaits(q, v) /\ h'[q].req = h[q].req
      BY <2>1, <2>4, <2>5
    <3>4. \A v \in Vols : Ordered(v)' BY <3>2 DEF Kubelet, Ordered
    <3>5. ASSUME NEW q \in Procs, NEW v \in Vols, Awaits(q, v)' PROVE View(h[q].req, v)'
      <4>1. View(h[q].req, v) /\ h'[q].req = h[q].req BY <3>3, <3>5 DEF Kubelet
      <4>2. h[q].req.op \in {"publish", "unpublish"} => h[q].req.pod \in Pods BY <1>0, <3>3, <3>5
      <4> QED BY <3>2, <4>1, <4>2 DEF View
    <3> QED BY <3>3, <3>4, <3>5 DEF Kubelet
  <2>7. CASE h[p].code = "OK" /\ ~h[p].late
    <3>1. Awaits(p, w) BY <2>0, <2>1, <2>2, <2>7 DEF Awaits, About, Busy
    <3>2. \A q \in Procs : Awaits(q, w) => h[q].req = r BY <2>0, <2>2, <3>1 DEF Kubelet
    <3>7. View(r, w) /\ Ordered(w) BY <2>0, <2>2, <3>1 DEF Kubelet
    <3>8. /\ \A q \in Procs, v \in Vols \ {w} :
               Awaits(q, v)' => Awaits(q, v) /\ h'[q].req = h[q].req
          /\ \A q \in Procs : Awaits(q, w)' => h'[q].req = r
      BY <2>1, <2>2, <2>4, <2>5, <3>2
    <3>9. ASSUME View(r, w)', Ordered(w)' PROVE Kubelet'
      BY <1>0, <2>2, <2>3, <3>8, <3>9, ViewStep
    <3>3. CASE r.op = "stage"
      <4>1. co'[w] = "staged" /\ \A t \in Pods : pub'[w][t] = pub[w][t]
        BY <1>6, <2>0, <2>2, <2>7, <3>3, ReturnFacts
      <4> QED BY <2>2, <3>3, <3>7, <3>9, <4>1 DEF View, Ordered
    <3>4. CASE r.op = "unstage"
      <4>1. co'[w] = "none" /\ \A t \in Pods : pub'[w][t] = pub[w][t]
        BY <1>6, <2>0, <2>2, <2>7, <3>4, ReturnFacts
      <4>2. \A t \in Pods : pub[w][t] = "none" BY <3>4, <3>7 DEF View
      <4> QED BY <2>2, <3>4, <3>7, <3>9, <4>1, <4>2 DEF View, Ordered
    <3>5. CASE r.op = "publish"
      <4>1. co'[w] = co[w] /\ pub'[w][r.pod] = "published" BY <1>6, <2>0, <2>2, <2>7, <3>5, ReturnFacts
      <4>2. co[w] = "staged" BY <3>5, <3>7 DEF View
      <4> QED BY <2>2, <3>5, <3>7, <3>9, <4>1, <4>2 DEF View, Ordered
    <3>6. CASE r.op = "unpublish"
      <4>1. co'[w] = co[w] /\ pub'[w][r.pod] = "none" BY <1>6, <2>0, <2>2, <2>7, <3>6, ReturnFacts
      <4>2. co[w] = "staged" BY <3>6, <3>7 DEF View
      <4> QED BY <2>2, <3>6, <3>7, <3>9, <4>1, <4>2 DEF View, Ordered
    <3> QED BY <2>2, <3>3, <3>4, <3>5, <3>6 DEF Ops
  <2> QED BY <2>6, <2>7
<1>7. ASSUME NEW p \in Procs, Abandon(p)
      PROVE  Kubelet'
  <2>1. /\ \A q \in Procs : h'[q].req = h[q].req /\ h'[q].pc = h[q].pc
        /\ \A q \in Procs : ~h'[q].late => ~h[q].late
        /\ UNCHANGED <<co, pub>>
    BY <1>7, AbandonFacts
  <2>2. \A q \in Procs, v \in Vols : Awaits(q, v)' => Awaits(q, v)
    BY <2>1 DEF Awaits, About, Busy
  <2> QED BY <2>1, <2>2 DEF Kubelet, View, Ordered
<1>8. CASE UNCHANGED <<h, co, pub>>
  BY <1>8 DEF Kubelet, Awaits, About, Busy, View, Ordered
<1> QED
  BY <1>3, <1>4, <1>5, <1>6, <1>7, <1>8 DEF Next, Attach, Detach, vars

-----------------------------------------------------------------------------
(* What a staging mounts is the volume it is about.                        *)
LEMMA OwnSource ==
    ASSUME MappersDiffer, Inv, NEW p \in Procs, h[p].pc \in MountSteps
    PROVE  fmtAndMountSource(h[p].req.vol) = h[p].req.vol
<1> DEFINE w == h[p].req.vol
           u == maps[prof[w].mapper]
<1>1. h[p].pc # "idle" BY DEF MountSteps
<1>2. w \in Vols BY <1>1, RequestOf
<1>3. Seen(p) /\ Mapped /\ prof \in Profiles BY DEF Inv, TypeOK
<1>4. fmtAndMountSource(w) # None BY <1>3 DEF Seen
<1>5. CASE prof[w].luks = "off" BY <1>5 DEF fmtAndMountSource
<1>6. CASE prof[w].luks # "off"
  <2>1. u # None /\ fmtAndMountSource(w) = u BY <1>4, <1>6 DEF fmtAndMountSource
  <2>2. prof[w].mapper \in Mappers BY <1>2, ProfileOf
  <2>3. u \in Vols BY <2>1, <2>2 DEF Inv, TypeOK
  <2>4. prof[u].mapper = prof[w].mapper /\ prof[u].luks # "off"
    BY <1>3, <2>1, <2>2 DEF Mapped
  <2>5. u = w BY <1>2, <1>3, <1>6, <2>3, <2>4 DEF MappersDiffer
  <2> QED BY <2>1, <2>5
<1> QED BY <1>5, <1>6

-----------------------------------------------------------------------------
(* What a step of the handler p does to the mount table and the mappings,  *)
(* by the operation it serves. *)
Effect(p) ==
    LET r == h[p].req
        v == r.vol
        ok == h'[p].pc = "done" /\ h'[p].code = "OK"
    IN
    /\ \A u \in Vols \ {v} : mnt'[u] = mnt[u]
    /\ \A m \in Mappers : maps'[m] \in {maps[m], None} \/ (r.op = "stage" /\ maps'[m] = v)
    /\ r.op \in {"stage", "unstage"} => \A t \in Pods : mnt'[v][t] = mnt[v][t]
    /\ r.op \in {"publish", "unpublish"} => \A t \in Paths \ {r.pod} : mnt'[v][t] = mnt[v][t]
    /\ r.op = "stage" =>
         /\ \/ mnt'[v][Staging] = mnt[v][Staging]
            \/ /\ h[p].pc = "stage_mount"
               /\ mnt'[v][Staging] = Append(mnt[v][Staging], fmtAndMountSource(v))
         /\ ok /\ ~prof[v].block => mnt'[v][Staging] # <<>>
    /\ r.op = "publish" =>
         /\ \/ mnt'[v][r.pod] = mnt[v][r.pod]
            \/ mnt'[v][r.pod] = Append(mnt[v][r.pod], v)
            \/ ~prof[v].block /\ mnt'[v][r.pod] = Append(mnt[v][r.pod], Top(v, Staging))
         /\ ok => mnt'[v][r.pod] # <<>>
    /\ r.op = "unpublish" =>
         Shorter(mnt'[v][r.pod], mnt[v][r.pod]) /\ (ok => mnt'[v][r.pod] = <<>>)
    /\ r.op = "unstage" =>
         /\ Shorter(mnt'[v][Staging], mnt[v][Staging])
         /\ h'[p].pc = "unstage_close" => mnt'[v][Staging] = <<>>
         /\ ok => /\ h[p].pc = "unstage_close" /\ mnt'[v][Staging] = mnt[v][Staging]
                  /\ prof[v].label \in Mappers
                  /\ maps'[prof[v].label] = None \/ maps'[prof[v].label] \in astray'

(* A step that leaves both alone, and is no success.                       *)
LEMMA QuietEffect ==
    ASSUME Inv, NEW p \in Procs, UNCHANGED <<maps, mnt>>, h[p].pc # "idle",
           h'[p].pc # "unstage_close", h'[p].pc # "done" \/ h'[p].code # "OK"
    PROVE  Effect(p)
<1>1. \A s : Shorter(s, s) BY DEF Shorter
<1> QED BY <1>1 DEF Effect

(* A success or a failure that leaves both alone, of a publication or a    *)
(* staging.                                                                *)
LEMMA FoundEffect ==
    ASSUME Inv, NEW p \in Procs, UNCHANGED <<maps, mnt>>, h'[p].pc = "done",
           \/ h[p].req.op = "stage" /\ (prof[h[p].req.vol].block \/ mnt[h[p].req.vol][Staging] # <<>>)
           \/ h[p].req.op = "publish" /\ mnt[h[p].req.vol][h[p].req.pod] # <<>>
    PROVE  Effect(p)
BY DEF Effect

(* A mount is not empty.                                                   *)
LEMMA AppendFacts ==
    ASSUME NEW S, NEW s \in Seq(S), NEW x \in S
    PROVE  /\ Append(s, x) # <<>>
           /\ \A i \in DOMAIN Append(s, x) : (i \in DOMAIN s /\ Append(s, x)[i] = s[i]) \/ Append(s, x)[i] = x
           /\ Append(s, x)[Len(Append(s, x))] = x
<1>1. Append(s, x) \in Seq(S) /\ Len(Append(s, x)) = Len(s) + 1 /\ Len(s) \in Nat OBVIOUS
<1>2. Append(s, x) # <<>> BY <1>1
<1>3. ASSUME NEW i \in DOMAIN Append(s, x)
      PROVE  (i \in DOMAIN s /\ Append(s, x)[i] = s[i]) \/ Append(s, x)[i] = x
  <2>1. i \in 1 .. Len(s) + 1 BY <1>1, <1>3
  <2>2. CASE i = Len(s) + 1 BY <2>2
  <2>3. CASE i \in 1 .. Len(s)
    <3>1. Append(s, x)[i] = s[i] BY <2>3
    <3>2. i \in DOMAIN s BY <2>3
    <3> QED BY <3>1, <3>2
  <2> QED BY <1>1, <2>1, <2>2, <2>3
<1>4. Append(s, x)[Len(Append(s, x))] = x BY <1>1
<1> QED BY <1>2, <1>3, <1>4

(* What a step of a handler does to the mounts and the mappings. *)
LEMMA StepEffect ==
    ASSUME Inv, NEW p \in Procs, Lock(p) \/ HandlerStep(p) \/ HostError(p), OnlyMoves(p)
    PROVE  Effect(p)
<1> DEFINE r == h[p].req
           v == r.vol
<1>1. h[p].pc # "idle" /\ r.vol \in Vols /\ Position(p)
  BY RequestOf DEF OnlyMoves, Inv
<1>2. r.op \in {"publish", "unpublish"} => r.pod \in Pods
  BY <1>1, RequestOf
<1>3. HostType BY DEF Inv, TypeOK, HostType
<1>4. \A s : Shorter(s, s) BY DEF Shorter
<1>5. h \in [Procs -> Handler] BY DEF Inv, TypeOK
<1>6. ASSUME NEW pc, Goto(p, pc) PROVE h'[p].pc = pc
  BY <1>5, <1>6 DEF Goto, Handler
<1>7. ASSUME NEW code, Reply(p, code) PROVE h'[p].pc = "done" /\ h'[p].code = code
  BY <1>5, <1>7 DEF Reply, Handler
<1>8. ASSUME NEW pc, Goto(p, pc), pc # "unstage_close", pc # "done", UNCHANGED <<maps, mnt>>
      PROVE  Effect(p)
  BY <1>1, <1>6, <1>8, QuietEffect
<1>9. ASSUME NEW code, Reply(p, code), code # "OK", UNCHANGED <<maps, mnt>>
      PROVE  Effect(p)
  BY <1>1, <1>7, <1>9, QuietEffect
<1>10. CASE Lock(p) \/ (HostError(p) /\ ~CloseSwallowed(p))
  <2>1. UNCHANGED <<maps, mnt>> BY <1>10 DEF Lock, HostError, Local, host
  <2>2. CASE Reply(p, "InvalidArgument") \/ Reply(p, "Internal") BY <1>9, <2>1, <2>2
  <2>3. CASE h' = [h EXCEPT ![p].pc = FirstStep(r)]
    <3>1. h'[p].pc = FirstStep(r) BY <1>5, <2>3 DEF Handler
    <3>2. r.op \in Ops BY <1>1, RequestOf
    <3>3. FirstStep(r) # "unstage_close" /\ FirstStep(r) # "done" BY <3>2 DEF FirstStep, Ops
    <3> QED BY <1>1, <2>1, <3>1, <3>3, QuietEffect
  <2> QED BY <1>10, <2>2, <2>3 DEF Lock, HostError, HostErrorReported
<1>11. CASE StageFind(p) \/ StageBlkid(p) \/ StageCheck(p)
  BY <1>8, <1>9, <1>11 DEF StageFind, StageBlkid, StageCheck, Local
<1>12. CASE StagePoint(p)
  <2>1. r.op = "stage" /\ UNCHANGED <<maps, mnt>>
    BY <1>1, <1>12 DEF StagePoint, At, Local, Position, StageSteps
  <2>2. CASE ~notMnt(v, Staging) \/ prof[v].block
    <3>1. h'[p].pc = "done" BY <1>7, <1>12, <2>2 DEF StagePoint
    <3>2. prof[v].block \/ mnt[v][Staging] # <<>> BY <2>2 DEF notMnt, IsMountPoint
    <3> QED BY <2>1, <3>1, <3>2, FoundEffect
  <2>3. CASE ~(~notMnt(v, Staging) \/ prof[v].block)
    BY <1>8, <1>12, <2>1, <2>3 DEF StagePoint
  <2> QED BY <2>2, <2>3
<1>13. CASE LuksFormat(p) \/ LuksKeyslot(p) \/ StageMkfs(p)
  <2>1. UNCHANGED <<maps, mnt>> BY <1>13 DEF LuksFormat, LuksKeyslot, StageMkfs
  <2>2. ~Die
    BY <1>1 DEF OnlyMoves, Die, Idle
  <2> QED BY <1>8, <1>9, <1>13, <2>1, <2>2 DEF LuksFormat, LuksKeyslot, StageMkfs
<1>14. CASE LuksActivate(p) \/ LuksOpen(p)
  <2>1. mnt' = mnt /\ r.op = "stage"
    BY <1>1, <1>14 DEF LuksActivate, LuksOpen, At, Position, StageSteps
  <2>2. CASE Activate(p, v)
    <3>1. h'[p].pc = "stage_check" BY <1>6, <2>2 DEF Activate
    <3>2. \A m \in Mappers : maps'[m] = maps[m] \/ maps'[m] = v
      BY <1>3, <2>2 DEF Activate, HostType
    <3> QED BY <2>1, <3>1, <3>2 DEF Effect
  <2>3. CASE maps' = maps
    BY <1>8, <1>9, <1>14, <2>1, <2>2, <2>3 DEF LuksActivate, LuksOpen
  <2> QED BY <1>14, <2>2, <2>3 DEF LuksActivate, LuksOpen
<1>15. CASE StageMount(p)
  <2>1. /\ maps' = maps /\ r.op = "stage" /\ h[p].pc = "stage_mount" /\ Seen(p)
        /\ MountOn(v, Staging, fmtAndMountSource(v))
    BY <1>1, <1>15 DEF StageMount, At, Position, StageSteps, Inv
  <2>2. fmtAndMountSource(v) \in Vols \cup {Host}
    BY <1>1, <1>3, <2>1, ProfileOf DEF Seen, MountSteps, fmtAndMountSource, HostType
  <2>3. /\ mnt'[v][Staging] = Append(mnt[v][Staging], fmtAndMountSource(v))
        /\ \A s \in Paths \ {Staging} : mnt'[v][s] = mnt[v][s]
        /\ \A u \in Vols \ {v} : mnt'[u] = mnt[u]
    BY <1>1, <2>1, <2>2, MountFacts DEF Paths
  <2>4. mnt[v][Staging] \in Seq(Vols \cup {Host}) BY <1>1, <1>3 DEF HostType, Paths
  <2>5. mnt'[v][Staging] # <<>>
    <3>1. Append(mnt[v][Staging], fmtAndMountSource(v)) # <<>> BY <2>2, <2>4, AppendFacts
    <3> QED BY <2>3, <3>1
  <2>6. \A t \in Pods : t \in Paths \ {Staging} BY NodeAssumption DEF Paths
  <2> QED BY <2>1, <2>3, <2>5, <2>6 DEF Effect
<1>16. CASE UnstageClean(p)
  <2>1. /\ maps' = maps /\ r.op = "unstage"
        /\ mnt' = [mnt EXCEPT ![v][Staging] = Unmounted(v, Staging)]
    BY <1>1, <1>16 DEF UnstageClean, At, Position
  <2>2. /\ mnt'[v][Staging] = Unmounted(v, Staging)
        /\ Shorter(mnt'[v][Staging], mnt[v][Staging])
        /\ \A s \in Paths \ {Staging} : mnt'[v][s] = mnt[v][s]
        /\ \A u \in Vols \ {v} : mnt'[u] = mnt[u]
    <3>1. Staging \in Paths BY DEF Paths
    <3> QED BY <1>1, <2>1, <3>1, UnmountFacts
  <2>3. \A t \in Pods : t \in Paths \ {Staging} BY NodeAssumption DEF Paths
  <2>4. \/ h'[p].pc = "unstage_close" /\ Unmounted(v, Staging) = <<>>
        \/ h'[p].pc = "done" /\ h'[p].code = "Internal"
    BY <1>6, <1>7, <1>16 DEF UnstageClean
  <2> QED BY <2>1, <2>2, <2>3, <2>4 DEF Effect
<1>17. CASE UnstageClose(p)
  <2> DEFINE m == prof[v].label
  <2>1. mnt' = mnt /\ r.op = "unstage" /\ h[p].pc = "unstage_close"
    BY <1>1, <1>17 DEF UnstageClose, At, Position
  <2>2. m # None => m \in Mappers BY <1>1, ProfileOf
  <2>3. \/ Reply(p, "Internal") /\ maps' = maps
        \/ m # None /\ maps[m] = None /\ Reply(p, "OK") /\ maps' = maps
        \/ m # None /\ maps' = [maps EXCEPT ![m] = None] /\ Reply(p, "OK")
    BY <1>17 DEF UnstageClose, notActive, closed
  <2>4. CASE Reply(p, "Internal") /\ maps' = maps BY <1>9, <2>1, <2>4
  <2>5. CASE m # None /\ Reply(p, "OK") /\ (maps' = [maps EXCEPT ![m] = None] \/ (maps[m] = None /\ maps' = maps))
    <3>1. h'[p].pc = "done" /\ h'[p].code = "OK" BY <1>7, <2>5
    <3>2. m \in Mappers /\ maps'[m] = None /\ \A k \in Mappers : maps'[k] \in {maps[k], None}
      BY <1>3, <2>2, <2>5 DEF HostType
    <3> QED BY <1>4, <2>1, <3>1, <3>2 DEF Effect
  <2> QED BY <2>3, <2>4, <2>5
<1>18. CASE PubPoint(p)
  <2>1. r.op = "publish" /\ UNCHANGED <<maps, mnt>>
    BY <1>1, <1>18 DEF PubPoint, At, Local, Position
  <2>2. CASE notMnt(v, r.pod) BY <1>8, <1>18, <2>1, <2>2 DEF PubPoint
  <2>3. CASE ~notMnt(v, r.pod)
    <3>1. h'[p].pc = "done" BY <1>7, <1>18, <2>3 DEF PubPoint
    <3> QED BY <2>1, <2>3, <3>1, FoundEffect DEF notMnt, IsMountPoint
  <2> QED BY <2>2, <2>3
<1>19. CASE PubBind(p) \/ PubBlock(p)
  <2>1. maps' = maps /\ r.op = "publish" /\ r.pod \in Pods
    BY <1>1, <1>2, <1>19 DEF PubBind, PubBlock, At, Position
  <2>2. ASSUME NEW x \in Vols \cup {Host}, MountOn(v, r.pod, x),
               x = v \/ (~prof[v].block /\ x = Top(v, Staging))
        PROVE  Effect(p)
    <3>1. /\ mnt'[v][r.pod] = Append(mnt[v][r.pod], x)
          /\ \A s \in Paths \ {r.pod} : mnt'[v][s] = mnt[v][s]
          /\ \A u \in Vols \ {v} : mnt'[u] = mnt[u]
      <4>1. r.pod \in Paths BY <2>1 DEF Paths
      <4> QED BY <1>1, <2>2, <4>1, MountFacts
    <3>2. mnt[v][r.pod] \in Seq(Vols \cup {Host}) BY <1>1, <1>3, <2>1 DEF HostType, Paths
    <3>3. Append(mnt[v][r.pod], x) # <<>> BY <2>2, <3>2, AppendFacts
    <3>4. mnt'[v][r.pod] # <<>> BY <3>1, <3>3
    <3> QED BY <2>1, <2>2, <3>1, <3>4 DEF Effect
  <2>3. CASE PubBind(p)
    <3>1. ~prof[v].block BY <1>1, <2>3 DEF PubBind, At, Position
    <3>2. mnt[v][Staging] \in Seq(Vols \cup {Host}) BY <1>1, <1>3 DEF HostType, Paths
    <3>3. Top(v, Staging) \in Vols \cup {Host} BY <3>2 DEF Top, IsMountPoint
    <3> QED BY <2>2, <2>3, <3>1, <3>3 DEF PubBind
  <2>4. CASE PubBlock(p)
    <3>1. CASE MountOn(v, r.pod, v) BY <1>1, <2>2, <3>1
    <3>2. CASE Reply(p, "Internal") /\ mnt' = mnt BY <1>9, <2>1, <3>2
    <3> QED BY <2>4, <3>1, <3>2 DEF PubBlock
  <2> QED BY <1>19, <2>3, <2>4
<1>20. CASE UnpubClean(p)
  <2>1. /\ maps' = maps /\ r.op = "unpublish" /\ r.pod \in Pods
        /\ mnt' = [mnt EXCEPT ![v][r.pod] = Unmounted(v, r.pod)]
    BY <1>1, <1>2, <1>20 DEF UnpubClean, At, Position
  <2>2. /\ mnt'[v][r.pod] = Unmounted(v, r.pod)
        /\ Shorter(mnt'[v][r.pod], mnt[v][r.pod])
        /\ \A s \in Paths \ {r.pod} : mnt'[v][s] = mnt[v][s]
        /\ \A u \in Vols \ {v} : mnt'[u] = mnt[u]
    <3>1. r.pod \in Paths BY <2>1 DEF Paths
    <3> QED BY <1>1, <2>1, <3>1, UnmountFacts
  <2>3. h'[p].code = "OK" => Unmounted(v, r.pod) = <<>>
    BY <1>7, <1>20 DEF UnpubClean
  <2> QED BY <2>1, <2>2, <2>3 DEF Effect
<1>21. CASE HostError(p) /\ CloseSwallowed(p)
  <2>1. UNCHANGED <<maps, mnt>> BY <1>21 DEF HostError, host
  <2>2. /\ h[p].pc = "unstage_close" /\ r.op = "unstage" /\ Reply(p, "OK")
        /\ prof[v].label \in Mappers /\ maps[prof[v].label] \in astray'
    BY <1>1, <1>21, SwallowedFacts DEF Position
  <2>3. h'[p].pc = "done" BY <1>7, <2>2
  <2> QED BY <1>4, <2>1, <2>2, <2>3 DEF Effect
<1> QED
  BY <1>10, <1>11, <1>12, <1>13, <1>14, <1>15, <1>16, <1>17, <1>18, <1>19, <1>20, <1>21
     DEF HandlerStep

-----------------------------------------------------------------------------
(* The calls about a volume that kubelet gave up no call about: it waits   *)
(* for all of them, and they are all the same.                             *)
LEMMA SameCalls ==
    ASSUME Inv, Kubelet, NEW p \in Procs, h[p].pc # "idle", h[p].req.vol \notin astray
    PROVE  /\ View(h[p].req, h[p].req.vol)
           /\ \A q \in Procs : About(q, h[p].req.vol) => h[q].req = h[p].req
<1> DEFINE w == h[p].req.vol
<1>1. w \in Vols BY RequestOf
<1>2. \A q \in Procs : About(q, w) => Awaits(q, w)
  BY DEF Inv, Position, About, Busy, Awaits
<1>3. Awaits(p, w) BY <1>2 DEF About, Busy
<1> QED BY <1>1, <1>2, <1>3 DEF Kubelet

(* A step of a handler keeps what is said of the other volumes, and of all *)
(* of them if it leaves the mount table and the mappings alone.            *)
LEMMA ElsewhereGone ==
    ASSUME Inv, NEW v \in Vols, Gone(v),
           \A q \in Procs : About(q, v)' => h'[q] = h[q],
           co'[v] = "none" => co[v] = "none",
           \A t \in Pods : pub'[v][t] = "none" => pub[v][t] = "none",
           mnt'[v] = mnt[v], \A m \in Mappers : maps'[m] = v => maps[m] = v
    PROVE  Gone(v)'
<1>1. Closed(v) => Closed(v)' BY DEF Closed
<1>2. \A q \in Procs : About(q, v)' => About(q, v) BY DEF About, Busy
<1>3. \A q \in Procs : \A op \in Ops : Answered(q, v, op)' => Answered(q, v, op) /\ h'[q] = h[q]
  BY <1>2 DEF Answered
<1> QED BY <1>1, <1>2, <1>3 DEF Gone, Ops

(* A step about another volume leaves what the pods see. *)
LEMMA ElsewhereShown ==
    ASSUME Inv, NEW v \in Vols, Shown(v), prof' = prof,
           \A q \in Procs : About(q, v)' => h'[q] = h[q],
           co'[v] = "staged" => co[v] = "staged",
           \A t \in Pods : pub'[v][t] = "published" => pub[v][t] = "published",
           mnt'[v] = mnt[v]
    PROVE  Shown(v)'
<1>1. Own(v)' BY DEF Own, Shown
<1>2. \A q \in Procs : About(q, v)' => About(q, v) BY DEF About, Busy
<1>3. \A q \in Procs : \A op \in Ops : Answered(q, v, op)' => Answered(q, v, op) /\ h'[q] = h[q]
  BY <1>2 DEF Answered
<1> QED BY <1>1, <1>3 DEF Shown, Ops

(* What a handler does to the volume it works on.                          *)
LEMMA WorkGone ==
    ASSUME LabelIsMapper, Inv, Inv', Kubelet, NEW p \in Procs, NEW r \in Requests,
           r = h[p].req, r.vol \notin astray, Gone(r.vol),
           OnlyMoves(p), Effect(p), UNCHANGED <<prof, co, pub>>, r.vol \notin astray'
    PROVE  Gone(r.vol)'
<1> DEFINE w == r.vol
<1>1. /\ h[p].pc # "idle" /\ w \in Vols /\ r.op \in Ops
      /\ r.op \in {"publish", "unpublish"} => r.pod \in Pods
  BY RequestOf DEF OnlyMoves
<1>2. View(r, w) /\ \A q \in Procs : About(q, w) => h[q].req = r BY <1>1, SameCalls
<1>3. \A q \in Procs : About(q, w)' => About(q, w) /\ h'[q].req = r
  BY <1>2 DEF About, Busy, OnlyMoves
<1>4. \A q \in Procs : \A op \in Ops : Answered(q, w, op)' =>
        /\ op = r.op /\ h'[q].pc = "done" /\ h'[q].code = "OK"
        /\ q # p => Answered(q, w, op)
  BY <1>3 DEF Answered, OnlyMoves
<1>5. \A q \in Procs : About(q, w)' /\ h'[q].pc = "unstage_close" =>
        r.op = "unstage" /\ (q # p => About(q, w) /\ h[q].pc = "unstage_close")
  BY <1>3 DEF Inv, Position, OnlyMoves
<1>6. w # None BY <1>1, ProfileOf
<1>7. r.op # "stage" => (\A m \in Mappers : maps'[m] = w => maps[m] = w)
  BY <1>6 DEF Effect
<1>8. CASE r.op = "stage"
  <2>1. co'[w] # "none" BY <1>2, <1>8 DEF View
  <2>2. \A t \in Pods : mnt'[w][t] = mnt[w][t] BY <1>8 DEF Effect
  <2> QED BY <1>4, <1>5, <1>8, <2>1, <2>2 DEF Gone, Ops
<1>9. CASE r.op = "publish"
  <2>1. co'[w] # "none" /\ pub'[w][r.pod] # "none" BY <1>2, <1>9 DEF View
  <2>2. \A t \in Pods \ {r.pod} : mnt'[w][t] = mnt[w][t] BY <1>9 DEF Effect, Paths
  <2> QED BY <1>4, <1>5, <1>9, <2>1, <2>2 DEF Gone, Ops
<1>10. CASE r.op = "unpublish"
  <2>1. co'[w] # "none" BY <1>2, <1>10 DEF View
  <2>2. \A t \in Pods \ {r.pod} : mnt'[w][t] = mnt[w][t] BY <1>10 DEF Effect, Paths
  <2>3. mnt[w][r.pod] = <<>> => mnt'[w][r.pod] = <<>> BY <1>10 DEF Effect, Shorter
  <2>4. h'[p].pc = "done" /\ h'[p].code = "OK" => mnt'[w][r.pod] = <<>> BY <1>10 DEF Effect
  <2>5. \A q \in Procs : Answered(q, w, "unpublish")' => mnt'[w][h'[q].req.pod] = <<>>
    <3> SUFFICES ASSUME NEW q \in Procs, Answered(q, w, "unpublish")'
                 PROVE  mnt'[w][h'[q].req.pod] = <<>>
      OBVIOUS
    <3>1. h'[q].req = r /\ h'[q].pc = "done" /\ h'[q].code = "OK"
      BY <1>3 DEF Answered
    <3>2. CASE q = p BY <2>4, <3>1, <3>2
    <3>3. CASE q # p
      <4>1. Answered(q, w, "unpublish") /\ h[q].req = r
        BY <1>2, <1>4, <3>3 DEF Ops, Answered
      <4>2. mnt[w][r.pod] = <<>> BY <4>1 DEF Gone
      <4> QED BY <2>3, <3>1, <4>2
    <3> QED BY <3>2, <3>3
  <2> QED BY <1>4, <1>5, <1>10, <2>1, <2>2, <2>3, <2>5 DEF Gone, Ops
<1>11. CASE r.op = "unstage"
  <2>1. \A t \in Pods : mnt'[w][t] = mnt[w][t] BY <1>11 DEF Effect
  <2>2. mnt[w][Staging] = <<>> => mnt'[w][Staging] = <<>> BY <1>11 DEF Effect, Shorter
  <2>3. h'[p].pc = "unstage_close" => mnt'[w][Staging] = <<>> BY <1>11 DEF Effect
  <2>4. Closed(w) => Closed(w)' BY <1>7, <1>11, <2>2 DEF Closed
  <2>5. ASSUME h'[p].pc = "done", h'[p].code = "OK" PROVE Closed(w)'
    <3>1. /\ h[p].pc = "unstage_close" /\ mnt'[w][Staging] = mnt[w][Staging]
          /\ prof[w].label \in Mappers
          /\ maps'[prof[w].label] = None \/ maps'[prof[w].label] \in astray'
      BY <1>11, <2>5 DEF Effect
    <3>2. About(p, w) BY <1>1 DEF About, Busy
    <3>3. mnt'[w][Staging] = <<>> BY <3>1, <3>2 DEF Gone
    <3>4. ASSUME NEW m \in Mappers, maps'[m] = w PROVE FALSE
      <4>1. Mapped' BY DEF Inv
      <4>2. prof[w].mapper = m /\ prof[w].luks # "off" /\ prof[w].label # None
        BY <1>6, <3>4, <4>1 DEF Mapped
      <4>3. prof \in Profiles BY DEF Inv, TypeOK
      <4>4. prof[w].label = m BY <1>1, <4>2, <4>3 DEF LabelIsMapper
      <4> QED BY <1>6, <3>1, <3>4, <4>4
    <3> QED BY <3>3, <3>4 DEF Closed
  <2>6. \A q \in Procs : Answered(q, w, "unstage")' => Closed(w)'
    <3> SUFFICES ASSUME NEW q \in Procs, Answered(q, w, "unstage")' PROVE Closed(w)'
      OBVIOUS
    <3>1. CASE q = p BY <2>5, <3>1 DEF Answered
    <3>2. CASE q # p
      <4>1. Answered(q, w, "unstage") BY <1>4, <3>2 DEF Ops
      <4> QED BY <2>4, <4>1 DEF Gone
    <3> QED BY <3>1, <3>2
  <2>7. \A q \in Procs : About(q, w)' /\ h'[q].pc = "unstage_close" => mnt'[w][Staging] = <<>>
    BY <1>5, <2>2, <2>3 DEF Gone
  <2> QED BY <1>4, <1>11, <2>1, <2>4, <2>6, <2>7 DEF Gone, Ops
<1> QED BY <1>1, <1>8, <1>9, <1>10, <1>11 DEF Ops

(* A step of a handler about the volume itself. *)
LEMMA WorkShown ==
    ASSUME MappersDiffer, Inv, Inv', Kubelet, NEW p \in Procs, NEW r \in Requests,
           r = h[p].req, r.vol \notin astray, Shown(r.vol),
           OnlyMoves(p), Effect(p), UNCHANGED <<prof, co, pub>>
    PROVE  Shown(r.vol)'
<1> DEFINE w == r.vol
           S == Vols \cup {Host}
<1>1. /\ h[p].pc # "idle" /\ w \in Vols /\ r.op \in Ops
      /\ r.op \in {"publish", "unpublish"} => r.pod \in Pods
  BY RequestOf DEF OnlyMoves
<1>2. View(r, w) /\ \A q \in Procs : About(q, w) => h[q].req = r BY <1>1, SameCalls
<1>3. \A q \in Procs : About(q, w)' => About(q, w) /\ h'[q].req = r
  BY <1>2 DEF About, Busy, OnlyMoves
<1>4. \A q \in Procs : \A op \in Ops : Answered(q, w, op)' =>
        /\ op = r.op /\ h'[q].pc = "done" /\ h'[q].code = "OK" /\ h'[q].req = r
        /\ q # p => Answered(q, w, op) /\ h[q].req = r
  BY <1>3 DEF Answered, OnlyMoves
<1>5. \A t \in Paths : mnt[w][t] \in Seq(S) BY <1>1 DEF Inv, TypeOK
<1>6. ASSUME NEW t \in Paths, \A s \in Paths \ {t} : mnt'[w][s] = mnt[w][s],
             \/ mnt'[w][t] = mnt[w][t]
             \/ mnt'[w][t] = Append(mnt[w][t], w)
             \/ Shorter(mnt'[w][t], mnt[w][t])
      PROVE  Own(w)'
  <2>1. \A i \in DOMAIN mnt'[w][t] :
          (i \in DOMAIN mnt[w][t] /\ mnt'[w][t][i] = mnt[w][t][i]) \/ mnt'[w][t][i] = w
    <3>1. CASE mnt'[w][t] = mnt[w][t] BY <3>1
    <3>2. CASE mnt'[w][t] = Append(mnt[w][t], w)
      <4>1. mnt[w][t] \in Seq(S) /\ w \in S BY <1>1, <1>5
      <4> HIDE DEF S, w
      <4>2. \A i \in DOMAIN Append(mnt[w][t], w) :
              \/ i \in DOMAIN mnt[w][t] /\ Append(mnt[w][t], w)[i] = mnt[w][t][i]
              \/ Append(mnt[w][t], w)[i] = w
        BY <4>1, AppendFacts
      <4> QED BY <3>2, <4>2
    <3>3. CASE Shorter(mnt'[w][t], mnt[w][t]) BY <3>3 DEF Shorter
    <3> QED BY <1>6, <3>1, <3>2, <3>3
  <2>2. \A s \in Paths : \A i \in DOMAIN mnt[w][s] : mnt[w][s][i] = w BY DEF Shown, Own
  <2>3. \A s \in Paths : \A i \in DOMAIN mnt'[w][s] : mnt'[w][s][i] = w
    <3> SUFFICES ASSUME NEW s \in Paths, NEW i \in DOMAIN mnt'[w][s]
                 PROVE  mnt'[w][s][i] = w
      OBVIOUS
    <3>1. CASE s = t BY <2>1, <2>2, <3>1
    <3>2. CASE s # t BY <1>6, <2>2, <3>2
    <3> QED BY <3>1, <3>2
  <2> QED BY <2>3 DEF Own
<1>7. Staging \in Paths /\ Pods \subseteq Paths /\ Staging \notin Pods BY NodeAssumption DEF Paths
<1>8. \A t \in Paths : mnt'[w][t] = Append(mnt[w][t], w) => mnt'[w][t] # <<>>
  <2> SUFFICES ASSUME NEW t \in Paths PROVE Append(mnt[w][t], w) # <<>> OBVIOUS
  <2>1. mnt[w][t] \in Seq(S) /\ w \in S BY <1>1, <1>5
  <2> QED BY <2>1, AppendFacts
<1>9. CASE r.op = "stage"
  <2>1. mnt'[w][Staging] = mnt[w][Staging] \/ mnt'[w][Staging] = Append(mnt[w][Staging], w)
    <3>1. SUFFICES ASSUME h[p].pc = "stage_mount" PROVE fmtAndMountSource(w) = w
      BY <1>9 DEF Effect
    <3> QED BY <3>1, OwnSource DEF MountSteps
  <2>2. \A t \in Pods : mnt'[w][t] = mnt[w][t] BY <1>9 DEF Effect
  <2>3. Own(w)'
    <3>1. \A s \in Paths \ {Staging} : mnt'[w][s] = mnt[w][s] BY <2>2 DEF Paths
    <3> QED BY <1>6, <1>7, <2>1, <3>1
  <2>4. mnt[w][Staging] # <<>> => mnt'[w][Staging] # <<>> BY <1>7, <1>8, <2>1
  <2>5. \A q \in Procs : Answered(q, w, "stage")' /\ ~prof[w].block => mnt'[w][Staging] # <<>>
    <3> SUFFICES ASSUME NEW q \in Procs, Answered(q, w, "stage")', ~prof[w].block
                 PROVE  mnt'[w][Staging] # <<>>
      OBVIOUS
    <3>1. CASE q = p BY <1>4, <1>9, <3>1 DEF Effect, Ops
    <3>2. CASE q # p
      <4>1. Answered(q, w, "stage") BY <1>4, <3>2 DEF Ops
      <4> QED BY <2>4, <4>1 DEF Shown
    <3> QED BY <3>1, <3>2
  <2> QED BY <1>4, <1>9, <2>2, <2>3, <2>4, <2>5 DEF Shown, Ops
<1>10. CASE r.op = "publish"
  <2>1. co[w] = "staged" /\ r.pod \in Paths \ {Staging} /\ r.pod \in Pods
    BY <1>1, <1>2, <1>7, <1>10 DEF View
  <2>2. ~prof[w].block => Top(w, Staging) = w
    <3> SUFFICES ASSUME ~prof[w].block PROVE Top(w, Staging) = w OBVIOUS
    <3>1. mnt[w][Staging] # <<>> BY <2>1 DEF Shown
    <3>2. mnt[w][Staging] \in Seq(S) BY <1>5, <1>7
    <3>3. Len(mnt[w][Staging]) \in DOMAIN mnt[w][Staging] BY <3>1, <3>2
    <3>4. mnt[w][Staging][Len(mnt[w][Staging])] = w BY <1>7, <3>3 DEF Shown, Own
    <3> QED BY <3>1, <3>4 DEF Top, IsMountPoint
  <2>3. mnt'[w][r.pod] = mnt[w][r.pod] \/ mnt'[w][r.pod] = Append(mnt[w][r.pod], w)
    BY <1>10, <2>2 DEF Effect
  <2>4. \A s \in Paths \ {r.pod} : mnt'[w][s] = mnt[w][s] BY <1>10 DEF Effect
  <2>5. Own(w)' BY <1>6, <2>1, <2>3, <2>4
  <2>6. \A t \in Paths : mnt[w][t] # <<>> => mnt'[w][t] # <<>> BY <1>8, <2>3, <2>4
  <2>7. \A q \in Procs : Answered(q, w, "publish")' => mnt'[w][h'[q].req.pod] # <<>>
    <3> SUFFICES ASSUME NEW q \in Procs, Answered(q, w, "publish")'
                 PROVE  mnt'[w][r.pod] # <<>>
      BY <1>4 DEF Ops
    <3>1. CASE q = p BY <1>4, <1>10, <3>1 DEF Effect, Ops
    <3>2. CASE q # p
      <4>1. Answered(q, w, "publish") /\ h[q].req = r BY <1>4, <3>2 DEF Ops
      <4>2. mnt[w][r.pod] # <<>> BY <4>1 DEF Shown
      <4> QED BY <2>1, <2>6, <4>2
    <3> QED BY <3>1, <3>2
  <2> QED BY <1>4, <1>7, <1>10, <2>5, <2>6, <2>7 DEF Shown, Ops
<1>11. CASE r.op = "unpublish"
  <2>1. r.pod \in Paths \ {Staging} /\ r.pod \in Pods BY <1>1, <1>7, <1>11
  <2>2. \A s \in Paths \ {r.pod} : mnt'[w][s] = mnt[w][s] BY <1>11 DEF Effect
  <2>3. Shorter(mnt'[w][r.pod], mnt[w][r.pod]) BY <1>11 DEF Effect
  <2>4. Own(w)' BY <1>6, <2>1, <2>2, <2>3
  <2>5. pub'[w][r.pod] # "published" BY <1>2, <1>11 DEF View
  <2> QED BY <1>4, <1>7, <1>11, <2>1, <2>2, <2>4, <2>5 DEF Shown, Ops
<1>12. CASE r.op = "unstage"
  <2>1. \A s \in Paths \ {Staging} : mnt'[w][s] = mnt[w][s] BY <1>12 DEF Effect, Paths
  <2>2. Shorter(mnt'[w][Staging], mnt[w][Staging]) BY <1>12 DEF Effect
  <2>3. Own(w)' BY <1>6, <1>7, <2>1, <2>2
  <2>4. co'[w] # "staged" /\ \A t \in Pods : pub'[w][t] # "published" BY <1>2, <1>12 DEF View
  <2> QED BY <1>4, <1>12, <2>3, <2>4 DEF Shown, Ops
<1> QED BY <1>1, <1>9, <1>10, <1>11, <1>12 DEF Ops

(* Every step keeps what is said of every volume.                          *)
LEMMA GoneInv ==
    ASSUME LabelIsMapper, Inv, Inv', Kubelet, AllGone, [Next]_vars
    PROVE  AllGone'
<1> USE DEF AllGone
<1>1. \A v \in Vols : v # None BY ProfileOf
<1>2. ASSUME NEW p \in Procs, Lock(p) \/ HandlerStep(p) \/ HostError(p)
      PROVE  AllGone'
  <2>1. UNCHANGED <<prof, co, pub>> /\ astray \subseteq astray' BY <1>2, StepShape
  <2>2. CASE OnlyMoves(p)
    <3>1. PICK r \in Requests : r = h[p].req /\ r.vol \in Vols
      BY <2>2, RequestOf DEF OnlyMoves
    <3>2. Effect(p) BY <1>2, <2>2, StepEffect
    <3>3. r.vol \notin astray' => Gone(r.vol)' BY <2>1, <2>2, <3>1, <3>2, WorkGone
    <3>4. ASSUME NEW v \in Vols, v \notin astray, v # r.vol PROVE Gone(v)'
      <4>1. \A q \in Procs : About(q, v)' => h'[q] = h[q]
        BY <2>2, <3>1, <3>4 DEF OnlyMoves, About, Busy
      <4>2. mnt'[v] = mnt[v] /\ \A m \in Mappers : maps'[m] = v => maps[m] = v
        BY <1>1, <3>1, <3>2, <3>4 DEF Effect
      <4> QED BY <2>1, <3>4, <4>1, <4>2, ElsewhereGone
    <3> QED BY <2>1, <3>3, <3>4
  <2>3. CASE Die /\ UNCHANGED <<maps, mnt>>
    <3>1. \A q \in Procs, v \in Vols : ~About(q, v)' BY <2>3 DEF Die, Idle, About, Busy
    <3> QED BY <2>1, <2>3, <3>1, ElsewhereGone
  <2> QED BY <1>2, <2>2, <2>3, StepShape
<1>3. CASE Crash
  <2>1. Die /\ UNCHANGED <<maps, mnt, co, pub, astray>> BY <1>3 DEF Crash, host
  <2>2. \A q \in Procs, v \in Vols : ~About(q, v)' BY <2>1 DEF Die, Idle, About, Busy
  <2> QED BY <2>1, <2>2, ElsewhereGone
<1>4. CASE Reboot
  <2>1. \A q \in Procs, v \in Vols : ~About(q, v)' BY <1>4 DEF Reboot, Die, Idle, About, Busy
  <2>2. \A v \in Vols : Closed(v)' BY <1>1, <1>4 DEF Reboot, Closed, Paths
  <2>3. \A v \in Vols, t \in Pods : mnt'[v][t] = <<>> BY <1>4 DEF Reboot, Paths
  <2> QED BY <2>1, <2>2, <2>3 DEF Gone, Answered
<1>5. ASSUME NEW p \in Procs, NEW r \in Requests, Call(p, r) PROVE AllGone'
  <2> SUFFICES ASSUME NEW v \in Vols, v \notin astray' PROVE Gone(v)' OBVIOUS
  <2>1. UNCHANGED <<maps, mnt, astray>> BY <1>5, CallFacts
  <2>2. /\ co'[v] = "none" => co[v] = "none"
        /\ \A t \in Pods : pub'[v][t] = "none" => pub[v][t] = "none"
    BY <1>5, CallFacts
  <2>3. /\ h'[p].pc = "queued" /\ \A q \in Procs \ {p} : h'[q] = h[q] BY <1>5, CallFacts
  <2>4. \A q \in Procs \ {p} : About(q, v)' => About(q, v) /\ h'[q] = h[q]
    BY <2>3 DEF About, Busy
  <2>5. \A q \in Procs : \A op \in Ops : Answered(q, v, op)' => Answered(q, v, op) /\ h'[q] = h[q]
    BY <2>3, <2>4 DEF Answered
  <2>6. Closed(v) => Closed(v)' BY <2>1 DEF Closed
  <2>7. Gone(v) BY <2>1
  <2> QED BY <2>1, <2>2, <2>3, <2>4, <2>5, <2>6, <2>7 DEF Gone, Ops
<1>6. ASSUME NEW p \in Procs, Return(p) PROVE AllGone'
  <2> SUFFICES ASSUME NEW v \in Vols, v \notin astray' PROVE Gone(v)' OBVIOUS
  <2>1. UNCHANGED <<maps, mnt, astray>> /\ Gone(v) BY <1>6, ReturnFacts
  <2>2. h[p].pc = "done" /\ h'[p].pc = "idle" /\ \A q \in Procs \ {p} : h'[q] = h[q]
    BY <1>6, ReturnFacts DEF Idle
  <2>3. \A q \in Procs : About(q, v)' => About(q, v) /\ h'[q] = h[q]
    BY <2>2 DEF About, Busy
  <2>4. \A q \in Procs : \A op \in Ops : Answered(q, v, op)' => Answered(q, v, op) /\ h'[q] = h[q]
    BY <2>3 DEF Answered
  <2>5. Closed(v) => Closed(v)' BY <2>1 DEF Closed
  <2>6. co'[v] = "none" => Closed(v)
    <3>1. CASE co[v] = "none" BY <2>1, <3>1 DEF Gone
    <3>2. CASE co[v] # "none" /\ co'[v] = "none"
      <4>1. Answered(p, v, "unstage")
        BY <1>6, <2>2, <3>2, ReturnFacts DEF Answered, About, Busy
      <4> QED BY <2>1, <4>1 DEF Gone
    <3> QED BY <3>1, <3>2
  <2>7. ASSUME NEW t \in Pods, pub'[v][t] = "none" PROVE mnt[v][t] = <<>>
    <3>1. CASE pub[v][t] = "none" BY <2>1, <3>1 DEF Gone
    <3>2. CASE pub[v][t] # "none"
      <4>1. Answered(p, v, "unpublish") /\ h[p].req.pod = t
        BY <1>6, <2>2, <2>7, <3>2, ReturnFacts DEF Answered, About, Busy
      <4> QED BY <2>1, <4>1 DEF Gone
    <3> QED BY <3>1, <3>2
  <2> QED BY <2>1, <2>3, <2>4, <2>5, <2>6, <2>7 DEF Gone, Ops
<1>7. ASSUME NEW p \in Procs, Abandon(p) PROVE AllGone'
  <2> SUFFICES ASSUME NEW v \in Vols, v \notin astray' PROVE Gone(v)' OBVIOUS
  <2>1. /\ UNCHANGED <<maps, mnt, co, pub>> /\ v \notin astray /\ v # h[p].req.vol
        /\ h'[p].req = h[p].req /\ \A q \in Procs \ {p} : h'[q] = h[q]
    BY <1>7, AbandonFacts
  <2>2. \A q \in Procs : About(q, v)' => h'[q] = h[q] BY <2>1 DEF About, Busy
  <2> QED BY <2>1, <2>2, ElsewhereGone
<1>8. CASE UNCHANGED <<maps, mnt, h, co, pub, astray>>
  <2>1. \A v \in Vols, q \in Procs : About(q, v)' => h'[q] = h[q] BY <1>8
  <2> QED BY <1>8, <2>1, ElsewhereGone
<1> QED
  BY <1>2, <1>3, <1>4, <1>5, <1>6, <1>7, <1>8 DEF Next, Attach, Detach, vars

(* Every step keeps AllShown. *)
LEMMA ShownInv ==
    ASSUME MappersDiffer, Inv, Inv', Kubelet, AllShown, [Next]_vars
    PROVE  AllShown'
<1> USE DEF AllShown
<1>1. ASSUME NEW p \in Procs, Lock(p) \/ HandlerStep(p) \/ HostError(p)
      PROVE  AllShown'
  <2>1. UNCHANGED <<prof, co, pub>> /\ astray \subseteq astray' BY <1>1, StepShape
  <2>2. CASE OnlyMoves(p)
    <3>1. PICK r \in Requests : r = h[p].req /\ r.vol \in Vols
      BY <2>2, RequestOf DEF OnlyMoves
    <3>2. Effect(p) BY <1>1, <2>2, StepEffect
    <3>3. r.vol \notin astray => Shown(r.vol)' BY <2>1, <2>2, <3>1, <3>2, WorkShown
    <3>4. ASSUME NEW v \in Vols, v \notin astray, v # r.vol PROVE Shown(v)'
      <4>1. \A q \in Procs : About(q, v)' => h'[q] = h[q]
        BY <2>2, <3>1, <3>4 DEF OnlyMoves, About, Busy
      <4>2. mnt'[v] = mnt[v] BY <3>1, <3>2, <3>4 DEF Effect
      <4> QED BY <2>1, <3>4, <4>1, <4>2, ElsewhereShown
    <3> QED BY <2>1, <3>3, <3>4
  <2>3. CASE Die /\ UNCHANGED <<maps, mnt>>
    <3>1. \A q \in Procs, v \in Vols : ~About(q, v)' BY <2>3 DEF Die, Idle, About, Busy
    <3> QED BY <2>1, <2>3, <3>1, ElsewhereShown
  <2> QED BY <1>1, <2>2, <2>3, StepShape
<1>2. CASE Crash
  <2>1. Die /\ UNCHANGED <<prof, maps, mnt, co, pub, astray>> BY <1>2 DEF Crash, host
  <2>2. \A q \in Procs, v \in Vols : ~About(q, v)' BY <2>1 DEF Die, Idle, About, Busy
  <2> QED BY <2>1, <2>2, ElsewhereShown
<1>3. CASE Reboot
  <2>1. \A q \in Procs, v \in Vols : ~About(q, v)' BY <1>3 DEF Reboot, Die, Idle, About, Busy
  <2>2. \A v \in Vols : co'[v] = "none" /\ \A t \in Pods : pub'[v][t] = "none"
    BY <1>3 DEF Reboot
  <2>3. \A v \in Vols, t \in Paths : mnt'[v][t] = <<>> BY <1>3 DEF Reboot
  <2>4. \A v \in Vols : Own(v)' BY <2>3 DEF Own
  <2> QED BY <2>1, <2>2, <2>4 DEF Shown, Answered
<1>4. ASSUME NEW p \in Procs, NEW r \in Requests, Call(p, r) PROVE AllShown'
  <2> SUFFICES ASSUME NEW v \in Vols, v \notin astray' PROVE Shown(v)' OBVIOUS
  <2>1. UNCHANGED <<prof, maps, mnt, astray>> /\ Shown(v) BY <1>4, CallFacts
  <2>2. /\ co'[v] = "staged" => co[v] = "staged"
        /\ \A t \in Pods : pub'[v][t] = "published" => pub[v][t] = "published"
    BY <1>4, CallFacts
  <2>3. h'[p].pc = "queued" /\ \A q \in Procs \ {p} : h'[q] = h[q] BY <1>4, CallFacts
  <2>4. \A q \in Procs \ {p} : About(q, v)' => About(q, v) /\ h'[q] = h[q]
    BY <2>3 DEF About, Busy
  <2>5. \A q \in Procs : \A op \in Ops : Answered(q, v, op)' => Answered(q, v, op) /\ h'[q] = h[q]
    BY <2>3, <2>4 DEF Answered
  <2>6. Own(v)' BY <2>1 DEF Own, Shown
  <2> QED BY <2>1, <2>2, <2>5, <2>6 DEF Shown, Ops
<1>5. ASSUME NEW p \in Procs, Return(p) PROVE AllShown'
  <2> SUFFICES ASSUME NEW v \in Vols, v \notin astray' PROVE Shown(v)' OBVIOUS
  <2>1. UNCHANGED <<prof, maps, mnt, astray>> /\ Shown(v) BY <1>5, ReturnFacts
  <2>2. h[p].pc = "done" /\ h'[p].pc = "idle" /\ \A q \in Procs \ {p} : h'[q] = h[q]
    BY <1>5, ReturnFacts DEF Idle
  <2>3. \A q \in Procs : About(q, v)' => About(q, v) /\ h'[q] = h[q]
    BY <2>2 DEF About, Busy
  <2>4. \A q \in Procs : \A op \in Ops : Answered(q, v, op)' => Answered(q, v, op) /\ h'[q] = h[q]
    BY <2>3 DEF Answered
  <2>5. Own(v)' BY <2>1 DEF Own, Shown
  <2>6. co'[v] = "staged" /\ ~prof[v].block => mnt[v][Staging] # <<>>
    <3>1. CASE co[v] = "staged" BY <2>1, <3>1 DEF Shown
    <3>2. CASE co[v] # "staged" /\ co'[v] = "staged"
      <4>1. Answered(p, v, "stage")
        BY <1>5, <2>2, <3>2, ReturnFacts DEF Answered, About, Busy
      <4> QED BY <2>1, <4>1 DEF Shown
    <3> QED BY <3>1, <3>2
  <2>7. ASSUME NEW t \in Pods, pub'[v][t] = "published" PROVE mnt[v][t] # <<>>
    <3>1. CASE pub[v][t] = "published" BY <2>1, <3>1 DEF Shown
    <3>2. CASE pub[v][t] # "published"
      <4>1. Answered(p, v, "publish") /\ h[p].req.pod = t
        BY <1>5, <2>2, <2>7, <3>2, ReturnFacts DEF Answered, About, Busy
      <4> QED BY <2>1, <4>1 DEF Shown
    <3> QED BY <3>1, <3>2
  <2> QED BY <2>1, <2>3, <2>4, <2>5, <2>6, <2>7 DEF Shown, Ops
<1>6. ASSUME NEW p \in Procs, Abandon(p) PROVE AllShown'
  <2> SUFFICES ASSUME NEW v \in Vols, v \notin astray' PROVE Shown(v)' OBVIOUS
  <2>1. /\ UNCHANGED <<prof, maps, mnt, co, pub>> /\ v \notin astray /\ v # h[p].req.vol
        /\ h'[p].req = h[p].req /\ \A q \in Procs \ {p} : h'[q] = h[q]
    BY <1>6, AbandonFacts
  <2>2. \A q \in Procs : About(q, v)' => h'[q] = h[q] BY <2>1 DEF About, Busy
  <2> QED BY <2>1, <2>2, ElsewhereShown
<1>7. CASE UNCHANGED <<prof, maps, mnt, h, co, pub, astray>>
  <2>1. \A v \in Vols, q \in Procs : About(q, v)' => h'[q] = h[q] BY <1>7
  <2> QED BY <1>7, <2>1, ElsewhereShown
<1> QED
  BY <1>1, <1>2, <1>3, <1>4, <1>5, <1>6, <1>7 DEF Next, Attach, Detach, vars

-----------------------------------------------------------------------------
(* kubelet asks for nothing in the first state, and nothing is mounted.    *)
LEMMA InitLayers == Init => Kubelet /\ AllGone /\ AllShown
<1> SUFFICES ASSUME Init PROVE Kubelet /\ AllGone /\ AllShown OBVIOUS
<1> USE DEF Init
<1>1. \A p \in Procs, v \in Vols : ~About(p, v) /\ ~Awaits(p, v)
  BY DEF Idle, About, Busy, Awaits
<1>2. \A v \in Vols : co[v] = "none" /\ \A t \in Pods : pub[v][t] = "none" OBVIOUS
<1>3. \A v \in Vols, t \in Paths : mnt[v][t] = <<>> OBVIOUS
<1>4. Staging \in Paths /\ Pods \subseteq Paths BY DEF Paths
<1>5. Kubelet BY <1>1, <1>2 DEF Kubelet, Ordered
<1>6. \A v \in Vols : Closed(v) BY <1>3, <1>4, NodeAssumption DEF Closed
<1>7. \A v \in Vols : Own(v) BY <1>3 DEF Own
<1>8. AllGone BY <1>1, <1>3, <1>4, <1>6 DEF AllGone, Gone, Answered
<1>9. AllShown BY <1>1, <1>2, <1>7 DEF AllShown, Shown, Answered
<1> QED BY <1>5, <1>8, <1>9

(***************************************************************************)
(* NodeUnpublishVolume and NodeUnstageVolume leave nothing behind, for any *)
(* volumes whose label is their mapper name, however calls are repeated,   *)
(* fail or are cut short by crashes and reboots, unless a call about the   *)
(* volume was given up or luksClose passed over an error of its lookup.    *)
(* What an OK promises is still so when kubelet takes note of it, because  *)
(* until then it asks for nothing else; the close that was passed over is  *)
(* the only one whose OK leaves a mapping, and it leaves just the one it   *)
(* was asked to close.                                                     *)
(***************************************************************************)
THEOREM LeavesNothing == LabelIsMapper => (Spec => []NothingLeftBehind)
<1> SUFFICES ASSUME LabelIsMapper PROVE Spec => []NothingLeftBehind OBVIOUS
<1>1. Kubelet /\ AllGone /\ Inv /\ Inv' /\ [Next]_vars => (Kubelet /\ AllGone)'
  BY KubeletInv, GoneInv
<1>2. AllGone => NothingLeftBehind
  BY DEF AllGone, Gone, Closed, NothingLeftBehind, IsMountPoint
<1>3. Spec => [](Kubelet /\ AllGone)
  BY <1>1, InitLayers, Inductive, PTL DEF Spec
<1> QED BY <1>2, <1>3, PTL

(***************************************************************************)
(* A pod sees its own volume and nothing else, for any volumes no two of   *)
(* which have the same mapper name, through repeated calls, crashes and    *)
(* reboots, with the same two exceptions: the bind mount is made while the *)
(* staging path shows the volume, because kubelet unstages nothing it has  *)
(* published.                                                              *)
(***************************************************************************)
THEOREM PodsSeeTheirVolume == MappersDiffer => (Spec => []PublishedShowsVolume)
<1> SUFFICES ASSUME MappersDiffer PROVE Spec => []PublishedShowsVolume OBVIOUS
<1>1. Kubelet /\ AllShown /\ Inv /\ Inv' /\ [Next]_vars => (Kubelet /\ AllShown)'
  BY KubeletInv, ShownInv
<1>2. Inv /\ AllShown => PublishedShowsVolume
  <2> SUFFICES ASSUME Inv, AllShown, NEW v \in Vols \ astray, NEW t \in Pods,
                      pub[v][t] = "published"
               PROVE  IsMountPoint(v, t) /\ Top(v, t) = v
    BY DEF PublishedShowsVolume
  <2>1. t \in Paths BY DEF Paths
  <2>2. Own(v) /\ mnt[v][t] # <<>> BY DEF AllShown, Shown
  <2>3. mnt[v][t] \in Seq(Vols \cup {Host}) BY <2>1 DEF Inv, TypeOK
  <2>4. Len(mnt[v][t]) \in DOMAIN mnt[v][t] BY <2>2, <2>3
  <2>5. mnt[v][t][Len(mnt[v][t])] = v BY <2>1, <2>2, <2>4 DEF Own
  <2> QED BY <2>2, <2>5 DEF IsMountPoint, Top
<1>3. Spec => [](Kubelet /\ AllShown)
  BY <1>1, InitLayers, Inductive, PTL DEF Spec
<1> QED BY <1>2, <1>3, Inductive, PTL

-----------------------------------------------------------------------------
(***************************************************************************)
(* A node among others.  All three layers together, and what a system of   *)
(* several nodes needs to know of one of them: when the node has something *)
(* to do with a volume, and what of a volume it writes.                    *)
(***************************************************************************)
(* A path of a volume shows that volume or, bound before it was staged,    *)
(* the host's own file system: never another volume.                       *)
AllOwn == \A v \in Vols, t \in Paths : \A i \in DOMAIN mnt[v][t] : mnt[v][t][i] \in {v, Host}

(* s1 is s after a mount of v or of the host's file system, or unmounts. *)
OneMore(s1, s, v) ==
    \A i \in DOMAIN s1 : (i \in DOMAIN s /\ s1[i] = s[i]) \/ s1[i] \in {v, Host}

(* The four things a handler does to a path.                               *)
LEMMA OneMoreFacts ==
    ASSUME NEW v \in Vols, NEW s \in Seq(Vols \cup {Host})
    PROVE  /\ OneMore(s, s, v)
           /\ OneMore(Append(s, v), s, v)
           /\ OneMore(Append(s, Host), s, v)
           /\ \A s1 : Shorter(s1, s) => OneMore(s1, s, v)
<1> DEFINE S == Vols \cup {Host}
<1>1. s \in Seq(S) /\ v \in S /\ Host \in S OBVIOUS
<1> HIDE DEF S
<1>2. \A i \in DOMAIN Append(s, v) : (i \in DOMAIN s /\ Append(s, v)[i] = s[i]) \/ Append(s, v)[i] = v
  BY <1>1, AppendFacts
<1>3. \A i \in DOMAIN Append(s, Host) : (i \in DOMAIN s /\ Append(s, Host)[i] = s[i]) \/ Append(s, Host)[i] = Host
  BY <1>1, AppendFacts
<1>4. OneMore(Append(s, v), s, v) BY <1>2 DEF OneMore
<1>5. OneMore(Append(s, Host), s, v) BY <1>3 DEF OneMore
<1>6. OneMore(s, s, v) /\ \A s1 : Shorter(s1, s) => OneMore(s1, s, v) BY DEF OneMore, Shorter
<1> QED BY <1>4, <1>5, <1>6

(* A step that changes one path of one volume.                             *)
LEMMA PathStep ==
    ASSUME AllOwn, NEW w \in Vols, NEW t \in Paths,
           \A u \in Vols \ {w} : mnt'[u] = mnt[u],
           \A s \in Paths \ {t} : mnt'[w][s] = mnt[w][s],
           OneMore(mnt'[w][t], mnt[w][t], w)
    PROVE  AllOwn'
<1> SUFFICES ASSUME NEW v \in Vols, NEW s \in Paths, NEW i \in DOMAIN mnt'[v][s]
             PROVE  mnt'[v][s][i] \in {v, Host}
  BY DEF AllOwn
<1>1. CASE v # w \/ s # t BY <1>1 DEF AllOwn
<1>2. CASE v = w /\ s = t BY <1>2 DEF AllOwn, OneMore
<1> QED BY <1>1, <1>2

(* A step of a handler.                                                    *)
LEMMA WorkOwn ==
    ASSUME MappersDiffer, Inv, AllOwn, NEW p \in Procs, NEW r \in Requests,
           r = h[p].req, OnlyMoves(p), Effect(p)
    PROVE  AllOwn'
<1> DEFINE w == r.vol
           S == Vols \cup {Host}
<1>1. /\ h[p].pc # "idle" /\ w \in Vols /\ r.op \in Ops
      /\ r.op \in {"publish", "unpublish"} => r.pod \in Pods
  BY RequestOf DEF OnlyMoves
<1>2. Staging \in Paths /\ Pods \subseteq Paths BY DEF Paths
<1>3. \A t \in Paths : mnt[w][t] \in Seq(S) BY <1>1 DEF Inv, TypeOK
<1>4. \A u \in Vols \ {w} : mnt'[u] = mnt[u] BY DEF Effect
<1>5. ASSUME NEW t \in Paths, \A s \in Paths \ {t} : mnt'[w][s] = mnt[w][s],
             \/ mnt'[w][t] = mnt[w][t]
             \/ mnt'[w][t] = Append(mnt[w][t], w)
             \/ mnt'[w][t] = Append(mnt[w][t], Host)
             \/ Shorter(mnt'[w][t], mnt[w][t])
      PROVE  AllOwn'
  <2> DEFINE s0 == mnt[w][t]
  <2>1. w \in Vols /\ s0 \in Seq(Vols \cup {Host}) BY <1>1, <1>3
  <2>2. /\ OneMore(s0, s0, w) /\ OneMore(Append(s0, w), s0, w)
        /\ OneMore(Append(s0, Host), s0, w)
        /\ \A s1 : Shorter(s1, s0) => OneMore(s1, s0, w)
    <3> HIDE DEF w, s0
    <3> QED BY <2>1, OneMoreFacts, Zenon
  <2> DEFINE s2 == mnt'[w][t]
  <2>3. s2 = s0 \/ s2 = Append(s0, w) \/ s2 = Append(s0, Host) \/ Shorter(s2, s0) BY <1>5
  <2>4. OneMore(s2, s0, w)
    <3> HIDE DEF w, s0, s2
    <3> QED BY <2>2, <2>3, Zenon
  <2> QED BY <1>1, <1>4, <1>5, <2>4, PathStep
<1>6. CASE r.op \in {"stage", "unstage"}
  <2>1. h[p].pc = "stage_mount" => fmtAndMountSource(w) = w BY OwnSource DEF MountSteps
  <2>2. \/ mnt'[w][Staging] = mnt[w][Staging]
        \/ mnt'[w][Staging] = Append(mnt[w][Staging], w)
        \/ Shorter(mnt'[w][Staging], mnt[w][Staging])
    BY <1>6, <2>1 DEF Effect
  <2>3. \A s \in Paths \ {Staging} : mnt'[w][s] = mnt[w][s] BY <1>6 DEF Effect, Paths
  <2> QED BY <1>2, <1>5, <2>2, <2>3
<1>7. CASE r.op = "publish"
  <2>1. Top(w, Staging) = w \/ Top(w, Staging) = Host
    <3>1. mnt[w][Staging] \in Seq(S) BY <1>2, <1>3
    <3>2. mnt[w][Staging] # <<>> => Len(mnt[w][Staging]) \in DOMAIN mnt[w][Staging]
      BY <3>1
    <3> QED BY <1>1, <1>2, <3>2 DEF Top, IsMountPoint, AllOwn
  <2>2. \/ mnt'[w][r.pod] = mnt[w][r.pod]
        \/ mnt'[w][r.pod] = Append(mnt[w][r.pod], w)
        \/ mnt'[w][r.pod] = Append(mnt[w][r.pod], Host)
    BY <1>7, <2>1 DEF Effect
  <2>3. \A s \in Paths \ {r.pod} : mnt'[w][s] = mnt[w][s] BY <1>7 DEF Effect
  <2>4. r.pod \in Paths BY <1>1, <1>2, <1>7
  <2> QED BY <1>5, <2>2, <2>3, <2>4
<1>8. CASE r.op = "unpublish"
  <2>1. Shorter(mnt'[w][r.pod], mnt[w][r.pod]) BY <1>8 DEF Effect
  <2>2. \A s \in Paths \ {r.pod} : mnt'[w][s] = mnt[w][s] BY <1>8 DEF Effect
  <2>3. r.pod \in Paths BY <1>1, <1>2, <1>8
  <2> QED BY <1>5, <2>1, <2>2, <2>3
<1> QED BY <1>1, <1>6, <1>7, <1>8 DEF Ops

(* Every step keeps AllOwn, whatever has gone astray.                      *)
LEMMA OwnInv ==
    ASSUME MappersDiffer, Inv, AllOwn, [Next]_vars
    PROVE  AllOwn'
<1>2. CASE mnt' = mnt BY <1>2 DEF AllOwn
<1>3. ASSUME NEW p \in Procs, Lock(p) \/ HandlerStep(p) \/ HostError(p), OnlyMoves(p)
      PROVE  AllOwn'
  <2>1. PICK r \in Requests : r = h[p].req BY <1>3, RequestOf DEF OnlyMoves
  <2>2. Effect(p) BY <1>3, StepEffect
  <2> QED BY <1>3, <2>1, <2>2, WorkOwn
<1>4. ASSUME NEW p \in Procs, Lock(p) \/ HandlerStep(p) \/ HostError(p) PROVE AllOwn'
  BY <1>2, <1>3, <1>4, StepShape
<1>5. CASE Reboot
  <2>1. \A v \in Vols, t \in Paths : mnt'[v][t] = <<>> BY <1>5 DEF Reboot
  <2> QED BY <2>1 DEF AllOwn
<1> QED
  BY <1>2, <1>4, <1>5
     DEF Next, vars, Call, Return, Abandon, Attach, Detach, Crash, host

(* A staging, late or not, works on a device that is there. *)
Grounded == \A p \in Procs : h[p].pc \in OnDevice => h[p].req.vol \in attached

(* What takes a device away leaves alone the one a staging works on.       *)
LEMMA GroundedInv ==
    ASSUME Inv, Grounded, [Next]_vars
    PROVE  Grounded'
<1> USE DEF Grounded
<1>1. ASSUME NEW p \in Procs, Lock(p) \/ HandlerStep(p) \/ HostError(p)
      PROVE  Grounded'
  <2>1. attached' = attached
    BY <1>1 DEF Lock, HostError, host, Local, HandlerStep, StageFind, StagePoint, StageBlkid,
       LuksFormat, LuksKeyslot, LuksActivate, LuksOpen, StageCheck, StageMkfs,
       StageMount, UnstageClean, UnstageClose, PubPoint, PubBind, PubBlock, UnpubClean
  <2>2. CASE OnlyMoves(p)
    <3>1. \A q \in Procs \ {p} : h'[q] = h[q] BY <2>2 DEF OnlyMoves
    <3>2. h'[p].req = h[p].req /\ h \in [Procs -> Handler]
      BY <2>2 DEF OnlyMoves, Inv, TypeOK
    <3>3. h'[p].pc \in OnDevice => h[p].pc \in OnDevice \/ h[p].req.vol \in attached
      <4>1. CASE StageFind(p)
        <5>1. CASE devicePathExists(h[p].req.vol) BY <5>1 DEF devicePathExists
        <5>2. CASE ~devicePathExists(h[p].req.vol)
          <6>1. \E code \in Codes : Reply(p, code) BY <4>1, <5>2 DEF StageFind, Codes
          <6>2. h'[p].pc = "done" BY <3>2, <6>1 DEF Reply, Handler
          <6> QED BY <6>2 DEF OnDevice
        <5> QED BY <5>1, <5>2
      <4>2. CASE Lock(p)
        <5>1. h[p].req.op \in Ops BY <2>2, RequestOf DEF OnlyMoves
        <5>2. FirstStep(h[p].req) \notin OnDevice BY <5>1 DEF FirstStep, Ops, OnDevice
        <5> QED BY <3>2, <4>2, <5>2 DEF Lock, Reply, OnDevice, Handler
      <4>3. CASE UnstageClean(p) \/ UnstageClose(p) \/ PubPoint(p) \/ PubBind(p)
                 \/ PubBlock(p) \/ UnpubClean(p) \/ HostError(p)
        <5>1. h'[p].pc \in {"done", "unstage_close", "pub_bind"}
          BY <3>2, <4>3 DEF UnstageClean, UnstageClose, PubPoint, PubBind, PubBlock, UnpubClean,
             HostError, HostErrorReported, CloseSwallowed, Reply, Goto, Handler
        <5> QED BY <5>1 DEF OnDevice
      <4>4. CASE \/ StagePoint(p) \/ StageBlkid(p) \/ LuksFormat(p) \/ LuksKeyslot(p)
                 \/ LuksActivate(p) \/ LuksOpen(p) \/ StageCheck(p) \/ StageMkfs(p)
                 \/ StageMount(p)
        BY <4>4 DEF StagePoint, StageBlkid, LuksFormat, LuksKeyslot, LuksActivate, LuksOpen,
           StageCheck, StageMkfs, StageMount, At, OnDevice
      <4> QED BY <1>1, <4>1, <4>2, <4>3, <4>4 DEF HandlerStep
    <3> QED BY <2>1, <3>1, <3>2, <3>3
  <2>3. CASE Die BY <2>3 DEF Die, Idle, OnDevice
  <2> QED BY <1>1, <2>2, <2>3, StepShape
<1>2. ASSUME NEW p \in Procs, NEW r \in Requests, Call(p, r) PROVE Grounded'
  <2>1. h'[p].pc = "queued" /\ \A q \in Procs \ {p} : h'[q] = h[q] BY <1>2, CallFacts
  <2> QED BY <1>2, <2>1 DEF Call, host, OnDevice
<1>3. ASSUME NEW p \in Procs, Return(p) PROVE Grounded'
  <2>1. h'[p].pc = "idle" /\ \A q \in Procs \ {p} : h'[q] = h[q] BY <1>3, ReturnFacts DEF Idle
  <2> QED BY <1>3, <2>1 DEF Return, host, OnDevice
<1>4. ASSUME NEW p \in Procs, Abandon(p) PROVE Grounded'
  <2>1. \A q \in Procs : h'[q].req = h[q].req /\ h'[q].pc = h[q].pc BY <1>4, AbandonFacts
  <2> QED BY <1>4, <2>1 DEF Abandon, host
<1>5. CASE Crash \/ Reboot BY <1>5 DEF Crash, Reboot, Die, Idle, OnDevice
<1>6. ASSUME NEW v \in Vols, Detach(v) PROVE Grounded'
  <2>1. \A p \in Procs : h[p].pc \in OnDevice => h[p].pc # "idle" /\ h[p].req.vol # v
    BY <1>6 DEF Detach, About, Busy, OnDevice
  <2> QED BY <1>6, <2>1 DEF Detach
<1>7. CASE (\E v \in Vols : Attach(v)) \/ UNCHANGED vars BY <1>7 DEF Attach, vars
<1> QED BY <1>1, <1>2, <1>3, <1>4, <1>5, <1>6, <1>7 DEF Next

(* The invariant of a node. *)
NodeInv == Inv /\ Kubelet /\ AllGone /\ AllShown /\ AllOwn /\ Grounded

(* kubelet has the volume, or waits for a call about it. *)
Engaged(v) == co[v] # "none" \/ \E p \in Procs : Awaits(p, v)

(* Something of the host is on the device. *)
Uses(v) == InUse(v) \/ \E m \in Mappers : maps[m] = v

(* Every state a node starts in. *)
LEMMA InitNode == Init => NodeInv
  BY InitInv, InitLayers DEF NodeInv, AllOwn, Grounded, Init, Idle, OnDevice

(* Every step of the node keeps all layers, and what is written. *)
LEMMA NextNode ==
    ASSUME LabelIsMapper, MappersDiffer, NodeInv, [Next]_vars
    PROVE  NodeInv' /\ Kept
<1>1. Inv' /\ Kept BY NextInv DEF NodeInv
<1> QED BY <1>1, KubeletInv, GoneInv, ShownInv, OwnInv, GroundedInv DEF NodeInv

(* A host has only what kubelet counts as staged, or is staging, and what  *)
(* has gone astray.                                                        *)
LEMMA UsesIsStaged ==
    ASSUME NodeInv, NEW v \in Vols \ astray, Uses(v)
    PROVE  co[v] # "none"
<1>1. Gone(v) /\ Ordered(v) /\ v # Host
  BY NodeAssumption DEF NodeInv, AllGone, Kubelet
<1>2. CASE \E m \in Mappers : maps[m] = v
  BY <1>1, <1>2 DEF Gone, Closed
<1>3. CASE InUse(v)
  <2>1. PICK u \in Vols, t \in Paths : \E i \in DOMAIN mnt[u][t] : mnt[u][t][i] = v
    BY <1>3 DEF InUse
  <2>2. u = v BY <1>1, <2>1 DEF NodeInv, AllOwn
  <2>3. mnt[v][t] # <<>> BY <2>1, <2>2
  <2>4. CASE t = Staging BY <1>1, <2>3, <2>4 DEF Gone, Closed
  <2>5. CASE t \in Pods BY <1>1, <2>3, <2>5 DEF Gone, Ordered
  <2> QED BY <2>4, <2>5 DEF Paths
<1> QED BY <1>2, <1>3 DEF Uses

(* A handler writes on no device but that of the volume it stages. *)
LEMMA Writes ==
    ASSUME MappersDiffer, Inv, [Next]_vars, NEW v \in Vols, disk'[v] # disk[v]
    PROVE  \E p \in Procs : h[p].pc \in OnDevice /\ h[p].req.vol = v
<1>1. PICK p \in Procs : LuksFormat(p) \/ LuksKeyslot(p) \/ StageMkfs(p)
  <2>1. ASSUME NEW p \in Procs, HandlerStep(p)
        PROVE  LuksFormat(p) \/ LuksKeyslot(p) \/ StageMkfs(p)
    <3>1. ASSUME \/ StageFind(p) \/ StagePoint(p) \/ StageBlkid(p) \/ StageCheck(p)
                 \/ LuksActivate(p) \/ LuksOpen(p) \/ StageMount(p)
          PROVE  disk' = disk
      BY <3>1 DEF StageFind, StagePoint, StageBlkid, StageCheck, LuksActivate, LuksOpen,
                  StageMount, Local
    <3>2. ASSUME \/ UnstageClean(p) \/ UnstageClose(p) \/ PubPoint(p) \/ PubBind(p)
                 \/ PubBlock(p) \/ UnpubClean(p)
          PROVE  disk' = disk
      BY <3>2 DEF UnstageClean, UnstageClose, PubPoint, PubBind, PubBlock, UnpubClean, Local
    <3> QED BY <2>1, <3>1, <3>2 DEF HandlerStep
  <2>2. ASSUME NEW p \in Procs, Lock(p) \/ Return(p) \/ HostError(p) \/ Abandon(p)
        PROVE  disk' = disk
    BY <2>2 DEF Lock, Return, HostError, Abandon, host, Local
  <2>3. ASSUME NEW p \in Procs, NEW r \in Requests, Call(p, r) PROVE disk' = disk
    BY <2>3 DEF Call, host
  <2>4. ASSUME \/ \E u \in Vols : Attach(u) \/ Detach(u)
               \/ Crash \/ Reboot \/ UNCHANGED vars
        PROVE  disk' = disk
    BY <2>4 DEF Attach, Detach, Crash, Reboot, host, vars
  <2> QED BY <2>1, <2>2, <2>3, <2>4 DEF Next
<1>2. h[p].pc # "idle" BY <1>1 DEF LuksFormat, LuksKeyslot, StageMkfs, At
<1>3. disk \in [Vols -> Contents] /\ h[p].req.vol \in Vols
  BY <1>2, RequestOf DEF Inv, TypeOK
<1>4. v = h[p].req.vol
  <2>1. CASE LuksFormat(p) \/ LuksKeyslot(p)
    BY <1>3, <2>1 DEF LuksFormat, LuksKeyslot
  <2>2. CASE StageMkfs(p)
    <3>1. h[p].pc \in MountSteps BY <2>2 DEF StageMkfs, At, MountSteps
    <3>2. fmtAndMountSource(h[p].req.vol) = h[p].req.vol BY <3>1, OwnSource
    <3> QED BY <1>3, <2>2, <3>2 DEF StageMkfs
  <2> QED BY <1>1, <2>1, <2>2
<1>5. h[p].pc \in OnDevice BY <1>1 DEF LuksFormat, LuksKeyslot, StageMkfs, At, OnDevice
<1> QED BY <1>4, <1>5

(* kubelet takes up a volume only by asking for its staging. *)
LEMMA CallEngages ==
    ASSUME NodeInv, NEW p \in Procs, NEW r \in Requests, Call(p, r),
           NEW v \in Vols, Engaged(v)'
    PROVE  Engaged(v) \/ (r.op = "stage" /\ r.vol = v)
<1>1. /\ Allowed(r) /\ h'[p].req = r /\ \A q \in Procs \ {p} : h'[q] = h[q]
      /\ r.vol \in Vols /\ r.op \in Ops /\ (r.op = "unpublish" => r.pod \in Pods)
  BY CallFacts, NodeAssumption DEF NodeInv, Request
<1>2. CASE r.vol # v
  <2>1. co'[v] = co[v] BY <1>1, <1>2 DEF Call, NodeInv, Inv, TypeOK
  <2>2. \A q \in Procs : Awaits(q, v)' => Awaits(q, v) BY <1>1, <1>2 DEF Awaits, About, Busy
  <2> QED BY <2>1, <2>2 DEF Engaged
<1>3. CASE r.vol = v /\ r.op # "stage"
  <2>1. Ordered(v) BY DEF NodeInv, Kubelet
  <2>2. co[v] # "none" BY <1>1, <1>3, <2>1 DEF Allowed, Ordered, Ops
  <2> QED BY <2>2 DEF Engaged
<1> QED BY <1>2, <1>3

(* What the plugin and the node do takes up nothing. *)
LEMMA StepEngages ==
    ASSUME Inv, NEW v \in Vols, Engaged(v)',
           \/ \E p \in Procs :
                Lock(p) \/ HandlerStep(p) \/ Return(p) \/ HostError(p) \/ Abandon(p)
           \/ Crash \/ Reboot
    PROVE  Engaged(v)
<1>1. ASSUME NEW p \in Procs, Lock(p) \/ HandlerStep(p) \/ HostError(p) PROVE Engaged(v)
  <2>1. co' = co BY <1>1, StepShape
  <2>2. CASE OnlyMoves(p)
    <3>1. \A q \in Procs : Awaits(q, v)' => Awaits(q, v)
      BY <2>2 DEF OnlyMoves, Awaits, About, Busy
    <3> QED BY <2>1, <3>1 DEF Engaged
  <2>3. CASE Die
    BY <2>1, <2>3 DEF Engaged, Die, Idle, Awaits, About, Busy
  <2> QED BY <1>1, <2>2, <2>3, StepShape
<1>2. ASSUME NEW p \in Procs, Return(p) PROVE Engaged(v)
  <2>1. /\ h[p].pc = "done" /\ h'[p].pc = "idle" /\ \A q \in Procs \ {p} : h'[q] = h[q]
    BY <1>2, ReturnFacts DEF Idle
  <2>2. \A q \in Procs : Awaits(q, v)' => Awaits(q, v) BY <2>1 DEF Awaits, About, Busy
  <2>3. CASE h[p].req.vol = v /\ ~h[p].late
    BY <2>1, <2>3 DEF Engaged, Awaits, About, Busy
  <2>4. CASE h[p].req.vol # v \/ h[p].late
    <3>1. co'[v] = co[v]
      <4>1. CASE h[p].req.vol # v BY <1>2, <4>1, ReturnFacts
      <4>2. CASE h[p].late BY <1>2, <4>2 DEF Return
      <4> QED BY <2>4, <4>1, <4>2
    <3> QED BY <2>2, <3>1 DEF Engaged
  <2> QED BY <2>3, <2>4
<1>3. ASSUME NEW p \in Procs, Abandon(p) PROVE Engaged(v)
  <2>1. /\ \A q \in Procs : h'[q].req = h[q].req /\ h'[q].pc = h[q].pc
        /\ \A q \in Procs : ~h'[q].late => ~h[q].late
        /\ UNCHANGED <<co, pub>>
    BY <1>3, AbandonFacts
  <2> QED BY <2>1 DEF Engaged, Awaits, About, Busy
<1>4. CASE Crash \/ Reboot
  BY <1>4 DEF Crash, Reboot, Die, Idle, Engaged, Awaits, About, Busy
<1> QED BY <1>1, <1>2, <1>3, <1>4

(* What happens elsewhere leaves the node as it is, if it neither writes   *)
(* on a device that the node works on nor takes it away.                   *)
LEMMA Elsewhere ==
    ASSUME MappersDiffer, NodeInv, UNCHANGED <<prof, maps, mnt, h, mux, co, pub, astray>>,
           attached' \subseteq Vols, disk' \in [Vols -> Contents],
           faults' \in 0 .. MaxFaults,
           \A p \in Procs : h[p].pc \in OnDevice =>
             disk'[h[p].req.vol] = disk[h[p].req.vol] /\ h[p].req.vol \in attached'
    PROVE  NodeInv'
<1>1. TypeOK' BY DEF NodeInv, Inv, TypeOK
<1>2. ASSUME NEW p \in Procs PROVE Position(p)' /\ Seen(p)'
  <2>1. Position(p)' BY DEF NodeInv, Inv, Position
  <2>2. CASE h[p].pc \notin OnDevice
    <3>1. /\ h'[p].pc \notin OnDevice /\ h'[p].pc \notin LuksSteps \cup MountSteps
          /\ h'[p].pc \notin {"luks_format", "luks_keyslot", "stage_mkfs"}
      BY <2>2 DEF OnDevice, LuksSteps, MountSteps
    <3> QED BY <2>1, <3>1 DEF Seen
  <2>3. CASE h[p].pc \in OnDevice
    <3> DEFINE v == h[p].req.vol
               u == fmtAndMountSource(v)
    <3>1. h[p].pc # "idle" /\ v \in Vols
      BY <2>3, RequestOf DEF NodeInv, OnDevice
    <3>2. disk'[v] = disk[v] BY <2>3
    <3>3. u' = u BY DEF fmtAndMountSource
    <3>4. h[p].pc \in MountSteps => disk'[u] = disk[u]
      <4> SUFFICES ASSUME h[p].pc \in MountSteps PROVE disk'[u] = disk[u] OBVIOUS
      <4>1. u = v BY OwnSource DEF NodeInv
      <4> QED BY <3>2, <4>1
    <3>5. Seen(p) BY DEF NodeInv, Inv
    <3> QED BY <2>1, <3>2, <3>3, <3>4, <3>5 DEF Seen, Formatted, MountSteps
  <2> QED BY <2>1, <2>2, <2>3
<1>3. Mapped' BY DEF NodeInv, Inv, Mapped
<1>4. Kubelet' BY DEF NodeInv, Kubelet, Ordered, Awaits, View, About, Busy
<1>5. \A v \in Vols : Gone(v) => Gone(v)'
  BY DEF Gone, Closed, Answered, About, Busy
<1>6. \A v \in Vols : Shown(v) => Shown(v)'
  BY DEF Shown, Own, Answered, About, Busy
<1>7. AllGone' /\ AllShown' /\ AllOwn' /\ Grounded'
  BY <1>5, <1>6 DEF NodeInv, AllGone, AllShown, AllOwn, Grounded
<1> QED BY <1>1, <1>2, <1>3, <1>4, <1>7 DEF NodeInv, Inv

(* What the volumes are never changes. *)
LEMMA ProfStays ==
    ASSUME Inv, [Next]_vars
    PROVE  prof' = prof
<1>1. ASSUME NEW p \in Procs, Lock(p) \/ HandlerStep(p) \/ HostError(p) PROVE prof' = prof
  BY <1>1, StepShape
<1> QED
  BY <1>1 DEF Next, vars, Call, Return, Abandon, Attach, Detach, Crash, Reboot

=============================================================================
