-------------------------- MODULE AttachmentProofs --------------------------
(***************************************************************************)
(* Publishing and unpublishing.  For every number of handlers, volumes and *)
(* nodes, every mix of requests and every failure, and a CO that keeps its *)
(* discipline: a published volume is attached, an unpublished one is not,  *)
(* and the controller service implements VolumeAttachment.                 *)
(***************************************************************************)
EXTENDS ControllerServerProofs

(***************************************************************************)
(* Publishing under an orderly CO.                                         *)
(*                                                                         *)
(* PublishedIsAttached is not inductive: a volume could be on its node     *)
(* with a detach pending that an earlier, timed out unpublish started, or  *)
(* a delete could be past its check.  The strengthening says               *)
(*   - of the handlers: at most one is at work on a volume (Serial), and   *)
(*     what each of them has established so far still holds (Progress);    *)
(*   - of each volume: the CO counts it as published on at most one node;  *)
(*     it is, or is going to be, only where the CO may think it is; a      *)
(*     pending detach means that the CO is unpublishing; and a volume that *)
(*     is gone is nowhere (Placement).                                     *)
(***************************************************************************)
OnVol(p, v) == Busy(p) /\ h[p].req.op # "create" /\ h[p].req.vol = v

Serial == \A p, q \in Procs, v \in Ids : OnVol(p, v) /\ OnVol(q, v) => p = q

Placement(v) ==
    /\ \A m, n \in Nodes : va[v][m] # "none" /\ va[v][n] # "none" => m = n
    /\ \A n \in Nodes : n \in {vols[v].linode, vols[v].target} => va[v][n] # "none"
    /\ \A n \in Nodes : va[v][n] = "ok" =>
         Exists(v) /\ vols[v].linode = n /\ vols[v].target = n
    /\ \A n \in Nodes : vols[v].linode = n /\ vols[v].target # n => va[v][n] = "unpub"
    /\ ~Exists(v) => vols[v].linode = None /\ vols[v].target = None

Progress(p, v) ==
    LET n == h[p].req.node IN
    /\ h[p].req.op = "publish" /\ n \in Nodes => va[v][n] \in {"pub", "ok"}
    /\ h[p].req.op = "unpublish" /\ n \in Nodes => va[v][n] = "unpub"
    /\ At(p, "unpub_wait") => vols[v].target = None
    /\ Answered(p, "publish") => Exists(v) /\ vols[v].linode = n /\ vols[v].target = n
    /\ Answered(p, "unpublish") => vols[v].linode = None /\ vols[v].target = None
    /\ At(p, "delete_do") => \A m \in Nodes : va[v][m] # "ok"

AttachInv ==
    /\ TypeOK
    /\ Serial
    /\ \A v \in Ids : Placement(v)
    /\ \A p \in Procs, v \in Ids : OnVol(p, v) => Progress(p, v)

(* A step that does not touch what the invariant says of a volume. *)
SameVol(v) ==
    /\ Exists(v)' = Exists(v)
    /\ vols'[v].linode = vols[v].linode /\ vols'[v].target = vols[v].target
    /\ va'[v] = va[v]

(* What is said of a volume that is left alone stays true of it. *)
LEMMA SamePlacement ==
    ASSUME NEW v \in Ids, Placement(v), SameVol(v)
    PROVE  Placement(v)'
  BY DEF Placement, SameVol

(* So does what is said of a handler that did not move. *)
LEMMA SameProgress ==
    ASSUME NEW p \in Procs, NEW v \in Ids, Progress(p, v), SameVol(v), h'[p] = h[p]
    PROVE  Progress(p, v)'
  BY DEF Progress, SameVol, At, Answered

(***************************************************************************)
(* The shape of every step but a call: no handler begins, and only the     *)
(* volume and the handler at work have to be looked at.                    *)
(***************************************************************************)
LEMMA Preserve ==
    ASSUME AttachInv, TypeOK',
           \A q \in Procs : Busy(q)' => Busy(q) /\ h'[q].req = h[q].req,
           \A v \in Ids : SameVol(v) \/ Placement(v)',
           \A q \in Procs, v \in Ids :
             OnVol(q, v) /\ OnVol(q, v)' => (h'[q] = h[q] /\ SameVol(v)) \/ Progress(q, v)'
    PROVE  AttachInv'
<1>1. \A q \in Procs, v \in Ids : OnVol(q, v)' => OnVol(q, v)
  BY DEF OnVol
<1>2. Serial'
  BY <1>1 DEF AttachInv, Serial
<1>3. \A v \in Ids : Placement(v)'
  BY SamePlacement DEF AttachInv
<1>4. \A q \in Procs, v \in Ids : OnVol(q, v)' => Progress(q, v)'
  BY <1>1, SameProgress DEF AttachInv
<1> QED
  BY <1>2, <1>3, <1>4 DEF AttachInv

(* Quiet steps: handler p moves on, the cloud's attachments and the CO's   *)
(* view stay as they are.                                                  *)
LEMMA QuietStep ==
    ASSUME AttachInv, TypeOK', NEW p \in Procs, NEW pc, NEW id, NEW code,
           Moved(p, pc, id, code), Busy(p), \A v \in Ids : SameVol(v),
           \A v \in Ids : OnVol(p, v) => Progress(p, v)'
    PROVE  AttachInv'
<1>1. \A q \in Procs : Busy(q)' => Busy(q) /\ h'[q].req = h[q].req
  BY DEF Moved, Busy
<1>2. \A q \in Procs, v \in Ids :
        OnVol(q, v) => (h'[q] = h[q] /\ SameVol(v)) \/ Progress(q, v)'
  BY DEF Moved
<1> QED
  BY <1>1, <1>2, Preserve

(* Steps that change neither the cloud nor the view. *)
LEMMA Unchanged ==
    ASSUME UNCHANGED <<vols, va>>
    PROVE  \A v \in Ids : SameVol(v)
  BY DEF SameVol, Exists

(* A handler that is not at work on a volume moves on quietly. *)
LEMMA CreateMoves ==
    ASSUME AttachInv, TypeOK', NEW p \in Procs, NEW pc, NEW id, NEW code,
           Moved(p, pc, id, code), h[p].pc \in CreateSteps, \A v \in Ids : SameVol(v)
    PROVE  AttachInv'
<1>1. Busy(p) /\ h[p].req.op = "create"
  BY StepFacts, OpOfSteps DEF AttachInv, Busy
<1> QED
  BY <1>1, QuietStep DEF OnVol

(* A process that dies drops its handlers and leaves the cloud alone. *)
LEMMA CrashInv ==
    ASSUME AttachInv, TypeOK', h' = [q \in Procs |-> Idle], UNCHANGED <<vols, va>>
    PROVE  AttachInv'
<1>1. \A q \in Procs : ~Busy(q)'
  BY DEF Busy, Idle
<1> QED
  BY <1>1, Unchanged, Preserve DEF OnVol

(* What a handler has to establish to move from one step to the next. *)
LEMMA MovedProgress ==
    ASSUME AttachInv, NEW p \in Procs, NEW v \in Ids, OnVol(p, v),
           NEW pc, NEW id, NEW code, Moved(p, pc, id, code), va' = va,
           pc = "unpub_wait" => vols'[v].target = None,
           pc = "delete_do" => \A m \in Nodes : va[v][m] # "ok",
           pc = "done" /\ code = "OK" /\ h[p].req.op = "publish" =>
             Exists(v)' /\ vols'[v].linode = h[p].req.node /\ vols'[v].target = h[p].req.node,
           pc = "done" /\ code = "OK" /\ h[p].req.op = "unpublish" =>
             vols'[v].linode = None /\ vols'[v].target = None
    PROVE  Progress(p, v)'
<1>1. Progress(p, v)
  BY DEF AttachInv
<1> QED
  BY <1>1 DEF Progress, Moved, At, Answered

(* An answer that is not OK establishes nothing. *)
LEMMA ErrorInv ==
    ASSUME AttachInv, TypeOK', NEW p \in Procs, NEW code \in Codes, code # "OK",
           h[p].pc \in Steps, Reply(p, code), va' = va, \A v \in Ids : SameVol(v)
    PROVE  AttachInv'
<1>1. Moved(p, "done", h[p].id, code) /\ Busy(p)
  BY ReplyMoves, OpOfSteps DEF AttachInv, Busy
<1>2. \A v \in Ids : OnVol(p, v) => Progress(p, v)'
  BY <1>1, MovedProgress
<1> QED
  BY <1>1, <1>2, QuietStep

(***************************************************************************)
(* A volume that comes into being was nowhere, and is nowhere.             *)
(***************************************************************************)
LEMMA CreatedInv ==
    ASSUME AttachInv, TypeOK', NEW p \in Procs, h[p].pc \in CreateSteps,
           NEW pc, NEW id, NEW code, Moved(p, pc, id, code), va' = va,
           NEW v \in Ids, vols[v].status = "absent",
           NEW w, w.status = "creating", w.linode = None, w.target = None,
           vols' = [vols EXCEPT ![v] = w]
    PROVE  AttachInv'
<1>1. /\ vols'[v] = w
      /\ \A x \in Ids \ {v} : vols'[x] = vols[x]
  BY DEF AttachInv, TypeOK
<1>2. \A x \in Ids \ {v} : SameVol(x)
  BY <1>1 DEF SameVol, Exists
<1>3. ~Exists(v) /\ Exists(v)' /\ vols'[v].linode = None /\ vols'[v].target = None
  BY <1>1 DEF Exists
<1>4. Placement(v) /\ \A n \in Nodes : n # None
  BY NoneAssumption DEF AttachInv
<1>5. vols[v].linode = None /\ vols[v].target = None /\ \A n \in Nodes : va[v][n] # "ok"
  BY <1>3, <1>4 DEF Placement
<1>6. Placement(v)'
  BY <1>3, <1>4, <1>5 DEF Placement
<1>7. Busy(p) /\ h[p].req.op = "create"
  BY StepFacts, OpOfSteps DEF AttachInv, Busy
<1>8. \A q \in Procs : Busy(q)' => Busy(q) /\ h'[q].req = h[q].req
  BY <1>7 DEF Moved, Busy
<1>9. ASSUME NEW q \in Procs, OnVol(q, v) PROVE Progress(q, v)'
  <2>1. h'[q] = h[q]
    BY <1>7, <1>9 DEF OnVol, Moved
  <2>2. Progress(q, v)
    BY <1>9 DEF AttachInv
  <2> QED
    BY <1>3, <2>1, <2>2 DEF Progress, At, Answered
<1>10. ASSUME NEW q \in Procs, NEW x \in Ids, OnVol(q, x)
       PROVE  (h'[q] = h[q] /\ SameVol(x)) \/ Progress(q, x)'
  BY <1>2, <1>7, <1>9, <1>10 DEF OnVol, Moved
<1> QED
  BY <1>2, <1>6, <1>8, <1>10, Preserve

(* Every step of CreateVolume. *)
LEMMA CreateStepInv ==
    ASSUME AttachInv, TypeOK', NEW p \in Procs, CreateStep(p)
    PROVE  AttachInv'
<1> USE DEF At
<1>0. TypeOK /\ h[p].pc \in CreateSteps /\ h[p].pc \in Steps
  BY OpOfSteps DEF CreateStep, CreateRegion, CreateSource, CreateList, CreateNew,
     CreateRefused, CreateActive, CreateTimeout, CreateSteps, AttachInv
<1>1. ASSUME NEW pc, pc \in Steps, Goto(p, pc), UNCHANGED Local PROVE AttachInv'
  BY <1>0, <1>1, GotoMoves, CreateMoves, Unchanged DEF Local
<1>2. ASSUME NEW code, code \in Codes, Reply(p, code), UNCHANGED <<vols, va>> PROVE AttachInv'
  BY <1>0, <1>2, ReplyMoves, CreateMoves, Unchanged
<1>3. CASE CreateRegion(p)
  <2>1. AfterParams(h[p].req) \in Steps
    BY OpOfSteps DEF AfterParams, CreateSteps
  <2> QED
    BY <1>1, <1>2, <1>3, <2>1 DEF CreateRegion, Codes, Local
<1>4. CASE CreateSource(p)
  BY <1>1, <1>2, <1>4, OpOfSteps DEF CreateSource, Codes, CreateSteps, Local
<1>5. CASE CreateList(p)
  <2>1. \/ Goto(p, "create_new") \/ Reply(p, "AlreadyExists")
        \/ \E v \in Ids : h' = [h EXCEPT ![p].pc = "create_wait", ![p].id = v]
    BY <1>5 DEF CreateList, existing, VolumesLabelled
  <2>2. UNCHANGED Local
    BY <1>5 DEF CreateList
  <2>3. ASSUME NEW v \in Ids, h' = [h EXCEPT ![p].pc = "create_wait", ![p].id = v]
        PROVE  AttachInv'
    BY <1>0, <2>2, <2>3, FoundMoves, CreateMoves, Unchanged DEF Local
  <2> QED
    BY <1>1, <1>2, <2>1, <2>2, <2>3, OpOfSteps DEF Codes, CreateSteps, Local
<1>6. CASE CreateNew(p)
  <2>1. PICK v \in Ids :
          /\ \E l, size, region, enc : Create(v, l, size, region, enc)
          /\ \/ h' = [h EXCEPT ![p].pc = "create_wait", ![p].id = v] /\ UNCHANGED faults
             \/ ReplyLost(p)
    BY <1>6 DEF CreateNew, Clone
  <2>2. PICK l, size, region, enc : Create(v, l, size, region, enc)
    BY <2>1
  <2> DEFINE w == [status |-> "creating", label |-> l, size |-> size,
                   region |-> region, enc |-> enc, linode |-> None, target |-> None]
  <2>3. vols[v].status = "absent" /\ vols' = [vols EXCEPT ![v] = w]
    BY <2>2 DEF Create
  <2>4. w.status = "creating" /\ w.linode = None /\ w.target = None
    OBVIOUS
  <2>5. \/ Moved(p, "create_wait", v, h[p].code)
        \/ Moved(p, "done", h[p].id, "Internal")
    BY <1>0, <2>1, FoundMoves, ReplyMoves DEF ReplyLost, Codes
  <2>6. va' = va
    BY <1>6 DEF CreateNew, CO
  <2> HIDE DEF w
  <2> QED
    BY <1>0, <2>3, <2>4, <2>5, <2>6, CreatedInv
<1>7. CASE CreateRefused(p)
  BY <1>2, <1>7 DEF CreateRefused, Codes, Local
<1>8. CASE CreateActive(p)
  BY <1>2, <1>8 DEF CreateActive, Codes, Local
<1>9. CASE CreateTimeout(p)
  BY <1>2, <1>9, CrashInv DEF CreateTimeout, Codes, Local
<1> QED
  BY <1>3, <1>4, <1>5, <1>6, <1>7, <1>8, <1>9 DEF CreateStep

(***************************************************************************)
(* A handler that changes the volume it is at work on: nobody else is at   *)
(* work on that volume, so only its own progress and the placement of that *)
(* volume are at stake.                                                    *)
(***************************************************************************)
LEMMA EffectInv ==
    ASSUME AttachInv, TypeOK', NEW p \in Procs, NEW v \in Ids, OnVol(p, v),
           NEW pc, NEW id, NEW code, Moved(p, pc, id, code), va' = va,
           \A x \in Ids \ {v} : vols'[x] = vols[x],
           Placement(v)', Progress(p, v)'
    PROVE  AttachInv'
<1>1. \A x \in Ids \ {v} : SameVol(x)
  BY DEF SameVol, Exists
<1>2. \A q \in Procs : Busy(q)' => Busy(q) /\ h'[q].req = h[q].req
  BY DEF Moved, OnVol, Busy
<1>3. ASSUME NEW q \in Procs, NEW x \in Ids, OnVol(q, x)
      PROVE  (h'[q] = h[q] /\ SameVol(x)) \/ Progress(q, x)'
  <2>1. CASE q = p
    <3>1. x = v
      BY <1>3, <2>1 DEF OnVol
    <3> QED
      BY <2>1, <3>1
  <2>2. CASE q # p
    <3>1. x # v
      BY <1>3, <2>2 DEF AttachInv, Serial
    <3> QED
      BY <1>1, <2>2, <3>1 DEF Moved
  <2> QED
    BY <2>1, <2>2
<1> QED
  BY <1>1, <1>2, <1>3, Preserve

(* The same when nothing of the attachment changes. *)
LEMMA StillInv ==
    ASSUME AttachInv, TypeOK', NEW p \in Procs, NEW v \in Ids, OnVol(p, v),
           NEW pc, NEW id, NEW code, Moved(p, pc, id, code), va' = va,
           \A x \in Ids : SameVol(x), Progress(p, v)'
    PROVE  AttachInv'
<1>1. Busy(p)
  BY DEF OnVol
<1>2. ASSUME NEW x \in Ids, OnVol(p, x) PROVE Progress(p, x)'
  <2>1. x = v
    BY <1>2 DEF OnVol
  <2> QED
    BY <2>1
<1> QED
  BY <1>1, <1>2, QuietStep

(* Every step of DeleteVolume. *)
LEMMA DeleteStepInv ==
    ASSUME AttachInv, TypeOK', NEW p \in Procs, DeleteStep(p)
    PROVE  AttachInv'
<1> USE DEF At
<1>0. TypeOK /\ h[p].pc \in DeleteSteps /\ h[p].pc \in Steps
  BY OpOfSteps DEF DeleteStep, DeleteGet, DeleteDo, DeleteSteps, AttachInv
<1>1. PICK v \in Ids : v = h[p].req.vol /\ OnVol(p, v) /\ h[p].req.op = "delete"
  BY <1>0, StepFacts, OpOfSteps DEF Valid, OnVol, Busy
<1>2. Placement(v) /\ Progress(p, v)
  BY <1>1 DEF AttachInv
<1>n. \A n \in Nodes : n # None
  BY NoneAssumption
<1>3. ASSUME NEW code, code \in Codes, Reply(p, code), UNCHANGED <<vols, va>>
      PROVE  AttachInv'
  <2>1. Moved(p, "done", h[p].id, code) /\ \A x \in Ids : SameVol(x)
    BY <1>0, <1>3, ReplyMoves, Unchanged
  <2>2. Progress(p, v)'
    BY <1>1, <1>3, <2>1, MovedProgress
  <2> QED
    BY <1>1, <1>3, <2>1, <2>2, StillInv
<1>4. CASE DeleteGet(p)
  <2>1. CASE Reply(p, "OK") \/ Reply(p, "FailedPrecondition")
    BY <1>3, <1>4, <2>1 DEF DeleteGet, Local, Codes
  <2>2. CASE Goto(p, "delete_do") /\ Exists(v) /\ ~inUse(v)
    <3>1. Moved(p, "delete_do", h[p].id, h[p].code) /\ UNCHANGED <<vols, va>>
      BY <1>0, <1>4, <2>2, GotoMoves, OpOfSteps DEF DeleteGet, Local, DeleteSteps
    <3>2. \A m \in Nodes : va[v][m] # "ok"
      BY <1>2, <1>n, <2>2 DEF Placement, inUse
    <3>3. Progress(p, v)'
      BY <1>1, <3>1, <3>2, MovedProgress
    <3> QED
      BY <1>1, <3>1, <3>3, StillInv, Unchanged
  <2> QED
    BY <1>1, <1>4, <2>1, <2>2 DEF DeleteGet
<1>5. CASE DeleteDo(p)
  <2>1. va' = va
    BY <1>5 DEF DeleteDo, CO
  <2>2. CASE UNCHANGED vols
    <3>1. \E c \in Codes : Reply(p, c)
      BY <1>5 DEF DeleteDo, ReplyLost, DeleteRefusedCode, Codes
    <3> QED
      BY <1>3, <2>1, <2>2, <3>1
  <2>3. CASE Delete(v)
    <3>1. PICK c \in Codes : Reply(p, c)
      BY <1>5 DEF DeleteDo, ReplyLost, DeleteRefusedCode, Codes
    <3>2. Moved(p, "done", h[p].id, c)
      BY <1>0, <3>1, ReplyMoves
    <3>3. /\ vols'[v].status = "deleted" /\ vols'[v].linode = None /\ vols'[v].target = None
          /\ \A x \in Ids \ {v} : vols'[x] = vols[x]
      BY <1>0, <1>1, <2>3 DEF Delete, TypeOK, Volume
    <3>4. \A m \in Nodes : va[v][m] # "ok"
      BY <1>2, <1>5 DEF Progress, DeleteDo
    <3>5. Placement(v)'
      BY <1>2, <1>n, <2>1, <3>3, <3>4 DEF Placement, Exists
    <3>6. Progress(p, v)'
      BY <1>1, <2>1, <3>2, MovedProgress
    <3> QED
      BY <1>1, <2>1, <3>2, <3>3, <3>5, <3>6, EffectInv
  <2> QED
    BY <1>1, <1>5, <2>2, <2>3 DEF DeleteDo
<1> QED
  BY <1>4, <1>5 DEF DeleteStep

(* Every step of ControllerExpandVolume. *)
LEMMA ExpandStepInv ==
    ASSUME AttachInv, TypeOK', NEW p \in Procs, ExpandStep(p)
    PROVE  AttachInv'
<1> USE DEF At
<1>0. TypeOK /\ h[p].pc \in ExpandSteps /\ h[p].pc \in Steps
  BY OpOfSteps DEF ExpandStep, ExpGet, ExpResize, ExpWait, ExpandSteps, AttachInv
<1>1. PICK v \in Ids : v = h[p].req.vol /\ OnVol(p, v) /\ h[p].req.op = "expand"
  BY <1>0, StepFacts, OpOfSteps DEF Valid, OnVol, Busy
<1>2. \/ \E c \in Codes : Reply(p, c)
      \/ Goto(p, "exp_resize") \/ Goto(p, "exp_wait")
  BY DEF ExpandStep, ExpGet, ExpResize, ExpWait, Continue, ReplyLost, Codes
<1>3. \E pc \in {"done", "exp_resize", "exp_wait"}, c \in Codes :
        Moved(p, pc, h[p].id, c)
  <2>1. h[p].code \in Codes
    BY <1>0 DEF TypeOK, Handler
  <2> QED
    BY <1>0, <1>2, <2>1, ReplyMoves, GotoMoves, OpOfSteps DEF ExpandSteps
<1>4. va' = va /\ \A x \in Ids : SameVol(x)
  <2>1. va' = va
    BY DEF ExpandStep, ExpGet, ExpResize, ExpWait, Local, CO
  <2>2. CASE UNCHANGED vols
    BY <2>1, <2>2, Unchanged
  <2>3. CASE Exists(v) /\ Resize(v, newSize(h[p].req))
    <3>1. /\ vols'[v].status = "resizing"
          /\ vols'[v].linode = vols[v].linode /\ vols'[v].target = vols[v].target
          /\ \A x \in Ids \ {v} : vols'[x] = vols[x]
      BY <1>0, <1>1, <2>3 DEF Resize, TypeOK, Volume
    <3> QED
      BY <2>1, <2>3, <3>1 DEF SameVol, Exists
  <2> QED
    BY <1>1, <2>1, <2>2, <2>3 DEF ExpandStep, ExpGet, ExpResize, ExpWait, ResizeAccepted, Local
<1>5. PICK pc \in {"done", "exp_resize", "exp_wait"}, c \in Codes : Moved(p, pc, h[p].id, c)
  BY <1>3
<1>6. Progress(p, v)'
  BY <1>1, <1>4, <1>5, MovedProgress
<1> QED
  BY <1>1, <1>4, <1>5, <1>6, StillInv

(***************************************************************************)
(* ControllerPublishVolume answers OK only for a volume that is on the     *)
(* node and is going to stay: were a detach of it pending, the CO would be *)
(* unpublishing (Placement), and it is publishing (Progress).              *)
(***************************************************************************)
LEMMA PublishStepInv ==
    ASSUME AttachInv, TypeOK', NEW p \in Procs, PublishStep(p)
    PROVE  AttachInv'
<1> USE DEF At
<1>0. TypeOK /\ h[p].pc \in PublishSteps /\ h[p].pc \in Steps
  BY OpOfSteps DEF PublishStep, PubInstance, PubGet, PubCapacity, PubAttach, PubWait,
     PublishSteps, AttachInv
<1>1. PICK v \in Ids : v = h[p].req.vol /\ OnVol(p, v) /\ h[p].req.op = "publish"
                       /\ h[p].req.node \in Nodes
  BY <1>0, StepFacts, OpOfSteps DEF Valid, OnVol, Busy
<1>2. Placement(v) /\ Progress(p, v)
  BY <1>1 DEF AttachInv
<1>3. PICK n \in Nodes : n = h[p].req.node /\ n # None
  BY <1>1, NoneAssumption
<1>4. va[v][n] \in {"pub", "ok"}
  BY <1>1, <1>2, <1>3 DEF Progress
<1>5. ASSUME NEW code \in Codes, code # "OK", Reply(p, code), UNCHANGED <<vols, va>>
      PROVE  AttachInv'
  BY <1>0, <1>5, ErrorInv, Unchanged
<1>6. ASSUME Reply(p, "OK"), UNCHANGED <<vols, va>>, Exists(v), vols[v].linode = n
      PROVE  AttachInv'
  <2>1. Moved(p, "done", h[p].id, "OK") /\ \A x \in Ids : SameVol(x)
    BY <1>0, <1>6, ReplyMoves, Unchanged DEF Codes
  <2>2. vols[v].target = n
    BY <1>2, <1>4, <1>6 DEF Placement
  <2>3. Exists(v)' /\ vols'[v].linode = h[p].req.node /\ vols'[v].target = h[p].req.node
    BY <1>3, <1>6, <2>2 DEF Exists
  <2>4. Progress(p, v)'
    BY <1>1, <1>6, <2>1, <2>3, MovedProgress
  <2> QED
    BY <1>1, <1>6, <2>1, <2>4, StillInv
<1>7. ASSUME NEW pc \in {"pub_get", "pub_capacity", "pub_attach"}, Goto(p, pc),
             UNCHANGED <<vols, va>>
      PROVE  AttachInv'
  <2>1. pc \in Steps
    BY OpOfSteps DEF PublishSteps
  <2>2. Moved(p, pc, h[p].id, h[p].code) /\ \A x \in Ids : SameVol(x)
    BY <1>0, <1>7, <2>1, GotoMoves, Unchanged
  <2>3. Progress(p, v)'
    BY <1>1, <1>7, <2>2, MovedProgress
  <2> QED
    BY <1>1, <1>7, <2>2, <2>3, StillInv
<1>8. CASE PubInstance(p)
  BY <1>5, <1>7, <1>8 DEF PubInstance, Local, Codes
<1>9. CASE PubGet(p)
  <2>1. UNCHANGED <<vols, va>>
    BY <1>9 DEF PubGet, Local
  <2>2. \/ Reply(p, "NotFound") \/ Reply(p, "AlreadyExists") \/ Goto(p, "pub_capacity")
        \/ Reply(p, "OK") /\ Exists(v) /\ vols[v].linode = n
    BY <1>1, <1>3, <1>9 DEF PubGet, attachedHere
  <2> QED
    BY <1>5, <1>6, <1>7, <2>1, <2>2 DEF Codes
<1>10. CASE PubCapacity(p)
  BY <1>5, <1>7, <1>10 DEF PubCapacity, Local, Codes
<1>11. CASE PubAttach(p)
  <2>1. va' = va
    BY <1>11 DEF PubAttach, CO
  <2>2. CASE UNCHANGED vols /\ (Reply(p, "Unavailable") \/ Reply(p, "Internal"))
    BY <1>5, <2>1, <2>2 DEF Codes
  <2>3. CASE AttachAccepted(v, n) /\ Attach(v, n)
               /\ (Goto(p, "pub_wait") \/ Reply(p, "Internal"))
    <3>1. \/ Moved(p, "pub_wait", h[p].id, h[p].code)
          \/ Moved(p, "done", h[p].id, "Internal")
      BY <1>0, <2>3, GotoMoves, ReplyMoves, OpOfSteps DEF PublishSteps, Codes
    <3>2. Exists(v) /\ vols[v].linode = None /\ vols[v].target = None
      BY <2>3 DEF AttachAccepted
    <3>3. /\ vols'[v].status = vols[v].status
          /\ vols'[v].linode = None /\ vols'[v].target = n
          /\ \A x \in Ids \ {v} : vols'[x] = vols[x]
      BY <1>0, <2>3, <3>2 DEF Attach, TypeOK, Volume
    <3>4. va[v][n] = "pub" /\ \A m \in Nodes : m # None
      BY <1>2, <1>3, <1>4, <3>2, NoneAssumption DEF Placement
    <3>5. Placement(v)'
      BY <1>2, <2>1, <3>2, <3>3, <3>4 DEF Placement, Exists
    <3>6. Progress(p, v)'
      BY <1>1, <2>1, <3>1, MovedProgress
    <3> QED
      BY <1>1, <2>1, <3>1, <3>3, <3>5, <3>6, EffectInv
  <2> QED
    BY <1>1, <1>3, <1>11, <2>2, <2>3 DEF PubAttach, Continue, ReplyLost
<1>12. CASE PubWait(p)
  <2>1. UNCHANGED <<vols, va>>
    BY <1>12 DEF PubWait, Local
  <2>2. \/ Reply(p, "Unknown")
        \/ Reply(p, "OK") /\ Exists(v) /\ vols[v].linode = n
    BY <1>1, <1>3, <1>12 DEF PubWait
  <2> QED
    BY <1>5, <1>6, <2>1, <2>2 DEF Codes
<1> QED
  BY <1>8, <1>9, <1>10, <1>11, <1>12 DEF PublishStep

(***************************************************************************)
(* ControllerUnpublishVolume answers OK only for a volume that is nowhere: *)
(* the early OK for a volume on another node is given only when the volume *)
(* is gone, since the CO has it published on no other node.                *)
(***************************************************************************)
LEMMA UnpublishStepInv ==
    ASSUME AttachInv, TypeOK', NEW p \in Procs, UnpublishStep(p)
    PROVE  AttachInv'
<1> USE DEF At
<1>0. TypeOK /\ h[p].pc \in UnpublishSteps /\ h[p].pc \in Steps
  BY OpOfSteps DEF UnpublishStep, UnpubGet, UnpubDetach, UnpubWait, UnpublishSteps, AttachInv
<1>1. PICK v \in Ids : v = h[p].req.vol /\ OnVol(p, v) /\ h[p].req.op = "unpublish"
                       /\ h[p].req.node \in Nodes
  BY <1>0, StepFacts, OpOfSteps DEF Valid, OnVol, Busy
<1>2. Placement(v) /\ Progress(p, v)
  BY <1>1 DEF AttachInv
<1>3. PICK n \in Nodes : n = h[p].req.node
  BY <1>1
<1>4. /\ va[v][n] = "unpub" /\ \A m \in Nodes : m # None
      /\ \A m \in Nodes \ {n} : va[v][m] = "none"
  BY <1>1, <1>2, <1>3, NoneAssumption DEF Progress, Placement
<1>5. vols[v].linode \in {n, None} /\ vols[v].target \in {n, None}
  <2>1. vols[v].linode \in Nodes \cup {None} /\ vols[v].target \in Nodes \cup {None}
    BY <1>0 DEF TypeOK, Volume
  <2> QED
    BY <1>2, <1>4, <2>1 DEF Placement
<1>6. ASSUME NEW code \in Codes, code # "OK", Reply(p, code), UNCHANGED <<vols, va>>
      PROVE  AttachInv'
  BY <1>0, <1>6, ErrorInv, Unchanged
<1>7. ASSUME Reply(p, "OK"), UNCHANGED <<vols, va>>,
             vols[v].linode = None, vols[v].target = None
      PROVE  AttachInv'
  <2>1. Moved(p, "done", h[p].id, "OK") /\ \A x \in Ids : SameVol(x)
    BY <1>0, <1>7, ReplyMoves, Unchanged DEF Codes
  <2>2. vols'[v].linode = None /\ vols'[v].target = None
    BY <1>7
  <2>3. Progress(p, v)'
    BY <1>1, <1>7, <2>1, <2>2, MovedProgress
  <2> QED
    BY <1>1, <1>7, <2>1, <2>3, StillInv
<1>8. ~Exists(v) => vols[v].linode = None /\ vols[v].target = None
  BY <1>2 DEF Placement
<1>9. CASE UnpubGet(p)
  <2>1. UNCHANGED <<vols, va>>
    BY <1>9 DEF UnpubGet, Local
  <2>2. \/ Reply(p, "OK") /\ ~Exists(v)
        \/ Goto(p, "unpub_detach")
    BY <1>1, <1>3, <1>5, <1>9 DEF UnpubGet
  <2>3. CASE Goto(p, "unpub_detach")
    <3>1. Moved(p, "unpub_detach", h[p].id, h[p].code) /\ \A x \in Ids : SameVol(x)
      BY <1>0, <2>1, <2>3, GotoMoves, Unchanged, OpOfSteps DEF UnpublishSteps
    <3>2. Progress(p, v)'
      BY <1>1, <2>1, <3>1, MovedProgress
    <3> QED
      BY <1>1, <2>1, <3>1, <3>2, StillInv
  <2> QED
    BY <1>7, <1>8, <2>1, <2>2, <2>3
<1>10. CASE UnpubDetach(p)
  <2>1. va' = va
    BY <1>10 DEF UnpubDetach, CO
  <2>2. CASE UNCHANGED vols /\ (Reply(p, "Internal") \/ (Reply(p, "OK") /\ ~Exists(v)))
    BY <1>6, <1>7, <1>8, <2>1, <2>2 DEF Codes
  <2>3. CASE Exists(v) /\ Detach(v) /\ (Goto(p, "unpub_wait") \/ Reply(p, "Internal"))
    <3>1. \/ Moved(p, "unpub_wait", h[p].id, h[p].code)
          \/ Moved(p, "done", h[p].id, "Internal")
      BY <1>0, <2>3, GotoMoves, ReplyMoves, OpOfSteps DEF UnpublishSteps, Codes
    <3>2. /\ vols'[v].status = vols[v].status
          /\ vols'[v].linode = vols[v].linode /\ vols'[v].target = None
          /\ \A x \in Ids \ {v} : vols'[x] = vols[x]
      BY <1>0, <2>3 DEF Detach, TypeOK, Volume
    <3>3. Placement(v)'
      BY <1>2, <1>4, <1>5, <2>1, <2>3, <3>2 DEF Placement, Exists
    <3>4. Progress(p, v)'
      BY <1>1, <2>1, <3>1, <3>2, MovedProgress
    <3> QED
      BY <1>1, <2>1, <3>1, <3>2, <3>3, <3>4, EffectInv
  <2> QED
    BY <1>1, <1>10, <2>2, <2>3 DEF UnpubDetach, DetachAccepted, Continue, ReplyLost
<1>11. CASE UnpubWait(p)
  <2>1. UNCHANGED <<vols, va>>
    BY <1>11 DEF UnpubWait, Local
  <2>2. Reply(p, "Internal") \/ (Reply(p, "OK") /\ vols[v].linode = None)
    BY <1>1, <1>11 DEF UnpubWait, detached
  <2>3. vols[v].target = None
    BY <1>2, <1>11 DEF Progress, UnpubWait
  <2> QED
    BY <1>6, <1>7, <2>1, <2>2, <2>3 DEF Codes
<1> QED
  BY <1>9, <1>10, <1>11 DEF UnpublishStep

(* The cloud finishes the job of a volume: it was pending, so nobody has   *)
(* been told that the volume has arrived.                                  *)
LEMMA JobDoneInv ==
    ASSUME AttachInv, TypeOK', NEW v \in Ids, CloudJobDone(v)
    PROVE  AttachInv'
<1>1. /\ Exists(v) /\ vols[v].linode # vols[v].target
      /\ h' = h /\ va' = va
  BY DEF CloudJobDone, JobDone, JobPending
<1>2. /\ vols'[v].status = vols[v].status
      /\ vols'[v].linode = vols[v].target /\ vols'[v].target = vols[v].target
      /\ \A x \in Ids \ {v} : vols'[x] = vols[x]
  BY DEF CloudJobDone, JobDone, AttachInv, TypeOK, Volume
<1>3. \A x \in Ids \ {v} : SameVol(x)
  BY <1>1, <1>2 DEF SameVol, Exists
<1>4. Placement(v)
  BY DEF AttachInv
<1>5. Placement(v)'
  BY <1>1, <1>2, <1>4 DEF Placement, Exists
<1>6. ASSUME NEW q \in Procs, OnVol(q, v) PROVE Progress(q, v)'
  <2>1. Progress(q, v)
    BY <1>6 DEF AttachInv
  <2> QED
    BY <1>1, <1>2, <2>1 DEF Progress, At, Answered
<1>7. \A q \in Procs : Busy(q)' => Busy(q) /\ h'[q].req = h[q].req
  BY <1>1 DEF Busy
<1>8. ASSUME NEW q \in Procs, NEW x \in Ids, OnVol(q, x)
      PROVE  (h'[q] = h[q] /\ SameVol(x)) \/ Progress(q, x)'
  BY <1>1, <1>3, <1>6, <1>8
<1> QED
  BY <1>3, <1>5, <1>7, <1>8, Preserve

(* A volume that becomes active stays where it is. *)
LEMMA BecomeActiveInv ==
    ASSUME AttachInv, TypeOK', NEW v \in Ids, CloudBecomeActive(v)
    PROVE  AttachInv'
<1>1. h' = h /\ va' = va
  BY DEF CloudBecomeActive
<1>2. /\ vols[v].status \in {"creating", "resizing"} /\ vols'[v].status = "active"
      /\ vols'[v].linode = vols[v].linode /\ vols'[v].target = vols[v].target
      /\ \A x \in Ids \ {v} : vols'[x] = vols[x]
  BY DEF CloudBecomeActive, BecomeActive, AttachInv, TypeOK, Volume
<1>3. \A x \in Ids : SameVol(x)
  BY <1>1, <1>2 DEF SameVol, Exists
<1>4. \A q \in Procs : Busy(q)' => Busy(q) /\ h'[q].req = h[q].req
  BY <1>1 DEF Busy
<1>5. \A q \in Procs : h'[q] = h[q]
  BY <1>1
<1> QED
  BY <1>3, <1>4, <1>5, Preserve

(***************************************************************************)
(* A call of an orderly CO finds no other handler at work on its volume,   *)
(* and finds the volume published nowhere else.                            *)
(***************************************************************************)
LEMMA CallInv ==
    ASSUME AttachInv, TypeOK', Orderly, NEW p \in Procs, NEW r \in Requests, Call(p, r)
    PROVE  AttachInv'
<1>1. PICK e : e = Enter(r)
  OBVIOUS
<1>2. /\ e[1] \notin {"delete_do", "unpub_wait"}
      /\ e[1] = "done" => e[2] # "OK"
  BY <1>1, EnterFacts
<1>3. /\ h'[p].pc = e[1] /\ h'[p].req = r /\ h'[p].code = e[2]
      /\ \A q \in Procs \ {p} : h'[q] = h[q]
  BY <1>1 DEF Call, AttachInv, TypeOK
<1>4. Allowed(r) /\ ~Busy(p) /\ vols' = vols
  BY DEF Call, At, Busy
<1>5. ASSUME NEW q \in Procs, NEW v \in Ids, OnVol(q, v), r.op # "create"
      PROVE  v # r.vol
  BY <1>4, <1>5 DEF Allowed, SameTarget, OnVol
<1>6. Serial'
  <2>1. ASSUME NEW q \in Procs, q # p, NEW v \in Ids, OnVol(q, v)' PROVE OnVol(q, v)
    BY <1>3, <2>1 DEF OnVol, Busy
  <2>2. ASSUME NEW v \in Ids, OnVol(p, v)' PROVE r.op # "create" /\ v = r.vol
    BY <1>3, <2>2 DEF OnVol
  <2> QED
    BY <1>5, <2>1, <2>2 DEF Serial, AttachInv
<1>7. ASSUME NEW x \in Ids, x # r.vol \/ r.op \notin {"publish", "unpublish"}
      PROVE  SameVol(x)
  <2>1. va'[x] = va[x]
    BY <1>7 DEF Call, SetView, AttachInv, TypeOK
  <2> QED
    BY <1>4, <2>1 DEF SameVol, Exists
<1>8. ASSUME NEW v \in Ids, v = r.vol, NEW n \in Nodes, n = r.node, r.op = "publish"
      PROVE  /\ va[v][n] \in {"none", "pub", "ok"}
             /\ \A m \in Nodes \ {n} : va[v][m] = "none" /\ va'[v][m] = "none"
             /\ va'[v][n] = IF va[v][n] = "none" THEN "pub" ELSE va[v][n]
  <2>1. va[v][n] \in {"none", "pub", "ok"} /\ \A m \in Nodes \ {n} : va[v][m] = "none"
    BY <1>4, <1>8 DEF Allowed, AttachInv, TypeOK
  <2>2. CASE va[v][n] = "none"
    <3>1. SetView(r, "pub")
      BY <1>8, <2>2 DEF Call
    <3> QED
      BY <1>8, <2>1, <2>2, <3>1 DEF SetView, AttachInv, TypeOK
  <2>3. CASE va[v][n] # "none"
    <3>1. va' = va
      BY <1>8, <2>3 DEF Call
    <3> QED
      BY <2>1, <2>3, <3>1
  <2> QED
    BY <2>2, <2>3
<1>9. ASSUME NEW v \in Ids, v = r.vol, NEW n \in Nodes, n = r.node, r.op = "unpublish"
      PROVE  /\ va[v][n] # "none" /\ va'[v][n] = "unpub"
             /\ \A m \in Nodes \ {n} : va'[v][m] = va[v][m]
  <2>1. SetView(r, "unpub")
    BY <1>9 DEF Call
  <2> QED
    BY <1>4, <1>9, <2>1 DEF Allowed, SetView, AttachInv, TypeOK
<1>10. ASSUME NEW x \in Ids, r.op \in {"publish", "unpublish"}, r.node \notin Nodes
       PROVE  SameVol(x)
  <2>1. va' = va
    BY <1>10 DEF Call
  <2> QED
    BY <1>4, <2>1 DEF SameVol, Exists
<1>11. ASSUME NEW v \in Ids PROVE Placement(v)'
  <2>1. Placement(v)
    BY DEF AttachInv
  <2>2. CASE v = r.vol /\ r.op = "publish" /\ r.node \in Nodes
    BY <1>4, <1>8, <2>1, <2>2 DEF Placement, Exists
  <2>3. CASE v = r.vol /\ r.op = "unpublish" /\ r.node \in Nodes
    BY <1>4, <1>9, <2>1, <2>3 DEF Placement, Exists
  <2> QED
    BY <1>7, <1>10, <2>1, <2>2, <2>3, SamePlacement
<1>12. ASSUME NEW q \in Procs, NEW v \in Ids, OnVol(q, v)' PROVE Progress(q, v)'
  <2>1. CASE q = p
    <3>1. v = r.vol
      BY <1>3, <1>12, <2>1 DEF OnVol
    <3> QED
      BY <1>2, <1>3, <1>8, <1>9, <2>1, <3>1 DEF Progress, At, Answered
  <2>2. CASE q # p
    <3>1. h'[q] = h[q] /\ OnVol(q, v)
      BY <1>3, <1>12, <2>2 DEF OnVol, Busy
    <3>2. SameVol(v) /\ Progress(q, v)
      BY <1>5, <1>7, <3>1 DEF AttachInv
    <3> QED
      BY <3>1, <3>2, SameProgress
  <2> QED
    BY <2>1, <2>2
<1> QED
  BY <1>6, <1>11, <1>12 DEF AttachInv

(* The CO believes what it is told, and what it is told still holds. *)
LEMMA ReturnInv ==
    ASSUME AttachInv, TypeOK', NEW p \in Procs, Return(p)
    PROVE  AttachInv'
<1>1. /\ h'[p] = Idle /\ h[p].pc = "done" /\ vols' = vols
      /\ \A q \in Procs \ {p} : h'[q] = h[q]
  BY DEF Return, At, AttachInv, TypeOK
<1>2. HandlerOK(p) /\ Busy(p)
  BY <1>1 DEF AttachInv, TypeOK, Busy
<1>3. CASE va' = va
  <2>1. \A v \in Ids : SameVol(v)
    BY <1>1, <1>3, Unchanged
  <2>2. \A q \in Procs : Busy(q)' => Busy(q) /\ h'[q] = h[q]
    BY <1>1 DEF Busy, Idle
  <2> QED
    BY <2>1, <2>2, Preserve DEF OnVol
<1>4. CASE h[p].code = "OK" /\ h[p].req.op \in {"publish", "unpublish"}
  <2>1. PICK v \in Ids : v = h[p].req.vol /\ OnVol(p, v) /\ h[p].req.node \in Nodes
    BY <1>1, <1>2, <1>4 DEF HandlerOK, Valid, OnVol
  <2>2. PICK n \in Nodes : n = h[p].req.node
    BY <2>1
  <2>3. Placement(v) /\ Progress(p, v)
    BY <2>1 DEF AttachInv
  <2>4. CASE va' = [va EXCEPT ![v][n] = "ok"] /\ h[p].req.op = "publish" /\ va[v][n] = "pub"
    <3>1. /\ va'[v][n] = "ok" /\ \A m \in Nodes \ {n} : va'[v][m] = va[v][m]
          /\ \A x \in Ids \ {v} : va'[x] = va[x]
      BY <2>4 DEF AttachInv, TypeOK
    <3>2. Exists(v) /\ vols[v].linode = n /\ vols[v].target = n
      BY <1>1, <1>4, <2>2, <2>3, <2>4 DEF Progress, Answered, At
    <3>3. Placement(v)'
      BY <1>1, <2>3, <2>4, <3>1, <3>2 DEF Placement, Exists
    <3>4. \A x \in Ids \ {v} : SameVol(x)
      BY <1>1, <3>1 DEF SameVol, Exists
    <3>5. \A q \in Procs : Busy(q)' => q # p /\ Busy(q) /\ h'[q] = h[q]
      BY <1>1 DEF Busy, Idle
    <3>6. ASSUME NEW q \in Procs, NEW x \in Ids, OnVol(q, x), OnVol(q, x)'
          PROVE  h'[q] = h[q] /\ SameVol(x)
      <4>1. q # p /\ h'[q] = h[q]
        BY <3>5, <3>6 DEF OnVol
      <4>2. x # v
        BY <2>1, <3>6, <4>1 DEF AttachInv, Serial
      <4> QED
        BY <3>4, <4>1, <4>2
    <3> QED
      BY <3>3, <3>4, <3>5, <3>6, Preserve
  <2>5. CASE va' = [va EXCEPT ![v][n] = "none"] /\ h[p].req.op = "unpublish"
    <3>1. /\ va'[v][n] = "none" /\ \A m \in Nodes \ {n} : va'[v][m] = va[v][m]
          /\ \A x \in Ids \ {v} : va'[x] = va[x]
      BY <2>5 DEF AttachInv, TypeOK
    <3>2. vols[v].linode = None /\ vols[v].target = None /\ va[v][n] = "unpub"
      BY <1>1, <1>4, <2>2, <2>3, <2>5 DEF Progress, Answered, At
    <3>3. Placement(v)'
      BY <1>1, <2>3, <3>1, <3>2, NoneAssumption DEF Placement, Exists
    <3>4. \A x \in Ids \ {v} : SameVol(x)
      BY <1>1, <3>1 DEF SameVol, Exists
    <3>5. \A q \in Procs : Busy(q)' => q # p /\ Busy(q) /\ h'[q] = h[q]
      BY <1>1 DEF Busy, Idle
    <3>6. ASSUME NEW q \in Procs, NEW x \in Ids, OnVol(q, x), OnVol(q, x)'
          PROVE  h'[q] = h[q] /\ SameVol(x)
      <4>1. q # p /\ h'[q] = h[q]
        BY <3>5, <3>6 DEF OnVol
      <4>2. x # v
        BY <2>1, <3>6, <4>1 DEF AttachInv, Serial
      <4> QED
        BY <3>4, <4>1, <4>2
    <3> QED
      BY <3>3, <3>4, <3>5, <3>6, Preserve
  <2>6. \/ va' = va
        \/ va' = [va EXCEPT ![v][n] = "ok"] /\ h[p].req.op = "publish" /\ va[v][n] = "pub"
        \/ va' = [va EXCEPT ![v][n] = "none"] /\ h[p].req.op = "unpublish"
    BY <1>4, <2>1, <2>2 DEF Return, SetView
  <2> QED
    BY <1>3, <2>4, <2>5, <2>6
<1>5. CASE ~(h[p].code = "OK" /\ h[p].req.op \in {"publish", "unpublish"})
  <2>1. va' = va
    BY <1>5 DEF Return
  <2> QED
    BY <1>3, <2>1
<1> QED
  BY <1>4, <1>5

(* At the start nothing is attached and no call is in flight. *)
LEMMA InitAttach == Init => AttachInv
<1> SUFFICES ASSUME Init PROVE AttachInv
  OBVIOUS
<1>1. \A q \in Procs : ~Busy(q)
  BY DEF Init, Busy, Idle
<1>2. \A v \in Ids : vols[v].linode = None /\ vols[v].target = None
  BY InitAssumption DEF Init
<1>3. \A v \in Ids, n \in Nodes : va[v][n] = "none"
  BY DEF Init
<1>4. \A v \in Ids : Placement(v)
  BY <1>2, <1>3, NoneAssumption DEF Placement
<1> QED
  BY <1>1, <1>4, InitType DEF AttachInv, Serial, OnVol

(* Every step of an orderly system keeps the invariant. *)
LEMMA NextAttach == Orderly /\ AttachInv /\ [Next]_vars => AttachInv'
<1> SUFFICES ASSUME Orderly, AttachInv, [Next]_vars PROVE AttachInv'
  OBVIOUS
<1>0. TypeOK'
  BY NextType DEF AttachInv
<1>1. ASSUME NEW p \in Procs, NEW r \in Requests, Call(p, r) PROVE AttachInv'
  BY <1>0, <1>1, CallInv
<1>2. ASSUME NEW p \in Procs, Return(p) PROVE AttachInv'
  BY <1>0, <1>2, ReturnInv
<1>3. ASSUME NEW p \in Procs, HandlerStep(p) PROVE AttachInv'
  BY <1>0, <1>3, CreateStepInv, DeleteStepInv, PublishStepInv, UnpublishStepInv,
     ExpandStepInv DEF HandlerStep
<1>4. ASSUME NEW p \in Procs, ApiError(p) PROVE AttachInv'
  <2>1. h[p].pc \in Steps /\ va' = va /\ \A v \in Ids : SameVol(v)
    BY <1>4, Unchanged DEF ApiError
  <2>2. Reply(p, "Unknown") \/ Reply(p, "Internal")
    BY <1>4 DEF ApiError
  <2> QED
    BY <1>0, <2>1, <2>2, ErrorInv DEF Codes
<1>5. ASSUME NEW v \in Ids, CloudJobDone(v) \/ CloudBecomeActive(v) PROVE AttachInv'
  BY <1>0, <1>5, JobDoneInv, BecomeActiveInv
<1>6. CASE Crash
  BY <1>0, <1>6, CrashInv DEF Crash
<1>7. CASE UNCHANGED vars
  BY <1>7 DEF vars, AttachInv, TypeOK, HandlerOK, Serial, OnVol, Busy, Placement, Exists,
     Progress, At, Answered
<1> QED
  BY <1>1, <1>2, <1>3, <1>4, <1>5, <1>6, <1>7 DEF Next

(* The invariant implies both properties. *)
LEMMA AttachSafety ==
    ASSUME AttachInv
    PROVE  PublishedIsAttached /\ UnpublishedIsDetached
<1>1. PublishedIsAttached
  BY DEF AttachInv, Placement, PublishedIsAttached
<1>2. UnpublishedIsDetached
  BY DEF AttachInv, TypeOK, Volume, Placement, UnpublishedIsDetached
<1> QED
  BY <1>1, <1>2

(***************************************************************************)
(* Under an orderly CO, for any number of handlers, volumes and nodes, any *)
(* mix of requests, and any failures, restarts and cloud delays: a volume  *)
(* that ControllerPublishVolume answered OK for is, and stays, on its      *)
(* node.  Guards is not restricted: the theorem needs no check of the API. *)
(***************************************************************************)
THEOREM PublishSafe == Orderly => (Spec => []PublishedIsAttached)
<1> SUFFICES ASSUME Orderly PROVE Spec => []PublishedIsAttached
  OBVIOUS
<1>1. AttachInv /\ [Next]_vars => AttachInv'
  BY NextAttach
<1>2. AttachInv => PublishedIsAttached
  BY AttachSafety
<1> QED
  BY <1>1, <1>2, InitAttach, PTL DEF Spec

(***************************************************************************)
(* Under the same conditions, a volume the CO counts as unpublished is on  *)
(* no node and on its way to none.                                         *)
(***************************************************************************)
THEOREM UnpublishSafe == Orderly => (Spec => []UnpublishedIsDetached)
<1> SUFFICES ASSUME Orderly PROVE Spec => []UnpublishedIsDetached
  OBVIOUS
<1>1. AttachInv /\ [Next]_vars => AttachInv'
  BY NextAttach
<1>2. AttachInv => UnpublishedIsDetached
  BY AttachSafety
<1> QED
  BY <1>1, <1>2, InitAttach, PTL DEF Spec

-----------------------------------------------------------------------------
(***************************************************************************)
(* The refinement.  It needs the invariant before and after a step: that   *)
(* is what says that a volume moves only to a node with a stake in it, and *)
(* never away from one it was published to.                                *)
(***************************************************************************)

(* No volume is seen to move. *)
Still == \A v \in Ids : vols'[v].linode = vols[v].linode

(* A step that moves no volume and changes no view is a stutter. *)
LEMMA StillIsStutter ==
    ASSUME Still, va' = va
    PROVE  UNCHANGED Attachment!vars
  BY DEF Still, Attachment!vars

(* One volume is seen to move to n, or away, and the CO's view stays. *)
LEMMA MoveIsStep ==
    ASSUME NEW v \in Ids, va' = va, \A w \in Ids \ {v} : vols'[w].linode = vols[w].linode,
           NEW n \in Nodes, va[v][n] \in {"pub", "unpub"},
           \/ vols[v].linode = None /\ vols'[v].linode = n
           \/ vols[v].linode = n /\ vols'[v].linode = None
    PROVE  Attachment!Next
<1>1. [w \in Ids |-> vols[w].linode]' =
        [[w \in Ids |-> vols[w].linode] EXCEPT ![v] = vols'[v].linode]
  OBVIOUS
<1>2. Attachment!Attach(v, n) \/ Attachment!Detach(v, n)
  BY <1>1 DEF Attachment!Attach, Attachment!Detach
<1> QED
  BY <1>2 DEF Attachment!Next

(* The CO's view of one volume on one node changes, and no volume moves. *)
LEMMA ViewIsStep ==
    ASSUME NEW v \in Ids, NEW n \in Nodes, Still, NEW view,
           va' = [va EXCEPT ![v][n] = view],
           \/ view = "pub" /\ \A m \in Nodes : va[v][m] = "none"
           \/ view = "unpub" /\ va[v][n] # "none"
           \/ view = "ok" /\ va[v][n] = "pub" /\ vols[v].linode = n
           \/ view = "none" /\ va[v][n] = "unpub" /\ vols[v].linode = None
    PROVE  Attachment!Next
<1>1. UNCHANGED [w \in Ids |-> vols[w].linode]
  BY DEF Still
<1>2. \/ Attachment!Publish(v, n) \/ Attachment!Unpublish(v, n)
      \/ Attachment!Published(v, n) \/ Attachment!Unpublished(v, n)
  BY <1>1 DEF Attachment!Publish, Attachment!Unpublish, Attachment!Published,
     Attachment!Unpublished, Attachment!SetView
<1> QED
  BY <1>2 DEF Attachment!Next

-----------------------------------------------------------------------------
(* Initial states map to initial states. *)
LEMMA InitRefines == Init => Attachment!Init
  BY InitAssumption DEF Init, Attachment!Init

(* The requests of the CO: Allowed gives what the abstract requests ask.   *)
LEMMA CallRefines ==
    ASSUME Orderly, AttachInv, NEW p \in Procs, NEW r \in Requests, Call(p, r)
    PROVE  [Attachment!Next]_Attachment!vars
<1>1. Allowed(r) /\ vols' = vols /\ va \in [Ids -> [Nodes -> {"none", "pub", "ok", "unpub"}]]
  BY DEF Call, AttachInv, TypeOK
<1>2. Still
  BY <1>1 DEF Still
<1>3. CASE r.op = "publish" /\ r.vol \in Ids /\ r.node \in Nodes /\ va[r.vol][r.node] = "none"
  <2>1. va' = [va EXCEPT ![r.vol][r.node] = "pub"]
    BY <1>3 DEF Call, SetView
  <2>2. \A m \in Nodes : va[r.vol][m] = "none"
    BY <1>1, <1>3 DEF Allowed
  <2> QED
    BY <1>2, <1>3, <2>1, <2>2, ViewIsStep
<1>4. CASE r.op = "unpublish" /\ r.vol \in Ids /\ r.node \in Nodes
  <2>1. va' = [va EXCEPT ![r.vol][r.node] = "unpub"]
    BY <1>4 DEF Call, SetView
  <2>2. va[r.vol][r.node] # "none"
    BY <1>1, <1>4 DEF Allowed
  <2> QED
    BY <1>2, <1>4, <2>1, <2>2, ViewIsStep
<1>5. CASE /\ ~(r.op = "publish" /\ r.vol \in Ids /\ r.node \in Nodes
                  /\ va[r.vol][r.node] = "none")
           /\ ~(r.op = "unpublish" /\ r.vol \in Ids /\ r.node \in Nodes)
  <2>1. va' = va
    BY <1>5 DEF Call
  <2> QED
    BY <1>2, <2>1, StillIsStutter
<1> QED
  BY <1>3, <1>4, <1>5

(* The answers: Progress says where the volume is when an OK is delivered. *)
LEMMA ReturnRefines ==
    ASSUME AttachInv, NEW p \in Procs, Return(p)
    PROVE  [Attachment!Next]_Attachment!vars
<1> DEFINE r == h[p].req
<1>1. Still /\ At(p, "done") /\ HandlerOK(p)
  BY DEF Return, Still, AttachInv, TypeOK
<1>2. CASE r.op = "publish" /\ h[p].code = "OK" /\ va[r.vol][r.node] = "pub"
  <2>1. r.vol \in Ids /\ r.node \in Nodes /\ OnVol(p, r.vol) /\ Answered(p, "publish")
    BY <1>1, <1>2 DEF HandlerOK, At, Valid, OnVol, Busy, Answered
  <2>2. vols[r.vol].linode = r.node
    BY <2>1 DEF AttachInv, Progress
  <2>3. va' = [va EXCEPT ![r.vol][r.node] = "ok"]
    BY <1>2 DEF Return, SetView
  <2> QED
    BY <1>1, <1>2, <2>1, <2>2, <2>3, ViewIsStep
<1>3. CASE r.op = "unpublish" /\ h[p].code = "OK"
  <2>1. r.vol \in Ids /\ r.node \in Nodes /\ OnVol(p, r.vol) /\ Answered(p, "unpublish")
    BY <1>1, <1>3 DEF HandlerOK, At, Valid, OnVol, Busy, Answered
  <2>2. vols[r.vol].linode = None /\ va[r.vol][r.node] = "unpub"
    BY <1>3, <2>1 DEF AttachInv, Progress
  <2>3. va' = [va EXCEPT ![r.vol][r.node] = "none"]
    BY <1>3 DEF Return, SetView
  <2> QED
    BY <1>1, <2>1, <2>2, <2>3, ViewIsStep
<1>4. CASE /\ ~(r.op = "publish" /\ h[p].code = "OK" /\ va[r.vol][r.node] = "pub")
           /\ ~(r.op = "unpublish" /\ h[p].code = "OK")
  <2>1. va' = va
    BY <1>4 DEF Return
  <2> QED
    BY <1>1, <2>1, StillIsStutter
<1> QED
  BY <1>2, <1>3, <1>4

(* A volume that is made was nowhere before and is nowhere after.          *)
LEMMA CreateStepStill ==
    ASSUME AttachInv, NEW p \in Procs, CreateStep(p)
    PROVE  Still /\ va' = va
<1>1. va' = va
  BY DEF CreateStep, CreateRegion, CreateSource, CreateList, CreateNew, CreateRefused,
     CreateActive, CreateTimeout, Local, CO
<1>2. CASE UNCHANGED vols
  BY <1>1, <1>2 DEF Still
<1>3. CASE CreateNew(p)
  <2>1. PICK v \in Ids :
          /\ vols[v].status = "absent"
          /\ \E l, size, region, enc :
               vols' = [vols EXCEPT ![v] = [status |-> "creating", label |-> l,
                          size |-> size, region |-> region, enc |-> enc,
                          linode |-> None, target |-> None]]
    BY <1>3 DEF CreateNew, Clone, Create
  <2>2. vols'[v].linode = None /\ \A w \in Ids \ {v} : vols'[w] = vols[w]
    BY <2>1 DEF AttachInv, TypeOK
  <2>3. vols[v].linode = None
    BY <2>1 DEF AttachInv, Placement, Exists
  <2> QED
    BY <1>1, <2>2, <2>3 DEF Still
<1> QED
  BY <1>2, <1>3 DEF CreateStep, CreateRegion, CreateSource, CreateList, CreateRefused,
     CreateActive, CreateTimeout, Local

(* Attaching and detaching begin a job, and resizing changes the size: the *)
(* LinodeID stays as it is.                                                *)
LEMMA OtherStepsStill ==
    ASSUME AttachInv, NEW p \in Procs, PublishStep(p) \/ UnpublishStep(p) \/ ExpandStep(p)
    PROVE  Still /\ va' = va
<1> USE DEF At
<1>1. va' = va
  BY DEF PublishStep, PubInstance, PubGet, PubCapacity, PubAttach, PubWait,
     UnpublishStep, UnpubGet, UnpubDetach, UnpubWait,
     ExpandStep, ExpGet, ExpResize, ExpWait, Local, CO
<1>2. \/ UNCHANGED vols
      \/ \E v, n : vols' = [vols EXCEPT ![v].target = n]
      \/ \E v, s : vols' = [vols EXCEPT ![v] = [@ EXCEPT !.size = s, !.status = "resizing"]]
  BY DEF PublishStep, PubInstance, PubGet, PubCapacity, PubAttach, PubWait,
     UnpublishStep, UnpubGet, UnpubDetach, UnpubWait,
     ExpandStep, ExpGet, ExpResize, ExpWait, Local, Attach, Detach, Resize
<1>3. vols \in [Ids -> Volume]
  BY DEF AttachInv, TypeOK
<1>4. ASSUME NEW v, NEW n, vols' = [vols EXCEPT ![v].target = n] PROVE Still
  <2>1. \A w \in Ids : vols'[w] = IF w = v THEN [vols[w] EXCEPT !.target = n] ELSE vols[w]
    BY <1>3, <1>4
  <2> QED
    BY <1>3, <2>1 DEF Still, Volume
<1>5. ASSUME NEW v, NEW s,
             vols' = [vols EXCEPT ![v] = [@ EXCEPT !.size = s, !.status = "resizing"]]
      PROVE  Still
  <2>1. \A w \in Ids :
          vols'[w] = IF w = v THEN [vols[w] EXCEPT !.size = s, !.status = "resizing"] ELSE vols[w]
    BY <1>3, <1>5
  <2>2. ASSUME NEW w \in Ids PROVE vols'[w].linode = vols[w].linode
    <3>1. vols[w] \in Volume
      BY <1>3
    <3>2. [vols[w] EXCEPT !.size = s, !.status = "resizing"].linode = vols[w].linode
      BY <3>1 DEF Volume
    <3> QED
      BY <2>1, <3>2
  <2> QED
    BY <2>2 DEF Still
<1>6. UNCHANGED vols => Still
  BY DEF Still
<1> QED
  BY <1>1, <1>2, <1>4, <1>5, <1>6

(* A delete removes a volume that is published nowhere.                    *)
LEMMA DeleteStepRefines ==
    ASSUME AttachInv, NEW p \in Procs, DeleteStep(p)
    PROVE  [Attachment!Next]_Attachment!vars
<1> USE DEF At
<1>0. TypeOK /\ h[p].pc \in DeleteSteps /\ h[p].pc \in Steps /\ va' = va
  BY OpOfSteps DEF DeleteStep, DeleteGet, DeleteDo, DeleteSteps, AttachInv, Local, CO
<1>1. PICK v \in Ids : v = h[p].req.vol /\ OnVol(p, v) /\ h[p].req.op = "delete"
  BY <1>0, StepFacts, OpOfSteps DEF Valid, OnVol, Busy
<1>2. Placement(v) /\ Progress(p, v)
  BY <1>1 DEF AttachInv
<1>3. CASE UNCHANGED vols
  BY <1>0, <1>3, StillIsStutter DEF Still
<1>4. CASE DeleteDo(p) /\ Delete(v)
  <2>1. vols'[v].linode = None /\ \A w \in Ids \ {v} : vols'[w] = vols[w]
    BY <1>0, <1>1, <1>4 DEF Delete, TypeOK, Volume
  <2>2. CASE vols[v].linode = None
    BY <1>0, <2>1, <2>2, StillIsStutter DEF Still
  <2>3. CASE vols[v].linode # None
    <3>1. PICK n \in Nodes : n = vols[v].linode
      BY <1>0, <2>3 DEF TypeOK, Volume
    <3>2. va[v][n] \in {"pub", "unpub"}
      BY <1>0, <1>2, <1>4, <3>1 DEF Placement, Progress, DeleteDo, TypeOK
    <3> QED
      BY <1>0, <2>1, <3>1, <3>2, MoveIsStep
  <2> QED
    BY <2>2, <2>3
<1> QED
  BY <1>1, <1>3, <1>4 DEF DeleteStep, DeleteGet, DeleteDo, Local

(* A job that ends moves a volume between nowhere and a node the CO is     *)
(* publishing it to or unpublishing it from.                               *)
LEMMA JobDoneRefines ==
    ASSUME AttachInv, NEW v \in Ids, CloudJobDone(v)
    PROVE  [Attachment!Next]_Attachment!vars
<1>1. /\ vols[v].linode # vols[v].target /\ va' = va
      /\ vols'[v].linode = vols[v].target
      /\ \A w \in Ids \ {v} : vols'[w] = vols[w]
  BY DEF CloudJobDone, JobDone, JobPending, AttachInv, TypeOK, Volume
<1>2. /\ vols[v].linode \in Nodes \cup {None} /\ vols[v].target \in Nodes \cup {None}
      /\ va \in [Ids -> [Nodes -> {"none", "pub", "ok", "unpub"}]]
  BY DEF AttachInv, TypeOK, Volume
<1>3. Placement(v) /\ \A n \in Nodes : n # None
  BY NoneAssumption DEF AttachInv
<1>4. CASE vols[v].linode \in Nodes
  <2>1. vols[v].target = None /\ va[v][vols[v].linode] \in {"pub", "unpub"}
    BY <1>1, <1>2, <1>3, <1>4 DEF Placement
  <2> QED
    BY <1>1, <1>4, <2>1, MoveIsStep
<1>5. CASE vols[v].linode = None
  <2>1. vols[v].target \in Nodes /\ va[v][vols[v].target] \in {"pub", "unpub"}
    BY <1>1, <1>2, <1>3, <1>5 DEF Placement
  <2> QED
    BY <1>1, <1>5, <2>1, MoveIsStep
<1> QED
  BY <1>2, <1>4, <1>5

(* Every step maps to a step of VolumeAttachment, or to a stutter. *)
LEMMA NextRefines ==
    ASSUME Orderly, AttachInv, [Next]_vars
    PROVE  [Attachment!Next]_Attachment!vars
<1>1. ASSUME NEW p \in Procs, NEW r \in Requests, Call(p, r)
      PROVE  [Attachment!Next]_Attachment!vars
  BY <1>1, CallRefines
<1>2. ASSUME NEW p \in Procs, Return(p)
      PROVE  [Attachment!Next]_Attachment!vars
  BY <1>2, ReturnRefines
<1>3. ASSUME NEW p \in Procs, HandlerStep(p)
      PROVE  [Attachment!Next]_Attachment!vars
  BY <1>3, CreateStepStill, OtherStepsStill, StillIsStutter, DeleteStepRefines
     DEF HandlerStep
<1>4. ASSUME NEW v \in Ids, CloudJobDone(v)
      PROVE  [Attachment!Next]_Attachment!vars
  BY <1>4, JobDoneRefines
<1>5. ASSUME NEW v \in Ids, CloudBecomeActive(v)
      PROVE  [Attachment!Next]_Attachment!vars
  <2>1. va' = va /\ vols' = [vols EXCEPT ![v].status = "active"] /\ vols \in [Ids -> Volume]
    BY <1>5 DEF CloudBecomeActive, BecomeActive, AttachInv, TypeOK
  <2>2. Still
    BY <2>1 DEF Still, Volume
  <2> QED
    BY <2>1, <2>2, StillIsStutter
<1>6. CASE UNCHANGED <<vols, va>>
  BY <1>6, StillIsStutter DEF Still
<1> QED
  BY <1>1, <1>2, <1>3, <1>4, <1>5, <1>6 DEF Next, ApiError, Crash, vars

(***************************************************************************)
(* For an orderly CO the controller service implements VolumeAttachment:   *)
(* whatever calls, late jobs, timeouts, lost answers and restarts there    *)
(* are, the CO sees volumes come and go only as it asked for them.         *)
(***************************************************************************)
THEOREM AttachmentImplemented == Orderly => (Spec => ImplementsAttachment)
<1> SUFFICES ASSUME Orderly PROVE Spec => ImplementsAttachment
  OBVIOUS
<1>1. AttachInv /\ [Next]_vars => AttachInv'
  BY NextAttach
<1>2. AttachInv /\ [Next]_vars => [Attachment!Next]_Attachment!vars
  BY NextRefines
<1> QED
  BY <1>1, <1>2, InitAttach, InitRefines, PTL DEF Spec, ImplementsAttachment, Attachment!Spec

=============================================================================
