----------------------- MODULE ControllerServerProofs -----------------------
(***************************************************************************)
(* Proofs about ControllerServer: what the arithmetic of Capacity          *)
(* guarantees, type correctness for every CO, and what creating, growing   *)
(* and deleting volumes guarantees.  Publishing is in AttachmentProofs.    *)
(***************************************************************************)
EXTENDS ControllerServer, TLAPS

-----------------------------------------------------------------------------
(* What getRequestCapacitySize and bytesToGB guarantee, for every capacity *)
(* range, every size of a GiB and every smallest volume size.              *)

(* The smallest volume has bytes. *)
LEMMA MinBytesPositive == MinVolumeSizeBytes \in Nat /\ MinVolumeSizeBytes > 0
  BY GiBAssumption, MinSizeAssumption DEF MinVolumeSizeBytes

(* The quotient of two natural numbers. *)
LEMMA Quotient ==
    ASSUME NEW b \in Nat, NEW g \in Nat \ {0}
    PROVE  b \div g \in Nat /\ (b \div g) * g <= b /\ b < (b \div g) * g + g
<1>1. b \div g \in Nat
  OBVIOUS
<1>2. (b \div g) * g <= b
  OBVIOUS
<1>3. b < (b \div g) * g + g
  OBVIOUS
<1> QED
  BY <1>1, <1>2, <1>3

(* bytesToGB rounds down: it loses less than one GiB. *)
LEMMA RoundsDown ==
    ASSUME NEW b \in Nat
    PROVE  /\ bytesToGB(b) \in Nat
           /\ gbToBytes(bytesToGB(b)) <= b
           /\ b < gbToBytes(bytesToGB(b)) + GiB
  BY GiBAssumption, Quotient DEF bytesToGB, gbToBytes

(* The size worked out is a natural number, also for a refused range. *)
LEMMA SizeIsNat ==
    ASSUME NEW range \in CapacityRange
    PROVE  /\ getRequestCapacitySize(range).size \in Nat
           /\ TargetSizeGB(range) \in Nat
<1>1. getRequestCapacitySize(range).size \in Nat
  BY MinBytesPositive DEF CapacityRange, getRequestCapacitySize, Accepted, Refused,
     adjustToMinimumSize, determineOptimalSize
<1> QED
  BY <1>1, RoundsDown DEF TargetSizeGB

(***************************************************************************)
(* An accepted size is never below the smallest volume, and neither is the *)
(* volume after rounding down.                                             *)
(***************************************************************************)
THEOREM AtLeastMinimum ==
    ASSUME NEW range \in CapacityRange, getRequestCapacitySize(range).ok
    PROVE  TargetSizeGB(range) >= MinVolumeSizeGB
<1> DEFINE size == getRequestCapacitySize(range).size
<1>1. size \in Nat /\ size >= MinVolumeSizeBytes
  BY MinBytesPositive DEF CapacityRange, getRequestCapacitySize, Accepted, Refused,
     adjustToMinimumSize, determineOptimalSize
<1> HIDE DEF size
<1> DEFINE q == bytesToGB(size)
<1>2. q \in Nat /\ size < q * GiB + GiB
  BY <1>1, RoundsDown DEF gbToBytes
<1>3. GiB \in Nat /\ GiB > 0 /\ MinVolumeSizeGB \in Nat
  BY GiBAssumption, MinSizeAssumption
<1> HIDE DEF q
<1>4. MinVolumeSizeGB * GiB < (q + 1) * GiB
  BY <1>1, <1>2, <1>3 DEF MinVolumeSizeBytes
<1>5. MinVolumeSizeGB < q + 1
  <2> SUFFICES ASSUME MinVolumeSizeGB >= q + 1 PROVE FALSE
    BY <1>2, <1>3
  <2>1. MinVolumeSizeGB * GiB >= (q + 1) * GiB
    BY <1>2, <1>3
  <2> QED
    BY <2>1, <1>2, <1>3, <1>4
<1> QED
  BY <1>2, <1>3, <1>5 DEF TargetSizeGB, q, size

(***************************************************************************)
(* A consistent range (the required size within the limit) that is         *)
(* accepted is honoured up to rounding: the volume never exceeds a limit,  *)
(* and falls short of the required size by less than one GiB.              *)
(***************************************************************************)
THEOREM ConsistentRangeHonoured ==
    ASSUME NEW range \in CapacityRange,
           range.given,
           getRequestCapacitySize(range).ok,
           range.limit # 0 => range.required <= range.limit
    PROVE  /\ range.limit # 0 => gbToBytes(TargetSizeGB(range)) <= range.limit
           /\ range.required < gbToBytes(TargetSizeGB(range)) + GiB
<1> DEFINE size == getRequestCapacitySize(range).size
<1>1. /\ size \in Nat
      /\ range.limit # 0 => size <= range.limit
      /\ range.required <= size
  BY MinBytesPositive DEF CapacityRange, getRequestCapacitySize, Accepted, Refused,
     adjustToMinimumSize, determineOptimalSize
<1>2. gbToBytes(bytesToGB(size)) <= size /\ size < gbToBytes(bytesToGB(size)) + GiB
  BY <1>1, RoundsDown
<1>3. gbToBytes(bytesToGB(size)) \in Int /\ GiB \in Nat
  BY <1>1, RoundsDown, GiBAssumption DEF gbToBytes
<1>4. range.limit \in Int /\ range.required \in Int
  BY DEF CapacityRange
<1> HIDE DEF size
<1> QED
  BY <1>1, <1>2, <1>3, <1>4 DEF TargetSizeGB, size

-----------------------------------------------------------------------------
(* The moves of a handler. *)

(* Everything a step of handler p can leave behind in its own slot; the    *)
(* other slots are as they were.                                           *)
Moved(p, pc, id, code) ==
    /\ h' \in [Procs -> Handler]
    /\ h'[p].pc = pc /\ h'[p].req = h[p].req /\ h'[p].id = id /\ h'[p].code = code
    /\ \A q \in Procs \ {p} : h'[q] = h[q]

(* Goto, Reply and a volume found or made, as moves of the slot. *)
LEMMA GotoMoves ==
    ASSUME TypeOK, NEW p \in Procs, NEW pc \in Steps, Goto(p, pc)
    PROVE  Moved(p, pc, h[p].id, h[p].code)
  BY DEF TypeOK, Goto, Moved, Handler

(* Reply is a move to the answer. *)
LEMMA ReplyMoves ==
    ASSUME TypeOK, NEW p \in Procs, NEW code \in Codes, Reply(p, code)
    PROVE  Moved(p, "done", h[p].id, code)
  BY DEF TypeOK, Reply, Moved, Handler

(* A create that has its volume moves on to wait for it. *)
LEMMA FoundMoves ==
    ASSUME TypeOK, NEW p \in Procs, NEW v \in Ids,
           h' = [h EXCEPT ![p].pc = "create_wait", ![p].id = v]
    PROVE  Moved(p, "create_wait", v, h[p].code)
  BY DEF TypeOK, Moved, Handler, Steps, CreateSteps

(* A process that died has only idle slots. *)
LEMMA IdleOK ==
    ASSUME h' = [q \in Procs |-> Idle]
    PROVE  /\ h' \in [Procs -> Handler]
           /\ \A q \in Procs : HandlerOK(q)'
  BY DEF Handler, Idle, HandlerOK, At, Codes, Steps, CreateSteps, DeleteSteps,
     PublishSteps, UnpublishSteps, ExpandSteps

(* The slots that did not move are as consistent as they were. *)
LEMMA OthersOK ==
    ASSUME TypeOK, NEW p \in Procs, NEW pc, NEW id, NEW code, Moved(p, pc, id, code),
           HandlerOK(p)'
    PROVE  \A q \in Procs : HandlerOK(q)'
<1> SUFFICES ASSUME NEW q \in Procs, q # p PROVE HandlerOK(q)'
  OBVIOUS
<1>1. h'[q] = h[q] /\ HandlerOK(q)
  BY DEF Moved, TypeOK
<1> QED
  BY <1>1 DEF HandlerOK, At

(* The steps of the five operations are distinct. *)
LEMMA OpOfSteps ==
    /\ \A pc \in CreateSteps : OpOf(pc) = "create" /\ pc \in Steps
    /\ \A pc \in DeleteSteps : OpOf(pc) = "delete" /\ pc \in Steps
    /\ \A pc \in PublishSteps : OpOf(pc) = "publish" /\ pc \in Steps
    /\ \A pc \in UnpublishSteps : OpOf(pc) = "unpublish" /\ pc \in Steps
    /\ \A pc \in ExpandSteps : OpOf(pc) = "expand" /\ pc \in Steps
    /\ \A pc \in Steps : pc # "idle" /\ pc # "done"
  BY DEF OpOf, Steps, CreateSteps, DeleteSteps, PublishSteps, UnpublishSteps, ExpandSteps

(* What a step needs to know of the request it serves. *)
LEMMA StepFacts ==
    ASSUME TypeOK, NEW p \in Procs, h[p].pc \in Steps
    PROVE  /\ h[p].code = "OK" /\ Valid(h[p].req) /\ h[p].req \in Request
           /\ h[p].req.op = OpOf(h[p].pc)
  BY ControllerAssumption DEF TypeOK, HandlerOK, Valid, Steps, CreateSteps,
     DeleteSteps, PublishSteps, UnpublishSteps, ExpandSteps

(***************************************************************************)
(* A handler that answers, or goes on to a step of the same operation,     *)
(* stays consistent with its request.                                      *)
(***************************************************************************)
LEMMA ReplyOK ==
    ASSUME TypeOK, NEW p \in Procs, NEW code \in Codes, h[p].pc \in Steps,
           Reply(p, code), h[p].pc \in CreateSteps \ {"create_wait"} => code # "OK"
    PROVE  h' \in [Procs -> Handler] /\ \A q \in Procs : HandlerOK(q)'
<1>1. Moved(p, "done", h[p].id, code)
  BY ReplyMoves
<1>2. Valid(h[p].req) /\ h[p].req.op = OpOf(h[p].pc)
  BY StepFacts
<1>3. code = "OK" /\ h[p].req.op = "create" => h[p].id \in Ids
  BY <1>2 DEF TypeOK, HandlerOK, At, OpOf, Steps, CreateSteps, DeleteSteps,
     PublishSteps, UnpublishSteps, ExpandSteps
<1>4. HandlerOK(p)'
  <2>1. Valid(h'[p].req)
    BY <1>1, <1>2 DEF Moved
  <2> QED
    BY <1>1, <1>3, <2>1 DEF Moved, HandlerOK, At, Valid, Steps, CreateSteps,
       DeleteSteps, PublishSteps, UnpublishSteps, ExpandSteps
<1> QED
  BY <1>1, <1>4, OthersOK DEF Moved

(* The same for a handler that goes on. *)
LEMMA GotoOK ==
    ASSUME TypeOK, NEW p \in Procs, NEW pc \in Steps \ {"create_wait"},
           h[p].pc \in Steps, OpOf(pc) = OpOf(h[p].pc), Goto(p, pc),
           pc = "create_source" => h[p].req.src \in Ids
    PROVE  h' \in [Procs -> Handler] /\ \A q \in Procs : HandlerOK(q)'
<1>1. Moved(p, pc, h[p].id, h[p].code)
  BY GotoMoves
<1>2. h[p].code = "OK" /\ Valid(h[p].req) /\ h[p].req.op = OpOf(pc)
  BY StepFacts
<1>3. HandlerOK(p)'
  <2>1. Valid(h'[p].req) /\ h'[p].req.op = OpOf(h'[p].pc)
    BY <1>1, <1>2 DEF Moved
  <2>2. h'[p].pc \in Steps \ {"create_wait"} /\ h'[p].pc # "done"
    BY <1>1 DEF Moved, Steps, CreateSteps, DeleteSteps, PublishSteps,
       UnpublishSteps, ExpandSteps
  <2> QED
    BY <1>1, <1>2, <2>1, <2>2 DEF Moved, HandlerOK, At, Valid
<1> QED
  BY <1>1, <1>3, OthersOK DEF Moved

(* The same for a create that has its volume. *)
LEMMA FoundOK ==
    ASSUME TypeOK, NEW p \in Procs, NEW v \in Ids, h[p].pc \in CreateSteps,
           h' = [h EXCEPT ![p].pc = "create_wait", ![p].id = v]
    PROVE  h' \in [Procs -> Handler] /\ \A q \in Procs : HandlerOK(q)'
<1>1. Moved(p, "create_wait", v, h[p].code)
  BY FoundMoves
<1>2. h[p].code = "OK" /\ Valid(h[p].req) /\ h[p].req.op = "create"
  BY StepFacts, OpOfSteps
<1>3. HandlerOK(p)'
  <2>1. Valid(h'[p].req) /\ h'[p].req.op = OpOf(h'[p].pc)
    BY <1>1, <1>2, OpOfSteps DEF Moved, CreateSteps
  <2> QED
    BY <1>1, <1>2, <2>1 DEF Moved, HandlerOK, At, Valid
<1> QED
  BY <1>1, <1>3, OthersOK DEF Moved

-----------------------------------------------------------------------------
(***************************************************************************)
(* Type correctness.                                                       *)
(***************************************************************************)
HandlersOK == h \in [Procs -> Handler] /\ \A q \in Procs : HandlerOK(q)

(* The bound on failures is kept. *)
LEMMA FaultType ==
    ASSUME TypeOK, Fault \/ UNCHANGED faults
    PROVE  faults' \in 0 .. MaxFaults
  BY ControllerAssumption DEF TypeOK, Fault

(* What the code before the first API call decides. *)
LEMMA EnterFacts ==
    ASSUME NEW r \in Requests, NEW e, e = Enter(r)
    PROVE  /\ e[1] \in Steps \cup {"done"} /\ e[2] \in Codes
           /\ e[1] \in Steps => e[2] = "OK" /\ OpOf(e[1]) = r.op
           /\ e[2] = "OK" => Valid(r)
           /\ e[1] \notin {"create_wait", "delete_do", "unpub_wait"}
           /\ e[1] = "done" => e[2] # "OK"
           /\ e[1] = "create_source" => r.src \in Ids
<1> USE DEF AfterParams, Codes, Valid, Steps, CreateSteps, DeleteSteps,
        PublishSteps, UnpublishSteps, ExpandSteps, OpOf
<1>1. r \in Request
  BY ControllerAssumption
<1>2. CASE r.op = "create"
  <2>1. e = EnterCreate(r)
    BY <1>2 DEF Enter
  <2> QED
    BY <1>1, <1>2, <2>1 DEF EnterCreate, Request
<1>3. CASE r.op = "delete"
  <2>1. e = EnterDelete(r)
    BY <1>3 DEF Enter
  <2> QED
    BY <1>1, <1>3, <2>1 DEF EnterDelete, Request
<1>4. CASE r.op = "publish"
  <2>1. e = EnterPublish(r)
    BY <1>4 DEF Enter
  <2> QED
    BY <1>1, <1>4, <2>1 DEF EnterPublish, Request
<1>5. CASE r.op = "unpublish"
  <2>1. e = EnterUnpublish(r)
    BY <1>5 DEF Enter
  <2> QED
    BY <1>1, <1>5, <2>1 DEF EnterUnpublish, Request
<1>6. CASE r.op = "expand"
  <2>1. e = EnterExpand(r)
    BY <1>6 DEF Enter
  <2> QED
    BY <1>1, <1>6, <2>1 DEF EnterExpand, Request
<1> QED
  BY <1>1, <1>2, <1>3, <1>4, <1>5, <1>6 DEF Request, Ops

(* A call keeps the types: only a checked request reaches a step. *)
LEMMA CallType ==
    ASSUME TypeOK, NEW p \in Procs, NEW r \in Requests, Call(p, r)
    PROVE  TypeOK'
<1>1. PICK e : e = Enter(r)
  OBVIOUS
<1>2. /\ e[1] \in Steps \cup {"done"} /\ e[2] \in Codes
      /\ e[1] \in Steps => e[2] = "OK" /\ OpOf(e[1]) = r.op
      /\ e[2] = "OK" => Valid(r)
      /\ e[1] # "create_wait"
      /\ e[1] = "done" => e[2] # "OK"
      /\ e[1] = "create_source" => r.src \in Ids
  BY <1>1, EnterFacts
<1> DEFINE hp == [pc |-> e[1], req |-> r, id |-> None, code |-> e[2]]
<1>3. h' = [h EXCEPT ![p] = hp]
  BY <1>1 DEF Call
<1>4. hp \in Handler
  BY <1>2 DEF Handler
<1> HIDE DEF hp
<1>5. h' \in [Procs -> Handler] /\ h'[p] = hp /\ \A q \in Procs \ {p} : h'[q] = h[q]
  BY <1>3, <1>4 DEF TypeOK
<1>6. HandlerOK(p)'
  BY <1>2, <1>5, OpOfSteps DEF hp, HandlerOK, At, Valid
<1>7. \A q \in Procs : HandlerOK(q)'
  <2> SUFFICES ASSUME NEW q \in Procs, q # p PROVE HandlerOK(q)'
    BY <1>6
  <2>1. h'[q] = h[q] /\ HandlerOK(q)
    BY <1>5 DEF TypeOK
  <2> QED
    BY <2>1 DEF HandlerOK, At
<1>8. va' \in [Ids -> [Nodes -> {"none", "pub", "ok", "unpub"}]]
  BY DEF Call, SetView, TypeOK
<1>9. UNCHANGED <<vols, pv, faults>>
  BY DEF Call
<1> QED
  BY <1>5, <1>7, <1>8, <1>9 DEF TypeOK

(* An answer that is delivered keeps the types. *)
LEMMA ReturnType ==
    ASSUME TypeOK, NEW p \in Procs, Return(p)
    PROVE  TypeOK'
<1> DEFINE r == h[p].req
<1>1. h' = [h EXCEPT ![p] = Idle] /\ At(p, "done") /\ UNCHANGED <<vols, faults>>
  BY DEF Return
<1>2. Idle \in Handler
  BY DEF Idle, Handler, Codes
<1>3. h' \in [Procs -> Handler] /\ h'[p] = Idle /\ \A q \in Procs \ {p} : h'[q] = h[q]
  BY <1>1, <1>2 DEF TypeOK
<1>4. \A q \in Procs : HandlerOK(q)'
  <2> SUFFICES ASSUME NEW q \in Procs PROVE HandlerOK(q)'
    OBVIOUS
  <2>1. CASE q = p
    BY <1>3, <2>1, OpOfSteps DEF HandlerOK, At, Idle
  <2>2. CASE q # p
    <3>1. h'[q] = h[q] /\ HandlerOK(q)
      BY <1>3, <2>2 DEF TypeOK
    <3> QED
      BY <3>1 DEF HandlerOK, At
  <2> QED
    BY <2>1, <2>2
<1>5. HandlerOK(p)
  BY DEF TypeOK
<1>6. pv' \in [Names -> Ids \cup {None}]
  <2>1. CASE r.op = "create" /\ h[p].code = "OK"
    <3>1. pv' = [pv EXCEPT ![r.name] = h[p].id]
      BY <2>1 DEF Return
    <3>2. h[p].id \in Ids
      BY <1>1, <1>5, <2>1 DEF HandlerOK
    <3> QED
      BY <3>1, <3>2 DEF TypeOK
  <2>2. CASE r.op = "delete" /\ h[p].code = "OK"
    <3>1. pv' = [n \in Names |-> IF pv[n] = r.vol THEN None ELSE pv[n]]
      BY <2>2 DEF Return
    <3> QED
      BY <3>1 DEF TypeOK
  <2>3. CASE ~(h[p].code = "OK" /\ r.op \in {"create", "delete"})
    <3>1. pv' = pv
      BY <2>3 DEF Return
    <3> QED
      BY <3>1 DEF TypeOK
  <2> QED
    BY <2>1, <2>2, <2>3
<1>7. va' \in [Ids -> [Nodes -> {"none", "pub", "ok", "unpub"}]]
  <2>1. SetView(r, "ok") \/ SetView(r, "none") \/ UNCHANGED va
    BY DEF Return
  <2> QED
    BY <2>1 DEF SetView, TypeOK
<1> QED
  BY <1>1, <1>3, <1>4, <1>6, <1>7 DEF TypeOK

(* Each change the API makes keeps the volumes well typed. *)
LEMMA VolumeTypes ==
    ASSUME TypeOK, NEW v \in Ids
    PROVE  /\ \A l \in Labels, size \in Nat, region \in Regions, enc \in {"enabled", "disabled"} :
                Create(v, l, size, region, enc) => vols' \in [Ids -> Volume]
           /\ \A l \in Labels, src \in Ids : Clone(v, l, src) => vols' \in [Ids -> Volume]
           /\ Delete(v) => vols' \in [Ids -> Volume]
           /\ \A n \in Nodes : Attach(v, n) => vols' \in [Ids -> Volume]
           /\ Detach(v) => vols' \in [Ids -> Volume]
           /\ \A size \in Nat : Resize(v, size) => vols' \in [Ids -> Volume]
           /\ JobDone(v) => vols' \in [Ids -> Volume]
           /\ BecomeActive(v) => vols' \in [Ids -> Volume]
<1>0. vols \in [Ids -> Volume]
  BY DEF TypeOK
<1> USE <1>0 DEF Volume
<1>1. ASSUME NEW l \in Labels, NEW size \in Nat, NEW region \in Regions \cup {None},
             NEW enc \in {"enabled", "disabled"}, Create(v, l, size, region, enc)
      PROVE  vols' \in [Ids -> Volume]
  BY <1>1 DEF Create
<1>2. ASSUME NEW l \in Labels, NEW src \in Ids, Clone(v, l, src)
      PROVE  vols' \in [Ids -> Volume]
  BY <1>1, <1>2 DEF Clone
<1>3. Delete(v) => vols' \in [Ids -> Volume]
  <2>1. [vols[v] EXCEPT !.status = "deleted", !.linode = None, !.target = None] \in Volume
    OBVIOUS
  <2> HIDE DEF Volume
  <2> QED
    BY <2>1 DEF Delete
<1>4. \A n \in Nodes : Attach(v, n) => vols' \in [Ids -> Volume]
  BY DEF Attach
<1>5. Detach(v) => vols' \in [Ids -> Volume]
  BY DEF Detach
<1>6. \A size \in Nat : Resize(v, size) => vols' \in [Ids -> Volume]
  <2> TAKE size \in Nat
  <2>1. [vols[v] EXCEPT !.size = size, !.status = "resizing"] \in Volume
    OBVIOUS
  <2> HIDE DEF Volume
  <2> QED
    BY <2>1 DEF Resize
<1>7. JobDone(v) => vols' \in [Ids -> Volume]
  BY DEF JobDone
<1>8. BecomeActive(v) => vols' \in [Ids -> Volume]
  BY DEF BecomeActive
<1> QED
  BY <1>1, <1>2, <1>3, <1>4, <1>5, <1>6, <1>7, <1>8

(* A step that leaves the cloud and the CO alone. *)
LEMMA LocalType ==
    ASSUME TypeOK, UNCHANGED Local, HandlersOK'
    PROVE  TypeOK'
  BY DEF TypeOK, Local, HandlersOK

(* A step that changes the cloud and may count a fault. *)
LEMMA EffectType ==
    ASSUME TypeOK, vols' \in [Ids -> Volume], UNCHANGED CO, HandlersOK',
           Fault \/ UNCHANGED faults
    PROVE  TypeOK'
  BY FaultType DEF TypeOK, CO, HandlersOK

(* Every step of CreateVolume keeps the types. *)
LEMMA CreateStepType ==
    ASSUME TypeOK, NEW p \in Procs, CreateStep(p)
    PROVE  TypeOK'
<1> USE DEF At, HandlersOK
<1> DEFINE r == h[p].req
<1> USE OpOfSteps DEF Codes
<1>0. h[p].pc \in CreateSteps /\ h[p].pc \in Steps
  BY DEF CreateStep, CreateRegion, CreateSource, CreateList, CreateNew,
     CreateRefused, CreateActive, CreateTimeout, CreateSteps
<1>1. /\ r.op = "create" /\ r \in Request /\ r.name \in Names
      /\ r.src # None => r.src \in Ids
  BY <1>0, StepFacts DEF Valid, Request
<1>2. /\ AfterParams(r) \in Steps \ {"create_wait"} /\ OpOf(AfterParams(r)) = "create"
      /\ AfterParams(r) = "create_source" => r.src \in Ids
  BY <1>1 DEF AfterParams, CreateSteps
<1>3. CASE CreateRegion(p)
  <2>1. Goto(p, AfterParams(r)) \/ Reply(p, "Internal")
    BY <1>3 DEF CreateRegion
  <2>2. HandlersOK'
    BY <1>0, <1>2, <2>1, GotoOK, ReplyOK
  <2> QED
    BY <1>3, <2>2, LocalType DEF CreateRegion
<1>4. CASE CreateSource(p)
  <2>1. Goto(p, "create_list") \/ \E c \in Codes \ {"OK"} : Reply(p, c)
    BY <1>4 DEF CreateSource
  <2>2. HandlersOK'
    BY <1>0, <2>1, GotoOK, ReplyOK DEF CreateSteps
  <2> QED
    BY <1>4, <2>2, LocalType DEF CreateSource
<1>5. CASE CreateList(p)
  <2>1. \/ Goto(p, "create_new") \/ Reply(p, "AlreadyExists")
        \/ \E v \in Ids : h' = [h EXCEPT ![p].pc = "create_wait", ![p].id = v]
    BY <1>5 DEF CreateList, existing, VolumesLabelled
  <2>2. HandlersOK'
    BY <1>0, <2>1, GotoOK, ReplyOK, FoundOK DEF CreateSteps
  <2> QED
    BY <1>5, <2>2, LocalType DEF CreateList
<1>6. CASE CreateNew(p)
  <2>1. PICK v \in Ids :
          /\ IF r.src = None
               THEN Create(v, LabelOf[r.name], TargetSizeGB(r.range), regionOf(r), encryptionStatus(r))
               ELSE Exists(r.src) /\ Clone(v, LabelOf[r.name], r.src)
          /\ \/ h' = [h EXCEPT ![p].pc = "create_wait", ![p].id = v] /\ UNCHANGED faults
             \/ ReplyLost(p)
    BY <1>6 DEF CreateNew
  <2>2. /\ LabelOf[r.name] \in Labels /\ TargetSizeGB(r.range) \in Nat
        /\ regionOf(r) \in Regions /\ encryptionStatus(r) \in {"enabled", "disabled"}
    BY <1>1, ControllerAssumption, SizeIsNat DEF Request, regionOf, encryptionStatus
  <2>3. vols' \in [Ids -> Volume]
    BY <1>1, <2>1, <2>2, VolumeTypes
  <2>4. HandlersOK'
    BY <1>0, <1>6, <2>1, FoundOK, ReplyOK DEF ReplyLost, CreateNew
  <2> QED
    BY <1>6, <2>1, <2>3, <2>4, EffectType DEF CreateNew, ReplyLost
<1>7. CASE CreateRefused(p)
  <2>1. HandlersOK'
    BY <1>0, <1>7, ReplyOK DEF CreateRefused
  <2> QED
    BY <1>7, <2>1, LocalType DEF CreateRefused
<1>8. CASE CreateActive(p)
  <2>1. HandlersOK'
    BY <1>0, <1>8, ReplyOK DEF CreateActive
  <2> QED
    BY <1>8, <2>1, LocalType DEF CreateActive
<1>9. CASE CreateTimeout(p)
  <2>1. HandlersOK'
    BY <1>0, <1>9, ReplyOK, IdleOK DEF CreateTimeout
  <2> QED
    BY <1>9, <2>1, EffectType DEF CreateTimeout, TypeOK, CO
<1> QED
  BY <1>3, <1>4, <1>5, <1>6, <1>7, <1>8, <1>9 DEF CreateStep

(* Every step of DeleteVolume keeps the types. *)
LEMMA DeleteStepType ==
    ASSUME TypeOK, NEW p \in Procs, DeleteStep(p)
    PROVE  TypeOK'
<1> USE OpOfSteps DEF At, HandlersOK, Codes
<1> DEFINE v == h[p].req.vol
<1>0. h[p].pc \in DeleteSteps /\ h[p].pc \in Steps /\ h[p].pc \notin CreateSteps
  BY DEF DeleteStep, DeleteGet, DeleteDo, DeleteSteps, CreateSteps
<1>1. v \in Ids
  BY <1>0, StepFacts DEF Valid
<1>2. CASE DeleteGet(p)
  <2>1. Goto(p, "delete_do") \/ \E c \in Codes : Reply(p, c)
    BY <1>2 DEF DeleteGet
  <2>2. HandlersOK'
    BY <1>0, <2>1, GotoOK, ReplyOK DEF DeleteSteps
  <2> QED
    BY <1>2, <2>2, LocalType DEF DeleteGet
<1>3. CASE DeleteDo(p)
  <2>1. /\ \E c \in Codes : Reply(p, c)
        /\ Delete(v) \/ UNCHANGED vols
        /\ Fault \/ UNCHANGED faults
    BY <1>3 DEF DeleteDo, ReplyLost, DeleteRefusedCode
  <2>2. HandlersOK'
    BY <1>0, <2>1, ReplyOK
  <2>3. vols' \in [Ids -> Volume]
    BY <1>1, <2>1, VolumeTypes DEF TypeOK
  <2> QED
    BY <1>3, <2>1, <2>2, <2>3, EffectType DEF DeleteDo
<1> QED
  BY <1>2, <1>3 DEF DeleteStep

(* Every step of ControllerPublishVolume keeps the types. *)
LEMMA PublishStepType ==
    ASSUME TypeOK, NEW p \in Procs, PublishStep(p)
    PROVE  TypeOK'
<1> USE OpOfSteps DEF At, HandlersOK, Codes
<1> DEFINE v == h[p].req.vol
           n == h[p].req.node
<1>0. h[p].pc \in PublishSteps /\ h[p].pc \in Steps /\ h[p].pc \notin CreateSteps
  BY DEF PublishStep, PubInstance, PubGet, PubCapacity, PubAttach, PubWait,
     PublishSteps, CreateSteps
<1>1. v \in Ids /\ n \in Nodes
  BY <1>0, StepFacts DEF Valid
<1>2. CASE PubInstance(p) \/ PubGet(p) \/ PubCapacity(p) \/ PubWait(p)
  <2>1. /\ \/ \E pc \in PublishSteps : Goto(p, pc)
           \/ \E c \in Codes : Reply(p, c)
        /\ UNCHANGED Local
    BY <1>2 DEF PubInstance, PubGet, PubCapacity, PubWait, PublishSteps
  <2>2. HandlersOK'
    BY <1>0, <2>1, GotoOK, ReplyOK DEF PublishSteps
  <2> QED
    BY <2>1, <2>2, LocalType
<1>3. CASE PubAttach(p)
  <2>1. /\ Goto(p, "pub_wait") \/ \E c \in Codes : Reply(p, c)
        /\ Attach(v, n) \/ UNCHANGED vols
        /\ Fault \/ UNCHANGED faults
    BY <1>3 DEF PubAttach, ReplyLost, Continue
  <2>2. HandlersOK'
    BY <1>0, <2>1, GotoOK, ReplyOK DEF PublishSteps
  <2>3. vols' \in [Ids -> Volume]
    BY <1>1, <2>1, VolumeTypes DEF TypeOK
  <2> QED
    BY <1>3, <2>1, <2>2, <2>3, EffectType DEF PubAttach
<1> QED
  BY <1>2, <1>3 DEF PublishStep

(* Every step of ControllerUnpublishVolume keeps the types. *)
LEMMA UnpublishStepType ==
    ASSUME TypeOK, NEW p \in Procs, UnpublishStep(p)
    PROVE  TypeOK'
<1> USE OpOfSteps DEF At, HandlersOK, Codes
<1> DEFINE v == h[p].req.vol
<1>0. h[p].pc \in UnpublishSteps /\ h[p].pc \in Steps /\ h[p].pc \notin CreateSteps
  BY DEF UnpublishStep, UnpubGet, UnpubDetach, UnpubWait, UnpublishSteps, CreateSteps
<1>1. v \in Ids
  BY <1>0, StepFacts DEF Valid
<1>2. CASE UnpubGet(p) \/ UnpubWait(p)
  <2>1. /\ Goto(p, "unpub_detach") \/ \E c \in Codes : Reply(p, c)
        /\ UNCHANGED Local
    BY <1>2 DEF UnpubGet, UnpubWait
  <2>2. HandlersOK'
    BY <1>0, <2>1, GotoOK, ReplyOK DEF UnpublishSteps
  <2> QED
    BY <2>1, <2>2, LocalType
<1>3. CASE UnpubDetach(p)
  <2>1. /\ Goto(p, "unpub_wait") \/ \E c \in Codes : Reply(p, c)
        /\ Detach(v) \/ UNCHANGED vols
        /\ Fault \/ UNCHANGED faults
    BY <1>3 DEF UnpubDetach, ReplyLost, Continue
  <2>2. HandlersOK'
    BY <1>0, <2>1, GotoOK, ReplyOK DEF UnpublishSteps
  <2>3. vols' \in [Ids -> Volume]
    BY <1>1, <2>1, VolumeTypes DEF TypeOK
  <2> QED
    BY <1>3, <2>1, <2>2, <2>3, EffectType DEF UnpubDetach
<1> QED
  BY <1>2, <1>3 DEF UnpublishStep

(* Every step of ControllerExpandVolume keeps the types. *)
LEMMA ExpandStepType ==
    ASSUME TypeOK, NEW p \in Procs, ExpandStep(p)
    PROVE  TypeOK'
<1> USE OpOfSteps DEF At, HandlersOK, Codes
<1> DEFINE v == h[p].req.vol
<1>0. h[p].pc \in ExpandSteps /\ h[p].pc \in Steps /\ h[p].pc \notin CreateSteps
  BY DEF ExpandStep, ExpGet, ExpResize, ExpWait, ExpandSteps, CreateSteps
<1>1. v \in Ids /\ newSize(h[p].req) \in Nat
  BY <1>0, StepFacts, SizeIsNat DEF Valid, Request, newSize
<1>2. CASE ExpGet(p) \/ ExpWait(p)
  <2>1. /\ Goto(p, "exp_resize") \/ \E c \in Codes : Reply(p, c)
        /\ UNCHANGED Local
    BY <1>2 DEF ExpGet, ExpWait
  <2>2. HandlersOK'
    BY <1>0, <2>1, GotoOK, ReplyOK DEF ExpandSteps
  <2> QED
    BY <2>1, <2>2, LocalType
<1>3. CASE ExpResize(p)
  <2>1. /\ Goto(p, "exp_wait") \/ \E c \in Codes : Reply(p, c)
        /\ Resize(v, newSize(h[p].req)) \/ UNCHANGED vols
        /\ Fault \/ UNCHANGED faults
    BY <1>3 DEF ExpResize, ReplyLost, Continue
  <2>2. HandlersOK'
    BY <1>0, <2>1, GotoOK, ReplyOK DEF ExpandSteps
  <2>3. vols' \in [Ids -> Volume]
    BY <1>1, <2>1, VolumeTypes DEF TypeOK
  <2> QED
    BY <1>3, <2>1, <2>2, <2>3, EffectType DEF ExpResize
<1> QED
  BY <1>2, <1>3 DEF ExpandStep

(* The initial state is well typed. *)
LEMMA InitType == Init => TypeOK
<1> SUFFICES ASSUME Init PROVE TypeOK
  OBVIOUS
<1>1. Idle \in Handler
  BY DEF Idle, Handler, Codes
<1>2. h \in [Procs -> Handler] /\ \A p \in Procs : h[p] = Idle
  BY <1>1 DEF Init
<1>3. \A p \in Procs : HandlerOK(p)
  BY <1>2, OpOfSteps DEF HandlerOK, At, Idle
<1>4. vols \in [Ids -> Volume] /\ pv \in [Names -> Ids \cup {None}] /\ faults \in 0 .. MaxFaults
  BY InitAssumption, ControllerAssumption DEF Init
<1>5. va \in [Ids -> [Nodes -> {"none", "pub", "ok", "unpub"}]]
  BY DEF Init
<1> QED
  BY <1>2, <1>3, <1>4, <1>5 DEF TypeOK

(* TypeOK is inductive. *)
LEMMA NextType == TypeOK /\ [Next]_vars => TypeOK'
<1> SUFFICES ASSUME TypeOK, [Next]_vars PROVE TypeOK'
  OBVIOUS
<1>1. ASSUME NEW p \in Procs, NEW r \in Requests, Call(p, r) PROVE TypeOK'
  BY <1>1, CallType
<1>2. ASSUME NEW p \in Procs, Return(p) PROVE TypeOK'
  BY <1>2, ReturnType
<1>3. ASSUME NEW p \in Procs, HandlerStep(p) PROVE TypeOK'
  BY <1>3, CreateStepType, DeleteStepType, PublishStepType, UnpublishStepType,
     ExpandStepType DEF HandlerStep
<1>4. ASSUME NEW p \in Procs, ApiError(p) PROVE TypeOK'
  <2>1. \E c \in Codes \ {"OK"} : Reply(p, c)
    BY <1>4 DEF ApiError, Codes
  <2>2. HandlersOK'
    BY <1>4, <2>1, ReplyOK DEF ApiError, HandlersOK
  <2> QED
    BY <1>4, <2>2, EffectType DEF ApiError, TypeOK, CO
<1>5. ASSUME NEW v \in Ids, CloudJobDone(v) \/ CloudBecomeActive(v) PROVE TypeOK'
  <2>1. vols' \in [Ids -> Volume]
    BY <1>5, VolumeTypes DEF CloudJobDone, CloudBecomeActive
  <2>2. UNCHANGED <<h, pv, va, faults>>
    BY <1>5 DEF CloudJobDone, CloudBecomeActive
  <2> QED
    BY <2>1, <2>2 DEF TypeOK, HandlerOK, At
<1>6. CASE Crash
  <2>1. HandlersOK'
    BY <1>6, IdleOK DEF Crash, HandlersOK
  <2> QED
    BY <1>6, <2>1, EffectType DEF Crash, TypeOK, CO
<1>7. CASE UNCHANGED vars
  BY <1>7 DEF vars, TypeOK, HandlerOK, At
<1> QED
  BY <1>1, <1>2, <1>3, <1>4, <1>5, <1>6, <1>7 DEF Next

(***************************************************************************)
(* In every state, whatever the CO calls and however the API fails, the    *)
(* state is well typed and every handler serves a request that its own     *)
(* checks admitted.                                                        *)
(***************************************************************************)
THEOREM TypeCorrect == Spec => []TypeOK
  BY InitType, NextType, PTL DEF Spec

-----------------------------------------------------------------------------
(***************************************************************************)
(* What a step does to the handlers.  A handler serves one request from    *)
(* its call to its answer, and only the handler that takes a step changes, *)
(* unless the process dies.                                                *)
(***************************************************************************)
Dies == \A q \in Procs : h'[q] = Idle

Alone(p) == h'[p].req = h[p].req /\ \A q \in Procs \ {p} : h'[q] = h[q]

(* Goto and Reply as the slot shows them afterwards. *)
LEMMA SlotAfter ==
    ASSUME TypeOK, NEW p \in Procs
    PROVE  /\ \A pc : Goto(p, pc) => h'[p].pc = pc
           /\ \A c : Reply(p, c) => h'[p].pc = "done" /\ h'[p].code = c /\ h'[p].id = h[p].id
<1>1. h[p] \in Handler /\ h \in [Procs -> Handler]
  BY DEF TypeOK
<1>2. \A pc : Goto(p, pc) => h'[p].pc = pc
  BY <1>1 DEF Goto, Handler
<1>3. \A c : Reply(p, c) => h'[p].pc = "done" /\ h'[p].code = c /\ h'[p].id = h[p].id
  BY <1>1 DEF Reply, Handler
<1> QED
  BY <1>2, <1>3

(* The slot of a create that has found or made its volume. *)
LEMMA FoundSlot ==
    ASSUME TypeOK, NEW p \in Procs, NEW v,
           h' = [h EXCEPT ![p].pc = "create_wait", ![p].id = v]
    PROVE  h'[p].pc = "create_wait" /\ h'[p].id = v
  BY DEF TypeOK, Handler

(* The steps and the failures of a handler in terms of Goto and Reply. *)
LEMMA StepForms ==
    ASSUME NEW p \in Procs, HandlerStep(p) \/ ApiError(p)
    PROVE  /\ h[p].pc \in Steps
           /\ \/ h' = [q \in Procs |-> Idle]
              \/ \E pc : Goto(p, pc)
              \/ \E code : Reply(p, code)
              \/ \E v : h' = [h EXCEPT ![p].pc = "create_wait", ![p].id = v]
<1> USE DEF At, Continue, ReplyLost
<1>1. CASE CreateStep(p)
  <2>1. h[p].pc \in Steps
    BY <1>1 DEF CreateStep, CreateRegion, CreateSource, CreateList, CreateNew,
       CreateRefused, CreateActive, CreateTimeout, Steps, CreateSteps
  <2> QED
    BY <1>1, <2>1 DEF CreateStep, CreateRegion, CreateSource, CreateList, CreateNew,
       CreateRefused, CreateActive, CreateTimeout
<1>2. CASE DeleteStep(p)
  BY <1>2 DEF DeleteStep, DeleteGet, DeleteDo, Steps, DeleteSteps
<1>3. CASE PublishStep(p)
  <2>1. h[p].pc \in Steps
    BY <1>3 DEF PublishStep, PubInstance, PubGet, PubCapacity, PubAttach, PubWait,
       Steps, PublishSteps
  <2> QED
    BY <1>3, <2>1 DEF PublishStep, PubInstance, PubGet, PubCapacity, PubAttach, PubWait
<1>4. CASE UnpublishStep(p)
  BY <1>4 DEF UnpublishStep, UnpubGet, UnpubDetach, UnpubWait, Steps, UnpublishSteps
<1>5. CASE ExpandStep(p)
  BY <1>5 DEF ExpandStep, ExpGet, ExpResize, ExpWait, Steps, ExpandSteps
<1>6. CASE ApiError(p)
  BY <1>6 DEF ApiError
<1> QED
  BY <1>1, <1>2, <1>3, <1>4, <1>5, <1>6 DEF HandlerStep

(* A step of a handler changes its own slot only, or ends the process. *)
LEMMA StepShape ==
    ASSUME TypeOK, NEW p \in Procs, HandlerStep(p) \/ ApiError(p)
    PROVE  h[p].pc \in Steps /\ (Dies \/ Alone(p))
<1>0. h \in [Procs -> Handler]
  BY DEF TypeOK
<1>1. CASE h' = [q \in Procs |-> Idle]
  BY <1>1, StepForms DEF Dies
<1>2. ASSUME NEW pc, Goto(p, pc) PROVE Alone(p)
  BY <1>0, <1>2 DEF Goto, Alone, Handler
<1>3. ASSUME NEW code, Reply(p, code) PROVE Alone(p)
  BY <1>0, <1>3 DEF Reply, Alone, Handler
<1>4. ASSUME NEW v, h' = [h EXCEPT ![p].pc = "create_wait", ![p].id = v] PROVE Alone(p)
  BY <1>0, <1>4 DEF Alone, Handler
<1> QED
  BY <1>1, <1>2, <1>3, <1>4, StepForms

(* The slot of a call that begins, and of one that is answered. *)
LEMMA CallShape ==
    ASSUME TypeOK, NEW p \in Procs, NEW r \in Requests, Call(p, r)
    PROVE  /\ ~Busy(p) /\ Busy(p)' /\ h'[p].req = r
           /\ h'[p].pc = Enter(r)[1] /\ h'[p].code = Enter(r)[2]
           /\ \A q \in Procs \ {p} : h'[q] = h[q]
           /\ vols' = vols /\ pv' = pv
<1>1. Enter(r)[1] # "idle"
  BY EnterFacts, OpOfSteps
<1> QED
  BY <1>1 DEF Call, TypeOK, At, Busy

(* The slot of a call that is answered. *)
LEMMA ReturnShape ==
    ASSUME TypeOK, NEW p \in Procs, Return(p)
    PROVE  /\ h[p].pc = "done" /\ h'[p] = Idle /\ vols' = vols
           /\ \A q \in Procs \ {p} : h'[q] = h[q]
  BY DEF Return, TypeOK, At

(* A slot that is busy after a step is as it was, or the step was its own. *)
LEMMA Mover ==
    ASSUME TypeOK, [Next]_vars, NEW q \in Procs, Busy(q)', h'[q] # h[q]
    PROVE  \/ \E r \in Requests : Call(q, r)
           \/ (HandlerStep(q) \/ ApiError(q)) /\ Alone(q)
<1> USE DEF Busy, Idle
<1>1. ASSUME NEW p \in Procs, NEW r \in Requests, Call(p, r) PROVE p = q
  BY <1>1, CallShape
<1>2. ASSUME NEW p \in Procs, Return(p) PROVE FALSE
  BY <1>2, ReturnShape
<1>3. ASSUME NEW p \in Procs, HandlerStep(p) \/ ApiError(p) PROVE p = q /\ Alone(q)
  BY <1>3, StepShape DEF Dies, Alone
<1>4. ASSUME NEW v \in Ids, CloudJobDone(v) \/ CloudBecomeActive(v) PROVE FALSE
  BY <1>4 DEF CloudJobDone, CloudBecomeActive
<1>5. CASE Crash
  BY <1>5 DEF Crash
<1>6. CASE UNCHANGED vars
  BY <1>6 DEF vars
<1> QED
  BY <1>1, <1>2, <1>3, <1>4, <1>5, <1>6 DEF Next

(* A handler takes the steps of the operation it serves. *)
LEMMA OwnSteps ==
    ASSUME TypeOK, NEW p \in Procs, HandlerStep(p)
    PROVE  /\ h[p].req.op = "create" => CreateStep(p)
           /\ h[p].req.op = "delete" => DeleteStep(p)
           /\ h[p].req.op = "expand" => ExpandStep(p)
<1> USE DEF At
<1>1. h[p].pc \in Steps /\ h[p].req.op = OpOf(h[p].pc)
  BY StepForms, StepFacts
<1>2. CreateStep(p) => h[p].pc \in CreateSteps
  BY DEF CreateStep, CreateRegion, CreateSource, CreateList, CreateNew,
     CreateRefused, CreateActive, CreateTimeout, CreateSteps
<1>3. DeleteStep(p) => h[p].pc \in DeleteSteps
  BY DEF DeleteStep, DeleteGet, DeleteDo, DeleteSteps
<1>4. PublishStep(p) => h[p].pc \in PublishSteps
  BY DEF PublishStep, PubInstance, PubGet, PubCapacity, PubAttach, PubWait, PublishSteps
<1>5. UnpublishStep(p) => h[p].pc \in UnpublishSteps
  BY DEF UnpublishStep, UnpubGet, UnpubDetach, UnpubWait, UnpublishSteps
<1>6. ExpandStep(p) => h[p].pc \in ExpandSteps
  BY DEF ExpandStep, ExpGet, ExpResize, ExpWait, ExpandSteps
<1> QED
  BY <1>1, <1>2, <1>3, <1>4, <1>5, <1>6, OpOfSteps DEF HandlerStep

(* A failed call leaves the handler with an error. *)
LEMMA ErrorShape ==
    ASSUME TypeOK, NEW p \in Procs, ApiError(p)
    PROVE  h'[p].pc = "done" /\ h'[p].code # "OK" /\ vols' = vols
  BY DEF ApiError, Reply, TypeOK, Handler

(* Where a call begins: nothing has been found out yet. *)
LEMMA CallStart ==
    ASSUME TypeOK, NEW p \in Procs, NEW r \in Requests, Call(p, r)
    PROVE  /\ h'[p].pc \in {"create_region", "create_source", "create_list", "delete_get",
                            "pub_instance", "unpub_get", "exp_get", "done"}
           /\ h'[p].pc = "done" => h'[p].code # "OK"
<1>1. /\ Enter(r)[1] \in {"create_region", "create_source", "create_list", "delete_get",
                          "pub_instance", "unpub_get", "exp_get", "done"}
      /\ Enter(r)[1] = "done" => Enter(r)[2] # "OK"
  <2>1. r.op \in Ops
    BY ControllerAssumption DEF Request
  <2>2. Enter(r) \in {EnterCreate(r), EnterDelete(r), EnterPublish(r), EnterUnpublish(r),
                      EnterExpand(r)}
    BY <2>1 DEF Enter, Ops
  <2> QED
    BY <2>2 DEF EnterCreate, EnterDelete, EnterPublish, EnterUnpublish, EnterExpand, AfterParams
<1> QED
  BY <1>1, CallShape

-----------------------------------------------------------------------------
(***************************************************************************)
(* What a step does to a volume, as far as provisioning is concerned: it   *)
(* leaves it alone, or a create makes it, a delete removes it or an expand *)
(* resizes it, and then no other volume changes.                           *)
(***************************************************************************)
Made(v) == vols[v].status # "absent"

SameData(v) ==
    /\ vols'[v].label = vols[v].label
    /\ vols'[v].region = vols[v].region
    /\ vols'[v].enc = vols[v].enc

Same(v) ==
    /\ SameData(v) /\ vols'[v].size = vols[v].size
    /\ Exists(v)' <=> Exists(v)
    /\ Made(v)' <=> Made(v)

Others(v) == \A w \in Ids \ {v} : vols'[w] = vols[w]

Making(p, v) ==
    LET r == h[p].req
        src == vols[r.src]
    IN
    /\ At(p, "create_new") /\ h'[p].pc # "create_new"
    /\ CreateAccepted(LabelOf[r.name]) /\ ~Made(v)
    /\ Exists(v)' /\ Made(v)' /\ vols'[v].label = LabelOf[r.name]
    /\ r.src = None =>
         /\ vols'[v].size = TargetSizeGB(r.range)
         /\ vols'[v].region = regionOf(r) /\ vols'[v].enc = encryptionStatus(r)
    /\ r.src # None => Exists(r.src) /\ vols'[v].region = src.region
    /\ Others(v)

Removing(p, v) ==
    /\ At(p, "delete_do") /\ h'[p].pc # "delete_do"
    /\ h[p].req.vol = v /\ Exists(v)
    /\ ~Exists(v)' /\ Made(v)' /\ SameData(v) /\ vols'[v].size = vols[v].size
    /\ Others(v)

Resizing(p, v) ==
    /\ At(p, "exp_resize") /\ h'[p].pc # "exp_resize"
    /\ h[p].req.vol = v /\ ResizeAccepted(v, newSize(h[p].req))
    /\ Exists(v)' /\ Made(v)' /\ SameData(v) /\ vols'[v].size = newSize(h[p].req)
    /\ Others(v)

(* A volume that exists has been made. *)
LEMMA MadeIfExists == \A v \in Ids : Exists(v) => Made(v)
  BY DEF Exists, Made

(* A volume that is left alone. *)
LEMMA UnchangedSame ==
    ASSUME NEW v \in Ids, vols'[v] = vols[v]
    PROVE  Same(v)
  BY DEF Same, SameData, Exists, Made

(* The job of an attach or a detach, and its end. *)
LEMMA JobSame ==
    ASSUME TypeOK, NEW w \in Ids, NEW v \in Ids, NEW n,
           \/ vols' = [vols EXCEPT ![w].target = n]
           \/ vols' = [vols EXCEPT ![w].linode = n]
           \/ vols[w].status \in {"creating", "resizing"}
              /\ vols' = [vols EXCEPT ![w].status = "active"]
    PROVE  Same(v)
<1>1. vols \in [Ids -> Volume]
  BY DEF TypeOK
<1> USE DEF Same, SameData, Exists, Made, Volume
<1>2. CASE vols' = [vols EXCEPT ![w].target = n]
  BY <1>1, <1>2
<1>3. CASE vols' = [vols EXCEPT ![w].linode = n]
  BY <1>1, <1>3
<1>4. CASE vols[w].status \in {"creating", "resizing"}
           /\ vols' = [vols EXCEPT ![w].status = "active"]
  BY <1>1, <1>4
<1> QED
  BY <1>2, <1>3, <1>4

(* CreateNew makes one volume, and keeps or loses the answer. *)
LEMMA NewVolume ==
    ASSUME TypeOK, NEW p \in Procs, CreateNew(p)
    PROVE  \E v \in Ids :
             /\ Making(p, v)
             /\ \/ h' = [h EXCEPT ![p].pc = "create_wait", ![p].id = v]
                \/ Reply(p, "Internal")
<1> DEFINE r == h[p].req
           l == LabelOf[r.name]
<1>0. vols \in [Ids -> Volume] /\ At(p, "create_new")
  BY DEF TypeOK, CreateNew
<1>1. PICK v \in Ids :
        /\ CreateAccepted(l)
        /\ IF r.src = None
             THEN Create(v, l, TargetSizeGB(r.range), regionOf(r), encryptionStatus(r))
             ELSE Exists(r.src) /\ Clone(v, l, r.src)
        /\ \/ h' = [h EXCEPT ![p].pc = "create_wait", ![p].id = v]
           \/ Reply(p, "Internal")
  BY DEF CreateNew, ReplyLost
<1>2. ~Made(v)
  BY <1>1 DEF Clone, Create, Made
<1>3. /\ Exists(v)' /\ Made(v)' /\ vols'[v].label = l /\ Others(v)
  <2>1. PICK size, region, enc : Create(v, l, size, region, enc)
    BY <1>1 DEF Clone
  <2> QED
    BY <1>0, <2>1 DEF Create, Exists, Made, Others
<1>4. ASSUME r.src = None
      PROVE  /\ vols'[v].size = TargetSizeGB(r.range)
             /\ vols'[v].region = regionOf(r) /\ vols'[v].enc = encryptionStatus(r)
  BY <1>0, <1>1, <1>4 DEF Create
<1>5. ASSUME r.src # None
      PROVE  Exists(r.src) /\ vols'[v].region = vols[r.src].region
  BY <1>0, <1>1, <1>5 DEF Clone, Create
<1>6. h'[p].pc # "create_new"
  BY <1>1, SlotAfter, FoundSlot
<1>7. Making(p, v)
  BY <1>0, <1>1, <1>2, <1>3, <1>4, <1>5, <1>6 DEF Making
<1> QED
  BY <1>1, <1>7

(* An accepted DeleteVolume call removes one volume. *)
LEMMA RemovedVolume ==
    ASSUME TypeOK, NEW p \in Procs, At(p, "delete_do"), NEW v \in Ids, v = h[p].req.vol,
           DeleteAccepted(v), Delete(v), h'[p].pc # "delete_do"
    PROVE  Removing(p, v)
<1>1. vols \in [Ids -> Volume]
  BY DEF TypeOK
<1>2. /\ vols'[v] = [vols[v] EXCEPT !.status = "deleted", !.linode = None, !.target = None]
      /\ Others(v)
  BY <1>1 DEF Delete, Others
<1>3. vols'[v].status = "deleted" /\ SameData(v) /\ vols'[v].size = vols[v].size
  BY <1>1, <1>2 DEF SameData, Volume
<1> QED
  BY <1>2, <1>3 DEF Removing, DeleteAccepted, Exists, Made

(* An accepted ResizeVolume call resizes one volume. *)
LEMMA ResizedVolume ==
    ASSUME TypeOK, NEW p \in Procs, At(p, "exp_resize"), NEW v \in Ids, v = h[p].req.vol,
           ResizeAccepted(v, newSize(h[p].req)), Resize(v, newSize(h[p].req)),
           h'[p].pc # "exp_resize"
    PROVE  Resizing(p, v)
<1>1. vols \in [Ids -> Volume]
  BY DEF TypeOK
<1>2. /\ vols'[v] = [vols[v] EXCEPT !.size = newSize(h[p].req), !.status = "resizing"]
      /\ Others(v)
  BY <1>1 DEF Resize, Others
<1>3. /\ vols'[v].status = "resizing" /\ SameData(v)
      /\ vols'[v].size = newSize(h[p].req)
  BY <1>1, <1>2 DEF SameData, Volume
<1> QED
  BY <1>2, <1>3 DEF Resizing, Exists, Made

(* Every step, as one volume sees it. *)
LEMMA VolumeSteps ==
    ASSUME TypeOK, [Next]_vars, NEW v \in Ids
    PROVE  \/ Same(v)
           \/ \E p \in Procs : Making(p, v)
           \/ \E p \in Procs : Removing(p, v)
           \/ \E p \in Procs : Resizing(p, v)
<1> DEFINE Goal == \/ Same(v)
                   \/ \E p \in Procs : Making(p, v)
                   \/ \E p \in Procs : Removing(p, v)
                   \/ \E p \in Procs : Resizing(p, v)
<1> SUFFICES Goal
  OBVIOUS
<1>1. CASE vols' = vols
  BY <1>1, UnchangedSame
<1>2. ASSUME NEW p \in Procs, CreateStep(p), vols' # vols PROVE Goal
  <2>1. CreateNew(p)
    BY <1>2 DEF CreateStep, CreateRegion, CreateSource, CreateList, CreateRefused,
       CreateActive, CreateTimeout, Local
  <2>2. PICK w \in Ids : Making(p, w)
    BY <2>1, NewVolume
  <2>3. v # w => vols'[v] = vols[v]
    BY <2>2 DEF Making, Others
  <2> QED
    BY <2>2, <2>3, UnchangedSame
<1>3. ASSUME NEW p \in Procs, DeleteStep(p), vols' # vols PROVE Goal
  <2>1. At(p, "delete_do") /\ DeleteAccepted(h[p].req.vol) /\ Delete(h[p].req.vol)
    BY <1>3 DEF DeleteStep, DeleteGet, DeleteDo, Local
  <2>2. h'[p].pc # "delete_do"
    BY <1>3, <2>1, SlotAfter DEF DeleteStep, DeleteGet, DeleteDo, ReplyLost, Local
  <2>3. PICK w \in Ids : w = h[p].req.vol
    BY <2>1, StepFacts, OpOfSteps DEF At, Valid, DeleteSteps
  <2>4. Removing(p, w)
    BY <2>1, <2>2, <2>3, RemovedVolume
  <2>5. v # w => vols'[v] = vols[v]
    BY <2>4 DEF Removing, Others
  <2> QED
    BY <2>4, <2>5, UnchangedSame
<1>4. ASSUME NEW p \in Procs, ExpandStep(p), vols' # vols PROVE Goal
  <2>1. At(p, "exp_resize") /\ ResizeAccepted(h[p].req.vol, newSize(h[p].req))
        /\ Resize(h[p].req.vol, newSize(h[p].req))
    BY <1>4 DEF ExpandStep, ExpGet, ExpResize, ExpWait, Local
  <2>2. h'[p].pc # "exp_resize"
    BY <1>4, <2>1, SlotAfter DEF ExpandStep, ExpGet, ExpResize, ExpWait, Continue, ReplyLost, Local
  <2>3. PICK w \in Ids : w = h[p].req.vol
    BY <2>1, StepFacts, OpOfSteps DEF At, Valid, ExpandSteps
  <2>4. Resizing(p, w)
    BY <2>1, <2>2, <2>3, ResizedVolume
  <2>5. v # w => vols'[v] = vols[v]
    BY <2>4 DEF Resizing, Others
  <2> QED
    BY <2>4, <2>5, UnchangedSame
<1>5. ASSUME NEW p \in Procs, PublishStep(p) \/ UnpublishStep(p), vols' # vols PROVE Goal
  <2>1. /\ h[p].pc \in {"pub_attach", "unpub_detach"}
        /\ \E n : vols' = [vols EXCEPT ![h[p].req.vol].target = n]
    BY <1>5 DEF PublishStep, PubInstance, PubGet, PubCapacity, PubAttach, PubWait,
       UnpublishStep, UnpubGet, UnpubDetach, UnpubWait, Local, Attach, Detach, At
  <2>2. h[p].req.vol \in Ids
    BY <2>1, StepFacts, OpOfSteps DEF Valid, PublishSteps, UnpublishSteps
  <2> QED
    BY <2>1, <2>2, JobSame
<1>6. ASSUME NEW w \in Ids, CloudJobDone(w) \/ CloudBecomeActive(w) PROVE Goal
  BY <1>6, JobSame DEF CloudJobDone, CloudBecomeActive, JobDone, BecomeActive
<1>7. CASE vols' # vols
  <2>1. \/ \E p \in Procs : HandlerStep(p)
        \/ \E w \in Ids : CloudJobDone(w) \/ CloudBecomeActive(w)
    BY <1>7 DEF Next, Call, Return, ApiError, Crash, vars
  <2> QED
    BY <1>2, <1>3, <1>4, <1>5, <1>6, <1>7, <2>1 DEF HandlerStep
<1> QED
  BY <1>1, <1>7

(* An id once given to a volume is never free again. *)
LEMMA StaysMade ==
    ASSUME TypeOK, [Next]_vars, NEW v \in Ids, Made(v)
    PROVE  Made(v)' /\ SameData(v)
  BY VolumeSteps DEF Same, Making, Removing, Resizing

-----------------------------------------------------------------------------
(***************************************************************************)
(* How a handler gets to where it has established something.               *)
(***************************************************************************)
(* A handler that moves to a step past its first, or to an OK, takes a     *)
(* step of its own operation.                                              *)
LEMMA OwnMove ==
    ASSUME TypeOK, [Next]_vars, NEW q \in Procs, h'[q] # h[q],
           \/ h'[q].pc \in {"create_new", "create_wait", "delete_do", "exp_resize", "exp_wait"}
           \/ h'[q].pc = "done" /\ h'[q].code = "OK"
    PROVE  /\ HandlerStep(q) /\ h'[q].req = h[q].req /\ h[q].req.op = h'[q].req.op
           /\ h'[q].pc \in Steps => h[q].req.op = OpOf(h'[q].pc)
<1>1. Busy(q)'
  BY DEF Busy
<1>2. HandlerStep(q) /\ Alone(q)
  BY <1>1, Mover, CallStart, ErrorShape
<1>3. TypeOK'
  BY NextType
<1>4. h'[q].pc \in Steps => h'[q].req.op = OpOf(h'[q].pc)
  BY <1>3 DEF TypeOK, HandlerOK
<1> QED
  BY <1>2, <1>4 DEF Alone

(* An expand resizes after it compared, waits after it resized, answers last. *)
LEMMA ExpandArrives ==
    ASSUME TypeOK, [Next]_vars, NEW q \in Procs, h'[q] # h[q]
    PROVE  /\ h'[q].pc = "exp_resize" =>
                /\ h'[q].req = h[q].req /\ Exists(h[q].req.vol) /\ vols' = vols
                /\ ~resizeDown(h[q].req.vol, newSize(h[q].req))
           /\ h'[q].pc = "exp_wait" =>
                h'[q].req = h[q].req /\ Resizing(q, h[q].req.vol)
           /\ Answered(q, "expand")' =>
                h'[q].req = h[q].req /\ At(q, "exp_wait") /\ vols' = vols
<1> SUFFICES ASSUME \/ h'[q].pc \in {"exp_resize", "exp_wait"}
                    \/ Answered(q, "expand")'
             PROVE  /\ h'[q].pc = "exp_resize" =>
                         /\ h'[q].req = h[q].req /\ Exists(h[q].req.vol) /\ vols' = vols
                         /\ ~resizeDown(h[q].req.vol, newSize(h[q].req))
                    /\ h'[q].pc = "exp_wait" =>
                         h'[q].req = h[q].req /\ Resizing(q, h[q].req.vol)
                    /\ Answered(q, "expand")' =>
                         h'[q].req = h[q].req /\ At(q, "exp_wait") /\ vols' = vols
  OBVIOUS
<1> USE DEF Answered, At
<1>1. /\ HandlerStep(q) /\ h'[q].req = h[q].req /\ h[q].req.op = "expand"
  BY OwnMove, OpOfSteps DEF ExpandSteps
<1>2. ExpandStep(q)
  BY <1>1, OwnSteps
<1>3. h[q].req.vol \in Ids
  BY <1>1, StepForms, StepFacts DEF Valid
<1>4. CASE ExpGet(q)
  <2>1. \/ Reply(q, "Internal")
        \/ /\ Goto(q, "exp_resize") /\ Exists(h[q].req.vol)
           /\ ~resizeDown(h[q].req.vol, newSize(h[q].req))
    BY <1>4 DEF ExpGet
  <2>2. vols' = vols
    BY <1>4 DEF ExpGet, Local
  <2> QED
    BY <1>1, <2>1, <2>2, SlotAfter
<1>5. CASE ExpResize(q)
  <2>1. h'[q].pc = "exp_wait" =>
          ResizeAccepted(h[q].req.vol, newSize(h[q].req)) /\ Resize(h[q].req.vol, newSize(h[q].req))
    BY <1>5, SlotAfter DEF ExpResize
  <2>2. h'[q].pc = "exp_wait" => Resizing(q, h[q].req.vol)
    BY <1>3, <1>5, <2>1, ResizedVolume DEF ExpResize
  <2> QED
    BY <1>1, <1>5, <2>2, SlotAfter DEF ExpResize, Continue, ReplyLost
<1>6. CASE ExpWait(q)
  BY <1>1, <1>6, SlotAfter DEF ExpWait, Local
<1> QED
  BY <1>2, <1>4, <1>5, <1>6 DEF ExpandStep

(* A delete answers OK for a volume that was not there, or that it removed. *)
LEMMA DeleteArrives ==
    ASSUME TypeOK, [Next]_vars, NEW q \in Procs, h'[q] # h[q], Answered(q, "delete")'
    PROVE  /\ h'[q].req = h[q].req /\ h[q].req.op = "delete" /\ Busy(q) /\ h[q].req.vol \in Ids
           /\ \/ ~Exists(h[q].req.vol) /\ vols' = vols
              \/ Removing(q, h[q].req.vol)
<1> USE DEF Answered, At
<1>1. /\ HandlerStep(q) /\ h'[q].req = h[q].req /\ h[q].req.op = "delete"
  BY OwnMove
<1>2. DeleteStep(q)
  BY <1>1, OwnSteps
<1>3. h[q].req.vol \in Ids /\ Busy(q)
  BY <1>1, StepForms, StepFacts, OpOfSteps DEF Valid, Busy
<1>4. CASE DeleteGet(q)
  <2>1. ~Exists(h[q].req.vol)
    BY <1>4, SlotAfter DEF DeleteGet
  <2> QED
    BY <1>1, <1>3, <1>4, <2>1 DEF DeleteGet, Local
<1>5. CASE DeleteDo(q)
  <2>1. DeleteAccepted(h[q].req.vol) /\ Delete(h[q].req.vol)
    BY <1>5, SlotAfter DEF DeleteDo, DeleteRefusedCode, ReplyLost
  <2>2. Removing(q, h[q].req.vol)
    BY <1>3, <1>5, <2>1, RemovedVolume DEF DeleteDo
  <2> QED
    BY <1>1, <1>3, <2>2
<1> QED
  BY <1>2, <1>4, <1>5 DEF DeleteStep

(* A create makes after it listed none, waits for what it found or made. *)
LEMMA CreateArrives ==
    ASSUME TypeOK, [Next]_vars, NEW q \in Procs, h'[q] # h[q]
    PROVE  /\ h'[q].pc = "create_new" =>
                /\ h'[q].req = h[q].req /\ At(q, "create_list") /\ vols' = vols
                /\ existing(h[q].req) = {}
           /\ h'[q].pc = "create_wait" =>
                /\ h'[q].req = h[q].req
                /\ \E v \in Ids :
                     /\ h'[q].id = v
                     /\ \/ /\ At(q, "create_list") /\ vols' = vols
                           /\ existing(h[q].req) = {v}
                           /\ SizeMatches(h[q].req, vols[v].size)
                        \/ Making(q, v)
           /\ Answered(q, "create")' =>
                /\ h'[q].req = h[q].req /\ h'[q].id = h[q].id
                /\ At(q, "create_wait") /\ vols' = vols
<1> USE DEF Answered, At
<1> DEFINE New == /\ h'[q].req = h[q].req /\ At(q, "create_list") /\ vols' = vols
                  /\ existing(h[q].req) = {}
           Wait == /\ h'[q].req = h[q].req
                   /\ \E v \in Ids :
                        /\ h'[q].id = v
                        /\ \/ /\ At(q, "create_list") /\ vols' = vols
                              /\ existing(h[q].req) = {v}
                              /\ SizeMatches(h[q].req, vols[v].size)
                           \/ Making(q, v)
           Done == /\ h'[q].req = h[q].req /\ h'[q].id = h[q].id
                   /\ At(q, "create_wait") /\ vols' = vols
<1> SUFFICES ASSUME \/ h'[q].pc \in {"create_new", "create_wait"} \/ Answered(q, "create")'
             PROVE  /\ h'[q].pc = "create_new" => New
                    /\ h'[q].pc = "create_wait" => Wait
                    /\ Answered(q, "create")' => Done
  OBVIOUS
<1>1. /\ HandlerStep(q) /\ h'[q].req = h[q].req /\ h[q].req.op = "create"
  BY OwnMove, OpOfSteps DEF CreateSteps
<1>2. CreateStep(q)
  BY <1>1, OwnSteps
<1>3. CASE CreateRegion(q) \/ CreateSource(q)
  <2>1. \/ h'[q].pc \in {"create_list", "create_source"}
        \/ h'[q].pc = "done" /\ h'[q].code # "OK"
    BY <1>3, SlotAfter DEF CreateRegion, CreateSource, AfterParams
  <2> QED
    BY <2>1
<1>4. CASE CreateList(q)
  <2>1. CASE existing(h[q].req) = {} /\ Goto(q, "create_new")
    BY <1>1, <1>4, <2>1, SlotAfter DEF CreateList, Local
  <2>2. CASE \E c : c # "OK" /\ Reply(q, c)
    BY <2>2, SlotAfter
  <2>3. ASSUME NEW v \in existing(h[q].req), existing(h[q].req) = {v},
               SizeMatches(h[q].req, vols[v].size),
               h' = [h EXCEPT ![q].pc = "create_wait", ![q].id = v]
        PROVE  h'[q].pc = "create_wait" /\ Wait
    <3>1. h'[q].pc = "create_wait" /\ h'[q].id = v /\ v \in Ids
      BY <2>3, FoundSlot DEF existing, VolumesLabelled
    <3> QED
      BY <1>1, <1>4, <2>3, <3>1 DEF CreateList, Local
  <2> QED
    BY <1>4, <2>1, <2>2, <2>3 DEF CreateList
<1>5. CASE CreateNew(q)
  <2>1. PICK v \in Ids : /\ Making(q, v)
                         /\ \/ h' = [h EXCEPT ![q].pc = "create_wait", ![q].id = v]
                            \/ Reply(q, "Internal")
    BY <1>5, NewVolume
  <2> QED
    BY <1>1, <2>1, SlotAfter, FoundSlot
<1>6. CASE CreateRefused(q)
  BY <1>6, SlotAfter DEF CreateRefused
<1>7. CASE CreateActive(q)
  BY <1>1, <1>7, SlotAfter DEF CreateActive, Local
<1>8. CASE CreateTimeout(q)
  BY <1>8, SlotAfter DEF CreateTimeout, Idle
<1> QED
  BY <1>2, <1>3, <1>4, <1>5, <1>6, <1>7, <1>8 DEF CreateStep

-----------------------------------------------------------------------------
(***************************************************************************)
(* With an orderly CO there is at most one create in flight for a name,    *)
(* and at most one other call about a volume.                              *)
(***************************************************************************)
OneCall ==
    \A p, q \in Procs : p # q /\ Busy(p) /\ Busy(q) =>
      /\ h[p].req.op = "create" /\ h[q].req.op = "create" => h[p].req.name # h[q].req.name
      /\ h[p].req.op # "create" /\ h[q].req.op # "create" => h[p].req.vol # h[q].req.vol

(* A busy slot serves the request it did, or its call begins. *)
LEMMA KeepsRequest ==
    ASSUME TypeOK, [Next]_vars, NEW q \in Procs, Busy(q)'
    PROVE  \/ \E r \in Requests : Call(q, r)
           \/ Busy(q) /\ h'[q].req = h[q].req
<1>1. CASE h'[q] = h[q]
  BY <1>1 DEF Busy
<1>2. CASE h'[q] # h[q]
  <2>1. \/ \E r \in Requests : Call(q, r)
        \/ (HandlerStep(q) \/ ApiError(q)) /\ Alone(q)
    BY <1>2, Mover
  <2>2. HandlerStep(q) \/ ApiError(q) => Busy(q)
    BY StepForms, OpOfSteps DEF Busy
  <2> QED
    BY <2>1, <2>2 DEF Alone
<1> QED
  BY <1>1, <1>2

(* No call is in flight at the start. *)
LEMMA OneCallInit == Init => OneCall
  BY DEF Init, OneCall, Busy, Idle

(* Allowed keeps a second call about the same target out. *)
LEMMA OneCallNext ==
    ASSUME Orderly, TypeOK, OneCall, [Next]_vars
    PROVE  OneCall'
<1> DEFINE Apart(r, s) == /\ r.op = "create" /\ s.op = "create" => r.name # s.name
                          /\ r.op # "create" /\ s.op # "create" => r.vol # s.vol
<1>1. ASSUME NEW p \in Procs, NEW q \in Procs, p # q, Busy(p)', Busy(q)',
             NEW r \in Requests, Call(p, r)
      PROVE  Apart(h'[p].req, h'[q].req)
  <2>1. Busy(q) /\ h'[q] = h[q] /\ h'[p].req = r
    BY <1>1, CallShape DEF Busy
  <2>2. ~SameTarget(r, h[q].req)
    BY <1>1, <2>1 DEF Call, Allowed
  <2>3. Apart(r, h[q].req)
    BY <2>2 DEF SameTarget
  <2> QED
    BY <2>1, <2>3
<1>2. ASSUME NEW p \in Procs, NEW q \in Procs, p # q, Busy(p)', Busy(q)'
      PROVE  Apart(h'[p].req, h'[q].req)
  <2>1. CASE \E r \in Requests : Call(p, r)
    BY <1>1, <1>2, <2>1
  <2>2. CASE \E r \in Requests : Call(q, r)
    <3>1. Apart(h'[q].req, h'[p].req)
      BY <1>1, <1>2, <2>2
    <3> QED
      BY <3>1
  <2>3. CASE Busy(p) /\ h'[p].req = h[p].req /\ Busy(q) /\ h'[q].req = h[q].req
    <3>1. Apart(h[p].req, h[q].req)
      BY <1>2, <2>3 DEF OneCall
    <3> QED
      BY <2>3, <3>1
  <2> QED
    BY <1>2, <2>1, <2>2, <2>3, KeepsRequest
<1> QED
  BY <1>2 DEF OneCall

-----------------------------------------------------------------------------
(***************************************************************************)
(* Growing.  ControllerExpandVolume compares sizes in one API call and     *)
(* resizes in a later one.  What was compared still holds at the resize,   *)
(* because an orderly CO has no other call about the volume in flight; if  *)
(* the CO is not orderly, the API's own check has to stand in.             *)
(***************************************************************************)
GrowthGuarded == Orderly \/ "shrink" \in Guards

Growth(p) ==
    LET v == h[p].req.vol
        size == newSize(h[p].req)
    IN
    /\ At(p, "exp_resize") => Made(v) /\ (Orderly => vols[v].size <= size)
    /\ At(p, "exp_wait") \/ Answered(p, "expand") => Made(v) /\ vols[v].size >= size

GrowthInv ==
    /\ TypeOK
    /\ Orderly => OneCall
    /\ \A p \in Procs : Growth(p)

(* The handlers that are growing a volume serve a checked request. *)
LEMMA GrowerFacts ==
    ASSUME TypeOK, NEW p \in Procs,
           At(p, "exp_resize") \/ At(p, "exp_wait") \/ Answered(p, "expand")
    PROVE  /\ Busy(p) /\ h[p].req.op = "expand" /\ h[p].req.vol \in Ids
           /\ newSize(h[p].req) \in Nat
           /\ h[p].req \in Requests
<1>1. Busy(p) /\ h[p].req.op = "expand" /\ Valid(h[p].req)
  <2>1. CASE Answered(p, "expand")
    BY <2>1 DEF Answered, TypeOK, HandlerOK, At, Busy
  <2>2. CASE At(p, "exp_resize") \/ At(p, "exp_wait")
    BY <2>2, StepFacts, OpOfSteps DEF At, ExpandSteps, Busy
  <2> QED
    BY <2>1, <2>2
<1>2. h[p].req \in Requests /\ h[p].req.range \in CapacityRange
  BY <1>1, ControllerAssumption DEF Valid, Request
<1> QED
  BY <1>1, <1>2, SizeIsNat DEF Valid, newSize

(* No step makes a volume that exists smaller. *)
LEMMA StepGrows ==
    ASSUME GrowthGuarded, GrowthInv, [Next]_vars, NEW v \in Ids, Made(v)
    PROVE  Made(v)' /\ vols'[v].size >= vols[v].size
<1>0. TypeOK /\ vols[v].size \in Nat
  BY DEF GrowthInv, TypeOK, Volume
<1>1. CASE Same(v) \/ (\E p \in Procs : Removing(p, v))
  BY <1>0, <1>1 DEF Same, Removing
<1>2. ASSUME NEW p \in Procs, Making(p, v) PROVE FALSE
  BY <1>2 DEF Making
<1>3. ASSUME NEW p \in Procs, Resizing(p, v)
      PROVE  Made(v)' /\ vols'[v].size >= vols[v].size
  <2>1. At(p, "exp_resize") /\ h[p].req.vol = v /\ Made(v)' /\ vols'[v].size = newSize(h[p].req)
        /\ ResizeAccepted(v, newSize(h[p].req))
    BY <1>3 DEF Resizing
  <2>2. newSize(h[p].req) \in Nat
    BY <1>0, <2>1, GrowerFacts
  <2>3. newSize(h[p].req) >= vols[v].size
    <3>1. CASE Orderly
      BY <1>0, <2>1, <2>2, <3>1 DEF GrowthInv, Growth
    <3>2. CASE "shrink" \in Guards
      BY <2>1, <3>2 DEF ResizeAccepted
    <3> QED
      BY <3>1, <3>2 DEF GrowthGuarded
  <2> QED
    BY <2>1, <2>3
<1> QED
  BY <1>0, <1>1, <1>2, <1>3, VolumeSteps

(* A handler that is where it was still has what it established. *)
LEMMA GrowthStays ==
    ASSUME GrowthGuarded, GrowthInv, [Next]_vars, NEW p \in Procs, h'[p] = h[p]
    PROVE  Growth(p)'
<1>0. TypeOK /\ TypeOK' /\ Growth(p)
  BY NextType DEF GrowthInv
<1>1. SUFFICES ASSUME At(p, "exp_resize") \/ At(p, "exp_wait") \/ Answered(p, "expand")
               PROVE  Growth(p)'
  BY DEF Growth, At, Answered
<1>2. PICK v \in Ids, r \in Requests, size \in Nat :
        /\ v = h[p].req.vol /\ r = h[p].req /\ size = newSize(r)
        /\ Busy(p) /\ r.op = "expand"
  BY <1>0, <1>1, GrowerFacts
<1>3. Made(v)
  BY <1>0, <1>1, <1>2 DEF Growth
<1>4. /\ Made(v)' /\ vols'[v].size >= vols[v].size
      /\ vols[v].size \in Nat /\ vols'[v].size \in Nat
  BY <1>0, <1>3, StepGrows DEF TypeOK, Volume
<1>5. ASSUME At(p, "exp_resize"), Orderly PROVE vols'[v].size <= size
  <2>1. ASSUME NEW q \in Procs PROVE ~Resizing(q, v)
    <3> SUFFICES ASSUME Resizing(q, v) PROVE FALSE
      OBVIOUS
    <3>1. At(q, "exp_resize") /\ h'[q].pc # "exp_resize" /\ h[q].req.vol = v
      BY DEF Resizing
    <3>2. Busy(q) /\ h[q].req.op = "expand"
      BY <1>0, <3>1, GrowerFacts
    <3>3. p # q
      BY <1>5, <3>1 DEF At
    <3> QED
      BY <1>2, <1>5, <3>1, <3>2, <3>3 DEF GrowthInv, OneCall
  <2>2. vols'[v].size = vols[v].size
    BY <1>0, <1>3, <2>1, VolumeSteps DEF Same, Making, Removing
  <2>3. vols[v].size <= size
    BY <1>0, <1>2, <1>5 DEF Growth
  <2> QED
    BY <2>2, <2>3
<1>6. ASSUME At(p, "exp_wait") \/ Answered(p, "expand") PROVE vols'[v].size >= size
  <2>1. vols[v].size >= size
    BY <1>0, <1>2, <1>6 DEF Growth
  <2> QED
    BY <1>2, <1>4, <2>1
<1>7. h'[p].req = r /\ h'[p].req.vol = v
  BY <1>2
<1> QED
  BY <1>2, <1>4, <1>5, <1>6, <1>7 DEF Growth, At, Answered

(* A handler that moves has just looked, resized, or waited. *)
LEMMA GrowthArrives ==
    ASSUME GrowthGuarded, GrowthInv, [Next]_vars, NEW p \in Procs, h'[p] # h[p]
    PROVE  Growth(p)'
<1>0. TypeOK /\ TypeOK' /\ Growth(p)
  BY NextType DEF GrowthInv
<1>1. SUFFICES ASSUME At(p, "exp_resize")' \/ At(p, "exp_wait")' \/ Answered(p, "expand")'
               PROVE  Growth(p)'
  BY DEF Growth
<1>2. (At(p, "exp_resize") \/ At(p, "exp_wait") \/ Answered(p, "expand"))'
  BY <1>1
<1>3. h'[p].req \in Requests /\ h'[p].req.vol \in Ids /\ newSize(h'[p].req) \in Nat
  <2>1. h'[p].req.vol \in Ids /\ h'[p].req \in Requests
    BY <1>0, <1>2 DEF TypeOK, HandlerOK, At, Answered, Valid, OpOf, Steps, CreateSteps,
       DeleteSteps, PublishSteps, UnpublishSteps, ExpandSteps
  <2>2. h'[p].req.range \in CapacityRange
    BY <2>1, ControllerAssumption DEF Request
  <2> QED
    BY <2>1, <2>2, SizeIsNat DEF newSize
<1>4. h'[p].req = h[p].req
  BY <1>0, <1>2, ExpandArrives DEF At
<1>5. PICK v \in Ids, r \in Requests, size \in Nat :
        /\ v = h'[p].req.vol /\ r = h'[p].req /\ size = newSize(r)
        /\ v = h[p].req.vol /\ r = h[p].req
  BY <1>3, <1>4
<1>6. vols[v].size \in Nat /\ vols'[v].size \in Nat
  BY <1>0 DEF TypeOK, Volume
<1>7. CASE h'[p].pc = "exp_resize"
  <2>1. Exists(v) /\ vols' = vols /\ ~(vols[v].size > size)
    BY <1>0, <1>5, <1>7, ExpandArrives DEF resizeDown
  <2>2. Made(v)' /\ vols'[v].size <= size
    BY <1>6, <2>1 DEF Made, Exists
  <2> QED
    BY <1>5, <1>7, <2>2 DEF Growth, At, Answered
<1>8. CASE h'[p].pc = "exp_wait"
  <2>1. Resizing(p, v)
    BY <1>0, <1>5, <1>8, ExpandArrives
  <2>2. Made(v)' /\ vols'[v].size >= size
    BY <1>5, <1>6, <2>1 DEF Resizing
  <2> QED
    BY <1>5, <1>8, <2>2 DEF Growth, At, Answered
<1>9. CASE Answered(p, "expand")'
  <2>1. At(p, "exp_wait") /\ vols' = vols
    BY <1>0, <1>9, ExpandArrives
  <2>2. Made(v)' /\ vols'[v].size >= size
    BY <1>0, <1>5, <2>1 DEF Growth, Made
  <2> QED
    BY <1>5, <1>9, <2>2 DEF Growth, At, Answered
<1> QED
  BY <1>2, <1>7, <1>8, <1>9 DEF At

(* GrowthInv is inductive. *)
LEMMA GrowthInit == Init => GrowthInv
<1> SUFFICES ASSUME Init PROVE GrowthInv
  OBVIOUS
<1>1. \A p \in Procs : Growth(p)
  BY DEF Init, Growth, At, Answered, Idle
<1> QED
  BY <1>1, InitType, OneCallInit DEF GrowthInv

(* Every step keeps GrowthInv. *)
LEMMA GrowthNext ==
    ASSUME GrowthGuarded, GrowthInv, [Next]_vars
    PROVE  GrowthInv'
<1>1. TypeOK' /\ (Orderly => OneCall')
  BY NextType, OneCallNext DEF GrowthInv
<1>2. \A p \in Procs : Growth(p)'
  BY GrowthStays, GrowthArrives
<1> QED
  BY <1>1, <1>2 DEF GrowthInv

(***************************************************************************)
(* When ControllerExpandVolume answers OK the volume has at least the size *)
(* asked for, for every mix of calls, failures and restarts: with an       *)
(* orderly CO on the driver's own check, with any CO if the API checks.    *)
(***************************************************************************)
THEOREM ExpandSafe == GrowthGuarded => (Spec => []ExpandedAsAsked)
<1> SUFFICES ASSUME GrowthGuarded PROVE Spec => []ExpandedAsAsked
  OBVIOUS
<1>1. GrowthInv /\ [Next]_vars => GrowthInv'
  BY GrowthNext
<1>2. GrowthInv => ExpandedAsAsked
  BY DEF GrowthInv, Growth, ExpandedAsAsked, newSize
<1> QED
  BY <1>1, <1>2, GrowthInit, PTL DEF Spec

(***************************************************************************)
(* No step of any handler, and no failure, makes a volume smaller.         *)
(***************************************************************************)
THEOREM VolumesNeverShrink == GrowthGuarded => (Spec => NeverShrinks)
<1> SUFFICES ASSUME GrowthGuarded PROVE Spec => NeverShrinks
  OBVIOUS
<1>1. GrowthInv /\ [Next]_vars => GrowthInv'
  BY GrowthNext
<1>2. GrowthInv /\ [Next]_vars => [\A v \in Ids : Exists(v) => vols'[v].size >= vols[v].size]_vars
  BY StepGrows, MadeIfExists
<1> QED
  BY <1>1, <1>2, GrowthInit, PTL DEF Spec, NeverShrinks

-----------------------------------------------------------------------------
(***************************************************************************)
(* Deleting.  An OK for a volume that is not there is right only if the    *)
(* id has been given out: an id of the future could still come to exist.   *)
(* That holds of the ids the CO got from CreateVolume, which is where an   *)
(* orderly CO takes the ids it deletes from, or of the account's volumes   *)
(* at the start.                                                           *)
(***************************************************************************)
KnownAtStart ==
    \A n \in Names : InitPv[n] # None => InitVols[InitPv[n]].status # "absent"

OnlyMadeDeleted ==
    \/ Orderly /\ KnownAtStart
    \/ \A r \in Requests :
         r.op = "delete" /\ r.vol # None => InitVols[r.vol].status # "absent"

(* A create that has its volume. *)
Holds(p) == At(p, "create_wait") \/ Answered(p, "create")

MadeInv ==
    /\ \A v \in Ids : InitVols[v].status # "absent" => Made(v)
    /\ \A p \in Procs : Holds(p) => Made(h[p].id)
    /\ KnownAtStart => \A n \in Names : pv[n] # None => Made(pv[n])

DeleteInv ==
    /\ TypeOK
    /\ MadeInv
    /\ \A p \in Procs :
         Busy(p) /\ h[p].req.op = "delete" /\ h[p].req.vol # None => Made(h[p].req.vol)
    /\ DeletedIsGone

(* A create that has its volume serves a checked request. *)
LEMMA HolderFacts ==
    ASSUME TypeOK, NEW p \in Procs, Holds(p)
    PROVE  /\ Busy(p) /\ h[p].req.op = "create" /\ h[p].req.name \in Names
           /\ h[p].req \in Requests /\ h[p].id \in Ids
<1>1. CASE At(p, "create_wait")
  <2>1. h[p].pc \in Steps /\ h[p].pc \in CreateSteps
    BY <1>1 DEF At, Steps, CreateSteps
  <2> QED
    BY <1>1, <2>1, StepFacts, OpOfSteps DEF TypeOK, HandlerOK, At, Valid, Busy
<1>2. CASE Answered(p, "create")
  BY <1>2 DEF Answered, TypeOK, HandlerOK, At, Valid, Busy
<1> QED
  BY <1>1, <1>2 DEF Holds

(* How a create comes by its volume, and keeps it. *)
LEMMA HolderSteps ==
    ASSUME TypeOK, [Next]_vars, NEW p \in Procs, Holds(p)'
    PROVE  /\ h'[p].req = h[p].req
           /\ \/ Holds(p) /\ h'[p].id = h[p].id
              \/ \E v \in Ids :
                   /\ h'[p].id = v
                   /\ \/ /\ At(p, "create_list") /\ vols' = vols
                         /\ existing(h[p].req) = {v}
                         /\ SizeMatches(h[p].req, vols[v].size)
                      \/ Making(p, v)
<1>1. CASE h'[p] = h[p]
  BY <1>1 DEF Holds, At, Answered
<1>2. CASE h'[p] # h[p]
  <2>1. CASE h'[p].pc = "create_wait"
    BY <1>2, <2>1, CreateArrives
  <2>2. CASE Answered(p, "create")'
    BY <1>2, <2>2, CreateArrives DEF Holds
  <2> QED
    BY <2>1, <2>2 DEF Holds, At
<1> QED
  BY <1>1, <1>2

(* pv changes only when an answer is delivered. *)
LEMMA Learns ==
    ASSUME TypeOK, [Next]_vars, NEW n \in Names, pv'[n] # pv[n]
    PROVE  \E p \in Procs :
             /\ Return(p)
             /\ \/ Answered(p, "create") /\ h[p].req.name = n /\ pv'[n] = h[p].id
                \/ Answered(p, "delete") /\ h[p].req.vol = pv[n] /\ pv'[n] = None
<1>1. PICK p \in Procs : Return(p)
  <2>1. pv' # pv
    OBVIOUS
  <2> QED
    BY <2>1 DEF Next, Call, HandlerStep, CreateStep, CreateRegion, CreateSource, CreateList,
       CreateNew, CreateRefused, CreateActive, CreateTimeout, DeleteStep, DeleteGet, DeleteDo,
       PublishStep, PubInstance, PubGet, PubCapacity, PubAttach, PubWait, UnpublishStep,
       UnpubGet, UnpubDetach, UnpubWait, ExpandStep, ExpGet, ExpResize, ExpWait, ApiError,
       Crash, CloudJobDone, CloudBecomeActive, Local, CO, vars
<1>2. pv \in [Names -> Ids \cup {None}]
  BY DEF TypeOK
<1>3. CASE h[p].req.op = "create" /\ h[p].code = "OK"
  BY <1>1, <1>2, <1>3 DEF Return, Answered
<1>4. CASE h[p].req.op = "delete" /\ h[p].code = "OK"
  BY <1>1, <1>2, <1>4 DEF Return, Answered
<1>5. CASE ~(h[p].req.op \in {"create", "delete"} /\ h[p].code = "OK")
  BY <1>1, <1>5 DEF Return
<1> QED
  BY <1>3, <1>4, <1>5

(* Ids the account had, a create holds or the CO was given stay given out. *)
LEMMA MadeNext ==
    ASSUME TypeOK, MadeInv, [Next]_vars
    PROVE  MadeInv'
<1>1. ASSUME NEW v \in Ids, InitVols[v].status # "absent" PROVE Made(v)'
  BY <1>1, StaysMade DEF MadeInv
<1>2. ASSUME NEW p \in Procs, Holds(p)' PROVE Made(h[p].id)'
  <2>1. PICK v \in Ids : v = h'[p].id
    BY <1>2, NextType, HolderFacts, HolderSteps
  <2>2. Made(v)'
    <3>1. CASE Holds(p) /\ h'[p].id = h[p].id
      BY <2>1, <3>1, StaysMade DEF MadeInv
    <3>2. CASE existing(h[p].req) = {v} /\ vols' = vols
      BY <3>2 DEF existing, VolumesLabelled, Exists, Made
    <3>3. CASE Making(p, v)
      BY <3>3 DEF Making
    <3> QED
      BY <1>2, <2>1, <3>1, <3>2, <3>3, HolderSteps
  <2> QED
    BY <2>1, <2>2 DEF Made
<1>3. ASSUME KnownAtStart, NEW n \in Names, pv'[n] # None PROVE Made(pv[n])'
  <2>1. CASE pv'[n] = pv[n]
    <3>1. PICK v \in Ids : v = pv[n] /\ Made(v)
      BY <1>3, <2>1 DEF MadeInv, TypeOK
    <3>2. Made(v)'
      BY <3>1, StaysMade
    <3> QED
      BY <2>1, <3>1, <3>2 DEF Made
  <2>2. CASE pv'[n] # pv[n]
    <3>1. PICK p \in Procs : Return(p) /\ Answered(p, "create") /\ pv'[n] = h[p].id
      BY <1>3, <2>2, Learns
    <3>2. PICK v \in Ids : v = h[p].id /\ Made(v)
      BY <3>1, HolderFacts DEF MadeInv, Holds
    <3>3. Made(v)'
      BY <3>2, StaysMade
    <3> QED
      BY <3>1, <3>2, <3>3 DEF Made
  <2> QED
    BY <2>1, <2>2
<1> QED
  BY <1>1, <1>2, <1>3 DEF MadeInv

(* Every step keeps DeleteInv. *)
LEMMA DeleteNext ==
    ASSUME OnlyMadeDeleted, DeleteInv, [Next]_vars
    PROVE  DeleteInv'
<1>0. TypeOK /\ MadeInv /\ TypeOK' /\ MadeInv'
  BY NextType, MadeNext DEF DeleteInv
<1>1. ASSUME NEW p \in Procs, Busy(p)', h'[p].req.op = "delete", h'[p].req.vol # None
      PROVE  Made(h[p].req.vol)'
  <2>1. CASE Busy(p) /\ h'[p].req = h[p].req
    <3>1. PICK v \in Ids : v = h[p].req.vol /\ v = h'[p].req.vol
      BY <1>0, <1>1, <2>1, ControllerAssumption DEF TypeOK, Handler, Request, NoRequest
    <3>2. Made(v)
      BY <1>1, <2>1, <3>1 DEF DeleteInv
    <3>3. Made(v)'
      BY <1>0, <3>2, StaysMade
    <3> QED
      BY <3>1, <3>3 DEF Made
  <2>2. ASSUME NEW r \in Requests, Call(p, r) PROVE Made(h[p].req.vol)'
    <3>1. h'[p].req = r /\ vols' = vols
      BY <1>0, <2>2, CallShape
    <3>2. PICK v \in Ids : v = r.vol
      BY <1>1, <3>1, ControllerAssumption DEF Request
    <3>3. CASE Orderly /\ KnownAtStart
      <4>1. v \in Known \cup {None} /\ v # None
        BY <1>1, <2>2, <3>1, <3>2, <3>3 DEF Call, Allowed
      <4>2. Made(v)
        BY <1>0, <3>3, <4>1 DEF Known, MadeInv
      <4> QED
        BY <3>1, <3>2, <4>2 DEF Made
    <3>4. CASE \A s \in Requests :
                 s.op = "delete" /\ s.vol # None => InitVols[s.vol].status # "absent"
      <4>1. InitVols[v].status # "absent"
        BY <1>1, <3>1, <3>2, <3>4
      <4> QED
        BY <1>0, <3>1, <3>2, <4>1 DEF MadeInv, Made
    <3> QED
      BY <3>3, <3>4 DEF OnlyMadeDeleted
  <2> QED
    BY <1>0, <1>1, <2>1, <2>2, KeepsRequest
<1>2. ASSUME NEW p \in Procs, Answered(p, "delete")' PROVE ~Exists(h[p].req.vol)'
  <2>1. CASE h'[p] = h[p]
    <3>1. Answered(p, "delete") /\ Busy(p) /\ h[p].req.vol \in Ids
      BY <1>0, <1>2, <2>1 DEF Answered, At, Busy, TypeOK, HandlerOK, Valid
    <3>2. PICK v \in Ids : v = h[p].req.vol
      BY <3>1
    <3>3. ~Exists(v) /\ Made(v)
      BY <3>1, <3>2, NoneAssumption DEF DeleteInv, DeletedIsGone, Answered
    <3>4. ~Exists(v)'
      BY <1>0, <3>3, VolumeSteps DEF Same, Making, Removing, Resizing, ResizeAccepted
    <3> QED
      BY <2>1, <3>2, <3>4 DEF Exists
  <2>2. CASE h'[p] # h[p]
    <3>1. /\ h'[p].req = h[p].req /\ h[p].req.vol \in Ids
          /\ \/ ~Exists(h[p].req.vol) /\ vols' = vols
             \/ Removing(p, h[p].req.vol)
      BY <1>0, <1>2, <2>2, DeleteArrives
    <3>2. PICK v \in Ids : v = h[p].req.vol
      BY <3>1
    <3>3. ~Exists(v)'
      BY <3>1, <3>2 DEF Removing, Exists
    <3> QED
      BY <3>1, <3>2, <3>3 DEF Exists
  <2> QED
    BY <2>1, <2>2
<1> QED
  BY <1>0, <1>1, <1>2 DEF DeleteInv, DeletedIsGone

(* DeleteInv at the start. *)
LEMMA DeleteInit == Init => DeleteInv
<1> SUFFICES ASSUME Init PROVE DeleteInv
  OBVIOUS
<1>1. \A p \in Procs : h[p] = Idle
  BY DEF Init
<1>2. MadeInv
  BY <1>1 DEF Init, MadeInv, Made, Holds, Answered, At, Idle, KnownAtStart
<1>3. DeletedIsGone /\ \A p \in Procs : ~Busy(p)
  BY <1>1 DEF DeletedIsGone, Answered, At, Busy, Idle
<1> QED
  BY <1>2, <1>3, InitType DEF DeleteInv

(***************************************************************************)
(* When DeleteVolume answers OK, because the volume was removed or because *)
(* it was not there, it is gone, and stays gone while other calls go on.   *)
(***************************************************************************)
THEOREM DeleteSafe == OnlyMadeDeleted => (Spec => []DeletedIsGone)
<1> SUFFICES ASSUME OnlyMadeDeleted PROVE Spec => []DeletedIsGone
  OBVIOUS
<1>1. DeleteInv /\ [Next]_vars => DeleteInv'
  BY DeleteNext
<1>2. DeleteInv => DeletedIsGone
  BY DEF DeleteInv
<1> QED
  BY <1>1, <1>2, DeleteInit, PTL DEF Spec

-----------------------------------------------------------------------------
(***************************************************************************)
(* Labels.  CreateVolume lists the volumes with the label in one API call  *)
(* and creates in a later one.  No volume with the label appears between   *)
(* the two, because an orderly CO has one create for a name in flight and  *)
(* the labels of different names differ; otherwise the API has to refuse   *)
(* the second volume.                                                      *)
(***************************************************************************)
DistinctLabels == \A m, n \in Names : LabelOf[m] = LabelOf[n] => m = n

LabelsAtStart ==
    \A v, w \in Ids :
      /\ InitVols[v].status \notin {"absent", "deleted"}
      /\ InitVols[w].status \notin {"absent", "deleted"}
      /\ InitVols[v].label = InitVols[w].label
      => v = w

LabelsGuarded == LabelsAtStart /\ ((Orderly /\ DistinctLabels) \/ "label" \in Guards)

NoneYet(p) == At(p, "create_new") => VolumesLabelled(LabelOf[h[p].req.name]) = {}

LabelInv ==
    /\ TypeOK
    /\ Orderly => OneCall
    /\ OneVolumePerLabel
    /\ Orderly /\ DistinctLabels => \A p \in Procs : NoneYet(p)

(* A create about to make its volume serves a checked request. *)
LEMMA MakerFacts ==
    ASSUME TypeOK, NEW p \in Procs, At(p, "create_new") \/ At(p, "create_list")
    PROVE  /\ Busy(p) /\ h[p].req.op = "create" /\ h[p].req.name \in Names
           /\ h[p].req \in Requests
<1>1. h[p].pc \in Steps /\ h[p].pc \in CreateSteps
  BY DEF At, Steps, CreateSteps
<1> QED
  BY <1>1, StepFacts, OpOfSteps DEF Valid, Busy

(* Only a create brings a volume into being, and no label ever changes. *)
LEMMA NewcomerIsMade ==
    ASSUME TypeOK, [Next]_vars, NEW v \in Ids, Exists(v)'
    PROVE  \/ Exists(v) /\ SameData(v)
           \/ \E p \in Procs : Making(p, v)
  BY VolumeSteps DEF Same, Removing, Resizing, ResizeAccepted

(* Every step keeps LabelInv. *)
LEMMA LabelNext ==
    ASSUME LabelsGuarded, LabelInv, [Next]_vars
    PROVE  LabelInv'
<1>0. TypeOK /\ TypeOK' /\ (Orderly => OneCall') /\ OneVolumePerLabel
  BY NextType, OneCallNext DEF LabelInv
<1>1. ASSUME NEW p \in Procs, NEW v \in Ids, Making(p, v)
      PROVE  VolumesLabelled(LabelOf[h[p].req.name]) = {}
  <2>1. CASE Orderly /\ DistinctLabels
    BY <1>1, <2>1 DEF Making, LabelInv, NoneYet
  <2>2. CASE "label" \in Guards
    BY <1>1, <2>2 DEF Making, CreateAccepted
  <2> QED
    BY <2>1, <2>2 DEF LabelsGuarded
<1>2. ASSUME NEW v \in Ids, NEW w \in Ids, Exists(v)', Exists(w)',
             vols'[v].label = vols'[w].label
      PROVE  v = w
  <2>1. ASSUME NEW x \in Ids, NEW y \in Ids, NEW p \in Procs, Making(p, x), y # x,
               Exists(y)'
        PROVE  vols'[x].label # vols'[y].label
    <3>1. vols'[y] = vols[y] /\ vols'[x].label = LabelOf[h[p].req.name]
      BY <2>1 DEF Making, Others
    <3>2. Exists(y)
      BY <2>1, <3>1 DEF Exists
    <3> QED
      BY <1>1, <2>1, <3>1, <3>2 DEF VolumesLabelled
  <2>2. CASE Exists(v) /\ SameData(v) /\ Exists(w) /\ SameData(w)
    BY <1>0, <1>2, <2>2 DEF OneVolumePerLabel, SameData
  <2> QED
    BY <1>0, <1>2, <2>1, <2>2, NewcomerIsMade
<1>3. ASSUME Orderly, DistinctLabels, NEW p \in Procs, At(p, "create_new")'
      PROVE  VolumesLabelled(LabelOf[h[p].req.name])' = {}
  <2>1. CASE h'[p] # h[p]
    <3>1. /\ h'[p].req = h[p].req /\ vols' = vols /\ existing(h[p].req) = {}
      BY <1>0, <1>3, <2>1, CreateArrives DEF At
    <3> QED
      BY <3>1 DEF existing, VolumesLabelled, Exists
  <2>2. CASE h'[p] = h[p]
    <3>1. PICK n \in Names : n = h[p].req.name /\ n = h'[p].req.name
      BY <1>0, <1>3, <2>2, MakerFacts DEF At
    <3>2. VolumesLabelled(LabelOf[n]) = {} /\ At(p, "create_new")
      BY <1>3, <2>2, <3>1 DEF LabelInv, NoneYet, At
    <3>3. ASSUME NEW v \in Ids, Exists(v)', vols'[v].label = LabelOf[n] PROVE FALSE
      <4>1. CASE Exists(v) /\ SameData(v)
        BY <3>2, <3>3, <4>1 DEF VolumesLabelled, SameData
      <4>2. ASSUME NEW q \in Procs, Making(q, v) PROVE FALSE
        <5>1. At(q, "create_new") /\ h'[q].pc # "create_new"
              /\ LabelOf[h[q].req.name] = LabelOf[n]
          BY <3>3, <4>2 DEF Making
        <5>2. p # q
          BY <1>3, <5>1 DEF At
        <5>3. h[q].req.name = n
          BY <1>0, <1>3, <5>1, MakerFacts DEF DistinctLabels
        <5> QED
          BY <1>0, <1>3, <3>1, <3>2, <5>1, <5>2, <5>3, MakerFacts DEF LabelInv, OneCall
      <4> QED
        BY <1>0, <3>3, <4>1, <4>2, NewcomerIsMade
    <3> QED
      BY <3>1, <3>3 DEF VolumesLabelled
  <2> QED
    BY <2>1, <2>2
<1>4. OneVolumePerLabel'
  BY <1>2 DEF OneVolumePerLabel
<1>5. Orderly /\ DistinctLabels => \A p \in Procs : NoneYet(p)'
  BY <1>3 DEF NoneYet
<1> QED
  BY <1>0, <1>4, <1>5 DEF LabelInv

(* LabelInv at the start. *)
LEMMA LabelInit == LabelsAtStart /\ Init => LabelInv
<1> SUFFICES ASSUME LabelsAtStart, Init PROVE LabelInv
  OBVIOUS
<1>1. OneVolumePerLabel
  BY DEF Init, LabelsAtStart, OneVolumePerLabel, Exists
<1>2. \A p \in Procs : NoneYet(p)
  BY DEF Init, NoneYet, At, Idle
<1> QED
  BY <1>1, <1>2, InitType, OneCallInit DEF LabelInv

(***************************************************************************)
(* CreateVolume is idempotent: whatever retries, lost answers, timeouts    *)
(* and crashes there are, no two volumes have one label.                   *)
(***************************************************************************)
THEOREM OneVolumeEach == LabelsGuarded => (Spec => []OneVolumePerLabel)
<1> SUFFICES ASSUME LabelsGuarded PROVE Spec => []OneVolumePerLabel
  OBVIOUS
<1>1. LabelInv /\ [Next]_vars => LabelInv'
  BY LabelNext
<1>2. LabelInv => OneVolumePerLabel
  BY DEF LabelInv
<1>3. Init => LabelInv
  BY LabelInit DEF LabelsGuarded
<1> QED
  BY <1>1, <1>2, <1>3, PTL DEF Spec

-----------------------------------------------------------------------------
(***************************************************************************)
(* Names.  A volume the CO was given for a name carries the label of that  *)
(* name (KnownLabelled).  So a delete or an expand in flight belongs to    *)
(* one name, and an orderly CO has no create in flight for it (AtWork):    *)
(* the volume a create has found or made is not taken from under it, and   *)
(* is there, with its label, when the create answers (Holding).            *)
(***************************************************************************)
NamesAtStart ==
    \A n \in Names : InitPv[n] # None =>
      InitVols[InitPv[n]].status # "absent" /\ InitVols[InitPv[n]].label = LabelOf[n]

OrderlyNames == Orderly /\ DistinctLabels /\ LabelsAtStart /\ NamesAtStart

Labelled(v, n) == Made(v) /\ vols[v].label = LabelOf[n]

KnownLabelled == \A n \in Names : pv[n] # None => Labelled(pv[n], n)

Creating(p, n) == Busy(p) /\ h[p].req.op = "create" /\ h[p].req.name = n

Touches(q, v) == Busy(q) /\ h[q].req.op \in {"delete", "expand"} /\ h[q].req.vol = v

AtWork(v) == \E n \in Names : pv[n] = v /\ \A p \in Procs : ~Creating(p, n)

Holding(p) == Holds(p) => Exists(h[p].id) /\ vols[h[p].id].label = LabelOf[h[p].req.name]

NameInv ==
    /\ LabelInv
    /\ KnownLabelled
    /\ \A q \in Procs, v \in Ids : Touches(q, v) => AtWork(v)
    /\ \A p \in Procs : Holding(p)

(* No delete or expand is at work on the volume a create holds. *)
LEMMA HeldAlone ==
    ASSUME OrderlyNames, NameInv, NEW p \in Procs, NEW q \in Procs, NEW v \in Ids,
           Holds(p), v = h[p].id
    PROVE  ~Touches(q, v)
<1> SUFFICES ASSUME Touches(q, v) PROVE FALSE
  OBVIOUS
<1>1. PICK n \in Names : pv[n] = v /\ \A x \in Procs : ~Creating(x, n)
  BY DEF NameInv, AtWork
<1>2. vols[v].label = LabelOf[n]
  BY <1>1, NoneAssumption DEF NameInv, KnownLabelled, Labelled
<1>3. Busy(p) /\ h[p].req.op = "create" /\ h[p].req.name \in Names
  BY HolderFacts DEF NameInv, LabelInv
<1>4. vols[v].label = LabelOf[h[p].req.name]
  BY DEF NameInv, Holding
<1> QED
  BY <1>1, <1>2, <1>3, <1>4 DEF OrderlyNames, DistinctLabels, Creating

(* What is held stays, with its label and size. *)
LEMMA HeldStays ==
    ASSUME OrderlyNames, NameInv, [Next]_vars, NEW p \in Procs, Holds(p),
           NEW v \in Ids, v = h[p].id
    PROVE  Exists(v)' /\ SameData(v) /\ vols'[v].size = vols[v].size
<1>0. TypeOK /\ Exists(v) /\ Made(v)
  BY MadeIfExists DEF NameInv, LabelInv, Holding
<1>1. ASSUME NEW q \in Procs PROVE ~Removing(q, v)
  <2> SUFFICES ASSUME Removing(q, v) PROVE FALSE
    OBVIOUS
  <2>1. h[q].pc = "delete_do" /\ h[q].req.vol = v
    BY DEF Removing, At
  <2>2. Touches(q, v)
    BY <1>0, <2>1, StepFacts, OpOfSteps DEF DeleteSteps, Touches, Busy
  <2> QED
    BY <2>2, HeldAlone
<1>2. ASSUME NEW q \in Procs PROVE ~Resizing(q, v)
  <2> SUFFICES ASSUME Resizing(q, v) PROVE FALSE
    OBVIOUS
  <2>1. At(q, "exp_resize") /\ h[q].req.vol = v
    BY DEF Resizing
  <2>2. Touches(q, v)
    BY <1>0, <2>1, GrowerFacts DEF Touches
  <2> QED
    BY <2>2, HeldAlone
<1> QED
  BY <1>0, <1>1, <1>2, VolumeSteps DEF Same, Making

(* A create that is listing or making has a label of its own name. *)
LEMMA HoldingNext ==
    ASSUME OrderlyNames, NameInv, [Next]_vars, NEW p \in Procs
    PROVE  Holding(p)'
<1>0. TypeOK /\ TypeOK'
  BY NextType DEF NameInv, LabelInv
<1> SUFFICES ASSUME Holds(p)'
             PROVE  Exists(h[p].id)' /\ vols'[h'[p].id].label = LabelOf[h'[p].req.name]
  BY DEF Holding
<1>1. h'[p].req = h[p].req
  BY <1>0, HolderSteps
<1>2. CASE Holds(p) /\ h'[p].id = h[p].id
  <2>1. PICK v \in Ids : v = h[p].id
    BY <1>0, <1>2, HolderFacts
  <2>2. vols[v].label = LabelOf[h[p].req.name]
    BY <1>2, <2>1 DEF NameInv, Holding
  <2>3. Exists(v)' /\ vols'[v].label = vols[v].label
    BY <1>2, <2>1, HeldStays DEF SameData
  <2> QED
    BY <1>1, <1>2, <2>1, <2>2, <2>3 DEF Exists
<1>3. ASSUME NEW v \in Ids, h'[p].id = v, existing(h[p].req) = {v}, vols' = vols
      PROVE  Exists(h[p].id)' /\ vols'[h'[p].id].label = LabelOf[h'[p].req.name]
  <2>1. Exists(v) /\ vols[v].label = LabelOf[h[p].req.name]
    BY <1>3 DEF existing, VolumesLabelled
  <2> QED
    BY <1>1, <1>3, <2>1 DEF Exists
<1>4. ASSUME NEW v \in Ids, h'[p].id = v, Making(p, v)
      PROVE  Exists(h[p].id)' /\ vols'[h'[p].id].label = LabelOf[h'[p].req.name]
  <2>1. Exists(v)' /\ vols'[v].label = LabelOf[h[p].req.name]
    BY <1>4 DEF Making
  <2> QED
    BY <1>1, <1>4, <2>1 DEF Exists
<1> QED
  BY <1>0, <1>2, <1>3, <1>4, HolderSteps

(* The CO is only given volumes with the label of the name. *)
LEMMA KnownNext ==
    ASSUME OrderlyNames, NameInv, [Next]_vars
    PROVE  KnownLabelled'
<1>0. TypeOK /\ TypeOK'
  BY NextType DEF NameInv, LabelInv
<1> SUFFICES ASSUME NEW n \in Names, pv'[n] # None PROVE Labelled(pv[n], n)'
  BY DEF KnownLabelled
<1>1. PICK v \in Ids : v = pv'[n] /\ Labelled(v, n)
  <2>1. CASE pv'[n] = pv[n]
    BY <1>0, <2>1 DEF NameInv, KnownLabelled, TypeOK
  <2>2. CASE pv'[n] # pv[n]
    <3>1. PICK p \in Procs : Answered(p, "create") /\ h[p].req.name = n /\ pv'[n] = h[p].id
      BY <1>0, <2>2, Learns
    <3>2. h[p].id \in Ids /\ Exists(h[p].id) /\ vols[h[p].id].label = LabelOf[n]
      BY <1>0, <3>1, HolderFacts DEF NameInv, Holding, Holds
    <3> QED
      BY <3>1, <3>2, MadeIfExists DEF Labelled
  <2> QED
    BY <2>1, <2>2
<1>2. Labelled(v, n)'
  BY <1>0, <1>1, StaysMade DEF Labelled, SameData
<1> QED
  BY <1>1, <1>2 DEF Labelled, Made

(* A delete or an expand and a create of the same volume never overlap. *)
LEMMA AtWorkNext ==
    ASSUME OrderlyNames, NameInv, [Next]_vars, NEW q \in Procs, NEW v \in Ids, Touches(q, v)'
    PROVE  AtWork(v)'
<1>0. TypeOK /\ TypeOK' /\ OneCall /\ Orderly /\ v # None
  BY NextType, NoneAssumption DEF NameInv, LabelInv, OrderlyNames
<1>1. CASE Busy(q) /\ h'[q].req = h[q].req
  <2>1. Touches(q, v)
    BY <1>1 DEF Touches
  <2>2. PICK n \in Names : pv[n] = v /\ \A p \in Procs : ~Creating(p, n)
    BY <2>1 DEF NameInv, AtWork
  <2>3. pv'[n] = v
    <3> SUFFICES ASSUME pv'[n] # pv[n] PROVE FALSE
      BY <2>2
    <3>1. PICK p \in Procs :
            /\ Return(p)
            /\ \/ Answered(p, "create") /\ h[p].req.name = n
               \/ Answered(p, "delete") /\ h[p].req.vol = v
      BY <1>0, <2>2, Learns
    <3>2. Busy(p)
      BY <3>1 DEF Answered, At, Busy
    <3>3. ~(Answered(p, "create") /\ h[p].req.name = n)
      BY <2>2, <3>2 DEF Creating, Answered
    <3>4. p = q
      BY <1>0, <2>1, <3>1, <3>2, <3>3 DEF OneCall, Answered, Touches
    <3>5. ~Busy(q)'
      BY <1>0, <3>1, <3>4, ReturnShape DEF Busy, Idle
    <3> QED
      BY <3>5 DEF Touches
  <2>4. ASSUME NEW p \in Procs PROVE ~Creating(p, n)'
    <3> SUFFICES ASSUME Creating(p, n)' PROVE FALSE
      OBVIOUS
    <3>1. Busy(p)' /\ h'[p].req.op = "create" /\ h'[p].req.name = n
      BY DEF Creating
    <3>2. PICK r \in Requests : Call(p, r)
      BY <1>0, <2>2, <3>1, KeepsRequest DEF Creating
    <3>3. h'[p].req = r /\ Allowed(r)
      BY <1>0, <3>2, CallShape DEF Call
    <3>4. SameTarget(r, h[q].req)
      BY <2>1, <2>2, <3>1, <3>3 DEF SameTarget, Touches
    <3> QED
      BY <1>1, <3>3, <3>4 DEF Allowed
  <2> QED
    BY <2>3, <2>4 DEF AtWork
<1>2. ASSUME NEW r \in Requests, Call(q, r) PROVE AtWork(v)'
  <2>1. /\ h'[q].req = r /\ pv' = pv /\ Allowed(r)
        /\ \A p \in Procs \ {q} : h'[p] = h[p]
    BY <1>0, <1>2, CallShape DEF Call
  <2>2. r.op \in {"delete", "expand"} /\ r.vol = v
    BY <2>1 DEF Touches
  <2>3. PICK n \in Names : pv[n] = v
    BY <1>0, <2>1, <2>2 DEF Allowed, Known
  <2>4. ASSUME NEW p \in Procs PROVE ~Creating(p, n)'
    <3> SUFFICES ASSUME Creating(p, n)' PROVE FALSE
      OBVIOUS
    <3>1. Busy(p)' /\ h'[p].req.op = "create" /\ h'[p].req.name = n
      BY DEF Creating
    <3>2. p # q
      BY <2>1, <2>2, <3>1
    <3>3. Busy(p) /\ h[p].req.op = "create" /\ h[p].req.name = n
      BY <2>1, <3>1, <3>2 DEF Busy
    <3>4. SameTarget(r, h[p].req)
      BY <2>2, <2>3, <3>3 DEF SameTarget
    <3> QED
      BY <2>1, <3>3, <3>4 DEF Allowed
  <2> QED
    BY <2>1, <2>3, <2>4 DEF AtWork
<1>3. Busy(q)'
  BY DEF Touches
<1> QED
  BY <1>0, <1>1, <1>2, <1>3, KeepsRequest

(* Every step keeps NameInv. *)
LEMMA NameNext ==
    ASSUME OrderlyNames, NameInv, [Next]_vars
    PROVE  NameInv'
<1>1. LabelInv'
  BY LabelNext DEF NameInv, OrderlyNames, LabelsGuarded
<1> QED
  BY <1>1, KnownNext, AtWorkNext, HoldingNext DEF NameInv

(* NameInv at the start. *)
LEMMA NameInit == OrderlyNames /\ Init => NameInv
<1> SUFFICES ASSUME OrderlyNames, Init PROVE NameInv
  OBVIOUS
<1>1. \A p \in Procs : h[p] = Idle
  BY DEF Init
<1>2. KnownLabelled
  BY DEF Init, KnownLabelled, Labelled, Made, OrderlyNames, NamesAtStart
<1>3. \A p \in Procs : ~Busy(p) /\ ~Holds(p)
  BY <1>1 DEF Busy, Holds, Answered, At, Idle
<1> QED
  BY <1>2, <1>3, LabelInit DEF NameInv, OrderlyNames, Touches, Holding

(* Two answers for a name: only the one volume with its label exists. *)
LEMMA SameVolumeStep ==
    ASSUME OrderlyNames, NameInv, [Next]_vars, NEW n \in Names,
           pv[n] # None, pv'[n] \notin {None, pv[n]}
    PROVE  ~Exists(pv[n])
<1>0. TypeOK
  BY DEF NameInv, LabelInv
<1>1. PICK p \in Procs : Answered(p, "create") /\ h[p].req.name = n /\ pv'[n] = h[p].id
  BY <1>0, Learns
<1>2. h[p].id \in Ids /\ Exists(h[p].id) /\ vols[h[p].id].label = LabelOf[n]
  BY <1>0, <1>1, HolderFacts DEF NameInv, Holding, Holds
<1>3. pv[n] \in Ids /\ vols[pv[n]].label = LabelOf[n]
  BY <1>0 DEF TypeOK, NameInv, KnownLabelled, Labelled
<1> QED
  BY <1>1, <1>2, <1>3 DEF NameInv, LabelInv, OneVolumePerLabel

(***************************************************************************)
(* Two OK answers to CreateVolume for one name give the same volume,       *)
(* unless the first one has been deleted in between.                       *)
(***************************************************************************)
THEOREM SameVolume == OrderlyNames => (Spec => SameVolumeForName)
<1> SUFFICES ASSUME OrderlyNames PROVE Spec => SameVolumeForName
  OBVIOUS
<1>1. NameInv /\ [Next]_vars => NameInv'
  BY NameNext
<1>2. NameInv /\ [Next]_vars =>
        [\A n \in Names :
           pv[n] # None /\ pv'[n] \notin {None, pv[n]} => ~Exists(pv[n])]_vars
  BY SameVolumeStep
<1>3. Init => NameInv
  BY NameInit
<1> QED
  BY <1>1, <1>2, <1>3, PTL DEF Spec, SameVolumeForName

(***************************************************************************)
(* Under an orderly CO no two names ever have one volume: a create takes   *)
(* a volume it finds by the label of its name, and no other name has that  *)
(* label.                                                                  *)
(***************************************************************************)
THEOREM OwnVolumes == OrderlyNames => (Spec => []OwnVolumePerName)
<1> SUFFICES ASSUME OrderlyNames PROVE Spec => []OwnVolumePerName
  OBVIOUS
<1>1. NameInv /\ [Next]_vars => NameInv'
  BY NameNext
<1>2. NameInv => OwnVolumePerName
  BY DEF NameInv, KnownLabelled, Labelled, OrderlyNames, DistinctLabels, OwnVolumePerName
<1>3. Init => NameInv
  BY NameInit
<1> QED
  BY <1>1, <1>2, <1>3, PTL DEF Spec

-----------------------------------------------------------------------------
(***************************************************************************)
(* What was asked for.  A volume found by its label is only checked for    *)
(* its size: that it also has the region and the encryption of the request *)
(* follows from the requests for a name being alike, as a claim's retries  *)
(* are, and from the volume having been made for one of them.  A clone     *)
(* takes the region of its source, which create_source has compared with   *)
(* the request's and which no step changes.                                *)
(***************************************************************************)
Fits(r) ==
    /\ r.op = "create" /\ Enter(r)[1] # "done"
    /\ r.enc => regionOf(r) \in EncRegions

RetriesAlike ==
    \A r, s \in Requests : Fits(r) /\ Fits(s) /\ r.name = s.name =>
      /\ r.src = s.src
      /\ r.src = None => regionOf(r) = regionOf(s) /\ r.enc = s.enc

FitsAtStart ==
    \A v \in Ids, r \in Requests :
      /\ InitVols[v].status \notin {"absent", "deleted"}
      /\ Fits(r) /\ InitVols[v].label = LabelOf[r.name]
      => IF r.src = None
           THEN InitVols[v].region = regionOf(r) /\ InitVols[v].enc = encryptionStatus(r)
           ELSE /\ InitVols[r.src].status # "absent"
                /\ InitVols[v].region = InitVols[r.src].region

OrderlyRequests == OrderlyNames /\ RetriesAlike /\ FitsAtStart

AsAsked(v, r) ==
    Exists(v) /\ Fits(r) /\ vols[v].label = LabelOf[r.name] =>
      IF r.src = None
        THEN vols[v].region = regionOf(r) /\ vols[v].enc = encryptionStatus(r)
        ELSE Made(r.src) /\ vols[v].region = vols[r.src].region

(* The source of a clone is in the region asked for. *)
SourceOK(r) == r.src # None => Made(r.src) /\ vols[r.src].region = regionOf(r)

Vetted(p) ==
    LET r == h[p].req
        ok == Answered(p, "create")
    IN
    /\ h[p].pc \in CreateSteps \/ ok => Enter(r)[1] # "done"
    /\ h[p].pc \in CreateSteps \ {"create_region"} \/ ok =>
         (r.enc => regionOf(r) \in EncRegions)
    /\ h[p].pc \in {"create_list", "create_new", "create_wait"} \/ ok => SourceOK(r)

Sized(p) ==
    Holds(p) /\ h[p].req.src = None => vols[h[p].id].size = TargetSizeGB(h[p].req.range)

MakeInv ==
    /\ NameInv
    /\ \A v \in Ids, r \in Requests : AsAsked(v, r)
    /\ \A p \in Procs : Vetted(p) /\ Sized(p)

(* A source that was compared stays as it was compared. *)
LEMMA SourceStays ==
    ASSUME TypeOK, [Next]_vars, NEW r \in Requests, SourceOK(r)
    PROVE  SourceOK(r)'
<1>1. CASE r.src = None
  BY <1>1 DEF SourceOK
<1>2. CASE r.src # None
  <2>1. PICK s \in Ids : s = r.src
    BY <1>2, ControllerAssumption DEF Request
  <2>2. Made(s)' /\ SameData(s)
    BY <1>2, <2>1, StaysMade DEF SourceOK
  <2> QED
    BY <1>2, <2>1, <2>2 DEF SourceOK, SameData, regionOf
<1> QED
  BY <1>1, <1>2

(* Where a create begins, and what has been checked then. *)
LEMMA VettedCall ==
    ASSUME TypeOK, NEW p \in Procs, NEW r \in Requests, Call(p, r)
    PROVE  Vetted(p)'
<1>1. h'[p].req = r /\ h'[p].pc = Enter(r)[1] /\ h'[p].code = Enter(r)[2]
  BY CallShape
<1>2. ~Answered(p, "create")'
  BY CallStart DEF Answered, At
<1>3. h'[p].pc \in CreateSteps => r.op = "create" /\ Enter(r)[1] # "done"
  BY <1>1, EnterFacts, OpOfSteps
<1>4. ASSUME h'[p].pc \in CreateSteps
      PROVE  /\ r.enc => Enter(r)[1] = "create_region"
             /\ ~r.enc => Enter(r)[1] = AfterParams(r)
             /\ r.enc \in BOOLEAN
  <2>1. Enter(r) = EnterCreate(r) /\ Enter(r)[1] # "done" /\ r.enc \in BOOLEAN
    BY <1>3, <1>4, ControllerAssumption DEF Enter, Request
  <2> QED
    BY <2>1 DEF EnterCreate
<1>5. ASSUME h'[p].pc \in CreateSteps \ {"create_region"}
      PROVE  r.enc => regionOf(r) \in EncRegions
  BY <1>1, <1>4, <1>5
<1>6. ASSUME h'[p].pc \in {"create_list", "create_new", "create_wait"}
      PROVE  r.src = None
  BY <1>1, <1>4, <1>6 DEF CreateSteps, AfterParams
<1> QED
  BY <1>1, <1>2, <1>3, <1>5, <1>6 DEF Vetted, SourceOK

(* What each step of a create checks before it goes on. *)
LEMMA VettedStep ==
    ASSUME TypeOK, [Next]_vars, NEW p \in Procs, Vetted(p), CreateStep(p), Alone(p)
    PROVE  Vetted(p)'
<1> USE DEF At
<1>0. PICK r \in Requests : r = h[p].req /\ r = h'[p].req
  BY StepForms, StepFacts DEF HandlerStep, Valid, Alone
<1>1. CASE CreateRegion(p)
  <2>1. \/ regionOf(r) \in EncRegions /\ h'[p].pc = AfterParams(r)
        \/ h'[p].pc = "done" /\ h'[p].code # "OK"
    BY <1>0, <1>1, SlotAfter DEF CreateRegion
  <2>2. AfterParams(r) \in {"create_list", "create_source"}
        /\ (AfterParams(r) = "create_list" => r.src = None)
    BY DEF AfterParams
  <2>3. Enter(r)[1] # "done"
    BY <1>0, <1>1 DEF CreateRegion, Vetted, CreateSteps
  <2> QED
    BY <1>0, <2>1, <2>2, <2>3, OpOfSteps DEF Vetted, SourceOK, Answered, CreateSteps
<1>2. CASE CreateSource(p)
  <2>1. \/ Exists(r.src) /\ vols[r.src].region = regionOf(r) /\ h'[p].pc = "create_list"
        \/ h'[p].pc = "done" /\ h'[p].code # "OK"
    BY <1>0, <1>2, SlotAfter DEF CreateSource
  <2>2. Enter(r)[1] # "done" /\ (r.enc => regionOf(r) \in EncRegions)
    BY <1>0, <1>2 DEF CreateSource, Vetted, CreateSteps
  <2>3. CASE Exists(r.src) /\ vols[r.src].region = regionOf(r) /\ h'[p].pc = "create_list"
    <3>1. SourceOK(r)
      BY <2>3 DEF SourceOK, Made, Exists
    <3> QED
      BY <1>0, <2>2, <2>3, <3>1, SourceStays DEF Vetted
  <2>4. CASE h'[p].pc = "done" /\ h'[p].code # "OK"
    BY <2>4 DEF Vetted, Answered, CreateSteps
  <2> QED
    BY <2>1, <2>3, <2>4
<1>3. CASE h[p].pc \in {"create_list", "create_new", "create_wait"}
  <2>1. SourceOK(r) /\ Enter(r)[1] # "done" /\ (r.enc => regionOf(r) \in EncRegions)
    BY <1>0, <1>3 DEF Vetted, CreateSteps
  <2>2. SourceOK(r)'
    BY <2>1, SourceStays
  <2> QED
    BY <1>0, <2>1, <2>2 DEF Vetted
<1> QED
  BY <1>1, <1>2, <1>3 DEF CreateStep, CreateList, CreateNew, CreateRefused, CreateActive,
     CreateTimeout

(* What a create has checked stays checked. *)
LEMMA VettedNext ==
    ASSUME MakeInv, [Next]_vars, NEW p \in Procs
    PROVE  Vetted(p)'
<1>0. TypeOK /\ TypeOK' /\ Vetted(p)
  BY NextType DEF MakeInv, NameInv, LabelInv
<1>1. CASE ~(h'[p].pc \in CreateSteps \/ Answered(p, "create")')
  BY <1>1 DEF Vetted, CreateSteps
<1>2. CASE h'[p] = h[p] /\ (h'[p].pc \in CreateSteps \/ Answered(p, "create")')
  <2>1. h[p].pc \in CreateSteps \/ Answered(p, "create")
    BY <1>2 DEF Answered, At
  <2>2. PICK r \in Requests : r = h[p].req /\ r = h'[p].req
    <3>1. Valid(h[p].req)
      BY <1>0, <2>1, StepFacts, OpOfSteps DEF Answered, At, TypeOK, HandlerOK
    <3> QED
      BY <1>2, <3>1 DEF Valid
  <2>3. SourceOK(r) => SourceOK(r)'
    BY <1>0, SourceStays
  <2> QED
    BY <1>0, <1>2, <2>2, <2>3 DEF Vetted, Answered, At
<1>3. CASE h'[p] # h[p] /\ (h'[p].pc \in CreateSteps \/ Answered(p, "create")')
  <2>1. Busy(p)' /\ h'[p].req.op = "create"
    BY <1>0, <1>3, OpOfSteps DEF Busy, Answered, At, TypeOK, HandlerOK
  <2>2. CASE \E r \in Requests : Call(p, r)
    BY <1>0, <2>2, VettedCall
  <2>3. CASE ApiError(p)
    BY <1>0, <1>3, <2>3, ErrorShape DEF Answered, CreateSteps
  <2>4. CASE HandlerStep(p) /\ Alone(p)
    <3>1. CreateStep(p)
      BY <1>0, <2>1, <2>4, OwnSteps DEF Alone
    <3> QED
      BY <1>0, <2>4, <3>1, VettedStep
  <2> QED
    BY <1>0, <1>3, <2>1, <2>2, <2>3, <2>4, Mover
<1> QED
  BY <1>1, <1>2, <1>3

(* A volume fits every request it could be found for. *)
LEMMA AsAskedNext ==
    ASSUME OrderlyRequests, MakeInv, [Next]_vars, NEW v \in Ids, NEW r \in Requests
    PROVE  AsAsked(v, r)'
<1>0. TypeOK /\ AsAsked(v, r)
  BY DEF MakeInv, NameInv, LabelInv
<1> SUFFICES ASSUME Exists(v)', Fits(r), vols'[v].label = LabelOf[r.name]
             PROVE  IF r.src = None
                      THEN vols'[v].region = regionOf(r) /\ vols'[v].enc = encryptionStatus(r)
                      ELSE Made(r.src)' /\ vols'[v].region = vols'[r.src].region
  BY DEF AsAsked, Fits, regionOf, encryptionStatus
<1>1. r.src # None => r.src \in Ids
  BY ControllerAssumption DEF Request
<1>2. CASE Exists(v) /\ SameData(v)
  <2>1. CASE r.src = None
    BY <1>0, <1>2, <2>1 DEF AsAsked, SameData
  <2>2. CASE r.src # None
    <3>1. Made(r.src) /\ vols[v].region = vols[r.src].region
      BY <1>0, <1>2, <2>2 DEF AsAsked, SameData
    <3>2. Made(r.src)' /\ vols'[r.src].region = vols[r.src].region
      BY <1>0, <1>1, <2>2, <3>1, StaysMade DEF SameData
    <3> QED
      BY <1>2, <2>2, <3>1, <3>2 DEF SameData
  <2> QED
    BY <2>1, <2>2
<1>3. ASSUME NEW p \in Procs, Making(p, v)
      PROVE  IF r.src = None
               THEN vols'[v].region = regionOf(r) /\ vols'[v].enc = encryptionStatus(r)
               ELSE Made(r.src)' /\ vols'[v].region = vols'[r.src].region
  <2>1. At(p, "create_new") /\ vols'[v].label = LabelOf[h[p].req.name]
    BY <1>3 DEF Making
  <2>2. PICK s \in Requests : s = h[p].req /\ s.op = "create" /\ s.name \in Names
    BY <1>0, <2>1, MakerFacts
  <2>3. Fits(s)
    BY <2>1, <2>2 DEF MakeInv, Vetted, At, CreateSteps, Fits
  <2>4. r.name \in Names
    <3>1. Valid(r)
      BY EnterFacts DEF Fits
    <3> QED
      BY <3>1 DEF Valid, Fits
  <2>5. r.name = s.name
    BY <2>1, <2>2, <2>4 DEF OrderlyRequests, OrderlyNames, DistinctLabels
  <2>6. r.src = s.src /\ (r.src = None => regionOf(r) = regionOf(s) /\ r.enc = s.enc)
    BY <2>3, <2>5 DEF OrderlyRequests, RetriesAlike
  <2>7. CASE r.src = None
    BY <1>3, <2>2, <2>6, <2>7 DEF Making, encryptionStatus
  <2>8. CASE r.src # None
    <3>1. Exists(r.src) /\ vols'[v].region = vols[r.src].region
      BY <1>3, <2>2, <2>6, <2>8 DEF Making
    <3>2. Made(r.src)' /\ vols'[r.src].region = vols[r.src].region
      BY <1>0, <1>1, <2>8, <3>1, MadeIfExists, StaysMade DEF SameData
    <3> QED
      BY <2>8, <3>1, <3>2
  <2> QED
    BY <2>7, <2>8
<1> QED
  BY <1>0, <1>2, <1>3, NewcomerIsMade

(* The volume a create holds has the size asked for. *)
LEMMA SizedNext ==
    ASSUME OrderlyRequests, MakeInv, [Next]_vars, NEW p \in Procs
    PROVE  Sized(p)'
<1>0. TypeOK /\ TypeOK' /\ OrderlyNames /\ NameInv
  BY NextType DEF MakeInv, NameInv, LabelInv, OrderlyRequests
<1> SUFFICES ASSUME Holds(p)', h'[p].req.src = None
             PROVE  vols'[h'[p].id].size = TargetSizeGB(h'[p].req.range)
  BY DEF Sized
<1>1. h'[p].req = h[p].req
  BY <1>0, HolderSteps
<1>2. CASE Holds(p) /\ h'[p].id = h[p].id
  <2>1. PICK v \in Ids : v = h[p].id
    BY <1>0, <1>2, HolderFacts
  <2>2. vols[v].size = TargetSizeGB(h[p].req.range)
    BY <1>1, <1>2, <2>1 DEF MakeInv, Sized
  <2>3. vols'[v].size = vols[v].size
    BY <1>0, <1>2, <2>1, HeldStays
  <2> QED
    BY <1>1, <1>2, <2>1, <2>2, <2>3
<1>3. ASSUME NEW v \in Ids, h'[p].id = v, vols' = vols, SizeMatches(h[p].req, vols[v].size)
      PROVE  vols'[h'[p].id].size = TargetSizeGB(h'[p].req.range)
  BY <1>1, <1>3 DEF SizeMatches
<1>4. ASSUME NEW v \in Ids, h'[p].id = v, Making(p, v)
      PROVE  vols'[h'[p].id].size = TargetSizeGB(h'[p].req.range)
  BY <1>1, <1>4 DEF Making
<1> QED
  BY <1>0, <1>2, <1>3, <1>4, HolderSteps

(* Every step keeps MakeInv. *)
LEMMA MakeNext ==
    ASSUME OrderlyRequests, MakeInv, [Next]_vars
    PROVE  MakeInv'
<1>1. NameInv'
  BY NameNext DEF MakeInv, OrderlyRequests
<1>2. \A v \in Ids, r \in Requests : AsAsked(v, r)'
  BY AsAskedNext
<1>3. \A p \in Procs : Vetted(p)' /\ Sized(p)'
  BY VettedNext, SizedNext
<1> QED
  BY <1>1, <1>2, <1>3 DEF MakeInv

(* MakeInv at the start. *)
LEMMA MakeInit == OrderlyRequests /\ Init => MakeInv
<1> SUFFICES ASSUME OrderlyRequests, Init PROVE MakeInv
  OBVIOUS
<1>1. NameInv
  BY NameInit DEF OrderlyRequests
<1>2. ASSUME NEW v \in Ids, NEW r \in Requests PROVE AsAsked(v, r)
  BY DEF Init, AsAsked, Exists, Made, OrderlyRequests, FitsAtStart
<1>3. \A p \in Procs : h[p] = Idle
  BY DEF Init
<1>4. \A p \in Procs : Vetted(p) /\ Sized(p)
  BY <1>3 DEF Vetted, Sized, Holds, Answered, At, Idle, CreateSteps
<1> QED
  BY <1>1, <1>2, <1>4 DEF MakeInv

(***************************************************************************)
(* What CreateVolume answers OK for, found or made, is a volume that       *)
(* exists and has the label, size, region and encryption of the request,   *)
(* for every interleaving, failure and retry; a clone is in the region     *)
(* asked for.                                                              *)
(***************************************************************************)
THEOREM CreateSafe == OrderlyRequests => (Spec => []CreatedAsRequested)
<1> SUFFICES ASSUME OrderlyRequests PROVE Spec => []CreatedAsRequested
  OBVIOUS
<1>1. MakeInv /\ [Next]_vars => MakeInv'
  BY MakeNext
<1>2. ASSUME MakeInv, NEW p \in Procs, Answered(p, "create")
      PROVE  /\ Exists(h[p].id)
             /\ vols[h[p].id].label = LabelOf[h[p].req.name]
             /\ vols[h[p].id].region = regionOf(h[p].req)
             /\ h[p].req.src = None =>
                  /\ vols[h[p].id].size = TargetSizeGB(h[p].req.range)
                  /\ vols[h[p].id].enc = encryptionStatus(h[p].req)
  <2>1. Holds(p) /\ TypeOK
    BY <1>2 DEF Holds, MakeInv, NameInv, LabelInv
  <2>2. PICK v \in Ids, r \in Requests : v = h[p].id /\ r = h[p].req /\ r.op = "create"
    BY <2>1, HolderFacts
  <2>3. Exists(v) /\ vols[v].label = LabelOf[r.name]
    BY <1>2, <2>1, <2>2 DEF MakeInv, NameInv, Holding
  <2>4. Fits(r) /\ SourceOK(r)
    BY <1>2, <2>2 DEF MakeInv, Vetted, Fits
  <2>5. AsAsked(v, r)
    BY <1>2 DEF MakeInv
  <2>6. r.src = None => vols[v].size = TargetSizeGB(r.range)
    BY <1>2, <2>1, <2>2 DEF MakeInv, Sized
  <2> QED
    BY <2>2, <2>3, <2>4, <2>5, <2>6 DEF AsAsked, SourceOK
<1>3. MakeInv => CreatedAsRequested
  BY <1>2 DEF CreatedAsRequested
<1>4. Init => MakeInv
  BY MakeInit
<1> QED
  BY <1>1, <1>3, <1>4, PTL DEF Spec

=============================================================================
