---------------------------- MODULE LimitsProofs ----------------------------
(***************************************************************************)
(* The node's report and the controller's limit agree, for every memory    *)
(* size, number of disks and value of MiB.                                 *)
(***************************************************************************)
EXTENDS Limits, TLAPS

(* The clamped quotient is the only place the size of a MiB enters. *)
LEMMA MaxVolumeAttachmentsBounds ==
    ASSUME NEW b \in Nat
    PROVE  maxVolumeAttachments(b) \in maxPersistentAttachments .. maxAttachments
<1>1. BytesInGiB \in Nat \ {0}
  BY LimitsAssumption DEF BytesInGiB
<1> DEFINE q == b \div BytesInGiB
<1>2. q \in Nat
  BY <1>1
<1> HIDE DEF q
<1>3. maxVolumeAttachments(b) =
        IF q > maxAttachments THEN maxAttachments
        ELSE IF q < maxPersistentAttachments THEN maxPersistentAttachments ELSE q
  BY DEF maxVolumeAttachments, q
<1> QED
  BY <1>2, <1>3 DEF maxAttachments, maxPersistentAttachments

(* Memory below 1 GB is raised to 1 GiB by the node and taken as it is by  *)
(* the controller; both are then raised to the same lower bound.           *)
LEMMA LimitsAgree ==
    ASSUME NEW m \in Nat, NEW d \in Nat
    PROVE  nodeLimit(m, d) = maxAllowedVolumeAttachments(m, d)
<1>1. CASE m >= 1024
  BY <1>1 DEF nodeLimit, maxAllowedVolumeAttachments, memoryToBytes
<1>2. CASE m < 1024
  <2>1. MiB \in Nat /\ MiB > 0
    BY LimitsAssumption
  <2>2. BytesInGiB \in Nat /\ BytesInGiB > 0
    BY <2>1 DEF BytesInGiB
  <2>3. m * MiB \in Nat /\ m * MiB < BytesInGiB
    <3>1. m * MiB <= 1023 * MiB
      BY <1>2, <2>1
    <3> QED
      BY <3>1, <2>1 DEF BytesInGiB
  <2>4. (m * MiB) \div BytesInGiB = 0
    BY <2>2, <2>3
  <2>5. BytesInGiB \div BytesInGiB = 1
    BY <2>2
  <2> QED
    BY <1>2, <2>4, <2>5 DEF nodeLimit, maxAllowedVolumeAttachments, memoryToBytes,
       minMemory, maxVolumeAttachments, maxAttachments, maxPersistentAttachments
<1> QED
  BY <1>1, <1>2

(***************************************************************************)
(* The inductive invariant: until the disks change, the last report is     *)
(* either missing or the controller's own limit, and the scheduler has     *)
(* kept to it if it is one.                                                *)
(***************************************************************************)
Inv ==
    /\ TypeOK
    /\ ~registered => reported = 0 /\ placed = 0
    /\ ~changed /\ registered => reported = maxAllowedVolumeAttachments(mem, disks)
    /\ ~changed /\ reported > 0 => placed <= reported

(* The limit worked out is a number. *)
LEMMA LimitIsInt ==
    ASSUME NEW m \in Nat, NEW d \in Nat
    PROVE  maxAllowedVolumeAttachments(m, d) \in Int
<1>1. m * MiB \in Nat
  BY LimitsAssumption
<1> QED
  BY <1>1, MaxVolumeAttachmentsBounds
     DEF maxAllowedVolumeAttachments, maxPersistentAttachments, maxAttachments

(* The invariant at the start. *)
LEMMA InitInv == Init => Inv
<1> SUFFICES ASSUME Init PROVE Inv
  OBVIOUS
<1>1. placed \in Nat /\ attached \in 0 .. placed /\ ~(reported > 0) /\ reported \in Int
  BY SMT DEF Init
<1>2. changed \in BOOLEAN /\ registered \in BOOLEAN
  BY Zenon DEF Init
<1> QED
  BY <1>1, <1>2, Zenon DEF Init, Inv, TypeOK

(* Every step keeps the invariant. *)
LEMMA NextInv == Inv /\ [Next]_vars => Inv'
<1> SUFFICES ASSUME Inv, [Next]_vars PROVE Inv'
  OBVIOUS
<1> USE DEF Inv, TypeOK
<1>1. mem \in Nat /\ disks \in Nat
  BY LimitsAssumption
<1>2. maxAllowedVolumeAttachments(mem, disks) \in Int
  BY <1>1, LimitIsInt
<1>3. CASE NodeGetInfo
  <2>1. reported' = maxAllowedVolumeAttachments(mem, disks)
    BY <1>1, <1>3, LimitsAgree DEF NodeGetInfo
  <2>2. registered' /\ changed' = changed /\ placed' = placed
    BY <1>3 DEF NodeGetInfo
  <2>3. ~changed /\ reported' > 0 => placed <= reported'
    BY <1>2, <2>1
  <2> QED
    BY <1>2, <1>3, <2>1, <2>2, <2>3 DEF NodeGetInfo, maxAllowedVolumeAttachments
<1>4. CASE ChangeDisks
  BY <1>4 DEF ChangeDisks
<1>5. CASE Place
  BY <1>2, <1>5 DEF Place, maxAllowedVolumeAttachments
<1>6. CASE Publish
  BY <1>2, <1>6 DEF Publish, maxAllowedVolumeAttachments
<1>7. CASE Unpublish
  BY <1>2, <1>7 DEF Unpublish, maxAllowedVolumeAttachments
<1>8. CASE UNCHANGED vars
  BY <1>8 DEF vars, maxAllowedVolumeAttachments
<1>9. CASE ChangeOutside
  BY <1>2, <1>9 DEF ChangeOutside, maxAllowedVolumeAttachments
<1> QED
  BY <1>3, <1>4, <1>5, <1>6, <1>7, <1>8, <1>9 DEF Next

(***************************************************************************)
(* For every instance: a volume placed within what NodeGetInfo reported is *)
(* admitted by the controller's canAttach, as long as the instance's disks *)
(* stay what they were and the volumes attached outside the CO leave room. *)
(***************************************************************************)
THEOREM PlacedVolumesAttach == Spec => []PlacedCanAttach
<1>1. Inv => PlacedCanAttach
  <2> SUFFICES ASSUME Inv, ~changed, reported > 0, attached + outside < placed
               PROVE  canAttach
    BY DEF PlacedCanAttach
  <2>1. mem \in Nat /\ disks \in Nat /\ placed \in Nat /\ attached \in Nat /\ outside \in Nat
    BY LimitsAssumption DEF Inv, TypeOK
  <2>2. maxAllowedVolumeAttachments(mem, disks) \in Int
    BY <2>1, LimitIsInt
  <2> QED
    BY <2>1, <2>2 DEF Inv, canAttach
<1> QED
  BY <1>1, InitInv, NextInv, PTL DEF Spec

=============================================================================
