----------------------- MODULE VolumeAttachmentProofs ------------------------
(***************************************************************************)
(* What the CO may conclude from the answers of the controller, proved of  *)
(* the abstract specification alone; AttachmentProofs carries it over to   *)
(* the handlers.                                                           *)
(***************************************************************************)
EXTENDS VolumeAttachment, TLAPS

TypeOK ==
    /\ where \in [Ids -> Nodes \cup {None}]
    /\ va \in [Ids -> [Nodes -> Views]]

(* The inductive invariant: types, and every part of ViewIsTrue. *)
Inv == TypeOK /\ ViewIsTrue

(* The invariant at the start. *)
LEMMA InitInv ==
  ASSUME None \notin Nodes, Init
  PROVE  Inv
BY DEF Init, Inv, TypeOK, ViewIsTrue, Views

(* Every request, answer and movement keeps the CO's view true. *)
LEMMA NextInv ==
  ASSUME None \notin Nodes, Inv, [Next]_vars
  PROVE  Inv'
<1>1. CASE UNCHANGED vars
  BY <1>1 DEF Inv, TypeOK, ViewIsTrue, vars
<1>2. ASSUME NEW v \in Ids, NEW n \in Nodes,
             \/ Publish(v, n) \/ Attach(v, n) \/ Published(v, n)
             \/ Unpublish(v, n) \/ Detach(v, n) \/ Unpublished(v, n)
      PROVE  Inv'
  <2>1. CASE Publish(v, n)
    BY <2>1 DEF Inv, TypeOK, ViewIsTrue, Views, Publish, SetView
  <2>2. CASE Attach(v, n)
    BY <2>2 DEF Inv, TypeOK, ViewIsTrue, Views, Attach
  <2>3. CASE Published(v, n)
    BY <2>3 DEF Inv, TypeOK, ViewIsTrue, Views, Published, SetView
  <2>4. CASE Unpublish(v, n)
    BY <2>4 DEF Inv, TypeOK, ViewIsTrue, Views, Unpublish, SetView
  <2>5. CASE Detach(v, n)
    BY <2>5 DEF Inv, TypeOK, ViewIsTrue, Views, Detach
  <2>6. CASE Unpublished(v, n)
    BY <2>6 DEF Inv, TypeOK, ViewIsTrue, Views, Unpublished, SetView
  <2>7. QED
    BY <1>2, <2>1, <2>2, <2>3, <2>4, <2>5, <2>6
<1>3. QED
  BY <1>1, <1>2 DEF Next

(***************************************************************************)
(* A published volume is on its node, a node without a stake does not have *)
(* it, and no two nodes have a stake in one volume.                        *)
(***************************************************************************)
THEOREM ViewHolds == (None \notin Nodes) => (Spec => []ViewIsTrue)
<1> SUFFICES ASSUME None \notin Nodes
             PROVE  Spec => []ViewIsTrue
  OBVIOUS
<1>1. Init => Inv
  BY InitInv
<1>2. Inv /\ [Next]_vars => Inv'
  BY NextInv
<1>3. Inv => ViewIsTrue
  BY DEF Inv
<1>4. QED
  BY <1>1, <1>2, <1>3, PTL DEF Spec

=============================================================================
