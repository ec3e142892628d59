-------------------------- MODULE VolumeAttachment --------------------------
(***************************************************************************)
(* What the controller service promises the CO about attachments, without  *)
(* handlers, API calls, jobs or failures: the abstract specification that  *)
(* ControllerServer implements for an orderly CO.                          *)
(*                                                                         *)
(* `where' is the node that has a volume and `va' is what the CO was told. *)
(* A volume moves on its own between a request and its answer, any number  *)
(* of times, but only to the node it was asked for; and from an OK of      *)
(* ControllerPublishVolume until the CO asks for its removal it does not   *)
(* move at all.                                                            *)
(***************************************************************************)
CONSTANTS Ids, Nodes, None

VARIABLES
    where,      \* where[v]: the node that has v, or None
    va          \* va[v][n]: the CO's view of the attachment of v to n

vars == <<where, va>>

Views == {"none", "pub", "ok", "unpub"}

Init ==
    /\ where = [v \in Ids |-> None]
    /\ va = [v \in Ids |-> [n \in Nodes |-> "none"]]

SetView(v, n, view) == va' = [va EXCEPT ![v][n] = view] /\ UNCHANGED where

(* The CO asks for v on n; no other node may have it. *)
Publish(v, n) ==
    /\ \A m \in Nodes : va[v][m] = "none"
    /\ SetView(v, n, "pub")

(* The volume arrives, while it is asked for or after the CO gave it up. *)
Attach(v, n) ==
    /\ where[v] = None
    /\ va[v][n] \in {"pub", "unpub"}
    /\ where' = [where EXCEPT ![v] = n]
    /\ UNCHANGED va

(* ControllerPublishVolume answers OK. *)
Published(v, n) ==
    /\ va[v][n] = "pub"
    /\ where[v] = n
    /\ SetView(v, n, "ok")

(* The CO asks for v to be taken off n. *)
Unpublish(v, n) ==
    /\ va[v][n] # "none"
    /\ SetView(v, n, "unpub")

(* The volume goes: it was unpublished, or deleted before it was published. *)
Detach(v, n) ==
    /\ where[v] = n
    /\ va[v][n] \in {"pub", "unpub"}
    /\ where' = [where EXCEPT ![v] = None]
    /\ UNCHANGED va

(* ControllerUnpublishVolume answers OK. *)
Unpublished(v, n) ==
    /\ va[v][n] = "unpub"
    /\ where[v] = None
    /\ SetView(v, n, "none")

Next ==
    \E v \in Ids, n \in Nodes :
      \/ Publish(v, n) \/ Attach(v, n) \/ Published(v, n)
      \/ Unpublish(v, n) \/ Detach(v, n) \/ Unpublished(v, n)

Spec == Init /\ [][Next]_vars

-----------------------------------------------------------------------------
(***************************************************************************)
(* What the CO may conclude from its view: a published volume is on its    *)
(* node, a node with no stake in a volume does not have it, and no two     *)
(* nodes have a stake in one volume.                                       *)
(***************************************************************************)
ViewIsTrue ==
    \A v \in Ids, n \in Nodes :
      /\ va[v][n] = "ok" => where[v] = n
      /\ where[v] = n => va[v][n] # "none"
      /\ \A m \in Nodes : va[v][m] # "none" /\ va[v][n] # "none" => m = n

=============================================================================
