------------------------------- MODULE MCNode -------------------------------
(***************************************************************************)
(* Small instances of NodeServer: one volume of every kind the service     *)
(* tells apart, and what kubelet can ask of it.                            *)
(***************************************************************************)
EXTENDS NodeServer

CONSTANTS v1, a, name, prefixed

MCVols == {v1}
MCPod == {a}
MCMappers == {name, prefixed}

Kind(block, luks, label) ==
    [v \in Vols |-> [block |-> block, luks |-> luks, mapper |-> name, label |-> label]]

(* The label is the name, as it is without a label prefix. *)
MCProfiles ==
    {Kind(FALSE, "off", name), Kind(TRUE, "off", name), Kind(FALSE, "good", name),
     Kind(FALSE, "missing", name), Kind(FALSE, "badsize", name), Kind(FALSE, "nodash", name),
     Kind(FALSE, "off", None)}

MCLuks == {Kind(FALSE, "good", name)}

(* LINODE_VOLUME_LABEL_PREFIX is set: the label is not the name. *)
MCPrefixed == {Kind(FALSE, "good", prefixed)}

Stage(v) == [op |-> "stage", vol |-> v, pod |-> None, complete |-> TRUE]
Unstage(v) == [op |-> "unstage", vol |-> v, pod |-> None, complete |-> TRUE]
Publish(v, t) == [op |-> "publish", vol |-> v, pod |-> t, complete |-> TRUE]
Unpublish(v, t) == [op |-> "unpublish", vol |-> v, pod |-> t, complete |-> TRUE]

MCRequests ==
    {Stage(v) : v \in Vols} \cup {Unstage(v) : v \in Vols}
      \cup {Publish(v, t) : v \in Vols, t \in Pods}
      \cup {Unpublish(v, t) : v \in Vols, t \in Pods}

(* And one with a field missing. *)
MCAllRequests == MCRequests \cup {[Stage(v1) EXCEPT !.complete = FALSE]}

=============================================================================
