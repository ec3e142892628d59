---------------------------- MODULE MCLifecycle -----------------------------
(* One volume, of every kind that can be set up, and two pods that share it. *)
EXTENDS Lifecycle

CONSTANTS v1, a, b, name

MCVols == {v1}
MCPods == {a, b}
MCMappers == {name}

Kind(block, luks) ==
    [v \in Vols |-> [block |-> block, luks |-> luks, mapper |-> name, label |-> name]]

MCProfiles == {Kind(FALSE, "off"), Kind(TRUE, "off"), Kind(FALSE, "good")}

MCRequests ==
    {[op |-> op, vol |-> v, pod |-> None, complete |-> TRUE] :
       op \in {"stage", "unstage"}, v \in Vols}
    \cup {[op |-> op, vol |-> v, pod |-> t, complete |-> TRUE] :
            op \in {"publish", "unpublish"}, v \in Vols, t \in Pods}

=============================================================================
