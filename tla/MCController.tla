---------------------------- MODULE MCController ----------------------------
(***************************************************************************)
(* Small instances of VolumeIds, and with it of ControllerServer.  One GiB *)
(* is two bytes and the smallest volume is 1 GiB, so that aligned,         *)
(* unaligned, too small and inconsistent capacity ranges all exist among   *)
(* single-digit numbers.                                                   *)
(***************************************************************************)
EXTENDS VolumeIds

CONSTANTS v1, v2, v3, n1, n2, ghost, east, west, na, nb

MCIds1 == {v1}
MCIds2 == {v1, v2}
MCIds3 == {v1, v2, v3}
MCNodes == {n1, n2}
MCInstance1 == {n1}
MCNodesGhost == {n1, ghost}
MCRegions == {east, west}
MCNames == {na, nb}

(* Five characters make a label: both names are cut, and stay apart. *)
MCHash(text) == None
MCCharacters == Ids \cup {"p", "-", "c", "a", "b", "x"}
MCPrefix == <<"p", "-">>
MCText == [n \in MCNames |-> IF n = na THEN <<"c", "-", "a", "x">> ELSE <<"c", "-", "b", "x">>]
MCLabelOf == [n \in MCNames |-> GetNormalizedLabelWithPrefix(MCPrefix, MCText[n])]
MCLabels == {MCLabelOf[n] : n \in MCNames}

MCInstanceRegion == [n \in Nodes |-> east]
MCLimit1 == [n \in Nodes |-> 1]
MCLimit2 == [n \in Nodes |-> 2]
MCEncRegions == {east}
AllGuards == {"label", "capacity", "delete", "shrink", "region"}

-----------------------------------------------------------------------------
Active(label, size) ==
    [status |-> "active", label |-> label, size |-> size, region |-> east,
     enc |-> "disabled", linode |-> None, target |-> None]

(* Every id is in use: na is v1 and nb is v2. *)
BothMade == [v \in Ids |-> IF v = v1 THEN Active(LabelOf[na], 1) ELSE Active(LabelOf[nb], 1)]
BothKnown == [n \in MCNames |-> IF n = na THEN v1 ELSE v2]

(* Only na is there. *)
OneMade == [v \in Ids |-> IF v = v1 THEN Active(LabelOf[na], 1) ELSE Absent]
OneKnown == [n \in MCNames |-> IF n = na THEN v1 ELSE None]

(* na has just been made, by a create whose answer was lost. *)
BeingMade == [OneMade EXCEPT ![v1].status = "creating"]

NothingMade == [v \in Ids |-> Absent]
NothingKnown == [n \in MCNames |-> None]

-----------------------------------------------------------------------------
Bytes(required, limit) == [given |-> TRUE, required |-> required, limit |-> limit]

Publish(v, n) ==
    [NoRequest EXCEPT !.op = "publish", !.vol = v, !.node = n, !.access = "writer"]
Unpublish(v, n) == [NoRequest EXCEPT !.op = "unpublish", !.vol = v, !.node = n]
DeleteVolume(v) == [NoRequest EXCEPT !.op = "delete", !.vol = v]
Expand(v, range) == [NoRequest EXCEPT !.op = "expand", !.vol = v, !.range = range]
CreateVolume(name, range) ==
    [NoRequest EXCEPT !.op = "create", !.name = name, !.range = range, !.access = "writer"]
Encrypted(r, region) == [r EXCEPT !.enc = TRUE, !.region = region]
From(r, src) == [r EXCEPT !.src = src]

AttachRequests ==
    {Publish(v, n) : v \in Ids, n \in Nodes} \cup {Unpublish(v, n) : v \in Ids, n \in Nodes}

(* Publishing and unpublishing, with a delete and a resize in the way. *)
MCAttach == AttachRequests \cup {DeleteVolume(v1), Expand(v1, Bytes(4, 0))}

(* One volume and two nodes, and one name to make. *)
MCRetried ==
    {r \in AttachRequests : r.vol = v1} \cup {CreateVolume(nb, Bytes(0, 4))}

(* Making, cloning, growing and deleting. *)
MCMade ==
    {Encrypted(CreateVolume(na, Bytes(0, 5)), east),
     From(CreateVolume(nb, Bytes(2, 0)), v1),
     DeleteVolume(v1), DeleteVolume(v2),
     Expand(v1, Bytes(6, 0)), Expand(v1, Bytes(4, 6)), Expand(v1, Bytes(2, 0))}

(* Requests the handlers turn down before or at their first API calls. *)
MCRefused ==
    {CreateVolume(None, NoRange),
     [CreateVolume(nb, NoRange) EXCEPT !.access = "other"],
     CreateVolume(nb, Bytes(0, 0)), CreateVolume(nb, Bytes(-1, 0)), CreateVolume(nb, Bytes(1, 1)),
     Encrypted(CreateVolume(nb, NoRange), west),
     From([CreateVolume(nb, NoRange) EXCEPT !.region = west], v1),
     DeleteVolume(None), Publish(None, n1), Publish(v1, None), Publish(v1, ghost),
     Unpublish(v1, ghost), Unpublish(None, n1), Expand(None, NoRange), Expand(v1, Bytes(0, 1))}

MCProvision == MCMade \cup MCRefused

(* Everything that can be asked of one volume. *)
MCFree ==
    {Publish(v1, n1), Unpublish(v1, n1), DeleteVolume(v1),
     Expand(v1, Bytes(4, 0)), Expand(v1, Bytes(2, 6)), CreateVolume(na, Bytes(2, 0))}

MCNewVolume == {CreateVolume(na, Bytes(4, 0))}

=============================================================================
