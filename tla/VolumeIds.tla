----------------------------- MODULE VolumeIds ------------------------------
(***************************************************************************)
(* The volumes of the controller service under the ids the CO knows them   *)
(* by: CreateVolume labels a volume with the text made from the configured *)
(* prefix and the name, and answers with the key made from its number and  *)
(* that label (controllerserver_helper.go).  ControllerServer identifies a *)
(* volume with its number; here the number is reached through the key.     *)
(***************************************************************************)
EXTENDS ControllerServer, VolumeKey

CONSTANTS
    Characters,   \* what labels, names and volume ids are written with
    Prefix,       \* the volume label prefix the driver was started with
    Text          \* Text[n]: the name n, as a text

ASSUME TextAssumption ==
    /\ LinodeVolumeLabelLength \in Nat
    /\ Numbers \subseteq Characters /\ Dash \in Characters \ Numbers
    /\ Ids \subseteq Numbers
    /\ Prefix \in Seq(Characters)
    /\ Text \in [Names -> Seq(Characters)]

(* A label is a text the API takes; the ones CreateVolume gives are made   *)
(* from the prefix and the name.                                           *)
ASSUME LabelAssumption ==
    /\ \A l \in Labels : l \in Seq(Characters) /\ Len(l) <= LinodeVolumeLabelLength
    /\ LabelOf = [n \in Names |-> GetNormalizedLabelWithPrefix(Prefix, Text[n])]
    /\ \A v \in Ids :
         InitVols[v].status \notin {"absent", "deleted"} => InitVols[v].label \in Labels

-----------------------------------------------------------------------------
(***************************************************************************)
(* A volume id leads back to its volume: the controller reads the number   *)
(* from it, and the one device a node finds under the label in it is the   *)
(* device of that volume, although labels are cut and may contain dashes.  *)
(***************************************************************************)
KeyFindsDevice ==
    \A n \in Names :
      LET v == pv[n]
          key == GetVolumeKey(v, vols[v].label)
      IN
      v # None /\ Exists(v) =>
        /\ VolumeIdAsInt(key) = v
        /\ VolumesLabelled(deviceName(key)) = {v}

=============================================================================
