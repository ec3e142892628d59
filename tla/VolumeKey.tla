----------------------------- MODULE VolumeKey ------------------------------
(***************************************************************************)
(* Labels and volume ids (pkg/linode-volumes/utils.go).  The label of a    *)
(* volume is made from a prefix and the name the CO gives, cut to what the *)
(* API takes; the volume id the CO gets back is the number of the volume,  *)
(* a dash and the label.  The controller reads the number back from it,    *)
(* the node service the label, by which it finds the device.               *)
(*                                                                         *)
(* A text is a sequence of characters.  A number is a single character     *)
(* here: nothing depends on its digits but that none of them is a dash.    *)
(***************************************************************************)
EXTENDS Integers, Sequences

CONSTANTS
    LinodeVolumeLabelLength,
    Numbers,                 \* the numbers of volumes, one character each
    hashStringToInt(_)       \* the number made of a text that holds none

Dash == "-"

(* Mutant: one character too many is cut off. *)
GetNormalizedLabel_Short(label) ==
    IF Len(label) >= LinodeVolumeLabelLength
      THEN SubSeq(label, 1, LinodeVolumeLabelLength - 1) ELSE label

GetNormalizedLabel(label) ==
    IF Len(label) > LinodeVolumeLabelLength
      THEN SubSeq(label, 1, LinodeVolumeLabelLength) ELSE label

(* The prefix can make it too long again. *)
GetNormalizedLabelWithPrefix(prefix, label) ==
    GetNormalizedLabel(prefix \o GetNormalizedLabel(label))

GetVolumeKey(id, label) == <<id, Dash>> \o GetNormalizedLabel(label)

Dashes(key) == {i \in 1 .. Len(key) : key[i] = Dash}

(* Mutant: the text is split at its last dash. *)
SplitsAt_Last(key, i) == i \in Dashes(key) /\ \A j \in Dashes(key) : j <= i

(* strings.SplitN(key, "-", 2): the first dash ends the first part. *)
SplitsAt(key, i) == i \in Dashes(key) /\ \A j \in Dashes(key) : i <= j

Split(key) == CHOOSE i \in Dashes(key) : SplitsAt(key, i)

NotAKey == [ok |-> FALSE]

(* Both parts must be there, and Atoi must read the first one. *)
ParseLinodeVolumeKey(key) ==
    LET i == Split(key)
        number == SubSeq(key, 1, i - 1)
    IN
    IF Dashes(key) # {} /\ Len(number) = 1 /\ number[1] \in Numbers
      THEN [ok |-> TRUE, VolumeID |-> number[1], Label |-> SubSeq(key, i + 1, Len(key))]
      ELSE NotAKey

(* An id that is no key is hashed (for the sake of csi-test). *)
VolumeIdAsInt(key) ==
    LET parsed == ParseLinodeVolumeKey(key) IN
    IF parsed.ok THEN parsed.VolumeID ELSE hashStringToInt(key)

(* The node service looks for the device under this name. *)
deviceName(key) == GetNormalizedLabel(ParseLinodeVolumeKey(key).Label)

=============================================================================
