--------------------------- MODULE VolumeKeyProofs ---------------------------
(***************************************************************************)
(* What labels and volume ids are, for every name, prefix and length, and  *)
(* what they are to the volumes of the controller service.                 *)
(***************************************************************************)
EXTENDS VolumeIds, ControllerServerProofs

(* A text that is cut has as many characters as fit, those of its start. *)
LEMMA CutText ==
    ASSUME LinodeVolumeLabelLength \in Nat, NEW Chars, NEW text \in Seq(Chars)
    PROVE  /\ GetNormalizedLabel(text) \in Seq(Chars)
           /\ Len(GetNormalizedLabel(text)) <= LinodeVolumeLabelLength
           /\ Len(text) <= LinodeVolumeLabelLength => GetNormalizedLabel(text) = text
<1>1. CASE Len(text) > LinodeVolumeLabelLength
  <2>1. GetNormalizedLabel(text) = SubSeq(text, 1, LinodeVolumeLabelLength)
    BY <1>1 DEF GetNormalizedLabel
  <2>2. /\ SubSeq(text, 1, LinodeVolumeLabelLength) \in Seq(Chars)
        /\ Len(SubSeq(text, 1, LinodeVolumeLabelLength)) = LinodeVolumeLabelLength
    BY <1>1
  <2> QED
    BY <1>1, <2>1, <2>2
<1>2. CASE Len(text) <= LinodeVolumeLabelLength
  BY <1>2 DEF GetNormalizedLabel
<1> QED
  BY <1>1, <1>2

(***************************************************************************)
(* Whatever the name and the prefix, the label is one the API accepts:     *)
(* at most LinodeVolumeLabelLength characters.                             *)
(***************************************************************************)
THEOREM LabelFits ==
    ASSUME LinodeVolumeLabelLength \in Nat, NEW Chars,
           NEW prefix \in Seq(Chars), NEW name \in Seq(Chars)
    PROVE  /\ GetNormalizedLabelWithPrefix(prefix, name) \in Seq(Chars)
           /\ Len(GetNormalizedLabelWithPrefix(prefix, name)) <= LinodeVolumeLabelLength
<1>1. GetNormalizedLabel(name) \in Seq(Chars)
  BY CutText
<1>2. prefix \o GetNormalizedLabel(name) \in Seq(Chars)
  BY <1>1
<1> QED
  BY <1>2, CutText DEF GetNormalizedLabelWithPrefix

(***************************************************************************)
(* Names that fit beside the prefix are never cut, so two of them have the *)
(* same label, and with it share a volume, only if they are the same name. *)
(***************************************************************************)
THEOREM LabelsApart ==
    ASSUME LinodeVolumeLabelLength \in Nat, NEW Chars,
           NEW prefix \in Seq(Chars), NEW a \in Seq(Chars), NEW b \in Seq(Chars),
           Len(prefix) + Len(a) <= LinodeVolumeLabelLength,
           Len(prefix) + Len(b) <= LinodeVolumeLabelLength,
           GetNormalizedLabelWithPrefix(prefix, a) = GetNormalizedLabelWithPrefix(prefix, b)
    PROVE  a = b
<1>1. ASSUME NEW c \in Seq(Chars), Len(prefix) + Len(c) <= LinodeVolumeLabelLength
      PROVE  GetNormalizedLabelWithPrefix(prefix, c) = prefix \o c
  <2>1. GetNormalizedLabel(c) = c
    BY <1>1, CutText
  <2>2. prefix \o c \in Seq(Chars) /\ Len(prefix \o c) <= LinodeVolumeLabelLength
    BY <1>1
  <2> QED
    BY <2>1, <2>2, CutText DEF GetNormalizedLabelWithPrefix
<1>2. prefix \o a = prefix \o b
  BY <1>1
<1>3. Len(a) = Len(b)
  <2>1. Len(prefix \o a) = Len(prefix) + Len(a) /\ Len(prefix \o b) = Len(prefix) + Len(b)
    OBVIOUS
  <2> QED
    BY <1>2, <2>1
<1>4. ASSUME NEW i \in 1 .. Len(a)
      PROVE  a[i] = b[i]
  <2>1. (prefix \o a)[Len(prefix) + i] = a[i] /\ (prefix \o b)[Len(prefix) + i] = b[i]
    BY <1>3, <1>4
  <2> QED
    BY <1>2, <2>1
<1> QED
  BY <1>3, <1>4

(* The first dash of a volume id is the one after the number. *)
LEMMA SplitAfterNumber ==
    ASSUME LinodeVolumeLabelLength \in Nat, NEW Chars,
           Numbers \subseteq Chars, Dash \in Chars \ Numbers,
           NEW id \in Numbers, NEW label \in Seq(Chars)
    PROVE  LET key == GetVolumeKey(id, label) IN
             /\ key \in Seq(Chars)
             /\ key[1] = id
             /\ Len(key) = 2 + Len(GetNormalizedLabel(label))
             /\ \A i \in 1 .. Len(GetNormalizedLabel(label)) :
                  key[2 + i] = GetNormalizedLabel(label)[i]
             /\ Dashes(key) # {} /\ Split(key) = 2
<1> DEFINE cut == GetNormalizedLabel(label)
           key == <<id, Dash>> \o cut
<1>1. cut \in Seq(Chars)
  BY CutText
<1>2. <<id, Dash>> \in Seq(Chars) /\ Len(<<id, Dash>>) = 2
  OBVIOUS
<1> HIDE DEF cut
<1>3. /\ key \in Seq(Chars) /\ Len(key) = 2 + Len(cut)
      /\ key[1] = id /\ key[2] = Dash
      /\ \A i \in 1 .. Len(cut) : key[2 + i] = cut[i]
  BY <1>1, <1>2
<1> HIDE DEF key
<1>4. 2 \in Dashes(key) /\ 1 \notin Dashes(key)
  BY <1>1, <1>3 DEF Dashes
<1>5. \A i \in Dashes(key) : SplitsAt(key, i) <=> i = 2
  BY <1>3, <1>4 DEF SplitsAt, Dashes
<1>6. Split(key) = 2
  BY <1>4, <1>5 DEF Split
<1> QED
  BY <1>3, <1>4, <1>6 DEF GetVolumeKey, key, cut

(***************************************************************************)
(* A volume id leads back to what it was made from: the controller reads   *)
(* the number of the volume, and the node service its label, dashes and    *)
(* all, for every label the API can have accepted.                         *)
(***************************************************************************)
THEOREM KeyRoundTrip ==
    ASSUME LinodeVolumeLabelLength \in Nat, NEW Chars,
           Numbers \subseteq Chars, Dash \in Chars \ Numbers,
           NEW id \in Numbers, NEW label \in Seq(Chars),
           Len(label) <= LinodeVolumeLabelLength
    PROVE  /\ VolumeIdAsInt(GetVolumeKey(id, label)) = id
           /\ deviceName(GetVolumeKey(id, label)) = label
<1> DEFINE key == GetVolumeKey(id, label)
<1>1. GetNormalizedLabel(label) = label
  BY CutText
<1>2. /\ key \in Seq(Chars) /\ key[1] = id
      /\ Len(key) = 2 + Len(label)
      /\ \A i \in 1 .. Len(label) : key[2 + i] = label[i]
      /\ Dashes(key) # {} /\ Split(key) = 2
  BY <1>1, SplitAfterNumber
<1> HIDE DEF key
<1>3. Len(SubSeq(key, 1, 2 - 1)) = 1 /\ SubSeq(key, 1, 2 - 1)[1] = id
  BY <1>2
<1>4. SubSeq(key, 2 + 1, Len(key)) = label
  <2>1. /\ SubSeq(key, 3, Len(key)) \in Seq(Chars)
        /\ Len(SubSeq(key, 3, Len(key))) = Len(label)
        /\ \A i \in 1 .. Len(label) : SubSeq(key, 3, Len(key))[i] = label[i]
    BY <1>2
  <2> QED
    BY <2>1
<1>5. ParseLinodeVolumeKey(key) = [ok |-> TRUE, VolumeID |-> id, Label |-> label]
  BY <1>2, <1>3, <1>4 DEF ParseLinodeVolumeKey
<1> QED
  BY <1>1, <1>5 DEF VolumeIdAsInt, deviceName, key

-----------------------------------------------------------------------------
(***************************************************************************)
(* The volumes of the controller service.                                  *)
(***************************************************************************)

(* Names are short: none is cut when the prefix is put before it. *)
NamesFitPrefix == \A n \in Names : Len(Prefix) + Len(Text[n]) <= LinodeVolumeLabelLength

(* Different names are different texts. *)
TextsDiffer == \A m, n \in Names : Text[m] = Text[n] => m = n

(***************************************************************************)
(* With a prefix and names that fit the label together, as those of the    *)
(* deployment do (--volume-name-uuid-length=16), different names have      *)
(* different labels: the hypothesis OneVolumeEach and CreateSafe make is   *)
(* one the configuration settles.                                          *)
(***************************************************************************)
THEOREM NamesApart == NamesFitPrefix /\ TextsDiffer => DistinctLabels
<1> SUFFICES ASSUME NamesFitPrefix, TextsDiffer,
                    NEW m \in Names, NEW n \in Names, LabelOf[m] = LabelOf[n]
             PROVE  m = n
  BY DEF DistinctLabels
<1>1. /\ LabelOf[m] = GetNormalizedLabelWithPrefix(Prefix, Text[m])
      /\ LabelOf[n] = GetNormalizedLabelWithPrefix(Prefix, Text[n])
  BY LabelAssumption
<1>2. Text[m] \in Seq(Characters) /\ Text[n] \in Seq(Characters)
  BY TextAssumption
<1>3. Text[m] = Text[n]
  BY <1>1, <1>2, LabelsApart, TextAssumption DEF NamesFitPrefix
<1> QED
  BY <1>3 DEF TextsDiffer

(* Every volume of the account has a label. *)
AllLabelled == \A v \in Ids : Exists(v) => vols[v].label \in Labels

(* A volume gets its label when it is made, from a name, and keeps it. *)
LEMMA LabelledNext ==
    ASSUME TypeOK, AllLabelled, [Next]_vars
    PROVE  AllLabelled'
<1> SUFFICES ASSUME NEW v \in Ids, Exists(v)' PROVE vols'[v].label \in Labels
  BY DEF AllLabelled
<1>1. CASE Exists(v) /\ SameData(v)
  BY <1>1 DEF AllLabelled, SameData
<1>2. ASSUME NEW p \in Procs, Making(p, v) PROVE vols'[v].label \in Labels
  <2>1. At(p, "create_new") /\ vols'[v].label = LabelOf[h[p].req.name]
    BY <1>2 DEF Making
  <2>2. h[p].req.name \in Names
    BY <2>1, MakerFacts
  <2> QED
    BY <2>1, <2>2, ControllerAssumption
<1> QED
  BY <1>1, <1>2, NewcomerIsMade

(***************************************************************************)
(* Every volume id the CO was given leads back to its volume: the number   *)
(* the controller reads from it is the volume's, and a node that looks for *)
(* the label in it finds the volume's device and no other.                 *)
(***************************************************************************)
THEOREM KeysFindDevices == LabelsGuarded => (Spec => []KeyFindsDevice)
<1> SUFFICES ASSUME LabelsGuarded PROVE Spec => []KeyFindsDevice
  OBVIOUS
<1>1. Init => AllLabelled
  BY LabelAssumption DEF Init, AllLabelled, Exists
<1>2. TypeOK /\ AllLabelled /\ [Next]_vars => AllLabelled'
  BY LabelledNext
<1>3. ASSUME TypeOK, AllLabelled, OneVolumePerLabel PROVE KeyFindsDevice
  <2> SUFFICES ASSUME NEW n \in Names, NEW v, v = pv[n], v # None, Exists(v)
               PROVE  LET key == GetVolumeKey(v, vols[v].label) IN
                        /\ VolumeIdAsInt(key) = v
                        /\ VolumesLabelled(deviceName(key)) = {v}
    BY DEF KeyFindsDevice
  <2>1. v \in Ids
    BY <1>3 DEF TypeOK
  <2>2. /\ vols[v].label \in Seq(Characters)
        /\ Len(vols[v].label) <= LinodeVolumeLabelLength
    BY <1>3, <2>1, LabelAssumption DEF AllLabelled
  <2>3. LET key == GetVolumeKey(v, vols[v].label) IN
          VolumeIdAsInt(key) = v /\ deviceName(key) = vols[v].label
    BY <2>1, <2>2, KeyRoundTrip, TextAssumption
  <2>4. VolumesLabelled(vols[v].label) = {v}
    BY <1>3, <2>1 DEF OneVolumePerLabel, VolumesLabelled
  <2> QED
    BY <2>3, <2>4
<1> QED
  BY <1>1, <1>2, <1>3, TypeCorrect, OneVolumeEach, PTL DEF Spec

=============================================================================
