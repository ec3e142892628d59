\* An orderly CO and no help from the API: creating, cloning, growing and deleting.
CONSTANTS
    None = None
    v1 = v1  v2 = v2  v3 = v3
    n1 = n1  n2 = n2  ghost = ghost
    east = east  west = west
    na = na  nb = nb
    Ids <- MCIds3
    Nodes <- MCNodesGhost
    Instances <- MCInstance1
    Regions <- MCRegions
    Labels <- MCLabels
    Names <- MCNames
    LabelOf <- MCLabelOf
    LinodeVolumeLabelLength = 5
    Numbers <- MCIds3
    hashStringToInt <- MCHash
    Characters <- MCCharacters
    Prefix <- MCPrefix
    Text <- MCText
    Region = east
    EncRegions <- MCEncRegions
    InstanceRegion <- MCInstanceRegion
    Limit <- MCLimit1
    Guards = {}
    Procs = {p1, p2}
    Requests <- MCProvision
    InitVols <- NothingMade
    InitPv <- NothingKnown
    Orderly = TRUE
    MaxFaults = 1
    GiB = 2
    MinVolumeSizeGB = 1
SPECIFICATION Spec
INVARIANT TypeOK
INVARIANT OneVolumePerLabel
INVARIANT OwnVolumePerName
INVARIANT CreatedAsRequested
INVARIANT KeyFindsDevice
PROPERTY SameVolumeForName
PROPERTY NeverShrinks
