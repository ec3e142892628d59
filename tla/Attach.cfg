\* An orderly CO and no help from the API: publishing and unpublishing two volumes.
CONSTANTS
    None = None
    v1 = v1  v2 = v2  v3 = v3
    n1 = n1  n2 = n2  ghost = ghost
    east = east  west = west
    na = na  nb = nb
    Ids <- MCIds2
    Nodes <- MCNodes
    Instances <- MCNodes
    Regions <- MCRegions
    Labels <- MCLabels
    Names <- MCNames
    LabelOf <- MCLabelOf
    LinodeVolumeLabelLength = 5
    Numbers <- MCIds2
    hashStringToInt <- MCHash
    Characters <- MCCharacters
    Prefix <- MCPrefix
    Text <- MCText
    Region = east
    EncRegions <- MCEncRegions
    InstanceRegion <- MCInstanceRegion
    Limit <- MCLimit1
    Guards = {}
    Procs = {p1, p2}
    Requests <- MCAttach
    InitVols <- BothMade
    InitPv <- BothKnown
    Orderly = TRUE
    MaxFaults = 2
    GiB = 2
    MinVolumeSizeGB = 1
SPECIFICATION Spec
INVARIANT PublishedIsAttached
INVARIANT UnpublishedIsDetached
PROPERTY ImplementsAttachment
