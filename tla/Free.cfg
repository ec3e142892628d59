\* Any calls at any time, against an API that makes its own checks.
CONSTANTS
    None = None
    v1 = v1  v2 = v2  v3 = v3
    n1 = n1  n2 = n2  ghost = ghost
    east = east  west = west
    na = na  nb = nb
    Ids <- MCIds1
    Nodes <- MCNodes
    Instances <- MCNodes
    Regions <- MCRegions
    Labels <- MCLabels
    Names <- MCNames
    LabelOf <- MCLabelOf
    LinodeVolumeLabelLength = 5
    Numbers <- MCIds1
    hashStringToInt <- MCHash
    Characters <- MCCharacters
    Prefix <- MCPrefix
    Text <- MCText
    Region = east
    EncRegions <- MCEncRegions
    InstanceRegion <- MCInstanceRegion
    Limit <- MCLimit2
    Guards <- AllGuards
    Procs = {p1, p2}
    Requests <- MCFree
    InitVols <- BeingMade
    InitPv <- NothingKnown
    Orderly = FALSE
    MaxFaults = 1
    GiB = 2
    MinVolumeSizeGB = 1
SPECIFICATION FreeSpec
INVARIANT ExpandedAsAsked
INVARIANT DeletedIsGone
PROPERTY EveryCallEnds
PROPERTY DeleteConverges
