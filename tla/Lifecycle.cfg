\* A volume moves between two nodes, with crashes and reboots of both.
CONSTANTS
    None = None
    v1 = v1  a = a  b = b  name = name
    NodeA = NodeA  NodeB = NodeB
    Staging = Staging  Host = Host
    Vols <- MCVols
    Pods <- MCPods
    Procs = {p1}
    Mappers <- MCMappers
    Profiles <- MCProfiles
    Requests <- MCRequests
    MaxStack = 3
    MaxFaults = 2
    MaxMoves = 2
SPECIFICATION FairSpec
INVARIANT UsedOnlyWhereAttached
PROPERTY DataSurvivesMoves
PROPERTY VolumeFollowsPods
