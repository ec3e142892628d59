\* Violated: the LUKS format is done and adding its first key slot is not.
CONSTANTS
    None = None
    v1 = v1  a = a   name = name  prefixed = prefixed
    Staging = Staging  Host = Host
    Vols <- MCVols
    Pods <- MCPod
    Procs = {p1}
    Mappers <- MCMappers
    Profiles <- MCLuks
    Requests <- MCRequests
    MaxStack = 2
    MaxFaults = 1
SPECIFICATION FairSpec
PROPERTY LuksStageSucceeds
