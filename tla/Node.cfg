\* One volume of every kind, one pod, repeated and abandoned calls, crashes and reboots.
CONSTANTS
    None = None
    v1 = v1  a = a   name = name  prefixed = prefixed
    Staging = Staging  Host = Host
    Vols <- MCVols
    Pods <- MCPod
    Procs = {p1, p2}
    Mappers <- MCMappers
    Profiles <- MCProfiles
    Requests <- MCAllRequests
    MaxStack = 2
    MaxFaults = 2
SPECIFICATION FairSpec
INVARIANT TypeOK
INVARIANT PublishedShowsVolume
INVARIANT NothingLeftBehind
PROPERTY NeverReformatted
PROPERTY StageConverges
PROPERTY UnstageConverges
PROPERTY NodeUnpublishConverges
