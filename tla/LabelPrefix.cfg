\* Violated: with a label prefix the mapping is opened under one name and closed under another.
CONSTANTS
    None = None
    v1 = v1  a = a   name = name  prefixed = prefixed
    Staging = Staging  Host = Host
    Vols <- MCVols
    Pods <- MCPod
    Procs = {p1}
    Mappers <- MCMappers
    Profiles <- MCPrefixed
    Requests <- MCRequests
    MaxStack = 2
    MaxFaults = 0
SPECIFICATION Spec
INVARIANT UnstagedIsClosed
