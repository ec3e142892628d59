\* Violated: an error of the lookup of the mapping is taken for a mapping that is closed.
CONSTANTS
    None = None
    v1 = v1  a = a   name = name  prefixed = prefixed
    Staging = Staging  Host = Host
    Vols <- MCVols
    Pods <- MCPod
    Procs = {p1}
    Mappers <- MCMappers
    Profiles <- MCLuks
    Requests <- MCRequests
    MaxStack = 2
    MaxFaults = 1
SPECIFICATION Spec
PROPERTY CloseReportsFailure
