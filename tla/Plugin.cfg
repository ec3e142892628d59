\* The plugin process under every kind of configuration, with stops, kills and restarts.
CONSTANTS
    Configs <- MCConfigs
    MaxCalls = 2
    MaxFaults = 3
SPECIFICATION Spec
INVARIANT TypeOK
INVARIANT ServesOnlySetUp
PROPERTY WaitsForStop
PROPERTY StopFinishesCalls
PROPERTY AlwaysServesAgain
PROPERTY StopReturns
