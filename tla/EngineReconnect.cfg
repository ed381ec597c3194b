SPECIFICATION Spec
CONSTANTS
    d1 = d1
    d2 = d2
    hub1 = hub1
    hub2 = hub2
    NoDevice = NoDevice
    NoEndpoint = NoEndpoint
    Devices = {d1, d2}
    Endpoints = {hub1, hub2}
    Configs <- AllConfigs
    InitialConfig <- Home
    QueueLimit = 1
    MaxSessions = 2
    MaxRuns = 2
INVARIANT ConnectMeansConnected
