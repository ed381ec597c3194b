SPECIFICATION Spec
CONSTANTS
    a = a
    b = b
    c = c
    w1 = w1
    w2 = w2
    NoWatcher = NoWatcher
    Topics = {a, b, c}
    Watchers = {w1, w2}
    Configs <- AllConfigs
    InitialConfig <- OffA
INVARIANTS
    TypeOK
    NothingRunsStopped
    OneConsumedWatcher
    StartedHasContext
    FlagsFollowConfig
    NoUnexplainedSubscription
    FollowsConfigUntilTrouble
PROPERTIES
    ImplementsLifecycle
    RestoreResubscribes
    OperationsReturn
