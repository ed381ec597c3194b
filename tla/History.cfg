SPECIFICATION Spec
CONSTANTS
    t1 = t1
    t2 = t2
    t3 = t3
    Texts = {t1, t2, t3}
    Configs <- AllConfigs
    StoredBefore <- AnyStored
    SavedBefore <- AnySaved
    Absent = Absent
    DefaultLimit = 2
    QueueSize = 1
    NoText = NoText
INVARIANTS
    TypeOK
    UniqueTexts
    FileFollowsMemory
    ObeysSettings
    ConfigOnDisk
    ShownIsCurrent
PROPERTY
    ImplementsRecentList
SYMMETRY SameTexts
