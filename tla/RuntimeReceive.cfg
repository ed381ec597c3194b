SPECIFICATION Spec
CONSTANTS
    t1 = t1
    t2 = t2
    big = big
    bad = bad
    e1 = e1
    e2 = e2
    e3 = e3
    m1 = m1
    o1 = o1
    o2 = o2
    o3 = o3
    topicA = topicA
    topicB = topicB
    NoText = NoText
    NoEvent = NoEvent
    Texts = {t1, t2, bad}
    InvalidTexts = {bad}
    UserTexts = {bad}
    RemoteIds = {e1, e2, e3, m1}
    Manifests = {m1}
    RemoteText <- ReceiveTexts
    OwnIds = {}
    Topics = {topicA}
    Configs <- ReceiveConfigs
    InitialConfig <- Manual
    RecentLimit = 2
    SuppressLimit = 1
INVARIANTS
    TypeOK
    AppliedOnceWhileRemembered
    PendingQueueConsistent
    PendingIsUnsettled
    DuplicateMeansSettled
    DisabledKeepsOneAtMost
    StatusShowsNewest
PROPERTY ImplementsInbox
