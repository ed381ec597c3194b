SPECIFICATION Spec
CONSTANTS
    t1 = t1
    t2 = t2
    big = big
    bad = bad
    e1 = e1
    e2 = e2
    e3 = e3
    m1 = m1
    o1 = o1
    o2 = o2
    o3 = o3
    topicA = topicA
    topicB = topicB
    NoText = NoText
    NoEvent = NoEvent
    Texts = {t1, t2}
    InvalidTexts = {}
    UserTexts = {t1, t2}
    RemoteIds = {e1}
    Manifests = {}
    RemoteText <- LoopTexts
    OwnIds = {o1, o2}
    Topics = {topicA}
    Configs <- LoopConfigs
    InitialConfig <- WatchApply
    RecentLimit = 2
    SuppressLimit = 2
INVARIANT
    NoEcho
