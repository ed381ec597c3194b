SPECIFICATION Spec
CONSTANTS
    t1 = t1
    t2 = t2
    big = big
    bad = bad
    e1 = e1
    e2 = e2
    e3 = e3
    m1 = m1
    o1 = o1
    o2 = o2
    o3 = o3
    topicA = topicA
    topicB = topicB
    NoText = NoText
    NoEvent = NoEvent
    Texts = {t1, big}
    InvalidTexts = {}
    UserTexts = {t1, big}
    RemoteIds = {e1}
    Manifests = {}
    RemoteText <- LoopTexts
    OwnIds = {o1, o2}
    Topics = {topicA, topicB}
    Configs <- SendConfigs
    InitialConfig <- FanOut
    RecentLimit = 1
    SuppressLimit = 1
INVARIANTS
    UnchangedTextWasPublished
    OnlyWrittenTextsSuppressed
SYMMETRY IdSymmetry
