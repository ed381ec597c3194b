SPECIFICATION FairSpec
CONSTANTS
    Remote = {r1, r2}
    UserTexts = {u}
    NoText = NoText
    NoEngine = NoEngine
    Policies <- SomePolicies
    QueueSize = 2
INVARIANTS
    TypeOK
    NewestAppliedReachesHost
    AppliedTextIsAvailable
    PollsForAutoApply
PROPERTY
    AppliedTextsAreTaken
