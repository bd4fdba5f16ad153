SPECIFICATION FairSpec
CONSTANTS
    s1 = s1
    f1 = f1
    a1 = a1
    cleanupLoop = cleanupLoop
    reconciler = reconciler
    Nobody = Nobody
    NoHolder = Nobody
    NoKey = NoKey
    Sources = {s1}
    Finals = {f1}
    Assets = {a1}
    Objects = {s1, f1, a1}
    Cleaners = {cleanupLoop, reconciler}
    Holders = {cleanupLoop, reconciler}
    ArtifactAttempts = 2
    CleanupAttempts = 2
    MaxDisruptions = 1
INVARIANTS TypeOK ReferencedStored NoForgottenObject DeferralIsFree
PROPERTIES RemovedAfterRetention DeletedProjectEmptied
CHECK_DEADLOCK FALSE
