SPECIFICATION FairSpec
CONSTANTS
    j1 = j1
    j2 = j2
    loop = loop
    reconciler = reconciler
    NoOne = NoOne
    NoJob = NoJob
    Jobs = {j1}
    Keys = {j1}
    Dispatchers = {loop, reconciler}
    Reconcilers = {reconciler}
    Backends = {"local", "hatchet"}
    MaxBlockingIO = 1
    MaxAttempts = 2
    MaxPolls = 1
    MaxExpiries = 1
    MaxFaults = 2
    MaxStops = 1
    MaxReplays = 1
    Tasks <- AllTasks
INVARIANTS TypeOK SlotsBoundThreads ShutdownInOrder OneRunPerKey DeadLettersReplayable
PROPERTIES QueuePromise JobsEnd
CHECK_DEADLOCK FALSE
