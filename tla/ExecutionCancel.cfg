SPECIFICATION Spec
CONSTANTS
    Workflow = workflow
    Reconcilers = {}
    Hooks = {hook}
    Dispatchers = {dispatcher}
    MAX_ATTEMPTS_PER_CANDIDATE = 1
    MAX_ATTEMPTS_PER_JOB = 3
    MaximumPolls = 1
    MaxCancelTries = 2
    MaxSubmits = 1
    MaxObjects = 3
    MaxCrashes = 1
    MaxCancels = 1
CHECK_DEADLOCK FALSE
INVARIANTS SettlementFollowsJob NoOrphanObject
PROPERTY TerminalIsFinal
