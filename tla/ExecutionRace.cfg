SPECIFICATION Spec
CONSTANTS
    Workflow = workflow
    Reconcilers = {reconciler}
    Hooks = {}
    Dispatchers = {}
    MAX_ATTEMPTS_PER_CANDIDATE = 2
    MAX_ATTEMPTS_PER_JOB = 3
    MaximumPolls = 1
    MaxCancelTries = 2
    MaxSubmits = 1
    MaxObjects = 2
    MaxCrashes = 0
    MaxCancels = 0
CHECK_DEADLOCK FALSE
INVARIANTS
    TypeOK
    AttemptChain
    RunningAttempt
    FinalOutputStored
    ChargedForOutput
PROPERTY
    StatusesFollowGraph
