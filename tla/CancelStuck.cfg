SPECIFICATION Spec
CONSTANTS
    Workflow = workflow
    Reconcilers = {}
    Hooks = {}
    Dispatchers = {dispatcher}
    MAX_ATTEMPTS_PER_CANDIDATE = 2
    MAX_ATTEMPTS_PER_JOB = 3
    MaximumPolls = 1
    MaxCancelTries = 2
    MaxSubmits = 1
    MaxObjects = 1
    MaxCrashes = 0
    MaxCancels = 1
CHECK_DEADLOCK FALSE
INVARIANT CancelHasNextAction
