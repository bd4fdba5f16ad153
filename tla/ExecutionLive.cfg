SPECIFICATION FairSpec
CONSTANTS
    Workflow = workflow
    Reconcilers = {reconciler}
    Hooks = {}
    Dispatchers = {dispatcher}
    MAX_ATTEMPTS_PER_CANDIDATE = 1
    MAX_ATTEMPTS_PER_JOB = 3
    MaximumPolls = 1
    MaxCancelTries = 1
    MaxSubmits = 1
    MaxObjects = 1
    MaxCrashes = 1
    MaxCancels = 1
CHECK_DEADLOCK FALSE
PROPERTIES JobTerminates CancelEventSettles
