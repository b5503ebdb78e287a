SPECIFICATION FairPoolSpec
CHECK_DEADLOCK FALSE
CONSTANTS
    Workers = {w1, w2, w3}
    MaxJobs = 4
INVARIANTS ExactlyOnceInOrder NoIdleBacklog DrainedWhenJoined
PROPERTIES ImplementsTaskQueue EveryJobRuns ShutdownReturns
