CONSTANTS
    Jobs <- MCJobs
    Priority <- MCPriority
    MaxWorkers <- MCMaxWorkers
    DepsOf <- MCDepsChain1
    LateDeps <- MCLateDeps
    MayFail = {1, 2}
    ForkMayFail = {3}
    PipeCap = 2
SPECIFICATION Spec
INVARIANT TypeOK
INVARIANT SemaphoreAccounting
INVARIANT DagAcyclic
INVARIANT PipeDrainedOnReturn
PROPERTY PrereqCompletedBeforeStart
PROPERTY WorkersReaped
