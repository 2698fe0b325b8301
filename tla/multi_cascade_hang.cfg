CONSTANTS
    Jobs <- MCJobs
    Priority <- MCPriority
    MaxWorkers <- MCMaxWorkers
    DepsOf <- MCDepsChain2
    LateDeps = {}
    MayFail = {1}
    ForkMayFail = {}
    PipeCap = 2
SPECIFICATION Spec
PROPERTY CancelCascades
