CONSTANTS
    Jobs <- MCJobs
    Priority <- MCPriorityEq
    MaxWorkers <- MCMaxWorkers
    DepsOf <- MCDepsNone
    LateDeps = {}
    MayFail = {}
    ForkMayFail = {}
    PipeCap = 2
SPECIFICATION Spec
PROPERTY RunTerminates
