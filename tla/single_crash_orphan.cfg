CONSTANTS
    Jobs <- MCJobs
    Priority <- MCPriority
    DepsOf <- MCDepsNone
    LateDeps = {}
    MayFail = {}
    MaxCrashes = 1
SPECIFICATION Spec
PROPERTY RunTerminates
