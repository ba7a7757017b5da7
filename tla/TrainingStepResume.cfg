SPECIFICATION Spec
CONSTANTS
    Dp = 2
    Tp = 2
    Jobs <- MCJobs
    Saved = 3
    MaxSteps = 2
    MaxRollouts = 4
    Orders <- MCOrders
INVARIANTS
    EngineFresh
