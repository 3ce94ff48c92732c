SPECIFICATION FairSpec
CONSTANTS
    deposit = deposit
    deduct = deduct
    nothing = nothing
    w1 = w1
    w2 = w2
    k1 = k1
    k2 = k2
    k3 = k3
    Ops = {deposit, nothing}
    Fresh = {}
    Keys = {k1, k2}
    Amount <- MCAmount
    NoOp = NoOp
    Workers = {w1, w2}
    CrashProne = {w1, w2}
    NoKey = NoKey
    EmptyKey = EmptyKey
    MaxAttempts = 2
    MaxReplays = 1
    MaxPending = 2
INVARIANTS OnlyValidRequests ExecutedAtMostOnce DuplicateMeansCommitted
PROPERTY EveryCallReturns
CHECK_DEADLOCK FALSE
