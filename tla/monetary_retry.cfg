SPECIFICATION Spec
CONSTANTS
    deposit = deposit
    deduct = deduct
    nothing = nothing
    w1 = w1
    w2 = w2
    k1 = k1
    k2 = k2
    k3 = k3
    Ops = {deduct}
    Fresh = {deduct}
    Keys = {k1, k2}
    Amount <- MCAmount
    NoOp = NoOp
    Workers = {w1}
    CrashProne = {}
    NoKey = NoKey
    EmptyKey = EmptyKey
    MaxAttempts = 2
    MaxReplays = 0
    MaxPending = 2
INVARIANT MonetaryRetrySafe
CHECK_DEADLOCK FALSE
