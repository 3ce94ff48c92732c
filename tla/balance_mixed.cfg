SPECIFICATION Spec
CONSTANTS
    deposit = deposit
    deduct = deduct
    nothing = nothing
    w1 = w1
    w2 = w2
    k1 = k1
    k2 = k2
    k3 = k3
    Ops = {deposit, deduct}
    Fresh = {deduct}
    Keys = {k1, k2, k3}
    Amount <- MCAmount
    NoOp = NoOp
    Workers = {w1, w2}
    CrashProne = {w1, w2}
    NoKey = NoKey
    EmptyKey = EmptyKey
    MaxAttempts = 2
    MaxReplays = 0
    MaxPending = 1
SYMMETRY WorkersAndKeys
INVARIANTS TypeOK RecordedTxIsOwn NotPendingIsDone
PROPERTIES SettledIsFinal ImplementsOnceLedger
CHECK_DEADLOCK FALSE
