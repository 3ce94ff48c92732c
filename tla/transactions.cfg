SPECIFICATION Spec
CONSTANTS
    t1 = t1
    t2 = t2
    t3 = t3
    t4 = t4
    w1 = w1
    w2 = w2
    Txs = {t1, t2, t3, t4}
    Facts <- MCFacts
    FirstStatuses <- MCFirstStatuses
    Lists <- MCLists
    Client <- MCClient
    BadId = BadId
    Workers = {w1, w2}
    MaxCalls = 2
SYMMETRY Operators
INVARIANTS TypeOK OutcomesAgree SuccessIsOwn RefusalChangedNothing ListsAnswerTheirQuery RefundedAreReversed
CHECK_DEADLOCK FALSE
