SPECIFICATION Spec
CONSTANTS
    c1 = c1
    c2 = c2
    c3 = c3
    u1 = u1
    u2 = u2
    w1 = w1
    w2 = w2
    Cards = {c1, c2, c3}
    Registered = {c1, c2}
    Users = {u1, u2}
    Owner = u1
    Infos = {i1, i2}
    FirstInfo = i1
    Texts = {p1}
    Scopes <- MCScopes
    LedgerPage = "2"
    PriceList <- MCPriceList
    PriceFilters <- MCPriceFilters
    Workers = {w1, w2}
    Absent = Absent
    Unclear = Unclear
    MaxCalls = 2
SYMMETRY Interchangeable
INVARIANTS TypeOK BeliefsAreTrue CountIsRight ReadsAnswerTheirScope
PROPERTY ImplementsCallEffects
CHECK_DEADLOCK FALSE
