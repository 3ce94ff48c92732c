SPECIFICATION Spec
CONSTANTS
    g1 = g1
    g2 = g2
    g3 = g3
    u1 = u1
    u2 = u2
    Configurers <- MCConfigurers
    Users = {u1, u2}
    Options <- MCOptions
    Values <- MCValues
    NilOption = NilOption
    Nil = Nil
INVARIANT ConfiguredReportsCalls
