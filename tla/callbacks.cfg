SPECIFICATION Spec
CONSTANTS
    h1 = h1
    txReverse = txReverse
    cardReverse = cardReverse
    noId = noId
    other = other
    blank = blank
    garbage = garbage
    longNonce = longNonce
    Handlers = {h1}
    Callbacks = {txReverse, cardReverse, noId, other, blank, garbage, longNonce}
    PayloadOf <- MCPayloadOf
    NonceLength <- MCNonceLength
    Configs <- MCConfigs
    Empty = Empty
    Junk = Junk
    Unreadable = Unreadable
    NotJSON = NotJSON
    NotFired = NotFired
    MaxSkew = 1
    MaxNonceLength = 128
    MaxDrift = 1
    MaxTime = 3
    MaxFired = 2
INVARIANTS TypeOK OnlyGenuineAccepted NoLateAcceptance PunctualIsHandled RoutedByEvent
CHECK_DEADLOCK FALSE
