SPECIFICATION Spec
CONSTANTS
    a = a
    b = b
    swap = swap
    Sessions = {a, swap}
    Plans <- TwoThenOne
    Batch = {}
    Ultra = {swap}
    NoOne = NoOne
    NoTx = NoTx
    Ttl = 3
    Validity = 2
    MaxPrep = 1
    MaxPoll = 1
    MaxTime = 5
INVARIANTS TypeOK Tracked BuildsOnLanded
PROPERTIES OneSendToldTruly
CHECK_DEADLOCK FALSE
