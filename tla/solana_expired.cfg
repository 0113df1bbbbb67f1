SPECIFICATION Spec
CONSTANTS
    a = a
    b = b
    swap = swap
    Sessions = {a, swap}
    Plans <- TwoThenOne
    Batch = {}
    Ultra = {swap}
    NoOne = NoOne
    NoTx = NoTx
    Ttl = 4
    Validity = 2
    MaxPrep = 1
    MaxPoll = 2
    MaxTime = 6
INVARIANTS ExpiredDidNotLand
CHECK_DEADLOCK FALSE
