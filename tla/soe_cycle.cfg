SPECIFICATION Spec
CONSTANTS
    Procs = {p1, p2}
    Weeks = {1, 2}
    Asks <- TwoWeeks
    MaxLines = 2
    MaxFaults = 2
    NoOne = NoOne
INVARIANTS EachLineOnce ChainHolds
PROPERTIES FrozenIsLogged
