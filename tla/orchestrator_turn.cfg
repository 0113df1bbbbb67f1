SPECIFICATION FairSpec
CONSTANTS
    Plans <- SomePlans
    Routable = {"w", "v"}
    MaxAttempts = 3
    MaxReplans = 2
    None = None
INVARIANTS TypeOK RanFresh  NeverStuck
PROPERTIES TurnEnds
CHECK_DEADLOCK FALSE
