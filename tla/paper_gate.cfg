SPECIFICATION Spec
CONSTANTS
    c1 = c1
    c2 = c2
    c3 = c3
    desk = desk
    other = other
    None = None
    Calls = {c1, c2, c3}
    Asks <- Entries
    Sandbox <- TwoDesks
    Home = desk
    Prices = {2}
    InitialCash = 10
    Fee = 1
    Rate = 0
    MaxNotional = 4
    MaxOrders = 1
    Window = 2
    DailyLimit = 0
    TotalLimit = 1
    Degraded = TRUE
    Hour = 8
    Day = 1
    ProbeFails = TRUE
    RateFails = FALSE
    MaxLag = 1
    MaxOps = 3
    MaxReads = 1
    StartTime = 0
    MaxTime = 2
INVARIANTS RateCap
PROPERTIES HaltHolds
CHECK_DEADLOCK FALSE
