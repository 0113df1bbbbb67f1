SPECIFICATION Spec
CONSTANTS
    c1 = c1
    c2 = c2
    c3 = c3
    desk = desk
    other = other
    None = None
    Calls = {c1, c2, c3}
    Asks <- Trades
    Sandbox <- OneDesk
    Home = desk
    Prices = {2, 4}
    InitialCash = 10
    Fee = 1
    Rate = 1
    MaxNotional = 4
    MaxOrders = 2
    Window = 2
    DailyLimit = 1
    TotalLimit = 3
    Degraded = TRUE
    Hour = 2
    Day = 4
    ProbeFails = FALSE
    RateFails = TRUE
    MaxLag = 1
    MaxOps = 0
    MaxReads = 0
    StartTime = 1
    MaxTime = 2
INVARIANTS TypeOK OneOrderPerId PositionCap CashConserved FundingOnce
   
CHECK_DEADLOCK FALSE
