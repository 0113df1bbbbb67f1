SPECIFICATION FairSpec
CONSTANTS
    p1 = p1
    p2 = p2
    run1 = run1
    run2 = run2
    state = state
    Procs = {p1, p2}
    Resources = {run1, state}
    Plan <- Contender
    Writers = {p1}
    Nobody = Nobody
    Ttl = 2
    RenewEvery = 1
    Guard = 1
    Grace = 0
    MaxCall = 0
    WriteTime = 0
    Prompt = FALSE
    MaxErrors = 1
    MaxTime = 2
INVARIANTS  RefusedHoldsNothing
PROPERTIES LossStopsRun
CHECK_DEADLOCK FALSE
