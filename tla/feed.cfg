SPECIFICATION FairSpec
CONSTANTS
    Kinds = {"tool", "tick"}
    Calls = {1, 2}
    Schedule <- AtAndGrid
    Every = 2
    Jitter = 1
    AtGrace = 1
    Window = 2
    Cap = 1
    MaxPark = 3
    StaleAfter = 3
    Ahead = 4
    Back = 1
    MaxJumps = 1
    None = None
INVARIANTS TypeOK OwedIsRetried
PROPERTIES ParkHolds FeedRecovers
