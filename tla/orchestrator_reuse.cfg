SPECIFICATION Spec
CONSTANTS
    Plans <- TwoPlans
    Routable = {"w", "v"}
    MaxAttempts = 1
    MaxReplans = 2
    None = None
INVARIANTS ReuseFresh
CHECK_DEADLOCK FALSE
