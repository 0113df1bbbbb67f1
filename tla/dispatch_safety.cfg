SPECIFICATION Spec
CONSTANTS
    Loops = {l1, l2}
    Events = {e1, e2, e3}
    Turns = {t1, t2}
    MaxInFlight = 1
    MaxQueued = 1
    NoEvent = NoEvent
SYMMETRY Symmetry
INVARIANTS TypeOK Excludes  CountersExact NoOrphanLock QuietAfterDrain
PROPERTIES QueuedNeverStart ReportAddsUp
CHECK_DEADLOCK FALSE
