SPECIFICATION Spec
CONSTANTS
    Loops = {l1, l2}
    Events = {e1, e2}
    Turns = {t1}
    MaxInFlight = 1
    MaxQueued = 2
    NoEvent = NoEvent
PROPERTIES DrainEnds EventsSettle
CHECK_DEADLOCK FALSE
