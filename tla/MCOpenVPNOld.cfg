CONSTANTS
    MaxStarts = 2
    MaxFailures = 0
    MaxStops = 1
SPECIFICATION Spec
INVARIANTS OldIsOutOfTheWay
CHECK_DEADLOCK FALSE
