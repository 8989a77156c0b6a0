CONSTANTS
    MaxStarts = 2
    MaxFailures = 1
    MaxStops = 1
SPECIFICATION FairSpec
INVARIANTS TypeOK AttachedIsStoppable ReplacementIsComplete DestroyedLeavesNothing
PROPERTIES StartCompletes EverythingEnds
CHECK_DEADLOCK FALSE
