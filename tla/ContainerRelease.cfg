SPECIFICATION Spec
CONSTANTS
    Missing = Missing
    Starter = Starter
    Foreign = Foreign
    MaxBuilds = 2
    MaxFaults = 2
    MaxPolls = 2
    MaxRuns = 1
    MaxForeign = 1
INVARIANTS
    AllOrNothing
    PublishedIsWhole
    DeliveredIsWhole
PROPERTIES
    UndisturbedRunSucceeds
    ReleaseGoesForward
CHECK_DEADLOCK FALSE
