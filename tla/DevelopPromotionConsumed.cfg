SPECIFICATION Spec
CONSTANTS
    None = None
    Malformed = Malformed
    MaxDevelop = 1
    MaxMain = 1
    MaxFaults = 2
    MaxEdits = 2
INVARIANTS ConsumedForGood
CHECK_DEADLOCK FALSE
