SPECIFICATION Spec
CONSTANTS
    e1 = e1  e2 = e2  v1 = v1  v2 = v2
    Names <- MCNames
    Temp = "temp"
    Partial = Partial
    Torn = Torn
    Nothing = Nothing
    None = None
    Anything = Anything
    Evidences = {e1, e2}
    Approved = {e1, e2}
    Assured = {e1}
    Versions = {v1, v2}
    Affected <- MCAffected
    Fixed <- MCFixed
    Rests = {1, 2}
    MaxEdits = 1
    MaxFaults = 2
INVARIANTS TypeOK SnapshotsAreWhole OutcomeIsWhole
PROPERTIES KeepsOthersFiles
CHECK_DEADLOCK FALSE
