SPECIFICATION FairSpec
CONSTANTS
    None = None
    Malformed = Malformed
    MaxDevelop = 1
    MaxMain = 1
    MaxFaults = 2
    MaxEdits = 1
INVARIANTS TypeOK OneReviewPerHead SucceededWasReviewed
PROPERTIES TombstonesAreFinal ContentIsOffered
CHECK_DEADLOCK FALSE
