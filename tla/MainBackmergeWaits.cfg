\* Two pushes to main before the backmerge of the first is merged.
SPECIFICATION FairSpec
CONSTANTS
    MaxDevelop = 2
    MaxMain = 2
    MaxMishaps = 0
PROPERTY BackmergeArrives
CHECK_DEADLOCK FALSE
