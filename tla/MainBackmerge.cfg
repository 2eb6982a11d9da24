\* Two moves of main, two of develop, two failures or actions of people.
SPECIFICATION FairRuns
CONSTANTS
    MaxDevelop = 2
    MaxMain = 2
    MaxMishaps = 2
INVARIANTS
    OnePullRequestPerHead
    ArmedIsExact
    UploadRefIsCleaned
    ContractHolds
    ConflictsAreOvertaken
PROPERTIES BranchesFlow MainIsOffered
CHECK_DEADLOCK FALSE
