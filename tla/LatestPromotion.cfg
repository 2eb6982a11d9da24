\* Two variants (three in the source); three rollback attempts, as in the source, two
\* queued runs, one foreign write, three calls that raise.
SPECIFICATION FairSpec
CONSTANTS
    old = old
    d1 = d1
    d2 = d2
    Absent = Absent
    VariantCount = 2
    RollbackAttempts = 3
    Releases = {1, 2}
    Digests <- MCDigests
    DigestOf <- MCDigestOf
    InitialTags <- MCInitialTags
    MaxRuns = 2
    MaxForeign = 1
    MaxFaults = 3
INVARIANTS
    SuccessMeansCompleteSet
    NoStaleSuccess
    RestoredMeansSnapshot
    RollbackOutlastsFaults
PROPERTIES
    ForeignValuesSurvive
    LatestFollowsSuccesses
    TagsTransact
    RunsEnd
CHECK_DEADLOCK FALSE
