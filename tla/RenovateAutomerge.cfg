\* The bot acts three times, people twice, one failure.
SPECIFICATION FairSpec
CONSTANTS
    b1 = b1
    b2 = b2
    h1 = h1
    BotHeads <- MCBotHeads
    OtherHeads <- MCOtherHeads
    FirstHead = b1
    MaxActs <- MCMaxActs
    MaxFaults = 1
INVARIANTS TypeOK UnsafeIsRevoked ForcedRunRevokes BotIsEnough
PROPERTIES EnabledForExactHead RevokedInTime
CHECK_DEADLOCK FALSE
