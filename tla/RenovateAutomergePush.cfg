\* Two acts of the bot, two of people, nothing fails.
SPECIFICATION Spec
CONSTANTS
    b1 = b1
    b2 = b2
    h1 = h1
    BotHeads <- MCBotHeads
    OtherHeads <- MCOtherHeads
    FirstHead = b1
    MaxActs <- MCShortActs
    MaxFaults = 0
INVARIANT PersonPushRevokes
CHECK_DEADLOCK FALSE
