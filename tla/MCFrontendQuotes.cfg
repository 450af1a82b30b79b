CONSTANTS
    Symbols = {"INFY"}
    Keys <- BothSpellings
    Norm <- NormNs
    Aliases <- AllAliases
    TickKeys <- BothKeys
    Held = {"INFY.NS"}
    RestForms = {"stamped", "bare"}
    OfficialAnswers = {TRUE, FALSE}
    TickSources = {"live", "none"}
    Protect = 1
    MaxRuns = 1
    MaxTime = 2
    MaxTrades = 2
    MaxCalls = 2
    MaxPolls = 1
    MaxQueue = 1
    MaxSeq = 1
SPECIFICATION Spec
INVARIANTS TypeOK SpellingsAgree NoStuckGuards
PROPERTIES AuthorityNeverRewinds TickReachesEveryStore OfficialReachesEveryStore
CHECK_DEADLOCK FALSE
