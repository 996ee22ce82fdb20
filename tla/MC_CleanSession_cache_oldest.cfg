\* Violation: a cache clean scans the oldest cached messages, not the newest.
CONSTANTS
    i1 = i1
    c1 = c1
    c2 = c2
    Inv = {i1}
    Channels <- MCChannels
    GuildOrder <- MCGuildOrder
    Msgs <- MCMsgs
    Chan <- MCChan
    Requests <- MCRequestsCacheTwo
    SnowShift = 1
    AgeLimit = 1
    StartTime = 3
    MaxTime = 4
    BulkCap = 2
    PageSize = 2
    Others <- MCMsgs
    MaxCancels = 1
    MaxErrors = 1
SPECIFICATION Spec
CHECK_DEADLOCK FALSE
INVARIANT CleanDeletesWhatMatched
