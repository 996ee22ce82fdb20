\* Violation: a clean that was stopped goes on deleting once another clean has taken the flag.
CONSTANTS
    i1 = i1
    i2 = i2
    c1 = c1
    c2 = c2
    Inv = {i1, i2}
    Channels <- MCChannels
    GuildOrder <- MCGuildOrder
    Msgs <- MCMsgsTwo
    Chan <- MCChanTwo
    Requests <- MCRequestsTwo
    SnowShift = 1
    AgeLimit = 1
    StartTime = 3
    MaxTime = 4
    BulkCap = 2
    PageSize = 2
    Others = {}
    MaxCancels = 1
    MaxErrors = 1
SPECIFICATION Spec
CHECK_DEADLOCK FALSE
PROPERTY StopHonoured
