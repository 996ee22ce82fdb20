\* One clean at a time, against stop commands, a failing command, other users' deletions and the clock.
CONSTANTS
    i1 = i1
    c1 = c1
    c2 = c2
    Inv = {i1}
    Channels <- MCChannels
    GuildOrder <- MCGuildOrder
    Msgs <- MCMsgs
    Chan <- MCChan
    Requests <- MCRequests
    SnowShift = 1
    AgeLimit = 1
    StartTime = 3
    MaxTime = 4
    BulkCap = 2
    PageSize = 2
    Others <- MCMsgs
    MaxCancels = 1
    MaxErrors = 1
SPECIFICATION Spec
INVARIANT TypeOK
INVARIANT CleanDeletesWhatMatched
PROPERTY BulkCallsAccepted
PROPERTY StopHonoured
PROPERTY ImplementsSessions
PROPERTY IndividualOnlyTooOld
CHECK_DEADLOCK FALSE
