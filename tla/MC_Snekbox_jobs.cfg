\* Alice's eval and timeit, each re-evaluated at most twice, against her edits, reactions and deletions.
CONSTANTS
    e1 = e1
    e2 = e2
    e3 = e3
    alice = alice
    bob = bob
    Evals <- MCEvalsAlice
    Authors <- MCAuthors
    Owner <- MCOwnerAlice
    Kind <- MCKindAlice
    Args <- MCArgs
    CodeLen = 5
    MaxReevals = 2
    LineLimit = 1
    CharLimit = 4
    MaxPasteLen = 3
    SignalNumbers = {9, 11}
    NoCode <- MCNoCode
    Stdouts <- MCStdouts
    ReturnCodes <- MCReturnCodes
    ServiceErrors <- MCServiceErrors
SPECIFICATION Spec
INVARIANTS TypeOK JobsNotStale EvalMessageIntact OutputShownOrNoticed EmojiOnlyWhileWaiting InputPreparedAsWritten
PROPERTY EveryInvocationEnds
CHECK_DEADLOCK FALSE
