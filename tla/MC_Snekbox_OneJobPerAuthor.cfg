\* The same model, checking OneJobPerAuthor alone.
CONSTANTS
    e1 = e1
    e2 = e2
    e3 = e3
    alice = alice
    bob = bob
    Evals <- MCEvals
    Authors <- MCAuthors
    Owner <- MCOwner
    Kind <- MCKind
    Args <- MCArgs
    CodeLen = 5
    MaxReevals = 2
    LineLimit = 1
    CharLimit = 4
    MaxPasteLen = 3
    SignalNumbers = {9, 11}
    NoCode <- MCNoCode
    Stdouts <- MCStdouts
    ReturnCodes <- MCReturnCodes
    ServiceErrors <- MCServiceErrors
SPECIFICATION Spec
INVARIANTS OneJobPerAuthor
CHECK_DEADLOCK FALSE
