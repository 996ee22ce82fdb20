\* Every clean command the front-ends can issue, through validation,
\* resolution and the predicate.
CONSTANTS
    c1 = c1
    c2 = c2
    u1 = u1
    u2 = u2
    r1 = r1
    None = None
    Star = Star
    Channels = {c1, c2}
    Users = {u1, u2}
    Patterns = {r1}
    Times = {1, 2, 3}
    Here = c1
    MessageLimit = 3
    DefaultTraverse = 2
    GroupInputs <- MCGroupInputs
    SubInputs <- MCSubInputs
    RangeInputs <- MCRangeInputs
SPECIFICATION Spec
INVARIANTS TypeOK FilterSpecInvariants 
CHECK_DEADLOCK FALSE
