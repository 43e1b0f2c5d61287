CONSTANTS
    Kids <- UidKids
    Args <- UidArgs
    ROOT = 0
    make_kid <- UidMake
    INVALID = INVALID
    OVERFLOW = 65534
    Families <- UidFamilies
SPECIFICATION MCSpec
INVARIANTS
    IdsHold
    NamesKept
    SizesTold
    PriorityAnswers
PROPERTIES
    IdsChange
CHECK_DEADLOCK FALSE
