CONSTANTS
    Files <- MCFiles
    Spellings <- MCSpellings
    KeyOf <- MCKeyOf
    Max32 = 3
    Max64 = 15
    NULL = NULL
CHECK_DEADLOCK FALSE
SPECIFICATION Spec
INVARIANTS
    TypeOK
    ReadsWhole
    GroupsFit
    IdsExact
    GroupsOwned
