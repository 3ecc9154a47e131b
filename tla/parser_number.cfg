SPECIFICATION Spec
CONSTANTS
    Words = {"foo", "bar", "baz"}
    Patterns = {"?a"}
    Numeral <- Numbers
    Quoted <- Quotes
    Other = "@"
    Actions <- SomeActions
    Uid <- SomeUsers
    Gid <- SomeGroups
    IntBits = 4
    Texts <- NumberTexts
    NULL = NULL
INVARIANT NumbersExact
