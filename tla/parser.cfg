SPECIFICATION Spec
CONSTANTS
    Words = {"foo", "bar", "baz", "qux"}
    Patterns = {"?a"}
    Numeral <- Numbers
    Quoted <- Quotes
    Other = "@"
    Actions <- SomeActions
    Uid <- SomeUsers
    Gid <- SomeGroups
    IntBits = 4
    Texts <- SomeTexts
    NULL = NULL
INVARIANTS TypeOK LinksFreedOnce AcceptsPolicies CompilesText UnmixedIsUsual
