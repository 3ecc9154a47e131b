SPECIFICATION Spec
CONSTANTS
    Ids = {0, 1, 2}
    Actions = {"call"}
    Args = {"arg1", "arg2"}
    Patterns = {"p"}
    Globs <- PatternGlobs
    Creds <- SomeCreds
    Atoms <- FiveAtoms
    Depth = 2
    NULL = NULL
INVARIANTS EqualCanonical EqualSound MatchMonotone
CHECK_DEADLOCK FALSE
