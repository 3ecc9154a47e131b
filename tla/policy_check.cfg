SPECIFICATION Spec
CONSTANTS
    Ids = {0, 1, 2}
    Actions = {"call"}
    Args = {}
    Patterns = {}
    Globs <- NoGlobs
    Creds <- SomeCreds
    Atoms <- TwoAtoms
    Depth = 1
    NULL = NULL
    Threads = {t1, t2}
    Policies = {p1, p2}
    Specs <- SomeSpecs
    Idle = Idle
SYMMETRY PolicySymmetry
INVARIANTS TypeOK RefsCounted CheckedPolicyAlive ChecksDecide EqualPoliciesAgree
