CONSTANTS
    Selves = {o1}
    Sources = {s1, s2}
    NULL = NULL
    Off = Off
    MaxCred = 1
    MaxHeld = 1
SPECIFICATION Spec
INVARIANT
    NewSharedAssert
