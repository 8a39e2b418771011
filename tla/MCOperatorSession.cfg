CONSTANTS
    a1 = a1
    a2 = a2
    s1 = s1
    s2 = s2
    Absent = Absent
    Attempts = {a1, a2}
    OldToken = OldToken
    Slots = {s1, s2}
    MaxRequest = 1
    MaxAnswer = 1
    MaxChunk = 2
SPECIFICATION Spec
INVARIANT NoCodeWasted
INVARIANT LogoutIsFinal
PROPERTY SessionKept
SYMMETRY Symmetry
CHECK_DEADLOCK FALSE
