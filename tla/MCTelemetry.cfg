CONSTANTS
    moving = moving
    detour = detour
    done = done
    redone = redone
    broken = broken
    i1 = i1
    i2 = i2
    Events = {moving, detour, done, redone, broken}
    EventOf <- MCEventOf
    Full = 2
    Instances = {i1, i2}
    MaxLog = 3
    MaxMoves = 2
SPECIFICATION Spec
SYMMETRY Symmetry
INVARIANT OnlyForward
INVARIANT FulfilledWithDelivery
INVARIANT NothingSkipped
CHECK_DEADLOCK FALSE
