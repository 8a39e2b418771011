CONSTANTS
    a1 = a1
    a2 = a2
    op1 = op1
    op2 = op2
    k1 = k1
    k2 = k2
    c1 = c1
    c2 = c2
    t1 = t1
    t2 = t2
    None = None
    Alerts = {a1, a2}
    Operators = {op1, op2}
    Keys = {k1}
    Clients = {c1, c2}
    Consumers = {t1, t2}
    MaxReadings = 3
SPECIFICATION AlertSpec
SYMMETRY Symmetry
INVARIANT LifeIsAnnounced
PROPERTY NeverReplaced
CHECK_DEADLOCK FALSE
