CONSTANTS
    a1 = a1
    a2 = a2
    op1 = op1
    op2 = op2
    k1 = k1
    k2 = k2
    c1 = c1
    c2 = c2
    t1 = t1
    t2 = t2
    None = None
    Alerts = {a1}
    Operators = {op1, op2}
    Keys = {k1, k2}
    Clients = {c1}
    Consumers = {t1}
    MaxReadings = 2
SPECIFICATION AlertSpec
INVARIANT AcknowledgedOnce
CHECK_DEADLOCK FALSE
