CONSTANTS
    position = position
    delivery = delivery
    op1 = op1
    op2 = op2
    k1 = k1
    k2 = k2
    c1 = c1
    c2 = c2
    p1 = p1
    None = None
    Home <- MCHome
    Payloads = {position, delivery}
    Operators = {op1, op2}
    Keys = {k1}
    Clients = {c1, c2}
    Plans = {p1}
    MaxLetters = 2
    MaxLost = 1
SPECIFICATION Spec
SYMMETRY Symmetry
INVARIANT OneRecovery
INVARIANT NothingUncatalogued
INVARIANT ExecutedMeansAll
PROPERTY OutcomeIsFinal
CHECK_DEADLOCK FALSE
