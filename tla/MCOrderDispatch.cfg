CONSTANTS
    o1 = o1
    v1 = v1
    k1 = k1
    k2 = k2
    c1 = c1
    c2 = c2
    d1 = d1
    d2 = d2
    d3 = d3
    None = None
    o3 = o3
    Orders = {o1, o3}
    Vehicles = {v1}
    Keys = {k1, k2}
    Clients = {c1, c2}
    Deliveries = {d1, d2, d3}
    LegacyOrders = {o3}
SPECIFICATION FairSpec
PROPERTY RequestsFinish
INVARIANT StatesAgree
INVARIANT OneCommandPerKey
INVARIANT LocksSuffice
INVARIANT KeyBindingKept
