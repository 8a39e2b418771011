CONSTANTS
    s1 = s1
    s2 = s2
    k1 = k1
    k2 = k2
    k3 = k3
    r1 = r1
    r2 = r2
    c1 = c1
    c2 = c2
    None = None
    Stocks = {s1, s2}
    Keys = {k1, k2, k3}
    DispatchKeys = {r1, r2}
    Clients = {c1, c2}
    MaxQuantity = 2
    MaxInt = 3
SPECIFICATION Spec
SYMMETRY Symmetry
INVARIANT AccountsAgree
INVARIANT LocksSuffice
INVARIANT DispatchKeptByKey
INVARIANT SomeoneProceeds
