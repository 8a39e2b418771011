CONSTANTS
    p1 = p1
    p2 = p2
    k1 = k1
    aggregate = aggregate
    None = None
    Events = {1, 2}
    KeyOf <- MCKeyOf
    Publishers = {p1, p2}
    RetryKeys = {k1}
    MaxAttempts = 2
    MaxCrashes = 1
SPECIFICATION FairSpec
INVARIANT NoCommittedEventLost
INVARIANT OneHolder
INVARIANT DuplicatesAccounted
PROPERTY RearmIsAudited
PROPERTY ImplementsRelay
CHECK_DEADLOCK FALSE
PROPERTY EventuallySettled
