CONSTANTS
    None = None
    MaxVersion = 2
    MaxLost = 1
    MaxKeys = 3
SPECIFICATION FairSpec
INVARIANT PollingNeverStops
INVARIANT RecoveryScheduled
INVARIANT OneEffectPerIntention
INVARIANT OneOpenTask
PROPERTY NewVersionSeen
PROPERTY MapComesBack
