SPECIFICATION FairSpec
CONSTANTS
    Writers = {w1, w2}
    Entries <- MCEntries
    Max = 2
    Table0 <- MCTable0
    MaxParams = 2
    Faults = TRUE
INVARIANTS TypeOK NewestKept OvershootBounded LoginGetsToken
PROPERTY EventuallyTrimmed
