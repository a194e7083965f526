SPECIFICATION Spec
CONSTANTS
    Writers = {w1, w2}
    Entries <- MCEntries
    Max = 2
    Table0 <- MCTable0
    MaxParams = 2
    Faults = TRUE
INVARIANT NoEmptyAnswer
