SPECIFICATION FairSpec
CONSTANTS
    None = None
    Absent = Absent
    Unreadable = Unreadable
    Unset = Unset
    Unparsable = Unparsable
    Strings = {"", "postgres", "mysql", "key", "other", "shared"}
    Users = {k1, k2}
    Other = k2
    Tables = {"users"}
    Files <- MCFiles
    Environments <- MCEnvironments
    DefaultExpiry = 2
    DefaultLimit = 3
    Seed <- MCSeed
    Accounts <- MCAccounts
    MaxFaults = 1
    Passwords = {"p"}
    Roles = {"ADMIN", "USER"}
    Tokens = {t1}
    Slots = {r1}
    DayLength = 2
    Horizon = 5
    Days = {1}
    Periods <- MCPeriods
    MaxChanges = 1
INVARIANTS TypeOK UpMeansReady LoginTellsValidity DoorsAgree
PROPERTIES StartKeepsAccounts ComesUp RightsEnd
ACTION_CONSTRAINT Asked
