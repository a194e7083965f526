CONSTANTS
    u1 = u1  u2 = u2  mia = mia  g1 = g1  g2 = g2  g3 = g3  n1 = n1  n2 = n2
    a = a  b = b  c = c  c1 = c1  c2 = c2  s1 = s1  s2 = s2
    None = None  Keep = Keep  Malformed = Malformed
    Users <- MCUsers
    Managers <- MCManagers
    ManagerOf <- MCManagerOf
    Groups <- MCGroups
    Networks <- MCNetworks
    Names <- MCNames
    Cidrs <- MCCidrs
    Items0 <- MCItems0
    Members0 <- MCMembers0
    Grants0 <- MCGrants0
    Slots = {s1, s2}
    Inputs <- MCInputs
    Failures = TRUE
SYMMETRY Symmetry
CONSTRAINT Pairs
SPECIFICATION Spec
INVARIANTS TypeOK RoutesWereGranted RoutesComplete OrphansOnlyByRace AnswerTellsWhatWasStored
PROPERTIES DeletedItemsStay AccessGrows
