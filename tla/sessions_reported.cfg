SPECIFICATION Spec
CONSTANTS
    None = None
    Users = {u1, u2}
    Sessions = {s1, s2}
    Slots = {r1, r2}
    Tunnels <- MCTunnels
    MaxCount = 1
    Failures = TRUE
CONSTRAINT Bounds
SYMMETRY Symmetry
INVARIANTS TypeOK OneRowPerTunnel EndedAsCounted ActiveAreTunnels AnswersHold CountsAgree
PROPERTIES ImplementsLedger
