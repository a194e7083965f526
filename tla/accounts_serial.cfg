SPECIFICATION Spec
CONSTANTS
    None = None
    Keep = Keep
    root = root mia = mia uma = uma new = new
    nRoot = nRoot nMia = nMia nUma = nUma nNew = nNew
    eRoot = eRoot eMia = eMia eUma = eUma eNew = eNew
    p1 = p1 p2 = p2
    AddressOf <- MCAddressOf
    Ids <- MCIds
    Names <- MCNames
    Mails <- MCMails
    Pwds <- MCPwds
    Users0 <- MCUsers0
    Slots = {r1}
    Inputs <- SerialInputs
    Configured = TRUE
    NetSize = 4
    ServerIP = None
    Failures = TRUE
INVARIANT UniqueVpnIp
PROPERTY ImplementsRegistry
