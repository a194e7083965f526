SPECIFICATION Spec
CONSTANTS
    None = None
    Keep = Keep
    root = root mia = mia uma = uma new = new
    nRoot = nRoot nMia = nMia nUma = nUma nNew = nNew
    eRoot = eRoot eMia = eMia eUma = eUma eNew = eNew
    p1 = p1 p2 = p2
    AddressOf <- MCAddressOf
    Ids <- MCIds
    Names <- MCNames
    Mails <- MCMails
    Pwds <- MCPwds
    Users0 <- MCUsers0
    Slots = {r1, r2}
    Inputs <- CreatingInputs
    Configured = TRUE
    NetSize = 4
    ServerIP = 2
    Failures = FALSE
PROPERTY LiveNotOverwritten
