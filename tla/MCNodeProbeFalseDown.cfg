\* An SSH connection lost after enSureSshConn is reported as a network outage.
CONSTANTS
    a1 = a1
    a2 = a2
    IPs = {a1}
    NoIP = NoIP
    OobAddr = OobAddr
    Placeholder = Placeholder
    Hour = 1
    ApiMayFail = FALSE
    LinkMayFail = TRUE
    OobBlankMayOccur = FALSE
    StderrOutputs = {""}
SPECIFICATION Spec
PROPERTY NoFalseDown
