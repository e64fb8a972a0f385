\* ipmitool exits 0 with a non-warning stderr: getNodeOobIp returns "" and
\* no error, and the OOB condition's address is replaced by nothing.
CONSTANTS
    a1 = a1
    a2 = a2
    IPs = {a1}
    NoIP = NoIP
    OobAddr = OobAddr
    Placeholder = Placeholder
    Hour = 1
    ApiMayFail = FALSE
    LinkMayFail = FALSE
    OobBlankMayOccur = TRUE
    StderrOutputs = {""}
SPECIFICATION Spec
PROPERTY AddressNeverLost
