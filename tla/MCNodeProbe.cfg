\* The probe of one node under NIC flaps, address changes, SSH and API
\* outages: addresses survive failed lookups and the client-network
\* condition converges once the node is healthy.
CONSTANTS
    a1 = a1
    a2 = a2
    IPs = {a1, a2}
    NoIP = NoIP
    OobAddr = OobAddr
    Placeholder = Placeholder
    Hour = 1
    ApiMayFail = TRUE
    LinkMayFail = TRUE
    OobBlankMayOccur = FALSE
    StderrOutputs <- MCStderrOutputs
SPECIFICATION Spec
PROPERTY AddressNeverLost
PROPERTY ClientNetConverges
PROPERTY ClientIPConverges
