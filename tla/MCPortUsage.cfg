\* Ports taken and released, the ranges edited, the switch flipped and API
\* outages: the published ConfigMap converges once the host settles.
CONSTANTS
    Ports <- MCPorts
    Values <- MCValues
    SwitchValues <- MCSwitchValues
    ApiMayFail = TRUE
    HostMayChange = TRUE
    MaxEdits = 2
SPECIFICATION Spec
INVARIANT TypeOK
INVARIANT ParseRangeMatchesReference
INVARIANT SwitchParseMatchesReference
PROPERTY PublishedConverges
