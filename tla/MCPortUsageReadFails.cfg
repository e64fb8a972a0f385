\* A steady host whose ranges and used ports never change, with API outages:
\* a failed read of the MPD ConfigMap empties the published port list.
CONSTANTS
    Ports <- MCPorts
    Values <- MCValues
    SwitchValues <- MCSwitchValues
    ApiMayFail = TRUE
    HostMayChange = FALSE
    MaxEdits = 0
SPECIFICATION Spec
PROPERTY RemovedOnlyWhenSeenFree
