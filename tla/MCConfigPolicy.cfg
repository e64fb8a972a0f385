\* Three goroutines share the policy while the record is edited and the API
\* server comes and goes: every caller eventually receives the current record.
CONSTANTS
    probe = probe
    portUsage = portUsage
    logMonitor = logMonitor
    Callers = {probe, portUsage, logMonitor}
    TTL = 2
    MaxVersion = 2
    None = None
    ApiMayFail = TRUE
SPECIFICATION Spec
PROPERTY EventuallyCurrent
