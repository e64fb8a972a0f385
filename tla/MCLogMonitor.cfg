\* One long-running instance and two that come and go, with SSH and API
\* outages: every orphan folder is eventually cleaned up.
CONSTANTS
    i1 = i1
    i2 = i2
    i3 = i3
    Instances = {i1, i2, i3}
    Resident = {i1}
    SshMayFail = TRUE
    ApiMayFail = TRUE
    PodsMayStart = TRUE
SPECIFICATION Spec
INVARIANT TypeOK
PROPERTY OrphansEventuallyRemoved
