\* The recent-log listing fails after the folder listing succeeded.
CONSTANTS
    i1 = i1
    i2 = i2
    i3 = i3
    Instances = {i1, i2}
    Resident = {i1}
    SshMayFail = TRUE
    ApiMayFail = FALSE
    PodsMayStart = FALSE
SPECIFICATION Spec
PROPERTY OnlyOrphansDeleted
