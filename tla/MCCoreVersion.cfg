\* Reconciler of one node with concurrent passes, checked for what the code
\* guarantees: recorded versions are verified and every pass returns.
CONSTANTS
    i1 = i1
    i2 = i2
    v1 = v1
    v2 = v2
    Images = {i1, i2}
    Names = {v1, v2}
    NoName = NoName
    Descs = {1, 2, 3}
    DescImages <- MCDescImages
    DescName <- MCDescName
    Broadcast = Broadcast
    LocalOnly = LocalOnly
    Miss = Miss
    QueueCapacity = 2
    MaxTriggers = 1
    MaxImageChanges = 1
    DockerMayFail = TRUE
    ApiMayFail = TRUE
SPECIFICATION Spec
INVARIANT TypeOK
INVARIANT RecordedVersionsVerified
CHECK_DEADLOCK FALSE
