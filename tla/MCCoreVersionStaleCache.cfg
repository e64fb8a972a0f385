\* Two overlapping passes share util.cache: a pass can act on a docker
\* answer obtained before it started (expected: violation).
CONSTANTS
    i1 = i1
    i2 = i2
    v1 = v1
    v2 = v2
    Images = {i1, i2}
    Names = {v1, v2}
    NoName = NoName
    Descs = {1, 2, 3}
    DescImages <- MCDescImages
    DescName <- MCDescName
    Broadcast = Broadcast
    LocalOnly = LocalOnly
    Miss = Miss
    QueueCapacity = 2
    MaxTriggers = 1
    MaxImageChanges = 1
    DockerMayFail = FALSE
    ApiMayFail = FALSE
SPECIFICATION Spec
INVARIANT ImageVerdictFresh
CHECK_DEADLOCK FALSE
