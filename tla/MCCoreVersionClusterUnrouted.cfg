\* Two daemons with the peer URL the code builds and the server it starts,
\* and a network that loses no post (expected: violation).
CONSTANTS
    n1 = n1
    n2 = n2
    Nodes = {n1, n2}
    Ext = Ext
    None = None
    Broadcast = Broadcast
    LocalOnly = LocalOnly
    QueueCapacity = 2
    MaxTriggers = 1
    NotifyScheme <- CodeNotifyScheme
    NotifyPath <- CodeNotifyPath
    ServerScheme <- CodeServerScheme
    PostMayFail = FALSE
    ApiMayFail = FALSE
SPECIFICATION Spec
CHECK_DEADLOCK FALSE
PROPERTY BroadcastReachesPeers
