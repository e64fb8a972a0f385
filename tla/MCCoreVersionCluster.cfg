\* Two daemons under the spec's peer wire contract, with peer posts that
\* fail, time out or wait on a full channel; every request is served.
CONSTANTS
    n1 = n1
    n2 = n2
    Nodes = {n1, n2}
    Ext = Ext
    None = None
    Broadcast = Broadcast
    LocalOnly = LocalOnly
    QueueCapacity = 2
    MaxTriggers = 3
    NotifyScheme <- ContractScheme
    NotifyPath <- ContractPath
    ServerScheme <- ContractScheme
    PostMayFail = TRUE
    ApiMayFail = TRUE
SPECIFICATION Spec
INVARIANT TypeOK
PROPERTY EveryTriggerServed
PROPERTY PeersRecheck
CHECK_DEADLOCK FALSE
