------------------------- MODULE CoreVersionCluster -------------------------
(***************************************************************************)
(* The core-version request path of a cluster of polarstack-daemon nodes  *)
(* (core_version/core_version_check.go, core_version_controller.go,       *)
(* bizapis/bizapi.go and route.go, util/http_client.go).                  *)
(*                                                                         *)
(* Every node runs StartCheckCoreVersion on its own CheckRequestQueue.  A *)
(* Broadcast request makes the consumer goroutine itself post to every    *)
(* peer daemon, one after the other, with an http.Client whose timeout is *)
(* 3s.  The peer's InnerCheckCoreVersion handler answers only after its   *)
(* send on the peer's channel went through, so a post can wait on a peer  *)
(* whose channel is full and whose consumer is itself posting.            *)
(*                                                                         *)
(* The passes a Launch starts are those of CoreVersion and are not        *)
(* repeated here: a launch is counted.  A channel entry carries, besides  *)
(* its kind, where it came from; the code does not read this field, the   *)
(* properties do.                                                          *)
(***************************************************************************)
EXTENDS Naturals, Sequences, FiniteSets

CONSTANTS
    Nodes,          \* the daemons, one per host
    Ext,            \* an HTTP client outside the daemons
    None,           \* no post awaiting an answer
    Broadcast,      \* CheckCoreVersionOperatorType
    LocalOnly,      \* SingleCheckCoreVersionOperatorType
    QueueCapacity,  \* capacity of CheckRequestQueue
    MaxTriggers,    \* bound on RequestCheckCoreVersion calls per node
    NotifyScheme,   \* scheme of the peer URL startNotifyOtherNode builds
    NotifyPath,     \* path of that URL
    ServerScheme,   \* scheme the daemon's HTTP server accepts
    PostMayFail,    \* a peer post may fail in the network
    ApiMayFail      \* the daemon-pod List may fail

ASSUME
    /\ Ext \notin Nodes /\ None \notin Nodes
    /\ QueueCapacity \in Nat \ {0}
    /\ MaxTriggers \in Nat

Kinds == {Broadcast, LocalOnly}
Req == [kind : Kinds, src : Nodes \cup {Ext}, tag : 0..MaxTriggers]

VARIABLES
    queue,      \* queue[n]: buffered requests of n's CheckRequestQueue
    sendq,      \* sendq[n]: handlers parked on n's full channel, FIFO
    triggers,   \* triggers[n]: RequestCheckCoreVersion calls at n so far
    cpc,        \* cpc[n]: "launch" | "recv" | "notify" | "post"
    launched,   \* launched[n]: startCheckCoreVersion goroutines started
    todo,       \* todo[n]: peers n has still to post to
    wait,       \* wait[n]: the peer whose answer n's post awaits, or None
    bcast,      \* bcast[n]: startNotifyOtherNode runs past the pod List
    reached,    \* history: reached[n][q], posts of n whose handler ran at q
    served      \* history: served[q][s], requests from s that q received

vars == <<queue, sendq, triggers, cpc, launched, todo, wait, bcast, reached,
          served>>

-----------------------------------------------------------------------------
(* The HTTP transport.                                                     *)

\* util.PathPrefix and the relative paths initRoute registers.
PathPrefix == "/api/v1"
PathHealthz == "/healthz"
GroupPaths == {"InnerCheckCoreVersion", "RequestCheckCoreVersion",
               "GetStandByIp", "TestConn"}

\* The paths gin serves: the group prefix joined to each relative path.
Routes == {PathHealthz} \cup {PathPrefix \o "/" \o p : p \in GroupPaths}

\* httpClient.Host and buildRequest: u.Path = url on the peer's address.
RequestUrl == [scheme |-> NotifyScheme, path |-> NotifyPath]

\* A post runs InnerCheckCoreVersion only when the server speaks its
\* scheme and routes its path; otherwise it ends at once, with a TLS error
\* or with a 404 response and a nil error.
ReachesHandler(u) == u.scheme = ServerScheme /\ u.path \in Routes

TypeOK ==
    /\ queue \in [Nodes -> Seq(Req)]
    /\ \A n \in Nodes : Len(queue[n]) <= QueueCapacity
    /\ sendq \in [Nodes -> Seq(Req)]
    /\ triggers \in [Nodes -> 0..MaxTriggers]
    /\ cpc \in [Nodes -> {"launch", "recv", "notify", "post"}]
    /\ launched \in [Nodes -> Nat]
    /\ todo \in [Nodes -> SUBSET Nodes]
    /\ wait \in [Nodes -> Nodes \cup {None}]
    /\ bcast \in [Nodes -> 0..MaxTriggers]
    /\ reached \in [Nodes -> [Nodes -> 0..MaxTriggers]]
    /\ served \in [Nodes -> [Nodes \cup {Ext} -> Nat]]

Init ==
    /\ queue = [n \in Nodes |-> <<>>]
    /\ sendq = [n \in Nodes |-> <<>>]
    /\ triggers = [n \in Nodes |-> 0]
    /\ cpc = [n \in Nodes |-> "launch"]
    /\ launched = [n \in Nodes |-> 0]
    /\ todo = [n \in Nodes |-> {}]
    /\ wait = [n \in Nodes |-> None]
    /\ bcast = [n \in Nodes |-> 0]
    /\ reached = [n \in Nodes |-> [q \in Nodes |-> 0]]
    /\ served = [q \in Nodes |-> [s \in Nodes \cup {Ext} |-> 0]]

-----------------------------------------------------------------------------
(* The handlers: `CheckRequestQueue <- kind` (Go's chansend).              *)

\* Mutation: a send that ignores the channel's capacity.
SendIgnoresCapacity(q, r) ==
    /\ queue' = [queue EXCEPT ![q] = Append(@, r)]
    /\ UNCHANGED sendq

\* r goes into q's buffer when it has room and nobody is parked before it;
\* otherwise the handler parks.
Send(q, r) ==
    IF Len(queue[q]) < QueueCapacity /\ sendq[q] = <<>>
       THEN /\ queue' = [queue EXCEPT ![q] = Append(@, r)]
            /\ UNCHANGED sendq
       ELSE /\ sendq' = [sendq EXCEPT ![q] = Append(@, r)]
            /\ UNCHANGED queue

\* r is among the handlers parked on q's channel in the parking queue sq.
ParkedIn(sq, q, r) == \E i \in DOMAIN sq[q] : sq[q][i] = r
Parked(q, r) == ParkedIn(sendq, q, r)

\* RequestCheckCoreVersion, called from outside the daemons.
Trigger(n) ==
    /\ triggers[n] < MaxTriggers
    /\ triggers' = [triggers EXCEPT ![n] = @ + 1]
    /\ Send(n, [kind |-> Broadcast, src |-> Ext, tag |-> 0])
    /\ UNCHANGED <<cpc, launched, todo, wait, bcast, reached, served>>

\* Mutation: the handler gives up on a full channel (a select with a
\* default branch) and answers OK all the same.
PeerHandlerDropsWhenFull(q, r) ==
    IF Len(queue[q]) < QueueCapacity /\ sendq[q] = <<>>
       THEN Send(q, r) ELSE UNCHANGED <<queue, sendq>>

\* InnerCheckCoreVersion at q for a post from r.src.
PeerHandler(q, r) == Send(q, r)

-----------------------------------------------------------------------------
(* StartCheckCoreVersion and startNotifyOtherNode at node n.               *)

Launch(n) ==
    /\ cpc[n] = "launch"
    /\ launched' = [launched EXCEPT ![n] = @ + 1]
    /\ cpc' = [cpc EXCEPT ![n] = "recv"]
    /\ UNCHANGED <<queue, sendq, triggers, todo, wait, bcast, reached, served>>

\* `request := <-CheckRequestQueue`: the head of the buffer is taken and
\* the first parked sender's value moves into the buffer.
Receive(n) ==
    /\ cpc[n] = "recv"
    /\ queue[n] # <<>>
    /\ LET r == Head(queue[n]) IN
       /\ IF sendq[n] = <<>>
             THEN /\ queue' = [queue EXCEPT ![n] = Tail(@)]
                  /\ UNCHANGED sendq
             ELSE /\ queue' = [queue EXCEPT ![n] = Append(Tail(@), Head(sendq[n]))]
                  /\ sendq' = [sendq EXCEPT ![n] = Tail(@)]
       /\ served' = [served EXCEPT ![n][r.src] = @ + 1]
       /\ cpc' = [cpc EXCEPT ![n] = IF r.kind = LocalOnly THEN "launch" ELSE "notify"]
    /\ UNCHANGED <<triggers, launched, todo, wait, bcast, reached>>

\* getPolarStackDaemonNodeIps: the daemon pods, less the one on this host.
PeerIps(n) == Nodes \ {n}

\* The start of startNotifyOtherNode: a failed List returns nil ips.
ListPeers(n) ==
    /\ cpc[n] = "notify"
    /\ \/ /\ ApiMayFail
          /\ cpc' = [cpc EXCEPT ![n] = "launch"]
          /\ UNCHANGED <<todo, bcast>>
       \/ /\ todo' = [todo EXCEPT ![n] = PeerIps(n)]
          /\ bcast' = [bcast EXCEPT ![n] = @ + 1]
          /\ cpc' = [cpc EXCEPT ![n] = "post"]
    /\ UNCHANGED <<queue, sendq, triggers, launched, wait, reached, served>>

\* One HttpsPost of the loop, to a peer taken in the pods' list order.  A
\* network error is logged and the loop continues.  A post that reaches
\* the handler waits for its answer while the handler is parked.
Post(n) ==
    /\ cpc[n] = "post"
    /\ wait[n] = None
    /\ \E q \in todo[n] :
       LET r == [kind |-> LocalOnly, src |-> n, tag |-> bcast[n]] IN
       /\ todo' = [todo EXCEPT ![n] = @ \ {q}]
       /\ \/ /\ PostMayFail
             /\ UNCHANGED <<queue, sendq, wait, reached>>
          \/ IF ReachesHandler(RequestUrl)
                THEN /\ PeerHandler(q, r)
                     /\ reached' = [reached EXCEPT ![n][q] = @ + 1]
                     /\ wait' = [wait EXCEPT ![n] =
                                   IF ParkedIn(sendq', q, r) THEN q ELSE None]
                ELSE UNCHANGED <<queue, sendq, wait, reached>>
    /\ UNCHANGED <<triggers, cpc, launched, bcast, served>>

\* The peer's handler got through its send and answered.
PostAnswered(n) ==
    /\ wait[n] # None
    /\ ~Parked(wait[n], [kind |-> LocalOnly, src |-> n, tag |-> bcast[n]])
    /\ wait' = [wait EXCEPT ![n] = None]
    /\ UNCHANGED <<queue, sendq, triggers, cpc, launched, todo, bcast, reached,
                   served>>

\* Mutation: an http.Client without a Timeout.
TimeoutNever(n) == FALSE

\* http.Client{Timeout: 3s}: the post fails while the handler is still
\* parked; the handler stays parked and sends later.
Timeout(n) ==
    /\ wait[n] # None
    /\ Parked(wait[n], [kind |-> LocalOnly, src |-> n, tag |-> bcast[n]])
    /\ wait' = [wait EXCEPT ![n] = None]
    /\ UNCHANGED <<queue, sendq, triggers, cpc, launched, todo, bcast, reached,
                   served>>

\* The loop over the ips is done; StartCheckCoreVersion loops back.
FinishNotify(n) ==
    /\ cpc[n] = "post"
    /\ todo[n] = {}
    /\ wait[n] = None
    /\ cpc' = [cpc EXCEPT ![n] = "launch"]
    /\ UNCHANGED <<queue, sendq, triggers, launched, todo, wait, bcast,
                   reached, served>>

ConsumerStep(n) ==
    \/ Launch(n) \/ Receive(n) \/ ListPeers(n) \/ Post(n)
    \/ PostAnswered(n) \/ Timeout(n) \/ FinishNotify(n)

Next == \E n \in Nodes : Trigger(n) \/ ConsumerStep(n)

\* Each consumer goroutine runs when it can (Go scheduler), and a waiting
\* post's timer fires.  Triggers come from outside.
Spec == Init /\ [][Next]_vars /\ \A n \in Nodes : WF_vars(ConsumerStep(n))

-----------------------------------------------------------------------------
(* Properties                                                              *)

\* Every RequestCheckCoreVersion call at a node, a parked one included, is
\* eventually received by that node's StartCheckCoreVersion, even while
\* the consumers of two nodes post to each other over full channels.
EveryTriggerServed ==
    \A n \in Nodes, k \in 1..MaxTriggers :
        (triggers[n] >= k) ~> (served[n][Ext] >= k)

\* Every peer post whose InnerCheckCoreVersion handler ran at q, including
\* one whose poster timed out while the handler was parked, eventually
\* makes q's consumer receive the LocalOnly request, so q rechecks.
PeersRecheck ==
    \A n, q \in Nodes, k \in 1..MaxTriggers :
        n # q => ((reached[n][q] >= k) ~> (served[q][n] >= k))

\* Spec sections 1 and 4: a Broadcast makes the whole fleet re-check.
\* When no post fails in the network, every startNotifyOtherNode run of n
\* eventually brings a LocalOnly request of n to each peer's consumer.
BroadcastReachesPeers ==
    \A n, q \in Nodes, k \in 1..MaxTriggers :
        n # q => ((bcast[n] >= k) ~> (served[q][n] >= k))

=============================================================================
