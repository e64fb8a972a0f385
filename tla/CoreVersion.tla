---------------------------- MODULE CoreVersion ----------------------------
(***************************************************************************)
(* The core-version reconciler of one polarstack-daemon node              *)
(* (polar-controller-manager/core_version and util/docker_uilts.go).      *)
(*                                                                         *)
(*  - HTTP handlers RequestCheckCoreVersion / InnerCheckCoreVersion send a *)
(*    request kind on CheckRequestQueue, a Go channel of capacity 2; a     *)
(*    send on a full channel parks the handler in the channel's FIFO       *)
(*    queue of senders.                                                    *)
(*  - StartCheckCoreVersion loops forever: `go startCheckCoreVersion`,     *)
(*    then a blocking receive; a Broadcast request also runs               *)
(*    startNotifyOtherNode before looping.  Every loop iteration therefore *)
(*    launches a new pass while earlier ones may still be running.         *)
(*  - A pass lists the version descriptors, clears the process-wide image  *)
(*    cache, checks each descriptor's images through ImageIsExists (which *)
(*    memoises docker answers in that shared cache), clears the cache,     *)
(*    then Get/Create + Update the host availability ConfigMap.  The API   *)
(*    server rejects an Update whose resourceVersion is stale.             *)
(*                                                                         *)
(* Data are abstracted: a descriptor is its set of image references and   *)
(* its version name; the comma-joined existingVersions string is the set  *)
(* of names it lists.  `epoch` counts changes of the local image store;   *)
(* it is a history variable used only by the properties.                 *)
(***************************************************************************)
EXTENDS Integers, Sequences, FiniteSets

CONSTANTS
    Images,         \* image references named by the descriptors
    Names,          \* version names
    NoName,         \* a descriptor whose "name" key is absent or empty
    Descs,          \* descriptors, 1..N in the API server's list order
    DescImages,     \* [Descs -> SUBSET Images]: values of keys containing "Image"
    DescName,       \* [Descs -> Names \cup {NoName}]
    Broadcast,      \* CheckCoreVersionOperatorType (external request)
    LocalOnly,      \* SingleCheckCoreVersionOperatorType (peer notification)
    Miss,           \* no entry in the image cache
    QueueCapacity,  \* capacity of CheckRequestQueue
    MaxTriggers,    \* bound on HTTP trigger requests
    MaxImageChanges,\* bound on changes of the local image store
    DockerMayFail,  \* whether docker.NewEnvClient may fail
    ApiMayFail      \* whether List/Get/Create/Update calls may fail

ASSUME
    /\ Descs = 1..Cardinality(Descs)
    /\ DescImages \in [Descs -> SUBSET Images]
    /\ DescName \in [Descs -> Names \cup {NoName}]
    /\ NoName \notin Names
    /\ QueueCapacity \in Nat \ {0}
    /\ MaxTriggers \in Nat /\ MaxImageChanges \in Nat
    /\ DockerMayFail \in BOOLEAN /\ ApiMayFail \in BOOLEAN

Kinds == {Broadcast, LocalOnly}

-----------------------------------------------------------------------------
(* A descriptor's Data, a map from key strings to value strings, and what  *)
(* the pass reads from it.  MCCoreVersion computes DescImages and DescName *)
(* with these from the descriptors' Data.                                  *)

\* coreVersionImageKeyKeyWord and coreVersionNameKey.
ImageKeyWord == "Image"
NameKey == "name"

\* strings.Index: the 0-based position of the first occurrence of sub in
\* s, or -1.
Index(s, sub) ==
    LET at == {i \in 0..(Len(s) - Len(sub)) : SubSeq(s, i + 1, i + Len(sub)) = sub}
    IN  IF at = {} THEN -1 ELSE CHOOSE i \in at : \A j \in at : i <= j

\* getAllImagesByVersionConfigMap: the non-empty values of the keys in
\* which the keyword occurs after the first character.  A nil Data (an
\* error the pass skips) is the empty map, which the pass skips as well.
getAllImagesByVersionConfigMap(data) ==
    {data[k] : k \in {k \in DOMAIN data : Index(k, ImageKeyWord) > 0 /\ data[k] # ""}}

\* getCoreVersionNameByVersionConfigMap: the non-empty value of the "name"
\* key; an empty versionName is NoName.
getCoreVersionNameByVersionConfigMap(data) ==
    IF NameKey \in DOMAIN data /\ data[NameKey] # "" THEN data[NameKey] ELSE NoName

\* One pass per loop iteration: the first one plus one per received request.
Passes == 1..(MaxTriggers + 1)

Verdict == [img : Images, val : BOOLEAN, epoch : Nat]

VARIABLES
    present,    \* images in the local docker image store
    epoch,      \* number of changes of the image store so far
    queue,      \* buffered requests of CheckRequestQueue
    sendq,      \* handlers parked on the full channel, in FIFO order
    triggers,   \* HTTP trigger requests received so far
    cpc,        \* StartCheckCoreVersion: "launch" | "recv" | "notify"
    launched,   \* passes launched so far
    broadcasts, \* startNotifyOtherNode runs so far
    cache,      \* util.cache: [Images -> Verdict \cup {Miss}]
    pass,       \* state of each startCheckCoreVersion goroutine
    record      \* the host availability ConfigMap in the API server

vars == <<present, epoch, queue, sendq, triggers, cpc, launched, broadcasts,
          cache, pass, record>>

PassPCs == {"idle", "list", "check", "store", "getcm", "create", "update", "done"}

PassState ==
    [pc : PassPCs,
     start : Nat,                 \* epoch when the pass cleared the cache
     d : Nat,                     \* index of the descriptor being checked
     checked : SUBSET Images,     \* images of descriptor d found present
     pending : Verdict \cup {Miss}, \* docker answer not yet stored in cache
     avail : SUBSET Names,        \* existingVersions so far
     rv : Nat,                    \* resourceVersion of the ConfigMap it read
     \* history, for the properties only:
     confirmed : SUBSET Images,   \* images it acted on as present
     oldest : Nat]                \* least epoch of the verdicts it acted on

PassAt(pc) == [pc |-> pc, start |-> 0, d |-> 1, checked |-> {},
               pending |-> Miss, avail |-> {}, rv |-> 0,
               confirmed |-> {}, oldest |-> MaxImageChanges]

\* A finished pass keeps nothing; what its write means is kept in `record`.
DonePass == PassAt("done")

TypeOK ==
    /\ present \subseteq Images
    /\ epoch \in 0..MaxImageChanges
    /\ queue \in Seq(Kinds) /\ Len(queue) <= QueueCapacity
    /\ sendq \in Seq(Kinds)
    /\ triggers \in 0..MaxTriggers
    /\ cpc \in {"launch", "recv", "notify"}
    /\ launched \in 0..Cardinality(Passes)
    /\ broadcasts \in 0..MaxTriggers
    /\ cache \in [Images -> Verdict \cup {Miss}]
    /\ pass \in [Passes -> PassState]
    /\ record \in [exists : BOOLEAN, rv : Nat, versions : SUBSET Names,
                   writer : {0} \cup Passes, start : Nat,
                   confirmed : SUBSET Images]

Init ==
    /\ present \in SUBSET Images
    /\ epoch = 0
    /\ queue = <<>>
    /\ sendq = <<>>
    /\ triggers = 0
    /\ cpc = "launch"
    /\ launched = 0
    /\ broadcasts = 0
    /\ cache = [i \in Images |-> Miss]
    /\ pass = [p \in Passes |-> PassAt("idle")]
    \* The record may survive from an earlier run of the daemon.  Its
    \* writer, start and confirmed fields are history: the pass that last
    \* updated it (0: none of this run), when that pass began checking and
    \* the images it found present.
    /\ \E ex \in BOOLEAN, vs \in SUBSET Names :
          /\ ex \/ vs = {}
          /\ record = [exists |-> ex, rv |-> IF ex THEN 1 ELSE 0,
                       versions |-> vs, writer |-> 0, start |-> 0,
                       confirmed |-> {}]

-----------------------------------------------------------------------------
(* Environment: images are pulled or removed on the host.                 *)

ImagePulled(i) ==
    /\ epoch < MaxImageChanges
    /\ i \notin present
    /\ present' = present \cup {i}
    /\ epoch' = epoch + 1
    /\ UNCHANGED <<queue, sendq, triggers, cpc, launched, broadcasts, cache,
                   pass, record>>

ImageRemoved(i) ==
    /\ epoch < MaxImageChanges
    /\ i \in present
    /\ present' = present \ {i}
    /\ epoch' = epoch + 1
    /\ UNCHANGED <<queue, sendq, triggers, cpc, launched, broadcasts, cache,
                   pass, record>>

-----------------------------------------------------------------------------
(* HTTP handlers: `CheckRequestQueue <- kind`.  A send on a full channel  *)
(* parks the goroutine; the receiver later moves its value into the      *)
(* buffer (Go's chansend / chanrecv).                                     *)

Trigger(k) ==
    /\ triggers < MaxTriggers
    /\ triggers' = triggers + 1
    /\ IF Len(queue) < QueueCapacity /\ sendq = <<>>
          THEN /\ queue' = Append(queue, k)
               /\ UNCHANGED sendq
          ELSE /\ sendq' = Append(sendq, k)
               /\ UNCHANGED queue
    /\ UNCHANGED <<present, epoch, cpc, launched, broadcasts, cache, pass, record>>

-----------------------------------------------------------------------------
(* StartCheckCoreVersion                                                   *)

Launch ==
    /\ cpc = "launch"
    /\ launched' = launched + 1
    /\ pass' = [pass EXCEPT ![launched + 1].pc = "list"]
    /\ cpc' = "recv"
    /\ UNCHANGED <<present, epoch, queue, sendq, triggers, broadcasts, cache,
                   record>>

Receive ==
    /\ cpc = "recv"
    /\ queue # <<>>
    /\ IF sendq = <<>>
          THEN /\ queue' = Tail(queue)
               /\ UNCHANGED sendq
          ELSE /\ queue' = Append(Tail(queue), Head(sendq))
               /\ sendq' = Tail(sendq)
    /\ cpc' = IF Head(queue) = LocalOnly THEN "launch" ELSE "notify"
    /\ UNCHANGED <<present, epoch, triggers, launched, broadcasts, cache, pass,
                   record>>

\* startNotifyOtherNode: best-effort posts to every peer, panics recovered.
\* The peers' side, and the channel under load, are modelled in
\* CoreVersionCluster.
NotifyOtherNodes ==
    /\ cpc = "notify"
    /\ broadcasts' = broadcasts + 1
    /\ cpc' = "launch"
    /\ UNCHANGED <<present, epoch, queue, sendq, triggers, launched, cache,
                   pass, record>>

-----------------------------------------------------------------------------
(* startCheckCoreVersion / getExistingVersions for pass p                  *)

\* getAllCoreVersionConfigMapByLabels, then ClearImagesCache.
ListDescriptors(p) ==
    /\ pass[p].pc = "list"
    /\ \/ /\ ApiMayFail
          /\ pass' = [pass EXCEPT ![p] = DonePass]
          /\ UNCHANGED cache
       \/ /\ cache' = [i \in Images |-> Miss]
          /\ pass' = [pass EXCEPT ![p].pc = "check", ![p].start = epoch]
    /\ UNCHANGED <<present, epoch, queue, sendq, triggers, cpc, launched,
                   broadcasts, record>>

\* Move on to the next descriptor.
NextDesc(s) == [s EXCEPT !.d = s.d + 1, !.checked = {}]

\* Mutation: coreVersionIsExists is never set to false.
UseVerdictIgnoresMissing(s, v) ==
    LET t == [s EXCEPT !.pc = "check", !.pending = Miss]
        all == t.checked \cup {v.img}
    IN  IF all # DescImages[t.d] THEN [t EXCEPT !.checked = all]
        ELSE IF DescName[t.d] = NoName THEN NextDesc(t)
        ELSE NextDesc([t EXCEPT !.avail = t.avail \cup {DescName[t.d]}])

\* Mutation: the empty-name check is dropped.
UseVerdictKeepsNoName(s, v) ==
    LET t == [s EXCEPT !.pc = "check", !.pending = Miss]
        all == t.checked \cup {v.img}
    IN  IF ~v.val THEN NextDesc(t)
        ELSE IF all # DescImages[t.d] THEN [t EXCEPT !.checked = all]
        ELSE NextDesc([t EXCEPT !.avail = t.avail \cup {DescName[t.d]}])

\* The pass acts on verdict v for image v.img of its current descriptor:
\* a missing image breaks out of the image loop; when every image is
\* present the version name, if any, is appended to existingVersions.
UseVerdict(s, v) ==
    LET t == [s EXCEPT !.pc = "check", !.pending = Miss,
                       !.oldest = IF v.epoch < s.oldest THEN v.epoch ELSE s.oldest,
                       !.confirmed = IF v.val THEN s.confirmed \cup {v.img}
                                              ELSE s.confirmed]
        all == t.checked \cup {v.img}
    IN  IF ~v.val THEN NextDesc(t)
        ELSE IF all # DescImages[t.d] THEN [t EXCEPT !.checked = all]
        ELSE IF DescName[t.d] = NoName THEN NextDesc(t)
        ELSE NextDesc([t EXCEPT !.avail = t.avail \cup {DescName[t.d]}])

\* A descriptor without image keys is not a core version: skipped.
SkipDescriptor(p) ==
    /\ pass[p].pc = "check"
    /\ pass[p].d \in Descs
    /\ DescImages[pass[p].d] = {}
    /\ pass' = [pass EXCEPT ![p] = NextDesc(@)]
    /\ UNCHANGED <<present, epoch, queue, sendq, triggers, cpc, launched,
                   broadcasts, cache, record>>

\* ImageIsExists(i): an image of the current descriptor not yet found,
\* picked in any order (Go map iteration order).  A cache hit is used at
\* once; on a miss docker is asked, and the answer is cached later by
\* StoreVerdict.  A docker client that cannot be created answers false
\* and caches nothing.
CheckImage(p) ==
    /\ pass[p].pc = "check"
    /\ pass[p].d \in Descs
    /\ \E i \in DescImages[pass[p].d] \ pass[p].checked :
          \/ /\ cache[i] # Miss
             /\ pass' = [pass EXCEPT ![p] = UseVerdict(@, cache[i])]
          \/ /\ cache[i] = Miss
             /\ DockerMayFail
             /\ pass' = [pass EXCEPT ![p] =
                           UseVerdict(@, [img |-> i, val |-> FALSE, epoch |-> epoch])]
          \/ /\ cache[i] = Miss
             /\ pass' = [pass EXCEPT ![p].pc = "store",
                           ![p].pending = [img |-> i, val |-> i \in present,
                                           epoch |-> epoch]]
    /\ UNCHANGED <<present, epoch, queue, sendq, triggers, cpc, launched,
                   broadcasts, cache, record>>

\* `cache[image] = ...; return ...` after ImageInspectWithRaw returned.
StoreVerdict(p) ==
    /\ pass[p].pc = "store"
    /\ cache' = [cache EXCEPT ![pass[p].pending.img] = pass[p].pending]
    /\ pass' = [pass EXCEPT ![p] = UseVerdict(@, @.pending)]
    /\ UNCHANGED <<present, epoch, queue, sendq, triggers, cpc, launched,
                   broadcasts, record>>

\* After the last descriptor: ClearImagesCache, then getHostCoreVersionConfigMap.
FinishCheck(p) ==
    /\ pass[p].pc = "check"
    /\ pass[p].d \notin Descs
    /\ cache' = [i \in Images |-> Miss]
    /\ pass' = [pass EXCEPT ![p].pc = "getcm"]
    /\ UNCHANGED <<present, epoch, queue, sendq, triggers, cpc, launched,
                   broadcasts, record>>

\* ConfigMaps.Get: found (its resourceVersion is kept), not found, or error.
GetHostRecord(p) ==
    /\ pass[p].pc = "getcm"
    /\ \/ /\ record.exists
          /\ pass' = [pass EXCEPT ![p].pc = "update", ![p].rv = record.rv]
       \/ /\ ~record.exists
          /\ pass' = [pass EXCEPT ![p].pc = "create"]
       \/ /\ ApiMayFail
          /\ pass' = [pass EXCEPT ![p] = DonePass]
    /\ UNCHANGED <<present, epoch, queue, sendq, triggers, cpc, launched,
                   broadcasts, cache, record>>

\* ConfigMaps.Create after NotFound: AlreadyExists if another pass won.
CreateHostRecord(p) ==
    /\ pass[p].pc = "create"
    /\ \/ /\ ~record.exists
          /\ record' = [record EXCEPT !.exists = TRUE, !.rv = @ + 1,
                                      !.versions = {}]
          /\ pass' = [pass EXCEPT ![p].pc = "update", ![p].rv = record.rv + 1]
       \/ /\ record.exists \/ ApiMayFail
          /\ pass' = [pass EXCEPT ![p] = DonePass]
          /\ UNCHANGED record
    /\ UNCHANGED <<present, epoch, queue, sendq, triggers, cpc, launched,
                   broadcasts, cache>>

\* ConfigMaps.Update with the resourceVersion read: a Conflict if the
\* record changed since; the pass returns either way.
UpdateHostRecord(p) ==
    /\ pass[p].pc = "update"
    /\ pass' = [pass EXCEPT ![p] = DonePass]
    /\ \/ /\ record.rv = pass[p].rv
          /\ record' = [record EXCEPT !.rv = @ + 1,
                                      !.versions = pass[p].avail,
                                      !.writer = p,
                                      !.start = pass[p].start,
                                      !.confirmed = pass[p].confirmed]
       \/ /\ record.rv # pass[p].rv \/ ApiMayFail
          /\ UNCHANGED record
    /\ UNCHANGED <<present, epoch, queue, sendq, triggers, cpc, launched,
                   broadcasts, cache>>

PassStep(p) ==
    \/ ListDescriptors(p)
    \/ SkipDescriptor(p)
    \/ CheckImage(p)
    \/ StoreVerdict(p)
    \/ FinishCheck(p)
    \/ GetHostRecord(p)
    \/ CreateHostRecord(p)
    \/ UpdateHostRecord(p)

Next ==
    \/ \E i \in Images : ImagePulled(i) \/ ImageRemoved(i)
    \/ \E k \in Kinds : Trigger(k)
    \/ Launch
    \/ Receive
    \/ NotifyOtherNodes
    \/ \E p \in Passes : PassStep(p)

\* Goroutines that can run eventually run (Go scheduler); requests and
\* image changes come from outside and are not forced to happen.
Fairness ==
    /\ WF_vars(Launch)
    /\ WF_vars(Receive)
    /\ WF_vars(NotifyOtherNodes)
    /\ \A p \in Passes : WF_vars(PassStep(p))

Spec == Init /\ [][Next]_vars /\ Fairness

-----------------------------------------------------------------------------
(* Properties                                                              *)

\* Spec section 3 scopes the image cache to one reconciliation pass so that
\* a pass never acts on an answer older than itself.  Here: every image
\* verdict a pass of startCheckCoreVersion acts on was obtained from docker
\* after that pass cleared the cache (ClearImagesCache in getExistingVersions).
ImageVerdictFresh ==
    \A p \in Passes : pass[p].oldest >= pass[p].start

\* A successful Update of the host availability ConfigMap never replaces the
\* result of a pass with that of a pass that began checking images earlier:
\* the record never goes back to describing an older image store.
RecordNeverRegresses ==
    [][record'.writer # record.writer =>
         record'.start >= record.start]_record

\* Every version name that a pass writes into existingVersions belongs to a
\* descriptor with at least one image key, every image of which that same
\* pass found present (getExistingVersions' loop, break and name lookup).
RecordedVersionsVerified ==
    record.writer # 0 =>
        \A n \in record.versions :
            \E d \in Descs :
                /\ DescName[d] = n
                /\ DescImages[d] # {}
                /\ DescImages[d] \subseteq record.confirmed

=============================================================================
