# TLA+ models of PolarDB-Stack-Daemon

This directory holds TLA+ models of the `polar-controller-manager` daemon under `src/`.
The models are written from the Go source and checked with TLC.
`PROJECT.json` lists:

- every component and its status;
- every TLC run and what it checks;
- the mutants that show each checked property can fail;
- the source lines each definition translates;
- the findings;
- the hazards the code is exposed to.

## The system

One daemon runs on every host of the cluster. `cmd/daemon/app/contorllermanager.go` starts several independent goroutines:

| Component | Source | What it does |
|---|---|---|
| CoreVersionReconciler | `core_version/*.go`, `util/docker_uilts.go` | HTTP triggers put a request on `CheckRequestQueue`, a Go channel of capacity 2. One consumer goroutine receives each request and, for a broadcast request, posts to every peer daemon. It then starts a pass **with `go`** and loops back at once. A pass lists the core-version descriptor ConfigMaps and asks docker whether each image is present, memoising answers in the package-level map `util.cache`. It then Gets or Creates the host ConfigMap and Updates its `existingVersions`. |
| NodeProbe | `node_net_status/node_network_probe.go` | A periodic tick that probes the client network card over a dedicated SSH session, and the client IP and OOB link. It writes node conditions with an hourly throttle and message preservation. |
| RemoteSession | `sshutil.go` | The SSH connection used by the probe (Init, TestAlive, Run, Close), plus a one-shot command path. |
| ConfigPolicyCache | `controller_config.go` | Reloads the `controller-config` ConfigMap on a TTL. It is read by three goroutines without a lock. |
| PortUsage | `port_usage/port_usage.go` | Parses port ranges, tries to bind each port and publishes the used ports. |
| LogMonitor | `db_log_monitor/log_monitor.go` | Deletes log folders of instances that no longer have a pod and have written no recent log. |
| HttpFrontEnd | `bizapis/...` | Routing. Its only state-changing handlers are the two core-version triggers. |
| EventsUpload, Bootstrap, ErrorsAndUtil | | Stateless helpers, flag parsing and goroutine start-up. |

How they interact:

- The core-version triggers reach the reconciler through the channel.
- The reconciler reaches its peers through HTTPS posts to the same trigger endpoint.
- The probe, port usage and log monitor all read the shared config policy.
- Everything writes to Kubernetes, whose Update enforces optimistic concurrency on `resourceVersion`.

## Modules

### `CoreVersion.tla`: the reconciler of one node

**State.** The state corresponds to the code as follows:

| Variable | Code |
|---|---|
| `present` | the docker image store |
| `epoch` | number of image pulls and removals so far (a history counter) |
| `queue` | the channel buffer |
| `sendq` | handlers parked on the full channel |
| `cpc` | the consumer goroutine's program counter: `recv`, `notify` or `launch` |
| `cache` | `util.cache`; a verdict records the epoch at which docker answered |
| `pass[p]` | one goroutine per `startCheckCoreVersion` call |
| `record` | the host ConfigMap; its `writer`, `start` and `confirmed` fields are history kept for properties |

**Actions.** Each action models one handler or step:

- `Trigger`: `RequestCheckCoreVersion` / `InnerCheckCoreVersion`.
- `Receive`, `NotifyOtherNodes`, `Launch`: the consumer loop. The peer fan-out is one step.
- `ListDescriptors`: `getAll`, followed by `ClearImagesCache`.
- `CheckImage` and `StoreVerdict`: `ImageIsExists`, split at the docker call. Another pass may clear the cache between these two steps.
- `UseVerdict`, `NextDesc`, `SkipDescriptor`, `FinishCheck`: the loop of `getExistingVersions`.
- `GetHostRecord` and `CreateHostRecord`: `getHostCoreVersionConfigMap`.
- `UpdateHostRecord`: the update at the end of `startCheckCoreVersion`.

**Environment.** `ImagePulled` and `ImageRemoved` stand for the environment changing the image store. Docker and API failures are nondeterministic branches, enabled by `DockerMayFail` and `ApiMayFail`.

**Abstractions:**

- Image names and version names are model values.
- A descriptor is its set of images and its name. `NoName` stands for a ConfigMap without a `name` key.
- The text of `existingVersions` is abstracted to a set of names.
- The time of `checkTime` is abstracted to the pass's start epoch.
- A finished pass is reset to one canonical state.

`MCCoreVersion.tla` gives the model values. The descriptors are given by their `Data` maps, and `DescImages` and `DescName` are computed from them by `getAllImagesByVersionConfigMap` and `getCoreVersionNameByVersionConfigMap`, which are operators of `CoreVersion` (a key counts as an image key only when `strings.Index(key, "Image") > 0`). The three descriptors are:

- one with two image keys and a name;
- one with an image key, an image key whose value is empty, and an empty name;
- one whose only image key is `"Image"` itself. The keyword is at position 0, so the pass finds no image in it and skips it as not a core version.

### `CoreVersionCluster.tla`: the nodes composed through the peer fan-out

This module composes the nodes' request paths. Each node has its own `CheckRequestQueue`, its own parked handlers and its own consumer loop. A pass is only counted here, because `CoreVersion` models its steps.

| Variable | Code |
|---|---|
| `queue[n]`, `sendq[n]` | node `n`'s channel buffer and the handlers parked on it; an entry also records its sender, for the properties |
| `cpc[n]` | `StartCheckCoreVersion`'s position: `launch`, `recv`, `notify` (the pod List), `post` (the loop over peer IPs) |
| `todo[n]`, `wait[n]` | the peers still to post to, and the peer whose handler the current post waits on |
| `triggers`, `launched`, `bcast` | external triggers, launched passes, and fan-outs past the pod List |
| `reached`, `served` | history: posts whose handler ran at the peer, and requests each consumer received, by sender |

**Actions:**

- `Trigger`: `RequestCheckCoreVersion`.
- `Launch` and `Receive`: the consumer loop.
- `ListPeers`: `getPolarStackDaemonNodeIps`, which excludes the node's own host. A failed List returns nil ips, and the fan-out is skipped.
- `Post`: one `HttpsPost` of the loop, in the pod List's order. It may fail in the network. Otherwise it reaches `InnerCheckCoreVersion` only if `ReachesHandler` holds: the URL's scheme must be the server's, and its path must be one of the `Routes` that gin registers under `util.PathPrefix`.
- `PostAnswered`: the handler's send went through, and it answered.
- `Timeout`: the client's 3s timeout fires while the handler is still parked. The handler stays parked and sends later.
- `FinishNotify`: the loop is done, and the consumer loops back.

The URL and the server's scheme are constants:

- `MCCoreVersionCluster` gives the code's values: `https` and `/innerCheckCoreVersion`, against a plain-HTTP `router.Run`.
- It also gives the spec's peer wire contract: an HTTPS POST to `/api/v1/InnerCheckCoreVersion`.

### `NodeProbe.tla`: the network probe of one node and its SSH session

**State.** The state corresponds to the code as follows:

| Variable | Code |
|---|---|
| `nic`, `reach`, `apiUp`, `stderr`, `hostIp` | the environment: the NIC state `ip a show` prints, whether sshd can be dialled, whether the API server answers, what the interface command prints on stderr with exit status 0 (one of `StderrOutputs`), and the NIC's first address |
| `conn` | `probe.nodeSshConn.client`: nil (`none`), a live connection, or a connection broken by a network loss (`dead`) |
| `isInit` | `probe.isInit` |
| `hybrid` | `hybridDeploySetting` under `once.Do` |
| `pc` | the position of the probe goroutine within a tick |
| `conds` | the node's conditions by type; heartbeat and transition time are ages in ticks, saturated at `Hour + 1` |
| `attempted`, `listed` | history of the current tick, kept for a property |

**Actions.** One action per step of `DoNetWorkProbe`, split at its remote calls:

- `TickStart`: `wait.Until`.
- `InitProbe`: `Init`, with `InitSSH` for `__initSSH`.
- `EnsureConn`: `enSureSshConn`, with `TestAlive` and `SSHConnection.Init`.
- `ReadNode`: the once-gated hybrid lookup and the node List.
- `ClientNetwork`, `ClientIPCheck`, `OobCheck`, `RefreshFlag`: the four condition steps.

`SetNodeCondition` is `createOrUpdateNodeCondition` followed by `_SetNodeCondition`.

`CutOffWarningLine` (sshutil.go) is an operator over strings, with `Index`, `StrContains` and `TrimSpace` for the `strings` functions it calls. `Noise` says whether the current `stderr`, after the cut, is the non-empty stderr without "Warning: Permanently" on which `nodeClientAvailable` calls `err.Error()` on a nil error. `Noisy` caches that verdict for each member of `StderrOutputs`. `MCNodeProbe` lets the interface command print nothing, or a shell locale warning with exit status 0.

**Abstractions:**

- The three-try loop of `getIpByNetCardName` is one lookup of the current address.
- The OOB one-shot SSH command has three outcomes: the address, an error, or, when `OobBlankMayOccur` holds, the empty address with a nil error that `getNodeOobIp` returns when ipmitool exits 0 with a stderr `NotSshLoginWarnMsg` flags (its failure branch returns `ip, err` as they are, `""` and `nil`). The message `"none"` stands for the empty Message. `util.NotSshLoginWarnMsg` and `util.GetShellErrorExitCode` are not in this repository; the model assumes the exit code of a nil error is not `"1"`.
- Condition reasons and the client-network message are omitted. There is one configured card, so the throttle's reason test is always true.
- The `!IsInit()` branch of `nodeClientAvailable` is not modelled. `enSureSshConn` always leaves a non-nil client, so that branch cannot be reached.

### `ConfigPolicy.tla`: the shared config policy

`ConfigPolicy` is `GetControllerConfigWithPolicy` as the goroutines call it, without a lock:

| Variable | Code |
|---|---|
| `inited`, `lastValue` | `IsInited`, `LastValue` |
| `age` | `time.Now()` minus `LastQueryTime`, saturated at `TTL` |
| `pc[c]`, `got[c]`, `seen[c]` | each caller's position in the call, its fetched result, and what it last received |

A call is three steps: `Get` (the reload test or the fast return), `Fetch` (the ConfigMap Get and parsing) and `Publish`. Publication is one step. Every torn intermediate state makes `CheckPolicyIsReload` answer true, as the state before the publication does, so splitting it adds no outcome.

### `LogMonitor.tla`: the log-folder housekeeping

`checkInsFolderTask` (`db_log_monitor/log_monitor.go`) runs every six hours under `wait.Until`.

| Variable | Code |
|---|---|
| `pods`, `folders`, `recent` | the cluster's pods, the instance folders under the log directory, and the folders holding a log younger than the retention days |
| `sshUp`, `apiUp` | whether `RunSSHNoPwdCMD` and the pod List succeed |
| `pc`, `podIds`, `lsOut`, `findOut` | the task's position and the three listings it has taken |

The task is four steps: `ListPods` (`getInsIdListFromPod`; an empty or failed list returns at once), `ListFolders` (`ls`), `FindRecent` (`find -mtime`) and `DeleteFolders` (`deleteInsFolder`, then the log and data clean-ups). A failed remote command prints nothing, and the code uses that empty output all the same. The cluster and the files change between the steps: pods start and stop, logs are written and age.

### `PortUsage.tla`: the port-usage publisher

`PrintPort` (`port_usage/port_usage.go`) runs every minute under `wait.Until`.

| Variable | Code |
|---|---|
| `switch` | the raw `enablePrintPort` value of `controller-config` (`<<>>` when absent) |
| `annotations`, `used`, `apiUp` | the MPD ConfigMap's annotation values, the ports some process listens on, whether the API server answers |
| `cm` | the node's `cloud-provider-port-usage` ConfigMap: whether it exists and its port set |
| `pc`, `seen`, `ranges`, `found` | the task's position, `cm.Data` as read, `markUnPrintPort`'s ranges, `scanRangePort`'s result |
| `span`, `edits` | history: the ports the ranges covered when they were read, and the number of host changes |

The task is five steps, split at its remote calls:

- `CheckSwitchStatus`: `checkSwitchStatus`, reading the switch through `parseMapItemToBoolWithDefault` with default true.
- `GetPortConfigMap`: Get, or Create when absent. A failure ends the tick.
- `MarkUnPrintPort`: `markUnPrintPort` with `parseRange`. A failed List yields no ranges.
- `Scan`: `scanRangePort` with `isPortAvailable`. A port is reported when it cannot be bound.
- `UpdatePortConfigMap`: the change test and the Update.

`parseRange` and `parseMapItemToBoolWithDefault` are operators over token sequences. A token is a digit run written `"0"`..`"9"`, `"-"`, a blank or `"x"`, which stands for any other character. Each operator is checked against a reference definition written from spec §7 and §4.4. Under weak fairness TLC evaluates `ENABLED` without caching, so the parsed values are computed once per constant value (`Parsed`, `SwitchParsed`).

The host environment (ports taken and released, ranges edited) is bounded by `MaxEdits`, so it eventually settles. The switch and the API server may change forever.

**Abstractions:**

- The `updateTimestamp` annotation and the log lines are left out.
- The 30-minute cache of `GetControllerConfigWithPolicy` is left out here. `ConfigPolicy` models it.

### Helpers shared by the probe and the log monitor

- `SSHConnect` and `TestAlive` in `NodeProbe` model `sshutil.go`'s dial and liveness test.
- `ClientNetStatus`, `GetIpByNetCardName` and `GetNodeOobIp` model the probe's interface check, address lookup and OOB lookup.
- `RunSSHNoPwdCMD` in `LogMonitor` models the one-shot command path. A failed command prints nothing.

## Runs

| Run | Expect | Checks |
|---|---|---|
| `cv_record` (`MCCoreVersion.cfg`) | pass | 2 passes, 2 images, 1 image change, docker and API failures. **RecordedVersionsVerified:** every version in the record was confirmed present by the pass that wrote it. 771,734 states, about 1-2 min. |
| `cv_cluster` (`MCCoreVersionCluster.cfg`) | pass | Two daemons under the spec's wire contract. The channel has capacity 2 and each node gets 3 triggers. Posts can be lost and pod Lists can fail. **EveryTriggerServed:** every trigger, including a parked one, is received, even when the two consumers post to each other while both channels are full. Without the client timeout they wait on each other forever (mutant `TimeoutNever`). **PeersRecheck:** a post whose handler ran at a peer eventually makes that peer recheck, even if the poster timed out. 98k states, about 40 s. |
| `cv_unrouted` (`MCCoreVersionClusterUnrouted.cfg`) | violation | **BroadcastReachesPeers** (spec §1, §4): every fan-out eventually brings a recheck to each peer. Violated even with no lost post: the code's URL matches neither the server's scheme nor its route. Under the wire contract the property holds. |
| `cv_stale_cache` | violation | **ImageVerdictFresh:** no pass acts on a docker answer obtained before the pass started. Violated: overlapping passes share `util.cache`. |
| `np_main` (`MCNodeProbe.cfg`) | pass | All environment failures enabled, two addresses, `Hour = 1` (a condition is throttled in the tick after its write, then rechecked). **AddressNeverLost:** a known client or OOB address is replaced only by another address from a successful lookup. The blank OOB outcome is off here (`OobBlankMayOccur = FALSE`); `np_oob_blank` turns it on. **ClientNetConverges:** if the NIC, sshd, the API and stderr eventually stay healthy, the client-network condition eventually stays False. This needs a dead connection to be detected and redialled. **ClientIPConverges:** once the card keeps one address and the node stays healthy, the ClientIP condition eventually reports that address, even if it changed inside the hour throttle. 2.8M states, about 3 min. |
| `np_false_down` | violation | **NoFalseDown** (spec §4.2 step 2): a connection lost after `enSureSshConn` is reported as `NodeClientNetworkUnavailable=True`. With `LinkMayFail = FALSE` the property holds. |
| `np_oob_blank` (`MCNodeProbeOobBlank.cfg`) | violation | **AddressNeverLost** (spec §4.2 step 7) with `OobBlankMayOccur = TRUE`: after the OOB condition carries the address, a clean ipmitool exit with a flagged stderr makes `getNodeOobIp` return `("", nil)`, and `updateNodeOobCondition` writes True with an empty Message. |
| `cp_callers` (`MCConfigPolicy.cfg`) | pass | The three real callers, `TTL = 2`, 2 edits, API outages. **EventuallyCurrent:** once the API stays up, every caller eventually keeps receiving the current record. A stale publication is repaired by the next due reload. |
| `lm_main` (`MCLogMonitor.cfg`) | pass | Three instances, one never removed, all failures enabled. **OrphansEventuallyRemoved:** a folder whose instance is gone for good and writes no more logs is eventually deleted once SSH and the API stay up. |
| `lm_find_fails` | violation | **OnlyOrphansDeleted:** a folder is deleted only if it has no pod and no recent log. Violated: a failed `find` prints nothing, and every pod-less folder, recent logs included, is removed. |
| `pu_main` (`MCPortUsage.cfg`) | pass | Ports 1..3, four annotation values, three switch values, API outages, 2 host changes. **ParseRangeMatchesReference:** `parseRange` agrees with spec §7 on every string of up to four tokens. **SwitchParseMatchesReference:** `parseMapItemToBoolWithDefault` agrees with spec §4.4 on every spelling of the ten recognized words and on near misses. **PublishedConverges:** once the host settles and the switch and API stay up, the ConfigMap eventually equals the used ports the ranges cover, freed ports included. 582k states, about 1 min. |
| `pu_read_fails` (`MCPortUsageReadFails.cfg`) | violation | **RemovedOnlyWhenSeenFree:** a port leaves the ConfigMap only when the scan found it free. Violated: a failed List of the MPD ConfigMap yields no ranges, and the Update then publishes an empty set. |

Some violations were reproduced while modelling but are not kept as runs; `PROJECT.json` records them in hazard notes:

- `RecordNeverRegresses` fails: an older pass's Get-then-Update of the host record lands last.
- `EveryStepAttempted` (spec §4.2) fails: a clean exit with an unexpected stderr reaches `err.Error()` on a nil error, and the panic skips the rest of the tick.
- `TransitionTimeOnStatusChange` (spec §3/§8) fails: `_SetNodeCondition` sets `lastTransitionTime` to now on every write.
- `OrphansEventuallyRemoved` fails with no resident pod: `getInsIdListFromPod` returns nil and the task returns before it deletes anything.
- `OnlyOrphansDeleted` also fails without any SSH failure. A pod created after `ListPods` has its new folder deleted.

### Why these bounds are enough

- **Passes.** Two passes are enough for every overlap: each reconciler violation needs exactly two.
- **Image changes.** One change between them creates the staleness.
- **Probe time.** `Hour = 1` with ages saturated at 2 distinguishes the three cases the code tests: written this tick, within the hour, older than an hour.
- **Config policy.** `TTL = 2`-`3` ticks separates "just loaded", "within the interval" and "due". Two record edits let two fetches read different versions. Three callers are the real number of callers.
- **Cluster.** Each node needs one Broadcast being handled and two more in its buffer before a peer's handler parks. So three triggers per node are the least that let two consumers wait on each other. Two nodes are enough for that cycle. A third node would only add posts to a peer that is not in it.
- **Probe addresses.** Two addresses let the address change while the ClientIP condition is throttled.
- **Port usage.** Three ports allow two overlapping ranges and a port outside both. Four values cover a swapped range, a single port, a range starting at 0 and one reaching past the ports. Two host changes let a port be freed after it was published.
- **Log monitor.** Three instances cover a resident pod, an orphan, and an instance that comes and goes. The task only compares sets, so more instances add only renamings.

### Fairness

Fairness is weak fairness on the consumer steps and on every pass's steps. The Go scheduler keeps running runnable goroutines, and every blocking call in a pass (docker, the Kubernetes API) returns or fails. Failure is one of the modelled outcomes.

For the probe, `wait.Until` starts a tick every period forever, so `ProbeStep` is weakly fair. This assumes every remote command returns. Spec §5 accepts that a hung command can stall a tick; that case is not modelled.

In the cluster, each node's consumer goroutine is weakly fair (`ConsumerStep(n)`), and this includes `Timeout`: the 3s timer fires while a post waits. Lost posts and failed Lists get no fairness. They are allowed, never forced.

The config callers each run on a timer forever (the probe tick, the port-usage and log-monitor loops), so every `Call(c)` is weakly fair. `Tick` is weakly fair because time passes.

The log monitor's `wait.Until` loop runs the task every six hours forever, and the port-usage loop every minute, so their `TaskStep`s are weakly fair.

Triggers, image changes and the environments of the probe and the log monitor get no fairness: they come from outside.

`CHECK_DEADLOCK FALSE` is used only in the reconciler runs, because the daemon really does stop there. When no trigger comes, the consumer blocks forever on the empty channel.

## Findings

Every violation run is a finding recorded in `PROJECT.json`.

- **Peers are never notified.** `startNotifyOtherNode` posts to `https://<peer>:<port>/innerCheckCoreVersion` (`core_version_check.go:84-85`). The daemon serves plain HTTP (`router.Run`, `bizapi.go:50`) and routes the handler at `/api/v1/InnerCheckCoreVersion`. Every post fails the TLS handshake. Even over the right scheme, the path would return a 404 with a nil error, which is logged as success. So a Broadcast never makes a peer recheck.

- **Shared cache.** Spec §3 scopes the image cache to one pass. Spec §5 assumes at most one pass is in flight. The code starts each pass with `go` (`core_version_check.go:44`), so passes overlap. A pass can then omit a version whose image is present. The record can also regress to an older snapshot until the next trigger.

- **Probe.**
  - A nil-error dereference in `nodeClientAvailable` aborts the tick. This was reproduced but is no longer kept as a run.
  - A connection lost after the liveness test is reported as a network outage.
  - A clean ipmitool exit with a flagged stderr makes `getNodeOobIp` return `("", nil)` (`node_network_probe.go:419-425`). `updateNodeOobCondition` then writes `NodeOobIP` True with an empty Message, and the known OOB address is lost for an hour, against spec §4.2 step 7.

- **Log monitor.**
  - A failed `find` is treated as "no recent logs", so live-log folders of removed instances are deleted.

- **Port usage.** A failed List of the MPD ConfigMap (`port_usage.go:77`) is treated as "no ranges", and the next Update erases every published port.

## Plan

`CoreVersion`, `CoreVersionCluster`, `NodeProbe`, `ConfigPolicy`, `LogMonitor` and `PortUsage` are built. What remains:

1. **The probe period override** (`node_network_probe.go:101-106`). The `ProbeJobPeriod` variable is applied only when `ParseInt` fails, which gives a period of 0. A run stating that the override is honoured would be a violation run. The project has twelve runs, so it should replace a weaker one rather than add to the count.
2. **Descriptor keys beginning with "Image".** `MCCoreVersion` already has such a descriptor. A violation run stating the spec's "keys containing the marker" reading would show the divergence, under the same run budget.

## Not modelled

- **EventsUpload, Bootstrap and the error helpers.** They hold no state that changes. `UploadEvent` is a single best-effort HTTP post, and nothing in the daemon calls it.
- **The read-only HTTP handlers** (`GetStandByIp`, `TestConn`, `healthz`). The routing table itself is modelled in `CoreVersionCluster`.
- **The half-open scan.** `scanRangePort` stops before `End` (`port_usage.go:240`), so a one-port range is never scanned. The model keeps this; `PublishedConverges` is stated over the same scan, and the hazard is noted in `PROJECT.json`.
- **Socket binding and shell text.** These are I/O. Only the decisions made on their results are modelled.
- **Client construction** (`GetKubeClient`, `GetCoreV1Client`). The in-cluster configuration is fixed for the process's lifetime. The models treat an API failure as a failed call on a working client. The discarded client error at `utils.go:92` is listed as a hazard.
- **`__GetClientNetCardName` and `_GetNodeAddress`.** Neither can fail: they fall back to `bond1` and to the node's name. `InitSSH` therefore has no branch for them.
- **`_FormatSanOutput`.** Only a unit test calls it; the daemon never does.
