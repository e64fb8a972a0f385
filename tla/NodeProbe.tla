----------------------------- MODULE NodeProbe -----------------------------
(***************************************************************************)
(* The network probe of one node (node_net_status/node_network_probe.go)   *)
(* together with the dedicated SSH session it owns (sshutil.go).           *)
(*                                                                         *)
(* A tick of wait.Until runs DoNetWorkProbe: lazy Init, enSureSshConn,     *)
(* the once-only hybrid-deploy lookup, the node List, then four condition  *)
(* steps.  The tick is split at its remote calls, so that the environment  *)
(* (the NIC, reachability, the API server, the host's address) can change *)
(* between them.  Time is the number of ticks since a condition's          *)
(* heartbeat and transition time were written, saturated at Hour + 1.     *)
(***************************************************************************)
EXTENDS Integers, Sequences, FiniteSets

CONSTANTS
    IPs,            \* addresses the client NIC may carry
    NoIP,           \* the NIC has no IPv4 address
    OobAddr,        \* the address ipmitool reports
    Placeholder,    \* the "0.0.0.0" message
    Hour,           \* ticks in one hour: the throttle window of 290-298, 384-390
    ApiMayFail,     \* the API server may be unavailable
    LinkMayFail,    \* the node may become unreachable over SSH
    OobBlankMayOccur, \* ipmitool may exit 0 with a non-warning stderr
    StderrOutputs   \* the stderr texts the interface command may print, exit 0

ASSUME "" \in StderrOutputs

CondTypes == {"ClientNet", "ClientIP", "Oob", "Refresh"}
Stale == Hour + 1
Ages == 0..Stale
\* "none" is the empty Message.
Msgs == IPs \cup {OobAddr, Placeholder, "none"}
Steps == {"clientnet", "clientip", "oob", "refresh"}

Absent == [present |-> FALSE, status |-> "Unknown", msg |-> "none", hb |-> Stale, tt |-> Stale]

VARIABLES
    nic,        \* "UP" or "DOWN": what `ip a show <card>` would print
    reach,      \* the node's sshd can be dialled
    apiUp,      \* the API server answers
    stderr,     \* what the interface command prints on stderr, exit status 0
    hostIp,     \* the first address of the client NIC, or NoIP
    conn,       \* probe.nodeSshConn.client: "none" (nil), "live", "dead"
    isInit,     \* probe.isInit
    hybrid,     \* the package variable hybridDeploySetting
    pc,         \* the probe goroutine's position within a tick
    conds,      \* the node's status.conditions, by type
    attempted,  \* history: the condition steps this tick reached
    listed      \* history: this tick read the node list

env == <<nic, reach, apiUp, stderr, hostIp>>
probe == <<conn, isInit, hybrid, pc, conds, attempted, listed>>
vars == <<env, probe>>

Cond == [present: BOOLEAN, status: {"True", "False", "Unknown"}, msg: Msgs,
         hb: Ages, tt: Ages]

TypeOK ==
    /\ nic \in {"UP", "DOWN"}
    /\ reach \in BOOLEAN /\ apiUp \in BOOLEAN /\ stderr \in StderrOutputs
    /\ hostIp \in IPs \cup {NoIP}
    /\ conn \in {"none", "live", "dead"}
    /\ isInit \in BOOLEAN
    /\ hybrid \in [done: BOOLEAN, check: BOOLEAN, err: BOOLEAN]
    /\ pc \in {"idle", "init", "ensure", "read"} \cup Steps
    /\ conds \in [CondTypes -> Cond]
    /\ attempted \subseteq Steps
    /\ listed \in BOOLEAN

Init ==
    /\ nic \in {"UP", "DOWN"}
    /\ reach \in BOOLEAN
    /\ apiUp \in IF ApiMayFail THEN BOOLEAN ELSE {TRUE}
    /\ stderr = ""
    /\ hostIp \in IPs \cup {NoIP}
    /\ conn = "none"
    /\ isInit = FALSE
    /\ hybrid = [done |-> FALSE, check |-> FALSE, err |-> FALSE]
    /\ pc = "init"
    /\ conds = [t \in CondTypes |-> Absent]
    /\ attempted = {}
    /\ listed = FALSE

-----------------------------------------------------------------------------
(* The environment.                                                        *)

NicChanges ==
    /\ nic' = IF nic = "UP" THEN "DOWN" ELSE "UP"
    /\ UNCHANGED <<reach, apiUp, stderr, hostIp, probe>>

\* Losing the network breaks an established connection; it stays broken.
Unreachable ==
    /\ LinkMayFail /\ reach
    /\ reach' = FALSE
    /\ conn' = IF conn = "live" THEN "dead" ELSE conn
    /\ UNCHANGED <<nic, apiUp, stderr, hostIp, isInit, hybrid, pc, conds, attempted, listed>>

Reachable == ~reach /\ reach' = TRUE /\ UNCHANGED <<nic, apiUp, stderr, hostIp, probe>>

ApiToggles == ApiMayFail /\ apiUp' = ~apiUp /\ UNCHANGED <<nic, reach, stderr, hostIp, probe>>

StderrChanges ==
    /\ \E e \in StderrOutputs \ {stderr} : stderr' = e
    /\ UNCHANGED <<nic, reach, apiUp, hostIp, probe>>

AddressChanges ==
    /\ \E a \in (IPs \cup {NoIP}) \ {hostIp} : hostIp' = a
    /\ UNCHANGED <<nic, reach, apiUp, stderr, probe>>

Environment == NicChanges \/ Unreachable \/ Reachable \/ ApiToggles \/ StderrChanges \/ AddressChanges

-----------------------------------------------------------------------------
(* SSHConnection.Init: close the old client, then dial; a failed dial      *)
(* leaves the client nil.                                                  *)
\* SSHConnect: ssh.Dial with a 30s timeout succeeds while sshd is reachable.
SSHConnect == reach

Dial == IF SSHConnect THEN "live" ELSE "none"

\* A tick ends: wait.Until sleeps one period; every timestamp ages by one.
Older(a) == IF a < Stale THEN a + 1 ELSE Stale

\* One call of createOrUpdateNodeCondition and _SetNodeCondition: the patch
\* carries heartbeat and transition time now; a failed PatchStatus changes
\* nothing.
SetNodeCondition(t, status, msg) ==
    conds' = IF apiUp
             THEN [conds EXCEPT ![t] = [present |-> TRUE, status |-> status,
                                        msg |-> msg, hb |-> 0, tt |-> 0]]
             ELSE conds

\* Mutant: a failed lookup always reports the placeholder.
KeptMsgPlaceholder(t) == Placeholder

\* The message kept on failure: the previous address, unless there is none.
KeptMsg(t) ==
    IF conds[t].present /\ conds[t].msg \notin {Placeholder, "none"}
    THEN conds[t].msg ELSE Placeholder

\* RunCmdWithLogLevel on the dedicated session: what `ip a show` prints, or
\* nothing when NewSession fails on a dead connection.
InterfaceState == IF conn = "live" THEN nic ELSE "none"

\* TestAlive: NewSession succeeds only on a live connection.
TestAlive == conn = "live"

-----------------------------------------------------------------------------
(* The stderr text of a remote command (sshutil.go).  Go's whitespace is   *)
(* narrowed to the ASCII blanks, tab and line ends.                        *)

AsciiSpace == {" ", "\t", "\n", "\r"}

RECURSIVE TrimLeft(_), TrimRight(_)
TrimLeft(s) ==
    IF s # "" /\ SubSeq(s, 1, 1) \in AsciiSpace THEN TrimLeft(SubSeq(s, 2, Len(s))) ELSE s
TrimRight(s) ==
    IF s # "" /\ SubSeq(s, Len(s), Len(s)) \in AsciiSpace
    THEN TrimRight(SubSeq(s, 1, Len(s) - 1)) ELSE s

\* strings.TrimSpace.
TrimSpace(s) == TrimLeft(TrimRight(s))

\* strings.Index: the 0-based position of the first occurrence of sub in
\* s, or -1; strings.Contains.
Index(s, sub) ==
    LET at == {i \in 0..(Len(s) - Len(sub)) : SubSeq(s, i + 1, i + Len(sub)) = sub}
    IN  IF at = {} THEN -1 ELSE CHOOSE i \in at : \A j \in at : i <= j
StrContains(s, sub) == Index(s, sub) >= 0

\* The two halves of OpenSSH's host-key warning.
WarnHead == "Warning: Permanently added"
WarnEnd == "to the list of known hosts."

\* CutOffWarningLine: when the first closing phrase has the warning's head
\* before it, everything up to the phrase goes and the rest is trimmed.
CutOffWarningLine(s) ==
    LET pos == Index(s, WarnEnd) IN
    IF pos < 0 \/ ~StrContains(SubSeq(s, 1, pos), WarnHead) THEN s
    ELSE TrimSpace(SubSeq(s, pos + Len(WarnEnd) + 1, Len(s)))

\* nodeClientAvailable on a clean exit: a stderr left non-empty by the cut
\* and without "Warning: Permanently" reaches err.Error() on a nil error.
Noisy == [e \in StderrOutputs |->
             LET c == CutOffWarningLine(e) IN c # "" /\ ~StrContains(c, "Warning: Permanently")]
Noise == Noisy[stderr]

\* updateNodeClientNetworkCondition: NodeClientNetworkUnavailable is False
\* when nodeClientAvailable saw the card UP, True otherwise.
ClientNetStatus == IF InterfaceState = "UP" THEN "False" ELSE "True"

\* getIpByNetCardName: the first address of the card (its three tries, ten
\* seconds apart, are one lookup of the current address).
GetIpByNetCardName == hostIp

\* getNodeOobIp: ipmitool's address (nil error), or an error (NoIP) when
\* RunSSHNoPwdCMD fails, prints nothing or prints something that is not an
\* address.  On a clean exit whose stderr NotSshLoginWarnMsg flags, the
\* exit code of a nil error is not "1" and the function returns ip and err
\* as they are: "" and nil.
GetNodeOobIp == {OobAddr, NoIP} \cup (IF OobBlankMayOccur THEN {"none"} ELSE {})

\* Mutant: a True condition is never checked again.
ThrottledForever(t) == conds[t].present /\ conds[t].status = "True"

\* The hour throttle: a True condition written within the hour is skipped.
Throttled(t) == conds[t].present /\ conds[t].hb <= Hour /\ conds[t].status = "True"

-----------------------------------------------------------------------------
(* The probe goroutine.                                                    *)

\* wait.Until starts a tick one period after the last one returned;
\* DoNetWorkProbe calls Init first while probe.isInit is false.
TickStart ==
    /\ pc = "idle"
    /\ conds' = [t \in CondTypes |-> [conds[t] EXCEPT !.hb = Older(@), !.tt = Older(@)]]
    /\ pc' = IF isInit THEN "ensure" ELSE "init"
    /\ attempted' = {}
    /\ listed' = FALSE
    /\ UNCHANGED <<env, conn, isInit, hybrid>>

\* __initSSH: the card name read never fails (it falls back to bond1) and
\* the node's address falls back to its name; a failed node Get leaves the
\* connection as it is, otherwise a new SSHConnection is dialled.
InitSSH == IF apiUp THEN Dial ELSE conn

\* PolarNodeNetworkProbe.Init: isInit is set once __initSSH succeeded;
\* either failure ends the tick.
InitProbe ==
    /\ pc = "init"
    /\ conn' = InitSSH
    /\ isInit' = (InitSSH = "live")
    /\ pc' = IF InitSSH = "live" THEN "ensure" ELSE "idle"
    /\ UNCHANGED <<env, hybrid, conds, attempted, listed>>

\* Mutant: TestAlive trusts any non-nil client, as IsInit does.
EnsureConnTrustsClient ==
    /\ pc = "ensure"
    /\ IF conn # "none"
       THEN pc' = "read" /\ UNCHANGED conn
       ELSE conn' = Dial /\ pc' = IF Dial = "live" THEN "read" ELSE "idle"
    /\ UNCHANGED <<env, isInit, hybrid, conds, attempted, listed>>

\* enSureSshConn: TestAlive opens a session, which only a live connection
\* can; otherwise SSHConnection.Init redials, and a failure ends the tick.
EnsureConn ==
    /\ pc = "ensure"
    /\ IF TestAlive
       THEN pc' = "read" /\ UNCHANGED conn
       ELSE conn' = Dial /\ pc' = IF Dial = "live" THEN "read" ELSE "idle"
    /\ UNCHANGED <<env, isInit, hybrid, conds, attempted, listed>>

\* What getHybridDeploy can return: the ConfigMap is unreadable (OOB is
\* checked because Err is set), the key is absent or "true", or the key is
\* "false" or unparsable (ParseBool's error leaves isCheckOObIP false).
HybridOutcomes ==
    LET failed == [done |-> TRUE, check |-> TRUE, err |-> TRUE]
    IN IF apiUp
       THEN {failed, [done |-> TRUE, check |-> TRUE, err |-> FALSE],
             [done |-> TRUE, check |-> FALSE, err |-> FALSE]}
       ELSE {failed}

\* GetHybridDeploySetting under once.Do, then the node List.
ReadNode ==
    /\ pc = "read"
    /\ \E h \in IF hybrid.done THEN {hybrid} ELSE HybridOutcomes : hybrid' = h
    /\ pc' = IF apiUp THEN "clientnet" ELSE "idle"
    /\ listed' = apiUp
    /\ UNCHANGED <<env, conn, isInit, conds, attempted>>

\* updateNodeClientNetworkCondition and nodeClientAvailable.  On a dead
\* connection NewSession fails and the empty output is "StateUnKnown".  A
\* clean exit with a non-warning stderr reaches err.Error() on a nil error:
\* the panic is recovered by checkJobHandleCrash and the tick ends.
ClientNetwork ==
    /\ pc = "clientnet"
    /\ attempted' = attempted \cup {"clientnet"}
    /\ \/ /\ conn = "live" /\ Noise
          /\ pc' = "idle"
          /\ UNCHANGED conds
       \/ /\ ~(conn = "live" /\ Noise)
          /\ SetNodeCondition("ClientNet", ClientNetStatus, "none")
          /\ pc' = "clientip"
    /\ UNCHANGED <<env, conn, isInit, hybrid, listed>>

\* updateNodeClientIPCondition with getIpByNetCardName.
ClientIPCheck ==
    /\ pc = "clientip"
    /\ attempted' = attempted \cup {"clientip"}
    /\ \/ Throttled("ClientIP") /\ UNCHANGED conds
       \/ /\ ~Throttled("ClientIP")
          /\ IF GetIpByNetCardName \in IPs
             THEN SetNodeCondition("ClientIP", "True", GetIpByNetCardName)
             ELSE SetNodeCondition("ClientIP", "False", KeptMsg("ClientIP"))
    /\ pc' = "oob"
    /\ UNCHANGED <<env, conn, isInit, hybrid, listed>>

\* updateNodeOobCondition, gated in DoNetWorkProbe by the hybrid setting;
\* getNodeOobIp runs ipmitool over a one-shot session that may fail.
OobCheck ==
    /\ pc = "oob"
    /\ attempted' = attempted \cup {"oob"}
    /\ \/ ~(hybrid.err \/ hybrid.check) /\ UNCHANGED conds
       \/ (hybrid.err \/ hybrid.check) /\ Throttled("Oob") /\ UNCHANGED conds
       \/ /\ (hybrid.err \/ hybrid.check) /\ ~Throttled("Oob")
          /\ \E ip \in GetNodeOobIp :
                IF ip = NoIP THEN SetNodeCondition("Oob", "False", KeptMsg("Oob"))
                ELSE SetNodeCondition("Oob", "True", ip)
    /\ pc' = "refresh"
    /\ UNCHANGED <<env, conn, isInit, hybrid, listed>>

\* updateNodeRefreshFlagCondition, the last step of the tick.
RefreshFlag ==
    /\ pc = "refresh"
    /\ attempted' = attempted \cup {"refresh"}
    /\ SetNodeCondition("Refresh", "True", "none")
    /\ pc' = "idle"
    /\ UNCHANGED <<env, conn, isInit, hybrid, listed>>

ProbeStep ==
    TickStart \/ InitProbe \/ EnsureConn \/ ReadNode \/ ClientNetwork
    \/ ClientIPCheck \/ OobCheck \/ RefreshFlag

Next == Environment \/ ProbeStep

\* wait.Until runs a tick every period forever and every step of a tick
\* returns; the environment is under no obligation.
Spec == Init /\ [][Next]_vars /\ WF_vars(ProbeStep)

-----------------------------------------------------------------------------
(* Properties.                                                             *)

\* A condition step wrote condition t in this step.
Written(t) == conds'[t].hb = 0 /\ conds'[t] # conds[t]

\* Spec sections 3 and 8: a condition write moves lastTransitionTime if and
\* only if the status differs from the one recorded before.  The code
\* preserves the old time in createOrUpdateNodeCondition and then overwrites
\* it with now in _SetNodeCondition.
TransitionTimeOnStatusChange ==
    [][\A t \in CondTypes :
         Written(t) /\ conds[t].present =>
            ((conds'[t].tt # conds[t].tt) <=> (conds'[t].status # conds[t].status))]_conds

\* Spec section 4.2: the steps of a tick are independent; once the node was
\* read, a failing step is logged and the client-network, client-IP and
\* refresh-flag steps are all still attempted before the tick ends.
EveryStepAttempted ==
    pc = "idle" /\ listed => {"clientnet", "clientip", "refresh"} \subseteq attempted

\* Spec section 4.2 step 2: losing the SSH connection never degrades the
\* client-network condition; NodeClientNetworkUnavailable is written True
\* only while the NIC really is down.
NoFalseDown ==
    [][Written("ClientNet") /\ conds'["ClientNet"].status = "True" => nic = "DOWN"]_conds

\* Spec section 4.2 steps 6 and 7: updateNodeClientIPCondition and
\* updateNodeOobCondition keep the previous address when a lookup fails;
\* once a condition carries an address, it is replaced only by another
\* address from a successful lookup, never by the placeholder or nothing.
AddressNeverLost ==
    [][\A t \in {"ClientIP", "Oob"} :
         conds[t].msg \in IPs \cup {OobAddr} =>
            \/ conds'[t].msg = conds[t].msg
            \/ conds'[t].status = "True" /\ conds'[t].msg \in IPs \cup {OobAddr}]_conds

\* Once the NIC is up and the node, its sshd and the API server stay healthy,
\* the probe eventually reports the client network as available and keeps
\* it so: a broken SSH connection is detected and redialled.
ClientNetConverges ==
    <>[](nic = "UP" /\ reach /\ apiUp /\ ~Noise) =>
        <>[](conds["ClientNet"].status = "False")

\* updateNodeClientIPCondition skips its lookup for an hour after a True
\* write, whatever happened to the address since.  Once the card keeps one
\* address and the node, its sshd and the API server stay healthy, the
\* ClientIP condition eventually reports that address and keeps it.
ClientIPConverges ==
    \A a \in IPs :
        <>[](hostIp = a /\ reach /\ apiUp /\ ~Noise) =>
            <>[](conds["ClientIP"].status = "True" /\ conds["ClientIP"].msg = a)

=============================================================================
