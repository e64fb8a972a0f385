---------------------------- MODULE ConfigPolicy ----------------------------
(***************************************************************************)
(* ControllerConfigPolicy and GetControllerConfigWithPolicy               *)
(* (controller_config.go), called without a lock by several goroutines:    *)
(* the probe's OOB check, port usage and the log monitor all reach it      *)
(* through RunSSHNoPwdCMD or GetControllerConfig.                          *)
(*                                                                         *)
(* A call is split where other goroutines can interleave: the reload test  *)
(* and the fast return, the Get of the ConfigMap, and the publication of   *)
(* LastValue, IsInited and LastQueryTime.  Publication is one step: every  *)
(* torn intermediate state a racing reader could see makes                 *)
(* CheckPolicyIsReload answer true, as the state before it does.           *)
(***************************************************************************)
EXTENDS Naturals

CONSTANTS
    Callers,        \* goroutines that call GetControllerConfig
    TTL,            \* MaxQueryStepTime in ticks: 30 minutes, set in init()
    MaxVersion,     \* edits of the controller-config record
    None,           \* a nil *ControllerConfig
    ApiMayFail      \* the ConfigMap Get may fail

VARIABLES
    store,      \* the version of the controller-config record
    apiUp,      \* the API server answers
    age,        \* ticks since LastQueryTime, saturated at TTL
    inited,     \* policy.IsInited
    lastValue,  \* policy.LastValue: the version it was parsed from
    pc,         \* each caller's position in GetControllerConfigWithPolicy
    got,        \* the version a caller's Get returned
    seen        \* the version each caller last received

Versions == 0..MaxVersion
vars == <<store, apiUp, age, inited, lastValue, pc, got, seen>>

TypeOK ==
    /\ store \in Versions
    /\ apiUp \in BOOLEAN
    /\ age \in 0..TTL
    /\ inited \in BOOLEAN
    /\ lastValue \in Versions \cup {None}
    /\ pc \in [Callers -> {"idle", "fetch", "publish"}]
    /\ got \in [Callers -> Versions \cup {None}]
    /\ seen \in [Callers -> Versions \cup {None}]

\* init(): IsInited false, no LastQueryTime, no LastValue.
Init ==
    /\ store = 0
    /\ apiUp \in IF ApiMayFail THEN BOOLEAN ELSE {TRUE}
    /\ age = TTL
    /\ inited = FALSE
    /\ lastValue = None
    /\ pc = [c \in Callers |-> "idle"]
    /\ got = [c \in Callers |-> None]
    /\ seen = [c \in Callers |-> None]

-----------------------------------------------------------------------------
(* The environment.                                                        *)

StoreChanges ==
    /\ store < MaxVersion
    /\ store' = store + 1
    /\ UNCHANGED <<apiUp, age, inited, lastValue, pc, got, seen>>

ApiToggles ==
    /\ ApiMayFail
    /\ apiUp' = ~apiUp
    /\ UNCHANGED <<store, age, inited, lastValue, pc, got, seen>>

\* Time passes: realSeconds, time.Now() minus LastQueryTime, grows.
Tick ==
    /\ age < TTL
    /\ age' = age + 1
    /\ UNCHANGED <<store, apiUp, inited, lastValue, pc, got, seen>>

-----------------------------------------------------------------------------
(* The callers.                                                            *)

\* Mutant: the interval is treated as zero, "read only once".
CheckPolicyIsReloadOnce == ~inited \/ lastValue = None

\* CheckPolicyIsReload.  MaxQueryStepTime is never nil or zero in this
\* program, so its "read once" branch is not reachable.
CheckPolicyIsReload == ~inited \/ lastValue = None \/ age >= TTL

\* The reload test; without a reload the call returns LastValue.
Get(c) ==
    /\ pc[c] = "idle"
    /\ IF CheckPolicyIsReload
       THEN pc' = [pc EXCEPT ![c] = "fetch"] /\ UNCHANGED seen
       ELSE seen' = [seen EXCEPT ![c] = lastValue] /\ UNCHANGED pc
    /\ UNCHANGED <<store, apiUp, age, inited, lastValue, got>>

\* The ConfigMap Get and the parsing of sshUser and enablePrintPort; a
\* failure returns the error and leaves the policy untouched.
Fetch(c) ==
    /\ pc[c] = "fetch"
    /\ IF apiUp
       THEN pc' = [pc EXCEPT ![c] = "publish"] /\ got' = [got EXCEPT ![c] = store]
       ELSE pc' = [pc EXCEPT ![c] = "idle"] /\ UNCHANGED got
    /\ UNCHANGED <<store, apiUp, age, inited, lastValue, seen>>

\* LastValue, IsInited and LastQueryTime are overwritten: last writer wins.
Publish(c) ==
    /\ pc[c] = "publish"
    /\ lastValue' = got[c]
    /\ inited' = TRUE
    /\ age' = 0
    /\ seen' = [seen EXCEPT ![c] = got[c]]
    /\ pc' = [pc EXCEPT ![c] = "idle"]
    /\ UNCHANGED <<store, apiUp, got>>

Call(c) == Get(c) \/ Fetch(c) \/ Publish(c)

Next ==
    \/ StoreChanges \/ ApiToggles \/ Tick
    \/ \E c \in Callers : Call(c)

\* Every caller runs on a timer forever, so each keeps calling; time passes.
Spec == Init /\ [][Next]_vars /\ \A c \in Callers : WF_vars(Call(c)) /\ WF_vars(Tick)

-----------------------------------------------------------------------------
(* Properties.                                                             *)

\* Once the API server stays up, every caller eventually keeps receiving
\* the current controller-config: a stale or lost publication is
\* repaired by a later reload.
EventuallyCurrent == <>[]apiUp => \A c \in Callers : <>[](seen[c] = store)

=============================================================================
