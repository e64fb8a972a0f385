----------------------------- MODULE LogMonitor -----------------------------
(***************************************************************************)
(* The log-folder housekeeping of one node (db_log_monitor/log_monitor.go).*)
(*                                                                         *)
(* Every six hours checkInsFolderTask lists the instance ids of all pods,  *)
(* lists the folders under the log directory (`ls`), lists the folders     *)
(* holding a log written within the retention days (`find -mtime`), and    *)
(* deletes every folder that has neither a pod nor a recent log.  Each     *)
(* listing is a separate remote call, so the cluster and the files change  *)
(* between them.  A folder is an instance id; its contents are abstracted  *)
(* to whether it holds a recent log.                                       *)
(***************************************************************************)
EXTENDS FiniteSets

CONSTANTS
    Instances,      \* instance ids
    Resident,       \* instances whose pod is never removed (possibly none)
    SshMayFail,     \* RunSSHNoPwdCMD may fail
    ApiMayFail,     \* the pod List may fail
    PodsMayStart    \* new instances may be created

VARIABLES
    pods,       \* instances with a pod in the cluster
    folders,    \* instance folders under DbclusterLogDir on this node
    recent,     \* folders holding a log younger than InsFolderOverdueDays
    sshUp,      \* commands over SSH succeed
    apiUp,      \* the API server answers
    pc,         \* the task: "idle", "ls", "find", "delete"
    podIds,     \* podInsIdList
    lsOut,      \* the folders `ls` printed
    findOut     \* the folders `find` printed

env == <<pods, folders, recent, sshUp, apiUp>>
task == <<pc, podIds, lsOut, findOut>>
vars == <<env, task>>

TypeOK ==
    /\ pods \subseteq Instances /\ folders \subseteq Instances
    /\ recent \subseteq folders
    /\ sshUp \in BOOLEAN /\ apiUp \in BOOLEAN
    /\ pc \in {"idle", "ls", "find", "delete"}
    /\ podIds \subseteq Instances /\ lsOut \subseteq Instances /\ findOut \subseteq Instances

\* Any cluster: running instances have their pod, their folder may exist.
Init ==
    /\ pods \in SUBSET Instances /\ Resident \subseteq pods
    /\ folders \in SUBSET Instances
    /\ recent \in SUBSET (folders \cap pods)
    /\ sshUp \in IF SshMayFail THEN BOOLEAN ELSE {TRUE}
    /\ apiUp \in IF ApiMayFail THEN BOOLEAN ELSE {TRUE}
    /\ pc = "idle"
    /\ podIds = {} /\ lsOut = {} /\ findOut = {}

-----------------------------------------------------------------------------
(* The cluster and the files.                                              *)

PodCreated(i) ==
    /\ PodsMayStart
    /\ i \notin pods
    /\ pods' = pods \cup {i}
    /\ UNCHANGED <<folders, recent, sshUp, apiUp, task>>

\* The instance is deleted; its log folder stays behind.
PodRemoved(i) ==
    /\ i \in pods \ Resident
    /\ pods' = pods \ {i}
    /\ UNCHANGED <<folders, recent, sshUp, apiUp, task>>

\* A running instance creates its folder and writes a log.
LogWritten(i) ==
    /\ i \in pods
    /\ folders' = folders \cup {i}
    /\ recent' = recent \cup {i}
    /\ UNCHANGED <<pods, sshUp, apiUp, task>>

\* The instance's folder appears before its first log.
FolderCreated(i) ==
    /\ i \in pods \ folders
    /\ folders' = folders \cup {i}
    /\ UNCHANGED <<pods, recent, sshUp, apiUp, task>>

\* The retention days pass without a new log.
LogsAge(i) ==
    /\ i \in recent
    /\ recent' = recent \ {i}
    /\ UNCHANGED <<pods, folders, sshUp, apiUp, task>>

SshToggles == SshMayFail /\ sshUp' = ~sshUp /\ UNCHANGED <<pods, folders, recent, apiUp, task>>
ApiToggles == ApiMayFail /\ apiUp' = ~apiUp /\ UNCHANGED <<pods, folders, recent, sshUp, task>>

Environment ==
    \/ \E i \in Instances :
          PodCreated(i) \/ PodRemoved(i) \/ LogWritten(i) \/ FolderCreated(i) \/ LogsAge(i)
    \/ SshToggles \/ ApiToggles

-----------------------------------------------------------------------------
(* checkInsFolderTask.                                                     *)

\* RunSSHNoPwdCMD, called through ExecCommand: what the command prints, or
\* nothing when controller-config, the dial or the session fails.
RunSSHNoPwdCMD(out) == IF sshUp THEN out ELSE {}

\* getInsIdListFromPod; a failed List and an empty one are both nil, and
\* checkInsFolderTask returns at once.
ListPods ==
    /\ pc = "idle"
    /\ apiUp /\ pods # {}
    /\ podIds' = pods
    /\ pc' = "ls"
    /\ UNCHANGED <<env, lsOut, findOut>>

\* Mutant: the blank line after the last name of `ls` is kept.
ListFoldersKeepsBlank ==
    /\ pc = "ls"
    /\ lsOut' = RunSSHNoPwdCMD(folders) \cup {""}
    /\ pc' = "find"
    /\ UNCHANGED <<env, podIds, findOut>>

\* `ls` of the log directory; a failed command prints nothing.
ListFolders ==
    /\ pc = "ls"
    /\ lsOut' = RunSSHNoPwdCMD(folders)
    /\ pc' = "find"
    /\ UNCHANGED <<env, podIds, findOut>>

\* `find -mtime -days` of the logs; a failed command prints nothing, and
\* its result is used all the same.
FindRecent ==
    /\ pc = "find"
    /\ findOut' = RunSSHNoPwdCMD(recent)
    /\ pc' = "delete"
    /\ UNCHANGED <<env, podIds, lsOut>>

\* Mutant: the notOverdue flag is read the wrong way round.
OverdueInverted(ls, ids, found) == (ls \ ids) \cap found

\* The folders without a pod whose name `find` did not print.
Overdue(ls, ids, found) == (ls \ ids) \ found

\* deleteInsFolder (`rm -fr` of the overdue folders), then deleteInsLogs
\* and deleteRemovedInsData, which remove only logs and data older than the
\* retention days and so change nothing the model tells apart.
DeleteFolders ==
    /\ pc = "delete"
    /\ LET gone == RunSSHNoPwdCMD(Overdue(lsOut, podIds, findOut))
       IN /\ folders' = folders \ gone
          /\ recent' = recent \ gone
    /\ pc' = "idle"
    /\ podIds' = {} /\ lsOut' = {} /\ findOut' = {}
    /\ UNCHANGED <<pods, sshUp, apiUp>>

TaskStep == ListPods \/ ListFolders \/ FindRecent \/ DeleteFolders

Next == Environment \/ TaskStep

\* wait.Until runs the task every six hours forever.
Spec == Init /\ [][Next]_vars /\ WF_vars(TaskStep)

-----------------------------------------------------------------------------
(* Properties.                                                             *)

\* A folder is deleted only when, at that moment, its instance has no pod
\* and the folder holds no log younger than the retention days.
OnlyOrphansDeleted ==
    [][\A i \in folders \ folders' : i \notin pods /\ i \notin recent]_folders

\* A folder whose instance is gone for good and which receives no more
\* logs is eventually deleted, once the API server and SSH keep working.
OrphansEventuallyRemoved ==
    \A i \in Instances :
        <>[](i \notin pods /\ i \notin recent /\ sshUp /\ apiUp) => <>[](i \notin folders)

=============================================================================
