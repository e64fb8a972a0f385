----------------------- MODULE MCCoreVersionCluster -----------------------
(* Model-checking instance of CoreVersionCluster: two nodes.              *)
EXTENDS CoreVersionCluster

CONSTANTS n1, n2

\* The peer URL as core_version_check.go builds it, and the plain HTTP
\* server bizapis.StartHttpServer starts (router.Run).
CodeNotifyScheme == "https"
CodeNotifyPath == "/innerCheckCoreVersion"
CodeServerScheme == "http"

\* Spec section 4's peer wire contract: an HTTPS POST to the peer's
\* inner-check endpoint on its agent port.
ContractScheme == "https"
ContractPath == PathPrefix \o "/" \o "InnerCheckCoreVersion"
=============================================================================
