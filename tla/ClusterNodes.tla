---------------------------- MODULE ClusterNodes ----------------------------
(***************************************************************************)
(* The servers and what CLUSTER NODES says of them, as clients/clients.go  *)
(* reads it.  An answer is a function from the servers it has a line for   *)
(* to the flags on that line.                                              *)
(***************************************************************************)
CONSTANTS
    Nodes,       \* addresses of the servers
    Endpoint,    \* the one the URL of an attack leads to
    Views        \* answers CLUSTER NODES may give

Flags == {"myself", "master", "slave", "fail", "fail?", "handshake", "noaddr", "nofailover"}

ASSUME NodesAssumption == Endpoint \in Nodes
ASSUME ViewsAssumption == \A view \in Views : /\ DOMAIN view \subseteq Nodes
                                              /\ \A n \in DOMAIN view : view[n] \subseteq Flags

\* The text of the flags contains "fail" or "noaddr".
Skipped(flags) == flags \cap {"fail", "fail?", "nofailover", "noaddr"} # {}

\* parseClusterNodesOutput, and GetMasterNodes for a cluster.
ParsedNodes(view) == {n \in DOMAIN view : ~Skipped(view[n])}
Masters(view) == {n \in ParsedNodes(view) : "master" \in view[n]}
MasterLists == {Masters(view) : view \in Views}
=============================================================================
