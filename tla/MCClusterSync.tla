--------------------------- MODULE MCClusterSync ---------------------------
(* Constants of the cluster sweep for TLC. *)
EXTENDS ClusterSync

CONSTANTS daily, master, ops, catchup

(* One cluster has the daily notebook, one that of the master pipeline.   *)
MCTargets == {{daily}, {master}}
=============================================================================
