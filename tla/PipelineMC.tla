------------------------------ MODULE PipelineMC ------------------------------
(***************************************************************************)
(* Pipeline for the ReplicaSet controller: what its handlers do to the     *)
(* locks of its two stores (controllers/src/replica_set/controller.rs).    *)
(***************************************************************************)
EXTENDS Pipeline

Read(s) == <<[op |-> "read", store |-> s]>>
Release(s) == <<[op |-> "free", store |-> s]>>

(* resolve_owner, and get_pods as called for a status or for a victim.     *)
ResolveOwner == Read("rs") \o Release("rs")
GetPods == Read("pods") \o Release("pods")

RSStores == {"rs", "pods"}

(* reconcile and handle_pod_change.                                        *)
RSOnEvent ==
  [s \in RSStores |-> IF s = "rs" THEN {<<>>, GetPods}
                      ELSE {ResolveOwner, ResolveOwner \o GetPods}]

(* resync_rs for one ReplicaSet, and resync_pod for pods without an owner  *)
(* or with one: the store walked through stays read-locked.                *)
RSResync == Read("rs") \o GetPods \o Release("rs")
PodResyncNoOwner == Read("pods") \o ResolveOwner \o Release("pods")
PodResyncOwner == Read("pods") \o ResolveOwner \o GetPods \o Release("pods")

RSOnResync ==
  [s \in RSStores |-> IF s = "rs" THEN {RSResync}
                      ELSE {PodResyncNoOwner, PodResyncOwner}]
===============================================================================
