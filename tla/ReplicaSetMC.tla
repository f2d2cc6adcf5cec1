---------------------------- MODULE ReplicaSetMC ----------------------------
(* Worlds for ReplicaSet to be checked in.                                 *)
EXTENDS ReplicaSet

(* One disturbance at a time; those of users and kubelets only, or all.    *)
PatientWorlds ==
  {[first |-> 2, scales |-> {0, 1, 3}, patient |-> TRUE,
    may |-> [scale |-> 2, drop |-> 1, kill |-> 1, move |-> 1, fail |-> 0, relist |-> n]]
     : n \in {0, 1}}

(* Everything at once.                                                     *)
HastyWorlds ==
  {[first |-> 1, scales |-> {0, 2}, patient |-> FALSE,
    may |-> [scale |-> 1, drop |-> 1, kill |-> 0, move |-> 1, fail |-> 1, relist |-> 1]]}

AllWorlds == PatientWorlds \cup HastyWorlds
=============================================================================
