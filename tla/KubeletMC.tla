-------------------------------- MODULE KubeletMC --------------------------------
(* Worlds for Kubelet to be checked in.                                    *)
EXTENDS Kubelet, FiniteSetsExt

Nothing == [d \in Disturbance |-> 0]

(* Mishaps come one at a time, the kubelet's restart or the loss of a      *)
(* watch among them.                                                       *)
PatientWorlds ==
  {[policy |-> "Always", patient |-> TRUE,
    may |-> [Nothing EXCEPT !["exit"] = 1, !["stop"] = 2, !["remove"] = 1,
                            !["delete"] = 1, !["crash"] = 1]],
   [policy |-> "Always", patient |-> TRUE,
    may |-> [Nothing EXCEPT !["stop"] = 1, !["delete"] = 1, !["relist"] = 2]]}

(* Containers end and are stopped as they like and are not to run again.   *)
NeverWorlds ==
  {[policy |-> "Never", patient |-> FALSE,
    may |-> [Nothing EXCEPT !["exit"] = 2, !["stop"] = 2, !["delete"] = 1]]}

(* At any moment any two of the disturbances there are.                    *)
HastyWorlds ==
  {[policy |-> p, patient |-> FALSE,
    may |-> [d \in Disturbance |-> IF d \in ds THEN 1 ELSE 0]]
     : p \in {"Always", "OnFailure", "Never"}, ds \in kSubset(2, Disturbance)}

AllWorlds == PatientWorlds \cup NeverWorlds \cup HastyWorlds
==================================================================================
