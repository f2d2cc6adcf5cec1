------------------------------ MODULE GpuJobMC ------------------------------
(* Worlds for GpuJob to be checked in.                                     *)
EXTENDS GpuJob, FiniteSetsExt

Asks(c, p) == [completions |-> c, parallelism |-> p]

(* One disturbance at a time; users who ask for more completions only.     *)
PatientWorlds ==
  {[first |-> Asks(2, 2), patches |-> {Asks(3, 1), Asks(3, 2)},
    names |-> Pod, patient |-> TRUE,
    may |-> [patch |-> 2, drop |-> 1, kill |-> 1, break |-> 1, fail |-> 0, relist |-> n]]
     : n \in {0, 1}}

(* At any moment a patch, or any two of the other disturbances.            *)
HastyWorlds ==
  {[first |-> Asks(1, 1), patches |-> {Asks(1, 2)},
    names |-> CHOOSE ps \in SUBSET Pod : Cardinality(ps) = 2, patient |-> FALSE,
    may |-> [d \in Disturbance |-> IF d \in ds THEN 1 ELSE 0]]
     : ds \in {{"patch"}} \cup kSubset(2, Disturbance \ {"patch"})}

AllWorlds == PatientWorlds \cup HastyWorlds
=============================================================================
