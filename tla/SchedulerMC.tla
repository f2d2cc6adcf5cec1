------------------------------ MODULE SchedulerMC ------------------------------
(* Worlds for Scheduler to be checked in.                                  *)
EXTENDS Scheduler, FiniteSetsExt

AnyNode == Pod \X Node

(* One pod has a node selector that only one of the nodes matches.         *)
Picky == CHOOSE p \in Pod : TRUE
OnePicky ==
  LET only == CHOOSE n \in Node : TRUE
  IN  {f \in AnyNode : f[1] = Picky => f[2] = only}

(* Of two pods at least one is picky.                                      *)
TwoPods == {{Picky, p} : p \in Pod \ {Picky}}

(* Users create pods as fast as they like.                                 *)
BusyWorlds ==
  {[pods |-> Pod, fits |-> AnyNode, patient |-> FALSE,
    may |-> [create |-> 4, delete |-> 0, beat |-> 0, drop |-> 0, die |-> 0,
             fail |-> 0, relist |-> 0]]}

(* There are more events than there is room for, and meanwhile a node puts *)
(* its status, or a watch is lost.                                         *)
Little == [d \in Disturbance |-> 0]
CrowdedWorlds ==
  [pods : {Pod}, fits : {Pod \X {CHOOSE n \in Node : TRUE}}, patient : {FALSE},
   may : {[Little EXCEPT !["create"] = 3, !["beat"] = 1],
          [Little EXCEPT !["create"] = 2, !["delete"] = 2, !["relist"] = 1],
          [Little EXCEPT !["beat"] = 3, !["drop"] = 1, !["relist"] = 1]}]

(* Users and kubelets take turns with the scheduler.                       *)
PatientWorlds ==
  {[pods |-> Pod, fits |-> OnePicky, patient |-> TRUE,
    may |-> [create |-> 4, delete |-> 2, beat |-> 2, drop |-> 0, die |-> 1,
             fail |-> 0, relist |-> 0]]}

(* At any moment any three of the disturbances there are.                  *)
HastyWorlds ==
  {[pods |-> CHOOSE ps \in TwoPods : TRUE, fits |-> OnePicky, patient |-> FALSE,
    may |-> [d \in Disturbance |-> IF d = "create" THEN 2 ELSE IF d \in ds THEN 1 ELSE 0]]
     : ds \in kSubset(3, Disturbance \ {"create"})}

AllWorlds == BusyWorlds \cup CrowdedWorlds \cup PatientWorlds \cup HastyWorlds
===============================================================================
