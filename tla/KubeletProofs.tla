----------------------------- MODULE KubeletProofs -----------------------------
(***************************************************************************)
(* Theorems about Kubelet, for any containers, any restart policy and any  *)
(* disturbance: failures, lost watches and restarts included.  The two     *)
(* tasks are kept apart (TasksKeptApart), every variable keeps its type    *)
(* (KubeletTypeCorrect), a deleted pod leaves nothing behind               *)
(* (NothingLeftBehind), and what has ended stays ended (EndedForGood).     *)
(*                                                                         *)
(* And about KubeletLocks, for any number of pods and any capacity of the  *)
(* channels that has room for them: only full queues make the tasks wait   *)
(* for each other in a circle (OnlyFullQueuesMakeCircles).                 *)
(***************************************************************************)
EXTENDS Kubelet, KubeletLocks, SequenceTheorems, TLAPS

(* The worker is a record of what it does, with which pod and containers.  *)
WorkerOK == worker = [at |-> worker.at, pod |-> worker.pod, todo |-> worker.todo]

(* What the worker does while the status manager must not interfere.       *)
Repairing == worker.at \in {"inspect", "sandbox", "sandboxstart", "boxes"}

(* The list keeps the two tasks apart: the manager is not looking at a pod *)
(* the worker repairs or removes, and cannot begin to, for a pod that is   *)
(* repaired is not in the list, and the list of a pod that is removed is   *)
(* locked.                                                                 *)
Apart ==
  /\ Repairing => ~listed /\ manager.at = "idle"
  /\ worker.at = "remove" => manager.at = "idle"

Inv == WorkerOK /\ Apart

LEMMA GoAt ==
  ASSUME WorkerOK, NEW at
  PROVE  /\ Go(at) => WorkerOK' /\ worker'.at = at
         /\ \A cs : GoDo(at, cs) => WorkerOK' /\ worker'.at = at
BY DEF WorkerOK, Go, GoDo

(* A step that leaves the list and what the tasks do as they were.         *)
LEMMA Aside ==
  ASSUME Inv, worker' = worker, listed' = listed, manager' = manager
  PROVE  Inv'
BY DEF Inv, WorkerOK, Apart, Repairing

(* A step after which the worker is idle.                                  *)
LEMMA Rests == ASSUME worker' = Idle PROVE Inv'
BY DEF Idle, Inv, WorkerOK, Apart, Repairing

(* The status manager goes on: not while a pod is repaired or removed, for *)
(* then it is idle, and it does not begin with a pod that is not listed.   *)
LEMMA ManagerStep ==
  ASSUME Inv, worker' = worker, listed' = listed,
         manager.at # "idle" \/ (listed /\ worker.at # "remove")
  PROVE  Inv'
BY DEF Inv, WorkerOK, Apart, Repairing

(* The worker goes on with a repair, or to where nobody can interfere.     *)
LEMMA WorkerStep ==
  ASSUME Inv, listed' = listed, manager' = manager, NEW at,
         Go(at) \/ \E cs : GoDo(at, cs),
         at \in {"sandbox", "sandboxstart", "boxes"} => Repairing,
         at \notin {"inspect", "remove"}
  PROVE  Inv'
BY GoAt DEF Inv, Apart, Repairing

(* Every step of the two tasks and of their surroundings keeps them apart. *)
LEMMA StepApart == ASSUME Inv, [Next]_vars PROVE Inv'
<1> USE DEF etcdVars, informerVars, taskVars, docker
<1>1. ASSUME NEW c \in Container, Exit(c) \/ DockerRestart(c) \/ Stop(c) \/ Remove(c)
      PROVE  Inv'
  BY <1>1, Aside DEF Exit, DockerRestart, Stop, Remove
<1>2. CASE Bind \/ DeletePod \/ StopSandbox \/ RemoveSandbox
  BY <1>2, Aside DEF Bind, DeletePod, StopSandbox, RemoveSandbox
<1>3. CASE ReceivePod \/ LoseWatch \/ ListPods \/ Connect
  BY <1>3, Aside DEF ReceivePod, LoseWatch, ListPods, Connect
<1>4. CASE Crash \/ List
  BY <1>4, Rests DEF Crash, List
<1>5. CASE TakeUpdate
  BY <1>5 DEF TakeUpdate, Idle, Inv, WorkerOK, Apart, Repairing
<1>6. CASE HandleResync
  BY <1>6, Rests DEF HandleResync
<1>7. CASE CreateSandbox
  <2>1. CASE worker.at = "add"
    BY <1>7, <2>1, WorkerStep DEF CreateSandbox
  <2>2. CASE worker.at = "sandbox"
    BY <1>7, <2>2, WorkerStep DEF CreateSandbox, Repairing
  <2> QED BY <1>7, <2>1, <2>2 DEF CreateSandbox
<1>8. CASE StartSandbox
  <2>1. CASE worker.at = "addstart"
    BY <1>8, <2>1, WorkerStep DEF StartSandbox
  <2>2. CASE worker.at = "sandboxstart"
    BY <1>8, <2>2, WorkerStep DEF StartSandbox, Repairing
  <2> QED BY <1>8, <2>1, <2>2 DEF StartSandbox
<1>9. CASE CreateBoxes \/ StartBoxes
  <2>1. listed' = listed /\ manager' = manager
    BY <1>9 DEF CreateBoxes, StartBoxes
  <2>2. \/ Go("list")
        \/ \E at \in {"create", "start"} : \E cs : GoDo(at, cs)
    BY <1>9 DEF CreateBoxes, StartBoxes
  <2> QED BY <2>1, <2>2, WorkerStep
<1>10. CASE Unlist
  <2>1. Go("inspect") /\ ~listed' /\ manager.at = "idle" /\ manager' = manager
    BY <1>10 DEF Unlist, Write
  <2> QED BY <2>1, GoAt DEF Inv, Apart, Repairing
<1>11. CASE InspectSandbox
  BY <1>11, WorkerStep DEF InspectSandbox, Repairing
<1>12. CASE RepairBoxes
  <2>1. listed' = listed /\ manager' = manager /\ Repairing
    BY <1>12 DEF RepairBoxes, Repairing
  <2>2. worker' = worker \/ Go("list") \/ \E cs : GoDo("boxes", cs)
    BY <1>12 DEF RepairBoxes
  <2> QED BY <2>1, <2>2, Aside, WorkerStep
<1>13. CASE Drop
  <2>1. Go("remove") /\ manager.at = "idle" /\ manager' = manager
    BY <1>13 DEF Drop, Write
  <2> QED BY <2>1, GoAt DEF Inv, Apart, Repairing
<1>14. CASE RemovePod
  BY <1>14, Rests DEF RemovePod
<1>15. CASE WorkerFails
  <2>1. listed' = listed /\ manager' = manager
    BY <1>15 DEF WorkerFails
  <2>2. CASE worker' = Idle
    BY <2>2, Rests
  <2>3. CASE Go("list")
    BY <2>1, <2>3, WorkerStep
  <2>4. CASE /\ worker.at \in {"create", "start", "boxes"}
             /\ \E c \in worker.todo : GoDo(worker.at, worker.todo \ {c})
    BY <2>1, <2>4, WorkerStep DEF Repairing
  <2>5. CASE worker.at = "inspect" /\ GoDo("sandbox", Container)
    BY <2>1, <2>5, WorkerStep DEF Repairing
  <2> QED BY <1>15, <2>2, <2>3, <2>4, <2>5 DEF WorkerFails
<1>16. CASE Poll \/ InspectPod \/ PostStatus
  BY <1>16, ManagerStep DEF Poll, InspectPod, PostStatus
<1>17. CASE ManagerFails
  BY <1>17, ManagerStep DEF ManagerFails
<1>18. CASE UNCHANGED vars
  BY <1>18, Aside DEF vars
<1> QED
  BY <1>1, <1>2, <1>3, <1>4, <1>5, <1>6, <1>7, <1>8, <1>9, <1>10, <1>11, <1>12,
     <1>13, <1>14, <1>15, <1>16, <1>17, <1>18
     DEF Next, Work, Manage

LEMMA InitApart == Init => Inv
BY DEF Init, Idle, Inv, WorkerOK, Apart, Repairing

(* The status manager never looks at a pod while the worker repairs or     *)
(* removes it, as the comment on the removal from the list promises.       *)
THEOREM TasksKeptApart == Spec => []NoInterference
<1>1. Inv => NoInterference
  BY DEF Inv, Apart, Repairing, NoInterference
<1> QED BY <1>1, InitApart, StepApart, PTL DEF Spec
-------------------------------------------------------------------------------
(* Types.  What the status manager looks at is a pod.                      *)
Shown == manager.at # "idle" => manager.pod \in Pod
TypeInv == TypeOK /\ Shown

LEMMA Boxes == Missing \in Box /\ NoStatus \in Status
BY DEF Missing, Box, State, NoStatus, Status

LEMMA PodType ==
  /\ \A b \in BOOLEAN, s \in Status : [bound |-> b, status |-> s] \in Pod
  /\ \A p \in Pod : p.bound \in BOOLEAN /\ p.status \in Status
  /\ \A p \in Pod : [p EXCEPT !.bound = TRUE] \in Pod
  /\ \A p \in Pod : \A s \in Status : [p EXCEPT !.status = s] \in Pod
BY DEF Pod

LEMMA ObservedType == ASSUME box \in [Container -> Box] PROVE Observed \in Status
<1>1. \A c \in Container : (IF box[c].st = "missing" THEN Missing ELSE box[c]) \in Box
  BY Boxes
<1>2. (sandbox = "up") \in BOOLEAN
  OBVIOUS
<1> QED BY <1>1, <1>2 DEF Observed, Status

LEMMA DisturbType ==
  ASSUME TypeOK, NEW d \in Disturbance, Disturb(d)
  PROVE  world' \in Worlds /\ env' \in [Disturbance -> Nat]
BY DEF TypeOK, Disturb

LEMMA BoxType ==
  ASSUME box \in [Container -> Box], NEW c \in Container
  PROVE  /\ \A st \in State : SetBox(c, st) => box' \in [Container -> Box]
         /\ Create(c) \/ Start(c) => box' \in [Container -> Box]
         /\ [box EXCEPT ![c].st = "running", ![c].rc = @ + 1] \in [Container -> Box]
<1>1. box[c] \in Box /\ box[c].id \in Nat /\ box[c].rc \in Nat
  BY DEF Box
<1>2. \A b \in Box : [box EXCEPT ![c] = b] \in [Container -> Box]
  OBVIOUS
<1>3. \A b \in Box, st \in State, rc \in Nat :
        [b EXCEPT !.st = st] \in Box /\ [b EXCEPT !.rc = rc] \in Box
  BY DEF Box
<1>4. \A f \in [Container -> Box], st \in State, rc \in Nat :
        /\ [f EXCEPT ![c].st = st] \in [Container -> Box]
        /\ [f EXCEPT ![c].rc = rc] \in [Container -> Box]
  BY <1>3
<1>5. ASSUME NEW st \in State, SetBox(c, st) PROVE box' \in [Container -> Box]
  BY <1>4, <1>5 DEF SetBox
<1>6. ASSUME Create(c) PROVE box' \in [Container -> Box]
  <2>1. [st |-> "created", id |-> box[c].id + 1, rc |-> 0] \in Box
    BY <1>1 DEF Box, State
  <2>2. box' = box \/ \E b \in Box : box' = [box EXCEPT ![c] = b]
    BY <1>6, <2>1 DEF Create
  <2> QED BY <1>2, <2>1, <2>2
<1>7. "running" \in State /\ 0 \in Nat /\ box[c].rc + 1 \in Nat
  BY <1>1 DEF State
<1>8. ASSUME NEW n \in Nat PROVE [box EXCEPT ![c].st = "running", ![c].rc = n] \in [Container -> Box]
  <2>1. [box EXCEPT ![c].st = "running", ![c].rc = n]
          = [box EXCEPT ![c] = [@ EXCEPT !.st = "running", !.rc = n]]
    OBVIOUS
  <2>2. [box[c] EXCEPT !.st = "running"] \in Box
    BY <1>1, <1>3, <1>7
  <2>3. [box[c] EXCEPT !.st = "running", !.rc = n] \in Box
    BY <1>3, <1>7, <2>2, Zenon
  <2> QED BY <1>2, <2>1, <2>3
<1>9. ASSUME Start(c) PROVE box' \in [Container -> Box]
  BY <1>7, <1>8, <1>9 DEF Start
<1>10. [box EXCEPT ![c].st = "running", ![c].rc = @ + 1]
         = [box EXCEPT ![c].st = "running", ![c].rc = box[c].rc + 1]
  BY <1>1
<1> QED BY <1>5, <1>6, <1>7, <1>8, <1>9, <1>10
(* What was a pod, a sequence of news or the like still is one, where the  *)
(* step gives it that type.                                                *)
LEMMA PutType ==
  ASSUME TypeOK, NEW new \in Pod \cup {NoPod}, PutPod(new)
  PROVE  pod' \in Pod \cup {NoPod} /\ watch' \in Seq(Pod \cup {NoPod}) /\ missed' \in BOOLEAN
BY DEF TypeOK, PutPod

LEMMA QueueType ==
  ASSUME TypeOK, Len(queue) < QueueCap,
         NEW old \in Pod \cup {NoPod}, NEW new \in Pod \cup {NoPod},
         queue' = Append(queue, [old |-> old, new |-> new])
  PROVE  /\ queue' \in Seq([old : Pod \cup {NoPod}, new : Pod \cup {NoPod}])
         /\ Len(queue') <= QueueCap
<1> DEFINE Entry == [old : Pod \cup {NoPod}, new : Pod \cup {NoPod}]
           e == [old |-> old, new |-> new]
<1>1. e \in Entry /\ queue \in Seq(Entry) /\ QueueCap \in Nat
  BY KubeletAssumption DEF TypeOK
<1> HIDE DEF Entry, e
<1>2. queue' = Append(queue, e)
  BY DEF e
<1>3. queue' \in Seq(Entry) /\ Len(queue') = Len(queue) + 1 /\ Len(queue) \in Nat
  BY <1>1, <1>2, AppendProperties, LenProperties
<1> QED BY <1>1, <1>3 DEF Entry

(* What the worker may be.                                                 *)
WorkerState ==
  [at : {"idle", "add", "addstart", "create", "start", "list", "unlist", "inspect",
         "sandbox", "sandboxstart", "boxes", "drop", "remove"},
   pod : Pod \cup {NoPod}, todo : SUBSET Container]

LEMMA WorkerType ==
  ASSUME TypeOK
  PROVE  /\ worker \in WorkerState /\ Idle \in WorkerState
         /\ \A at \in {"addstart", "create", "start", "list", "inspect", "sandbox",
                      "sandboxstart", "boxes", "remove"} :
              /\ Go(at) => worker' \in WorkerState
              /\ \A cs \in SUBSET Container : GoDo(at, cs) => worker' \in WorkerState
BY DEF TypeOK, Go, GoDo, WorkerState, Idle

(* A step that leaves etcd, the informer and the list alone.               *)
LEMMA DockerStep ==
  ASSUME TypeInv, UNCHANGED <<etcdVars, informerVars, listed, manager>>,
         worker' \in WorkerState,
         sandbox' \in {"none", "created", "up", "down"}, box' \in [Container -> Box],
         world' \in Worlds, env' \in [Disturbance -> Nat]
  PROVE  TypeInv'
BY DEF TypeInv, TypeOK, Shown, WorkerState, etcdVars, informerVars

LEMMA StepType == ASSUME TypeInv, [Next]_vars PROVE TypeInv'
<1> USE DEF etcdVars, informerVars, taskVars, docker, envVars
<1>a. TypeOK /\ Shown
  BY DEF TypeInv
<1>b. /\ worker \in WorkerState /\ sandbox \in {"none", "created", "up", "down"}
      /\ box \in [Container -> Box] /\ world \in Worlds /\ env \in [Disturbance -> Nat]
  BY <1>a, WorkerType DEF TypeOK
<1>c. \A d \in Disturbance : Disturb(d) => world' \in Worlds /\ env' \in [Disturbance -> Nat]
  BY <1>a, DisturbType
<1>d. "exit" \in Disturbance /\ "stop" \in Disturbance /\ "remove" \in Disturbance
      /\ "delete" \in Disturbance /\ "fail" \in Disturbance /\ "relist" \in Disturbance
      /\ "crash" \in Disturbance
  BY DEF Disturbance
<1>1. CASE Bind
  <2>1. [pod EXCEPT !.bound = TRUE] \in Pod
    BY <1>a, <1>1, PodType DEF TypeOK, Bind
  <2>2. pod' \in Pod \cup {NoPod} /\ watch' \in Seq(Pod \cup {NoPod}) /\ missed' \in BOOLEAN
    BY <1>a, <1>1, <2>1, PutType DEF Bind
  <2> QED BY <1>a, <1>1, <2>2 DEF Bind, TypeInv, TypeOK, Shown
<1>2. CASE DeletePod
  <2>1. pod' \in Pod \cup {NoPod} /\ watch' \in Seq(Pod \cup {NoPod}) /\ missed' \in BOOLEAN
    BY <1>a, <1>2, PutType DEF DeletePod
  <2>2. world' \in Worlds /\ env' \in [Disturbance -> Nat]
    BY <1>c, <1>d, <1>2 DEF DeletePod
  <2>3. UNCHANGED <<informerVars, taskVars, docker>>
    BY <1>2 DEF DeletePod
  <2>4. TypeOK'
    BY <1>a, <2>1, <2>2, <2>3 DEF TypeOK
  <2>5. Shown'
    BY <1>a, <2>3 DEF Shown
  <2> QED BY <2>4, <2>5 DEF TypeInv
<1>3. ASSUME NEW c \in Container, Exit(c) \/ DockerRestart(c) \/ Stop(c) \/ Remove(c)
      PROVE  TypeInv'
  <2>1. \A st \in State : SetBox(c, st) => box' \in [Container -> Box]
    BY <1>b, BoxType
  <2>2. DockerRestart(c) => box' \in [Container -> Box]
    BY <1>b, BoxType DEF DockerRestart
  <2>3. box' \in [Container -> Box]
    BY <1>3, <2>1, <2>2 DEF Exit, Stop, Remove, State
  <2>4. UNCHANGED <<etcdVars, informerVars, taskVars, sandbox>>
    BY <1>3 DEF Exit, Stop, Remove, DockerRestart
  <2>5. world' \in Worlds /\ env' \in [Disturbance -> Nat]
    BY <1>b, <1>c, <1>d, <1>3 DEF Exit, Stop, Remove, DockerRestart
  <2> QED BY <1>b, <2>3, <2>4, <2>5, DockerStep
<1>4. CASE StopSandbox \/ RemoveSandbox
  BY <1>b, <1>c, <1>d, <1>4, DockerStep DEF StopSandbox, RemoveSandbox
<1>5. CASE ReceivePod
  <2>1. /\ Head(watch) \in Pod \cup {NoPod}
        /\ watch' \in Seq(Pod \cup {NoPod})
    BY <1>a, <1>5, HeadTailProperties DEF TypeOK, ReceivePod
  <2>2. /\ queue' \in Seq([old : Pod \cup {NoPod}, new : Pod \cup {NoPod}])
        /\ Len(queue') <= QueueCap
    BY <1>a, <1>5, <2>1, QueueType DEF TypeOK, ReceivePod
  <2> QED BY <1>a, <1>5, <2>1, <2>2 DEF ReceivePod, TypeInv, TypeOK, Shown
<1>6. CASE LoseWatch \/ ListPods \/ Connect
  <2>1. CASE LoseWatch
    <3>1. watch' \in Seq(Pod \cup {NoPod}) /\ link' = "none" /\ missed' \in BOOLEAN
      BY <1>a, <2>1 DEF LoseWatch, TypeOK
    <3>2. world' \in Worlds /\ env' \in [Disturbance -> Nat]
      BY <1>c, <1>d, <2>1 DEF LoseWatch
    <3> QED BY <1>a, <2>1, <3>1, <3>2 DEF LoseWatch, TypeInv, TypeOK, Shown
  <2>2. CASE ListPods
    <3>1. resync' \in BOOLEAN /\ missed' \in BOOLEAN /\ link' = "list" /\ store' = pod
      BY <1>a, <2>2 DEF ListPods, TypeOK
    <3> QED BY <1>a, <2>2, <3>1 DEF ListPods, TypeInv, TypeOK, Shown
  <2>3. CASE Connect
    BY <1>a, <2>3 DEF Connect, TypeInv, TypeOK, Shown
  <2> QED BY <1>6, <2>1, <2>2, <2>3
<1>7. CASE Crash
  <2>b. missed' \in BOOLEAN /\ link' = "none"
    BY <1>a, <1>7 DEF Crash, TypeOK
  <2>m. resync' \in BOOLEAN
    BY <1>7, Zenon DEF Crash
  <2>1. /\ watch' \in Seq(Pod \cup {NoPod})
        /\ queue' \in Seq([old : Pod \cup {NoPod}, new : Pod \cup {NoPod}])
        /\ Len(queue') <= QueueCap
    BY <1>7, KubeletAssumption DEF Crash
  <2>2. world' \in Worlds /\ env' \in [Disturbance -> Nat]
    BY <1>c, <1>d, <1>7 DEF Crash
  <2> QED BY <1>a, <1>7, <2>b, <2>m, <2>1, <2>2 DEF Crash, Idle, TypeInv, TypeOK, Shown
<1>8. CASE TakeUpdate
  <2>1. /\ Head(queue) \in [old : Pod \cup {NoPod}, new : Pod \cup {NoPod}]
        /\ queue' \in Seq([old : Pod \cup {NoPod}, new : Pod \cup {NoPod}])
        /\ Len(queue') <= QueueCap
    <3> DEFINE Entry == [old : Pod \cup {NoPod}, new : Pod \cup {NoPod}]
    <3>1. queue \in Seq(Entry) /\ queue # <<>> /\ queue' = Tail(queue)
          /\ Len(queue) \in Nat /\ Len(queue) <= QueueCap /\ QueueCap \in Nat
      BY <1>a, <1>8, KubeletAssumption DEF TypeOK, TakeUpdate
    <3> HIDE DEF Entry
    <3>2. Head(queue) \in Entry /\ Tail(queue) \in Seq(Entry) /\ Len(Tail(queue)) = Len(queue) - 1
      BY <3>1, HeadTailProperties
    <3> QED BY <3>1, <3>2 DEF Entry
  <2>2. Head(queue).old \in Pod \cup {NoPod} /\ Head(queue).new \in Pod \cup {NoPod}
    BY <2>1
  <2>3. worker' \in WorkerState
    BY <1>b, <1>8, <2>2 DEF TakeUpdate, Idle, WorkerState
  <2> QED BY <1>a, <1>8, <2>1, <2>3 DEF TakeUpdate, WorkerState, TypeInv, TypeOK, Shown
<1>9. CASE HandleResync
  <2>1. /\ queue' \in Seq([old : Pod \cup {NoPod}, new : Pod \cup {NoPod}])
        /\ Len(queue') <= QueueCap
    BY <1>a, <1>9, QueueType DEF TypeOK, HandleResync
  <2>2. listed' \in BOOLEAN /\ resync' \in BOOLEAN
    BY <1>a, <1>9 DEF TypeOK, HandleResync, Write
  <2>3. UNCHANGED <<pod, store, watch, missed, link, worker, manager, sandbox, box, world, env>>
    BY <1>9 DEF HandleResync, etcdVars, taskVars, docker, envVars
  <2> QED BY <1>a, <2>1, <2>2, <2>3 DEF TypeInv, TypeOK, Shown
<1>10. CASE CreateSandbox \/ StartSandbox
  <2>1. worker' \in WorkerState
    BY <1>a, <1>10, WorkerType DEF CreateSandbox, StartSandbox
  <2> QED BY <1>b, <1>10, <2>1, DockerStep DEF CreateSandbox, StartSandbox
<1>11. CASE CreateBoxes \/ StartBoxes \/ RepairBoxes
  <2>1. worker.todo \in SUBSET Container /\ There \in SUBSET Container
    BY <1>b DEF WorkerState, There
  <2>2. \A c \in worker.todo : Create(c) \/ Start(c) => box' \in [Container -> Box]
    BY <1>b, <2>1, BoxType
  <2>3. box' \in [Container -> Box]
    BY <1>b, <1>11, <2>2 DEF CreateBoxes, StartBoxes, RepairBoxes
  <2>4. worker' \in WorkerState
    BY <1>a, <1>b, <1>11, <2>1, WorkerType DEF CreateBoxes, StartBoxes, RepairBoxes
  <2> QED BY <1>b, <1>11, <2>3, <2>4, DockerStep DEF CreateBoxes, StartBoxes, RepairBoxes
<1>12. CASE List \/ Unlist \/ Drop
  <2>1. worker' \in WorkerState /\ listed' \in BOOLEAN
    BY <1>a, <1>12, WorkerType DEF List, Unlist, Drop, Write
  <2> QED BY <1>a, <1>12, <2>1 DEF List, Unlist, Drop, WorkerState, TypeInv, TypeOK, Shown
<1>c2. \A c \in Container : [box[c] EXCEPT !.st = "missing"] \in Box
  BY <1>b DEF Box, State
<1>c3. Cleared \in [Container -> Box]
  BY <1>b, <1>c2 DEF Cleared
<1>13. CASE InspectSandbox
  <2>1. {c \in Container : ShouldRestart(worker.pod.status.box[c])} \in SUBSET Container
    OBVIOUS
  <2>2. worker' \in WorkerState
    BY <1>a, <1>13, <2>1, WorkerType DEF InspectSandbox
  <2> QED BY <1>b, <1>c3, <1>13, <2>2, DockerStep DEF InspectSandbox
<1>14. CASE RemovePod
  <2>1. worker' \in WorkerState /\ box' \in [Container -> Box]
    BY <1>a, <1>c2, <1>14, WorkerType DEF RemovePod
  <2> QED BY <1>b, <1>14, <2>1, DockerStep DEF RemovePod
<1>15. CASE WorkerFails
  <2>1. worker' \in WorkerState
    <3>1. worker.todo \in SUBSET Container
      BY <1>b DEF WorkerState
    <3> QED BY <1>a, <1>15, <3>1, WorkerType DEF WorkerFails
  <2>2. box' \in [Container -> Box]
    BY <1>b, <1>c2, <1>c3, <1>15 DEF WorkerFails
  <2>3. sandbox' \in {"none", "created", "up", "down"}
    BY <1>b, <1>15 DEF WorkerFails
  <2>4. UNCHANGED <<etcdVars, informerVars, listed, manager>> /\ Disturb("fail")
    BY <1>15 DEF WorkerFails
  <2> QED BY <1>c, <1>d, <2>1, <2>2, <2>3, <2>4, DockerStep
<1>16. CASE Poll
  BY <1>a, <1>16 DEF Poll, TypeInv, TypeOK, Shown
<1>e. ASSUME NEW status \in Status, manager.at = "inspect", Compare(status)
      PROVE  manager' \in [at : {"idle", "post"}, pod : Pod \cup {NoPod}] /\ Shown'
  <2>1. [manager.pod EXCEPT !.status = status] \in Pod
    BY <1>a, <1>e, PodType DEF Shown
  <2> QED BY <1>e, <2>1 DEF Compare, Shown
<1>17. CASE InspectPod
  BY <1>a, <1>b, <1>e, <1>17, ObservedType DEF InspectPod, TypeInv, TypeOK
<1>18. CASE PostStatus
  <2>1. pod' \in Pod \cup {NoPod} /\ watch' \in Seq(Pod \cup {NoPod}) /\ missed' \in BOOLEAN
    BY <1>a, <1>18, PutType DEF PostStatus, Shown, TypeOK
  <2> QED BY <1>a, <1>18, <2>1 DEF PostStatus, TypeInv, TypeOK, Shown
<1>19. CASE ManagerFails
  <2>1. \A c \in Container : [Observed EXCEPT !.box[c] = Missing] \in Status
    BY <1>b, ObservedType, Boxes DEF Status
  <2>2. manager' \in [at : {"idle", "inspect", "post"}, pod : Pod \cup {NoPod}] /\ Shown'
    <3>1. CASE manager' = [at |-> "idle", pod |-> NoPod]
      BY <3>1 DEF Shown
    <3>2. CASE manager.at = "inspect" /\ \E c \in There : Compare([Observed EXCEPT !.box[c] = Missing])
      <4>1. PICK c \in Container : Compare([Observed EXCEPT !.box[c] = Missing])
        BY <3>2 DEF There
      <4> QED BY <1>e, <2>1, <3>2, <4>1
    <3> QED BY <1>19, <3>1, <3>2 DEF ManagerFails
  <2> QED BY <1>a, <1>c, <1>d, <1>19, <2>2 DEF ManagerFails, TypeInv, TypeOK
<1>20. CASE UNCHANGED vars
  BY <1>a, <1>20 DEF vars, TypeInv, TypeOK, Shown
<1> QED
  BY <1>1, <1>2, <1>3, <1>4, <1>5, <1>6, <1>7, <1>8, <1>9, <1>10, <1>11, <1>12,
     <1>13, <1>14, <1>15, <1>16, <1>17, <1>18, <1>19, <1>20
     DEF Next, Work, Manage

LEMMA InitType == Init => TypeInv
<1> SUFFICES ASSUME Init PROVE TypeInv
  OBVIOUS
<1>1. [bound |-> FALSE, status |-> NoStatus] \in Pod
  BY Boxes, PodType
<1>2. [c \in Container |-> Missing] \in [Container -> Box]
  BY Boxes
<1>3. <<>> \in Seq(Pod \cup {NoPod})
      /\ <<>> \in Seq([old : Pod \cup {NoPod}, new : Pod \cup {NoPod}]) /\ Len(<<>>) = 0
  OBVIOUS
<1>4. /\ pod \in Pod \cup {NoPod} /\ store \in Pod \cup {NoPod}
      /\ worker \in WorkerState /\ manager = [at |-> "idle", pod |-> NoPod]
      /\ env \in [Disturbance -> Nat] /\ box \in [Container -> Box]
  BY <1>1, <1>2 DEF Init, Idle, WorkerState
<1>5. /\ watch \in Seq(Pod \cup {NoPod})
      /\ queue \in Seq([old : Pod \cup {NoPod}, new : Pod \cup {NoPod}])
      /\ Len(queue) <= QueueCap
  BY <1>3, KubeletAssumption DEF Init
<1>6. /\ resync \in BOOLEAN /\ listed \in BOOLEAN /\ world \in Worlds
      /\ missed \in BOOLEAN /\ link \in {"none", "list", "watch"}
      /\ sandbox \in {"none", "created", "up", "down"}
  BY DEF Init
<1> QED BY <1>4, <1>5, <1>6 DEF WorkerState, TypeInv, TypeOK, Shown

(* Every variable keeps its type, whatever disturbs the kubelet; the queue *)
(* of the worker never holds more than its capacity.                       *)
THEOREM KubeletTypeCorrect == Spec => []TypeOK
<1>1. TypeInv => TypeOK
  BY DEF TypeInv
<1> QED BY <1>1, InitType, StepType, PTL DEF Spec
-------------------------------------------------------------------------------
(* Sequences: what Append and Tail leave where.                            *)
LEMMA AppendElements ==
  ASSUME NEW S, NEW s \in Seq(S), NEW e \in S
  PROVE  /\ Append(s, e) \in Seq(S) /\ Append(s, e) # <<>>
         /\ Len(Append(s, e)) = Len(s) + 1 /\ Len(s) \in Nat
         /\ Append(s, e)[Len(s) + 1] = e
         /\ \A i \in 1 .. Len(s) : Append(s, e)[i] = s[i]
BY AppendProperties, LenProperties

LEMMA TailElements ==
  ASSUME NEW S, NEW s \in Seq(S), s # <<>>
  PROVE  /\ Head(s) = s[1] /\ Len(s) \in Nat /\ Len(s) >= 1
         /\ Tail(s) \in Seq(S) /\ Len(Tail(s)) = Len(s) - 1
         /\ \A i \in 1 .. Len(Tail(s)) : Tail(s)[i] = s[i + 1]
BY HeadTailProperties, LenProperties

-------------------------------------------------------------------------------
(* The line of news: what the informer is told comes in the order in which *)
(* it happened, a pod is bound once, and nothing comes after its deletion. *)
(* Where nothing was missed the store is up to date when the line ends; a  *)
(* kubelet that has just been started has no pod in its store.             *)
Unbound(p) == p # NoPod /\ ~p.bound

Line ==
  /\ watch # <<>> => watch[Len(watch)] = pod /\ link = "watch" /\ ~missed
  /\ watch = <<>> /\ ~missed => store = pod \/ store = NoPod
  /\ \A i \in 1 .. Len(watch) : /\ ~Unbound(watch[i])
                                /\ watch[i] = NoPod => i = Len(watch)
  /\ store = NoPod => watch = <<>> /\ (pod = NoPod \/ link = "none")
  /\ Unbound(pod) => watch = <<>> /\ (store = pod \/ store = NoPod)

(* What the worker is told, and what it and the manager do with it: the    *)
(* deletion is the last the worker hears of the pod; nothing is done while *)
(* the kubelet starts.                                                     *)
Tasks ==
  /\ \A i \in 1 .. Len(queue) : queue[i].new = NoPod => i = Len(queue) /\ store = NoPod
  /\ worker.at \in {"drop", "remove"} => store = NoPod /\ queue = <<>>
  /\ manager.at # "idle" => Bound(manager.pod)
  /\ store = NoPod /\ pod # NoPod
       => worker = Idle /\ queue = <<>> /\ ~listed /\ manager.at = "idle"

(* Before the pod is bound nothing is done for it.                         *)
NothingThere == sandbox = "none" /\ \A c \in Container : box[c].st = "missing"
Untouched ==
  Unbound(store) \/ Unbound(pod)
    => /\ worker = Idle /\ queue = <<>> /\ ~listed /\ manager.at = "idle"
       /\ NothingThere

News == Line /\ Tasks /\ Untouched

(* A step that leaves etcd and the informer's store alone keeps the line.  *)
LEMMA LineAside ==
  ASSUME Line, pod' = pod, watch' = watch, store' = store, missed' = missed, link' = link
  PROVE  Line'
BY DEF Line, Unbound

(* A pod that is put gets to the end of the line, if there is a watch.     *)
LEMMA LinePut ==
  ASSUME TypeInv, Line, pod # NoPod, NEW new \in Pod \cup {NoPod}, PutPod(new),
         new = NoPod \/ new.bound, store' = store, link' = link
  PROVE  Line'
<1>1. watch \in Seq(Pod \cup {NoPod})
  BY DEF TypeInv, TypeOK
<1>2. pod' = new /\ ~Unbound(pod')
  BY DEF PutPod, Unbound
<1>3. CASE link # "watch"
  <2>1. watch' = watch /\ missed' /\ watch = <<>>
    BY <1>3 DEF PutPod, Line
  <2>2. Len(watch') = 0
    BY <2>1
  <2>3. store = NoPod => link = "none"
    BY DEF Line
  <2> QED BY <1>2, <2>1, <2>2, <2>3 DEF Line
<1>4. CASE link = "watch"
  <2>1. watch' = Append(watch, new) /\ ~missed'
    BY <1>4 DEF PutPod
  <2>2. /\ watch' # <<>> /\ Len(watch') = Len(watch) + 1 /\ Len(watch) \in Nat
        /\ watch'[Len(watch) + 1] = new
        /\ \A i \in 1 .. Len(watch) : watch'[i] = watch[i]
    BY <1>1, <2>1, AppendElements
  <2>3. \A i \in 1 .. Len(watch) : watch[i] # NoPod /\ ~Unbound(watch[i])
    <3>1. watch = <<>> => Len(watch) = 0
      OBVIOUS
    <3> QED BY <3>1 DEF Line
  <2>4. \A i \in 1 .. Len(watch') : /\ ~Unbound(watch'[i])
                                    /\ watch'[i] = NoPod => i = Len(watch')
    BY <2>2, <2>3 DEF Unbound
  <2>5. store # NoPod
    BY <1>4 DEF Line
  <2> QED BY <1>2, <1>4, <2>1, <2>2, <2>4, <2>5 DEF Line
<1> QED BY <1>3, <1>4

LEMMA LineReceive == ASSUME TypeInv, Line, ReceivePod PROVE Line'
<1>1. watch \in Seq(Pod \cup {NoPod}) /\ watch # <<>> /\ watch' = Tail(watch)
      /\ store' = Head(watch) /\ pod' = pod /\ missed' = missed /\ link' = link
  BY DEF TypeInv, TypeOK, ReceivePod
<1>2. /\ store' = watch[1] /\ Len(watch) \in Nat /\ Len(watch) >= 1
      /\ watch' \in Seq(Pod \cup {NoPod}) /\ Len(watch') = Len(watch) - 1
      /\ \A i \in 1 .. Len(watch') : watch'[i] = watch[i + 1]
  BY <1>1, TailElements
<1>3. \A i \in 1 .. Len(watch') : /\ ~Unbound(watch'[i])
                                  /\ watch'[i] = NoPod => i = Len(watch')
  BY <1>2 DEF Line
<1>4. watch' = <<>> <=> Len(watch) = 1
  BY <1>2, EmptySeq
<1>5. watch[Len(watch)] = pod' /\ \A i \in 1 .. Len(watch) : watch[i] = NoPod => i = Len(watch)
  BY <1>1 DEF Line
<1>6. watch' # <<>> => watch'[Len(watch')] = pod'
  <2>1. SUFFICES ASSUME watch' # <<>> PROVE watch'[Len(watch')] = pod'
    OBVIOUS
  <2>2. Len(watch) # 1
    BY <1>4, <2>1
  <2>3. Len(watch') \in 1 .. Len(watch') /\ Len(watch') + 1 = Len(watch)
    BY <1>2, <2>2
  <2> QED BY <1>2, <1>5, <2>3
<1>7. (watch' = <<>> => store' = pod') /\ (store' = NoPod => pod' = NoPod /\ watch' = <<>>)
  BY <1>2, <1>4, <1>5
<1>8. ~Unbound(pod') /\ link' = "watch" /\ ~missed'
  BY <1>1 DEF Line, Unbound
<1> QED BY <1>3, <1>6, <1>7, <1>8 DEF Line

(* A step that leaves what the tasks are told and docker alone, and what   *)
(* docker and its users do where there is something.                       *)
LEMMA NewsAside ==
  ASSUME News, UNCHANGED <<pod, watch, missed, store, link, queue, listed, worker, manager>>,
         UNCHANGED docker \/ ~NothingThere
  PROVE  News'
<1>1. Line'
  BY LineAside DEF News
<1>2. Tasks'
  BY DEF News, Tasks, Bound
<1>3. Untouched'
  BY DEF News, Untouched, Unbound, NothingThere, docker
<1> QED BY <1>1, <1>2, <1>3 DEF News

(* A step of the worker that neither begins nor ends its work.             *)
LEMMA NewsWork ==
  ASSUME News, UNCHANGED <<pod, watch, missed, store, link, queue, manager>>, worker.at # "idle",
         worker'.at \in {"drop", "remove"} => worker.at \in {"drop", "remove"}
  PROVE  News'
<1>1. Line'
  BY LineAside DEF News
<1>2. Tasks'
  BY DEF News, Tasks, Bound, Idle
<1>3. Untouched'
  BY DEF News, Untouched, Unbound, Idle
<1> QED BY <1>1, <1>2, <1>3 DEF News

LEMMA StepNews == ASSUME TypeInv, Inv, News, [Next]_vars PROVE News'
<1> USE DEF etcdVars, informerVars, taskVars, docker, envVars
<1>t. /\ pod \in Pod \cup {NoPod} /\ store \in Pod \cup {NoPod}
      /\ watch \in Seq(Pod \cup {NoPod})
      /\ queue \in Seq([old : Pod \cup {NoPod}, new : Pod \cup {NoPod}])
      /\ worker \in WorkerState /\ manager \in [at : {"idle", "inspect", "post"}, pod : Pod \cup {NoPod}]
      /\ Shown /\ NoPod \notin Pod
  BY KubeletAssumption DEF TypeInv, TypeOK, WorkerState
<1>n. Line /\ Tasks /\ Untouched
  BY DEF News
<1>1. CASE Bind \/ DeletePod \/ PostStatus
  <2>0. /\ UNCHANGED informerVars /\ listed' = listed /\ worker' = worker /\ UNCHANGED docker
        /\ manager' = manager \/ manager' = [at |-> "idle", pod |-> NoPod]
    BY <1>1 DEF Bind, DeletePod, PostStatus
  <2>p. \/ UNCHANGED etcdVars
        \/ /\ pod # NoPod
           /\ \E new \in Pod \cup {NoPod} : PutPod(new) /\ (new = NoPod \/ new.bound)
    <3>1. CASE Bind
      BY <1>t, <3>1, PodType DEF Bind, Pod
    <3>2. CASE DeletePod
      BY <3>2 DEF DeletePod
    <3>3. CASE PostStatus
      <4>1. manager.pod \in Pod /\ manager.pod.bound
        BY <1>t, <1>n, <3>3 DEF PostStatus, Shown, Tasks, Bound
      <4> QED BY <3>3, <4>1 DEF PostStatus
    <3> QED BY <1>1, <3>1, <3>2, <3>3
  <2>1. Line'
    BY <1>n, <2>0, <2>p, LinePut, LineAside
  <2>q. pod' # NoPod => pod # NoPod
    BY <2>p
  <2>u. Unbound(pod') => Unbound(pod)
    BY <2>p DEF PutPod, Unbound
  <2>2. Tasks'
    BY <1>n, <2>0, <2>q DEF Tasks, Bound
  <2>3. Untouched'
    BY <1>n, <2>0, <2>u DEF Untouched, Unbound, NothingThere
  <2> QED BY <2>1, <2>2, <2>3 DEF News
<1>2. ASSUME NEW c \in Container, Exit(c) \/ DockerRestart(c) \/ Stop(c) \/ Remove(c)
      PROVE  News'
  <2>1. ~NothingThere
    BY <1>2 DEF NothingThere, Exit, DockerRestart, Stop, Remove
  <2> QED BY <1>2, <2>1, NewsAside DEF Exit, DockerRestart, Stop, Remove
<1>3. CASE StopSandbox \/ RemoveSandbox
  <2>1. ~NothingThere
    BY <1>3 DEF NothingThere, StopSandbox, RemoveSandbox
  <2> QED BY <1>3, <2>1, NewsAside DEF StopSandbox, RemoveSandbox
<1>4. CASE ReceivePod
  <2>0. watch # <<>> /\ store' = Head(watch) /\ UNCHANGED taskVars /\ UNCHANGED docker
        /\ pod' = pod /\ ~Unbound(pod)
        /\ (queue' = queue \/ queue' = Append(queue, [old |-> store, new |-> Head(watch)]))
    BY <1>n, <1>4 DEF ReceivePod, Line
  <2>1. Line'
    BY <1>n, <1>4, LineReceive
  <2>2. store' = watch[1] /\ store' \in Pod \cup {NoPod} /\ ~Unbound(store')
    <3>1. store' = watch[1] /\ 1 \in 1 .. Len(watch)
      BY <1>t, <2>0, TailElements
    <3> QED BY <1>t, <1>n, <3>1 DEF Line
  <2>3. store # NoPod
    BY <1>n, <2>0 DEF Line
  <2>4. \A i \in 1 .. Len(queue) : queue[i].new # NoPod
    BY <1>n, <2>3 DEF Tasks
  <2>5. \A i \in 1 .. Len(queue') : queue'[i].new = NoPod => i = Len(queue') /\ store' = NoPod
    <3>1. CASE queue' = queue
      BY <2>4, <3>1
    <3>2. CASE queue' = Append(queue, [old |-> store, new |-> Head(watch)])
      <4> DEFINE e == [old |-> store, new |-> Head(watch)]
      <4>1. e \in [old : Pod \cup {NoPod}, new : Pod \cup {NoPod}] /\ e.new = store'
        BY <1>t, <2>0, <2>2
      <4> HIDE DEF e
      <4>2. /\ Len(queue') = Len(queue) + 1 /\ Len(queue) \in Nat /\ queue'[Len(queue) + 1] = e
            /\ \A i \in 1 .. Len(queue) : queue'[i] = queue[i]
        BY <1>t, <3>2, <4>1, AppendElements DEF e
      <4> QED BY <2>4, <4>1, <4>2
    <3> QED BY <2>0, <3>1, <3>2
  <2>6. store' = NoPod => pod' = NoPod
    BY <1>n, <1>4, <2>1 DEF Line, ReceivePod
  <2>7. Tasks'
    BY <1>n, <2>0, <2>3, <2>5, <2>6 DEF Tasks, Bound
  <2> QED BY <2>0, <2>1, <2>2, <2>7 DEF News, Untouched, Unbound
<1>5. CASE LoseWatch \/ ListPods \/ Connect
  <2>1. CASE LoseWatch
    <3>1. /\ UNCHANGED <<pod, store, queue, taskVars, docker>>
          /\ watch' = <<>> /\ link' = "none" /\ (~missed' => ~missed /\ watch = <<>>)
      BY <2>1 DEF LoseWatch
    <3>2. Line'
      BY <1>n, <3>1 DEF Line, Unbound
    <3>3. Tasks'
      BY <1>n, <3>1 DEF Tasks, Bound
    <3>4. Untouched'
      BY <1>n, <3>1 DEF Untouched, Unbound, NothingThere
    <3> QED BY <3>2, <3>3, <3>4 DEF News
  <2>2. CASE ListPods
    <3>1. /\ UNCHANGED <<pod, watch, queue, taskVars, docker>>
          /\ watch' = <<>> /\ store' = pod /\ link' = "list"
      BY <1>n, <2>2 DEF ListPods, Line
    <3>2. Line'
      BY <3>1 DEF Line, Unbound
    <3>3. Tasks'
      <4>1. CASE pod = NoPod
        BY <1>n, <3>1, <4>1 DEF Tasks, Bound
      <4>2. CASE pod # NoPod /\ store = NoPod
        BY <1>n, <3>1, <4>2 DEF Tasks, Bound, Idle
      <4>3. CASE pod # NoPod /\ store # NoPod
        BY <1>n, <3>1, <4>3 DEF Tasks, Bound
      <4> QED BY <4>1, <4>2, <4>3
    <3>4. Untouched'
      BY <1>n, <3>1 DEF Untouched, Unbound, NothingThere
    <3> QED BY <3>2, <3>3, <3>4 DEF News
  <2>3. CASE Connect
    <3>1. UNCHANGED <<pod, watch, missed, store, queue, taskVars, docker>>
      BY <2>3 DEF Connect
    <3>2. Line'
      BY <1>n, <2>3, <3>1 DEF Line, Unbound, Connect
    <3>3. Tasks'
      BY <1>n, <3>1 DEF Tasks, Bound
    <3>4. Untouched'
      BY <1>n, <3>1 DEF Untouched, Unbound, NothingThere
    <3> QED BY <3>2, <3>3, <3>4 DEF News
  <2> QED BY <1>5, <2>1, <2>2, <2>3
<1>6. CASE Crash
  <2>1. /\ pod' = pod /\ watch' = <<>> /\ store' = NoPod /\ queue' = <<>> /\ ~listed'
        /\ worker' = Idle /\ manager'.at = "idle" /\ UNCHANGED docker /\ link' = "none"
    BY <1>6 DEF Crash
  <2>2. Line'
    BY <2>1 DEF Line, Unbound
  <2>3. Tasks'
    BY <2>1 DEF Tasks, Idle
  <2>4. Untouched'
    BY <1>n, <2>1 DEF Untouched, Unbound, NothingThere
  <2> QED BY <2>2, <2>3, <2>4 DEF News
<1>7. CASE TakeUpdate
  <2>0. queue # <<>> /\ queue' = Tail(queue)
        /\ UNCHANGED <<etcdVars, store, resync, link, listed, manager, docker>>
    BY <1>7 DEF TakeUpdate
  <2>1. Line'
    BY <1>n, <2>0, LineAside
  <2>2. /\ Head(queue) = queue[1] /\ Len(queue) \in Nat /\ Len(queue) >= 1
        /\ Len(queue') = Len(queue) - 1
        /\ \A i \in 1 .. Len(queue') : queue'[i] = queue[i + 1]
        /\ queue' \in Seq([old : Pod \cup {NoPod}, new : Pod \cup {NoPod}])
    BY <1>t, <2>0, TailElements
  <2>3. \A i \in 1 .. Len(queue') : queue'[i].new = NoPod => i = Len(queue') /\ store' = NoPod
    <3>1. \A i \in 1 .. Len(queue) : queue[i].new = NoPod => i = Len(queue) /\ store' = NoPod
      BY <1>n, <2>0 DEF Tasks
    <3>2. ASSUME NEW i \in 1 .. Len(queue'), queue'[i].new = NoPod
          PROVE  i = Len(queue') /\ store' = NoPod
      <4>1. i + 1 \in 1 .. Len(queue) /\ queue[i + 1].new = NoPod
        BY <2>2, <3>2
      <4>2. i + 1 = Len(queue) /\ store' = NoPod
        BY <3>1, <4>1
      <4> QED BY <2>2, <4>2
    <3> QED BY <3>2
  <2>4. worker'.at \in {"drop", "remove"} => store' = NoPod /\ queue' = <<>>
    <3>1. SUFFICES ASSUME worker'.at \in {"drop", "remove"} PROVE store' = NoPod /\ queue' = <<>>
      OBVIOUS
    <3>2. Head(queue).new = NoPod
      <4>1. \A p, at : worker' = [Idle EXCEPT !.at = at, !.pod = p] => worker'.at = at
        BY DEF Idle
      <4>2. worker' = Idle => worker'.at = "idle"
        BY DEF Idle
      <4> QED BY <1>7, <3>1, <4>1, <4>2 DEF TakeUpdate
    <3>3. Len(queue) = 1 /\ store = NoPod
      BY <1>n, <2>2, <3>2 DEF Tasks
    <3> QED BY <2>0, <2>2, <3>3, EmptySeq
  <2>5. Tasks'
    BY <1>n, <2>0, <2>3, <2>4 DEF Tasks, Bound
  <2>6. Untouched'
    BY <1>n, <2>0 DEF Untouched, Unbound
  <2> QED BY <2>1, <2>5, <2>6 DEF News
<1>8. CASE HandleResync
  <2>0. UNCHANGED <<etcdVars, store, link, worker, manager, docker>> /\ worker = Idle
    BY <1>8 DEF HandleResync
  <2>1. CASE Bound(store)
    <3>1. store # NoPod /\ ~Unbound(store)
      BY <2>1 DEF Bound, Unbound
    <3>2. \A i \in 1 .. Len(queue) : queue[i].new # NoPod
      BY <1>n, <3>1 DEF Tasks
    <3> DEFINE e == [old |-> store, new |-> store]
    <3>3. e \in [old : Pod \cup {NoPod}, new : Pod \cup {NoPod}] /\ e.new = store
      BY <1>t
    <3>4. queue' = Append(queue, e)
      BY <1>8, <2>1 DEF HandleResync
    <3> HIDE DEF e
    <3>5. /\ Len(queue') = Len(queue) + 1 /\ Len(queue) \in Nat /\ queue'[Len(queue) + 1] = e
          /\ \A i \in 1 .. Len(queue) : queue'[i] = queue[i]
      BY <1>t, <3>3, <3>4, AppendElements
    <3>6. \A i \in 1 .. Len(queue') : queue'[i].new # NoPod
      BY <3>1, <3>2, <3>3, <3>5
    <3>7. Tasks'
      BY <1>n, <2>0, <3>1, <3>6 DEF Tasks, Bound, Idle
    <3>8. Untouched'
      BY <1>n, <2>0, <3>1 DEF Untouched, Unbound, Line
    <3> QED BY <1>n, <2>0, <3>7, <3>8, LineAside DEF News
  <2>2. CASE ~Bound(store)
    BY <1>8, <2>0, <2>2, NewsAside DEF HandleResync
  <2> QED BY <2>1, <2>2
<1>9. CASE CreateSandbox \/ StartSandbox \/ CreateBoxes \/ StartBoxes \/ InspectSandbox
           \/ RepairBoxes \/ Unlist \/ List
  <2>1. UNCHANGED <<pod, watch, missed, store, link, queue, manager>> /\ worker.at # "idle"
    BY <1>9 DEF CreateSandbox, StartSandbox, CreateBoxes, StartBoxes, InspectSandbox, RepairBoxes,
                Unlist, List
  <2>2. \A at : /\ Go(at) => worker'.at = at
                /\ \A cs : GoDo(at, cs) => worker'.at = at
    BY GoAt DEF Inv
  <2>3. worker'.at \notin {"drop", "remove"}
    <3>1. CASE Unlist
      BY <2>2, <3>1 DEF Unlist
    <3>2. CASE List
      BY <3>2 DEF List, Idle
    <3>3. CASE CreateSandbox
      BY <2>2, <3>3 DEF CreateSandbox
    <3>4. CASE StartSandbox
      BY <2>2, <3>4 DEF StartSandbox
    <3>5. CASE CreateBoxes \/ StartBoxes
      BY <2>2, <3>5 DEF CreateBoxes, StartBoxes
    <3>6. CASE RepairBoxes
      BY <2>2, <3>6 DEF RepairBoxes
    <3>7. CASE InspectSandbox
      BY <2>2, <3>7 DEF InspectSandbox
    <3> QED BY <1>9, <3>1, <3>2, <3>3, <3>4, <3>5, <3>6, <3>7
  <2> QED BY <2>1, <2>3, NewsWork
<1>10. CASE Drop \/ RemovePod
  BY <1>10, NewsWork DEF Drop, RemovePod
<1>11. CASE WorkerFails
  <2>1. UNCHANGED <<pod, watch, missed, store, link, queue, manager>> /\ worker.at # "idle"
    BY <1>11 DEF WorkerFails
  <2>2. worker'.at \in {"drop", "remove"} => worker.at \in {"drop", "remove"}
    BY <1>t, <1>11 DEF WorkerFails, Go, GoDo, Idle, WorkerState
  <2> QED BY <2>1, <2>2, NewsWork
<1>12. CASE Poll
  <2>0. /\ UNCHANGED <<etcdVars, informerVars, listed, worker, docker>>
        /\ listed /\ store # NoPod /\ manager' = [at |-> "inspect", pod |-> store]
    BY <1>12 DEF Poll
  <2>1. ~Unbound(store)
    BY <1>n, <2>0 DEF Untouched
  <2>2. Bound(store)
    BY <2>0, <2>1 DEF Unbound, Bound
  <2>3. Tasks'
    BY <1>n, <2>0, <2>2 DEF Tasks, Bound
  <2>4. Untouched'
    BY <1>n, <2>0, <2>1 DEF Untouched, Unbound
  <2> QED BY <1>n, <2>0, <2>3, <2>4, LineAside DEF News
<1>13. CASE InspectPod \/ ManagerFails
  <2>0. /\ UNCHANGED <<etcdVars, informerVars, listed, worker, docker>>
        /\ manager.at # "idle"
        /\ \/ manager' = [at |-> "idle", pod |-> NoPod]
           \/ \E status : manager' = [at |-> "post", pod |-> [manager.pod EXCEPT !.status = status]]
    BY <1>13 DEF InspectPod, ManagerFails, Compare
  <2>1. manager.pod \in Pod /\ manager.pod # NoPod /\ manager.pod.bound
    BY <1>t, <1>n, <2>0 DEF Shown, Tasks, Bound
  <2>2. manager'.at # "idle" => Bound(manager'.pod)
    <3>1. SUFFICES ASSUME manager'.at # "idle" PROVE Bound(manager'.pod)
      OBVIOUS
    <3>2. manager'.pod \in Pod
      BY <3>1, StepType DEF TypeInv, Shown
    <3>3. PICK status : manager' = [at |-> "post", pod |-> [manager.pod EXCEPT !.status = status]]
      BY <2>0, <3>1
    <3>4. manager'.pod.bound
      BY <2>1, <3>3 DEF Pod
    <3> QED BY <1>t, <3>2, <3>4 DEF Bound
  <2>3. Tasks'
    BY <1>n, <2>0, <2>2 DEF Tasks, Bound
  <2>4. Untouched'
    BY <1>n, <2>0 DEF Untouched, Unbound
  <2> QED BY <1>n, <2>0, <2>3, <2>4, LineAside DEF News
<1>14. CASE UNCHANGED vars
  BY <1>14, NewsAside DEF vars, etcdVars, informerVars
<1> QED
  BY <1>1, <1>2, <1>3, <1>4, <1>5, <1>6, <1>7, <1>8, <1>9, <1>10, <1>11, <1>12, <1>13, <1>14
     DEF Next, Work, Manage

LEMMA InitNews == Init => News
BY KubeletAssumption, InitType DEF Init, News, Line, Tasks, Untouched, NothingThere, Unbound, Idle, Missing,
   TypeInv, TypeOK
-------------------------------------------------------------------------------
(* The pod has been deleted, and that will be seen to, or there is nothing *)
(* left to be seen to.                                                     *)
RemovalDue ==
  \/ worker.at \in {"drop", "remove"}
  \/ queue # <<>> /\ queue[Len(queue)].new = NoPod /\ Bound(queue[Len(queue)].old)
NothingDue ==
  /\ worker = Idle /\ NothingThere
  /\ \A i \in 1 .. Len(queue) : ~Bound(queue[i].old) /\ ~Bound(queue[i].new)

Faithful == env["fail"] = 0 /\ (world.patient \/ env["crash"] = 0)
Seen == Faithful /\ ~missed /\ store = NoPod /\ pod = NoPod => RemovalDue \/ NothingDue

(* What has failed or been lost stays so.                                  *)
LEMMA FaithfulBefore ==
  ASSUME TypeInv, [Next]_vars, Faithful'
  PROVE  Faithful /\ world' = world
<1>1. env \in [Disturbance -> Nat] /\ {"fail", "crash"} \subseteq Disturbance
  BY DEF TypeInv, TypeOK, Disturbance
<1>2. \A d \in Disturbance : Disturb(d) => /\ world' = world
                                           /\ \A k \in Disturbance : env'[k] = 0 => env[k] = 0
  BY <1>1 DEF Disturb
<1>3. (env' = env /\ world' = world) \/ \E d \in Disturbance : Disturb(d)
  BY DEF Next, Work, Manage, Bind, DeletePod, Exit, DockerRestart, Stop, Remove, StopSandbox,
         RemoveSandbox, ReceivePod, LoseWatch, ListPods, Connect, Crash, TakeUpdate, HandleResync,
         CreateSandbox, StartSandbox, CreateBoxes, StartBoxes, List, Unlist, InspectSandbox,
         RepairBoxes, Drop, RemovePod, WorkerFails, Poll, InspectPod, PostStatus, ManagerFails,
         vars, envVars, Disturbance
<1> QED BY <1>1, <1>2, <1>3 DEF Faithful

(* A step that leaves what the tasks are told and docker alone.            *)
LEMMA SeenAside ==
  ASSUME Seen, Faithful, ~missed, pod = NoPod, UNCHANGED <<store, queue, worker>>,
         UNCHANGED docker \/ ~NothingThere
  PROVE  Seen'
BY DEF Seen, RemovalDue, NothingDue, NothingThere, Bound, docker

LEMMA StepSeen == ASSUME TypeInv, News, Seen, [Next]_vars PROVE Seen'
<1> USE DEF etcdVars, informerVars, taskVars, docker, envVars
<1> SUFFICES ASSUME Faithful', ~missed', store' = NoPod, pod' = NoPod PROVE (RemovalDue \/ NothingDue)'
  BY DEF Seen
<1>t. /\ pod \in Pod \cup {NoPod} /\ store \in Pod \cup {NoPod}
      /\ watch \in Seq(Pod \cup {NoPod})
      /\ queue \in Seq([old : Pod \cup {NoPod}, new : Pod \cup {NoPod}])
      /\ env \in [Disturbance -> Nat] /\ "fail" \in Disturbance
      /\ "crash" \in Disturbance /\ NoPod \notin Pod
  BY KubeletAssumption DEF TypeInv, TypeOK, Disturbance
<1>n. Line /\ Tasks /\ Untouched
  BY DEF News
<1>f. Faithful /\ world' = world
  BY FaithfulBefore
<1>s. ASSUME UNCHANGED <<pod, store, queue, worker>>, ~missed, UNCHANGED docker \/ ~NothingThere
      PROVE  (RemovalDue \/ NothingDue)'
  <2>1. Seen'
    BY <1>f, <1>s, SeenAside
  <2> QED BY <2>1 DEF Seen
<1>d. store = NoPod /\ pod = NoPod /\ ~missed => RemovalDue \/ NothingDue
  BY <1>f DEF Seen
<1>1. CASE Bind \/ DeletePod \/ PostStatus \/ Poll \/ InspectPod \/ ManagerFails
  <2>1. CASE UNCHANGED etcdVars
    BY <1>1, <1>s, <2>1 DEF Bind, DeletePod, PostStatus, Poll, InspectPod, ManagerFails
  <2>2. CASE pod # NoPod /\ (Bind \/ DeletePod \/ PostStatus) /\ ~UNCHANGED etcdVars
    <3>1. missed' = (link # "watch") /\ store' = store
      BY <2>2 DEF Bind, DeletePod, PostStatus, PutPod
    <3> QED BY <1>n, <2>2, <3>1 DEF Line
  <2> QED BY <1>1, <2>1, <2>2 DEF Bind, DeletePod, PostStatus, Poll, InspectPod, ManagerFails
<1>2. ASSUME NEW c \in Container, Exit(c) \/ DockerRestart(c) \/ Stop(c) \/ Remove(c)
      PROVE  (RemovalDue \/ NothingDue)'
  <2>1. ~NothingThere
    BY <1>2 DEF NothingThere, Exit, DockerRestart, Stop, Remove
  <2> QED BY <1>2, <1>s, <2>1 DEF Exit, DockerRestart, Stop, Remove
<1>3. CASE StopSandbox \/ RemoveSandbox
  <2>1. ~NothingThere
    BY <1>3 DEF NothingThere, StopSandbox, RemoveSandbox
  <2> QED BY <1>3, <1>s, <2>1 DEF StopSandbox, RemoveSandbox
<1>4. CASE ReceivePod
  <2>1. /\ watch # <<>> /\ Head(watch) = NoPod /\ store # NoPod
        /\ UNCHANGED <<taskVars, docker>>
    BY <1>n, <1>4 DEF ReceivePod, Line
  <2> DEFINE e == [old |-> store, new |-> NoPod]
  <2>2. queue' = Append(queue, e)
    BY <1>4, <2>1 DEF ReceivePod
  <2>3. e \in [old : Pod \cup {NoPod}, new : Pod \cup {NoPod}] /\ e.new = NoPod /\ e.old = store
    BY <1>t
  <2> HIDE DEF e
  <2>4. /\ queue' # <<>> /\ Len(queue') = Len(queue) + 1 /\ Len(queue) \in Nat
        /\ queue'[Len(queue) + 1] = e
    BY <1>t, <2>2, <2>3, AppendElements
  <2>5. CASE Bound(store)
    BY <2>3, <2>4, <2>5 DEF RemovalDue, Bound
  <2>6. CASE ~Bound(store)
    <3>1. worker = Idle /\ queue = <<>> /\ NothingThere
      BY <1>n, <2>1, <2>6 DEF Untouched, Unbound, Bound
    <3>2. Len(queue) = 0
      BY <3>1
    <3>3. \A i \in 1 .. Len(queue') : queue'[i] = e
      BY <2>4, <3>2
    <3> QED BY <2>1, <2>3, <2>6, <3>1, <3>3 DEF NothingDue, NothingThere, Bound
  <2> QED BY <2>5, <2>6
<1>5. CASE LoseWatch \/ ListPods \/ Connect
  <2>1. /\ UNCHANGED <<pod, queue, taskVars, docker>>
        /\ store' = store \/ (store' = pod /\ watch = <<>>)
    BY <1>n, <1>5 DEF LoseWatch, ListPods, Connect, Line
  <2>2. ~missed
    BY <1>5, <2>1, Zenon DEF LoseWatch, ListPods, Connect
  <2>3. store' = store
    BY <1>n, <2>1, <2>2 DEF Line
  <2> QED BY <1>s, <2>1, <2>2, <2>3
<1>6. CASE Crash
  <2>1. /\ Disturb("crash") /\ UNCHANGED docker /\ pod' = pod
        /\ queue' = <<>> /\ worker' = Idle
    BY <1>6 DEF Crash
  <2>m. ~missed
    BY <1>6, Zenon DEF Crash
  <2>2. env'["crash"] # 0
    BY <1>t, <2>1 DEF Disturb
  <2>3. Quiet
    BY <1>f, <2>1, <2>2 DEF Faithful, Disturb
  <2>4. store' = store /\ worker' = worker /\ queue' = queue
    BY <1>n, <2>1, <2>m, <2>3 DEF Quiet, Line
  <2> QED BY <1>s, <2>1, <2>m, <2>4
<1>7. CASE TakeUpdate
  <2>0. /\ queue # <<>> /\ queue' = Tail(queue) /\ UNCHANGED <<pod, missed, store, docker>> /\ worker = Idle
    BY <1>7 DEF TakeUpdate
  <2>1. /\ Head(queue) = queue[1] /\ Len(queue) \in Nat /\ Len(queue) >= 1
        /\ queue' \in Seq([old : Pod \cup {NoPod}, new : Pod \cup {NoPod}])
        /\ Len(queue') = Len(queue) - 1
        /\ \A i \in 1 .. Len(queue') : queue'[i] = queue[i + 1]
    BY <1>t, <2>0, TailElements
  <2>2. CASE RemovalDue
    <3>1. queue[Len(queue)].new = NoPod /\ Bound(queue[Len(queue)].old)
      BY <2>0, <2>2 DEF RemovalDue, Idle
    <3>2. CASE Len(queue) = 1
      <4>1. Head(queue).new = NoPod /\ Bound(Head(queue).old)
        BY <2>1, <3>1, <3>2
      <4>2. worker' = [Idle EXCEPT !.at = "drop", !.pod = Head(queue).old]
        BY <1>7, <4>1 DEF TakeUpdate
      <4>3. worker'.at = "drop"
        BY <4>2 DEF Idle
      <4> QED BY <4>3 DEF RemovalDue
    <3>3. CASE Len(queue) # 1
      <4>1. Len(queue') \in 1 .. Len(queue') /\ Len(queue') + 1 = Len(queue)
        BY <2>1, <3>3
      <4>2. queue'[Len(queue')] = queue[Len(queue)] /\ queue' # <<>>
        BY <2>1, <4>1
      <4> QED BY <3>1, <4>2 DEF RemovalDue, Bound
    <3> QED BY <3>2, <3>3
  <2>3. CASE NothingDue
    <3>1. ~Bound(Head(queue).old) /\ ~Bound(Head(queue).new)
      BY <2>1, <2>3 DEF NothingDue
    <3>2. worker' = worker
      BY <1>7, <3>1 DEF TakeUpdate
    <3>3. \A i \in 1 .. Len(queue') : ~Bound(queue'[i].old) /\ ~Bound(queue'[i].new)
      BY <2>1, <2>3, SMTT(30) DEF NothingDue
    <3> QED BY <2>0, <2>3, <3>2, <3>3 DEF NothingDue, NothingThere, Bound
  <2> QED BY <1>d, <2>0, <2>2, <2>3
<1>8. CASE HandleResync
  BY <1>8, <1>s DEF HandleResync, Bound
<1>9. CASE \/ CreateSandbox \/ StartSandbox \/ CreateBoxes \/ StartBoxes \/ InspectSandbox
           \/ RepairBoxes \/ Unlist \/ List
  <2>1. /\ UNCHANGED <<pod, missed, store, queue>> /\ worker.at # "idle" /\ worker.at \notin {"drop", "remove"}
    BY <1>9 DEF CreateSandbox, StartSandbox, CreateBoxes, StartBoxes, InspectSandbox, RepairBoxes,
                Unlist, List
  <2> QED BY <1>d, <2>1 DEF RemovalDue, NothingDue, Idle, Bound
<1>10. CASE Drop
  <2>1. worker'.at = "remove"
    BY <1>10, <1>t DEF Drop, Go, TypeInv, TypeOK
  <2> QED BY <2>1 DEF RemovalDue
<1>11. CASE RemovePod
  <2>1. queue' = <<>> /\ worker' = Idle /\ sandbox' = "none"
        /\ \A c \in Container : box'[c].st = "missing"
    BY <1>n, <1>11 DEF RemovePod, Tasks, TypeInv, TypeOK, Box
  <2> QED BY <2>1 DEF NothingDue, NothingThere
<1>12. CASE WorkerFails
  BY <1>t, <1>12 DEF WorkerFails, Disturb, Faithful
<1>13. CASE UNCHANGED vars
  BY <1>13, <1>s DEF vars
<1> QED
  BY <1>1, <1>2, <1>3, <1>4, <1>5, <1>6, <1>7, <1>8, <1>9, <1>10, <1>11, <1>12, <1>13
     DEF Next, Work, Manage

(* A deleted pod leaves no container behind.  The deletion is the last     *)
(* thing the worker hears of the pod, so that the removal is not undone,   *)
(* and it is due from the moment the informer learns of it until it has    *)
(* been done: nothing on the way forgets it, unless a call fails, the      *)
(* kubelet dies in the middle of things, or no watch tells of the deletion.*)
THEOREM NothingLeftBehind == Spec => []NoOrphans
<1> DEFINE All == TypeInv /\ Inv /\ News /\ Seen
<1>1. Init => All
  <2>1. Init => store \in Pod
    BY Boxes, PodType DEF Init
  <2> QED BY <2>1, InitType, InitApart, InitNews, KubeletAssumption DEF Seen
<1>2. All /\ [Next]_vars => All'
  BY StepType, StepApart, StepNews, StepSeen
<1>3. All => NoOrphans
  <2>1. SUFFICES ASSUME All, Quiet, pod = NoPod, ~missed, Faithful PROVE sandbox = "none" /\ There = {}
    BY DEF NoOrphans, Faithful
  <2>2. store = NoPod /\ worker = Idle /\ queue = <<>>
    BY <2>1 DEF Quiet, News, Line
  <2>3. NothingDue
    BY <2>1, <2>2 DEF Seen, RemovalDue, Idle
  <2> QED BY <2>3 DEF NothingDue, NothingThere, There
<1> QED BY <1>1, <1>2, <1>3, PTL DEF Spec
-------------------------------------------------------------------------------
(* The life of a pod where nothing is removed, fails, restarts or goes     *)
(* unseen, and its policy lets containers end.                             *)
Mild == /\ Undisturbed
        /\ world.policy = "Never" \/ (world.policy = "OnFailure" /\ env["stop"] = 0)
Watched == link = "watch" /\ ~missed /\ ~resync

(* Nothing has been told of the pod's containers yet; or what has been     *)
(* told is late at most: what it says has ended has ended.                 *)
Blank(p) == Bound(p) /\ p.status = NoStatus
Told(p, b, policy) ==
  /\ Bound(p)
  /\ \A c \in Container :
       /\ p.status.box[c].st # "missing"
       /\ p.status.box[c].st \in {"ok", "failed"} => b[c].st = p.status.box[c].st
       /\ policy = "OnFailure" => p.status.box[c].st # "failed"
Known(p) == Told(p, box, world.policy)

OnlyEnds == \A i \in 1 .. Len(queue) : queue[i].new = NoPod
NoMore ==
  /\ \A i \in 1 .. Len(watch) : watch[i] = NoPod
  /\ Blank(pod) \/ pod = NoPod
  /\ Blank(store) \/ store = NoPod
Hidden == ~listed /\ manager.at = "idle"
AllMissing == \A c \in Container : box[c].st = "missing"
AllThere == sandbox # "none" /\ \A c \in Container : box[c].st # "missing"

(* The stages of that life.  The pod waits for a node; the worker has been *)
(* told of it; the worker takes it up, and its containers are created and  *)
(* started; it lives; it has been removed.                                 *)
Waiting ==
  /\ NothingThere /\ Unbound(store) /\ store.status = NoStatus
  /\ \A i \in 1 .. Len(watch) : watch[i] = NoPod \/ (i = 1 /\ Blank(watch[i]))
ToldToStart ==
  /\ NothingThere /\ NoMore /\ worker = Idle /\ queue # <<>>
  /\ Blank(queue[1].new)
  /\ ~Bound(queue[1].old) /\ Hidden
  /\ \A i \in 2 .. Len(queue) : queue[i].new = NoPod

(* The worker starts what there is of the pod, one step after the other.   *)
Begun ==
  \/ worker.at = "add" /\ NothingThere
  \/ worker.at = "addstart" /\ sandbox # "none" /\ AllMissing
  \/ /\ worker.at = "create" /\ sandbox # "none"
     /\ \A c \in Container :
          box[c].st = IF c \in worker.todo THEN "missing" ELSE "created"
  \/ /\ worker.at = "start" /\ AllThere
     /\ \A c \in worker.todo : box[c].st = "created"
Starting == NoMore /\ OnlyEnds /\ Hidden /\ Begun
Living ==
  /\ AllThere
  /\ \A i \in 1 .. Len(watch) : watch[i] = NoPod \/ Known(watch[i])
  /\ \A i \in 1 .. Len(queue) :
       queue[i].new = NoPod \/ (Bound(queue[i].old) /\ Known(queue[i].new))
  /\ pod = NoPod \/ Known(pod) \/ (Blank(pod) /\ store = pod)
  /\ store = NoPod \/ Known(store) \/ Blank(store)
  /\ worker.at \in {"idle", "list", "unlist", "inspect", "sandboxstart", "boxes", "drop", "remove"}
  /\ worker.at \in {"unlist", "inspect"} => Known(worker.pod)
  /\ worker.at \in {"sandboxstart", "boxes"} => worker.todo = {}
  /\ manager.at = "post" => Known(manager.pod)
Over ==
  /\ AllMissing /\ store = NoPod /\ OnlyEnds /\ worker.at \in {"idle", "drop", "remove"}
  /\ manager.at = "idle"

Life == Waiting \/ ToldToStart \/ Starting \/ Living \/ Over
NoneFailed == world.policy = "OnFailure" => \A c \in Container : box[c].st # "failed"
LifeInv == Mild => Watched /\ Life /\ NoneFailed

(* What docker and its users do to what runs.                              *)
DockerMoves == \/ \E c \in Container : Exit(c) \/ DockerRestart(c) \/ Stop(c)
               \/ StopSandbox

LEMMA MildStep ==
  ASSUME TypeInv, [Next]_vars, Mild', Mild => Watched
  PROVE  /\ Mild /\ world' = world
         /\ \/ Bind \/ DeletePod \/ ReceivePod \/ Work \/ Manage \/ UNCHANGED vars
            \/ DockerMoves /\ env'["stop"] = env["stop"]
            \/ DockerMoves /\ world.policy = "Never"
<1>1. /\ env \in [Disturbance -> Nat]
      /\ \A d \in {"remove", "fail", "crash", "stop", "exit", "relist", "delete"} : d \in Disturbance
  BY DEF TypeInv, TypeOK, Disturbance
<1>2. \A d \in Disturbance :
        Disturb(d) => /\ world' = world
                      /\ env'[d] # 0
                      /\ \A k \in Disturbance : env'[k] = 0 => env[k] = 0
                      /\ \A k \in Disturbance : k # d => env'[k] = env[k]
  BY <1>1 DEF Disturb
<1>3. ~Disturb("remove") /\ ~Disturb("fail") /\ ~Disturb("crash") /\ ~Disturb("relist")
  BY <1>1, <1>2 DEF Mild, Undisturbed
<1>4. /\ ~WorkerFails /\ ~ManagerFails /\ ~Crash /\ ~LoseWatch /\ ~RemoveSandbox
      /\ \A c \in Container : ~Remove(c)
  BY <1>3 DEF WorkerFails, ManagerFails, Crash, LoseWatch, RemoveSandbox, Remove
<1>5. (env' = env /\ world' = world) \/ \E d \in Disturbance : Disturb(d)
  BY <1>1 DEF Next, Work, Manage, Bind, DeletePod, Exit, DockerRestart, Stop, Remove, StopSandbox,
         RemoveSandbox, ReceivePod, LoseWatch, ListPods, Connect, Crash, TakeUpdate, HandleResync,
         CreateSandbox, StartSandbox, CreateBoxes, StartBoxes, List, Unlist, InspectSandbox,
         RepairBoxes, Drop, RemovePod, WorkerFails, Poll, InspectPod, PostStatus, ManagerFails,
         vars, envVars
<1>6. Mild /\ world' = world
  <2>1. world' = world /\ \A k \in Disturbance : env'[k] = 0 => env[k] = 0
    BY <1>1, <1>2, <1>5
  <2> QED BY <1>1, <2>1 DEF Mild, Undisturbed
<1>7. ASSUME NEW c \in Container, Exit(c) \/ DockerRestart(c) PROVE env'["stop"] = env["stop"]
  BY <1>1, <1>2, <1>7 DEF Exit, DockerRestart, envVars
<1>8. ASSUME NEW c \in Container, Stop(c) \/ StopSandbox PROVE world.policy = "Never"
  <2>1. env'["stop"] # 0
    BY <1>1, <1>2, <1>8 DEF Stop, StopSandbox
  <2> QED BY <1>6, <2>1 DEF Mild
<1>9. \E c \in Container : TRUE
  BY KubeletAssumption
<1>10. ~ListPods /\ ~Connect
  BY <1>6 DEF ListPods, Connect, Watched
<1> QED BY <1>4, <1>6, <1>7, <1>8, <1>9, <1>10 DEF Next, DockerMoves

(* Docker creates nothing and removes nothing of itself, and what has      *)
(* ended it leaves alone.                                                  *)
LEMMA DockerMove ==
  ASSUME TypeInv, DockerMoves
  PROVE  /\ UNCHANGED <<etcdVars, informerVars, taskVars>>
         /\ ~NothingThere /\ (sandbox' = "none" <=> sandbox = "none")
         /\ \A c \in Container :
              /\ box[c].st \in {"missing", "created", "ok", "failed"} => box'[c].st = box[c].st
              /\ box[c].st \notin {"missing", "created"} => box'[c].st \notin {"missing", "created"}
<1>1. box \in [Container -> Box]
  BY DEF TypeInv, TypeOK
<1>2. ASSUME NEW c \in Container, NEW st \in {"running", "restarting", "ok", "failed"},
             box[c].st \in {"running", "restarting"},
             \/ SetBox(c, st)
             \/ box' = [box EXCEPT ![c].st = "running", ![c].rc = @ + 1]
      PROVE  \A d \in Container :
              /\ box[d].st \in {"missing", "created", "ok", "failed"} => box'[d].st = box[d].st
              /\ box[d].st \notin {"missing", "created"} => box'[d].st \notin {"missing", "created"}
  <2>1. box'[c].st \in {"running", "restarting", "ok", "failed"}
        /\ \A d \in Container : d # c => box'[d] = box[d]
    BY <1>1, <1>2 DEF SetBox, Box
  <2> QED BY <1>2, <2>1
<1>3. CASE StopSandbox
  BY <1>1, <1>3 DEF StopSandbox, taskVars, NothingThere
<1>4. ASSUME NEW c \in Container, Exit(c) \/ DockerRestart(c) \/ Stop(c)
      PROVE  /\ UNCHANGED <<etcdVars, informerVars, taskVars, sandbox>>
             /\ box[c].st \in {"running", "restarting"}
             /\ \/ \E st \in {"running", "restarting", "ok", "failed"} : SetBox(c, st)
                \/ box' = [box EXCEPT ![c].st = "running", ![c].rc = @ + 1]
  BY <1>4 DEF Exit, DockerRestart, Stop
<1>5. ASSUME NEW c \in Container, Exit(c) \/ DockerRestart(c) \/ Stop(c)
      PROVE  /\ UNCHANGED <<etcdVars, informerVars, taskVars, sandbox>>
             /\ ~NothingThere
             /\ \A d \in Container :
              /\ box[d].st \in {"missing", "created", "ok", "failed"} => box'[d].st = box[d].st
              /\ box[d].st \notin {"missing", "created"} => box'[d].st \notin {"missing", "created"}
  <2>1. /\ UNCHANGED <<etcdVars, informerVars, taskVars, sandbox>>
        /\ box[c].st \in {"running", "restarting"}
        /\ \E st \in {"running", "restarting", "ok", "failed"} :
                \/ SetBox(c, st)
                \/ box' = [box EXCEPT ![c].st = "running", ![c].rc = @ + 1]
    BY <1>4, <1>5
  <2>2. ~NothingThere
    BY <2>1 DEF NothingThere
  <2> QED BY <1>2, <2>1, <2>2
<1> QED BY <1>3, <1>5 DEF DockerMoves

(* The worker's handlers, by what the worker is doing.                     *)
LEMMA WorkAt ==
  ASSUME Work
  PROVE  \/ worker = Idle /\ worker.at = "idle" /\ (TakeUpdate \/ HandleResync)
         \/ worker.at \in {"add", "sandbox"} /\ CreateSandbox
         \/ worker.at \in {"addstart", "sandboxstart"} /\ StartSandbox
         \/ worker.at = "create" /\ CreateBoxes
         \/ worker.at = "start" /\ StartBoxes
         \/ worker.at = "boxes" /\ RepairBoxes
         \/ worker.at = "list" /\ List
         \/ worker.at = "unlist" /\ Unlist
         \/ worker.at = "inspect" /\ InspectSandbox
         \/ worker.at = "drop" /\ Drop
         \/ worker.at = "remove" /\ RemovePod
<1>1. worker = Idle => worker.at = "idle"
  BY DEF Idle
<1>2. TakeUpdate \/ HandleResync => worker = Idle
  BY DEF TakeUpdate, HandleResync
<1>3. /\ CreateSandbox => worker.at \in {"add", "sandbox"}
      /\ StartSandbox => worker.at \in {"addstart", "sandboxstart"}
  BY DEF CreateSandbox, StartSandbox
<1>4. /\ CreateBoxes => worker.at = "create"
      /\ StartBoxes => worker.at = "start"
      /\ RepairBoxes => worker.at = "boxes"
      /\ List => worker.at = "list"
      /\ Unlist => worker.at = "unlist"
      /\ InspectSandbox => worker.at = "inspect"
      /\ Drop => worker.at = "drop"
      /\ RemovePod => worker.at = "remove"
  BY DEF CreateBoxes, StartBoxes, RepairBoxes, List, Unlist, InspectSandbox, Drop, RemovePod
<1> QED BY <1>1, <1>2, <1>3, <1>4, Zenon DEF Work

LEMMA ManageAt ==
  ASSUME Manage
  PROVE  /\ UNCHANGED <<informerVars, listed, worker, docker>>
         /\ \/ /\ manager.at = "idle" /\ listed /\ store # NoPod /\ UNCHANGED etcdVars
               /\ manager' = [at |-> "inspect", pod |-> store]
            \/ manager.at = "inspect" /\ Compare(Observed) /\ UNCHANGED etcdVars
            \/ manager.at = "post" /\ PostStatus
BY DEF Manage, Poll, InspectPod, PostStatus, informerVars, docker

-------------------------------------------------------------------------------
(* What the surroundings do to the line of news and to the queue.          *)
LEMMA PutElements ==
  ASSUME TypeInv, Watched, NEW new \in Pod \cup {NoPod}, PutPod(new)
  PROVE  /\ pod' = new /\ watch' # <<>>
         /\ \A i \in 1 .. Len(watch') :
              watch'[i] = new \/ (i \in 1 .. Len(watch) /\ watch'[i] = watch[i])
<1>1. watch \in Seq(Pod \cup {NoPod}) /\ watch' = Append(watch, new)
  BY DEF TypeInv, TypeOK, Watched, PutPod
<1>2. /\ watch' # <<>> /\ Len(watch') = Len(watch) + 1 /\ Len(watch) \in Nat
      /\ watch'[Len(watch) + 1] = new
      /\ \A i \in 1 .. Len(watch) : watch'[i] = watch[i]
  BY <1>1, AppendElements
<1> QED BY <1>2 DEF PutPod

LEMMA ReceivedElements ==
  ASSUME TypeInv, Watched, Line, ReceivePod
  PROVE  /\ 1 \in 1 .. Len(watch) /\ store' = watch[1] /\ store # NoPod
         /\ store' = NoPod => pod = NoPod
         /\ \A i \in 1 .. Len(watch') : i + 1 \in 2 .. Len(watch) /\ watch'[i] = watch[i + 1]
         /\ IF watch' = <<>> THEN pod = store' ELSE Len(watch) \in 2 .. Len(watch)
         /\ pod = watch[Len(watch)] /\ Len(watch) \in 1 .. Len(watch)
<1>1. watch \in Seq(Pod \cup {NoPod}) /\ watch # <<>> /\ watch' = Tail(watch)
      /\ store' = Head(watch) /\ pod' = pod /\ store # NoPod
  BY DEF TypeInv, TypeOK, ReceivePod, Line
<1>2. /\ store' = watch[1] /\ Len(watch) \in Nat /\ Len(watch) >= 1
      /\ watch' \in Seq(Pod \cup {NoPod}) /\ Len(watch') = Len(watch) - 1
      /\ \A i \in 1 .. Len(watch') : watch'[i] = watch[i + 1]
  BY <1>1, TailElements
<1>3. watch' = <<>> <=> Len(watch) = 1
  BY <1>2, EmptySeq
<1>4. (store' = NoPod => pod = NoPod) /\ (watch' = <<>> => pod = store')
  BY <1>1, <1>2, <1>3, LineReceive DEF Line, Watched, ReceivePod
<1>5. pod = watch[Len(watch)]
  BY <1>1 DEF Line
<1> QED BY <1>1, <1>2, <1>3, <1>4, <1>5

LEMMA QueuedElements ==
  ASSUME TypeInv, NEW old \in Pod \cup {NoPod}, NEW new \in Pod \cup {NoPod},
         queue' = Append(queue, [old |-> old, new |-> new])
  PROVE  /\ queue' # <<>> /\ Len(queue') = Len(queue) + 1 /\ Len(queue) \in Nat
         /\ \A i \in 1 .. Len(queue) : queue'[i] = queue[i]
         /\ queue'[Len(queue) + 1].old = old /\ queue'[Len(queue) + 1].new = new
<1> DEFINE Entry == [old : Pod \cup {NoPod}, new : Pod \cup {NoPod}]
           e == [old |-> old, new |-> new]
<1>1. e \in Entry /\ queue \in Seq(Entry) /\ e.old = old /\ e.new = new
  BY DEF TypeInv, TypeOK
<1>2. queue' = Append(queue, e)
  OBVIOUS
<1> HIDE DEF Entry, e
<1>3. /\ queue' # <<>> /\ Len(queue') = Len(queue) + 1 /\ Len(queue) \in Nat
      /\ queue'[Len(queue) + 1] = e
      /\ \A i \in 1 .. Len(queue) : queue'[i] = queue[i]
  BY <1>1, <1>2, AppendElements
<1> QED BY <1>1, <1>3

LEMMA TakenElements ==
  ASSUME TypeInv, TakeUpdate
  PROVE  /\ 1 \in 1 .. Len(queue) /\ Head(queue) = queue[1]
         /\ \A i \in 1 .. Len(queue') : i + 1 \in 2 .. Len(queue) /\ queue'[i] = queue[i + 1]
<1>1. /\ queue \in Seq([old : Pod \cup {NoPod}, new : Pod \cup {NoPod}])
      /\ queue # <<>> /\ queue' = Tail(queue)
  BY DEF TypeInv, TypeOK, TakeUpdate
<1>2. /\ Head(queue) = queue[1] /\ Len(queue) \in Nat /\ Len(queue) >= 1
      /\ Len(queue') = Len(queue) - 1
      /\ \A i \in 1 .. Len(queue') : queue'[i] = queue[i + 1]
  BY <1>1, TailElements
<1> QED BY <1>2

(* An event of a deletion is added to the queue, or nothing is.            *)
LEMMA EndsStay ==
  ASSUME TypeInv,
         queue' = queue \/ \E old \in Pod \cup {NoPod} :
                              queue' = Append(queue, [old |-> old, new |-> NoPod])
  PROVE  /\ OnlyEnds => OnlyEnds'
         /\ queue # <<>> /\ (\A i \in 2 .. Len(queue) : queue[i].new = NoPod)
              => /\ queue' # <<>> /\ queue'[1] = queue[1]
                 /\ \A i \in 2 .. Len(queue') : queue'[i].new = NoPod
<1>1. CASE queue' = queue
  BY <1>1 DEF OnlyEnds
<1>2. ASSUME NEW old \in Pod \cup {NoPod}, queue' = Append(queue, [old |-> old, new |-> NoPod])
      PROVE  /\ OnlyEnds => OnlyEnds'
             /\ queue # <<>> /\ (\A i \in 2 .. Len(queue) : queue[i].new = NoPod)
                => /\ queue' # <<>> /\ queue'[1] = queue[1]
                   /\ \A i \in 2 .. Len(queue') : queue'[i].new = NoPod
  <2>1. /\ queue' # <<>> /\ Len(queue') = Len(queue) + 1 /\ Len(queue) \in Nat
        /\ \A i \in 1 .. Len(queue) : queue'[i] = queue[i]
        /\ queue'[Len(queue) + 1].new = NoPod
    BY <1>2, QueuedElements
  <2>2. queue # <<>> => 1 \in 1 .. Len(queue)
    BY <2>1, EmptySeq DEF TypeInv, TypeOK
  <2> QED BY <2>1, <2>2 DEF OnlyEnds
<1> QED BY <1>1, <1>2

(* Where no more news is to come but the deletion of the pod, the          *)
(* surroundings bring no more.                                             *)
LEMMA NoMoreStays ==
  ASSUME TypeInv, Watched, News, NoMore, Bind \/ DeletePod \/ ReceivePod
  PROVE  /\ NoMore' /\ UNCHANGED <<taskVars, docker>>
         /\ queue' = queue \/ \E old \in Pod \cup {NoPod} :
                                 queue' = Append(queue, [old |-> old, new |-> NoPod])
<1> USE DEF informerVars, envVars
<1>n. Line
  BY DEF News
<1>1. ~Bind
  BY DEF Bind, NoMore, Blank, Bound
<1>2. CASE DeletePod
  <2>1. PutPod(NoPod) /\ UNCHANGED <<informerVars, taskVars, docker>>
    BY <1>2 DEF DeletePod
  <2>2. pod' = NoPod /\ \A i \in 1 .. Len(watch') : watch'[i] = NoPod
    BY <2>1, PutElements DEF NoMore
  <2> QED BY <2>1, <2>2 DEF NoMore
<1>3. CASE ReceivePod
  <2>1. /\ store' = NoPod /\ pod = NoPod /\ pod' = pod /\ resync' = resync /\ UNCHANGED <<taskVars, docker>>
        /\ \A i \in 1 .. Len(watch') : watch'[i] = NoPod
    BY <1>n, <1>3, ReceivedElements DEF NoMore, ReceivePod
  <2>2. store \in Pod \cup {NoPod} /\ Head(watch) = NoPod
    BY <1>3, <2>1 DEF TypeInv, TypeOK, ReceivePod
  <2>3. queue' = queue \/ queue' = Append(queue, [old |-> store, new |-> NoPod])
    BY <1>3, <2>2 DEF ReceivePod
  <2> QED BY <2>1, <2>2, <2>3 DEF NoMore
<1> QED BY <1>1, <1>2, <1>3

-------------------------------------------------------------------------------
(* From stage to stage.  What a stage has in common with the others:       *)
(* everything of the kubelet and its node is as the invariants say, the    *)
(* world is a mild one, and a step is taken.                               *)
Calm == TypeInv /\ Inv /\ News /\ Mild /\ Watched /\ NoneFailed

(* The steps of a mild world.                                              *)
MildNext == /\ world' = world
            /\ \/ Bind \/ DeletePod \/ ReceivePod \/ Work \/ Manage
               \/ DockerMoves \/ UNCHANGED vars

LEMMA FromWaiting == ASSUME Calm, MildNext, Waiting PROVE Life'
<1> USE DEF etcdVars, informerVars, taskVars, docker, envVars
<1>1. /\ worker = Idle /\ worker.at = "idle" /\ queue = <<>> /\ ~listed /\ manager.at = "idle"
      /\ NothingThere /\ ~Bound(store) /\ store # NoPod /\ ~resync
      /\ TypeInv /\ Line /\ Watched
      /\ \A i \in 1 .. Len(watch) : watch[i] = NoPod \/ (i = 1 /\ Blank(watch[i]))
  BY DEF Calm, News, Waiting, Untouched, Unbound, Bound, Idle, Watched
<1>2. ~DockerMoves
  BY <1>1, DockerMove
<1>3. ~Manage
  BY <1>1, ManageAt
<1>4. ~Work
  <2>1. ~TakeUpdate /\ ~HandleResync
    BY <1>1 DEF TakeUpdate, HandleResync
  <2> QED BY <1>1, <2>1, WorkAt
<1>5. CASE Bind
  <2>1. pod \in Pod /\ watch = <<>> /\ store = pod
    BY <1>1, <1>5 DEF Bind, Line, Unbound, TypeInv, TypeOK, Watched
  <2> DEFINE new == [pod EXCEPT !.bound = TRUE]
  <2>2. new \in Pod /\ new.bound /\ new.status = pod.status
    BY <2>1, PodType DEF Pod
  <2>3. PutPod(new)
    BY <1>5 DEF Bind
  <2> HIDE DEF new
  <2>4. Blank(new)
    BY <2>1, <2>2, KubeletAssumption DEF Blank, Bound, Waiting
  <2>5. watch' = <<new>>
    BY <1>1, <2>1, <2>3 DEF PutPod, Watched
  <2>6. \A i \in 1 .. Len(watch') : i = 1 /\ Blank(watch'[i])
    BY <2>4, <2>5
  <2> QED BY <1>5, <2>6 DEF Bind, Life, Waiting, NothingThere, Unbound
<1>6. CASE DeletePod
  <2>1. \A i \in 1 .. Len(watch') : watch'[i] = NoPod \/ (i = 1 /\ Blank(watch'[i]))
    BY <1>1, <1>6, PutElements DEF DeletePod
  <2> QED BY <1>6, <2>1 DEF DeletePod, Life, Waiting, NothingThere, Unbound
<1>7. CASE ReceivePod
  <2>1. /\ 1 \in 1 .. Len(watch) /\ store' = watch[1] /\ (store' = NoPod => pod = NoPod)
        /\ \A i \in 1 .. Len(watch') : watch'[i] = NoPod
        /\ Blank(store') \/ store' = NoPod
        /\ Blank(pod) \/ pod = NoPod
    BY <1>1, <1>7, ReceivedElements
  <2>2. store' # store /\ store' = Head(watch) /\ UNCHANGED <<pod, resync, taskVars, docker>>
    BY <1>1, <1>7, <2>1 DEF ReceivePod, Blank
  <2>3. queue' = Append(queue, [old |-> store, new |-> store'])
    BY <1>7, <2>2 DEF ReceivePod
  <2>4. store \in Pod \cup {NoPod} /\ store' \in Pod \cup {NoPod}
    BY <1>1, <1>7, StepType DEF TypeInv, TypeOK, Next
  <2>5. queue' # <<>> /\ Len(queue') = 1 /\ queue'[1].old = store /\ queue'[1].new = store'
    BY <1>1, <2>3, <2>4, QueuedElements
  <2>6. CASE store' = NoPod
    BY <1>1, <2>2, <2>5, <2>6 DEF Life, Over, AllMissing, OnlyEnds, NothingThere
  <2>7. CASE Blank(store')
    <3>1. NoMore'
      BY <1>1, <2>1, <2>2 DEF NoMore
    <3> QED BY <1>1, <2>2, <2>5, <2>7, <3>1 DEF Life, ToldToStart, NothingThere, Hidden
  <2> QED BY <2>1, <2>6, <2>7
<1>9. CASE UNCHANGED vars
  BY <1>9 DEF vars, Life, Waiting, NothingThere, Unbound
<1> QED BY <1>2, <1>3, <1>4, <1>5, <1>6, <1>7, <1>9 DEF MildNext

LEMMA FromToldToStart == ASSUME Calm, MildNext, ToldToStart PROVE Life'
<1> USE DEF etcdVars, informerVars, taskVars, docker, envVars
<1>1. /\ worker = Idle /\ worker.at = "idle" /\ queue # <<>> /\ NothingThere /\ NoMore
      /\ Blank(queue[1].new) /\ ~Bound(queue[1].old) /\ Hidden
      /\ \A i \in 2 .. Len(queue) : queue[i].new = NoPod
      /\ TypeInv /\ News /\ Watched
  BY DEF Calm, ToldToStart, Idle
<1>2. ~DockerMoves /\ ~Manage /\ ~HandleResync
  BY <1>1, DockerMove, ManageAt DEF Hidden, HandleResync, Watched
<1>3. CASE Bind \/ DeletePod \/ ReceivePod
  <2>1. /\ NoMore' /\ UNCHANGED <<taskVars, docker>>
        /\ queue' # <<>> /\ queue'[1] = queue[1] /\ \A i \in 2 .. Len(queue') : queue'[i].new = NoPod
    BY <1>1, <1>3, NoMoreStays, EndsStay
  <2> QED BY <1>1, <2>1 DEF Life, ToldToStart, NothingThere, Hidden
<1>5. CASE TakeUpdate
  <2>1. /\ Head(queue) = queue[1] /\ 1 \in 1 .. Len(queue) /\ OnlyEnds'
    BY <1>1, <1>5, TakenElements DEF OnlyEnds
  <2>2. Bound(Head(queue).new)
    BY <1>1, <2>1 DEF Blank
  <2>3. UNCHANGED <<etcdVars, store, listed, manager, docker>>
    BY <1>5 DEF TakeUpdate
  <2>4. NoMore' /\ NothingThere' /\ Hidden'
    BY <1>1, <2>3 DEF NoMore, NothingThere, Hidden
  <2>5. worker' = [Idle EXCEPT !.at = "add", !.pod = Head(queue).new]
    BY <1>1, <1>5, <2>1, <2>2 DEF TakeUpdate
  <2>6. worker'.at = "add"
    BY <2>5 DEF Idle
  <2> QED BY <2>1, <2>4, <2>6 DEF Life, Starting, Begun
<1>7. Work => TakeUpdate \/ HandleResync
  BY <1>1, WorkAt
<1>8. CASE UNCHANGED vars
  BY <1>1, <1>8 DEF vars, Life, ToldToStart, NothingThere, NoMore, Hidden
<1> QED BY <1>2, <1>3, <1>5, <1>7, <1>8 DEF MildNext

(* What a step of the worker leaves alone while it starts the pod.         *)
LEMMA StartingStays ==
  ASSUME NoMore, OnlyEnds, Hidden, UNCHANGED <<etcdVars, informerVars, listed, manager>>
  PROVE  NoMore' /\ OnlyEnds' /\ Hidden'
BY DEF NoMore, OnlyEnds, Hidden, etcdVars, informerVars

LEMMA RunningBox ==
  ASSUME box \in [Container -> Box], NEW c \in Container, NEW n,
         box' = [box EXCEPT ![c].st = "running", ![c].rc = n]
  PROVE  box'[c].st = "running" /\ \A d \in Container : d # c => box'[d] = box[d]
<1>1. box' = [box EXCEPT ![c] = [@ EXCEPT !.st = "running", !.rc = n]]
  OBVIOUS
<1>2. box'[c] = [box[c] EXCEPT !.st = "running", !.rc = n]
      /\ \A d \in Container : d # c => box'[d] = box[d]
  BY <1>1
<1>3. box'[c].st = "running"
  BY <1>2 DEF Box
<1> QED BY <1>2, <1>3

(* What the worker does with one container, as it begins with it.          *)
LEMMA BoxStep ==
  ASSUME TypeInv, NEW c \in Container
  PROVE  /\ Create(c) /\ box[c].st = "missing" /\ sandbox # "none"
              => /\ box'[c].st = "created"
                 /\ \A d \in Container : d # c => box'[d] = box[d]
         /\ Start(c) /\ box[c].st # "missing"
              => /\ box'[c].st # "missing"
                 /\ \A d \in Container : d # c => box'[d] = box[d]
<1>1. box \in [Container -> Box] /\ box[c] \in Box
  BY DEF TypeInv, TypeOK
<1>2. ASSUME Create(c), box[c].st = "missing", sandbox # "none"
      PROVE  box'[c].st = "created" /\ \A d \in Container : d # c => box'[d] = box[d]
  BY <1>1, <1>2 DEF Create
<1>3. ASSUME Start(c), box[c].st # "missing"
      PROVE  box'[c].st # "missing" /\ \A d \in Container : d # c => box'[d] = box[d]
  <2>1. CASE UNCHANGED box
    BY <1>3, <2>1
  <2>2. CASE box' = [box EXCEPT ![c].st = "running", ![c].rc = 0]
    BY <1>1, <2>2, RunningBox
  <2> QED BY <1>3, <2>1, <2>2 DEF Start
<1> QED BY <1>2, <1>3

LEMMA FromStarting == ASSUME Calm, MildNext, Starting PROVE Life'
<1> USE DEF etcdVars, informerVars, taskVars, docker, envVars
<1>1. /\ NoMore /\ OnlyEnds /\ Hidden /\ Begun /\ manager.at = "idle" /\ ~listed
      /\ TypeInv /\ News /\ WorkerOK /\ Watched
      /\ \A at : /\ Go(at) => worker'.at = at /\ worker'.todo = worker.todo
                 /\ \A cs : GoDo(at, cs) => worker'.at = at /\ worker'.todo = cs
  BY DEF Calm, Starting, Hidden, Inv, WorkerOK, Go, GoDo
<1>2. CASE Bind \/ DeletePod \/ ReceivePod
  <2>1. NoMore' /\ UNCHANGED <<taskVars, docker>> /\ OnlyEnds'
    BY <1>1, <1>2, NoMoreStays, EndsStay
  <2> QED BY <1>1, <2>1 DEF Life, Starting, Begun, Hidden, NothingThere, AllMissing, AllThere
<1>3. CASE DockerMoves
  <2>1. /\ UNCHANGED <<etcdVars, informerVars, taskVars>>
        /\ ~NothingThere /\ (sandbox' = "none" <=> sandbox = "none")
        /\ \A c \in Container :
              /\ box[c].st \in {"missing", "created", "ok", "failed"} => box'[c].st = box[c].st
              /\ box[c].st \notin {"missing", "created"} => box'[c].st \notin {"missing", "created"}
    BY <1>1, <1>3, DockerMove
  <2>2. NoMore' /\ OnlyEnds' /\ Hidden'
    BY <1>1, <2>1, StartingStays
  <2>3. Begun'
    <3>1. worker' = worker /\ ~NothingThere /\ worker.todo \in SUBSET Container
      BY <1>1, <2>1 DEF TypeInv, TypeOK
    <3>2. CASE worker.at \in {"addstart", "create"}
      BY <1>1, <2>1, <3>1, <3>2 DEF Begun, AllMissing
    <3>3. CASE worker.at = "start"
      BY <1>1, <2>1, <3>1, <3>3 DEF Begun, AllThere
    <3> QED BY <1>1, <3>1, <3>2, <3>3 DEF Begun
  <2> QED BY <2>2, <2>3 DEF Life, Starting
<1>4. ~Manage
  BY <1>1, ManageAt
<1>5. CASE worker.at = "add" /\ CreateSandbox
  <2>1. NothingThere
    BY <1>1, <1>5 DEF Begun
  <2>2. sandbox' = "created" /\ box' = box /\ UNCHANGED <<etcdVars, informerVars, listed, manager>>
    BY <1>5, <2>1 DEF CreateSandbox, NothingThere
  <2>3. worker'.at = "addstart"
    BY <1>1, <1>5, <2>1 DEF CreateSandbox, NothingThere
  <2>4. Begun'
    BY <2>1, <2>2, <2>3 DEF Begun, AllMissing, NothingThere
  <2> QED BY <1>1, <2>2, <2>4, StartingStays DEF Life, Starting
<1>6. CASE worker.at = "addstart" /\ StartSandbox
  <2>1. sandbox # "none" /\ AllMissing
    BY <1>1, <1>6 DEF Begun
  <2>2. sandbox' = "up" /\ box' = box /\ UNCHANGED <<etcdVars, informerVars, listed, manager>>
    BY <1>6, <2>1 DEF StartSandbox
  <2>3. worker'.at = "create" /\ worker'.todo = Container
    BY <1>1, <1>6, <2>1 DEF StartSandbox
  <2>4. Begun'
    BY <1>6, <2>1, <2>2, <2>3 DEF Begun, AllMissing
  <2> QED BY <1>1, <2>2, <2>4, StartingStays DEF Life, Starting
<1>7. CASE worker.at = "create" /\ CreateBoxes
  <2>1. /\ sandbox # "none" /\ sandbox' = sandbox /\ UNCHANGED <<etcdVars, informerVars, listed, manager>>
        /\ \A c \in Container : box[c].st = IF c \in worker.todo THEN "missing" ELSE "created"
        /\ worker.todo \subseteq Container
    BY <1>1, <1>7 DEF CreateBoxes, Begun, TypeInv, TypeOK
  <2>2. ASSUME NEW c \in worker.todo, Create(c), GoDo("create", worker.todo \ {c}) PROVE Begun'
    <3>1. box'[c].st = "created" /\ \A d \in Container : d # c => box'[d] = box[d]
      BY <1>1, <2>1, <2>2, BoxStep
    <3>2. worker'.at = "create" /\ worker'.todo = worker.todo \ {c}
      BY <1>1, <2>2
    <3>3. \A d \in Container : box'[d].st = IF d \in worker'.todo THEN "missing" ELSE "created"
      BY <2>1, <3>1, <3>2
    <3> QED BY <2>1, <3>2, <3>3 DEF Begun
  <2>3. ASSUME worker.todo = {}, GoDo("start", There), UNCHANGED box PROVE Begun'
    <3>1. worker'.at = "start" /\ worker'.todo = There /\ \A c \in Container : box[c].st = "created"
      BY <1>1, <2>1, <2>3
    <3> QED BY <2>1, <2>3, <3>1 DEF Begun, AllThere, There
  <2>4. Begun'
    BY <1>7, <2>2, <2>3 DEF CreateBoxes
  <2> QED BY <1>1, <2>1, <2>4, StartingStays DEF Life, Starting
<1>l. ASSUME UNCHANGED <<etcdVars, informerVars, listed, manager>>, AllThere', worker'.at = "list"
      PROVE  Life'
  <2>1. NoMore' /\ OnlyEnds' /\ Hidden'
    BY <1>1, <1>l, StartingStays
  <2>2. Blank(pod) => store = pod
    <3>1. watch # <<>> => watch[Len(watch)] = NoPod
      BY <1>1, LenProperties, EmptySeq DEF NoMore, TypeInv, TypeOK
    <3> QED BY <1>1, <3>1 DEF News, Line, Blank, Bound, Watched
  <2>3. pod' = NoPod \/ (Blank(pod') /\ store' = pod')
    BY <1>1, <1>l, <2>2 DEF NoMore
  <2>4. store' = NoPod \/ Blank(store')
    BY <2>1 DEF NoMore
  <2> QED BY <1>l, <2>1, <2>3, <2>4 DEF Life, Living, NoMore, OnlyEnds, Hidden
<1>8. CASE worker.at = "start" /\ StartBoxes
  <2>1. /\ AllThere /\ sandbox' = sandbox /\ UNCHANGED <<etcdVars, informerVars, listed, manager>>
        /\ \A c \in worker.todo : box[c].st = "created"
        /\ worker.todo \subseteq Container
    BY <1>1, <1>8 DEF StartBoxes, Begun, TypeInv, TypeOK
  <2>2. ASSUME NEW c \in worker.todo, Start(c), GoDo("start", worker.todo \ {c}) PROVE Life'
    <3>1. box'[c].st # "missing" /\ \A d \in Container : d # c => box'[d] = box[d]
      BY <1>1, <2>1, <2>2, BoxStep
    <3>2. worker'.at = "start" /\ worker'.todo = worker.todo \ {c}
      BY <1>1, <2>2
    <3>3. AllThere' /\ \A d \in worker'.todo : box'[d].st = "created"
      BY <2>1, <3>1, <3>2 DEF AllThere
    <3>4. Begun'
      BY <3>2, <3>3 DEF Begun
    <3> QED BY <1>1, <2>1, <3>4, StartingStays DEF Life, Starting
  <2>3. ASSUME worker.todo = {}, Go("list"), UNCHANGED box PROVE Life'
    BY <1>1, <1>l, <2>1, <2>3 DEF AllThere
  <2> QED BY <1>8, <2>2, <2>3 DEF StartBoxes
<1>11. worker.at \in {"add", "addstart", "create", "start"}
  BY <1>1 DEF Begun
<1>12. CASE UNCHANGED vars
  BY <1>1, <1>12 DEF vars, Life, Starting, Begun, NoMore, OnlyEnds, Hidden, NothingThere, AllMissing, AllThere
<1>13. CASE Work
  BY <1>5, <1>6, <1>7, <1>8, <1>11, <1>13, WorkAt
<1> QED BY <1>2, <1>3, <1>4, <1>12, <1>13 DEF MildNext

LEMMA FromOver == ASSUME Calm, MildNext, Over PROVE Life'
<1> USE DEF etcdVars, informerVars, taskVars, docker, envVars
<1>1. /\ AllMissing /\ store = NoPod /\ OnlyEnds /\ worker.at \in {"idle", "drop", "remove"}
      /\ manager.at = "idle" /\ pod = NoPod /\ watch = <<>> /\ ~resync
      /\ TypeInv /\ WorkerOK /\ box \in [Container -> Box]
      /\ \A at : Go(at) => worker'.at = at
  BY GoAt DEF Calm, News, Line, Over, Inv, TypeInv, TypeOK, Watched
<1>2. ~Bind /\ ~DeletePod /\ ~ReceivePod /\ ~Manage
  BY <1>1, ManageAt DEF Bind, DeletePod, ReceivePod
<1>4. CASE DockerMoves
  <2>1. UNCHANGED <<etcdVars, informerVars, taskVars>> /\ \A c \in Container : box'[c].st = "missing"
    BY <1>1, <1>4, DockerMove DEF AllMissing
  <2> QED BY <1>1, <2>1 DEF Life, Over, AllMissing, OnlyEnds
<1>5. CASE TakeUpdate
  <2>1. /\ Head(queue) = queue[1] /\ Head(queue).new = NoPod /\ OnlyEnds'
    BY <1>1, <1>5, TakenElements DEF OnlyEnds
  <2>2. worker' = worker \/ worker' = [Idle EXCEPT !.at = "drop", !.pod = Head(queue).old]
    BY <1>5, <2>1 DEF TakeUpdate, Bound
  <2>3. worker'.at \in {"idle", "drop", "remove"}
    BY <1>1, <2>2 DEF Idle
  <2> QED BY <1>1, <1>5, <2>1, <2>3 DEF TakeUpdate, Life, Over, AllMissing
<1>6. ~HandleResync
  BY <1>1 DEF HandleResync
<1>7. CASE Drop
  BY <1>1, <1>7 DEF Drop, Life, Over, AllMissing, OnlyEnds
<1>8. CASE RemovePod
  <2>1. \A c \in Container : box'[c].st = "missing"
    BY <1>1, <1>8 DEF RemovePod, Box
  <2> QED BY <1>1, <1>8, <2>1 DEF RemovePod, Idle, Life, Over, AllMissing, OnlyEnds
<1>9. CASE UNCHANGED vars
  BY <1>1, <1>9 DEF vars, Life, Over, AllMissing, OnlyEnds
<1>10. CASE Work
  BY <1>1, <1>5, <1>6, <1>7, <1>8, <1>10, WorkAt
<1> QED BY <1>2, <1>4, <1>9, <1>10 DEF MildNext
(* What is known of a pod stays right: what has ended stays ended, where   *)
(* no container that has ended is started or removed.                      *)
LEMMA KnownStays ==
  ASSUME world' = world,
         \A c \in Container : box[c].st \in {"ok", "failed"} => box'[c].st = box[c].st
  PROVE  \A p : Told(p, box, world.policy) => Told(p, box', world'.policy)
BY DEF Told

LEMMA KnownBlank == \A p, b, policy : Told(p, b, policy) => ~Blank(p) /\ Bound(p) /\ p # NoPod
<1>0. \A p, b, policy : Told(p, b, policy) => Bound(p) /\ p # NoPod
  BY DEF Told, Bound
<1> SUFFICES ASSUME NEW p, NEW b, NEW policy, Told(p, b, policy), Blank(p) PROVE FALSE
  BY <1>0
<1>1. PICK c \in Container : TRUE
  BY KubeletAssumption
<1>2. NoStatus.box[c].st = "missing"
  BY DEF NoStatus, Missing
<1> QED BY <1>1, <1>2 DEF Told, Blank

(* A step that leaves the containers and what is known of them alone.      *)
LEMMA LivingAside ==
  ASSUME Living, world' = world, AllThere',
         \A c \in Container : box[c].st \in {"ok", "failed"} => box'[c].st = box[c].st,
         UNCHANGED <<etcdVars, informerVars, taskVars>>
  PROVE  Living'
<1>1. \A p : Told(p, box, world.policy) => Told(p, box', world'.policy)
  BY KnownStays
<1> QED BY <1>1 DEF Living, Known, etcdVars, informerVars, taskVars

(* What the worker knows and has to do in this stage.                      *)
Tending ==
  /\ worker.at \in {"idle", "list", "unlist", "inspect", "sandboxstart", "boxes", "drop", "remove"}
  /\ worker.at \in {"unlist", "inspect"} => Known(worker.pod)
  /\ worker.at \in {"sandboxstart", "boxes"} => worker.todo = {}

LEMMA LivingWork ==
  ASSUME Living, world' = world, box' = box, sandbox' # "none", Tending',
         UNCHANGED <<etcdVars, informerVars, manager>>
  PROVE  Living'
BY DEF Living, Tending, Known, AllThere, etcdVars, informerVars

LEMMA FromLiving == ASSUME Calm, MildNext, Living PROVE Life'
<1> USE DEF etcdVars, informerVars, taskVars, docker, envVars
<1> SUFFICES Living' \/ Over'
  BY DEF Life
<1>1. /\ AllThere /\ TypeInv /\ News /\ Line /\ Tasks /\ WorkerOK /\ Apart /\ Mild /\ NoneFailed
      /\ Watched
      /\ \A i \in 1 .. Len(watch) : watch[i] = NoPod \/ Known(watch[i])
      /\ \A i \in 1 .. Len(queue) :
           queue[i].new = NoPod \/ (Bound(queue[i].old) /\ Known(queue[i].new))
      /\ pod = NoPod \/ Known(pod) \/ (Blank(pod) /\ store = pod)
      /\ store = NoPod \/ Known(store) \/ Blank(store)
      /\ Tending
      /\ manager.at = "post" => Known(manager.pod)
  BY DEF Calm, News, Inv, Living, Tending
<1>2. /\ \A p : Known(p) => ~Blank(p) /\ Bound(p) /\ p # NoPod
      /\ world' = world /\ sandbox # "none"
  BY <1>1, KnownBlank DEF MildNext, Known, AllThere
<1>3. /\ pod \in Pod \cup {NoPod} /\ store \in Pod \cup {NoPod} /\ world.policy \in {"Never", "OnFailure"}
      /\ box \in [Container -> Box] /\ worker.at \in {"idle", "list", "unlist", "inspect",
           "sandboxstart", "boxes", "drop", "remove"}
      /\ \A at : /\ Go(at) => worker' = [at |-> at, pod |-> worker.pod, todo |-> worker.todo]
                 /\ \A cs : GoDo(at, cs) => worker' = [at |-> at, pod |-> worker.pod, todo |-> cs]
  BY <1>1 DEF TypeInv, TypeOK, Mild, Tending, WorkerOK, Go, GoDo
<1>4. ~Bind
  BY <1>1, <1>2 DEF Bind, Blank, Bound
<1>5. CASE DeletePod
  <2>1. PutPod(NoPod) /\ UNCHANGED <<informerVars, taskVars, docker>>
    BY <1>5 DEF DeletePod
  <2>2. pod' = NoPod /\ \A i \in 1 .. Len(watch') : watch'[i] = NoPod \/ Known(watch'[i])
    BY <1>1, <2>1, PutElements
  <2> QED BY <1>1, <1>2, <2>1, <2>2 DEF Living, Tending, Known, AllThere
<1>6. CASE ReceivePod
  <2>1. /\ 1 \in 1 .. Len(watch) /\ store' = watch[1] /\ store # NoPod
        /\ \A i \in 1 .. Len(watch') : watch'[i] = NoPod \/ Known(watch'[i])
        /\ pod = watch[Len(watch)] /\ Len(watch) \in 1 .. Len(watch)
    BY <1>1, <1>6, ReceivedElements
  <2>2. /\ store' = NoPod \/ Known(store')
        /\ pod' = NoPod \/ Known(pod')
        /\ Bound(store)
    BY <1>1, <1>2, <1>6, <2>1 DEF ReceivePod, Blank
  <2>3. UNCHANGED <<pod, taskVars, docker>> /\ store' = Head(watch)
    BY <1>6 DEF ReceivePod
  <2>4. \A i \in 1 .. Len(queue') :
          queue'[i].new = NoPod \/ (Bound(queue'[i].old) /\ Known(queue'[i].new))
    <3>1. CASE queue' = queue
      BY <1>1, <3>1
    <3>2. CASE queue' = Append(queue, [old |-> store, new |-> store'])
      <4>1. store' \in Pod \cup {NoPod}
        BY <1>1, <1>6, StepType DEF TypeInv, TypeOK, Next
      <4>2. /\ Len(queue') = Len(queue) + 1 /\ Len(queue) \in Nat
            /\ \A i \in 1 .. Len(queue) : queue'[i] = queue[i]
            /\ queue'[Len(queue) + 1].old = store /\ queue'[Len(queue) + 1].new = store'
        BY <1>1, <1>3, <3>2, <4>1, QueuedElements
      <4>3. \A i \in 1 .. Len(queue') : i \in 1 .. Len(queue) \/ i = Len(queue) + 1
        BY <4>2
      <4> QED BY <1>1, <2>2, <4>2, <4>3
    <3> QED BY <1>6, <2>3, <3>1, <3>2 DEF ReceivePod
  <2> QED BY <1>1, <1>2, <2>1, <2>2, <2>3, <2>4 DEF Living, Tending, Known, AllThere
<1>8. CASE DockerMoves
  <2>1. /\ UNCHANGED <<etcdVars, informerVars, taskVars>> /\ (sandbox' = "none" <=> sandbox = "none")
        /\ \A c \in Container :
              /\ box[c].st \in {"missing", "created", "ok", "failed"} => box'[c].st = box[c].st
              /\ box[c].st \notin {"missing", "created"} => box'[c].st \notin {"missing", "created"}
    BY <1>1, <1>8, DockerMove
  <2>2. AllThere' /\ \A c \in Container : box[c].st \in {"ok", "failed"} => box'[c].st = box[c].st
    BY <1>1, <2>1 DEF AllThere
  <2> QED BY <1>2, <2>1, <2>2, LivingAside
<1>9. CASE Manage
  <2>1. UNCHANGED <<informerVars, listed, worker, docker>>
    BY <1>9, ManageAt
  <2>2. CASE manager.at = "idle"
    <3>1. UNCHANGED etcdVars /\ manager'.at = "inspect"
      BY <1>9, <2>2, ManageAt
    <3> QED BY <1>1, <1>2, <2>1, <3>1 DEF Living, Tending, Known, AllThere
  <2>3. CASE manager.at = "inspect"
    <3>1. UNCHANGED etcdVars /\ Compare(Observed)
      BY <1>9, <2>3, ManageAt
    <3>2. manager'.at = "post" => Known(manager'.pod)
      <4>1. SUFFICES ASSUME manager'.at = "post" PROVE Known(manager'.pod)
        OBVIOUS
      <4>2. manager' = [at |-> "post", pod |-> [manager.pod EXCEPT !.status = Observed]]
        BY <3>1, <4>1 DEF Compare
      <4>3. manager.pod \in Pod /\ manager.pod.bound
        BY <1>1, <2>3, KubeletAssumption DEF Tasks, Bound, TypeInv, Shown
      <4>4. manager'.pod \in Pod /\ manager'.pod.bound /\ manager'.pod.status = Observed
        <5>1. [manager.pod EXCEPT !.status = Observed] \in Pod
          BY <1>3, <4>3, ObservedType, PodType
        <5>2. \A p \in Pod : \A s : /\ [p EXCEPT !.status = s].bound = p.bound
                                      /\ [p EXCEPT !.status = s].status = s
          BY DEF Pod
        <5> QED BY <4>2, <4>3, <5>1, <5>2, ZenonT(60)
      <4>5. \A c \in Container : Observed.box[c].st = box[c].st
        BY <1>1 DEF Observed, AllThere
      <4>6. Bound(manager'.pod)
        BY <4>4, KubeletAssumption DEF Bound
      <4> QED BY <1>1, <4>4, <4>5, <4>6 DEF Known, Told, AllThere, NoneFailed
    <3>3. UNCHANGED <<pod, watch>>
      BY <3>1
    <3> QED BY <1>1, <1>2, <2>1, <3>2, <3>3 DEF Living, Tending, Known, AllThere
  <2>4. CASE manager.at = "post"
    <3>1. PostStatus /\ manager'.at = "idle"
      BY <1>9, <2>4, ManageAt DEF PostStatus
    <3>2. CASE pod = NoPod
      <4>1. UNCHANGED etcdVars
        BY <3>1, <3>2 DEF PostStatus
      <4> QED BY <1>1, <1>2, <2>1, <3>1, <4>1 DEF Living, Tending, Known, AllThere
    <3>3. CASE pod # NoPod
      <4>1. PutPod(manager.pod) /\ manager.pod \in Pod
        BY <1>1, <2>4, <3>1, <3>3 DEF PostStatus, TypeInv, Shown
      <4>2. pod' = manager.pod /\ \A i \in 1 .. Len(watch') : watch'[i] = NoPod \/ Known(watch'[i])
        BY <1>1, <2>4, <4>1, PutElements
      <4>3. Known(pod')
        BY <1>1, <2>4, <4>2
      <4> QED BY <1>1, <1>2, <2>1, <3>1, <4>2, <4>3 DEF Living, Tending, Known, AllThere
    <3> QED BY <3>2, <3>3
  <2> QED BY <1>9, <2>2, <2>3, <2>4, ManageAt
<1>10. CASE TakeUpdate
  <2>1. /\ Head(queue) = queue[1] /\ 1 \in 1 .. Len(queue)
        /\ \A i \in 1 .. Len(queue') :
             queue'[i].new = NoPod \/ (Bound(queue'[i].old) /\ Known(queue'[i].new))
    BY <1>1, <1>10, TakenElements
  <2>2. Head(queue).new = NoPod \/ (Bound(Head(queue).old) /\ Known(Head(queue).new))
    BY <1>1, <2>1
  <2>3. /\ UNCHANGED <<etcdVars, store, listed, manager, docker>> /\ worker = Idle
    BY <1>10 DEF TakeUpdate
  <2>4. \A p, at : worker' = [Idle EXCEPT !.at = at, !.pod = p] => worker'.at = at /\ worker'.pod = p
    BY DEF Idle
  <2>5. \/ worker' = Idle
        \/ worker'.at = "unlist" /\ worker'.pod = Head(queue).new /\ Head(queue).new # NoPod
        \/ worker'.at = "drop"
    <3>1. ~(~Bound(Head(queue).old) /\ Bound(Head(queue).new))
      BY <2>2 DEF Bound
    <3> QED BY <1>10, <2>3, <2>4, <3>1, Zenon DEF TakeUpdate
  <2>6. Tending'
    <3>1. CASE worker' = Idle
      BY <3>1 DEF Tending, Idle
    <3>2. CASE worker'.at = "unlist" /\ worker'.pod = Head(queue).new /\ Head(queue).new # NoPod
      BY <1>2, <2>2, <2>3, <3>2 DEF Tending, Known
    <3>3. CASE worker'.at = "drop"
      BY <3>3 DEF Tending
    <3> QED BY <2>5, <3>1, <3>2, <3>3
  <2> QED BY <1>1, <1>2, <2>1, <2>3, <2>6 DEF Living, Tending, Known, AllThere
<1>11. ~HandleResync
  BY <1>1 DEF HandleResync, Watched
<1>12. CASE worker.at = "sandboxstart" /\ StartSandbox
  <2>1. Go("boxes") /\ sandbox' = "up" /\ UNCHANGED <<etcdVars, informerVars, manager, box>>
    BY <1>2, <1>12 DEF StartSandbox
  <2>2. Tending'
    BY <1>1, <1>3, <1>12, <2>1 DEF Tending
  <2> QED BY <1>2, <2>1, <2>2, LivingWork
<1>13. CASE worker.at = "boxes" /\ RepairBoxes
  <2>1. worker.todo = {} /\ Go("list") /\ UNCHANGED <<etcdVars, informerVars, manager, docker>>
    BY <1>1, <1>13 DEF RepairBoxes, Tending
  <2>2. Tending'
    BY <1>3, <2>1 DEF Tending
  <2> QED BY <1>2, <2>1, <2>2, LivingWork
<1>14. CASE worker.at = "list" /\ List
  <2>1. Tending'
    BY <1>14 DEF List, Tending, Idle
  <2> QED BY <1>2, <1>14, <2>1, LivingWork DEF List
<1>15. CASE worker.at = "unlist" /\ Unlist
  <2>1. worker' = [at |-> "inspect", pod |-> worker.pod, todo |-> worker.todo]
        /\ UNCHANGED <<etcdVars, informerVars, manager, docker>>
    BY <1>3, <1>15 DEF Unlist
  <2>2. worker'.at = "inspect" /\ worker'.pod = worker.pod
    BY <2>1
  <2>3. Tending'
    BY <1>1, <1>2, <1>15, <2>1, <2>2 DEF Tending, Known
  <2> QED BY <1>2, <2>1, <2>3, LivingWork
<1>16. CASE worker.at = "inspect" /\ InspectSandbox
  <2>1. Known(worker.pod)
    BY <1>1, <1>16 DEF Tending
  <2>2. {c \in Container : ShouldRestart(worker.pod.status.box[c])} = {}
    BY <1>3, <2>1 DEF Known, Told, ShouldRestart
  <2>3. /\ UNCHANGED <<etcdVars, informerVars, manager, docker>>
        /\ GoDo("sandboxstart", {}) \/ GoDo("boxes", {})
    BY <1>2, <1>16, <2>2 DEF InspectSandbox
  <2>4. worker'.at \in {"sandboxstart", "boxes"} /\ worker'.todo = {}
    <3>1. CASE GoDo("sandboxstart", {})
      <4>1. worker' = [at |-> "sandboxstart", pod |-> worker.pod, todo |-> {}]
        BY <1>3, <3>1, Zenon
      <4> QED BY <4>1
    <3>2. CASE GoDo("boxes", {})
      <4>1. worker' = [at |-> "boxes", pod |-> worker.pod, todo |-> {}]
        BY <1>3, <3>2, Zenon
      <4> QED BY <4>1
    <3> QED BY <2>3, <3>1, <3>2
  <2>5. Tending'
    BY <2>4 DEF Tending
  <2> QED BY <1>2, <2>3, <2>5, LivingWork
<1>17. CASE worker.at = "drop" /\ Drop
  <2>1. Go("remove") /\ UNCHANGED <<etcdVars, informerVars, manager, docker>>
    BY <1>17 DEF Drop
  <2>2. worker'.at = "remove"
    BY <1>3, <2>1
  <2>3. Tending'
    BY <2>2 DEF Tending
  <2> QED BY <1>2, <2>1, <2>3, LivingWork
<1>18. CASE worker.at = "remove" /\ RemovePod
  <2>1. store = NoPod /\ queue = <<>> /\ manager.at = "idle"
    BY <1>1, <1>18 DEF Tasks, Apart
  <2>2. \A c \in Container : box'[c].st = "missing"
    BY <1>3, <1>18 DEF RemovePod, Box
  <2>3. Over'
    BY <1>18, <2>1, <2>2, SMTT(30) DEF RemovePod, Idle, Over, AllMissing, OnlyEnds
  <2> QED BY <2>3
<1>19. CASE Work
  <2>1. worker.at \notin {"add", "sandbox", "addstart", "create", "start"}
    BY <1>3
  <2> QED BY <1>10, <1>11, <1>12, <1>13, <1>14, <1>15, <1>16, <1>17, <1>18, <1>19, <2>1, WorkAt
<1>20. CASE UNCHANGED vars
  BY <1>1, <1>2, <1>20, LivingAside DEF vars, AllThere
<1> QED BY <1>4, <1>5, <1>6, <1>8, <1>9, <1>19, <1>20 DEF MildNext
(* What a stage allows to be done to the containers: no policy but Always  *)
(* restarts one that a user has not stopped, and users stop none under     *)
(* OnFailure here.                                                         *)
LEMMA NoneFailedStays ==
  ASSUME Calm, [Next]_vars, Mild'
  PROVE  NoneFailed'
<1> USE DEF docker
<1>1. SUFFICES ASSUME world.policy = "OnFailure", NEW c \in Container PROVE box'[c].st # "failed"
  BY MildStep DEF Calm, NoneFailed
<1>2. /\ TypeInv /\ box \in [Container -> Box] /\ \A d \in Container : box[d].st # "failed"
      /\ worker.todo \in SUBSET Container
  BY <1>1 DEF Calm, TypeInv, TypeOK, NoneFailed
<1>3. ASSUME NEW d \in Container, Exit(d) PROVE box'[c].st # "failed"
  <2>1. SetBox(d, "restarting") \/ SetBox(d, "ok")
    BY <1>1, <1>3 DEF Exit
  <2> QED BY <1>2, <2>1 DEF SetBox, Box
<1>4. ASSUME NEW d \in Container, DockerRestart(d) PROVE box'[c].st # "failed"
  <2>1. box' = [box EXCEPT ![d].st = "running", ![d].rc = box[d].rc + 1]
    BY <1>2, <1>4 DEF DockerRestart
  <2> QED BY <1>2, <2>1, RunningBox
<1>5. ASSUME NEW d \in Container, Create(d) \/ Start(d) PROVE box'[c].st # "failed"
  <2>1. CASE box' = box
    BY <1>2, <2>1
  <2>2. CASE box' = [box EXCEPT ![d] = [st |-> "created", id |-> @.id + 1, rc |-> 0]]
    <3>1. box'[d] = [st |-> "created", id |-> box[d].id + 1, rc |-> 0]
          /\ (c # d => box'[c] = box[c])
      BY <1>2, <2>2
    <3>2. box'[d].st = "created"
      BY <3>1
    <3> QED BY <1>2, <3>1, <3>2
  <2>3. CASE box' = [box EXCEPT ![d].st = "running", ![d].rc = 0]
    BY <1>2, <2>3, RunningBox
  <2> QED BY <1>5, <2>1, <2>2, <2>3 DEF Create, Start
<1>6. CASE box' = Cleared
  BY <1>2, <1>6 DEF Cleared, Box
<1>7. CASE RemovePod
  BY <1>2, <1>7 DEF RemovePod, Box
<1>8. CASE box' = box
  BY <1>2, <1>8
<1>9. CASE Work
  <2>1. CASE CreateBoxes \/ StartBoxes \/ RepairBoxes
    BY <1>2, <1>5, <1>8, <2>1 DEF CreateBoxes, StartBoxes, RepairBoxes
  <2>2. CASE InspectSandbox
    BY <1>6, <1>8, <2>2 DEF InspectSandbox
  <2>3. CASE TakeUpdate \/ HandleResync \/ CreateSandbox \/ StartSandbox \/ List \/ Unlist \/ Drop
    BY <1>8, <2>3 DEF TakeUpdate, HandleResync, CreateSandbox, StartSandbox, List, Unlist, Drop
  <2> QED BY <1>7, <1>9, <2>1, <2>2, <2>3 DEF Work
<1>10. CASE DockerMoves /\ env'["stop"] = env["stop"]
  <2>1. ASSUME NEW d \in Container, Stop(d) PROVE FALSE
    BY <1>2, <1>10, <2>1 DEF Stop, Disturb, TypeInv, TypeOK, Disturbance
  <2>2. StopSandbox => box' = box
    BY DEF StopSandbox
  <2> QED BY <1>3, <1>4, <1>8, <1>10, <2>1, <2>2 DEF DockerMoves
<1>11. CASE Bind \/ DeletePod \/ ReceivePod \/ Manage \/ UNCHANGED vars
  BY <1>8, <1>11, ManageAt DEF Bind, DeletePod, ReceivePod, vars
<1> QED
  <2>1. world.policy # "Never"
    BY <1>1
  <2>2. Mild => Watched
    BY DEF Calm
  <2> QED BY <1>2, <1>9, <1>10, <1>11, <2>1, <2>2, MildStep

(* The watch that is there at first is not lost.                           *)
LEMMA WatchedStays ==
  ASSUME Calm, MildNext
  PROVE  Watched'
<1>1. Watched
  BY DEF Calm
<1>2. CASE Bind \/ DeletePod \/ ReceivePod \/ DockerMoves \/ UNCHANGED vars
  <2>1. TypeInv
    BY DEF Calm
  <2>2. UNCHANGED <<link, resync>>
    BY <1>2, <2>1, DockerMove DEF Bind, DeletePod, ReceivePod, informerVars, vars
  <2>3. missed' = missed \/ missed' = (link # "watch")
    BY <1>2, <2>1, DockerMove, Zenon DEF Bind, DeletePod, ReceivePod, PutPod, etcdVars, vars
  <2>4. ~missed /\ link = "watch" /\ ~resync
    BY <1>1 DEF Watched
  <2>5. ~missed'
    <3>1. CASE missed' = missed
      BY <2>4, <3>1, Zenon
    <3>2. CASE missed' = (link # "watch")
      BY <2>4, <3>2
    <3> QED BY <2>3, <3>1, <3>2
  <2>6. ~resync'
    BY <2>2, <2>4, Zenon
  <2> QED BY <2>2, <2>4, <2>5, <2>6 DEF Watched
<1>3. CASE Manage
  <2>1. UNCHANGED <<link, resync>>
    BY <1>3, ManageAt DEF informerVars
  <2>2. missed' = missed \/ missed' = (link # "watch")
    BY <1>3, ManageAt, Zenon DEF PostStatus, PutPod, etcdVars
  <2>4. ~missed /\ link = "watch" /\ ~resync
    BY <1>1 DEF Watched
  <2>5. ~missed'
    <3>1. CASE missed' = missed
      BY <2>4, <3>1, Zenon
    <3>2. CASE missed' = (link # "watch")
      BY <2>4, <3>2
    <3> QED BY <2>2, <3>1, <3>2
  <2>6. ~resync'
    BY <2>1, <2>4, Zenon
  <2> QED BY <2>1, <2>4, <2>5, <2>6 DEF Watched
<1>4. CASE Work
  <2>1. ~HandleResync
    BY <1>1 DEF HandleResync, Watched
  <2>2. UNCHANGED <<link, resync, missed>>
    BY <1>4, <2>1 DEF Work, TakeUpdate, CreateSandbox, StartSandbox, CreateBoxes, StartBoxes, List,
       Unlist, InspectSandbox, RepairBoxes, Drop, RemovePod, informerVars, etcdVars
  <2> QED BY <1>1, <2>2 DEF Watched
<1> QED BY <1>2, <1>3, <1>4 DEF MildNext

LEMMA StepLife == ASSUME TypeInv, Inv, News, LifeInv, [Next]_vars PROVE LifeInv'
<1> SUFFICES ASSUME Mild' PROVE Watched' /\ Life' /\ NoneFailed'
  BY DEF LifeInv
<1>0. Mild => Watched
  BY DEF LifeInv
<1>1. Mild /\ MildNext
  BY <1>0, MildStep, Zenon DEF MildNext
<1>2. Calm /\ Life
  BY <1>1 DEF Calm, LifeInv
<1>3. NoneFailed' /\ Watched'
  BY <1>1, <1>2, NoneFailedStays, WatchedStays
<1> QED
  BY <1>1, <1>2, <1>3, FromWaiting, FromToldToStart, FromStarting, FromLiving, FromOver DEF Life

LEMMA InitLife == Init => LifeInv
<1> SUFFICES ASSUME Init PROVE Watched /\ Life /\ NoneFailed
  BY DEF LifeInv
<1>1. pod \in Pod
  BY Boxes, PodType DEF Init
<1>2. Waiting
  <2>1. store.status = NoStatus /\ ~store.bound /\ store # NoPod
    BY <1>1, KubeletAssumption DEF Init
  <2>2. NothingThere /\ watch = <<>>
    BY DEF Init, NothingThere, Missing
  <2> QED BY <2>1, <2>2 DEF Waiting, Unbound
<1>3. Watched
  BY DEF Init, Watched
<1> QED BY <1>2, <1>3 DEF Life, Init, NoneFailed, Missing

(* A phase is what the states of the containers make of it; it is          *)
(* Succeeded where all that is there has ended well.                       *)
LEMMA SucceededPhase ==
  ASSUME world.policy \in {"Always", "OnFailure", "Never"}, NEW status, Phase(status) = "Succeeded"
  PROVE  /\ world.policy # "Always"
         /\ \E c \in Container : status.box[c].st = "ok"
         /\ \A c \in Container :
              status.box[c].st \notin {"created", "restarting", "running", "failed"}
<1> DEFINE in(sts) == {c \in Container : status.box[c].st \in sts}
<1>1. Phase(status) =
        CASE in({"created", "restarting"}) # {} -> "Pending"
          [] in({"created", "restarting"}) = {} /\ in({"running"}) # {} -> "Running"
          [] in({"created", "restarting", "running"}) = {} ->
               CASE in({"ok", "failed"}) = {} -> "Pending"
                 [] in({"ok", "failed"}) # {} /\ world.policy = "Always" -> "Running"
                 [] world.policy # "Always" /\ in({"ok"}) # {} /\ in({"failed"}) = {} -> "Succeeded"
                 [] world.policy = "Never" /\ in({"failed"}) # {} -> "Failed"
                 [] world.policy = "OnFailure" /\ in({"failed"}) # {} -> "Running"
  BY DEF Phase
<1>2. in({"created", "restarting", "running"}) = in({"created", "restarting"}) \cup in({"running"})
      /\ in({"ok", "failed"}) = in({"ok"}) \cup in({"failed"})
  OBVIOUS
<1> HIDE DEF in
<1>3. in({"created", "restarting"}) = {} /\ in({"running"}) = {}
  BY <1>1, <1>2
<1>4. CASE world.policy = "Always"
  BY <1>1, <1>2, <1>3, <1>4
<1>5. CASE world.policy # "Always"
  <2>1. in({"ok"}) # {} /\ in({"failed"}) = {}
    BY <1>1, <1>2, <1>3, <1>5
  <2> QED BY <1>3, <1>5, <2>1 DEF in
<1> QED BY <1>4, <1>5

(* What has ended stays ended, however late what the kubelet knows is.     *)
(* The status a repair goes by may be old, but it only tells of ends that  *)
(* have happened, and no policy that lets containers end has one that      *)
(* ended well restarted; the containers that are started are those the     *)
(* worker has just created.                                                *)
THEOREM EndedForGood == Spec => EndedStaysEnded
<1> DEFINE All == TypeInv /\ Inv /\ News /\ LifeInv
<1>1. Init => All
  BY InitType, InitApart, InitNews, InitLife
<1>2. All /\ [Next]_vars => All'
  BY StepType, StepApart, StepNews, StepLife
<1>3. ASSUME All, [Next]_vars, Mild, NEW c \in Container, box[c].st \in {"ok", "failed"}
      PROVE  box'[c].st # "running"
  <2> USE DEF docker
  <2>1. /\ TypeInv /\ Life /\ box \in [Container -> Box] /\ worker.todo \in SUBSET Container
    BY <1>3 DEF LifeInv, TypeInv, TypeOK
  <2>2. worker.at \in {"start", "boxes"} => c \notin worker.todo
    BY <1>3, <2>1 DEF Life, Waiting, ToldToStart, Starting, Begun, Living, Over,
       Untouched, News, Idle, NothingThere
  <2>3. CASE box'[c] = box[c]
    BY <1>3, <2>3
  <2>4. ASSUME NEW d \in Container, d # c, Create(d) \/ Start(d) PROVE box'[c] = box[c]
    BY <2>1, <2>4 DEF Create, Start
  <2>5. ASSUME NEW d \in Container, Exit(d) \/ DockerRestart(d) \/ Stop(d) \/ Remove(d)
        PROVE  box'[c].st # "running"
    BY <1>3, <2>1, <2>5 DEF Exit, DockerRestart, Stop, Remove, SetBox, Box
  <2>6. CASE \E d \in worker.todo : worker.at = "create" /\ Create(d)
    <3>1. PICK d \in Container : Create(d)
      BY <2>1, <2>6
    <3> QED BY <1>3, <2>1, <3>1 DEF Create
  <2>7. CASE box' = Cleared \/ RemovePod
    BY <1>3, <2>1, <2>7 DEF Cleared, RemovePod, Box
  <2>8. CASE WorkerFails
    BY <1>3, <2>1, <2>7, <2>8 DEF WorkerFails, Box
  <2>9. CASE CreateBoxes
    BY <2>3, <2>6, <2>9 DEF CreateBoxes
  <2>10. CASE StartBoxes \/ RepairBoxes
    BY <2>1, <2>2, <2>3, <2>4, <2>10 DEF StartBoxes, RepairBoxes
  <2>11. CASE InspectSandbox
    BY <2>3, <2>7, <2>11 DEF InspectSandbox
  <2>12. CASE TakeUpdate \/ HandleResync \/ CreateSandbox \/ StartSandbox \/ List \/ Unlist \/ Drop
    BY <2>3, <2>12 DEF TakeUpdate, HandleResync, CreateSandbox, StartSandbox, List, Unlist, Drop
  <2>13. CASE \/ Bind \/ DeletePod \/ ReceivePod \/ LoseWatch \/ ListPods \/ Connect \/ Crash
              \/ Manage \/ ManagerFails \/ StopSandbox \/ RemoveSandbox \/ UNCHANGED vars
    BY <2>3, <2>13, ManageAt DEF Bind, DeletePod, ReceivePod, LoseWatch, ListPods, Connect, Crash,
       ManagerFails, StopSandbox, RemoveSandbox, vars
  <2> QED BY <1>3, <2>5, <2>7, <2>8, <2>9, <2>10, <2>11, <2>12, <2>13 DEF Next, Work
<1>4. ASSUME All, Undisturbed, Succeeded, world.policy = "Never" \/ env["stop"] = 0
      PROVE  Mild /\ \A c \in Container : box[c].st = "ok"
  <2>1. world.policy \in {"Always", "OnFailure", "Never"} /\ pod # NoPod
    BY <1>4, KubeletAssumption DEF TypeInv, TypeOK, World, Succeeded
  <2>2. /\ world.policy # "Always"
        /\ \E c \in Container : pod.status.box[c].st = "ok"
        /\ \A c \in Container :
              pod.status.box[c].st \notin {"created", "restarting", "running", "failed"}
    BY <1>4, <2>1, SucceededPhase DEF Succeeded
  <2>3. Mild /\ Watched /\ Life
    BY <1>4, <2>1, <2>2 DEF Mild, LifeInv
  <2>4. ~Blank(pod)
    BY <2>2 DEF Blank, NoStatus, Missing
  <2>5. ~Waiting
    <3>1. SUFFICES ASSUME Waiting PROVE FALSE
      OBVIOUS
    <3>2. watch # <<>> => Len(watch) \in 1 .. Len(watch)
      BY <1>4, LenProperties, EmptySeq DEF TypeInv, TypeOK
    <3>3. pod = store
      BY <1>4, <2>1, <2>3, <2>4, <3>1, <3>2 DEF News, Line, Waiting, Unbound, Watched
    <3> QED BY <2>2, <3>1, <3>3 DEF Waiting, NoStatus, Missing
  <2>6. Living
    BY <1>4, <2>1, <2>3, <2>4, <2>5 DEF Life, ToldToStart, Starting, Over, NoMore, News, Line, Watched
  <2>7. Known(pod)
    BY <2>1, <2>4, <2>6 DEF Living
  <2>8. \A c \in Container : pod.status.box[c].st = "ok"
    <3>1. \A c \in Container : pod.status.box[c] \in Box
      BY <1>4, <2>1 DEF TypeInv, TypeOK, Pod, Status
    <3> QED BY <2>2, <2>7, <3>1 DEF Known, Told, Box, State
  <2> QED BY <2>3, <2>7, <2>8 DEF Known, Told
<1>5. All /\ [Next]_vars => [Undisturbed =>
      /\ world.policy = "Never" =>
           \A c \in Container :
             (box[c].st \in {"ok", "failed"} /\ box'[c].st = "running")
               => box'[c].id # box[c].id
      /\ Succeeded /\ (world.policy = "Never" \/ env["stop"] = 0)
           => NoneRestarted]_vars
  BY <1>3, <1>4 DEF NoneRestarted, Mild
<1> QED BY <1>1, <1>2, <1>5, PTL DEF Spec, EndedStaysEnded

-------------------------------------------------------------------------------
(* The locks of KubeletLocks: facts about what is left of a program, each  *)
(* of which survives when its first step has been taken.                   *)

(* A lock that is asked for is freed before it is asked for again.         *)
Guarded(p) ==
  \A i \in 1 .. Len(p) : p[i].op \in {"read", "write"} =>
    \E k \in i + 1 .. Len(p) :
      /\ p[k] = [op |-> "free", on |-> p[i].on]
      /\ \A j \in i + 1 .. k - 1 : p[j].on # p[i].on

(* The reflector takes one lock only, and tells of one event or resync.    *)
OfReflector(p) ==
  /\ \A i \in 1 .. Len(p) : /\ p[i].on \in {"store", "informer"} /\ p[i].op # "read"
                            /\ p[i].op = "resync" => i = Len(p)
  /\ \A i, j \in 1 .. Len(p) : p[i] = Notify[1] /\ p[j] = Notify[1] => i = j

(* The manager frees the store at once.                                    *)
OfManager(p) ==
  \A i \in 1 .. Len(p) :
    /\ p[i].op \in {"read", "free"}
    /\ p[i] = [op |-> "free", on |-> "store"] /\ i > 1
         => p[i - 1] = [op |-> "read", on |-> "store"]

(* An update takes the lock of the list only.                              *)
OfUpdate(p) == \A i \in 1 .. Len(p) : p[i].op \in {"read", "write", "free"} /\ p[i].on = "pods"

(* A resync reads the store, writes the list, sends an update for each     *)
(* pod and frees both.                                                     *)
Left(p, i) == Len(p) - i + 1
OfResync(p) ==
  /\ Len(p) <= PodCount + 4
  /\ \A i \in 1 .. Len(p) :
       /\ p[i].op \in {"read", "write", "free", "send"}
       /\ p[i].op = "send" <=> Left(p, i) \in 3 .. PodCount + 2
       /\ p[i].on = "store" => p[i].op \in {"read", "free"}

(* How many updates a resync has sent that has as many steps left.         *)
SentBefore(left) == IF left > PodCount + 2 THEN 0
                    ELSE IF left >= 3 THEN PodCount + 2 - left ELSE PodCount

Programs ==
  /\ todo \in [Task -> Seq(Op)]
  /\ \A t \in Task : Guarded(todo[t])
  /\ OfReflector(todo["reflector"])
  /\ OfManager(todo["manager"])
  /\ notifs \in Nat /\ inbox \in Nat /\ relists \in Nat

(* Events: no resync comes.                                                *)
EventsOnly ==
  /\ "relists" \notin happens
  /\ \A i \in 1 .. Len(todo["reflector"]) : todo["reflector"][i].op # "resync"
  /\ ~resyncs
  /\ OfUpdate(todo["worker"])

(* One relist: the reflector is at it, a resync waits, the worker resyncs, *)
(* and then does the updates.                                              *)
RelistedOnce ==
  /\ "events" \notin happens /\ notifs = 0 /\ ~hand
  /\ \A i \in 1 .. Len(todo["reflector"]) : todo["reflector"][i].op # "notify"
  /\ relists = 0 => todo["reflector"] = <<>>
  /\ \/ inbox = 0 /\ ~resyncs /\ todo["worker"] = <<>>
     \/ relists # 0 /\ todo["reflector"] = <<>> /\ resyncs /\ inbox = 0 /\ todo["worker"] = <<>>
     \/ /\ relists # 0 /\ todo["reflector"] = <<>> /\ ~resyncs
        /\ OfResync(todo["worker"]) /\ inbox = SentBefore(Len(todo["worker"]))
     \/ relists # 0 /\ todo["reflector"] = <<>> /\ ~resyncs /\ OfUpdate(todo["worker"])

(* What a task asks for is the next it has to do; it asks once.            *)
Asked ==
  /\ waiting \in [Lock -> Seq(Claim)]
  /\ \A l \in Lock :
       /\ \A i \in 1 .. Len(waiting[l]) :
            /\ todo[waiting[l][i][1]] # <<>>
            /\ Head(todo[waiting[l][i][1]]) = [op |-> waiting[l][i][2], on |-> l]
       /\ \A i, j \in 1 .. Len(waiting[l]) : waiting[l][i][1] = waiting[l][j][1] => i = j

(* The next that a program does to a lock is to free it.                   *)
Holding(p, l) ==
  \E i \in 1 .. Len(p) : /\ p[i] = [op |-> "free", on |-> l]
                         /\ \A j \in 1 .. i - 1 : p[j].on # l

(* Worker and manager only read the store.                                 *)
Granted ==
  /\ held \in [Lock -> SUBSET Claim]
  /\ \A l \in Lock : \A c \in held[l] :
       /\ Holding(todo[c[1]], l)
       /\ l = "store" /\ c[1] # "reflector" => c[2] = "read"

LocksInv == Programs /\ (EventsOnly \/ RelistedOnce) /\ Asked /\ Granted

-------------------------------------------------------------------------------
(* Sequences and programs.                                                 *)

LEMMA TailShift ==
  ASSUME NEW p \in Seq(Op), p # <<>>
  PROVE  /\ Head(p) \in Op /\ Head(p) = p[1]
         /\ Tail(p) \in Seq(Op)
         /\ Len(p) \in Nat \ {0} /\ Len(Tail(p)) = Len(p) - 1
         /\ \A i \in 1 .. Len(Tail(p)) : Tail(p)[i] = p[i + 1] /\ i + 1 \in 1 .. Len(p)
BY HeadTailProperties

LEMMA OpForms ==
  ASSUME NEW o \in Op
  PROVE  /\ o = [op |-> o.op, on |-> o.on]
         /\ o.op \in {"read", "write", "free"} => o.on \in Lock
         /\ o.op = "send" => o.on = "queue"
         /\ o.op \in {"notify", "resync"} => o.on = "informer"
         /\ o.op \in {"read", "write", "free", "send", "notify", "resync"}
BY DEF Op

LEMMA GuardedTail ==
  ASSUME NEW p \in Seq(Op), p # <<>>, Guarded(p)
  PROVE  Guarded(Tail(p))
<1> DEFINE q == Tail(p)
<1>0. /\ Len(p) \in Nat \ {0} /\ Len(q) = Len(p) - 1
      /\ \A i \in 1 .. Len(q) : q[i] = p[i + 1] /\ i + 1 \in 1 .. Len(p)
  BY TailShift
<1> HIDE DEF q
<1>1. SUFFICES ASSUME NEW i \in 1 .. Len(q), q[i].op \in {"read", "write"}
               PROVE  \E k \in i + 1 .. Len(q) :
                        /\ q[k] = [op |-> "free", on |-> q[i].on]
                        /\ \A j \in i + 1 .. k - 1 : q[j].on # q[i].on
  BY DEF Guarded, q
<1>2. q[i] = p[i + 1] /\ i + 1 \in 1 .. Len(p)
  BY <1>0
<1>3. PICK k \in (i + 1) + 1 .. Len(p) :
        /\ p[k] = [op |-> "free", on |-> p[i + 1].on]
        /\ \A j \in (i + 1) + 1 .. k - 1 : p[j].on # p[i + 1].on
  BY <1>1, <1>2 DEF Guarded
<1>4. k - 1 \in i + 1 .. Len(q) /\ k - 1 \in 1 .. Len(q) /\ (k - 1) + 1 = k
  BY <1>0, <1>3
<1>5. q[k - 1] = p[k]
  BY <1>0, <1>4
<1>6. ASSUME NEW j \in i + 1 .. (k - 1) - 1 PROVE q[j].on # q[i].on
  <2>1. j \in 1 .. Len(q) /\ j + 1 \in (i + 1) + 1 .. k - 1
    BY <1>0, <1>3, <1>4
  <2> QED BY <1>0, <1>2, <1>3, <2>1
<1> QED BY <1>2, <1>3, <1>4, <1>5, <1>6

LEMMA ReflectorTail ==
  ASSUME NEW p \in Seq(Op), p # <<>>, OfReflector(p)
  PROVE  OfReflector(Tail(p))
<1> DEFINE q == Tail(p)
<1>1. /\ Len(p) \in Nat \ {0} /\ Len(q) = Len(p) - 1
      /\ \A i \in 1 .. Len(q) : q[i] = p[i + 1] /\ i + 1 \in 1 .. Len(p)
  BY TailShift
<1> HIDE DEF q
<1>2. ASSUME NEW i \in 1 .. Len(q)
      PROVE  /\ q[i].on \in {"store", "informer"} /\ q[i].op # "read"
             /\ q[i].op = "resync" => i = Len(q)
  <2>1. q[i] = p[i + 1] /\ i + 1 \in 1 .. Len(p)
    BY <1>1
  <2>2. /\ p[i + 1].on \in {"store", "informer"} /\ p[i + 1].op # "read"
        /\ p[i + 1].op = "resync" => i + 1 = Len(p)
    BY <2>1 DEF OfReflector
  <2> QED BY <1>1, <2>1, <2>2
<1>3. ASSUME NEW i \in 1 .. Len(q), NEW j \in 1 .. Len(q), q[i] = Notify[1], q[j] = Notify[1]
      PROVE  i = j
  <2>1. /\ p[i + 1] = Notify[1] /\ p[j + 1] = Notify[1]
        /\ i + 1 \in 1 .. Len(p) /\ j + 1 \in 1 .. Len(p)
    BY <1>1, <1>3
  <2>2. i + 1 = j + 1
    BY <2>1 DEF OfReflector
  <2> QED BY <2>2
<1>4. OfReflector(q)
  BY <1>2, <1>3 DEF OfReflector
<1> QED BY <1>4 DEF q

LEMMA ManagerTail ==
  ASSUME NEW p \in Seq(Op), p # <<>>, OfManager(p)
  PROVE  OfManager(Tail(p))
<1> DEFINE q == Tail(p)
<1>0. /\ Len(p) \in Nat \ {0} /\ Len(q) = Len(p) - 1
      /\ \A i \in 1 .. Len(q) : q[i] = p[i + 1] /\ i + 1 \in 1 .. Len(p)
  BY TailShift
<1> HIDE DEF q
<1>1. SUFFICES ASSUME NEW i \in 1 .. Len(q)
               PROVE  /\ q[i].op \in {"read", "free"}
                      /\ q[i] = [op |-> "free", on |-> "store"] /\ i > 1
                           => q[i - 1] = [op |-> "read", on |-> "store"]
  BY DEF OfManager, q
<1>2. q[i] = p[i + 1] /\ i + 1 \in 1 .. Len(p) /\ i + 1 > 1 /\ (i + 1) - 1 = i
  BY <1>0
<1>3. i > 1 => i - 1 \in 1 .. Len(q) /\ (i - 1) + 1 = i
  BY <1>0
<1>4. i > 1 => q[i - 1] = p[i]
  BY <1>0, <1>3
<1> QED BY <1>2, <1>4 DEF OfManager

LEMMA UpdateTail ==
  ASSUME NEW p \in Seq(Op), p # <<>>, OfUpdate(p)
  PROVE  OfUpdate(Tail(p))
BY TailShift DEF OfUpdate

LEMMA ResyncTail ==
  ASSUME NEW p \in Seq(Op), p # <<>>, OfResync(p)
  PROVE  OfResync(Tail(p))
<1> DEFINE q == Tail(p)
<1>0. /\ Len(p) \in Nat \ {0} /\ Len(q) = Len(p) - 1
      /\ \A i \in 1 .. Len(q) : q[i] = p[i + 1] /\ i + 1 \in 1 .. Len(p)
  BY TailShift
<1> HIDE DEF q
<1>1. ASSUME NEW i \in 1 .. Len(q) PROVE Left(q, i) = Left(p, i + 1)
  BY <1>0 DEF Left
<1>2. Len(q) <= PodCount + 4
  BY <1>0, KubeletLocksAssumption DEF OfResync
<1> QED BY <1>0, <1>1, <1>2 DEF OfResync, q

(* A task that holds a lock holds it until it frees it, and one that is    *)
(* granted it holds it.                                                    *)
LEMMA StillHolding ==
  ASSUME NEW p \in Seq(Op), p # <<>>, NEW l \in Lock, Holding(p, l),
         Head(p) # [op |-> "free", on |-> l]
  PROVE  Holding(Tail(p), l)
<1> DEFINE q == Tail(p)
<1>0. /\ Len(p) \in Nat \ {0} /\ Len(q) = Len(p) - 1 /\ Head(p) = p[1]
      /\ \A i \in 1 .. Len(q) : q[i] = p[i + 1] /\ i + 1 \in 1 .. Len(p)
  BY TailShift
<1> HIDE DEF q
<1>1. PICK i \in 1 .. Len(p) : /\ p[i] = [op |-> "free", on |-> l]
                               /\ \A j \in 1 .. i - 1 : p[j].on # l
  BY DEF Holding
<1>2. i # 1
  BY <1>0, <1>1
<1>3. i - 1 \in 1 .. Len(q) /\ (i - 1) + 1 = i
  BY <1>0, <1>2
<1>4. q[i - 1] = p[i]
  BY <1>0, <1>3
<1>5. ASSUME NEW j \in 1 .. (i - 1) - 1 PROVE q[j].on # l
  <2>1. j \in 1 .. Len(q) /\ j + 1 \in 1 .. i - 1
    BY <1>0, <1>3
  <2> QED BY <1>0, <1>1, <2>1
<1> QED BY <1>1, <1>3, <1>4, <1>5 DEF Holding, q

LEMMA NowHolding ==
  ASSUME NEW p \in Seq(Op), p # <<>>, Guarded(p), NEW l \in Lock,
         Head(p).op \in {"read", "write"}, Head(p).on = l
  PROVE  Holding(Tail(p), l)
<1> DEFINE q == Tail(p)
<1>0. /\ Len(p) \in Nat \ {0} /\ Len(q) = Len(p) - 1 /\ Head(p) = p[1]
      /\ \A i \in 1 .. Len(q) : q[i] = p[i + 1] /\ i + 1 \in 1 .. Len(p)
  BY TailShift
<1> HIDE DEF q
<1>1. 1 \in 1 .. Len(p) /\ 1 + 1 = 2
  BY <1>0
<1>2. PICK k \in 2 .. Len(p) : /\ p[k] = [op |-> "free", on |-> l]
                               /\ \A j \in 2 .. k - 1 : p[j].on # l
  BY <1>0, <1>1 DEF Guarded
<1>3. k - 1 \in 1 .. Len(q) /\ (k - 1) + 1 = k
  BY <1>0, <1>2
<1>4. q[k - 1] = p[k]
  BY <1>0, <1>3
<1>5. ASSUME NEW j \in 1 .. (k - 1) - 1 PROVE q[j].on # l
  <2>1. j \in 1 .. Len(q) /\ j + 1 \in 2 .. k - 1
    BY <1>0, <1>3
  <2> QED BY <1>0, <1>2, <2>1
<1> QED BY <1>2, <1>3, <1>4, <1>5 DEF Holding, q

(* A task that is about to ask for a lock, or has nothing to do, does not  *)
(* hold it.                                                                *)
LEMMA NotYetHolding ==
  ASSUME NEW p \in Seq(Op), NEW l \in Lock, Holding(p, l)
  PROVE  p # <<>> /\ (Head(p).on = l => Head(p).op = "free")
<1>1. PICK i \in 1 .. Len(p) : /\ p[i] = [op |-> "free", on |-> l]
                               /\ \A j \in 1 .. i - 1 : p[j].on # l
  BY DEF Holding
<1>2. p # <<>>
  BY <1>1
<1>3. Head(p) = p[1] /\ Len(p) \in Nat
  BY <1>2, TailShift
<1>4. i = 1 \/ 1 \in 1 .. i - 1
  BY <1>1, <1>3
<1> QED BY <1>1, <1>2, <1>3, <1>4

-------------------------------------------------------------------------------
(* The programs.                                                           *)

LEMMA OneStep ==
  ASSUME NEW o \in Op
  PROVE  <<o>> \in Seq(Op) /\ Len(<<o>>) = 1 /\ <<o>>[1] = o
OBVIOUS

LEMMA Steps ==
  ASSUME NEW l \in Lock
  PROVE  /\ [op |-> "read", on |-> l] \in Op
         /\ [op |-> "write", on |-> l] \in Op
         /\ [op |-> "free", on |-> l] \in Op
         /\ Send[1] = [op |-> "send", on |-> "queue"] /\ Send[1] \in Op
         /\ Notify[1] = [op |-> "notify", on |-> "informer"] /\ Notify[1] \in Op
         /\ Resync[1] = [op |-> "resync", on |-> "informer"] /\ Resync[1] \in Op
BY DEF Op, Send, Notify, Resync

LEMMA Joined ==
  ASSUME NEW p \in Seq(Op), NEW q \in Seq(Op)
  PROVE  /\ p \o q \in Seq(Op)
         /\ Len(p) \in Nat /\ Len(q) \in Nat /\ Len(p \o q) = Len(p) + Len(q)
         /\ \A i \in 1 .. Len(p) : (p \o q)[i] = p[i]
         /\ \A i \in 1 .. Len(q) : (p \o q)[Len(p) + i] = q[i]
BY ConcatProperties

LEMMA TwoSteps ==
  ASSUME NEW a \in Op, NEW b \in Op
  PROVE  /\ <<a>> \o <<b>> \in Seq(Op) /\ Len(<<a>> \o <<b>>) = 2
         /\ (<<a>> \o <<b>>)[1] = a /\ (<<a>> \o <<b>>)[2] = b
<1>1. <<a>> \in Seq(Op) /\ <<b>> \in Seq(Op) /\ Len(<<a>>) = 1 /\ Len(<<b>>) = 1
      /\ <<a>>[1] = a /\ <<b>>[1] = b
  BY OneStep
<1>2. 1 \in 1 .. Len(<<a>>) /\ 1 \in 1 .. Len(<<b>>) /\ 1 + 1 = 2
  BY <1>1
<1> QED BY <1>1, <1>2, Joined

LEMMA ThreeSteps ==
  ASSUME NEW a \in Op, NEW b \in Op, NEW c \in Op
  PROVE  LET p == <<a>> \o <<b>> \o <<c>> IN
         p \in Seq(Op) /\ Len(p) = 3 /\ p[1] = a /\ p[2] = b /\ p[3] = c
<1> DEFINE ab == <<a>> \o <<b>>
<1>1. ab \in Seq(Op) /\ Len(ab) = 2 /\ ab[1] = a /\ ab[2] = b
  BY TwoSteps
<1>2. <<c>> \in Seq(Op) /\ Len(<<c>>) = 1 /\ <<c>>[1] = c
  BY OneStep
<1> HIDE DEF ab
<1>3. 1 \in 1 .. Len(ab) /\ 2 \in 1 .. Len(ab) /\ 1 \in 1 .. Len(<<c>>) /\ 2 + 1 = 3
  BY <1>1, <1>2
<1>4. LET p == ab \o <<c>> IN
      p \in Seq(Op) /\ Len(p) = 3 /\ p[1] = a /\ p[2] = b /\ p[3] = c
  BY <1>1, <1>2, <1>3, Joined
<1> QED BY <1>4 DEF ab

LEMMA Locks == "store" \in Lock /\ "pods" \in Lock
BY DEF Lock

(* What the reflector runs.                                                *)
LEMMA EventShape ==
  /\ Event \in Seq(Op) /\ Len(Event) = 3
  /\ Event[1] = [op |-> "write", on |-> "store"]
  /\ Event[2] = [op |-> "notify", on |-> "informer"]
  /\ Event[3] = [op |-> "free", on |-> "store"]
<1> DEFINE a == [op |-> "write", on |-> "store"]
           b == [op |-> "notify", on |-> "informer"]
           c == [op |-> "free", on |-> "store"]
<1>1. a \in Op /\ b \in Op /\ c \in Op
  BY Steps, Locks
<1>2. Event = <<a>> \o <<b>> \o <<c>>
  BY DEF Event, WriteLock, Notify, Unlock
<1> HIDE DEF a, b, c
<1>3. LET p == <<a>> \o <<b>> \o <<c>> IN
      p \in Seq(Op) /\ Len(p) = 3 /\ p[1] = a /\ p[2] = b /\ p[3] = c
  BY <1>1, ThreeSteps
<1> QED BY <1>2, <1>3 DEF a, b, c

LEMMA NewStoreShape ==
  /\ NewStore \in Seq(Op) /\ Len(NewStore) = 2
  /\ NewStore[1] = [op |-> "write", on |-> "store"]
  /\ NewStore[2] = [op |-> "free", on |-> "store"]
<1> DEFINE a == [op |-> "write", on |-> "store"]
           c == [op |-> "free", on |-> "store"]
<1>1. a \in Op /\ c \in Op
  BY Steps, Locks
<1>2. NewStore = <<a>> \o <<c>>
  BY DEF NewStore, WriteLock, Unlock
<1> HIDE DEF a, c
<1>3. NewStore \in Seq(Op) /\ Len(NewStore) = 2 /\ NewStore[1] = a /\ NewStore[2] = c
  BY <1>1, <1>2, TwoSteps
<1> QED BY <1>3 DEF a, c

LEMMA NewStoreResyncShape ==
  LET p == NewStore \o Resync IN
  /\ p \in Seq(Op) /\ Len(p) = 3
  /\ p[1] = [op |-> "write", on |-> "store"]
  /\ p[2] = [op |-> "free", on |-> "store"]
  /\ p[3] = [op |-> "resync", on |-> "informer"]
<1> DEFINE a == [op |-> "write", on |-> "store"]
           b == [op |-> "free", on |-> "store"]
           c == [op |-> "resync", on |-> "informer"]
<1>1. a \in Op /\ b \in Op /\ c \in Op
  BY Steps, Locks
<1>2. NewStore \o Resync = <<a>> \o <<b>> \o <<c>>
  BY DEF NewStore, WriteLock, Resync, Unlock
<1> HIDE DEF a, b, c
<1>3. LET p == <<a>> \o <<b>> \o <<c>> IN
      p \in Seq(Op) /\ Len(p) = 3 /\ p[1] = a /\ p[2] = b /\ p[3] = c
  BY <1>1, ThreeSteps
<1> QED BY <1>2, <1>3 DEF a, b, c

LEMMA EventProgram ==
  /\ Event \in Seq(Op) /\ Guarded(Event) /\ OfReflector(Event)
  /\ \A i \in 1 .. Len(Event) : Event[i].op # "resync"
<1>1. \A i \in 1 .. 3 : i \in {1, 2, 3}
  OBVIOUS
<1>2. OfReflector(Event)
  BY EventShape, <1>1 DEF OfReflector, Notify
<1>3. \A i \in 1 .. Len(Event) : Event[i].op # "resync"
  BY EventShape, <1>1
<1>4. Guarded(Event)
  <2>1. SUFFICES ASSUME NEW i \in 1 .. 3, Event[i].op \in {"read", "write"}
        PROVE \E k \in i + 1 .. 3 : /\ Event[k] = [op |-> "free", on |-> Event[i].on]
                                    /\ \A j \in i + 1 .. k - 1 : Event[j].on # Event[i].on
    BY EventShape DEF Guarded
  <2>2. i = 1
    BY <2>1, <1>1, EventShape
  <2>3. 3 \in i + 1 .. 3 /\ \A j \in i + 1 .. 3 - 1 : j = 2
    BY <2>2
  <2>4. Event[3] = [op |-> "free", on |-> Event[i].on] /\ Event[2].on # Event[i].on
    BY <2>2, EventShape
  <2> QED BY <2>3, <2>4
<1> QED BY <1>2, <1>3, <1>4, EventShape

LEMMA NewStoreProgram ==
  ASSUME NEW p \in {NewStore, NewStore \o Resync}
  PROVE  /\ p \in Seq(Op) /\ Guarded(p) /\ OfReflector(p)
         /\ \A i \in 1 .. Len(p) : p[i].op # "notify"
<1>0. \/ p = NewStore
      \/ p = NewStore \o Resync
  OBVIOUS
<1>1. /\ p \in Seq(Op) /\ Len(p) \in {2, 3}
      /\ p[1] = [op |-> "write", on |-> "store"]
      /\ p[2] = [op |-> "free", on |-> "store"]
      /\ Len(p) = 3 => p[3] = [op |-> "resync", on |-> "informer"]
  <2>1. CASE p = NewStore
    BY <2>1, NewStoreShape
  <2>2. CASE p = NewStore \o Resync
    BY <2>2, NewStoreResyncShape
  <2> QED BY <1>0, <2>1, <2>2
<1>2. \A i \in 1 .. Len(p) : i \in {1, 2} \/ (i = 3 /\ Len(p) = 3)
  <2>1. Len(p) \in {2, 3}
    BY <1>1
  <2>2. CASE Len(p) = 2
    BY <2>2
  <2>3. CASE Len(p) = 3
    BY <2>3
  <2> QED BY <2>1, <2>2, <2>3
<1>3. OfReflector(p)
  BY <1>1, <1>2 DEF OfReflector, Notify
<1>4. \A i \in 1 .. Len(p) : p[i].op # "notify"
  BY <1>1, <1>2
<1>5. Guarded(p)
  <2>1. SUFFICES ASSUME NEW i \in 1 .. Len(p), p[i].op \in {"read", "write"}
        PROVE \E k \in i + 1 .. Len(p) : /\ p[k] = [op |-> "free", on |-> p[i].on]
                                         /\ \A j \in i + 1 .. k - 1 : p[j].on # p[i].on
    BY DEF Guarded
  <2>2. i = 1
    BY <2>1, <1>1, <1>2
  <2>3. 2 \in i + 1 .. Len(p) /\ i + 1 .. 2 - 1 = {}
    BY <1>1, <2>2
  <2>4. p[2] = [op |-> "free", on |-> p[i].on]
    BY <2>2, <1>1
  <2> QED BY <2>3, <2>4
<1> QED BY <1>1, <1>3, <1>4, <1>5

(* What the worker runs for an update: one lock after the other.           *)
LEMMA LockProgram ==
  ASSUME NEW a \in {"read", "write"}
  PROVE  LET p == <<[op |-> a, on |-> "pods"]>> \o <<[op |-> "free", on |-> "pods"]>> IN
         p \in Seq(Op) /\ Guarded(p) /\ OfUpdate(p)
<1> DEFINE x == [op |-> a, on |-> "pods"]
           y == [op |-> "free", on |-> "pods"]
           p == <<x>> \o <<y>>
<1>1. x \in Op /\ y \in Op
  BY Steps, Locks
<1>2. p \in Seq(Op) /\ Len(p) = 2 /\ p[1] = x /\ p[2] = y
  BY <1>1, TwoSteps
<1> HIDE DEF p
<1>3. \A i \in 1 .. 2 : i \in {1, 2}
  OBVIOUS
<1>4. OfUpdate(p)
  BY <1>2, <1>3 DEF OfUpdate
<1>5. Guarded(p)
  <2>1. SUFFICES ASSUME NEW i \in 1 .. 2, p[i].op \in {"read", "write"}
        PROVE \E k \in i + 1 .. 2 : /\ p[k] = [op |-> "free", on |-> p[i].on]
                                    /\ \A j \in i + 1 .. k - 1 : p[j].on # p[i].on
    BY <1>2 DEF Guarded
  <2>2. i = 1
    BY <2>1, <1>2, <1>3
  <2>3. 2 \in i + 1 .. 2 /\ i + 1 .. 2 - 1 = {}
    BY <2>2
  <2>4. p[2] = [op |-> "free", on |-> p[i].on]
    BY <2>2, <1>2
  <2> QED BY <2>3, <2>4
<1> QED BY <1>2, <1>4, <1>5 DEF p

LEMMA OneAfterTheOther ==
  ASSUME NEW p \in Seq(Op), NEW q \in Seq(Op), Guarded(p), Guarded(q),
         OfUpdate(p), OfUpdate(q)
  PROVE  p \o q \in Seq(Op) /\ Guarded(p \o q) /\ OfUpdate(p \o q)
<1> DEFINE r == p \o q
<1>0. /\ r \in Seq(Op)
      /\ Len(p) \in Nat /\ Len(q) \in Nat /\ Len(r) = Len(p) + Len(q)
      /\ \A i \in 1 .. Len(p) : r[i] = p[i]
      /\ \A i \in 1 .. Len(q) : r[Len(p) + i] = q[i]
  BY Joined
<1> HIDE DEF r
<1>1. ASSUME NEW i \in 1 .. Len(r), i \notin 1 .. Len(p)
      PROVE  i - Len(p) \in 1 .. Len(q) /\ Len(p) + (i - Len(p)) = i
  BY <1>0, <1>1
<1>2. OfUpdate(r)
  <2> SUFFICES ASSUME NEW i \in 1 .. Len(r)
               PROVE  r[i].op \in {"read", "write", "free"} /\ r[i].on = "pods"
    BY DEF OfUpdate
  <2>1. CASE i \in 1 .. Len(p)
    BY <1>0, <2>1 DEF OfUpdate
  <2>2. CASE i \notin 1 .. Len(p)
    <3>1. i - Len(p) \in 1 .. Len(q) /\ r[i] = q[i - Len(p)]
      BY <1>0, <1>1, <2>2
    <3> QED BY <3>1 DEF OfUpdate
  <2> QED BY <2>1, <2>2
<1>3. Guarded(r)
  <2>1. SUFFICES ASSUME NEW i \in 1 .. Len(r), r[i].op \in {"read", "write"}
        PROVE \E k \in i + 1 .. Len(r) : /\ r[k] = [op |-> "free", on |-> r[i].on]
                                         /\ \A j \in i + 1 .. k - 1 : r[j].on # r[i].on
    BY DEF Guarded
  <2>2. CASE i \in 1 .. Len(p)
    <3>1. PICK k \in i + 1 .. Len(p) : /\ p[k] = [op |-> "free", on |-> p[i].on]
                                       /\ \A j \in i + 1 .. k - 1 : p[j].on # p[i].on
      BY <1>0, <2>1, <2>2 DEF Guarded
    <3>2. k \in i + 1 .. Len(r) /\ k \in 1 .. Len(p)
      BY <1>0, <2>2
    <3>3. \A j \in i + 1 .. k - 1 : j \in 1 .. Len(p)
      BY <1>0, <2>2, <3>2
    <3> QED BY <1>0, <2>2, <3>1, <3>2, <3>3
  <2>3. CASE i \notin 1 .. Len(p)
    <3> DEFINE m == i - Len(p)
    <3>0. m \in 1 .. Len(q) /\ Len(p) + m = i /\ r[i] = q[m]
      BY <1>0, <1>1, <2>3
    <3> HIDE DEF m
    <3>1. PICK k \in m + 1 .. Len(q) : /\ q[k] = [op |-> "free", on |-> q[m].on]
                                       /\ \A j \in m + 1 .. k - 1 : q[j].on # q[m].on
      BY <2>1, <3>0 DEF Guarded
    <3>2. Len(p) + k \in i + 1 .. Len(r) /\ k \in 1 .. Len(q)
      BY <1>0, <3>0
    <3>3. r[Len(p) + k] = [op |-> "free", on |-> r[i].on]
      BY <1>0, <3>0, <3>1, <3>2
    <3>4. ASSUME NEW j \in i + 1 .. (Len(p) + k) - 1 PROVE r[j].on # r[i].on
      <4>1. j - Len(p) \in m + 1 .. k - 1
        BY <1>0, <3>0
      <4>a. j - Len(p) \in 1 .. Len(q) /\ Len(p) + (j - Len(p)) = j
        BY <1>0, <3>0, <3>2, <4>1
      <4>2. r[j] = q[j - Len(p)]
        BY <1>0, <4>1, <4>a
      <4> QED BY <3>0, <3>1, <4>1, <4>2
    <3> QED BY <3>2, <3>3, <3>4
  <2> QED BY <2>2, <2>3
<1> QED BY <1>0, <1>2, <1>3 DEF r

LEMMA UpdateProgram ==
  ASSUME NEW p \in Updates
  PROVE  p \in Seq(Op) /\ Guarded(p) /\ OfUpdate(p)
<1> DEFINE rd == ReadLock("pods") \o Unlock("pods")
           wr == WriteLock("pods") \o Unlock("pods")
<1>1. rd \in Seq(Op) /\ Guarded(rd) /\ OfUpdate(rd)
  BY LockProgram DEF ReadLock, Unlock
<1>2. wr \in Seq(Op) /\ Guarded(wr) /\ OfUpdate(wr)
  BY LockProgram DEF WriteLock, Unlock
<1>3. p \in {<<>>, wr, rd, ReadLock("pods") \o Unlock("pods") \o wr \o wr}
  BY DEF Updates, Insert
<1>4. ReadLock("pods") \o Unlock("pods") \o wr \o wr = (rd \o wr) \o wr
  OBVIOUS
<1> HIDE DEF rd, wr
<1>5. (rd \o wr) \o wr \in Seq(Op) /\ Guarded((rd \o wr) \o wr) /\ OfUpdate((rd \o wr) \o wr)
  BY <1>1, <1>2, OneAfterTheOther
<1>6. <<>> \in Seq(Op) /\ Guarded(<<>>) /\ OfUpdate(<<>>)
  <2>1. <<>> \in Seq(Op) /\ Len(<<>>) = 0 /\ 1 .. 0 = {}
    OBVIOUS
  <2> QED BY <2>1 DEF Guarded, OfUpdate
<1> QED BY <1>1, <1>2, <1>3, <1>4, <1>5, <1>6

(* What does the same for each pod repeats its program.                    *)
LEMMA SendsShape ==
  /\ ForEachPod(Send) \in Seq(Op) /\ Len(ForEachPod(Send)) = PodCount
  /\ \A i \in 1 .. PodCount : ForEachPod(Send)[i] = [op |-> "send", on |-> "queue"]
<1>1. PodCount \in Nat
  BY KubeletLocksAssumption
<1>2. Len(Send) = 1 /\ Send[1] = [op |-> "send", on |-> "queue"] /\ Send[1] \in Op
  BY Steps, Locks DEF Send
<1>3. ForEachPod(Send) = [i \in 1 .. PodCount |-> Send[((i - 1) % 1) + 1]]
  BY <1>1, <1>2 DEF ForEachPod
<1>4. \A i \in 1 .. PodCount : ((i - 1) % 1) + 1 = 1
  BY <1>1
<1>5. ForEachPod(Send) = [i \in 1 .. PodCount |-> Send[1]]
  BY <1>3, <1>4
<1> QED BY <1>1, <1>2, <1>5

LEMMA ReadsShape ==
  LET p == ForEachPod(ReadLock("store") \o Unlock("store")) IN
  /\ p \in Seq(Op) /\ Len(p) = 2 * PodCount
  /\ \A i \in 1 .. 2 * PodCount :
       p[i] = [op |-> IF i % 2 = 1 THEN "read" ELSE "free", on |-> "store"]
<1> DEFINE a == [op |-> "read", on |-> "store"]
           b == [op |-> "free", on |-> "store"]
           q == ReadLock("store") \o Unlock("store")
           p == ForEachPod(q)
<1>1. PodCount \in Nat
  BY KubeletLocksAssumption
<1>2. a \in Op /\ b \in Op
  BY Steps, Locks
<1>3. q = <<a>> \o <<b>>
  BY DEF ReadLock, Unlock
<1>4. Len(q) = 2 /\ q[1] = a /\ q[2] = b
  BY <1>2, <1>3, TwoSteps
<1> HIDE DEF a, b, q
<1>5. p = [i \in 1 .. 2 * PodCount |-> q[((i - 1) % 2) + 1]]
  BY <1>1, <1>4 DEF ForEachPod
<1>6. ASSUME NEW i \in 1 .. 2 * PodCount
      PROVE  q[((i - 1) % 2) + 1] = IF i % 2 = 1 THEN a ELSE b
  <2>1. i \in Nat /\ i > 0
    BY <1>1
  <2>2. IF i % 2 = 1 THEN (i - 1) % 2 = 0 ELSE (i - 1) % 2 = 1
    BY <2>1
  <2> QED BY <1>4, <2>2
<1>7. p = [i \in 1 .. 2 * PodCount |-> IF i % 2 = 1 THEN a ELSE b]
  BY <1>5, <1>6
<1>8. p \in Seq(Op) /\ Len(p) = 2 * PodCount
  <2>1. 2 * PodCount \in Nat
    BY <1>1
  <2>2. p \in [1 .. 2 * PodCount -> Op]
    BY <1>2, <1>7
  <2> QED BY <2>1, <2>2
<1>9. ASSUME NEW i \in 1 .. 2 * PodCount
      PROVE  p[i] = [op |-> IF i % 2 = 1 THEN "read" ELSE "free", on |-> "store"]
  <2>1. p[i] = IF i % 2 = 1 THEN a ELSE b
    BY <1>7
  <2> QED BY <2>1 DEF a, b
<1> QED BY <1>8, <1>9 DEF q

(* The resync as one sequence.                                             *)
LEMMA ResyncShape ==
  /\ ResyncAll \in Seq(Op) /\ Len(ResyncAll) = PodCount + 4
  /\ ResyncAll[1] = [op |-> "read", on |-> "store"]
  /\ ResyncAll[2] = [op |-> "write", on |-> "pods"]
  /\ \A i \in 3 .. PodCount + 2 : ResyncAll[i] = [op |-> "send", on |-> "queue"]
  /\ ResyncAll[PodCount + 3] = [op |-> "free", on |-> "store"]
  /\ ResyncAll[PodCount + 4] = [op |-> "free", on |-> "pods"]
<1> DEFINE a == <<[op |-> "read", on |-> "store"]>> \o <<[op |-> "write", on |-> "pods"]>>
           m == ForEachPod(Send)
           z == <<[op |-> "free", on |-> "store"]>> \o <<[op |-> "free", on |-> "pods"]>>
           s == <<[op |-> "free", on |-> "store"]>>
           t == <<[op |-> "free", on |-> "pods"]>>
<1>0. PodCount \in Nat
  BY KubeletLocksAssumption
<1>1. /\ a \in Seq(Op) /\ Len(a) = 2
      /\ a[1] = [op |-> "read", on |-> "store"] /\ a[2] = [op |-> "write", on |-> "pods"]
  <2> DEFINE x == [op |-> "read", on |-> "store"]
             y == [op |-> "write", on |-> "pods"]
  <2>1. x \in Op /\ y \in Op
    BY Steps, Locks
  <2>2. a = <<x>> \o <<y>>
    OBVIOUS
  <2> HIDE DEF x, y, a
  <2>3. a \in Seq(Op) /\ Len(a) = 2 /\ a[1] = x /\ a[2] = y
    BY <2>1, <2>2, TwoSteps
  <2> QED BY <2>3 DEF x, y
<1>2. /\ s \in Seq(Op) /\ Len(s) = 1 /\ s[1] = [op |-> "free", on |-> "store"]
      /\ t \in Seq(Op) /\ Len(t) = 1 /\ t[1] = [op |-> "free", on |-> "pods"]
  BY Steps, Locks, OneStep
<1>3. /\ m \in Seq(Op) /\ Len(m) = PodCount
      /\ \A i \in 1 .. PodCount : m[i] = [op |-> "send", on |-> "queue"]
  BY SendsShape
<1>4. ResyncAll = ((a \o m) \o s) \o t
  BY DEF ResyncAll, ReadLock, WriteLock, Unlock
<1> HIDE DEF a, m, s, t
<1> DEFINE am == a \o m
           ams == am \o s
<1>5. /\ am \in Seq(Op) /\ Len(am) = PodCount + 2
      /\ am[1] = a[1] /\ am[2] = a[2]
      /\ \A i \in 3 .. PodCount + 2 : am[i] = [op |-> "send", on |-> "queue"]
  <2>0. /\ am \in Seq(Op) /\ Len(am) = Len(a) + Len(m)
        /\ \A i \in 1 .. Len(a) : am[i] = a[i]
        /\ \A i \in 1 .. Len(m) : am[Len(a) + i] = m[i]
    BY <1>1, <1>3, Joined
  <2> HIDE DEF am
  <2>1. /\ am \in Seq(Op) /\ Len(am) = 2 + PodCount
        /\ \A i \in 1 .. 2 : am[i] = a[i]
        /\ \A i \in 1 .. PodCount : am[2 + i] = m[i]
    BY <1>1, <1>3, <2>0
  <2>2. \A i \in 3 .. PodCount + 2 : i - 2 \in 1 .. PodCount /\ 2 + (i - 2) = i
    BY <1>0
  <2>3. 2 + PodCount = PodCount + 2 /\ 1 \in 1 .. 2 /\ 2 \in 1 .. 2
    BY <1>0
  <2>4. ASSUME NEW i \in 3 .. PodCount + 2 PROVE am[i] = [op |-> "send", on |-> "queue"]
    <3>1. am[2 + (i - 2)] = m[i - 2] /\ m[i - 2] = [op |-> "send", on |-> "queue"]
      BY <1>3, <2>1, <2>2
    <3> QED BY <2>2, <3>1
  <2> QED BY <2>1, <2>3, <2>4
<1> HIDE DEF am
<1>6. /\ ams \in Seq(Op) /\ Len(ams) = PodCount + 3
      /\ \A i \in 1 .. PodCount + 2 : ams[i] = am[i]
      /\ ams[PodCount + 3] = [op |-> "free", on |-> "store"]
  <2>0. /\ ams \in Seq(Op) /\ Len(ams) = Len(am) + Len(s)
        /\ \A i \in 1 .. Len(am) : ams[i] = am[i]
        /\ \A i \in 1 .. Len(s) : ams[Len(am) + i] = s[i]
    BY <1>2, <1>5, Joined
  <2> HIDE DEF ams
  <2>1. /\ ams \in Seq(Op) /\ Len(ams) = (PodCount + 2) + 1
        /\ \A i \in 1 .. PodCount + 2 : ams[i] = am[i]
        /\ \A i \in 1 .. 1 : ams[(PodCount + 2) + i] = s[i]
    BY <1>2, <1>5, <2>0
  <2>2. (PodCount + 2) + 1 = PodCount + 3 /\ 1 \in 1 .. 1
    BY <1>0
  <2> QED BY <1>2, <2>1, <2>2
<1> HIDE DEF ams
<1>7. /\ ResyncAll \in Seq(Op) /\ Len(ResyncAll) = PodCount + 4
      /\ \A i \in 1 .. PodCount + 3 : ResyncAll[i] = ams[i]
      /\ ResyncAll[PodCount + 4] = [op |-> "free", on |-> "pods"]
  <2>1. ResyncAll = ams \o t
    BY <1>4 DEF ams, am
  <2>2. /\ ResyncAll \in Seq(Op) /\ Len(ResyncAll) = (PodCount + 3) + 1
        /\ \A i \in 1 .. PodCount + 3 : ResyncAll[i] = ams[i]
        /\ \A i \in 1 .. 1 : ResyncAll[(PodCount + 3) + i] = t[i]
    BY <1>2, <1>6, <2>1, Joined
  <2>3. (PodCount + 3) + 1 = PodCount + 4 /\ 1 \in 1 .. 1
    BY <1>0
  <2> QED BY <1>2, <2>2, <2>3
<1>8. /\ 1 \in 1 .. PodCount + 3 /\ 1 \in 1 .. PodCount + 2
      /\ 2 \in 1 .. PodCount + 3 /\ 2 \in 1 .. PodCount + 2
      /\ PodCount + 3 \in 1 .. PodCount + 3
      /\ \A i \in 3 .. PodCount + 2 : i \in 1 .. PodCount + 3 /\ i \in 1 .. PodCount + 2
  BY <1>0
<1>9. \A i \in 3 .. PodCount + 2 : ResyncAll[i] = [op |-> "send", on |-> "queue"]
  BY <1>5, <1>6, <1>7, <1>8
<1> QED BY <1>1, <1>5, <1>6, <1>7, <1>8, <1>9

LEMMA ResyncProgram ==
  ResyncAll \in Seq(Op) /\ Guarded(ResyncAll) /\ OfResync(ResyncAll)
<1>0. PodCount \in Nat
  BY KubeletLocksAssumption
<1>1. ASSUME NEW i \in 1 .. PodCount + 4
      PROVE  i \in {1, 2} \/ i \in 3 .. PodCount + 2 \/ i \in {PodCount + 3, PodCount + 4}
  BY <1>0
<1>2. OfResync(ResyncAll)
  <2> SUFFICES ASSUME NEW i \in 1 .. PodCount + 4
      PROVE /\ ResyncAll[i].op \in {"read", "write", "free", "send"}
            /\ ResyncAll[i].op = "send" <=> Left(ResyncAll, i) \in 3 .. PodCount + 2
            /\ ResyncAll[i].on = "store" => ResyncAll[i].op \in {"read", "free"}
    BY ResyncShape, <1>0 DEF OfResync
  <2>1. Left(ResyncAll, i) = PodCount + 5 - i
    BY ResyncShape, <1>0 DEF Left
  <2>2. Left(ResyncAll, i) \in 3 .. PodCount + 2 <=> i \in 3 .. PodCount + 2
    BY <1>0, <2>1
  <2>3. CASE i \in {1, 2}
    BY ResyncShape, <1>0, <2>2, <2>3
  <2>4. CASE i \in 3 .. PodCount + 2
    BY ResyncShape, <2>2, <2>4
  <2>5. CASE i \in {PodCount + 3, PodCount + 4}
    BY ResyncShape, <1>0, <2>2, <2>5
  <2> QED BY <1>1, <2>3, <2>4, <2>5
<1>3. Guarded(ResyncAll)
  <2>1. SUFFICES ASSUME NEW i \in 1 .. PodCount + 4, ResyncAll[i].op \in {"read", "write"}
        PROVE \E k \in i + 1 .. PodCount + 4 :
                /\ ResyncAll[k] = [op |-> "free", on |-> ResyncAll[i].on]
                /\ \A j \in i + 1 .. k - 1 : ResyncAll[j].on # ResyncAll[i].on
    BY ResyncShape DEF Guarded
  <2>2. i \in {1, 2}
    BY <2>1, <1>1, ResyncShape
  <2>3. CASE i = 1
    <3>1. PodCount + 3 \in i + 1 .. PodCount + 4
      BY <1>0, <2>3
    <3>2. ASSUME NEW j \in i + 1 .. (PodCount + 3) - 1 PROVE j = 2 \/ j \in 3 .. PodCount + 2
      BY <1>0, <2>3
    <3>3. \A j \in i + 1 .. (PodCount + 3) - 1 : ResyncAll[j].on # "store"
      BY <3>2, ResyncShape
    <3> QED BY <2>3, <3>1, <3>3, ResyncShape
  <2>4. CASE i = 2
    <3>1. PodCount + 4 \in i + 1 .. PodCount + 4
      BY <1>0, <2>4
    <3>2. ASSUME NEW j \in i + 1 .. (PodCount + 4) - 1 PROVE j \in 3 .. PodCount + 2 \/ j = PodCount + 3
      BY <1>0, <2>4
    <3>3. \A j \in i + 1 .. (PodCount + 4) - 1 : ResyncAll[j].on # "pods"
      BY <3>2, ResyncShape
    <3> QED BY <2>4, <3>1, <3>3, ResyncShape
  <2> QED BY <2>2, <2>3, <2>4
<1> QED BY <1>2, <1>3, ResyncShape

(* The walk as one sequence.                                               *)
LEMMA WalkShape ==
  /\ Walk \in Seq(Op) /\ Len(Walk) = 2 * PodCount + 2
  /\ Walk[1] = [op |-> "read", on |-> "pods"]
  /\ \A i \in 1 .. 2 * PodCount :
       Walk[1 + i] = [op |-> IF i % 2 = 1 THEN "read" ELSE "free", on |-> "store"]
  /\ Walk[2 * PodCount + 2] = [op |-> "free", on |-> "pods"]
<1> DEFINE a == <<[op |-> "read", on |-> "pods"]>>
           m == ForEachPod(ReadLock("store") \o Unlock("store"))
           z == <<[op |-> "free", on |-> "pods"]>>
<1>0. PodCount \in Nat
  BY KubeletLocksAssumption
<1>1. /\ a \in Seq(Op) /\ Len(a) = 1 /\ a[1] = [op |-> "read", on |-> "pods"]
      /\ z \in Seq(Op) /\ Len(z) = 1 /\ z[1] = [op |-> "free", on |-> "pods"]
  BY Steps, Locks, OneStep
<1>2. /\ m \in Seq(Op) /\ Len(m) = 2 * PodCount
      /\ \A i \in 1 .. 2 * PodCount :
           m[i] = [op |-> IF i % 2 = 1 THEN "read" ELSE "free", on |-> "store"]
  BY ReadsShape
<1>3. Walk = (a \o m) \o z
  BY DEF Walk, ReadLock, Unlock
<1> HIDE DEF a, m, z
<1> DEFINE am == a \o m
<1>4. /\ am \in Seq(Op) /\ Len(am) = 1 + 2 * PodCount
      /\ \A i \in 1 .. 1 : am[i] = a[i]
      /\ \A i \in 1 .. 2 * PodCount : am[1 + i] = m[i]
  BY <1>1, <1>2, Joined
<1> HIDE DEF am
<1>5. /\ Walk \in Seq(Op) /\ Len(Walk) = (1 + 2 * PodCount) + 1
      /\ \A i \in 1 .. 1 + 2 * PodCount : Walk[i] = am[i]
      /\ \A i \in 1 .. 1 : Walk[(1 + 2 * PodCount) + i] = z[i]
  <2>1. Walk = am \o z
    BY <1>3 DEF am
  <2>2. /\ Walk \in Seq(Op) /\ Len(Walk) = Len(am) + Len(z)
        /\ \A i \in 1 .. Len(am) : Walk[i] = am[i]
        /\ \A i \in 1 .. Len(z) : Walk[Len(am) + i] = z[i]
    BY <1>1, <1>4, <2>1, Joined, ZenonT(60)
  <2> QED BY <1>1, <1>4, <2>2
<1>6. /\ (1 + 2 * PodCount) + 1 = 2 * PodCount + 2
      /\ 1 \in 1 .. 1 /\ 1 \in 1 .. 1 + 2 * PodCount
      /\ \A i \in 1 .. 2 * PodCount : 1 + i \in 1 .. 1 + 2 * PodCount
  BY <1>0
<1>7. \A i \in 1 .. 2 * PodCount :
        Walk[1 + i] = [op |-> IF i % 2 = 1 THEN "read" ELSE "free", on |-> "store"]
  BY <1>2, <1>4, <1>5, <1>6
<1> QED BY <1>1, <1>4, <1>5, <1>6, <1>7

LEMMA WalkProgram == Walk \in Seq(Op) /\ Guarded(Walk) /\ OfManager(Walk)
<1> DEFINE n == 2 * PodCount + 2
<1>0. PodCount \in Nat /\ n \in Nat /\ n >= 2
  BY KubeletLocksAssumption
<1>1. ASSUME NEW i \in 2 .. n - 1
      PROVE  /\ i % 2 = 0 => Walk[i] = [op |-> "read", on |-> "store"]
             /\ i % 2 # 0 => Walk[i] = [op |-> "free", on |-> "store"]
             /\ Walk[i].op \in {"read", "free"} /\ Walk[i].on = "store"
  <2>1. i - 1 \in 1 .. 2 * PodCount /\ 1 + (i - 1) = i
    BY <1>0
  <2>2. Walk[i] = [op |-> IF (i - 1) % 2 = 1 THEN "read" ELSE "free", on |-> "store"]
    BY <2>1, WalkShape
  <2>3. i % 2 = 0 <=> (i - 1) % 2 = 1
    BY <2>1
  <2> QED BY <2>2, <2>3
<1>2. n % 2 = 0 /\ 2 % 2 = 0
  BY <1>0
<1>3. Len(Walk) = n /\ Walk[1] = [op |-> "read", on |-> "pods"]
      /\ Walk[n] = [op |-> "free", on |-> "pods"]
  BY WalkShape
<1> HIDE DEF n
<1>4. ASSUME NEW i \in 1 .. n PROVE i = 1 \/ i \in 2 .. n - 1 \/ i = n
  BY <1>0
<1>5. OfManager(Walk)
  <2>1. SUFFICES ASSUME NEW i \in 1 .. n
        PROVE /\ Walk[i].op \in {"read", "free"}
              /\ Walk[i] = [op |-> "free", on |-> "store"] /\ i > 1
                   => Walk[i - 1] = [op |-> "read", on |-> "store"]
    BY <1>3 DEF OfManager
  <2>2. CASE i \in {1, n}
    BY <1>3, <2>2
  <2>3. CASE i \in 2 .. n - 1
    <3>1. Walk[i].op \in {"read", "free"}
      BY <1>1, <2>3
    <3>2. ASSUME Walk[i] = [op |-> "free", on |-> "store"]
          PROVE  Walk[i - 1] = [op |-> "read", on |-> "store"]
      <4>1. i % 2 # 0
        BY <1>1, <2>3, <3>2
      <4>2. i \in Nat /\ i # 2 /\ (i - 1) % 2 = 0
        BY <1>0, <1>2, <2>3, <4>1
      <4>3. i - 1 \in 2 .. n - 1
        BY <1>0, <2>3, <4>2
      <4> QED BY <1>1, <4>2, <4>3
    <3> QED BY <3>1, <3>2
  <2> QED BY <1>4, <2>2, <2>3
<1>6. Guarded(Walk)
  <2>1. SUFFICES ASSUME NEW i \in 1 .. n, Walk[i].op \in {"read", "write"}
        PROVE \E k \in i + 1 .. n :
                /\ Walk[k] = [op |-> "free", on |-> Walk[i].on]
                /\ \A j \in i + 1 .. k - 1 : Walk[j].on # Walk[i].on
    BY <1>3 DEF Guarded
  <2>2. CASE i = 1
    <3>1. n \in i + 1 .. n
      BY <1>0, <2>2
    <3>2. \A j \in i + 1 .. n - 1 : Walk[j].on = "store"
      BY <1>1, <2>2
    <3> QED BY <1>3, <2>2, <3>1, <3>2
  <2>3. CASE i \in 2 .. n - 1
    <3>1. i % 2 = 0
      BY <1>1, <2>1, <2>3
    <3>2. (i + 1) % 2 # 0 /\ i + 1 # n
      BY <1>2, <2>3, <3>1
    <3>3. i + 1 \in 2 .. n - 1 /\ i + 1 \in i + 1 .. n /\ i + 1 .. (i + 1) - 1 = {}
      BY <1>0, <2>3, <3>2
    <3>4. Walk[i + 1] = [op |-> "free", on |-> "store"] /\ Walk[i].on = "store"
      BY <1>1, <2>3, <3>2, <3>3
    <3> QED BY <3>3, <3>4
  <2> QED BY <1>3, <1>4, <2>1, <2>2, <2>3
<1> QED BY <1>5, <1>6, WalkShape

-------------------------------------------------------------------------------
(* What steps do to programs and locks.                                    *)

LEMMA Tasks3 == Task = {"reflector", "worker", "manager"}
BY DEF Task

LEMMA NothingHeld ==
  ASSUME NEW p \in Seq(Op), p = <<>>, NEW l \in Lock
  PROVE  ~Holding(p, l)
BY NotYetHolding

(* A task without a program asks for nothing and holds nothing.            *)
LEMMA BeginKeepsLocks ==
  ASSUME Programs, Asked, Granted, NEW t \in Task, NEW p \in Seq(Op),
         todo[t] = <<>>, todo' = [todo EXCEPT ![t] = p], UNCHANGED <<held, waiting>>
  PROVE  Asked' /\ Granted'
<1>0. todo \in [Task -> Seq(Op)]
  BY DEF Programs
<1>1. \A u \in Task : u # t => todo'[u] = todo[u]
  BY <1>0
<1>2. ASSUME NEW l \in Lock PROVE
        /\ waiting[l] \in Seq(Claim)
        /\ \A i \in 1 .. Len(waiting[l]) :
             /\ waiting[l][i] \in Claim /\ waiting[l][i][1] # t
             /\ todo'[waiting[l][i][1]] = todo[waiting[l][i][1]]
  <2>1. waiting[l] \in Seq(Claim)
    BY DEF Asked
  <2>2. ASSUME NEW i \in 1 .. Len(waiting[l])
        PROVE waiting[l][i] \in Claim /\ waiting[l][i][1] \in Task /\ waiting[l][i][1] # t
    <3>1. waiting[l][i] \in Claim
      BY <2>1
    <3>2. todo[waiting[l][i][1]] # <<>>
      BY DEF Asked
    <3> QED BY <3>1, <3>2 DEF Claim
  <2> QED BY <1>1, <2>1, <2>2
<1>3. Asked'
  BY <1>2 DEF Asked
<1>4. ASSUME NEW l \in Lock, NEW c \in held[l] PROVE c[1] \in Task /\ c[1] # t
  <2>1. c \in Claim /\ Holding(todo[c[1]], l)
    BY DEF Granted
  <2> QED BY <1>0, <2>1, NothingHeld DEF Claim
<1>5. Granted'
  BY <1>1, <1>4 DEF Granted
<1> QED BY <1>3, <1>5

LEMMA AdvanceFacts ==
  ASSUME Programs, NEW t \in Task, todo[t] # <<>>, Advance(t)
  PROVE  /\ todo[t] \in Seq(Op) /\ Head(todo[t]) \in Op
         /\ todo'[t] = Tail(todo[t])
         /\ \A u \in Task : u # t => todo'[u] = todo[u]
<1>1. todo \in [Task -> Seq(Op)]
  BY DEF Programs
<1>2. todo' = [todo EXCEPT ![t] = Tail(todo[t])]
  BY DEF Advance
<1> QED BY <1>1, <1>2, TailShift

(* A lock that is held stays held by a step that does not free it.         *)
LEMMA AdvanceHolds ==
  ASSUME Programs, NEW t \in Task, todo[t] # <<>>, Advance(t),
         NEW l \in Lock, NEW u \in Task, Holding(todo[u], l),
         u = t => Head(todo[t]) # [op |-> "free", on |-> l]
  PROVE  Holding(todo'[u], l)
<1>1. CASE u = t
  BY <1>1, AdvanceFacts, StillHolding
<1>2. CASE u # t
  BY <1>2, AdvanceFacts
<1> QED BY <1>1, <1>2

(* A message is sent: no lock is asked for or freed.                       *)
LEMMA MessageKeepsLocks ==
  ASSUME Programs, Asked, Granted, NEW t \in Task, todo[t] # <<>>, Advance(t),
         Head(todo[t]).op \in {"notify", "send", "resync"}, UNCHANGED <<held, waiting>>
  PROVE  Asked' /\ Granted'
<1>1. Head(todo[t]) \in Op
  BY AdvanceFacts
<1>2. Head(todo[t]).on \notin Lock
  BY <1>1, OpForms DEF Lock
<1>3. ASSUME NEW l \in Lock, NEW i \in 1 .. Len(waiting[l])
      PROVE  /\ waiting[l] \in Seq(Claim)
             /\ todo'[waiting[l][i][1]] = todo[waiting[l][i][1]]
  <2>1. waiting[l] \in Seq(Claim)
    BY DEF Asked
  <2>2. waiting[l][i] \in Claim
    BY <2>1
  <2>3. Head(todo[waiting[l][i][1]]) = [op |-> waiting[l][i][2], on |-> l]
    BY DEF Asked
  <2>4. waiting[l][i][1] \in Task /\ waiting[l][i][1] # t
    BY <1>2, <2>2, <2>3 DEF Claim
  <2> QED BY <2>1, <2>4, AdvanceFacts
<1>4. Asked'
  BY <1>3 DEF Asked
<1>5. ASSUME NEW l \in Lock, NEW c \in held[l] PROVE Holding(todo'[c[1]], l)
  <2>1. c \in Claim /\ Holding(todo[c[1]], l)
    BY DEF Granted
  <2>2. c[1] \in Task
    BY <2>1 DEF Claim
  <2>3. Head(todo[t]) # [op |-> "free", on |-> l]
    BY <1>2
  <2> QED BY <2>1, <2>2, <2>3, AdvanceHolds
<1>6. Granted'
  BY <1>5 DEF Granted
<1> QED BY <1>4, <1>6

(* A task asks for the lock that is next in its program, once.             *)
LEMMA AskKeepsLocks ==
  ASSUME Programs, Asked, Granted, NEW t \in Task, Ask(t)
  PROVE  Asked' /\ Granted'
<1> DEFINE o == Head(todo[t])
<1>0. /\ todo[t] # <<>> /\ o.op \in {"read", "write"} /\ ~Waits(t, o.on)
      /\ waiting' = [waiting EXCEPT ![o.on] = Append(waiting[o.on], <<t, o.op>>)]
      /\ UNCHANGED <<todo, held>>
  BY DEF Ask
<1>1. o \in Op /\ o = [op |-> o.op, on |-> o.on] /\ o.on \in Lock
  <2>1. todo[t] \in Seq(Op)
    BY DEF Programs
  <2>2. o \in Op
    BY <1>0, <2>1, TailShift
  <2> QED BY <1>0, <2>2, OpForms
<1> HIDE DEF o
<1>2. Granted'
  BY <1>0 DEF Granted
<1>3. ASSUME NEW l \in Lock PROVE
        /\ waiting'[l] \in Seq(Claim)
        /\ \A i \in 1 .. Len(waiting'[l]) :
             /\ todo[waiting'[l][i][1]] # <<>>
             /\ Head(todo[waiting'[l][i][1]]) = [op |-> waiting'[l][i][2], on |-> l]
        /\ \A i, j \in 1 .. Len(waiting'[l]) : waiting'[l][i][1] = waiting'[l][j][1] => i = j
  <2>0. /\ waiting[l] \in Seq(Claim)
        /\ \A i \in 1 .. Len(waiting[l]) :
             /\ todo[waiting[l][i][1]] # <<>>
             /\ Head(todo[waiting[l][i][1]]) = [op |-> waiting[l][i][2], on |-> l]
        /\ \A i, j \in 1 .. Len(waiting[l]) : waiting[l][i][1] = waiting[l][j][1] => i = j
    BY DEF Asked
  <2>1. CASE l # o.on
    <3>1. waiting'[l] = waiting[l]
      BY <1>0, <2>1
    <3> QED BY <2>0, <3>1
  <2>2. CASE l = o.on
    <3> DEFINE w == waiting[l]
               c == <<t, o.op>>
               v == Append(w, c)
    <3>0. waiting \in [Lock -> Seq(Claim)]
      BY DEF Asked
    <3>1. waiting'[l] = v
      BY <1>0, <1>1, <2>2, <3>0
    <3>2. c \in Claim /\ c[1] = t /\ c[2] = o.op
      BY <1>0 DEF Claim
    <3>3. /\ v \in Seq(Claim) /\ Len(w) \in Nat /\ Len(v) = Len(w) + 1
          /\ \A i \in 1 .. Len(w) : v[i] = w[i]
          /\ v[Len(w) + 1] = c
      BY <2>0, <3>2, AppendProperties, LenProperties
    <3>4. \A i \in 1 .. Len(w) : w[i][1] # t
      BY <1>0, <2>2 DEF Waits
    <3>5. o = [op |-> c[2], on |-> l] /\ todo[c[1]] # <<>> /\ Head(todo[c[1]]) = o
      BY <1>0, <1>1, <2>2, <3>2 DEF o
    <3> HIDE DEF v, c
    <3>6. \A i \in 1 .. Len(v) : i \in 1 .. Len(w) \/ i = Len(w) + 1
      BY <3>3
    <3>7. \A i \in 1 .. Len(v) : todo[v[i][1]] # <<>>
                                 /\ Head(todo[v[i][1]]) = [op |-> v[i][2], on |-> l]
      BY <2>0, <3>3, <3>5, <3>6
    <3>8. \A i, j \in 1 .. Len(v) : v[i][1] = v[j][1] => i = j
      BY <2>0, <3>2, <3>3, <3>4, <3>6
    <3> QED BY <3>1, <3>3, <3>7, <3>8
  <2> QED BY <2>1, <2>2
<1>4. Asked'
  <2>1. waiting' \in [Lock -> Seq(Claim)]
    <3>1. waiting \in [Lock -> Seq(Claim)]
      BY DEF Asked
    <3>2. waiting'[o.on] \in Seq(Claim) /\ waiting' = [waiting EXCEPT ![o.on] = waiting'[o.on]]
      BY <1>0, <1>1, <1>3, <3>1
    <3> QED BY <3>1, <3>2
  <2> QED BY <1>0, <1>3, <2>1 DEF Asked
<1> QED BY <1>2, <1>4

Stage == EventsOnly \/ RelistedOnce

(* Worker and manager only ever read the store.                            *)
LEMMA StoreIsRead ==
  ASSUME Programs, Stage, NEW t \in {"worker", "manager"}, NEW i \in 1 .. Len(todo[t])
  PROVE  todo[t][i].on = "store" => todo[t][i].op \in {"read", "free"}
<1>1. CASE t = "manager"
  BY <1>1 DEF Programs, OfManager
<1>2. CASE t = "worker"
  <2>1. todo["worker"] = <<>> \/ OfUpdate(todo["worker"]) \/ OfResync(todo["worker"])
    BY DEF Stage, EventsOnly, RelistedOnce
  <2>2. todo["worker"] # <<>>
    BY <1>2
  <2>3. CASE OfUpdate(todo["worker"])
    BY <1>2, <2>3 DEF OfUpdate
  <2>4. CASE OfResync(todo["worker"])
    BY <1>2, <2>4 DEF OfResync
  <2> QED BY <2>1, <2>2, <2>3, <2>4
<1> QED BY <1>1, <1>2

(* Who is first in the line, if it can share the lock, gets it.            *)
LEMMA GrantKeepsLocks ==
  ASSUME Programs, Stage, Asked, Granted, NEW l \in Lock, Grant(l)
  PROVE  Asked' /\ Granted' /\ \E t \in Task : /\ todo[t] # <<>> /\ Advance(t)
                                               /\ Head(todo[t]).op \in {"read", "write"}
<1> DEFINE w == waiting[l]
           c == Head(w)
           t == c[1]
<1>0. /\ w # <<>> /\ Advance(t)
      /\ waiting' = [waiting EXCEPT ![l] = Tail(w)]
      /\ held' = [held EXCEPT ![l] = held[l] \cup {c}]
  BY DEF Grant
<1>1. /\ waiting \in [Lock -> Seq(Claim)]
      /\ \A m \in Lock : \A i \in 1 .. Len(waiting[m]) :
           /\ waiting[m][i] \in Claim /\ waiting[m][i][1] \in Task
           /\ todo[waiting[m][i][1]] # <<>>
           /\ Head(todo[waiting[m][i][1]]) = [op |-> waiting[m][i][2], on |-> m]
  <2>1. waiting \in [Lock -> Seq(Claim)]
    BY DEF Asked
  <2>2. ASSUME NEW m \in Lock, NEW i \in 1 .. Len(waiting[m])
        PROVE  waiting[m][i] \in Claim /\ waiting[m][i][1] \in Task
    <3>1. waiting[m] \in Seq(Claim)
      BY <2>1
    <3> QED BY <3>1 DEF Claim
  <2> QED BY <2>1, <2>2 DEF Asked
<1>2. /\ w \in Seq(Claim) /\ c = w[1] /\ Len(w) \in Nat \ {0} /\ 1 \in 1 .. Len(w)
      /\ Tail(w) \in Seq(Claim) /\ Len(Tail(w)) = Len(w) - 1
      /\ \A i \in 1 .. Len(Tail(w)) : Tail(w)[i] = w[i + 1] /\ i + 1 \in 1 .. Len(w)
  BY <1>0, <1>1, HeadTailProperties
<1>3. /\ c \in Claim /\ t \in Task /\ todo[t] # <<>>
      /\ Head(todo[t]) = [op |-> c[2], on |-> l] /\ c[2] \in {"read", "write"}
  BY <1>1, <1>2 DEF Claim
<1>4. \A i \in 2 .. Len(w) : w[i][1] # t
  <2>1. \A i, j \in 1 .. Len(w) : w[i][1] = w[j][1] => i = j
    BY DEF Asked
  <2>2. \A i \in 2 .. Len(w) : i \in 1 .. Len(w) /\ i # 1
    BY <1>2
  <2> QED BY <1>2, <2>1, <2>2
<1> HIDE DEF c, t
<1>5. \A u \in Task : u # t => todo'[u] = todo[u]
  BY <1>0, <1>3, AdvanceFacts
<1>6. ASSUME NEW m \in Lock PROVE
        /\ waiting'[m] \in Seq(Claim)
        /\ \A i \in 1 .. Len(waiting'[m]) :
             /\ todo'[waiting'[m][i][1]] # <<>>
             /\ Head(todo'[waiting'[m][i][1]]) = [op |-> waiting'[m][i][2], on |-> m]
        /\ \A i, j \in 1 .. Len(waiting'[m]) : waiting'[m][i][1] = waiting'[m][j][1] => i = j
  <2>0. \A i, j \in 1 .. Len(waiting[m]) : waiting[m][i][1] = waiting[m][j][1] => i = j
    BY DEF Asked
  <2>1. CASE m # l
    <3>1. waiting'[m] = waiting[m] /\ waiting[m] \in Seq(Claim)
      BY <1>0, <1>1, <2>1
    <3>2. ASSUME NEW i \in 1 .. Len(waiting[m]) PROVE waiting[m][i][1] # t
      <4>1. Head(todo[waiting[m][i][1]]) = [op |-> waiting[m][i][2], on |-> m]
        BY <1>1
      <4>2. SUFFICES ASSUME waiting[m][i][1] = t PROVE FALSE
        OBVIOUS
      <4>3. [op |-> waiting[m][i][2], on |-> m] = [op |-> c[2], on |-> l]
        BY <1>3, <4>1, <4>2
      <4> QED BY <2>1, <4>3
    <3> QED BY <1>1, <1>5, <2>0, <3>1, <3>2
  <2>2. CASE m = l
    <3>1. waiting'[m] = Tail(w)
      BY <1>0, <1>1, <2>2
    <3>2. ASSUME NEW i \in 1 .. Len(Tail(w)) PROVE
            /\ Tail(w)[i] = w[i + 1] /\ i + 1 \in 1 .. Len(w) /\ i + 1 \in 2 .. Len(w)
            /\ todo'[w[i + 1][1]] = todo[w[i + 1][1]]
      <4>1. Tail(w)[i] = w[i + 1] /\ i + 1 \in 1 .. Len(w)
        BY <1>2
      <4>2. i + 1 \in 2 .. Len(w)
        BY <1>2
      <4> QED BY <1>1, <1>4, <1>5, <4>1, <4>2
    <3>3. \A i, j \in 1 .. Len(Tail(w)) : Tail(w)[i][1] = Tail(w)[j][1] => i = j
      <4> SUFFICES ASSUME NEW i \in 1 .. Len(Tail(w)), NEW j \in 1 .. Len(Tail(w)),
                          Tail(w)[i][1] = Tail(w)[j][1]
                   PROVE  i = j
        OBVIOUS
      <4>1. i + 1 = j + 1
        BY <2>0, <2>2, <3>2
      <4> QED BY <1>2, <4>1
    <3>4. \A i \in 1 .. Len(Tail(w)) :
             /\ todo'[Tail(w)[i][1]] # <<>>
             /\ Head(todo'[Tail(w)[i][1]]) = [op |-> Tail(w)[i][2], on |-> l]
      BY <1>1, <3>2
    <3> QED BY <1>2, <2>2, <3>1, <3>3, <3>4
  <2> QED BY <2>1, <2>2
<1>7. Asked'
  <2>1. waiting' \in [Lock -> Seq(Claim)]
    <3>1. waiting'[l] \in Seq(Claim) /\ waiting' = [waiting EXCEPT ![l] = waiting'[l]]
      BY <1>0, <1>1, <1>6
    <3> QED BY <1>1, <3>1
  <2> QED BY <1>6, <2>1 DEF Asked
<1>8. Granted'
  <2>1. held \in [Lock -> SUBSET Claim]
    BY DEF Granted
  <2>2. held' \in [Lock -> SUBSET Claim]
    BY <1>0, <1>3, <2>1
  <2>3. ASSUME NEW m \in Lock, NEW d \in held'[m], ~(m = l /\ d = c) PROVE d \in held[m]
    BY <1>0, <2>1, <2>3
  <2>4. ASSUME NEW m \in Lock, NEW d \in held[m]
        PROVE  /\ Holding(todo'[d[1]], m)
               /\ m = "store" /\ d[1] # "reflector" => d[2] = "read"
    <3>1. /\ Holding(todo[d[1]], m)
          /\ m = "store" /\ d[1] # "reflector" => d[2] = "read"
      BY DEF Granted
    <3>2. d[1] \in Task
      BY <2>1 DEF Claim
    <3>3. Head(todo[t]) # [op |-> "free", on |-> m]
      BY <1>3
    <3> QED BY <1>0, <1>3, <3>1, <3>2, <3>3, AdvanceHolds
  <2>5. Holding(todo'[c[1]], l)
    <3>1. todo[t] \in Seq(Op) /\ Guarded(todo[t])
      BY <1>3 DEF Programs
    <3>2. todo'[t] = Tail(todo[t])
      BY <1>0, <1>3, AdvanceFacts
    <3>3. Head(todo[t]).op \in {"read", "write"} /\ Head(todo[t]).on = l
      BY <1>3
    <3>4. Holding(Tail(todo[t]), l)
      BY <1>3, <3>1, <3>3, NowHolding
    <3> QED BY <3>2, <3>4 DEF t
  <2>6. l = "store" /\ c[1] # "reflector" => c[2] = "read"
    <3> SUFFICES ASSUME l = "store", t # "reflector" PROVE c[2] = "read"
      BY DEF t
    <3>1. t \in {"worker", "manager"}
      BY <1>3 DEF Task
    <3>2. todo[t] \in Seq(Op)
      BY <1>3 DEF Programs
    <3>3. Head(todo[t]) = todo[t][1] /\ 1 \in 1 .. Len(todo[t])
      BY <1>3, <3>2, TailShift
    <3>4. todo[t][1].on = "store" => todo[t][1].op \in {"read", "free"}
      BY <3>1, <3>3, StoreIsRead
    <3>5. todo[t][1].on = "store" /\ todo[t][1].op = c[2]
      BY <1>3, <3>3
    <3> QED BY <1>3, <3>4, <3>5
  <2> QED BY <2>2, <2>3, <2>4, <2>5, <2>6 DEF Granted
<1>9. Head(todo[t]).op \in {"read", "write"}
  BY <1>3
<1> QED BY <1>0, <1>3, <1>7, <1>8, <1>9

(* A lock is freed by who holds it, who asks for nothing.                  *)
LEMMA ReleaseKeepsLocks ==
  ASSUME Programs, Asked, Granted, NEW t \in Task, Release(t)
  PROVE  Asked' /\ Granted'
<1> DEFINE o == Head(todo[t])
<1>0. /\ todo[t] # <<>> /\ o.op = "free" /\ Advance(t)
      /\ held' = [held EXCEPT ![o.on] = {c \in held[o.on] : c[1] # t}]
      /\ UNCHANGED waiting
  BY DEF Release
<1>1. o \in Op /\ o.on \in Lock
  <2>1. o \in Op
    BY <1>0, AdvanceFacts
  <2> QED BY <1>0, <2>1, OpForms
<1> HIDE DEF o
<1>2. ASSUME NEW l \in Lock, NEW i \in 1 .. Len(waiting[l])
      PROVE  todo'[waiting[l][i][1]] = todo[waiting[l][i][1]]
  <2>1. waiting[l] \in Seq(Claim)
    BY DEF Asked
  <2>2. waiting[l][i] \in Claim
    BY <2>1
  <2>3. Head(todo[waiting[l][i][1]]) = [op |-> waiting[l][i][2], on |-> l]
    BY DEF Asked
  <2>4. waiting[l][i][1] \in Task /\ waiting[l][i][2] # "free"
    BY <2>2 DEF Claim
  <2>5. waiting[l][i][1] # t
    BY <1>0, <2>3, <2>4 DEF o
  <2> QED BY <1>0, <2>4, <2>5, AdvanceFacts
<1>3. Asked'
  BY <1>0, <1>2 DEF Asked
<1>4. held \in [Lock -> SUBSET Claim]
  BY DEF Granted
<1>5. held' \in [Lock -> SUBSET Claim]
  BY <1>0, <1>1, <1>4
<1>6. ASSUME NEW l \in Lock, NEW c \in held'[l]
      PROVE  /\ Holding(todo'[c[1]], l)
             /\ l = "store" /\ c[1] # "reflector" => c[2] = "read"
  <2>1. c \in held[l] /\ (l = o.on => c[1] # t)
    BY <1>0, <1>1, <1>4
  <2>2. c[1] \in Task
    BY <1>4, <2>1 DEF Claim
  <2>3. c[1] = t => Head(todo[t]) # [op |-> "free", on |-> l]
    BY <2>1 DEF o
  <2>4. Holding(todo[c[1]], l) /\ (l = "store" /\ c[1] # "reflector" => c[2] = "read")
    BY <2>1 DEF Granted
  <2> QED BY <1>0, <2>2, <2>3, <2>4, AdvanceHolds
<1>7. Granted'
  BY <1>5, <1>6 DEF Granted
<1> QED BY <1>3, <1>7

-------------------------------------------------------------------------------
(* What steps do to what is under way.                                     *)

LEMMA ProgramBegins ==
  ASSUME Programs, NEW t \in Task, NEW p \in Seq(Op), Guarded(p),
         t = "reflector" => OfReflector(p), t = "manager" => OfManager(p),
         todo' = [todo EXCEPT ![t] = p],
         notifs' \in Nat, inbox' \in Nat, relists' \in Nat
  PROVE  Programs'
<1>1. todo \in [Task -> Seq(Op)]
  BY DEF Programs
<1>2. todo' \in [Task -> Seq(Op)] /\ todo'[t] = p /\ \A u \in Task : u # t => todo'[u] = todo[u]
  BY <1>1
<1>3. \A u \in Task : Guarded(todo'[u])
  BY <1>2 DEF Programs
<1>4. "reflector" \in Task /\ "manager" \in Task
  BY DEF Task
<1>5. OfReflector(todo'["reflector"]) /\ OfManager(todo'["manager"])
  BY <1>2, <1>4 DEF Programs
<1> QED BY <1>2, <1>3, <1>5 DEF Programs

LEMMA ProgramGoesOn ==
  ASSUME Programs, NEW t \in Task, todo[t] # <<>>, Advance(t),
         notifs' \in Nat, inbox' \in Nat, relists' \in Nat
  PROVE  Programs'
<1>1. todo \in [Task -> Seq(Op)] /\ Guarded(todo[t]) /\ todo[t] \in Seq(Op)
  BY DEF Programs
<1>2. Tail(todo[t]) \in Seq(Op) /\ Guarded(Tail(todo[t]))
  BY <1>1, TailShift, GuardedTail
<1>3. t = "reflector" => OfReflector(Tail(todo[t]))
  BY <1>1, ReflectorTail DEF Programs
<1>4. t = "manager" => OfManager(Tail(todo[t]))
  BY <1>1, ManagerTail DEF Programs
<1>5. todo' = [todo EXCEPT ![t] = Tail(todo[t])]
  BY DEF Advance
<1> QED BY <1>2, <1>3, <1>4, <1>5, ProgramBegins

(* What the stage needs to know of the reflector's program.                *)
Tells(op) == \E i \in 1 .. Len(todo["reflector"]) : todo["reflector"][i].op = op

LEMMA ToldOnce ==
  ASSUME Programs, NEW t \in Task, todo[t] # <<>>, Advance(t)
  PROVE  /\ \A op : Tells(op)' => Tells(op)
         /\ t = "reflector" /\ Head(todo[t]).op = "notify" => Tells("notify") /\ ~Tells("notify")'
         /\ t = "reflector" /\ Head(todo[t]).op = "resync" => todo'[t] = <<>>
         /\ t # "reflector" => todo'["reflector"] = todo["reflector"]
<1> DEFINE r == todo["reflector"]
<1>0. "reflector" \in Task /\ r \in Seq(Op)
  BY DEF Programs, Task
<1>1. CASE t # "reflector"
  <2>1. todo'["reflector"] = r
    BY <1>0, <1>1, AdvanceFacts
  <2> QED BY <1>1, <2>1 DEF Tells
<1>2. CASE t = "reflector"
  <2>1. /\ todo'["reflector"] = Tail(r) /\ Head(r) = r[1] /\ r # <<>>
        /\ Len(r) \in Nat \ {0} /\ Len(Tail(r)) = Len(r) - 1 /\ Tail(r) \in Seq(Op)
        /\ \A i \in 1 .. Len(Tail(r)) : Tail(r)[i] = r[i + 1] /\ i + 1 \in 1 .. Len(r)
    BY <1>0, <1>2, AdvanceFacts, TailShift
  <2>2. OfReflector(r)
    BY DEF Programs
  <2>3. \A op : Tells(op)' => Tells(op)
    BY <2>1 DEF Tells
  <2>4. ASSUME Head(r).op = "notify" PROVE Tells("notify") /\ ~Tells("notify")'
    <3>1. 1 \in 1 .. Len(r)
      BY <2>1
    <3>2. ASSUME NEW i \in 1 .. Len(r), r[i].op = "notify" PROVE r[i] = Notify[1]
      <4>1. r[i] \in Op
        BY <1>0
      <4> QED BY <3>2, <4>1, OpForms, Steps, Locks
    <3>3. r[1] = Notify[1]
      BY <2>1, <2>4, <3>1, <3>2
    <3>4. ASSUME NEW i \in 1 .. Len(Tail(r)) PROVE Tail(r)[i].op # "notify"
      <4>1. i + 1 \in 1 .. Len(r) /\ i + 1 # 1 /\ Tail(r)[i] = r[i + 1]
        BY <2>1
      <4> QED BY <2>2, <3>1, <3>2, <3>3, <4>1 DEF OfReflector
    <3> QED BY <2>1, <2>4, <3>1, <3>4 DEF Tells
  <2>5. ASSUME Head(r).op = "resync" PROVE Tail(r) = <<>>
    <3>0. 1 \in 1 .. Len(r) /\ r[1].op = "resync"
      BY <2>1, <2>5
    <3>1. Len(r) = 1
      BY <2>2, <3>0 DEF OfReflector
    <3>2. Len(Tail(r)) = 0
      BY <2>1, <3>1
    <3> QED BY <2>1, <3>2, EmptySeq
  <2> QED BY <1>2, <2>1, <2>3, <2>4, <2>5
<1> QED BY <1>1, <1>2

(* What the stage needs to know of the worker's.                           *)
LEMMA WorkGoesOn ==
  ASSUME Programs, NEW t \in Task, todo[t] # <<>>, Advance(t)
  PROVE  /\ OfUpdate(todo["worker"]) => OfUpdate(todo'["worker"])
         /\ t # "worker" => todo'["worker"] = todo["worker"]
         /\ OfResync(todo["worker"]) => OfResync(todo'["worker"])
         /\ OfResync(todo["worker"]) /\ t = "worker" =>
              SentBefore(Len(todo'["worker"])) =
                SentBefore(Len(todo["worker"])) + IF Head(todo[t]).op = "send" THEN 1 ELSE 0
<1> DEFINE p == todo["worker"]
<1>0. "worker" \in Task /\ p \in Seq(Op) /\ PodCount \in Nat
  BY KubeletLocksAssumption DEF Programs, Task
<1>1. CASE t # "worker"
  BY <1>0, <1>1, AdvanceFacts
<1>2. CASE t = "worker"
  <2>1. todo'["worker"] = Tail(p) /\ p # <<>>
    BY <1>2, AdvanceFacts
  <2>2. Len(p) \in Nat \ {0} /\ Len(Tail(p)) = Len(p) - 1 /\ Head(p) = p[1] /\ 1 \in 1 .. Len(p)
    BY <1>0, <2>1, TailShift
  <2>3. ASSUME OfResync(p)
        PROVE  SentBefore(Len(Tail(p))) =
                 SentBefore(Len(p)) + IF Head(p).op = "send" THEN 1 ELSE 0
    <3>1. Left(p, 1) = Len(p)
      BY <2>2 DEF Left
    <3>2. Head(p).op = "send" <=> Len(p) \in 3 .. PodCount + 2
      BY <2>2, <2>3, <3>1 DEF OfResync
    <3> HIDE DEF p
    <3>3. Len(p) <= PodCount + 4
      BY <2>3 DEF OfResync
    <3> DEFINE n == Len(p)
    <3>4. n \in Nat \ {0} /\ Len(Tail(p)) = n - 1
      BY <2>2
    <3> HIDE DEF n
    <3>5. CASE Head(p).op = "send"
      <4>1. n \in 3 .. PodCount + 2
        BY <3>2, <3>5 DEF n
      <4>2. SentBefore(n - 1) = SentBefore(n) + 1
        BY <1>0, <4>1 DEF SentBefore
      <4> QED BY <3>4, <3>5, <4>2 DEF n
    <3>6. CASE Head(p).op # "send"
      <4>1. n \notin 3 .. PodCount + 2
        BY <3>2, <3>6 DEF n
      <4>2. SentBefore(n - 1) = SentBefore(n) /\ SentBefore(n) \in Nat
        BY <1>0, <3>4, <4>1 DEF SentBefore
      <4> QED BY <3>4, <3>6, <4>2 DEF n
    <3> QED BY <3>5, <3>6
  <2> QED BY <1>0, <1>2, <2>1, <2>3, UpdateTail, ResyncTail
<1> QED BY <1>1, <1>2

(* A step on a lock leaves things as they are.                             *)
LEMMA LockStepKeepsStage ==
  ASSUME Programs, Stage, NEW t \in Task, todo[t] # <<>>, Advance(t),
         Head(todo[t]).op \in {"read", "write", "free"},
         UNCHANGED <<notifs, hand, inbox, resyncs, relists, happens>>
  PROVE  Programs' /\ Stage'
<1>1. Programs'
  BY ProgramGoesOn DEF Programs
<1>2. CASE EventsOnly
  <2>1. \A i \in 1 .. Len(todo'["reflector"]) : todo'["reflector"][i].op # "resync"
    BY <1>2, ToldOnce DEF EventsOnly, Tells
  <2>2. OfUpdate(todo'["worker"])
    BY <1>2, WorkGoesOn DEF EventsOnly
  <2>3. EventsOnly'
    BY <1>2, <2>1, <2>2 DEF EventsOnly
  <2> QED BY <1>1, <2>3 DEF Stage
<1>3. CASE RelistedOnce
  <2>1. \A i \in 1 .. Len(todo'["reflector"]) : todo'["reflector"][i].op # "notify"
    BY <1>3, ToldOnce DEF RelistedOnce, Tells
  <2>2. todo["reflector"] = <<>> => todo'["reflector"] = <<>>
    BY ToldOnce
  <2>3. todo["worker"] = <<>> => todo'["worker"] = <<>>
    BY WorkGoesOn
  <2>4. OfUpdate(todo["worker"]) => OfUpdate(todo'["worker"])
    BY WorkGoesOn
  <2>5. ASSUME OfResync(todo["worker"]), inbox = SentBefore(Len(todo["worker"]))
        PROVE  OfResync(todo'["worker"]) /\ inbox = SentBefore(Len(todo'["worker"]))
    <3>1. CASE t = "worker"
      BY <2>5, <3>1, WorkGoesOn DEF Programs
    <3>2. CASE t # "worker"
      BY <2>5, <3>2, WorkGoesOn
    <3> QED BY <3>1, <3>2
  <2>6. RelistedOnce'
    BY <1>3, <2>1, <2>2, <2>3, <2>4, <2>5 DEF RelistedOnce
  <2> QED BY <1>1, <2>6 DEF Stage
<1> QED BY <1>1, <1>2, <1>3 DEF Stage

(* Only the reflector tells of something, only a resync sends updates.     *)
LEMMA WhoDelivers ==
  ASSUME Programs, Stage, NEW t \in Task, todo[t] # <<>>
  PROVE  /\ Head(todo[t]).op = "notify" => t = "reflector" /\ Tells("notify") /\ EventsOnly
         /\ Head(todo[t]).op = "resync" => t = "reflector" /\ RelistedOnce
         /\ Head(todo[t]).op = "send" => t = "worker" /\ OfResync(todo[t]) /\ RelistedOnce
<1>1. todo[t] \in Seq(Op) /\ Head(todo[t]) = todo[t][1] /\ 1 \in 1 .. Len(todo[t])
  <2>1. todo[t] \in Seq(Op)
    BY DEF Programs
  <2> QED BY <2>1, TailShift
<1>2. CASE t = "manager"
  BY <1>1, <1>2 DEF Programs, OfManager
<1>3. CASE t = "reflector"
  <2>1. OfReflector(todo["reflector"])
    BY DEF Programs
  <2>2. todo["reflector"][1] \in Op
    BY <1>1, <1>3
  <2>3. todo["reflector"][1].op # "send"
    BY <1>1, <1>3, <2>1, <2>2, OpForms DEF OfReflector
  <2>4. ~EventsOnly => RelistedOnce
    BY DEF Stage
  <2>5. todo["reflector"][1].op = "notify" => Tells("notify") /\ ~RelistedOnce
    BY <1>1, <1>3 DEF Tells, RelistedOnce
  <2>6. todo["reflector"][1].op = "resync" => ~EventsOnly
    BY <1>1, <1>3 DEF EventsOnly
  <2> QED BY <1>1, <1>3, <2>3, <2>4, <2>5, <2>6
<1>4. CASE t = "worker"
  <2>1. EventsOnly => OfUpdate(todo["worker"])
    BY DEF EventsOnly
  <2>2. RelistedOnce => OfUpdate(todo["worker"]) \/ OfResync(todo["worker"])
    BY <1>4 DEF RelistedOnce
  <2>3. OfUpdate(todo["worker"]) => todo["worker"][1].op \in {"read", "write", "free"}
    BY <1>1, <1>4 DEF OfUpdate
  <2>4. OfResync(todo["worker"]) => todo["worker"][1].op \in {"read", "write", "free", "send"}
    BY <1>1, <1>4 DEF OfResync
  <2> QED BY <1>1, <1>4, <2>1, <2>2, <2>3, <2>4 DEF Stage
<1> QED BY <1>2, <1>3, <1>4 DEF Task

(* A message: an event moves on, a resync is on its way, an update counts. *)
LEMMA DeliverKeepsStage ==
  ASSUME Programs, Stage, NEW t \in Task, Deliver(t)
  PROVE  Programs' /\ Stage'
<1>0. todo[t] # <<>> /\ Advance(t) /\ UNCHANGED <<hand, relists, happens>>
  BY DEF Deliver, outside
<1>1. /\ notifs \in Nat /\ inbox \in Nat /\ relists \in Nat
      /\ notifs' \in Nat /\ inbox' \in Nat /\ relists' \in Nat
  <2>1. notifs \in Nat /\ inbox \in Nat /\ relists \in Nat
    BY DEF Programs
  <2> QED BY <1>0, <2>1 DEF Deliver
<1>2. Programs'
  BY <1>0, <1>1, ProgramGoesOn
<1>3. "reflector" \in Task /\ "worker" \in Task
  BY DEF Task
<1>4. CASE /\ Head(todo[t]).op = "notify" /\ notifs' = notifs + 1
           /\ UNCHANGED <<inbox, resyncs>>
  <2>1. t = "reflector" /\ EventsOnly /\ Tells("notify") /\ ~Tells("notify")'
    BY <1>0, <1>4, WhoDelivers, ToldOnce
  <2>3. \A i \in 1 .. Len(todo'["reflector"]) : todo'["reflector"][i].op # "resync"
    BY <1>0, <2>1, ToldOnce DEF EventsOnly, Tells
  <2>4. OfUpdate(todo'["worker"])
    BY <1>0, <2>1, WorkGoesOn DEF EventsOnly
  <2>5. EventsOnly'
    BY <1>0, <1>4, <2>1, <2>3, <2>4 DEF EventsOnly
  <2> QED BY <1>2, <2>5 DEF Stage
<1>5. CASE /\ Head(todo[t]).op = "send" /\ inbox' = inbox + 1
           /\ UNCHANGED <<notifs, resyncs>>
  <2>1. t = "worker" /\ OfResync(todo["worker"]) /\ RelistedOnce
    BY <1>0, <1>5, WhoDelivers
  <2>2. todo'["reflector"] = todo["reflector"]
    BY <1>0, <2>1, ToldOnce
  <2>3. ~OfUpdate(todo["worker"]) /\ todo["worker"] # <<>>
    <3>1. todo[t] \in Seq(Op)
      BY DEF Programs
    <3>2. Head(todo[t]) = todo[t][1] /\ 1 \in 1 .. Len(todo[t])
      BY <1>0, <3>1, TailShift
    <3> QED BY <1>0, <1>5, <2>1, <3>2 DEF OfUpdate
  <2>4. /\ relists # 0 /\ todo["reflector"] = <<>> /\ ~resyncs
        /\ inbox = SentBefore(Len(todo["worker"]))
    BY <2>1, <2>3 DEF RelistedOnce
  <2>5. OfResync(todo'["worker"])
    BY <1>0, <2>1, WorkGoesOn
  <2>6. SentBefore(Len(todo'["worker"])) = SentBefore(Len(todo["worker"])) + 1
    BY <1>0, <1>5, <2>1, WorkGoesOn
  <2>7. "events" \notin happens /\ notifs = 0 /\ ~hand
    BY <2>1 DEF RelistedOnce
  <2>8. Len(todo'["reflector"]) = 0
    BY <2>2, <2>4
  <2>9. RelistedOnce'
    BY <1>0, <1>5, <2>2, <2>4, <2>5, <2>6, <2>7, <2>8 DEF RelistedOnce
  <2> QED BY <1>2, <2>9 DEF Stage
<1>6. CASE /\ Head(todo[t]).op = "resync" /\ resyncs' = TRUE
           /\ UNCHANGED <<notifs, inbox>>
  <2>1. t = "reflector" /\ RelistedOnce /\ todo'["reflector"] = <<>>
    BY <1>0, <1>6, WhoDelivers, ToldOnce
  <2>2. todo'["worker"] = todo["worker"]
    BY <1>0, <2>1, WorkGoesOn
  <2>3. inbox = 0 /\ todo["worker"] = <<>> /\ relists # 0
    BY <1>0, <2>1 DEF RelistedOnce
  <2>4. "events" \notin happens /\ notifs = 0 /\ ~hand
    BY <2>1 DEF RelistedOnce
  <2>5. Len(todo'["reflector"]) = 0
    BY <2>1
  <2>6. RelistedOnce'
    BY <1>0, <1>6, <2>1, <2>2, <2>3, <2>4, <2>5 DEF RelistedOnce
  <2> QED BY <1>2, <2>6 DEF Stage
<1> QED BY <1>4, <1>5, <1>6 DEF Deliver

(* An event arrives.                                                       *)
LEMMA ArriveKeepsStage ==
  ASSUME Programs, Stage, Arrive
  PROVE  Programs' /\ Stage' /\ todo["reflector"] = <<>>
         /\ todo' = [todo EXCEPT !["reflector"] = Event]
<1>0. /\ todo["reflector"] = <<>> /\ todo' = [todo EXCEPT !["reflector"] = Event]
      /\ "events" \in happens
      /\ UNCHANGED <<notifs, hand, inbox, resyncs, relists, happens>>
  BY DEF Arrive, Begin, queues, outside
<1>1. /\ "reflector" \in Task /\ "worker" \in Task
      /\ notifs \in Nat /\ inbox \in Nat /\ relists \in Nat /\ todo \in [Task -> Seq(Op)]
  BY DEF Programs, Task
<1>2. Programs'
  BY <1>0, <1>1, EventProgram, ProgramBegins
<1>3. EventsOnly
  BY <1>0 DEF Stage, RelistedOnce
<1>4. todo'["reflector"] = Event /\ todo'["worker"] = todo["worker"]
  BY <1>0, <1>1
<1>8. EventsOnly'
  BY <1>0, <1>3, <1>4, EventProgram DEF EventsOnly
<1> QED BY <1>0, <1>2, <1>8 DEF Stage

(* The one relist: nothing was under way before it.                        *)
LEMMA ListAgainKeepsStage ==
  ASSUME Programs, Stage, ListAgain, MaxRelists <= 1
  PROVE  /\ Programs' /\ Stage' /\ todo["reflector"] = <<>>
         /\ \E p \in Seq(Op) : todo' = [todo EXCEPT !["reflector"] = p]
<1>0. /\ todo["reflector"] = <<>> /\ "relists" \in happens
      /\ relists < MaxRelists /\ relists' = relists + 1
      /\ UNCHANGED <<notifs, hand, inbox, resyncs, happens>>
  BY DEF ListAgain, Begin, queues
<1>00. PICK p \in {NewStore, NewStore \o Resync} : todo' = [todo EXCEPT !["reflector"] = p]
  BY DEF ListAgain, Begin
<1>1. /\ "reflector" \in Task /\ "worker" \in Task
      /\ notifs \in Nat /\ inbox \in Nat /\ relists \in Nat /\ todo \in [Task -> Seq(Op)]
  BY DEF Programs, Task
<1>2. relists = 0 /\ relists' = 1
  BY <1>0, <1>1, KubeletLocksAssumption
<1>3. /\ p \in Seq(Op) /\ Guarded(p) /\ OfReflector(p)
      /\ \A i \in 1 .. Len(p) : p[i].op # "notify"
  BY NewStoreProgram
<1>4. Programs'
  <2>1. notifs' \in Nat /\ inbox' \in Nat /\ relists' \in Nat
    BY <1>0, <1>1, <1>2
  <2> QED BY <1>00, <1>1, <1>3, <2>1, ProgramBegins
<1>5. RelistedOnce
  BY <1>0 DEF Stage, EventsOnly
<1>6. todo'["reflector"] = p /\ todo'["worker"] = todo["worker"]
  BY <1>00, <1>1
<1>7. inbox = 0 /\ ~resyncs /\ todo["worker"] = <<>>
  BY <1>2, <1>5 DEF RelistedOnce
<1>8. RelistedOnce'
  BY <1>0, <1>2, <1>3, <1>5, <1>6, <1>7 DEF RelistedOnce
<1> QED BY <1>0, <1>00, <1>3, <1>4, <1>8 DEF Stage

(* The worker takes an update, or a resync, from its queue.                *)
LEMMA UpdateKeepsStage ==
  ASSUME Programs, Stage, BeginUpdate
  PROVE  /\ Programs' /\ Stage' /\ todo["worker"] = <<>>
         /\ \E p \in Seq(Op) : todo' = [todo EXCEPT !["worker"] = p]
<1>0. /\ todo["worker"] = <<>> /\ inbox > 0 /\ inbox' = inbox - 1
      /\ UNCHANGED <<notifs, hand, resyncs, relists, happens>>
  BY DEF BeginUpdate, Begin, outside
<1>00. PICK p \in Updates : todo' = [todo EXCEPT !["worker"] = p]
  BY DEF BeginUpdate, Begin
<1>1. /\ "reflector" \in Task /\ "worker" \in Task
      /\ notifs \in Nat /\ inbox \in Nat /\ relists \in Nat /\ todo \in [Task -> Seq(Op)]
  BY DEF Programs, Task
<1>2. inbox' \in Nat
  BY <1>0, <1>1
<1>3. p \in Seq(Op) /\ Guarded(p) /\ OfUpdate(p)
  BY UpdateProgram
<1>4. Programs'
  BY <1>0, <1>00, <1>1, <1>2, <1>3, ProgramBegins
<1>5. todo'["worker"] = p /\ todo'["reflector"] = todo["reflector"]
  BY <1>00, <1>1
<1>6. CASE EventsOnly
  <2>4. EventsOnly'
    BY <1>0, <1>3, <1>5, <1>6 DEF EventsOnly
  <2> QED BY <1>0, <1>00, <1>3, <1>4, <2>4 DEF Stage
<1>7. CASE RelistedOnce
  <2>1. relists # 0 /\ todo["reflector"] = <<>> /\ ~resyncs
    BY <1>0, <1>1, <1>7 DEF RelistedOnce
  <2>2. RelistedOnce'
    BY <1>0, <1>3, <1>5, <1>7, <2>1 DEF RelistedOnce
  <2> QED BY <1>0, <1>00, <1>3, <1>4, <2>2 DEF Stage
<1> QED BY <1>6, <1>7 DEF Stage

LEMMA ResyncKeepsStage ==
  ASSUME Programs, Stage, BeginResync
  PROVE  /\ Programs' /\ Stage' /\ todo["worker"] = <<>>
         /\ todo' = [todo EXCEPT !["worker"] = ResyncAll]
<1>0. /\ todo["worker"] = <<>> /\ todo' = [todo EXCEPT !["worker"] = ResyncAll]
      /\ resyncs /\ ~resyncs'
      /\ UNCHANGED <<notifs, hand, inbox, relists, happens>>
  BY DEF BeginResync, Begin, outside
<1>1. /\ "reflector" \in Task /\ "worker" \in Task
      /\ notifs \in Nat /\ inbox \in Nat /\ relists \in Nat /\ todo \in [Task -> Seq(Op)]
  BY DEF Programs, Task
<1>2. Programs'
  BY <1>0, <1>1, ResyncProgram, ProgramBegins
<1>3. todo'["worker"] = ResyncAll /\ todo'["reflector"] = todo["reflector"]
  BY <1>0, <1>1
<1>4. RelistedOnce
  BY <1>0 DEF Stage, EventsOnly
<1>5. relists # 0 /\ todo["reflector"] = <<>> /\ inbox = 0
  BY <1>0, <1>4 DEF RelistedOnce
<1>6. SentBefore(Len(ResyncAll)) = 0
  BY ResyncShape, KubeletLocksAssumption DEF SentBefore
<1>7. RelistedOnce'
  BY <1>0, <1>3, <1>4, <1>5, <1>6, ResyncProgram DEF RelistedOnce
<1> QED BY <1>0, <1>2, <1>7 DEF Stage

(* The status manager begins its walk.                                     *)
LEMMA WakeUpKeepsStage ==
  ASSUME Programs, Stage, WakeUp
  PROVE  /\ Programs' /\ Stage' /\ todo["manager"] = <<>>
         /\ todo' = [todo EXCEPT !["manager"] = Walk]
<1>0. /\ todo["manager"] = <<>> /\ todo' = [todo EXCEPT !["manager"] = Walk]
      /\ UNCHANGED <<notifs, hand, inbox, resyncs, relists, happens>>
  BY DEF WakeUp, Begin, queues, outside
<1>1. /\ "manager" \in Task /\ notifs \in Nat /\ inbox \in Nat /\ relists \in Nat
      /\ "worker" \in Task /\ "reflector" \in Task /\ todo \in [Task -> Seq(Op)]
  BY DEF Programs, Task
<1>2. Programs'
  BY <1>0, <1>1, WalkProgram, ProgramBegins
<1>3. todo'["worker"] = todo["worker"] /\ todo'["reflector"] = todo["reflector"]
  BY <1>0, <1>1
<1>5. EventsOnly => EventsOnly'
  BY <1>0, <1>3 DEF EventsOnly
<1>6. RelistedOnce => RelistedOnce'
  BY <1>0, <1>3 DEF RelistedOnce
<1> QED BY <1>0, <1>2, <1>5, <1>6 DEF Stage

(* The informer's part: what is under way stays as much.                   *)
LEMMA InformerKeepsStage ==
  ASSUME Programs, Stage, Take \/ Pass
  PROVE  Programs' /\ Stage'
<1>0. UNCHANGED <<todo, resyncs, relists, happens>>
  BY DEF Take, Pass, outside
<1>1. notifs \in Nat /\ inbox \in Nat /\ relists \in Nat
  BY DEF Programs
<1>2. \/ ~hand /\ hand' = TRUE /\ notifs > 0 /\ notifs' = notifs - 1 /\ inbox' = inbox
      \/ hand /\ hand' = FALSE /\ notifs' = notifs /\ inbox' = inbox + 1
  BY DEF Take, Pass
<1>3. notifs' \in Nat /\ inbox' \in Nat /\ relists' \in Nat
  BY <1>0, <1>1, <1>2
<1>4. Programs'
  BY <1>0, <1>3 DEF Programs
<1>5. EventsOnly
  BY <1>1, <1>2 DEF Stage, RelistedOnce
<1>8. EventsOnly'
  BY <1>0, <1>5 DEF EventsOnly
<1> QED BY <1>4, <1>8 DEF Stage

-------------------------------------------------------------------------------
(* The invariant, as long as the pods find room in the worker's queue, and *)
(* there are either events, however many, or one relist.                   *)
RoomForAll ==
  /\ MaxRelists <= 1
  /\ PodCount <= InboxCap
  /\ \A w \in LockWorlds : ~(Happening \subseteq w)

LEMMA LocksInvInit == RoomForAll /\ LocksInit => LocksInv
<1> SUFFICES ASSUME RoomForAll, LocksInit PROVE LocksInv
  OBVIOUS
<1>0. /\ todo = [t \in Task |-> <<>>]
      /\ held = [l \in Lock |-> {}] /\ waiting = [l \in Lock |-> <<>>]
      /\ notifs = 0 /\ hand = FALSE /\ inbox = 0 /\ resyncs = FALSE /\ relists = 0
      /\ happens \in LockWorlds
  BY DEF LocksInit
<1>1. \A t \in Task : todo[t] = <<>> /\ Len(todo[t]) = 0
  BY <1>0
<1>2. "reflector" \in Task /\ "worker" \in Task /\ "manager" \in Task
  BY DEF Task
<1>3. Programs
  BY <1>0, <1>1, <1>2 DEF Programs, Guarded, OfReflector, OfManager
<1>4. Asked
  BY <1>0 DEF Asked
<1>5. Granted
  BY <1>0 DEF Granted
<1>6. "events" \notin happens \/ "relists" \notin happens
  BY <1>0 DEF RoomForAll, Happening
<1>7. CASE "relists" \notin happens
  <2>2. EventsOnly
    BY <1>0, <1>1, <1>2, <1>7 DEF EventsOnly, OfUpdate
  <2> QED BY <1>3, <1>4, <1>5, <2>2 DEF LocksInv
<1>8. CASE "events" \notin happens
  <2>1. RelistedOnce
    BY <1>0, <1>1, <1>2, <1>8 DEF RelistedOnce
  <2> QED BY <1>3, <1>4, <1>5, <2>1 DEF LocksInv
<1> QED BY <1>6, <1>7, <1>8

LEMMA LocksInvNext == RoomForAll /\ LocksInv /\ [LocksNext]_locksVars => LocksInv'
<1> SUFFICES ASSUME RoomForAll, LocksInv, [LocksNext]_locksVars PROVE LocksInv'
  OBVIOUS
<1>0. Programs /\ Stage /\ Asked /\ Granted /\ MaxRelists <= 1
  BY DEF LocksInv, Stage, RoomForAll
<1>1. SUFFICES Programs' /\ Stage' /\ Asked' /\ Granted'
  BY DEF LocksInv, Stage
<1>2. CASE Arrive
  <2>1. UNCHANGED <<held, waiting>> /\ "reflector" \in Task /\ Event \in Seq(Op)
    BY <1>2, EventProgram DEF Arrive, Task
  <2> QED BY <1>0, <1>2, <2>1, ArriveKeepsStage, BeginKeepsLocks
<1>3. CASE ListAgain
  <2>1. UNCHANGED <<held, waiting>> /\ "reflector" \in Task
    BY <1>3 DEF ListAgain, Task
  <2>2. PICK p \in Seq(Op) : todo' = [todo EXCEPT !["reflector"] = p]
    BY <1>0, <1>3, ListAgainKeepsStage
  <2> QED BY <1>0, <1>3, <2>1, <2>2, ListAgainKeepsStage, BeginKeepsLocks
<1>4. CASE BeginUpdate
  <2>1. UNCHANGED <<held, waiting>> /\ "worker" \in Task
    BY <1>4 DEF BeginUpdate, Task
  <2>2. PICK p \in Seq(Op) : todo' = [todo EXCEPT !["worker"] = p]
    BY <1>0, <1>4, UpdateKeepsStage
  <2> QED BY <1>0, <1>4, <2>1, <2>2, UpdateKeepsStage, BeginKeepsLocks
<1>5. CASE BeginResync
  <2>1. UNCHANGED <<held, waiting>> /\ "worker" \in Task /\ ResyncAll \in Seq(Op)
    BY <1>5, ResyncProgram DEF BeginResync, Task
  <2> QED BY <1>0, <1>5, <2>1, ResyncKeepsStage, BeginKeepsLocks
<1>6. CASE WakeUp
  <2>1. UNCHANGED <<held, waiting>> /\ "manager" \in Task /\ Walk \in Seq(Op)
    BY <1>6, WalkProgram DEF WakeUp, Task
  <2> QED BY <1>0, <1>6, <2>1, WakeUpKeepsStage, BeginKeepsLocks
<1>7. ASSUME NEW t \in Task, Ask(t) PROVE Programs' /\ Stage' /\ Asked' /\ Granted'
  <2>1. UNCHANGED <<todo, notifs, hand, inbox, resyncs, relists, happens>>
    BY <1>7 DEF Ask, queues, outside
  <2>2. Programs'
    BY <1>0, <2>1 DEF Programs
  <2>4. Stage'
    BY <1>0, <2>1 DEF Stage, EventsOnly, RelistedOnce
  <2> QED BY <1>0, <1>7, <2>2, <2>4, AskKeepsLocks
<1>8. ASSUME NEW t \in Task, Release(t) PROVE Programs' /\ Stage' /\ Asked' /\ Granted'
  <2>1. /\ todo[t] # <<>> /\ Advance(t) /\ Head(todo[t]).op \in {"read", "write", "free"}
        /\ UNCHANGED <<notifs, hand, inbox, resyncs, relists, happens>>
    BY <1>8 DEF Release, queues, outside
  <2> QED BY <1>0, <1>8, <2>1, LockStepKeepsStage, ReleaseKeepsLocks
<1>9. ASSUME NEW t \in Task, Deliver(t) PROVE Programs' /\ Stage' /\ Asked' /\ Granted'
  <2>1. /\ todo[t] # <<>> /\ Advance(t) /\ Head(todo[t]).op \in {"notify", "send", "resync"}
        /\ UNCHANGED <<held, waiting>>
    BY <1>9 DEF Deliver
  <2> QED BY <1>0, <1>9, <2>1, DeliverKeepsStage, MessageKeepsLocks
<1>10. ASSUME NEW l \in Lock, Grant(l) PROVE Programs' /\ Stage' /\ Asked' /\ Granted'
  <2>1. UNCHANGED <<notifs, hand, inbox, resyncs, relists, happens>>
    BY <1>10 DEF Grant, queues, outside
  <2>2. /\ Asked' /\ Granted'
        /\ \E t \in Task : /\ todo[t] # <<>> /\ Advance(t)
                           /\ Head(todo[t]).op \in {"read", "write"}
    BY <1>0, <1>10, GrantKeepsLocks
  <2>3. PICK t \in Task : /\ todo[t] # <<>> /\ Advance(t)
                          /\ Head(todo[t]).op \in {"read", "write", "free"}
    BY <2>2
  <2> QED BY <1>0, <2>1, <2>2, <2>3, LockStepKeepsStage
<1>11. CASE Take \/ Pass
  <2>1. UNCHANGED <<todo, held, waiting>>
    BY <1>11 DEF Take, Pass
  <2>2. Asked'
    BY <1>0, <2>1 DEF Asked
  <2>3. Granted'
    BY <1>0, <2>1 DEF Granted
  <2> QED BY <1>0, <1>11, <2>2, <2>3, InformerKeepsStage
<1>12. CASE UNCHANGED locksVars
  <2>1. UNCHANGED <<todo, held, waiting, notifs, hand, inbox, resyncs, relists, happens>>
    BY <1>12 DEF locksVars, queues, outside
  <2> QED BY <1>0, <2>1 DEF Programs, Stage, EventsOnly, RelistedOnce, Asked, Granted
<1>13. CASE \E t \in Task : Step(t)
  BY <1>7, <1>8, <1>9, <1>13 DEF Step
<1>14. CASE \E l \in Lock : Grant(l)
  BY <1>10, <1>14
<1> QED BY <1>2, <1>3, <1>4, <1>5, <1>6, <1>11, <1>12, <1>13, <1>14 DEF LocksNext

-------------------------------------------------------------------------------
(* Who waits for whom, and why there is no circle.                         *)

Wants(t, l) ==
  todo[t] # <<>> /\ Head(todo[t]).on = l /\ Head(todo[t]).op \in {"read", "write"}

(* Task u stands before t in the line for a lock, or holds the lock that t *)
(* is the first to ask for, and does not share it.                         *)
InLine(t, u, l) ==
  \E i, j \in 1 .. Len(waiting[l]) :
    j < i /\ waiting[l][i][1] = t /\ waiting[l][j][1] = u
InWay(t, u, l) ==
  /\ waiting[l] # <<>> /\ waiting[l][1][1] = t
  /\ \E c \in held[l] : c[1] = u /\ ~Agree(waiting[l][1], {c})
Blocks(u, t) == \E l \in Lock : InLine(t, u, l) \/ InWay(t, u, l)

(* Only the reflector waits for a full channel, at an event: a resync has  *)
(* not sent an update for each pod yet when it sends one.                  *)
LEMMA OnlyEventsFindNoRoom ==
  ASSUME RoomForAll, LocksInv, NEW t \in Task, todo[t] # <<>>, inbox = InboxCap
  PROVE  /\ Head(todo[t]) # Send[1]
         /\ Head(todo[t]) = Notify[1] => t = "reflector" /\ EventsOnly
                                         /\ Head(todo[t]).op = "notify"
<1>0. Programs /\ Stage
  BY DEF LocksInv, Stage
<1>1. Send[1].op = "send" /\ Notify[1].op = "notify"
  <2>1. /\ Send[1] = [op |-> "send", on |-> "queue"]
        /\ Notify[1] = [op |-> "notify", on |-> "informer"]
    BY Steps, Locks
  <2> QED BY <2>1
<1>2. ASSUME Head(todo[t]).op = "send" PROVE FALSE
  <2>1. t = "worker" /\ OfResync(todo["worker"]) /\ RelistedOnce
    BY <1>0, <1>2, WhoDelivers
  <2>2. /\ todo["worker"] \in Seq(Op) /\ Head(todo["worker"]) = todo["worker"][1]
        /\ 1 \in 1 .. Len(todo["worker"]) /\ Len(todo["worker"]) \in Nat
    <3>1. todo["worker"] \in Seq(Op)
      BY <1>0, <2>1 DEF Programs
    <3> QED BY <2>1, <3>1, TailShift
  <2>3. Left(todo["worker"], 1) \in 3 .. PodCount + 2
    BY <1>2, <2>1, <2>2 DEF OfResync
  <2>4. Len(todo["worker"]) \in 3 .. PodCount + 2
    BY <2>2, <2>3 DEF Left
  <2>5. ~OfUpdate(todo["worker"]) /\ todo["worker"] # <<>>
    BY <1>2, <2>1, <2>2 DEF OfUpdate
  <2>6. inbox = SentBefore(Len(todo["worker"]))
    BY <2>1, <2>5 DEF RelistedOnce
  <2>7. inbox < PodCount
    <3> DEFINE n == Len(todo["worker"])
    <3>1. n \in Nat /\ n \in 3 .. PodCount + 2 /\ inbox = SentBefore(n)
      BY <2>2, <2>4, <2>6
    <3> HIDE DEF n
    <3>2. inbox = PodCount + 2 - n
      BY <3>1, KubeletLocksAssumption DEF SentBefore
    <3> QED BY <3>1, <3>2, KubeletLocksAssumption
  <2> QED BY <2>7, KubeletLocksAssumption DEF RoomForAll
<1>3. ASSUME Head(todo[t]) = Notify[1]
      PROVE  t = "reflector" /\ EventsOnly /\ Head(todo[t]).op = "notify"
  BY <1>0, <1>1, <1>3, WhoDelivers
<1> QED BY <1>1, <1>2, <1>3

(* The reflector waits for the worker to make room.                        *)
FindsNoRoom ==
  /\ todo["reflector"] # <<>> /\ Head(todo["reflector"]).op = "notify"
  /\ hand /\ notifs = NotifyCap /\ inbox = InboxCap
  /\ EventsOnly

LEMMA WaitsForLocks ==
  ASSUME RoomForAll, LocksInv, NEW t \in Task, NEW u \in WaitsFor(t)
  PROVE  Blocks(u, t) \/ (t = "reflector" /\ u = "worker" /\ FindsNoRoom)
<1>0. ASSUME todo[t] # <<>>, inbox = InboxCap,
             \/ Head(todo[t]) = Send[1]
             \/ Head(todo[t]) = Notify[1] /\ hand /\ notifs = NotifyCap,
             u = "worker"
      PROVE  t = "reflector" /\ u = "worker" /\ FindsNoRoom
  BY <1>0, OnlyEventsFindNoRoom DEF FindsNoRoom
<1>00. SUFFICES ASSUME NEW k \in Lock, Waits(t, k), u \in Before(t, k)
                PROVE  Blocks(u, t)
  BY <1>0 DEF WaitsFor
<1>1. PICK l \in Lock : Waits(t, l) /\ u \in Before(t, l)
  BY <1>00
<1> DEFINE mine == CHOOSE i \in 1 .. Len(waiting[l]) : waiting[l][i][1] = t
           ahead == {waiting[l][i][1] : i \in 1 .. mine - 1}
           others == {c[1] : c \in {c \in held[l] : ~Agree(waiting[l][1], {c})}}
<1>2. waiting[l] \in Seq(Claim)
  BY DEF LocksInv, Asked
<1>3. mine \in 1 .. Len(waiting[l]) /\ waiting[l][mine][1] = t
  BY <1>1 DEF Waits
<1>4. u \in ahead \/ (mine = 1 /\ u \in others)
  <2>1. Before(t, l) = ahead \cup (IF mine = 1 THEN others ELSE {})
    BY DEF Before
  <2> HIDE DEF mine, ahead, others
  <2> QED BY <1>1, <2>1
<1> HIDE DEF mine
<1>5. CASE u \in ahead
  <2>1. PICK j \in 1 .. mine - 1 : waiting[l][j][1] = u
    BY <1>5
  <2>2. Len(waiting[l]) \in Nat
    BY <1>2
  <2>3. j \in 1 .. Len(waiting[l]) /\ j < mine
    BY <1>3, <2>1, <2>2
  <2>4. InLine(t, u, l)
    BY <1>3, <2>1, <2>3 DEF InLine
  <2> QED BY <2>4 DEF Blocks
<1>6. CASE mine = 1 /\ u \in others
  <2>1. waiting[l] # <<>>
    BY <1>3
  <2>2. InWay(t, u, l)
    BY <1>3, <1>6, <2>1 DEF InWay
  <2> QED BY <2>2 DEF Blocks
<1> QED BY <1>4, <1>5, <1>6

LEMMA WantsOne ==
  ASSUME LocksInv, NEW t \in Task, NEW l \in Lock
  PROVE  /\ Holding(todo[t], l) => ~Wants(t, l)
         /\ \A m \in Lock : Wants(t, l) /\ Wants(t, m) => m = l
<1>1. todo[t] \in Seq(Op)
  BY DEF LocksInv, Programs
<1> QED BY <1>1, NotYetHolding DEF Wants

LEMMA LineFacts ==
  ASSUME LocksInv, NEW t, NEW u, NEW l \in Lock, InLine(t, u, l)
  PROVE  /\ t \in Task /\ u \in Task /\ Wants(t, l) /\ Wants(u, l)
         /\ ~InLine(u, t, l)
         /\ \A v : InLine(u, v, l) => InLine(t, v, l)
<1>1. PICK i \in 1 .. Len(waiting[l]), j \in 1 .. Len(waiting[l]) :
        j < i /\ waiting[l][i][1] = t /\ waiting[l][j][1] = u
  BY DEF InLine
<1>2. waiting[l] \in Seq(Claim)
  BY DEF LocksInv, Asked
<1>3. \A k \in 1 .. Len(waiting[l]) :
         waiting[l][k][1] \in Task /\ waiting[l][k][2] \in {"read", "write"}
  <2>1. \A k \in 1 .. Len(waiting[l]) : waiting[l][k] \in Claim
    BY <1>2
  <2> QED BY <2>1 DEF Claim
<1>4. /\ \A k \in 1 .. Len(waiting[l]) :
           /\ todo[waiting[l][k][1]] # <<>>
           /\ Head(todo[waiting[l][k][1]]) = [op |-> waiting[l][k][2], on |-> l]
      /\ \A m, n \in 1 .. Len(waiting[l]) : waiting[l][m][1] = waiting[l][n][1] => m = n
  BY DEF LocksInv, Asked
<1>5. \A k \in 1 .. Len(waiting[l]) : Wants(waiting[l][k][1], l)
  <2>1. ASSUME NEW k \in 1 .. Len(waiting[l]) PROVE Wants(waiting[l][k][1], l)
    <3>1. Head(todo[waiting[l][k][1]]) = [op |-> waiting[l][k][2], on |-> l]
      BY <1>4
    <3>2. /\ Head(todo[waiting[l][k][1]]).op = waiting[l][k][2]
          /\ Head(todo[waiting[l][k][1]]).on = l
      BY <3>1
    <3> QED BY <1>3, <1>4, <3>2 DEF Wants
  <2> QED BY <2>1
<1>6. ~InLine(u, t, l)
  <2> SUFFICES ASSUME InLine(u, t, l) PROVE FALSE
    OBVIOUS
  <2>1. PICK m \in 1 .. Len(waiting[l]), n \in 1 .. Len(waiting[l]) :
          n < m /\ waiting[l][m][1] = u /\ waiting[l][n][1] = t
    BY DEF InLine
  <2>2. m = j /\ n = i
    BY <1>1, <1>4, <2>1
  <2>3. Len(waiting[l]) \in Nat
    BY <1>2
  <2> QED BY <1>1, <2>1, <2>2, <2>3
<1>7. ASSUME NEW v, InLine(u, v, l) PROVE InLine(t, v, l)
  <2>1. PICK m \in 1 .. Len(waiting[l]), n \in 1 .. Len(waiting[l]) :
          n < m /\ waiting[l][m][1] = u /\ waiting[l][n][1] = v
    BY <1>7 DEF InLine
  <2>2. m = j
    BY <1>1, <1>4, <2>1
  <2>3. Len(waiting[l]) \in Nat
    BY <1>2
  <2>4. n < i
    BY <1>1, <2>1, <2>2, <2>3
  <2> QED BY <1>1, <2>1, <2>4 DEF InLine
<1> QED BY <1>1, <1>3, <1>5, <1>6, <1>7

(* A writer or the reflector is in the way at the store: the others share. *)
LEMMA WayFacts ==
  ASSUME LocksInv, NEW t, NEW u, NEW l \in Lock, InWay(t, u, l)
  PROVE  /\ t \in Task /\ u \in Task /\ Wants(t, l) /\ Holding(todo[u], l)
         /\ l = "store" => t = "reflector" \/ u = "reflector"
<1>1. waiting[l] # <<>> /\ waiting[l][1][1] = t
  BY DEF InWay
<1>2. PICK c \in held[l] : c[1] = u /\ ~Agree(waiting[l][1], {c})
  BY DEF InWay
<1>3. waiting[l] \in Seq(Claim) /\ held \in [Lock -> SUBSET Claim]
  BY DEF LocksInv, Asked, Granted
<1>4. 1 \in 1 .. Len(waiting[l]) /\ waiting[l][1] \in Claim
  BY <1>1, <1>3, HeadTailProperties
<1>5. /\ todo[t] # <<>>
      /\ Head(todo[t]) = [op |-> waiting[l][1][2], on |-> l]
  BY <1>1, <1>4 DEF LocksInv, Asked
<1>6. t \in Task /\ waiting[l][1][2] \in {"read", "write"} /\ u \in Task
  BY <1>1, <1>2, <1>3, <1>4 DEF Claim
<1>7. Wants(t, l)
  BY <1>5, <1>6 DEF Wants
<1>8. Holding(todo[u], l) /\ (l = "store" /\ u # "reflector" => c[2] = "read")
  BY <1>2 DEF LocksInv, Granted
<1>9. ASSUME l = "store", t # "reflector", u # "reflector" PROVE FALSE
  <2>1. t \in {"worker", "manager"}
    BY <1>6, <1>9 DEF Task
  <2>2. todo[t] \in Seq(Op)
    BY <1>6 DEF LocksInv, Programs
  <2>3. Head(todo[t]) = todo[t][1] /\ 1 \in 1 .. Len(todo[t])
    BY <1>5, <2>2, TailShift
  <2>4. todo[t][1].on = "store" => todo[t][1].op \in {"read", "free"}
    BY <2>1, <2>3, StoreIsRead DEF LocksInv, Stage
  <2>5. waiting[l][1][2] = "read"
    BY <1>5, <1>6, <1>9, <2>3, <2>4
  <2> QED BY <1>2, <1>8, <1>9, <2>5 DEF Agree
<1> QED BY <1>6, <1>7, <1>8, <1>9

(* The reflector has to do with the store only.                            *)
LEMMA ReflectorAtStore ==
  ASSUME LocksInv, NEW l \in Lock, Wants("reflector", l) \/ Holding(todo["reflector"], l)
  PROVE  l = "store"
<1>1. "reflector" \in Task /\ todo["reflector"] \in Seq(Op) /\ OfReflector(todo["reflector"])
  BY DEF LocksInv, Programs, Task
<1>2. \A i \in 1 .. Len(todo["reflector"]) : todo["reflector"][i].on \in {"store", "informer"}
  BY <1>1 DEF OfReflector
<1>3. CASE Wants("reflector", l)
  <2>1. Head(todo["reflector"]) = todo["reflector"][1] /\ 1 \in 1 .. Len(todo["reflector"])
    BY <1>1, <1>3, TailShift DEF Wants
  <2> QED BY <1>2, <1>3, <2>1 DEF Wants, Lock
<1>4. CASE Holding(todo["reflector"], l)
  <2>1. PICK i \in 1 .. Len(todo["reflector"]) :
          todo["reflector"][i] = [op |-> "free", on |-> l]
    BY <1>4 DEF Holding
  <2> QED BY <1>2, <2>1 DEF Lock
<1> QED BY <1>3, <1>4

(* Who holds the store and asks for the list is the worker at a resync, or *)
(* the reflector: the manager frees the store first.                       *)
LEMMA HoldsStoreWantsPods ==
  ASSUME LocksInv, NEW t \in {"worker", "manager"}, Holding(todo[t], "store"), Wants(t, "pods")
  PROVE  todo["reflector"] = <<>>
<1>1. t \in Task /\ todo[t] \in Seq(Op)
  BY DEF LocksInv, Programs, Task
<1>2. PICK i \in 1 .. Len(todo[t]) : /\ todo[t][i] = [op |-> "free", on |-> "store"]
                                      /\ \A j \in 1 .. i - 1 : todo[t][j].on # "store"
  BY DEF Holding
<1>3. CASE t = "manager"
  <2>1. OfManager(todo[t])
    BY <1>3 DEF LocksInv, Programs
  <2>2. Head(todo[t]) = todo[t][1] /\ todo[t][1].on = "pods"
    BY <1>1, TailShift DEF Wants
  <2>3. i > 1
    BY <1>2, <2>2
  <2>4. todo[t][i - 1] = [op |-> "read", on |-> "store"]
    BY <1>2, <2>1, <2>3 DEF OfManager
  <2>5. i - 1 \in 1 .. i - 1
    BY <2>3
  <2> QED BY <1>2, <2>4, <2>5
<1>4. CASE t = "worker"
  <2>1. ~OfUpdate(todo["worker"]) /\ todo["worker"] # <<>>
    BY <1>2, <1>4 DEF OfUpdate
  <2> QED BY <2>1 DEF LocksInv, EventsOnly, RelistedOnce
<1> QED BY <1>3, <1>4

LEMMA BlockFacts ==
  ASSUME LocksInv, NEW t, NEW u, Blocks(u, t)
  PROVE  \E l \in Lock : /\ t \in Task /\ u \in Task /\ Wants(t, l)
                         /\ \/ InLine(t, u, l) /\ Wants(u, l)
                            \/ InWay(t, u, l) /\ Holding(todo[u], l)
BY LineFacts, WayFacts DEF Blocks

LEMMA NoSelf ==
  ASSUME LocksInv, NEW t
  PROVE  ~Blocks(t, t)
<1> SUFFICES ASSUME Blocks(t, t) PROVE FALSE
  OBVIOUS
<1>1. PICK l \in Lock : /\ t \in Task /\ Wants(t, l)
                        /\ InLine(t, t, l) \/ Holding(todo[t], l)
  BY BlockFacts
<1> QED BY <1>1, LineFacts, WantsOne

(* Two tasks: they would hold both locks, and share the store.             *)
LEMMA NoPair ==
  ASSUME LocksInv, NEW t, NEW u, Blocks(u, t), Blocks(t, u)
  PROVE  FALSE
<1>1. PICK l \in Lock : /\ t \in Task /\ u \in Task /\ Wants(t, l)
                        /\ \/ InLine(t, u, l) /\ Wants(u, l)
                           \/ InWay(t, u, l) /\ Holding(todo[u], l)
  BY BlockFacts
<1>2. PICK m \in Lock : /\ Wants(u, m)
                        /\ \/ InLine(u, t, m) /\ Wants(t, m)
                           \/ InWay(u, t, m) /\ Holding(todo[t], m)
  BY BlockFacts
<1>3. l # m
  <2> SUFFICES ASSUME l = m PROVE FALSE
    OBVIOUS
  <2>1. InLine(t, u, l) /\ InLine(u, t, l)
    BY <1>1, <1>2, WantsOne
  <2> QED BY <2>1, LineFacts
<1>4. InWay(t, u, l) /\ Holding(todo[u], l) /\ InWay(u, t, m) /\ Holding(todo[t], m)
  BY <1>1, <1>2, <1>3, WantsOne
<1>5. ASSUME NEW a \in Task, NEW b \in Task, InWay(a, b, "store"),
             Holding(todo[a], "pods"), Wants(b, "pods")
      PROVE  FALSE
  <2>1. a # "reflector" /\ b # "reflector"
    BY <1>5, ReflectorAtStore, Locks
  <2> QED BY <1>5, <2>1, WayFacts, Locks
<1> QED BY <1>1, <1>2, <1>3, <1>4, <1>5 DEF Lock

(* Three tasks: the reflector waits for one that holds the store and asks  *)
(* for the list, while nothing is left for the reflector to do.            *)
LEMMA NoTriple ==
  ASSUME LocksInv, NEW x \in {"worker", "manager"}, NEW y \in {"worker", "manager"},
         Blocks(y, "reflector"), Blocks(x, y), Blocks("reflector", x)
  PROVE  FALSE
<1> DEFINE r == "reflector"
<1>0. r \in Task /\ x \in Task /\ y \in Task /\ "store" \in Lock
  BY DEF Task, Lock
<1>1. Wants(r, "store") /\ ((InLine(r, y, "store") /\ Wants(y, "store"))
                            \/ (InWay(r, y, "store") /\ Holding(todo[y], "store")))
  <2>1. PICK l \in Lock : /\ Wants(r, l)
                          /\ \/ InLine(r, y, l) /\ Wants(y, l)
                             \/ InWay(r, y, l) /\ Holding(todo[y], l)
    BY BlockFacts
  <2>2. l = "store"
    BY <2>1, ReflectorAtStore
  <2> QED BY <2>1, <2>2
<1>2. Wants(x, "store") /\ (InLine(x, r, "store") \/ Holding(todo[r], "store"))
  BY BlockFacts, ReflectorAtStore
<1>3. InLine(x, r, "store")
  BY <1>0, <1>1, <1>2, WantsOne
<1>4. PICK l \in Lock : /\ Wants(y, l)
                        /\ \/ InLine(y, x, l) /\ Wants(x, l)
                           \/ InWay(y, x, l) /\ Holding(todo[x], l)
  BY BlockFacts
<1>5. CASE l = "store"
  <2>1. InLine(y, x, "store")
    BY <1>0, <1>2, <1>4, <1>5, WantsOne
  <2>2. InLine(r, y, "store")
    BY <1>0, <1>1, <1>4, <1>5, WantsOne
  <2>3. InLine(r, x, "store")
    BY <1>0, <2>1, <2>2, LineFacts
  <2> QED BY <1>0, <1>3, <2>3, LineFacts
<1>6. CASE l = "pods"
  <2>1. Holding(todo[y], "store")
    BY <1>0, <1>1, <1>4, <1>6, WantsOne, Locks
  <2>2. todo[r] = <<>>
    BY <1>4, <1>6, <2>1, HoldsStoreWantsPods
  <2> QED BY <1>1, <2>2 DEF Wants
<1> QED BY <1>5, <1>6 DEF Lock

(* Tasks that wait for nothing but locks wait in no circle.                *)
LEMMA LocksMakeNoCircle ==
  ASSUME LocksInv, NEW ts \in (SUBSET Task) \ {{}},
         \A t \in ts : \E u \in ts : Blocks(u, t)
  PROVE  FALSE
<1>2. PICK a \in ts : TRUE
  OBVIOUS
<1>3. PICK b \in ts : Blocks(b, a)
  OBVIOUS
<1>4. PICK c \in ts : Blocks(c, b)
  OBVIOUS
<1>5. PICK d \in ts : Blocks(d, c)
  OBVIOUS
<1>6. a # b /\ b # c /\ c # d /\ a # c /\ b # d
  BY <1>3, <1>4, <1>5, NoSelf, NoPair
<1>7. a = d
  BY <1>6 DEF Task
<1>8. \A x, y \in {"worker", "manager"} :
        ~(Blocks(y, "reflector") /\ Blocks(x, y) /\ Blocks("reflector", x))
  BY NoTriple
<1>9. CASE a = "reflector"
  <2>1. b \in {"worker", "manager"} /\ c \in {"worker", "manager"}
    BY <1>6, <1>9 DEF Task
  <2> QED BY <1>3, <1>4, <1>5, <1>7, <1>8, <1>9, <2>1
<1>10. CASE b = "reflector"
  <2>1. a \in {"worker", "manager"} /\ c \in {"worker", "manager"}
    BY <1>6, <1>10 DEF Task
  <2> QED BY <1>3, <1>4, <1>5, <1>7, <1>8, <1>10, <2>1
<1>11. CASE c = "reflector"
  <2>1. a \in {"worker", "manager"} /\ b \in {"worker", "manager"}
    BY <1>6, <1>11 DEF Task
  <2> QED BY <1>3, <1>4, <1>5, <1>7, <1>8, <1>11, <2>1
<1> QED BY <1>6, <1>9, <1>10, <1>11 DEF Task

(* A reflector that finds no room asks for no lock; and with events alone  *)
(* the worker waits neither for the reflector nor for itself.              *)
LEMMA FullQueueFacts ==
  ASSUME LocksInv, FindsNoRoom
  PROVE  /\ \A u : ~Blocks(u, "reflector")
         /\ ~Blocks("reflector", "worker") /\ ~Blocks("worker", "worker")
<1>1. ASSUME NEW u, Blocks(u, "reflector") PROVE FALSE
  BY <1>1, BlockFacts DEF FindsNoRoom, Wants
<1>2. ASSUME Blocks("reflector", "worker") PROVE FALSE
  <2>1. PICK l \in Lock : /\ Wants("worker", l)
                          /\ Wants("reflector", l) \/ Holding(todo["reflector"], l)
    BY <1>2, BlockFacts
  <2>2. l = "store"
    BY <2>1, ReflectorAtStore
  <2>3. todo["worker"] \in Seq(Op) /\ todo["worker"] # <<>>
    BY <2>1 DEF Wants, LocksInv, Programs, Task
  <2>4. Head(todo["worker"]) = todo["worker"][1] /\ 1 \in 1 .. Len(todo["worker"])
    BY <2>3, TailShift
  <2>5. OfUpdate(todo["worker"])
    BY DEF FindsNoRoom, EventsOnly
  <2> QED BY <2>1, <2>2, <2>4, <2>5 DEF Wants, OfUpdate
<1> QED BY <1>1, <1>2, NoSelf

LEMMA CirclesFromInv == RoomForAll /\ LocksInv => CirclesNeedFullQueues
<1> SUFFICES ASSUME RoomForAll, LocksInv,
                    NEW ts \in (SUBSET Task) \ {{}},
                    \A t \in ts : WaitsFor(t) \cap ts # {}
             PROVE  /\ ts = Task
                    /\ "relists" \notin happens
                    /\ hand /\ notifs = NotifyCap /\ inbox = InboxCap
  BY DEF CirclesNeedFullQueues
<1>1. ASSUME NEW t \in ts
      PROVE  \E u \in ts : Blocks(u, t) \/ (t = "reflector" /\ u = "worker" /\ FindsNoRoom)
  BY WaitsForLocks
<1>2. FindsNoRoom /\ "reflector" \in ts
  <2>1. ASSUME ~(FindsNoRoom /\ "reflector" \in ts) PROVE FALSE
    <3>1. \A t \in ts : \E u \in ts : Blocks(u, t)
      BY <1>1, <2>1
    <3> QED BY <3>1, LocksMakeNoCircle
  <2> QED BY <2>1
<1>3. "worker" \in ts
  BY <1>1, <1>2, FullQueueFacts
<1>4. "manager" \in ts
  <2>1. PICK u \in ts : Blocks(u, "worker")
    BY <1>1, <1>3
  <2> QED BY <1>2, <2>1, FullQueueFacts DEF Task
<1> QED BY <1>2, <1>3, <1>4 DEF FindsNoRoom, EventsOnly, Task

(* The tasks of a kubelet (tokio::spawn in main of rkubelet) wait in a     *)
(* circle only if events have filled both channels, and then all three     *)
(* stand; as long as the worker's queue holds an update for each pod of    *)
(* the node, and events and relists do not happen together, locks alone    *)
(* make no circle.                                                         *)
THEOREM OnlyFullQueuesMakeCircles ==
  ASSUME RoomForAll
  PROVE  LocksSpec => []CirclesNeedFullQueues
<1>1. LocksInit => LocksInv
  BY LocksInvInit
<1>2. LocksInv /\ [LocksNext]_locksVars => LocksInv'
  BY LocksInvNext
<1>3. LocksInv => CirclesNeedFullQueues
  BY CirclesFromInv
<1> QED BY <1>1, <1>2, <1>3, PTL DEF LocksSpec

===============================================================================
