------------------------------ MODULE ReplicaSet ------------------------------
(***************************************************************************)
(* The ReplicaSet controller (controllers/src/replica_set/controller.rs),  *)
(* for one ReplicaSet: its status and spec live in etcd next to the pods;  *)
(* the controller sees both through informers that lag, and acts through   *)
(* HTTP requests that reach the API server later.  It reconciles from the  *)
(* status an event carries, creating or deleting one pod at a time, and    *)
(* rewrites the whole object whenever the pods it sees no longer match the *)
(* status in its own store.                                                *)
(***************************************************************************)
EXTENDS Naturals, Sequences, FiniteSets

CONSTANTS
  Pod,          \* names a pod may get
  NoPod, NoRS,  \* no pod, no ReplicaSet
  QueueCap,     \* capacity of an event channel (16 in the code)
  Worlds        \* what the controller may have to cope with, see World

(* What may disturb the controller: a user or the autoscaler patches       *)
(* spec.replicas ("scale"), a user deletes the ReplicaSet ("drop") or a    *)
(* pod ("kill"), a kubelet reports another phase ("move"), a request of    *)
(* the controller fails ("fail"), a watch is lost ("relist").  A world     *)
(* bounds how often each happens; in a patient one they wait until nothing *)
(* is under way, so that no request of the controller fails.               *)
Disturbance == {"scale", "drop", "kill", "move", "fail", "relist"}
World == [first : Nat,             \* desired replicas at creation
          scales : SUBSET Nat,     \* desired replicas asked for later
          patient : BOOLEAN,
          may : [Disturbance -> Nat]]

Replicas == [desired : Nat, replicas : Nat, ready : Nat]

ASSUME ReplicaSetAssumption ==
  /\ IsFiniteSet(Pod)
  /\ NoPod \notin Pod /\ NoRS \notin Replicas
  /\ QueueCap \in Nat \ {0}
  /\ Worlds \subseteq World

VARIABLES
  rs,         \* etcd: the ReplicaSet
  pods,       \* etcd: [Pod -> PodState], "None" where there is no such pod
  rsWatch,    \* watch events on the ReplicaSet not yet received
  podWatch,   \* watch events on pods not yet received
  linked,     \* [{"rs", "pod"} -> BOOLEAN], whether the watch is connected
  scaling,    \* merged ReplicaSets that requests to patch are about to put
  rsStore,    \* the controller's store of ReplicaSets
  podStore,   \* the controller's store of pods
  rsQ,        \* ReplicaSet events queued for the controller
  podQ,       \* number of pod events queued for the controller
  rsResync,   \* a ReplicaSet resync is due
  podResync,  \* a pod resync is due
  ctl,        \* what the controller task is doing
  world,      \* the world of this behaviour
  env         \* [Disturbance -> how often it happened]

vars == <<rs, pods, rsWatch, podWatch, linked, scaling, rsStore, podStore,
          rsQ, podQ, rsResync, podResync, ctl, world, env>>
netVars == <<linked, scaling>>
apiVars == <<rs, pods, rsWatch, podWatch, netVars>>
storeVars == <<rsStore, podStore, rsQ, podQ, rsResync, podResync>>
envVars == <<world, env>>

(* The order in which get_pod_to_delete ranks pods, worst first.           *)
PodState == {"Failed", "Pending", "Running", "Ready"}
Rank == [Failed |-> 0, Pending |-> 1, Running |-> 2, Ready |-> 3]

Idle == [at |-> "idle", rs |-> NoRS, pod |-> NoPod, lock |-> "none"]

TypeOK ==
  /\ rs \in Replicas \cup {NoRS}
  /\ pods \in [Pod -> PodState \cup {"None"}]
  /\ rsWatch \in Seq(Replicas \cup {NoRS})
  /\ podWatch \in Seq(Pod \X (PodState \cup {"None"}))
  /\ linked \in [{"rs", "pod"} -> BOOLEAN]
  /\ scaling \subseteq Replicas
  /\ rsStore \in Replicas \cup {NoRS}
  /\ podStore \in [Pod -> PodState \cup {"None"}]
  /\ rsQ \in Seq(Replicas)
  /\ podQ \in 0 .. QueueCap
  /\ rsResync \in BOOLEAN
  /\ podResync \in BOOLEAN
  /\ ctl \in [at : {"idle", "post", "create", "delete", "crashed"},
              rs : Replicas \cup {NoRS}, pod : Pod \cup {NoPod},
              lock : {"none", "rs", "pod"}]
  /\ world \in Worlds
  /\ env \in [Disturbance -> Nat]

(* The ReplicaSet has just been created and its Add event handed over.     *)
Init ==
  /\ world \in Worlds
  /\ rs = [desired |-> world.first, replicas |-> 0, ready |-> 0]
  /\ pods = [p \in Pod |-> "None"]
  /\ rsWatch = <<>>
  /\ podWatch = <<>>
  /\ linked = [k \in {"rs", "pod"} |-> TRUE]
  /\ scaling = {}
  /\ rsStore = rs
  /\ podStore = pods
  /\ rsQ = <<rs>>
  /\ podQ = 0
  /\ rsResync = FALSE
  /\ podResync = FALSE
  /\ ctl = Idle
  /\ env = [d \in Disturbance |-> 0]

(* Nothing is under way that the controller could still react to.          *)
Quiet == /\ ctl = Idle
         /\ scaling = {} /\ linked["rs"] /\ linked["pod"]
         /\ rsWatch = <<>> /\ podWatch = <<>> /\ rsQ = <<>> /\ podQ = 0
         /\ ~rsResync /\ ~podResync

Disturb(d) ==
  /\ world.patient => Quiet
  /\ env[d] < world.may[d]
  /\ env' = [env EXCEPT ![d] = @ + 1]
  /\ UNCHANGED world

In(store) == {p \in Pod : store[p] # "None"}

-------------------------------------------------------------------------------
(* The API server: every write of etcd is seen, in order, by the watches   *)
(* that are connected.                                                     *)

PutRS(new) ==
  /\ rs' = new
  /\ rsWatch' = IF linked["rs"] THEN Append(rsWatch, new) ELSE rsWatch

(* Mutant: deletions are not forwarded.                                    *)
PutPod_DeletionsUnseen(p, st) ==
  /\ pods' = [pods EXCEPT ![p] = st]
  /\ podWatch' = IF linked["pod"] /\ st # "None" THEN Append(podWatch, <<p, st>>)
                                                 ELSE podWatch

(* A write of one pod; "None" stands for its deletion.                     *)
PutPod(p, st) ==
  /\ pods' = [pods EXCEPT ![p] = st]
  /\ podWatch' = IF linked["pod"] THEN Append(podWatch, <<p, st>>) ELSE podWatch

(* PATCH of spec.replicas by a user or by the autoscaler: the ReplicaSet is*)
(* read, and the whole of it put back after an await, whatever etcd then   *)
(* holds.                                                                  *)
ScaleRead(n) ==
  /\ rs # NoRS
  /\ n # rs.desired
  /\ Disturb("scale")
  /\ scaling' = scaling \cup {[rs EXCEPT !.desired = n]}
  /\ UNCHANGED <<rs, pods, rsWatch, podWatch, linked, storeVars, ctl>>

ScalePut ==
  \E new \in scaling :
    /\ PutRS(new)
    /\ scaling' = scaling \ {new}
    /\ UNCHANGED <<pods, podWatch, linked, storeVars, ctl, envVars>>

DropRS ==
  /\ rs # NoRS
  /\ Disturb("drop")
  /\ PutRS(NoRS)
  /\ UNCHANGED <<pods, podWatch, netVars, storeVars, ctl>>

KillPod(p) ==
  /\ pods[p] # "None"
  /\ Disturb("kill")
  /\ PutPod(p, "None")
  /\ UNCHANGED <<rs, rsWatch, netVars, storeVars, ctl>>

(* A kubelet reports another phase or readiness of a pod.                  *)
MovePod(p, st) ==
  /\ pods[p] \notin {"None", st}
  /\ Disturb("move")
  /\ PutPod(p, st)
  /\ UNCHANGED <<rs, rsWatch, netVars, storeVars, ctl>>

-------------------------------------------------------------------------------
(* The informers of the controller.                                        *)

(* Mutant: an object that is deleted stays in the store.                   *)
ReceiveRS_KeepsDeleted ==
  LET new == Head(rsWatch) IN
  /\ rsWatch # <<>>
  /\ ctl.lock # "rs"
  /\ rsWatch' = Tail(rsWatch)
  /\ rsStore' = IF new = NoRS THEN rsStore ELSE new
  /\ IF new = rsStore
       THEN UNCHANGED rsQ
       ELSE /\ Len(rsQ) < QueueCap
            /\ rsQ' = Append(rsQ, IF new = NoRS THEN [rsStore EXCEPT !.desired = 0]
                                                ELSE new)
  /\ UNCHANGED <<rs, pods, podWatch, netVars, podStore, podQ, rsResync, podResync, ctl,
                 envVars>>

(* An event that brings nothing new to the store is not passed on.  The    *)
(* Delete event carries the old object, reconciled as if zero replicas     *)
(* were desired.                                                           *)
ReceiveRS ==
  LET new == Head(rsWatch) IN
  /\ rsWatch # <<>>
  /\ ctl.lock # "rs"
  /\ rsWatch' = Tail(rsWatch)
  /\ rsStore' = new
  /\ IF new = rsStore
       THEN UNCHANGED rsQ
       ELSE /\ Len(rsQ) < QueueCap
            /\ rsQ' = Append(rsQ, IF new = NoRS THEN [rsStore EXCEPT !.desired = 0]
                                                ELSE new)
  /\ UNCHANGED <<rs, pods, podWatch, netVars, podStore, podQ, rsResync, podResync, ctl,
                 envVars>>

ReceivePod ==
  LET p == Head(podWatch)[1]
      st == Head(podWatch)[2] IN
  /\ podWatch # <<>>
  /\ ctl.lock # "pod"
  /\ podWatch' = Tail(podWatch)
  /\ podStore' = [podStore EXCEPT ![p] = st]
  /\ IF st = podStore[p]
       THEN UNCHANGED podQ
       ELSE podQ < QueueCap /\ podQ' = podQ + 1
  /\ UNCHANGED <<rs, pods, rsWatch, netVars, rsStore, rsQ, rsResync, podResync, ctl,
                 envVars>>

(* A watch is lost and the reflector lists again: the events under way are *)
(* lost with it, and a resync follows if the store was different.  What is *)
(* written from then until the new watch is connected is seen by nobody.   *)
RelistRS ==
  /\ ctl.lock # "rs"
  /\ Disturb("relist")
  /\ rsWatch' = <<>>
  /\ rsStore' = rs
  /\ rsResync' = (rsResync \/ rsStore # rs)
  /\ linked' = [linked EXCEPT !["rs"] = FALSE]
  /\ UNCHANGED <<rs, pods, podWatch, scaling, podStore, rsQ, podQ, podResync, ctl>>

(* Mutant: a store that was different is replaced                          *)
(* and nobody is told.                                                     *)
RelistPods_Silent ==
  /\ ctl.lock # "pod"
  /\ Disturb("relist")
  /\ podWatch' = <<>>
  /\ podStore' = pods
  /\ linked' = [linked EXCEPT !["pod"] = FALSE]
  /\ UNCHANGED <<rs, pods, rsWatch, scaling, rsStore, rsQ, podQ, rsResync, podResync, ctl>>

(* The same for the watch on pods.                                         *)
RelistPods ==
  /\ ctl.lock # "pod"
  /\ Disturb("relist")
  /\ podWatch' = <<>>
  /\ podStore' = pods
  /\ podResync' = (podResync \/ podStore # pods)
  /\ linked' = [linked EXCEPT !["pod"] = FALSE]
  /\ UNCHANGED <<rs, pods, rsWatch, scaling, rsStore, rsQ, podQ, rsResync, ctl>>

Connect(k) ==
  /\ ~linked[k]
  /\ linked' = [linked EXCEPT ![k] = TRUE]
  /\ UNCHANGED <<rs, pods, rsWatch, podWatch, scaling, storeVars, ctl, envVars>>

-------------------------------------------------------------------------------
(* The controller task.  A handler reads the stores and decides on at most *)
(* one request; the request takes effect in a step of its own.             *)

(* Mutant: only ready pods count as replicas.                              *)
WithStatus_ReadyOnly(obj, store) ==
  [obj EXCEPT !.replicas = Cardinality({p \in Pod : store[p] = "Ready"}),
              !.ready = Cardinality({p \in Pod : store[p] = "Ready"})]

(* calculate_status counts every pod that matches, whatever its phase.     *)
WithStatus(obj, store) ==
  [obj EXCEPT !.replicas = Cardinality(In(store)),
              !.ready = Cardinality({p \in Pod : store[p] = "Ready"})]

(* update_replicaset: nothing to post if the status in the store is right. *)
UpdateStatus(obj, lock) ==
  ctl' = IF WithStatus(obj, podStore) = obj
           THEN Idle
           ELSE [Idle EXCEPT !.at = "post", !.rs = WithStatus(obj, podStore),
                             !.lock = lock]

(* Mutant: only pods that are not ready are                                *)
(* candidates.                                                             *)
Victims_NotReady == {p \in In(podStore) : podStore[p] # "Ready"}

(* get_pod_to_delete: the worst pods of the store, ties broken by hashing. *)
Victims == {p \in In(podStore) :
              \A q \in In(podStore) : Rank[podStore[p]] <= Rank[podStore[q]]}

(* reconcile: deleting when the store shows no pod indexes an empty list,  *)
(* which ends the controller's process.                                    *)
HandleRS ==
  LET obj == Head(rsQ) IN
  /\ ctl = Idle
  /\ rsQ # <<>>
  /\ rsQ' = Tail(rsQ)
  /\ \/ /\ obj.replicas < obj.desired
        /\ ctl' = [Idle EXCEPT !.at = "create"]
     \/ /\ obj.replicas > obj.desired
        /\ Victims # {}
        /\ \E p \in Victims : ctl' = [Idle EXCEPT !.at = "delete", !.pod = p]
     \/ /\ obj.replicas > obj.desired
        /\ Victims = {}
        /\ ctl' = [Idle EXCEPT !.at = "crashed"]
     \/ /\ obj.replicas = obj.desired
        /\ UNCHANGED ctl
  /\ UNCHANGED <<apiVars, rsStore, podStore, podQ, rsResync, podResync, envVars>>

(* handle_pod_change: every pod here is owned by the ReplicaSet.           *)
HandlePod ==
  /\ ctl = Idle
  /\ podQ > 0
  /\ podQ' = podQ - 1
  /\ IF rsStore = NoRS THEN UNCHANGED ctl ELSE UpdateStatus(rsStore, "none")
  /\ UNCHANGED <<apiVars, rsStore, podStore, rsQ, rsResync, podResync, envVars>>

(* Both resync handlers post while they hold the read lock of the store    *)
(* they walk through.                                                      *)
ResyncRS ==
  /\ ctl = Idle
  /\ rsResync
  /\ rsResync' = FALSE
  /\ IF rsStore = NoRS THEN UNCHANGED ctl ELSE UpdateStatus(rsStore, "rs")
  /\ UNCHANGED <<apiVars, rsStore, podStore, rsQ, podQ, podResync, envVars>>

ResyncPod ==
  /\ ctl = Idle
  /\ podResync
  /\ podResync' = FALSE
  /\ IF rsStore = NoRS \/ In(podStore) = {}
       THEN UNCHANGED ctl
       ELSE UpdateStatus(rsStore, "pod")
  /\ UNCHANGED <<apiVars, rsStore, podStore, rsQ, podQ, rsResync, envVars>>

(* The PUT replaces the object, spec included, and does not ask whether it *)
(* still exists.                                                           *)
PostStatus ==
  /\ ctl.at = "post"
  /\ PutRS(ctl.rs)
  /\ ctl' = Idle
  /\ UNCHANGED <<pods, podWatch, netVars, storeVars, envVars>>

(* A pod gets a name nobody remembers; which one makes no difference.      *)
Fresh == {p \in Pod : /\ pods[p] = "None" /\ podStore[p] = "None"
                      /\ \A i \in 1 .. Len(podWatch) : podWatch[i][1] # p}

CreatePod ==
  /\ ctl.at = "create"
  /\ Fresh # {}
  /\ PutPod(CHOOSE p \in Fresh : TRUE, "Pending")
  /\ ctl' = Idle
  /\ UNCHANGED <<rs, rsWatch, netVars, storeVars, envVars>>

(* Deleting a pod that is gone already answers 404 and changes nothing.    *)
DeletePod ==
  /\ ctl.at = "delete"
  /\ IF pods[ctl.pod] = "None"
       THEN UNCHANGED <<pods, podWatch>>
       ELSE PutPod(ctl.pod, "None")
  /\ ctl' = Idle
  /\ UNCHANGED <<rs, rsWatch, netVars, storeVars, envVars>>

(* A request that fails is logged; the event it answered is not retried.   *)
RequestFails ==
  /\ ctl.at \in {"post", "create", "delete"}
  /\ Disturb("fail")
  /\ ctl' = Idle
  /\ UNCHANGED <<apiVars, storeVars>>

-------------------------------------------------------------------------------
Controller ==
  \/ HandleRS \/ HandlePod \/ ResyncRS \/ ResyncPod
  \/ PostStatus \/ CreatePod \/ DeletePod

Next ==
  \/ (\E n \in world.scales : ScaleRead(n)) \/ ScalePut \/ DropRS
  \/ \E p \in Pod : KillPod(p) \/ \E st \in PodState : MovePod(p, st)
  \/ ReceiveRS \/ ReceivePod \/ RelistRS \/ RelistPods
  \/ \E k \in {"rs", "pod"} : Connect(k)
  \/ Controller
  \/ RequestFails

(* The controller's task, the two informers and a request that has begun   *)
(* run whenever they can, and select! prefers no channel for ever.  Users, *)
(* kubelets and the network owe nothing.                                   *)
Fairness ==
  /\ WF_vars(ScalePut)
  /\ \A k \in {"rs", "pod"} : WF_vars(Connect(k))
  /\ WF_vars(ReceiveRS)
  /\ WF_vars(ReceivePod)
  /\ WF_vars(Controller)

Spec == Init /\ [][Next]_vars
FairSpec == Spec /\ Fairness

-------------------------------------------------------------------------------
Alive == In(pods)

Settled == rs # NoRS => /\ Cardinality(Alive) = rs.desired
                        /\ WithStatus(rs, pods) = rs

(* Users who wait their turn, and watches that last.                       *)
Careful == world.patient /\ world.may["relist"] = 0

(* The number of pods that exist settles at the number desired.            *)
SettlesInTheEnd == Careful => <>[]Settled

(* In a patient world, even one that loses watches, the controller's       *)
(* process survives: it never has to pick a victim from an empty store.    *)
NeverCrashes == world.patient => ctl.at # "crashed"

(* There a pod is created only while fewer exist than desired, and deleted *)
(* by the controller only while more do: the status an event carried does  *)
(* not mislead it.                                                         *)
StepsTowardDesired ==
  [][world.patient /\ rs # NoRS =>
      /\ CreatePod => Cardinality(Alive) < rs.desired
      /\ DeletePod => Cardinality(Alive) > rs.desired]_vars

(* A status update puts the whole object it read.  Where users wait their  *)
(* turn it neither takes back a scaling nor brings a deleted ReplicaSet    *)
(* back, although the copy it was made from is never compared with etcd.   *)
ScalingsStand ==
  [][world.patient /\ PostStatus =>
       rs # NoRS /\ rs'.desired = rs.desired]_vars

(* A status counted from pods that have changed since does not go          *)
(* unnoticed while the store holds a pod: the event of a change is still   *)
(* queued, or a resync will walk through the pods, and either counts the   *)
(* pods of their owner again.  With no pod in the store a resync counts    *)
(* nothing, and a status that was right before a relist emptied the store  *)
(* stays.                                                                  *)
StaleCountIsNoticed ==
  (ctl.at = "post" /\ WithStatus(ctl.rs, podStore) # ctl.rs /\ In(podStore) # {})
    => (podQ > 0 \/ podResync)
===============================================================================
