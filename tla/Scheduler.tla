------------------------------- MODULE Scheduler -------------------------------
(***************************************************************************)
(* The scheduler (scheduler/src) and the binding handler of the API server *)
(* (api_server/src/handler/binding.rs).  The scheduler sees pods and nodes *)
(* through informers, counts the pods of every node in a cache of its own, *)
(* and binds each new pod to a ready node with the fewest pods.  The count *)
(* is kept by increments and decrements, and recomputed from the pod store *)
(* whenever the node's object changes.                                     *)
(*                                                                         *)
(* The informer's channel and the queue behind it are one queue here.      *)
(* Status updates of pods are left out: the scheduler ignores them.        *)
(***************************************************************************)
EXTENDS Naturals, Sequences, FiniteSets

CONSTANTS
  Pod, Node,
  Unbound,      \* a pod without node_name
  Gone,         \* no such pod
  QueueCap,     \* capacity of the pod and node queues (16 in the code)
  Word,         \* a pod count is a number modulo Word (2^32 in the code)
  Worlds        \* what the scheduler may have to cope with, see World

(* What may disturb the scheduler: users create and delete pods and delete *)
(* nodes ("drop"), a kubelet puts its node ("beat") or falls silent        *)
(* ("die"), a request or its answer is lost ("fail"), a watch is lost      *)
(* ("relist").  A world bounds how often each happens; in a patient one    *)
(* they wait until nothing is under way.                                   *)
Disturbance == {"create", "delete", "beat", "drop", "die", "fail", "relist"}
World == [pods : SUBSET Pod,             \* pods that may be created
          fits : SUBSET (Pod \X Node),   \* whose selectors match which labels
          patient : BOOLEAN,
          may : [Disturbance -> Nat]]

ASSUME SchedulerAssumption ==
  /\ IsFiniteSet(Pod) /\ IsFiniteSet(Node)
  /\ {Unbound, Gone} \cap Node = {} /\ Unbound # Gone
  /\ QueueCap \in Nat \ {0}
  /\ Word \in Nat /\ Word > Cardinality(Pod)
  /\ Worlds \subseteq World

VARIABLES
  pods,        \* etcd: [Pod -> node_name, Unbound or Gone]
  nodes,       \* etcd: the registered nodes
  alive,       \* the nodes whose kubelet sends heartbeats
  podWatch, nodeWatch,     \* watch events not yet received
  linked,      \* [{"pod", "node"} -> BOOLEAN], whether the watch is connected
  missed,      \* ghost: pods last written while no watch was connected
  podStore, nodeStore,     \* the informers' stores
  podQ, nodeQ,             \* queues of the scheduler
  podResync, nodeResync,   \* EnqueuePods or RefreshCache is due
  states,      \* the cache: [Node -> Seq([ready, count])], empty if unknown
  sched,       \* what the scheduler's task is doing
  refused,     \* ghost: pods the scheduler gave up on
  world,       \* the world of this behaviour
  env          \* [Disturbance -> how often it happened]

etcdVars == <<pods, nodes, podWatch, nodeWatch, linked, missed>>
storeVars == <<podStore, nodeStore, podQ, nodeQ, podResync, nodeResync>>
schedVars == <<states, sched, refused>>
envVars == <<world, env>>
vars == <<etcdVars, storeVars, schedVars, alive, world, env>>

Place == Node \cup {Unbound, Gone}
PodEvent == [kind : {"Add", "Update", "Delete"}, pod : Pod, at : Place]
NodeEvent == [kind : {"Add", "Update", "Delete"}, node : Node]
NodeState == [ready : BOOLEAN, count : 0 .. Word - 1]
Unknown == <<>>

Idle == [at |-> "idle", pod |-> {}, node |-> {}]

TypeOK ==
  /\ pods \in [Pod -> Place] /\ podStore \in [Pod -> Place]
  /\ nodes \subseteq Node /\ nodeStore \subseteq Node /\ alive \subseteq Node
  /\ podWatch \in Seq(Pod \X Place)
  /\ nodeWatch \in Seq([node : Node, gone : BOOLEAN])
  /\ linked \in [{"pod", "node"} -> BOOLEAN] /\ missed \subseteq Pod
  /\ podQ \in Seq(PodEvent) /\ Len(podQ) <= QueueCap
  /\ nodeQ \in Seq(NodeEvent) /\ Len(nodeQ) <= QueueCap
  /\ podResync \in BOOLEAN /\ nodeResync \in BOOLEAN
  /\ states \in [Node -> {Unknown} \cup {<<s>> : s \in NodeState}]
  /\ sched \in [at : {"idle", "bind", "put", "enqueue", "stuck"},
                pod : SUBSET Pod, node : SUBSET Node]
  /\ refused \subseteq Pod
  /\ world \in Worlds
  /\ env \in [Disturbance -> Nat]

(* Every node is registered and known to the scheduler; there are no pods. *)
Init ==
  /\ world \in Worlds
  /\ pods = [p \in Pod |-> Gone] /\ podStore = pods
  /\ nodes = Node /\ nodeStore = Node /\ alive = Node
  /\ podWatch = <<>> /\ nodeWatch = <<>>
  /\ linked = [k \in {"pod", "node"} |-> TRUE] /\ missed = {}
  /\ podQ = <<>> /\ nodeQ = <<>>
  /\ podResync = FALSE /\ nodeResync = FALSE
  /\ states = [n \in Node |-> <<[ready |-> TRUE, count |-> 0]>>]
  /\ sched = Idle
  /\ refused = {}
  /\ env = [d \in Disturbance |-> 0]

Quiet ==
  /\ sched = Idle
  /\ podWatch = <<>> /\ nodeWatch = <<>> /\ podQ = <<>> /\ nodeQ = <<>>
  /\ ~podResync /\ ~nodeResync
  /\ linked["pod"] /\ linked["node"]

Disturb(d) ==
  /\ world.patient => Quiet
  /\ env[d] < world.may[d]
  /\ env' = [env EXCEPT ![d] = @ + 1]
  /\ UNCHANGED world

In(store) == {p \in Pod : store[p] # Gone}

-------------------------------------------------------------------------------
(* The API server: writes of etcd are seen, in order, by the watches that  *)
(* are connected.                                                          *)

PutPod(p, place) ==
  /\ pods' = [pods EXCEPT ![p] = place]
  /\ podWatch' = IF linked["pod"] THEN Append(podWatch, <<p, place>>) ELSE podWatch
  /\ missed' = IF linked["pod"] THEN missed \ {p} ELSE missed \cup {p}
  /\ UNCHANGED linked

PutNode(n, gone) ==
  /\ nodes' = IF gone THEN nodes \ {n} ELSE nodes \cup {n}
  /\ nodeWatch' = IF linked["node"] THEN Append(nodeWatch, [node |-> n, gone |-> gone])
                                    ELSE nodeWatch
  /\ UNCHANGED <<pods, podWatch, linked, missed>>

(* A pod gets a name nobody remembers.                                     *)
CreatePod(p) ==
  /\ p \in world.pods
  /\ pods[p] = Gone /\ podStore[p] = Gone /\ p \notin sched.pod
  /\ \A i \in 1 .. Len(podWatch) : podWatch[i][1] # p
  /\ \A i \in 1 .. Len(podQ) : podQ[i].pod # p
  /\ Disturb("create")
  /\ PutPod(p, Unbound)
  /\ refused' = refused \ {p}
  /\ UNCHANGED <<nodes, nodeWatch, storeVars, states, sched, alive>>

DeletePod(p) ==
  /\ pods[p] # Gone
  /\ Disturb("delete")
  /\ PutPod(p, Gone)
  /\ UNCHANGED <<nodes, nodeWatch, storeVars, schedVars, alive>>

(* A kubelet registers its node or posts a status that differs from the    *)
(* last one in more than its heartbeat.                                    *)
Beat(n) ==
  /\ n \in alive
  /\ Disturb("beat")
  /\ PutNode(n, FALSE)
  /\ UNCHANGED <<storeVars, schedVars, alive>>

DropNode(n) ==
  /\ n \in nodes
  /\ Disturb("drop")
  /\ PutNode(n, TRUE)
  /\ UNCHANGED <<storeVars, schedVars, alive>>

(* No event tells of a kubelet that falls silent; its node's heartbeat     *)
(* grows old.                                                              *)
Die(n) ==
  /\ n \in alive
  /\ Disturb("die")
  /\ alive' = alive \ {n}
  /\ UNCHANGED <<etcdVars, storeVars, schedVars>>

-------------------------------------------------------------------------------
(* The informers.                                                          *)

(* The reflector needs the store's write lock, and room in the queue for   *)
(* what is news.                                                           *)
ReceivePod ==
  LET p == Head(podWatch)[1]
      new == Head(podWatch)[2]
      old == podStore[p] IN
  /\ podWatch # <<>>
  /\ sched.at # "enqueue"
  /\ podWatch' = Tail(podWatch)
  /\ podStore' = [podStore EXCEPT ![p] = new]
  /\ \/ new = old /\ UNCHANGED podQ
     \/ /\ new # old
        /\ Len(podQ) < QueueCap
        /\ podQ' = Append(podQ,
                     IF old = Gone THEN [kind |-> "Add", pod |-> p, at |-> new]
                     ELSE IF new = Gone THEN [kind |-> "Delete", pod |-> p, at |-> old]
                     ELSE [kind |-> "Update", pod |-> p, at |-> new])
  /\ UNCHANGED <<pods, nodes, nodeWatch, linked, missed, nodeStore, nodeQ, podResync,
                 nodeResync, schedVars, alive, envVars>>

ReceiveNode ==
  LET n == Head(nodeWatch).node
      gone == Head(nodeWatch).gone IN
  /\ nodeWatch # <<>>
  /\ nodeWatch' = Tail(nodeWatch)
  /\ nodeStore' = IF gone THEN nodeStore \ {n} ELSE nodeStore \cup {n}
  /\ \/ gone /\ n \notin nodeStore /\ UNCHANGED nodeQ
     \/ /\ gone => n \in nodeStore
        /\ Len(nodeQ) < QueueCap
        /\ nodeQ' = Append(nodeQ,
                     [kind |-> IF gone THEN "Delete"
                               ELSE IF n \in nodeStore THEN "Update" ELSE "Add",
                      node |-> n])
  /\ UNCHANGED <<pods, nodes, podWatch, linked, missed, podStore, podQ, podResync,
                 nodeResync, schedVars, alive, envVars>>

(* The reflector waits, with the store locked, for room in the queue.      *)
PodsLocked ==
  podWatch # <<>> /\ Len(podQ) = QueueCap
    /\ podStore[Head(podWatch)[1]] # Head(podWatch)[2]

NodesLocked ==
  nodeWatch # <<>> /\ Len(nodeQ) = QueueCap
    /\ (Head(nodeWatch).gone => Head(nodeWatch).node \in nodeStore)

(* Mutant: nobody is told that the store was replaced.                     *)
RelistPods_Silent ==
  /\ sched.at # "enqueue" /\ (sched.at = "stuck" => ~PodsLocked)
  /\ Disturb("relist")
  /\ podWatch' = <<>> /\ podStore' = pods
  /\ linked' = [linked EXCEPT !["pod"] = FALSE] /\ missed' = {}
  /\ UNCHANGED <<pods, nodes, nodeWatch, nodeStore, podQ, nodeQ, podResync,
                 nodeResync, schedVars, alive>>

(* A watch is lost and the reflector lists again: what was under way is    *)
(* lost with it.  What is written from then until the new watch connects   *)
(* is seen by nobody.                                                      *)
RelistPods ==
  /\ sched.at # "enqueue" /\ (sched.at = "stuck" => ~PodsLocked)
  /\ Disturb("relist")
  /\ podWatch' = <<>> /\ podStore' = pods
  /\ podResync' = (podResync \/ podStore # pods)
  /\ linked' = [linked EXCEPT !["pod"] = FALSE] /\ missed' = {}
  /\ UNCHANGED <<pods, nodes, nodeWatch, nodeStore, podQ, nodeQ, nodeResync,
                 schedVars, alive>>

RelistNodes ==
  /\ sched.at = "stuck" => ~NodesLocked
  /\ Disturb("relist")
  /\ nodeWatch' = <<>> /\ nodeStore' = nodes
  /\ nodeResync' = (nodeResync \/ nodeStore # nodes)
  /\ linked' = [linked EXCEPT !["node"] = FALSE]
  /\ UNCHANGED <<pods, nodes, podWatch, missed, podStore, podQ, nodeQ, podResync,
                 schedVars, alive>>

Connect(k) ==
  /\ ~linked[k]
  /\ linked' = [linked EXCEPT ![k] = TRUE]
  /\ UNCHANGED <<pods, nodes, podWatch, nodeWatch, missed, storeVars, schedVars, alive,
                 envVars>>

-------------------------------------------------------------------------------
(* The cache.                                                              *)

(* Mutant: a changed node starts from zero pods, as an added one does.     *)
Recount_Zero(n) == <<[ready |-> n \in alive, count |-> 0]>>

(* calculate_node_state: readiness by the age of the heartbeat, the count  *)
(* from the pod store as it is now.                                        *)
Recount(n) == <<[ready |-> n \in alive,
                 count |-> Cardinality({p \in Pod : podStore[p] = n})]>>

(* Mutant: the cache is left to the next change of the node.               *)
Counted_Forgotten(n, d) == states

(* pod_count += d, if the node is in the cache; it wraps around at Word.   *)
Counted(n, d) ==
  LET s == states[n][1] IN
  IF states[n] = Unknown THEN states
  ELSE [states EXCEPT ![n] = <<[s EXCEPT !.count = (@ + Word + d) % Word]>>]

-------------------------------------------------------------------------------
(* The scheduler's task.                                                   *)

(* Mutant: a node takes one pod only.                                      *)
Candidates_OnePodEach(p) == {n \in Node : /\ states[n] # Unknown
                                         /\ states[n][1].ready
                                         /\ states[n][1].count = 0
                                         /\ <<p, n>> \in world.fits}

(* simple: the ready nodes that fit, and among them one of the emptiest.   *)
Candidates(p) == {n \in Node : /\ states[n] # Unknown
                               /\ states[n][1].ready
                               /\ <<p, n>> \in world.fits}

Emptiest(ns) == {n \in ns : \A m \in ns : states[n][1].count <= states[m][1].count}

TakePod ==
  /\ sched = Idle
  /\ podQ # <<>>
  /\ podQ' = Tail(podQ)
  /\ UNCHANGED <<etcdVars, podStore, nodeStore, nodeQ, podResync, nodeResync,
                 alive, envVars>>

(* A pod that has a node already is skipped; one that fits nowhere is      *)
(* logged and forgotten.                                                   *)
HandlePodAdd ==
  LET e == Head(podQ) IN
  /\ TakePod
  /\ e.kind = "Add"
  /\ \/ e.at # Unbound /\ UNCHANGED schedVars
     \/ /\ e.at = Unbound
        /\ Candidates(e.pod) = {}
        /\ refused' = refused \cup {e.pod}
        /\ UNCHANGED <<states, sched>>
     \/ /\ e.at = Unbound
        /\ \E n \in Emptiest(Candidates(e.pod)) :
             sched' = [at |-> "bind", pod |-> {e.pod}, node |-> {n}]
        /\ UNCHANGED <<states, refused>>

(* Mutant: an update is scheduled like an addition.                        *)
HandlePodUpdate_Schedules ==
  LET p == Head(podQ).pod IN
  /\ TakePod
  /\ Head(podQ).kind = "Update"
  /\ \E n \in Emptiest(Candidates(p)) :
       sched' = [at |-> "bind", pod |-> {p}, node |-> {n}]
  /\ UNCHANGED <<states, refused>>

HandlePodUpdate ==
  /\ TakePod
  /\ Head(podQ).kind = "Update"
  /\ UNCHANGED schedVars

HandlePodDelete ==
  LET e == Head(podQ) IN
  /\ TakePod
  /\ e.kind = "Delete"
  /\ states' = IF e.at \in Node THEN Counted(e.at, 0 - 1) ELSE states
  /\ UNCHANGED <<sched, refused>>

(* A node that is added starts from zero pods.                             *)
HandleNode ==
  LET e == Head(nodeQ) IN
  /\ sched = Idle
  /\ nodeQ # <<>>
  /\ nodeQ' = Tail(nodeQ)
  /\ states' = [states EXCEPT ![e.node] =
                  CASE e.kind = "Add" -> <<[ready |-> e.node \in alive, count |-> 0]>>
                    [] e.kind = "Update" -> Recount(e.node)
                    [] e.kind = "Delete" -> Unknown]
  /\ UNCHANGED <<etcdVars, podStore, nodeStore, podQ, podResync, nodeResync,
                 sched, refused, alive, envVars>>

RefreshCache ==
  /\ sched = Idle
  /\ nodeResync
  /\ nodeResync' = FALSE
  /\ states' = [n \in Node |-> IF n \in nodeStore THEN Recount(n) ELSE Unknown]
  /\ UNCHANGED <<etcdVars, podStore, nodeStore, podQ, nodeQ, podResync,
                 sched, refused, alive, envVars>>

(* EnqueuePods sends every pod of the store to the scheduler's own queue,  *)
(* one after the other, under the store's read lock.                       *)
StartEnqueue ==
  /\ sched = Idle
  /\ podResync
  /\ podResync' = FALSE
  /\ sched' = IF In(podStore) = {} THEN Idle
              ELSE [Idle EXCEPT !.at = "enqueue", !.pod = In(podStore)]
  /\ UNCHANGED <<etcdVars, podStore, nodeStore, podQ, nodeQ, nodeResync,
                 states, refused, alive, envVars>>

EnqueuePod ==
  /\ sched.at = "enqueue"
  /\ Len(podQ) < QueueCap
  /\ \E p \in sched.pod :
       /\ podQ' = Append(podQ, [kind |-> "Add", pod |-> p, at |-> podStore[p]])
       /\ sched' = IF sched.pod = {p} THEN Idle ELSE [sched EXCEPT !.pod = @ \ {p}]
  /\ UNCHANGED <<etcdVars, podStore, nodeStore, nodeQ, podResync, nodeResync,
                 states, refused, alive, envVars>>

(* Whoever reads a store while its reflector waits for room in a queue     *)
(* waits for ever, since the scheduler alone makes room: at the update of  *)
(* a node, at EnqueuePods and at RefreshCache, which empties the cache     *)
(* before it reads.  Where the reflector has not taken the lock yet they   *)
(* read, as above.                                                         *)
LockedOut ==
  /\ sched = Idle
  /\ \/ /\ PodsLocked
        /\ nodeQ # <<>> /\ Head(nodeQ).kind = "Update"
        /\ nodeQ' = Tail(nodeQ)
        /\ sched' = [Idle EXCEPT !.at = "stuck"]
        /\ UNCHANGED <<podResync, nodeResync, states>>
     \/ /\ PodsLocked
        /\ podResync
        /\ podResync' = FALSE
        /\ sched' = [Idle EXCEPT !.at = "stuck", !.pod = In(podStore)]
        /\ UNCHANGED <<nodeQ, nodeResync, states>>
     \/ /\ NodesLocked \/ (PodsLocked /\ nodeStore # {})
        /\ nodeResync
        /\ nodeResync' = FALSE
        /\ sched' = [Idle EXCEPT !.at = "stuck"]
        /\ states' = [n \in Node |-> Unknown]
        /\ UNCHANGED <<nodeQ, podResync>>
  /\ UNCHANGED <<etcdVars, podStore, nodeStore, podQ, refused, alive, envVars>>

-------------------------------------------------------------------------------
(* The binding handler, on behalf of the scheduler's request.              *)

(* The handler reads the node and the pod, and fails if one is missing;    *)
(* the scheduler logs the answer and counts the pod all the same.          *)
BindRead ==
  LET missing == sched.node \cap nodes = {} \/ \A p \in sched.pod : pods[p] = Gone IN
  /\ sched.at = "bind"
  /\ \/ /\ missing
        /\ \E n \in sched.node : states' = Counted(n, 1)
        /\ refused' = refused \cup sched.pod
        /\ sched' = Idle
     \/ /\ ~missing
        /\ sched' = [sched EXCEPT !.at = "put"]
        /\ UNCHANGED <<states, refused>>
  /\ UNCHANGED <<etcdVars, storeVars, alive, envVars>>

(* It puts the pod it has read, with its node_name set.                    *)
BindPut ==
  /\ sched.at = "put"
  /\ \E p \in sched.pod, n \in sched.node :
       /\ PutPod(p, n)
       /\ states' = Counted(n, 1)
  /\ sched' = Idle
  /\ UNCHANGED <<nodes, nodeWatch, storeVars, refused, alive, envVars>>

(* The request, or only its answer, is lost: the pod is not counted.       *)
BindLost ==
  /\ sched.at \in {"bind", "put"}
  /\ Disturb("fail")
  /\ \/ UNCHANGED <<pods, podWatch, linked, missed>>
     \/ /\ sched.at = "put"
        /\ \E p \in sched.pod, n \in sched.node : PutPod(p, n)
  /\ refused' = refused \cup sched.pod
  /\ sched' = Idle
  /\ UNCHANGED <<nodes, nodeWatch, storeVars, states, alive>>

-------------------------------------------------------------------------------
Schedule ==
  \/ HandlePodAdd \/ HandlePodUpdate \/ HandlePodDelete \/ HandleNode
  \/ RefreshCache \/ StartEnqueue \/ EnqueuePod \/ LockedOut \/ BindRead \/ BindPut

Next ==
  \/ \E p \in Pod : CreatePod(p) \/ DeletePod(p)
  \/ \E n \in Node : Beat(n) \/ DropNode(n) \/ Die(n)
  \/ ReceivePod \/ ReceiveNode \/ RelistPods \/ RelistNodes
  \/ \E k \in {"pod", "node"} : Connect(k)
  \/ Schedule
  \/ BindLost

(* The scheduler's task and the informers run whenever they can.           *)
Fairness ==
  /\ WF_vars(ReceivePod) /\ WF_vars(ReceiveNode) /\ WF_vars(Schedule)
  /\ \A k \in {"pod", "node"} : WF_vars(Connect(k))

Spec == Init /\ [][Next]_vars
FairSpec == Spec /\ Fairness

-------------------------------------------------------------------------------
Hosted(n) == Cardinality({p \in Pod : pods[p] = n})

Only(ds) == \A d \in Disturbance \ ds : env[d] = 0

(* When nothing is under way, the cache knows the registered nodes and the *)
(* number of pods each of them hosts: if pods are only created so far, or  *)
(* if nodes and users wait for one another and no watch, request or node   *)
(* is lost.                                                                *)
CountsExact ==
  Quiet /\ (\/ Only({"create"})
            \/ world.patient /\ Only({"create", "delete", "beat", "die"}))
    => \A n \in Node : IF n \in nodes
                         THEN states[n] # Unknown /\ states[n][1].count = Hosted(n)
                         ELSE states[n] = Unknown

(* A pod that has a node is not moved to another one, while no watch is    *)
(* lost.                                                                   *)
BoundOnce ==
  [][\A p \in Pod : env["relist"] = 0 /\ pods[p] \in Node
                       => pods'[p] \in {pods[p], Gone}]_vars

(* No unbound pod is forgotten but for the pods the scheduler gave up on   *)
(* and those created between the list and the watch of its reflector: its  *)
(* event, a resync, or its binding is still to come.  The next list finds  *)
(* the ones that were missed.                                              *)
NoPodForgotten ==
  \A p \in Pod :
    (pods[p] = Unbound /\ p \notin refused \cup missed) =>
      \/ \E i \in 1 .. Len(podWatch) : podWatch[i][1] = p
      \/ \E i \in 1 .. Len(podQ) : podQ[i] = [kind |-> "Add", pod |-> p, at |-> Unbound]
      \/ p \in sched.pod
      \/ podResync

(* Where no watch is lost, a pod gets a node, or is deleted; it is given   *)
(* up only if pods or nodes were deleted, fell silent or a request failed. *)
(* The one way out is a scheduler that waits for the store for ever, which *)
(* takes the update of a node and more events of pods than there is room   *)
(* for.                                                                    *)
EventuallyBound ==
  \A p \in Pod :
    (world.may["relist"] = 0 /\ pods[p] = Unbound)
      ~> \/ pods[p] # Unbound
         \/ p \in refused /\ ~Only({"create", "beat"})
         \/ sched.at = "stuck" /\ PodsLocked /\ env["beat"] > 0
===============================================================================
