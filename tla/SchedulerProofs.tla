--------------------------- MODULE SchedulerProofs ---------------------------
(***************************************************************************)
(* Theorems about Scheduler, for any pods and nodes, capacity of the       *)
(* queues, width of counts and any world: whatever users, kubelets and the *)
(* network do.                                                             *)
(***************************************************************************)
EXTENDS Scheduler, SequenceTheorems, FiniteSetTheorems, TLAPS

-------------------------------------------------------------------------------
(* What a queue is when an event is taken from or put at its end.          *)

LEMMA Taken ==
  ASSUME NEW S, NEW s \in Seq(S), s # <<>>
  PROVE  /\ Head(s) \in S /\ Head(s) = s[1]
         /\ Tail(s) \in Seq(S)
         /\ Len(s) \in Nat \ {0}
         /\ Len(Tail(s)) = Len(s) - 1
         /\ \A i \in 1 .. Len(Tail(s)) : Tail(s)[i] = s[i + 1]
BY HeadTailProperties

LEMMA Queued ==
  ASSUME NEW S, NEW s \in Seq(S), NEW e \in S
  PROVE  /\ Append(s, e) \in Seq(S)
         /\ Len(s) \in Nat
         /\ Len(Append(s, e)) = Len(s) + 1
         /\ \A i \in 1 .. Len(s) : Append(s, e)[i] = s[i]
         /\ Append(s, e)[Len(s) + 1] = e
BY AppendProperties, LenProperties

(* Who is in a queue after one event is taken, or put at its end.          *)
LEMMA TakenElements ==
  ASSUME NEW S, NEW s \in Seq(S), s # <<>>, NEW i \in 1 .. Len(s)
  PROVE  \/ i = 1 /\ s[i] = Head(s)
         \/ i - 1 \in 1 .. Len(Tail(s)) /\ Tail(s)[i - 1] = s[i]
<1>1. CASE i = 1
  BY <1>1, Taken
<1>2. CASE i # 1
  <2>1. i - 1 \in 1 .. Len(Tail(s)) /\ (i - 1) + 1 = i
    BY <1>2, Taken
  <2> QED BY <2>1, Taken
<1> QED BY <1>1, <1>2

LEMMA QueuedElements ==
  ASSUME NEW S, NEW s \in Seq(S), NEW e \in S, NEW i \in 1 .. Len(Append(s, e))
  PROVE  \/ i \in 1 .. Len(s) /\ Append(s, e)[i] = s[i]
         \/ i = Len(s) + 1 /\ Append(s, e)[i] = e
BY Queued

-------------------------------------------------------------------------------
(* Types.                                                                  *)

PodWatch == Pod \X Place
NodeWatch == [node : Node, gone : BOOLEAN]
States == [Node -> {Unknown} \cup {<<s>> : s \in NodeState}]

LEMMA HappensCounts ==
  ASSUME TypeOK, NEW d \in Disturbance, Disturb(d)
  PROVE  env' \in [Disturbance -> Nat] /\ world' = world /\ env'[d] # 0
         /\ \A c \in Disturbance \ {d} : env'[c] = env[c]
BY DEF TypeOK, Disturb

LEMMA RecountTyped ==
  ASSUME TypeOK, NEW n \in Node PROVE Recount(n) \in {<<s>> : s \in NodeState}
<1> DEFINE Here == {p \in Pod : podStore[p] = n}
<1>1. Here \subseteq Pod /\ IsFiniteSet(Here) /\ Cardinality(Here) <= Cardinality(Pod)
  BY SchedulerAssumption, FS_Subset
<1>2. Cardinality(Here) \in Nat /\ Cardinality(Pod) \in Nat
  BY <1>1, SchedulerAssumption, FS_CardinalityType
<1>3. Cardinality(Here) \in 0 .. Word - 1
  BY <1>1, <1>2, SchedulerAssumption
<1>4. [ready |-> n \in alive, count |-> Cardinality(Here)] \in NodeState
  BY <1>3 DEF NodeState
<1> QED BY <1>4 DEF Recount

LEMMA CountedTyped ==
  ASSUME TypeOK, NEW n \in Node, NEW d \in {1, 0 - 1}
  PROVE  Counted(n, d) \in States
<1>1. CASE states[n] = Unknown
  BY <1>1 DEF Counted, TypeOK, States
<1>2. CASE states[n] # Unknown
  <2>1. PICK s \in NodeState : states[n] = <<s>>
    BY <1>2 DEF TypeOK
  <2> DEFINE t == [s EXCEPT !.count = (@ + Word + d) % Word]
  <2>2. s.count \in 0 .. Word - 1 /\ Word \in Nat \ {0}
    BY <2>1, SchedulerAssumption, FS_CardinalityType DEF NodeState
  <2>3. (s.count + Word + d) % Word \in 0 .. Word - 1
    BY <2>2
  <2>4. t \in NodeState
    BY <2>1, <2>3 DEF NodeState
  <2>5. Counted(n, d) = [states EXCEPT ![n] = <<t>>]
    <3>1. states[n][1] = s
      BY <2>1
    <3>2. [states[n][1] EXCEPT !.count = (@ + Word + d) % Word] = t
      BY <3>1
    <3> QED BY <1>2, <3>1, <3>2 DEF Counted
  <2>6. [states EXCEPT ![n] = <<t>>] \in States
    BY <2>4 DEF TypeOK, States
  <2> QED BY <2>5, <2>6
<1> QED BY <1>1, <1>2

LEMMA PutTyped ==
  ASSUME TypeOK, NEW p \in Pod, NEW place \in Place, PutPod(p, place)
  PROVE  /\ pods' \in [Pod -> Place] /\ podWatch' \in Seq(Pod \X Place)
         /\ linked' = linked /\ missed' \subseteq Pod
BY Queued DEF TypeOK, PutPod

(* Every reachable state of the scheduler is well typed: its queues are    *)
(* within their capacity, and no count leaves its width.                   *)
THEOREM SchedulerTypeCorrect == Spec => []TypeOK
<1>1. Init => TypeOK
  <2> SUFFICES ASSUME Init PROVE TypeOK
    OBVIOUS
  <2>1. Word \in Nat \ {0} /\ 0 \in 0 .. Word - 1
    BY SchedulerAssumption, FS_CardinalityType
  <2>2. [ready |-> TRUE, count |-> 0] \in NodeState
    BY <2>1 DEF NodeState
  <2>3. pods \in [Pod -> Place] /\ podStore \in [Pod -> Place]
    BY DEF Init, Place
  <2>4. states \in States
    BY <2>2 DEF Init, States
  <2>5. sched \in [at : {"idle", "bind", "put", "enqueue", "stuck"}, pod : SUBSET Pod,
                   node : SUBSET Node]
    BY DEF Init, Idle
  <2>6. Len(podQ) <= QueueCap /\ Len(nodeQ) <= QueueCap
    BY SchedulerAssumption DEF Init
  <2>7. /\ env \in [Disturbance -> Nat] /\ refused \subseteq Pod /\ world \in Worlds
        /\ linked \in [{"pod", "node"} -> BOOLEAN] /\ missed \subseteq Pod
    BY DEF Init
  <2>8. /\ nodes \subseteq Node /\ nodeStore \subseteq Node /\ alive \subseteq Node
        /\ podResync \in BOOLEAN /\ nodeResync \in BOOLEAN
    BY DEF Init
  <2>9. /\ podWatch \in Seq(Pod \X Place) /\ nodeWatch \in Seq([node : Node, gone : BOOLEAN])
        /\ podQ \in Seq(PodEvent) /\ nodeQ \in Seq(NodeEvent)
    BY EmptySeq DEF Init
  <2> QED BY <2>3, <2>4, <2>5, <2>6, <2>7, <2>8, <2>9 DEF TypeOK, States
<1>2. TypeOK /\ [Next]_vars => TypeOK'
  <2> SUFFICES ASSUME TypeOK, [Next]_vars PROVE TypeOK'
    OBVIOUS
  <2> USE SchedulerAssumption DEF etcdVars, storeVars, schedVars, envVars
  <2>1. ASSUME NEW p \in Pod, CreatePod(p) PROVE TypeOK'
    BY <2>1, PutTyped, HappensCounts DEF CreatePod, TypeOK, Place, Disturbance
  <2>2. ASSUME NEW p \in Pod, DeletePod(p) PROVE TypeOK'
    BY <2>2, PutTyped, HappensCounts DEF DeletePod, TypeOK, Place, Disturbance
  <2>3. ASSUME NEW n \in Node, Beat(n) PROVE TypeOK'
    <3>1. nodeWatch' \in Seq(NodeWatch) /\ nodes' \subseteq Node
      BY <2>3, Queued DEF Beat, PutNode, TypeOK, NodeWatch
    <3> QED BY <2>3, <3>1, HappensCounts DEF Beat, PutNode, TypeOK, NodeWatch, Disturbance
  <2>4. ASSUME NEW n \in Node, DropNode(n) PROVE TypeOK'
    <3>1. nodeWatch' \in Seq(NodeWatch) /\ nodes' \subseteq Node
      BY <2>4, Queued DEF DropNode, PutNode, TypeOK, NodeWatch
    <3> QED BY <2>4, <3>1, HappensCounts DEF DropNode, PutNode, TypeOK, NodeWatch, Disturbance
  <2>5. ASSUME NEW n \in Node, Die(n) PROVE TypeOK'
    BY <2>5, HappensCounts DEF Die, TypeOK, Disturbance
  <2>6. CASE ReceivePod
    <3>1. Head(podWatch) \in Pod \X Place /\ Tail(podWatch) \in Seq(Pod \X Place)
      BY <2>6, Taken DEF ReceivePod, TypeOK
    <3>2. podStore' \in [Pod -> Place]
      BY <2>6, <3>1 DEF ReceivePod, TypeOK
    <3>3. podQ' \in Seq(PodEvent) /\ Len(podQ') <= QueueCap
      <4>1. CASE UNCHANGED podQ
        BY <4>1 DEF TypeOK
      <4>2. CASE podQ' # podQ
        <5>1. PICK e \in PodEvent : podQ' = Append(podQ, e) /\ Len(podQ) < QueueCap
          BY <2>6, <3>1, <4>2 DEF ReceivePod, TypeOK, PodEvent
        <5> QED BY <5>1, Queued DEF TypeOK
      <4> QED BY <4>1, <4>2
    <3> QED BY <2>6, <3>1, <3>2, <3>3 DEF ReceivePod, TypeOK
  <2>7. CASE ReceiveNode
    <3>1. Head(nodeWatch) \in NodeWatch /\ Tail(nodeWatch) \in Seq(NodeWatch)
      BY <2>7, Taken DEF ReceiveNode, TypeOK, NodeWatch
    <3>2. nodeStore' \subseteq Node
      BY <2>7, <3>1 DEF ReceiveNode, TypeOK, NodeWatch
    <3>3. nodeQ' \in Seq(NodeEvent) /\ Len(nodeQ') <= QueueCap
      <4>1. CASE UNCHANGED nodeQ
        BY <4>1 DEF TypeOK
      <4>2. CASE nodeQ' # nodeQ
        <5>1. PICK e \in NodeEvent : nodeQ' = Append(nodeQ, e) /\ Len(nodeQ) < QueueCap
          BY <2>7, <3>1, <4>2 DEF ReceiveNode, TypeOK, NodeEvent, NodeWatch
        <5> QED BY <5>1, Queued DEF TypeOK
      <4> QED BY <4>1, <4>2
    <3> QED BY <2>7, <3>1, <3>2, <3>3 DEF ReceiveNode, TypeOK, NodeWatch
  <2>8. CASE RelistPods
    BY <2>8, HappensCounts, SMTT(30) DEF RelistPods, TypeOK, Disturbance
  <2>9. CASE RelistNodes
    BY <2>9, HappensCounts, SMTT(30) DEF RelistNodes, TypeOK, Disturbance
  <2>10. ASSUME TakePod
         PROVE  /\ Head(podQ) \in PodEvent /\ podQ' \in Seq(PodEvent) /\ Len(podQ') <= QueueCap
                /\ UNCHANGED <<pods, nodes, podWatch, nodeWatch, linked, missed, podStore,
                               nodeStore, nodeQ, podResync, nodeResync, alive, world, env>>
    <3>1. /\ Head(podQ) \in PodEvent /\ podQ' \in Seq(PodEvent)
          /\ Len(podQ) \in Nat /\ Len(podQ') = Len(podQ) - 1
      BY <2>10, Taken DEF TakePod, TypeOK
    <3> QED BY <2>10, <3>1 DEF TakePod, TypeOK
  <2>11. CASE HandlePodAdd
    <3>1. TakePod
      BY <2>11 DEF HandlePodAdd
    <3> DEFINE Sched == [at : {"idle", "bind", "put", "enqueue", "stuck"},
                         pod : SUBSET Pod, node : SUBSET Node]
    <3>2. Head(podQ).pod \in Pod /\ Emptiest(Candidates(Head(podQ).pod)) \subseteq Node
      BY <2>10, <3>1 DEF PodEvent, Emptiest, Candidates
    <3>3. \A n \in Node :
            [at |-> "bind", pod |-> {Head(podQ).pod}, node |-> {n}] \in Sched
      BY <3>2
    <3>4. states' = states /\ refused' \subseteq Pod /\ sched' \in Sched
      BY <2>11, <3>2, <3>3 DEF HandlePodAdd, TypeOK
    <3> QED BY <2>10, <3>1, <3>4 DEF TypeOK
  <2>12. CASE HandlePodUpdate
    BY <2>12, <2>10 DEF HandlePodUpdate, TypeOK
  <2>13. CASE HandlePodDelete
    <3>1. TakePod
      BY <2>13 DEF HandlePodDelete
    <3>2. states' \in States
      BY <2>13, CountedTyped DEF HandlePodDelete, TypeOK, States
    <3> QED BY <2>13, <2>10, <3>1, <3>2 DEF HandlePodDelete, TypeOK, States
  <2>14. CASE HandleNode
    <3>1. /\ Head(nodeQ) \in NodeEvent /\ nodeQ' \in Seq(NodeEvent)
          /\ Len(nodeQ) \in Nat /\ Len(nodeQ') = Len(nodeQ) - 1
      BY <2>14, Taken DEF HandleNode, TypeOK
    <3>2. 0 \in 0 .. Word - 1
      BY FS_CardinalityType
    <3>3. <<[ready |-> Head(nodeQ).node \in alive, count |-> 0]>> \in {<<s>> : s \in NodeState}
      <4>1. [ready |-> Head(nodeQ).node \in alive, count |-> 0] \in NodeState
        BY <3>2 DEF NodeState
      <4> QED BY <4>1
    <3>4. Recount(Head(nodeQ).node) \in {<<s>> : s \in NodeState}
      BY <3>1, RecountTyped DEF NodeEvent
    <3>5. states' \in States
      BY <2>14, <3>1, <3>3, <3>4 DEF HandleNode, TypeOK, States, NodeEvent
    <3>6. Len(nodeQ') <= QueueCap
      BY <3>1 DEF TypeOK
    <3> QED BY <2>14, <3>1, <3>5, <3>6 DEF HandleNode, TypeOK, States
  <2>15. CASE RefreshCache
    <3>1. states' \in States
      BY <2>15, RecountTyped DEF RefreshCache, TypeOK, States
    <3> QED BY <2>15, <3>1 DEF RefreshCache, TypeOK, States
  <2>16. CASE StartEnqueue
    BY <2>16 DEF StartEnqueue, TypeOK, Idle, In
  <2>17. CASE EnqueuePod
    <3>1. PICK p \in sched.pod :
            /\ podQ' = Append(podQ, [kind |-> "Add", pod |-> p, at |-> podStore[p]])
            /\ sched' = IF sched.pod = {p} THEN Idle ELSE [sched EXCEPT !.pod = @ \ {p}]
      BY <2>17 DEF EnqueuePod
    <3>2. [kind |-> "Add", pod |-> p, at |-> podStore[p]] \in PodEvent
      BY <3>1 DEF TypeOK, PodEvent
    <3>3. podQ' \in Seq(PodEvent) /\ Len(podQ') <= QueueCap
      BY <2>17, <3>1, <3>2, Queued DEF EnqueuePod, TypeOK
    <3> QED BY <2>17, <3>1, <3>3 DEF EnqueuePod, TypeOK, Idle
  <2>18. CASE BindRead
    <3>1. states' \in States
      BY <2>18, CountedTyped DEF BindRead, TypeOK, States
    <3>2. /\ sched' \in [at : {"idle", "bind", "put", "enqueue", "stuck"}, pod : SUBSET Pod,
                         node : SUBSET Node]
          /\ refused' \subseteq Pod
      <4>1. CASE sched' = [sched EXCEPT !.at = "put"] /\ refused' = refused
        BY <4>1 DEF TypeOK
      <4>2. CASE sched' = Idle /\ refused' = refused \cup sched.pod
        BY <4>2 DEF TypeOK, Idle
      <4> QED BY <2>18, <4>1, <4>2 DEF BindRead
    <3> QED BY <2>18, <3>1, <3>2 DEF BindRead, TypeOK, States
  <2>19. CASE BindPut
    <3>1. PICK p \in sched.pod, n \in sched.node : PutPod(p, n) /\ states' = Counted(n, 1)
      BY <2>19 DEF BindPut
    <3>2. p \in Pod /\ n \in Node /\ n \in Place
      BY <3>1 DEF TypeOK, Place
    <3> QED BY <2>19, <3>1, <3>2, PutTyped, CountedTyped DEF BindPut, TypeOK, Idle, States
  <2>20. CASE BindLost
    <3>1. /\ pods' \in [Pod -> Place] /\ podWatch' \in Seq(Pod \X Place)
          /\ linked' = linked /\ missed' \subseteq Pod
      BY <2>20, PutTyped DEF BindLost, TypeOK, Place
    <3> QED BY <2>20, <3>1, HappensCounts DEF BindLost, TypeOK, Idle, Disturbance
  <2>21. CASE UNCHANGED vars
    BY <2>21 DEF vars, TypeOK
  <2>22. ASSUME NEW k \in {"pod", "node"}, Connect(k) PROVE TypeOK'
    BY <2>22 DEF Connect, TypeOK
  <2>23. CASE LockedOut
    <3>1. nodeQ' \in Seq(NodeEvent) /\ Len(nodeQ') <= QueueCap
      <4>1. CASE nodeQ' = nodeQ
        BY <4>1 DEF TypeOK
      <4>2. CASE nodeQ # <<>> /\ nodeQ' = Tail(nodeQ)
        <5>1. /\ nodeQ' \in Seq(NodeEvent)
              /\ Len(nodeQ) \in Nat /\ Len(nodeQ') = Len(nodeQ) - 1
          BY <4>2, Taken DEF TypeOK
        <5> QED BY <5>1 DEF TypeOK
      <4> QED BY <2>23, <4>1, <4>2 DEF LockedOut
    <3>2. states' \in States /\ podResync' \in BOOLEAN /\ nodeResync' \in BOOLEAN
      BY <2>23 DEF LockedOut, TypeOK, States
    <3>3. \/ sched' = [Idle EXCEPT !.at = "stuck"]
          \/ sched' = [Idle EXCEPT !.at = "stuck", !.pod = In(podStore)]
      BY <2>23 DEF LockedOut
    <3>4. sched' \in [at : {"idle", "bind", "put", "enqueue", "stuck"}, pod : SUBSET Pod,
                     node : SUBSET Node]
      BY <3>3 DEF Idle, In
    <3> QED BY <2>23, <3>1, <3>2, <3>4 DEF LockedOut, TypeOK, States
  <2> QED BY <2>1, <2>2, <2>3, <2>4, <2>5, <2>6, <2>7, <2>8, <2>9, <2>11, <2>12, <2>13,
             <2>14, <2>15, <2>16, <2>17, <2>18, <2>19, <2>20, <2>21, <2>22, <2>23 DEF Next, Schedule
<1> QED BY <1>1, <1>2, PTL DEF Spec

-------------------------------------------------------------------------------
(* No pod is forgotten.                                                    *)

InWatch(p) == \E i \in 1 .. Len(podWatch) : podWatch[i][1] = p
Enqueued(p) ==
  \E i \in 1 .. Len(podQ) : podQ[i] = [kind |-> "Add", pod |-> p, at |-> Unbound]

(* While a pod has no node, its creation is the only thing that happened   *)
(* to it, and either the store or the watch has it, or nobody saw it.      *)
Seen(p) == IF p \in missed THEN Gone ELSE Unbound
OnlyCreated(p) ==
  pods[p] = Unbound =>
    \/ ~InWatch(p) /\ podStore[p] = Seen(p)
    \/ /\ p \notin missed /\ podStore[p] = Gone
       /\ \E i \in 1 .. Len(podWatch) :
            /\ podWatch[i] = <<p, Unbound>>
            /\ \A j \in 1 .. Len(podWatch) : podWatch[j][1] = p => j = i

Remembered(p) ==
  pods[p] = Unbound /\ p \notin refused /\ p \notin missed =>
    InWatch(p) \/ Enqueued(p) \/ p \in sched.pod \/ podResync

(* The scheduler binds one pod at a time.                                  *)
OneBinding ==
  sched.at \in {"bind", "put"} => \E q \in Pod : sched.pod = {q}

(* What a put does to the watch, if there is one.                          *)
LEMMA PutIsSeen ==
  ASSUME TypeOK, NEW q \in Pod, NEW place \in Place, PutPod(q, place), NEW p \in Pod
  PROVE  /\ InWatch(p)' <=> (InWatch(p) \/ (p = q /\ linked["pod"]))
         /\ p # q => pods'[p] = pods[p] /\ (p \in missed' <=> p \in missed)
         /\ pods'[q] = place /\ (q \in missed' <=> ~linked["pod"])
<1>1. /\ p # q => pods'[p] = pods[p] /\ (p \in missed' <=> p \in missed)
      /\ pods'[q] = place /\ (q \in missed' <=> ~linked["pod"])
  BY DEF PutPod, TypeOK
<1>2. CASE ~linked["pod"]
  <2>1. podWatch' = podWatch
    BY <1>2 DEF PutPod
  <2> QED BY <1>1, <1>2, <2>1 DEF InWatch
<1>3. CASE linked["pod"]
  <2>1. podWatch' = Append(podWatch, <<q, place>>) /\ podWatch \in Seq(PodWatch)
    BY <1>3 DEF PutPod, TypeOK, PodWatch
  <2>2. <<q, place>> \in PodWatch
    BY DEF PodWatch
  <2>3. /\ Len(podWatch) \in Nat /\ Len(podWatch') = Len(podWatch) + 1
        /\ \A i \in 1 .. Len(podWatch) : podWatch'[i] = podWatch[i]
        /\ podWatch'[Len(podWatch) + 1] = <<q, place>>
    BY <2>1, <2>2, Queued
  <2>4. Len(podWatch) + 1 \in 1 .. Len(podWatch')
    BY <2>3
  <2>5. ASSUME InWatch(p)' PROVE InWatch(p) \/ p = q
    <3>1. PICK i \in 1 .. Len(podWatch') : podWatch'[i][1] = p
      BY <2>5 DEF InWatch
    <3>2. CASE i = Len(podWatch) + 1
      BY <2>3, <3>1, <3>2
    <3>3. CASE i \in 1 .. Len(podWatch)
      BY <2>3, <3>1, <3>3 DEF InWatch
    <3> QED BY <2>3, <3>2, <3>3
  <2>6. InWatch(p) => InWatch(p)'
    <3> SUFFICES ASSUME InWatch(p) PROVE InWatch(p)'
      OBVIOUS
    <3>1. PICK i \in 1 .. Len(podWatch) : podWatch[i][1] = p
      BY DEF InWatch
    <3>2. i \in 1 .. Len(podWatch') /\ podWatch'[i][1] = p
      BY <2>3, <3>1
    <3> QED BY <3>2 DEF InWatch
  <2>7. p = q => InWatch(p)'
    BY <2>3, <2>4 DEF InWatch
  <2> QED BY <1>1, <1>3, <2>5, <2>6, <2>7
<1> QED BY <1>2, <1>3

(* A put leaves what is known of the other pods as it was.                 *)
LEMMA PutLeavesOthers ==
  ASSUME TypeOK, NEW q \in Pod, NEW place \in Place, PutPod(q, place),
         NEW p \in Pod, p # q, UNCHANGED podStore, OnlyCreated(p)
  PROVE  OnlyCreated(p)'
<1>0. CASE ~linked["pod"]
  <2>1. podWatch' = podWatch
    BY <1>0 DEF PutPod
  <2>2. pods'[p] = pods[p] /\ (p \in missed' <=> p \in missed)
    BY PutIsSeen
  <2> QED BY <2>1, <2>2 DEF OnlyCreated, InWatch, Seen
<1> SUFFICES ASSUME linked["pod"] PROVE OnlyCreated(p)'
  BY <1>0
<1>1. podWatch' = Append(podWatch, <<q, place>>) /\ podWatch \in Seq(PodWatch)
  BY DEF PutPod, TypeOK, PodWatch
<1>2. <<q, place>> \in PodWatch
  BY DEF PodWatch
<1>3. /\ Len(podWatch) \in Nat /\ Len(podWatch') = Len(podWatch) + 1
      /\ \A i \in 1 .. Len(podWatch) : podWatch'[i] = podWatch[i]
      /\ podWatch'[Len(podWatch) + 1] = <<q, place>>
  BY <1>1, <1>2, Queued
<1>4. SUFFICES ASSUME pods'[p] = Unbound PROVE OnlyCreated(p)'
  BY DEF OnlyCreated
<1>5. pods[p] = Unbound
  BY <1>4, PutIsSeen
<1>6. CASE ~InWatch(p) /\ podStore[p] = Seen(p)
  BY <1>6, PutIsSeen DEF OnlyCreated, Seen
<1>7. CASE ~(~InWatch(p) /\ podStore[p] = Seen(p))
  <2>1. PICK i \in 1 .. Len(podWatch) :
          /\ podWatch[i] = <<p, Unbound>>
          /\ \A j \in 1 .. Len(podWatch) : podWatch[j][1] = p => j = i
    BY <1>5, <1>7 DEF OnlyCreated
  <2>2. i \in 1 .. Len(podWatch') /\ podWatch'[i] = <<p, Unbound>>
    BY <1>3, <2>1
  <2>3. \A j \in 1 .. Len(podWatch') : podWatch'[j][1] = p => j = i
    <3> SUFFICES ASSUME NEW j \in 1 .. Len(podWatch'), podWatch'[j][1] = p PROVE j = i
      OBVIOUS
    <3>1. j # Len(podWatch) + 1
      BY <1>3
    <3>2. j \in 1 .. Len(podWatch)
      BY <1>3, <3>1
    <3> QED BY <1>3, <2>1, <3>2
  <2>4. podStore'[p] = Gone /\ p \notin missed'
    BY <1>5, <1>7, PutIsSeen DEF OnlyCreated
  <2> QED BY <2>2, <2>3, <2>4 DEF OnlyCreated
<1> QED BY <1>6, <1>7

(* An event taken from the watch, and what it makes of the others.         *)
LEMMA ReceivedKeepsOthers ==
  ASSUME TypeOK, ReceivePod, NEW p \in Pod, InWatch(p), p # Head(podWatch)[1]
  PROVE  InWatch(p)'
<1>1. podWatch \in Seq(PodWatch) /\ podWatch # <<>> /\ podWatch' = Tail(podWatch)
  BY DEF TypeOK, PodWatch, ReceivePod
<1>2. PICK i \in 1 .. Len(podWatch) : podWatch[i][1] = p
  BY DEF InWatch
<1>3. i - 1 \in 1 .. Len(podWatch') /\ podWatch'[i - 1] = podWatch[i]
  BY <1>1, <1>2, TakenElements
<1> QED BY <1>2, <1>3 DEF InWatch

LEMMA ReceivedOnlyCreated ==
  ASSUME TypeOK, ReceivePod, NEW p \in Pod, OnlyCreated(p)
  PROVE  OnlyCreated(p)'
<1> DEFINE q == Head(podWatch)[1]
<1>1. /\ podWatch \in Seq(PodWatch) /\ podWatch # <<>> /\ podWatch' = Tail(podWatch)
      /\ podStore' = [podStore EXCEPT ![q] = Head(podWatch)[2]] /\ pods' = pods
      /\ missed' = missed
  BY DEF TypeOK, PodWatch, ReceivePod
<1>2. /\ Len(podWatch) \in Nat \ {0} /\ Len(podWatch') = Len(podWatch) - 1
      /\ Head(podWatch) = podWatch[1]
      /\ \A i \in 1 .. Len(podWatch') : podWatch'[i] = podWatch[i + 1]
      /\ q \in Pod
  BY <1>1, Taken DEF PodWatch
<1>3. SUFFICES ASSUME pods[p] = Unbound PROVE OnlyCreated(p)'
  BY <1>1 DEF OnlyCreated
<1>4. CASE ~InWatch(p) /\ podStore[p] = Seen(p)
  <2>1. q # p
    BY <1>2, <1>4 DEF InWatch
  <2>2. \A i \in 1 .. Len(podWatch') : i + 1 \in 1 .. Len(podWatch)
    BY <1>2
  <2>3. ~InWatch(p)'
    BY <1>2, <1>4, <2>2 DEF InWatch
  <2>4. podStore'[p] = Seen(p)
    BY <1>1, <1>4, <2>1 DEF TypeOK
  <2> QED BY <1>1, <2>3, <2>4 DEF OnlyCreated, Seen
<1>5. CASE ~(~InWatch(p) /\ podStore[p] = Seen(p))
  <2>1. PICK i \in 1 .. Len(podWatch) :
          /\ podWatch[i] = <<p, Unbound>>
          /\ \A j \in 1 .. Len(podWatch) : podWatch[j][1] = p => j = i
    BY <1>3, <1>5 DEF OnlyCreated
  <2>2. podStore[p] = Gone /\ p \notin missed
    BY <1>3, <1>5 DEF OnlyCreated
  <2>3. \A j \in 1 .. Len(podWatch') :
          j + 1 \in 1 .. Len(podWatch) /\ podWatch'[j] = podWatch[j + 1]
    BY <1>2
  <2>4. CASE i = 1
    <3>1. \A j \in 1 .. Len(podWatch') : podWatch'[j][1] # p
      <4> SUFFICES ASSUME NEW j \in 1 .. Len(podWatch'), podWatch'[j][1] = p PROVE FALSE
        OBVIOUS
      <4>1. j + 1 = 1
        BY <2>1, <2>3, <2>4
      <4> QED BY <4>1, <1>2
    <3>2. Head(podWatch) = <<p, Unbound>>
      BY <1>2, <2>1, <2>4
    <3>3. podStore'[p] = Unbound
      BY <1>1, <3>2 DEF TypeOK
    <3>4. ~InWatch(p)'
      BY <3>1 DEF InWatch
    <3>5. podStore'[p] = Seen(p)'
      BY <1>1, <2>2, <3>3 DEF Seen
    <3> QED BY <3>4, <3>5 DEF OnlyCreated
  <2>5. CASE i # 1
    <3>1. q # p
      BY <1>2, <2>1, <2>5
    <3>2. podStore'[p] = Gone /\ p \notin missed'
      BY <1>1, <2>2, <3>1 DEF TypeOK
    <3>3. i - 1 \in 1 .. Len(podWatch') /\ podWatch'[i - 1] = <<p, Unbound>>
      BY <1>2, <2>1, <2>5, <2>3
    <3>4. \A j \in 1 .. Len(podWatch') : podWatch'[j][1] = p => j = i - 1
      <4> SUFFICES ASSUME NEW j \in 1 .. Len(podWatch'), podWatch'[j][1] = p PROVE j = i - 1
        OBVIOUS
      <4>1. j + 1 = i
        BY <2>1, <2>3
      <4> QED BY <4>1, <1>2
    <3> QED BY <3>2, <3>3, <3>4 DEF OnlyCreated
  <2> QED BY <2>4, <2>5
<1> QED BY <1>4, <1>5

LEMMA StepOnlyCreated ==
  ASSUME TypeOK, [Next]_vars, NEW p \in Pod, OnlyCreated(p)
  PROVE  OnlyCreated(p)'
<1>1. ASSUME NEW q \in Pod, CreatePod(q) PROVE OnlyCreated(p)'
  <2>1. PutPod(q, Unbound) /\ UNCHANGED podStore /\ Unbound \in Place
    BY <1>1 DEF CreatePod, storeVars, Place
  <2>4. CASE p = q /\ ~linked["pod"]
    <3>1. podStore'[p] = Gone /\ ~InWatch(p)
      BY <1>1, <2>1, <2>4 DEF CreatePod, InWatch
    <3>2. p \in missed' /\ ~InWatch(p)'
      BY <2>1, <2>4, <3>1, PutIsSeen
    <3> QED BY <3>1, <3>2 DEF OnlyCreated, Seen
  <2>2. CASE p = q /\ linked["pod"]
    <3>1. podWatch \in Seq(PodWatch) /\ <<p, Unbound>> \in PodWatch
      BY <2>1 DEF TypeOK, PodWatch
    <3>2. /\ Len(podWatch) \in Nat /\ Len(podWatch') = Len(podWatch) + 1
          /\ \A j \in 1 .. Len(podWatch) : podWatch'[j] = podWatch[j]
          /\ podWatch'[Len(podWatch) + 1] = <<p, Unbound>>
      BY <2>1, <2>2, <3>1, Queued DEF PutPod
    <3>6. p \notin missed'
      BY <2>1, <2>2, PutIsSeen
    <3>3. podStore'[p] = Gone /\ \A j \in 1 .. Len(podWatch) : podWatch[j][1] # p
      BY <1>1, <2>1, <2>2 DEF CreatePod
    <3>4. \A j \in 1 .. Len(podWatch') : podWatch'[j][1] = p => j = Len(podWatch) + 1
      BY <3>2, <3>3
    <3>5. Len(podWatch) + 1 \in 1 .. Len(podWatch')
      BY <3>2
    <3> QED BY <3>2, <3>3, <3>4, <3>5, <3>6 DEF OnlyCreated
  <2>3. CASE p # q
    BY <2>1, <2>3, PutLeavesOthers
  <2> QED BY <2>2, <2>3, <2>4
<1>2. ASSUME NEW q \in Pod, NEW place \in Place, PutPod(q, place), place # Unbound,
             UNCHANGED podStore
      PROVE  OnlyCreated(p)'
  <2>1. CASE p = q
    BY <1>2, <2>1, PutIsSeen DEF OnlyCreated
  <2>2. CASE p # q
    BY <1>2, <2>2, PutLeavesOthers
  <2> QED BY <2>1, <2>2
<1>3. ASSUME NEW q \in Pod, DeletePod(q) PROVE OnlyCreated(p)'
  BY <1>2, <1>3, SchedulerAssumption DEF DeletePod, Place, storeVars
<1>4. CASE ReceivePod
  BY <1>4, ReceivedOnlyCreated
<1>5. CASE RelistPods
  <2>1. podWatch' = <<>> /\ podStore' = pods /\ pods' = pods /\ missed' = {}
    BY <1>5 DEF RelistPods
  <2>2. ~InWatch(p)'
    BY <2>1 DEF InWatch
  <2> QED BY <2>1, <2>2 DEF OnlyCreated, Seen
<1>6. CASE BindPut \/ BindLost
  <2>1. podStore' = podStore
    BY <1>6 DEF BindPut, BindLost, storeVars
  <2>2. CASE UNCHANGED <<pods, podWatch, linked, missed>>
    BY <2>1, <2>2 DEF OnlyCreated, InWatch, Seen
  <2>3. CASE \E q \in sched.pod, n \in sched.node : PutPod(q, n)
    <3>1. PICK q \in sched.pod, n \in sched.node : PutPod(q, n)
      BY <2>3
    <3>2. q \in Pod /\ n \in Place /\ n # Unbound
      BY <3>1, SchedulerAssumption DEF TypeOK, Place
    <3> QED BY <1>2, <2>1, <3>1, <3>2
  <2> QED BY <1>6, <2>2, <2>3 DEF BindPut, BindLost
<1>7. CASE UNCHANGED <<pods, podWatch, podStore, missed>>
  BY <1>7 DEF OnlyCreated, InWatch, Seen
<1> QED
  BY <1>1, <1>3, <1>4, <1>5, <1>6, <1>7
  DEF Next, Schedule, Beat, DropNode, PutNode, Die, ReceiveNode, RelistNodes, Connect, LockedOut, TakePod, HandlePodAdd,
      HandlePodUpdate, HandlePodDelete, HandleNode, RefreshCache, StartEnqueue, EnqueuePod,
      BindRead, vars, etcdVars, storeVars

(* An Add event that is not the one taken stays queued.                    *)
LEMMA OthersStayQueued ==
  ASSUME TypeOK, TakePod, NEW p \in Pod, Enqueued(p),
         Head(podQ) # [kind |-> "Add", pod |-> p, at |-> Unbound]
  PROVE  Enqueued(p)'
<1>1. podQ \in Seq(PodEvent) /\ podQ # <<>> /\ podQ' = Tail(podQ)
  BY DEF TypeOK, TakePod
<1>2. PICK i \in 1 .. Len(podQ) : podQ[i] = [kind |-> "Add", pod |-> p, at |-> Unbound]
  BY DEF Enqueued
<1>3. i - 1 \in 1 .. Len(podQ') /\ podQ'[i - 1] = podQ[i]
  BY <1>1, <1>2, TakenElements
<1> QED BY <1>2, <1>3 DEF Enqueued

LEMMA MoreIsQueued ==
  ASSUME TypeOK, NEW e \in PodEvent, podQ' = Append(podQ, e), NEW p \in Pod,
         Enqueued(p) \/ e = [kind |-> "Add", pod |-> p, at |-> Unbound]
  PROVE  Enqueued(p)'
<1>1. /\ Len(podQ) \in Nat /\ Len(podQ') = Len(podQ) + 1
      /\ \A i \in 1 .. Len(podQ) : podQ'[i] = podQ[i]
      /\ podQ'[Len(podQ) + 1] = e
  BY Queued DEF TypeOK
<1>2. CASE Enqueued(p)
  BY <1>1, <1>2 DEF Enqueued
<1>3. CASE e = [kind |-> "Add", pod |-> p, at |-> Unbound]
  <2>1. Len(podQ) + 1 \in 1 .. Len(podQ')
    BY <1>1
  <2> QED BY <1>1, <1>3, <2>1 DEF Enqueued
<1> QED BY <1>2, <1>3

LEMMA StepBindsOne ==
  ASSUME TypeOK, [Next]_vars, OneBinding PROVE OneBinding'
<1>1. CASE HandlePodAdd
  <2>1. Head(podQ).pod \in Pod
    <3>1. podQ \in Seq(PodEvent) /\ podQ # <<>>
      BY <1>1 DEF HandlePodAdd, TakePod, TypeOK
    <3>2. Head(podQ) \in PodEvent
      BY <3>1, Taken
    <3> QED BY <3>2 DEF PodEvent
  <2>2. \/ sched' = sched
        \/ sched'.pod = {Head(podQ).pod}
    BY <1>1 DEF HandlePodAdd, schedVars
  <2>3. CASE sched' = sched
    BY <2>3 DEF OneBinding
  <2>4. CASE sched'.pod = {Head(podQ).pod}
    BY <2>1, <2>4 DEF OneBinding
  <2> QED BY <2>2, <2>3, <2>4
<1>2. CASE StartEnqueue \/ LockedOut
  BY <1>2 DEF StartEnqueue, LockedOut, OneBinding, Idle
<1>3. CASE EnqueuePod
  BY <1>3 DEF EnqueuePod, OneBinding, Idle, TypeOK
<1>4. CASE BindRead
  <2>1. sched'.at = "idle" \/ sched'.pod = sched.pod
    BY <1>4 DEF BindRead, Idle, TypeOK
  <2> QED BY <1>4, <2>1 DEF BindRead, OneBinding
<1>5. CASE BindPut \/ BindLost
  BY <1>5 DEF BindPut, BindLost, OneBinding, Idle
<1>6. CASE sched' = sched
  BY <1>6 DEF OneBinding
<1>7. CASE UNCHANGED vars
  BY <1>6, <1>7 DEF vars, schedVars
<1>8. CASE Schedule
  BY <1>1, <1>2, <1>3, <1>4, <1>5, <1>6, <1>8
  DEF Schedule, HandlePodUpdate, HandlePodDelete, HandleNode, RefreshCache, schedVars
<1> QED
  BY <1>5, <1>6, <1>7, <1>8
  DEF Next, CreatePod, DeletePod, Beat, DropNode, PutNode, Die, Connect, LockedOut, ReceivePod, ReceiveNode,
      RelistPods, RelistNodes, schedVars

(* Each step that takes away what reminds the scheduler of a pod leaves    *)
(* another reminder, or gives the pod a node or up.                        *)
LEMMA StepRemembers ==
  ASSUME TypeOK, [Next]_vars, NEW p \in Pod, OnlyCreated(p), Remembered(p), OneBinding
  PROVE  Remembered(p)'
<1> USE DEF Remembered
<1>1. ASSUME NEW q \in Pod, CreatePod(q) PROVE Remembered(p)'
  <2>1. PutPod(q, Unbound) /\ Unbound \in Place /\ refused' = refused \ {q}
        /\ UNCHANGED <<podQ, sched, podResync>>
    BY <1>1 DEF CreatePod, storeVars, Place
  <2> QED BY <2>1, PutIsSeen DEF Enqueued
<1>2. ASSUME NEW q \in Pod, NEW place \in Place, PutPod(q, place), place # Unbound
      PROVE  \/ pods'[p] # Unbound
             \/ /\ pods'[p] = pods[p]
                /\ InWatch(p) => InWatch(p)'
                /\ p \in missed' \/ p \notin missed
  BY <1>2, PutIsSeen
<1>3. ASSUME NEW q \in Pod, DeletePod(q) PROVE Remembered(p)'
  <2>1. PutPod(q, Gone) /\ Gone \in Place /\ Gone # Unbound
        /\ UNCHANGED <<podQ, sched, podResync, refused>>
    BY <1>3, SchedulerAssumption DEF DeletePod, storeVars, schedVars, Place
  <2> QED BY <1>2, <2>1 DEF Enqueued
<1>4. CASE ReceivePod
  <2> SUFFICES ASSUME pods[p] = Unbound, p \notin refused, p \notin missed
               PROVE  Remembered(p)'
    BY <1>4 DEF ReceivePod, schedVars
  <2> DEFINE q == Head(podWatch)[1]
             new == Head(podWatch)[2]
  <2>1. /\ podWatch # <<>> /\ Head(podWatch) = podWatch[1]
        /\ 1 \in 1 .. Len(podWatch) /\ Head(podWatch) \in Pod \X Place
        /\ UNCHANGED <<pods, missed, refused, sched, podResync>>
    BY <1>4, Taken DEF ReceivePod, TypeOK, schedVars
  <2>2. \/ podQ' = podQ
        \/ \E e \in PodEvent : podQ' = Append(podQ, e)
    BY <1>4, <2>1 DEF ReceivePod, TypeOK, PodEvent
  <2>3. Enqueued(p) => Enqueued(p)'
    <3>1. CASE podQ' = podQ
      BY <3>1 DEF Enqueued
    <3> QED BY <2>2, <3>1, MoreIsQueued
  <2>4. CASE q # p
    BY <1>4, <2>1, <2>3, <2>4, ReceivedKeepsOthers
  <2>5. CASE q = p
    <3>1. podStore[p] = Gone /\ new = Unbound
      BY <2>1, <2>5 DEF OnlyCreated, InWatch
    <3>2. podQ' = Append(podQ, [kind |-> "Add", pod |-> p, at |-> Unbound])
      BY <1>4, <2>5, <3>1, SchedulerAssumption DEF ReceivePod
    <3>3. [kind |-> "Add", pod |-> p, at |-> Unbound] \in PodEvent
      BY DEF PodEvent, Place
    <3> QED BY <3>2, <3>3, MoreIsQueued
  <2> QED BY <2>4, <2>5
<1>5. CASE RelistPods
  <2>1. /\ UNCHANGED <<pods, refused, sched, podQ>>
        /\ podResync' = (podResync \/ podStore # pods)
    BY <1>5 DEF RelistPods, schedVars
  <2>2. CASE pods[p] = Unbound /\ podStore = pods
    <3>1. ~InWatch(p) /\ p \notin missed
      BY <2>2, SchedulerAssumption DEF OnlyCreated, Seen
    <3> QED BY <2>1, <3>1 DEF Enqueued
  <2>3. CASE ~(pods[p] = Unbound /\ podStore = pods)
    BY <2>1, <2>3 DEF Enqueued
  <2> QED BY <2>2, <2>3
<1>6. ASSUME TakePod, p \notin refused', p \notin missed', pods'[p] = Unbound,
             Head(podQ) # [kind |-> "Add", pod |-> p, at |-> Unbound],
             refused \subseteq refused'
      PROVE  Remembered(p)'
  <2>1. UNCHANGED <<pods, podWatch, missed, podResync>> /\ sched.pod = {}
    BY <1>6 DEF TakePod, etcdVars, Idle
  <2> QED BY <1>6, <2>1, OthersStayQueued DEF InWatch
<1>7. CASE HandlePodAdd
  <2> SUFFICES ASSUME p \notin refused', p \notin missed', pods'[p] = Unbound
               PROVE  Remembered(p)'
    OBVIOUS
  <2>1. TakePod /\ refused \subseteq refused'
    BY <1>7 DEF HandlePodAdd, schedVars
  <2>2. CASE Head(podQ) = [kind |-> "Add", pod |-> p, at |-> Unbound]
    <3>1. Head(podQ).pod = p /\ Head(podQ).at = Unbound
      BY <2>2
    <3>2. p \in sched'.pod
      BY <1>7, <3>1 DEF HandlePodAdd
    <3> QED BY <3>2
  <2> QED BY <1>6, <2>1, <2>2
<1>8. CASE HandlePodUpdate \/ HandlePodDelete
  <2>1. TakePod /\ refused' = refused /\ Head(podQ).kind # "Add"
    BY <1>8 DEF HandlePodUpdate, HandlePodDelete, schedVars
  <2> QED BY <1>6, <2>1
<1>9. CASE StartEnqueue
  <2>1. UNCHANGED <<pods, podWatch, missed, podStore, refused>>
    BY <1>9 DEF StartEnqueue, etcdVars
  <2>2. sched'.pod = In(podStore)
    BY <1>9 DEF StartEnqueue, Idle
  <2>3. podStore[p] = Unbound => p \in In(podStore)
    BY SchedulerAssumption DEF In
  <2> QED BY <2>1, <2>2, <2>3 DEF OnlyCreated, InWatch, Seen
<1>15. CASE LockedOut
  <2>1. UNCHANGED <<pods, podWatch, missed, podStore, podQ, refused>> /\ sched.pod = {}
    BY <1>15 DEF LockedOut, etcdVars, Idle
  <2>2. podStore[p] = Unbound => p \in In(podStore)
    BY SchedulerAssumption DEF In
  <2>3. podResync' = podResync \/ sched' = [Idle EXCEPT !.at = "stuck", !.pod = In(podStore)]
    BY <1>15 DEF LockedOut
  <2>4. podResync' = podResync \/ sched'.pod = In(podStore)
    BY <2>3 DEF Idle
  <2>5. CASE podResync' = podResync
    BY <2>1, <2>5 DEF InWatch, Enqueued
  <2>6. CASE sched'.pod = In(podStore)
    BY <2>1, <2>2, <2>6 DEF OnlyCreated, InWatch, Seen
  <2> QED BY <2>4, <2>5, <2>6
<1>10. CASE EnqueuePod
  <2>1. PICK q \in sched.pod :
          /\ podQ' = Append(podQ, [kind |-> "Add", pod |-> q, at |-> podStore[q]])
          /\ sched' = IF sched.pod = {q} THEN Idle ELSE [sched EXCEPT !.pod = @ \ {q}]
    BY <1>10 DEF EnqueuePod
  <2>2. UNCHANGED <<pods, podWatch, missed, podStore, refused, podResync>>
    BY <1>10 DEF EnqueuePod, etcdVars
  <2>3. sched'.pod = sched.pod \ {q}
    BY <2>1 DEF TypeOK, Idle
  <2>4. [kind |-> "Add", pod |-> q, at |-> podStore[q]] \in PodEvent
    BY <2>1 DEF TypeOK, PodEvent
  <2>5. Enqueued(p) \/ (p = q /\ podStore[p] = Unbound) => Enqueued(p)'
    BY <2>1, <2>4, MoreIsQueued
  <2> QED BY <2>2, <2>3, <2>5 DEF OnlyCreated, InWatch, Seen
<1>11. CASE BindRead
  <2>1. UNCHANGED <<pods, podWatch, missed, podQ, podResync>>
    BY <1>11 DEF BindRead, etcdVars, storeVars
  <2>2. \/ refused' = refused \cup sched.pod
        \/ refused' = refused /\ sched'.pod = sched.pod
    BY <1>11 DEF BindRead, TypeOK
  <2> QED BY <2>1, <2>2 DEF InWatch, Enqueued
<1>12. CASE BindPut
  <2>1. PICK q \in sched.pod, n \in sched.node : PutPod(q, n)
    BY <1>12 DEF BindPut
  <2>2. sched.at = "put" /\ UNCHANGED <<podQ, podResync, refused>> /\ sched' = Idle
    BY <1>12 DEF BindPut, storeVars
  <2>3. q \in Pod /\ n \in Place /\ n # Unbound
    BY <2>1, SchedulerAssumption DEF TypeOK, Place
  <2>4. p \in sched.pod => pods'[p] # Unbound
    BY <2>1, <2>2, <2>3, PutIsSeen DEF OneBinding
  <2> QED BY <1>2, <2>1, <2>2, <2>3, <2>4 DEF Enqueued
<1>13. CASE BindLost
  <2>1. UNCHANGED <<podQ, podResync>> /\ refused' = refused \cup sched.pod
    BY <1>13 DEF BindLost, storeVars
  <2>2. CASE UNCHANGED <<pods, podWatch, linked, missed>>
    BY <2>1, <2>2 DEF InWatch, Enqueued
  <2>3. CASE \E q \in sched.pod, n \in sched.node : PutPod(q, n)
    <3>1. PICK q \in sched.pod, n \in sched.node : PutPod(q, n)
      BY <2>3
    <3>2. q \in Pod /\ n \in Place /\ n # Unbound
      BY <3>1, SchedulerAssumption DEF TypeOK, Place
    <3> QED BY <1>2, <2>1, <3>1, <3>2 DEF Enqueued
  <2> QED BY <1>13, <2>2, <2>3 DEF BindLost
<1>14. CASE UNCHANGED <<pods, podWatch, missed, podQ, podResync, sched, refused>>
  BY <1>14 DEF InWatch, Enqueued
<1> QED
  BY <1>1, <1>3, <1>4, <1>5, <1>7, <1>8, <1>9, <1>10, <1>11, <1>12, <1>13, <1>14, <1>15
  DEF Next, Schedule, Beat, DropNode, PutNode, Die, ReceiveNode, RelistNodes, Connect, LockedOut, HandleNode,
      RefreshCache, vars, etcdVars, storeVars, schedVars

(* A pod without a node that the scheduler has not given up is on its way  *)
(* to it: whatever the order of events, and across lost watches.           *)
THEOREM NoPodIsForgotten == Spec => []NoPodForgotten
<1> DEFINE Inv == OneBinding /\ \A p \in Pod : OnlyCreated(p) /\ Remembered(p)
<1>1. Init => Inv
  BY SchedulerAssumption DEF Init, OnlyCreated, Remembered, OneBinding, Idle
<1>2. TypeOK /\ Inv /\ [Next]_vars => Inv'
  BY StepOnlyCreated, StepRemembers, StepBindsOne
<1>3. Inv => NoPodForgotten
  BY DEF Remembered, NoPodForgotten, InWatch, Enqueued
<1> QED BY <1>1, <1>2, <1>3, SchedulerTypeCorrect, PTL DEF Spec

-------------------------------------------------------------------------------
(* No pod is bound twice.                                                  *)

New(p) == [kind |-> "Add", pod |-> p, at |-> Unbound]
Announced(p) == \E i \in 1 .. Len(podWatch) : podWatch[i] = <<p, Unbound>>

(* Only a relist cuts a watch and makes the scheduler go through the store.*)
NothingRelisted ==
  env["relist"] = 0 => /\ ~podResync /\ ~nodeResync /\ sched.at # "enqueue"
                       /\ linked["pod"] /\ linked["node"]

(* The creation of a pod is the first the watch says of it, and leads to   *)
(* one binding: it is in the watch, or in the queue, or being bound, and   *)
(* once there is a node nowhere.                                           *)
OnItsWayOnce(p) ==
  /\ \A i \in 1 .. Len(podWatch) : podWatch[i] = <<p, Unbound>> =>
       podStore[p] = Gone /\ \A j \in 1 .. i - 1 : podWatch[j][1] # p
  /\ \A i, j \in 1 .. Len(podQ) : podQ[i] = New(p) /\ podQ[j] = New(p) => i = j
  /\ ~(Announced(p) /\ Enqueued(p))
  /\ p \in sched.pod => ~Announced(p) /\ ~Enqueued(p)
  /\ pods[p] \in Node => ~Announced(p) /\ ~Enqueued(p) /\ p \notin sched.pod

LEMMA StepNothingRelisted ==
  ASSUME TypeOK, [Next]_vars, NothingRelisted PROVE NothingRelisted'
<1> USE DEF NothingRelisted
<1>1. ASSUME NEW d \in Disturbance \ {"relist"}, Disturb(d),
             UNCHANGED <<podResync, nodeResync, linked>>, sched' = sched \/ sched' = Idle
      PROVE  NothingRelisted'
  BY <1>1, HappensCounts DEF Idle, Disturbance
<1>2. CASE RelistPods \/ RelistNodes
  BY <1>2, HappensCounts DEF RelistPods, RelistNodes, Disturbance
<1>3. ASSUME env' = env, UNCHANGED <<podResync, linked>>, nodeResync' \in {nodeResync, FALSE},
             sched'.at # "enqueue" \/ sched' = sched
      PROVE  NothingRelisted'
  BY <1>3
<1>4. CASE \E p \in Pod : CreatePod(p) \/ DeletePod(p)
  BY <1>1, <1>4 DEF CreatePod, DeletePod, PutPod, storeVars, schedVars, Disturbance
<1>5. CASE \E n \in Node : Beat(n) \/ DropNode(n) \/ Die(n)
  BY <1>1, <1>5 DEF Beat, DropNode, PutNode, Die, etcdVars, storeVars, schedVars, Disturbance
<1>6. CASE BindLost
  BY <1>1, <1>6 DEF BindLost, PutPod, storeVars, Disturbance
<1>7. CASE ReceivePod \/ ReceiveNode \/ UNCHANGED vars
  BY <1>3, <1>7 DEF ReceivePod, ReceiveNode, vars, etcdVars, storeVars, schedVars, envVars
<1>8. CASE HandlePodAdd
  BY <1>3, <1>8 DEF HandlePodAdd, TakePod, etcdVars, schedVars, envVars
<1>9. CASE HandlePodUpdate \/ HandlePodDelete \/ HandleNode \/ RefreshCache
  BY <1>3, <1>9 DEF HandlePodUpdate, HandlePodDelete, HandleNode, RefreshCache, TakePod,
                    etcdVars, schedVars, envVars
<1>10. CASE StartEnqueue \/ EnqueuePod
  BY <1>10 DEF StartEnqueue, EnqueuePod, etcdVars, envVars
<1>11. CASE BindRead
  BY <1>3, <1>11 DEF BindRead, etcdVars, storeVars, envVars, TypeOK, Idle
<1>12. CASE BindPut
  BY <1>3, <1>12 DEF BindPut, PutPod, storeVars, envVars, Idle
<1>13. CASE LockedOut
  BY <1>13 DEF LockedOut, etcdVars, envVars, Idle
<1>14. CASE \E k \in {"pod", "node"} : Connect(k)
  BY <1>14 DEF Connect, storeVars, schedVars, envVars, TypeOK
<1> QED
  BY <1>13, <1>14, <1>2, <1>4, <1>5, <1>6, <1>7, <1>8, <1>9, <1>10, <1>11, <1>12 DEF Next, Schedule

(* A put that does not announce the pod leaves it as far as it was.        *)
LEMMA PutAnnouncesNothing ==
  ASSUME TypeOK, NEW q \in Pod, NEW place \in Place, PutPod(q, place), linked["pod"],
         NEW p \in Pod, p # q \/ place # Unbound, UNCHANGED <<podStore, podQ>>, OnItsWayOnce(p),
         sched'.pod \subseteq sched.pod,
         p # q \/ place = Gone \/ (sched'.pod = {} /\ p \in sched.pod)
  PROVE  OnItsWayOnce(p)'
<1>1. podWatch' = Append(podWatch, <<q, place>>) /\ podWatch \in Seq(PodWatch)
  BY DEF PutPod, TypeOK, PodWatch
<1>2. <<q, place>> \in PodWatch
  BY DEF PodWatch
<1>3. /\ Len(podWatch) \in Nat /\ Len(podWatch') = Len(podWatch) + 1
      /\ \A i \in 1 .. Len(podWatch) : podWatch'[i] = podWatch[i]
      /\ podWatch'[Len(podWatch) + 1] = <<q, place>>
  BY <1>1, <1>2, Queued
<1>4. \A i \in 1 .. Len(podWatch') :
        podWatch'[i] = <<p, Unbound>> => i \in 1 .. Len(podWatch) /\ podWatch[i] = <<p, Unbound>>
  <2> SUFFICES ASSUME NEW i \in 1 .. Len(podWatch'), podWatch'[i] = <<p, Unbound>>
               PROVE  i \in 1 .. Len(podWatch) /\ podWatch[i] = <<p, Unbound>>
    OBVIOUS
  <2>1. i # Len(podWatch) + 1
    BY <1>3
  <2> QED BY <1>3, <2>1
<1>5. \A i \in 1 .. Len(podWatch') : podWatch'[i] = <<p, Unbound>> =>
        podStore'[p] = Gone /\ \A j \in 1 .. i - 1 : podWatch'[j][1] # p
  <2> SUFFICES ASSUME NEW i \in 1 .. Len(podWatch'), podWatch'[i] = <<p, Unbound>>
               PROVE  podStore'[p] = Gone /\ \A j \in 1 .. i - 1 : podWatch'[j][1] # p
    OBVIOUS
  <2>1. /\ i \in 1 .. Len(podWatch) /\ podStore[p] = Gone
        /\ \A j \in 1 .. i - 1 : podWatch[j][1] # p
    BY <1>4 DEF OnItsWayOnce
  <2>2. \A j \in 1 .. i - 1 : j \in 1 .. Len(podWatch)
    BY <1>3, <2>1
  <2> QED BY <1>3, <2>1, <2>2
<1>6. (Announced(p)' => Announced(p)) /\ Enqueued(p)' = Enqueued(p)
  BY <1>4 DEF Announced, Enqueued
<1>7. pods'[p] \in Node => pods[p] \in Node \/ (sched'.pod = {} /\ p \in sched.pod)
  BY PutIsSeen, SchedulerAssumption
<1> QED BY <1>5, <1>6, <1>7 DEF OnItsWayOnce

LEMMA ReceivedOnItsWay ==
  ASSUME TypeOK, ReceivePod, NEW p \in Pod, OnItsWayOnce(p)
  PROVE  OnItsWayOnce(p)'
<1> DEFINE q == Head(podWatch)[1]
           new == Head(podWatch)[2]
<1>1. /\ podWatch \in Seq(PodWatch) /\ podWatch # <<>> /\ podWatch' = Tail(podWatch)
      /\ podStore' = [podStore EXCEPT ![q] = new] /\ pods' = pods /\ sched' = sched
  BY DEF TypeOK, PodWatch, ReceivePod, schedVars
<1>2. /\ Len(podWatch) \in Nat \ {0} /\ Len(podWatch') = Len(podWatch) - 1
      /\ Head(podWatch) = podWatch[1] /\ Head(podWatch) = <<q, new>>
      /\ \A i \in 1 .. Len(podWatch') :
           i + 1 \in 1 .. Len(podWatch) /\ podWatch'[i] = podWatch[i + 1]
      /\ q \in Pod /\ new \in Place
  BY <1>1, Taken DEF PodWatch
<1>3. Announced(p)' => Announced(p) /\ q # p
  <2> SUFFICES ASSUME Announced(p)' PROVE Announced(p) /\ q # p
    OBVIOUS
  <2>1. PICK i \in 1 .. Len(podWatch') : podWatch'[i] = <<p, Unbound>>
    BY DEF Announced
  <2>2. i + 1 \in 1 .. Len(podWatch) /\ podWatch[i + 1] = <<p, Unbound>>
    BY <1>2, <2>1
  <2>3. 1 \in 1 .. (i + 1) - 1
    BY <2>1
  <2> QED BY <1>2, <2>2, <2>3 DEF OnItsWayOnce, Announced
<1>4. \A i \in 1 .. Len(podWatch') : podWatch'[i] = <<p, Unbound>> =>
        podStore'[p] = Gone /\ \A j \in 1 .. i - 1 : podWatch'[j][1] # p
  <2> SUFFICES ASSUME NEW i \in 1 .. Len(podWatch'), podWatch'[i] = <<p, Unbound>>
               PROVE  podStore'[p] = Gone /\ \A j \in 1 .. i - 1 : podWatch'[j][1] # p
    OBVIOUS
  <2>1. q # p
    BY <1>3 DEF Announced
  <2>2. i + 1 \in 1 .. Len(podWatch) /\ podWatch[i + 1] = <<p, Unbound>>
    BY <1>2
  <2>3. podStore[p] = Gone /\ \A j \in 1 .. (i + 1) - 1 : podWatch[j][1] # p
    BY <2>2 DEF OnItsWayOnce
  <2>4. ASSUME NEW j \in 1 .. i - 1 PROVE podWatch'[j][1] # p
    <3>1. j \in 1 .. Len(podWatch') /\ j + 1 \in 1 .. (i + 1) - 1
      BY <1>2
    <3> QED BY <1>2, <2>3, <3>1
  <2> QED BY <1>1, <2>1, <2>3, <2>4 DEF TypeOK
<1>5. \/ podQ' = podQ
      \/ \E e \in PodEvent : podQ' = Append(podQ, e)
  BY <1>2 DEF ReceivePod, TypeOK, PodEvent
<1>6. CASE podQ' = podQ
  <2>1. Enqueued(p)' = Enqueued(p)
    BY <1>6 DEF Enqueued
  <2> QED BY <1>1, <1>3, <1>4, <1>6, <2>1 DEF OnItsWayOnce
<1>7. CASE \E e \in PodEvent : podQ' = Append(podQ, e)
  <2>1. PICK e \in PodEvent : podQ' = Append(podQ, e)
    BY <1>7
  <2>2. /\ Len(podQ) \in Nat /\ Len(podQ') = Len(podQ) + 1
        /\ \A i \in 1 .. Len(podQ) : podQ'[i] = podQ[i]
        /\ podQ'[Len(podQ) + 1] = e
    BY <2>1, Queued DEF TypeOK
  <2>3. podQ' # podQ
    BY <2>2
  <2>4. e = New(p) => q = p /\ new = Unbound
    BY <2>1, <2>2, <2>3 DEF ReceivePod, New
  <2>5. CASE e # New(p)
    <3>1. \A i \in 1 .. Len(podQ') :
            podQ'[i] = New(p) => i \in 1 .. Len(podQ) /\ podQ[i] = New(p)
      <4> SUFFICES ASSUME NEW i \in 1 .. Len(podQ'), podQ'[i] = New(p)
                   PROVE  i \in 1 .. Len(podQ) /\ podQ[i] = New(p)
        OBVIOUS
      <4>1. i # Len(podQ) + 1
        BY <2>2, <2>5
      <4> QED BY <2>2, <4>1
    <3>2. Enqueued(p)' => Enqueued(p)
      BY <3>1 DEF Enqueued, New
    <3> QED BY <1>1, <1>3, <1>4, <3>1, <3>2 DEF OnItsWayOnce
  <2>6. CASE e = New(p)
    <3>1. Announced(p)
      BY <1>2, <2>4, <2>6 DEF Announced
    <3>2. ~Enqueued(p) /\ p \notin sched.pod /\ pods[p] \notin Node
      BY <3>1 DEF OnItsWayOnce
    <3>3. \A i \in 1 .. Len(podQ) : podQ[i] # New(p)
      BY <3>2 DEF Enqueued, New
    <3>4. \A i \in 1 .. Len(podQ') : podQ'[i] = New(p) => i = Len(podQ) + 1
      BY <2>2, <3>3
    <3>5. ~Announced(p)'
      BY <1>3, <2>4, <2>6
    <3> QED BY <1>1, <1>4, <3>2, <3>4, <3>5 DEF OnItsWayOnce
  <2> QED BY <2>5, <2>6
<1> QED BY <1>5, <1>6, <1>7

(* Taking an event from the queue moves the pod on, or leaves it.          *)
LEMMA TakenOnItsWay ==
  ASSUME TypeOK, TakePod, NEW p \in Pod, OnItsWayOnce(p),
         p \in sched'.pod => Head(podQ) = New(p)
  PROVE  OnItsWayOnce(p)'
<1>1. /\ podQ \in Seq(PodEvent) /\ podQ # <<>> /\ podQ' = Tail(podQ)
      /\ UNCHANGED <<pods, podWatch, podStore>> /\ sched.pod = {}
  BY DEF TypeOK, TakePod, etcdVars, Idle
<1>2. /\ Len(podQ) \in Nat \ {0} /\ Len(podQ') = Len(podQ) - 1 /\ Head(podQ) = podQ[1]
      /\ \A i \in 1 .. Len(podQ') : i + 1 \in 1 .. Len(podQ) /\ podQ'[i] = podQ[i + 1]
  BY <1>1, Taken
<1>3. \A i, j \in 1 .. Len(podQ') : podQ'[i] = New(p) /\ podQ'[j] = New(p) => i = j
  <2> SUFFICES ASSUME NEW i \in 1 .. Len(podQ'), NEW j \in 1 .. Len(podQ'),
                      podQ'[i] = New(p), podQ'[j] = New(p)
               PROVE  i = j
    OBVIOUS
  <2>1. i + 1 = j + 1
    BY <1>2 DEF OnItsWayOnce
  <2> QED BY <1>2, <2>1
<1>4. Enqueued(p)' => Enqueued(p) /\ Head(podQ) # New(p)
  <2> SUFFICES ASSUME Enqueued(p)' PROVE Enqueued(p) /\ Head(podQ) # New(p)
    OBVIOUS
  <2>1. PICK i \in 1 .. Len(podQ') : podQ'[i] = New(p)
    BY DEF Enqueued, New
  <2>2. i + 1 \in 1 .. Len(podQ) /\ podQ[i + 1] = New(p) /\ 1 \in 1 .. Len(podQ) /\ i + 1 # 1
    BY <1>2, <2>1
  <2>3. podQ[1] # New(p)
    BY <2>2 DEF OnItsWayOnce
  <2> QED BY <1>2, <2>2, <2>3 DEF Enqueued, New
<1>5. Announced(p)' = Announced(p)
  BY <1>1 DEF Announced
<1>6. CASE p \in sched'.pod
  <2>1. Enqueued(p)
    BY <1>2, <1>6 DEF Enqueued, New
  <2> QED BY <1>1, <1>3, <1>4, <1>5, <1>6, <2>1 DEF OnItsWayOnce
<1>7. CASE p \notin sched'.pod
  BY <1>1, <1>3, <1>4, <1>5, <1>7 DEF OnItsWayOnce
<1> QED BY <1>6, <1>7

LEMMA RelistsCount ==
  ASSUME TypeOK, [Next]_vars, env'["relist"] = 0 PROVE env["relist"] = 0
<1>1. env' = env \/ \E d \in Disturbance : Disturb(d)
  BY DEF Next, Schedule, CreatePod, DeletePod, Beat, DropNode, PutNode, Die, Connect, LockedOut, ReceivePod, ReceiveNode,
     RelistPods, RelistNodes, HandlePodAdd, HandlePodUpdate, HandlePodDelete, TakePod,
     HandleNode, RefreshCache, StartEnqueue, EnqueuePod, BindRead, BindPut, BindLost, vars,
     envVars, Disturbance
<1> QED BY <1>1, HappensCounts DEF Disturbance

LEMMA StepOnItsWay ==
  ASSUME TypeOK, [Next]_vars, NothingRelisted, OneBinding, env'["relist"] = 0,
         NEW p \in Pod, OnItsWayOnce(p)
  PROVE  OnItsWayOnce(p)'
<1>0. linked["pod"] /\ ~podResync
  <2>1. env["relist"] = 0
    BY RelistsCount
  <2> QED BY <2>1 DEF NothingRelisted
<1>1. ASSUME NEW q \in Pod, CreatePod(q) PROVE OnItsWayOnce(p)'
  <2>1. /\ PutPod(q, Unbound) /\ Unbound \in Place
        /\ UNCHANGED <<podStore, podQ, sched>>
    BY <1>1 DEF CreatePod, storeVars, Place
  <2>2. CASE p # q
    BY <1>0, <2>1, <2>2, PutAnnouncesNothing
  <2>3. CASE p = q
    <3>1. /\ podStore[p] = Gone /\ p \notin sched.pod
          /\ \A j \in 1 .. Len(podWatch) : podWatch[j][1] # p
          /\ \A j \in 1 .. Len(podQ) : podQ[j].pod # p
      BY <1>1, <2>3 DEF CreatePod
    <3>2. podWatch \in Seq(PodWatch) /\ <<p, Unbound>> \in PodWatch
      BY <2>1 DEF TypeOK, PodWatch
    <3>3. /\ Len(podWatch) \in Nat /\ Len(podWatch') = Len(podWatch) + 1
          /\ \A j \in 1 .. Len(podWatch) : podWatch'[j] = podWatch[j]
      BY <1>0, <2>1, <2>3, <3>2, Queued DEF PutPod
    <3>4. \A i \in 1 .. Len(podWatch') : \A j \in 1 .. i - 1 : podWatch'[j][1] # p
      <4> SUFFICES ASSUME NEW i \in 1 .. Len(podWatch'), NEW j \in 1 .. i - 1
                   PROVE  podWatch'[j][1] # p
        OBVIOUS
      <4>1. j \in 1 .. Len(podWatch)
        BY <3>3
      <4> QED BY <3>1, <3>3, <4>1
    <3>5. \A j \in 1 .. Len(podQ) : podQ[j] # New(p)
      BY <3>1 DEF New
    <3>6. pods'[p] = Unbound /\ Unbound \notin Node
      BY <2>1, <2>3, PutIsSeen, SchedulerAssumption
    <3> QED BY <2>1, <3>1, <3>4, <3>5, <3>6 DEF OnItsWayOnce, Enqueued, New
  <2> QED BY <2>2, <2>3
<1>2. ASSUME NEW q \in Pod, DeletePod(q) PROVE OnItsWayOnce(p)'
  <2>1. /\ PutPod(q, Gone) /\ Gone \in Place /\ Gone # Unbound
        /\ UNCHANGED <<podStore, podQ, sched>>
    BY <1>2, SchedulerAssumption DEF DeletePod, storeVars, schedVars, Place
  <2> QED BY <1>0, <2>1, PutAnnouncesNothing
<1>3. CASE ReceivePod
  BY <1>3, ReceivedOnItsWay
<1>4. CASE RelistPods
  BY <1>4, HappensCounts DEF RelistPods, Disturbance
<1>5. CASE HandlePodAdd
  <2>1. TakePod /\ Head(podQ).kind = "Add" /\ sched.pod = {}
    BY <1>5 DEF HandlePodAdd, TakePod, Idle
  <2>2. Head(podQ) \in PodEvent
    <3>1. podQ \in Seq(PodEvent) /\ podQ # <<>>
      BY <2>1 DEF TakePod, TypeOK
    <3> QED BY <3>1, Taken
  <2>3. p \in sched'.pod => Head(podQ).pod = p /\ Head(podQ).at = Unbound
    BY <1>5, <2>1 DEF HandlePodAdd, schedVars
  <2>4. p \in sched'.pod => Head(podQ) = New(p)
    BY <2>1, <2>2, <2>3 DEF PodEvent, New
  <2> QED BY <2>1, <2>4, TakenOnItsWay
<1>6. CASE HandlePodUpdate \/ HandlePodDelete
  <2>1. TakePod /\ sched' = sched /\ sched.pod = {}
    BY <1>6 DEF HandlePodUpdate, HandlePodDelete, TakePod, Idle, schedVars
  <2> QED BY <2>1, TakenOnItsWay
<1>7. CASE StartEnqueue \/ EnqueuePod
  BY <1>7 DEF StartEnqueue, EnqueuePod, NothingRelisted, envVars
<1>8. CASE BindRead
  <2>1. UNCHANGED <<pods, podWatch, podStore, podQ>> /\ sched'.pod \subseteq sched.pod
    BY <1>8 DEF BindRead, etcdVars, storeVars, TypeOK, Idle
  <2> QED BY <2>1 DEF OnItsWayOnce, Announced, Enqueued
<1>9. CASE BindPut \/ BindLost
  <2>1. UNCHANGED <<podStore, podQ>> /\ sched'.pod = {}
    BY <1>9 DEF BindPut, BindLost, storeVars, Idle
  <2>2. CASE UNCHANGED <<pods, podWatch>>
    BY <2>1, <2>2 DEF OnItsWayOnce, Announced, Enqueued
  <2>3. CASE \E q \in sched.pod, n \in sched.node : PutPod(q, n)
    <3>1. PICK q \in sched.pod, n \in sched.node : PutPod(q, n)
      BY <2>3
    <3>2. q \in Pod /\ n \in Place /\ n # Unbound
      BY <3>1, SchedulerAssumption DEF TypeOK, Place
    <3> QED BY <1>0, <2>1, <3>1, <3>2, PutAnnouncesNothing
  <2> QED BY <1>9, <2>2, <2>3 DEF BindPut, BindLost
<1>10. CASE UNCHANGED <<pods, podWatch, podStore, podQ, sched>>
  BY <1>10 DEF OnItsWayOnce, Announced, Enqueued
<1>11. CASE LockedOut
  <2>1. UNCHANGED <<pods, podWatch, podStore, podQ>> /\ sched'.pod = {}
    BY <1>0, <1>11 DEF LockedOut, etcdVars, Idle
  <2> QED BY <2>1 DEF OnItsWayOnce, Announced, Enqueued
<1> QED
  BY <1>1, <1>2, <1>3, <1>4, <1>5, <1>6, <1>7, <1>8, <1>9, <1>10, <1>11
  DEF Next, Schedule, Beat, DropNode, PutNode, Die, ReceiveNode, RelistNodes, Connect, LockedOut, HandleNode,
      RefreshCache, vars, etcdVars, storeVars, schedVars

(* While no watch is lost a pod that has a node keeps it: its creation is  *)
(* told once, and leads to one binding.                                    *)
THEOREM PodsStayBound == Spec => BoundOnce
<1> DEFINE Inv == /\ NothingRelisted /\ OneBinding
                  /\ env["relist"] = 0 => \A p \in Pod : OnItsWayOnce(p)
<1>1. Init => Inv
  <2> SUFFICES ASSUME Init PROVE Inv
    OBVIOUS
  <2>1. /\ podWatch = <<>> /\ podQ = <<>> /\ sched = Idle /\ podResync = FALSE
        /\ nodeResync = FALSE /\ linked["pod"] /\ linked["node"]
    BY DEF Init
  <2> QED BY <2>1 DEF OnItsWayOnce, Announced, Enqueued, NothingRelisted, OneBinding, Idle
<1>2. TypeOK /\ [Next]_vars => (env'["relist"] = 0 => env["relist"] = 0)
  BY RelistsCount
<1>3. TypeOK /\ Inv /\ [Next]_vars => Inv'
  BY <1>2, StepNothingRelisted, StepBindsOne, StepOnItsWay
<1>4. TypeOK /\ Inv /\ [Next]_vars =>
        [\A p \in Pod : env["relist"] = 0 /\ pods[p] \in Node
                          => pods'[p] \in {pods[p], Gone}]_vars
  <2> SUFFICES ASSUME TypeOK, Inv, [Next]_vars, NEW p \in Pod, env["relist"] = 0,
                      pods[p] \in Node, pods'[p] # pods[p]
               PROVE  pods'[p] = Gone
    BY DEF vars
  <2>1. p \notin sched.pod
    BY DEF OnItsWayOnce
  <2>2. ASSUME NEW q \in sched.pod, NEW n \in sched.node, PutPod(q, n) PROVE FALSE
    <3>1. q \in Pod /\ n \in Place /\ q # p
      BY <2>1, <2>2 DEF TypeOK, Place
    <3> QED BY <2>2, <3>1, PutIsSeen
  <2>3. ASSUME NEW q \in Pod, CreatePod(q) PROVE FALSE
    BY <2>3, SchedulerAssumption, PutIsSeen DEF CreatePod, Place
  <2>4. ASSUME NEW q \in Pod, DeletePod(q) PROVE pods'[p] = Gone
    BY <2>4, PutIsSeen DEF DeletePod, Place
  <2> QED
    BY <2>2, <2>3, <2>4
    DEF Next, Schedule, Beat, DropNode, PutNode, Die, Connect, LockedOut, ReceivePod, ReceiveNode, RelistPods, RelistNodes,
        HandlePodAdd, HandlePodUpdate, HandlePodDelete, TakePod, HandleNode, RefreshCache,
        StartEnqueue, EnqueuePod, BindRead, BindPut, BindLost, vars, etcdVars
<1> QED BY <1>1, <1>3, <1>4, SchedulerTypeCorrect, PTL DEF Spec, BoundOnce

-------------------------------------------------------------------------------
(* The counts are exact.                                                   *)

(* A cache that knows every node and counts where f puts the pods.         *)
Counts(st, f) ==
  \A n \in Node : st[n] # Unknown /\ st[n][1].count = Cardinality({p \in Pod : f[p] = n})

(* The nodes are those the scheduler began with, and no store has been     *)
(* replaced.                                                               *)
NodesThere ==
  /\ nodes = Node /\ nodeStore = Node
  /\ ~nodeResync /\ ~podResync /\ sched.at # "enqueue"

(* The scheduler binds to one node.                                        *)
OneNode == sched.at \in {"bind", "put"} => \E n \in Node : sched.node = {n}

(* If pods are only created, no event tells of a pod that is gone, and the *)
(* counts are exact whatever is under way.                                 *)
NoneGone ==
  /\ \A i \in 1 .. Len(podWatch) : podWatch[i][2] # Gone /\ pods[podWatch[i][1]] # Gone
  /\ \A i \in 1 .. Len(podQ) : podQ[i].kind # "Delete" /\ pods[podQ[i].pod] # Gone
  /\ \A p \in sched.pod : pods[p] # Gone

OnlyGrows ==
  Only({"create"}) =>
    /\ NodesThere /\ nodeWatch = <<>> /\ nodeQ = <<>>
    /\ NoneGone
    /\ Counts(states, pods)

(* In a patient world one pod is under way at a time.  It is created,      *)
(* queued, bound, and the scheduler is told of that; or it is deleted, and *)
(* counted until the scheduler has handled that.                           *)
Still ==
  /\ podWatch = <<>> /\ podQ = <<>> /\ sched = Idle /\ podStore = pods
  /\ Counts(states, pods)
Created(p) ==
  /\ pods[p] = Unbound /\ Counts(states, pods)
  /\ podWatch = <<<<p, Unbound>>>> /\ podQ = <<>> /\ sched = Idle
  /\ podStore = [pods EXCEPT ![p] = Gone]
Waiting(p) ==
  /\ pods[p] = Unbound /\ Counts(states, pods)
  /\ podWatch = <<>> /\ podQ = <<New(p)>> /\ sched = Idle /\ podStore = pods
Binding(p) ==
  /\ pods[p] = Unbound /\ Counts(states, pods)
  /\ podWatch = <<>> /\ podQ = <<>> /\ podStore = pods
  /\ sched.at \in {"bind", "put"} /\ sched.pod = {p}
Bound(p) ==
  /\ pods[p] \in Node /\ Counts(states, pods)
  /\ podWatch = <<<<p, pods[p]>>>> /\ podQ = <<>> /\ sched = Idle
  /\ podStore = [pods EXCEPT ![p] = Unbound]
Updated(p) ==
  /\ Counts(states, pods)
  /\ podWatch = <<>> /\ sched = Idle /\ podStore = pods
  /\ podQ = <<[kind |-> "Update", pod |-> p, at |-> pods[p]]>>
Deleted(p) ==
  /\ podStore[p] # Gone /\ pods = [podStore EXCEPT ![p] = Gone]
  /\ Counts(states, podStore)
  /\ podWatch = <<<<p, Gone>>>> /\ podQ = <<>> /\ sched = Idle
Removed(p) ==
  /\ pods[p] = Gone /\ podWatch = <<>> /\ sched = Idle /\ podStore = pods
  /\ \E at \in Place : /\ podQ = <<[kind |-> "Delete", pod |-> p, at |-> at]>>
                       /\ Counts(states, [pods EXCEPT ![p] = at])

Stage == \/ Still
         \/ \E p \in Pod : \/ Created(p) \/ Waiting(p) \/ Binding(p) \/ Bound(p)
                           \/ Updated(p) \/ Deleted(p) \/ Removed(p)

(* Nodes put their status while nothing else is under way.                 *)
NodesAlone ==
  /\ NodesThere
  /\ \A i \in 1 .. Len(nodeWatch) : ~nodeWatch[i].gone
  /\ \A i \in 1 .. Len(nodeQ) : nodeQ[i].kind = "Update"
  /\ nodeWatch # <<>> \/ nodeQ # <<>> => Still

OneAtATime ==
  world.patient /\ Only({"create", "delete", "beat", "die"}) => NodesAlone /\ Stage

LEMMA CountedGives ==
  ASSUME TypeOK, NEW n \in Node, NEW d \in {1, 0 - 1}, NEW m \in Node,
         states[n] # Unknown, states[m] # Unknown
  PROVE  /\ Counted(n, d)[m] # Unknown
         /\ m # n => Counted(n, d)[m] = states[m]
         /\ Counted(n, d)[n][1].count = (states[n][1].count + Word + d) % Word
<1>1. PICK s \in NodeState : states[n] = <<s>>
  BY DEF TypeOK
<1> DEFINE t == [s EXCEPT !.count = (@ + Word + d) % Word]
<1>2. states[n][1] = s
  BY <1>1
<1>3. [states[n][1] EXCEPT !.count = (@ + Word + d) % Word] = t
  BY <1>2
<1>4. Counted(n, d) = [states EXCEPT ![n] = <<t>>]
  BY <1>3 DEF Counted
<1>5. t.count = (s.count + Word + d) % Word
  BY DEF NodeState
<1>6. <<t>> # Unknown /\ <<t>>[1] = t
  BY DEF Unknown
<1>7. Counted(n, d)[n] = <<t>> /\ (m # n => Counted(n, d)[m] = states[m])
  BY <1>4 DEF TypeOK
<1> QED BY <1>2, <1>5, <1>6, <1>7

LEMMA Hosts ==
  ASSUME NEW f, NEW n \in Node
  PROVE  /\ IsFiniteSet({p \in Pod : f[p] = n})
         /\ Cardinality({p \in Pod : f[p] = n}) \in Nat
         /\ Cardinality({p \in Pod : f[p] = n}) <= Cardinality(Pod)
         /\ Cardinality(Pod) \in Nat /\ Word \in Nat /\ Cardinality(Pod) < Word
<1>1. {p \in Pod : f[p] = n} \in SUBSET Pod
  OBVIOUS
<1>2. /\ IsFiniteSet({p \in Pod : f[p] = n})
      /\ Cardinality({p \in Pod : f[p] = n}) <= Cardinality(Pod)
  BY <1>1, SchedulerAssumption, FS_Subset
<1> QED BY <1>2, SchedulerAssumption, FS_CardinalityType

(* A pod that gets a node is counted there, and no count wraps around.     *)
LEMMA CountedOneMore ==
  ASSUME TypeOK, NEW f \in [Pod -> Place], NEW q \in Pod, f[q] \notin Node, NEW n \in Node,
         Counts(states, f)
  PROVE  Counts(Counted(n, 1), [f EXCEPT ![q] = n])
<1> DEFINE g == [f EXCEPT ![q] = n]
           At(h, m) == {p \in Pod : h[p] = m}
<1> SUFFICES ASSUME NEW m \in Node
             PROVE  /\ Counted(n, 1)[m] # Unknown
                    /\ Counted(n, 1)[m][1].count = Cardinality(At(g, m))
  BY DEF Counts
<1>1. /\ states[n] # Unknown /\ states[n][1].count = Cardinality(At(f, n))
      /\ states[m] # Unknown /\ states[m][1].count = Cardinality(At(f, m))
  BY DEF Counts
<1>2. /\ Counted(n, 1)[m] # Unknown
      /\ m # n => Counted(n, 1)[m] = states[m]
      /\ Counted(n, 1)[n][1].count = (states[n][1].count + Word + 1) % Word
  BY <1>1, CountedGives
<1>3. CASE m # n
  <2>1. At(g, m) = At(f, m)
    BY <1>3
  <2> QED BY <1>1, <1>2, <1>3, <2>1
<1>4. CASE m = n
  <2>1. At(g, n) = At(f, n) \cup {q} /\ q \notin At(f, n)
    OBVIOUS
  <2>2. IsFiniteSet(At(f, n)) /\ Cardinality(At(f, n)) \in Nat
    BY Hosts
  <2>3. Cardinality(At(g, n)) = Cardinality(At(f, n)) + 1
    BY <2>1, <2>2, FS_AddElement
  <2>4. Cardinality(At(g, n)) < Word /\ Word \in Nat
    <3>1. Cardinality(At(g, n)) \in Nat /\ Cardinality(At(g, n)) <= Cardinality(Pod)
          /\ Cardinality(Pod) \in Nat /\ Word \in Nat /\ Cardinality(Pod) < Word
      BY Hosts
    <3> QED BY <3>1
  <2> DEFINE c == Cardinality(At(f, n))
  <2>5. c \in Nat /\ c + 1 < Word /\ Word \in Nat
    BY <2>2, <2>3, <2>4
  <2> HIDE DEF c
  <2>6. (c + Word + 1) % Word = c + 1
    BY <2>5
  <2> QED BY <1>1, <1>2, <1>4, <2>3, <2>6 DEF c
<1> QED BY <1>3, <1>4

(* A pod that had a node is no longer counted once it is gone.             *)
LEMMA CountedOneLess ==
  ASSUME TypeOK, NEW f \in [Pod -> Place], NEW q \in Pod, f[q] \in Node,
         NEW place \in Place \ Node, Counts(states, f)
  PROVE  Counts(Counted(f[q], 0 - 1), [f EXCEPT ![q] = place])
<1> DEFINE n == f[q]
           g == [f EXCEPT ![q] = place]
           At(h, m) == {p \in Pod : h[p] = m}
<1> SUFFICES ASSUME NEW m \in Node
             PROVE  /\ Counted(n, 0 - 1)[m] # Unknown
                    /\ Counted(n, 0 - 1)[m][1].count = Cardinality(At(g, m))
  BY DEF Counts
<1>1. /\ states[n] # Unknown /\ states[n][1].count = Cardinality(At(f, n))
      /\ states[m] # Unknown /\ states[m][1].count = Cardinality(At(f, m))
  BY DEF Counts
<1>2. /\ Counted(n, 0 - 1)[m] # Unknown
      /\ m # n => Counted(n, 0 - 1)[m] = states[m]
      /\ Counted(n, 0 - 1)[n][1].count = (states[n][1].count + Word + (0 - 1)) % Word
  BY <1>1, CountedGives
<1>3. CASE m # n
  <2>1. At(g, m) = At(f, m)
    BY <1>3
  <2> QED BY <1>1, <1>2, <1>3, <2>1
<1>4. CASE m = n
  <2>1. At(g, n) = At(f, n) \ {q} /\ q \in At(f, n)
    OBVIOUS
  <2>2. /\ IsFiniteSet(At(f, n)) /\ Cardinality(At(f, n)) \in Nat
        /\ Cardinality(At(f, n)) <= Cardinality(Pod)
        /\ Cardinality(Pod) \in Nat /\ Word \in Nat /\ Cardinality(Pod) < Word
    BY Hosts
  <2>3. Cardinality(At(g, n)) = Cardinality(At(f, n)) - 1
    BY <2>1, <2>2, FS_RemoveElement
  <2>4. Cardinality(At(g, n)) \in Nat
    <3>1. IsFiniteSet(At(g, n))
      BY <2>1, <2>2, FS_Subset
    <3> QED BY <3>1, FS_CardinalityType
  <2> DEFINE c == Cardinality(At(f, n))
  <2>5. c \in Nat /\ c - 1 \in Nat /\ c < Word /\ Word \in Nat /\ Word # 0
    BY <2>2, <2>3, <2>4
  <2> HIDE DEF c
  <2>6. (c + Word + (0 - 1)) % Word = c - 1
    BY <2>5
  <2> QED BY <1>1, <1>2, <1>4, <2>3, <2>6 DEF c
<1> QED BY <1>3, <1>4

(* Only the pods that have a node count.                                   *)
LEMMA CountedAlike ==
  ASSUME NEW st, NEW f, NEW g, Counts(st, f),
         \A p \in Pod : f[p] = g[p] \/ (f[p] \notin Node /\ g[p] \notin Node)
  PROVE  Counts(st, g)
<1> SUFFICES ASSUME NEW n \in Node
             PROVE  {p \in Pod : g[p] = n} = {p \in Pod : f[p] = n}
  BY DEF Counts
<1> QED OBVIOUS

(* A node counted anew from a store that is up to date.                    *)
LEMMA RecountedAlike ==
  ASSUME TypeOK, Counts(states, podStore), NEW n \in Node
  PROVE  Counts([states EXCEPT ![n] = Recount(n)], podStore)
<1> SUFFICES ASSUME NEW m \in Node
             PROVE  /\ [states EXCEPT ![n] = Recount(n)][m] # Unknown
                    /\ [states EXCEPT ![n] = Recount(n)][m][1].count
                         = Cardinality({p \in Pod : podStore[p] = m})
  BY DEF Counts
<1>1. CASE m # n
  BY <1>1 DEF Counts, TypeOK
<1>2. CASE m = n
  <2>1. [states EXCEPT ![n] = Recount(n)][m] = Recount(n)
    BY <1>2 DEF TypeOK
  <2>2. Recount(n) # Unknown
        /\ Recount(n)[1].count = Cardinality({p \in Pod : podStore[p] = n})
    BY DEF Recount, Unknown
  <2> QED BY <1>2, <2>1, <2>2
<1> QED BY <1>1, <1>2

(* What has not happened by now has not happened before, and is not what   *)
(* happens in this step.                                                   *)
LEMMA Undisturbed ==
  ASSUME TypeOK, [Next]_vars, NEW ds, Only(ds)'
  PROVE  /\ Only(ds) /\ world' = world
         /\ \A d \in Disturbance : Disturb(d) => d \in ds
<1>1. \A d \in Disturbance \ ds : env'[d] = 0
  BY DEF Only
<1>2. \A d \in Disturbance : Disturb(d) => d \in ds
  BY <1>1, HappensCounts
<1>3. (UNCHANGED <<world, env>>) \/ \E d \in Disturbance : Disturb(d)
  BY DEF Next, Schedule, CreatePod, DeletePod, Beat, DropNode, PutNode, Die, Connect, LockedOut, ReceivePod, ReceiveNode,
     RelistPods, RelistNodes, HandlePodAdd, HandlePodUpdate, HandlePodDelete, TakePod,
     HandleNode, RefreshCache, StartEnqueue, EnqueuePod, BindRead, BindPut, BindLost, vars,
     envVars, Disturbance
<1>4. Only(ds) /\ world' = world
  <2>1. CASE UNCHANGED <<world, env>>
    BY <1>1, <2>1 DEF Only
  <2>2. ASSUME NEW d \in Disturbance, Disturb(d) PROVE Only(ds) /\ world' = world
    <3>1. d \in ds /\ world' = world /\ \A c \in Disturbance \ {d} : env'[c] = env[c]
      BY <1>2, <2>2, HappensCounts
    <3> QED BY <1>1, <3>1 DEF Only
  <2> QED BY <1>3, <2>1, <2>2
<1> QED BY <1>2, <1>4

(* A pod is bound to one node, and by binding nothing is enqueued.         *)
LEMMA StepOneNode ==
  ASSUME TypeOK, [Next]_vars, OneNode PROVE OneNode'
<1>1. CASE HandlePodAdd
  <2>1. Emptiest(Candidates(Head(podQ).pod)) \subseteq Node
    BY DEF Emptiest, Candidates
  <2>2. sched' = sched \/ \E n \in Node : sched'.node = {n}
    BY <1>1, <2>1 DEF HandlePodAdd, schedVars
  <2> QED BY <2>2 DEF OneNode
<1>2. CASE StartEnqueue \/ LockedOut
  BY <1>2 DEF StartEnqueue, LockedOut, OneNode, Idle
<1>3. CASE EnqueuePod
  BY <1>3 DEF EnqueuePod, OneNode, Idle, TypeOK
<1>4. CASE BindRead
  <2>1. sched'.at = "idle" \/ sched'.node = sched.node
    BY <1>4 DEF BindRead, Idle, TypeOK
  <2> QED BY <1>4, <2>1 DEF BindRead, OneNode
<1>5. CASE BindPut \/ BindLost
  BY <1>5 DEF BindPut, BindLost, OneNode, Idle
<1>6. CASE sched' = sched
  BY <1>6 DEF OneNode
<1>7. CASE UNCHANGED vars
  BY <1>6, <1>7 DEF vars, schedVars
<1>8. CASE Schedule
  BY <1>1, <1>2, <1>3, <1>4, <1>5, <1>6, <1>8
  DEF Schedule, HandlePodUpdate, HandlePodDelete, HandleNode, RefreshCache, schedVars
<1> QED
  BY <1>5, <1>6, <1>7, <1>8
  DEF Next, CreatePod, DeletePod, Beat, DropNode, PutNode, Die, Connect, LockedOut, ReceivePod, ReceiveNode,
      RelistPods, RelistNodes, schedVars

(* A put that leaves no pod gone tells of none that is.                    *)
LEMMA PutNoneGone ==
  ASSUME TypeOK, NoneGone, NEW q \in Pod, NEW place \in Place, place # Gone,
         PutPod(q, place), linked["pod"], podQ' = podQ, sched'.pod \subseteq sched.pod
  PROVE  NoneGone'
<1>1. podWatch' = Append(podWatch, <<q, place>>) /\ podWatch \in Seq(PodWatch)
  BY DEF PutPod, TypeOK, PodWatch
<1>2. <<q, place>> \in PodWatch
  BY DEF PodWatch
<1>3. pods'[q] = place /\ \A p \in Pod : pods[p] # Gone => pods'[p] # Gone
  BY DEF PutPod, TypeOK
<1>4. \A i \in 1 .. Len(podWatch) : podWatch[i][1] \in Pod
  BY <1>1 DEF PodWatch
<1>5. \A i \in 1 .. Len(podQ) : podQ[i].pod \in Pod
  <2>1. \A i \in 1 .. Len(podQ) : podQ[i] \in PodEvent
    BY DEF TypeOK
  <2> QED BY <2>1 DEF PodEvent
<1>6. ASSUME NEW i \in 1 .. Len(podWatch') PROVE podWatch'[i][2] # Gone /\ pods'[podWatch'[i][1]] # Gone
  <2>1. \/ i \in 1 .. Len(podWatch) /\ podWatch'[i] = podWatch[i]
        \/ podWatch'[i] = <<q, place>>
    BY <1>1, <1>2, QueuedElements
  <2> QED BY <1>3, <1>4, <2>1 DEF NoneGone
<1>7. \A i \in 1 .. Len(podQ') : podQ'[i].kind # "Delete" /\ pods'[podQ'[i].pod] # Gone
  BY <1>3, <1>5 DEF NoneGone
<1>8. \A p \in sched'.pod : pods'[p] # Gone
  BY <1>3 DEF NoneGone, TypeOK
<1> QED BY <1>6, <1>7, <1>8 DEF NoneGone

LEMMA ReceivedNoneGone ==
  ASSUME TypeOK, NoneGone, ReceivePod PROVE NoneGone'
<1>1. /\ podWatch \in Seq(PodWatch) /\ podWatch # <<>> /\ podWatch' = Tail(podWatch)
      /\ pods' = pods /\ sched' = sched
  BY DEF TypeOK, PodWatch, ReceivePod, schedVars
<1>2. /\ Head(podWatch) = podWatch[1] /\ 1 \in 1 .. Len(podWatch)
      /\ Head(podWatch)[1] \in Pod /\ Head(podWatch)[2] \in Place
      /\ \A i \in 1 .. Len(podWatch') :
           i + 1 \in 1 .. Len(podWatch) /\ podWatch'[i] = podWatch[i + 1]
  BY <1>1, Taken DEF PodWatch
<1>3. Head(podWatch)[2] # Gone /\ pods[Head(podWatch)[1]] # Gone
  BY <1>2 DEF NoneGone
<1>4. \A i \in 1 .. Len(podWatch') : podWatch'[i][2] # Gone /\ pods'[podWatch'[i][1]] # Gone
  BY <1>1, <1>2 DEF NoneGone
<1>5. \/ podQ' = podQ
      \/ \E e \in PodEvent : /\ podQ' = Append(podQ, e)
                             /\ e.kind # "Delete" /\ e.pod = Head(podWatch)[1]
  BY <1>2, <1>3 DEF ReceivePod, TypeOK, PodEvent
<1>6. \A i \in 1 .. Len(podQ') : podQ'[i].kind # "Delete" /\ pods'[podQ'[i].pod] # Gone
  <2>1. CASE podQ' = podQ
    BY <1>1, <2>1 DEF NoneGone
  <2>2. ASSUME NEW e \in PodEvent, podQ' = Append(podQ, e), e.kind # "Delete",
               e.pod = Head(podWatch)[1], NEW i \in 1 .. Len(podQ')
        PROVE  podQ'[i].kind # "Delete" /\ pods'[podQ'[i].pod] # Gone
    <3>1. \/ i \in 1 .. Len(podQ) /\ podQ'[i] = podQ[i]
          \/ podQ'[i] = e
      BY <2>2, QueuedElements DEF TypeOK
    <3> QED BY <1>1, <1>3, <2>2, <3>1 DEF NoneGone
  <2> QED BY <1>5, <2>1, <2>2
<1> QED BY <1>1, <1>4, <1>6 DEF NoneGone

LEMMA TakenNoneGone ==
  ASSUME TypeOK, NoneGone, TakePod, sched'.pod \subseteq {Head(podQ).pod}
  PROVE  NoneGone' /\ Head(podQ).kind # "Delete"
<1>1. /\ podQ \in Seq(PodEvent) /\ podQ # <<>> /\ podQ' = Tail(podQ)
      /\ UNCHANGED <<pods, podWatch>>
  BY DEF TypeOK, TakePod, etcdVars
<1>2. /\ Head(podQ) = podQ[1] /\ 1 \in 1 .. Len(podQ)
      /\ \A i \in 1 .. Len(podQ') : i + 1 \in 1 .. Len(podQ) /\ podQ'[i] = podQ[i + 1]
  BY <1>1, Taken
<1>3. \A i \in 1 .. Len(podQ') : podQ'[i].kind # "Delete" /\ pods'[podQ'[i].pod] # Gone
  BY <1>1, <1>2 DEF NoneGone
<1>4. Head(podQ).kind # "Delete" /\ \A p \in sched'.pod : pods'[p] # Gone
  BY <1>1, <1>2 DEF NoneGone
<1> QED BY <1>1, <1>3, <1>4 DEF NoneGone

LEMMA StepOnlyGrows ==
  ASSUME TypeOK, [Next]_vars, NothingRelisted, OneBinding, OneNode, OnlyGrows,
         env["relist"] = 0 => \A p \in Pod : OnItsWayOnce(p)
  PROVE  OnlyGrows'
<1> SUFFICES ASSUME Only({"create"})'
             PROVE  /\ NodesThere' /\ nodeWatch' = <<>> /\ nodeQ' = <<>>
                    /\ NoneGone' /\ Counts(states, pods)'
  BY DEF OnlyGrows
<1>1. /\ Only({"create"})
      /\ \A d \in Disturbance : Disturb(d) => d = "create"
  BY Undisturbed
<1>2. /\ NodesThere /\ nodeWatch = <<>> /\ nodeQ = <<>> /\ NoneGone
      /\ Counts(states, pods)
      /\ linked["pod"]
      /\ \A p \in Pod : OnItsWayOnce(p)
  BY <1>1 DEF OnlyGrows, NothingRelisted, Only, Disturbance
<1> DEFINE Goal == /\ NodesThere' /\ nodeWatch' = <<>> /\ nodeQ' = <<>>
                   /\ NoneGone' /\ Counts(states, pods)'
<1>3. ASSUME NEW q \in Pod, CreatePod(q) PROVE Goal
  <2>1. /\ PutPod(q, Unbound) /\ Unbound \in Place /\ Unbound # Gone
        /\ UNCHANGED <<nodes, nodeWatch, nodeStore, nodeQ, podQ, podResync, nodeResync,
                       states, sched>>
        /\ pods[q] = Gone
    BY <1>3, SchedulerAssumption DEF CreatePod, storeVars, Place
  <2>2. NoneGone'
    BY <1>2, <2>1, PutNoneGone
  <2>3. Counts(states, pods')
    <3>1. Unbound \notin Node /\ Gone \notin Node
      BY SchedulerAssumption
    <3>2. \A p \in Pod : pods[p] = pods'[p] \/ (pods[p] \notin Node /\ pods'[p] \notin Node)
      BY <2>1, <3>1 DEF PutPod, TypeOK
    <3> QED BY <1>2, <3>2, CountedAlike
  <2> QED BY <1>2, <2>1, <2>2, <2>3 DEF NodesThere, Counts
<1>4. CASE ReceivePod
  <2>1. UNCHANGED <<pods, nodes, nodeWatch, nodeStore, nodeQ, podResync, nodeResync,
                    states, sched>>
    BY <1>4 DEF ReceivePod, schedVars
  <2> QED BY <1>2, <1>4, <2>1, ReceivedNoneGone DEF NodesThere, Counts
<1>5. ASSUME TakePod PROVE UNCHANGED <<pods, nodes, nodeWatch, nodeStore, nodeQ, podResync,
                                       nodeResync>> /\ sched = Idle
  BY <1>5 DEF TakePod, etcdVars
<1>6. CASE HandlePodAdd
  <2>1. TakePod
    BY <1>6 DEF HandlePodAdd
  <2>2. /\ states' = states
        /\ sched'.pod \subseteq {Head(podQ).pod} /\ sched'.at # "enqueue"
    BY <1>5, <1>6, <2>1 DEF HandlePodAdd, schedVars, Idle
  <2> QED BY <1>2, <1>5, <2>1, <2>2, TakenNoneGone DEF NodesThere, Counts
<1>7. CASE HandlePodUpdate \/ HandlePodDelete
  <2>1. TakePod /\ sched' = Idle
    BY <1>7, <1>5 DEF HandlePodUpdate, HandlePodDelete, schedVars
  <2>2. sched'.pod \subseteq {Head(podQ).pod} /\ sched'.at # "enqueue"
    BY <2>1 DEF Idle
  <2>3. NoneGone' /\ Head(podQ).kind # "Delete"
    BY <1>2, <2>1, <2>2, TakenNoneGone
  <2>4. states' = states
    BY <1>7, <2>3 DEF HandlePodUpdate, HandlePodDelete, schedVars
  <2> QED BY <1>2, <1>5, <2>1, <2>2, <2>3, <2>4 DEF NodesThere, Counts
<1>8. CASE BindRead
  <2>1. PICK q \in Pod : sched.pod = {q}
    BY <1>8 DEF BindRead, OneBinding
  <2>2. PICK n \in Node : sched.node = {n}
    BY <1>8 DEF BindRead, OneNode
  <2>3. pods[q] # Gone /\ n \in nodes
    BY <1>2, <2>1 DEF NoneGone, NodesThere
  <2>4. sched' = [sched EXCEPT !.at = "put"] /\ UNCHANGED states
    BY <1>8, <2>1, <2>2, <2>3 DEF BindRead
  <2>5. sched'.pod = sched.pod /\ sched'.at # "enqueue"
    BY <2>4 DEF TypeOK
  <2>6. UNCHANGED <<pods, nodes, podWatch, nodeWatch, nodeStore, podQ, nodeQ, podResync,
                    nodeResync>>
    BY <1>8 DEF BindRead, etcdVars, storeVars
  <2> QED BY <1>2, <2>4, <2>5, <2>6 DEF NodesThere, NoneGone, Counts
<1>9. CASE BindPut
  <2>1. PICK q \in sched.pod, n \in sched.node : PutPod(q, n) /\ states' = Counted(n, 1)
    BY <1>9 DEF BindPut
  <2>2. q \in Pod /\ n \in Node /\ n \in Place /\ n # Gone /\ pods[q] \notin Node
    BY <1>2, <2>1, SchedulerAssumption DEF TypeOK, Place, OnItsWayOnce
  <2>3. Counts(states, pods)'
    <3>1. Counts(Counted(n, 1), [pods EXCEPT ![q] = n])
      BY <1>2, <2>2, CountedOneMore DEF TypeOK
    <3> QED BY <2>1, <3>1 DEF PutPod, Counts
  <2>4. /\ UNCHANGED <<nodes, nodeWatch, nodeStore, podQ, nodeQ, podResync, nodeResync>>
        /\ sched'.pod = {} /\ sched'.at # "enqueue"
    BY <1>9 DEF BindPut, storeVars, Idle
  <2> QED BY <1>2, <2>1, <2>2, <2>3, <2>4, PutNoneGone DEF NodesThere
<1>10. CASE UNCHANGED vars
  BY <1>2, <1>10 DEF vars, etcdVars, storeVars, schedVars, NodesThere, NoneGone, Counts
<1>11. ~ReceiveNode /\ ~HandleNode /\ ~RefreshCache /\ ~StartEnqueue /\ ~EnqueuePod /\ ~LockedOut
  BY <1>2 DEF ReceiveNode, HandleNode, RefreshCache, StartEnqueue, EnqueuePod, LockedOut,
              NodesThere
<1>13. CASE \E k \in {"pod", "node"} : Connect(k)
  <2>1. UNCHANGED <<pods, nodes, podWatch, nodeWatch, storeVars, schedVars>>
    BY <1>13 DEF Connect
  <2> QED BY <1>2, <2>1 DEF storeVars, schedVars, NodesThere, NoneGone, Counts
<1>12. /\ \A q \in Pod : ~DeletePod(q)
       /\ \A n \in Node : ~Beat(n) /\ ~DropNode(n) /\ ~Die(n)
       /\ ~RelistPods /\ ~RelistNodes /\ ~BindLost
  BY <1>1 DEF DeletePod, Beat, DropNode, Die, RelistPods, RelistNodes, BindLost, Disturbance
<1> QED
  BY <1>3, <1>4, <1>6, <1>7, <1>8, <1>9, <1>10, <1>11, <1>12, <1>13 DEF Next, Schedule

(* When nothing is under way no pod is in one of the stages.               *)
LEMMA RestsStill ==
  ASSUME Stage, podWatch = <<>>, podQ = <<>>, sched = Idle PROVE Still
<1>1. ASSUME NEW p \in Pod, Binding(p) PROVE FALSE
  BY <1>1 DEF Binding, Idle
<1>2. ASSUME NEW p \in Pod, Waiting(p) \/ Updated(p) \/ Removed(p) PROVE FALSE
  BY <1>2 DEF Waiting, Updated, Removed
<1>3. ASSUME NEW p \in Pod, Created(p) \/ Bound(p) \/ Deleted(p) PROVE FALSE
  BY <1>3 DEF Created, Bound, Deleted
<1> QED BY <1>1, <1>2, <1>3 DEF Stage

LEMMA PodsApart ==
  /\ Unbound \notin Node /\ Gone \notin Node /\ Unbound # Gone
  /\ Unbound \in Place /\ Gone \in Place /\ Node \subseteq Place
BY SchedulerAssumption DEF Place

(* A queue of one event, when it is put there and when it is taken.        *)
LEMMA FirstQueued ==
  ASSUME NEW e PROVE Append(<<>>, e) = <<e>>
OBVIOUS

LEMMA LastTaken ==
  ASSUME NEW e
  PROVE  /\ <<e>> # <<>> /\ Head(<<e>>) = e /\ Tail(<<e>>) = <<>>
OBVIOUS

LEMMA StillCreated ==
  ASSUME TypeOK, linked["pod"], Still, NEW q \in Pod, CreatePod(q) PROVE Created(q)'
<1>1. /\ pods[q] = Gone /\ podStore = pods /\ podWatch = <<>> /\ podQ = <<>> /\ sched = Idle
      /\ Counts(states, pods)
  BY DEF CreatePod, Still
<1>2. /\ pods' = [pods EXCEPT ![q] = Unbound] /\ podWatch' = <<<<q, Unbound>>>>
      /\ UNCHANGED <<podStore, podQ, sched, states>>
  BY <1>1, FirstQueued DEF CreatePod, PutPod, storeVars
<1>3. pods'[q] = Unbound /\ podStore' = [pods' EXCEPT ![q] = Gone]
  BY <1>1, <1>2 DEF TypeOK
<1>4. Counts(states, pods')
  <2>1. \A p \in Pod : pods[p] = pods'[p] \/ (pods[p] \notin Node /\ pods'[p] \notin Node)
    BY <1>1, <1>2, PodsApart DEF TypeOK
  <2> QED BY <1>1, <2>1, CountedAlike
<1> QED BY <1>1, <1>2, <1>3, <1>4 DEF Created, Counts

LEMMA StillDeleted ==
  ASSUME TypeOK, linked["pod"], Still, NEW q \in Pod, DeletePod(q) PROVE Deleted(q)'
<1>1. /\ pods[q] # Gone /\ podStore = pods /\ podWatch = <<>> /\ podQ = <<>> /\ sched = Idle
      /\ Counts(states, pods)
  BY DEF DeletePod, Still
<1>2. /\ pods' = [pods EXCEPT ![q] = Gone] /\ podWatch' = <<<<q, Gone>>>>
      /\ UNCHANGED <<podStore, podQ, sched, states>>
  BY <1>1, FirstQueued DEF DeletePod, PutPod, storeVars, schedVars
<1> QED BY <1>1, <1>2 DEF Deleted, Counts

(* The scheduler is told of a pod: of its creation, its node, or its end.  *)
LEMMA ReceivedStage ==
  ASSUME TypeOK, NodesThere, Stage, ReceivePod PROVE Stage'
<1>1. /\ podWatch # <<>>
      /\ UNCHANGED <<pods, states, sched>>
  BY DEF ReceivePod, schedVars
<1>2. ASSUME NEW p \in Pod, NEW new \in Place, podWatch = <<<<p, new>>>>, podQ = <<>>,
             podStore[p] # new
      PROVE  /\ podWatch' = <<>> /\ podStore' = [podStore EXCEPT ![p] = new]
             /\ podStore[p] = Gone => podQ' = <<[kind |-> "Add", pod |-> p, at |-> new]>>
             /\ podStore[p] # Gone /\ new = Gone
                  => podQ' = <<[kind |-> "Delete", pod |-> p, at |-> podStore[p]]>>
             /\ podStore[p] # Gone /\ new # Gone
                  => podQ' = <<[kind |-> "Update", pod |-> p, at |-> new]>>
  <2>1. /\ Head(podWatch) = <<p, new>> /\ Head(podWatch)[1] = p /\ Head(podWatch)[2] = new
        /\ Tail(podWatch) = <<>>
    BY <1>2, LastTaken
  <2> QED BY <1>2, <2>1, FirstQueued DEF ReceivePod
<1>3. ASSUME NEW p \in Pod, Created(p) PROVE Waiting(p)'
  <2>1. podWatch = <<<<p, Unbound>>>> /\ podQ = <<>> /\ podStore[p] = Gone
    BY <1>3 DEF Created, TypeOK
  <2>2. /\ podWatch' = <<>> /\ podStore' = [podStore EXCEPT ![p] = Unbound]
        /\ podQ' = <<New(p)>>
    BY <1>2, <2>1, PodsApart DEF New
  <2>3. podStore' = pods
    BY <1>3, <2>2 DEF Created, TypeOK
  <2> QED BY <1>1, <1>3, <2>2, <2>3 DEF Created, Waiting, Counts
<1>4. ASSUME NEW p \in Pod, Bound(p) PROVE Updated(p)'
  <2>1. podWatch = <<<<p, pods[p]>>>> /\ podQ = <<>> /\ podStore[p] = Unbound
        /\ pods[p] \in Node
    BY <1>4 DEF Bound, TypeOK
  <2>2. /\ podWatch' = <<>> /\ podStore' = [podStore EXCEPT ![p] = pods[p]]
        /\ podQ' = <<[kind |-> "Update", pod |-> p, at |-> pods[p]]>>
    BY <1>2, <2>1, PodsApart
  <2>3. podStore' = pods
    BY <1>4, <2>2 DEF Bound, TypeOK
  <2> QED BY <1>1, <1>4, <2>2, <2>3 DEF Bound, Updated, Counts
<1>5. ASSUME NEW p \in Pod, Deleted(p) PROVE Removed(p)'
  <2>1. podWatch = <<<<p, Gone>>>> /\ podQ = <<>> /\ podStore[p] # Gone
    BY <1>5 DEF Deleted
  <2>2. /\ podWatch' = <<>> /\ podStore' = [podStore EXCEPT ![p] = Gone]
        /\ podQ' = <<[kind |-> "Delete", pod |-> p, at |-> podStore[p]]>>
    BY <1>2, <2>1, PodsApart
  <2>3. podStore' = pods /\ pods[p] = Gone /\ podStore[p] \in Place
        /\ [pods EXCEPT ![p] = podStore[p]] = podStore
    BY <1>5, <2>2 DEF Deleted, TypeOK
  <2>4. Counts(states, [pods EXCEPT ![p] = podStore[p]])
    BY <1>5, <2>3 DEF Deleted
  <2> QED BY <1>1, <1>5, <2>2, <2>3, <2>4 DEF Deleted, Removed, Counts
<1>6. ~Still /\ \A p \in Pod : ~Waiting(p) /\ ~Binding(p) /\ ~Updated(p) /\ ~Removed(p)
  BY <1>1 DEF Still, Waiting, Binding, Updated, Removed
<1> QED BY <1>3, <1>4, <1>5, <1>6 DEF Stage

(* The scheduler's task takes what it was told: it tries to bind a pod     *)
(* that is created, and no longer counts one that is gone.                 *)
LEMMA TakenStage ==
  ASSUME TypeOK, Stage, TakePod, HandlePodAdd \/ HandlePodUpdate \/ HandlePodDelete
  PROVE  Stage'
<1>1. /\ sched = Idle /\ podQ # <<>> /\ podQ' = Tail(podQ)
      /\ UNCHANGED <<pods, podWatch, podStore>>
  BY DEF TakePod, etcdVars
<1>2. ASSUME NEW p \in Pod, Waiting(p) PROVE Still' \/ Binding(p)'
  <2>1. Head(podQ) = New(p) /\ podQ' = <<>>
    BY <1>1, <1>2, LastTaken DEF Waiting
  <2>2. Head(podQ).kind = "Add" /\ Head(podQ).pod = p /\ Head(podQ).at = Unbound
    BY <2>1 DEF New
  <2>3. HandlePodAdd
    BY <2>2 DEF HandlePodUpdate, HandlePodDelete
  <2>4. /\ states' = states
        /\ sched' = sched \/ (sched'.at = "bind" /\ sched'.pod = {p})
    BY <2>2, <2>3 DEF HandlePodAdd
  <2> QED BY <1>1, <1>2, <2>1, <2>4 DEF Waiting, Still, Binding, Counts
<1>3. ASSUME NEW p \in Pod, Updated(p) PROVE Still'
  <2>1. Head(podQ) = [kind |-> "Update", pod |-> p, at |-> pods[p]] /\ podQ' = <<>>
    BY <1>1, <1>3, LastTaken DEF Updated
  <2>2. UNCHANGED <<states, sched>>
    BY <2>1 DEF HandlePodAdd, HandlePodUpdate, HandlePodDelete, schedVars
  <2> QED BY <1>1, <1>3, <2>1, <2>2 DEF Updated, Still, Counts
<1>4. ASSUME NEW p \in Pod, Removed(p) PROVE Still'
  <2>1. PICK at \in Place : /\ podQ = <<[kind |-> "Delete", pod |-> p, at |-> at]>>
                            /\ Counts(states, [pods EXCEPT ![p] = at])
    BY <1>4 DEF Removed
  <2>2. Head(podQ) = [kind |-> "Delete", pod |-> p, at |-> at] /\ podQ' = <<>>
    BY <1>1, <2>1, LastTaken
  <2>3. HandlePodDelete /\ Head(podQ).at = at
    BY <2>2 DEF HandlePodAdd, HandlePodUpdate
  <2>4. sched' = sched /\ states' = IF at \in Node THEN Counted(at, 0 - 1) ELSE states
    BY <2>3 DEF HandlePodDelete
  <2> DEFINE f == [pods EXCEPT ![p] = at]
  <2>5. /\ f \in [Pod -> Place] /\ f[p] = at /\ [f EXCEPT ![p] = Gone] = pods
        /\ pods[p] = Gone
    BY <1>4 DEF Removed, TypeOK
  <2>6. Counts(states', pods)
    <3>1. CASE at \in Node
      <4>1. Gone \in Place \ Node /\ f[p] \in Node /\ Counts(states, f)
        BY <2>1, <2>5, <3>1, PodsApart
      <4> HIDE DEF f
      <4>2. Counts(Counted(f[p], 0 - 1), [f EXCEPT ![p] = Gone])
        BY <2>5, <4>1, CountedOneLess
      <4> QED BY <2>4, <2>5, <3>1, <4>2
    <3>2. CASE at \notin Node
      <4>1. \A q \in Pod : f[q] = pods[q] \/ (f[q] \notin Node /\ pods[q] \notin Node)
        BY <2>5, <3>2, PodsApart DEF TypeOK
      <4> QED BY <2>1, <2>4, <3>2, <4>1, CountedAlike
    <3> QED BY <3>1, <3>2
  <2> QED BY <1>1, <1>4, <2>2, <2>4, <2>6 DEF Removed, Still, Counts
<1>5. ~Still /\ \A p \in Pod : ~Created(p) /\ ~Binding(p) /\ ~Bound(p) /\ ~Deleted(p)
  BY <1>1 DEF Still, Created, Binding, Bound, Deleted, Idle
<1> QED BY <1>2, <1>3, <1>4, <1>5 DEF Stage

(* A pod is bound, and counted on its node.                                *)
LEMMA BindStage ==
  ASSUME TypeOK, linked["pod"], Stage, OneNode, NodesThere, BindRead \/ BindPut PROVE Stage'
<1>1. sched.at \in {"bind", "put"}
  BY DEF BindRead, BindPut
<1>2. PICK p \in Pod : Binding(p)
  BY <1>1 DEF Stage, Still, Created, Waiting, Bound, Updated, Deleted, Removed, Idle
<1>3. PICK n \in Node : sched.node = {n}
  BY <1>1 DEF OneNode
<1>4. /\ pods[p] = Unbound /\ Counts(states, pods) /\ podStore = pods
      /\ podWatch = <<>> /\ podQ = <<>> /\ sched.pod = {p}
  BY <1>2 DEF Binding
<1>5. CASE BindRead
  <2>1. n \in nodes /\ pods[p] # Gone
    BY <1>3, <1>4, PodsApart DEF NodesThere
  <2>2. sched' = [sched EXCEPT !.at = "put"] /\ UNCHANGED states
    BY <1>3, <1>4, <1>5, <2>1 DEF BindRead
  <2>3. sched'.at = "put" /\ sched'.pod = {p}
    BY <1>4, <2>2 DEF TypeOK
  <2>4. UNCHANGED <<pods, podWatch, podStore, podQ>>
    BY <1>5 DEF BindRead, etcdVars, storeVars
  <2>5. Binding(p)'
    BY <1>4, <2>2, <2>3, <2>4 DEF Binding, Counts
  <2> QED BY <2>5 DEF Stage
<1>6. CASE BindPut
  <2>1. PutPod(p, n) /\ states' = Counted(n, 1) /\ sched' = Idle /\ UNCHANGED <<podStore, podQ>>
    BY <1>3, <1>4, <1>6 DEF BindPut, storeVars
  <2>2. pods' = [pods EXCEPT ![p] = n] /\ podWatch' = <<<<p, n>>>>
    BY <1>4, <2>1, FirstQueued DEF PutPod
  <2>3. Counts(states', pods')
    <3>1. pods[p] \notin Node /\ pods \in [Pod -> Place]
      BY <1>4, PodsApart DEF TypeOK
    <3>2. Counts(Counted(n, 1), [pods EXCEPT ![p] = n])
      BY <1>4, <3>1, CountedOneMore
    <3> QED BY <2>1, <2>2, <3>2
  <2>4. pods'[p] = n /\ podStore' = [pods' EXCEPT ![p] = Unbound]
    BY <1>4, <2>1, <2>2 DEF TypeOK
  <2>5. Bound(p)'
    BY <1>4, <2>1, <2>2, <2>3, <2>4 DEF Bound, Counts
  <2> QED BY <2>5 DEF Stage
<1> QED BY <1>5, <1>6

(* The status a kubelet puts, as it comes to the cache.                    *)
LEMMA BeatAlone ==
  ASSUME TypeOK, linked["node"], NodesAlone, Still, NEW n \in Node, Beat(n)
  PROVE  NodesAlone' /\ Still'
<1> DEFINE e == [node |-> n, gone |-> FALSE]
<1>1. /\ nodes' = nodes \cup {n} /\ nodeWatch' = Append(nodeWatch, e)
      /\ UNCHANGED <<pods, podWatch, podStore, nodeStore, podQ, nodeQ, podResync, nodeResync,
                     states, sched>>
  BY DEF Beat, PutNode, storeVars, schedVars
<1>2. nodeWatch \in Seq(NodeWatch) /\ e \in NodeWatch
  BY DEF TypeOK, NodeWatch
<1> HIDE DEF e
<1>3. \A i \in 1 .. Len(nodeWatch') : ~nodeWatch'[i].gone
  <2> SUFFICES ASSUME NEW i \in 1 .. Len(nodeWatch') PROVE ~nodeWatch'[i].gone
    OBVIOUS
  <2>1. \/ i \in 1 .. Len(nodeWatch) /\ nodeWatch'[i] = nodeWatch[i]
        \/ nodeWatch'[i] = e
    BY <1>1, <1>2, QueuedElements
  <2>2. ~e.gone
    BY DEF e
  <2> QED BY <2>1, <2>2 DEF NodesAlone
<1>4. nodes' = Node
  BY <1>1 DEF NodesAlone, NodesThere
<1>5. Still'
  BY <1>1 DEF Still, Counts
<1> QED BY <1>1, <1>3, <1>4, <1>5 DEF NodesAlone, NodesThere

LEMMA ReceivedAlone ==
  ASSUME TypeOK, NodesAlone, ReceiveNode PROVE NodesAlone' /\ Still /\ Still'
<1>1. /\ nodeWatch \in Seq(NodeWatch) /\ nodeWatch # <<>> /\ nodeWatch' = Tail(nodeWatch)
      /\ UNCHANGED <<pods, nodes, podWatch, podStore, podQ, podResync, nodeResync, states, sched>>
  BY DEF ReceiveNode, TypeOK, NodeWatch, schedVars
<1>2. /\ Head(nodeWatch) = nodeWatch[1] /\ 1 \in 1 .. Len(nodeWatch)
      /\ Head(nodeWatch).node \in Node
      /\ \A i \in 1 .. Len(nodeWatch') :
           i + 1 \in 1 .. Len(nodeWatch) /\ nodeWatch'[i] = nodeWatch[i + 1]
  <2>1. Head(nodeWatch) \in NodeWatch
    BY <1>1, Taken
  <2>2. /\ Head(nodeWatch) = nodeWatch[1] /\ 1 \in 1 .. Len(nodeWatch)
        /\ \A i \in 1 .. Len(nodeWatch') :
             i + 1 \in 1 .. Len(nodeWatch) /\ nodeWatch'[i] = nodeWatch[i + 1]
    BY <1>1, Taken
  <2> QED BY <2>1, <2>2 DEF NodeWatch
<1>3. ~Head(nodeWatch).gone /\ Head(nodeWatch).node \in nodeStore
  BY <1>2 DEF NodesAlone, NodesThere
<1> DEFINE e == [kind |-> "Update", node |-> Head(nodeWatch).node]
<1>4. nodeStore' = Node /\ nodeQ' = Append(nodeQ, e)
  BY <1>2, <1>3 DEF ReceiveNode, NodesAlone, NodesThere
<1>5. e \in NodeEvent /\ e.kind = "Update"
  BY <1>2 DEF NodeEvent
<1> HIDE DEF e
<1>6. \A i \in 1 .. Len(nodeQ') : nodeQ'[i].kind = "Update"
  <2> SUFFICES ASSUME NEW i \in 1 .. Len(nodeQ') PROVE nodeQ'[i].kind = "Update"
    OBVIOUS
  <2>1. \/ i \in 1 .. Len(nodeQ) /\ nodeQ'[i] = nodeQ[i]
        \/ nodeQ'[i] = e
    BY <1>4, <1>5, QueuedElements DEF TypeOK
  <2> QED BY <1>5, <2>1 DEF NodesAlone
<1>7. \A i \in 1 .. Len(nodeWatch') : ~nodeWatch'[i].gone
  BY <1>2 DEF NodesAlone
<1>8. Still /\ Still'
  BY <1>1 DEF NodesAlone, Still, Counts
<1> QED BY <1>1, <1>4, <1>6, <1>7, <1>8 DEF NodesAlone, NodesThere

(* An update of a node counts its pods anew, from a store that is up to    *)
(* date.                                                                   *)
LEMMA HandledAlone ==
  ASSUME TypeOK, NodesAlone, HandleNode PROVE NodesAlone' /\ Still'
<1>1. /\ nodeQ \in Seq(NodeEvent) /\ nodeQ # <<>> /\ nodeQ' = Tail(nodeQ)
      /\ UNCHANGED <<pods, nodes, podWatch, nodeWatch, podStore, nodeStore, podQ, podResync,
                     nodeResync, sched>>
  BY DEF HandleNode, TypeOK, etcdVars
<1>2. /\ Head(nodeQ) = nodeQ[1] /\ 1 \in 1 .. Len(nodeQ) /\ Head(nodeQ).node \in Node
      /\ \A i \in 1 .. Len(nodeQ') : i + 1 \in 1 .. Len(nodeQ) /\ nodeQ'[i] = nodeQ[i + 1]
  <2>1. Head(nodeQ) \in NodeEvent
    BY <1>1, Taken
  <2>2. /\ Head(nodeQ) = nodeQ[1] /\ 1 \in 1 .. Len(nodeQ)
        /\ \A i \in 1 .. Len(nodeQ') : i + 1 \in 1 .. Len(nodeQ) /\ nodeQ'[i] = nodeQ[i + 1]
    BY <1>1, Taken
  <2> QED BY <2>1, <2>2 DEF NodeEvent
<1>3. Head(nodeQ).kind = "Update" /\ Still
  BY <1>1, <1>2 DEF NodesAlone
<1>4. states' = [states EXCEPT ![Head(nodeQ).node] = Recount(Head(nodeQ).node)]
  BY <1>3 DEF HandleNode
<1>5. Counts(states', podStore)
  BY <1>2, <1>3, <1>4, RecountedAlike DEF Still
<1>6. Still'
  BY <1>1, <1>3, <1>5 DEF Still
<1>7. \A i \in 1 .. Len(nodeQ') : nodeQ'[i].kind = "Update"
  BY <1>2 DEF NodesAlone
<1> QED BY <1>1, <1>6, <1>7 DEF NodesAlone, NodesThere

LEMMA StepOneAtATime ==
  ASSUME TypeOK, [Next]_vars, NothingRelisted, OneNode, OneAtATime PROVE OneAtATime'
<1> DEFINE Alone == {"create", "delete", "beat", "die"}
<1> SUFFICES ASSUME world'.patient, Only(Alone)'
             PROVE  NodesAlone' /\ Stage'
  BY DEF OneAtATime
<1>1. /\ Only(Alone) /\ world' = world
      /\ \A d \in Disturbance : Disturb(d) => d \in Alone
  BY Undisturbed
<1>2. NodesAlone /\ Stage /\ world.patient /\ linked["pod"] /\ linked["node"]
  BY <1>1 DEF OneAtATime, NothingRelisted, Only, Disturbance
<1>3. \A d \in Disturbance : Disturb(d) => Still
  <2>1. ASSUME Quiet PROVE Still
    BY <1>2, <2>1, RestsStill DEF Quiet
  <2> QED BY <1>2, <2>1 DEF Disturb
(* While a pod is under way no node is.                                    *)
<1>4. ASSUME podWatch # <<>> \/ podQ # <<>> \/ sched # Idle,
             UNCHANGED <<nodes, nodeWatch, nodeStore, nodeQ, podResync, nodeResync>>,
             sched'.at # "enqueue"
      PROVE  NodesAlone'
  <2>1. ~Still
    BY <1>4 DEF Still
  <2> QED BY <1>2, <1>4, <2>1 DEF NodesAlone, NodesThere
<1>5. ASSUME NEW q \in Pod, CreatePod(q) \/ DeletePod(q) PROVE NodesAlone' /\ Stage'
  <2>1. Quiet
    BY <1>2, <1>5 DEF CreatePod, DeletePod, Disturb
  <2>2. Still /\ nodeWatch = <<>> /\ nodeQ = <<>>
    BY <1>2, <2>1, RestsStill DEF Quiet
  <2>3. /\ UNCHANGED <<nodes, nodeWatch, nodeStore, nodeQ, podResync, nodeResync, sched>>
    BY <1>5 DEF CreatePod, DeletePod, storeVars, schedVars
  <2>4. NodesAlone'
    BY <1>2, <2>2, <2>3 DEF NodesAlone, NodesThere
  <2>5. Created(q)' \/ Deleted(q)'
    BY <1>2, <1>5, <2>2, StillCreated, StillDeleted
  <2> QED BY <2>4, <2>5 DEF Stage
<1>6. ASSUME NEW n \in Node, Beat(n) PROVE NodesAlone' /\ Stage'
  <2>1. Still
    BY <1>3, <1>6 DEF Beat, Disturbance
  <2> QED BY <1>2, <1>6, <2>1, BeatAlone DEF Stage
<1>7. CASE ReceiveNode
  BY <1>2, <1>7, ReceivedAlone DEF Stage
<1>8. CASE HandleNode
  BY <1>2, <1>8, HandledAlone DEF Stage
<1>9. CASE ReceivePod
  <2>1. /\ podWatch # <<>> /\ sched'.at # "enqueue"
        /\ UNCHANGED <<nodes, nodeWatch, nodeStore, nodeQ, podResync, nodeResync>>
    BY <1>9 DEF ReceivePod, schedVars
  <2> QED BY <1>2, <1>4, <1>9, <2>1, ReceivedStage DEF NodesAlone
<1>10. CASE HandlePodAdd \/ HandlePodUpdate \/ HandlePodDelete
  <2>1. TakePod /\ podQ # <<>>
    BY <1>10 DEF HandlePodAdd, HandlePodUpdate, HandlePodDelete, TakePod
  <2>2. sched'.at # "enqueue"
    BY <1>10, <2>1 DEF HandlePodAdd, HandlePodUpdate, HandlePodDelete, TakePod, schedVars, Idle
  <2>3. UNCHANGED <<nodes, nodeWatch, nodeStore, nodeQ, podResync, nodeResync>>
    BY <2>1 DEF TakePod, etcdVars
  <2> QED BY <1>2, <1>4, <1>10, <2>1, <2>2, <2>3, TakenStage
<1>11. CASE BindRead \/ BindPut
  <2>1. sched # Idle /\ sched'.at # "enqueue"
    BY <1>11 DEF BindRead, BindPut, Idle, TypeOK
  <2>2. UNCHANGED <<nodes, nodeWatch, nodeStore, nodeQ, podResync, nodeResync>>
    BY <1>11 DEF BindRead, BindPut, etcdVars, storeVars
  <2> QED BY <1>2, <1>4, <1>11, <2>1, <2>2, BindStage DEF NodesAlone
<1>12. CASE \/ \E n \in Node : Die(n)
            \/ \E k \in {"pod", "node"} : Connect(k)
            \/ UNCHANGED vars
  <2>1. UNCHANGED <<pods, nodes, podWatch, nodeWatch, storeVars, schedVars>>
    BY <1>12 DEF Die, Connect, etcdVars, vars
  <2>2. Still' = Still /\ NodesAlone' = NodesAlone
    BY <2>1 DEF Still, NodesAlone, NodesThere, Counts, storeVars, schedVars
  <2>3. Stage' = Stage
    BY <2>1, <2>2 DEF Stage, Created, Waiting, Binding, Bound, Updated, Deleted, Removed,
       Counts, storeVars, schedVars
  <2> QED BY <1>2, <2>2, <2>3
<1>13. ~RefreshCache /\ ~StartEnqueue /\ ~EnqueuePod /\ ~LockedOut
  BY <1>2 DEF RefreshCache, StartEnqueue, EnqueuePod, LockedOut, PodsLocked, NodesAlone,
              NodesThere, Still
<1>14. (\A n \in Node : ~DropNode(n)) /\ ~RelistPods /\ ~RelistNodes /\ ~BindLost
  BY <1>1 DEF DropNode, RelistPods, RelistNodes, BindLost, Disturbance
<1> QED
  <2>1. \/ Schedule \/ (\E p \in Pod : CreatePod(p) \/ DeletePod(p))
        \/ (\E n \in Node : Beat(n) \/ Die(n)) \/ ReceivePod \/ ReceiveNode
        \/ (\E k \in {"pod", "node"} : Connect(k)) \/ UNCHANGED vars
    BY <1>14 DEF Next
  <2>2. Schedule => NodesAlone' /\ Stage'
    BY <1>8, <1>10, <1>11, <1>13 DEF Schedule
  <2>3. (\E p \in Pod : CreatePod(p) \/ DeletePod(p)) => NodesAlone' /\ Stage'
    BY <1>5
  <2>4. (\E n \in Node : Beat(n) \/ Die(n)) => NodesAlone' /\ Stage'
    BY <1>6, <1>12
  <2>5. (\E k \in {"pod", "node"} : Connect(k)) => NodesAlone' /\ Stage'
    BY <1>12
  <2>6. UNCHANGED vars => NodesAlone' /\ Stage'
    BY <1>12
  <2>7. ReceivePod \/ ReceiveNode => NodesAlone' /\ Stage'
    BY <1>7, <1>9
  <2> QED BY <2>1, <2>2, <2>3, <2>4, <2>5, <2>6, <2>7

(* The cache of the scheduler is exact when nothing is under way: after    *)
(* any number of creations, however they overlap, and while users and      *)
(* nodes take turns.  Then no pod was counted twice, taken off twice or    *)
(* left out, and no count has wrapped around at its width.                 *)
THEOREM CacheIsExact == Spec => []CountsExact
<1> DEFINE Inv == /\ NothingRelisted /\ OneBinding /\ OneNode
                  /\ env["relist"] = 0 => \A p \in Pod : OnItsWayOnce(p)
                  /\ OnlyGrows /\ OneAtATime
<1>1. Init => Inv
  <2> SUFFICES ASSUME Init PROVE Inv
    OBVIOUS
  <2>1. /\ podWatch = <<>> /\ podQ = <<>> /\ nodeWatch = <<>> /\ nodeQ = <<>> /\ sched = Idle
        /\ podResync = FALSE /\ nodeResync = FALSE /\ nodes = Node /\ nodeStore = Node
        /\ podStore = pods /\ linked["pod"] /\ linked["node"]
    BY DEF Init
  <2>2. NothingRelisted /\ OneBinding /\ OneNode /\ \A p \in Pod : OnItsWayOnce(p)
    BY <2>1 DEF OnItsWayOnce, Announced, Enqueued, NothingRelisted, OneBinding, OneNode, Idle
  <2>3. Counts(states, pods)
    <3> SUFFICES ASSUME NEW n \in Node
                 PROVE  /\ states[n] # Unknown
                        /\ states[n][1].count = Cardinality({p \in Pod : pods[p] = n})
      BY DEF Counts
    <3>1. {p \in Pod : pods[p] = n} = {}
      BY PodsApart DEF Init
    <3>2. Cardinality({p \in Pod : pods[p] = n}) = 0
      BY <3>1, FS_EmptySet
    <3> QED BY <3>2 DEF Init, Unknown
  <2>4. NodesThere /\ NoneGone
    BY <2>1 DEF NodesThere, NoneGone, Idle
  <2>5. Still
    BY <2>1, <2>3 DEF Still
  <2> QED BY <2>1, <2>2, <2>3, <2>4, <2>5 DEF OnlyGrows, OneAtATime, NodesAlone, Stage
<1>2. TypeOK /\ [Next]_vars => (env'["relist"] = 0 => env["relist"] = 0)
  BY RelistsCount
<1>3. TypeOK /\ Inv /\ [Next]_vars => Inv'
  BY <1>2, StepNothingRelisted, StepBindsOne, StepOneNode, StepOnItsWay, StepOnlyGrows,
     StepOneAtATime
<1>4. Inv => CountsExact
  <2> SUFFICES ASSUME Inv, Quiet,
                      \/ Only({"create"})
                      \/ world.patient /\ Only({"create", "delete", "beat", "die"}),
                      NEW n \in Node
               PROVE  IF n \in nodes
                        THEN states[n] # Unknown /\ states[n][1].count = Hosted(n)
                        ELSE states[n] = Unknown
    BY DEF CountsExact
  <2>1. CASE Only({"create"})
    BY <2>1 DEF OnlyGrows, NodesThere, Counts, Hosted
  <2>2. CASE world.patient /\ Only({"create", "delete", "beat", "die"})
    <3>1. Still /\ NodesThere
      BY <2>2, RestsStill DEF OneAtATime, NodesAlone, Quiet
    <3> QED BY <3>1 DEF Still, NodesThere, Counts, Hosted
  <2> QED BY <2>1, <2>2
<1> QED BY <1>1, <1>3, <1>4, SchedulerTypeCorrect, PTL DEF Spec
===============================================================================
