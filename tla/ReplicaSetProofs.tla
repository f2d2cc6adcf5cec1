--------------------------- MODULE ReplicaSetProofs ---------------------------
(***************************************************************************)
(* Theorems about ReplicaSet, for any names, capacity of the channels and  *)
(* any world: whatever users, kubelets and the network do.                 *)
(***************************************************************************)
EXTENDS ReplicaSet, SequenceTheorems, FiniteSetTheorems, TLAPS

Pods == [Pod -> PodState \cup {"None"}]
PodEvent == Pod \X (PodState \cup {"None"})

-------------------------------------------------------------------------------
(* What is counted, queued and written has its type.                       *)

LEMMA HeadTail ==
  ASSUME NEW S, NEW s \in Seq(S), s # <<>>
  PROVE  Head(s) \in S /\ Tail(s) \in Seq(S)
BY HeadTailProperties

LEMMA CountIsNat == ASSUME NEW S \in SUBSET Pod PROVE Cardinality(S) \in Nat
BY ReplicaSetAssumption, FS_Subset, FS_CardinalityType

LEMMA StatusIsTyped ==
  ASSUME NEW obj \in Replicas, NEW store
  PROVE  WithStatus(obj, store) \in Replicas
<1>1. /\ Cardinality(In(store)) \in Nat
      /\ Cardinality({p \in Pod : store[p] = "Ready"}) \in Nat
  BY CountIsNat DEF In
<1> QED BY <1>1 DEF WithStatus, Replicas

(* A status that was counted from a store is the store's status.           *)
LEMMA CountedOnce ==
  ASSUME NEW obj \in Replicas, NEW store
  PROVE  WithStatus(WithStatus(obj, store), store) = WithStatus(obj, store)
BY StatusIsTyped DEF WithStatus, Replicas

LEMMA WorldIsTyped ==
  ASSUME world \in Worlds
  PROVE  world.first \in Nat /\ world.scales \subseteq Nat
BY ReplicaSetAssumption DEF World

(* The parts of the state's type, as each action disturbs them; and the    *)
(* controller deletes no pod but one of those it saw.                      *)
ApiOK == /\ rs \in Replicas \cup {NoRS}
         /\ pods \in Pods
         /\ rsWatch \in Seq(Replicas \cup {NoRS})
         /\ podWatch \in Seq(PodEvent)
NetOK == /\ linked \in [{"rs", "pod"} -> BOOLEAN]
         /\ scaling \subseteq Replicas
StoresOK == /\ rsStore \in Replicas \cup {NoRS}
            /\ podStore \in Pods
QueuesOK == /\ rsQ \in Seq(Replicas)
            /\ podQ \in 0 .. QueueCap
            /\ rsResync \in BOOLEAN
            /\ podResync \in BOOLEAN
CtlOK == /\ ctl \in [at : {"idle", "post", "create", "delete", "crashed"},
                     rs : Replicas \cup {NoRS}, pod : Pod \cup {NoPod},
                     lock : {"none", "rs", "pod"}]
         /\ ctl.at = "delete" => ctl.pod \in Pod
EnvOK == world \in Worlds /\ env \in [Disturbance -> Nat]

IInv == ApiOK /\ NetOK /\ StoresOK /\ QueuesOK /\ CtlOK /\ EnvOK

LEMMA TypeParts == IInv => TypeOK
BY DEF IInv, TypeOK, ApiOK, NetOK, StoresOK, QueuesOK, CtlOK, EnvOK, Pods, PodEvent

LEMMA IdleIsTyped == ctl' = Idle => CtlOK'
BY DEF Idle, CtlOK

LEMMA DisturbIsTyped ==
  ASSUME EnvOK, NEW d \in Disturbance, Disturb(d) PROVE EnvOK'
BY DEF EnvOK, Disturb

LEMMA PutRSIsTyped ==
  ASSUME ApiOK, NEW new \in Replicas \cup {NoRS}, PutRS(new), UNCHANGED <<pods, podWatch>>
  PROVE  ApiOK'
BY AppendProperties DEF ApiOK, PutRS

LEMMA PutPodIsTyped ==
  ASSUME ApiOK, NEW p \in Pod, NEW st \in PodState \cup {"None"}, PutPod(p, st),
         UNCHANGED <<rs, rsWatch>>
  PROVE  ApiOK'
<1>1. <<p, st>> \in PodEvent
  BY DEF PodEvent
<1>2. podWatch' \in Seq(PodEvent)
  BY <1>1, AppendProperties DEF ApiOK, PutPod
<1> QED BY <1>2 DEF ApiOK, PutPod, Pods

LEMMA UpdateStatusIsTyped ==
  ASSUME CtlOK, StoresOK, rsStore # NoRS, NEW lock \in {"none", "rs", "pod"},
         UpdateStatus(rsStore, lock)
  PROVE  CtlOK'
<1>1. rsStore \in Replicas
  BY DEF StoresOK
<1>2. WithStatus(rsStore, podStore) \in Replicas
  BY <1>1, StatusIsTyped
<1>3. CASE ctl' = Idle
  BY <1>3, IdleIsTyped
<1>4. CASE ctl' = [Idle EXCEPT !.at = "post", !.rs = WithStatus(rsStore, podStore),
                               !.lock = lock]
  BY <1>2, <1>4 DEF Idle, CtlOK
<1> QED BY <1>3, <1>4 DEF UpdateStatus

-------------------------------------------------------------------------------
(* The parts hold in every world.                                          *)
LEMMA ReplicaSetInvariant == Spec => []IInv
<1>1. Init => IInv
  <2> SUFFICES ASSUME Init PROVE IInv
    OBVIOUS
  <2>1. rs \in Replicas
    BY WorldIsTyped DEF Init, Replicas
  <2>2. ApiOK /\ StoresOK /\ EnvOK
    BY <2>1 DEF Init, ApiOK, StoresOK, EnvOK, Pods
  <2>5. NetOK
    BY DEF Init, NetOK
  <2>3. QueuesOK
    <3>1. <<rs>> \in Seq(Replicas)
      BY <2>1
    <3>2. 0 \in 0 .. QueueCap
      BY ReplicaSetAssumption
    <3>3. rsQ = <<rs>> /\ podQ = 0 /\ rsResync = FALSE /\ podResync = FALSE
      BY DEF Init
    <3> QED BY <3>1, <3>2, <3>3, Zenon DEF QueuesOK
  <2>4. CtlOK
    BY DEF Init, CtlOK, Idle
  <2> QED BY <2>2, <2>3, <2>4, <2>5 DEF IInv
<1>2. IInv /\ [Next]_vars => IInv'
  <2> SUFFICES ASSUME IInv, [Next]_vars
               PROVE  ApiOK' /\ NetOK' /\ StoresOK' /\ QueuesOK' /\ CtlOK' /\ EnvOK'
    BY DEF IInv
  <2> USE DEF apiVars, netVars, storeVars, envVars
  <2>0. ApiOK /\ NetOK /\ StoresOK /\ QueuesOK /\ CtlOK /\ EnvOK
    BY DEF IInv
  <2>e. ASSUME NEW d \in Disturbance, Disturb(d) PROVE EnvOK'
    BY <2>0, <2>e, DisturbIsTyped
  <2>s. UNCHANGED storeVars => StoresOK' /\ QueuesOK'
    BY <2>0 DEF StoresOK, QueuesOK
  <2>a. UNCHANGED apiVars => ApiOK' /\ NetOK'
    BY <2>0 DEF ApiOK, NetOK
  <2>l. UNCHANGED netVars => NetOK'
    BY <2>0 DEF NetOK
  <2>c. UNCHANGED ctl => CtlOK'
    BY <2>0 DEF CtlOK
  <2>w. UNCHANGED envVars => EnvOK'
    BY <2>0 DEF EnvOK
  <2>1. CASE (\E n \in world.scales : ScaleRead(n)) \/ ScalePut
    <3>1. CASE \E n \in world.scales : ScaleRead(n)
      <4>1. PICK n \in world.scales : ScaleRead(n)
        BY <3>1
      <4>2. [rs EXCEPT !.desired = n] \in Replicas
        BY <2>0, <4>1, WorldIsTyped DEF ScaleRead, ApiOK, EnvOK, Replicas
      <4>3. /\ UNCHANGED <<rs, pods, rsWatch, podWatch, linked, storeVars, ctl>>
            /\ scaling' = scaling \cup {[rs EXCEPT !.desired = n]}
            /\ Disturb("scale")
        BY <4>1 DEF ScaleRead
      <4>4. ApiOK' /\ NetOK'
        BY <2>0, <4>2, <4>3 DEF ApiOK, NetOK
      <4> QED BY <4>3, <4>4, <2>s, <2>c, <2>e DEF Disturbance
    <3>2. CASE ScalePut
      <4>1. PICK new \in scaling :
              /\ PutRS(new)
              /\ scaling' = scaling \ {new}
              /\ UNCHANGED <<pods, podWatch, linked, storeVars, ctl, envVars>>
        BY <3>2 DEF ScalePut
      <4>2. new \in Replicas /\ NetOK'
        BY <2>0, <4>1 DEF NetOK
      <4>3. ApiOK'
        BY <2>0, <4>1, <4>2, PutRSIsTyped
      <4> QED BY <4>1, <4>2, <4>3, <2>s, <2>c, <2>w
    <3> QED BY <2>1, <3>1, <3>2
  <2>2. CASE DropRS
    BY <2>0, <2>2, <2>s, <2>l, <2>c, <2>e, PutRSIsTyped DEF DropRS, Disturbance
  <2>3. ASSUME NEW p \in Pod, KillPod(p) PROVE ApiOK'
    BY <2>0, <2>3, PutPodIsTyped DEF KillPod
  <2>4. ASSUME NEW p \in Pod, NEW st \in PodState, MovePod(p, st) PROVE ApiOK'
    BY <2>0, <2>4, PutPodIsTyped DEF MovePod
  <2>5. CASE \E p \in Pod : KillPod(p) \/ \E st \in PodState : MovePod(p, st)
    <3>1. ApiOK'
      BY <2>3, <2>4, <2>5
    <3>2. UNCHANGED <<netVars, storeVars, ctl>> /\ \E d \in Disturbance : Disturb(d)
      BY <2>5 DEF KillPod, MovePod, Disturbance
    <3> QED BY <3>1, <3>2, <2>s, <2>l, <2>c, <2>e
  <2>6. CASE ReceiveRS
    <3>1. Head(rsWatch) \in Replicas \cup {NoRS} /\ Tail(rsWatch) \in Seq(Replicas \cup {NoRS})
      BY <2>0, <2>6, HeadTail DEF ReceiveRS, ApiOK
    <3>2. ApiOK' /\ StoresOK'
      BY <2>0, <2>6, <3>1 DEF ReceiveRS, ApiOK, StoresOK
    <3>0. UNCHANGED <<podQ, rsResync, podResync>>
      BY <2>6 DEF ReceiveRS
    <3>3. ASSUME UNCHANGED rsQ PROVE QueuesOK'
      BY <2>0, <3>0, <3>3 DEF QueuesOK
    <3>4. ASSUME Head(rsWatch) # rsStore PROVE QueuesOK'
      <4> DEFINE told == IF Head(rsWatch) = NoRS THEN [rsStore EXCEPT !.desired = 0]
                                                 ELSE Head(rsWatch)
      <4>1. told \in Replicas
        BY <2>0, <3>1, <3>4 DEF StoresOK, Replicas
      <4>2. rsQ' = Append(rsQ, told)
        BY <2>6, <3>4 DEF ReceiveRS
      <4>3. rsQ' \in Seq(Replicas)
        BY <2>0, <4>1, <4>2, AppendProperties DEF QueuesOK
      <4> QED BY <2>0, <3>0, <4>3 DEF QueuesOK
    <3>5. QueuesOK'
      BY <2>6, <3>3, <3>4 DEF ReceiveRS
    <3> QED BY <2>6, <3>2, <3>5, <2>l, <2>c, <2>w DEF ReceiveRS
  <2>7. CASE ReceivePod
    <3>1. Head(podWatch) \in PodEvent /\ Tail(podWatch) \in Seq(PodEvent)
      BY <2>0, <2>7, HeadTail DEF ReceivePod, ApiOK
    <3>2. ApiOK' /\ StoresOK'
      BY <2>0, <2>7, <3>1 DEF ReceivePod, ApiOK, StoresOK, Pods, PodEvent
    <3>3. podQ' \in 0 .. QueueCap
      BY <2>0, <2>7, ReplicaSetAssumption DEF ReceivePod, QueuesOK
    <3>4. QueuesOK'
      BY <2>0, <2>7, <3>3 DEF ReceivePod, QueuesOK
    <3> QED BY <2>7, <3>2, <3>4, <2>l, <2>c, <2>w DEF ReceivePod
  <2>8. CASE RelistRS
    <3>1. ApiOK' /\ NetOK' /\ StoresOK' /\ QueuesOK'
      BY <2>0, <2>8 DEF RelistRS, ApiOK, NetOK, StoresOK, QueuesOK
    <3> QED BY <2>8, <3>1, <2>c, <2>e DEF RelistRS, Disturbance
  <2>9. CASE RelistPods
    <3>1. ApiOK' /\ NetOK' /\ StoresOK' /\ QueuesOK'
      BY <2>0, <2>9 DEF RelistPods, ApiOK, NetOK, StoresOK, QueuesOK
    <3> QED BY <2>9, <3>1, <2>c, <2>e DEF RelistPods, Disturbance
  <2>10. CASE HandleRS
    <3>1. rsQ' \in Seq(Replicas)
      BY <2>0, <2>10, HeadTail DEF HandleRS, QueuesOK
    <3>2. StoresOK' /\ QueuesOK'
      BY <2>0, <2>10, <3>1 DEF HandleRS, StoresOK, QueuesOK
    <3>3. Victims \subseteq Pod
      BY DEF Victims, In
    <3>4. CtlOK'
      <4>1. \/ UNCHANGED ctl
            \/ ctl' = [Idle EXCEPT !.at = "create"]
            \/ \E p \in Pod : ctl' = [Idle EXCEPT !.at = "delete", !.pod = p]
            \/ ctl' = [Idle EXCEPT !.at = "crashed"]
        BY <2>10, <3>3 DEF HandleRS
      <4> QED BY <2>0, <4>1 DEF CtlOK, Idle
    <3> QED BY <2>10, <3>2, <3>4, <2>a, <2>w DEF HandleRS
  <2>11. CASE HandlePod \/ ResyncRS \/ ResyncPod
    <3>1. StoresOK' /\ QueuesOK'
      <4>1. UNCHANGED <<rsStore, podStore, rsQ>>
        BY <2>11 DEF HandlePod, ResyncRS, ResyncPod
      <4>2. podQ' = podQ \/ (podQ > 0 /\ podQ' = podQ - 1)
        BY <2>11 DEF HandlePod, ResyncRS, ResyncPod
      <4>3. podQ' \in 0 .. QueueCap
        BY <2>0, <4>2, ReplicaSetAssumption DEF QueuesOK
      <4>4. rsResync' \in BOOLEAN /\ podResync' \in BOOLEAN
        BY <2>0, <2>11 DEF HandlePod, ResyncRS, ResyncPod, QueuesOK
      <4> QED BY <2>0, <4>1, <4>3, <4>4 DEF StoresOK, QueuesOK
    <3>2. \/ UNCHANGED ctl
          \/ rsStore # NoRS /\ \E lock \in {"none", "rs", "pod"} : UpdateStatus(rsStore, lock)
      BY <2>11 DEF HandlePod, ResyncRS, ResyncPod
    <3>3. CtlOK'
      BY <2>0, <3>2, <2>c, UpdateStatusIsTyped
    <3> QED BY <2>11, <3>1, <3>3, <2>a, <2>w DEF HandlePod, ResyncRS, ResyncPod
  <2>12. CASE PostStatus
    <3>1. ctl.rs \in Replicas \cup {NoRS}
      BY <2>0 DEF CtlOK
    <3> QED BY <2>0, <2>12, <3>1, <2>s, <2>l, <2>w, PutRSIsTyped, IdleIsTyped DEF PostStatus
  <2>13. CASE CreatePod
    <3>1. (CHOOSE p \in Fresh : TRUE) \in Pod
      BY <2>13 DEF CreatePod, Fresh
    <3> QED BY <2>0, <2>13, <3>1, <2>s, <2>l, <2>w, PutPodIsTyped, IdleIsTyped
            DEF CreatePod, PodState
  <2>14. CASE DeletePod
    <3>1. ctl' = Idle /\ UNCHANGED <<rs, rsWatch, netVars, storeVars, envVars>>
      BY <2>14 DEF DeletePod
    <3>2. CASE pods[ctl.pod] = "None"
      BY <2>14, <3>1, <3>2, <2>s, <2>w, <2>a, IdleIsTyped DEF DeletePod
    <3>3. CASE pods[ctl.pod] # "None"
      <4>1. ctl.pod \in Pod /\ PutPod(ctl.pod, "None")
        BY <2>0, <2>14, <3>3 DEF DeletePod, CtlOK
      <4> QED BY <2>0, <3>1, <4>1, <2>s, <2>l, <2>w, PutPodIsTyped, IdleIsTyped
    <3> QED BY <3>2, <3>3
  <2>15. CASE RequestFails
    BY <2>15, <2>s, <2>a, <2>e, IdleIsTyped DEF RequestFails, Disturbance
  <2>16. CASE UNCHANGED vars
    BY <2>16, <2>s, <2>a, <2>c, <2>w DEF vars
  <2>17. CASE \E k \in {"rs", "pod"} : Connect(k)
    <3>1. PICK k \in {"rs", "pod"} : Connect(k)
      BY <2>17
    <3>2. ApiOK' /\ NetOK'
      BY <2>0, <3>1 DEF Connect, ApiOK, NetOK
    <3> QED BY <3>1, <3>2, <2>s, <2>c, <2>w DEF Connect
  <2> QED
    BY <2>1, <2>2, <2>5, <2>6, <2>7, <2>8, <2>9, <2>10, <2>11, <2>12, <2>13, <2>14,
       <2>15, <2>16, <2>17
       DEF Next, Controller
<1> QED BY <1>1, <1>2, PTL DEF Spec

(* In every world the controller's state has its type; in particular no    *)
(* more pod events are queued than the channel holds.                      *)
THEOREM ReplicaSetTypeCorrect == Spec => []TypeOK
BY ReplicaSetInvariant, TypeParts, PTL

-------------------------------------------------------------------------------
(* A status that is to be put counts typed objects; see CountedOnce.       *)
LEMMA PostsACount ==
  ASSUME IInv, rsStore # NoRS, NEW lock, UpdateStatus(rsStore, lock),
         UNCHANGED podStore
  PROVE  ctl'.at = "post" => WithStatus(ctl'.rs, podStore') = ctl'.rs
<1>1. rsStore \in Replicas
  BY DEF IInv, StoresOK
<1>2. CASE ctl' = Idle
  BY <1>2 DEF Idle
<1>3. CASE ctl' = [Idle EXCEPT !.at = "post", !.rs = WithStatus(rsStore, podStore),
                               !.lock = lock]
  <2>1. ctl'.rs = WithStatus(rsStore, podStore)
    BY <1>3 DEF Idle
  <2> QED BY <1>1, <2>1, CountedOnce DEF WithStatus, In
<1> QED BY <1>2, <1>3 DEF UpdateStatus

(* Whether the store holds pods or not, an event or a resync is pending    *)
(* when a status that is to be put no longer counts the pods of the store. *)
StaleCountPending ==
  (ctl.at = "post" /\ WithStatus(ctl.rs, podStore) # ctl.rs)
    => (podQ > 0 \/ podResync)

(* In every world a status that is about to be put, and that no longer     *)
(* counts the pods of a store that holds some, is noticed: nothing that    *)
(* changes the store goes unsaid while a request is under way, and the     *)
(* controller takes no event before it has ended.                          *)
THEOREM StaleCountsAreNoticed == Spec => []StaleCountIsNoticed
<1>1. Init => StaleCountPending
  BY DEF Init, Idle, StaleCountPending
<1>2. IInv /\ StaleCountPending /\ [Next]_vars => StaleCountPending'
  <2> SUFFICES ASSUME IInv, StaleCountPending, [Next]_vars
               PROVE  StaleCountPending'
    OBVIOUS
  <2> USE DEF apiVars, netVars, storeVars, envVars
  <2>i. ctl'.at # "post" => StaleCountPending'
    BY DEF StaleCountPending
  <2>n. UNCHANGED <<ctl, podStore, podQ, podResync>> => StaleCountPending'
    BY DEF StaleCountPending, WithStatus, In
  <2>1. CASE \/ \E n \in world.scales : ScaleRead(n)
             \/ ScalePut \/ DropRS \/ \E k \in {"rs", "pod"} : Connect(k)
             \/ \E p \in Pod : KillPod(p) \/ \E st \in PodState : MovePod(p, st)
    BY <2>1, <2>n DEF ScaleRead, ScalePut, DropRS, Connect, KillPod, MovePod
  <2>2. CASE ReceiveRS \/ RelistRS
    BY <2>2, <2>n DEF ReceiveRS, RelistRS
  <2>3. CASE ReceivePod
    <3>1. UNCHANGED <<ctl, podResync>>
      BY <2>3 DEF ReceivePod
    <3>2. podQ \in Nat
      BY ReplicaSetAssumption DEF IInv, QueuesOK
    <3>3. \/ podStore' = podStore /\ podQ' = podQ
          \/ podQ' > 0
      BY <2>3, <3>2 DEF ReceivePod, IInv, StoresOK, Pods
    <3> QED BY <3>1, <3>3, <2>n DEF StaleCountPending
  <2>4. CASE RelistPods
    <3>1. UNCHANGED <<ctl, podQ>>
      BY <2>4 DEF RelistPods
    <3>2. \/ podStore' = podStore /\ podResync' = podResync
          \/ podResync'
      BY <2>4 DEF RelistPods, IInv, QueuesOK
    <3> QED BY <3>1, <3>2, <2>n DEF StaleCountPending
  <2>5. CASE HandleRS
    <3>1. \/ ctl = Idle /\ UNCHANGED ctl
          \/ ctl' = [Idle EXCEPT !.at = "create"]
          \/ \E p \in Victims : ctl' = [Idle EXCEPT !.at = "delete", !.pod = p]
          \/ ctl' = [Idle EXCEPT !.at = "crashed"]
      BY <2>5 DEF HandleRS
    <3>2. ctl'.at # "post"
      <4>1. CASE \E p \in Victims : ctl' = [Idle EXCEPT !.at = "delete", !.pod = p]
        <5>1. PICK p \in Victims : ctl' = [Idle EXCEPT !.at = "delete", !.pod = p]
          BY <4>1
        <5> QED BY <5>1 DEF Idle
      <4>2. CASE ctl' = Idle \/ \E at \in {"create", "crashed"} : ctl' = [Idle EXCEPT !.at = at]
        BY <4>2 DEF Idle
      <4> QED BY <3>1, <4>1, <4>2
    <3> QED BY <3>2, <2>i
  <2>6. CASE HandlePod \/ ResyncRS \/ ResyncPod
    <3>1. ctl = Idle /\ UNCHANGED podStore
      BY <2>6 DEF HandlePod, ResyncRS, ResyncPod
    <3>2. UNCHANGED ctl \/ (rsStore # NoRS /\ \E lock : UpdateStatus(rsStore, lock))
      BY <2>6 DEF HandlePod, ResyncRS, ResyncPod
    <3>3. CASE UNCHANGED ctl
      BY <3>1, <3>3, <2>i DEF Idle
    <3>4. CASE rsStore # NoRS /\ \E lock : UpdateStatus(rsStore, lock)
      BY <3>1, <3>4, PostsACount DEF StaleCountPending
    <3> QED BY <3>2, <3>3, <3>4
  <2>7. CASE PostStatus \/ CreatePod \/ DeletePod \/ RequestFails
    BY <2>7, <2>i DEF PostStatus, CreatePod, DeletePod, RequestFails, Idle
  <2>8. CASE UNCHANGED vars
    BY <2>8, <2>n DEF vars
  <2> QED
    BY <2>1, <2>2, <2>3, <2>4, <2>5, <2>6, <2>7, <2>8 DEF Next, Controller
<1>3. StaleCountPending => StaleCountIsNoticed
  BY DEF StaleCountPending, StaleCountIsNoticed
<1> QED BY <1>1, <1>2, <1>3, ReplicaSetInvariant, PTL DEF Spec

-------------------------------------------------------------------------------
(* Where everybody waits their turn, watches may be lost but one thing is  *)
(* under way at a time, and what is under way tells where the controller   *)
(* is on its round: a write of the ReplicaSet is reconciled, the change of *)
(* a pod that follows is counted, the new status is written.               *)
Counts(obj, store) == obj \in Replicas /\ WithStatus(obj, store) = obj

NothingSent == rsWatch = <<>> /\ podWatch = <<>>
NothingQueued == rsQ = <<>> /\ podQ = 0
InStep == rsStore = rs /\ podStore = pods

(* The change of a pod will be answered: either the status no longer       *)
(* counts the pods, and is written, or nothing is left to be done.         *)
WillBeAnswered ==
  rs # NoRS => \/ rs.replicas = rs.desired
               \/ Cardinality(Alive) # rs.replicas

Resting ==
  ctl = Idle /\ NothingSent /\ NothingQueued /\ InStep /\ Settled

RSWritten ==
  /\ ctl = Idle /\ rsWatch = <<rs>> /\ podWatch = <<>> /\ NothingQueued
  /\ rsStore # rs /\ podStore = pods
  /\ Counts(IF rs = NoRS THEN rsStore ELSE rs, pods)

RSQueued ==
  /\ ctl = Idle /\ NothingSent /\ InStep /\ podQ = 0
  /\ \E obj \in Replicas :
       /\ rsQ = <<obj>> /\ Counts(obj, pods)
       /\ IF rs = NoRS THEN obj.desired = 0 ELSE obj = rs

Creating ==
  /\ ctl.at = "create" /\ NothingSent /\ NothingQueued /\ InStep
  /\ rs # NoRS => Counts(rs, pods) /\ rs.replicas < rs.desired

Deleting ==
  /\ ctl.at = "delete" /\ NothingSent /\ NothingQueued /\ InStep
  /\ pods[ctl.pod] # "None"
  /\ rs # NoRS => Counts(rs, pods) /\ rs.replicas > rs.desired

Posting ==
  /\ ctl.at = "post" /\ NothingSent /\ NothingQueued /\ InStep
  /\ rs # NoRS /\ ctl.rs = WithStatus(rs, pods) /\ ctl.rs # rs

PodWritten ==
  /\ ctl = Idle /\ rsWatch = <<>> /\ NothingQueued /\ rsStore = rs
  /\ \E p \in Pod, st \in PodState \cup {"None"} :
       /\ podWatch = <<<<p, st>>>> /\ st # podStore[p]
       /\ pods = [podStore EXCEPT ![p] = st]
  /\ WillBeAnswered

PodQueued ==
  /\ ctl = Idle /\ NothingSent /\ rsQ = <<>> /\ podQ = 1 /\ InStep
  /\ WillBeAnswered

Stage == \/ Resting \/ RSWritten \/ RSQueued \/ Creating \/ Deleting
         \/ Posting \/ PodWritten \/ PodQueued

(* All that while no request to scale is under way and nobody has to       *)
(* connect a watch; these find the controller at rest and keep it there.   *)
Alone == scaling = {} /\ linked["rs"] /\ linked["pod"]

Scaling ==
  /\ Resting /\ linked["rs"] /\ linked["pod"] /\ rs # NoRS
  /\ \E n \in Nat : n # rs.desired /\ scaling = {[rs EXCEPT !.desired = n]}

Relinking == Resting /\ scaling = {}

Round == (Alone /\ Stage) \/ Scaling \/ Relinking

Calm == world.patient => ~rsResync /\ ~podResync /\ Round

(* The controller counts every pod, and changes one at a time.             *)
LEMMA CountedReplicas ==
  ASSUME NEW obj, Counts(obj, pods)
  PROVE  obj.replicas = Cardinality(Alive) /\ Cardinality(Alive) \in Nat
<1>1. obj.replicas = Cardinality(In(pods))
  BY DEF Counts, WithStatus, Replicas
<1> QED BY <1>1, CountIsNat DEF Alive, In

LEMMA CountedWhateverDesired ==
  ASSUME NEW obj, Counts(obj, pods), NEW n \in Nat
  PROVE  Counts([obj EXCEPT !.desired = n], pods)
BY DEF Counts, WithStatus, Replicas

LEMMA OneMore ==
  ASSUME pods \in Pods, NEW p \in Pod, NEW st \in PodState, pods[p] = "None",
         pods' = [pods EXCEPT ![p] = st]
  PROVE  Cardinality(Alive') = Cardinality(Alive) + 1
<1>1. Alive' = Alive \cup {p} /\ p \notin Alive
  BY DEF Alive, In, Pods, PodState
<1>2. IsFiniteSet(Alive)
  BY ReplicaSetAssumption, FS_Subset DEF Alive, In
<1> QED BY <1>1, <1>2, FS_AddElement

LEMMA OneLess ==
  ASSUME pods \in Pods, NEW p \in Pod, pods[p] # "None",
         pods' = [pods EXCEPT ![p] = "None"]
  PROVE  Cardinality(Alive') = Cardinality(Alive) - 1
<1>1. Alive' = Alive \ {p} /\ p \in Alive
  BY DEF Alive, In, Pods
<1>2. IsFiniteSet(Alive)
  BY ReplicaSetAssumption, FS_Subset DEF Alive, In
<1> QED BY <1>1, <1>2, FS_RemoveElement

(* Of the pods in a store some are worst.                                  *)
LEMMA SomeVictim ==
  ASSUME podStore \in Pods, In(podStore) # {} PROVE Victims # {}
<1>1. \A p \in In(podStore) : podStore[p] \in PodState
  BY DEF In, Pods
<1>2. \A st \in PodState : Rank[st] \in 0 .. 3
  BY DEF PodState, Rank
<1>3. ASSUME NEW p \in In(podStore),
             \A q \in In(podStore) : Rank[podStore[p]] <= Rank[podStore[q]]
      PROVE  Victims # {}
  BY <1>3 DEF Victims
<1>4. CASE \E p \in In(podStore) : Rank[podStore[p]] = 0
  <2>1. PICK p \in In(podStore) : Rank[podStore[p]] = 0
    BY <1>4
  <2> QED BY <1>1, <1>2, <1>3, <2>1
<1>5. CASE ~ (\E p \in In(podStore) : Rank[podStore[p]] = 0)
           /\ \E p \in In(podStore) : Rank[podStore[p]] = 1
  <2>1. PICK p \in In(podStore) : Rank[podStore[p]] = 1
    BY <1>5
  <2> QED BY <1>1, <1>2, <1>3, <1>5, <2>1
<1>6. CASE ~ (\E p \in In(podStore) : Rank[podStore[p]] \in {0, 1})
           /\ \E p \in In(podStore) : Rank[podStore[p]] = 2
  <2>1. PICK p \in In(podStore) : Rank[podStore[p]] = 2
    BY <1>6
  <2> QED BY <1>1, <1>2, <1>3, <1>6, <2>1
<1>7. CASE ~ \E p \in In(podStore) : Rank[podStore[p]] \in {0, 1, 2}
  <2>1. PICK p \in In(podStore) : TRUE
    OBVIOUS
  <2> QED BY <1>1, <1>2, <1>3, <1>7, <2>1
<1> QED BY <1>4, <1>5, <1>6, <1>7

(* The write of a pod starts a round.                                      *)
LEMMA WritesAPod ==
  ASSUME IInv, InStep, NothingSent, NothingQueued, linked["pod"],
         NEW p \in Pod, NEW st \in PodState \cup {"None"}, st # pods[p],
         PutPod(p, st), ctl' = Idle, UNCHANGED <<rs, rsWatch, rsStore, podStore, rsQ, podQ>>,
         WillBeAnswered'
  PROVE  PodWritten'
<1>1. podWatch' = <<<<p, st>>>>
  BY DEF NothingSent, PutPod
<1>2. st # podStore'[p] /\ pods' = [podStore' EXCEPT ![p] = st]
  BY DEF InStep, PutPod
<1> QED BY <1>1, <1>2 DEF PodWritten, NothingQueued, NothingSent, InStep

(* Reconciling the status of the store, which counts the pods.             *)
LEMMA ReconcilesInStep ==
  ASSUME IInv, RSQueued, HandleRS
  PROVE  Resting' \/ Creating' \/ Deleting'
<1> USE DEF apiVars, netVars, storeVars, envVars
<1>1. PICK obj \in Replicas : /\ rsQ = <<obj>> /\ Counts(obj, pods)
                              /\ IF rs = NoRS THEN obj.desired = 0 ELSE obj = rs
  BY DEF RSQueued
<1>h. Head(rsQ) = obj /\ Tail(rsQ) = <<>>
  BY <1>1
<1>2. /\ ctl = Idle /\ rsQ' = <<>>
      /\ UNCHANGED <<rs, pods, rsWatch, podWatch, rsStore, podStore, podQ>>
  BY <1>h, Zenon DEF HandleRS
<1>c. \/ obj.replicas < obj.desired /\ ctl' = [Idle EXCEPT !.at = "create"]
      \/ /\ obj.replicas > obj.desired /\ Victims # {}
         /\ \E p \in Victims : ctl' = [Idle EXCEPT !.at = "delete", !.pod = p]
      \/ obj.replicas > obj.desired /\ Victims = {}
      \/ obj.replicas = obj.desired /\ UNCHANGED ctl
  BY <1>h, Zenon DEF HandleRS
<1>n. obj.replicas \in Nat /\ obj.desired \in Nat
  BY DEF Replicas
<1>3. NothingSent' /\ NothingQueued' /\ InStep'
  BY <1>2 DEF RSQueued, NothingSent, NothingQueued, InStep
<1>4. obj.replicas = Cardinality(Alive) /\ Cardinality(Alive) \in Nat
  BY <1>1, CountedReplicas
<1>5. rs # NoRS => Counts(rs', pods') /\ rs' = obj
  BY <1>1, <1>2 DEF Counts, WithStatus, In
<1>6. CASE obj.replicas < obj.desired /\ ctl' = [Idle EXCEPT !.at = "create"]
  <2>1. ctl'.at = "create"
    BY <1>6 DEF Idle
  <2> QED BY <1>2, <1>3, <1>5, <1>6, <2>1 DEF Creating
<1>7. CASE obj.replicas > obj.desired
  <2>1. Victims # {}
    <3>1. Cardinality(In(podStore)) # 0
      BY <1>4, <1>7, <1>n DEF RSQueued, InStep, Alive
    <3>2. In(podStore) # {}
      BY <3>1, FS_EmptySet
    <3> QED BY <3>2, SomeVictim DEF IInv, StoresOK
  <2>2. PICK p \in Victims : ctl' = [Idle EXCEPT !.at = "delete", !.pod = p]
    <3>1. ~ (obj.replicas < obj.desired) /\ obj.replicas # obj.desired
      BY <1>n, <1>7
    <3> QED BY <1>c, <2>1, <3>1, Zenon
  <2>3. ctl'.at = "delete" /\ ctl'.pod = p
    BY <2>2 DEF Idle
  <2>4. pods'[ctl'.pod] # "None"
    BY <1>2, <2>2, <2>3 DEF Victims, In, RSQueued, InStep
  <2> QED BY <1>2, <1>3, <1>5, <1>7, <2>3, <2>4 DEF Deleting
<1>8. CASE obj.replicas = obj.desired /\ UNCHANGED ctl
  <2>1. Settled'
    <3>1. rs # NoRS => rs' = rs /\ rs.desired = Cardinality(Alive)
                       /\ Alive' = Alive /\ (WithStatus(rs, pods) = rs)'
      BY <1>2, <1>4, <1>5, <1>8 DEF Alive, In, Counts
    <3> QED BY <1>2, <3>1 DEF Settled
  <2> QED BY <1>2, <1>3, <1>8, <2>1 DEF Resting
<1> QED BY <1>c, <1>6, <1>7, <1>8

(* Counting the pods of the store, which are those there are.              *)
LEMMA CountsInStep ==
  ASSUME IInv, PodQueued, HandlePod
  PROVE  Resting' \/ Posting'
<1> USE DEF apiVars, netVars, storeVars, envVars
<1>1. /\ ctl = Idle /\ podQ' = 0
      /\ UNCHANGED <<rs, pods, rsWatch, podWatch, rsStore, podStore, rsQ>>
  BY DEF HandlePod, PodQueued
<1>2. NothingSent' /\ NothingQueued' /\ InStep'
  BY <1>1 DEF PodQueued, NothingSent, NothingQueued, InStep
<1>3. CASE rs = NoRS
  <2>1. ctl' = Idle
    BY <1>1, <1>3 DEF HandlePod, PodQueued, InStep
  <2> QED BY <1>1, <1>2, <1>3, <2>1 DEF Resting, Settled
<1>4. CASE rs # NoRS /\ WithStatus(rs, pods) = rs
  <2>1. ctl' = Idle
    BY <1>1, <1>4 DEF HandlePod, PodQueued, InStep, UpdateStatus
  <2>2. Counts(rs, pods)
    BY <1>4 DEF Counts, IInv, ApiOK
  <2>3. rs.replicas = Cardinality(Alive) /\ rs.replicas = rs.desired
    BY <1>4, <2>2, CountedReplicas DEF PodQueued, WillBeAnswered
  <2>4. Settled'
    BY <1>1, <1>4, <2>3 DEF Settled, Alive, In, WithStatus
  <2> QED BY <1>2, <2>1, <2>4 DEF Resting
<1>5. CASE rs # NoRS /\ WithStatus(rs, pods) # rs
  <2>1. ctl' = [Idle EXCEPT !.at = "post", !.rs = WithStatus(rs, pods), !.lock = "none"]
    BY <1>1, <1>5 DEF HandlePod, PodQueued, InStep, UpdateStatus
  <2>2. ctl'.at = "post" /\ ctl'.rs = WithStatus(rs, pods)
    BY <2>1 DEF Idle
  <2> QED BY <1>1, <1>2, <1>5, <2>2 DEF Posting, WithStatus, In
<1> QED BY <1>3, <1>4, <1>5

LEMMA StageStep ==
  ASSUME IInv, world.patient, Alone, Stage, ~rsResync, ~podResync, [Next]_vars
  PROVE  ~rsResync' /\ ~podResync' /\ Stage'
<1> USE DEF apiVars, netVars, storeVars, envVars
<1>0. ~rsResync /\ ~podResync /\ Stage
  OBVIOUS
<1>l. linked["rs"] /\ linked["pod"] /\ scaling = {}
  BY DEF Alone
<1>t. /\ rs \in Replicas \cup {NoRS} /\ pods \in Pods
      /\ rsStore \in Replicas \cup {NoRS} /\ podStore \in Pods
      /\ NoRS \notin Replicas /\ world.scales \subseteq Nat
  BY ReplicaSetAssumption, WorldIsTyped DEF IInv, ApiOK, StoresOK, EnvOK
<1>e. /\ \A x : <<x>> # <<>> /\ Head(<<x>>) = x /\ Tail(<<x>>) = <<>>
      /\ \A x : Append(<<>>, x) = <<x>>
  OBVIOUS
(* Which stage each guard belongs to.                                      *)
<1>a. Idle.at = "idle"
  BY DEF Idle
<1>q. ASSUME NEW d \in Disturbance, Disturb(d)
      PROVE  Resting
  <2>1. Quiet
    BY <1>q DEF Disturb
  <2>2. ctl.at = "idle" /\ rsWatch = <<>> /\ podWatch = <<>> /\ rsQ = <<>> /\ podQ = 0
    BY <1>a, <2>1 DEF Quiet
  <2>3. ~RSWritten /\ ~PodWritten /\ ~RSQueued /\ ~PodQueued
    BY <1>e, <2>2 DEF RSWritten, PodWritten, RSQueued, PodQueued
  <2>4. ~Creating /\ ~Deleting /\ ~Posting
    BY <2>2 DEF Creating, Deleting, Posting
  <2> QED BY <1>0, <2>3, <2>4 DEF Stage
<1>r. Resting /\ rs # NoRS => /\ Counts(rs, pods) /\ rs.replicas = rs.desired
                              /\ Cardinality(Alive) = rs.desired /\ rs.desired \in Nat
  <2> SUFFICES ASSUME Resting, rs # NoRS
               PROVE  /\ Counts(rs, pods) /\ rs.replicas = rs.desired
                      /\ Cardinality(Alive) = rs.desired /\ rs.desired \in Nat
    OBVIOUS
  <2>1. Counts(rs, pods) /\ Cardinality(Alive) = rs.desired
    BY <1>t DEF Resting, Settled, Counts
  <2> QED BY <2>1, CountedReplicas DEF Counts, Replicas
<1>1. CASE DropRS
  <2>1. /\ Resting /\ rs # NoRS /\ rs' # rs /\ rsWatch' = Append(rsWatch, rs')
        /\ UNCHANGED <<pods, podWatch, storeVars, ctl>> /\ rs' = NoRS
    BY <1>1, <1>q, <1>l DEF DropRS, PutRS, Disturbance
  <2>2. rsWatch' = <<rs'>>
    BY <1>e, <2>1 DEF Resting, NothingSent
  <2>3. Counts(rsStore', pods')
    BY <1>r, <2>1 DEF Resting, InStep, Counts, WithStatus, In
  <2>4. RSWritten'
    BY <2>1, <2>2, <2>3 DEF RSWritten, Resting, NothingSent, NothingQueued, InStep
  <2> QED BY <1>0, <2>1, <2>4 DEF Stage
<1>2. CASE \E p \in Pod : KillPod(p) \/ \E st \in PodState : MovePod(p, st)
  <2>1. PICK p \in Pod, st \in PodState \cup {"None"} :
               /\ Resting /\ pods[p] \notin {"None", st} /\ PutPod(p, st)
               /\ UNCHANGED <<rs, rsWatch, storeVars, ctl>>
    <3>1. CASE \E p \in Pod : KillPod(p)
      BY <1>q, <3>1 DEF KillPod, Disturbance
    <3>2. CASE \E p \in Pod : \E st \in PodState : MovePod(p, st)
      BY <1>q, <3>2 DEF MovePod, Disturbance
    <3> QED BY <1>2, <3>1, <3>2
  <2>2. WillBeAnswered'
    <3> SUFFICES ASSUME rs # NoRS PROVE rs.replicas = rs.desired
      BY <2>1 DEF WillBeAnswered
    <3> QED BY <1>r, <2>1
  <2>3. PodWritten'
    BY <1>l, <2>1, <2>2, WritesAPod DEF Resting
  <2> QED BY <1>0, <2>1, <2>3 DEF Stage
<1>3. CASE ReceiveRS
  <2>1. RSWritten
    <3>1. rsWatch # <<>>
      BY <1>3 DEF ReceiveRS
    <3> QED BY <1>0, <3>1 DEF Stage, Resting, RSQueued, Creating, Deleting, Posting,
                              PodWritten, PodQueued, NothingSent
  <2>2. Head(rsWatch) = rs /\ Tail(rsWatch) = <<>>
    BY <1>e, <2>1 DEF RSWritten
  <2> DEFINE obj == IF rs = NoRS THEN [rsStore EXCEPT !.desired = 0] ELSE rs
  <2>3. /\ rsWatch' = <<>> /\ rsStore' = rs /\ rsQ' = Append(rsQ, obj)
        /\ UNCHANGED <<rs, pods, podWatch, podStore, podQ, rsResync, podResync, ctl>>
    BY <1>3, <2>1, <2>2, Zenon DEF ReceiveRS, RSWritten
  <2>4. rsQ' = <<obj>>
    BY <1>e, <2>1, <2>3 DEF RSWritten, NothingQueued
  <2>5. Counts(obj, pods) /\ (IF rs = NoRS THEN obj.desired = 0 ELSE obj = rs)
    <3>1. CASE rs = NoRS
      <4>1. Counts(rsStore, pods)
        BY <2>1, <3>1 DEF RSWritten
      <4>2. Counts([rsStore EXCEPT !.desired = 0], pods)
        BY <4>1, CountedWhateverDesired
      <4>3. [rsStore EXCEPT !.desired = 0].desired = 0
        BY <4>1 DEF Counts, Replicas
      <4> QED BY <3>1, <4>2, <4>3
    <3>2. CASE rs # NoRS
      BY <2>1, <3>2 DEF RSWritten
    <3> QED BY <3>1, <3>2
  <2>6. obj \in Replicas /\ Counts(obj, pods')
    BY <2>3, <2>5 DEF Counts, WithStatus, In
  <2>7. RSQueued'
    <3> HIDE DEF obj
    <3> QED BY <2>1, <2>3, <2>4, <2>5, <2>6 DEF RSQueued, RSWritten, NothingSent,
                                                NothingQueued, InStep
  <2> QED BY <1>0, <2>3, <2>7 DEF Stage
<1>4. CASE ReceivePod
  <2>1. PodWritten
    <3>1. podWatch # <<>>
      BY <1>4 DEF ReceivePod
    <3> QED BY <1>0, <3>1 DEF Stage, Resting, RSWritten, RSQueued, Creating, Deleting, Posting,
                              PodQueued, NothingSent
  <2>2. PICK p \in Pod, st \in PodState \cup {"None"} :
               /\ podWatch = <<<<p, st>>>> /\ st # podStore[p]
               /\ pods = [podStore EXCEPT ![p] = st]
    BY <2>1 DEF PodWritten
  <2>3. Head(podWatch)[1] = p /\ Head(podWatch)[2] = st /\ Tail(podWatch) = <<>>
    BY <1>e, <2>2
  <2>4. /\ podWatch' = <<>> /\ podStore' = [podStore EXCEPT ![p] = st] /\ podQ' = podQ + 1
        /\ UNCHANGED <<rs, pods, rsWatch, rsStore, rsQ, rsResync, podResync, ctl>>
    BY <1>4, <2>2, <2>3, Zenon DEF ReceivePod
  <2>5. WillBeAnswered'
    BY <2>1, <2>4 DEF PodWritten, WillBeAnswered, Alive, In
  <2>6. PodQueued'
    BY <2>1, <2>2, <2>4, <2>5 DEF PodQueued, PodWritten, NothingSent, NothingQueued, InStep
  <2> QED BY <1>0, <2>4, <2>6 DEF Stage
<1>5. CASE RelistRS \/ RelistPods
  <2>1. Resting
    BY <1>5, <1>q DEF RelistRS, RelistPods, Disturbance
  <2>2. ~rsResync' /\ ~podResync'
    <3>1. rsStore = rs /\ podStore = pods
      BY <2>1 DEF Resting, InStep
    <3>2. CASE RelistRS
      BY <1>0, <3>1, <3>2, Zenon DEF RelistRS
    <3>3. CASE RelistPods
      BY <1>0, <3>1, <3>3, Zenon DEF RelistPods
    <3> QED BY <1>5, <3>2, <3>3
  <2>3. /\ UNCHANGED <<rs, pods, ctl, rsQ, podQ>>
        /\ rsWatch' = <<>> /\ podWatch' = <<>> /\ rsStore' = rs /\ podStore' = pods
    <3>1. CASE RelistRS
      BY <2>1, <3>1 DEF RelistRS, Resting, InStep, NothingSent
    <3>2. CASE RelistPods
      BY <2>1, <3>2 DEF RelistPods, Resting, InStep, NothingSent
    <3> QED BY <1>5, <3>1, <3>2
  <2>4. Resting'
    BY <2>1, <2>3 DEF Resting, InStep, NothingSent, NothingQueued, Settled, Alive,
                      WithStatus, In
  <2> QED BY <2>2, <2>4 DEF Stage
<1>6. CASE HandleRS
  <2>1. rsQ # <<>> /\ ctl = Idle /\ UNCHANGED <<rsResync, podResync>>
    BY <1>6 DEF HandleRS
  <2>2. RSQueued
    BY <1>0, <2>1 DEF Stage, Resting, RSWritten, Creating, Deleting, Posting,
                      PodWritten, PodQueued, NothingQueued
  <2> QED BY <1>0, <1>6, <2>1, <2>2, ReconcilesInStep DEF Stage
<1>7. CASE HandlePod
  <2>1. podQ > 0 /\ ctl = Idle /\ UNCHANGED <<rsResync, podResync>>
    BY <1>7 DEF HandlePod
  <2>2. PodQueued
    BY <1>0, <2>1 DEF Stage, Resting, RSWritten, RSQueued, Creating, Deleting, Posting,
                      PodWritten, NothingQueued
  <2> QED BY <1>0, <1>7, <2>1, <2>2, CountsInStep DEF Stage
<1>8. CASE ResyncRS \/ ResyncPod
  BY <1>0, <1>8 DEF ResyncRS, ResyncPod
<1>9. CASE PostStatus
  <2>1. /\ ctl.at = "post" /\ ctl' = Idle /\ rs' = ctl.rs /\ rsWatch' = Append(rsWatch, ctl.rs)
        /\ UNCHANGED <<pods, podWatch, storeVars>>
    BY <1>l, <1>9 DEF PostStatus, PutRS
  <2>2. Posting
    BY <1>0, <1>a, <2>1 DEF Stage, Resting, RSWritten, RSQueued, Creating, Deleting,
                            PodWritten, PodQueued
  <2>3. rs \in Replicas /\ rs' = WithStatus(rs, pods) /\ rs' # rs
    BY <1>t, <2>1, <2>2 DEF Posting
  <2>4. rs' \in Replicas /\ WithStatus(rs', pods) = rs'
    BY <2>3, StatusIsTyped, CountedOnce
  <2>5. Counts(rs', pods') /\ rs' # NoRS
    BY <1>t, <2>1, <2>4 DEF Counts, WithStatus, In
  <2>6. rsWatch' = <<rs'>>
    BY <1>e, <2>1, <2>2 DEF Posting, NothingSent
  <2>7. RSWritten'
    BY <2>1, <2>2, <2>3, <2>5, <2>6 DEF RSWritten, Posting, NothingSent, NothingQueued, InStep
  <2> QED BY <1>0, <2>1, <2>7 DEF Stage
<1>10. CASE CreatePod
  <2> DEFINE p == CHOOSE p \in Fresh : TRUE
  <2>1. /\ ctl.at = "create" /\ ctl' = Idle /\ p \in Fresh /\ PutPod(p, "Pending")
        /\ UNCHANGED <<rs, rsWatch, storeVars>>
    BY <1>10 DEF CreatePod
  <2> HIDE DEF p
  <2>2. Creating
    BY <1>0, <1>a, <2>1 DEF Stage, Resting, RSWritten, RSQueued, Deleting, Posting,
                            PodWritten, PodQueued
  <2>3. p \in Pod /\ pods[p] = "None"
    BY <2>1 DEF Fresh
  <2>4. WillBeAnswered'
    <3> SUFFICES ASSUME rs # NoRS PROVE Cardinality(Alive') # rs.replicas
      BY <2>1 DEF WillBeAnswered
    <3>1. Cardinality(Alive') = Cardinality(Alive) + 1
      BY <1>t, <2>1, <2>3, OneMore DEF PutPod, PodState
    <3>2. Counts(rs, pods)
      BY <2>2 DEF Creating
    <3> QED BY <3>1, <3>2, CountedReplicas
  <2>5. PodWritten'
    BY <1>l, <2>1, <2>2, <2>3, <2>4, WritesAPod DEF Creating, PodState
  <2> QED BY <1>0, <2>1, <2>5 DEF Stage
<1>11. CASE DeletePod
  <2>1. /\ ctl.at = "delete" /\ ctl' = Idle
        /\ pods[ctl.pod] # "None" => PutPod(ctl.pod, "None")
        /\ UNCHANGED <<rs, rsWatch, storeVars>>
    BY <1>11 DEF DeletePod
  <2>2. Deleting
    BY <1>0, <1>a, <2>1 DEF Stage, Resting, RSWritten, RSQueued, Creating, Posting,
                            PodWritten, PodQueued
  <2>3. ctl.pod \in Pod /\ pods[ctl.pod] # "None"
    BY <2>1, <2>2 DEF Deleting, IInv, CtlOK
  <2>4. WillBeAnswered'
    <3> SUFFICES ASSUME rs # NoRS PROVE Cardinality(Alive') # rs.replicas
      BY <2>1 DEF WillBeAnswered
    <3>1. Cardinality(Alive') = Cardinality(Alive) - 1
      BY <1>t, <2>1, <2>3, OneLess DEF PutPod
    <3>2. Counts(rs, pods)
      BY <2>2 DEF Deleting
    <3> QED BY <3>1, <3>2, CountedReplicas
  <2>5. PodWritten'
    BY <1>l, <2>1, <2>2, <2>3, <2>4, WritesAPod DEF Deleting
  <2> QED BY <1>0, <2>1, <2>5 DEF Stage
<1>12. CASE RequestFails
  <2>1. Resting /\ ctl.at \in {"post", "create", "delete"}
    BY <1>12, <1>q DEF RequestFails, Disturbance
  <2> QED BY <1>a, <2>1 DEF Resting
<1>13. CASE UNCHANGED vars
  BY <1>0, <1>13 DEF vars, Stage, Resting, RSWritten, RSQueued, Creating, Deleting, Posting,
     PodWritten, PodQueued, NothingSent, NothingQueued, InStep, WillBeAnswered, Settled,
     Counts, WithStatus, Alive, In
<1>14. CASE (\E n \in world.scales : ScaleRead(n)) \/ ScalePut
              \/ \E k \in {"rs", "pod"} : Connect(k)
  <2>1. UNCHANGED <<rs, pods, rsWatch, podWatch, storeVars, ctl>>
    BY <1>l, <1>14 DEF ScaleRead, ScalePut, Connect
  <2> QED BY <1>0, <2>1 DEF Stage, Resting, RSWritten, RSQueued, Creating, Deleting, Posting,
     PodWritten, PodQueued, NothingSent, NothingQueued, InStep, WillBeAnswered, Settled,
     Counts, WithStatus, Alive, In
<1> QED BY <1>1, <1>2, <1>3, <1>4, <1>5, <1>6, <1>7, <1>8, <1>9, <1>10, <1>11, <1>12, <1>13,
           <1>14
        DEF Next, Controller

(* In turn means that nothing is under way.                                *)
LEMMA InTurnIsResting ==
  ASSUME Round, Quiet PROVE Alone /\ Resting
<1>1. Alone
  BY DEF Quiet, Alone
<1>2. ctl.at = "idle" /\ rsWatch = <<>> /\ podWatch = <<>> /\ rsQ = <<>> /\ podQ = 0
  BY DEF Quiet, Idle
<1>3. \A x : <<x>> # <<>>
  OBVIOUS
<1>4. ~RSWritten /\ ~PodWritten /\ ~RSQueued /\ ~PodQueued
  BY <1>2, <1>3 DEF RSWritten, PodWritten, RSQueued, PodQueued
<1>5. ~Creating /\ ~Deleting /\ ~Posting
  BY <1>2 DEF Creating, Deleting, Posting
<1> QED BY <1>1, <1>4, <1>5 DEF Round, Stage, Scaling, Relinking

(* Nothing but the scaling, or a connection, follows on a rest that is not *)
(* quiet.                                                                  *)
LEMMA RestingWaits ==
  ASSUME world.patient, Resting, ~rsResync, ~podResync, ~Alone, [Next]_vars
  PROVE  ScalePut \/ (\E k \in {"rs", "pod"} : Connect(k)) \/ UNCHANGED vars
<1>1. ~Quiet
  BY DEF Quiet, Alone
<1>2. \A d \in Disturbance : ~Disturb(d)
  BY <1>1 DEF Disturb
<1>3. \A n : ~ScaleRead(n)
  BY <1>2 DEF ScaleRead, Disturbance
<1>4. ~DropRS /\ ~RelistRS /\ ~RelistPods /\ ~RequestFails
  BY <1>2 DEF DropRS, RelistRS, RelistPods, RequestFails, Disturbance
<1>5. \A p \in Pod : ~KillPod(p) /\ \A st \in PodState : ~MovePod(p, st)
  BY <1>2 DEF KillPod, MovePod, Disturbance
<1>6. /\ ctl.at = "idle" /\ rsWatch = <<>> /\ podWatch = <<>> /\ rsQ = <<>>
      /\ podQ = 0
  BY DEF Resting, NothingSent, NothingQueued, Idle
<1>7. ~ReceiveRS /\ ~ReceivePod
  BY <1>6 DEF ReceiveRS, ReceivePod
<1>8. ~Controller
  BY <1>6 DEF Controller, HandleRS, HandlePod, ResyncRS, ResyncPod, PostStatus, CreatePod,
             DeletePod
<1> QED BY <1>3, <1>4, <1>5, <1>7, <1>8 DEF Next

LEMMA StepIsCalm == ASSUME IInv, Calm, [Next]_vars PROVE Calm'
<1> USE DEF apiVars, netVars, storeVars, envVars
<1>w. UNCHANGED world
  BY DEF Next, Controller, ScaleRead, ScalePut, DropRS, KillPod, MovePod, ReceiveRS,
     ReceivePod, RelistRS, RelistPods, Connect, HandleRS, HandlePod, ResyncRS, ResyncPod,
     PostStatus, CreatePod, DeletePod, RequestFails, Disturb, vars
<1> SUFFICES ASSUME world.patient PROVE ~rsResync' /\ ~podResync' /\ Round'
  BY <1>w DEF Calm
<1>0. ~rsResync /\ ~podResync /\ Round
  BY DEF Calm
<1>q. ASSUME NEW d \in Disturbance, Disturb(d) PROVE Resting /\ Alone
  BY <1>0, <1>q, InTurnIsResting DEF Disturb
<1>r. Resting /\ UNCHANGED <<rs, pods, rsWatch, podWatch, storeVars, ctl>> => Resting'
  BY DEF Resting, InStep, NothingSent, NothingQueued, Settled, Alive, WithStatus, In
<1>1. CASE Alone /\ Stage
  <2>1. ~rsResync' /\ ~podResync' /\ Stage'
    BY <1>0, <1>1, StageStep
  <2>2. CASE \E n \in world.scales : ScaleRead(n)
    <3>1. PICK n \in world.scales : ScaleRead(n)
      BY <2>2
    <3>2. /\ n \in Nat /\ n # rs.desired /\ rs # NoRS
          /\ scaling' = {[rs EXCEPT !.desired = n]} /\ Resting
          /\ UNCHANGED <<rs, pods, rsWatch, podWatch, linked, storeVars, ctl>>
      BY <1>1, <1>q, <3>1, WorldIsTyped DEF ScaleRead, Disturbance, Alone, IInv, EnvOK
    <3>3. Scaling'
      BY <1>1, <1>r, <3>2 DEF Scaling, Alone
    <3> QED BY <2>1, <3>3 DEF Round
  <2>3. CASE RelistRS \/ RelistPods
    <3>1. Resting /\ UNCHANGED <<rs, pods, scaling, ctl>>
      BY <1>q, <2>3 DEF RelistRS, RelistPods, Disturbance
    <3>2. Resting'
      BY <2>3, <3>1 DEF RelistRS, RelistPods, Resting, InStep, NothingSent, NothingQueued,
                        Settled, Alive, WithStatus, In
    <3> QED BY <1>1, <2>1, <3>1, <3>2 DEF Round, Relinking, Alone
  <2>4. CASE UNCHANGED <<scaling, linked>>
    BY <1>1, <2>1, <2>4 DEF Round, Alone
  <2>5. CASE ScalePut \/ \E k \in {"rs", "pod"} : Connect(k)
    BY <1>1, <2>5 DEF ScalePut, Connect, Alone
  <2> QED BY <2>2, <2>3, <2>4, <2>5 DEF Next, Controller, DropRS, KillPod, MovePod, ReceiveRS,
             ReceivePod, HandleRS, HandlePod, ResyncRS, ResyncPod, PostStatus, CreatePod,
             DeletePod, RequestFails, vars
<1>2. CASE Scaling
  <2>1. PICK n \in Nat : n # rs.desired /\ scaling = {[rs EXCEPT !.desired = n]}
    BY <1>2 DEF Scaling
  <2> DEFINE new == [rs EXCEPT !.desired = n]
  <2>2. Resting /\ rs # NoRS /\ ~Alone /\ linked["rs"] /\ linked["pod"]
    BY <1>2, <2>1 DEF Scaling, Alone
  <2>3. CASE ScalePut
    <3>1. /\ rs' = new /\ rsWatch' = Append(rsWatch, new) /\ scaling' = {}
          /\ UNCHANGED <<pods, podWatch, linked, storeVars, ctl>>
      BY <2>1, <2>2, <2>3 DEF ScalePut, PutRS
    <3>2. Counts(rs, pods)
      BY <2>2 DEF Resting, Settled, Counts, IInv, ApiOK
    <3>3. Counts(new, pods)
      BY <3>2, CountedWhateverDesired
    <3>4. new.desired = n /\ new # rs
      BY <2>1, <3>2 DEF Counts, Replicas
    <3>5. new # NoRS
      BY <3>3, ReplicaSetAssumption DEF Counts
    <3> HIDE DEF new
    <3>6. rsWatch' = <<rs'>> /\ Counts(rs', pods')
      BY <2>2, <3>1, <3>3 DEF Resting, NothingSent, Counts, WithStatus, In
    <3>7. RSWritten'
      BY <2>2, <3>1, <3>4, <3>5, <3>6
         DEF RSWritten, Resting, NothingSent, NothingQueued, InStep
    <3> QED BY <1>0, <2>2, <3>1, <3>7 DEF Round, Alone, Stage
  <2>4. CASE UNCHANGED vars
    BY <1>0, <1>2, <1>r, <2>4 DEF Round, Scaling, vars
  <2>5. ASSUME NEW k \in {"rs", "pod"} PROVE ~Connect(k)
    BY <2>2 DEF Connect
  <2> QED BY <1>0, <2>2, <2>3, <2>4, <2>5, RestingWaits
<1>3. CASE Relinking /\ ~Alone
  <2>1. ~ScalePut
    BY <1>3 DEF ScalePut, Relinking
  <2>2. (\E k \in {"rs", "pod"} : Connect(k)) \/ UNCHANGED vars
    BY <1>0, <1>3, <2>1, RestingWaits DEF Relinking
  <2>3. UNCHANGED <<rs, pods, rsWatch, podWatch, scaling, storeVars, ctl>>
    BY <2>2 DEF Connect, vars
  <2> QED BY <1>0, <1>3, <1>r, <2>3 DEF Round, Relinking
<1> QED BY <1>0, <1>1, <1>2, <1>3 DEF Round, Relinking, Stage


LEMMA ReplicaSetIsCalm == Spec => []Calm
<1>1. Init => Calm
  <2> SUFFICES ASSUME Init PROVE ~rsResync /\ ~podResync /\ RSQueued
    BY DEF Calm, Round, Stage, Alone, Init
  <2>1. rs \in Replicas /\ rs # NoRS
    BY WorldIsTyped, ReplicaSetAssumption DEF Init, Replicas
  <2>2. Counts(rs, pods)
    <3>1. In(pods) = {} /\ {p \in Pod : pods[p] = "Ready"} = {}
      BY DEF Init, In
    <3>2. WithStatus(rs, pods) = [rs EXCEPT !.replicas = 0, !.ready = 0]
      BY <3>1, FS_EmptySet DEF WithStatus
    <3> QED BY <2>1, <3>2 DEF Init, Counts
  <2> QED BY <2>1, <2>2 DEF Init, RSQueued, NothingSent, InStep
<1> QED BY <1>1, StepIsCalm, ReplicaSetInvariant, PTL DEF Spec

(* Where users wait their turn no status update takes back a scaling, nor  *)
(* brings back a ReplicaSet that was deleted, whatever watches are lost.   *)
THEOREM NoScalingIsLost == Spec => ScalingsStand
<1>1. IInv /\ Calm /\ [Next]_vars
        => [world.patient /\ PostStatus => rs # NoRS /\ rs'.desired = rs.desired]_vars
  <2> SUFFICES ASSUME IInv, Calm, world.patient, PostStatus
               PROVE  rs # NoRS /\ rs'.desired = rs.desired
    OBVIOUS
  <2>1. ctl.at = "post" /\ rs' = ctl.rs
    BY DEF PostStatus, PutRS
  <2>2. Posting
    BY <2>1 DEF Calm, Round, Stage, Scaling, Relinking, Resting, RSWritten, RSQueued,
                Creating, Deleting, PodWritten, PodQueued, Idle
  <2>3. rs \in Replicas /\ rs' = WithStatus(rs, pods) /\ rs # NoRS
    BY <2>1, <2>2 DEF Posting, IInv, ApiOK
  <2> QED BY <2>3 DEF WithStatus, Replicas
<1> QED BY <1>1, ReplicaSetIsCalm, ReplicaSetInvariant, PTL DEF Spec, ScalingsStand

(* In a patient world the controller's process survives, whatever watches  *)
(* are lost: a status that counts pods too many counts some, and the store *)
(* it picks a victim from shows them.                                      *)
THEOREM ControllerSurvives == Spec => []NeverCrashes
<1>1. Calm => NeverCrashes
  BY DEF Calm, NeverCrashes, Round, Stage, Scaling, Relinking, Resting, RSWritten, RSQueued, Creating, Deleting,
         Posting, PodWritten, PodQueued, Idle
<1> QED BY <1>1, ReplicaSetIsCalm, PTL

(* In a patient world the controller creates a pod only while fewer exist  *)
(* than desired and deletes one only while more do, although the status it *)
(* compares was carried by an event and the pods have a watch of their own.*)
THEOREM PodsStepTowardDesired == Spec => StepsTowardDesired
<1>1. ASSUME Calm, world.patient, rs # NoRS
      PROVE  /\ CreatePod => Cardinality(Alive) < rs.desired
             /\ DeletePod => Cardinality(Alive) > rs.desired
  <2>1. CASE CreatePod
    <3>1. ctl.at = "create"
      BY <2>1 DEF CreatePod
    <3>2. Creating
      BY <1>1, <3>1 DEF Calm, Round, Stage, Scaling, Relinking, Resting, RSWritten, RSQueued, Deleting, Posting,
                        PodWritten, PodQueued, Idle
    <3>3. Cardinality(Alive) < rs.desired
      BY <1>1, <3>2, CountedReplicas DEF Creating
    <3>4. ~DeletePod
      BY <3>1 DEF DeletePod
    <3> QED BY <3>3, <3>4
  <2>2. CASE DeletePod
    <3>1. ctl.at = "delete"
      BY <2>2 DEF DeletePod
    <3>2. Deleting
      BY <1>1, <3>1 DEF Calm, Round, Stage, Scaling, Relinking, Resting, RSWritten, RSQueued, Creating, Posting,
                        PodWritten, PodQueued, Idle
    <3>3. Cardinality(Alive) > rs.desired
      BY <1>1, <3>2, CountedReplicas DEF Deleting
    <3>4. ~CreatePod
      BY <3>1 DEF CreatePod
    <3> QED BY <3>3, <3>4
  <2> QED BY <2>1, <2>2
<1>2. Calm /\ [Next]_vars
        => [world.patient /\ rs # NoRS =>
             /\ CreatePod => Cardinality(Alive) < rs.desired
             /\ DeletePod => Cardinality(Alive) > rs.desired]_vars
  BY <1>1
<1> QED BY <1>2, ReplicaSetIsCalm, PTL DEF Spec, StepsTowardDesired

(* In a patient world, even one that loses watches, the controller rests   *)
(* only when as many pods exist as are desired and the status in etcd      *)
(* counts them: the safety half of SettlesInTheEnd.                        *)
THEOREM RestsOnlySettled == Spec => [](world.patient /\ Quiet => Settled)
<1>1. Calm => (world.patient /\ Quiet => Settled)
  <2> SUFFICES ASSUME Round, Quiet PROVE Resting
    BY DEF Calm, Resting
  <2> QED BY InTurnIsResting
<1> QED BY <1>1, ReplicaSetIsCalm, PTL
===============================================================================
