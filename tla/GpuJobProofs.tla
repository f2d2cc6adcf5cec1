----------------------------- MODULE GpuJobProofs -----------------------------
(***************************************************************************)
(* Theorems about GpuJob, for any names, capacity, width of the counts and *)
(* any world.                                                              *)
(***************************************************************************)
EXTENDS GpuJob, SequenceTheorems, FiniteSetTheorems, TLAPS

Pods == [Pod -> PodPhase \cup {"None"}]
PodEvent == Pod \X (PodPhase \cup {"None"})

-------------------------------------------------------------------------------
(* What is counted, queued and written has its type.                       *)

LEMMA TailElements ==
  ASSUME NEW S, NEW s \in Seq(S), s # <<>>
  PROVE  /\ Head(s) \in S /\ Head(s) = s[1] /\ 1 \in 1 .. Len(s)
         /\ Tail(s) \in Seq(S)
         /\ Len(s) \in Nat /\ Len(Tail(s)) = Len(s) - 1
         /\ \A i \in 1 .. Len(Tail(s)) : i + 1 \in 1 .. Len(s) /\ Tail(s)[i] = s[i + 1]
BY HeadTailProperties, LenProperties

LEMMA AppendElements ==
  ASSUME NEW S, NEW s \in Seq(S), NEW e \in S
  PROVE  /\ Append(s, e) \in Seq(S)
         /\ Len(s) \in Nat
         /\ Len(Append(s, e)) = Len(s) + 1
         /\ \A i \in 1 .. Len(s) : Append(s, e)[i] = s[i]
         /\ Append(s, e)[Len(s) + 1] = e
BY AppendProperties, LenProperties

LEMMA CountIsNat == ASSUME NEW S \in SUBSET Pod PROVE Cardinality(S) \in Nat
BY GpuJobAssumption, FS_Subset, FS_CardinalityType

LEMMA CountsAreNat ==
  ASSUME NEW store, NEW phases
  PROVE  Cardinality(Being(store, phases)) \in Nat
BY CountIsNat DEF Being

LEMMA StatusIsTyped ==
  ASSUME NEW obj \in Job, NEW store
  PROVE  /\ WithStatus(obj, store) \in Job
         /\ WithStatus(obj, store).template = obj.template
BY CountsAreNat DEF WithStatus, Job, Active

LEMMA WorldIsTyped ==
  ASSUME world \in Worlds
  PROVE  /\ world.first \in SpecOfJob /\ world.patches \subseteq SpecOfJob
         /\ world.names \subseteq Pod
BY GpuJobAssumption DEF World

(* The parts of the state's type, as each action disturbs them; and the    *)
(* controller puts a job, and deletes one of the pods it saw.              *)
ApiOK == /\ job \in Job \cup {NoJob}
         /\ pods \in Pods
         /\ jobWatch \in Seq(Job \cup {NoJob})
         /\ podWatch \in Seq(PodEvent)
LinksOK == /\ linked \in [{"job", "pod"} -> BOOLEAN]
           /\ patching \subseteq Job
           /\ overtaken \in BOOLEAN
StoresOK == /\ jobStore \in Job \cup {NoJob}
            /\ podStore \in Pods
QueuesOK == /\ jobQ \in Seq(Event) /\ Len(jobQ) <= QueueCap
            /\ podQ \in 0 .. QueueCap
            /\ jobResync \in BOOLEAN
            /\ podResync \in BOOLEAN
CtlOK == /\ ctl \in [at : {"idle", "post", "create", "delete", "crashed"},
                     job : Job \cup {NoJob}, pod : Pod \cup {NoPod},
                     lock : {"none", "job", "pod"}]
         /\ ctl.at = "post" => ctl.job \in Job
         /\ ctl.at = "delete" => ctl.pod \in Pod
EnvOK == world \in Worlds /\ env \in [Disturbance -> Nat]

IInv == ApiOK /\ LinksOK /\ StoresOK /\ QueuesOK /\ CtlOK /\ EnvOK

LEMMA TypeParts == IInv => TypeOK
BY DEF IInv, TypeOK, ApiOK, LinksOK, StoresOK, QueuesOK, CtlOK, EnvOK, Pods, PodEvent

LEMMA IdleIsTyped == ctl' = Idle => CtlOK'
BY DEF Idle, CtlOK

LEMMA PostIsTyped ==
  ASSUME NEW obj \in Job, NEW lock \in {"none", "job", "pod"}, Post(obj, lock)
  PROVE  CtlOK'
<1>1. ctl' = [at |-> "post", job |-> obj, pod |-> NoPod, lock |-> lock]
  BY DEF Post, Idle
<1> QED BY <1>1 DEF CtlOK

LEMMA DisturbIsTyped ==
  ASSUME EnvOK, NEW d \in Disturbance, Disturb(d) PROVE EnvOK'
BY DEF EnvOK, Disturb

LEMMA PutJobIsTyped ==
  ASSUME ApiOK, NEW new \in Job \cup {NoJob}, PutJob(new), UNCHANGED <<pods, podWatch>>
  PROVE  ApiOK'
BY AppendProperties DEF ApiOK, PutJob

LEMMA PutPodIsTyped ==
  ASSUME ApiOK, NEW p \in Pod, NEW phase \in PodPhase \cup {"None"}, PutPod(p, phase),
         UNCHANGED <<job, jobWatch>>
  PROVE  ApiOK'
<1>1. <<p, phase>> \in PodEvent
  BY DEF PodEvent
<1>2. podWatch' \in Seq(PodEvent)
  BY <1>1, AppendProperties DEF ApiOK, PutPod
<1> QED BY <1>2 DEF ApiOK, PutPod, Pods

LEMMA UpdateStatusIsTyped ==
  ASSUME CtlOK, StoresOK, jobStore # NoJob, NEW lock \in {"none", "job", "pod"},
         UpdateStatus(jobStore, lock)
  PROVE  CtlOK'
<1>1. WithStatus(jobStore, podStore) \in Job
  BY StatusIsTyped DEF StoresOK
<1>2. CASE UNCHANGED ctl
  BY <1>2 DEF CtlOK
<1>3. CASE Post(WithStatus(jobStore, podStore), lock)
  BY <1>1, <1>3, PostIsTyped
<1> QED BY <1>2, <1>3 DEF UpdateStatus

(* What reconcile may decide.                                              *)
LEMMA Decisions ==
  ASSUME HandleUpdate
  PROVE  /\ ctl = Idle
         /\ \/ ctl' = Idle
            \/ ctl' = [Idle EXCEPT !.at = "create"] /\ Head(jobQ).job.template
            \/ \E p \in Pod : ctl' = [Idle EXCEPT !.at = "delete", !.pod = p]
            \/ ctl' = [Idle EXCEPT !.at = "crashed"]
<1>1. Victims \subseteq Pod
  BY DEF Victims, Active, Being
<1> QED BY <1>1 DEF HandleUpdate

-------------------------------------------------------------------------------
(* The parts hold in every world.                                          *)
LEMMA GpuJobInvariant == Spec => []IInv
<1>1. Init => IInv
  <2> SUFFICES ASSUME Init PROVE IInv
    OBVIOUS
  <2>1. job \in Job /\ job = [spec |-> world.first, template |-> FALSE,
                              active |-> 0, failed |-> 0, succeeded |-> 0]
    BY WorldIsTyped DEF Init, Job
  <2>2. ApiOK /\ StoresOK /\ EnvOK
    BY <2>1 DEF Init, ApiOK, StoresOK, EnvOK, Pods
  <2>5. LinksOK
    BY DEF Init, LinksOK
  <2>3. QueuesOK
    <3>1. [add |-> TRUE, job |-> job] \in Event
      BY <2>1 DEF Event
    <3>2. <<[add |-> TRUE, job |-> job]>> \in Seq(Event)
      BY <3>1
    <3>3. 0 \in 0 .. QueueCap /\ 1 <= QueueCap
      BY GpuJobAssumption
    <3>4. /\ jobQ = <<[add |-> TRUE, job |-> job]>> /\ podQ = 0
          /\ jobResync = FALSE /\ podResync = FALSE
      BY DEF Init
    <3>5. Len(jobQ) = 1
      BY <3>4
    <3> QED BY <3>2, <3>3, <3>4, <3>5, Zenon DEF QueuesOK
  <2>4. CtlOK
    BY DEF Init, CtlOK, Idle
  <2> QED BY <2>2, <2>3, <2>4, <2>5 DEF IInv
<1>2. IInv /\ [Next]_vars => IInv'
  <2> SUFFICES ASSUME IInv, [Next]_vars
               PROVE  ApiOK' /\ LinksOK' /\ StoresOK' /\ QueuesOK' /\ CtlOK' /\ EnvOK'
    BY DEF IInv
  <2> USE DEF apiVars, patchVars, storeVars, envVars
  <2>0. ApiOK /\ LinksOK /\ StoresOK /\ QueuesOK /\ CtlOK /\ EnvOK
    BY DEF IInv
  <2>e. ASSUME NEW d \in Disturbance, Disturb(d) PROVE EnvOK'
    BY <2>0, <2>e, DisturbIsTyped
  <2>s. UNCHANGED storeVars => StoresOK' /\ QueuesOK'
    BY <2>0 DEF StoresOK, QueuesOK
  <2>a. UNCHANGED apiVars => ApiOK' /\ LinksOK'
    BY <2>0 DEF ApiOK, LinksOK
  <2>l. UNCHANGED <<linked, patchVars>> => LinksOK'
    BY <2>0 DEF LinksOK
  <2>c. UNCHANGED ctl => CtlOK'
    BY <2>0 DEF CtlOK
  <2>w. UNCHANGED envVars => EnvOK'
    BY <2>0 DEF EnvOK
  <2>1. CASE (\E spec \in world.patches : PatchRead(spec)) \/ PatchPut
    <3>1. CASE \E spec \in world.patches : PatchRead(spec)
      <4>1. PICK spec \in world.patches : PatchRead(spec)
        BY <3>1
      <4>2. [job EXCEPT !.spec = spec] \in Job
        BY <2>0, <4>1, WorldIsTyped DEF PatchRead, ApiOK, EnvOK, Job
      <4>3. /\ UNCHANGED <<job, pods, jobWatch, podWatch, linked, overtaken, storeVars, ctl>>
            /\ patching' = patching \cup {[job EXCEPT !.spec = spec]}
            /\ Disturb("patch")
        BY <4>1 DEF PatchRead
      <4>4. ApiOK' /\ LinksOK'
        BY <2>0, <4>2, <4>3 DEF ApiOK, LinksOK
      <4> QED BY <4>3, <4>4, <2>s, <2>c, <2>e DEF Disturbance
    <3>2. CASE PatchPut
      <4>1. PICK new \in patching :
              /\ PutJob(new)
              /\ patching' = patching \ {new}
              /\ overtaken' = (overtaken \/ (~new.template /\ (job = NoJob \/ job.template)))
              /\ UNCHANGED <<pods, podWatch, linked, storeVars, ctl, envVars>>
        BY <3>2 DEF PatchPut
      <4>2. new \in Job /\ LinksOK'
        BY <2>0, <4>1 DEF LinksOK
      <4>3. ApiOK'
        BY <2>0, <4>1, <4>2, PutJobIsTyped
      <4> QED BY <4>1, <4>2, <4>3, <2>s, <2>c, <2>w
    <3> QED BY <2>1, <3>1, <3>2
  <2>2. CASE DropJob
    BY <2>0, <2>2, <2>s, <2>l, <2>c, <2>e, PutJobIsTyped DEF DropJob, Disturbance
  <2>3. ASSUME NEW p \in Pod, KillPod(p) \/ Break(p) PROVE ApiOK'
    BY <2>0, <2>3, PutPodIsTyped DEF KillPod, Break, PodPhase
  <2>4. ASSUME NEW p \in Pod, Progress(p) PROVE ApiOK'
    <3>1. PICK phase \in {"Running", "Succeeded"} : PutPod(p, phase)
      BY <2>4 DEF Progress
    <3> QED BY <2>0, <2>4, <3>1, PutPodIsTyped DEF Progress, PodPhase
  <2>5. CASE \E p \in Pod : KillPod(p) \/ Break(p)
    <3>1. ApiOK'
      BY <2>3, <2>5
    <3>2. /\ UNCHANGED <<linked, patchVars, storeVars, ctl>>
          /\ \E d \in Disturbance : Disturb(d)
      BY <2>5 DEF KillPod, Break, Disturbance
    <3> QED BY <3>1, <3>2, <2>s, <2>l, <2>c, <2>e
  <2>6. CASE \E p \in Pod : Progress(p)
    <3>1. UNCHANGED <<linked, patchVars, storeVars, ctl, envVars>>
      BY <2>6 DEF Progress
    <3> QED BY <2>4, <2>6, <3>1, <2>s, <2>l, <2>c, <2>w
  <2>7. CASE ReceiveJob
    <3>1. /\ Head(jobWatch) \in Job \cup {NoJob}
          /\ Tail(jobWatch) \in Seq(Job \cup {NoJob})
      BY <2>0, <2>7, TailElements DEF ReceiveJob, ApiOK
    <3>2. ApiOK' /\ StoresOK'
      BY <2>0, <2>7, <3>1 DEF ReceiveJob, ApiOK, StoresOK
    <3>3. UNCHANGED <<podQ, jobResync, podResync>>
      BY <2>7 DEF ReceiveJob
    <3>4. ASSUME UNCHANGED jobQ PROVE QueuesOK'
      BY <2>0, <3>3, <3>4 DEF QueuesOK
    <3>5. ASSUME Head(jobWatch) # jobStore PROVE QueuesOK'
      <4>1. Told(jobStore, Head(jobWatch)) \in Event
        <5>1. CASE Head(jobWatch) = NoJob
          <6>1. [jobStore EXCEPT !.spec.parallelism = 0] \in Job
            BY <2>0, <3>5, <5>1, GpuJobAssumption DEF StoresOK, Job, SpecOfJob
          <6> QED BY <5>1, <6>1 DEF Told, Event
        <5>2. CASE Head(jobWatch) # NoJob
          BY <3>1, <5>2 DEF Told, Event
        <5> QED BY <5>1, <5>2
      <4>2. jobQ' = Append(jobQ, Told(jobStore, Head(jobWatch))) /\ Len(jobQ) < QueueCap
        BY <2>7, <3>5 DEF ReceiveJob
      <4>3. jobQ' \in Seq(Event) /\ Len(jobQ') <= QueueCap
        BY <2>0, <4>1, <4>2, AppendElements, GpuJobAssumption DEF QueuesOK
      <4> QED BY <2>0, <3>3, <4>3 DEF QueuesOK
    <3>6. QueuesOK'
      BY <2>7, <3>4, <3>5 DEF ReceiveJob
    <3> QED BY <2>7, <3>2, <3>6, <2>l, <2>c, <2>w DEF ReceiveJob
  <2>8. CASE ReceivePod
    <3>1. Head(podWatch) \in PodEvent /\ Tail(podWatch) \in Seq(PodEvent)
      BY <2>0, <2>8, TailElements DEF ReceivePod, ApiOK
    <3>2. ApiOK' /\ StoresOK'
      BY <2>0, <2>8, <3>1 DEF ReceivePod, ApiOK, StoresOK, Pods, PodEvent
    <3>3. podQ' \in 0 .. QueueCap
      BY <2>0, <2>8, GpuJobAssumption DEF ReceivePod, QueuesOK
    <3>4. QueuesOK'
      BY <2>0, <2>8, <3>3 DEF ReceivePod, QueuesOK
    <3> QED BY <2>8, <3>2, <3>4, <2>l, <2>c, <2>w DEF ReceivePod
  <2>9. CASE RelistJobs
    <3>1. ApiOK' /\ LinksOK' /\ StoresOK' /\ QueuesOK'
      BY <2>0, <2>9 DEF RelistJobs, ApiOK, LinksOK, StoresOK, QueuesOK
    <3> QED BY <2>9, <3>1, <2>c, <2>e DEF RelistJobs, Disturbance
  <2>10. CASE RelistPods
    <3>1. ApiOK' /\ LinksOK' /\ StoresOK' /\ QueuesOK'
      BY <2>0, <2>10 DEF RelistPods, ApiOK, LinksOK, StoresOK, QueuesOK
    <3> QED BY <2>10, <3>1, <2>c, <2>e DEF RelistPods, Disturbance
  <2>11. CASE HandleAdd \/ HandleUpdate
    <3>1. jobQ # <<>> /\ jobQ' = Tail(jobQ)
          /\ UNCHANGED <<apiVars, jobStore, podStore, podQ, jobResync, podResync, envVars>>
      BY <2>11 DEF HandleAdd, HandleUpdate
    <3>2. /\ jobQ' \in Seq(Event) /\ Head(jobQ) \in Event
          /\ Len(jobQ') = Len(jobQ) - 1 /\ Len(jobQ) \in Nat
      BY <2>0, <3>1, TailElements DEF QueuesOK
    <3>3. StoresOK' /\ QueuesOK'
      BY <2>0, <3>1, <3>2, GpuJobAssumption DEF StoresOK, QueuesOK
    <3>4. CtlOK'
      <4>1. CASE HandleAdd
        <5>1. [Head(jobQ).job EXCEPT !.template = TRUE] \in Job
          BY <3>2 DEF Event, Job
        <5> QED BY <4>1, <5>1, PostIsTyped DEF HandleAdd
      <4>2. CASE HandleUpdate
        <5>1. CASE \E p \in Pod : ctl' = [Idle EXCEPT !.at = "delete", !.pod = p]
          <6>1. PICK p \in Pod : ctl' = [Idle EXCEPT !.at = "delete", !.pod = p]
            BY <5>1
          <6> QED BY <6>1 DEF CtlOK, Idle
        <5>2. CASE ctl' = Idle \/ \E at \in {"create", "crashed"} : ctl' = [Idle EXCEPT !.at = at]
          BY <5>2 DEF CtlOK, Idle
        <5> QED BY <4>2, <5>1, <5>2, Decisions
      <4> QED BY <2>11, <4>1, <4>2
    <3> QED BY <3>1, <3>3, <3>4, <2>a, <2>w
  <2>12. CASE HandlePod \/ ResyncJob \/ ResyncPod
    <3>1. StoresOK' /\ QueuesOK'
      <4>1. UNCHANGED <<jobStore, podStore, jobQ>>
        BY <2>12 DEF HandlePod, ResyncJob, ResyncPod
      <4>2. podQ' = podQ \/ (podQ > 0 /\ podQ' = podQ - 1)
        BY <2>12 DEF HandlePod, ResyncJob, ResyncPod
      <4>3. podQ' \in 0 .. QueueCap
        BY <2>0, <4>2, GpuJobAssumption DEF QueuesOK
      <4>4. jobResync' \in BOOLEAN /\ podResync' \in BOOLEAN
        BY <2>0, <2>12 DEF HandlePod, ResyncJob, ResyncPod, QueuesOK
      <4> QED BY <2>0, <4>1, <4>3, <4>4 DEF StoresOK, QueuesOK
    <3>2. \/ UNCHANGED ctl
          \/ jobStore # NoJob /\ \E lock \in {"none", "job", "pod"} : UpdateStatus(jobStore, lock)
      BY <2>12 DEF HandlePod, ResyncJob, ResyncPod
    <3>3. CtlOK'
      BY <2>0, <3>2, <2>c, UpdateStatusIsTyped
    <3> QED BY <2>12, <3>1, <3>3, <2>a, <2>w DEF HandlePod, ResyncJob, ResyncPod
  <2>13. CASE PostStatus
    <3>1. ctl.job \in Job
      BY <2>0, <2>13 DEF CtlOK, PostStatus
    <3> QED BY <2>0, <2>13, <3>1, <2>s, <2>l, <2>w, PutJobIsTyped, IdleIsTyped
            DEF PostStatus
  <2>14. CASE CreatePod
    <3>1. (CHOOSE p \in Fresh : TRUE) \in Pod
      BY <2>0, <2>14, WorldIsTyped DEF CreatePod, Fresh, EnvOK
    <3> QED BY <2>0, <2>14, <3>1, <2>s, <2>l, <2>w, PutPodIsTyped, IdleIsTyped
            DEF CreatePod, PodPhase
  <2>15. CASE DeletePod
    <3>1. ctl' = Idle /\ UNCHANGED <<job, jobWatch, linked, patchVars, storeVars, envVars>>
      BY <2>15 DEF DeletePod
    <3>2. CASE pods[ctl.pod] = "None"
      BY <2>15, <3>1, <3>2, <2>s, <2>w, <2>a, IdleIsTyped DEF DeletePod
    <3>3. CASE pods[ctl.pod] # "None"
      <4>1. ctl.pod \in Pod /\ PutPod(ctl.pod, "None")
        BY <2>0, <2>15, <3>3 DEF DeletePod, CtlOK
      <4> QED BY <2>0, <3>1, <4>1, <2>s, <2>l, <2>w, PutPodIsTyped, IdleIsTyped
    <3> QED BY <3>2, <3>3
  <2>16. CASE RequestFails
    BY <2>16, <2>s, <2>a, <2>e, IdleIsTyped DEF RequestFails, Disturbance
  <2>17. CASE UNCHANGED vars
    BY <2>17, <2>s, <2>a, <2>c, <2>w DEF vars
  <2>18. CASE \E k \in {"job", "pod"} : Connect(k)
    <3>1. PICK k \in {"job", "pod"} : Connect(k)
      BY <2>18
    <3>2. ApiOK' /\ LinksOK'
      BY <2>0, <3>1 DEF Connect, ApiOK, LinksOK
    <3> QED BY <3>1, <3>2, <2>s, <2>c, <2>w DEF Connect
  <2> QED
    BY <2>1, <2>2, <2>5, <2>6, <2>7, <2>8, <2>9, <2>10, <2>11, <2>12, <2>13, <2>14,
       <2>15, <2>16, <2>17, <2>18
       DEF Next, Controller
<1> QED BY <1>1, <1>2, PTL DEF Spec

(* In every world the controller's state has its type; in particular no    *)
(* more events are queued than the channels hold.                          *)
THEOREM GpuJobTypeCorrect == Spec => []TypeOK
BY GpuJobInvariant, TypeParts, PTL

-------------------------------------------------------------------------------
(* The template.                                                           *)

(* A job whose template has not been built, and one nothing was counted of.*)
Bare(obj) == obj # NoJob /\ ~obj.template
New(obj) == obj.active = 0 /\ obj.failed = 0 /\ obj.succeeded = 0

(* What was written before the template is seen before it.                 *)
BareComesFirst ==
  /\ \A i \in 1 .. Len(jobWatch) :
       Bare(jobWatch[i]) => /\ Bare(jobStore) /\ New(jobWatch[i])
                            /\ \A j \in 1 .. i - 1 : Bare(jobWatch[j])
  /\ Bare(job) => /\ Bare(jobStore) /\ New(job)
                  /\ \A i \in 1 .. Len(jobWatch) : Bare(jobWatch[i])

(* While the store has no template there is no pod and has been none, and  *)
(* no event that would have one created.                                   *)
NothingYet ==
  Bare(jobStore) =>
    /\ New(jobStore)
    /\ \A p \in Pod : pods[p] = "None" /\ podStore[p] = "None"
    /\ podWatch = <<>>
    /\ ctl.at # "create"
    /\ \A i \in 1 .. Len(jobQ) : ~jobQ[i].job.template

(* So the controller puts nothing before the template, or without it.      *)
PutsTheTemplate == ctl.at = "post" => ctl.job.template

(* A patch that has read a job without a template has read a new one.      *)
PatchesAreNew == \A new \in patching : Bare(new) => New(new)

TInv == BareComesFirst /\ NothingYet /\ PutsTheTemplate /\ PatchesAreNew

(* A write of the job that adds no template-less job to those there were.  *)
LEMMA PutKeepsOrder ==
  ASSUME ApiOK, BareComesFirst, NEW new \in Job \cup {NoJob}, PutJob(new),
         UNCHANGED jobStore, Bare(new) => Bare(job) /\ New(new)
  PROVE  BareComesFirst'
<1> DEFINE n == Len(jobWatch)
<1>2. job' = new
  BY DEF PutJob
<1>5. CASE jobWatch' = jobWatch
  BY <1>2, <1>5 DEF BareComesFirst, Bare, New
<1> SUFFICES ASSUME jobWatch' = Append(jobWatch, new) PROVE BareComesFirst'
  BY <1>5 DEF PutJob
<1>1. /\ n \in Nat /\ Len(jobWatch') = n + 1
      /\ \A i \in 1 .. n : jobWatch'[i] = jobWatch[i]
      /\ jobWatch'[n + 1] = new
  BY AppendElements DEF ApiOK, PutJob
<1>3. Bare(new) => /\ Bare(jobStore) /\ New(new)
                   /\ \A i \in 1 .. n + 1 : Bare(jobWatch'[i])
  BY <1>1 DEF BareComesFirst
<1>4. ASSUME NEW i \in 1 .. n + 1, Bare(jobWatch'[i])
      PROVE  /\ Bare(jobStore) /\ New(jobWatch'[i])
             /\ \A j \in 1 .. i - 1 : Bare(jobWatch'[j])
  <2>1. CASE i = n + 1
    BY <1>1, <1>3, <1>4, <2>1
  <2>2. CASE i \in 1 .. n
    BY <1>1, <1>4, <2>2 DEF BareComesFirst
  <2> QED BY <1>1, <2>1, <2>2
<1> HIDE DEF n
<1> QED BY <1>1, <1>2, <1>3, <1>4 DEF BareComesFirst, Bare, New

(* A count of no pods leaves a job that is new as it is: nothing to post.  *)
LEMMA NothingToPost ==
  ASSUME IInv, NothingYet, Bare(jobStore)
  PROVE  WithStatus(jobStore, podStore) = jobStore
<1>1. jobStore \in Job /\ New(jobStore)
  BY DEF IInv, StoresOK, NothingYet, Bare
<1>2. \A phases \in SUBSET PodPhase : Being(podStore, phases) = {}
  BY DEF NothingYet, Being, PodPhase
<1>3. /\ Active(podStore) = {}
      /\ Being(podStore, {"Failed"}) = {}
      /\ Being(podStore, {"Succeeded"}) = {}
  BY <1>2 DEF Active, PodPhase
<1> QED BY <1>1, <1>3, FS_EmptySet DEF WithStatus, New, Job

(* A handler that counts posts only if there is a template.                *)
LEMMA StatusHasTemplate ==
  ASSUME IInv, TInv, jobStore # NoJob, NEW lock, UpdateStatus(jobStore, lock)
  PROVE  /\ PutsTheTemplate'
         /\ Bare(jobStore) => UNCHANGED ctl
<1>1. jobStore \in Job
  BY DEF IInv, StoresOK
<1>2. CASE UNCHANGED ctl
  BY <1>2 DEF TInv, PutsTheTemplate
<1>3. CASE /\ WithStatus(jobStore, podStore) # jobStore
           /\ Post(WithStatus(jobStore, podStore), lock)
  <2>1. ~Bare(jobStore)
    BY <1>3, NothingToPost DEF TInv
  <2>2. ctl'.job = WithStatus(jobStore, podStore)
    BY <1>3 DEF Post, Idle
  <2> QED BY <1>1, <2>1, <2>2, StatusIsTyped DEF PutsTheTemplate, Bare
<1> QED BY <1>2, <1>3 DEF UpdateStatus

(* What has overtaken the template stays so.                               *)
LEMMA OvertakenOnce == ASSUME IInv, [Next]_vars, ~overtaken' PROVE ~overtaken
<1> USE DEF apiVars, patchVars
<1>1. CASE PatchPut
  BY <1>1 DEF PatchPut
<1>2. CASE UNCHANGED overtaken
  BY <1>2
<1> QED BY <1>1, <1>2 DEF Next, Controller, PatchRead, DropJob, KillPod, Progress, Break,
           ReceiveJob, ReceivePod, RelistJobs, RelistPods, Connect, HandleAdd, HandleUpdate,
           HandlePod, ResyncJob, ResyncPod, PostStatus, CreatePod, DeletePod, RequestFails,
           vars

(* Whatever happens, the template comes first, until a patch overtakes it. *)
LEMMA TemplateInvariant == Spec => [](IInv /\ (~overtaken => TInv))
<1>1. Init => TInv
  <2> SUFFICES ASSUME Init PROVE TInv
    OBVIOUS
  <2>1. /\ job.template = FALSE /\ New(job) /\ jobStore = job /\ patching = {}
        /\ jobWatch = <<>> /\ podWatch = <<>> /\ ctl.at = "idle"
        /\ \A p \in Pod : pods[p] = "None" /\ podStore[p] = "None"
    BY DEF Init, New, Idle
  <2> QED BY <2>1, GpuJobAssumption
          DEF Init, TInv, BareComesFirst, NothingYet, PutsTheTemplate, PatchesAreNew,
              New
<1>2. IInv /\ (~overtaken => TInv) /\ [Next]_vars => (~overtaken' => TInv')
  <2> SUFFICES ASSUME IInv, ~overtaken => TInv, [Next]_vars, ~overtaken'
               PROVE  BareComesFirst' /\ NothingYet' /\ PutsTheTemplate' /\ PatchesAreNew'
    BY DEF TInv
  <2> USE DEF apiVars, patchVars, storeVars, envVars
  <2>00. TInv
    BY OvertakenOnce
  <2>0. /\ ApiOK /\ LinksOK /\ QueuesOK /\ CtlOK
        /\ BareComesFirst /\ NothingYet /\ PutsTheTemplate /\ PatchesAreNew
    BY <2>00 DEF IInv, TInv
  <2>n. UNCHANGED patching => PatchesAreNew'
    BY <2>0 DEF PatchesAreNew
  <2>p. UNCHANGED ctl \/ ctl'.at # "post" => PutsTheTemplate'
    BY <2>0 DEF PutsTheTemplate
  <2>o. UNCHANGED <<job, jobWatch, jobStore>> => BareComesFirst'
    BY <2>0 DEF BareComesFirst
  <2>y. UNCHANGED <<jobStore, pods, podStore, podWatch, jobQ>>
          /\ (UNCHANGED ctl \/ ctl'.at # "create") => NothingYet'
    BY <2>0 DEF NothingYet
  <2>v. UNCHANGED jobStore /\ ~Bare(jobStore) => NothingYet'
    BY DEF NothingYet, Bare
  <2>1. CASE \E spec \in world.patches : PatchRead(spec)
    <3>1. PICK spec \in world.patches : PatchRead(spec)
      BY <2>1
    <3>2. job \in Job
      BY <2>0, <3>1 DEF ApiOK, PatchRead
    <3> DEFINE new == [job EXCEPT !.spec = spec]
    <3>3. Bare(new) => New(new)
      BY <2>0, <3>1, <3>2 DEF Bare, New, Job, BareComesFirst, PatchRead
    <3>4. /\ UNCHANGED <<job, pods, jobWatch, podWatch, storeVars, ctl>>
          /\ patching' = patching \cup {new}
      BY <3>1 DEF PatchRead
    <3> HIDE DEF new
    <3>5. PatchesAreNew'
      BY <2>0, <3>3, <3>4 DEF PatchesAreNew
    <3> QED BY <3>4, <3>5, <2>p, <2>o, <2>y
  <2>15. CASE PatchPut
    <3>1. PICK new \in patching :
            /\ PutJob(new)
            /\ patching' = patching \ {new}
            /\ overtaken' = (overtaken \/ (~new.template /\ (job = NoJob \/ job.template)))
            /\ UNCHANGED <<pods, podWatch, linked, storeVars, ctl, envVars>>
      BY <2>15 DEF PatchPut
    <3>2. new \in Job /\ (Bare(new) => Bare(job) /\ New(new))
      BY <2>0, <3>1 DEF LinksOK, PatchesAreNew, Bare
    <3>3. BareComesFirst'
      BY <2>0, <3>1, <3>2, PutKeepsOrder
    <3>4. PatchesAreNew'
      BY <2>0, <3>1 DEF PatchesAreNew
    <3> QED BY <3>1, <3>3, <3>4, <2>p, <2>y
  <2>2. CASE DropJob
    <3>1. PutJob(NoJob) /\ UNCHANGED <<pods, podWatch, patching, storeVars, ctl>>
      BY <2>2 DEF DropJob
    <3>2. BareComesFirst'
      BY <2>0, <3>1, PutKeepsOrder DEF Bare
    <3> QED BY <3>1, <3>2, <2>p, <2>y, <2>n
  <2>3. CASE \E p \in Pod : KillPod(p) \/ Progress(p) \/ Break(p)
    <3>1. PICK p \in Pod : KillPod(p) \/ Progress(p) \/ Break(p)
      BY <2>3
    <3>2. pods[p] # "None"
      BY <3>1 DEF KillPod, Progress, Break, Active, Being
    <3>3. UNCHANGED <<job, jobWatch, patching, storeVars, ctl>>
      BY <3>1 DEF KillPod, Progress, Break
    <3>4. ~Bare(jobStore)
      BY <2>0, <3>2 DEF NothingYet
    <3> QED BY <3>3, <3>4, <2>p, <2>o, <2>v, <2>n
  <2>4. CASE ReceiveJob
    <3> DEFINE new == Head(jobWatch)
    <3>1. /\ jobWatch' = Tail(jobWatch) /\ jobStore' = new
          /\ UNCHANGED <<job, pods, podWatch, patching, podStore, ctl>>
      BY <2>4 DEF ReceiveJob
    <3>2. /\ new = jobWatch[1] /\ 1 \in 1 .. Len(jobWatch)
          /\ Len(jobWatch) \in Nat /\ Len(jobWatch') = Len(jobWatch) - 1
          /\ \A i \in 1 .. Len(jobWatch') :
               i + 1 \in 1 .. Len(jobWatch) /\ jobWatch'[i] = jobWatch[i + 1]
      BY <2>0, <2>4, <3>1, TailElements DEF ReceiveJob, ApiOK
    <3> HIDE DEF new
    <3>3. BareComesFirst'
      <4>1. ASSUME NEW i \in 1 .. Len(jobWatch'), Bare(jobWatch'[i])
            PROVE  /\ Bare(new) /\ New(jobWatch'[i])
                   /\ \A j \in 1 .. i - 1 : Bare(jobWatch'[j])
        <5>1. /\ New(jobWatch[i + 1])
              /\ \A j \in 1 .. i : Bare(jobWatch[j])
          BY <2>0, <3>2, <4>1 DEF BareComesFirst
        <5>2. 1 \in 1 .. i /\ \A j \in 1 .. i - 1 : j + 1 \in 1 .. i /\ j \in 1 .. Len(jobWatch')
          BY <3>2
        <5> QED BY <3>2, <5>1, <5>2
      <4>2. Bare(job) => /\ Bare(new) /\ New(job)
                         /\ \A i \in 1 .. Len(jobWatch') : Bare(jobWatch'[i])
        BY <2>0, <3>2 DEF BareComesFirst
      <4> QED BY <3>1, <4>1, <4>2 DEF BareComesFirst, Bare, New
    <3>4. ASSUME Bare(new) PROVE NothingYet'
      <4>1. Bare(jobStore) /\ New(new)
        BY <2>0, <3>2, <3>4 DEF BareComesFirst
      <4>2. Told(jobStore, new).job = new /\ ~new.template
        BY <3>4 DEF Told, Bare
      <4>3. jobQ' = jobQ \/ jobQ' = Append(jobQ, Told(jobStore, new))
        BY <2>4 DEF ReceiveJob, new
      <4>4. \A i \in 1 .. Len(jobQ') : ~jobQ'[i].job.template
        <5>1. CASE jobQ' = jobQ
          BY <2>0, <4>1, <5>1 DEF NothingYet
        <5>2. CASE jobQ' = Append(jobQ, Told(jobStore, new))
          <6>1. jobQ \in Seq(Event) /\ Len(jobQ) \in Nat
            BY <2>0, LenProperties DEF QueuesOK
          <6>2. /\ Len(jobQ') = Len(jobQ) + 1
                /\ \A i \in 1 .. Len(jobQ) : jobQ'[i] = jobQ[i]
                /\ jobQ'[Len(jobQ) + 1] = Told(jobStore, new)
            BY <5>2, <6>1
          <6> QED BY <2>0, <4>1, <4>2, <6>1, <6>2 DEF NothingYet
        <5> QED BY <4>3, <5>1, <5>2
      <4> QED BY <2>0, <3>1, <4>1, <4>4 DEF NothingYet, New
    <3>5. NothingYet'
      BY <3>1, <3>4 DEF NothingYet, Bare
    <3> QED BY <3>1, <3>3, <3>5, <2>p, <2>n
  <2>5. CASE ReceivePod
    <3>1. podWatch # <<>> /\ UNCHANGED <<job, jobWatch, patching, jobStore, ctl>>
      BY <2>5 DEF ReceivePod
    <3>2. ~Bare(jobStore)
      BY <2>0, <3>1 DEF NothingYet
    <3> QED BY <3>1, <3>2, <2>p, <2>o, <2>v, <2>n
  <2>6. CASE RelistJobs
    <3>1. /\ jobWatch' = <<>> /\ jobStore' = job
          /\ UNCHANGED <<job, pods, podWatch, patching, podStore, jobQ, ctl>>
      BY <2>6 DEF RelistJobs
    <3>2. Bare(job) => Bare(jobStore) /\ New(job)
      BY <2>0 DEF BareComesFirst
    <3>3. BareComesFirst'
      BY <3>1, <3>2 DEF BareComesFirst, Bare, New
    <3>4. NothingYet'
      BY <2>0, <3>1, <3>2 DEF NothingYet, Bare, New
    <3> QED BY <3>1, <3>3, <3>4, <2>p, <2>n
  <2>7. CASE RelistPods
    <3>1. /\ podWatch' = <<>> /\ podStore' = pods
          /\ UNCHANGED <<job, pods, jobWatch, patching, jobStore, jobQ, ctl>>
      BY <2>7 DEF RelistPods
    <3> QED BY <2>0, <3>1, <2>p, <2>o, <2>n DEF NothingYet
  <2>8. CASE HandleAdd \/ HandleUpdate
    <3>1. /\ jobQ # <<>> /\ jobQ' = Tail(jobQ)
          /\ UNCHANGED <<job, pods, jobWatch, podWatch, patching, jobStore, podStore>>
      BY <2>8 DEF HandleAdd, HandleUpdate
    <3>2. /\ Head(jobQ) \in Event /\ Head(jobQ) = jobQ[1] /\ 1 \in 1 .. Len(jobQ)
          /\ \A i \in 1 .. Len(jobQ') : i + 1 \in 1 .. Len(jobQ) /\ jobQ'[i] = jobQ[i + 1]
      BY <2>0, <3>1, TailElements DEF QueuesOK
    <3>3. PutsTheTemplate' /\ (Bare(jobStore) => ctl'.at # "create")
      <4>1. CASE HandleAdd
        <5>1. ctl'.at = "post" /\ ctl'.job = [Head(jobQ).job EXCEPT !.template = TRUE]
          BY <4>1 DEF HandleAdd, Post, Idle
        <5> QED BY <3>2, <5>1 DEF PutsTheTemplate, Event, Job
      <4>2. CASE HandleUpdate
        <5>1. ctl'.at # "post" /\ (ctl'.at = "create" => jobQ[1].job.template)
          <6>1. CASE \E p \in Pod : ctl' = [Idle EXCEPT !.at = "delete", !.pod = p]
            <7>1. PICK p \in Pod : ctl' = [Idle EXCEPT !.at = "delete", !.pod = p]
              BY <6>1
            <7> QED BY <7>1 DEF Idle
          <6>2. CASE ctl' = Idle \/ ctl' = [Idle EXCEPT !.at = "crashed"]
            BY <6>2 DEF Idle
          <6>3. CASE ctl' = [Idle EXCEPT !.at = "create"] /\ Head(jobQ).job.template
            BY <3>2, <6>3 DEF Idle
          <6> QED BY <4>2, <6>1, <6>2, <6>3, Decisions
        <5> QED BY <2>0, <3>2, <5>1 DEF PutsTheTemplate, NothingYet
      <4> QED BY <2>8, <4>1, <4>2
    <3>4. NothingYet'
      BY <2>0, <3>1, <3>2, <3>3 DEF NothingYet, Bare, New
    <3> QED BY <3>1, <3>3, <3>4, <2>o, <2>n
  <2>9. CASE HandlePod \/ ResyncJob \/ ResyncPod
    <3>1. UNCHANGED <<apiVars, jobStore, podStore, jobQ>>
      BY <2>9 DEF HandlePod, ResyncJob, ResyncPod
    <3>2. UNCHANGED ctl \/ (jobStore # NoJob /\ \E lock : UpdateStatus(jobStore, lock))
      BY <2>9 DEF HandlePod, ResyncJob, ResyncPod
    <3>3. PutsTheTemplate' /\ (Bare(jobStore) => UNCHANGED ctl)
      BY <2>00, <3>2, <2>p, StatusHasTemplate
    <3> QED BY <3>1, <3>3, <2>o, <2>y, <2>v, <2>n
  <2>10. CASE PostStatus
    <3>1. /\ PutJob(ctl.job) /\ ctl.at = "post" /\ ctl' = Idle
          /\ UNCHANGED <<pods, podWatch, patching, storeVars>>
      BY <2>10 DEF PostStatus
    <3>2. ctl.job \in Job /\ ~Bare(ctl.job)
      BY <2>0, <3>1 DEF CtlOK, PutsTheTemplate, Bare
    <3>3. BareComesFirst'
      BY <2>0, <3>1, <3>2, PutKeepsOrder
    <3> QED BY <3>1, <3>3, <2>p, <2>y, <2>n DEF Idle
  <2>11. CASE CreatePod
    <3>1. ctl.at = "create" /\ ctl' = Idle /\ UNCHANGED <<job, jobWatch, patching, storeVars>>
      BY <2>11 DEF CreatePod
    <3>2. ~Bare(jobStore)
      BY <2>0, <3>1 DEF NothingYet
    <3> QED BY <3>1, <3>2, <2>p, <2>o, <2>v, <2>n DEF Idle
  <2>12. CASE DeletePod
    <3>1. ctl.at = "delete" /\ ctl' = Idle /\ UNCHANGED <<job, jobWatch, patching, storeVars>>
      BY <2>12 DEF DeletePod
    <3>2. UNCHANGED <<pods, podWatch>> \/ pods[ctl.pod] # "None"
      BY <2>12 DEF DeletePod
    <3>3. CASE UNCHANGED <<pods, podWatch>>
      BY <3>1, <3>3, <2>p, <2>o, <2>y, <2>n DEF Idle
    <3>4. CASE pods[ctl.pod] # "None"
      <4>1. ~Bare(jobStore)
        BY <2>0, <3>1, <3>4 DEF NothingYet, CtlOK
      <4> QED BY <3>1, <4>1, <2>p, <2>o, <2>v, <2>n DEF Idle
    <3> QED BY <3>2, <3>3, <3>4
  <2>13. CASE RequestFails
    BY <2>13, <2>p, <2>o, <2>y, <2>n DEF RequestFails, Idle
  <2>14. CASE UNCHANGED vars
    BY <2>14, <2>p, <2>o, <2>y, <2>n DEF vars
  <2>16. CASE \E k \in {"job", "pod"} : Connect(k)
    BY <2>16, <2>p, <2>o, <2>y, <2>n DEF Connect
  <2> QED
    BY <2>1, <2>2, <2>3, <2>4, <2>5, <2>6, <2>7, <2>8, <2>9, <2>10, <2>11, <2>12,
       <2>13, <2>14, <2>15, <2>16
       DEF Next, Controller
<1> QED BY <1>1, <1>2, GpuJobInvariant, PTL DEF Spec

(* In every world no status update, from however old a copy, takes away    *)
(* the template, and no patch does that was read with it: until a patch    *)
(* overtakes the template, the job never comes to where no pod can be made *)
(* for it.                                                                 *)
THEOREM TemplateIsKept == Spec => TemplateKept
<1>1. IInv /\ (~overtaken => TInv) /\ [Next]_vars
        => [~overtaken' /\ job # NoJob /\ job' # NoJob /\ job.template => job'.template]_vars
  <2> SUFFICES ASSUME IInv, ~overtaken => TInv, [Next]_vars,
                      ~overtaken', job # NoJob, job' # NoJob, job.template
               PROVE  job'.template
    OBVIOUS
  <2> USE DEF apiVars, patchVars, storeVars, envVars
  <2>0. TInv
    BY OvertakenOnce
  <2>1. CASE PatchPut
    BY <2>1 DEF PatchPut, PutJob
  <2>2. CASE DropJob
    BY <2>2 DEF DropJob, PutJob
  <2>3. CASE PostStatus
    BY <2>0, <2>3 DEF PostStatus, PutJob, TInv, PutsTheTemplate
  <2>4. CASE UNCHANGED job
    BY <2>4
  <2>5. CASE \/ \E spec \in world.patches : PatchRead(spec)
             \/ \E p \in Pod : KillPod(p) \/ Progress(p) \/ Break(p)
             \/ ReceiveJob \/ ReceivePod \/ RelistJobs \/ RelistPods
             \/ \E k \in {"job", "pod"} : Connect(k)
             \/ HandleAdd \/ HandleUpdate \/ HandlePod \/ ResyncJob \/ ResyncPod
             \/ CreatePod \/ DeletePod \/ RequestFails \/ UNCHANGED vars
    BY <2>4, <2>5 DEF PatchRead, KillPod, Progress, Break, ReceiveJob, ReceivePod, RelistJobs,
       RelistPods, Connect, HandleAdd, HandleUpdate, HandlePod, ResyncJob, ResyncPod,
       CreatePod, DeletePod, RequestFails, vars
  <2> QED BY <2>1, <2>2, <2>3, <2>5 DEF Next, Controller
<1> QED BY <1>1, TemplateInvariant, PTL DEF Spec, TemplateKept

-------------------------------------------------------------------------------
(* Where everybody waits their turn, watches may be lost but one thing is  *)
(* under way at a time, and what is under way tells where the controller   *)
(* is on its round: a write of the job is reconciled, the change of a pod  *)
(* that follows is counted, the new status is written.                     *)
Counts(obj, store) == obj \in Job /\ WithStatus(obj, store) = obj

NothingSent == jobWatch = <<>> /\ podWatch = <<>>
NothingQueued == jobQ = <<>> /\ podQ = 0
InStep == jobStore = job /\ podStore = pods

(* The change of a pod will be answered: either the status no longer       *)
(* counts the pods, and is written, or nothing is left to be done.         *)
WillBeAnswered ==
  job # NoJob => /\ job.template
                 /\ job.active = WantActive(job) \/ WithStatus(job, pods) # job

Resting ==
  /\ ctl = Idle /\ NothingSent /\ NothingQueued /\ InStep
  /\ job # NoJob => /\ job.template /\ Counts(job, pods)
                    /\ job.active = WantActive(job)

(* The job has been created and its image is to be built.                  *)
JobAdded ==
  /\ ctl = Idle /\ NothingSent /\ InStep /\ podQ = 0
  /\ job # NoJob /\ Counts(job, pods) /\ ~job.template
  /\ jobQ = <<[add |-> TRUE, job |-> job]>>

JobWritten ==
  /\ ctl = Idle /\ jobWatch = <<job>> /\ podWatch = <<>> /\ NothingQueued
  /\ jobStore # job /\ jobStore # NoJob /\ podStore = pods
  /\ IF job = NoJob THEN Counts(jobStore, pods) ELSE job.template /\ Counts(job, pods)

JobQueued ==
  /\ ctl = Idle /\ NothingSent /\ InStep /\ podQ = 0
  /\ \E obj \in Job :
       /\ jobQ = <<[add |-> FALSE, job |-> obj]>> /\ Counts(obj, pods)
       /\ IF job = NoJob THEN obj.spec.parallelism = 0 ELSE obj = job /\ job.template

Creating ==
  /\ ctl.at = "create" /\ NothingSent /\ NothingQueued /\ InStep
  /\ job # NoJob /\ job.template /\ Counts(job, pods)
  /\ job.active < WantActive(job)

Deleting ==
  /\ ctl.at = "delete" /\ NothingSent /\ NothingQueued /\ InStep
  /\ pods[ctl.pod] \in {"Pending", "Running"}
  /\ job # NoJob => /\ job.template /\ Counts(job, pods)
                    /\ job.active > WantActive(job)

Posting ==
  /\ ctl.at = "post" /\ NothingSent /\ NothingQueued /\ InStep
  /\ job # NoJob /\ ctl.job # job /\ Counts(ctl.job, pods)
  /\ ctl.job.template /\ ctl.job.spec = job.spec

PodWritten ==
  /\ ctl = Idle /\ jobWatch = <<>> /\ NothingQueued /\ jobStore = job
  /\ \E p \in Pod, phase \in PodPhase \cup {"None"} :
       /\ podWatch = <<<<p, phase>>>> /\ phase # podStore[p]
       /\ pods = [podStore EXCEPT ![p] = phase]
  /\ WillBeAnswered

PodQueued ==
  /\ ctl = Idle /\ NothingSent /\ jobQ = <<>> /\ podQ = 1 /\ InStep
  /\ WillBeAnswered

Stage == \/ Resting \/ JobAdded \/ JobWritten \/ JobQueued \/ Creating \/ Deleting
         \/ Posting \/ PodWritten \/ PodQueued

(* All that while no request to patch is under way and nobody has to       *)
(* connect a watch; these find the controller at rest and keep it there.   *)
Alone == patching = {} /\ linked["job"] /\ linked["pod"]

Patching ==
  /\ Resting /\ linked["job"] /\ linked["pod"] /\ job # NoJob
  /\ \E spec \in SpecOfJob : /\ spec # job.spec
                             /\ patching = {[job EXCEPT !.spec = spec]}

Relinking == Resting /\ patching = {}

Round == (Alone /\ Stage) \/ Patching \/ Relinking

Calm == world.patient => ~jobResync /\ ~podResync /\ Round

(* What a status says of the pods it counts, and what reconcile makes of   *)
(* it: never a negative number, and never more than are to run at once.    *)
LEMMA CountsThePods ==
  ASSUME NEW obj, Counts(obj, pods)
  PROVE  /\ obj.active = Cardinality(Active(pods)) /\ obj.active \in Nat
         /\ obj.succeeded = Cardinality(Succeeded) /\ obj.succeeded \in Nat
<1>1. /\ obj.active = Cardinality(Active(pods))
      /\ obj.succeeded = Cardinality(Succeeded)
  BY DEF Counts, WithStatus, Job, Succeeded
<1> QED BY <1>1 DEF Counts, Job

LEMMA WantedIsBounded ==
  ASSUME NEW obj \in Job
  PROVE  /\ WantActive(obj) \in Nat /\ WantActive(obj) <= obj.spec.parallelism
         /\ obj.succeeded <= obj.spec.completions
              => /\ WantActive(obj) <= obj.spec.completions - obj.succeeded
                 /\ \/ WantActive(obj) = obj.spec.parallelism
                    \/ WantActive(obj) = obj.spec.completions - obj.succeeded
<1> DEFINE c == obj.spec.completions
           s == obj.succeeded
           p == obj.spec.parallelism
           d == (c + Word - s) % Word
<1>1. c \in 0 .. Word - 1 /\ p \in 0 .. Word - 1 /\ s \in Nat /\ Word \in Nat \ {0}
  BY GpuJobAssumption DEF Job, SpecOfJob
<1>2. WantActive(obj) = IF d < p THEN d ELSE p
  BY DEF WantActive, Least
<1> HIDE DEF c, s, p
<1>3. d \in 0 .. Word - 1
  BY <1>1
<1>4. s <= c => d = c - s
  <2> SUFFICES ASSUME s <= c PROVE d = c - s
    OBVIOUS
  <2>1. c - s \in 0 .. Word - 1 /\ c + Word - s = Word * 1 + (c - s)
    BY <1>1
  <2> QED BY <1>1, <2>1
<1>5. /\ WantActive(obj) \in Nat /\ WantActive(obj) <= p
      /\ s <= c => /\ WantActive(obj) <= c - s
                   /\ WantActive(obj) = p \/ WantActive(obj) = c - s
  <2> HIDE DEF d
  <2> QED BY <1>1, <1>2, <1>3, <1>4
<1> QED BY <1>5 DEF c, s, p

LEMMA CountedOnce ==
  ASSUME NEW obj \in Job, NEW store
  PROVE  Counts(WithStatus(obj, store), store)
BY StatusIsTyped DEF Counts, WithStatus, Job

LEMMA CountsWhateverIsAsked ==
  ASSUME NEW obj, Counts(obj, pods), NEW spec \in SpecOfJob
  PROVE  /\ Counts([obj EXCEPT !.spec = spec], pods)
         /\ [obj EXCEPT !.spec = spec].spec = spec
         /\ [obj EXCEPT !.spec = spec].template = obj.template
BY DEF Counts, WithStatus, Job

(* The controller starts and deletes one active pod at a time.             *)
LEMMA OneMore ==
  ASSUME pods \in Pods, NEW p \in Pod, pods[p] = "None",
         pods' = [pods EXCEPT ![p] = "Pending"]
  PROVE  /\ Cardinality(Active(pods')) = Cardinality(Active(pods)) + 1
         /\ Cardinality(Active(pods') \cup Succeeded')
              = Cardinality(Active(pods) \cup Succeeded) + 1
<1>1. /\ Active(pods') = Active(pods) \cup {p} /\ p \notin Active(pods)
      /\ Succeeded' = Succeeded /\ p \notin Succeeded
  BY DEF Active, Being, Succeeded, Pods, PodPhase
<1>2. IsFiniteSet(Active(pods)) /\ IsFiniteSet(Active(pods) \cup Succeeded)
  <2>1. Active(pods) \in SUBSET Pod /\ (Active(pods) \cup Succeeded) \in SUBSET Pod
    BY DEF Active, Being, Succeeded
  <2> QED BY <2>1, GpuJobAssumption, FS_Subset
<1>3. Active(pods') \cup Succeeded' = (Active(pods) \cup Succeeded) \cup {p}
  BY <1>1
<1>4. Cardinality(Active(pods')) = Cardinality(Active(pods)) + 1
  BY <1>1, <1>2, FS_AddElement
<1>5. Cardinality((Active(pods) \cup Succeeded) \cup {p})
        = Cardinality(Active(pods) \cup Succeeded) + 1
  BY <1>1, <1>2, FS_AddElement
<1> QED BY <1>3, <1>4, <1>5

LEMMA OneLess ==
  ASSUME pods \in Pods, NEW p \in Pod, pods[p] \in {"Pending", "Running"},
         pods' = [pods EXCEPT ![p] = "None"]
  PROVE  Cardinality(Active(pods')) = Cardinality(Active(pods)) - 1
<1>1. Active(pods') = Active(pods) \ {p} /\ p \in Active(pods)
  BY DEF Active, Being, Pods
<1>2. IsFiniteSet(Active(pods))
  BY GpuJobAssumption, FS_Subset DEF Active, Being
<1> QED BY <1>1, <1>2, FS_RemoveElement

(* Of the active pods of a store there is one to delete.                   *)
LEMMA SomeVictim ==
  ASSUME Active(podStore) # {} PROVE Victims # {}
<1>1. CASE Being(podStore, {"Pending"}) = {}
  BY <1>1 DEF Victims
<1>2. CASE \E p \in Pod : podStore[p] = "Pending"
  BY <1>2 DEF Victims, Active, Being
<1> QED BY <1>1, <1>2 DEF Being

(* The write of a pod starts a round.                                      *)
LEMMA WritesAPod ==
  ASSUME IInv, InStep, NothingSent, NothingQueued, linked["pod"],
         NEW p \in Pod, NEW phase \in PodPhase \cup {"None"}, phase # pods[p],
         PutPod(p, phase), ctl' = Idle,
         UNCHANGED <<job, jobWatch, jobStore, podStore, jobQ, podQ>>,
         WillBeAnswered'
  PROVE  PodWritten'
<1>1. podWatch' = <<<<p, phase>>>>
  BY DEF NothingSent, PutPod
<1>2. phase # podStore'[p] /\ pods' = [podStore' EXCEPT ![p] = phase]
  BY DEF InStep, PutPod
<1> QED BY <1>1, <1>2 DEF PodWritten, NothingQueued, NothingSent, InStep

(* Building the image of a job that has just been created.                 *)
LEMMA BuildsInStep == ASSUME IInv, JobAdded, HandleAdd PROVE Posting'
<1> USE DEF apiVars, patchVars, storeVars, envVars
<1>1. Head(jobQ) = [add |-> TRUE, job |-> job] /\ Tail(jobQ) = <<>>
  BY DEF JobAdded
<1>2. Head(jobQ).job = job
  BY <1>1
<1>3. /\ jobQ' = <<>> /\ Post([job EXCEPT !.template = TRUE], "none")
      /\ UNCHANGED <<job, pods, jobWatch, podWatch, jobStore, podStore, podQ>>
  BY <1>1, <1>2, Zenon DEF HandleAdd
<1>4. ctl'.at = "post" /\ ctl'.job = [job EXCEPT !.template = TRUE]
  BY <1>3 DEF Post, Idle
<1>5. /\ [job EXCEPT !.template = TRUE].template
      /\ [job EXCEPT !.template = TRUE].spec = job.spec
      /\ Counts([job EXCEPT !.template = TRUE], pods)
  BY DEF JobAdded, Counts, WithStatus, Job
<1>6. [job EXCEPT !.template = TRUE] # job
  BY <1>5 DEF JobAdded
<1> QED BY <1>3, <1>4, <1>5, <1>6 DEF JobAdded, Posting, NothingSent, NothingQueued, InStep

(* Reconciling a status that counts the pods of the store.                 *)
LEMMA ReconcilesInStep ==
  ASSUME IInv, JobQueued, HandleUpdate
  PROVE  Resting' \/ Creating' \/ Deleting'
<1> USE DEF apiVars, patchVars, storeVars, envVars
<1>1. PICK obj \in Job :
        /\ jobQ = <<[add |-> FALSE, job |-> obj]>> /\ Counts(obj, pods)
        /\ IF job = NoJob THEN obj.spec.parallelism = 0 ELSE obj = job /\ job.template
  BY DEF JobQueued
<1>h. Head(jobQ) = [add |-> FALSE, job |-> obj] /\ Tail(jobQ) = <<>>
  BY <1>1
<1>o. Head(jobQ).job = obj
  BY <1>h
<1>2. /\ ctl = Idle /\ jobQ' = <<>>
      /\ UNCHANGED <<job, pods, jobWatch, podWatch, jobStore, podStore, podQ>>
  BY <1>h, Zenon DEF HandleUpdate
<1>c. \/ /\ obj.active < WantActive(obj)
         /\ ctl' = IF obj.template THEN [Idle EXCEPT !.at = "create"] ELSE Idle
      \/ /\ obj.active > WantActive(obj)
         /\ Victims # {} => \E p \in Victims : ctl' = [Idle EXCEPT !.at = "delete", !.pod = p]
      \/ obj.active = WantActive(obj) /\ UNCHANGED ctl
  BY <1>o, Zenon DEF HandleUpdate
<1>n. /\ obj.active \in Nat /\ WantActive(obj) \in Nat
      /\ job = NoJob => WantActive(obj) = 0
  BY <1>1, WantedIsBounded DEF Job
<1>3. NothingSent' /\ NothingQueued' /\ InStep'
  BY <1>2 DEF JobQueued, NothingSent, NothingQueued, InStep
<1>4. obj.active = Cardinality(Active(pods))
  BY <1>1, CountsThePods
<1>5. job # NoJob => /\ Counts(job', pods') /\ job' = obj /\ job'.template
                     /\ job'.active = obj.active /\ WantActive(job)' = WantActive(obj)
  BY <1>1, <1>2
<1>6. CASE obj.active < WantActive(obj)
  <2>1. job # NoJob /\ obj.template
    BY <1>1, <1>n, <1>6
  <2>2. ctl' = [Idle EXCEPT !.at = "create"]
    <3>1. ~ (obj.active > WantActive(obj)) /\ obj.active # WantActive(obj)
      BY <1>n, <1>6
    <3> QED BY <1>c, <2>1, <3>1, Zenon
  <2>3. ctl'.at = "create"
    BY <2>2 DEF Idle
  <2> QED BY <1>2, <1>3, <1>5, <1>6, <2>1, <2>3 DEF Creating
<1>7. CASE obj.active > WantActive(obj)
  <2>1. Victims # {}
    <3>1. Cardinality(Active(podStore)) # 0
      BY <1>4, <1>7, <1>n DEF JobQueued, InStep
    <3>2. Active(podStore) # {}
      BY <3>1, FS_EmptySet
    <3> QED BY <3>2, SomeVictim
  <2>2. PICK p \in Victims : ctl' = [Idle EXCEPT !.at = "delete", !.pod = p]
    <3>1. ~ (obj.active < WantActive(obj)) /\ obj.active # WantActive(obj)
      BY <1>n, <1>7
    <3> QED BY <1>c, <2>1, <3>1, Zenon
  <2>3. ctl'.at = "delete" /\ ctl'.pod = p
    BY <2>2 DEF Idle
  <2>4. pods'[ctl'.pod] \in {"Pending", "Running"}
    BY <1>2, <2>2, <2>3 DEF Victims, Active, Being, JobQueued, InStep
  <2> QED BY <1>2, <1>3, <1>5, <1>7, <2>3, <2>4 DEF Deleting
<1>8. CASE obj.active = WantActive(obj)
  <2>1. ctl' = ctl
    <3>1. ~ (obj.active > WantActive(obj)) /\ ~ (obj.active < WantActive(obj))
      BY <1>n, <1>8
    <3> QED BY <1>c, <3>1, Zenon
  <2> QED BY <1>2, <1>3, <1>5, <1>8, <2>1 DEF Resting
<1> QED BY <1>n, <1>6, <1>7, <1>8

(* Counting the pods of the store, which are those there are.              *)
LEMMA CountsInStep ==
  ASSUME IInv, PodQueued, HandlePod
  PROVE  Resting' \/ Posting'
<1> USE DEF apiVars, patchVars, storeVars, envVars
<1>1. /\ ctl = Idle /\ podQ' = 0
      /\ UNCHANGED <<job, pods, jobWatch, podWatch, jobStore, podStore, jobQ>>
  BY DEF HandlePod, PodQueued
<1>2. NothingSent' /\ NothingQueued' /\ InStep'
  BY <1>1 DEF PodQueued, NothingSent, NothingQueued, InStep
<1>3. CASE job = NoJob
  <2>1. ctl' = Idle
    BY <1>1, <1>3 DEF HandlePod, PodQueued, InStep
  <2> QED BY <1>1, <1>2, <1>3, <2>1 DEF Resting
<1>4. CASE job # NoJob /\ WithStatus(job, pods) = job
  <2>1. ctl' = Idle
    BY <1>1, <1>4 DEF HandlePod, PodQueued, InStep, UpdateStatus
  <2>2. Counts(job', pods') /\ job'.template /\ job'.active = WantActive(job)'
    BY <1>1, <1>4 DEF Counts, IInv, ApiOK, PodQueued, WillBeAnswered
  <2> QED BY <1>2, <2>1, <2>2 DEF Resting
<1>5. CASE job # NoJob /\ WithStatus(job, pods) # job
  <2>0. job \in Job /\ job.template
    BY <1>5 DEF IInv, ApiOK, PodQueued, WillBeAnswered
  <2>1. Post(WithStatus(job, pods), "none")
    BY <1>1, <1>5 DEF HandlePod, PodQueued, InStep, UpdateStatus
  <2>2. ctl'.at = "post" /\ ctl'.job = WithStatus(job, pods)
    BY <2>1 DEF Post, Idle
  <2>3. /\ Counts(WithStatus(job, pods), pods) /\ WithStatus(job, pods).template
        /\ WithStatus(job, pods).spec = job.spec
    BY <2>0, CountedOnce, StatusIsTyped DEF WithStatus, Job
  <2> QED BY <1>1, <1>2, <1>5, <2>2, <2>3 DEF Posting
<1> QED BY <1>3, <1>4, <1>5

LEMMA StageStep ==
  ASSUME IInv, world.patient, Alone, Stage, ~jobResync, ~podResync, [Next]_vars
  PROVE  ~jobResync' /\ ~podResync' /\ Stage'
<1> USE DEF apiVars, patchVars, storeVars, envVars
<1>0. ~jobResync /\ ~podResync /\ Stage
  OBVIOUS
<1>l. linked["job"] /\ linked["pod"] /\ patching = {}
  BY DEF Alone
<1>t. /\ job \in Job \cup {NoJob} /\ pods \in Pods
      /\ jobStore \in Job \cup {NoJob} /\ podStore \in Pods
      /\ world.patches \subseteq SpecOfJob /\ world.names \subseteq Pod
  BY WorldIsTyped DEF IInv, ApiOK, StoresOK, EnvOK
<1>e. /\ \A x : <<x>> # <<>> /\ Head(<<x>>) = x /\ Tail(<<x>>) = <<>>
      /\ \A x : Append(<<>>, x) = <<x>>
  OBVIOUS
(* Which stage each guard belongs to.                                      *)
<1>a. Idle.at = "idle"
  BY DEF Idle
<1>q. InTurn => Resting
  <2> SUFFICES ASSUME Quiet PROVE Resting
    BY DEF InTurn
  <2>2. ctl.at = "idle" /\ jobWatch = <<>> /\ podWatch = <<>> /\ jobQ = <<>> /\ podQ = 0
    BY <1>a DEF Quiet
  <2>3. ~JobAdded /\ ~JobWritten /\ ~PodWritten /\ ~JobQueued /\ ~PodQueued
    BY <1>e, <2>2 DEF JobAdded, JobWritten, PodWritten, JobQueued, PodQueued
  <2>4. ~Creating /\ ~Deleting /\ ~Posting
    BY <2>2 DEF Creating, Deleting, Posting
  <2> QED BY <1>0, <2>3, <2>4 DEF Stage
<1>d. ASSUME NEW d \in Disturbance, Disturb(d) PROVE Resting
  BY <1>d, <1>q DEF Disturb
<1>1. CASE DropJob
  <2>1. /\ Resting /\ job # NoJob /\ job' # job /\ jobWatch' = Append(jobWatch, job')
        /\ UNCHANGED <<pods, podWatch, storeVars, ctl>> /\ job' = NoJob
    BY <1>1, <1>d, <1>l DEF DropJob, PutJob, Disturbance
  <2>2. jobWatch' = <<job'>>
    BY <1>e, <2>1 DEF Resting, NothingSent
  <2>3. Counts(jobStore, pods)
    BY <2>1 DEF Resting, InStep
  <2>4. JobWritten'
    BY <2>1, <2>2, <2>3 DEF JobWritten, Resting, NothingSent, NothingQueued, InStep
  <2> QED BY <1>0, <2>1, <2>4 DEF Stage
<1>2. CASE \E p \in Pod : KillPod(p) \/ Progress(p) \/ Break(p)
  <2>1. PICK p \in Pod, phase \in PodPhase \cup {"None"} :
               /\ Resting /\ pods[p] # phase /\ PutPod(p, phase)
               /\ UNCHANGED <<job, jobWatch, storeVars, ctl>>
    <3>1. CASE \E p \in Pod : KillPod(p)
      BY <1>d, <3>1 DEF KillPod, Disturbance
    <3>2. CASE \E p \in Pod : Progress(p)
      BY <1>q, <3>2 DEF Progress, PodPhase
    <3>3. CASE \E p \in Pod : Break(p)
      BY <1>d, <3>3 DEF Break, Disturbance, PodPhase, Active, Being
    <3> QED BY <1>2, <3>1, <3>2, <3>3
  <2>2. WillBeAnswered'
    BY <2>1 DEF WillBeAnswered, Resting, WantActive
  <2>3. PodWritten'
    BY <1>l, <2>1, <2>2, WritesAPod DEF Resting
  <2> QED BY <1>0, <2>1, <2>3 DEF Stage
<1>3. CASE ReceiveJob
  <2>1. JobWritten
    <3>1. jobWatch # <<>>
      BY <1>3 DEF ReceiveJob
    <3> QED BY <1>0, <3>1 DEF Stage, Resting, JobAdded, JobQueued, Creating, Deleting, Posting,
                              PodWritten, PodQueued, NothingSent
  <2>2. Head(jobWatch) = job /\ Tail(jobWatch) = <<>>
    BY <1>e, <2>1 DEF JobWritten
  <2> DEFINE obj == IF job = NoJob THEN [jobStore EXCEPT !.spec.parallelism = 0] ELSE job
  <2>3. /\ jobWatch' = <<>> /\ jobStore' = job /\ jobQ' = Append(jobQ, Told(jobStore, job))
        /\ UNCHANGED <<job, pods, podWatch, podStore, podQ, jobResync, podResync, ctl>>
    BY <1>3, <2>1, <2>2, Zenon DEF ReceiveJob, JobWritten
  <2>4. Told(jobStore, job) = [add |-> FALSE, job |-> obj]
    BY <2>1 DEF Told, JobWritten
  <2>5. jobQ' = <<[add |-> FALSE, job |-> obj]>>
    BY <1>e, <2>1, <2>3, <2>4 DEF JobWritten, NothingQueued
  <2>6. /\ Counts(obj, pods)
        /\ IF job = NoJob THEN obj.spec.parallelism = 0 ELSE obj = job /\ job.template
    <3>1. CASE job = NoJob
      <4>1. Counts(jobStore, pods)
        BY <2>1, <3>1 DEF JobWritten
      <4>2. [jobStore.spec EXCEPT !.parallelism = 0] \in SpecOfJob
        BY <4>1, GpuJobAssumption DEF Counts, Job, SpecOfJob
      <4>3. obj = [jobStore EXCEPT !.spec = [jobStore.spec EXCEPT !.parallelism = 0]]
        BY <3>1, <4>1 DEF Counts, Job
      <4>4. Counts(obj, pods) /\ obj.spec = [jobStore.spec EXCEPT !.parallelism = 0]
        <5> DEFINE new == [jobStore.spec EXCEPT !.parallelism = 0]
        <5> HIDE DEF new
        <5>1. /\ Counts([jobStore EXCEPT !.spec = new], pods)
              /\ [jobStore EXCEPT !.spec = new].spec = new
          BY <4>1, <4>2, CountsWhateverIsAsked DEF new
        <5>2. obj = [jobStore EXCEPT !.spec = new]
          BY <4>3 DEF new
        <5>3. Counts(obj, pods) /\ obj.spec = new
          <6> HIDE DEF obj
          <6> QED BY <5>1, <5>2, Zenon
        <5> QED BY <5>3 DEF new
      <4>5. obj.spec.parallelism = 0
        BY <4>1, <4>4 DEF Counts, Job, SpecOfJob
      <4> QED BY <3>1, <4>4, <4>5
    <3>2. CASE job # NoJob
      BY <2>1, <3>2 DEF JobWritten
    <3> QED BY <3>1, <3>2
  <2>7. JobQueued'
    <3>1. obj \in Job
      BY <2>6 DEF Counts
    <3> HIDE DEF obj
    <3> QED BY <2>1, <2>3, <2>5, <2>6, <3>1 DEF JobQueued, JobWritten, NothingSent,
                                                NothingQueued, InStep
  <2> QED BY <1>0, <2>3, <2>7 DEF Stage
<1>4. CASE ReceivePod
  <2>1. PodWritten
    <3>1. podWatch # <<>>
      BY <1>4 DEF ReceivePod
    <3> QED BY <1>0, <3>1 DEF Stage, Resting, JobAdded, JobWritten, JobQueued, Creating,
                              Deleting, Posting, PodQueued, NothingSent
  <2>2. PICK p \in Pod, phase \in PodPhase \cup {"None"} :
               /\ podWatch = <<<<p, phase>>>> /\ phase # podStore[p]
               /\ pods = [podStore EXCEPT ![p] = phase]
    BY <2>1 DEF PodWritten
  <2>3. Head(podWatch)[1] = p /\ Head(podWatch)[2] = phase /\ Tail(podWatch) = <<>>
    BY <1>e, <2>2
  <2>4. /\ podWatch' = <<>> /\ podStore' = [podStore EXCEPT ![p] = phase] /\ podQ' = podQ + 1
        /\ UNCHANGED <<job, pods, jobWatch, jobStore, jobQ, jobResync, podResync, ctl>>
    BY <1>4, <2>2, <2>3, Zenon DEF ReceivePod
  <2>5. WillBeAnswered'
    BY <2>1, <2>4 DEF PodWritten, WillBeAnswered
  <2>6. PodQueued'
    BY <2>1, <2>2, <2>4, <2>5 DEF PodQueued, PodWritten, NothingSent, NothingQueued, InStep
  <2> QED BY <1>0, <2>4, <2>6 DEF Stage
<1>5. CASE RelistJobs \/ RelistPods
  <2>1. Resting
    BY <1>5, <1>d DEF RelistJobs, RelistPods, Disturbance
  <2>2. ~jobResync' /\ ~podResync'
    <3>1. jobStore = job /\ podStore = pods
      BY <2>1 DEF Resting, InStep
    <3>2. CASE RelistJobs
      BY <1>0, <3>1, <3>2, Zenon DEF RelistJobs
    <3>3. CASE RelistPods
      BY <1>0, <3>1, <3>3, Zenon DEF RelistPods
    <3> QED BY <1>5, <3>2, <3>3
  <2>3. Resting'
    BY <1>5, <2>1 DEF RelistJobs, RelistPods, Resting, InStep, NothingSent, NothingQueued
  <2> QED BY <2>2, <2>3 DEF Stage
<1>6. CASE HandleAdd \/ HandleUpdate
  <2>1. jobQ # <<>> /\ ctl = Idle /\ UNCHANGED <<jobResync, podResync>>
    BY <1>6 DEF HandleAdd, HandleUpdate
  <2>2. JobAdded \/ JobQueued
    BY <1>0, <2>1 DEF Stage, Resting, JobWritten, Creating, Deleting, Posting,
                      PodWritten, PodQueued, NothingQueued
  <2>3. CASE JobAdded
    <3>1. Head(jobQ).add
      BY <1>e, <2>3 DEF JobAdded
    <3>2. HandleAdd
      BY <1>6, <3>1 DEF HandleUpdate
    <3> QED BY <1>0, <2>1, <2>3, <3>2, BuildsInStep DEF Stage
  <2>4. CASE JobQueued
    <3>1. ~Head(jobQ).add
      BY <1>e, <2>4 DEF JobQueued
    <3>2. HandleUpdate
      BY <1>6, <3>1 DEF HandleAdd
    <3> QED BY <1>0, <2>1, <2>4, <3>2, ReconcilesInStep DEF Stage
  <2> QED BY <2>2, <2>3, <2>4
<1>7. CASE HandlePod
  <2>1. podQ > 0 /\ ctl = Idle /\ UNCHANGED <<jobResync, podResync>>
    BY <1>7 DEF HandlePod
  <2>2. PodQueued
    BY <1>0, <2>1 DEF Stage, Resting, JobAdded, JobWritten, JobQueued, Creating, Deleting,
                      Posting, PodWritten, NothingQueued
  <2> QED BY <1>0, <1>7, <2>1, <2>2, CountsInStep DEF Stage
<1>8. CASE ResyncJob \/ ResyncPod
  BY <1>0, <1>8 DEF ResyncJob, ResyncPod
<1>9. CASE PostStatus
  <2>1. /\ ctl.at = "post" /\ ctl' = Idle /\ job' = ctl.job
        /\ jobWatch' = Append(jobWatch, ctl.job)
        /\ UNCHANGED <<pods, podWatch, storeVars>>
    BY <1>l, <1>9 DEF PostStatus, PutJob
  <2>2. Posting
    BY <1>0, <1>a, <2>1 DEF Stage, Resting, JobAdded, JobWritten, JobQueued, Creating,
                            Deleting, PodWritten, PodQueued
  <2>3. job # NoJob /\ job' # job /\ Counts(job', pods) /\ job'.template
    BY <2>1, <2>2 DEF Posting
  <2>4. job' # NoJob
    BY <2>1, GpuJobAssumption DEF IInv, CtlOK
  <2>5. jobWatch' = <<job'>>
    BY <1>e, <2>1, <2>2 DEF Posting, NothingSent
  <2>6. JobWritten'
    BY <2>1, <2>2, <2>3, <2>4, <2>5 DEF JobWritten, Posting, NothingSent, NothingQueued, InStep
  <2> QED BY <1>0, <2>1, <2>6 DEF Stage
<1>10. CASE CreatePod
  <2> DEFINE p == CHOOSE p \in Fresh : TRUE
  <2>1. /\ ctl.at = "create" /\ ctl' = Idle /\ p \in Fresh /\ PutPod(p, "Pending")
        /\ UNCHANGED <<job, jobWatch, storeVars>>
    BY <1>10 DEF CreatePod
  <2> HIDE DEF p
  <2>2. Creating
    BY <1>0, <1>a, <2>1 DEF Stage, Resting, JobAdded, JobWritten, JobQueued, Deleting,
                            Posting, PodWritten, PodQueued
  <2>3. p \in Pod /\ pods[p] = "None"
    BY <1>t, <2>1 DEF Fresh
  <2>4. WillBeAnswered'
    <3>1. Cardinality(Active(pods')) = Cardinality(Active(pods)) + 1
      BY <1>t, <2>1, <2>3, OneMore DEF PutPod
    <3>2. Counts(job, pods) /\ job.template
      BY <2>2 DEF Creating
    <3>3. WithStatus(job, pods') # job
      <4>1. WithStatus(job, pods').active = Cardinality(Active(pods'))
        BY <3>2 DEF Counts, WithStatus, Job
      <4>2. job.active = Cardinality(Active(pods)) /\ job.active \in Nat
        BY <3>2, CountsThePods
      <4> QED BY <3>1, <4>1, <4>2
    <3> QED BY <2>1, <3>2, <3>3 DEF WillBeAnswered
  <2>5. PodWritten'
    BY <1>l, <2>1, <2>2, <2>3, <2>4, WritesAPod DEF Creating, PodPhase
  <2> QED BY <1>0, <2>1, <2>5 DEF Stage
<1>11. CASE DeletePod
  <2>1. /\ ctl.at = "delete" /\ ctl' = Idle
        /\ pods[ctl.pod] # "None" => PutPod(ctl.pod, "None")
        /\ UNCHANGED <<job, jobWatch, storeVars>>
    BY <1>11 DEF DeletePod
  <2>2. Deleting
    BY <1>0, <1>a, <2>1 DEF Stage, Resting, JobAdded, JobWritten, JobQueued, Creating,
                            Posting, PodWritten, PodQueued
  <2>3. ctl.pod \in Pod /\ pods[ctl.pod] \in {"Pending", "Running"}
    BY <2>1, <2>2 DEF Deleting, IInv, CtlOK
  <2>p. PutPod(ctl.pod, "None")
    BY <2>1, <2>3
  <2>4. WillBeAnswered'
    <3> SUFFICES ASSUME job # NoJob PROVE job.template /\ WithStatus(job, pods') # job
      BY <2>1 DEF WillBeAnswered
    <3>1. Cardinality(Active(pods')) = Cardinality(Active(pods)) - 1
      BY <1>t, <2>p, <2>3, OneLess DEF PutPod
    <3>2. Counts(job, pods) /\ job.template
      BY <2>2 DEF Deleting
    <3>3. WithStatus(job, pods').active = Cardinality(Active(pods'))
      BY <3>2 DEF Counts, WithStatus, Job
    <3>4. job.active = Cardinality(Active(pods)) /\ job.active \in Nat
      BY <3>2, CountsThePods
    <3> QED BY <3>1, <3>2, <3>3, <3>4
  <2>5. PodWritten'
    BY <1>l, <2>1, <2>p, <2>2, <2>3, <2>4, WritesAPod DEF Deleting
  <2> QED BY <1>0, <2>1, <2>5 DEF Stage
<1>12. CASE RequestFails
  <2>1. Resting /\ ctl.at \in {"post", "create", "delete"}
    BY <1>12, <1>d DEF RequestFails, Disturbance
  <2> QED BY <1>a, <2>1 DEF Resting
<1>13. CASE UNCHANGED vars
  BY <1>0, <1>13 DEF vars, Stage, Resting, JobAdded, JobWritten, JobQueued, Creating, Deleting,
     Posting, PodWritten, PodQueued, NothingSent, NothingQueued, InStep, WillBeAnswered
<1>14. CASE (\E spec \in world.patches : PatchRead(spec)) \/ PatchPut
              \/ \E k \in {"job", "pod"} : Connect(k)
  <2>1. UNCHANGED <<job, pods, jobWatch, podWatch, storeVars, ctl>>
    BY <1>l, <1>14 DEF PatchRead, PatchPut, Connect
  <2> QED BY <1>0, <2>1 DEF Stage, Resting, JobAdded, JobWritten, JobQueued, Creating,
     Deleting, Posting, PodWritten, PodQueued, NothingSent, NothingQueued, InStep,
     WillBeAnswered
<1> QED BY <1>1, <1>2, <1>3, <1>4, <1>5, <1>6, <1>7, <1>8, <1>9, <1>10, <1>11, <1>12, <1>13,
           <1>14
        DEF Next, Controller

(* In turn means that nothing is under way.                                *)
LEMMA InTurnIsResting ==
  ASSUME Round, Quiet PROVE Alone /\ Resting
<1>1. Alone
  BY DEF Quiet, Alone
<1>2. ctl.at = "idle" /\ jobWatch = <<>> /\ podWatch = <<>> /\ jobQ = <<>> /\ podQ = 0
  BY DEF Quiet, Idle
<1>3. \A x : <<x>> # <<>>
  OBVIOUS
<1>4. ~JobAdded /\ ~JobWritten /\ ~PodWritten /\ ~JobQueued /\ ~PodQueued
  BY <1>2, <1>3 DEF JobAdded, JobWritten, PodWritten, JobQueued, PodQueued
<1>5. ~Creating /\ ~Deleting /\ ~Posting
  BY <1>2 DEF Creating, Deleting, Posting
<1> QED BY <1>1, <1>4, <1>5 DEF Round, Stage, Patching, Relinking

(* Nothing but the patch, or a connection, follows on a rest that is       *)
(* neither alone nor quiet.                                                *)
LEMMA RestingWaits ==
  ASSUME world.patient, Resting, ~jobResync, ~podResync, ~Alone, [Next]_vars
  PROVE  PatchPut \/ (\E k \in {"job", "pod"} : Connect(k)) \/ UNCHANGED vars
<1>1. ~InTurn
  BY DEF InTurn, Quiet, Alone
<1>2. \A d \in Disturbance : ~Disturb(d)
  BY <1>1 DEF Disturb
<1>3. \A spec : ~PatchRead(spec)
  BY <1>2 DEF PatchRead, Disturbance
<1>4. ~DropJob /\ ~RelistJobs /\ ~RelistPods /\ ~RequestFails
  BY <1>2 DEF DropJob, RelistJobs, RelistPods, RequestFails, Disturbance
<1>5. \A p \in Pod : ~KillPod(p) /\ ~Progress(p) /\ ~Break(p)
  BY <1>1, <1>2 DEF KillPod, Progress, Break, Disturbance
<1>6. /\ ctl.at = "idle" /\ jobWatch = <<>> /\ podWatch = <<>> /\ jobQ = <<>>
      /\ podQ = 0
  BY DEF Resting, NothingSent, NothingQueued, Idle
<1>7. ~ReceiveJob /\ ~ReceivePod
  BY <1>6 DEF ReceiveJob, ReceivePod
<1>8. ~Controller
  BY <1>6 DEF Controller, HandleAdd, HandleUpdate, HandlePod, ResyncJob, ResyncPod,
             PostStatus, CreatePod, DeletePod
<1> QED BY <1>3, <1>4, <1>5, <1>7, <1>8 DEF Next

LEMMA StepIsCalm == ASSUME IInv, Calm, [Next]_vars PROVE Calm'
<1> USE DEF apiVars, patchVars, storeVars, envVars
<1>w. UNCHANGED world
  BY DEF Next, Controller, PatchRead, PatchPut, DropJob, KillPod, Progress, Break, ReceiveJob,
     ReceivePod, RelistJobs, RelistPods, Connect, HandleAdd, HandleUpdate, HandlePod,
     ResyncJob, ResyncPod, PostStatus, CreatePod, DeletePod, RequestFails, Disturb, vars
<1> SUFFICES ASSUME world.patient PROVE ~jobResync' /\ ~podResync' /\ Round'
  BY <1>w DEF Calm
<1>0. ~jobResync /\ ~podResync /\ Round
  BY DEF Calm
<1>q. ASSUME NEW d \in Disturbance, Disturb(d) PROVE Resting /\ Alone
  BY <1>0, <1>q, InTurnIsResting DEF Disturb, InTurn
<1>r. Resting /\ UNCHANGED <<job, pods, jobWatch, podWatch, storeVars, ctl>> => Resting'
  BY DEF Resting, InStep, NothingSent, NothingQueued
<1>1. CASE Alone /\ Stage
  <2>1. ~jobResync' /\ ~podResync' /\ Stage'
    BY <1>0, <1>1, StageStep
  <2>2. CASE \E spec \in world.patches : PatchRead(spec)
    <3>1. PICK spec \in world.patches : PatchRead(spec)
      BY <2>2
    <3>2. /\ spec \in SpecOfJob /\ spec # job.spec /\ job # NoJob
          /\ patching' = {[job EXCEPT !.spec = spec]} /\ Resting
          /\ UNCHANGED <<job, pods, jobWatch, podWatch, linked, storeVars, ctl>>
      BY <1>1, <1>q, <3>1, WorldIsTyped DEF PatchRead, Disturbance, Alone, IInv, EnvOK
    <3>3. Patching'
      BY <1>1, <1>r, <3>2 DEF Patching, Alone
    <3> QED BY <2>1, <3>3 DEF Round
  <2>3. CASE RelistJobs \/ RelistPods
    <3>1. Resting /\ UNCHANGED <<job, pods, patching, ctl>>
      BY <1>q, <2>3 DEF RelistJobs, RelistPods, Disturbance
    <3>2. Resting'
      BY <2>3, <3>1 DEF RelistJobs, RelistPods, Resting, InStep, NothingSent, NothingQueued
    <3> QED BY <1>1, <2>1, <3>1, <3>2 DEF Round, Relinking, Alone
  <2>4. CASE UNCHANGED <<patching, linked>>
    BY <1>1, <2>1, <2>4 DEF Round, Alone
  <2>5. CASE PatchPut \/ \E k \in {"job", "pod"} : Connect(k)
    BY <1>1, <2>5 DEF PatchPut, Connect, Alone
  <2> QED BY <2>2, <2>3, <2>4, <2>5 DEF Next, Controller, DropJob, KillPod, Progress, Break,
             ReceiveJob, ReceivePod, HandleAdd, HandleUpdate, HandlePod, ResyncJob, ResyncPod,
             PostStatus, CreatePod, DeletePod, RequestFails, vars
<1>2. CASE Patching
  <2>1. PICK spec \in SpecOfJob : /\ spec # job.spec
                                  /\ patching = {[job EXCEPT !.spec = spec]}
    BY <1>2 DEF Patching
  <2> DEFINE new == [job EXCEPT !.spec = spec]
  <2>2. Resting /\ job # NoJob /\ ~Alone /\ linked["job"] /\ linked["pod"]
    BY <1>2, <2>1 DEF Patching, Alone
  <2>3. CASE PatchPut
    <3>1. /\ job' = new /\ jobWatch' = Append(jobWatch, new) /\ patching' = {}
          /\ UNCHANGED <<pods, podWatch, linked, storeVars, ctl>>
      BY <2>1, <2>2, <2>3 DEF PatchPut, PutJob
    <3>2. Counts(job, pods) /\ job.template /\ job \in Job
      BY <2>2 DEF Resting, IInv, ApiOK
    <3>3. new.spec = spec /\ new.template /\ Counts(new, pods) /\ new \in Job
      <4> HIDE DEF new
      <4>1. Counts(new, pods) /\ new.spec = spec /\ new.template = job.template
        BY <3>2, CountsWhateverIsAsked DEF new
      <4> QED BY <3>2, <4>1 DEF Counts
    <3> HIDE DEF new
    <3>4. new # job /\ new # NoJob
      BY <2>1, <3>3, GpuJobAssumption
    <3>5. jobWatch' = <<job'>>
      BY <2>2, <3>1 DEF Resting, NothingSent
    <3>6. JobWritten'
      BY <2>2, <3>1, <3>2, <3>3, <3>4, <3>5
         DEF JobWritten, Resting, NothingSent, NothingQueued, InStep
    <3> QED BY <1>0, <2>2, <3>1, <3>6 DEF Round, Alone, Stage
  <2>4. CASE UNCHANGED vars
    BY <1>0, <1>2, <1>r, <2>4 DEF Round, Patching, vars
  <2>5. ASSUME NEW k \in {"job", "pod"} PROVE ~Connect(k)
    BY <2>2 DEF Connect
  <2> QED BY <1>0, <2>2, <2>3, <2>4, <2>5, RestingWaits
<1>3. CASE Relinking /\ ~Alone
  <2>1. ~PatchPut
    BY <1>3 DEF PatchPut, Relinking
  <2>2. (\E k \in {"job", "pod"} : Connect(k)) \/ UNCHANGED vars
    BY <1>0, <1>3, <2>1, RestingWaits DEF Relinking
  <2>3. UNCHANGED <<job, pods, jobWatch, podWatch, patching, storeVars, ctl>>
    BY <2>2 DEF Connect, vars
  <2> QED BY <1>0, <1>3, <1>r, <2>3 DEF Round, Relinking
<1> QED BY <1>0, <1>1, <1>2, <1>3 DEF Round, Relinking, Stage


LEMMA GpuJobIsCalm == Spec => []Calm
<1>1. Init => Calm
  <2> SUFFICES ASSUME Init PROVE ~jobResync /\ ~podResync /\ JobAdded
    BY DEF Calm, Round, Stage, Alone, Init
  <2>1. /\ job = [spec |-> world.first, template |-> FALSE,
                  active |-> 0, failed |-> 0, succeeded |-> 0]
        /\ job \in Job
    BY WorldIsTyped DEF Init, Job
  <2>0. job # NoJob
    BY <2>1, GpuJobAssumption
  <2>2. Counts(job, pods)
    <3>1. \A phases : "None" \notin phases => Being(pods, phases) = {}
      BY DEF Init, Being
    <3>2. /\ Active(pods) = {} /\ Being(pods, {"Failed"}) = {}
          /\ Being(pods, {"Succeeded"}) = {}
      BY <3>1 DEF Active
    <3>3. WithStatus(job, pods) = [job EXCEPT !.active = 0, !.failed = 0, !.succeeded = 0]
      BY <3>2, FS_EmptySet DEF WithStatus
    <3> QED BY <2>1, <3>3 DEF Counts
  <2>3. ~job.template
    BY <2>1
  <2> QED BY <2>0, <2>2, <2>3 DEF Init, JobAdded, NothingSent, InStep
<1> QED BY <1>1, StepIsCalm, GpuJobInvariant, PTL DEF Spec

-------------------------------------------------------------------------------
(* Behaviours in which no user takes completions back: with fewer asked    *)
(* for than have succeeded the unsigned difference wraps around.           *)
CompletionsGrow ==
  [][job # NoJob /\ job' # NoJob
       => job.spec.completions <= job'.spec.completions]_vars

(* No more pods are active or have succeeded than the job is to complete.  *)
NoneTooMany ==
  world.patient /\ job # NoJob
    => Cardinality(Active(pods) \cup Succeeded) <= job.spec.completions

LEMMA Disjoint ==
  /\ Cardinality(Active(pods) \cup Succeeded)
       = Cardinality(Active(pods)) + Cardinality(Succeeded)
  /\ Cardinality(Active(pods)) \in Nat /\ Cardinality(Succeeded) \in Nat
  /\ IsFiniteSet(Active(pods) \cup Succeeded)
<1>1. Active(pods) \cap Succeeded = {}
  BY DEF Active, Being, Succeeded
<1>2. IsFiniteSet(Active(pods)) /\ IsFiniteSet(Succeeded)
  BY GpuJobAssumption, FS_Subset DEF Active, Being, Succeeded
<1>3. /\ IsFiniteSet(Active(pods) \cup Succeeded)
      /\ Cardinality(Active(pods) \cup Succeeded)
           = Cardinality(Active(pods)) + Cardinality(Succeeded)
             - Cardinality(Active(pods) \cap Succeeded)
  BY <1>2, FS_Union
<1>4. Cardinality(Active(pods)) \in Nat /\ Cardinality(Succeeded) \in Nat
  BY <1>2, FS_CardinalityType
<1>5. Cardinality(Active(pods) \cap Succeeded) = 0
  BY <1>1, FS_EmptySet
<1> QED BY <1>3, <1>4, <1>5

(* What reconcile decided holds when the pod is created or deleted.        *)
LEMMA DecidedWell ==
  ASSUME IInv, Calm, NoneTooMany, world.patient, job # NoJob
  PROVE  /\ CreatePod =>
              /\ Cardinality(Active(pods)) < job.spec.parallelism
              /\ Cardinality(Active(pods) \cup Succeeded) < job.spec.completions
         /\ DeletePod =>
              \/ Cardinality(Active(pods)) > job.spec.parallelism
              \/ Cardinality(Active(pods) \cup Succeeded) > job.spec.completions
<1>0. job \in Job
  BY DEF IInv, ApiOK
<1>1. /\ job.spec.completions \in Nat /\ job.spec.parallelism \in Nat
      /\ Word \in Nat \ {0} /\ job.spec.completions < Word
  BY <1>0, GpuJobAssumption DEF Job, SpecOfJob
<1>2. Cardinality(Succeeded) <= job.spec.completions
  BY <1>1, Disjoint DEF NoneTooMany
<1>3. CASE CreatePod
  <2>1. ctl.at = "create"
    BY <1>3 DEF CreatePod
  <2>2. Creating
    BY <2>1 DEF Calm, Round, Stage, Patching, Relinking, Resting, JobAdded, JobWritten, JobQueued, Deleting, Posting,
                PodWritten, PodQueued, Idle
  <2>3. /\ job.active = Cardinality(Active(pods)) /\ job.succeeded = Cardinality(Succeeded)
        /\ job.active < WantActive(job)
    BY <2>2, CountsThePods DEF Creating
  <2>4. /\ WantActive(job) \in Nat /\ WantActive(job) <= job.spec.parallelism
        /\ WantActive(job) <= job.spec.completions - job.succeeded
    BY <1>0, <1>2, <2>3, WantedIsBounded
  <2>5. /\ Cardinality(Active(pods)) < job.spec.parallelism
        /\ Cardinality(Active(pods) \cup Succeeded) < job.spec.completions
    BY <1>1, <2>3, <2>4, Disjoint
  <2>6. ~DeletePod
    BY <2>1 DEF DeletePod
  <2> QED BY <2>5, <2>6
<1>4. CASE DeletePod
  <2>1. ctl.at = "delete"
    BY <1>4 DEF DeletePod
  <2>2. Deleting
    BY <2>1 DEF Calm, Round, Stage, Patching, Relinking, Resting, JobAdded, JobWritten, JobQueued, Creating, Posting,
                PodWritten, PodQueued, Idle
  <2>3. /\ job.active = Cardinality(Active(pods)) /\ job.succeeded = Cardinality(Succeeded)
        /\ job.active > WantActive(job)
    BY <2>2, CountsThePods DEF Deleting
  <2>4. \/ WantActive(job) = job.spec.parallelism
        \/ WantActive(job) = job.spec.completions - job.succeeded
    BY <1>0, <1>2, <2>3, WantedIsBounded
  <2>5. \/ Cardinality(Active(pods)) > job.spec.parallelism
        \/ Cardinality(Active(pods) \cup Succeeded) > job.spec.completions
    BY <1>1, <2>3, <2>4, Disjoint
  <2>6. ~CreatePod
    BY <2>1 DEF CreatePod
  <2> QED BY <2>5, <2>6
<1> QED BY <1>3, <1>4

LEMMA StepKeepsFew ==
  ASSUME IInv, Calm, NoneTooMany, [Next]_vars,
         job # NoJob /\ job' # NoJob => job.spec.completions <= job'.spec.completions,
         IInv'
  PROVE  NoneTooMany'
<1> USE DEF apiVars, patchVars, storeVars, envVars
<1>w. UNCHANGED world
  BY DEF Next, Controller, PatchRead, PatchPut, Connect, DropJob, KillPod, Progress, Break, ReceiveJob, ReceivePod,
     RelistJobs, RelistPods, HandleAdd, HandleUpdate, HandlePod, ResyncJob, ResyncPod,
     PostStatus, CreatePod, DeletePod, RequestFails, Disturb, vars
<1> SUFFICES ASSUME world.patient, job' # NoJob
             PROVE  Cardinality(Active(pods') \cup Succeeded') <= job'.spec.completions
  BY <1>w DEF NoneTooMany
<1>j. job # NoJob
  <2>1. CASE PostStatus
    <3>1. ctl.at = "post"
      BY <2>1 DEF PostStatus
    <3> QED BY <3>1 DEF Calm, Round, Stage, Patching, Relinking, Resting, JobAdded,
                        JobWritten, JobQueued, Creating,
                        Deleting, Posting, PodWritten, PodQueued, Idle
  <2>2. CASE PatchPut
    <3>1. patching # {}
      BY <2>2 DEF PatchPut
    <3> QED BY <3>1 DEF Calm, Round, Alone, Patching, Relinking
  <2>3. CASE UNCHANGED job
    BY <2>3
  <2>4. CASE DropJob
    BY <2>4 DEF DropJob, PutJob
  <2> QED BY <2>1, <2>2, <2>3, <2>4 DEF Next, Controller, PatchRead, Connect, KillPod,
             Progress, Break, ReceiveJob, ReceivePod, RelistJobs, RelistPods, HandleAdd, HandleUpdate,
             HandlePod, ResyncJob, ResyncPod, CreatePod, DeletePod, RequestFails, vars
<1>n. /\ Cardinality(Active(pods) \cup Succeeded) <= job.spec.completions
      /\ job.spec.completions \in Nat /\ job'.spec.completions \in Nat
      /\ job.spec.completions <= job'.spec.completions
  <2>1. job \in Job /\ job' \in Job
    BY <1>j DEF IInv, ApiOK
  <2> QED BY <1>j, <2>1, GpuJobAssumption DEF NoneTooMany, Job, SpecOfJob
<1>1. ASSUME (Active(pods') \cup Succeeded') \subseteq (Active(pods) \cup Succeeded)
      PROVE  Cardinality(Active(pods') \cup Succeeded') <= job'.spec.completions
  <2>1. /\ Cardinality(Active(pods') \cup Succeeded') \in Nat
        /\ Cardinality(Active(pods') \cup Succeeded')
             <= Cardinality(Active(pods) \cup Succeeded)
    BY <1>1, Disjoint, FS_Subset, FS_CardinalityType
  <2> QED BY <1>n, <2>1, Disjoint
<1>2. CASE CreatePod
  <2> DEFINE p == CHOOSE p \in Fresh : TRUE
  <2>1. p \in Fresh /\ PutPod(p, "Pending") /\ UNCHANGED job
    BY <1>2 DEF CreatePod
  <2> HIDE DEF p
  <2>2. p \in Pod /\ pods[p] = "None" /\ pods \in Pods
    BY <2>1, WorldIsTyped DEF Fresh, IInv, EnvOK, ApiOK
  <2>3. Cardinality(Active(pods') \cup Succeeded')
          = Cardinality(Active(pods) \cup Succeeded) + 1
    BY <2>1, <2>2, OneMore DEF PutPod
  <2>4. Cardinality(Active(pods) \cup Succeeded) < job.spec.completions
    BY <1>2, <1>j, DecidedWell
  <2> QED BY <1>n, <2>3, <2>4, Disjoint
<1>3. CASE UNCHANGED pods
  BY <1>1, <1>3 DEF Succeeded
<1>4. ASSUME NEW p \in Pod, NEW phase \in {"None", "Failed"},
             pods' = [pods EXCEPT ![p] = phase]
      PROVE  (Active(pods') \cup Succeeded') \subseteq (Active(pods) \cup Succeeded)
  BY <1>4 DEF Active, Being, Succeeded, IInv, ApiOK, Pods
<1>5. ASSUME NEW p \in Active(pods), NEW phase \in {"Running", "Succeeded"},
             pods' = [pods EXCEPT ![p] = phase]
      PROVE  (Active(pods') \cup Succeeded') \subseteq (Active(pods) \cup Succeeded)
  BY <1>5 DEF Active, Being, Succeeded, IInv, ApiOK, Pods
<1>6. CASE \E p \in Pod : KillPod(p) \/ Progress(p) \/ Break(p)
  <2>1. PICK p \in Pod :
          \/ \E phase \in {"None", "Failed"} : pods' = [pods EXCEPT ![p] = phase]
          \/ p \in Active(pods) /\ \E phase \in {"Running", "Succeeded"} :
                                     pods' = [pods EXCEPT ![p] = phase]
    BY <1>6 DEF KillPod, Progress, Break, PutPod
  <2> QED BY <1>1, <1>4, <1>5, <2>1
<1>7. CASE DeletePod
  <2>1. CASE pods[ctl.pod] = "None"
    BY <1>3, <1>7, <2>1 DEF DeletePod
  <2>2. CASE pods[ctl.pod] # "None"
    <3>1. ctl.pod \in Pod /\ pods' = [pods EXCEPT ![ctl.pod] = "None"]
      BY <1>7, <2>2 DEF DeletePod, PutPod, IInv, CtlOK
    <3> QED BY <1>1, <1>4, <3>1
  <2> QED BY <2>1, <2>2
<1> QED BY <1>2, <1>3, <1>6, <1>7 DEF Next, Controller, PatchRead, PatchPut, Connect, DropJob, ReceiveJob,
           ReceivePod, RelistJobs, RelistPods, HandleAdd, HandleUpdate, HandlePod,
           ResyncJob, ResyncPod, PostStatus, RequestFails, vars

(* In a patient world whose users take no completions back, whatever       *)
(* watches are lost, a pod is started only while the job needs one more    *)
(* and may run one more, an active pod deleted only while too many are     *)
(* active, and the controller's process survives.                          *)
THEOREM OnlyNeededPodsRun == Spec /\ CompletionsGrow => OnlyWhatIsNeeded
<1>1. Init => NoneTooMany
  <2> SUFFICES ASSUME Init PROVE Cardinality(Active(pods) \cup Succeeded) <= job.spec.completions
    BY DEF NoneTooMany
  <2>1. job.spec.completions \in Nat /\ 0 <= job.spec.completions
    BY WorldIsTyped, GpuJobAssumption DEF Init, SpecOfJob
  <2>2. Active(pods) \cup Succeeded = {}
    BY DEF Init, Active, Being, Succeeded
  <2> QED BY <2>1, <2>2, FS_EmptySet
<1>2. ASSUME Calm', world'.patient PROVE ctl'.at # "crashed"
  BY <1>2 DEF Calm, Round, Stage, Patching, Relinking, Resting, JobAdded, JobWritten, JobQueued, Creating, Deleting,
         Posting, PodWritten, PodQueued, Idle
<1>3. IInv /\ Calm /\ NoneTooMany /\ Calm' /\ [Next]_vars
        => [world.patient =>
             /\ job # NoJob /\ CreatePod =>
                  /\ Cardinality(Active(pods)) < job.spec.parallelism
                  /\ Cardinality(Active(pods) \cup Succeeded) < job.spec.completions
             /\ job # NoJob /\ DeletePod =>
                  \/ Cardinality(Active(pods)) > job.spec.parallelism
                  \/ Cardinality(Active(pods) \cup Succeeded) > job.spec.completions
             /\ ctl'.at # "crashed"]_vars
  <2> SUFFICES ASSUME IInv, Calm, NoneTooMany, Calm', [Next]_vars, world.patient
               PROVE  /\ job # NoJob /\ CreatePod =>
                           /\ Cardinality(Active(pods)) < job.spec.parallelism
                           /\ Cardinality(Active(pods) \cup Succeeded) < job.spec.completions
                      /\ job # NoJob /\ DeletePod =>
                           \/ Cardinality(Active(pods)) > job.spec.parallelism
                           \/ Cardinality(Active(pods) \cup Succeeded) > job.spec.completions
                      /\ ctl'.at # "crashed"
    OBVIOUS
  <2>1. UNCHANGED world
    BY DEF Next, Controller, PatchRead, PatchPut, Connect, DropJob, KillPod, Progress, Break, ReceiveJob, ReceivePod,
       RelistJobs, RelistPods, HandleAdd, HandleUpdate, HandlePod, ResyncJob, ResyncPod,
       PostStatus, CreatePod, DeletePod, RequestFails, Disturb, vars, apiVars, patchVars, storeVars,
       envVars
  <2>2. ctl'.at # "crashed"
    BY <1>2, <2>1
  <2> QED BY <2>2, DecidedWell
<1>4. IInv /\ Calm /\ NoneTooMany /\ [Next]_vars /\ IInv'
        /\ [job # NoJob /\ job' # NoJob
              => job.spec.completions <= job'.spec.completions]_vars
        => NoneTooMany'
  <2> SUFFICES ASSUME IInv, Calm, NoneTooMany, [Next]_vars, IInv',
                      [job # NoJob /\ job' # NoJob
                         => job.spec.completions <= job'.spec.completions]_vars
               PROVE  NoneTooMany'
    OBVIOUS
  <2>1. CASE UNCHANGED vars
    BY <2>1 DEF vars, NoneTooMany, Succeeded
  <2>2. CASE job # NoJob /\ job' # NoJob => job.spec.completions <= job'.spec.completions
    BY <2>2, StepKeepsFew
  <2> QED BY <2>1, <2>2
<1> QED BY <1>1, <1>3, <1>4, GpuJobInvariant, GpuJobIsCalm, PTL
        DEF Spec, OnlyWhatIsNeeded, CompletionsGrow

(* In a patient world the controller rests only when as many pods are      *)
(* active as the counts and the spec in etcd ask for, and the counts are   *)
(* those of the pods there are: the safety half of JobCompletes.           *)
THEOREM RestsOnlyCounted ==
  Spec => [](world.patient /\ Quiet /\ job # NoJob
               => /\ WithStatus(job, pods) = job
                  /\ Cardinality(Active(pods)) = WantActive(job))
<1>1. Calm => (world.patient /\ Quiet /\ job # NoJob
                 => /\ WithStatus(job, pods) = job
                    /\ Cardinality(Active(pods)) = WantActive(job))
  <2> SUFFICES ASSUME Round, Quiet, job # NoJob
               PROVE  /\ WithStatus(job, pods) = job
                      /\ Cardinality(Active(pods)) = WantActive(job)
    BY DEF Calm
  <2>3. Resting
    BY InTurnIsResting
  <2> QED BY <2>3, CountsThePods DEF Resting, Counts
<1> QED BY <1>1, GpuJobIsCalm, PTL
===============================================================================
