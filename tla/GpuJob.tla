-------------------------------- MODULE GpuJob --------------------------------
(***************************************************************************)
(* The GPU job controller (controllers/src/gpu_job/controller.rs), for one *)
(* job.  It builds an image when the job appears and puts the template of  *)
(* its pods into the job's status; from then on each event of the job      *)
(* starts or deletes one pod, by the counts in the status of that event,   *)
(* and each event of a pod counts the pods of the store again.             *)
(*                                                                         *)
(* etcd, watches, stores and requests are as in ReplicaSet.                *)
(***************************************************************************)
EXTENDS Naturals, Sequences, FiniteSets

CONSTANTS
  Pod,          \* names a pod may get
  NoPod, NoJob, \* no pod, no job
  QueueCap,     \* capacity of an event channel (16 in the code)
  Word,         \* number of values of an unsigned integer (2^32 in the code)
  Worlds        \* what the controller may have to cope with, see World

(* A user patches the spec ("patch"), deletes the job ("drop") or a pod    *)
(* ("kill"), a pod fails ("break"), a request of the controller fails      *)
(* ("fail"), a watch is lost ("relist").  In a patient world these, and    *)
(* the progress of pods, wait until nothing is under way, so that no       *)
(* request fails.                                                          *)
Disturbance == {"patch", "drop", "kill", "break", "fail", "relist"}
SpecOfJob == [completions : 0 .. Word - 1, parallelism : 0 .. Word - 1]
Job == [spec : SpecOfJob, template : BOOLEAN,
        active : Nat, failed : Nat, succeeded : Nat]
World == [first : SpecOfJob,             \* the spec at creation
          patches : SUBSET SpecOfJob,    \* specs asked for later
          names : SUBSET Pod,            \* names there are for pods
          patient : BOOLEAN,
          may : [Disturbance -> Nat]]

ASSUME GpuJobAssumption ==
  /\ IsFiniteSet(Pod)
  /\ NoPod \notin Pod /\ NoJob \notin Job
  /\ QueueCap \in Nat \ {0}
  /\ Word \in Nat \ {0}
  /\ Worlds \subseteq World

VARIABLES
  job,        \* etcd: the job
  pods,       \* etcd: [Pod -> PodPhase], "None" where there is no such pod
  jobWatch,   \* watch events on the job not yet received
  podWatch,   \* watch events on pods not yet received
  linked,     \* [{"job", "pod"} -> BOOLEAN], whether the watch is connected
  patching,   \* merged jobs that requests to patch are about to put
  overtaken,  \* one of them took away the template; see PatchPut
  jobStore,   \* the controller's store of jobs
  podStore,   \* the controller's store of pods
  jobQ,       \* job events queued for the controller
  podQ,       \* number of pod events queued for the controller
  jobResync,  \* a job resync is due
  podResync,  \* a pod resync is due
  ctl,        \* what the controller task is doing
  world,      \* the world of this behaviour
  env         \* [Disturbance -> how often it happened]

vars == <<job, pods, jobWatch, podWatch, linked, patching, overtaken,
          jobStore, podStore, jobQ, podQ, jobResync, podResync, ctl, world, env>>
patchVars == <<patching, overtaken>>
apiVars == <<job, pods, jobWatch, podWatch, linked, patchVars>>
storeVars == <<jobStore, podStore, jobQ, podQ, jobResync, podResync>>
envVars == <<world, env>>

PodPhase == {"Pending", "Running", "Succeeded", "Failed"}
Event == [add : BOOLEAN, job : Job]
Idle == [at |-> "idle", job |-> NoJob, pod |-> NoPod, lock |-> "none"]

TypeOK ==
  /\ job \in Job \cup {NoJob}
  /\ pods \in [Pod -> PodPhase \cup {"None"}]
  /\ jobWatch \in Seq(Job \cup {NoJob})
  /\ podWatch \in Seq(Pod \X (PodPhase \cup {"None"}))
  /\ linked \in [{"job", "pod"} -> BOOLEAN]
  /\ patching \subseteq Job
  /\ overtaken \in BOOLEAN
  /\ jobStore \in Job \cup {NoJob}
  /\ podStore \in [Pod -> PodPhase \cup {"None"}]
  /\ jobQ \in Seq(Event) /\ Len(jobQ) <= QueueCap
  /\ podQ \in 0 .. QueueCap
  /\ jobResync \in BOOLEAN
  /\ podResync \in BOOLEAN
  /\ ctl \in [at : {"idle", "post", "create", "delete", "crashed"},
              job : Job \cup {NoJob}, pod : Pod \cup {NoPod},
              lock : {"none", "job", "pod"}]
  /\ world \in Worlds
  /\ env \in [Disturbance -> Nat]

(* The job has been created and its Add event handed over.                 *)
Init ==
  /\ world \in Worlds
  /\ job = [spec |-> world.first, template |-> FALSE,
            active |-> 0, failed |-> 0, succeeded |-> 0]
  /\ pods = [p \in Pod |-> "None"]
  /\ jobWatch = <<>> /\ podWatch = <<>>
  /\ linked = [k \in {"job", "pod"} |-> TRUE]
  /\ patching = {} /\ overtaken = FALSE
  /\ jobStore = job
  /\ podStore = pods
  /\ jobQ = <<[add |-> TRUE, job |-> job]>>
  /\ podQ = 0
  /\ jobResync = FALSE /\ podResync = FALSE
  /\ ctl = Idle
  /\ env = [d \in Disturbance |-> 0]

Quiet == /\ ctl = Idle
         /\ patching = {} /\ linked["job"] /\ linked["pod"]
         /\ jobWatch = <<>> /\ podWatch = <<>> /\ jobQ = <<>> /\ podQ = 0
         /\ ~jobResync /\ ~podResync

InTurn == world.patient => Quiet

Disturb(d) ==
  /\ InTurn
  /\ env[d] < world.may[d]
  /\ env' = [env EXCEPT ![d] = @ + 1]
  /\ UNCHANGED world

In(store) == {p \in Pod : store[p] # "None"}
Being(store, phases) == {p \in Pod : store[p] \in phases}
Active(store) == Being(store, {"Pending", "Running"})

-------------------------------------------------------------------------------
(* The API server: every write of etcd is seen, in order, by the watches   *)
(* that are connected.                                                     *)

PutJob(new) ==
  /\ job' = new
  /\ jobWatch' = IF linked["job"] THEN Append(jobWatch, new) ELSE jobWatch

PutPod(p, phase) ==
  /\ pods' = [pods EXCEPT ![p] = phase]
  /\ podWatch' = IF linked["pod"] THEN Append(podWatch, <<p, phase>>) ELSE podWatch

(* PATCH: the job is read, its spec replaced, and the whole of it put back *)
(* after an await, whatever etcd then holds.                               *)
PatchRead(spec) ==
  /\ job # NoJob
  /\ spec # job.spec
  /\ Disturb("patch")
  /\ patching' = patching \cup {[job EXCEPT !.spec = spec]}
  /\ UNCHANGED <<job, pods, jobWatch, podWatch, linked, overtaken, storeVars, ctl>>

PatchPut ==
  \E new \in patching :
    /\ PutJob(new)
    /\ patching' = patching \ {new}
    /\ overtaken' = (overtaken \/ (~new.template /\ (job = NoJob \/ job.template)))
    /\ UNCHANGED <<pods, podWatch, linked, storeVars, ctl, envVars>>

DropJob ==
  /\ job # NoJob
  /\ Disturb("drop")
  /\ PutJob(NoJob)
  /\ UNCHANGED <<pods, podWatch, linked, patchVars, storeVars, ctl>>

KillPod(p) ==
  /\ pods[p] # "None"
  /\ Disturb("kill")
  /\ PutPod(p, "None")
  /\ UNCHANGED <<job, jobWatch, linked, patchVars, storeVars, ctl>>

(* A kubelet reports that a pod runs, or is through.                       *)
Progress(p) ==
  /\ InTurn
  /\ p \in Active(pods)
  /\ \E phase \in {"Running", "Succeeded"} \ {pods[p]} : PutPod(p, phase)
  /\ UNCHANGED <<job, jobWatch, linked, patchVars, storeVars, ctl, envVars>>

Break(p) ==
  /\ p \in Active(pods)
  /\ Disturb("break")
  /\ PutPod(p, "Failed")
  /\ UNCHANGED <<job, jobWatch, linked, patchVars, storeVars, ctl>>

-------------------------------------------------------------------------------
(* The informers of the controller.                                        *)

(* A deleted job is reconciled as if no pod were to run.                   *)
Told(old, new) ==
  IF new = NoJob THEN [add |-> FALSE, job |-> [old EXCEPT !.spec.parallelism = 0]]
                 ELSE [add |-> old = NoJob, job |-> new]

ReceiveJob ==
  LET new == Head(jobWatch) IN
  /\ jobWatch # <<>>
  /\ ctl.lock # "job"
  /\ jobWatch' = Tail(jobWatch)
  /\ jobStore' = new
  /\ IF new = jobStore
       THEN UNCHANGED jobQ
       ELSE Len(jobQ) < QueueCap /\ jobQ' = Append(jobQ, Told(jobStore, new))
  /\ UNCHANGED <<job, pods, podWatch, linked, patchVars, podStore, podQ, jobResync,
                 podResync, ctl, envVars>>

ReceivePod ==
  LET p == Head(podWatch)[1]
      phase == Head(podWatch)[2] IN
  /\ podWatch # <<>>
  /\ ctl.lock # "pod"
  /\ podWatch' = Tail(podWatch)
  /\ podStore' = [podStore EXCEPT ![p] = phase]
  /\ IF phase = podStore[p]
       THEN UNCHANGED podQ
       ELSE podQ < QueueCap /\ podQ' = podQ + 1
  /\ UNCHANGED <<job, pods, jobWatch, linked, patchVars, jobStore, jobQ, jobResync,
                 podResync, ctl, envVars>>

(* A watch is lost and the reflector lists again; what is written from     *)
(* then until the new watch is connected is seen by nobody.                *)
RelistJobs ==
  /\ ctl.lock # "job"
  /\ Disturb("relist")
  /\ jobWatch' = <<>>
  /\ jobStore' = job
  /\ jobResync' = (jobResync \/ jobStore # job)
  /\ linked' = [linked EXCEPT !["job"] = FALSE]
  /\ UNCHANGED <<job, pods, podWatch, patchVars, podStore, jobQ, podQ, podResync, ctl>>

RelistPods ==
  /\ ctl.lock # "pod"
  /\ Disturb("relist")
  /\ podWatch' = <<>>
  /\ podStore' = pods
  /\ podResync' = (podResync \/ podStore # pods)
  /\ linked' = [linked EXCEPT !["pod"] = FALSE]
  /\ UNCHANGED <<job, pods, jobWatch, patchVars, jobStore, jobQ, podQ, jobResync, ctl>>

Connect(k) ==
  /\ ~linked[k]
  /\ linked' = [linked EXCEPT ![k] = TRUE]
  /\ UNCHANGED <<job, pods, jobWatch, podWatch, patchVars, storeVars, ctl, envVars>>

-------------------------------------------------------------------------------
(* The controller task.                                                    *)

(* Mutant: the status is made afresh, not from the one there is.           *)
WithStatus_Afresh(obj, store) ==
  [obj EXCEPT !.active = Cardinality(Active(store)),
              !.failed = Cardinality(Being(store, {"Failed"})),
              !.succeeded = Cardinality(Being(store, {"Succeeded"})),
              !.template = FALSE]

(* calculate_status: the counts are new, the template stays.               *)
WithStatus(obj, store) ==
  [obj EXCEPT !.active = Cardinality(Active(store)),
              !.failed = Cardinality(Being(store, {"Failed"})),
              !.succeeded = Cardinality(Being(store, {"Succeeded"}))]

Post(obj, lock) == ctl' = [Idle EXCEPT !.at = "post", !.job = obj, !.lock = lock]

(* update_gpujob: nothing to post if the status in the store is right.     *)
UpdateStatus(obj, lock) ==
  IF WithStatus(obj, podStore) = obj
    THEN UNCHANGED ctl
    ELSE Post(WithStatus(obj, podStore), lock)

(* create_pod_template: the image is built, the job of the event put.      *)
HandleAdd ==
  /\ ctl = Idle
  /\ jobQ # <<>> /\ Head(jobQ).add
  /\ jobQ' = Tail(jobQ)
  /\ Post([Head(jobQ).job EXCEPT !.template = TRUE], "none")
  /\ UNCHANGED <<apiVars, jobStore, podStore, podQ, jobResync, podResync, envVars>>

Least(m, n) == IF m < n THEN m ELSE n

(* Mutant: parallelism alone says how many pods should be active.          *)
WantActive_Parallel(obj) == obj.spec.parallelism

(* Mutant: failed pods count as completions.                               *)
WantActive_Failed(obj) ==
  Least((obj.spec.completions + Word - obj.succeeded - obj.failed) % Word,
        obj.spec.parallelism)

(* How many pods should be active; the difference is unsigned.             *)
WantActive(obj) ==
  Least((obj.spec.completions + Word - obj.succeeded) % Word, obj.spec.parallelism)

(* get_pod_to_delete: pending pods before running ones.                    *)
Victims ==
  {p \in Active(podStore) :
     podStore[p] = "Pending" \/ Being(podStore, {"Pending"}) = {}}

(* reconcile: without a template no pod can be made; without an active pod *)
(* in the store the first of an empty list is asked for, which ends the    *)
(* controller's process.                                                   *)
HandleUpdate ==
  LET obj == Head(jobQ).job IN
  /\ ctl = Idle
  /\ jobQ # <<>> /\ ~Head(jobQ).add
  /\ jobQ' = Tail(jobQ)
  /\ \/ /\ obj.active < WantActive(obj)
        /\ ctl' = IF obj.template THEN [Idle EXCEPT !.at = "create"] ELSE Idle
     \/ /\ obj.active > WantActive(obj)
        /\ \E p \in Victims : ctl' = [Idle EXCEPT !.at = "delete", !.pod = p]
     \/ /\ obj.active > WantActive(obj)
        /\ Victims = {}
        /\ ctl' = [Idle EXCEPT !.at = "crashed"]
     \/ /\ obj.active = WantActive(obj)
        /\ UNCHANGED ctl
  /\ UNCHANGED <<apiVars, jobStore, podStore, podQ, jobResync, podResync, envVars>>

(* handle_pod_change: every pod here is owned by the job.                  *)
HandlePod ==
  /\ ctl = Idle
  /\ podQ > 0
  /\ podQ' = podQ - 1
  /\ IF jobStore = NoJob THEN UNCHANGED ctl ELSE UpdateStatus(jobStore, "none")
  /\ UNCHANGED <<apiVars, jobStore, podStore, jobQ, jobResync, podResync, envVars>>

(* Both resync handlers post while they read the store they walk through.  *)
ResyncJob ==
  /\ ctl = Idle
  /\ jobResync
  /\ jobResync' = FALSE
  /\ IF jobStore = NoJob THEN UNCHANGED ctl ELSE UpdateStatus(jobStore, "job")
  /\ UNCHANGED <<apiVars, jobStore, podStore, jobQ, podQ, podResync, envVars>>

ResyncPod ==
  /\ ctl = Idle
  /\ podResync
  /\ podResync' = FALSE
  /\ IF jobStore = NoJob \/ In(podStore) = {}
       THEN UNCHANGED ctl
       ELSE UpdateStatus(jobStore, "pod")
  /\ UNCHANGED <<apiVars, jobStore, podStore, jobQ, podQ, jobResync, envVars>>

(* PUT of the whole object, whether or not it still exists.                *)
PostStatus ==
  /\ ctl.at = "post"
  /\ PutJob(ctl.job)
  /\ ctl' = Idle
  /\ UNCHANGED <<pods, podWatch, linked, patchVars, storeVars, envVars>>

(* A pod gets a name nobody remembers; which one makes no difference.      *)
Fresh == {p \in world.names : /\ pods[p] = "None" /\ podStore[p] = "None"
                              /\ \A i \in 1 .. Len(podWatch) : podWatch[i][1] # p}

CreatePod ==
  /\ ctl.at = "create"
  /\ Fresh # {}
  /\ PutPod(CHOOSE p \in Fresh : TRUE, "Pending")
  /\ ctl' = Idle
  /\ UNCHANGED <<job, jobWatch, linked, patchVars, storeVars, envVars>>

(* Deleting a pod that is gone already answers 404 and changes nothing.    *)
DeletePod ==
  /\ ctl.at = "delete"
  /\ IF pods[ctl.pod] = "None"
       THEN UNCHANGED <<pods, podWatch>>
       ELSE PutPod(ctl.pod, "None")
  /\ ctl' = Idle
  /\ UNCHANGED <<job, jobWatch, linked, patchVars, storeVars, envVars>>

(* A request, or the building of an image, fails: logged and not retried.  *)
RequestFails ==
  /\ ctl.at \in {"post", "create", "delete"}
  /\ Disturb("fail")
  /\ ctl' = Idle
  /\ UNCHANGED <<apiVars, storeVars>>

-------------------------------------------------------------------------------
Controller ==
  \/ HandleAdd \/ HandleUpdate \/ HandlePod \/ ResyncJob \/ ResyncPod
  \/ PostStatus \/ CreatePod \/ DeletePod

Next ==
  \/ (\E spec \in world.patches : PatchRead(spec)) \/ PatchPut \/ DropJob
  \/ \E p \in Pod : KillPod(p) \/ Progress(p) \/ Break(p)
  \/ ReceiveJob \/ ReceivePod \/ RelistJobs \/ RelistPods
  \/ \E k \in {"job", "pod"} : Connect(k)
  \/ Controller
  \/ RequestFails

(* The controller's task, the two informers and a request that has begun   *)
(* run whenever they can, and a pod of a job comes to its end.             *)
Fairness ==
  /\ WF_vars(PatchPut)
  /\ \A k \in {"job", "pod"} : WF_vars(Connect(k))
  /\ WF_vars(ReceiveJob)
  /\ WF_vars(ReceivePod)
  /\ WF_vars(Controller)
  /\ \A p \in Pod : SF_vars(Progress(p))

Spec == Init /\ [][Next]_vars
FairSpec == Spec /\ Fairness

-------------------------------------------------------------------------------
Succeeded == Being(pods, {"Succeeded"})

(* Everybody waits his turn, and watches last.                             *)
Careful == world.patient /\ world.may["relist"] = 0

(* In a patient world, even one that loses watches, a pod is               *)
(* started only while the job needs one more and may run one more, and an  *)
(* active pod is deleted only while more are active than the job needs or  *)
(* may run; the controller survives.                                       *)
OnlyWhatIsNeeded ==
  [][world.patient =>
      /\ job # NoJob /\ CreatePod =>
           /\ Cardinality(Active(pods)) < job.spec.parallelism
           /\ Cardinality(Active(pods) \cup Succeeded) < job.spec.completions
      /\ job # NoJob /\ DeletePod =>
           \/ Cardinality(Active(pods)) > job.spec.parallelism
           \/ Cardinality(Active(pods) \cup Succeeded) > job.spec.completions
      /\ ctl'.at # "crashed"]_vars

(* In the end as many pods have succeeded as the job was to complete, none *)
(* is active, and the status says so.                                      *)
JobCompletes ==
  Careful => <>[](job # NoJob => /\ Cardinality(Succeeded) = job.spec.completions
                                 /\ Active(pods) = {}
                                 /\ WithStatus(job, pods) = job)

(* Status updates and patches put whole jobs, from copies that may be old; *)
(* so long as no patch puts a copy it read before the template over a job  *)
(* that has it, none of them takes the template away, whatever writes the  *)
(* watches miss.                                                           *)
TemplateKept ==
  [][~overtaken' /\ job # NoJob /\ job' # NoJob /\ job.template
       => job'.template]_vars
===============================================================================
