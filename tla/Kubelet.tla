-------------------------------- MODULE Kubelet --------------------------------
(***************************************************************************)
(* The kubelet of one node (rkubelet/src) and one pod.  Two tasks share    *)
(* the list of pods whose status is looked after: the pod worker creates,  *)
(* repairs and removes the pod's containers as events ask for it, and the  *)
(* status manager polls docker and posts what has changed; that post comes *)
(* back as the event that makes the worker repair something.               *)
(*                                                                         *)
(* Docker restarts containers that exit by themselves, as their policy     *)
(* says; it leaves alone what a user has stopped.  A pod's phase and       *)
(* conditions follow from the states of its containers.  A PUT of a status *)
(* is one step here; ApiServer looks into it, and KubeletLocks into locks. *)
(***************************************************************************)
EXTENDS Naturals, Sequences, FiniteSets

CONSTANTS
  Container,    \* the containers of the pod
  NoPod,        \* no such pod
  QueueCap,     \* capacity of the work queue (16 in the code)
  MaxInFlight,  \* bound: watch events not yet received when a status is posted
  Worlds        \* what the kubelet may have to cope with, see World

(* What may disturb the kubelet: a container exits by itself, a user stops *)
(* or removes a container or the sandbox, or deletes the pod, a call of    *)
(* docker or of the API server fails, a watch is lost ("relist"), the      *)
(* kubelet itself restarts ("crash").  A world bounds how often each       *)
(* happens; in a patient one all but the deletion of the pod wait until    *)
(* nothing is under way; the pod may be deleted even while the kubelet is  *)
(* down.                                                                   *)
Disturbance == {"exit", "stop", "remove", "delete", "fail", "relist", "crash"}
World == [policy : {"Always", "OnFailure", "Never"},   \* the restart policy
          patient : BOOLEAN,
          may : [Disturbance -> Nat]]

(* A container's state, its id and how often docker has restarted it.  Of  *)
(* a container that is missing only the last id is known.                  *)
State == {"missing", "created", "running", "restarting", "ok", "failed"}
Box == [st : State, id : Nat, rc : Nat]
Missing == [st |-> "missing", id |-> 0, rc |-> 0]

Status == [ip : BOOLEAN, box : [Container -> Box]]
Pod == [bound : BOOLEAN, status : Status]
NoStatus == [ip |-> FALSE, box |-> [c \in Container |-> Missing]]

ASSUME KubeletAssumption ==
  /\ IsFiniteSet(Container) /\ Container # {}
  /\ NoPod \notin Pod
  /\ QueueCap \in Nat \ {0}
  /\ MaxInFlight \in Nat \ {0}
  /\ Worlds \subseteq World

VARIABLES
  pod,        \* etcd: the pod or NoPod
  watch,      \* watch events not yet received
  missed,     \* ghost: the last write of the pod was seen by no watch
  store,      \* the informer's copy of the pod
  queue,      \* the worker's queue of [old, new]; NoPod for added or deleted
  resync,     \* a resync is due
  link,       \* what the informer has: "none", a new "list", a "watch"
  listed,     \* the pod is in the list the two tasks share
  worker,     \* what the pod worker is doing
  manager,    \* what the status manager is doing
  sandbox,    \* docker: the pod's sandbox
  box,        \* docker: [Container -> its state]
  world,      \* the world of this behaviour
  env         \* [Disturbance -> how often it happened]

etcdVars == <<pod, watch, missed>>
informerVars == <<store, queue, resync, link>>
taskVars == <<listed, worker, manager>>
docker == <<sandbox, box>>
envVars == <<world, env>>
vars == <<etcdVars, informerVars, taskVars, docker, world, env>>

Idle == [at |-> "idle", pod |-> NoPod, todo |-> {}]

TypeOK ==
  /\ pod \in Pod \cup {NoPod} /\ store \in Pod \cup {NoPod}
  /\ watch \in Seq(Pod \cup {NoPod})
  /\ queue \in Seq([old : Pod \cup {NoPod}, new : Pod \cup {NoPod}])
  /\ Len(queue) <= QueueCap
  /\ resync \in BOOLEAN /\ listed \in BOOLEAN /\ missed \in BOOLEAN
  /\ link \in {"none", "list", "watch"}
  /\ worker \in [at : {"idle", "add", "addstart", "create", "start", "list",
                       "unlist", "inspect", "sandbox", "sandboxstart", "boxes",
                       "drop", "remove"},
                 pod : Pod \cup {NoPod}, todo : SUBSET Container]
  /\ manager \in [at : {"idle", "inspect", "post"}, pod : Pod \cup {NoPod}]
  /\ sandbox \in {"none", "created", "up", "down"}
  /\ box \in [Container -> Box]
  /\ world \in Worlds
  /\ env \in [Disturbance -> Nat]

(* The pod has been created and waits for a node.                          *)
Init ==
  /\ world \in Worlds
  /\ pod = [bound |-> FALSE, status |-> NoStatus]
  /\ watch = <<>> /\ missed = FALSE
  /\ store = pod
  /\ link = "watch"
  /\ queue = <<>>
  /\ resync = FALSE
  /\ listed = FALSE
  /\ worker = Idle
  /\ manager = [at |-> "idle", pod |-> NoPod]
  /\ sandbox = "none"
  /\ box = [c \in Container |-> Missing]
  /\ env = [d \in Disturbance |-> 0]

(* What docker inspect tells of the pod.                                   *)
Observed ==
  [ip |-> sandbox = "up",
   box |-> [c \in Container |-> IF box[c].st = "missing" THEN Missing ELSE box[c]]]

Quiet ==
  /\ worker = Idle /\ manager.at = "idle"
  /\ watch = <<>> /\ queue = <<>> /\ ~resync /\ link = "watch"
  /\ listed /\ pod # NoPod => pod.status = Observed
  /\ \A c \in Container : box[c].st # "restarting"

Disturb(d) ==
  /\ world.patient /\ d # "delete" => Quiet
  /\ env[d] < world.may[d]
  /\ env' = [env EXCEPT ![d] = @ + 1]
  /\ UNCHANGED world

-------------------------------------------------------------------------------
(* The API server and its other clients.                                   *)

(* Only a watch that is connected is told of a write.                      *)
PutPod(new) ==
  /\ pod' = new
  /\ watch' = IF link = "watch" THEN Append(watch, new) ELSE watch
  /\ missed' = (link # "watch")

Bind ==
  /\ pod # NoPod /\ ~pod.bound
  /\ PutPod([pod EXCEPT !.bound = TRUE])
  /\ UNCHANGED <<informerVars, taskVars, docker, envVars>>

DeletePod ==
  /\ pod # NoPod
  /\ Disturb("delete")
  /\ PutPod(NoPod)
  /\ UNCHANGED <<informerVars, taskVars, docker>>

-------------------------------------------------------------------------------
(* Docker and its other users.                                             *)

SetBox(c, st) == box' = [box EXCEPT ![c].st = st]

(* Docker restarts what exits by itself, as the restart policy asks.       *)
Exit(c) ==
  /\ box[c].st = "running"
  /\ Disturb("exit")
  /\ \E st \in {"ok", "failed"} :
       SetBox(c, IF world.policy = "Always" \/ (world.policy = "OnFailure" /\ st = "failed")
                   THEN "restarting" ELSE st)
  /\ UNCHANGED <<etcdVars, informerVars, taskVars, sandbox>>

DockerRestart(c) ==
  /\ box[c].st = "restarting"
  /\ box' = [box EXCEPT ![c].st = "running", ![c].rc = @ + 1]
  /\ UNCHANGED <<etcdVars, informerVars, taskVars, sandbox, envVars>>

Stop(c) ==
  /\ box[c].st = "running"
  /\ Disturb("stop")
  /\ SetBox(c, "failed")
  /\ UNCHANGED <<etcdVars, informerVars, taskVars, sandbox>>

StopSandbox ==
  /\ sandbox = "up"
  /\ Disturb("stop")
  /\ sandbox' = "down"
  /\ UNCHANGED <<etcdVars, informerVars, taskVars, box>>

Remove(c) ==
  /\ box[c].st # "missing"
  /\ Disturb("remove")
  /\ SetBox(c, "missing")
  /\ UNCHANGED <<etcdVars, informerVars, taskVars, sandbox>>

RemoveSandbox ==
  /\ sandbox # "none"
  /\ Disturb("remove")
  /\ sandbox' = "none"
  /\ UNCHANGED <<etcdVars, informerVars, taskVars, box>>

-------------------------------------------------------------------------------
(* The informer.                                                           *)

ReceivePod ==
  LET new == Head(watch) IN
  /\ watch # <<>>
  /\ watch' = Tail(watch)
  /\ store' = new
  /\ IF new = store
       THEN UNCHANGED queue
       ELSE /\ Len(queue) < QueueCap
            /\ queue' = Append(queue, [old |-> store, new |-> new])
  /\ UNCHANGED <<pod, missed, resync, link, taskVars, docker, envVars>>

(* The watch ends, or a new one cannot be connected; the informer lists    *)
(* the pods, and then connects a watch that tells of what is written from  *)
(* then on.  Its store is compared as a whole: a resync may be due to      *)
(* another pod.  A list makes good for a change of the pod that no watch   *)
(* has told of, and for no deletion.                                       *)
LoseWatch ==
  /\ link # "none"
  /\ Disturb("relist")
  /\ link' = "none"
  /\ watch' = <<>>
  /\ missed' = (missed \/ watch # <<>>)
  /\ UNCHANGED <<pod, store, queue, resync, taskVars, docker>>

ListPods ==
  /\ link = "none"
  /\ link' = "list"
  /\ store' = pod
  /\ missed' = (missed /\ pod = NoPod)
  /\ \E others \in BOOLEAN : resync' = (resync \/ store # pod \/ others)
  /\ UNCHANGED <<pod, watch, queue, taskVars, docker, envVars>>

Connect ==
  /\ link = "list"
  /\ link' = "watch"
  /\ UNCHANGED <<etcdVars, store, queue, resync, taskVars, docker, envVars>>

(* The kubelet dies; when it starts anew its store is empty and it lists   *)
(* the pods.                                                               *)
Crash ==
  /\ Disturb("crash")
  /\ link' = "none"
  /\ watch' = <<>>
  /\ missed' = (missed \/ watch # <<>>)
  /\ store' = NoPod
  /\ queue' = <<>>
  /\ resync' = FALSE
  /\ listed' = FALSE
  /\ worker' = Idle
  /\ manager' = [at |-> "idle", pod |-> NoPod]
  /\ UNCHANGED <<pod, docker>>

-------------------------------------------------------------------------------
(* The pod worker.  The list is written while the status manager does not  *)
(* read it.                                                                *)

Bound(p) == p # NoPod /\ p.bound
Go(at) == worker' = [worker EXCEPT !.at = at]
GoDo(at, todo) == worker' = [worker EXCEPT !.at = at, !.todo = todo]

(* Mutant: the list is changed whoever reads it.                           *)
Write_NoWait(b) == listed' = b

Write(b) == manager.at = "idle" /\ listed' = b

(* A pod comes into being on this node, changes, or is deleted.  A change  *)
(* of a pod that is not in the list is left alone.                         *)
TakeUpdate ==
  LET old == Head(queue).old
      new == Head(queue).new IN
  /\ worker = Idle
  /\ queue # <<>>
  /\ queue' = Tail(queue)
  /\ \/ /\ ~Bound(old) /\ Bound(new)
        /\ worker' = [Idle EXCEPT !.at = "add", !.pod = new]
     \/ /\ Bound(old) /\ new # NoPod /\ listed
        /\ worker' = [Idle EXCEPT !.at = "unlist", !.pod = new]
     \/ /\ Bound(old) /\ new = NoPod
        /\ worker' = [Idle EXCEPT !.at = "drop", !.pod = old]
     \/ /\ IF Bound(old) THEN new # NoPod /\ ~listed ELSE ~Bound(new)
        /\ UNCHANGED worker
  /\ UNCHANGED <<etcdVars, store, resync, link, listed, manager, docker, envVars>>

(* A resync lists the pod and queues an update without a change.           *)
HandleResync ==
  /\ worker = Idle
  /\ resync
  /\ resync' = FALSE
  /\ IF Bound(store)
       THEN /\ Write(TRUE)
            /\ Len(queue) < QueueCap
            /\ queue' = Append(queue, [old |-> store, new |-> store])
       ELSE UNCHANGED <<listed, queue>>
  /\ UNCHANGED <<etcdVars, store, link, worker, manager, docker, envVars>>

(* create_sandbox: two calls of docker.  A name that is taken is an error, *)
(* which ends the creation or the repair of the pod.                       *)
CreateSandbox ==
  /\ \/ worker.at = "add" /\ Go(IF sandbox = "none" THEN "addstart" ELSE "list")
     \/ worker.at = "sandbox" /\ Go(IF sandbox = "none" THEN "sandboxstart" ELSE "list")
  /\ sandbox' = IF sandbox = "none" THEN "created" ELSE sandbox
  /\ UNCHANGED <<etcdVars, informerVars, listed, manager, box, envVars>>

StartSandbox ==
  /\ \/ /\ worker.at = "addstart"
        /\ IF sandbox = "none" THEN Go("list") ELSE GoDo("create", Container)
     \/ /\ worker.at = "sandboxstart"
        /\ Go(IF sandbox = "none" THEN "list" ELSE "boxes")
  /\ sandbox' = IF sandbox = "none" THEN sandbox ELSE "up"
  /\ UNCHANGED <<etcdVars, informerVars, listed, manager, box, envVars>>

(* A container needs its sandbox to be there.                              *)
Create(c) ==
  IF box[c].st = "missing" /\ sandbox # "none"
    THEN box' = [box EXCEPT ![c] = [st |-> "created", id |-> @.id + 1, rc |-> 0]]
    ELSE UNCHANGED box

(* A container runs in the network of its sandbox; starting what runs      *)
(* already does nothing.                                                   *)
Start(c) ==
  IF box[c].st \in {"created", "ok", "failed"} /\ sandbox = "up"
    THEN box' = [box EXCEPT ![c].st = "running", ![c].rc = 0]
    ELSE UNCHANGED box

There == {c \in Container : box[c].st # "missing"}

(* Pod::create: the containers that could be created are started.          *)
CreateBoxes ==
  /\ worker.at = "create"
  /\ \/ \E c \in worker.todo : /\ Create(c)
                               /\ GoDo("create", worker.todo \ {c})
     \/ worker.todo = {} /\ GoDo("start", There) /\ UNCHANGED box
  /\ UNCHANGED <<etcdVars, informerVars, listed, manager, sandbox, envVars>>

StartBoxes ==
  /\ worker.at = "start"
  /\ \/ \E c \in worker.todo : /\ Start(c)
                               /\ GoDo("start", worker.todo \ {c})
     \/ worker.todo = {} /\ Go("list") /\ UNCHANGED box
  /\ UNCHANGED <<etcdVars, informerVars, listed, manager, sandbox, envVars>>

List ==
  /\ worker.at = "list"
  /\ Write(TRUE)
  /\ worker' = Idle
  /\ UNCHANGED <<etcdVars, informerVars, manager, docker, envVars>>

(* The pod leaves the list while it is repaired.                           *)
Unlist ==
  /\ worker.at = "unlist"
  /\ Write(FALSE)
  /\ Go("inspect")
  /\ UNCHANGED <<etcdVars, informerVars, manager, docker, envVars>>

(* Mutants: a container that is missing is left alone; one that has ended  *)
(* is restarted whatever the policy says.                                  *)
ShouldRestart_NotMissing(b) ==
  \/ b.st = "ok" /\ world.policy = "Always"
  \/ b.st = "failed" /\ world.policy \in {"Always", "OnFailure"}

ShouldRestart_AnyPolicy(b) == b.st \in {"missing", "ok", "failed"}

(* should_restart_container, by the status the event has brought.          *)
ShouldRestart(b) ==
  \/ b.st = "missing"
  \/ b.st = "ok" /\ world.policy = "Always"
  \/ b.st = "failed" /\ world.policy \in {"Always", "OnFailure"}

(* docker removes no container that runs.                                  *)
Cleared ==
  [c \in Container |-> IF box[c].st \in {"created", "ok", "failed"}
                         THEN [box[c] EXCEPT !.st = "missing"] ELSE box[c]]

(* compute_pod_actions and the removals: without a sandbox all containers  *)
(* are created anew.                                                       *)
InspectSandbox ==
  /\ worker.at = "inspect"
  /\ IF sandbox = "none"
       THEN /\ GoDo("sandbox", Container)
            /\ box' = Cleared
       ELSE /\ GoDo(IF sandbox = "down" THEN "sandboxstart" ELSE "boxes",
                    {c \in Container : ShouldRestart(worker.pod.status.box[c])})
            /\ UNCHANGED box
  /\ UNCHANGED <<etcdVars, informerVars, listed, manager, sandbox, envVars>>

(* start_container: one that is missing is created before.                 *)
RepairBoxes ==
  /\ worker.at = "boxes"
  /\ \/ \E c \in worker.todo :
          IF box[c].st = "missing" /\ sandbox # "none"
            THEN Create(c) /\ UNCHANGED worker
            ELSE Start(c) /\ GoDo("boxes", worker.todo \ {c})
     \/ worker.todo = {} /\ Go("list") /\ UNCHANGED box
  /\ UNCHANGED <<etcdVars, informerVars, listed, manager, sandbox, envVars>>

(* The list stays locked while the containers are stopped and removed.     *)
Drop ==
  /\ worker.at = "drop"
  /\ Write(FALSE)
  /\ Go("remove")
  /\ UNCHANGED <<etcdVars, informerVars, manager, docker, envVars>>

(* Mutant: containers are not stopped first, and docker removes none that  *)
(* runs.                                                                   *)
RemovePod_Unstopped ==
  /\ worker.at = "remove"
  /\ worker' = Idle
  /\ sandbox' = IF sandbox = "up" THEN "up" ELSE "none"
  /\ box' = [c \in Container |->
               IF box[c].st = "running" THEN box[c] ELSE [box[c] EXCEPT !.st = "missing"]]
  /\ UNCHANGED <<etcdVars, informerVars, listed, manager, envVars>>

RemovePod ==
  /\ worker.at = "remove"
  /\ worker' = Idle
  /\ sandbox' = "none"
  /\ box' = [c \in Container |-> [box[c] EXCEPT !.st = "missing"]]
  /\ UNCHANGED <<etcdVars, informerVars, listed, manager, envVars>>

(* A call of docker fails: creating or starting the sandbox ends the       *)
(* handler, and so does the inspection that precedes the start; a sandbox  *)
(* that cannot be inspected is removed and made anew; a container is       *)
(* passed over or survives its pod.                                        *)
WorkerFails ==
  /\ Disturb("fail")
  /\ \/ /\ \/ worker.at \in {"add", "addstart", "sandbox", "sandboxstart"}
           \/ worker.at = "create" /\ worker.todo = {}
        /\ Go("list")
        /\ UNCHANGED docker
     \/ /\ worker.at \in {"create", "start", "boxes"}
        /\ \E c \in worker.todo : GoDo(worker.at, worker.todo \ {c})
        /\ UNCHANGED docker
     \/ /\ worker.at = "inspect"
        /\ GoDo("sandbox", Container)
        /\ sandbox' = IF sandbox = "up" THEN "up" ELSE "none"
        /\ box' = Cleared
     \/ /\ worker.at = "remove"
        /\ worker' = Idle
        /\ \E c \in There :
             box' = [d \in Container |->
                       IF d = c THEN box[d] ELSE [box[d] EXCEPT !.st = "missing"]]
        /\ sandbox' = "none"
  /\ UNCHANGED <<etcdVars, informerVars, listed, manager>>

-------------------------------------------------------------------------------
(* The status manager.                                                     *)

(* It reads the list, until it has done with all pods, and the store.      *)
Poll ==
  /\ manager.at = "idle"
  /\ worker.at # "remove"
  /\ listed
  /\ store # NoPod
  /\ manager' = [at |-> "inspect", pod |-> store]
  /\ UNCHANGED <<etcdVars, informerVars, listed, worker, docker, envVars>>

(* update_status: only a status that differs from the store's is posted.   *)
Compare(status) ==
  manager' = IF status = manager.pod.status
               THEN [at |-> "idle", pod |-> NoPod]
               ELSE [at |-> "post", pod |-> [manager.pod EXCEPT !.status = status]]

InspectPod ==
  /\ manager.at = "inspect"
  /\ Compare(Observed)
  /\ UNCHANGED <<etcdVars, informerVars, listed, worker, docker, envVars>>

(* The whole pod is put, if there still is one.  Polls are seconds apart,  *)
(* so that few posts are on their way back at a time.                      *)
PostStatus ==
  /\ manager.at = "post"
  /\ Len(watch) < MaxInFlight
  /\ IF pod = NoPod THEN UNCHANGED etcdVars ELSE PutPod(manager.pod)
  /\ manager' = [at |-> "idle", pod |-> NoPod]
  /\ UNCHANGED <<informerVars, listed, worker, docker, envVars>>

(* A container that cannot be inspected counts as missing; a sandbox that  *)
(* cannot be, or a failed request, leaves the status to the next poll.     *)
ManagerFails ==
  /\ Disturb("fail")
  /\ \/ /\ manager.at = "inspect"
        /\ \E c \in There : Compare([Observed EXCEPT !.box[c] = Missing])
     \/ /\ manager.at \in {"inspect", "post"}
        /\ manager' = [at |-> "idle", pod |-> NoPod]
  /\ UNCHANGED <<etcdVars, informerVars, listed, worker, docker>>

-------------------------------------------------------------------------------
Work ==
  \/ TakeUpdate \/ HandleResync
  \/ CreateSandbox \/ StartSandbox \/ CreateBoxes \/ StartBoxes \/ List
  \/ Unlist \/ InspectSandbox \/ RepairBoxes
  \/ Drop \/ RemovePod

Manage == Poll \/ InspectPod \/ PostStatus

Next ==
  \/ Bind \/ DeletePod
  \/ \E c \in Container : Exit(c) \/ DockerRestart(c) \/ Stop(c) \/ Remove(c)
  \/ StopSandbox \/ RemoveSandbox
  \/ ReceivePod \/ LoseWatch \/ ListPods \/ Connect \/ Crash
  \/ Work \/ WorkerFails
  \/ Manage \/ ManagerFails

(* The tasks of the kubelet run whenever they can, and the lock of the     *)
(* list serves them in turn; docker does what its restart policy says.     *)
Fairness ==
  /\ WF_vars(ReceivePod) /\ WF_vars(ListPods) /\ WF_vars(Connect)
  /\ SF_vars(Work)
  /\ SF_vars(Manage)
  /\ \A c \in Container : WF_vars(DockerRestart(c))

Spec == Init /\ [][Next]_vars
FairSpec == Spec /\ Fairness

-------------------------------------------------------------------------------
(* What the restart policy asks of a container.                            *)
Fine(c) == CASE world.policy = "Always"    -> box[c].st = "running"
             [] world.policy = "OnFailure" -> box[c].st \in {"running", "ok"}
             [] world.policy = "Never"     -> box[c].st \in {"running", "ok", "failed"}

(* Pod containers recover: in the end the sandbox and the containers of a  *)
(* bound pod run, whatever stopped or removed them, if mishaps come one at *)
(* a time, no call fails, and the pod's last change, such as its binding,  *)
(* was not missed between a list and the watch that follows it.            *)
Recovers ==
  (world.patient /\ world.may["fail"] = 0)
    => <>[](Bound(pod) /\ ~missed => sandbox = "up" /\ \A c \in Container : Fine(c))

(* A deleted pod leaves no container behind, if no call fails, the kubelet *)
(* does not die in the middle of things, and its deletion was not missed   *)
(* while no watch was connected: nothing looks for the containers of a pod *)
(* that is not in the list.                                                *)
NoOrphans ==
  /\ Quiet /\ pod = NoPod
  /\ env["fail"] = 0
  /\ ~missed
  /\ world.patient \/ env["crash"] = 0
  => sandbox = "none" /\ There = {}

(* The status manager does not look at a pod while the worker repairs or   *)
(* removes it: the list keeps them apart.                                  *)
NoInterference ==
  worker.at \in {"inspect", "sandbox", "sandboxstart", "boxes", "remove"}
    => manager.at = "idle"

(* No container was removed, no call failed, no watch was lost, and the    *)
(* kubelet did not restart: what the kubelet knows of a container is late  *)
(* at most, and no resync asks for a repair by what is not known yet.      *)
Undisturbed == \A d \in {"remove", "fail", "relist", "crash"} : env[d] = 0

(* compute_phase, for the phases that properties speak of.                 *)
Phase(status) ==
  LET in(sts) == {c \in Container : status.box[c].st \in sts} IN
  CASE in({"created", "restarting"}) # {} -> "Pending"
    [] in({"created", "restarting"}) = {} /\ in({"running"}) # {} -> "Running"
    [] in({"created", "restarting", "running"}) = {} ->
         CASE in({"ok", "failed"}) = {} -> "Pending"
           [] in({"ok", "failed"}) # {} /\ world.policy = "Always" -> "Running"
           [] world.policy # "Always" /\ in({"ok"}) # {} /\ in({"failed"}) = {} -> "Succeeded"
           [] world.policy = "Never" /\ in({"failed"}) # {} -> "Failed"
           [] world.policy = "OnFailure" /\ in({"failed"}) # {} -> "Running"

NoneRestarted == \A c \in Container : box'[c].st = "running" => box[c].st = "running"
Succeeded == pod # NoPod /\ Phase(pod.status) = "Succeeded"

(* What has ended stays ended, however late the kubelet's knowledge is:    *)
(* with the policy Never no container that has ended is started again, and *)
(* where a pod's phase is Succeeded none of its containers is; the policy  *)
(* OnFailure must not be confused by users who stop one.                   *)
EndedStaysEnded ==
  [][Undisturbed =>
      /\ world.policy = "Never" =>
           \A c \in Container :
             (box[c].st \in {"ok", "failed"} /\ box'[c].st = "running")
               => box'[c].id # box[c].id
      /\ Succeeded /\ (world.policy = "Never" \/ env["stop"] = 0)
           => NoneRestarted]_vars
===============================================================================
