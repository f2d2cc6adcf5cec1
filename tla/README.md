# A verification project for rMiniK8s

TLA+ models of the parts of rMiniK8s that several tasks, processes or machines
carry out together: the informers, the controllers that act on what informers
tell them, the scheduler, the API server's handlers, the kubelet, the service
proxy and what makes functions serverless. TLC checks
small instances of them; TLAPS proves the theorems listed at the end for every
value of the constants. `PROJECT.json` lists runs, mutants and theorems, and
names for each definition the lines of the source it stands for.

Run a check with `tlc -config <run>.cfg <module>`, a proof with
`tlapm <module>Proofs.tla`.

## 1. The system

Everything is written to **etcd** through the **API server**; everything is
learnt through a **watch** on etcd, which an **informer** turns into a local
store and a sequence of notifications. Components do not call one another (the
exceptions are `rkubectl logs/exec`, the service proxies and the router).

| component | state it keeps | operations | talks to |
|---|---|---|---|
| API server, `api_server/src/handler` | a pool of service addresses, and a file of the targets Prometheus scrapes; objects are in etcd | create, replace, patch, delete, list, watch of each kind; bindings; registration of nodes; functions, which are four objects; metrics | etcd, one or two calls a request, without a transaction; Prometheus |
| informer, `resources/src/informer` | the store (`RwLock<HashMap>`), channels of 16 notifications and 4 resyncs | list, install, connect, receive, notify, resync | API server (HTTP list, websocket watch), the closures of its component |
| ReplicaSet controller, `controllers/src/replica_set` | two informers' stores, four channels | reconcile, update status, pick and delete a victim, resync | API server |
| scheduler, `scheduler/src` | pod and node queue, node cache with pod counts | schedule a pod, count, recount, enqueue all, refresh | API server (bindings) |
| kubelet, `rkubelet/src` | list of pods, work queue, the docker daemon's containers | create, reconcile, remove a pod; poll and report; resync; heartbeat | API server, docker |
| GPU job controller | as ReplicaSet | reconcile by completions and parallelism | API server, docker build |
| HPA controller | work queue, scale events and recommendations of the past | calculate, stabilise, limit, scale | API server, Prometheus |
| node status manager, in `rkubelet` | the node's metadata, once registered | register until answered, then report | API server |
| endpoints controller | two informers' stores, the services of which it changes itself | add and take away a pod's address, recompute all on a resync | API server |
| ingress controller | two informers' stores, nginx's configuration | write the whole configuration | files, nginx |
| function controller | one informer's store | build an image, create the ReplicaSet and the autoscaler, report | docker, API server |
| rkube_proxy | table of services and chains, iptables | add, change, delete rules of services, rewrite all on a resync | kernel |
| serverless router | activation times, service store | activate from zero, forward, run a workflow | API server, functions |
| rkubectl | none | one request per command | API server |

What is hard in it:

* every reader acts on a copy that lags, and writes whole objects back;
* events are lost with the connection and made good by a list, which races with
  the watch that follows it;
* stores are locked while a bounded channel is waited for, in several tasks;
* a component that fills the queue it alone empties;
* decisions that count things while the things counted are under way;
* the kubelet dies and finds containers it does not remember;
* nothing is retried: a failed step is repaired by the next event, if one comes.

What makes each component correct: the informer's store follows etcd and its
handlers can follow the store; the ReplicaSet controller moves the number of
pods toward the desired one and stops there; the scheduler binds each pod once,
evenly, and forgets none; the API server does not undo what it acknowledged; the
kubelet runs the containers that should run and no others, and its tasks do not
work on one pod at once; traffic to an ingress arrives, evenly, at the pods its
services pick; a function has all of its objects or none, and keeps its replicas
while requests wake it; no task waits for ever.

## 2. Modules

| module | models | abstracts |
|---|---|---|
| `Mirror` | what an informer promises: a copy that moves to values its source had, never back | everything else |
| `Informer` | `Reflector::run`, `handle_watcher`, `Informer::run`, against etcd and the watch's stream | handlers are a copy of what they were told (`view`) |
| `Pipeline`, `PipelineMC` | the same tasks as takers of locks and channels, with the handlers of the ReplicaSet controller as programs | contents of messages: only their number |
| `ReplicaSet`, `ReplicaSetMC` | the controller's handlers on one ReplicaSet, its requests, etcd and both informers | pods are a state of four; an owned pod event is a number, for its handler looks only at the owner |
| `GpuJob`, `GpuJobMC` | the controller's handlers on one GPU job: template, reconcile by completions and parallelism, status, requests, etcd and both informers | fetching code and building images are part of the step that posts the template; a pod is a phase |
| `ReplicaCalculator` | the replica calculator as functions of an observation: which pods are counted, what missing ones are assumed to use, when an answer is discarded | Prometheus; ratios are pairs of integers, so that its divisions are exact |
| `HPA`, `HPAMC` | the autoscaler's queue of names with its delays, reconciliation with every failure of its requests, stabilisation, scaling policies, what it remembers | seconds are ticks, what is remembered has an age; where `f64` makes the share of a policy larger than it is, is a constant (`RoundedUp`); the informer is as in `ReplicaSet` |
| `Scheduler`, `SchedulerMC` | scheduler, its cache, its two informers and their locks, the binding handler, nodes that come, beat, die and go | round-robin and labels: which pod fits which node is given |
| `ApiServer` | handlers of pods, ReplicaSets, GPU jobs and HPAs as pairs of etcd calls | an object is uid, spec and status |
| `Nodes` | handlers of nodes and of scrape targets as steps (etcd, file, Prometheus), any of which may fail; the kubelets that register and report | a node is its labels and its address, if it has one, the file a set of targets or unreadable |
| `ApiServerMC` | both, side by side | |
| `Services` | services, pods' addresses and ingresses in etcd, the handlers that write them, the pool of addresses; the informers of the three components below | a selector is the set of pods it picks |
| `Endpoints` | the endpoints controller: notifications, resync, the store it locks and changes, its puts one by one | extends `Services` |
| `Proxy` | rkube_proxy: its table, and the kernel's rules and chains with their probabilities | extends `Services`; a call of iptables is a change of `rules` or `chains` |
| `IngressController` | the ingress controller and nginx's configuration | extends `Services`; hosts are ingresses, a path is the service it leads to |
| `Network`, `NetworkMC` | the three together, from an ingress to the pods | |
| `Serverless`, `ServerlessMC` | the handlers of functions, the function controller, the router's activation, and the autoscaler beside them | building is a step that succeeds or not; a workflow is its first request |
| `Kubelet`, `KubeletMC` | pod worker, pod, status manager, docker, for one pod of several containers | images, volumes, logs; a container is a state, an id and a restart count |
| `KubeletLocks` | the locks and queues of the kubelet's tasks, for any number of pods | what is done to pods |
| `InformerProofs`, `ReplicaSetProofs`, `GpuJobProofs`, `KubeletProofs`, `SchedulerProofs`, `NetworkProofs`, `ApiServerProofs`, `HPAProofs` | theorems | |

`Informer` is used by every component. The controllers do not instantiate it,
for their state would multiply: `ReplicaSet`, `GpuJob`, `Scheduler`, `Kubelet`,
`Services` and `Serverless` each have the informer's effect (a watch that is
received in order or lost, then a list that replaces the store and a resync if
it differed, then a connection) as two to four actions, and `Informer` shows
what these may be relied upon for: in particular that the gap between list and
watch exists. In `ReplicaSet`, `GpuJob`, `Scheduler`, `Kubelet` and `Services`
losing the watch and listing, or listing alone, is one action and `Connect`
another, so that writes fall into the gap and no controller hears of them; where
a property depends on it a ghost variable keeps account (`missed`, as `gap` in
`Informer`). In these modules the listing is installed at the moment etcd
answers it: that a reflector may wait for the store's lock between the two is in
`Informer` (`List`, `Install`) and in the two modules of locks. The autoscaler's
informer (`HPA`) reconnects at once, for its one object is read again at every
reconciliation, and the function controller's and the router's (`Serverless`)
have no handler for a resync or none at all.

Correspondence of state. `etcd`, `pods`, `rs`, `pod` are values in etcd;
`...Watch`, `ws`, `watch` are events on a websocket; `store`, `podStore`,
`rsStore` the informer's map; `...Q`, `queue`, `notifs` channels; `ctl`,
`sched`, `worker`, `manager`, `reflector` say at which await a task is; `todo`
is what is left of its loop. An action is what happens between two awaits at
which another task could be seen to act. Requests to the API server are steps of
their own: they reach etcd after the decision they carry was taken.

### Worlds

`ReplicaSet`, `GpuJob`, `HPA`, `Scheduler`, `Kubelet`, `KubeletLocks`, `Nodes`,
`Network` and `Serverless` are checked in several *worlds* in one run. A world says what may happen beside the component: how
often each disturbance occurs (users who scale, delete or kill, nodes that
beat, die or go, requests that fail, lost watches, crashes) and whether the
others wait (`patient`) until nothing is under way, no request of a user and no connection
among it. A request that fails does so
while a handler is at work, which in a patient world of `ReplicaSet` or `GpuJob`
is never: there a failure is part of hasty worlds only. A world of `Network`
also says which of the three components run, and what services pick and offer;
one of `Serverless` whether the router runs. A world of `HPA` also says
what the metrics may be, which rules hold, whether a reconciliation fits into a
tick (`punctual`) and whether the build checks for overflow (`checked`). `Init` chooses the world,
it never changes, and `env` counts what has happened. A property that the code
keeps in some worlds only has that as its premise, in the property, where a
reader sees it. The worlds are in the `MC` modules. In a world that is not
patient everything interleaves.

## 3. Runs

| run | worlds and bounds | what it shows |
|---|---|---|
| `Informer` | 2 keys, 2 contents, 3 writes, 2 lost connections, channels of 2 and 1 | `SyncInv`: while the watch lasts a key is as in etcd or its newest event is on the wire, apart from the keys in `gap` (written after the list and before the watch was connected). `HandlersCanFollow`: notifications lead from what handlers know to the store, apart from keys a relist overtook (`torn`). `MirrorsEtcd`: the refinement of `Mirror`. `EventuallySettled`: liveness |
| `ReplicaSet` | 4 pod names; patient worlds with 2 scalings, a drop, a kill, a move, with a relist or without; a hasty world with each of scale, drop, move, fail, relist | `StepsTowardDesired`, `NeverCrashes` (patient), `ScalingsStand`: no put takes back a scaling or brings back what was deleted (patient), `SettlesInTheEnd` (patient, no relist), `StaleCountIsNoticed`: a status is counted again while the store holds a pod (always) |
| `GpuJob` | 4 pod names, `Word` 8; patient worlds with 2 patches, a drop, a kill, a broken pod, with a relist or without; hasty worlds with a patch, or any two of the other five disturbances | `OnlyWhatIsNeeded` (patient), `JobCompletes` (patient, no relist), `TemplateKept`: nothing takes the template away but a patch that read the job before it (always) |
| `Scheduler` | 4 pods, 2 nodes, queue of 2; pods created at any moment; more events than there is room for, with a heartbeat or a lost watch; patient users and kubelets with deletions, heartbeats and a death; hasty worlds with any three of the six disturbances | `CountsExact`, `BoundOnce`, `NoPodForgotten`, `EventuallyBound`, premises in each |
| `ApiServer` | objects: 2 creations, 3 requests, two handlers at a time; nodes: 2 nodes, with an address or without, an extra target, up to 5 events of 7 kinds in four worlds, one handler at a time | `UndoneOnlyInARace`: a deleted pod or autoscaler comes back only by a handler that had found one before. `LabelsKept`: a report never undoes what a user labelled. `NodesAreScraped`: whatever step of a registration or deletion fails, a node that has an address has its target loaded |
| `Network` | 2 services, 2 pods, 1 ingress, 2 addresses, 2 ports, channels of 4; patient worlds with 4 or 5 changes for all three components, lost watches among them; hasty worlds with 4 for endpoints controller and proxy, and for the ingress controller; one with failed requests, one with a restart of the API server | `KernelServesStore`: with nothing waiting the rules serve the proxy's store, evenly, and nothing else, also where puts of the endpoints controller fail. `ConfigFollowsStores`: in every world, the restart included. `WorksAtRest`: when no event, notification, resync or job is left, traffic to an ingress reaches the pods of its services (patient, nothing failed, no write missed between a list and its watch). `TrafficArrives`: liveness, it does so in the end (the same) |
| `Serverless` | 2 functions, 3 service names, 2 clients, 2 requests, up to 2 replicas; patient worlds with and without the router; hasty worlds with and without it; deletions that etcd fails at | `FunctionsComplete`, `NothingLeftBehind`: a function has an image, its service, ReplicaSet and autoscaler in the end, and one that was deleted has left none (patient, etcd fails at no deletion). `BuildsEnd`: in every world the controller comes to rest. `ActivationKeepsScale`: in every world, a request that came when the router saw its function as it was takes no replicas away, unless the autoscaler comes in between |
| `HPA` | 0 to 4 replicas, `Sync` 1, periods and windows of up to 2 ticks, `Word` 64; a load that changes and one disturbance of eight, under default, careful and eager rules; 50 to 60 replicas in steps of 10 percent, and 10 down in steps of 70; pods of which some cannot be averaged; every observation of up to 3 pods; one load for ever, even or not, and two disturbances | `StaysScheduled`: an autoscaler the store holds has its name sent, queued or in the task's hands. `RisesSlowly`, `FallsSlowly`: a decision keeps to the limits, to everything calculated within the stabilisation window and, while the autoscaler is alone, to the policies counted from the replicas there really were (`past`), unless the subtraction wraps. `CarriesTheLoad`: a calculation that changes the number leaves enough pods for what was measured, whatever is missing; the load is what the pods use that are ready. `SettlesOnMetrics`: liveness; an even load is settled on, any other keeps the number among those it asks for |
| `Kubelet` | 2 containers; every policy; patient worlds with six mishaps, a restart of the kubelet among them, or with four and two lost watches; one of containers that end and are stopped at any moment; hasty worlds with any two of seven disturbances | `NoInterference`, `NoOrphans`, `Recovers`, `EndedStaysEnded`, premises in each |
| `KubeletLocks` | 3 pods, queue of 3, channel of 1; events without end, or one relist | `CirclesNeedFullQueues`: reflector, worker and status manager wait in a circle only all three together and with both channels full; a relist and its resync make none. `ResyncFinishes` |

and two that end in a violation, of a promise the repository makes:

| run | the promise | what the code does |
|---|---|---|
| `KubeletLocksBoth` | pod_worker.rs:79 "Finished resync" | worker (store, then list), status manager (list, then store) and a reflector that queues for the store wait in a circle |
| `PipelineResync` | controller.rs:243-244 of the ReplicaSet controller, "drop the reference, otherwise informer may deadlock" | only watches are lost: `resync_pod` reads the store of pods inside a read of it, and a reflector that installs the next list has queued for the lock in between. With `Burst = 4` and no relists the same property is violated by events alone: the reference is dropped, but the reflector keeps the store locked while it waits for room |

Each module states a type invariant, `TypeOK` where it has state of its own. It
is proved for `Informer`, `ReplicaSet`, `GpuJob`, `Scheduler`, `Kubelet`,
`ApiServer` and `HPA`, and in the parts that other theorems need for the rest; the
runs are left to what a type does not say.

### Why the bounds are enough

Channels of capacity one to three meet a full channel as those of 4 and 16 do,
after fewer steps. Two keys, nodes or containers are the least of which one can
be right while the other is wrong; a third only repeats them. Three writes and
two faults let a write fall before, into and after each of two connections. A queue
of two fills up with three events, which lets the scheduler lock itself out. In
`ReplicaSet` the numbers 0 to 3 make the controller go up by more than one,
down by more than one, and to nothing. In `Kubelet` two disturbances at any
moment include a crash after anything else; three at a time were explored once
as far as 11 million states, without a violation, and are left out of the run
for its length. The counters a scheduler keeps are `u32`; `Word = 8` stands for
2^32, and they wrap as the release build does (a debug build panics at the same
place). In `HPA` a period of two ticks lets two decisions fall into it, and 0 to 4
replicas let each of the rules be the one that decides; 50 replicas are the least
multiple of ten at which 110 percent come out too large in `f64`, and `Word = 64`
has room for them. In `Network` two services that share a pod, two ports
and four notifications make the proxy's chains, and the endpoints controller's
list of services, longer than one; an address that is free again can be drawn
again. In `Serverless` three service names let a function be deleted and made
anew while a leaked service is still there.

### Fairness

`WF` of a task's step says that tokio runs a task that can run. `SF` stands
where a task chooses between channels (`select!` takes a ready branch at random,
so that none is passed over for ever) or takes a lock in turn (tokio's `RwLock`
is fair, so one who waits gets it). Docker restarts a container it has marked
for restart. A lost watch is connected again once its list was answered (`WF` of
`Connect`), and a patch that has read goes on to its put (`ScalePut`, `PatchPut`). In
`HPA` time passes (`WF` of `Tick`). In `Network` the reflectors and
the endpoints controller have `WF`, proxy and ingress controller have it of what
they take from their channels; in `Serverless` the handlers, the controller and
the router go on with what they have begun. No fairness is given to users, to kubelets' deaths, to failures or
to lost connections.

## 4. What the premises exclude

These are behaviours of the code that a property would be violated by without
its premise. Each is seen by removing the premise, or by the change named.

* More events of one store than its two channels and the reflector's hand hold
  (reflector.rs:97): the reflector waits for room with the store locked, and a handler
  that reads that store waits for ever. `HandlersReturn` fails so in `PipelineResync` with
  `Burst = 4` and no relists. In the kubelet it is the circle that `CirclesNeedFullQueues`
  still permits, in the scheduler the way out that `EventuallyBound` leaves open.
* `resync_pod` walks the locked store and reads it again
  (replica_set/controller.rs:310): a reflector that asks in between stops both
  (`HandlersReturn` in `PipelineResync`).
* A write between an informer's list and its watch, which is connected without
  a revision, is missed until the next list, and nothing makes one while the watch
  lasts. This is `gap` in `Informer` (`EventuallySettled` without its premise), and
  `missed` in the components: a pod created then is not scheduled (`NoPodForgotten`), the
  containers of one deleted then stay (`NoOrphans`), as do those of one deleted while the
  kubelet was down; one bound then is not started (`Recovers`); an endpoints controller or
  a proxy whose service or pod changed then serves the old addresses
  (`WorksAtRest`, `TrafficArrives`). The endpoints controller's own puts
  can fall into the gap of any of them.
* A status is compared with a store that lags, so that a wrong one can stay
  (`SettlesInTheEnd` without `world.patient`). A failed creation is not made good by a
  relist when the status was right (`SettlesInTheEnd` without `Careful`).
* `resync_pod` goes through the pods of the store. If a list leaves none, it counts
  none, and a status that is not zero stays (`StaleCountIsNoticed` without a pod in the store).
* A status update puts the whole object it read. A scaling that came between is
  taken back (`ScalingsStand` in hasty worlds), a patch in `GpuJob`; a deleted
  object comes back.
* A patch of a GPU job gets the job, waits for etcd and puts all of it. If the template
  was put in between, the patch takes it away, and statuses built from that copy
  keep it away, for templates are built for added jobs only (`TemplateKept` without `overtaken`).
* A pod of a GPU job that changes its phase while another is being created has
  the status counted without the other; one more is created, and more succeed
  than objects/gpu_job.rs:30 calls desired. `completions - succeeded` then wraps,
  or panics in a debug build.
* A GPU job whose completions a user lowers below what has succeeded makes the
  subtraction wrap; one that appears in a relist gets no template, for
  `resync_job` only updates statuses, and never runs.
* A controller that is scaled, killed or relisted while it works may make a pod
  too many, and may look for a victim in an empty store and end: `pods[0]`
  (`StepsTowardDesired`, `NeverCrashes` without `world.patient`).
* When a ReplicaSet is deleted one pod is deleted with it, the others stay
  (the FIXME of controller.rs:78).
* The scheduler fills the bounded queue it alone reads (scheduler.rs:64): a relist
  with as many pods as places never ends. `EventuallyBound` without its premise.
  And it is locked out of the store of pods when the reflector holds it while it waits
  for room in that queue: a heartbeat makes it recount from the store
  (cache.rs:105), a resync reads it too, and nobody takes anything from the queue
  any more. A heartbeat and more pod events than there is room for do it, no watch
  need be lost; `EventuallyBound` names this as the one way out.
* A relist enqueues a pod whose binding is under way; it is bound to another
  node (`BoundOnce` without its premise). A heartbeat recounts from a store that
  has not seen the last binding (`CountsExact` in hasty worlds),
  a later deletion takes the count below zero. A pod that fits no node is given
  up (`refused`).
* Two registrations at a time (`Slot` with two): both read the file of targets,
  and the second write loses the target of the first; a label or a report that
  read before a deletion brings the node back without its target
  (`NodesAreScraped`). A machine that has no `InternalIP` when it registers becomes a
  node without a target (node.rs:81-83), and stays without one when it gets an
  address later, for only a registration adds targets. One whose address changes
  (`move`) is reported with it, but its target stays the old one. A file left broken by a failed write lets
  no node register any more. An etcd that does not answer (`unread`) makes the
  handler register anew, with the labels the kubelet was told (`LabelsKept`).
* Two requests at a time: an update that checked before a deletion puts after it,
  and the object is back. This is the one way that `UndoneOnlyInARace` permits, and it
  happens in the run. A node's report that read before a patch undoes the patch
  (`LabelsKept` with two in `Slot`), and two creations of one name both succeed.
* A container that stops, is repaired and stops again between two polls reports
  what it had reported, and is not repaired again; one whose start failed is
  *created*, read as waiting, and never started; a pod whose removal failed, or
  that was being removed when the kubelet died, leaves containers (`Recovers`
  without `patient`, with `fail`; `NoOrphans` without its premises).
* A resync queues every pod with the status in the store, whichever pod's copy
  differed, and that status may be older than what happened since. After a restart, or
  a lost watch, a container that ended before it was first reported, under the policy
  *Never*, is started again, as is one that has succeeded (`EndedStaysEnded` without
  `Undisturbed`), although objects/pod.rs:510 says that it "will not be restarted".
* An autoscaler takes what it added in a period from the replicas there are. A
  scaling by hand, a put that was refused (`post_update` takes any answer for
  success), or a window shorter than a policy's period makes that less than
  nothing: a debug build panics, a release build has no limit left
  (`RisesSlowly` without `Alone` or `Patient`). Its status is put with the spec
  it has read, so that a patch in between is lost.
* A percentage is taken in `f64` and rounded upwards (horizontal.rs:457-459): 10
  percent more than 50 replicas are 56 and not 55. `RisesSlowly` therefore allows one replica
  more than each percentage says.
* Averages are cut to integers (replica_calculator.rs:138-145), so that a load that
  cannot be dealt out evenly is never settled on: a load of 3 with a target of 2
  asks for 2 replicas when there is one, and for 1 when there are two, for ever
  (`SettlesOnMetrics` asks for a fixed number only if `Even`).
* Each patch, and each resync that meets an entry not yet due, adds one more
  entry that returns for ever, for `enqueue_hpa` does not note what it queues:
  the autoscaler is reconciled more often than `SYNC_PERIOD` says.
* The average of no metric divides by zero and ends the autoscaler (`Panic`). What
  a pod uses that is not ready is not counted as load (`CarriesTheLoad`): pods that are all
  unready are scaled down to the minimum.
* A second relist, or an event, during the kubelet's resync: `KubeletLocksBoth`. As many
  pods as the worker's queue has places, and one more: the resync fills the queue
  it alone empties.
* A service that is put over one of its name has no endpoints until a pod changes
  or a relist shows a difference (`overwrite`). The endpoints controller's own
  put, when it comes back, sets its store back to what it was; of two pods that
  change at that time one is lost. A put that failed has left the store changed,
  so that nothing differs any more and no resync repairs it, and nothing is put
  for the services after it; one that fails in a
  resync ends the controller (`TrafficArrives` without `patient`, with `fail`).
* A pod whose labels change stays among the endpoints of the services that no longer
  pick it (endpoints/main.rs:136 compares addresses only), and a service whose
  selector changes keeps the endpoints of the old one, for updates of services are
  ignored (lines 145-148). `Services` has pods whose
  addresses change and selectors that stay.
* The proxy's resync does not clear its table: a service that was deleted and
  made anew while the watch was down keeps its old address, or is removed by a
  chain that is gone, which ends the process (`KernelServesStore` without
  `Tracked`). Notifications from before the relist are handled after the resync.
* An address the user names (`give`) is not added to the pool, and the pool is
  lost when the API server restarts (`restart`): two services get one address.
* The last ingress that is deleted leaves the configuration as it was, for one
  without hosts is not written (second disjunct of `ConfigFollowsStores`).
* A function that is put over one of its name leaks the service of the old one, and
  gets no image, for its event is no creation (`FunctionsComplete`, `NothingLeftBehind`
  in worlds with `overwrite`). A watch that is lost swallows a new function for
  ever, as a resync is ignored (`lose`). A client that goes away between the two
  puts leaks a service (`hangup`). A deletion that etcd fails at is logged and the next
  object deleted, so that what it was to delete stays (`fail`; function.rs:187-199). Code
  that docker cannot build is posted as an image all the same (controller.rs:137-163).
* A function deleted while its image is built comes back with the put of its
  status, or its ReplicaSet and autoscaler stay (`FunctionsComplete`,
  `NothingLeftBehind` in hasty worlds). Its creation was answered before they existed.
* A workflow that meets a function it cannot find is reported as finished
  (workflow.rs:107), and the targets of a choice are not looked at when it is
  created.
* The router takes a service without endpoints for one without replicas and sets
  the ReplicaSet to one, whatever it has: when its view was old as the request came, when
  the autoscaler comes between its read and its patch, or when a workflow starts, which
  does not look, though route.rs:119 speaks of "0 to 1" (`ActivationKeepsScale` for
  requests that are not in `sure`).

## 5. Proofs

Assumptions on constants are the `ASSUME`s of the modules: capacities are
positive, special values are not ordinary ones (`NoRS` is no ReplicaSet, `NoPod`
no pod, `Nothing` no function, service or piece of work; targets that users ask
for are not addresses of nodes), names of services can be compared by number, and
where things are counted there are finitely many of them. No size is assumed, and
no theorem assumes anything of the worlds beyond what the property states as its
premise (`world.patient`, `env["relist"] = 0`): the same formula is checked and
proved. Three theorems have a hypothesis of their own, given where they
are described: `OnlyFullQueuesMakeCircles` (`RoomForAll`), `OnlyNeededPodsRun`
(`CompletionsGrow`) and `RemovesSlowly` (`[]Roomy`).

A property of patient worlds is proved by *stages*. In such a world users and
faults wait until nothing is under way, so that what is under way is one
disturbance and what it leads to. The invariant is a disjunction of the
stages of that round (an event is on the wire, queued, answered by a request,
...), each of which says what every copy of the object is in it; a step leads from
one stage to a next one, and the property is read off the stage in which the
step in question can happen.

* **InformerProofs.** `InformerTypeCorrect`. `HandlersFollowTheStore`:
  `HandlersCanFollow` is inductive together with `TypeOK`; the hard step is
  `Install`, which marks as `torn` the keys it changes under queued
  notifications. `SyncInvariant`: `WatchedKeyInSync` is not inductive, as it
  says nothing outside the phase "watch" and nothing of the order of events.
  `SyncInv` adds three parts: no copy is newer than etcd and equal revisions are
  equal objects (`CopiesAreOld`), a listing under way misses only what `gap`
  records (`ListingMissesOnlyGap`), events are newer than the store and in order
  (`EventsInOrder`). `InformerMirrorsEtcd` maps every
  step to one of `Mirror` or a stutter, from `SyncInv`.
* **SchedulerProofs**, for any pods, nodes, capacity, width and world.
  `SchedulerTypeCorrect`: types, and with them that queues stay within their
  capacity and counts within their width. `NoPodIsForgotten`: `NoPodForgotten`
  is not inductive, since what a watch event becomes depends on the store it
  meets: an event that changes what the store has is an update, and an update
  is not scheduled. The invariant adds that nothing but its creation happened to a
  pod without a node, which the store has, or the watch, once, or nobody saw because it fell
  between list and watch (`OnlyCreated`, `missed`), and that a binding is of one pod (`OneBinding`).
  `PodsStayBound`: `BoundOnce` from the counterpart: a creation is the first
  the watch says of a pod, and is in one place of watch, queue and binding, and in
  none once the pod has a node (`OnItsWayOnce`); without a relist nothing else
  makes an addition (`NothingRelisted`). `CacheIsExact`: `CountsExact` has two
  premises and needs an invariant for each. Where pods are only created, the
  count of a node is the number of pods the scheduler has bound to it or is
  just binding, at every moment and however creations overlap (`NoneGone`, with
  the other parts beside it). Where users and nodes take turns, stages: a pod is
  created, queued, bound, and its binding reported back; or deleted, and counted
  until that is handled; or nodes report, while nothing else is under way
  (`Still`, `NodesAlone`). That a count goes neither below zero nor past the
  width follows from counting a finite set of pods.
* **ReplicaSetProofs**, for any pods, capacity and world. `ReplicaSetTypeCorrect`:
  the type is inductive with one addition, that a deletion names a pod.
  `StaleCountsAreNoticed`: `StaleCountIsNoticed`, while the store holds a pod. It is
  inductive beside the types; a handler posts what it has just counted (`CountedOnce`),
  every later change of the store leaves an event or a resync, and none is taken
  while the request is under way. `NoScalingIsLost`, `ControllerSurvives` and
  `PodsStepTowardDesired`: `ScalingsStand`, `NeverCrashes` and
  `StepsTowardDesired`, relists included, by stages (`Calm`). Two of them are
  rounds in which the copies do not differ: a user who has read and not yet
  put (`Scaling`), and a watch that is not connected (`Relinking`). In each the pods counted by the status, those of
  the store and those in etcd differ by the one pod that is under way; this is
  what keeps `pods[0]` from an empty store and the subtraction from zero.
  `RestsOnlySettled`: in a patient world, lost watches or not, the controller is
  at rest only with as many pods as the spec asks for and a status that counts
  them: the safety half of `SettlesInTheEnd`.
* **GpuJobProofs**, for any pods, capacity, width and world. `GpuJobTypeCorrect`.
  `TemplateIsKept`: `TemplateKept` needs to know that no copy without the template
  is ever put back, but by a patch that was overtaken, which is its premise. The
  invariant orders the copies (`BareComesFirst`: the store
  is the oldest, then the events on the wire, then etcd, and once one has the
  template all later ones have it), says that while the store has none there is
  no pod nor event of one (`NothingYet`), so that a count never differs from the
  store, and that therefore all that is put has the template
  (`PutsTheTemplate`); and a patch that read a job without one read a new one, so that
  where it does put it back, it does so before anything was counted (`PatchesAreNew`). `OnlyNeededPodsRun`: `OnlyWhatIsNeeded`, for behaviours in
  which no user takes completions back (`CompletionsGrow`; the worlds of the run
  are such). Without it `completions - succeeded` wraps, and the job wants
  pods without end. The stages are those of `ReplicaSet`, with the building of the
  image before them; with them goes `NoneTooMany`: active and succeeded pods
  together are no more than the completions. `RestsOnlyCounted`: at rest the
  status counts the pods there are, and as many are active as it makes the
  controller want, for any users.
* **KubeletProofs**, for any containers, policy, faults and crashes.
  `KubeletTypeCorrect`. `TasksKeptApart`: `NoInterference`. The invariant says
  that the worker repairs only
  with the pod taken from the list and the status manager idle, which is what
  the write lock and `pods.remove` are for. `NothingLeftBehind`: `NoOrphans`. The
  deletion of a pod is the last the worker hears of it, and from when the
  informer learns of it, if it does (`missed`), until it is done it is due: in the
  queue or in the worker's hands (`Seen`, `RemovalDue`), or there is nothing to
  remove (`NothingDue`). It is not inductive by itself, because
  an update that is handled after the deletion would make the containers anew;
  that there is none follows from the order of the watch (`Line`, `Tasks`).
  `EndedForGood`: `EndedStaysEnded`. The invariant follows the pod's one life, as long as
  its watch lasts (`Watched`, `Life`: waiting for a node, told of, begun, living,
  removed), and relates the status a repair goes by,
  which may be older than docker's state, to that state: it tells only of ends
  that have happened.
  Of `KubeletLocks`, for any number of pods and events,
  `OnlyFullQueuesMakeCircles`: `CirclesNeedFullQueues`, under the hypothesis
  `RoomForAll`: `PodCount <= InboxCap` (a resync sends as many updates to
  the queue the worker itself empties), `MaxRelists <= 1`, and no behaviour with
  both events and relists, as in `KubeletLocksBoth`. The
  invariant (`LocksInv`) describes what is left of each task's program by facts
  that a program keeps when its first step is taken (`Programs`): a lock is freed
  before it is asked for again, the manager frees the store at once, a resync has
  sent as many updates as `SentBefore` says. With it go what lines and locks hold
  (`Asked`, `Granted`), and which of two stages the tasks are in: there are only
  events (`EventsOnly`), or while the worker does a resync the reflector has
  nothing to do (`RelistedOnce`). Then whoever waits for a full queue does so among
  events only, and two tasks in a circle would each hold one lock and want the
  other, which are the worker and the manager, who share the store; so a circle
  has all three tasks in it, and one of them finds no room.
* **ApiServerProofs**, of the handlers of objects, nodes and functions.
  `ApiServerTypeCorrect`, for any number of handlers at a time.
  `RecreatedOnlyInARace`: `UndoneOnlyInARace`, however many overlap: a put brings a
  deleted pod or autoscaler back only when its handler had found one before; the
  invariant (`UidInv`) says what a handler carries from its read to its put, and that
  no object is created twice.
  `NodesStayScraped`, for any nodes, labels, users' targets and faults, and at any
  step a failure: `NodesAreScraped` for one handler at a time
  and nodes that have an address and keep it. The invariant says for each step of each
  handler what is already in the file and in Prometheus: registration writes
  the target before the node, deletion removes the node before the target.
  `LabelsStay`: `LabelsKept` while no read of etcd fails; what a handler
  carries from its read to its put has the labels etcd has.
  Of `Serverless`, for any functions, names, clients and requests:
  `RouterKeepsReplicas`: `ActivationKeepsScale`, from the invariant that a
  function which a request in `sure` is about to wake has one replica at most
  (`WakesAtMostOne`). A request is in `sure` from when it came to a router
  that saw its function as it was, until the autoscaler scales that function; what
  other requests and workflows do meanwhile is to set it to one as well.
  `DeletedFunctionsAreGone` (`AbsentIsGone`) and `FunctionsAtRestAreComplete`
  (`RestedIsComplete`): the safety halves of `NothingLeftBehind` and
  `FunctionsComplete`, with their premises: no deletion fails. Who refers to a name of a service is in accord with what the service
  says (`NamesAgree`), a call has everything to itself (`CallsTakeTurns`), each
  of its steps has removed what the steps before it remove, and the controller
  has made what the step it is at comes after (`NothingLeft`, `NothingMissing`).
* **NetworkProofs**, for any services, pods, addresses and ports; of names of
  services, ports and addresses of pods there are finitely many
  (`ServicesAssumption`), and `None` is none of the values it stands beside: a
  service, a table, a set of services or the paths of a host
  (`NoServiceAssumption`, `NoTableAssumption`, `NoServicesAssumption`,
  `NoPathsAssumption`).
  `ConfigurationFollows`: `ConfigFollowsStores`. A change of either store the
  ingress controller reads leaves a notification or a resync, and both write the
  whole configuration anew; nothing else touches it.
  `KernelFollows`: `KernelServesStore`. It speaks of moments at which nothing
  waits for the proxy; the invariant (`KernelInv`) has to say what is true while
  something does. It has two witnesses that are no part of the state. One is, for
  each name, the set of forms in which the service may still be met anywhere: in
  etcd, on a wire, in a store, in a notification, in the hands of the endpoints
  controller (`Forms`, `Copies`, `Told`, `Working`). Whatever happens to its
  endpoints is in the set already, and an address is in the set of one name only,
  for it came from the pool. The other is the proxy's store as it was before each
  of the notifications that wait (`History`): every notification leads from one
  to the next. The table fits the first of these stores, except for services that
  a notification is about and for what a resync will mend (`Followed`); a service
  that store does not have is not in the table, so that the proxy never adds to
  an entry it forgot to remove. Kernel and table agree in every moment (`Sound`):
  each entry has a chain of its own, with a ladder for its endpoints, and one rule
  that leads to it, and there is nothing else; so no chain is missing when it is
  flushed, and the process does not end. A resync keeps the table, which is right
  because, where watches are lost, what the table has is still in the store with
  the address and ports it had (`Tracked`). From the invariant it follows what a
  connection meets (`ItServes`): addresses are distinct, so one chain at most
  takes it, and a ladder passes on to its rule `k` the share that rules `k`, `k+1`
  and so on divide evenly (`LaddersAreEven`).
  The proxy's operators are folds and recursive functions. That a fold takes one
  element after all the others (`FoldsFirst`), what a recursive function is at
  each step (`PassingSteps`, `WithoutSteps`), and what they do to all ports, all
  services or all rules is proved by taking a smallest finite set, or a smallest
  number, that would refute it.
  `TrafficAtRest`: `WorksAtRest`, the safety half of `TrafficArrives` and the
  statement about the three components together, while nothing fell between a list
  and its watch (`missed = {}`; once it has, `missed` stays). `RestInv` adds to the two
  invariants above that the events on its wire lead a store to what etcd
  holds (`Mirrors`), so that one with an empty wire is etcd's; that no two pods have the same address (`Apart`); and the stage the
  endpoints controller is in (`Stages`): it has nothing to do but to hear of its
  own puts, a service was created and has no endpoints yet, a pod's address
  changed and the pods the endpoints fit are the earlier ones, a resync is due, or
  it is at work, and the job takes the services it still has, one by one, from
  what the pods were to what they are, or to what they are before the job that
  follows (`AtWork`). Why it does not rest on an old copy of a service: its store
  is etcd's while it works, and its own put comes back as the event that says so.
  Without `Apart` the address of a pod that goes would be taken from one that has it too.
* **HPAProofs**, for any rules, metrics, periods and capacities.
  `AutoscalersStayScheduled`: `StaysScheduled`. It is not inductive because
  `enqueue_hpa` and the resync add no entry for a name that `in_queue` holds. The
  invariant adds that a noted name has an entry that is due (`NotedIsDue`), which
  holds though the converse does not; and that the task is a record of its four
  fields, so that a reconciliation that goes on is not idle.
  The other theorems are about what is calculated. They speak of sums over pods
  and over what happened within a period, folds whose value the provers do not
  unfold; what they need of a sum (what one element adds, what a larger summand
  or another set does to it) is proved once, by taking a smallest finite set
  that would refute it (`SmallestFinite`, from the library's well-founded
  orderings). `HPATypeCorrect`: whatever is observed, a calculation ends with an
  unsigned integer or an error, and a decision with one within the limits.
  `ReplicasCarryTheLoad`: `CarriesTheLoad`, for any observation: a calculation
  that changes the number leaves enough pods for what was measured. Rounding is
  upwards (`CeilingCovers`), and a missing pod is only ever assumed to use more
  than nothing, so that the sum the number is made for is no smaller than what
  was measured (`SumMonotone`).
  `AddsSlowly` (`RisesSlowly`) and `RemovesSlowly` (`FallsSlowly`) share the
  invariant `Slow`: as long as the autoscaler is alone, the replicas there were a
  period ago differ from those of now by what `scale_up_events` and
  `scale_down_events` hold (`Balanced`), and every recommendation of the window
  is still remembered (`KeepsWishes`). That does not suffice: `calc_scale_up_limit` subtracts
  what was added from the number of now in unsigned integers. What was
  added within the stabilisation window is still there (`StillThere`), because
  the recommendation it came from holds the number up, so with rules that are
  `Patient` nothing wraps around; for the others the property allows what the code does
  when it wraps (`Wraps`). Of the products that `f64` makes too large nothing is
  assumed but that they are of no whole percentage and should be whole
  (`RoundedUpAssumption`), so that rounding up adds one at most. `calc_scale_down_limit` adds instead, and would
  wrap where more replicas were there than an unsigned integer holds:
  `RemovesSlowly` is proved under `Roomy`, that no period started with so many.
  Policies are a finite set, replicas written by others fit in their type
  (`World`), and `NoHpa` is no autoscaler (`NoHpaAssumption`).

Only model-checked: the liveness properties (TLAPS does not prove fairness or
`ENABLED`), though the safety half of four of them is proved, as said above.
Every invariant and every action property a run checks is stated by a theorem.

## 6. Not modelled

Not modelled at all: images, volumes, logs and exec (files and streams of bytes
between docker and a socket); rkubectl (one request for each command, no state);
nginx's, docker's and Prometheus's own behaviour and formatting; workflows
beyond their first request (`workflow.rs` walks a graph of functions for one
caller, with no state that outlives the walk); what the informer's task leaves
undone when a handler returns an error and ends it.

Nor are the labels of pods and the selectors of services as they change, an ingress
without a host, which ends the ingress controller (`unwrap`, ingress/main.rs:77), or,
in the controllers' modules, the time a reflector may wait for the store's lock
between the answer to its list and its installation.

`Nodes` lets etcd fail to answer a read, `Serverless` lets it fail at the deletions
of a function, and `Kubelet`, the controllers and the scheduler let requests
fail; the other handlers of the API server see an etcd that answers. The objects of
`ApiServer` have two handlers at a time. `Nodes` takes any number of handlers at a time
(`Slot`); the run has one, because the code has no lock there and with two
neither property holds (section 4).
