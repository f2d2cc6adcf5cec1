------------------------------ MODULE Serverless ------------------------------
(***************************************************************************)
(* Serverless functions: the handlers of the API server that create and    *)
(* delete them (api_server/src/handler/function.rs), the controller that   *)
(* builds them (controllers/src/function/controller.rs) and the router     *)
(* that wakes them (serverless/src/router/route.rs, workflow.rs).          *)
(*                                                                         *)
(* A function is four objects: itself, a service with a name of its own, a *)
(* replica set and an autoscaler.  Three programs write them, one at a     *)
(* time, without a transaction.                                            *)
(***************************************************************************)
EXTENDS Naturals, Sequences

CONSTANTS
  Fun,          \* names of functions
  SvcName,      \* numbers, names of services in the order they are given
  Client,       \* users of the API server
  Request,      \* requests at the router
  Nothing,
  PollLimit,    \* how often a waiting handler looks again (60 in the code)
  MaxReplicas,
  Worlds

(* A user creates a function ("create"), perhaps under a name that is      *)
(* taken ("overwrite"), deletes one ("delete"), or does not wait for the   *)
(* answer, which ends the handler ("hangup").  Etcd fails to delete        *)
(* something ("fail").  The controller loses its watch ("lose") or fails   *)
(* at something ("break").  A request comes to the router ("request"), a   *)
(* workflow begins there ("workflow"), the autoscaler scales ("scale").    *)
(* In a patient world what is begun is finished first.  A router may be    *)
(* there or not.                                                           *)
Disturbance == {"create", "overwrite", "delete", "hangup", "fail", "lose", "break",
                "request", "workflow", "scale"}
World == [patient : BOOLEAN, router : BOOLEAN, may : [Disturbance -> Nat]]

Function == [svc : SvcName, image : BOOLEAN]
Service == [fun : Fun, ready : BOOLEAN]
Work == [pc : {"build", "status", "replica set", "autoscaler"}, fun : Fun, svc : SvcName]

ASSUME ServerlessAssumption ==
  /\ SvcName \subseteq Nat
  /\ PollLimit \in Nat /\ MaxReplicas \in Nat \ {0}
  /\ Worlds \subseteq World
  /\ Nothing \notin Fun \cup SvcName \cup 0 .. MaxReplicas
  /\ Nothing \notin Function \cup Service \cup Work

VARIABLES
  funcs,     \* etcd: [Fun -> [svc, image] or Nothing]
  svcs,      \* etcd: [SvcName -> [fun, ready] or Nothing], ready: has endpoints
  rss,       \* etcd: [Fun -> replicas wanted, or Nothing]
  hpas,      \* etcd: the functions with an autoscaler
  named,     \* how many names of services were given
  calls,     \* [Client -> where the handler of its call is]
  adds,      \* functions that appeared, on their way to the controller
  building,  \* the function the controller works on, or Nothing
  stores,    \* the router's stores
  reqs,      \* [Request -> where its handler is]
  sure,      \* requests that saw their function as it was, and that no
             \* scaling has overtaken (bookkeeping, no part of the code)
  world, env

etcdVars == <<funcs, svcs, rss, hpas, named>>
ctlVars == <<adds, building>>
serverlessVars ==
  <<funcs, svcs, rss, hpas, named, calls, adds, building, stores, reqs, sure, world, env>>

Idle == [pc |-> "idle"]

ServerlessInit ==
  /\ world \in Worlds
  /\ funcs = [f \in Fun |-> Nothing]
  /\ svcs = [n \in SvcName |-> Nothing]
  /\ rss = [f \in Fun |-> Nothing]
  /\ hpas = {}
  /\ named = 0
  /\ calls = [c \in Client |-> Idle]
  /\ adds = <<>>
  /\ building = Nothing
  /\ stores = [func |-> funcs, svc |-> svcs]
  /\ reqs = [r \in Request |-> Idle]
  /\ sure = {}
  /\ env = [d \in Disturbance |-> 0]

(* Its replica set wants pods of f.                                        *)
Wanted(f) == rss[f] \notin {Nothing, 0}

(* What users and the controller had to do is done.                        *)
Rested == /\ \A c \in Client : calls[c] = Idle
          /\ adds = <<>> /\ building = Nothing

Disturb(d) ==
  /\ env[d] < world.may[d]
  /\ env' = [env EXCEPT ![d] = @ + 1]
  /\ UNCHANGED world

(* Mutant: every put is an addition.                                       *)
PutFunction_Announced(f, svc, image) ==
  /\ funcs' = [funcs EXCEPT ![f] = [svc |-> svc, image |-> image]]
  /\ adds' = Append(adds, [fun |-> f, svc |-> svc])

(* A put of a function is an addition to the controller if there was none. *)
PutFunction(f, svc, image) ==
  /\ funcs' = [funcs EXCEPT ![f] = [svc |-> svc, image |-> image]]
  /\ adds' = IF funcs[f] = Nothing THEN Append(adds, [fun |-> f, svc |-> svc]) ELSE adds

-------------------------------------------------------------------------------
(* function::create: a service under a new name, the function, and then    *)
(* looking every three seconds whether it has an image.  Nobody asks       *)
(* whether there is such a function.                                       *)
CreateService(c, f) ==
  /\ calls[c] = Idle
  /\ world.patient => Rested
  /\ Disturb(IF funcs[f] = Nothing THEN "create" ELSE "overwrite")
  /\ named + 1 \in SvcName
  /\ named' = named + 1
  /\ svcs' = [svcs EXCEPT ![named + 1] = [fun |-> f, ready |-> FALSE]]
  /\ calls' = [calls EXCEPT ![c] = [pc |-> "put", fun |-> f, svc |-> named + 1]]
  /\ UNCHANGED <<funcs, rss, hpas, ctlVars, stores, reqs, sure>>

CreateFunction(c) ==
  /\ calls[c].pc = "put"
  /\ PutFunction(calls[c].fun, calls[c].svc, FALSE)
  /\ calls' = [calls EXCEPT ![c] = [pc |-> "poll", fun |-> @.fun, polls |-> 0]]
  /\ UNCHANGED <<svcs, rss, hpas, named, building, stores, reqs, sure, world, env>>

AwaitImage(c) ==
  LET call == calls[c]
      func == funcs[call.fun] IN
  /\ call.pc = "poll"
  /\ calls' = [calls EXCEPT ![c] =
                 IF func = Nothing \/ func.image \/ call.polls = PollLimit THEN Idle
                 ELSE [call EXCEPT !.polls = @ + 1]]
  /\ UNCHANGED <<etcdVars, ctlVars, stores, reqs, sure, world, env>>

(* function::delete: the service the function names, the replica set, the  *)
(* autoscaler, the function; what is not there is passed over.             *)
DeleteBegins(c, f) ==
  /\ calls[c] = Idle
  /\ world.patient => Rested
  /\ funcs[f] # Nothing
  /\ Disturb("delete")
  /\ calls' = [calls EXCEPT ![c] = [pc |-> "service", fun |-> f, svc |-> funcs[f].svc]]
  /\ UNCHANGED <<etcdVars, ctlVars, stores, reqs, sure>>

(* Mutant: the autoscaler is not deleted.                                  *)
AfterDeleting_ThreeOnly(step) ==
  CASE step = "service" -> "replica set" [] step = "replica set" -> "function"
    [] OTHER -> "end"

(* The order in which a function's objects are deleted.                    *)
AfterDeleting(step) ==
  CASE step = "service" -> "replica set" [] step = "replica set" -> "autoscaler"
    [] step = "autoscaler" -> "function" [] OTHER -> "end"

DeleteStep(c) ==
  LET step == calls[c].pc
      f == calls[c].fun IN
  /\ step \in {"service", "replica set", "autoscaler", "function"}
  /\ svcs' = IF step = "service" THEN [svcs EXCEPT ![calls[c].svc] = Nothing] ELSE svcs
  /\ rss' = IF step = "replica set" THEN [rss EXCEPT ![f] = Nothing] ELSE rss
  /\ hpas' = IF step = "autoscaler" THEN hpas \ {f} ELSE hpas
  /\ funcs' = IF step = "function" THEN [funcs EXCEPT ![f] = Nothing] ELSE funcs
  /\ calls' = [calls EXCEPT ![c] = IF AfterDeleting(step) = "end" THEN Idle
                                   ELSE [@ EXCEPT !.pc = AfterDeleting(step)]]
  /\ UNCHANGED <<named, ctlVars, stores, reqs, sure, world, env>>

(* Etcd does not delete: the handler logs it and goes on, and but for the  *)
(* function itself, the last of the four, its user hears nothing of it.    *)
DeleteFails(c) ==
  LET step == calls[c].pc IN
  /\ step \in {"service", "replica set", "autoscaler", "function"}
  /\ Disturb("fail")
  /\ calls' = [calls EXCEPT ![c] = IF AfterDeleting(step) = "end" THEN Idle
                                   ELSE [@ EXCEPT !.pc = AfterDeleting(step)]]
  /\ UNCHANGED <<etcdVars, ctlVars, stores, reqs, sure>>

(* The user goes away, and the handler with the connection; or etcd does   *)
(* not put or get what the handler asks for.                               *)
HangUp(c) ==
  /\ calls[c] # Idle
  /\ Disturb("hangup")
  /\ calls' = [calls EXCEPT ![c] = Idle]
  /\ UNCHANGED <<etcdVars, ctlVars, stores, reqs, sure>>

ApiStep == \E c \in Client : \/ CreateFunction(c) \/ AwaitImage(c) \/ DeleteStep(c)
UserStep == \E c \in Client : \/ \E f \in Fun : CreateService(c, f) \/ DeleteBegins(c, f)
                              \/ DeleteFails(c) \/ HangUp(c)

-------------------------------------------------------------------------------
(* The controller.                                                         *)

TakeFunction ==
  /\ building = Nothing
  /\ adds # <<>>
  /\ building' = [pc |-> "build", fun |-> Head(adds).fun, svc |-> Head(adds).svc]
  /\ adds' = Tail(adds)
  /\ UNCHANGED <<etcdVars, calls, stores, reqs, sure, world, env>>

(* Mutant: the autoscaler first.                                           *)
After_Swapped(step) ==
  CASE step = "build" -> "status" [] step = "status" -> "autoscaler"
    [] step = "autoscaler" -> "replica set" [] OTHER -> "end"

(* handle_function_add, from building the image to the autoscaler.         *)
After(step) ==
  CASE step = "build" -> "status" [] step = "status" -> "replica set"
    [] step = "replica set" -> "autoscaler" [] OTHER -> "end"

(* The step the controller is at is done.                                  *)
At(step) ==
  /\ building # Nothing /\ building.pc = step
  /\ building' = IF After(step) = "end" THEN Nothing
                 ELSE [building EXCEPT !.pc = After(step)]

Build ==
  /\ At("build")
  /\ UNCHANGED <<etcdVars, adds, calls, stores, reqs, sure, world, env>>

(* post_status puts the function the event carried, with its image.        *)
PostStatus ==
  /\ At("status")
  /\ PutFunction(building.fun, building.svc, TRUE)
  /\ UNCHANGED <<svcs, rss, hpas, named, calls, stores, reqs, sure, world, env>>

(* The replica set wants no pods at first; one that exists is left alone,  *)
(* and that the API server refuses is not an error here.                   *)
CreateReplicaSet ==
  /\ At("replica set")
  /\ rss' = [rss EXCEPT ![building.fun] = IF @ = Nothing THEN 0 ELSE @]
  /\ UNCHANGED <<funcs, svcs, hpas, named, adds, calls, stores, reqs, sure, world, env>>

(* hpa::create refuses an autoscaler without a target.                     *)
CreateHpa ==
  /\ At("autoscaler")
  /\ hpas' = IF rss[building.fun] = Nothing THEN hpas ELSE hpas \cup {building.fun}
  /\ UNCHANGED <<funcs, svcs, rss, named, adds, calls, stores, reqs, sure, world, env>>

(* The code cannot be fetched or laid out, docker cannot be started, a     *)
(* request has no answer: the event is given up.  Whether docker builds    *)
(* and pushes an image nobody asks; the function gets its name either way. *)
Break ==
  /\ building # Nothing
  /\ Disturb("break")
  /\ building' = Nothing
  /\ UNCHANGED <<etcdVars, adds, calls, stores, reqs, sure>>

(* The watch is lost, with what is on the wire.  The controller lists, and *)
(* has no handler for the resync that follows.                             *)
LoseWatch ==
  /\ Disturb("lose")
  /\ \E k \in 0 .. Len(adds) : adds' = SubSeq(adds, 1, k)
  /\ UNCHANGED <<etcdVars, building, calls, stores, reqs, sure>>

ControllerStep ==
  TakeFunction \/ Build \/ PostStatus \/ CreateReplicaSet \/ CreateHpa

-------------------------------------------------------------------------------
(* The router.  Its stores have no handlers; each object in them is at     *)
(* some earlier state.                                                     *)

Learn ==
  /\ world.router
  /\ \/ \E f \in Fun : /\ stores.func[f] # funcs[f]
                       /\ stores' = [stores EXCEPT !.func[f] = funcs[f]]
     \/ \E n \in SvcName : /\ stores.svc[n] # svcs[n]
                           /\ stores' = [stores EXCEPT !.svc[n] = svcs[n]]
  /\ UNCHANGED <<etcdVars, calls, ctlVars, reqs, sure, world, env>>

(* The router's view of f and its service is right, and the service has    *)
(* endpoints if f wants pods.                                              *)
SeenAsItIs(f) ==
  LET n == stores.func[f].svc IN
  /\ stores.func[f] = funcs[f] /\ stores.svc[n] = svcs[n]
  /\ svcs[n].ready = Wanted(f)

RouterGoes(r, to) ==
  /\ reqs' = [reqs EXCEPT ![r] = to]
  /\ UNCHANGED <<funcs, svcs, hpas, named, calls, ctlVars, stores>>

(* Mutant: whether there are endpoints is not looked at.                   *)
NeedActivate_Always(svc) == svc # Nothing

(* route: the function and its service must be in the stores; one without  *)
(* endpoints must be activated.                                            *)
NeedActivate(svc) == ~svc.ready

Route(r, f) ==
  LET func == stores.func[f]
      svc == stores.svc[func.svc] IN
  /\ reqs[r] = Idle
  /\ Disturb("request")
  /\ func # Nothing /\ svc # Nothing
  /\ RouterGoes(r, IF NeedActivate(svc)
                     THEN [pc |-> "get", fun |-> f, svc |-> func.svc, polls |-> 0]
                     ELSE [pc |-> "forward", svc |-> func.svc])
  /\ sure' = IF SeenAsItIs(f) THEN sure \cup {r} ELSE sure \ {r}
  /\ UNCHANGED rss

(* optimize_workflow activates every function of a workflow, whether or    *)
(* not it has endpoints, and waits for none; each is a request here.       *)
RunWorkflow(r, f) ==
  /\ reqs[r] = Idle
  /\ Disturb("workflow")
  /\ RouterGoes(r, [pc |-> "get", fun |-> f, svc |-> Nothing, polls |-> 0])
  /\ sure' = sure \ {r}
  /\ UNCHANGED rss

(* activate_rs: get, and patch with one replica.  A replica set that is    *)
(* not there is an error, which ends the request.                          *)
GetReplicaSet(r) ==
  /\ reqs[r].pc = "get"
  /\ RouterGoes(r, IF rss[reqs[r].fun] = Nothing THEN Idle ELSE [reqs[r] EXCEPT !.pc = "patch"])
  /\ UNCHANGED <<rss, sure, world, env>>

PatchReplicaSet(r) ==
  LET f == reqs[r].fun IN
  /\ reqs[r].pc = "patch"
  /\ rss' = [rss EXCEPT ![f] = IF @ = Nothing THEN Nothing ELSE 1]
  /\ RouterGoes(r, IF rss[f] = Nothing \/ reqs[r].svc = Nothing THEN Idle
                   ELSE [reqs[r] EXCEPT !.pc = "poll"])
  /\ UNCHANGED <<sure, world, env>>

(* activate: until the service has endpoints, it is gone, or it was long.  *)
AwaitEndpoints(r) ==
  LET svc == stores.svc[reqs[r].svc] IN
  /\ reqs[r].pc = "poll"
  /\ RouterGoes(r, IF svc = Nothing THEN Idle
                   ELSE IF svc.ready THEN [pc |-> "forward", svc |-> reqs[r].svc]
                   ELSE IF reqs[r].polls = PollLimit THEN Idle
                   ELSE [reqs[r] EXCEPT !.polls = @ + 1])
  /\ UNCHANGED <<rss, sure, world, env>>

(* To the service's address, if it is still there.                         *)
Forward(r) ==
  /\ reqs[r].pc = "forward"
  /\ RouterGoes(r, Idle)
  /\ UNCHANGED <<rss, sure, world, env>>

RequestStep(r) ==
  GetReplicaSet(r) \/ PatchReplicaSet(r) \/ AwaitEndpoints(r) \/ Forward(r)

-------------------------------------------------------------------------------
(* The autoscaler, from zero to MaxReplicas; and the replica set           *)
(* controller, the kubelets and the endpoints controller, as one step.     *)
Autoscale(f) ==
  /\ f \in hpas /\ rss[f] # Nothing
  /\ Disturb("scale")
  /\ \E n \in 0 .. MaxReplicas : rss' = [rss EXCEPT ![f] = n]
  /\ sure' = sure \ {r \in Request : reqs[r].pc \in {"get", "patch"} /\ reqs[r].fun = f}
  /\ UNCHANGED <<funcs, svcs, hpas, named, calls, ctlVars, stores, reqs>>

PodsFollow(n) ==
  /\ svcs[n] # Nothing
  /\ svcs[n].ready # Wanted(svcs[n].fun)
  /\ svcs' = [svcs EXCEPT ![n].ready = ~@]
  /\ UNCHANGED <<funcs, rss, hpas, named, calls, ctlVars, stores, reqs, sure, world, env>>

ServerlessNext ==
  \/ UserStep \/ ApiStep
  \/ ControllerStep \/ Break \/ LoseWatch
  \/ Learn
  \/ \E r \in Request : RequestStep(r) \/ \E f \in Fun : Route(r, f) \/ RunWorkflow(r, f)
  \/ \E f \in Fun : Autoscale(f)
  \/ \E n \in SvcName : PodsFollow(n)

(* A task that can go on does.                                             *)
Fairness ==
  /\ \A c \in Client : WF_serverlessVars(CreateFunction(c) \/ AwaitImage(c) \/ DeleteStep(c))
  /\ WF_serverlessVars(ControllerStep)
  /\ \A r \in Request : WF_serverlessVars(RequestStep(r))
  /\ WF_serverlessVars(Learn)
  /\ \A n \in SvcName : WF_serverlessVars(PodsFollow(n))

ServerlessSpec == ServerlessInit /\ [][ServerlessNext]_serverlessVars /\ Fairness

-------------------------------------------------------------------------------
Complete(f) ==
  funcs[f].image /\ svcs[funcs[f].svc] # Nothing /\ rss[f] # Nothing /\ f \in hpas

Gone(f) == /\ rss[f] = Nothing /\ f \notin hpas
           /\ \A n \in SvcName : svcs[n] # Nothing => svcs[n].fun # f

(* Users finish what they begin, and do not create over a function.        *)
Orderly == world.patient /\ world.may["overwrite"] = 0

(* A function that is there has, in the end, all its objects: three        *)
(* programs made them, and none waited for another.  A user may go away    *)
(* while the image is made.                                                *)
FunctionsComplete ==
  /\ Orderly
  /\ world.may["break"] = 0 /\ world.may["lose"] = 0
  /\ (world.may["hangup"] = 0 /\ world.may["fail"] = 0) \/ world.may["delete"] = 0
  => <>[](\A f \in Fun : funcs[f] # Nothing => Complete(f))

(* Of a function that was deleted nothing is left, whether or not its      *)
(* controller heard of it and got through with it, as long as etcd fails   *)
(* at no deletion.                                                         *)
NothingLeftBehind ==
  Orderly /\ world.may["hangup"] = 0 /\ world.may["fail"] = 0
  => <>[](\A f \in Fun : funcs[f] = Nothing => Gone(f))

(* The controller comes to rest, whoever interferes: what it writes itself *)
(* brings it no new work, but for a function deleted under its hands.      *)
BuildsEnd == <>[](building = Nothing /\ adds = <<>>)

(* A request that comes when the router sees its function as it is, the    *)
(* pods among it, takes no replicas away from it unless the autoscaler     *)
(* scales it while the request is under way; whatever other requests,      *)
(* workflows, users and the controller do meanwhile.                       *)
ActivationKeepsScale ==
  [][\A r \in sure : reqs[r].pc = "patch" /\ reqs'[r] # reqs[r] /\ rss[reqs[r].fun] # Nothing
                     => rss'[reqs[r].fun] >= rss[reqs[r].fun]]_serverlessVars
===============================================================================
