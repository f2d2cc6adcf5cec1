------------------------------- MODULE Services -------------------------------
(***************************************************************************)
(* Services, ingresses and the addresses of pods in etcd, the handlers of  *)
(* the API server that write them (api_server/src/handler/service.rs and   *)
(* ingress.rs), and the informers of the three components that act on      *)
(* them: the endpoints controller, rkube_proxy and the ingress controller. *)
(* What an informer may be relied upon for is in Informer; here it is a    *)
(* wire that is received in order or lost, and a store.  What is written   *)
(* between an informer's list and its watch passes it by; of its queue for *)
(* the store's lock nothing is said, the list is installed at once.        *)
(***************************************************************************)
EXTENDS Naturals, SequencesExt, FiniteSetsExt

CONSTANTS
  Svc, Pod, Ing,   \* names of services, pods and ingresses
  Addr, Ip,        \* addresses of services, addresses of pods
  Port,            \* ports of services
  None, NoIp,      \* no such object, a pod without an address
  QueueCap,        \* capacity of a notification channel (16 in the code)
  Worlds           \* what happens beside the components, see World

Component == {"endpoints", "proxy", "ingress"}
Kind == {"svc", "pod", "ing"}

(* The informers, by the component that runs them and what they list.      *)
Informers == {<<"endpoints", "svc">>, <<"endpoints", "pod">>, <<"proxy", "svc">>,
              <<"ingress", "svc">>, <<"ingress", "ing">>}

(* A user creates a service under a new name ("create") or an old one      *)
(* ("overwrite"), names its address ("give") or deletes it ("drop"); a pod *)
(* appears or gets its address ("start") or goes ("stop"); an ingress is   *)
(* put ("publish") or deleted ("withdraw"); a watch is lost ("relist"),    *)
(* the API server restarts ("restart"), a request fails ("fail").  A world *)
(* bounds how often each happens, and all together; in a patient one they  *)
(* wait until nothing is under way.                                        *)
Disturbance == {"create", "overwrite", "give", "drop", "start", "stop",
                "publish", "withdraw", "relist", "restart", "fail"}
World == [runs : SUBSET Component,
          selectors : SUBSET SUBSET Pod,
          offers : SUBSET SUBSET Port,
          patient : BOOLEAN,
          total : Nat,
          may : [Disturbance -> Nat]]

(* Names, ports and addresses are words of a bounded length.               *)
ASSUME ServicesAssumption ==
  /\ QueueCap \in Nat \ {0}
  /\ IsFiniteSet(Svc) /\ IsFiniteSet(Port) /\ IsFiniteSet(Ip)
  /\ Worlds \subseteq World
  /\ NoIp \notin Ip /\ None \notin Ip \cup {NoIp}

VARIABLES
  etcd,    \* [Kind -> [name -> object or None]]
  pool,    \* service addresses in use, as the API server remembers them
  wire,    \* [Informers -> watch events not yet received]
  lost,    \* informers whose watch the API server took down
  listing, \* informers that have listed and are not connected yet
  missed,  \* ghost: informers that a write ever passed by
  store,   \* [Informers -> the informer's store]
  queue,   \* [Component -> notifications sent and not yet handled]
  resync,  \* components a resync is due for
  held,    \* informers whose store a handler has locked for writing
  world,   \* the world of this behaviour
  env      \* [Disturbance -> how often it happened]

linkVars == <<wire, lost, listing, missed>>
apiVars == <<etcd, pool, linkVars>>
storeVars == <<store, queue, resync, held>>
envVars == <<world, env>>
serviceVars == <<apiVars, storeVars, envVars>>

(* A service: its selector is the set of pods it picks.                    *)
Service == [addr : Addr, ports : SUBSET Port, picks : SUBSET Pod, eps : SUBSET Ip]
ASSUME NoServiceAssumption == None \notin Service

(* An ingress: the services its paths lead to.                             *)
Ingress == (SUBSET Svc) \ {{}}

Nothing == [svc |-> [s \in Svc |-> None], pod |-> [p \in Pod |-> None],
            ing |-> [g \in Ing |-> None]]

InitServices ==
  /\ world \in Worlds
  /\ etcd = Nothing
  /\ pool = {}
  /\ wire = [i \in Informers |-> <<>>]
  /\ lost = {} /\ listing = {} /\ missed = {}
  /\ store = [i \in Informers |-> Nothing[i[2]]]
  /\ queue = [c \in Component |-> <<>>]
  /\ resync = {}
  /\ held = {}
  /\ env = [d \in Disturbance |-> 0]

Running(i) == i[1] \in world.runs

(* Nothing is under way between etcd and the components' handlers, and all *)
(* informers watch.                                                        *)
Delivered == /\ lost = {} /\ listing = {}
             /\ \A i \in Informers : wire[i] = <<>>
             /\ \A c \in Component : queue[c] = <<>>
             /\ resync = {} /\ held = {}

Disturb(d) ==
  /\ world.patient => Delivered
  /\ env[d] < world.may[d]
  /\ Cardinality(UNION {{x} \X (1 .. env[x]) : x \in Disturbance}) < world.total
  /\ env' = [env EXCEPT ![d] = @ + 1]
  /\ UNCHANGED world

-------------------------------------------------------------------------------
(* The API server.  Every write is seen, in order, by the informers of its *)
(* kind that watch.  One whose watch is down will list it, unless it just  *)
(* has listed.                                                             *)

Put(kind, name, object) ==
  /\ etcd' = [etcd EXCEPT ![kind][name] = object]
  /\ wire' = [i \in Informers |->
                IF i[2] = kind /\ Running(i) /\ i \notin lost \cup listing
                  THEN Append(wire[i], <<name, object>>)
                  ELSE wire[i]]
  /\ missed' = missed \cup {i \in listing : i[2] = kind}
  /\ UNCHANGED <<lost, listing>>

(* What users and kubelets send: it leaves the components alone.           *)
Request(d) == Disturb(d) /\ UNCHANGED <<store, queue, resync, held>>

(* gen_service_ip: an address that is not in the pool, and is from now on. *)
Draw(a) == a \notin pool /\ pool' = pool \cup {a}

(* service::create does not ask whether the name is taken, and puts a      *)
(* service without endpoints.  An address the user names is refused if it  *)
(* is in the pool; it is not added to it.                                  *)
CreateService(s, a, ports, picks) ==
  /\ \/ Draw(a) /\ Request(IF etcd.svc[s] = None THEN "create" ELSE "overwrite")
     \/ a \notin pool /\ UNCHANGED pool /\ Request("give")
  /\ Put("svc", s, [addr |-> a, ports |-> ports, picks |-> picks, eps |-> {}])

DeleteService(s) ==
  /\ etcd.svc[s] # None
  /\ Request("drop")
  /\ Put("svc", s, None)
  /\ UNCHANGED pool

(* A pod is created, its kubelet reports its address or another one, it is *)
(* deleted.  Two pods do not have one address at a time.                   *)
StartPod(p) ==
  /\ Request("start")
  /\ \/ etcd.pod[p] = None /\ Put("pod", p, NoIp)
     \/ /\ etcd.pod[p] # None
        /\ \E ip \in Ip : (\A q \in Pod : etcd.pod[q] # ip) /\ Put("pod", p, ip)
  /\ UNCHANGED pool

StopPod(p) ==
  /\ etcd.pod[p] # None
  /\ Request("stop")
  /\ Put("pod", p, None)
  /\ UNCHANGED pool

(* ingress::create, which fills in the hosts that are missing, and delete. *)
PutIngress(g, paths) ==
  /\ Request("publish")
  /\ Put("ing", g, paths)
  /\ UNCHANGED pool

DeleteIngress(g) ==
  /\ etcd.ing[g] # None
  /\ Request("withdraw")
  /\ Put("ing", g, None)
  /\ UNCHANGED pool

-------------------------------------------------------------------------------
(* The informers.                                                          *)

(* Mutant: a service that changes is not news to the ingress controller.   *)
Passes_AddsOnly(i, old, new) == i[2] = "svc" /\ i[1] # "proxy" => old = None

(* What an informer's closures pass on.  The endpoints controller is told  *)
(* of services that appear only, the others of every change.               *)
Passes(i, old, new) == i = <<"endpoints", "svc">> => old = None

(* The ingress controller's notifications say nothing but that there is    *)
(* news.                                                                   *)
Note(i, name, old, new) ==
  IF i[1] = "ingress" THEN <<>>
  ELSE [of |-> i[2], name |-> name, old |-> old, new |-> new]

(* handle_watcher installs an event and waits for room in the channel.     *)
Receive(i) ==
  LET name == Head(wire[i])[1]
      new == Head(wire[i])[2]
      old == store[i][name] IN
  /\ wire[i] # <<>>
  /\ i \notin held
  /\ wire' = [wire EXCEPT ![i] = Tail(@)]
  /\ store' = [store EXCEPT ![i][name] = new]
  /\ IF old # new /\ Passes(i, old, new)
       THEN /\ Len(queue[i[1]]) < QueueCap
            /\ queue' = [queue EXCEPT ![i[1]] = Append(@, Note(i, name, old, new))]
       ELSE UNCHANGED queue
  /\ UNCHANGED <<etcd, pool, lost, listing, missed, resync, held, envVars>>

(* A component's loop takes a notification, or learns of a resync.         *)
TakeNote(c) ==
  queue[c] # <<>> /\ queue' = [queue EXCEPT ![c] = Tail(@)] /\ UNCHANGED resync

TakeResync(c) ==
  c \in resync /\ resync' = resync \ {c} /\ UNCHANGED queue

(* The reflector lists again, which loses what is on the wire; a resync    *)
(* follows if the store was different.  In a patient world it waits for    *)
(* the handlers, but not for the events.                                   *)
List(i) ==
  /\ Running(i)
  /\ i \notin held
  /\ world.patient => queue[i[1]] = <<>> /\ resync = {}
  /\ wire' = [wire EXCEPT ![i] = <<>>]
  /\ lost' = lost \ {i}
  /\ listing' = listing \cup {i}
  /\ store' = [store EXCEPT ![i] = etcd[i[2]]]
  /\ resync' = IF store'[i] = store[i] THEN resync ELSE resync \cup {i[1]}
  /\ UNCHANGED <<etcd, pool, missed, queue, held, world>>

(* A watch is lost, with the events under way; or the API server took it   *)
(* down.                                                                   *)
Relist(i) ==
  /\ IF i \in lost THEN UNCHANGED env
     ELSE /\ env["relist"] < world.may["relist"]
          /\ env' = [env EXCEPT !["relist"] = @ + 1]
  /\ List(i)

(* The new watch sends what is written from now on.                        *)
Connect(i) ==
  /\ i \in listing
  /\ listing' = listing \ {i}
  /\ UNCHANGED <<etcd, pool, wire, lost, missed, storeVars, envVars>>

(* The API server starts anew, with an empty pool; every watch is lost.    *)
RestartApi ==
  /\ Request("restart")
  /\ pool' = {}
  /\ wire' = [i \in Informers |-> <<>>]
  /\ lost' = {i \in Informers : Running(i)}
  /\ listing' = {}
  /\ UNCHANGED <<etcd, missed>>

UserStep ==
  \/ \E s \in Svc : \/ DeleteService(s)
                    \/ \E a \in Addr, ports \in world.offers, picks \in world.selectors :
                         CreateService(s, a, ports, picks)
  \/ \E p \in Pod : StartPod(p) \/ StopPod(p)
  \/ \E g \in Ing : DeleteIngress(g) \/ \E paths \in Ingress : PutIngress(g, paths)
  \/ RestartApi

InformerStep == \E i \in Informers : Receive(i) \/ Connect(i)
===============================================================================
