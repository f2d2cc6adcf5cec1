------------------------------- MODULE Network -------------------------------
(***************************************************************************)
(* Services, the endpoints controller, rkube_proxy and the ingress         *)
(* controller together, from an ingress to the pods behind it.             *)
(***************************************************************************)
EXTENDS Endpoints, Proxy, IngressController

vars == <<serviceVars, endpointsVars, proxyVars, nginx>>

Init == InitServices /\ InitEndpoints /\ InitProxy /\ InitIngress

(* In a patient world users and lost watches wait for the handlers too.    *)
Waiting == world.patient => jobs = <<>>

Next ==
  \/ /\ Waiting
     /\ UserStep \/ \E i \in Informers : Relist(i)
     /\ UNCHANGED <<endpointsVars, proxyVars, nginx>>
  \/ InformerStep /\ UNCHANGED <<endpointsVars, proxyVars, nginx>>
  \/ (EndpointsTask \/ EndpointsFail) /\ UNCHANGED <<proxyVars, nginx>>
  \/ ProxyTask /\ UNCHANGED <<endpointsVars, nginx>>
  \/ Reconfigure /\ UNCHANGED <<endpointsVars, proxyVars>>

(* The reflectors and the three tasks run whenever they can.  The proxy    *)
(* and the ingress controller do one step for what they take.              *)
Takes(c) == TakeNote(c) \/ TakeResync(c)
Fairness ==
  /\ \A i \in Informers :
       /\ WF_vars(Receive(i) /\ UNCHANGED <<endpointsVars, proxyVars, nginx>>)
       /\ WF_listing(Connect(i))
  /\ WF_vars(EndpointsTask /\ UNCHANGED <<proxyVars, nginx>>)
  /\ WF_<<queue, resync>>(~panicked /\ Takes("proxy"))
  /\ WF_<<queue, resync>>(Takes("ingress"))

Spec == Init /\ [][Next]_vars /\ Fairness

-------------------------------------------------------------------------------
Exists(kind) == {n \in DOMAIN etcd[kind] : etcd[kind][n] # None}

(* Traffic to a path of an ingress goes to the address of its service, and *)
(* from there, evenly, to the pods the service picks.                      *)
Works ==
  /\ \A s \in Exists("svc") :
       etcd.svc[s].eps = IpsOf(etcd.pod, etcd.svc[s].picks)
  /\ Serves(etcd.svc)
  /\ Exists("ing") # {} => nginx = Config(etcd.ing, etcd.svc)

(* One thing happens at a time, and services are created under new names   *)
(* and not deleted while a watch is down.                                  *)
Orderly == /\ world.runs = Component
           /\ world.patient
           /\ world.may["fail"] = 0 /\ world.may["overwrite"] = 0
           /\ Tracked

(* When no event, notification, resync or job is left, traffic arrives,    *)
(* unless a write fell between an informer's list and its watch: none of   *)
(* the three components has missed or misread a change of the others'      *)
(* objects or of its own, whether it heard of it or listed it.             *)
WorksAtRest == Orderly /\ missed = {} /\ Delivered /\ jobs = <<>> => Works

(* Whatever services, ingresses and pods came, went or got other           *)
(* addresses, and whichever watches were lost, in the end traffic arrives, *)
(* unless a write fell between an informer's list and its watch.           *)
TrafficArrives == Orderly => <>[](missed # {} \/ Works)
===============================================================================
