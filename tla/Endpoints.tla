------------------------------ MODULE Endpoints ------------------------------
(***************************************************************************)
(* The endpoints controller (controllers/src/endpoints/main.rs, utils.rs): *)
(* one task that keeps the endpoints of services equal to the addresses of *)
(* the pods they pick.  It changes the services in its own store under the *)
(* store's write lock and puts each one whole.                             *)
(***************************************************************************)
EXTENDS Services

(* What is left of services is not mistaken for nothing locked yet.        *)
ASSUME NoServicesAssumption == \A on \in SUBSET Svc : on # None

VARIABLES
  jobs,    \* what is left of the handler that runs
  ended    \* a resync failed, which ends the task

endpointsVars == <<jobs, ended>>

Svcs == <<"endpoints", "svc">>
Pods == <<"endpoints", "pod">>

(* Add or take away one pod's address, or compute all endpoints anew; "on" *)
(* is what is left of the services it concerns, None before the lock is    *)
(* taken.                                                                  *)
Job(op, pod, ip) == [op |-> op, pod |-> pod, ip |-> ip, on |-> None]

InitEndpoints == jobs = <<>> /\ ended = FALSE

IpOf(pods, p) == IF pods[p] \in Ip THEN {pods[p]} ELSE {}
IpsOf(pods, picks) == UNION {IpOf(pods, p) : p \in picks}

(* Mutant: addresses that come later are not added.                        *)
JobsFor_DropsOnly(note) ==
  IF note.old \in Ip \ {note.new} THEN <<Job("del", note.name, note.old)>> ELSE <<>>

(* handle_notification for pods: nothing if the address stays.             *)
JobsFor(note) ==
  (IF note.old \in Ip \ {note.new} THEN <<Job("del", note.name, note.old)>> ELSE <<>>)
  \o (IF note.new \in Ip \ {note.old} THEN <<Job("add", note.name, note.new)>> ELSE <<>>)

HandlePodNote ==
  /\ jobs = <<>> /\ ~ended
  /\ TakeNote("endpoints")
  /\ Head(queue["endpoints"]).of = "pod"
  /\ jobs' = JobsFor(Head(queue["endpoints"]))
  /\ UNCHANGED <<apiVars, store, held, envVars, ended>>

(* add_enpoints: the service the event carried, with the addresses there   *)
(* are now; nothing is put when no pod matches.                            *)
HandleServiceNote ==
  LET note == Head(queue["endpoints"])
      ips == IpsOf(store[Pods], note.new.picks) IN
  /\ jobs = <<>> /\ ~ended
  /\ TakeNote("endpoints")
  /\ note.of = "svc"
  /\ IF ips = {} THEN UNCHANGED <<etcd, linkVars>>
     ELSE Put("svc", note.name, [note.new EXCEPT !.eps = @ \cup ips])
  /\ UNCHANGED <<pool, store, held, envVars, ended, jobs>>

(* A request fails: the API server refuses it, or there is no answer.      *)
Fail ==
  /\ env["fail"] < world.may["fail"]
  /\ env' = [env EXCEPT !["fail"] = @ + 1]
  /\ UNCHANGED world

(* The put for a new service fails, whether or not it arrived.  The        *)
(* handler ends there, and the error is logged.                            *)
AddFails ==
  LET note == Head(queue["endpoints"])
      ips == IpsOf(store[Pods], note.new.picks) IN
  /\ jobs = <<>> /\ ~ended
  /\ TakeNote("endpoints")
  /\ note.of = "svc"
  /\ ips # {}
  /\ \/ Put("svc", note.name, [note.new EXCEPT !.eps = @ \cup ips])
     \/ UNCHANGED <<etcd, linkVars>>
  /\ Fail
  /\ UNCHANGED <<pool, store, held, ended, jobs>>

HandleResync ==
  /\ jobs = <<>> /\ ~ended
  /\ TakeResync("endpoints")
  /\ jobs' = <<Job("sync", None, NoIp)>>
  /\ UNCHANGED <<apiVars, store, held, envVars, ended>>

(* The service as a job leaves it.                                         *)
Changed(job, svc) ==
  CASE job.op = "sync" -> [svc EXCEPT !.eps = IpsOf(store[Pods], svc.picks)]
    [] job.op = "add" /\ job.pod \in svc.picks -> [svc EXCEPT !.eps = @ \cup {job.ip}]
    [] job.op = "del" /\ job.pod \in svc.picks -> [svc EXCEPT !.eps = @ \ {job.ip}]
    [] OTHER -> svc

(* The write lock of the services' store, and for a resync the read lock   *)
(* of the pods'.  Nobody else changes the store from here on, so that the  *)
(* services to change are known.                                           *)
Lock ==
  LET job == Head(jobs)
      on == {s \in Svc : /\ store[Svcs][s] # None
                         /\ Changed(job, store[Svcs][s]) # store[Svcs][s]} IN
  /\ jobs # <<>> /\ job.on = None
  /\ IF on = {} THEN jobs' = Tail(jobs) /\ UNCHANGED held
     ELSE /\ jobs' = [jobs EXCEPT ![1].on = on]
          /\ held' = {Svcs} \cup IF job.op = "sync" THEN {Pods} ELSE {}
  /\ UNCHANGED <<apiVars, store, queue, resync, envVars, ended>>

(* The locks are given back with the last service.                         *)
Done(s) ==
  IF Head(jobs).on = {s} THEN jobs' = Tail(jobs) /\ held' = {}
  ELSE jobs' = [jobs EXCEPT ![1].on = @ \ {s}] /\ UNCHANGED held

(* update_service: the whole service, as the store has it.                 *)
Update ==
  /\ jobs # <<>> /\ Head(jobs).on # None
  /\ \E s \in Head(jobs).on :
       LET new == Changed(Head(jobs), store[Svcs][s]) IN
       /\ store' = [store EXCEPT ![Svcs][s] = new]
       /\ Put("svc", s, new)
       /\ Done(s)
  /\ UNCHANGED <<pool, queue, resync, envVars, ended>>

(* The put fails and leaves the store changed.  A refusal is logged, and   *)
(* the handler goes on; without an answer the handler ends, whether or not *)
(* the service arrived, and a resync ends the controller.                  *)
UpdateFails ==
  /\ jobs # <<>> /\ Head(jobs).on # None
  /\ Fail
  /\ \E s \in Head(jobs).on :
       LET new == Changed(Head(jobs), store[Svcs][s]) IN
       /\ store' = [store EXCEPT ![Svcs][s] = new]
       /\ \/ UNCHANGED <<etcd, linkVars>> /\ Done(s) /\ UNCHANGED ended
          \/ /\ Put("svc", s, new) \/ UNCHANGED <<etcd, linkVars>>
             /\ ended' = (Head(jobs).op = "sync")
             /\ jobs' = <<>> /\ held' = {}
  /\ UNCHANGED <<pool, queue, resync>>

EndpointsTask ==
  HandlePodNote \/ HandleServiceNote \/ HandleResync \/ Lock \/ Update

(* Requests of the controller that fail.                                   *)
EndpointsFail == AddFails \/ UpdateFails
===============================================================================
