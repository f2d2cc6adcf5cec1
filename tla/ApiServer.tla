------------------------------- MODULE ApiServer -------------------------------
(***************************************************************************)
(* The API server's handlers (api_server/src/handler) on one object of     *)
(* each kind that several parties write: a pod, a ReplicaSet, a GPU job,   *)
(* and a horizontal pod autoscaler; nodes are in Nodes.  etcd executes     *)
(* single gets, puts and deletes; a handler that needs two of them lets    *)
(* other handlers run in between, for the server keeps no lock and         *)
(* compares no revision.                                                   *)
(*                                                                         *)
(* An object is its uid, its spec and its status.  Controllers and         *)
(* kubelets put objects they have built from a copy in an informer's       *)
(* store, which may be any value the object ever had.                      *)
(***************************************************************************)
EXTENDS Naturals, FiniteSets

CONSTANTS
  Spec0,         \* the spec objects are created with
  Specs,         \* specs or node names that are asked for later
  Statuses,      \* statuses that are reported
  None,          \* no such object
  MaxInFlight,   \* bound: handlers between their first and last etcd call
  MaxCreates,    \* bound: uids given out
  MaxRequests    \* bound: requests other than creations

ASSUME ApiServerAssumption ==
  /\ MaxInFlight \in Nat /\ MaxCreates \in Nat /\ MaxRequests \in Nat

Kind == {"pod", "rs", "gpujob", "hpa"}
Uid == 1 .. MaxCreates
Object == [uid : Uid, spec : Specs \cup {Spec0}, status : Statuses]

VARIABLES
  etcd,       \* [Kind -> Object or None]
  pending,    \* handlers that have read and not yet written
  uids,       \* number of uids given out
  requests,   \* number of requests received
  seen,       \* ghost: [Kind -> values the object ever had]
  deleted     \* ghost: uids of objects whose deletion was acknowledged

vars == <<etcd, pending, uids, requests, seen, deleted>>

(* A handler about to put an object: what it has read and what it will put. *)
Handler == [kind : Kind, got : Object \cup {None}, put : Object \cup {None}]

TypeOK ==
  /\ etcd \in [Kind -> Object \cup {None}]
  /\ pending \subseteq Handler
  /\ uids \in 0 .. MaxCreates
  /\ requests \in 0 .. MaxRequests
  /\ seen \in [Kind -> SUBSET Object]
  /\ deleted \subseteq Uid

Init ==
  /\ etcd = [k \in Kind |-> None]
  /\ pending = {}
  /\ uids = 0
  /\ requests = 0
  /\ seen = [k \in Kind |-> {}]
  /\ deleted = {}

-------------------------------------------------------------------------------
(* Calls of etcd.                                                          *)

Exists(k) == etcd[k] # None

(* A handler starts only while there is room for another one.              *)
Room == Cardinality(pending) < MaxInFlight

Put(k, object) ==
  /\ etcd' = [etcd EXCEPT ![k] = object]
  /\ seen' = [seen EXCEPT ![k] = @ \cup {object}]
  /\ UNCHANGED deleted

(* Deleting what is not there is an error and changes nothing.             *)
Remove(k) ==
  /\ Exists(k)
  /\ etcd' = [etcd EXCEPT ![k] = None]
  /\ deleted' = deleted \cup {etcd[k].uid}
  /\ UNCHANGED seen

Count == Room /\ requests < MaxRequests /\ requests' = requests + 1

(* A handler has made its first call and will put an object with its last. *)
Begin(k, object) ==
  /\ pending' = pending \cup {[kind |-> k, got |-> etcd[k], put |-> object]}
  /\ UNCHANGED <<etcd, seen, deleted>>

NewUid == Room /\ uids < MaxCreates /\ uids' = uids + 1

Fresh(status) == [uid |-> uids + 1, spec |-> Spec0, status |-> status]

(* The second call of a handler.                                           *)
End ==
  /\ \E h \in pending : /\ Put(h.kind, h.put)
                        /\ pending' = pending \ {h}
  /\ UNCHANGED <<uids, requests>>

-------------------------------------------------------------------------------
(* The shapes of handlers.                                                 *)

(* create: not if the name is taken.                                       *)
Create(k) ==
  /\ ~Exists(k)
  /\ NewUid
  /\ \E st \in Statuses : Begin(k, Fresh(st))
  /\ UNCHANGED requests

(* A copy with another status.                                             *)
Reported(k) == {[o EXCEPT !.status = st] : o \in seen[k], st \in Statuses}

(* Mutant: the object is put unseen.                                       *)
ReplaceExisting_Unchecked(k) ==
  /\ Count
  /\ \E o \in Reported(k) : Begin(k, o)
  /\ UNCHANGED uids

(* Put what the client sends, if there is an object to replace.            *)
ReplaceExisting(k) ==
  /\ Exists(k)
  /\ Count
  /\ \E o \in Reported(k) : Begin(k, o)
  /\ UNCHANGED uids

ReplaceBlindly(k) ==
  /\ Count
  /\ \E o \in Reported(k) : Put(k, o)
  /\ UNCHANGED <<pending, uids>>

(* patch: the object read, with the spec asked for.                        *)
Patch(k) ==
  /\ Exists(k)
  /\ Count
  /\ \E s \in Specs : Begin(k, [etcd[k] EXCEPT !.spec = s])
  /\ UNCHANGED uids

Delete(k) ==
  /\ Count
  /\ Remove(k)
  /\ UNCHANGED <<pending, uids>>

-------------------------------------------------------------------------------
(* The handlers of each kind.                                              *)

(* A pod's name is made unique, so that it is created once and unseen.     *)
PodCreate == /\ seen["pod"] = {}
             /\ NewUid
             /\ \E st \in Statuses : Put("pod", Fresh(st))
             /\ UNCHANGED <<pending, requests>>
PodReplace == ReplaceExisting("pod")
PodDelete == Delete("pod")

(* The binding puts the pod it has read with its node's name.              *)
Bind == Patch("pod")

RsCreate == Create("rs")
RsUpdate == ReplaceBlindly("rs")
RsPatch == Patch("rs")
RsDelete == Delete("rs")

GpuJobCreate == Create("gpujob")
GpuJobUpdate == ReplaceBlindly("gpujob")
GpuJobPatch == Patch("gpujob")
GpuJobDelete == Delete("gpujob")

HpaCreate == Exists("rs") /\ Create("hpa")
HpaUpdate == ReplaceExisting("hpa")
HpaPatch == Patch("hpa")
HpaDelete == Delete("hpa")

Next ==
  \/ PodCreate \/ PodReplace \/ PodDelete \/ Bind
  \/ RsCreate \/ RsUpdate \/ RsPatch \/ RsDelete
  \/ GpuJobCreate \/ GpuJobUpdate \/ GpuJobPatch \/ GpuJobDelete
  \/ HpaCreate \/ HpaUpdate \/ HpaPatch \/ HpaDelete
  \/ End

Spec == Init /\ [][Next]_vars

-------------------------------------------------------------------------------
(* A deletion undone: an object is put whose deletion was acknowledged.    *)
Recreates(k) == ~Exists(k) /\ etcd'[k] # None /\ etcd'[k].uid \in deleted

(* The put is the second call of a handler whose first had found an object.*)
FoundOne(k) ==
  \E h \in pending : /\ h.kind = k /\ h.got # None
                     /\ etcd'[k] = h.put /\ pending' = pending \ {h}

(* The deletion of a pod or an autoscaler is undone only in a race: by a   *)
(* handler that found one before the last deletion and puts after it.      *)
(* However old the copies are that kubelets and controllers put, one that  *)
(* arrives later than the deletion finds nothing and leaves it so.         *)
UndoneOnlyInARace ==
  [][\A k \in {"pod", "hpa"} : Recreates(k) => FoundOne(k)]_vars
===============================================================================
