------------------------------- MODULE Informer -------------------------------
(***************************************************************************)
(* The list/watch informer every component of the cluster is built on      *)
(* (resources/src/informer).  A reflector lists a prefix of etcd, installs *)
(* the listing as its store, then follows the watch stream; each change of *)
(* the store becomes a notification on a bounded channel, and a relist     *)
(* that found the store different becomes one resync notification on a     *)
(* second channel.  The informer task takes from either channel, in any    *)
(* order, and calls the component's handlers.                              *)
(*                                                                         *)
(* An object carries, as ghost state, the etcd revision that wrote it; the *)
(* code compares contents only.  The reflector holds the store's write     *)
(* lock until a notification is accepted, so taking an event, changing the *)
(* store and queueing the notification are one step, enabled while the     *)
(* channel has room (Pipeline models the lock itself).                     *)
(***************************************************************************)
EXTENDS Naturals, Sequences

CONSTANTS
  Key,          \* uris below the listed prefix
  Content,      \* contents of an object
  Absent,       \* no object under the key
  NotifyCap,    \* capacity of the notification channel (16 in the code)
  ResyncCap,    \* capacity of the resync channel (4 in the code)
  MaxRev,       \* bound: number of writes to etcd
  MaxFaults     \* bound: number of lost or refused watch connections

ASSUME InformerAssumption ==
  /\ Absent \notin Content
  /\ NotifyCap \in Nat \ {0}
  /\ ResyncCap \in Nat \ {0}
  /\ MaxRev \in Nat
  /\ MaxFaults \in Nat

VARIABLES
  etcd,       \* [Key -> Object]
  rev,        \* ghost: etcd's revision
  phase,      \* where the reflector's loop stands
  snapshot,   \* the listing received and not yet installed
  ws,         \* watch events sent by the API server and not yet received
  store,      \* [Key -> Object]: the reflector's store
  notifs,     \* notification channel
  resyncs,    \* number of notifications in the resync channel
  faults,     \* watch connections lost or refused so far
  view,       \* ghost: [Key -> Value], what the handlers have been told
  gap,        \* ghost: keys written after the listing and before the watch
  torn        \* ghost: keys whose queued notifications a relist overtook

vars == <<etcd, rev, phase, snapshot, ws, store, notifs, resyncs, faults,
          view, gap, torn>>

Value == Content \cup {Absent}
Object == [val : Value, rev : Nat]
Event == [key : Key, obj : Object]
Notification == [key : Key, old : Value, new : Object]
Phase == {"list", "install", "resync", "connect", "watch"}

None == [k \in Key |-> [val |-> Absent, rev |-> 0]]

TypeOK ==
  /\ etcd \in [Key -> Object]
  /\ rev \in Nat
  /\ phase \in Phase
  /\ snapshot \in [Key -> Object]
  /\ ws \in Seq(Event)
  /\ store \in [Key -> Object]
  /\ notifs \in Seq(Notification)
  /\ resyncs \in 0 .. ResyncCap
  /\ faults \in Nat
  /\ view \in [Key -> Value]
  /\ gap \subseteq Key
  /\ torn \subseteq Key

Init ==
  /\ etcd = None
  /\ rev = 0
  /\ phase = "list"
  /\ snapshot = None
  /\ ws = <<>>
  /\ store = None
  /\ notifs = <<>>
  /\ resyncs = 0
  /\ faults = 0
  /\ view = [k \in Key |-> Absent]
  /\ gap = {}
  /\ torn = {}

Notified(k) == \E i \in 1 .. Len(notifs) : notifs[i].key = k

-------------------------------------------------------------------------------
(* etcd and the API server's end of the watch.                             *)

(* A put of any content, the present one included, or a delete of a        *)
(* present key.  The server forwards the event to a connected watcher;     *)
(* a write between the listing and the connection reaches nobody, for the  *)
(* watch starts at the current revision.                                   *)
Write(k, v) ==
  LET obj == [val |-> v, rev |-> rev + 1] IN
  /\ rev < MaxRev
  /\ v = Absent => etcd[k].val # Absent
  /\ rev' = rev + 1
  /\ etcd' = [etcd EXCEPT ![k] = obj]
  /\ IF phase = "watch"
       THEN /\ ws' = Append(ws, [key |-> k, obj |-> obj])
            /\ gap' = gap \ {k}
       ELSE /\ gap' = IF phase = "list" THEN gap ELSE gap \cup {k}
            /\ UNCHANGED ws
  /\ UNCHANGED <<phase, snapshot, store, notifs, resyncs, faults, view, torn>>

(* Mutant: events of the old connection are received on the new one.       *)
Disconnect_KeepsEvents ==
  /\ phase = "watch" /\ faults < MaxFaults
  /\ faults' = faults + 1 /\ phase' = "list"
  /\ UNCHANGED <<etcd, rev, snapshot, ws, store, notifs, resyncs, view, gap, torn>>

(* The connection breaks, or a message does not parse: what was sent and   *)
(* not received is lost, and the reflector lists again.                    *)
Disconnect ==
  /\ phase = "watch"
  /\ faults < MaxFaults
  /\ faults' = faults + 1
  /\ phase' = "list"
  /\ ws' = <<>>
  /\ UNCHANGED <<etcd, rev, snapshot, store, notifs, resyncs, view, gap, torn>>

-------------------------------------------------------------------------------
(* The reflector.                                                          *)

(* The lister answers; a failed listing is retried after a second and      *)
(* changes nothing.                                                        *)
List ==
  /\ phase = "list"
  /\ snapshot' = etcd
  /\ phase' = "install"
  /\ gap' = {}
  /\ UNCHANGED <<etcd, rev, ws, store, notifs, resyncs, faults, view, torn>>

(* Mutants: the listing is merged into the store,                          *)
(* which keeps what was deleted; a store that differs causes no resync.    *)
Install_KeepsDeleted ==
  LET merged == [k \in Key |-> IF snapshot[k].val = Absent THEN store[k] ELSE snapshot[k]]
      differs == {k \in Key : store[k].val # merged[k].val} IN
  /\ phase = "install"
  /\ store' = merged
  /\ phase' = IF differs # {} THEN "resync" ELSE "connect"
  /\ torn' = torn \cup {k \in differs : Notified(k)}
  /\ UNCHANGED <<etcd, rev, snapshot, ws, notifs, resyncs, faults, view, gap>>

Install_Silent ==
  /\ phase = "install"
  /\ store' = snapshot /\ phase' = "connect"
  /\ torn' = torn \cup {k \in Key : store[k].val # snapshot[k].val /\ Notified(k)}
  /\ UNCHANGED <<etcd, rev, snapshot, ws, notifs, resyncs, faults, view, gap>>

(* With the write lock: the listing replaces a store that differs from it. *)
Install ==
  LET differs == {k \in Key : store[k].val # snapshot[k].val} IN
  /\ phase = "install"
  /\ store' = snapshot
  /\ phase' = IF differs # {} THEN "resync" ELSE "connect"
  /\ torn' = torn \cup {k \in differs : Notified(k)}
  /\ UNCHANGED <<etcd, rev, snapshot, ws, notifs, resyncs, faults, view, gap>>

(* The resync is sent while the lock is free; a full channel blocks.       *)
SendResync ==
  /\ phase = "resync"
  /\ resyncs < ResyncCap
  /\ resyncs' = resyncs + 1
  /\ phase' = "connect"
  /\ UNCHANGED <<etcd, rev, snapshot, ws, store, notifs, faults, view, gap, torn>>

Connect ==
  /\ phase = "connect"
  /\ phase' = "watch"
  /\ UNCHANGED <<etcd, rev, snapshot, ws, store, notifs, resyncs, faults, view,
                 gap, torn>>

ConnectFails ==
  /\ phase = "connect"
  /\ faults < MaxFaults
  /\ faults' = faults + 1
  /\ phase' = "list"
  /\ UNCHANGED <<etcd, rev, snapshot, ws, store, notifs, resyncs, view, gap, torn>>

(* The put is already in the store, or the deleted key already is not.     *)
ReceiveKnown ==
  /\ phase = "watch"
  /\ ws # <<>>
  /\ Head(ws).obj.val = store[Head(ws).key].val
  /\ store' = [store EXCEPT ![Head(ws).key] = Head(ws).obj]
  /\ ws' = Tail(ws)
  /\ UNCHANGED <<etcd, rev, phase, snapshot, notifs, resyncs, faults, view, gap,
                 torn>>

(* Add (old absent), Update, or Delete (new absent).                       *)
ReceiveChange ==
  LET k == Head(ws).key
      obj == Head(ws).obj IN
  /\ phase = "watch"
  /\ ws # <<>>
  /\ obj.val # store[k].val
  /\ Len(notifs) < NotifyCap
  /\ store' = [store EXCEPT ![k] = obj]
  /\ notifs' = Append(notifs, [key |-> k, old |-> store[k].val, new |-> obj])
  /\ ws' = Tail(ws)
  /\ torn' = torn \ {k}
  /\ UNCHANGED <<etcd, rev, phase, snapshot, resyncs, faults, view, gap>>

-------------------------------------------------------------------------------
(* The informer task: select! takes from either channel.                   *)

Deliver ==
  /\ notifs # <<>>
  /\ view' = [view EXCEPT ![Head(notifs).key] = Head(notifs).new.val]
  /\ notifs' = Tail(notifs)
  /\ UNCHANGED <<etcd, rev, phase, snapshot, ws, store, resyncs, faults, gap, torn>>

(* Every resync handler of the components reads the store afresh.          *)
DeliverResync ==
  /\ resyncs > 0
  /\ resyncs' = resyncs - 1
  /\ view' = [k \in Key |-> store[k].val]
  /\ torn' = {k \in torn : Notified(k)}
  /\ UNCHANGED <<etcd, rev, phase, snapshot, ws, store, notifs, faults, gap>>

-------------------------------------------------------------------------------
Reflect == List \/ Install \/ SendResync \/ Connect \/ ReceiveKnown \/ ReceiveChange

Next ==
  \/ \E k \in Key, v \in Value : Write(k, v)
  \/ Disconnect
  \/ ConnectFails
  \/ Reflect
  \/ Deliver
  \/ DeliverResync

(* The reflector's task and the informer's task run whenever they can; the *)
(* users of etcd and the network owe nothing.                              *)
Fairness ==
  /\ WF_vars(Reflect)
  /\ WF_vars(Deliver)
  /\ WF_vars(DeliverResync)

Spec == Init /\ [][Next]_vars
FairSpec == Spec /\ Fairness

-------------------------------------------------------------------------------
Pending(k) == {i \in 1 .. Len(ws) : ws[i].key = k}

(* While the watch is up, every key not written in the gap between the     *)
(* listing and the connection is in the store as in etcd, or the last      *)
(* event under way for it carries what etcd holds.                         *)
WatchedKeyInSync ==
  phase = "watch" =>
    \A k \in Key \ gap :
      IF Pending(k) = {}
        THEN store[k] = etcd[k]
        ELSE \E i \in Pending(k) : /\ ws[i].obj = etcd[k]
                                   /\ \A j \in Pending(k) : j <= i

(* The inductive form of WatchedKeyInSync: no copy is newer than etcd, the *)
(* listing under way misses only what the gap records, and the events      *)
(* under way are newer than the store and in order.                        *)
NoNewer(o, p) == o.rev <= p.rev /\ (o.rev = p.rev => o = p)

CopiesAreOld ==
  \A k \in Key : etcd[k].rev <= rev /\ NoNewer(store[k], etcd[k])

ListingMissesOnlyGap ==
  /\ phase = "install" =>
       \A k \in Key : /\ NoNewer(store[k], snapshot[k])
                      /\ NoNewer(snapshot[k], etcd[k])
                      /\ k \notin gap => snapshot[k] = etcd[k]
  /\ phase \in {"resync", "connect"} => \A k \in Key \ gap : store[k] = etcd[k]

EventsInOrder ==
  /\ phase # "watch" => ws = <<>>
  /\ \A i \in 1 .. Len(ws) :
       /\ NoNewer(ws[i].obj, etcd[ws[i].key])
       /\ store[ws[i].key].rev < ws[i].obj.rev
       /\ \A j \in i + 1 .. Len(ws) : ws[i].obj.rev < ws[j].obj.rev

SyncInv ==
  CopiesAreOld /\ ListingMissesOnlyGap /\ EventsInOrder /\ WatchedKeyInSync

(* A key whose queued notifications no relist has overtaken: the last one  *)
(* queued brings the handlers to the store's content, and if none is       *)
(* queued and no resync is due, they are there already.                    *)
HandlersCanFollow ==
  \A k \in Key \ torn :
    /\ \A i \in 1 .. Len(notifs) :
         (notifs[i].key = k /\ \A j \in i + 1 .. Len(notifs) : notifs[j].key # k)
           => notifs[i].new.val = store[k].val
    /\ (~Notified(k) /\ resyncs = 0 /\ phase # "resync")
         => view[k] = store[k].val

(* The store never moves a key back to an older revision nor ahead of      *)
(* etcd, across disconnections and relists.                                *)
Mirrored == INSTANCE Mirror WITH Value <- Value, source <- etcd, copy <- store
MirrorsEtcd == Mirrored!Spec

(* Once etcd is quiet and the connection stays up, the store is etcd but   *)
(* for the keys written in the gap, and the handlers have been told so but *)
(* for the keys a relist overtook.                                         *)
EventuallySettled ==
  <>[](\A k \in Key : /\ k \notin gap => store[k] = etcd[k]
                      /\ k \notin torn => view[k] = store[k].val)
===============================================================================
