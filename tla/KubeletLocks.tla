------------------------------ MODULE KubeletLocks ------------------------------
(***************************************************************************)
(* The locks and queues of a kubelet's tasks (rkubelet/src, and the        *)
(* reflector in resources/src/informer): the reflector writes the store of *)
(* pods and keeps it locked until its notification is accepted; the pod    *)
(* worker takes updates from its queue and writes the list of pods; the    *)
(* status manager walks through the list, and looks up every pod of it in  *)
(* the store.  Kubelet has what the tasks do to pods; here only matters    *)
(* who waits for whom.                                                     *)
(*                                                                         *)
(* A task runs one program after the other, a sequence of steps on locks   *)
(* and queues.  The locks are tokio's RwLock: first come, first served.    *)
(***************************************************************************)
EXTENDS Naturals, Sequences, FiniteSets

CONSTANTS
  PodCount,     \* pods on this node, all of them in the list
  NotifyCap,    \* capacity of the reflector's channel (16 in the code)
  InboxCap,     \* capacity of the worker's queue (16 in the code)
  MaxRelists,   \* bound: lost watches, after which pods are listed again
  LockWorlds    \* what may happen in one behaviour: sets of happenings

Happening == {"events", "relists"}

ASSUME KubeletLocksAssumption ==
  /\ PodCount \in Nat
  /\ NotifyCap \in Nat \ {0} /\ InboxCap \in Nat \ {0}
  /\ MaxRelists \in Nat
  /\ LockWorlds \subseteq SUBSET Happening

Task == {"reflector", "worker", "manager"}
Lock == {"store", "pods"}
Op == [op : {"read", "write", "free"}, on : Lock]
        \cup [op : {"send"}, on : {"queue"}]
        \cup [op : {"notify", "resync"}, on : {"informer"}]

VARIABLES
  todo,      \* [Task -> what is left of the program it runs]
  held,      \* [Lock -> {<<task, "read" or "write">>}]
  waiting,   \* [Lock -> Seq of <<task, "read" or "write">>], first come first
  notifs,    \* number of notifications in the reflector's channel
  hand,      \* whether the informer holds a notification
  inbox,     \* number of updates in the worker's queue
  resyncs,   \* a resync is on its way to the worker
  relists,   \* number of lost watches
  happens    \* what may happen in this behaviour

queues == <<notifs, hand, inbox, resyncs>>
outside == <<relists, happens>>
locksVars == <<todo, held, waiting, queues, outside>>

Claim == Task \X {"read", "write"}

LocksTypeOK ==
  /\ todo \in [Task -> Seq(Op)]
  /\ held \in [Lock -> SUBSET Claim]
  /\ waiting \in [Lock -> Seq(Claim)]
  /\ notifs \in 0 .. NotifyCap
  /\ hand \in BOOLEAN
  /\ inbox \in 0 .. InboxCap
  /\ resyncs \in BOOLEAN
  /\ relists \in 0 .. MaxRelists
  /\ happens \in LockWorlds

LocksInit ==
  /\ todo = [t \in Task |-> <<>>]
  /\ held = [l \in Lock |-> {}]
  /\ waiting = [l \in Lock |-> <<>>]
  /\ notifs = 0
  /\ hand = FALSE
  /\ inbox = 0
  /\ resyncs = FALSE
  /\ relists = 0
  /\ happens \in LockWorlds

-------------------------------------------------------------------------------
(* The programs.                                                           *)

ReadLock(l) == <<[op |-> "read", on |-> l]>>
WriteLock(l) == <<[op |-> "write", on |-> l]>>
Unlock(l) == <<[op |-> "free", on |-> l]>>
Send == <<[op |-> "send", on |-> "queue"]>>
Notify == <<[op |-> "notify", on |-> "informer"]>>
Resync == <<[op |-> "resync", on |-> "informer"]>>

(* A program that does the same for each pod.                              *)
ForEachPod(program) ==
  [i \in 1 .. PodCount * Len(program) |-> program[((i - 1) % Len(program)) + 1]]

(* handle_watcher, and run after a lost watch: without a resync if the     *)
(* list brought nothing new.                                               *)
Event == WriteLock("store") \o Notify \o Unlock("store")
NewStore == WriteLock("store") \o Unlock("store")

(* handle_pod_add, handle_pod_update and handle_pod_delete; an update of   *)
(* a pod that is not in the list only reads the list.                      *)

(* Mutant: an update that failed is put back into the worker's own queue.  *)
Updates_Requeued == {WriteLock("pods") \o Unlock("pods"), Send}

Insert == WriteLock("pods") \o Unlock("pods")
Updates == {<<>>,
            Insert,
            ReadLock("pods") \o Unlock("pods"),
            ReadLock("pods") \o Unlock("pods") \o Insert \o Insert,
            WriteLock("pods") \o Unlock("pods")}

(* Mutant: two updates for each pod.                                       *)
ResyncAll_Twice ==
  ReadLock("store") \o WriteLock("pods") \o ForEachPod(Send \o Send)
    \o Unlock("store") \o Unlock("pods")

(* handle_resync sends an update for each pod to the worker's own queue.   *)
ResyncAll ==
  ReadLock("store") \o WriteLock("pods") \o ForEachPod(Send) \o Unlock("store") \o Unlock("pods")

(* run of the status manager: once through the list.                       *)
Walk == ReadLock("pods") \o ForEachPod(ReadLock("store") \o Unlock("store")) \o Unlock("pods")

-------------------------------------------------------------------------------
(* Steps of the tasks.                                                     *)

Begin(t, programs) ==
  /\ todo[t] = <<>>
  /\ \E p \in programs : todo' = [todo EXCEPT ![t] = p]

Advance(t) == todo' = [todo EXCEPT ![t] = Tail(@)]

Arrive ==
  /\ "events" \in happens
  /\ Begin("reflector", {Event})
  /\ UNCHANGED <<held, waiting, queues, outside>>

ListAgain ==
  /\ "relists" \in happens
  /\ relists < MaxRelists
  /\ relists' = relists + 1
  /\ Begin("reflector", {NewStore, NewStore \o Resync})
  /\ UNCHANGED <<held, waiting, queues, happens>>

BeginUpdate ==
  /\ inbox > 0
  /\ Begin("worker", Updates)
  /\ inbox' = inbox - 1
  /\ UNCHANGED <<held, waiting, notifs, hand, resyncs, outside>>

BeginResync ==
  /\ resyncs
  /\ Begin("worker", {ResyncAll})
  /\ resyncs' = FALSE
  /\ UNCHANGED <<held, waiting, notifs, hand, inbox, outside>>

WakeUp ==
  /\ Begin("manager", {Walk})
  /\ UNCHANGED <<held, waiting, queues, outside>>

(* A task asks for a lock and waits until it is its turn.                  *)
Waits(t, l) == \E i \in 1 .. Len(waiting[l]) : waiting[l][i][1] = t

Ask(t) ==
  LET o == Head(todo[t]) IN
  /\ todo[t] # <<>>
  /\ o.op \in {"read", "write"}
  /\ ~Waits(t, o.on)
  /\ waiting' = [waiting EXCEPT ![o.on] = Append(@, <<t, o.op>>)]
  /\ UNCHANGED <<todo, held, queues, outside>>

(* Readers share the lock; a writer has it alone.                          *)
Agree(claim, others) ==
  \A c \in others : claim[2] = "read" /\ c[2] = "read"

Grant(l) ==
  LET c == Head(waiting[l]) IN
  /\ waiting[l] # <<>>
  /\ Agree(c, held[l])
  /\ waiting' = [waiting EXCEPT ![l] = Tail(@)]
  /\ held' = [held EXCEPT ![l] = @ \cup {c}]
  /\ Advance(c[1])
  /\ UNCHANGED <<queues, outside>>

Release(t) ==
  LET o == Head(todo[t]) IN
  /\ todo[t] # <<>>
  /\ o.op = "free"
  /\ held' = [held EXCEPT ![o.on] = {c \in @ : c[1] # t}]
  /\ Advance(t)
  /\ UNCHANGED <<waiting, queues, outside>>

(* A full channel makes its sender wait.                                   *)
Deliver(t) ==
  LET o == Head(todo[t]) IN
  /\ todo[t] # <<>>
  /\ \/ /\ o.op = "notify" /\ notifs < NotifyCap
        /\ notifs' = notifs + 1
        /\ UNCHANGED <<inbox, resyncs>>
     \/ /\ o.op = "send" /\ inbox < InboxCap
        /\ inbox' = inbox + 1
        /\ UNCHANGED <<notifs, resyncs>>
     \/ /\ o.op = "resync" /\ ~resyncs
        /\ resyncs' = TRUE
        /\ UNCHANGED <<notifs, inbox>>
  /\ Advance(t)
  /\ UNCHANGED <<held, waiting, hand, outside>>

(* The informer moves notifications to the worker's queue.                 *)
Take ==
  /\ ~hand
  /\ notifs > 0
  /\ notifs' = notifs - 1
  /\ hand' = TRUE
  /\ UNCHANGED <<todo, held, waiting, inbox, resyncs, outside>>

Pass ==
  /\ hand
  /\ inbox < InboxCap
  /\ inbox' = inbox + 1
  /\ hand' = FALSE
  /\ UNCHANGED <<todo, held, waiting, notifs, resyncs, outside>>

-------------------------------------------------------------------------------
Step(t) == Ask(t) \/ Release(t) \/ Deliver(t)

LocksNext ==
  \/ Arrive \/ ListAgain
  \/ BeginUpdate \/ BeginResync \/ WakeUp
  \/ \E t \in Task : Step(t)
  \/ \E l \in Lock : Grant(l)
  \/ Take \/ Pass

(* Every task runs whenever it can, locks go to who waits for them, and    *)
(* select! prefers no channel for ever.                                    *)
LocksFairness ==
  /\ \A t \in Task : WF_locksVars(Step(t))
  /\ \A l \in Lock : WF_locksVars(Grant(l))
  /\ WF_locksVars(Take) /\ WF_locksVars(Pass)
  /\ SF_locksVars(BeginUpdate) /\ SF_locksVars(BeginResync)

LocksSpec == LocksInit /\ [][LocksNext]_locksVars
FairLocks == LocksSpec /\ LocksFairness

-------------------------------------------------------------------------------
(* Whom a task waits for: those who ask for the lock before it and, if it *)
(* is the first to ask, those who hold it in a way it cannot share; the    *)
(* worker, if its queue and all that leads there is full.                  *)
Before(t, l) ==
  LET mine == CHOOSE i \in 1 .. Len(waiting[l]) : waiting[l][i][1] = t
  IN  {waiting[l][i][1] : i \in 1 .. mine - 1}
        \cup (IF mine = 1 THEN {c[1] : c \in {c \in held[l] : ~Agree(waiting[l][1], {c})}}
              ELSE {})

WaitsFor(t) ==
  (UNION {Before(t, l) : l \in {l \in Lock : Waits(t, l)}})
    \cup (IF /\ todo[t] # <<>>
             /\ inbox = InboxCap
             /\ \/ Head(todo[t]) = Send[1]
                \/ Head(todo[t]) = Notify[1] /\ hand /\ notifs = NotifyCap
            THEN {"worker"} \cap {u \in Task : todo[u] # <<>>}
            ELSE {})

(* Tasks that wait for one another in a circle are all three of them, and  *)
(* it takes so many events that both channels are full: the reflector has  *)
(* the store locked and waits for room, the worker for the list, and the   *)
(* status manager for the store.  Locks alone, a relist and the resync     *)
(* after it never make a circle.                                           *)
CirclesNeedFullQueues ==
  \A ts \in (SUBSET Task) \ {{}} :
    (\A t \in ts : WaitsFor(t) \cap ts # {}) =>
      /\ ts = Task
      /\ "relists" \notin happens
      /\ hand /\ notifs = NotifyCap /\ inbox = InboxCap

(* A resync that has begun ends: only a resync reads the store.            *)
ResyncFinishes ==
  LET begun == Waits("worker", "store") \/ <<"worker", "read">> \in held["store"]
  IN  begun ~> ~begun
===============================================================================
