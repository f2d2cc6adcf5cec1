------------------------------- MODULE Pipeline -------------------------------
(***************************************************************************)
(* The locks and channels between a watch and the component that uses its  *)
(* store.  For every store there is a reflector, which keeps the store's   *)
(* write lock until its notification is accepted; an informer, which moves *)
(* notifications one by one from the reflector's channel to the            *)
(* component's queue; and the component, a single task that takes from all *)
(* queues and whose handlers read the stores.  What the messages say is    *)
(* left out: Informer has it.                                              *)
(*                                                                         *)
(* The lock is tokio's RwLock: whoever asks first is served first, so a    *)
(* reader waits behind a writer that waits, also when the reader's own     *)
(* task holds the lock already.                                            *)
(***************************************************************************)
EXTENDS Naturals, Sequences

CONSTANTS
  Store,        \* the stores the component reads
  ChannelCap,   \* capacity of the reflector's channel (16 in the code)
  QueueCap,     \* capacity of the component's queue (16 in the code)
  ResyncPlaces, \* capacity of the way resync notifications take
  OnEvent,      \* [Store -> set of programs a handler of an event may run]
  OnResync,     \* [Store -> set of programs a resync handler may run]
  Burst,        \* bound: events of one store sent and not yet taken
  Relists       \* whether watches are lost, so that stores are listed again

(* What a handler does to locks: it reads a store, lets it go, or sends an *)
(* event to the store's queue, the component's own.                        *)
Op == [op : {"read", "free", "send"}, store : Store]

VARIABLES
  reflector,  \* [Store -> what the store's reflector does]
  sent,       \* [Store -> number of notifications in the reflector's channel]
  hand,       \* [Store -> whether the informer holds a notification]
  queue,      \* [Store -> number of events in the component's queue]
  due,        \* [Store -> number of resyncs on their way]
  todo,       \* what is left of the program of the handler that runs
  busy        \* a handler runs

pipelineVars == <<reflector, sent, hand, queue, due, todo, busy>>

PipelineTypeOK ==
  /\ reflector \in [Store -> {"watch", "put", "send", "list", "resync"}]
  /\ sent \in [Store -> 0 .. ChannelCap]
  /\ hand \in [Store -> BOOLEAN]
  /\ queue \in [Store -> 0 .. QueueCap]
  /\ due \in [Store -> 0 .. ResyncPlaces]
  /\ todo \in Seq(Op)
  /\ busy \in BOOLEAN

PipelineInit ==
  /\ reflector = [s \in Store |-> "watch"]
  /\ sent = [s \in Store |-> 0]
  /\ hand = [s \in Store |-> FALSE]
  /\ queue = [s \in Store |-> 0]
  /\ due = [s \in Store |-> 0]
  /\ todo = <<>>
  /\ busy = FALSE

(* The handler has read s and not let it go: what is left to do lets go of *)
(* s more often than it reads it.                                          *)
Count(op, s) == Len(SelectSeq(todo, LAMBDA o : o = [op |-> op, store |-> s]))
Reading(s) == Count("free", s) > Count("read", s)

Under(s) == (IF reflector[s] \in {"put", "send"} THEN 1 ELSE 0)
              + sent[s] + (IF hand[s] THEN 1 ELSE 0) + queue[s]

-------------------------------------------------------------------------------
(* The reflector of s.                                                     *)

(* An event arrives; the reflector asks for the write lock.                *)
Arrive(s) ==
  /\ reflector[s] = "watch"
  /\ Under(s) < Burst
  /\ reflector' = [reflector EXCEPT ![s] = "put"]
  /\ UNCHANGED <<sent, hand, queue, due, todo, busy>>

(* It has the write lock and changes the store.                            *)
Put(s) ==
  /\ reflector[s] = "put"
  /\ ~Reading(s)
  /\ reflector' = [reflector EXCEPT ![s] = "send"]
  /\ UNCHANGED <<sent, hand, queue, due, todo, busy>>

(* The channel accepts the notification; the write lock is let go.         *)
Notify(s) ==
  /\ reflector[s] = "send"
  /\ sent[s] < ChannelCap
  /\ sent' = [sent EXCEPT ![s] = @ + 1]
  /\ reflector' = [reflector EXCEPT ![s] = "watch"]
  /\ UNCHANGED <<hand, queue, due, todo, busy>>

(* The watch is lost and the store listed again: a short write lock, and a *)
(* resync, for which the lock is not needed, if the store was different.   *)
Relist(s) ==
  /\ Relists
  /\ reflector[s] = "watch"
  /\ reflector' = [reflector EXCEPT ![s] = "list"]
  /\ UNCHANGED <<sent, hand, queue, due, todo, busy>>

Listed(s) ==
  /\ reflector[s] = "list"
  /\ ~Reading(s)
  /\ \E next \in {"watch", "resync"} : reflector' = [reflector EXCEPT ![s] = next]
  /\ UNCHANGED <<sent, hand, queue, due, todo, busy>>

AnnounceResync(s) ==
  /\ reflector[s] = "resync"
  /\ due[s] < ResyncPlaces
  /\ due' = [due EXCEPT ![s] = @ + 1]
  /\ reflector' = [reflector EXCEPT ![s] = "watch"]
  /\ UNCHANGED <<sent, hand, queue, todo, busy>>

-------------------------------------------------------------------------------
(* The informer of s: it takes a notification and calls the component's    *)
(* closure, which waits for room in the component's queue.                 *)

Take(s) ==
  /\ ~hand[s]
  /\ sent[s] > 0
  /\ sent' = [sent EXCEPT ![s] = @ - 1]
  /\ hand' = [hand EXCEPT ![s] = TRUE]
  /\ UNCHANGED <<reflector, queue, due, todo, busy>>

Pass(s) ==
  /\ hand[s]
  /\ queue[s] < QueueCap
  /\ queue' = [queue EXCEPT ![s] = @ + 1]
  /\ hand' = [hand EXCEPT ![s] = FALSE]
  /\ UNCHANGED <<reflector, sent, due, todo, busy>>

-------------------------------------------------------------------------------
(* The component.                                                          *)

Start(programs) ==
  /\ ~busy
  /\ busy' = TRUE
  /\ todo' \in programs

HandleEvent(s) ==
  /\ queue[s] > 0
  /\ Start(OnEvent[s])
  /\ queue' = [queue EXCEPT ![s] = @ - 1]
  /\ UNCHANGED <<reflector, sent, hand, due>>

HandleResync(s) ==
  /\ due[s] > 0
  /\ Start(OnResync[s])
  /\ due' = [due EXCEPT ![s] = @ - 1]
  /\ UNCHANGED <<reflector, sent, hand, queue>>

Free(s) == reflector[s] \notin {"put", "send", "list"}

(* One step of the handler.                                                *)
Advance ==
  LET o == Head(todo) IN
  /\ todo # <<>>
  /\ o.op = "read" => Free(o.store)
  /\ IF o.op = "send"
       THEN /\ queue[o.store] < QueueCap
            /\ queue' = [queue EXCEPT ![o.store] = @ + 1]
       ELSE UNCHANGED queue
  /\ todo' = Tail(todo)
  /\ UNCHANGED <<reflector, sent, hand, due, busy>>

Finish ==
  /\ busy
  /\ todo = <<>>
  /\ busy' = FALSE
  /\ UNCHANGED <<reflector, sent, hand, queue, due, todo>>

-------------------------------------------------------------------------------
Reflecting(s) == Put(s) \/ Notify(s) \/ Listed(s) \/ AnnounceResync(s)
Inform(s) == Take(s) \/ Pass(s)

PipelineNext ==
  \/ \E s \in Store : \/ Arrive(s) \/ Relist(s) \/ Reflecting(s) \/ Inform(s)
                      \/ HandleEvent(s) \/ HandleResync(s)
  \/ Advance
  \/ Finish

(* Every task runs whenever it can.  The handler is served in its turn     *)
(* however often others ask for the lock, and select! prefers no queue for *)
(* ever.                                                                   *)
PipelineFairness ==
  /\ \A s \in Store : /\ WF_pipelineVars(Reflecting(s)) /\ WF_pipelineVars(Inform(s))
                      /\ SF_pipelineVars(HandleEvent(s)) /\ SF_pipelineVars(HandleResync(s))
  /\ SF_pipelineVars(Advance)
  /\ WF_pipelineVars(Finish)

PipelineSpec == PipelineInit /\ [][PipelineNext]_pipelineVars
FairPipeline == PipelineSpec /\ PipelineFairness

-------------------------------------------------------------------------------
(* Every handler returns, whatever store it reads while events and lists    *)
(* arrive: what resolve_owner's comment is about.                          *)
HandlersReturn == busy ~> ~busy
===============================================================================
