------------------------------- MODULE HPAProofs -------------------------------
(***************************************************************************)
(* Theorems about HPA, for any rules, metrics, capacities and periods and  *)
(* in every world.                                                         *)
(*                                                                         *)
(*   1. An autoscaler that the store holds is never forgotten, although    *)
(*      in_queue does not know of the entries that wait.                   *)
(*   2. A number that a calculation changes carries the measured load.     *)
(*   3. What the task writes never outruns the policies of the rules,      *)
(*      measured against the number that a period started with.            *)
(*                                                                         *)
(* The records of recommendations and of scalings are folded into sums     *)
(* and extremes, so 2 and 3 rest on lemmas about sums over finite sets,    *)
(* proved by looking at a smallest set that would refute them.             *)
(***************************************************************************)
EXTENDS HPA, FiniteSetTheorems, TLAPS

(* What the argument needs of the types: entries are counted, and the task *)
(* is a record of its four fields, whatever was calculated.                *)
QueueTypes ==
  /\ rx \in Nat
  /\ queue \in [0 .. Sync -> Nat]
  /\ DOMAIN ctl = {"at", "hpa", "current", "desired"}

(* A name noted in in_queue has an entry that is due: only the entry that  *)
(* is taken clears the note.  The converse is false.                       *)
NotedIsDue == inQueue => queue[0] > 0

(* There is an entry in the work queue.                                    *)
Queued == \E d \in 0 .. Sync : queue[d] > 0

ScheduleInv == QueueTypes /\ NotedIsDue /\ StaysScheduled

LEMMA Delays == 0 \in 0 .. Sync /\ 1 \in 0 .. Sync /\ Sync \in 0 .. Sync
BY HPAAssumption

LEMMA IdleFields == DOMAIN Idle = {"at", "hpa", "current", "desired"} /\ Idle.at = "idle"
BY DEF Idle

LEMMA ScheduleInit == Init => ScheduleInv
BY DEF Init, ScheduleInv, QueueTypes, NotedIsDue, StaysScheduled, Idle

(* enqueue_hpa leaves an entry, its own or the one that in_queue notes.    *)
LEMMA AgainQueues ==
  ASSUME QueueTypes, NotedIsDue, Again
  PROVE  (queue \in [0 .. Sync -> Nat])' /\ ctl' = Idle /\ NotedIsDue' /\ Queued'
<1>1. CASE inQueue
  BY <1>1, Delays DEF Again, QueueTypes, NotedIsDue, Queued
<1>2. CASE ~inQueue
  <2>1. queue' = [queue EXCEPT ![Sync] = queue[Sync] + 1] /\ ~inQueue' /\ ctl' = Idle
    BY <1>2 DEF Again
  <2>2. queue' \in [0 .. Sync -> Nat] /\ queue'[Sync] > 0
    BY <2>1, Delays DEF QueueTypes
  <2> QED BY <2>1, <2>2, Delays DEF QueueTypes, NotedIsDue, Queued
<1> QED BY <1>1, <1>2

(* An entry that is added at once is due.                                  *)
LEMMA EnqueuedIsDue ==
  ASSUME QueueTypes, EnqueueNow
  PROVE  (queue \in [0 .. Sync -> Nat])' /\ NotedIsDue' /\ Queued'
<1>1. queue' = [queue EXCEPT ![0] = queue[0] + 1]
  BY DEF EnqueueNow
<1>2. queue' \in [0 .. Sync -> Nat] /\ queue'[0] > 0
  BY <1>1, Delays DEF QueueTypes
<1> QED BY <1>2, Delays DEF QueueTypes, NotedIsDue, Queued

(* A reconciliation that goes on is at a step of its own; one that does    *)
(* not leaves an entry.                                                    *)
LEMMA ActGoesOn ==
  ASSUME ScheduleInv, NEW n, NEW m, Act(n, m)
  PROVE  /\ queue' \in [0 .. Sync -> Nat]
         /\ DOMAIN ctl' = {"at", "hpa", "current", "desired"}
         /\ NotedIsDue' /\ (ctl' # Idle \/ Queued')
<1> DEFINE next == [ctl EXCEPT !.current = n, !.desired = m]
<1>1. DOMAIN next = {"at", "hpa", "current", "desired"}
  BY DEF ScheduleInv, QueueTypes
<1>2. CASE ctl' = [next EXCEPT !.at = "scale"] /\ UNCHANGED queueVars
  <2>1. DOMAIN ctl' = {"at", "hpa", "current", "desired"} /\ ctl'.at = "scale"
    BY <1>1, <1>2
  <2> QED BY <2>1, <1>2, IdleFields DEF queueVars, ScheduleInv, QueueTypes, NotedIsDue
<1>3. CASE ctl' = [next EXCEPT !.at = "status"] /\ UNCHANGED queueVars
  <2>1. DOMAIN ctl' = {"at", "hpa", "current", "desired"} /\ ctl'.at = "status"
    BY <1>1, <1>3
  <2> QED BY <2>1, <1>3, IdleFields DEF queueVars, ScheduleInv, QueueTypes, NotedIsDue
<1>4. CASE Again
  BY <1>4, AgainQueues, IdleFields DEF ScheduleInv, QueueTypes
<1> QED BY <1>2, <1>3, <1>4 DEF Act

(* Users and the API server touch neither the store nor the queue.         *)
LEMMA OthersKeepSchedule ==
  ASSUME ScheduleInv,
         \/ \E n \in world.scales : ScaleByHand(n)
         \/ \E limits \in world.patches : PatchHpa(limits)
         \/ DropHpa \/ CreateHpa
  PROVE  ScheduleInv'
<1>1. UNCHANGED <<hpaStore, rx, resync, queue, inQueue, ctl>>
  BY DEF ScaleByHand, PatchHpa, DropHpa, CreateHpa, storeVars, queueVars
<1> QED BY <1>1 DEF ScheduleInv, QueueTypes, NotedIsDue, StaysScheduled

(* A new autoscaler's name is sent; a list that brings one is a resync.    *)
LEMMA InformerSchedules ==
  ASSUME ScheduleInv, ReceiveHpa \/ RelistHpas
  PROVE  ScheduleInv'
<1>1. CASE ReceiveHpa
  <2>1. UNCHANGED <<resync, queue, inQueue, ctl>>
    BY <1>1 DEF ReceiveHpa, queueVars
  <2>2. rx' = rx \/ rx' = rx + 1
    BY <1>1 DEF ReceiveHpa
  <2>3. rx' \in Nat /\ (rx > 0 => rx' > 0)
    BY <2>2 DEF ScheduleInv, QueueTypes
  <2>4. hpaStore' # NoHpa /\ hpaStore = NoHpa => rx' > 0
    BY <1>1, <2>2 DEF ReceiveHpa, ScheduleInv, QueueTypes
  <2> QED BY <2>1, <2>3, <2>4 DEF ScheduleInv, QueueTypes, NotedIsDue, StaysScheduled
<1>2. CASE RelistHpas
  <2>1. UNCHANGED <<rx, queue, inQueue, ctl>>
    BY <1>2 DEF RelistHpas, queueVars
  <2>2. resync' = (resync \/ hpaStore # hpa) /\ hpaStore' = hpa
    BY <1>2 DEF RelistHpas
  <2>3. hpaStore' = hpaStore \/ resync'
    BY <2>2
  <2>4. resync => resync'
    BY <2>2
  <2> QED BY <2>1, <2>3, <2>4 DEF ScheduleInv, QueueTypes, NotedIsDue, StaysScheduled
<1> QED BY <1>1, <1>2

(* Entries come nearer, and those that are due stay.                       *)
LEMMA TimeKeepsEntries ==
  ASSUME ScheduleInv, Tick
  PROVE  ScheduleInv'
<1>1. UNCHANGED <<hpaStore, rx, resync, inQueue, ctl>>
  BY DEF Tick, storeVars
<1>2. queue \in [0 .. Sync -> Nat] /\ Sync \in Nat \ {0}
  BY HPAAssumption DEF ScheduleInv, QueueTypes
<1>3. queue' = [d \in 0 .. Sync |-> IF d = 0 THEN queue[0] + queue[1]
                                    ELSE IF d = Sync THEN 0 ELSE queue[d + 1]]
  BY DEF Tick
<1>4. queue' \in [0 .. Sync -> Nat]
  BY <1>2, <1>3
<1>5. queue'[0] = queue[0] + queue[1]
  BY <1>3, Delays
<1>6. queue[0] \in Nat /\ queue[1] \in Nat
  BY <1>2, Delays
<1>7. ASSUME NEW d \in 0 .. Sync, queue[d] > 0 PROVE Queued'
  <2>1. CASE d \in {0, 1}
    BY <1>5, <1>6, <1>7, <2>1, Delays DEF Queued
  <2>2. CASE d \notin {0, 1}
    <3>1. d - 1 \in 0 .. Sync /\ d - 1 # 0 /\ d - 1 # Sync /\ (d - 1) + 1 = d
      BY <1>2, <2>2
    <3>2. queue'[d - 1] = queue[d]
      BY <1>3, <3>1
    <3> QED BY <1>7, <3>1, <3>2 DEF Queued
  <2> QED BY <2>1, <2>2
<1>8. (\E d \in 0 .. Sync : queue[d] > 0) => Queued'
  BY <1>7
<1>9. NotedIsDue'
  BY <1>1, <1>5, <1>6 DEF ScheduleInv, NotedIsDue
<1>10. StaysScheduled'
  BY <1>1, <1>8 DEF ScheduleInv, StaysScheduled, Queued
<1> QED BY <1>1, <1>4, <1>9, <1>10 DEF ScheduleInv, QueueTypes

(* A name that is received becomes an entry, and so does the resync of an  *)
(* autoscaler that no due entry is noted for.  Whoever takes the entry     *)
(* works on it, unless the store has nothing to work on.                   *)
LEMMA TaskTakesUp ==
  ASSUME ScheduleInv, ReceiveName \/ HandleResync \/ TakeEntry
  PROVE  ScheduleInv'
<1>0. QueueTypes /\ NotedIsDue /\ StaysScheduled
  BY DEF ScheduleInv
<1>1. CASE ReceiveName
  <2>1. /\ (queue \in [0 .. Sync -> Nat])' /\ NotedIsDue' /\ Queued'
    BY <1>0, <1>1, EnqueuedIsDue DEF ReceiveName
  <2>2. rx' \in Nat /\ ctl' = ctl
    BY <1>0, <1>1 DEF ReceiveName, QueueTypes
  <2> QED BY <1>0, <2>1, <2>2 DEF ScheduleInv, QueueTypes, StaysScheduled, Queued
<1>2. CASE HandleResync
  <2>1. UNCHANGED <<hpaStore, rx, ctl>>
    BY <1>2 DEF HandleResync
  <2>2. CASE EnqueueNow
    <3>1. /\ (queue \in [0 .. Sync -> Nat])' /\ NotedIsDue' /\ Queued'
      BY <1>0, <2>2, EnqueuedIsDue
    <3> QED BY <1>0, <2>1, <3>1 DEF ScheduleInv, QueueTypes, StaysScheduled, Queued
  <2>3. CASE UNCHANGED queueVars /\ ~(hpaStore # NoHpa /\ ~inQueue)
    <3>1. QueueTypes' /\ NotedIsDue'
      BY <1>0, <2>1, <2>3 DEF QueueTypes, NotedIsDue, queueVars
    <3>2. hpaStore' # NoHpa => queue'[0] > 0
      BY <1>0, <2>1, <2>3 DEF NotedIsDue, queueVars
    <3> QED BY <3>1, <3>2, Delays DEF ScheduleInv, StaysScheduled
  <2> QED BY <1>2, <2>2, <2>3 DEF HandleResync
<1>3. CASE TakeEntry
  <2>1. UNCHANGED <<hpaStore, rx, resync>> /\ ~inQueue' /\ queue[0] > 0
        /\ queue' = [queue EXCEPT ![0] = queue[0] - 1]
    BY <1>3 DEF TakeEntry, storeVars
  <2>2. queue' \in [0 .. Sync -> Nat]
    BY <1>0, <2>1, Delays DEF QueueTypes
  <2>3. CASE hpaStore = NoHpa
    <3>1. ctl' = ctl
      BY <1>3, <2>3 DEF TakeEntry
    <3> QED BY <1>0, <2>1, <2>2, <2>3, <3>1
            DEF ScheduleInv, QueueTypes, NotedIsDue, StaysScheduled
  <2>4. CASE hpaStore # NoHpa
    <3>1. ctl' = [Idle EXCEPT !.at = "get", !.hpa = hpaStore]
      BY <1>3, <2>4 DEF TakeEntry
    <3>2. DOMAIN ctl' = {"at", "hpa", "current", "desired"} /\ ctl'.at = "get"
      BY <3>1 DEF Idle
    <3>3. ctl' # Idle
      BY <3>2, IdleFields
    <3> QED BY <1>0, <2>1, <2>2, <3>2, <3>3
            DEF ScheduleInv, QueueTypes, NotedIsDue, StaysScheduled
  <2> QED BY <2>3, <2>4
<1> QED BY <1>1, <1>2, <1>3

(* However a reconciliation goes on or ends, it goes on, has ended the     *)
(* task, or leaves an entry for the next one.                              *)
Proceeds ==
  /\ UNCHANGED <<hpaStore, rx, resync>>
  /\ queue' \in [0 .. Sync -> Nat]
  /\ DOMAIN ctl' = {"at", "hpa", "current", "desired"}
  /\ NotedIsDue'
  /\ ctl' # Idle \/ Queued'

LEMMA ProceedingKeepsSchedule ==
  ASSUME ScheduleInv, Proceeds
  PROVE  ScheduleInv'
BY DEF ScheduleInv, Proceeds, QueueTypes, StaysScheduled, Queued

(* A step of the task that is no end: ctl.at changes, the queue does not.  *)
LEMMA StepProceeds ==
  ASSUME ScheduleInv, UNCHANGED storeVars, UNCHANGED queueVars,
         NEW a \in {"metrics", "scale", "status", "crashed"},
         NEW c, ctl' = [ctl EXCEPT !.at = a, !.current = c]
  PROVE  Proceeds
<1>1. DOMAIN ctl' = {"at", "hpa", "current", "desired"} /\ ctl'.at = a
  BY DEF ScheduleInv, QueueTypes
<1>2. ctl' # Idle
  BY <1>1, IdleFields
<1> QED BY <1>1, <1>2 DEF Proceeds, ScheduleInv, QueueTypes, NotedIsDue, storeVars, queueVars

LEMMA AtProceeds ==
  ASSUME ScheduleInv, UNCHANGED storeVars, UNCHANGED queueVars,
         NEW a \in {"metrics", "scale", "status", "crashed"},
         ctl' = [ctl EXCEPT !.at = a]
  PROVE  Proceeds
<1>1. DOMAIN ctl' = {"at", "hpa", "current", "desired"} /\ ctl'.at = a
  BY DEF ScheduleInv, QueueTypes
<1>2. ctl' # Idle
  BY <1>1, IdleFields
<1> QED BY <1>1, <1>2 DEF Proceeds, ScheduleInv, QueueTypes, NotedIsDue, storeVars, queueVars

LEMMA AgainProceeds ==
  ASSUME ScheduleInv, UNCHANGED storeVars, Again
  PROVE  Proceeds
BY AgainQueues, IdleFields DEF ScheduleInv, Proceeds, storeVars

LEMMA ActProceeds ==
  ASSUME ScheduleInv, UNCHANGED storeVars, NEW n, NEW m, Act(n, m)
  PROVE  Proceeds
BY ActGoesOn DEF Proceeds, storeVars

LEMMA TaskProceeds ==
  ASSUME ScheduleInv,
         \/ Get \/ Calculate \/ PutScale \/ PutStatus
         \/ ReadFails \/ ScaleRefused \/ ScaleUnanswered \/ StatusRefused
  PROVE  Proceeds
<1>1. CASE Get
  <2>1. UNCHANGED storeVars
    BY <1>1 DEF Get
  <2>2. CASE ctl' = [ctl EXCEPT !.at = "metrics", !.current = replicas] /\ UNCHANGED queueVars
    BY <2>1, <2>2, StepProceeds
  <2>3. CASE \E n, m : Act(n, m)
    BY <2>1, <2>3, ActProceeds
  <2> QED BY <1>1, <2>2, <2>3 DEF Get
<1>2. CASE Calculate
  <2>1. UNCHANGED storeVars
    BY <1>2 DEF Calculate
  <2>2. ASSUME NEW n, Normalize(n) PROVE Proceeds
    <3>1. CASE ctl' = [ctl EXCEPT !.at = "crashed"] /\ UNCHANGED queueVars
      BY <2>1, <3>1, AtProceeds
    <3>2. CASE Act(ctl.current, Conforming(Stabilized(n)))
      BY <2>1, <3>2, ActProceeds
    <3> QED BY <2>2, <3>1, <3>2 DEF Normalize
  <2>3. CASE Again
    BY <2>1, <2>3, AgainProceeds
  <2>4. CASE ctl' = [ctl EXCEPT !.at = "crashed"] /\ UNCHANGED queueVars
    BY <2>1, <2>4, AtProceeds
  <2> QED BY <1>2, <2>2, <2>3, <2>4 DEF Calculate
<1>3. CASE PutScale \/ ScaleRefused
  <2>1. UNCHANGED storeVars /\ UNCHANGED queueVars /\ ctl' = [ctl EXCEPT !.at = "status"]
    BY <1>3 DEF PutScale, ScaleRefused
  <2> QED BY <2>1, AtProceeds
<1>4. CASE ReadFails \/ ScaleUnanswered \/ PutStatus \/ StatusRefused
  <2>1. UNCHANGED storeVars /\ Again
    BY <1>4 DEF ReadFails, ScaleUnanswered, PutStatus, StatusRefused
  <2> QED BY <2>1, AgainProceeds
<1> QED BY <1>1, <1>2, <1>3, <1>4

(* An autoscaler that the store holds will be reconciled again: its name   *)
(* is sent, waits with some delay, or is in the task's hands; however the  *)
(* user patches, drops and creates it, whatever request fails, and         *)
(* although in_queue keeps no account of the entries enqueue_hpa adds.     *)
THEOREM AutoscalersStayScheduled == Spec => []StaysScheduled
<1>1. ScheduleInv /\ [Next]_vars => ScheduleInv'
  <2> SUFFICES ASSUME ScheduleInv, [Next]_vars PROVE ScheduleInv'
    OBVIOUS
  <2>1. CASE Task \/ ReadFails \/ ScaleRefused \/ ScaleUnanswered \/ StatusRefused
    BY <2>1, TaskTakesUp, TaskProceeds, ProceedingKeepsSchedule DEF Task
  <2>2. CASE UNCHANGED vars
    <3>1. UNCHANGED <<hpaStore, rx, resync, queue, inQueue, ctl>>
      BY <2>2 DEF vars, storeVars, queueVars
    <3> QED BY <3>1 DEF ScheduleInv, QueueTypes, NotedIsDue, StaysScheduled
  <2> QED
    BY <2>1, <2>2, OthersKeepSchedule, InformerSchedules, TimeKeepsEntries DEF Next
<1>2. ScheduleInv => StaysScheduled
  BY DEF ScheduleInv
<1> QED BY <1>1, <1>2, ScheduleInit, PTL DEF Spec

(* Induction: of the finite sets that are no example, one is smallest.     *)
LEMMA SmallestFinite ==
  ASSUME NEW S, NEW C \in SUBSET FiniteSubsetsOf(S), C # {}
  PROVE  \E u \in C : \A x \in u : (u \ {x}) \notin C
<1>1. IsWellFoundedOn(StrictSubsetOrdering(S), FiniteSubsetsOf(S))
  BY FS_StrictSubsetOrderingWellFounded
<1>2. PICK u \in C : \A y \in C : ~ (<<y, u>> \in StrictSubsetOrdering(S))
  BY <1>1, WFMin
<1>3. ASSUME NEW x \in u PROVE (u \ {x}) \notin C
  <2>1. u \in SUBSET S /\ (u \ {x}) \in SUBSET S /\ (u \ {x}) \subseteq u /\ u \ {x} # u
    BY DEF FiniteSubsetsOf
  <2>2. <<u \ {x}, u>> \in StrictSubsetOrdering(S)
    BY <2>1 DEF StrictSubsetOrdering
  <2> QED BY <1>2, <2>2
<1> QED BY <1>3

(* The smallest number of which something is false.                        *)
LEMMA SmallestNumber ==
  ASSUME NEW C \in SUBSET Nat, C # {}
  PROVE  \E n \in C : \A m \in 0 .. n - 1 : m \notin C
<1>1. PICK n \in C : \A m \in C : ~ (<<m, n>> \in OpToRel(<, Nat))
  BY WFMin, NatLessThanWellFounded
<1>2. ASSUME NEW m \in 0 .. n - 1, m \in C PROVE FALSE
  <2>1. m \in Nat /\ n \in Nat /\ m < n
    OBVIOUS
  <2>2. <<m, n>> \in OpToRel(<, Nat)
    BY <2>1 DEF OpToRel
  <2> QED BY <1>1, <1>2, <2>2
<1> QED BY <1>2

-------------------------------------------------------------------------------
(* The sum of a function over a finite set.                                *)

First(s) == CHOOSE x \in s : TRUE
Adds(g, f, S) ==
  g = [s \in SUBSET S |-> IF s = {} THEN 0 ELSE f[First(s)] + g[s \ {First(s)}]]

LEMMA SumIsOfAdds ==
  ASSUME NEW f, NEW S
  PROVE  SumFunctionOnSet(f, S) = (CHOOSE g : Adds(g, f, S))[S]
BY DEF SumFunctionOnSet, FoldFunctionOnSet, MapThenFoldSet, Adds, First

LEMMA FirstIsIn == ASSUME NEW s, s # {} PROVE First(s) \in s
BY DEF First

LEMMA AddsStep ==
  ASSUME NEW f, NEW S, NEW g, Adds(g, f, S), NEW s \in SUBSET S
  PROVE  /\ s = {} => g[s] = 0
         /\ s # {} => g[s] = f[First(s)] + g[s \ {First(s)}]
BY DEF Adds

LEMMA AddsAgree ==
  ASSUME NEW f, NEW S, NEW T, NEW g, NEW h, Adds(g, f, S), Adds(h, f, T),
         NEW s \in FiniteSubsetsOf(S \cap T)
  PROVE  g[s] = h[s]
<1> DEFINE C == {u \in FiniteSubsetsOf(S \cap T) : g[u] # h[u]}
<1>1. SUFFICES ASSUME C # {} PROVE FALSE
  OBVIOUS
<1>2. PICK u \in C : \A x \in u : (u \ {x}) \notin C
  BY <1>1, SmallestFinite
<1>3. u \in SUBSET S /\ u \in SUBSET T /\ u \in FiniteSubsetsOf(S \cap T) /\ g[u] # h[u]
  BY DEF FiniteSubsetsOf
<1>4. u # {}
  BY <1>3, AddsStep
<1>5. First(u) \in u
  BY <1>4, FirstIsIn
<1>6. u \ {First(u)} \in FiniteSubsetsOf(S \cap T)
  BY <1>3, FS_RemoveElement DEF FiniteSubsetsOf
<1>7. g[u \ {First(u)}] = h[u \ {First(u)}]
  BY <1>2, <1>5, <1>6
<1>8. g[u] = f[First(u)] + g[u \ {First(u)}] /\ h[u] = f[First(u)] + h[u \ {First(u)}]
  BY <1>3, <1>4, AddsStep
<1> QED BY <1>3, <1>7, <1>8

LEMMA AddsSubset ==
  ASSUME NEW f, NEW S, NEW g, Adds(g, f, S), NEW T \in SUBSET S
  PROVE  Adds([s \in SUBSET T |-> g[s]], f, T)
<1> DEFINE h == [s \in SUBSET T |-> g[s]]
<1>1. ASSUME NEW s \in SUBSET T
      PROVE  h[s] = IF s = {} THEN 0 ELSE f[First(s)] + h[s \ {First(s)}]
  <2>1. s \in SUBSET S /\ s \ {First(s)} \in SUBSET T
    OBVIOUS
  <2> QED BY <2>1, AddsStep
<1>2. h = [s \in SUBSET T |-> IF s = {} THEN 0 ELSE f[First(s)] + h[s \ {First(s)}]]
  BY <1>1
<1> QED BY <1>2 DEF Adds

LEMMA AddsExists ==
  ASSUME NEW f, NEW S, IsFiniteSet(S)
  PROVE  \E g : Adds(g, f, S)
<1> DEFINE C == {u \in FiniteSubsetsOf(S) : ~ \E g : Adds(g, f, u)}
<1>1. SUFFICES ASSUME C # {} PROVE FALSE
  BY DEF FiniteSubsetsOf
<1>2. PICK u \in C : \A x \in u : (u \ {x}) \notin C
  BY <1>1, SmallestFinite
<1>3. u \in SUBSET S /\ IsFiniteSet(u) /\ ~ \E g : Adds(g, f, u)
  BY DEF FiniteSubsetsOf
<1> DEFINE a(t) == CHOOSE g : Adds(g, f, t)
           less(s) == s \ {First(s)}
           G == [s \in SUBSET u |-> IF s = {} THEN 0 ELSE f[First(s)] + a(less(s))[less(s)]]
<1>4. ASSUME NEW t \in SUBSET u, t # u PROVE Adds(a(t), f, t)
  <2>1. PICK x \in u : x \notin t
    BY <1>4
  <2>2. u \ {x} \in FiniteSubsetsOf(S)
    BY <1>3, FS_RemoveElement DEF FiniteSubsetsOf
  <2>3. PICK g : Adds(g, f, u \ {x})
    BY <1>2, <2>2
  <2>4. t \in SUBSET (u \ {x})
    BY <2>1
  <2>5. \E h : Adds(h, f, t)
    BY <2>3, <2>4, AddsSubset
  <2> QED BY <2>5
<1> HIDE DEF a, C
<1>5. ASSUME NEW s \in SUBSET u, s # {} PROVE less(s) \in SUBSET u /\ less(s) # u
  <2>1. First(s) \in s
    BY <1>5, FirstIsIn
  <2> QED BY <2>1
<1>6. ASSUME NEW t \in SUBSET u, t # u PROVE G[t] = a(t)[t]
  <2>1. Adds(a(t), f, t) /\ t \in SUBSET t
    BY <1>4, <1>6
  <2>2. CASE t = {}
    <3>1. PICK h : h = a(t)
      OBVIOUS
    <3>2. Adds(h, f, t)
      BY <2>1, <3>1
    <3>3. h[t] = 0
      BY <2>1, <2>2, <3>2, AddsStep
    <3> QED BY <2>2, <3>1, <3>3
  <2>3. CASE t # {}
    <3>1. less(t) \in SUBSET u /\ less(t) # u /\ less(t) \in SUBSET t
      BY <1>5, <2>3
    <3>2. Adds(a(less(t)), f, less(t))
      BY <1>4, <3>1
    <3>3. less(t) \in FiniteSubsetsOf(t \cap less(t))
      <4>1. IsFiniteSet(less(t))
        BY <1>3, <3>1, FS_Subset
      <4> QED BY <4>1, <3>1 DEF FiniteSubsetsOf
    <3>4. a(t)[less(t)] = a(less(t))[less(t)]
      BY <2>1, <3>2, <3>3, AddsAgree
    <3>5. a(t)[t] = f[First(t)] + a(t)[less(t)]
      BY <2>1, <2>3, AddsStep
    <3> QED BY <2>3, <3>4, <3>5
  <2> QED BY <2>2, <2>3
<1>7. G = [s \in SUBSET u |-> IF s = {} THEN 0 ELSE f[First(s)] + G[s \ {First(s)}]]
  <2>1. ASSUME NEW s \in SUBSET u
        PROVE  G[s] = IF s = {} THEN 0 ELSE f[First(s)] + G[s \ {First(s)}]
    BY <1>5, <1>6
  <2> HIDE DEF a, less
  <2> QED BY <2>1
<1>8. Adds(G, f, u)
  BY <1>7 DEF Adds
<1> QED BY <1>3, <1>8

(* What SumFunctionOnSet does, by the element it takes first.              *)
LEMMA SumFirst ==
  ASSUME NEW f, NEW S, IsFiniteSet(S)
  PROVE  /\ S = {} => SumFunctionOnSet(f, S) = 0
         /\ S # {} => SumFunctionOnSet(f, S)
                        = f[First(S)] + SumFunctionOnSet(f, S \ {First(S)})
<1> DEFINE T == S \ {First(S)}
           g == CHOOSE g : Adds(g, f, S)
           h == CHOOSE h : Adds(h, f, T)
<1>1. Adds(g, f, S)
  BY AddsExists
<1>2. IsFiniteSet(T)
  BY FS_RemoveElement
<1>3. Adds(h, f, T)
  BY <1>2, AddsExists
<1>4. SumFunctionOnSet(f, S) = g[S] /\ SumFunctionOnSet(f, T) = h[T]
  BY SumIsOfAdds
<1>5. T \in FiniteSubsetsOf(S \cap T)
  BY <1>2 DEF FiniteSubsetsOf
<1> HIDE DEF g, h
<1>6. g[T] = h[T]
  BY <1>1, <1>3, <1>5, AddsAgree
<1>7. S \in SUBSET S /\ (S = {} => g[S] = 0) /\ (S # {} => g[S] = f[First(S)] + g[T])
  BY <1>1, AddsStep
<1> QED BY <1>4, <1>6, <1>7

Numbers(f, S) == \A x \in S : f[x] \in Nat

LEMMA SumIsNatural ==
  ASSUME NEW f, NEW S, IsFiniteSet(S), Numbers(f, S)
  PROVE  SumFunctionOnSet(f, S) \in Nat
<1> DEFINE C == {u \in FiniteSubsetsOf(S) : SumFunctionOnSet(f, u) \notin Nat}
<1>1. SUFFICES ASSUME C # {} PROVE FALSE
  BY DEF FiniteSubsetsOf
<1>2. PICK u \in C : \A x \in u : (u \ {x}) \notin C
  BY <1>1, SmallestFinite
<1>3. u \in SUBSET S /\ IsFiniteSet(u) /\ SumFunctionOnSet(f, u) \notin Nat
  BY DEF FiniteSubsetsOf
<1>4. u # {} /\ SumFunctionOnSet(f, u) = f[First(u)] + SumFunctionOnSet(f, u \ {First(u)})
  <2>1. IsFiniteSet(u)
    BY <1>3
  <2>2. u = {} => SumFunctionOnSet(f, u) = 0
    BY <2>1, SumFirst
  <2>3. u # {}
    BY <1>3, <2>2
  <2> QED BY <2>1, <2>3, SumFirst
<1>5. First(u) \in u
  BY <1>4, FirstIsIn
<1>6. SumFunctionOnSet(f, u \ {First(u)}) \in Nat
  BY <1>2, <1>3, <1>5, FS_RemoveElement DEF FiniteSubsetsOf
<1> QED BY <1>3, <1>4, <1>5, <1>6 DEF Numbers

(* Any element may be taken first.                                         *)
LEMMA SumRemove ==
  ASSUME NEW f, NEW S, IsFiniteSet(S), Numbers(f, S), NEW x \in S
  PROVE  SumFunctionOnSet(f, S) = f[x] + SumFunctionOnSet(f, S \ {x})
<1> DEFINE Sum(s) == SumFunctionOnSet(f, s)
           C == {u \in FiniteSubsetsOf(S) : \E y \in u : Sum(u) # f[y] + Sum(u \ {y})}
<1>1. SUFFICES ASSUME C # {} PROVE FALSE
  BY DEF FiniteSubsetsOf
<1>2. PICK u \in C : \A y \in u : (u \ {y}) \notin C
  BY <1>1, SmallestFinite
<1>3. u \in SUBSET S /\ IsFiniteSet(u)
  BY DEF FiniteSubsetsOf
<1>4. PICK y \in u : Sum(u) # f[y] + Sum(u \ {y})
  OBVIOUS
<1> DEFINE c == First(u)
<1>5. c \in u /\ Sum(u) = f[c] + Sum(u \ {c})
  BY <1>3, <1>4, SumFirst, FirstIsIn
<1> HIDE DEF c
<1>6. c # y
  BY <1>4, <1>5
<1>7. u \ {c} \in FiniteSubsetsOf(S) /\ u \ {y} \in FiniteSubsetsOf(S)
  BY <1>3, FS_RemoveElement DEF FiniteSubsetsOf
<1>8. y \in u \ {c} /\ c \in u \ {y}
  BY <1>5, <1>6
<1>9. Sum(u \ {c}) = f[y] + Sum((u \ {c}) \ {y})
  BY <1>2, <1>5, <1>7, <1>8
<1>10. Sum(u \ {y}) = f[c] + Sum((u \ {y}) \ {c})
  BY <1>2, <1>7, <1>8
<1>11. (u \ {c}) \ {y} = (u \ {y}) \ {c}
  OBVIOUS
<1>12. Sum((u \ {y}) \ {c}) \in Nat /\ f[y] \in Nat /\ f[c] \in Nat
  <2>1. IsFiniteSet((u \ {y}) \ {c}) /\ Numbers(f, (u \ {y}) \ {c})
    BY <1>3, FS_RemoveElement DEF Numbers
  <2> QED BY <1>3, <1>5, <2>1, SumIsNatural DEF Numbers
<1>13. Sum(u) = f[c] + (f[y] + Sum((u \ {y}) \ {c}))
  BY <1>5, <1>9, <1>11
<1>14. f[y] + Sum(u \ {y}) = f[y] + (f[c] + Sum((u \ {y}) \ {c}))
  BY <1>10
<1> HIDE DEF Sum
<1>15. f[c] + (f[y] + Sum((u \ {y}) \ {c})) = f[y] + (f[c] + Sum((u \ {y}) \ {c}))
  BY <1>12
<1> QED BY <1>4, <1>13, <1>14, <1>15

(* More elements, and greater ones, have a greater sum.                    *)
LEMMA SumMonotone ==
  ASSUME NEW f, NEW g, NEW S, NEW T, IsFiniteSet(T), S \subseteq T,
         Numbers(f, S), Numbers(g, T), \A x \in S : f[x] <= g[x]
  PROVE  SumFunctionOnSet(f, S) <= SumFunctionOnSet(g, T)
<1> DEFINE C == {u \in FiniteSubsetsOf(T) :
                   ~ (SumFunctionOnSet(f, S \cap u) <= SumFunctionOnSet(g, u))}
<1>1. ASSUME C # {} PROVE FALSE
  <2>1. PICK u \in C : \A x \in u : (u \ {x}) \notin C
    BY <1>1, SmallestFinite
  <2>2. u \in SUBSET T /\ IsFiniteSet(u) /\ Numbers(g, u)
    BY DEF FiniteSubsetsOf, Numbers
  <2>3. /\ S \cap u \in SUBSET u /\ IsFiniteSet(S \cap u) /\ Numbers(f, S \cap u)
    BY <2>2, FS_Subset DEF Numbers
  <2>4. ~ (SumFunctionOnSet(f, S \cap u) <= SumFunctionOnSet(g, u))
    OBVIOUS
  <2>5. u # {}
    <3>1. ASSUME u = {} PROVE FALSE
      <4>1. SumFunctionOnSet(g, u) = 0
        BY <2>2, <3>1, SumFirst
      <4>2. S \cap u = {}
        BY <3>1
      <4>3. SumFunctionOnSet(f, S \cap u) = 0
        BY <2>3, <4>2, SumFirst
      <4> QED BY <2>4, <4>1, <4>3
    <3> QED BY <3>1
  <2>6. PICK x \in u : TRUE
    BY <2>5
  <2> DEFINE v == u \ {x}
  <2>7. v \in FiniteSubsetsOf(T) /\ Numbers(g, v) /\ IsFiniteSet(v)
    BY <2>2, FS_RemoveElement DEF FiniteSubsetsOf, Numbers
  <2>8. SumFunctionOnSet(f, S \cap v) <= SumFunctionOnSet(g, v)
    BY <2>1, <2>7
  <2>9. SumFunctionOnSet(g, u) = g[x] + SumFunctionOnSet(g, v) /\ g[x] \in Nat
    BY <2>2, SumRemove DEF Numbers
  <2>10. SumFunctionOnSet(g, v) \in Nat
    BY <2>7, SumIsNatural
  <2>11. IsFiniteSet(S \cap v) /\ Numbers(f, S \cap v)
    BY <2>7, FS_Subset DEF Numbers
  <2>12. SumFunctionOnSet(f, S \cap v) \in Nat
    BY <2>11, SumIsNatural
  <2>13. CASE x \in S
    <3>1. (S \cap u) \ {x} = S \cap v /\ x \in S \cap u
      BY <2>13
    <3>2. SumFunctionOnSet(f, S \cap u) = f[x] + SumFunctionOnSet(f, S \cap v)
      BY <2>3, <3>1, SumRemove
    <3>3. f[x] \in Nat /\ f[x] <= g[x]
      BY <2>13 DEF Numbers
    <3> HIDE DEF v
    <3> QED BY <2>4, <2>8, <2>9, <2>10, <2>12, <3>2, <3>3
  <2>14. CASE x \notin S
    <3>1. S \cap u = S \cap v
      BY <2>14
    <3> HIDE DEF v
    <3> QED BY <2>4, <2>8, <2>9, <2>10, <2>12, <3>1
  <2> QED BY <2>13, <2>14
<1>2. T \in FiniteSubsetsOf(T) /\ S \cap T = S
  BY DEF FiniteSubsetsOf
<1> QED BY <1>1, <1>2

-------------------------------------------------------------------------------
(* Arithmetic.                                                             *)

LEMMA ProductsGrow ==
  ASSUME NEW a \in Nat, NEW b \in Nat, NEW c \in Nat, NEW d \in Nat, a <= b, c <= d
  PROVE  a * c \in Nat /\ b * d \in Nat /\ a * c <= b * d
<1>1. PICK e \in Nat : b = a + e
  <2>1. b - a \in Nat /\ b = a + (b - a)
    OBVIOUS
  <2> QED BY <2>1
<1>2. PICK f \in Nat : d = c + f
  <2>1. d - c \in Nat /\ d = c + (d - c)
    OBVIOUS
  <2> QED BY <2>1
<1>3. b * d = a * c + a * f + e * c + e * f
  BY <1>1, <1>2
<1>4. a * c \in Nat /\ a * f \in Nat /\ e * c \in Nat /\ e * f \in Nat
  OBVIOUS
<1> QED BY <1>3, <1>4

(* What is left of a division is less than the divisor.                    *)
LEMMA Division ==
  ASSUME NEW a \in Nat, NEW b \in Nat \ {0}
  PROVE  /\ a \div b \in Nat
         /\ (a \div b) * b <= a
         /\ (a \div b) * b > a - b
OBVIOUS

LEMMA CeilingCovers ==
  ASSUME NEW a \in Nat, NEW b \in Nat \ {0}
  PROVE  /\ Ceiling(<<a, b>>) \in Nat
         /\ Ceiling(<<a, b>>) * b >= a
<1>1. a + b - 1 \in Nat
  OBVIOUS
<1> DEFINE q == (a + b - 1) \div b
<1>2. q \in Nat /\ q * b > (a + b - 1) - b
  BY <1>1, Division
<1>3. Ceiling(<<a, b>>) = q
  BY DEF Ceiling
<1> HIDE DEF q
<1>4. q * b \in Nat
  BY <1>2
<1> QED BY <1>2, <1>3, <1>4

LEMMA CeilingGrows ==
  ASSUME NEW a \in Nat, NEW c \in Nat, NEW b \in Nat \ {0}, a <= c
  PROVE  Ceiling(<<a, b>>) <= Ceiling(<<c, b>>)
<1> DEFINE q == (a + b - 1) \div b
           r == (c + b - 1) \div b
<1>1. a + b - 1 \in Nat /\ c + b - 1 \in Nat
  OBVIOUS
<1>2. q \in Nat /\ q * b <= a + b - 1
  BY <1>1, Division
<1>3. r \in Nat /\ r * b > (c + b - 1) - b
  BY <1>1, Division
<1>4. Ceiling(<<a, b>>) = q /\ Ceiling(<<c, b>>) = r
  BY DEF Ceiling
<1> HIDE DEF q, r
<1>5. ASSUME r < q PROVE FALSE
  <2>1. r + 1 <= q /\ r + 1 \in Nat
    BY <1>2, <1>3, <1>5
  <2>2. (r + 1) * b <= q * b
    BY <2>1, <1>2, ProductsGrow
  <2>3. (r + 1) * b = r * b + b
    BY <1>3
  <2>4. r * b \in Nat /\ q * b \in Nat
    BY <1>2, <1>3
  <2> QED BY <1>2, <1>3, <2>2, <2>3, <2>4
<1> QED BY <1>2, <1>3, <1>4, <1>5

-------------------------------------------------------------------------------
(* What a calculation promises.                                            *)

LEMMA PodsAreFinite ==
  ASSUME NEW o, o.pods \in Seq(PodSeen)
  PROVE  /\ IsFiniteSet(DOMAIN o.pods)
         /\ \A i \in DOMAIN o.pods : o.pods[i] \in PodSeen
         /\ Counted(o) \subseteq DOMAIN o.pods /\ IsFiniteSet(Counted(o))
         /\ Missing(o) \subseteq DOMAIN o.pods /\ IsFiniteSet(Missing(o))
         /\ IsFiniteSet(Counted(o) \cup Missing(o))
<1>1. DOMAIN o.pods = 1 .. Len(o.pods) /\ Len(o.pods) \in Nat
  OBVIOUS
<1>2. IsFiniteSet(DOMAIN o.pods)
  BY <1>1, FS_Interval
<1>3. \A i \in DOMAIN o.pods : o.pods[i] \in PodSeen
  OBVIOUS
<1>4. Counted(o) \subseteq DOMAIN o.pods /\ Missing(o) \subseteq DOMAIN o.pods
  BY DEF Counted, Missing, Stored, Measured
<1> QED BY <1>2, <1>3, <1>4, FS_Subset, FS_Union

(* No assumption about the missing pods takes anything from the load.      *)
LEMMA AssumingAddsLoad ==
  ASSUME NEW o, o.pods \in Seq(PodSeen), NEW assumed,
         \A i \in DOMAIN o.pods : assumed[i] \in Nat
  PROVE  LET sum == SumFunctionOnSet(Usage(o, assumed), Counted(o) \cup Missing(o))
         IN  LoadOf(o) \in Nat /\ sum \in Nat /\ LoadOf(o) <= sum
<1> DEFINE f == Usage(o, [i \in DOMAIN o.pods |-> 0])
           g == Usage(o, assumed)
           all == Counted(o) \cup Missing(o)
<1>1. \A i \in DOMAIN o.pods : o.pods[i].usage \in Nat
  BY PodsAreFinite DEF PodSeen
<1>2. \A i \in DOMAIN o.pods : f[i] \in Nat /\ g[i] \in Nat /\ f[i] <= g[i]
  BY <1>1 DEF Usage
<1>3. all \subseteq DOMAIN o.pods /\ IsFiniteSet(all) /\ Counted(o) \subseteq all
      /\ IsFiniteSet(Counted(o))
  BY PodsAreFinite
<1> HIDE DEF f, g, all
<1>4. Numbers(f, Counted(o)) /\ Numbers(g, all) /\ \A i \in Counted(o) : f[i] <= g[i]
  BY <1>2, <1>3 DEF Numbers
<1>5. SumFunctionOnSet(f, Counted(o)) <= SumFunctionOnSet(g, all)
  BY <1>3, <1>4, SumMonotone
<1>6. SumFunctionOnSet(f, Counted(o)) \in Nat /\ SumFunctionOnSet(g, all) \in Nat
  BY <1>3, <1>4, SumIsNatural
<1> QED BY <1>5, <1>6 DEF f, g, all, LoadOf

LEMMA AssumedIsNatural ==
  ASSUME NEW o \in Observation, o.source # "function", NEW ratio
  PROVE  /\ o.pods \in Seq(PodSeen)
         /\ \A i \in DOMAIN o.pods : Assumed(o, ratio)[i] \in Nat
<1>1. o.pods \in Seq(PodSeen) /\ o.target \in Nat
  BY DEF Observation
<1>2. \A i \in DOMAIN o.pods : o.pods[i].request \in Nat
  BY <1>1, PodsAreFinite DEF PodSeen
<1> QED BY <1>1, <1>2 DEF Assumed

LEMMA RequestsAreNatural ==
  ASSUME NEW o, o.pods \in Seq(PodSeen)
  PROVE  /\ Requested(o) \in Nat /\ IsFiniteSet(Known(o))
         /\ Cardinality(Known(o)) \in Nat
         /\ Cardinality(Counted(o) \cup Missing(o)) \in Nat
         /\ Cardinality(Known(o)) <= Cardinality(Counted(o) \cup Missing(o))
<1>1. Known(o) \subseteq Counted(o) \cup Missing(o) /\ IsFiniteSet(Counted(o) \cup Missing(o))
  BY PodsAreFinite DEF Known
<1>2. IsFiniteSet(Known(o))
  BY <1>1, FS_Subset
<1>3. \A i \in DOMAIN o.pods : RequestOf(o)[i] \in Nat
  BY PodsAreFinite DEF PodSeen, RequestOf
<1>4. Numbers(RequestOf(o), Known(o))
  BY <1>1, <1>3, PodsAreFinite DEF Numbers
<1> QED BY <1>1, <1>2, <1>4, SumIsNatural, FS_Subset, FS_CardinalityType DEF Requested

(* The ratio that is calculated with, and the number before it is held     *)
(* against the direction.                                                  *)
FirstRatio(o) == Ratio(o, Usage(o, [i \in DOMAIN o.pods |-> 0]), Counted(o))
LastRatio(o) ==
  Ratio(o, Usage(o, Assumed(o, FirstRatio(o))), Counted(o) \cup Missing(o))
Unturned(o) ==
  LET r == LastRatio(o) IN
  Ceiling(<<r[1] * Cardinality(Counted(o) \cup Missing(o)), r[2]>>)

LEMMA NumberIsUnturned ==
  ASSUME NEW o, NEW current, CalcPodReplicas(o, current).end = "number",
         CalcPodReplicas(o, current).n # current
  PROVE  /\ CalcPodReplicas(o, current).n = Unturned(o)
         /\ o.source = "value" => Counted(o) # {}
BY DEF CalcPodReplicas, Error, Panic, Number, Unturned, LastRatio, FirstRatio

(* The usage that the last ratio is made of.                               *)
AssumedLoad(o) ==
  SumFunctionOnSet(Usage(o, Assumed(o, FirstRatio(o))), Counted(o) \cup Missing(o))

LEMMA UtilizationCarries ==
  ASSUME NEW o \in Observation, o.source = "utilization", Requested(o) > 0
  PROVE  /\ Unturned(o) \in Nat
         /\ Unturned(o) * Requested(o) * o.target >= 100 * LoadOf(o) * Cardinality(Known(o))
<1> DEFINE U == AssumedLoad(o)
           R == Requested(o)
           N == Cardinality(Counted(o) \cup Missing(o))
           K == Cardinality(Known(o))
           L == LoadOf(o)
           T == o.target
<1>1. o.pods \in Seq(PodSeen) /\ T \in Nat \ {0}
  BY DEF Observation
<1>2. L \in Nat /\ U \in Nat /\ L <= U
  BY <1>1, AssumedIsNatural, AssumingAddsLoad DEF AssumedLoad
<1>3. R \in Nat \ {0} /\ K \in Nat /\ N \in Nat /\ K <= N
  BY <1>1, RequestsAreNatural
<1>4. LastRatio(o) = <<100 * U, R * T>>
  BY <1>3 DEF LastRatio, Ratio, UtilizationRatio, AssumedLoad, Requested, Known
<1>5. Unturned(o) = Ceiling(<<100 * U * N, R * T>>)
  BY <1>4 DEF Unturned
<1> HIDE DEF U, R, N, K, L, T
<1>6. R * T \in Nat \ {0}
  BY <1>1, <1>3
<1>7. 100 * U \in Nat /\ 100 * L \in Nat /\ 100 * L <= 100 * U
  BY <1>2
<1>8. (100 * L) * K \in Nat /\ (100 * U) * N \in Nat /\ (100 * L) * K <= (100 * U) * N
  BY <1>3, <1>7, ProductsGrow
<1>9. Unturned(o) \in Nat /\ Unturned(o) * (R * T) >= (100 * U) * N
  BY <1>5, <1>6, <1>8, CeilingCovers
<1>10. Unturned(o) * R * T = Unturned(o) * (R * T)
  BY <1>1, <1>3, <1>9
<1>11. Unturned(o) * (R * T) \in Nat
  BY <1>6, <1>9
<1>12. Unturned(o) * R * T >= (100 * L) * K
  BY <1>8, <1>9, <1>10, <1>11
<1> QED BY <1>9, <1>12 DEF R, T, L, K

LEMMA ValueCarries ==
  ASSUME NEW o \in Observation, o.source = "value", o.target > 0, Counted(o) # {}
  PROVE  /\ Unturned(o) \in Nat
         /\ Unturned(o) * o.target > LoadOf(o) - Cardinality(Counted(o) \cup Missing(o))
<1> DEFINE U == AssumedLoad(o)
           N == Cardinality(Counted(o) \cup Missing(o))
           L == LoadOf(o)
           T == o.target
           q == U \div N
<1>1. o.pods \in Seq(PodSeen) /\ T \in Nat \ {0}
  BY DEF Observation
<1>2. L \in Nat /\ U \in Nat /\ L <= U
  BY <1>1, AssumedIsNatural, AssumingAddsLoad DEF AssumedLoad
<1>3. N \in Nat \ {0}
  <2>1. IsFiniteSet(Counted(o) \cup Missing(o)) /\ Counted(o) \cup Missing(o) # {}
    BY <1>1, PodsAreFinite
  <2> QED BY <2>1, FS_CardinalityType, FS_EmptySet
<1>4. LastRatio(o) = <<q, T>>
  BY <1>1 DEF LastRatio, Ratio, ValueRatio, AssumedLoad
<1>5. Unturned(o) = Ceiling(<<q * N, T>>)
  BY <1>4 DEF Unturned
<1> HIDE DEF U, N, L, T
<1>6. q \in Nat /\ q * N > U - N
  BY <1>2, <1>3, Division
<1> HIDE DEF q
<1>7. q * N \in Nat
  BY <1>3, <1>6
<1>8. Unturned(o) \in Nat /\ Unturned(o) * T >= q * N
  BY <1>1, <1>5, <1>7, CeilingCovers
<1>9. Unturned(o) * T \in Nat
  BY <1>1, <1>8
<1>10. Unturned(o) * T > L - N
  BY <1>2, <1>3, <1>6, <1>7, <1>8, <1>9
<1> QED BY <1>8, <1>10 DEF L, N, T

LEMMA FunctionCarries ==
  ASSUME NEW o \in Observation, o.source = "function", NEW current \in Nat \ {0}
  PROVE  /\ CalcFunctionReplicas(o, current).n \in Nat
         /\ CalcFunctionReplicas(o, current).n * o.target > o.total - current
<1> DEFINE q == o.total \div current
           n == CalcFunctionReplicas(o, current).n
           T == o.target
           A == o.total
<1>1. T \in Nat \ {0} /\ A \in Nat
  BY DEF Observation
<1>2. n = Ceiling(<<current * q, T>>)
  BY DEF CalcFunctionReplicas, Number
<1> HIDE DEF n, T, A
<1>3. q \in Nat /\ q * current > A - current
  BY <1>1, Division DEF A
<1> HIDE DEF q
<1>4. current * q \in Nat /\ current * q = q * current
  BY <1>3
<1>5. n \in Nat /\ n * T >= current * q
  BY <1>1, <1>2, <1>4, CeilingCovers
<1>6. n * T \in Nat
  BY <1>1, <1>5
<1>7. n * T > A - current
  BY <1>1, <1>3, <1>4, <1>5, <1>6
<1> QED BY <1>5, <1>7 DEF n, T, A

(* Any calculation carries the load, with any metrics, pods and target.    *)
LEMMA CalculationCarries ==
  ASSUME NEW o \in Observation, NEW current \in Nat \ {0}
  PROVE  Carries(o, current)
<1>1. CASE o.source = "utilization"
  BY <1>1, NumberIsUnturned, UtilizationCarries DEF Carries, CalcReplicas
<1>2. CASE o.source = "value"
  BY <1>2, NumberIsUnturned, ValueCarries DEF Carries, CalcReplicas
<1>3. CASE o.source = "function"
  BY <1>3, FunctionCarries DEF Carries, CalcReplicas
<1> QED BY <1>1, <1>2, <1>3 DEF Observation

-------------------------------------------------------------------------------
(* The greatest and the least of finitely many numbers.                    *)

LEMMA GreatestExists ==
  ASSUME NEW S \in SUBSET Int, IsFiniteSet(S), S # {}
  PROVE  /\ \E x \in S : \A y \in S : x >= y
         /\ \E x \in S : \A y \in S : x =< y
<1> DEFINE C == {u \in FiniteSubsetsOf(S) :
                   u # {} /\ ~ (/\ \E x \in u : \A y \in u : x >= y
                                /\ \E x \in u : \A y \in u : x =< y)}
<1>1. SUFFICES ASSUME C # {} PROVE FALSE
  BY DEF FiniteSubsetsOf
<1>2. PICK u \in C : \A x \in u : (u \ {x}) \notin C
  BY <1>1, SmallestFinite
<1>3. PICK z \in u : TRUE
  OBVIOUS
<1>4. u \in SUBSET Int /\ IsFiniteSet(u) /\ z \in Int
  BY <1>3 DEF FiniteSubsetsOf
<1>5. u # {z}
  BY <1>4
<1>6. u \ {z} # {} /\ u \ {z} \in FiniteSubsetsOf(S)
  BY <1>3, <1>4, <1>5, FS_RemoveElement DEF FiniteSubsetsOf
<1>7. /\ \E x \in u \ {z} : \A y \in u \ {z} : x >= y
      /\ \E x \in u \ {z} : \A y \in u \ {z} : x =< y
  BY <1>2, <1>3, <1>6
<1>8. PICK a \in u \ {z} : \A y \in u \ {z} : a >= y
  BY <1>7
<1>9. PICK b \in u \ {z} : \A y \in u \ {z} : b =< y
  BY <1>7
<1>10. \E x \in u : \A y \in u : x >= y
  <2>1. CASE a >= z
    BY <1>8, <2>1
  <2>2. CASE z >= a
    <3>1. \A y \in u : z >= y
      BY <1>4, <1>8, <2>2
    <3> QED BY <1>3, <3>1
  <2> QED BY <1>4, <1>8, <2>1, <2>2
<1>11. \E x \in u : \A y \in u : x =< y
  <2>1. CASE b =< z
    BY <1>9, <2>1
  <2>2. CASE z =< b
    <3>1. \A y \in u : z =< y
      BY <1>4, <1>9, <2>2
    <3> QED BY <1>3, <3>1
  <2> QED BY <1>4, <1>9, <2>1, <2>2
<1> QED BY <1>10, <1>11

LEMMA Extremes ==
  ASSUME NEW S \in SUBSET Int, IsFiniteSet(S), S # {}
  PROVE  /\ Max(S) \in S /\ \A y \in S : Max(S) >= y
         /\ Min(S) \in S /\ \A y \in S : Min(S) =< y
BY GreatestExists DEF Max, Min

LEMMA FewAreFinite ==
  ASSUME NEW a, NEW b, NEW c
  PROVE  IsFiniteSet({a, b}) /\ IsFiniteSet({a, b, c})
<1>1. IsFiniteSet({a})
  BY FS_Singleton
<1>2. IsFiniteSet({a} \cup {b})
  BY <1>1, FS_AddElement
<1>3. IsFiniteSet(({a} \cup {b}) \cup {c})
  BY <1>2, FS_AddElement
<1>4. {a, b} = {a} \cup {b} /\ {a, b, c} = ({a} \cup {b}) \cup {c}
  OBVIOUS
<1> QED BY <1>2, <1>3, <1>4

LEMMA Extreme2 ==
  ASSUME NEW a \in Int, NEW b \in Int
  PROVE  /\ Max({a, b}) \in {a, b} /\ Max({a, b}) >= a /\ Max({a, b}) >= b
         /\ Min({a, b}) \in {a, b} /\ Min({a, b}) =< a /\ Min({a, b}) =< b
BY Extremes, FewAreFinite

LEMMA Extreme3 ==
  ASSUME NEW a \in Int, NEW b \in Int, NEW c \in Int
  PROVE  /\ Max({a, b, c}) \in {a, b, c}
         /\ Max({a, b, c}) >= a /\ Max({a, b, c}) >= b /\ Max({a, b, c}) >= c
         /\ Min({a, b, c}) \in {a, b, c}
         /\ Min({a, b, c}) =< a /\ Min({a, b, c}) =< b /\ Min({a, b, c}) =< c
BY Extremes, FewAreFinite

LEMMA ImageIsFinite ==
  ASSUME NEW S, IsFiniteSet(S), NEW f
  PROVE  IsFiniteSet({f[x] : x \in S})
<1> DEFINE T == {f[x] : x \in S}
           g == [x \in S |-> f[x]]
<1>1. g \in Surjection(S, T)
  BY DEF Surjection
<1> QED BY <1>1, FS_Surjection

LEMMA Modulo ==
  ASSUME NEW a \in Int, NEW b \in Nat \ {0}
  PROVE  /\ a % b \in 0 .. b - 1
         /\ a \in Nat => a % b <= a
         /\ a \in 0 .. b - 1 => a % b = a /\ (a + b) % b = a
OBVIOUS

-------------------------------------------------------------------------------
(* Types.                                                                  *)

Words == 0 .. Word - 1

(* Between two steps of a reconciliation the task has what it read: the    *)
(* autoscaler and, when it asks for metrics, a number within the limits.   *)
AtWork ==
  /\ ctl.at # "idle" => ctl.hpa \in Hpa
  /\ ctl.at = "metrics" =>
       ctl.current > 0 /\ ctl.current \in ctl.hpa.limits.min .. ctl.hpa.limits.max

Types == TypeOK /\ IsFiniteSet(recs) /\ AtWork

LEMMA WorldParts ==
  ASSUME NEW w \in Worlds
  PROVE  /\ w.first \in Words /\ w.limits \in Limits
         /\ w.scales \subseteq Words /\ w.patches \subseteq Limits
         /\ w.up \in Rules /\ w.down \in Rules
         /\ w.metrics \subseteq Observation
         /\ w.punctual \in BOOLEAN /\ w.checked \in BOOLEAN
BY HPAAssumption DEF World, Words

LEMMA LimitParts ==
  ASSUME NEW l \in Limits
  PROVE  l.min \in Words /\ l.max \in Words /\ l.min <= l.max
BY DEF Limits, Words

LEMMA RuleParts ==
  ASSUME NEW r \in Rules
  PROVE  /\ IsFiniteSet(r.policies) /\ r.window \in Age
         /\ r.select \in {"Min", "Max", "Disabled"}
         /\ \A p \in r.policies : /\ p.type \in {"Pods", "Percent"}
                                  /\ p.value \in Nat /\ p.period \in Age
BY DEF Rules, Policy, Age

LEMMA WordsAreNumbers ==
  /\ Word \in Nat \ {0} /\ Words \subseteq Nat /\ 0 \in Words /\ Word - 1 \in Words
  /\ Horizon \in Nat /\ Age \subseteq Nat /\ 0 \in Age
BY HPAAssumption DEF Words, Age

LEMMA SaturatedFits ==
  ASSUME NEW n \in Nat
  PROVE  Saturated(n) \in Words /\ Saturated(n) <= n
<1>1. n \in Int /\ Word - 1 \in Int
  BY WordsAreNumbers
<1> DEFINE m == Min({n, Word - 1})
<1>2. m \in {n, Word - 1} /\ m =< n /\ m =< Word - 1
  BY <1>1, Extreme2, Zenon
<1>3. Saturated(n) = m
  BY DEF Saturated
<1> HIDE DEF m
<1> QED BY <1>1, <1>2, <1>3, WordsAreNumbers DEF Words

(* What was added and removed within a period.                             *)
LEMMA ChangedIsNatural ==
  ASSUME NEW events \in [Age -> Nat], NEW period \in Age
  PROVE  Changed(events, period) \in Nat
<1>1. 0 .. period \subseteq Age /\ period \in Nat
  BY WordsAreNumbers DEF Age
<1>2. IsFiniteSet(0 .. period) /\ Numbers(events, 0 .. period)
  BY <1>1, FS_Interval DEF Numbers
<1> QED BY <1>2, SumIsNatural DEF Changed

LEMMA WrapsFit ==
  ASSUME NEW m \in Words, NEW n \in Nat
  PROVE  /\ Minus(m, n) \in Words /\ Plus(m, n) \in Words
         /\ Plus(m, n) <= m + n
         /\ n <= m => Minus(m, n) = m - n
         /\ m + n < Word => Plus(m, n) = m + n
<1>1. Word \in Nat \ {0} /\ m \in 0 .. Word - 1
  BY WordsAreNumbers DEF Words
<1>2. m + Word - n = (m - n) + Word /\ m - n \in Int
  BY <1>1
<1>3. Minus(m, n) \in Words /\ Plus(m, n) \in Words /\ Plus(m, n) <= m + n
  <2>1. m + Word - n \in Int /\ m + n \in Int /\ m + n \in Nat
    BY <1>1
  <2>2. (m + Word - n) % Word \in 0 .. Word - 1
    BY <1>1, <2>1, Modulo, Zenon
  <2>3. (m + n) % Word \in 0 .. Word - 1 /\ (m + n) % Word <= m + n
    BY <1>1, <2>1, Modulo, Zenon
  <2> QED BY <2>2, <2>3 DEF Minus, Plus, Words
<1>4. ASSUME n <= m PROVE Minus(m, n) = m - n
  <2>1. m - n \in 0 .. Word - 1
    BY <1>1, <1>4
  <2> QED BY <1>1, <1>2, <2>1, Modulo DEF Minus
<1>5. ASSUME m + n < Word PROVE Plus(m, n) = m + n
  <2>1. m + n \in 0 .. Word - 1
    BY <1>1, <1>5
  <2>2. m + n \in Int /\ (m + n \in 0 .. Word - 1 => (m + n) % Word = m + n)
    <3>1. m + n \in Int
      BY <1>1
    <3> QED BY <1>1, <3>1, Modulo, Zenon
  <2> QED BY <2>1, <2>2 DEF Plus
<1> QED BY <1>3, <1>4, <1>5

(* What a policy makes of the number at the start of its period.           *)
LEMMA PercentFits ==
  ASSUME NEW start \in Nat, NEW share \in Nat
  PROVE  /\ Ceiling(<<start * share, 100>>) \in Nat
         /\ Share(start, share) \in Nat
         /\ Share(start, share) >= Ceiling(<<start * share, 100>>)
<1>1. start * share \in Nat
  OBVIOUS
<1>2. PICK c : c = Ceiling(<<start * share, 100>>)
  OBVIOUS
<1>3. c \in Nat
  BY <1>1, <1>2, CeilingCovers
<1>4. Share(start, share) = c + (IF <<start, share>> \in RoundedUp THEN 1 ELSE 0)
  BY <1>2 DEF Share
<1>5. Share(start, share) \in {c, c + 1}
  BY <1>3, <1>4
<1> QED BY <1>2, <1>3, <1>5

LEMMA PercentGrows ==
  ASSUME NEW m \in Nat, NEW n \in Nat, NEW share \in Nat, m <= n
  PROVE  Ceiling(<<m * share, 100>>) <= Ceiling(<<n * share, 100>>)
<1>1. m * share \in Nat /\ n * share \in Nat /\ m * share <= n * share
  BY ProductsGrow
<1> QED BY <1>1, CeilingGrows

LEMMA PolicyLimits ==
  ASSUME Types, ctl.current \in Words
  PROVE  /\ \A p \in world.up.policies : UpLimit(p) \in Words
         /\ \A p \in world.down.policies : DownLimit(p) \in Nat
<1>1. world.up \in Rules /\ world.down \in Rules /\ ups \in [Age -> Nat]
      /\ downs \in [Age -> Nat]
  BY WorldParts DEF Types, TypeOK
<1>2. ASSUME NEW p \in world.up.policies PROVE UpLimit(p) \in Words
  <2>1. p.value \in Nat /\ p.period \in Age /\ p.type \in {"Pods", "Percent"}
    BY <1>1, RuleParts
  <2> DEFINE start == Minus(ctl.current, Changed(ups, p.period))
  <2>2. start \in Words /\ start \in Nat
    BY <1>1, <2>1, ChangedIsNatural, WrapsFit, WordsAreNumbers
  <2> HIDE DEF start
  <2>3. Plus(start, p.value) \in Words
    BY <2>1, <2>2, WrapsFit
  <2>4. 100 + p.value \in Nat
    BY <2>1
  <2>5. Saturated(Share(start, 100 + p.value)) \in Words
    BY <2>2, <2>4, PercentFits, SaturatedFits
  <2> QED BY <2>3, <2>5 DEF UpLimit, start
<1>3. ASSUME NEW p \in world.down.policies PROVE DownLimit(p) \in Nat
  <2>1. p.value \in Nat /\ p.period \in Age /\ p.type \in {"Pods", "Percent"}
    BY <1>1, RuleParts
  <2> DEFINE start == Plus(ctl.current, Changed(downs, p.period))
  <2>2. start \in Nat
    BY <1>1, <2>1, ChangedIsNatural, WrapsFit, WordsAreNumbers
  <2> HIDE DEF start
  <2>3. Max({start - p.value, 0}) \in Nat /\ Max({100 - p.value, 0}) \in Nat
    <3>1. ASSUME NEW a \in Int PROVE Max({a, 0}) \in Nat
      <4>1. 0 \in Int
        OBVIOUS
      <4>2. Max({a, 0}) \in {a, 0} /\ Max({a, 0}) >= 0
        BY <4>1, Extreme2, Zenon
      <4> QED BY <4>2
    <3>2. start - p.value \in Int /\ 100 - p.value \in Int
      BY <2>1, <2>2
    <3> QED BY <3>1, <3>2
  <2>4. Share(start, Max({100 - p.value, 0})) \in Nat
    BY <2>2, <2>3, PercentFits
  <2> QED BY <2>3, <2>4 DEF DownLimit, start
<1> QED BY <1>2, <1>3

(* The limits of all policies: how far the number may rise and fall.       *)
LEMMA PolicyLimitSets ==
  ASSUME Types, ctl.current \in Words
  PROVE  /\ {UpLimit(p) : p \in world.up.policies} \in SUBSET Words
         /\ IsFiniteSet({UpLimit(p) : p \in world.up.policies})
         /\ {DownLimit(p) : p \in world.down.policies} \in SUBSET Nat
         /\ IsFiniteSet({DownLimit(p) : p \in world.down.policies})
<1> DEFINE u == [p \in world.up.policies |-> UpLimit(p)]
           d == [p \in world.down.policies |-> DownLimit(p)]
<1>1. IsFiniteSet(world.up.policies) /\ IsFiniteSet(world.down.policies)
  BY WorldParts, RuleParts DEF Types, TypeOK
<1>2. {UpLimit(p) : p \in world.up.policies} = {u[p] : p \in world.up.policies}
      /\ {DownLimit(p) : p \in world.down.policies} = {d[p] : p \in world.down.policies}
  OBVIOUS
<1> HIDE DEF u, d
<1>3. IsFiniteSet({u[p] : p \in world.up.policies})
      /\ IsFiniteSet({d[p] : p \in world.down.policies})
  BY <1>1, ImageIsFinite
<1> QED BY <1>2, <1>3, PolicyLimits

LEMMA UpLimitChosen ==
  ASSUME Types, ctl.current \in Words
  PROVE  /\ ScaleUpLimit \in Words /\ ScaleUpLimit >= ctl.current
         /\ ScaleUpLimit > ctl.current =>
              \/ world.up.select = "Max" /\ \E p \in world.up.policies : ScaleUpLimit = UpLimit(p)
              \/ world.up.select = "Min" /\ \A p \in world.up.policies : ScaleUpLimit <= UpLimit(p)
<1> DEFINE limits == {UpLimit(p) : p \in world.up.policies}
           least == Min(limits \cup {Word - 1})
<1>1. limits \in SUBSET Words /\ IsFiniteSet(limits)
  BY PolicyLimitSets
<1>2. ctl.current \in Int /\ Words \subseteq Int /\ world.up.select \in {"Min", "Max", "Disabled"}
  BY WordsAreNumbers, WorldParts, RuleParts DEF Types, TypeOK
<1>3. \A x \in limits : \E p \in world.up.policies : x = UpLimit(p)
  OBVIOUS
<1>4. \A p \in world.up.policies : UpLimit(p) \in limits
  OBVIOUS
<1>5. CASE world.up.select = "Max"
  <2>1. ScaleUpLimit = Max({ctl.current} \cup limits)
    BY <1>5 DEF ScaleUpLimit
  <2> HIDE DEF limits
  <2>2. {ctl.current} \cup limits \in SUBSET Words /\ {ctl.current} \cup limits # {}
    BY <1>1
  <2>3. {ctl.current} \cup limits = limits \cup {ctl.current}
    OBVIOUS
  <2>4. IsFiniteSet({ctl.current} \cup limits)
    BY <1>1, <2>3, FS_AddElement
  <2>5. {ctl.current} \cup limits \in SUBSET Int
    BY <1>2, <2>2
  <2>6. Max({ctl.current} \cup limits) \in {ctl.current} \cup limits
        /\ Max({ctl.current} \cup limits) >= ctl.current
    BY <2>2, <2>4, <2>5, Extremes
  <2>7. Max({ctl.current} \cup limits) \in Words
    BY <2>2, <2>6
  <2>8. Max({ctl.current} \cup limits) > ctl.current => Max({ctl.current} \cup limits) \in limits
    BY <1>2, <2>6, <2>7
  <2> QED BY <1>3, <1>5, <2>1, <2>6, <2>7, <2>8
<1>6. CASE world.up.select = "Min"
  <2>1. ScaleUpLimit = Max({ctl.current} \cup {least})
    BY <1>6 DEF ScaleUpLimit
  <2> HIDE DEF limits
  <2>2. limits \cup {Word - 1} \in SUBSET Words /\ limits \cup {Word - 1} # {}
    BY <1>1, WordsAreNumbers
  <2>3. IsFiniteSet(limits \cup {Word - 1}) /\ limits \cup {Word - 1} \in SUBSET Int
    BY <1>1, <1>2, <2>2, FS_AddElement
  <2>4. least \in Words /\ \A x \in limits : least =< x
    BY <2>2, <2>3, Extremes
  <2> HIDE DEF least
  <2>5. {ctl.current} \cup {least} = {ctl.current, least} /\ least \in Int
    BY <1>2, <2>4
  <2>6. Max({ctl.current, least}) \in {ctl.current, least} /\ Max({ctl.current, least}) >= ctl.current
    BY <1>2, <2>5, Extreme2
  <2>7. ScaleUpLimit \in Words /\ ScaleUpLimit >= ctl.current
        /\ (ScaleUpLimit > ctl.current => ScaleUpLimit = least)
    BY <1>2, <2>1, <2>4, <2>5, <2>6
  <2> QED BY <1>4, <1>6, <2>4, <2>7
<1>7. CASE world.up.select = "Disabled"
  <2>1. ScaleUpLimit = Max({ctl.current, ctl.current})
    <3>1. {ctl.current} \cup {} = {ctl.current, ctl.current}
      OBVIOUS
    <3> QED BY <1>7, <3>1 DEF ScaleUpLimit
  <2>2. ScaleUpLimit = ctl.current
    BY <1>2, <2>1, Extreme2
  <2> QED BY <1>2, <2>2
<1> QED BY <1>2, <1>5, <1>6, <1>7

LEMMA DownLimitChosen ==
  ASSUME Types, ctl.current \in Words
  PROVE  /\ ScaleDownLimit \in Nat /\ ScaleDownLimit <= ctl.current
         /\ ScaleDownLimit < ctl.current =>
              \/ /\ world.down.select = "Max"
                 /\ \E p \in world.down.policies : ScaleDownLimit = DownLimit(p)
              \/ /\ world.down.select = "Min"
                 /\ \A p \in world.down.policies : ScaleDownLimit >= DownLimit(p)
<1> DEFINE limits == {DownLimit(p) : p \in world.down.policies}
           most == Max(limits \cup {0})
<1>1. limits \in SUBSET Nat /\ IsFiniteSet(limits)
  BY PolicyLimitSets
<1>2. ctl.current \in Nat /\ world.down.select \in {"Min", "Max", "Disabled"}
  BY WordsAreNumbers, WorldParts, RuleParts DEF Types, TypeOK
<1>3. \A x \in limits : \E p \in world.down.policies : x = DownLimit(p)
  OBVIOUS
<1>4. \A p \in world.down.policies : DownLimit(p) \in limits
  OBVIOUS
<1>5. CASE world.down.select = "Max"
  <2>1. ScaleDownLimit = Min({ctl.current} \cup limits)
    BY <1>5 DEF ScaleDownLimit
  <2> HIDE DEF limits
  <2>2. {ctl.current} \cup limits \in SUBSET Nat /\ {ctl.current} \cup limits # {}
    BY <1>1, <1>2
  <2>3. {ctl.current} \cup limits = limits \cup {ctl.current}
    OBVIOUS
  <2>4. IsFiniteSet({ctl.current} \cup limits)
    BY <1>1, <2>3, FS_AddElement
  <2>5. {ctl.current} \cup limits \in SUBSET Int
    BY <2>2
  <2>6. Min({ctl.current} \cup limits) \in {ctl.current} \cup limits
        /\ Min({ctl.current} \cup limits) =< ctl.current
    BY <2>2, <2>4, <2>5, Extremes
  <2>7. Min({ctl.current} \cup limits) \in Nat
    BY <2>2, <2>6
  <2>8. Min({ctl.current} \cup limits) < ctl.current => Min({ctl.current} \cup limits) \in limits
    BY <1>2, <2>6, <2>7
  <2> QED BY <1>3, <1>5, <2>1, <2>6, <2>7, <2>8
<1>6. CASE world.down.select = "Min"
  <2>1. ScaleDownLimit = Min({ctl.current} \cup {most})
    BY <1>6 DEF ScaleDownLimit
  <2> HIDE DEF limits
  <2>2. limits \cup {0} \in SUBSET Nat /\ limits \cup {0} # {}
    BY <1>1
  <2>3. IsFiniteSet(limits \cup {0}) /\ limits \cup {0} \in SUBSET Int
    BY <1>1, <2>2, FS_AddElement
  <2>4. most \in Nat /\ \A x \in limits : most >= x
    BY <2>2, <2>3, Extremes
  <2> HIDE DEF most
  <2>5. {ctl.current} \cup {most} = {ctl.current, most} /\ most \in Int /\ ctl.current \in Int
    BY <1>2, <2>4
  <2>6. Min({ctl.current, most}) \in {ctl.current, most} /\ Min({ctl.current, most}) =< ctl.current
    BY <2>5, Extreme2
  <2>7. ScaleDownLimit \in Nat /\ ScaleDownLimit <= ctl.current
        /\ (ScaleDownLimit < ctl.current => ScaleDownLimit = most)
    BY <1>2, <2>1, <2>4, <2>5, <2>6
  <2> QED BY <1>4, <1>6, <2>4, <2>7
<1>7. CASE world.down.select = "Disabled"
  <2>1. ScaleDownLimit = Min({ctl.current, ctl.current})
    <3>1. {ctl.current} \cup {} = {ctl.current, ctl.current}
      OBVIOUS
    <3> QED BY <1>7, <3>1 DEF ScaleDownLimit
  <2>2. ctl.current \in Int
    BY <1>2
  <2>3. ScaleDownLimit = ctl.current
    BY <2>1, <2>2, Extreme2
  <2> QED BY <1>2, <2>3
<1> QED BY <1>2, <1>5, <1>6, <1>7

-------------------------------------------------------------------------------
(* A decision.                                                             *)

LEMMA WithinIsFinite ==
  ASSUME Types, NEW window \in Age
  PROVE  Within(window) \in SUBSET Nat /\ IsFiniteSet(Within(window))
<1> DEFINE f == [r \in recs |-> r.n]
           S == {s \in recs : s.age <= window}
<1>1. IsFiniteSet(recs) /\ recs \subseteq Remembered
  BY DEF Types, TypeOK
<1>2. IsFiniteSet(S) /\ S \subseteq recs
  BY <1>1, FS_Subset
<1>3. Within(window) = {f[r] : r \in S}
  BY DEF Within
<1>4. \A r \in recs : r.n \in Nat
  BY <1>1 DEF Remembered
<1> HIDE DEF f, S
<1>5. IsFiniteSet({f[r] : r \in S})
  BY <1>2, ImageIsFinite
<1> QED BY <1>2, <1>3, <1>4, <1>5 DEF f

(* Stabilising: no further up than was calculated, and no further down     *)
(* than anything of the window.                                            *)
LEMMA StabilizedHoldsBack ==
  ASSUME Types, ctl.current \in Words, NEW want \in Nat
  PROVE  /\ Stabilized(want) \in Nat
         /\ Stabilized(want) > ctl.current => Stabilized(want) <= want
         /\ Stabilized(want) < ctl.current =>
              /\ Stabilized(want) >= want
              /\ \A r \in recs : r.age <= world.down.window => Stabilized(want) >= r.n
<1> DEFINE U == {want} \cup Within(world.up.window)
           D == {want} \cup Within(world.down.window)
           c == ctl.current
           u == Min(U)
           d == Max(D)
           m == Max({c, u})
<1>1. world.up.window \in Age /\ world.down.window \in Age
  BY WorldParts, RuleParts DEF Types, TypeOK
<1>2. U = Within(world.up.window) \cup {want} /\ D = Within(world.down.window) \cup {want}
  OBVIOUS
<1>3. U \in SUBSET Nat /\ IsFiniteSet(U) /\ U # {} /\ D \in SUBSET Nat /\ IsFiniteSet(D) /\ D # {}
  BY <1>1, <1>2, WithinIsFinite, FS_AddElement
<1>4. want \in U /\ want \in D
      /\ \A r \in recs : r.age <= world.down.window => r.n \in D
  BY DEF Within
<1>5. Stabilized(want) = Min({m, d})
  BY DEF Stabilized
<1> HIDE DEF U, D
<1>6. U \in SUBSET Int /\ D \in SUBSET Int
  BY <1>3
<1>7. u \in U /\ (\A y \in U : u =< y) /\ d \in D /\ (\A y \in D : d >= y)
  BY <1>3, <1>6, Extremes
<1>8. u \in Nat /\ d \in Nat /\ c \in Nat
  BY <1>3, <1>7, WordsAreNumbers
<1>9. u \in Int /\ d \in Int /\ c \in Int
  BY <1>8
<1> HIDE DEF u, d, c
<1>10. m \in {c, u} /\ m >= c /\ m >= u
  BY <1>9, Extreme2
<1>11. m \in Int /\ m \in Nat
  BY <1>8, <1>10
<1> HIDE DEF m
<1>12. Min({m, d}) \in {m, d} /\ Min({m, d}) =< m /\ Min({m, d}) =< d
  BY <1>9, <1>11, Extreme2
<1>13. PICK n : n = Stabilized(want)
  OBVIOUS
<1>14. n \in {m, d} /\ n =< m /\ n =< d
  BY <1>5, <1>12, <1>13
<1>15. n \in Nat
  BY <1>8, <1>11, <1>14
<1>16. n > c => n <= want
  BY <1>4, <1>7, <1>8, <1>10, <1>11, <1>14
<1>17. n < c => n = d
  BY <1>8, <1>10, <1>11, <1>14
<1>18. n < c => n >= want /\ \A r \in recs : r.age <= world.down.window => n >= r.n
  BY <1>4, <1>7, <1>17
<1> QED BY <1>13, <1>15, <1>16, <1>18 DEF c

(* Conforming: a decision that goes up or down agrees with the stabilised  *)
(* number about that, and goes no further than it, the autoscaler's limit  *)
(* and the policies' limit.                                                *)
LEMMA ConformingHoldsBack ==
  ASSUME Types, ctl.at = "metrics", NEW n \in Nat
  PROVE  /\ Conforming(n) \in Words
         /\ Conforming(n) <= ctl.hpa.limits.max
         /\ Conforming(n) > ctl.current =>
              /\ n > ctl.current /\ Conforming(n) <= n
              /\ Conforming(n) <= ctl.hpa.limits.max /\ Conforming(n) <= ScaleUpLimit
         /\ Conforming(n) < ctl.current =>
              /\ n < ctl.current /\ Conforming(n) >= n
              /\ Conforming(n) >= ctl.hpa.limits.min /\ Conforming(n) >= ScaleDownLimit
<1> DEFINE c == ctl.current
           lo == ctl.hpa.limits.min
           hi == ctl.hpa.limits.max
           up == ScaleUpLimit
           down == ScaleDownLimit
           x == IF n > c THEN Min({n, hi, up}) ELSE IF n < c THEN Max({n, lo, down}) ELSE n
<1>1. ctl.hpa \in Hpa /\ c \in Words /\ c \in lo .. hi
  BY DEF Types, TypeOK, AtWork, Words
<1>2. ctl.hpa.limits \in Limits
  BY <1>1 DEF Hpa
<1>3. lo \in Words /\ hi \in Words
  BY <1>2, LimitParts
<1>4. up \in Words /\ up >= c /\ down \in Nat /\ down <= c
  BY <1>1, UpLimitChosen, DownLimitChosen
<1>5. lo \in Nat /\ hi \in Nat /\ up \in Nat /\ down \in Nat /\ c \in Nat /\ lo <= c /\ c <= hi
  <2> HIDE DEF c, lo, hi, up, down
  <2>1. lo \in Nat /\ hi \in Nat /\ up \in Nat /\ c \in Nat
    BY <1>1, <1>3, <1>4, WordsAreNumbers
  <2> QED BY <1>1, <1>4, <2>1
<1>6. Conforming(n) = Max({lo, x})
  BY DEF Conforming
<1> HIDE DEF c, lo, hi, up, down
<1>7. lo \in Int /\ hi \in Int /\ up \in Int /\ down \in Int /\ n \in Int /\ c \in Int
  BY <1>5
<1>8. n > c => x \in {n, hi, up} /\ x <= n /\ x <= hi /\ x <= up
  BY <1>7, Extreme3
<1>9. n < c => x \in {n, lo, down} /\ x >= n /\ x >= lo /\ x >= down
  <2>1. Max({n, lo, down}) \in {n, lo, down} /\ Max({n, lo, down}) >= n
        /\ Max({n, lo, down}) >= lo /\ Max({n, lo, down}) >= down
    BY <1>7, Extreme3
  <2>2. n < c => x = Max({n, lo, down})
    BY <1>7
  <2> HIDE DEF x
  <2> QED BY <2>1, <2>2
<1>10. n = c => x = c
  BY <1>7
<1> HIDE DEF x
<1>11. x \in Nat
  BY <1>5, <1>8, <1>9, <1>10
<1>12. x \in Int
  BY <1>11
<1>13. Max({lo, x}) \in {lo, x} /\ Max({lo, x}) >= lo /\ Max({lo, x}) >= x
  BY <1>7, <1>12, Extreme2
<1>14. PICK m : m = Conforming(n)
  OBVIOUS
<1>15. m \in {lo, x} /\ m >= lo /\ m >= x /\ m \in Nat
  BY <1>5, <1>6, <1>11, <1>13, <1>14
<1>16. m <= hi
  <2>1. CASE n > c
    BY <1>5, <1>8, <1>15, <2>1
  <2>2. CASE n = c
    BY <1>5, <1>10, <1>15, <2>2
  <2>3. CASE n < c
    <3>1. x <= c
      BY <1>4, <1>5, <1>9, <2>3 DEF c, down
    <3> QED BY <1>5, <1>11, <1>15, <3>1
  <2> QED BY <1>5, <2>1, <2>2, <2>3
<1>17. m \in Words
  BY <1>3, <1>5, <1>15, <1>16, WordsAreNumbers DEF Words
<1>18. m > c => n > c /\ m <= n /\ m <= hi /\ m <= up
  <2>1. ASSUME m > c, n <= c PROVE FALSE
    <3>1. CASE n = c
      BY <1>5, <1>10, <1>15, <2>1, <3>1
    <3>2. CASE n < c
      <4>1. x <= c
        BY <1>4, <1>5, <1>9, <3>2 DEF c, down
      <4> QED BY <1>5, <1>11, <1>15, <2>1, <4>1
    <3> QED BY <1>5, <2>1, <3>1, <3>2
  <2>2. ASSUME m > c, n > c PROVE m = x
    BY <1>5, <1>15, <2>2
  <2>3. ASSUME m > c PROVE n > c
    BY <1>5, <2>1, <2>3
  <2> QED BY <1>8, <2>2, <2>3
<1>19. m < c => n < c /\ m >= n /\ m >= lo /\ m >= down
  <2>1. ASSUME m < c, n > c PROVE FALSE
    BY <1>4, <1>5, <1>8, <1>11, <1>15, <2>1 DEF c, up
  <2>2. ASSUME m < c, n = c PROVE FALSE
    BY <1>5, <1>10, <1>11, <1>15, <2>2
  <2>3. ASSUME m < c PROVE n < c
    BY <2>1, <2>2, <2>3, <1>5
  <2>4. ASSUME n < c PROVE m >= n /\ m >= lo /\ m >= down
    BY <1>5, <1>9, <1>11, <1>15, <2>4
  <2> QED BY <2>3, <2>4
<1> QED BY <1>14, <1>16, <1>17, <1>18, <1>19 DEF c, lo, hi, up, down

LEMMA CalculationIsNatural ==
  ASSUME NEW o \in Observation, NEW current \in Nat \ {0},
         CalcReplicas(o, current).end = "number"
  PROVE  CalcReplicas(o, current).n \in Nat
<1>1. CASE o.source = "function"
  BY <1>1, FunctionCarries DEF CalcReplicas
<1>2. CASE o.source # "function"
  <2>1. o.source \in {"utilization", "value"}
    BY <1>2 DEF Observation
  <2>2. CalcPodReplicas(o, current).end = "number"
        /\ CalcReplicas(o, current) = CalcPodReplicas(o, current)
    BY <1>2 DEF CalcReplicas
  <2>3. CASE CalcPodReplicas(o, current).n = current
    BY <2>2, <2>3
  <2>4. CASE CalcPodReplicas(o, current).n # current
    <3>1. o.pods \in Seq(PodSeen) /\ o.target \in Nat
      BY <2>1 DEF Observation
    <3>2. CalcPodReplicas(o, current).n = Unturned(o)
          /\ (o.source = "value" => Counted(o) # {})
      BY <2>2, <2>4, NumberIsUnturned
    <3> DEFINE N == Cardinality(Counted(o) \cup Missing(o))
    <3>3. N \in Nat
      BY <3>1, RequestsAreNatural
    <3>4. CASE LastRatio(o) = <<1, 1>>
      <4>1. Unturned(o) = Ceiling(<<1 * N, 1>>) /\ 1 * N \in Nat
        BY <3>3, <3>4 DEF Unturned
      <4> QED BY <2>2, <3>2, <4>1, CeilingCovers
    <3>5. CASE o.source = "utilization" /\ LastRatio(o) # <<1, 1>>
      <4>1. Requested(o) # 0
        BY <3>5 DEF LastRatio, Ratio, UtilizationRatio, Requested, Known
      <4>2. Requested(o) > 0
        <5>1. Requested(o) \in Nat
          BY <3>1, RequestsAreNatural
        <5> HIDE DEF N
        <5> QED BY <4>1, <5>1
      <4> QED BY <2>2, <3>2, <3>5, <4>2, UtilizationCarries
    <3>6. CASE o.source = "value" /\ LastRatio(o) # <<1, 1>>
      <4>1. o.target > 0
        BY <3>1, <3>6 DEF LastRatio, Ratio, ValueRatio
      <4> QED BY <2>2, <3>2, <3>6, <4>1, ValueCarries
    <3> QED BY <2>1, <3>4, <3>5, <3>6
  <2> QED BY <2>3, <2>4
<1> QED BY <1>1, <1>2

-------------------------------------------------------------------------------
(* Every action keeps the types, by the parts of the state.                *)

CtlType == [at : {"idle", "get", "metrics", "scale", "status", "crashed"},
            hpa : Hpa \cup {NoHpa}, current : Words, desired : Words]

ApiTypes ==
  /\ replicas \in Words /\ hpa \in Hpa \cup {NoHpa}
  /\ hpaWatch \in Seq(Hpa \cup {NoHpa})
StoreTypes == hpaStore \in Hpa \cup {NoHpa} /\ rx \in 0 .. QueueCap /\ resync \in BOOLEAN
EntryTypes == queue \in [0 .. Sync -> Nat] /\ inQueue \in BOOLEAN
MemoryTypes ==
  /\ recs \subseteq Remembered /\ IsFiniteSet(recs)
  /\ ups \in [Age -> Nat] /\ downs \in [Age -> Nat]
CtlTypes == ctl \in CtlType /\ AtWork
GhostTypes == past \in [Age -> Words] /\ wanted \subseteq Remembered
EnvTypes == world \in Worlds /\ env \in [Disturbance -> Nat]

LEMMA TypesByPart ==
  Types <=> /\ ApiTypes /\ StoreTypes /\ EntryTypes /\ MemoryTypes
            /\ CtlTypes /\ GhostTypes /\ EnvTypes
BY DEF Types, TypeOK, ApiTypes, StoreTypes, EntryTypes, MemoryTypes, CtlTypes, CtlType,
       GhostTypes, EnvTypes, Words

LEMMA TypesByPartNext ==
  Types' <=> /\ ApiTypes' /\ StoreTypes' /\ EntryTypes' /\ MemoryTypes'
             /\ CtlTypes' /\ GhostTypes' /\ EnvTypes'
BY DEF Types, TypeOK, ApiTypes, StoreTypes, EntryTypes, MemoryTypes, CtlTypes, CtlType,
       GhostTypes, EnvTypes, Words

LEMMA PartsKept ==
  ASSUME Types
  PROVE  /\ UNCHANGED apiVars => ApiTypes'
         /\ UNCHANGED storeVars => StoreTypes'
         /\ UNCHANGED queueVars => EntryTypes'
         /\ UNCHANGED memory => MemoryTypes'
         /\ UNCHANGED ctl => CtlTypes'
         /\ UNCHANGED ghosts => GhostTypes'
         /\ UNCHANGED envVars => EnvTypes'
BY TypesByPart
   DEF ApiTypes, StoreTypes, EntryTypes, MemoryTypes, CtlTypes, GhostTypes, EnvTypes,
       apiVars, storeVars, queueVars, memory, ghosts, envVars, AtWork

LEMMA DisturbTyped ==
  ASSUME Types, NEW d \in Disturbance, Disturb(d)
  PROVE  EnvTypes'
<1>1. env \in [Disturbance -> Nat] /\ world \in Worlds
  BY DEF Types, TypeOK
<1>2. env' = [env EXCEPT ![d] = env[d] + 1] /\ world' = world
  BY DEF Disturb
<1>3. env' \in [Disturbance -> Nat]
  BY <1>1, <1>2
<1> QED BY <1>1, <1>2, <1>3 DEF EnvTypes

LEMMA IdleTyped == Idle \in CtlType
BY WordsAreNumbers DEF Idle, CtlType

LEMMA AgainTyped ==
  ASSUME Types, Again
  PROVE  EntryTypes' /\ CtlTypes'
<1>1. queue \in [0 .. Sync -> Nat] /\ inQueue \in BOOLEAN
  BY DEF Types, TypeOK
<1>2. CASE inQueue
  BY <1>1, <1>2, IdleTyped DEF Again, EntryTypes, CtlTypes, AtWork, Idle
<1>3. CASE ~inQueue
  <2>1. queue' = [queue EXCEPT ![Sync] = queue[Sync] + 1] /\ inQueue' = inQueue /\ ctl' = Idle
    BY <1>3 DEF Again
  <2>2. queue' \in [0 .. Sync -> Nat]
    BY <1>1, <2>1, Delays
  <2> QED BY <1>1, <2>1, <2>2, IdleTyped DEF EntryTypes, CtlTypes, AtWork, Idle
<1> QED BY <1>2, <1>3

LEMMA EnqueueTyped ==
  ASSUME Types, EnqueueNow
  PROVE  EntryTypes'
<1>1. queue \in [0 .. Sync -> Nat]
  BY DEF Types, TypeOK
<1>2. queue' = [queue EXCEPT ![0] = queue[0] + 1] /\ inQueue' = TRUE
  BY DEF EnqueueNow
<1>3. queue' \in [0 .. Sync -> Nat]
  BY <1>1, <1>2, Delays
<1> QED BY <1>2, <1>3 DEF EntryTypes

(* The fields of what the task is doing, one step later.                   *)
LEMMA CtlAfter ==
  ASSUME Types, NEW a, NEW m, NEW n
  PROVE  /\ [[ctl EXCEPT !.current = m, !.desired = n] EXCEPT !.at = a]
              = [at |-> a, hpa |-> ctl.hpa, current |-> m, desired |-> n]
         /\ [ctl EXCEPT !.at = a, !.current = m]
              = [at |-> a, hpa |-> ctl.hpa, current |-> m, desired |-> ctl.desired]
         /\ [ctl EXCEPT !.at = a]
              = [at |-> a, hpa |-> ctl.hpa, current |-> ctl.current, desired |-> ctl.desired]
<1>1. ctl \in CtlType
  BY TypesByPart DEF CtlTypes
<1>2. PICK c : c = [ctl EXCEPT !.current = m, !.desired = n]
  OBVIOUS
<1>3. c = [at |-> ctl.at, hpa |-> ctl.hpa, current |-> m, desired |-> n]
  BY <1>1, <1>2 DEF CtlType
<1>4. [c EXCEPT !.at = a] = [at |-> a, hpa |-> ctl.hpa, current |-> m, desired |-> n]
  BY <1>3
<1>5. [ctl EXCEPT !.at = a, !.current = m]
        = [at |-> a, hpa |-> ctl.hpa, current |-> m, desired |-> ctl.desired]
  <2>1. PICK e : e = [ctl EXCEPT !.at = a, !.current = m]
    OBVIOUS
  <2>2. DOMAIN ctl = {"at", "hpa", "current", "desired"}
    BY <1>1 DEF CtlType
  <2>3. e = [f \in DOMAIN e |-> e[f]] /\ DOMAIN e = {"at", "hpa", "current", "desired"}
    BY <2>1, <2>2
  <2>4. e.at = a /\ e.hpa = ctl.hpa /\ e.current = m /\ e.desired = ctl.desired
    BY <2>1, <2>2
  <2>5. e = [at |-> e.at, hpa |-> e.hpa, current |-> e.current, desired |-> e.desired]
    BY <2>3
  <2> QED BY <2>1, <2>4, <2>5
<1>6. [ctl EXCEPT !.at = a]
        = [at |-> a, hpa |-> ctl.hpa, current |-> ctl.current, desired |-> ctl.desired]
  BY <1>1 DEF CtlType
<1> QED BY <1>2, <1>4, <1>5, <1>6

LEMMA ActTyped ==
  ASSUME Types, NEW m \in Words, NEW n \in Words, ctl.hpa \in Hpa, Act(m, n)
  PROVE  EntryTypes' /\ CtlTypes'
<1>1. CASE ctl' = [[ctl EXCEPT !.current = m, !.desired = n] EXCEPT !.at = "scale"]
           /\ UNCHANGED queueVars
  <2>1. ctl' = [at |-> "scale", hpa |-> ctl.hpa, current |-> m, desired |-> n]
    BY <1>1, CtlAfter, ZenonT(60)
  <2> QED BY <1>1, <2>1, PartsKept DEF CtlTypes, CtlType, AtWork
<1>2. CASE ctl' = [[ctl EXCEPT !.current = m, !.desired = n] EXCEPT !.at = "status"]
           /\ UNCHANGED queueVars
  <2>1. ctl' = [at |-> "status", hpa |-> ctl.hpa, current |-> m, desired |-> n]
    BY <1>2, CtlAfter, ZenonT(60)
  <2> QED BY <1>2, <2>1, PartsKept DEF CtlTypes, CtlType, AtWork
<1>3. CASE Again
  BY <1>3, AgainTyped
<1> QED BY <1>1, <1>2, <1>3 DEF Act

LEMMA AtTyped ==
  ASSUME Types, ctl.at # "idle", NEW a \in {"status", "crashed"}, ctl' = [ctl EXCEPT !.at = a]
  PROVE  CtlTypes'
<1>1. ctl' = [at |-> a, hpa |-> ctl.hpa, current |-> ctl.current, desired |-> ctl.desired]
  BY CtlAfter
<1>2. ctl \in CtlType /\ ctl.hpa \in Hpa
  BY TypesByPart DEF CtlTypes, AtWork
<1> QED BY <1>1, <1>2 DEF CtlTypes, CtlType, AtWork

LEMMA PutHpaTyped ==
  ASSUME Types, NEW new \in Hpa \cup {NoHpa}, PutHpa(new)
  PROVE  hpa' \in Hpa \cup {NoHpa} /\ hpaWatch' \in Seq(Hpa \cup {NoHpa})
BY DEF PutHpa, Types, TypeOK

LEMMA CreatedTyped ==
  ASSUME NEW n \in Words, world \in Worlds
  PROVE  Created(n) \in Hpa
BY WorldParts DEF Created, Hpa, Words

LEMMA OthersKeepTypes ==
  ASSUME Types,
         \/ \E n \in world.scales : ScaleByHand(n)
         \/ \E limits \in world.patches : PatchHpa(limits)
         \/ DropHpa \/ CreateHpa
  PROVE  Types'
<1>0. world \in Worlds /\ replicas \in Words /\ hpa \in Hpa \cup {NoHpa}
  BY TypesByPart DEF EnvTypes, ApiTypes
<1>1. UNCHANGED <<storeVars, queueVars, memory, ctl, ghosts>> /\ EnvTypes'
  BY DisturbTyped DEF ScaleByHand, PatchHpa, DropHpa, CreateHpa, Disturbance
<1>2. ApiTypes'
  <2>1. CASE \E n \in world.scales : ScaleByHand(n)
    <3>1. replicas' \in Words /\ UNCHANGED <<hpa, hpaWatch>>
      BY <1>0, <2>1, WorldParts DEF ScaleByHand
    <3> QED BY <3>1, TypesByPart DEF ApiTypes
  <2>2. CASE \E limits \in world.patches : PatchHpa(limits)
    <3>1. PICK limits \in world.patches : PatchHpa(limits)
      BY <2>2
    <3>2. limits \in Limits /\ hpa \in Hpa
      BY <1>0, <3>1, WorldParts DEF PatchHpa
    <3>3. [hpa EXCEPT !.limits = limits] \in Hpa
      BY <3>2 DEF Hpa
    <3>4. hpa' \in Hpa \cup {NoHpa} /\ hpaWatch' \in Seq(Hpa \cup {NoHpa}) /\ replicas' = replicas
      BY <3>1, <3>3, PutHpaTyped DEF PatchHpa
    <3> QED BY <1>0, <3>4 DEF ApiTypes
  <2>3. CASE DropHpa
    <3>1. hpa' \in Hpa \cup {NoHpa} /\ hpaWatch' \in Seq(Hpa \cup {NoHpa}) /\ replicas' = replicas
      BY <2>3, PutHpaTyped DEF DropHpa
    <3> QED BY <1>0, <3>1 DEF ApiTypes
  <2>4. CASE CreateHpa
    <3>1. PICK n \in {0, replicas} : PutHpa(Created(n))
      BY <2>4 DEF CreateHpa
    <3>2. Created(n) \in Hpa
      BY <1>0, CreatedTyped, WordsAreNumbers
    <3>3. hpa' \in Hpa \cup {NoHpa} /\ hpaWatch' \in Seq(Hpa \cup {NoHpa}) /\ replicas' = replicas
      BY <2>4, <3>1, <3>2, PutHpaTyped DEF CreateHpa
    <3> QED BY <1>0, <3>3 DEF ApiTypes
  <2> QED BY <2>1, <2>2, <2>3, <2>4
<1> QED BY <1>1, <1>2, PartsKept, TypesByPartNext

LEMMA InformerKeepsTypes ==
  ASSUME Types, ReceiveHpa \/ RelistHpas
  PROVE  Types'
<1>0. /\ replicas \in Words /\ hpa \in Hpa \cup {NoHpa} /\ hpaWatch \in Seq(Hpa \cup {NoHpa})
      /\ hpaStore \in Hpa \cup {NoHpa} /\ rx \in 0 .. QueueCap /\ resync \in BOOLEAN
  BY TypesByPart DEF ApiTypes, StoreTypes
<1>1. CASE ReceiveHpa
  <2>1. UNCHANGED <<replicas, hpa, resync>> /\ UNCHANGED <<queueVars, memory, ctl, ghosts, envVars>>
    BY <1>1 DEF ReceiveHpa
  <2>2. hpaWatch # <<>> /\ hpaWatch' = Tail(hpaWatch) /\ hpaStore' = Head(hpaWatch)
    BY <1>1 DEF ReceiveHpa
  <2>3. hpaWatch' \in Seq(Hpa \cup {NoHpa}) /\ hpaStore' \in Hpa \cup {NoHpa}
    BY <1>0, <2>2
  <2>4. rx' = rx \/ (rx < QueueCap /\ rx' = rx + 1)
    BY <1>1 DEF ReceiveHpa
  <2>5. rx' \in 0 .. QueueCap
    BY <1>0, <2>4, HPAAssumption
  <2> QED BY <1>0, <2>1, <2>3, <2>5, PartsKept, TypesByPartNext DEF ApiTypes, StoreTypes
<1>2. CASE RelistHpas
  <2>1. UNCHANGED <<replicas, hpa, rx>> /\ UNCHANGED <<queueVars, memory, ctl, ghosts>> /\ EnvTypes'
    BY <1>2, DisturbTyped DEF RelistHpas, Disturbance
  <2>2. hpaWatch' = <<>> /\ hpaStore' = hpa /\ resync' \in BOOLEAN
    BY <1>2, <1>0 DEF RelistHpas
  <2> QED BY <1>0, <2>1, <2>2, PartsKept, TypesByPartNext DEF ApiTypes, StoreTypes
<1> QED BY <1>1, <1>2

LEMMA OlderTyped ==
  ASSUME NEW S \in SUBSET Remembered
  PROVE  /\ Older(S) \subseteq Remembered
         /\ IsFiniteSet(S) => IsFiniteSet(Older(S))
         /\ \A q \in Older(S) : \E r \in S :
              q.n = r.n /\ q.age = IF r.age > Horizon THEN r.age ELSE r.age + 1
         /\ \A r \in S : \E q \in Older(S) :
              q.n = r.n /\ q.age = IF r.age > Horizon THEN r.age ELSE r.age + 1
<1> DEFINE later(r) == [n |-> r.n, age |-> IF r.age > Horizon THEN r.age ELSE r.age + 1]
           f == [r \in S |-> [r EXCEPT !.age = IF @ > Horizon THEN @ ELSE @ + 1]]
<1>1. Older(S) = {f[r] : r \in S}
  BY DEF Older
<1>2. ASSUME NEW r \in S PROVE f[r] = later(r) /\ f[r] \in Remembered
  <2>1. r = [n |-> r.n, age |-> r.age] /\ r.n \in Nat /\ r.age \in 0 .. Horizon + 1
    BY DEF Remembered
  <2>2. [r EXCEPT !.age = IF r.age > Horizon THEN r.age ELSE r.age + 1] = later(r)
    BY <2>1
  <2>3. f[r] = [r EXCEPT !.age = IF r.age > Horizon THEN r.age ELSE r.age + 1]
    OBVIOUS
  <2>4. (IF r.age > Horizon THEN r.age ELSE r.age + 1) \in 0 .. Horizon + 1
    BY <2>1, WordsAreNumbers
  <2>5. later(r) \in Remembered
    BY <2>1, <2>4 DEF Remembered
  <2> QED BY <2>2, <2>3, <2>5
<1> HIDE DEF f
<1>3. IsFiniteSet(S) => IsFiniteSet(Older(S))
  BY <1>1, ImageIsFinite
<1>4. \A r \in S : f[r].n = r.n /\ f[r].age = IF r.age > Horizon THEN r.age ELSE r.age + 1
  <2>1. \A r \in S : later(r).n = r.n
                    /\ later(r).age = IF r.age > Horizon THEN r.age ELSE r.age + 1
    OBVIOUS
  <2> HIDE DEF later
  <2> QED BY <1>2, <2>1
<1> QED BY <1>1, <1>2, <1>3, <1>4

LEMMA ShiftedTyped ==
  ASSUME NEW T, NEW f \in [Age -> T], NEW new \in T
  PROVE  Shifted(f, new) \in [Age -> T]
<1>1. \A a \in Age : a # 0 => a - 1 \in Age
  BY WordsAreNumbers DEF Age
<1> QED BY <1>1 DEF Shifted

LEMMA TickKeepsTypes ==
  ASSUME Types, Tick
  PROVE  Types'
<1>0. queue \in [0 .. Sync -> Nat] /\ inQueue \in BOOLEAN /\ replicas \in Words
      /\ recs \subseteq Remembered /\ IsFiniteSet(recs) /\ wanted \subseteq Remembered
      /\ ups \in [Age -> Nat] /\ downs \in [Age -> Nat] /\ past \in [Age -> Words]
  BY TypesByPart DEF EntryTypes, MemoryTypes, GhostTypes, ApiTypes
<1>1. UNCHANGED <<apiVars, storeVars, ctl, envVars>>
  BY DEF Tick
<1>2. EntryTypes'
  <2>1. inQueue' = inQueue
        /\ queue' = [d \in 0 .. Sync |-> IF d = 0 THEN queue[0] + queue[1]
                                         ELSE IF d = Sync THEN 0 ELSE queue[d + 1]]
    BY DEF Tick
  <2>2. queue' \in [0 .. Sync -> Nat]
    BY <1>0, <2>1, HPAAssumption
  <2> QED BY <1>0, <2>1, <2>2 DEF EntryTypes
<1>3. MemoryTypes'
  <2>1. recs' = Older(recs) /\ ups' = Shifted(ups, 0) /\ downs' = Shifted(downs, 0)
    BY DEF Tick
  <2> QED BY <1>0, <2>1, OlderTyped, ShiftedTyped DEF MemoryTypes
<1>4. GhostTypes'
  <2>1. past' = Shifted(past, replicas) /\ wanted' \subseteq Older(wanted)
    BY DEF Tick
  <2> QED BY <1>0, <2>1, OlderTyped, ShiftedTyped DEF GhostTypes
<1> QED BY <1>1, <1>2, <1>3, <1>4, PartsKept, TypesByPartNext

LEMMA RecordTyped ==
  ASSUME Types, Record
  PROVE  /\ ups' \in [Age -> Nat] /\ downs' \in [Age -> Nat]
         /\ ups' = [ups EXCEPT ![0] = ups[0] + Max({ctl.desired - ctl.current, 0})]
         /\ downs' = [downs EXCEPT ![0] = downs[0] + Max({ctl.current - ctl.desired, 0})]
         /\ Max({ctl.desired - ctl.current, 0})
              = IF ctl.desired > ctl.current THEN ctl.desired - ctl.current ELSE 0
         /\ Max({ctl.current - ctl.desired, 0})
              = IF ctl.current > ctl.desired THEN ctl.current - ctl.desired ELSE 0
<1>1. ups \in [Age -> Nat] /\ downs \in [Age -> Nat] /\ ctl \in CtlType
  BY TypesByPart DEF MemoryTypes, CtlTypes
<1>2. ctl.desired \in Nat /\ ctl.current \in Nat
  BY <1>1, WordsAreNumbers DEF CtlType
<1>3. ASSUME NEW m \in Nat, NEW n \in Nat
      PROVE  Max({m - n, 0}) = IF m > n THEN m - n ELSE 0
  <2>1. m - n \in Int /\ 0 \in Int
    OBVIOUS
  <2>2. Max({m - n, 0}) \in {m - n, 0} /\ Max({m - n, 0}) >= m - n /\ Max({m - n, 0}) >= 0
    BY <2>1, Extreme2, Zenon
  <2> QED BY <2>2
<1>4. /\ Max({ctl.desired - ctl.current, 0})
           = IF ctl.desired > ctl.current THEN ctl.desired - ctl.current ELSE 0
      /\ Max({ctl.current - ctl.desired, 0})
           = IF ctl.current > ctl.desired THEN ctl.current - ctl.desired ELSE 0
  BY <1>2, <1>3
<1> DEFINE u == Max({ctl.desired - ctl.current, 0})
           d == Max({ctl.current - ctl.desired, 0})
<1>5. u \in Nat /\ d \in Nat
  BY <1>2, <1>4
<1>6. ups' = [ups EXCEPT ![0] = ups[0] + u] /\ downs' = [downs EXCEPT ![0] = downs[0] + d]
  BY DEF Record
<1> HIDE DEF u, d
<1>7. ups' \in [Age -> Nat] /\ downs' \in [Age -> Nat]
  BY <1>1, <1>5, <1>6, WordsAreNumbers
<1> QED BY <1>4, <1>6, <1>7 DEF u, d

LEMMA QueueStepsKeepTypes ==
  ASSUME Types, ReceiveName \/ HandleResync \/ TakeEntry
  PROVE  Types'
<1>0. /\ queue \in [0 .. Sync -> Nat] /\ inQueue \in BOOLEAN
      /\ hpaStore \in Hpa \cup {NoHpa} /\ rx \in 0 .. QueueCap /\ resync \in BOOLEAN
  BY TypesByPart DEF EntryTypes, StoreTypes
<1>1. CASE ReceiveName
  <2>1. UNCHANGED <<apiVars, memory, ctl, ghosts, envVars>> /\ UNCHANGED <<hpaStore, resync>>
        /\ rx > 0 /\ rx' = rx - 1 /\ EntryTypes'
    BY <1>1, EnqueueTyped DEF ReceiveName
  <2>2. rx' \in 0 .. QueueCap
    BY <1>0, <2>1, HPAAssumption
  <2> QED BY <1>0, <2>1, <2>2, PartsKept, TypesByPartNext DEF StoreTypes
<1>2. CASE HandleResync
  <2>1. UNCHANGED <<apiVars, memory, ctl, ghosts, envVars>> /\ UNCHANGED <<hpaStore, rx>>
        /\ resync' = FALSE
    BY <1>2 DEF HandleResync
  <2>2. EntryTypes'
    BY <1>2, EnqueueTyped, PartsKept DEF HandleResync
  <2> QED BY <1>0, <2>1, <2>2, PartsKept, TypesByPartNext DEF StoreTypes
<1>3. CASE TakeEntry
  <2>1. UNCHANGED <<apiVars, storeVars, ghosts, envVars>> /\ inQueue' = FALSE /\ queue[0] > 0
        /\ queue' = [queue EXCEPT ![0] = queue[0] - 1]
    BY <1>3 DEF TakeEntry
  <2>2. queue' \in [0 .. Sync -> Nat]
    BY <1>0, <2>1, Delays
  <2>3. EntryTypes'
    BY <2>1, <2>2 DEF EntryTypes
  <2>4. CASE hpaStore = NoHpa
    <3>1. recs' = {} /\ ups' = Nothing /\ downs' = Nothing /\ UNCHANGED ctl
      BY <1>3, <2>4 DEF TakeEntry
    <3>2. MemoryTypes'
      BY <3>1, FS_EmptySet DEF MemoryTypes, Nothing
    <3> QED BY <2>1, <2>3, <3>1, <3>2, PartsKept, TypesByPartNext
  <2>5. CASE hpaStore # NoHpa
    <3>1. ctl' = [Idle EXCEPT !.at = "get", !.hpa = hpaStore] /\ UNCHANGED memory
      BY <1>3, <2>5 DEF TakeEntry
    <3>2. ctl' = [at |-> "get", hpa |-> hpaStore, current |-> 0, desired |-> 0]
      BY <3>1 DEF Idle
    <3>3. CtlTypes'
      BY <1>0, <2>5, <3>2, WordsAreNumbers DEF CtlTypes, CtlType, AtWork
    <3> QED BY <2>1, <2>3, <3>1, <3>3, PartsKept, TypesByPartNext
  <2> QED BY <2>4, <2>5
<1> QED BY <1>1, <1>2, <1>3

LEMMA AddRemembered ==
  ASSUME NEW S \in SUBSET Remembered, NEW n \in Nat
  PROVE  /\ (S \cup {[n |-> n, age |-> 0]}) \subseteq Remembered
         /\ IsFiniteSet(S) => IsFiniteSet(S \cup {[n |-> n, age |-> 0]})
<1>1. [n |-> n, age |-> 0] \in Remembered
  BY WordsAreNumbers DEF Remembered
<1> QED BY <1>1, FS_AddElement

LEMMA GetKeepsTypes ==
  ASSUME Types, Get
  PROVE  Types'
<1>0. /\ replicas \in Words /\ recs \subseteq Remembered /\ IsFiniteSet(recs)
      /\ ups \in [Age -> Nat] /\ downs \in [Age -> Nat]
      /\ ctl \in CtlType /\ ctl.at = "get" /\ ctl.hpa \in Hpa
  BY TypesByPart DEF ApiTypes, MemoryTypes, CtlTypes, AtWork, Get
<1>1. ctl.hpa.limits \in Limits
  BY <1>0 DEF Hpa
<1>2. ctl.hpa.limits.min \in Words /\ ctl.hpa.limits.max \in Words
  BY <1>1, LimitParts
<1>3. UNCHANGED <<apiVars, storeVars, ghosts, envVars>> /\ UNCHANGED <<ups, downs>>
  BY DEF Get
<1>4. MemoryTypes'
  <2>1. recs' = recs \/ recs' = recs \cup {[n |-> replicas, age |-> 0]}
    BY DEF Get
  <2>2. replicas \in Nat
    BY <1>0, WordsAreNumbers
  <2> QED BY <1>0, <1>3, <2>1, <2>2, AddRemembered DEF MemoryTypes
<1>5. EntryTypes' /\ CtlTypes'
  <2>1. CASE Act(0, 0) \/ Act(replicas, ctl.hpa.limits.max) \/ Act(replicas, ctl.hpa.limits.min)
    BY <1>0, <1>2, <2>1, ActTyped, WordsAreNumbers
  <2>2. CASE /\ replicas > 0 /\ replicas \in ctl.hpa.limits.min .. ctl.hpa.limits.max
             /\ ctl' = [ctl EXCEPT !.at = "metrics", !.current = replicas]
             /\ UNCHANGED queueVars
    <3>1. ctl' = [at |-> "metrics", hpa |-> ctl.hpa, current |-> replicas, desired |-> ctl.desired]
      BY <2>2, CtlAfter
    <3> QED BY <1>0, <2>2, <3>1, PartsKept DEF CtlTypes, CtlType, AtWork
  <2> QED BY <2>1, <2>2 DEF Get
<1> QED BY <1>3, <1>4, <1>5, PartsKept, TypesByPartNext

(* What a calculation decides by metrics.                                  *)
LEMMA CalculateEnds ==
  ASSUME Types, Calculate
  PROVE  /\ UNCHANGED <<apiVars, storeVars, envVars>> /\ UNCHANGED <<ups, downs, past>>
         /\ \/ /\ Again \/ (ctl' = [ctl EXCEPT !.at = "crashed"] /\ UNCHANGED queueVars)
               /\ UNCHANGED <<recs, wanted>>
            \/ \E n \in Nat : Normalize(n)
<1>1. UNCHANGED <<apiVars, storeVars, envVars>> /\ UNCHANGED <<ups, downs, past>>
  BY DEF Calculate
<1>2. ctl.at = "metrics" /\ ctl.current \in Nat \ {0} /\ world.metrics \subseteq Observation
  <2>1. ctl.at = "metrics"
    BY DEF Calculate
  <2>2. ctl.current \in Words /\ ctl.current > 0 /\ world \in Worlds
    BY <2>1, TypesByPart DEF CtlTypes, CtlType, AtWork, EnvTypes
  <2>3. ctl.current \in Nat
    BY <2>2, WordsAreNumbers
  <2>4. ctl.current # 0
    BY <2>2, <2>3
  <2> QED BY <2>1, <2>2, <2>3, <2>4, WorldParts
<1>3. PICK o \in world.metrics :
        LET result == CalcReplicas(o, ctl.current) IN
        \/ result.end = "error" /\ Again /\ UNCHANGED <<recs, wanted>>
        \/ /\ result.end = "panic"
           /\ ctl' = [ctl EXCEPT !.at = "crashed"]
           /\ UNCHANGED <<recs, wanted, queueVars>>
        \/ result.end = "number" /\ Normalize(Saturated(result.n))
  BY DEF Calculate
<1>4. ASSUME CalcReplicas(o, ctl.current).end = "number"
      PROVE  Saturated(CalcReplicas(o, ctl.current).n) \in Nat
  <2>1. CalcReplicas(o, ctl.current).n \in Nat
    BY <1>2, <1>4, CalculationIsNatural
  <2> QED BY <2>1, SaturatedFits, WordsAreNumbers
<1> QED BY <1>1, <1>3, <1>4

LEMMA CalculateKeepsTypes ==
  ASSUME Types, Calculate
  PROVE  Types'
<1>0. /\ recs \subseteq Remembered /\ IsFiniteSet(recs) /\ wanted \subseteq Remembered
      /\ ups \in [Age -> Nat] /\ downs \in [Age -> Nat] /\ past \in [Age -> Words]
      /\ ctl \in CtlType /\ ctl.at = "metrics" /\ ctl.hpa \in Hpa /\ ctl.current \in Words
  BY TypesByPart DEF MemoryTypes, GhostTypes, CtlTypes, CtlType, AtWork, Calculate
<1>1. UNCHANGED <<apiVars, storeVars, envVars>> /\ UNCHANGED <<ups, downs, past>>
  BY CalculateEnds
<1>2. CASE /\ Again \/ (ctl' = [ctl EXCEPT !.at = "crashed"] /\ UNCHANGED queueVars)
           /\ UNCHANGED <<recs, wanted>>
  <2>1. EntryTypes' /\ CtlTypes'
    BY <1>0, <1>2, AgainTyped, AtTyped, PartsKept
  <2>2. MemoryTypes' /\ GhostTypes'
    BY <1>0, <1>1, <1>2 DEF MemoryTypes, GhostTypes
  <2> QED BY <1>1, <2>1, <2>2, PartsKept, TypesByPartNext
<1>3. CASE \E n \in Nat : Normalize(n)
  <2>1. PICK n \in Nat : Normalize(n)
    BY <1>3
  <2>2. MemoryTypes' /\ GhostTypes'
    <3>1. Recent \subseteq Remembered /\ IsFiniteSet(Recent)
      <4>1. Recent \subseteq recs
        BY DEF Recent
      <4> QED BY <1>0, <4>1, FS_Subset
    <3>2. recs' = Recent \cup {[n |-> n, age |-> 0]} /\ wanted' = wanted \cup {[n |-> n, age |-> 0]}
      BY <2>1 DEF Normalize
    <3> QED BY <1>0, <1>1, <3>1, <3>2, AddRemembered DEF MemoryTypes, GhostTypes
  <2>3. EntryTypes' /\ CtlTypes'
    <3>1. CASE ctl' = [ctl EXCEPT !.at = "crashed"] /\ UNCHANGED queueVars
      BY <1>0, <3>1, AtTyped, PartsKept
    <3>2. CASE Act(ctl.current, Conforming(Stabilized(n)))
      <4>1. Conforming(Stabilized(n)) \in Words
        BY <1>0, StabilizedHoldsBack, ConformingHoldsBack
      <4> QED BY <1>0, <3>2, <4>1, ActTyped
    <3> QED BY <2>1, <3>1, <3>2 DEF Normalize
  <2> QED BY <1>1, <2>2, <2>3, PartsKept, TypesByPartNext
<1> QED BY <1>2, <1>3, CalculateEnds

LEMMA PutsKeepTypes ==
  ASSUME Types, PutScale \/ ScaleRefused \/ ScaleUnanswered
  PROVE  Types'
<1>0. /\ ctl \in CtlType /\ ctl.at = "scale" /\ ctl.desired \in Words /\ replicas \in Words
      /\ recs \subseteq Remembered /\ IsFiniteSet(recs)
      /\ hpa \in Hpa \cup {NoHpa} /\ hpaWatch \in Seq(Hpa \cup {NoHpa})
  BY TypesByPart DEF CtlTypes, CtlType, ApiTypes, MemoryTypes, PutScale, ScaleRefused, ScaleUnanswered
<1>1. CASE PutScale
  <2>1. replicas' = ctl.desired /\ Record /\ ctl' = [ctl EXCEPT !.at = "status"]
        /\ UNCHANGED <<hpa, hpaWatch, recs>> /\ UNCHANGED <<storeVars, queueVars, ghosts, envVars>>
    BY <1>1 DEF PutScale
  <2>2. CtlTypes' /\ MemoryTypes' /\ ApiTypes'
    BY <1>0, <2>1, AtTyped, RecordTyped DEF MemoryTypes, ApiTypes
  <2> QED BY <2>1, <2>2, PartsKept, TypesByPartNext
<1>2. CASE ScaleRefused
  <2>1. Record /\ ctl' = [ctl EXCEPT !.at = "status"] /\ EnvTypes'
        /\ UNCHANGED recs /\ UNCHANGED <<apiVars, storeVars, queueVars, ghosts>>
    BY <1>2, DisturbTyped DEF ScaleRefused, Disturbance
  <2>2. CtlTypes' /\ MemoryTypes'
    BY <1>0, <2>1, AtTyped, RecordTyped DEF MemoryTypes
  <2> QED BY <2>1, <2>2, PartsKept, TypesByPartNext
<1>3. CASE ScaleUnanswered
  <2>1. replicas' \in {replicas, ctl.desired} /\ Again /\ EnvTypes'
        /\ UNCHANGED <<hpa, hpaWatch>> /\ UNCHANGED <<storeVars, memory, ghosts>>
    BY <1>3, DisturbTyped DEF ScaleUnanswered, Disturbance
  <2>2. CtlTypes' /\ EntryTypes' /\ ApiTypes'
    BY <1>0, <2>1, AgainTyped DEF ApiTypes
  <2> QED BY <2>1, <2>2, PartsKept, TypesByPartNext
<1> QED BY <1>1, <1>2, <1>3

(* The autoscaler as it is put with its status.                            *)
NewStatus == [ctl.hpa EXCEPT !.current = StatusOf(ctl.current, ctl.desired).current,
                             !.desired = ctl.desired]

LEMMA StatusPut ==
  ASSUME Types, ctl.at # "idle"
  PROVE  NewStatus \in Hpa /\ NewStatus.limits = ctl.hpa.limits
<1> DEFINE s == StatusOf(ctl.current, ctl.desired).current
<1>1. ctl.hpa \in Hpa /\ ctl.current \in Words /\ ctl.desired \in Words
  BY TypesByPart DEF CtlTypes, CtlType, AtWork
<1>2. s \in Words
  BY <1>1, WordsAreNumbers DEF StatusOf
<1> HIDE DEF s
<1>3. ctl.hpa.limits \in Limits /\ DOMAIN ctl.hpa = {"limits", "current", "desired"}
  BY <1>1 DEF Hpa
<1>4. ASSUME NEW h, DOMAIN h = {"limits", "current", "desired"}, NEW m, NEW n
      PROVE  [h EXCEPT !.current = m, !.desired = n]
               = [limits |-> h.limits, current |-> m, desired |-> n]
  <2>1. PICK e : e = [h EXCEPT !.current = m, !.desired = n]
    OBVIOUS
  <2>2. e = [f \in DOMAIN e |-> e[f]] /\ DOMAIN e = {"limits", "current", "desired"}
    BY <1>4, <2>1
  <2>3. e.limits = h.limits /\ e.current = m /\ e.desired = n
    BY <1>4, <2>1
  <2>4. e = [limits |-> e.limits, current |-> e.current, desired |-> e.desired]
    BY <2>2
  <2> QED BY <2>1, <2>3, <2>4
<1>5. NewStatus = [limits |-> ctl.hpa.limits, current |-> s, desired |-> ctl.desired]
  BY <1>3, <1>4 DEF NewStatus, s
<1>6. s \in 0 .. Word - 1 /\ ctl.desired \in 0 .. Word - 1
  BY <1>1, <1>2 DEF Words
<1> QED BY <1>3, <1>5, <1>6 DEF Hpa

LEMMA StatusKeepsTypes ==
  ASSUME Types, PutStatus \/ StatusRefused \/ ReadFails
  PROVE  Types'
<1>1. CASE PutStatus
  <2>1. ctl.at = "status" /\ replicas \in Words /\ hpa \in Hpa \cup {NoHpa}
        /\ hpaWatch \in Seq(Hpa \cup {NoHpa})
    BY <1>1, TypesByPart DEF ApiTypes, PutStatus
  <2>2. Again /\ replicas' = replicas /\ UNCHANGED <<storeVars, memory, ghosts, envVars>>
    BY <1>1 DEF PutStatus
  <2>3. NewStatus \in Hpa
    BY <2>1, StatusPut
  <2>4. (hpa = NoHpa /\ UNCHANGED <<hpa, hpaWatch>>) \/ PutHpa(NewStatus)
    BY <1>1 DEF PutStatus, NewStatus
  <2>5. ApiTypes'
    BY <2>1, <2>2, <2>3, <2>4, PutHpaTyped DEF ApiTypes
  <2> QED BY <2>2, <2>5, AgainTyped, PartsKept, TypesByPartNext
<1>2. CASE StatusRefused \/ ReadFails
  <2>1. Again /\ EnvTypes' /\ UNCHANGED <<apiVars, storeVars, memory, ghosts>>
    BY <1>2, DisturbTyped DEF StatusRefused, ReadFails, Disturbance
  <2> QED BY <2>1, AgainTyped, PartsKept, TypesByPartNext
<1> QED BY <1>1, <1>2

LEMMA InitTyped == Init => Types
<1> SUFFICES ASSUME Init PROVE Types
  OBVIOUS
<1>1. world \in Worlds /\ replicas = world.first /\ replicas \in Words
  BY WorldParts DEF Init
<1>2. PICK n \in {0, world.first} : hpa = Created(n)
  BY DEF Init
<1>3. hpa \in Hpa /\ hpaWatch \in Seq(Hpa \cup {NoHpa})
  <2>1. Created(n) \in Hpa
    BY <1>1, <1>2, CreatedTyped, WordsAreNumbers
  <2>2. hpaWatch = <<hpa>>
    BY DEF Init
  <2> QED BY <1>2, <2>1, <2>2
<1>4. ApiTypes
  BY <1>1, <1>3 DEF ApiTypes
<1>5. StoreTypes
  <2>1. hpaStore = NoHpa /\ rx = 0 /\ resync = FALSE
    BY DEF Init
  <2>2. 0 \in 0 .. QueueCap
    BY HPAAssumption
  <2> QED BY <2>1, <2>2 DEF StoreTypes
<1>9. EntryTypes
  BY DEF Init, EntryTypes
<1>6. MemoryTypes
  BY FS_EmptySet DEF Init, MemoryTypes, Nothing
<1>7. CtlTypes
  BY IdleTyped DEF Init, CtlTypes, AtWork, Idle
<1>8. GhostTypes /\ EnvTypes
  BY <1>1 DEF Init, GhostTypes, EnvTypes
<1> QED BY <1>4, <1>5, <1>6, <1>7, <1>8, <1>9, TypesByPart

LEMMA NextKeepsTypes ==
  ASSUME Types, [Next]_vars
  PROVE  Types'
<1>1. CASE Task \/ ReadFails \/ ScaleRefused \/ ScaleUnanswered \/ StatusRefused
  BY <1>1, QueueStepsKeepTypes, GetKeepsTypes, CalculateKeepsTypes, PutsKeepTypes, StatusKeepsTypes
     DEF Task
<1>2. CASE UNCHANGED vars
  BY <1>2, PartsKept, TypesByPartNext DEF vars
<1> QED BY <1>1, <1>2, OthersKeepTypes, InformerKeepsTypes, TickKeepsTypes DEF Next

(* In every world the variables keep their types: the number of replicas   *)
(* and what is remembered of it stay within an unsigned integer, although  *)
(* limits, policies and metrics are calculated with without bound.         *)
THEOREM HPATypeCorrect == Spec => []TypeOK
<1>1. Types => TypeOK
  BY DEF Types
<1>2. Types /\ [Next]_vars => Types'
  BY NextKeepsTypes
<1> QED BY <1>1, <1>2, InitTyped, PTL DEF Spec

(* Whatever the metrics, the pods and the target, and whatever happened    *)
(* before: a calculation that changes the number asks for enough pods to   *)
(* carry what was measured.                                                *)
THEOREM ReplicasCarryTheLoad == Spec => []CarriesTheLoad
<1>1. Types => CarriesTheLoad
  <2> SUFFICES ASSUME Types, ctl.at = "metrics", NEW o \in world.metrics
               PROVE  Carries(o, ctl.current)
    BY DEF CarriesTheLoad
  <2>1. ctl.current \in Words /\ ctl.current > 0 /\ world \in Worlds
    BY TypesByPart DEF CtlTypes, CtlType, AtWork, EnvTypes
  <2>2. ctl.current \in Nat
    BY <2>1, WordsAreNumbers
  <2>3. ctl.current # 0
    BY <2>1, <2>2
  <2>4. o \in Observation
    BY <2>1, WorldParts
  <2> QED BY <2>2, <2>3, <2>4, CalculationCarries
<1>2. Types /\ [Next]_vars => Types'
  BY NextKeepsTypes
<1> QED BY <1>1, <1>2, InitTyped, PTL DEF Spec

-------------------------------------------------------------------------------
(* Sums of what was added and removed.                                     *)

LEMMA SumSame ==
  ASSUME NEW f, NEW g, NEW S, IsFiniteSet(S), Numbers(f, S), \A x \in S : f[x] = g[x]
  PROVE  SumFunctionOnSet(f, S) = SumFunctionOnSet(g, S)
<1>1. Numbers(g, S) /\ (\A x \in S : f[x] <= g[x]) /\ (\A x \in S : g[x] <= f[x])
  BY DEF Numbers
<1>2. SumFunctionOnSet(f, S) <= SumFunctionOnSet(g, S)
      /\ SumFunctionOnSet(g, S) <= SumFunctionOnSet(f, S)
  BY <1>1, SumMonotone
<1>3. SumFunctionOnSet(f, S) \in Nat /\ SumFunctionOnSet(g, S) \in Nat
  BY <1>1, SumIsNatural
<1> QED BY <1>2, <1>3

LEMMA SumOfNothing ==
  ASSUME NEW f, NEW S, IsFiniteSet(S), \A x \in S : f[x] = 0
  PROVE  SumFunctionOnSet(f, S) = 0
<1> DEFINE C == {u \in FiniteSubsetsOf(S) : SumFunctionOnSet(f, u) # 0}
<1>1. SUFFICES ASSUME C # {} PROVE FALSE
  BY DEF FiniteSubsetsOf
<1>2. PICK u \in C : \A x \in u : (u \ {x}) \notin C
  BY <1>1, SmallestFinite
<1>3. u \in SUBSET S /\ IsFiniteSet(u) /\ SumFunctionOnSet(f, u) # 0
  BY DEF FiniteSubsetsOf
<1>4. u # {}
  BY <1>3, SumFirst
<1>5. First(u) \in u
  BY <1>4, FirstIsIn
<1>6. SumFunctionOnSet(f, u \ {First(u)}) = 0
  BY <1>2, <1>3, <1>5, FS_RemoveElement DEF FiniteSubsetsOf
<1>7. SumFunctionOnSet(f, u) = f[First(u)] + SumFunctionOnSet(f, u \ {First(u)})
  BY <1>3, <1>4, SumFirst
<1>8. f[First(u)] = 0
  BY <1>3, <1>5
<1> QED BY <1>3, <1>6, <1>7, <1>8

LEMMA PeriodIsFinite ==
  ASSUME NEW f \in [Age -> Nat], NEW a \in Age
  PROVE  IsFiniteSet(0 .. a) /\ Numbers(f, 0 .. a) /\ 0 .. a \subseteq Age /\ a \in Nat
<1>1. 0 .. a \subseteq Age /\ a \in Nat
  BY WordsAreNumbers DEF Age
<1>2. Numbers(f, 0 .. a)
  BY <1>1 DEF Numbers
<1>3. IsFiniteSet(0 .. a)
  <2>1. 0 \in Int /\ a \in Int
    BY <1>1
  <2> QED BY <2>1, FS_Interval, Zenon
<1> QED BY <1>1, <1>2, <1>3

LEMMA ChangedByOneMore ==
  ASSUME NEW f \in [Age -> Nat], NEW a \in Age
  PROVE  /\ a = 0 => Changed(f, a) = f[0]
         /\ a # 0 => /\ a - 1 \in Age
                     /\ Changed(f, a) = f[a] + Changed(f, a - 1)
<1>1. IsFiniteSet(0 .. a) /\ Numbers(f, 0 .. a) /\ a \in Nat
  BY PeriodIsFinite
<1>2. SumFunctionOnSet(f, 0 .. a) = f[a] + SumFunctionOnSet(f, (0 .. a) \ {a})
  <2>1. a \in 0 .. a
    BY <1>1
  <2> QED BY <1>1, <2>1, SumRemove
<1>3. CASE a = 0
  <2>1. (0 .. a) \ {a} = {}
    BY <1>3
  <2>2. SumFunctionOnSet(f, (0 .. a) \ {a}) = 0
    BY <2>1, FS_EmptySet, SumFirst
  <2>3. f[0] \in Nat
    BY WordsAreNumbers
  <2>4. Changed(f, a) = f[a] + 0
    BY <1>2, <2>2 DEF Changed
  <2> QED BY <1>3, <2>3, <2>4
<1>4. CASE a # 0
  <2>1. (0 .. a) \ {a} = 0 .. a - 1 /\ a - 1 \in Age
    BY <1>1, <1>4, WordsAreNumbers DEF Age
  <2> QED BY <1>2, <1>4, <2>1 DEF Changed
<1> QED BY <1>3, <1>4

(* A tick later every change has happened one tick earlier.                *)
LEMMA ChangedShifts ==
  ASSUME NEW f \in [Age -> Nat], NEW a \in Age
  PROVE  /\ a = 0 => Changed(Shifted(f, 0), a) = 0
         /\ a # 0 => a - 1 \in Age /\ Changed(Shifted(f, 0), a) = Changed(f, a - 1)
<1> DEFINE g == Shifted(f, 0)
           C == {n \in Nat : n + 1 \in Age /\ Changed(g, n + 1) # Changed(f, n)}
<1>1. g \in [Age -> Nat] /\ g[0] = 0 /\ \A b \in Age : b # 0 => g[b] = f[b - 1]
  <2>1. g \in [Age -> Nat]
    BY ShiftedTyped
  <2>2. g = [b \in Age |-> IF b = 0 THEN 0 ELSE f[b - 1]]
    BY DEF Shifted
  <2> HIDE DEF g
  <2> QED BY <2>1, <2>2, WordsAreNumbers
<1>2. Changed(g, 0) = 0
  BY <1>1, ChangedByOneMore, WordsAreNumbers
<1> HIDE DEF g
<1>3. ASSUME C # {} PROVE FALSE
  <2>1. PICK n \in C : \A m \in 0 .. n - 1 : m \notin C
    BY <1>3, SmallestNumber
  <2>2. n \in Nat /\ n + 1 \in Age /\ n + 1 # 0 /\ (n + 1) - 1 = n /\ n \in Age
        /\ Changed(g, n + 1) # Changed(f, n)
    BY WordsAreNumbers DEF Age
  <2>3. Changed(g, n + 1) = f[n] + Changed(g, n)
    <3>1. Changed(g, n + 1) = g[n + 1] + Changed(g, (n + 1) - 1)
      BY <1>1, <2>2, ChangedByOneMore
    <3>2. g[n + 1] = f[(n + 1) - 1]
      BY <1>1, <2>2
    <3> QED BY <2>2, <3>1, <3>2
  <2>4. CASE n = 0
    <3>1. Changed(f, n) = f[n] /\ f[n] \in Nat
      BY <2>2, <2>4, ChangedByOneMore
    <3> QED BY <1>2, <2>2, <2>3, <2>4, <3>1
  <2>5. CASE n # 0
    <3>1. Changed(f, n) = f[n] + Changed(f, n - 1)
      BY <2>2, <2>5, ChangedByOneMore
    <3>2. n - 1 \in 0 .. n - 1 /\ n - 1 \in Nat /\ (n - 1) + 1 = n
      BY <2>2, <2>5
    <3>3. Changed(g, n) = Changed(f, n - 1)
      BY <2>1, <2>2, <3>2
    <3> QED BY <2>2, <2>3, <3>1, <3>3
  <2> QED BY <2>4, <2>5
<1>4. ASSUME a # 0 PROVE a - 1 \in Age /\ Changed(g, a) = Changed(f, a - 1)
  <2>1. a - 1 \in Nat /\ (a - 1) + 1 = a /\ a - 1 \in Age
    BY <1>4, WordsAreNumbers DEF Age
  <2> QED BY <1>3, <2>1
<1> QED BY <1>2, <1>4 DEF g

(* What is recorded now counts in every period.                            *)
LEMMA ChangedGrows ==
  ASSUME NEW f \in [Age -> Nat], NEW k \in Nat, NEW a \in Age
  PROVE  /\ [f EXCEPT ![0] = f[0] + k] \in [Age -> Nat]
         /\ Changed([f EXCEPT ![0] = f[0] + k], a) = Changed(f, a) + k
<1> DEFINE g == [f EXCEPT ![0] = f[0] + k]
           rest == (0 .. a) \ {0}
<1>1. g \in [Age -> Nat] /\ g[0] = f[0] + k /\ \A b \in Age : b # 0 => g[b] = f[b]
  BY WordsAreNumbers
<1> HIDE DEF g
<1>2. /\ IsFiniteSet(0 .. a) /\ Numbers(f, 0 .. a) /\ Numbers(g, 0 .. a)
      /\ 0 \in 0 .. a /\ 0 .. a \subseteq Age
  <2>1. 0 \in 0 .. a
    BY WordsAreNumbers DEF Age
  <2> QED BY <1>1, <2>1, PeriodIsFinite
<1>3. IsFiniteSet(rest) /\ Numbers(f, rest) /\ \A b \in rest : f[b] = g[b]
  BY <1>1, <1>2, FS_RemoveElement DEF Numbers
<1>4. SumFunctionOnSet(f, 0 .. a) = f[0] + SumFunctionOnSet(f, rest)
      /\ SumFunctionOnSet(g, 0 .. a) = g[0] + SumFunctionOnSet(g, rest)
  <2>1. PICK P : P = 0 .. a
    OBVIOUS
  <2>2. PICK z : z = 0
    OBVIOUS
  <2>3. IsFiniteSet(P) /\ Numbers(f, P) /\ Numbers(g, P) /\ z \in P
    BY <1>2, <2>1, <2>2
  <2>4. /\ SumFunctionOnSet(f, P) = f[z] + SumFunctionOnSet(f, P \ {z})
        /\ SumFunctionOnSet(g, P) = g[z] + SumFunctionOnSet(g, P \ {z})
    BY ONLY <2>3, SumRemove
  <2> QED BY <2>1, <2>2, <2>4
<1>5. SumFunctionOnSet(f, rest) = SumFunctionOnSet(g, rest) /\ SumFunctionOnSet(f, rest) \in Nat
  BY <1>3, SumSame, SumIsNatural
<1>6. f[0] \in Nat
  BY WordsAreNumbers
<1> HIDE DEF rest
<1>7. Changed(g, a) = Changed(f, a) + k
  BY <1>1, <1>4, <1>5, <1>6 DEF Changed
<1> QED BY <1>1, <1>7 DEF g

-------------------------------------------------------------------------------
(* Slowly.                                                                 *)

(* The autoscaler is never deleted: it is in etcd, in the watch and, once  *)
(* it has arrived, in the store; and before it arrives nothing happens.    *)
(* So every wish of the window is still remembered.                        *)
KeepsWishes ==
  env["drop"] = 0 =>
    /\ hpa # NoHpa /\ \A i \in DOMAIN hpaWatch : hpaWatch[i] # NoHpa
    /\ hpaStore = NoHpa =>
         recs = {} /\ wanted = {} /\ ups = Nothing /\ downs = Nothing /\ ctl = Idle
    /\ wanted \subseteq recs
WantedInWindow == \A r \in wanted : r.age <= world.down.window

(* As long as it is alone and nobody patches it the limits are those of    *)
(* the beginning.                                                          *)
Untouched == Alone /\ env["patch"] = 0
KeepsLimits ==
  Untouched =>
    /\ hpa.limits = world.limits
    /\ \A i \in DOMAIN hpaWatch : hpaWatch[i].limits = world.limits
    /\ hpaStore # NoHpa => hpaStore.limits = world.limits
    /\ ctl.at # "idle" => ctl.hpa.limits = world.limits

(* The books agree with what there was: replicas of now and then differ by *)
(* what was recorded in between.                                           *)
Balanced ==
  Alone =>
    /\ ctl.at \in {"metrics", "scale"} => ctl.current = replicas
    /\ \A a \in Age : replicas + Changed(downs, a) = past[a] + Changed(ups, a)

(* So many replicas were asked for no longer ago than that.                *)
Reason(n, age) ==
  n <= world.limits.min \/ \E r \in wanted : r.age <= age /\ n <= r.n

(* What was added within the stabilisation window is still there, because  *)
(* the wish for it holds the number up.                                    *)
StillThere ==
  Untouched =>
    /\ replicas > world.limits.max => ups = Nothing
    /\ \A b \in 0 .. world.down.window : ups[b] > 0 => Reason(replicas, b)
    /\ \A a \in 0 .. world.down.window : Changed(ups, a) <= replicas
    /\ ctl.at = "scale" =>
         /\ ctl.desired <= world.limits.max
         /\ ctl.desired > ctl.current => Reason(ctl.desired, 0)
         /\ ctl.desired < ctl.current => \A b \in 0 .. world.down.window : ups[b] = 0

(* No period started with more replicas than an unsigned integer holds.    *)
Roomy ==
  ctl.at = "metrics" =>
    \A p \in world.down.policies : ctl.current + Changed(downs, p.period) < Word

Slow == /\ Types /\ KeepsWishes /\ WantedInWindow
        /\ KeepsLimits /\ Balanced /\ StillThere

LEMMA AppendHas ==
  ASSUME NEW T, NEW s \in Seq(T), NEW x \in T, NEW i \in DOMAIN Append(s, x)
  PROVE  (i \in DOMAIN s /\ Append(s, x)[i] = s[i]) \/ Append(s, x)[i] = x
<1>1. Len(s) \in Nat /\ DOMAIN s = 1 .. Len(s) /\ DOMAIN Append(s, x) = 1 .. Len(s) + 1
  OBVIOUS
<1> QED BY <1>1

LEMMA TailHas ==
  ASSUME NEW T, NEW s \in Seq(T), s # <<>>
  PROVE  /\ \A i \in DOMAIN Tail(s) : i + 1 \in DOMAIN s /\ Tail(s)[i] = s[i + 1]
         /\ 1 \in DOMAIN s /\ Head(s) = s[1]
<1>1. Len(s) \in Nat \ {0} /\ DOMAIN s = 1 .. Len(s)
      /\ DOMAIN Tail(s) = 1 .. Len(s) - 1 /\ Head(s) = s[1]
  OBVIOUS
<1> QED BY <1>1

(* Disturbances are counted, and the world stays as it is.                 *)
LEMMA DisturbCounts ==
  ASSUME Types, NEW d \in Disturbance, Disturb(d)
  PROVE  /\ world' = world /\ env'[d] # 0
         /\ \A e \in Disturbance : env'[e] = 0 => env[e] = 0
<1>1. env \in [Disturbance -> Nat]
  BY DEF Types, TypeOK
<1>2. env' = [env EXCEPT ![d] = env[d] + 1] /\ world' = world
  BY DEF Disturb
<1> QED BY <1>1, <1>2

LEMMA WorldStays ==
  ASSUME Types, Next
  PROVE  world' = world /\ \A e \in Disturbance : env'[e] = 0 => env[e] = 0
<1>1. CASE UNCHANGED envVars
  BY <1>1 DEF envVars
<1>2. CASE \E d \in Disturbance : Disturb(d)
  BY <1>2, DisturbCounts
<1>3. CASE \/ ReceiveHpa \/ Tick \/ Task
  BY <1>1, <1>3 DEF ReceiveHpa, Tick, Task, ReceiveName, HandleResync, TakeEntry, Get, Calculate,
                    PutScale, PutStatus
<1>4. CASE \/ \E n \in world.scales : ScaleByHand(n)
           \/ \E limits \in world.patches : PatchHpa(limits)
           \/ DropHpa \/ CreateHpa \/ RelistHpas
           \/ ReadFails \/ ScaleRefused \/ ScaleUnanswered \/ StatusRefused
  BY <1>2, <1>4 DEF ScaleByHand, PatchHpa, DropHpa, CreateHpa, RelistHpas, ReadFails,
                    ScaleRefused, ScaleUnanswered, StatusRefused, Disturbance
<1> QED BY <1>3, <1>4 DEF Next

LEMMA AloneBefore ==
  ASSUME Types, Next
  PROVE  /\ env'["drop"] = 0 => env["drop"] = 0
         /\ Alone' => Alone /\ env["drop"] = 0 /\ world.punctual
         /\ Untouched' => Untouched /\ Alone' /\ Alone /\ env["drop"] = 0 /\ world.punctual
BY WorldStays DEF Alone, Untouched, Disturbance

(* Some of the disturbances end it.                                        *)
LEMMA NotAlone ==
  ASSUME Types,
         \/ \E n \in world.scales : ScaleByHand(n)
         \/ DropHpa \/ ScaleRefused \/ ScaleUnanswered \/ StatusRefused
  PROVE  ~Alone'
<1>1. \E d \in {"scale", "drop", "refuse", "lose"} : Disturb(d)
  BY DEF ScaleByHand, DropHpa, ScaleRefused, ScaleUnanswered, StatusRefused
<1>2. PICK d \in {"scale", "drop", "refuse", "lose"} : Disturb(d)
  BY <1>1
<1>3. env'[d] # 0
  BY <1>2, DisturbCounts DEF Disturbance
<1> QED BY <1>3 DEF Alone

LEMMA NotUntouched ==
  ASSUME Types,
         \/ \E n \in world.scales : ScaleByHand(n)
         \/ \E limits \in world.patches : PatchHpa(limits)
         \/ DropHpa \/ ScaleRefused \/ ScaleUnanswered \/ StatusRefused
  PROVE  ~Untouched'
<1>1. CASE \E limits \in world.patches : PatchHpa(limits)
  <2>1. Disturb("patch")
    BY <1>1 DEF PatchHpa
  <2>2. env'["patch"] # 0
    BY <2>1, DisturbCounts DEF Disturbance
  <2> QED BY <2>2 DEF Untouched
<1>2. CASE \/ \E n \in world.scales : ScaleByHand(n)
           \/ DropHpa \/ ScaleRefused \/ ScaleUnanswered \/ StatusRefused
  BY <1>2, NotAlone DEF Untouched
<1> QED BY <1>1, <1>2

-------------------------------------------------------------------------------
(* How a reconciliation goes on.                                           *)

LEMMA ActShape ==
  ASSUME Types, NEW m, NEW n, Act(m, n)
  PROVE  /\ ctl'.at \in {"idle", "scale", "status"}
         /\ ctl'.at = "idle" \/ ctl'.hpa = ctl.hpa
         /\ ctl'.at = "scale" => ctl'.current = m /\ ctl'.desired = n /\ n # m
<1>1. CASE /\ n # m
           /\ ctl' = [[ctl EXCEPT !.current = m, !.desired = n] EXCEPT !.at = "scale"]
  <2>1. ctl' = [at |-> "scale", hpa |-> ctl.hpa, current |-> m, desired |-> n]
    BY <1>1, CtlAfter, ZenonT(60)
  <2> QED BY <1>1, <2>1
<1>2. CASE ctl' = [[ctl EXCEPT !.current = m, !.desired = n] EXCEPT !.at = "status"]
  <2>1. ctl' = [at |-> "status", hpa |-> ctl.hpa, current |-> m, desired |-> n]
    BY <1>2, CtlAfter, ZenonT(60)
  <2> QED BY <2>1
<1>3. CASE Again
  BY <1>3 DEF Again, Idle
<1> QED BY <1>1, <1>2, <1>3 DEF Act

LEMMA GetShape ==
  ASSUME Types, Get
  PROVE  /\ ctl'.at \in {"idle", "metrics", "scale", "status"}
         /\ ctl'.at = "idle" \/ ctl'.hpa = ctl.hpa
         /\ ctl'.at \in {"metrics", "scale"} => ctl'.current = replicas
         /\ ctl'.at = "scale" =>
              \/ replicas > ctl.hpa.limits.max /\ ctl'.desired = ctl.hpa.limits.max
              \/ replicas < ctl.hpa.limits.min /\ ctl'.desired = ctl.hpa.limits.min
<1>1. CASE replicas = 0 /\ Act(0, 0)
  BY <1>1, ActShape
<1>2. CASE replicas > ctl.hpa.limits.max /\ Act(replicas, ctl.hpa.limits.max)
  BY <1>2, ActShape
<1>3. CASE replicas < ctl.hpa.limits.min /\ Act(replicas, ctl.hpa.limits.min)
  BY <1>3, ActShape
<1>4. CASE ctl' = [ctl EXCEPT !.at = "metrics", !.current = replicas]
  <2>1. ctl' = [at |-> "metrics", hpa |-> ctl.hpa, current |-> replicas, desired |-> ctl.desired]
    BY <1>4, CtlAfter
  <2> QED BY <2>1
<1> QED BY <1>1, <1>2, <1>3, <1>4 DEF Get

(* What was calculated is remembered; a decision keeps within it and       *)
(* within the limits.                                                      *)
Decided(n) ==
  /\ wanted' = wanted \cup {[n |-> n, age |-> 0]}
  /\ recs' = Recent \cup {[n |-> n, age |-> 0]}
  /\ ctl'.at = "scale" =>
       /\ ctl'.current = ctl.current
       /\ ctl'.desired <= ctl.hpa.limits.max
       /\ ctl'.desired > ctl.current => ctl'.desired <= n /\ ctl'.desired <= ScaleUpLimit
       /\ ctl'.desired < ctl.current =>
            /\ ctl'.desired >= n
            /\ ctl'.desired >= ctl.hpa.limits.min /\ ctl'.desired >= ScaleDownLimit
            /\ \A r \in recs : r.age <= world.down.window => ctl'.desired >= r.n

LEMMA NormalizeDecides ==
  ASSUME Types, ctl.at = "metrics", NEW n \in Nat, Normalize(n)
  PROVE  Decided(n)
<1>1. wanted' = wanted \cup {[n |-> n, age |-> 0]} /\ recs' = Recent \cup {[n |-> n, age |-> 0]}
  BY DEF Normalize
<1>2. ASSUME ctl'.at = "scale" PROVE Decided(n)
  <2> DEFINE s == Stabilized(n)
             m == Conforming(s)
             c == ctl.current
  <2>1. c \in Words /\ ctl \in CtlType
    BY TypesByPart DEF CtlTypes, CtlType
  <2>2. /\ s \in Nat
        /\ s > c => s <= n
        /\ s < c => s >= n /\ \A r \in recs : r.age <= world.down.window => s >= r.n
    BY <2>1, StabilizedHoldsBack
  <2> HIDE DEF s
  <2>3. /\ m \in Words
        /\ m <= ctl.hpa.limits.max
        /\ m > c => s > c /\ m <= s /\ m <= ScaleUpLimit
        /\ m < c => s < c /\ m >= s /\ m >= ctl.hpa.limits.min /\ m >= ScaleDownLimit
    BY <2>2, ConformingHoldsBack
  <2>4. ctl' # [ctl EXCEPT !.at = "crashed"]
    <3>1. [ctl EXCEPT !.at = "crashed"].at = "crashed"
      BY <2>1 DEF CtlType
    <3> QED BY <1>2, <3>1
  <2>5. Act(c, m)
    BY <2>4 DEF Normalize, s
  <2> HIDE DEF m
  <2>6. ctl'.current = c /\ ctl'.desired = m
    BY <1>2, <2>5, ActShape
  <2>7. m \in Nat /\ c \in Nat
    BY <2>1, <2>3, WordsAreNumbers
  <2>8. \A r \in recs : r.n \in Nat
    BY TypesByPart DEF MemoryTypes, Remembered
  <2>9. m > c => m <= n
    BY <2>2, <2>3, <2>7
  <2>10. m < c => m >= n
    BY <2>2, <2>3, <2>7
  <2>11. ASSUME m < c, NEW r \in recs, r.age <= world.down.window PROVE m >= r.n
    <3>1. s >= r.n /\ m >= s /\ r.n \in Nat
      BY <2>2, <2>3, <2>8, <2>11
    <3> QED BY <2>2, <2>7, <3>1
  <2> QED BY <1>1, <2>3, <2>6, <2>9, <2>10, <2>11 DEF Decided, c
<1>3. ASSUME ctl'.at # "scale" PROVE Decided(n)
  BY <1>1, <1>3 DEF Decided
<1> QED BY <1>2, <1>3

LEMMA CalculateShape ==
  ASSUME Types, Calculate
  PROVE  /\ ctl.at = "metrics"
         /\ ctl'.at \in {"idle", "scale", "status", "crashed"}
         /\ ctl'.at = "idle" \/ ctl'.hpa = ctl.hpa
         /\ \/ ctl'.at # "scale" /\ UNCHANGED <<recs, wanted>>
            \/ \E n \in Nat : Decided(n)
<1>1. ctl.at = "metrics"
  BY DEF Calculate
<1>2. [ctl EXCEPT !.at = "crashed"]
        = [at |-> "crashed", hpa |-> ctl.hpa, current |-> ctl.current, desired |-> ctl.desired]
  BY CtlAfter
<1>3. CASE /\ Again \/ (ctl' = [ctl EXCEPT !.at = "crashed"] /\ UNCHANGED queueVars)
           /\ UNCHANGED <<recs, wanted>>
  BY <1>1, <1>2, <1>3 DEF Again, Idle
<1>4. CASE \E n \in Nat : Normalize(n)
  <2>1. PICK n \in Nat : Normalize(n)
    BY <1>4
  <2>2. Decided(n)
    BY <1>1, <2>1, NormalizeDecides
  <2>3. ctl'.at \in {"idle", "scale", "status", "crashed"} /\ (ctl'.at = "idle" \/ ctl'.hpa = ctl.hpa)
    BY <1>2, <2>1, ActShape DEF Normalize
  <2> QED BY <1>1, <2>2, <2>3
<1> QED BY <1>3, <1>4, CalculateEnds

LEMMA LaterShape ==
  ASSUME Types, \/ PutScale \/ PutStatus
                \/ ReadFails \/ ScaleRefused \/ ScaleUnanswered \/ StatusRefused
  PROVE  /\ ctl.at \in {"get", "metrics", "scale", "status"}
         /\ ctl'.at \in {"idle", "status"}
         /\ ctl'.at = "idle" \/ ctl'.hpa = ctl.hpa
<1>1. [ctl EXCEPT !.at = "status"]
        = [at |-> "status", hpa |-> ctl.hpa, current |-> ctl.current, desired |-> ctl.desired]
  BY CtlAfter
<1>2. ctl.at \in {"get", "metrics", "scale", "status"}
      /\ (Again \/ ctl' = [ctl EXCEPT !.at = "status"])
  BY DEF PutScale, PutStatus, ReadFails, ScaleRefused, ScaleUnanswered, StatusRefused
<1> QED BY <1>1, <1>2 DEF Again, Idle

-------------------------------------------------------------------------------
(* Every wish of the window is remembered.                                 *)

LEMMA OlderKeepsSubset ==
  ASSUME NEW S, NEW T, S \subseteq T
  PROVE  Older(S) \subseteq Older(T) /\ Older({}) = {}
BY DEF Older

LEMMA NothingShifts == Shifted(Nothing, 0) = Nothing
<1>1. \A a \in Age : a # 0 => a - 1 \in Age
  BY WordsAreNumbers DEF Age
<1> QED BY <1>1 DEF Shifted, Nothing

LEMMA OthersKeepWishes ==
  ASSUME Types, KeepsWishes, env'["drop"] = 0, env["drop"] = 0,
         \/ \E n \in world.scales : ScaleByHand(n)
         \/ \E limits \in world.patches : PatchHpa(limits)
         \/ DropHpa \/ CreateHpa
  PROVE  KeepsWishes'
<1>0. hpa # NoHpa /\ hpa \in Hpa /\ hpaWatch \in Seq(Hpa \cup {NoHpa})
      /\ \A i \in DOMAIN hpaWatch : hpaWatch[i] # NoHpa
  BY TypesByPart DEF KeepsWishes, ApiTypes
<1>1. UNCHANGED <<hpaStore, recs, ups, downs, wanted, ctl>>
  BY DEF ScaleByHand, PatchHpa, DropHpa, CreateHpa, storeVars, memory, ghosts
<1>2. CASE \E n \in world.scales : ScaleByHand(n)
  <2>1. UNCHANGED <<hpa, hpaWatch>>
    BY <1>2 DEF ScaleByHand
  <2> QED BY <1>1, <2>1 DEF KeepsWishes
<1>3. CASE \E limits \in world.patches : PatchHpa(limits)
  <2>1. PICK limits \in world.patches : PatchHpa(limits)
    BY <1>3
  <2> DEFINE new == [hpa EXCEPT !.limits = limits]
  <2>2. limits \in Limits
    BY TypesByPart, WorldParts DEF EnvTypes
  <2>3. new \in Hpa
    BY <1>0, <2>2 DEF Hpa
  <2>4. hpa' = new /\ hpaWatch' = Append(hpaWatch, new)
    BY <2>1 DEF PatchHpa, PutHpa
  <2> HIDE DEF new
  <2>5. new # NoHpa /\ new \in Hpa \cup {NoHpa}
    BY <2>3, NoHpaAssumption
  <2>6. \A i \in DOMAIN hpaWatch' : hpaWatch'[i] # NoHpa
    BY <1>0, <2>4, <2>5, AppendHas
  <2> QED BY <1>1, <2>4, <2>5, <2>6 DEF KeepsWishes
<1>4. CASE DropHpa
  BY <1>4, DisturbCounts DEF DropHpa, Disturbance
<1>5. CASE CreateHpa
  BY <1>0, <1>5 DEF CreateHpa
<1> QED BY <1>2, <1>3, <1>4, <1>5

LEMMA InformerKeepsWishes ==
  ASSUME Types, KeepsWishes, env'["drop"] = 0, env["drop"] = 0, ReceiveHpa \/ RelistHpas
  PROVE  KeepsWishes'
<1>0. hpa # NoHpa /\ hpaWatch \in Seq(Hpa \cup {NoHpa})
      /\ \A i \in DOMAIN hpaWatch : hpaWatch[i] # NoHpa
  BY TypesByPart DEF KeepsWishes, ApiTypes
<1>1. UNCHANGED <<hpa, recs, ups, downs, wanted, ctl>>
  BY DEF ReceiveHpa, RelistHpas, memory, ghosts
<1>2. CASE ReceiveHpa
  <2>1. hpaWatch # <<>> /\ hpaWatch' = Tail(hpaWatch) /\ hpaStore' = Head(hpaWatch)
    BY <1>2 DEF ReceiveHpa
  <2>2. hpaStore' # NoHpa /\ \A i \in DOMAIN hpaWatch' : hpaWatch'[i] # NoHpa
    BY <1>0, <2>1, TailHas
  <2> QED BY <1>1, <2>2 DEF KeepsWishes
<1>3. CASE RelistHpas
  <2>1. hpaWatch' = <<>> /\ hpaStore' = hpa
    BY <1>3 DEF RelistHpas
  <2>2. \A i \in DOMAIN hpaWatch' : hpaWatch'[i] # NoHpa
    BY <2>1
  <2> QED BY <1>0, <1>1, <2>1, <2>2 DEF KeepsWishes
<1> QED BY <1>2, <1>3

LEMMA IdleWhenNotStored ==
  ASSUME KeepsWishes, env["drop"] = 0, ctl.at # "idle"
  PROVE  hpaStore # NoHpa
BY IdleFields DEF KeepsWishes

LEMMA TaskKeepsWishes ==
  ASSUME Types, KeepsWishes, WantedInWindow, env["drop"] = 0,
         Task \/ ReadFails \/ ScaleRefused \/ ScaleUnanswered \/ StatusRefused
  PROVE  KeepsWishes'
<1>0. /\ hpa # NoHpa /\ hpaWatch \in Seq(Hpa \cup {NoHpa})
      /\ \A i \in DOMAIN hpaWatch : hpaWatch[i] # NoHpa
      /\ wanted \subseteq recs
  BY TypesByPart DEF KeepsWishes, ApiTypes
<1>1. CASE ReceiveName \/ HandleResync
  <2>1. UNCHANGED <<hpa, hpaWatch, hpaStore, recs, ups, downs, wanted, ctl>>
    BY <1>1 DEF ReceiveName, HandleResync, apiVars, memory, ghosts
  <2> QED BY <2>1 DEF KeepsWishes
<1>2. CASE TakeEntry
  <2>1. UNCHANGED <<hpa, hpaWatch, hpaStore, wanted>>
    BY <1>2 DEF TakeEntry, apiVars, storeVars, ghosts
  <2>2. CASE hpaStore = NoHpa
    <3>1. recs' = {} /\ ups' = Nothing /\ downs' = Nothing /\ ctl' = ctl
      BY <1>2, <2>2 DEF TakeEntry
    <3> QED BY <2>1, <2>2, <3>1 DEF KeepsWishes
  <2>3. CASE hpaStore # NoHpa
    <3>1. UNCHANGED <<recs, ups, downs>>
      BY <1>2, <2>3 DEF TakeEntry, memory
    <3> QED BY <1>0, <2>1, <2>3, <3>1 DEF KeepsWishes
  <2> QED BY <2>2, <2>3
<1>3. CASE Get
  <2>1. UNCHANGED <<hpa, hpaWatch, hpaStore, wanted>> /\ recs \subseteq recs' /\ ctl.at = "get"
    BY <1>3 DEF Get, apiVars, storeVars, ghosts
  <2>2. hpaStore # NoHpa
    BY <2>1, IdleWhenNotStored
  <2> QED BY <1>0, <2>1, <2>2 DEF KeepsWishes
<1>4. CASE Calculate
  <2>1. UNCHANGED <<hpa, hpaWatch, hpaStore>>
    BY <1>4 DEF Calculate, apiVars, storeVars
  <2>2. hpaStore # NoHpa
    BY <1>4, CalculateShape, IdleWhenNotStored
  <2>3. wanted' \subseteq recs'
    <3>1. CASE UNCHANGED <<recs, wanted>>
      BY <1>0, <3>1
    <3>2. CASE \E n \in Nat : Decided(n)
      <4>1. wanted \subseteq Recent
        BY <1>0 DEF Recent, WantedInWindow
      <4> QED BY <3>2, <4>1 DEF Decided
    <3> QED BY <1>4, <3>1, <3>2, CalculateShape
  <2> QED BY <1>0, <2>1, <2>2, <2>3 DEF KeepsWishes
<1>5. CASE PutScale \/ ReadFails \/ ScaleRefused \/ ScaleUnanswered \/ StatusRefused
  <2>1. UNCHANGED <<hpa, hpaWatch, hpaStore, recs, wanted>>
    BY <1>5 DEF PutScale, ReadFails, ScaleRefused, ScaleUnanswered, StatusRefused, apiVars,
                storeVars, memory, ghosts
  <2>2. hpaStore # NoHpa
    BY <1>5, LaterShape, IdleWhenNotStored
  <2> QED BY <1>0, <2>1, <2>2 DEF KeepsWishes
<1>6. CASE PutStatus
  <2>1. UNCHANGED <<hpaStore, recs, wanted>>
    BY <1>6 DEF PutStatus, storeVars, memory, ghosts
  <2>2. hpaStore # NoHpa
    BY <1>6, LaterShape, IdleWhenNotStored
  <2>3. hpa' = NewStatus /\ hpaWatch' = Append(hpaWatch, NewStatus) /\ ctl.at = "status"
    BY <1>0, <1>6 DEF PutStatus, PutHpa, NewStatus
  <2>4. NewStatus \in Hpa /\ NewStatus # NoHpa
    BY <2>3, StatusPut, NoHpaAssumption
  <2>5. \A i \in DOMAIN hpaWatch' : hpaWatch'[i] # NoHpa
    BY <1>0, <2>3, <2>4, AppendHas
  <2> QED BY <1>0, <2>1, <2>2, <2>3, <2>4, <2>5 DEF KeepsWishes
<1> QED BY <1>1, <1>2, <1>3, <1>4, <1>5, <1>6 DEF Task

LEMMA TickKeepsWishes ==
  ASSUME Types, KeepsWishes, WantedInWindow, env["drop"] = 0, Tick
  PROVE  KeepsWishes'
<1>0. /\ hpa # NoHpa
      /\ \A i \in DOMAIN hpaWatch : hpaWatch[i] # NoHpa
      /\ wanted \subseteq recs
  BY DEF KeepsWishes
<1>1. UNCHANGED <<hpa, hpaWatch, hpaStore, ctl>> /\ recs' = Older(recs)
      /\ ups' = Shifted(ups, 0) /\ downs' = Shifted(downs, 0) /\ wanted' \subseteq Older(wanted)
  BY DEF Tick, apiVars, storeVars
<1>2. wanted' \subseteq recs'
  BY <1>0, <1>1, OlderKeepsSubset
<1>3. ASSUME hpaStore = NoHpa
      PROVE  recs' = {} /\ wanted' = {} /\ ups' = Nothing /\ downs' = Nothing /\ ctl' = Idle
  <2>1. recs = {} /\ wanted = {} /\ ups = Nothing /\ downs = Nothing /\ ctl = Idle
    BY <1>3 DEF KeepsWishes
  <2> QED BY <1>1, <2>1, OlderKeepsSubset, NothingShifts
<1> QED BY <1>0, <1>1, <1>2, <1>3 DEF KeepsWishes

LEMMA WantedStaysInWindow ==
  ASSUME Types, WantedInWindow, [Next]_vars
  PROVE  WantedInWindow'
<1>1. CASE UNCHANGED <<wanted, world>>
  BY <1>1 DEF WantedInWindow
<1>2. CASE Tick
  BY <1>2 DEF Tick, WantedInWindow, envVars
<1>3. CASE Calculate
  <2>1. world' = world /\ world.down.window >= 0
    <3>1. world.down.window \in Age
      BY TypesByPart, WorldParts, RuleParts DEF EnvTypes
    <3> QED BY <1>3, <3>1, WordsAreNumbers DEF Calculate, envVars, Age
  <2>2. CASE wanted' = wanted
    BY <1>1, <2>1, <2>2
  <2>3. CASE \E n \in Nat : Decided(n)
    BY <2>1, <2>3 DEF Decided, WantedInWindow
  <2> QED BY <1>3, <2>2, <2>3, CalculateShape
<1>4. CASE \/ \E n \in world.scales : ScaleByHand(n)
           \/ \E limits \in world.patches : PatchHpa(limits)
           \/ DropHpa \/ CreateHpa \/ ReceiveHpa \/ RelistHpas
           \/ ReceiveName \/ HandleResync \/ TakeEntry \/ Get \/ PutScale \/ PutStatus
           \/ ReadFails \/ ScaleRefused \/ ScaleUnanswered \/ StatusRefused
  <2>1. wanted' = wanted
    BY <1>4 DEF ScaleByHand, PatchHpa, DropHpa, CreateHpa, ReceiveHpa, RelistHpas, ReceiveName,
                HandleResync, TakeEntry, Get, PutScale, PutStatus, ReadFails, ScaleRefused,
                ScaleUnanswered, StatusRefused, ghosts
  <2>2. world' = world
    BY <1>4, WorldStays DEF Next, Task
  <2> QED BY <1>1, <2>1, <2>2
<1>5. CASE UNCHANGED vars
  BY <1>1, <1>5 DEF vars, ghosts, envVars
<1> QED BY <1>2, <1>3, <1>4, <1>5 DEF Next, Task

LEMMA NextKeepsWishes ==
  ASSUME Types, KeepsWishes, WantedInWindow, Next
  PROVE  KeepsWishes'
<1>1. CASE env'["drop"] = 0
  <2>1. env["drop"] = 0
    BY <1>1, AloneBefore
  <2> QED BY <1>1, <2>1, OthersKeepWishes, InformerKeepsWishes, TaskKeepsWishes, TickKeepsWishes
          DEF Next
<1>2. CASE env'["drop"] # 0
  BY <1>2 DEF KeepsWishes
<1> QED BY <1>1, <1>2

-------------------------------------------------------------------------------
(* An autoscaler that nobody touches keeps its limits.                     *)

LEMMA NextKeepsLimits ==
  ASSUME Types, KeepsWishes, KeepsLimits, Next
  PROVE  KeepsLimits'
<1> SUFFICES ASSUME Untouched' PROVE KeepsLimits'
  BY DEF KeepsLimits
<1>0. Untouched /\ env["drop"] = 0 /\ world' = world
  BY AloneBefore, WorldStays
<1>1. /\ hpa # NoHpa /\ hpa.limits = world.limits
      /\ \A i \in DOMAIN hpaWatch : hpaWatch[i].limits = world.limits
      /\ hpaStore # NoHpa => hpaStore.limits = world.limits
      /\ ctl.at # "idle" => ctl.hpa.limits = world.limits
      /\ hpaWatch \in Seq(Hpa \cup {NoHpa}) /\ \A i \in DOMAIN hpaWatch : hpaWatch[i] # NoHpa
  BY <1>0, TypesByPart DEF KeepsWishes, KeepsLimits, ApiTypes
<1>2. CASE ReceiveHpa
  <2>1. hpaWatch # <<>> /\ hpaWatch' = Tail(hpaWatch) /\ hpaStore' = Head(hpaWatch)
        /\ UNCHANGED <<hpa, ctl>>
    BY <1>2 DEF ReceiveHpa
  <2>2. hpaStore'.limits = world.limits /\ \A i \in DOMAIN hpaWatch' : hpaWatch'[i].limits = world.limits
    BY <1>1, <2>1, TailHas
  <2> QED BY <1>0, <1>1, <2>1, <2>2 DEF KeepsLimits
<1>3. CASE RelistHpas
  <2>1. hpaWatch' = <<>> /\ hpaStore' = hpa /\ UNCHANGED <<hpa, ctl>>
    BY <1>3 DEF RelistHpas
  <2>2. \A i \in DOMAIN hpaWatch' : hpaWatch'[i].limits = world.limits
    BY <2>1
  <2> QED BY <1>0, <1>1, <2>1, <2>2 DEF KeepsLimits
<1>4. CASE CreateHpa
  BY <1>1, <1>4 DEF CreateHpa
<1>5. CASE Tick \/ ReceiveName \/ HandleResync
  <2>1. UNCHANGED <<hpa, hpaWatch, hpaStore, ctl>>
    BY <1>5 DEF Tick, ReceiveName, HandleResync, apiVars, storeVars
  <2> QED BY <1>0, <1>1, <2>1 DEF KeepsLimits
<1>6. CASE TakeEntry
  <2>1. UNCHANGED <<hpa, hpaWatch, hpaStore>>
    BY <1>6 DEF TakeEntry, apiVars, storeVars
  <2>2. ctl'.at # "idle" => ctl'.hpa.limits = world.limits
    <3>1. CASE hpaStore = NoHpa
      BY <1>1, <1>6, <3>1 DEF TakeEntry
    <3>2. CASE hpaStore # NoHpa
      <4>1. ctl' = [at |-> "get", hpa |-> hpaStore, current |-> 0, desired |-> 0]
        BY <1>6, <3>2 DEF TakeEntry, Idle
      <4> QED BY <1>1, <3>2, <4>1
    <3> QED BY <3>1, <3>2
  <2> QED BY <1>0, <1>1, <2>1, <2>2 DEF KeepsLimits
<1>7. CASE Get \/ Calculate \/ PutScale \/ ReadFails
  <2>1. UNCHANGED <<hpa, hpaWatch, hpaStore>>
    BY <1>7 DEF Get, Calculate, PutScale, ReadFails, apiVars, storeVars
  <2>2. ctl.at # "idle" /\ (ctl'.at = "idle" \/ ctl'.hpa = ctl.hpa)
    BY <1>7, GetShape, CalculateShape, LaterShape DEF Get
  <2> QED BY <1>0, <1>1, <2>1, <2>2 DEF KeepsLimits
<1>8. CASE PutStatus
  <2>1. hpaStore' = hpaStore /\ ctl'.at = "idle"
    BY <1>8 DEF PutStatus, storeVars, Again, Idle
  <2>2. hpa' = NewStatus /\ hpaWatch' = Append(hpaWatch, NewStatus) /\ ctl.at = "status"
    BY <1>1, <1>8 DEF PutStatus, PutHpa, NewStatus
  <2>3. NewStatus \in Hpa /\ NewStatus.limits = world.limits
    BY <1>1, <2>2, StatusPut
  <2>4. \A i \in DOMAIN hpaWatch' : hpaWatch'[i].limits = world.limits
    BY <1>1, <2>2, <2>3, AppendHas
  <2> QED BY <1>0, <1>1, <2>1, <2>2, <2>3, <2>4 DEF KeepsLimits
<1> QED BY <1>2, <1>3, <1>4, <1>5, <1>6, <1>7, <1>8, NotUntouched DEF Next, Task

-------------------------------------------------------------------------------
(* The books of an autoscaler that is alone.                               *)

(* No tick passes while it works.                                          *)
LEMMA TickWhenIdle ==
  ASSUME Types, Tick, world.punctual
  PROVE  ctl = Idle /\ ctl' = Idle /\ ctl'.at = "idle"
BY IdleFields DEF Tick, Busy

LEMMA PutScaleChanges ==
  ASSUME Types, PutScale
  PROVE  /\ ctl.at = "scale" /\ replicas' = ctl.desired /\ ctl'.at = "status"
         /\ ctl.desired \in Nat /\ ctl.current \in Nat
         /\ \E u \in Nat, d \in Nat :
              /\ ups' = [ups EXCEPT ![0] = ups[0] + u]
              /\ downs' = [downs EXCEPT ![0] = downs[0] + d]
              /\ u = IF ctl.desired > ctl.current THEN ctl.desired - ctl.current ELSE 0
              /\ d = IF ctl.current > ctl.desired THEN ctl.current - ctl.desired ELSE 0
<1>1. ctl.at = "scale" /\ replicas' = ctl.desired /\ Record /\ ctl'.at = "status"
  <2>1. [ctl EXCEPT !.at = "status"]
          = [at |-> "status", hpa |-> ctl.hpa, current |-> ctl.current, desired |-> ctl.desired]
    BY CtlAfter
  <2> QED BY <2>1 DEF PutScale
<1>2. ctl.desired \in Nat /\ ctl.current \in Nat
  BY TypesByPart, WordsAreNumbers DEF CtlTypes, CtlType
<1> DEFINE u == Max({ctl.desired - ctl.current, 0})
           d == Max({ctl.current - ctl.desired, 0})
<1>3. /\ ups' = [ups EXCEPT ![0] = ups[0] + u]
      /\ downs' = [downs EXCEPT ![0] = downs[0] + d]
      /\ u = IF ctl.desired > ctl.current THEN ctl.desired - ctl.current ELSE 0
      /\ d = IF ctl.current > ctl.desired THEN ctl.current - ctl.desired ELSE 0
  BY <1>1, RecordTyped
<1> HIDE DEF u, d
<1>4. u \in Nat /\ d \in Nat
  BY <1>2, <1>3
<1> QED BY <1>1, <1>2, <1>3, <1>4

LEMMA NextKeepsBalance ==
  ASSUME Types, KeepsWishes, Balanced, Next
  PROVE  Balanced'
<1> SUFFICES ASSUME Alone' PROVE Balanced'
  BY DEF Balanced
<1>0. Alone /\ env["drop"] = 0 /\ world.punctual
  BY AloneBefore
<1>1. /\ ctl.at \in {"metrics", "scale"} => ctl.current = replicas
      /\ \A a \in Age : replicas + Changed(downs, a) = past[a] + Changed(ups, a)
  BY <1>0 DEF Balanced
<1>2. replicas \in Nat /\ ups \in [Age -> Nat] /\ downs \in [Age -> Nat] /\ past \in [Age -> Words]
  BY TypesByPart, WordsAreNumbers DEF ApiTypes, MemoryTypes, GhostTypes
<1>3. CASE \/ \E limits \in world.patches : PatchHpa(limits)
           \/ ReceiveHpa \/ RelistHpas \/ ReceiveName \/ HandleResync
  <2>1. UNCHANGED <<replicas, ups, downs, past, ctl>>
    BY <1>3 DEF PatchHpa, ReceiveHpa, RelistHpas, ReceiveName, HandleResync, apiVars, memory, ghosts
  <2> QED BY <1>1, <2>1 DEF Balanced
<1>4. CASE CreateHpa
  BY <1>0, <1>4 DEF CreateHpa, KeepsWishes
<1>5. CASE Tick
  <2>1. ctl'.at = "idle"
    BY <1>0, <1>5, TickWhenIdle
  <2>2. ups' = Shifted(ups, 0) /\ downs' = Shifted(downs, 0) /\ past' = Shifted(past, replicas)
        /\ replicas' = replicas
    BY <1>5 DEF Tick, apiVars
  <2>3. ASSUME NEW a \in Age
        PROVE  replicas + Changed(downs', a) = past'[a] + Changed(ups', a)
    <3>1. CASE a = 0
      <4>1. Changed(downs', a) = 0 /\ Changed(ups', a) = 0
        BY <1>2, <2>2, <3>1, ChangedShifts
      <4>2. past'[a] = replicas
        BY <2>2, <3>1, WordsAreNumbers DEF Shifted
      <4> QED BY <1>2, <4>1, <4>2
    <3>2. CASE a # 0
      <4>1. a - 1 \in Age /\ Changed(downs', a) = Changed(downs, a - 1)
            /\ Changed(ups', a) = Changed(ups, a - 1)
        BY <1>2, <2>2, <3>2, ChangedShifts
      <4>2. past'[a] = past[a - 1]
        BY <2>2, <3>2 DEF Shifted
      <4> QED BY <1>1, <4>1, <4>2
    <3> QED BY <3>1, <3>2
  <2> QED BY <2>1, <2>2, <2>3 DEF Balanced
<1>6. CASE TakeEntry
  <2>1. UNCHANGED <<replicas, past>>
    BY <1>6 DEF TakeEntry, apiVars, ghosts
  <2>2. CASE hpaStore = NoHpa
    <3>1. ups' = ups /\ downs' = downs /\ ctl' = ctl
      BY <1>0, <1>6, <2>2 DEF TakeEntry, KeepsWishes
    <3> QED BY <1>1, <2>1, <3>1 DEF Balanced
  <2>3. CASE hpaStore # NoHpa
    <3>1. UNCHANGED <<ups, downs>> /\ ctl' = [Idle EXCEPT !.at = "get", !.hpa = hpaStore]
      BY <1>6, <2>3 DEF TakeEntry, memory
    <3>2. ctl'.at = "get"
      BY <3>1 DEF Idle
    <3> QED BY <1>1, <2>1, <3>1, <3>2 DEF Balanced
  <2> QED BY <2>2, <2>3
<1>7. CASE Get
  <2>1. UNCHANGED <<replicas, ups, downs, past>>
    BY <1>7 DEF Get, apiVars, ghosts
  <2> QED BY <1>1, <1>7, <2>1, GetShape DEF Balanced
<1>8. CASE Calculate
  <2>1. UNCHANGED <<replicas, ups, downs, past>>
    BY <1>8 DEF Calculate, apiVars
  <2>2. ctl.at = "metrics" /\ ctl'.at # "metrics" /\ (ctl'.at = "scale" => ctl'.current = ctl.current)
    BY <1>8, CalculateShape DEF Decided
  <2> QED BY <1>1, <2>1, <2>2 DEF Balanced
<1>9. CASE PutStatus \/ ReadFails
  <2>1. UNCHANGED <<replicas, ups, downs, past>>
    BY <1>9 DEF PutStatus, ReadFails, apiVars, memory, ghosts
  <2>2. ctl'.at \in {"idle", "status"}
    BY <1>9, LaterShape
  <2> QED BY <1>1, <2>1, <2>2 DEF Balanced
<1>10. CASE PutScale
  <2>1. /\ ctl.at = "scale" /\ replicas' = ctl.desired /\ ctl'.at = "status"
        /\ ctl.desired \in Nat /\ ctl.current \in Nat /\ past' = past
    BY <1>10, PutScaleChanges DEF PutScale, ghosts
  <2>2. PICK u \in Nat, d \in Nat :
          /\ ups' = [ups EXCEPT ![0] = ups[0] + u]
          /\ downs' = [downs EXCEPT ![0] = downs[0] + d]
          /\ u = IF ctl.desired > ctl.current THEN ctl.desired - ctl.current ELSE 0
          /\ d = IF ctl.current > ctl.desired THEN ctl.current - ctl.desired ELSE 0
    BY <1>10, PutScaleChanges
  <2>3. ctl.current = replicas
    BY <1>1, <2>1
  <2>4. ctl.desired + d = replicas + u
    BY <2>1, <2>2, <2>3
  <2>5. ASSUME NEW a \in Age
        PROVE  replicas' + Changed(downs', a) = past'[a] + Changed(ups', a)
    <3>1. Changed(ups', a) = Changed(ups, a) + u /\ Changed(downs', a) = Changed(downs, a) + d
      BY <1>2, <2>2, ChangedGrows
    <3>2. Changed(ups, a) \in Nat /\ Changed(downs, a) \in Nat /\ past[a] \in Nat
      BY <1>2, ChangedIsNatural, WordsAreNumbers
    <3>3. replicas + Changed(downs, a) = past[a] + Changed(ups, a)
      BY <1>1
    <3> QED BY <1>2, <2>1, <2>4, <3>1, <3>2, <3>3
  <2> QED BY <2>1, <2>5 DEF Balanced
<1> QED BY <1>3, <1>4, <1>5, <1>6, <1>7, <1>8, <1>9, <1>10, NotAlone DEF Next, Task

-------------------------------------------------------------------------------
(* What was added is not taken away within the window.                     *)

LEMMA NothingChanged ==
  ASSUME NEW f \in [Age -> Nat], NEW a \in Age, \A b \in 0 .. a : f[b] = 0
  PROVE  Changed(f, a) = 0
BY PeriodIsFinite, SumOfNothing DEF Changed

LEMMA WindowParts ==
  ASSUME Types
  PROVE  /\ world.down.window \in Age /\ 0 .. world.down.window \subseteq Age
         /\ world.down.window \in Nat
         /\ world.limits.min \in Nat /\ world.limits.max \in Nat
         /\ world.limits.min <= world.limits.max
         /\ \A r \in wanted : r.n \in Nat /\ r.age \in Nat
         /\ replicas \in Nat /\ ups \in [Age -> Nat]
<1>1. world.down.window \in Age /\ world.limits \in Limits
  BY TypesByPart, WorldParts, RuleParts DEF EnvTypes
<1>2. 0 .. world.down.window \subseteq Age /\ world.down.window \in Nat
  BY <1>1, WordsAreNumbers DEF Age
<1>3. world.limits.min \in Nat /\ world.limits.max \in Nat /\ world.limits.min <= world.limits.max
  BY <1>1, LimitParts, WordsAreNumbers
<1>4. \A r \in wanted : r.n \in Nat /\ r.age \in Nat
  BY TypesByPart, WordsAreNumbers DEF GhostTypes, Remembered
<1> QED BY <1>1, <1>2, <1>3, <1>4, TypesByPart, WordsAreNumbers DEF ApiTypes, MemoryTypes

LEMMA ReasonStays ==
  ASSUME NEW n, NEW age, Reason(n, age), world' = world, wanted \subseteq wanted'
  PROVE  n <= world'.limits.min \/ \E r \in wanted' : r.age <= age /\ n <= r.n
BY DEF Reason

LEMMA TickKeepsStill ==
  ASSUME Types, WantedInWindow, StillThere, Untouched, Tick, world' = world, world.punctual
  PROVE  StillThere'
<1> DEFINE W == world.down.window
<1>0. /\ replicas > world.limits.max => ups = Nothing
      /\ \A b \in 0 .. W : ups[b] > 0 => Reason(replicas, b)
      /\ \A a \in 0 .. W : Changed(ups, a) <= replicas
  BY DEF StillThere
<1>1. /\ ups' = Shifted(ups, 0) /\ replicas' = replicas /\ ctl'.at # "scale"
      /\ wanted' = {r \in Older(wanted) : r.age <= W}
  BY TickWhenIdle DEF Tick, apiVars
<1>2. W \in Nat /\ 0 .. W \subseteq Age /\ W \in Age /\ replicas \in Nat /\ ups \in [Age -> Nat]
      /\ (\A r \in wanted : r.n \in Nat /\ r.age \in Nat) /\ wanted \in SUBSET Remembered
  BY WindowParts, TypesByPart DEF GhostTypes
<1>3. replicas' > world'.limits.max => ups' = Nothing
  BY <1>0, <1>1, NothingShifts
<1>4. ASSUME NEW b \in 0 .. W, ups'[b] > 0
      PROVE  replicas' <= world'.limits.min \/ \E r \in wanted' : r.age <= b /\ replicas' <= r.n
  <2>1. b # 0 /\ ups'[b] = ups[b - 1] /\ b - 1 \in 0 .. W
    BY <1>1, <1>2, <1>4 DEF Shifted
  <2>2. Reason(replicas, b - 1)
    BY <1>0, <1>4, <2>1
  <2>3. CASE replicas <= world.limits.min
    BY <1>1, <2>3
  <2>4. CASE \E r \in wanted : r.age <= b - 1 /\ replicas <= r.n
    <3>1. PICK r \in wanted : r.age <= b - 1 /\ replicas <= r.n
      BY <2>4
    <3>2. r.age \in Nat /\ r.age + 1 <= b /\ b <= W /\ W <= Horizon
      BY <1>2, <3>1, WordsAreNumbers DEF Age
    <3>3. ~ (r.age > Horizon)
      BY <1>2, <3>2, WordsAreNumbers
    <3>4. PICK q \in Older(wanted) : q.n = r.n /\ q.age = r.age + 1
      BY <1>2, <3>3, OlderTyped
    <3>5. q \in wanted' /\ q.age <= b
      BY <1>1, <1>2, <3>2, <3>4
    <3> QED BY <1>1, <3>1, <3>4, <3>5
  <2> QED BY <2>2, <2>3, <2>4 DEF Reason
<1>5. ASSUME NEW a \in 0 .. W PROVE Changed(ups', a) <= replicas'
  <2>1. a \in Age
    BY <1>2
  <2>2. CASE a = 0
    BY <1>1, <1>2, <2>1, <2>2, ChangedShifts
  <2>3. CASE a # 0
    <3>1. a - 1 \in 0 .. W
      BY <1>2, <2>3
    <3> QED BY <1>0, <1>1, <1>2, <2>1, <2>3, <3>1, ChangedShifts
  <2> QED BY <2>2, <2>3
<1> QED BY <1>1, <1>3, <1>4, <1>5 DEF StillThere, Reason

LEMMA GetKeepsStill ==
  ASSUME Types, KeepsLimits, StillThere, Untouched, Get, world' = world
  PROVE  StillThere'
<1> DEFINE W == world.down.window
           lo == world.limits.min
           hi == world.limits.max
<1>0. /\ replicas > hi => ups = Nothing
      /\ \A b \in 0 .. W : ups[b] > 0 => Reason(replicas, b)
      /\ \A a \in 0 .. W : Changed(ups, a) <= replicas
  BY DEF StillThere
<1>1. UNCHANGED <<replicas, ups, wanted>> /\ ctl.hpa.limits = world.limits
  BY DEF Get, apiVars, ghosts, KeepsLimits
<1>2. ctl'.at = "scale" =>
        /\ ctl'.current = replicas
        /\ \/ replicas > hi /\ ctl'.desired = hi
           \/ replicas < lo /\ ctl'.desired = lo
  BY <1>1, GetShape
<1>3. lo \in Nat /\ hi \in Nat /\ lo <= hi /\ replicas \in Nat /\ 0 .. W \subseteq Age
  BY WindowParts
<1>4. ASSUME ctl'.at = "scale"
      PROVE  /\ ctl'.desired <= hi
             /\ ctl'.desired > ctl'.current => ctl'.desired <= lo
             /\ ctl'.desired < ctl'.current => \A b \in 0 .. W : ups[b] = 0
  <2>1. CASE replicas > hi /\ ctl'.desired = hi
    <3>1. ups = Nothing
      BY <1>0, <2>1
    <3>2. \A b \in 0 .. W : ups[b] = 0
      BY <1>3, <3>1 DEF Nothing
    <3> HIDE DEF W, lo, hi
    <3> QED BY <1>2, <1>3, <1>4, <2>1, <3>2
  <2>2. CASE replicas < lo /\ ctl'.desired = lo
    <3> HIDE DEF W, lo, hi
    <3> QED BY <1>2, <1>3, <1>4, <2>2
  <2> QED BY <1>2, <1>4, <2>1, <2>2
<1> QED BY <1>0, <1>1, <1>4 DEF StillThere, Reason

LEMMA CalculateKeepsStill ==
  ASSUME Types, KeepsWishes, WantedInWindow, KeepsLimits, Balanced, StillThere,
         Untouched, Alone, env["drop"] = 0, Calculate, world' = world
  PROVE  StillThere'
<1> DEFINE W == world.down.window
           lo == world.limits.min
           hi == world.limits.max
<1>0. /\ replicas > hi => ups = Nothing
      /\ \A b \in 0 .. W : ups[b] > 0 => Reason(replicas, b)
      /\ \A a \in 0 .. W : Changed(ups, a) <= replicas
  BY DEF StillThere
<1>1. UNCHANGED <<replicas, ups>> /\ ctl.at = "metrics" /\ ctl.hpa.limits = world.limits
      /\ ctl.current = replicas /\ wanted \subseteq recs
  BY DEF Calculate, apiVars, KeepsLimits, Balanced, KeepsWishes
<1>2. lo \in Nat /\ hi \in Nat /\ replicas \in Nat /\ 0 .. W \subseteq Age /\ W \in Nat
      /\ (\A r \in wanted : r.n \in Nat /\ r.age \in Nat) /\ ups \in [Age -> Nat]
  BY WindowParts
<1>3. CASE ctl'.at # "scale" /\ UNCHANGED <<recs, wanted>>
  BY <1>0, <1>1, <1>3 DEF StillThere, Reason
<1>4. CASE \E n \in Nat : Decided(n)
  <2>1. PICK n \in Nat : Decided(n)
    BY <1>4
  <2>2. wanted \subseteq wanted' /\ [n |-> n, age |-> 0] \in wanted'
    BY <2>1 DEF Decided
  <2>3. \A b \in 0 .. W : ups'[b] > 0 =>
          replicas' <= world'.limits.min \/ \E r \in wanted' : r.age <= b /\ replicas' <= r.n
    BY <1>0, <1>1, <2>2, ReasonStays
  <2>4. ASSUME ctl'.at = "scale"
        PROVE  /\ ctl'.desired <= hi
               /\ ctl'.desired > ctl'.current =>
                    \E r \in wanted' : r.age <= 0 /\ ctl'.desired <= r.n
               /\ ctl'.desired < ctl'.current => \A b \in 0 .. W : ups[b] = 0
    <3>1. /\ ctl'.current = replicas /\ ctl'.desired <= hi
          /\ ctl'.desired > replicas => ctl'.desired <= n
          /\ ctl'.desired < replicas =>
               /\ ctl'.desired >= lo
               /\ \A r \in recs : r.age <= W => ctl'.desired >= r.n
      BY <1>1, <2>1, <2>4 DEF Decided
    <3>2. ctl'.desired > ctl'.current => \E r \in wanted' : r.age <= 0 /\ ctl'.desired <= r.n
      <4>1. [n |-> n, age |-> 0].age <= 0 /\ [n |-> n, age |-> 0].n = n
        OBVIOUS
      <4> QED BY <2>2, <3>1, <4>1
    <3>3. ASSUME ctl'.desired < replicas, NEW b \in 0 .. W PROVE ups[b] = 0
      <4>1. ASSUME ups[b] > 0 PROVE FALSE
        <5>1. Reason(replicas, b)
          BY <1>0, <4>1
        <5>2. ctl'.desired \in Nat
          <6>1. ctl' \in CtlType
            BY NextKeepsTypes, TypesByPartNext DEF CtlTypes, Next, Task
          <6> QED BY <6>1, WordsAreNumbers DEF CtlType
        <5>3. CASE replicas <= lo
          <6> HIDE DEF lo, hi, W
          <6> QED BY <1>2, <3>1, <3>3, <5>2, <5>3
        <5>4. CASE \E r \in wanted : r.age <= b /\ replicas <= r.n
          <6>1. PICK r \in wanted : r.age <= b /\ replicas <= r.n
            BY <5>4
          <6>2. r \in recs /\ r.age <= W
            BY <1>1, <6>1 DEF WantedInWindow
          <6>3. ctl'.desired >= r.n /\ r.n \in Nat
            BY <1>2, <3>1, <3>3, <6>1, <6>2
          <6> QED BY <1>2, <3>3, <5>2, <6>1, <6>3
        <5> QED BY <5>1, <5>3, <5>4 DEF Reason
      <4>2. ups[b] \in Nat
        BY <1>2
      <4> QED BY <4>1, <4>2
    <3> QED BY <3>1, <3>2, <3>3
  <2> QED BY <1>0, <1>1, <2>3, <2>4 DEF StillThere, Reason
<1> QED BY <1>3, <1>4, CalculateShape

LEMMA PutScaleKeepsStill ==
  ASSUME Types, Balanced, StillThere, Untouched, Alone, PutScale, world' = world
  PROVE  StillThere'
<1> DEFINE W == world.down.window
           lo == world.limits.min
           hi == world.limits.max
<1>1. /\ ctl.at = "scale" /\ replicas' = ctl.desired /\ ctl'.at = "status"
      /\ ctl.desired \in Nat /\ ctl.current \in Nat /\ wanted' = wanted
  BY PutScaleChanges DEF PutScale, ghosts
<1>2. PICK u \in Nat, d \in Nat :
        /\ ups' = [ups EXCEPT ![0] = ups[0] + u]
        /\ downs' = [downs EXCEPT ![0] = downs[0] + d]
        /\ u = IF ctl.desired > ctl.current THEN ctl.desired - ctl.current ELSE 0
        /\ d = IF ctl.current > ctl.desired THEN ctl.current - ctl.desired ELSE 0
  BY PutScaleChanges
<1>3. ctl.current = replicas
  BY <1>1 DEF Balanced
<1>4. /\ replicas > hi => ups = Nothing
      /\ \A b \in 0 .. W : ups[b] > 0 => Reason(replicas, b)
      /\ \A a \in 0 .. W : Changed(ups, a) <= replicas
      /\ ctl.desired <= hi
      /\ ctl.desired > ctl.current => Reason(ctl.desired, 0)
      /\ ctl.desired < ctl.current => \A b \in 0 .. W : ups[b] = 0
  BY <1>1 DEF StillThere
<1>5. hi \in Nat /\ replicas \in Nat /\ 0 .. W \subseteq Age /\ W \in Nat
      /\ (\A r \in wanted : r.n \in Nat /\ r.age \in Nat) /\ ups \in [Age -> Nat]
  BY WindowParts
<1>6. ~ (replicas' > hi)
  <2> HIDE DEF hi
  <2> QED BY <1>1, <1>4, <1>5
<1>7. ASSUME NEW b \in 0 .. W, ups'[b] > 0 PROVE Reason(replicas', b)
  <2>1. CASE ctl.desired > ctl.current
    <3>1. Reason(ctl.desired, 0)
      BY <1>4, <2>1
    <3>2. \A r \in wanted : r.age <= 0 => r.age <= b
      <4> HIDE DEF W
      <4> QED BY <1>5
    <3> QED BY <1>1, <3>1, <3>2 DEF Reason
  <2>2. CASE ctl.desired = ctl.current
    <3>1. u = 0
      BY <1>1, <1>2, <2>2
    <3>2. ups'[b] = ups[b]
      BY <1>2, <1>5, <3>1, WordsAreNumbers
    <3> QED BY <1>1, <1>3, <1>4, <1>7, <2>2, <3>2
  <2>3. CASE ctl.desired < ctl.current
    <3>1. u = 0
      BY <1>1, <1>2, <2>3
    <3>2. ups'[b] = ups[b] /\ ups[b] = 0
      BY <1>2, <1>4, <1>5, <2>3, <3>1, WordsAreNumbers
    <3> QED BY <1>7, <3>2
  <2> QED BY <1>1, <2>1, <2>2, <2>3
<1>8. ASSUME NEW a \in 0 .. W PROVE Changed(ups', a) <= replicas'
  <2>1. a \in Age /\ Changed(ups', a) = Changed(ups, a) + u /\ Changed(ups, a) \in Nat
    BY <1>2, <1>5, ChangedGrows, ChangedIsNatural
  <2>2. Changed(ups, a) <= replicas
    BY <1>4
  <2>3. CASE ctl.desired >= ctl.current
    <3>1. u = ctl.desired - ctl.current
      BY <1>1, <1>2, <2>3
    <3> QED BY <1>1, <1>3, <1>5, <2>1, <2>2, <3>1
  <2>4. CASE ctl.desired < ctl.current
    <3>1. u = 0
      BY <1>1, <1>2, <2>4
    <3>2. \A b \in 0 .. a : ups[b] = 0
      <4>1. \A b \in 0 .. a : b \in 0 .. W
        <5> HIDE DEF W
        <5> QED BY <1>5
      <4> QED BY <1>4, <2>4, <4>1
    <3>3. Changed(ups, a) = 0
      BY <1>5, <2>1, <3>2, NothingChanged
    <3> QED BY <1>1, <2>1, <3>1, <3>3
  <2> QED BY <1>1, <2>3, <2>4
<1> QED BY <1>1, <1>6, <1>7, <1>8 DEF StillThere, Reason

LEMMA NextKeepsStill ==
  ASSUME Slow, Next
  PROVE  StillThere'
<1> SUFFICES ASSUME Untouched' PROVE StillThere'
  BY DEF StillThere
<1>0. Untouched /\ Alone /\ env["drop"] = 0 /\ world' = world /\ world.punctual
  BY AloneBefore, WorldStays DEF Slow
<1>1. Types /\ KeepsWishes /\ WantedInWindow /\ KeepsLimits /\ Balanced /\ StillThere
  BY DEF Slow
<1>2. CASE ReceiveHpa \/ RelistHpas \/ ReceiveName \/ HandleResync
  <2>1. UNCHANGED <<replicas, ups, wanted, ctl>>
    BY <1>2 DEF ReceiveHpa, RelistHpas, ReceiveName, HandleResync, apiVars, memory, ghosts
  <2> QED BY <1>0, <1>1, <2>1 DEF StillThere, Reason
<1>3. CASE CreateHpa
  BY <1>0, <1>1, <1>3 DEF CreateHpa, KeepsWishes
<1>4. CASE TakeEntry
  <2>1. UNCHANGED <<replicas, wanted>>
    BY <1>4 DEF TakeEntry, apiVars, ghosts
  <2>2. CASE hpaStore = NoHpa
    <3>1. ups' = ups /\ ctl' = ctl
      BY <1>0, <1>1, <1>4, <2>2 DEF TakeEntry, KeepsWishes
    <3> QED BY <1>0, <1>1, <2>1, <3>1 DEF StillThere, Reason
  <2>3. CASE hpaStore # NoHpa
    <3>1. UNCHANGED ups /\ ctl' = [Idle EXCEPT !.at = "get", !.hpa = hpaStore]
      BY <1>4, <2>3 DEF TakeEntry, memory
    <3>2. ctl'.at = "get"
      BY <3>1 DEF Idle
    <3> QED BY <1>0, <1>1, <2>1, <3>1, <3>2 DEF StillThere, Reason
  <2> QED BY <2>2, <2>3
<1>5. CASE PutStatus \/ ReadFails
  <2>1. UNCHANGED <<replicas, ups, wanted>>
    BY <1>5 DEF PutStatus, ReadFails, apiVars, memory, ghosts
  <2>2. ctl'.at \in {"idle", "status"}
    BY <1>1, <1>5, LaterShape
  <2> QED BY <1>0, <1>1, <2>1, <2>2 DEF StillThere, Reason
<1> QED BY <1>0, <1>1, <1>2, <1>3, <1>4, <1>5, TickKeepsStill, GetKeepsStill, CalculateKeepsStill,
           PutScaleKeepsStill, NotUntouched DEF Next, Task

LEMMA SlowInit == Init => Slow
<1> SUFFICES ASSUME Init PROVE Slow
  OBVIOUS
<1>1. Types
  BY InitTyped
<1>2. PICK n \in {0, world.first} : hpa = Created(n)
  BY DEF Init
<1>3. /\ world \in Worlds /\ hpaWatch = <<hpa>> /\ hpaStore = NoHpa /\ recs = {} /\ wanted = {}
      /\ ups = Nothing /\ downs = Nothing /\ ctl = Idle /\ ctl.at = "idle"
      /\ replicas = world.first /\ past = [a \in Age |-> world.first]
  BY IdleFields DEF Init
<1>4. hpa \in Hpa /\ hpa.limits = world.limits
  <2>1. world.first \in Words
    BY <1>3, WorldParts
  <2>2. Created(n) \in Hpa /\ Created(n).limits = world.limits
    BY <1>3, <2>1, CreatedTyped, WordsAreNumbers DEF Created
  <2> QED BY <1>2, <2>2
<1>5. hpa # NoHpa /\ \A i \in DOMAIN hpaWatch : hpaWatch[i] = hpa
  BY <1>3, <1>4, NoHpaAssumption
<1>6. KeepsWishes /\ WantedInWindow /\ KeepsLimits
  BY <1>3, <1>4, <1>5 DEF KeepsWishes, WantedInWindow, KeepsLimits
<1>7. Nothing \in [Age -> Nat] /\ \A a \in Age : Nothing[a] = 0
  BY DEF Nothing
<1>8. ASSUME NEW a \in Age PROVE Changed(Nothing, a) = 0
  <2>1. \A b \in 0 .. a : Nothing[b] = 0
    BY <1>7, PeriodIsFinite
  <2> QED BY <1>7, <2>1, NothingChanged
<1>9. Balanced
  BY <1>3, <1>8 DEF Balanced
<1>10. StillThere
  <2>1. 0 .. world.down.window \subseteq Age /\ replicas \in Nat
    BY <1>1, WindowParts
  <2> QED BY <1>3, <1>7, <1>8, <2>1 DEF StillThere
<1> QED BY <1>1, <1>6, <1>9, <1>10 DEF Slow

LEMMA UnchangedKeepsSlow ==
  ASSUME Slow, UNCHANGED vars
  PROVE  Slow'
<1>1. UNCHANGED <<replicas, hpa, hpaWatch, hpaStore, recs, ups, downs, ctl, past, wanted, world, env>>
  BY DEF vars, apiVars, storeVars, memory, ghosts, envVars
<1>2. Types'
  BY PartsKept, TypesByPartNext DEF Slow, vars
<1>3. KeepsWishes' /\ WantedInWindow' /\ KeepsLimits'
  BY <1>1 DEF Slow, KeepsWishes, WantedInWindow, KeepsLimits, Untouched, Alone
<1>4. Balanced' /\ StillThere'
  BY <1>1 DEF Slow, Balanced, StillThere, Reason, Untouched, Alone
<1> QED BY <1>2, <1>3, <1>4 DEF Slow

LEMMA NextKeepsSlow == Slow /\ [Next]_vars => Slow'
<1> SUFFICES ASSUME Slow, [Next]_vars PROVE Slow'
  OBVIOUS
<1>1. CASE Next
  <2>1. Types' /\ WantedInWindow'
    BY <1>1, NextKeepsTypes, WantedStaysInWindow DEF Slow
  <2>2. KeepsWishes' /\ KeepsLimits' /\ Balanced'
    BY <1>1, NextKeepsWishes, NextKeepsLimits, NextKeepsBalance DEF Slow
  <2> QED BY <1>1, <2>1, <2>2, NextKeepsStill DEF Slow
<1> QED BY <1>1, UnchangedKeepsSlow

(* A decision by metrics is made by a calculation.                         *)
LEMMA DecidesByCalculation ==
  ASSUME Types, Next, Decides
  PROVE  Calculate
<1>1. ctl.at = "metrics" /\ ctl'.at = "scale"
  BY DEF Decides
<1>2. ~ UNCHANGED ctl /\ ctl # Idle
  BY <1>1, IdleFields
<1>3. CASE \/ \E n \in world.scales : ScaleByHand(n)
           \/ \E limits \in world.patches : PatchHpa(limits)
           \/ DropHpa \/ CreateHpa \/ ReceiveHpa \/ RelistHpas \/ Tick
           \/ ReceiveName \/ HandleResync \/ TakeEntry
  BY <1>2, <1>3 DEF ScaleByHand, PatchHpa, DropHpa, CreateHpa, ReceiveHpa, RelistHpas, Tick,
                    ReceiveName, HandleResync, TakeEntry
<1>4. CASE Get
  BY <1>1, <1>4 DEF Get
<1>5. CASE \/ PutScale \/ PutStatus
           \/ ReadFails \/ ScaleRefused \/ ScaleUnanswered \/ StatusRefused
  BY <1>1, <1>5, LaterShape
<1> QED BY <1>3, <1>4, <1>5 DEF Next, Task

(* Rounding adds at most one.                                              *)
LEMMA ShareBounded ==
  ASSUME NEW m \in Nat, NEW n \in Nat, NEW share \in Nat, m <= n
  PROVE  /\ n * share \in Nat /\ (n * share) \div 100 \in Nat
         /\ share % 100 = 0 => Share(m, share) <= Ceiling(<<n * share, 100>>)
         /\ Share(m, share) <= (n * share) \div 100 + 1
<1>1. m * share \in Nat /\ n * share \in Nat /\ m * share <= n * share
  BY ProductsGrow
<1>2. PICK a \in Nat : a = m * share
  BY <1>1
<1>3. PICK b \in Nat : b = n * share
  BY <1>1
<1>4. a <= b
  BY <1>1, <1>2, <1>3
<1>5. Ceiling(<<a, 100>>) = (a + 99) \div 100 /\ Ceiling(<<b, 100>>) = (b + 99) \div 100
  BY DEF Ceiling
<1>6. /\ Ceiling(<<a, 100>>) \in Nat /\ Ceiling(<<b, 100>>) \in Nat /\ b \div 100 \in Nat
      /\ Ceiling(<<a, 100>>) <= Ceiling(<<b, 100>>)
      /\ Ceiling(<<a, 100>>) <= b \div 100 + 1
      /\ a % 100 = 0 => Ceiling(<<a, 100>>) <= b \div 100
  BY <1>4, <1>5
<1>7. Share(m, share) = Ceiling(<<a, 100>>) + (IF <<m, share>> \in RoundedUp THEN 1 ELSE 0)
  BY <1>2 DEF Share
<1>8. CASE <<m, share>> \in RoundedUp
  <2>1. share % 100 # 0 /\ a % 100 = 0
    BY <1>2, <1>8, RoundedUpAssumption
  <2>2. Share(m, share) = Ceiling(<<a, 100>>) + 1
    BY <1>7, <1>8
  <2> QED BY <1>3, <1>6, <2>1, <2>2
<1>9. CASE <<m, share>> \notin RoundedUp
  <2>1. Share(m, share) = Ceiling(<<a, 100>>)
    BY <1>6, <1>7, <1>9
  <2> QED BY <1>3, <1>6, <2>1
<1> QED BY <1>8, <1>9

(* What a patient autoscaler added in a policy's period is still there.    *)
LEMMA PatientNeverWraps ==
  ASSUME Slow, Alone, Patient, ctl.at = "metrics", NEW p \in world.up.policies
  PROVE  ~Wraps(p)
<1>1. Types /\ Balanced /\ StillThere /\ Untouched
  BY DEF Slow, Patient, Untouched
<1>2. p.period \in Age /\ p.period <= world.down.window /\ world.down.window \in Age
  BY <1>1, TypesByPart, WorldParts, RuleParts DEF EnvTypes, Patient
<1>3. p.period \in 0 .. world.down.window
  BY <1>2, WordsAreNumbers DEF Age
<1>4. Changed(ups, p.period) <= replicas /\ ctl.current = replicas
  BY <1>1, <1>3 DEF StillThere, Balanced
<1>5. Changed(ups, p.period) \in Nat /\ replicas \in Nat
  BY <1>1, <1>2, TypesByPart, ChangedIsNatural, WordsAreNumbers DEF ApiTypes, MemoryTypes
<1> QED BY <1>4, <1>5 DEF Wraps

(* A policy that counts what was added in its period allows no more than   *)
(* it would from the replicas there were at the start of the period.       *)
LEMMA UpLimitAllowed ==
  ASSUME Slow, Alone, ctl.at = "metrics", NEW p \in world.up.policies, ~Wraps(p)
  PROVE  UpLimit(p) <= Allowed(p) /\ UpLimit(p) \in Nat /\ Allowed(p) \in Nat
<1> DEFINE c == ctl.current
           A == Changed(ups, p.period)
           D == Changed(downs, p.period)
           b == past[p.period]
           start == Minus(c, A)
<1>1. Types /\ Balanced
  BY DEF Slow
<1>2. p.value \in Nat /\ p.period \in Age /\ p.type \in {"Pods", "Percent"}
  BY <1>1, TypesByPart, WorldParts, RuleParts DEF EnvTypes
<1>3. c = replicas /\ replicas + D = b + A
  BY <1>1, <1>2 DEF Balanced
<1>4. c \in Words /\ A \in Nat /\ D \in Nat /\ b \in Words
  BY <1>1, <1>2, TypesByPart, ChangedIsNatural DEF CtlTypes, CtlType, MemoryTypes, GhostTypes
<1>5. ~(A > c)
  BY DEF Wraps
<1> HIDE DEF c, A, D, b
<1>6. c \in Nat /\ b \in Nat /\ replicas \in Nat /\ A <= c
  BY <1>3, <1>4, <1>5, WordsAreNumbers
<1>7. start = c - A /\ start \in Nat /\ start <= b /\ start \in Words
  <2>1. start = c - A /\ start \in Words
    BY <1>4, <1>6, WrapsFit
  <2> HIDE DEF start
  <2> QED BY <1>3, <1>4, <1>6, <2>1
<1> HIDE DEF start
<1>8. CASE p.type = "Pods"
  <2>1. UpLimit(p) = Plus(start, p.value) /\ Allowed(p) = b + p.value
    BY <1>8 DEF UpLimit, Allowed, start, c, A, b
  <2>2. Plus(start, p.value) \in Words /\ Plus(start, p.value) <= start + p.value
    BY <1>2, <1>7, WrapsFit
  <2>3. Plus(start, p.value) \in Nat
    BY <2>2, WordsAreNumbers
  <2> QED BY <1>2, <1>6, <1>7, <2>1, <2>2, <2>3
<1>9. CASE p.type = "Percent"
  <2> DEFINE share == 100 + p.value
             n == Share(start, share)
  <2>1. /\ UpLimit(p) = Saturated(n)
        /\ Allowed(p) = IF p.value % 100 = 0 THEN Ceiling(<<b * share, 100>>)
                                             ELSE (b * share) \div 100 + 1
    BY <1>9 DEF UpLimit, Allowed, start, c, A, b
  <2>2. share \in Nat /\ (p.value % 100 = 0 => share % 100 = 0)
    BY <1>2
  <2> HIDE DEF share
  <2>3. /\ n \in Nat /\ Ceiling(<<b * share, 100>>) \in Nat /\ (b * share) \div 100 \in Nat
        /\ share % 100 = 0 => n <= Ceiling(<<b * share, 100>>)
        /\ n <= (b * share) \div 100 + 1
    BY <1>6, <1>7, <2>2, PercentFits, ShareBounded
  <2> HIDE DEF n
  <2>4. Saturated(n) \in Nat /\ Saturated(n) <= n
    BY <2>3, SaturatedFits, WordsAreNumbers
  <2> QED BY <2>1, <2>2, <2>3, <2>4
<1> QED BY <1>2, <1>8, <1>9

(* And one that counts what was removed spares no less.                    *)
LEMMA DownLimitSpares ==
  ASSUME Slow, Alone, Roomy, ctl.at = "metrics", NEW p \in world.down.policies
  PROVE  DownLimit(p) >= Spared(p) /\ DownLimit(p) \in Nat /\ Spared(p) \in Int
<1> DEFINE c == ctl.current
           A == Changed(ups, p.period)
           D == Changed(downs, p.period)
           b == past[p.period]
           start == Plus(c, D)
<1>1. Types /\ Balanced
  BY DEF Slow
<1>2. p.value \in Nat /\ p.period \in Age /\ p.type \in {"Pods", "Percent"}
  BY <1>1, TypesByPart, WorldParts, RuleParts DEF EnvTypes
<1>3. c = replicas /\ replicas + D = b + A /\ c + D < Word
  BY <1>1, <1>2 DEF Balanced, Roomy
<1>4. c \in Words /\ A \in Nat /\ D \in Nat /\ b \in Words
  BY <1>1, <1>2, TypesByPart, ChangedIsNatural DEF CtlTypes, CtlType, MemoryTypes, GhostTypes
<1> HIDE DEF c, A, D, b
<1>5. c \in Nat /\ b \in Nat
  BY <1>4, WordsAreNumbers
<1>6. start = c + D /\ start \in Nat /\ b <= start
  <2>1. start = c + D
    BY <1>3, <1>4, WrapsFit
  <2> HIDE DEF start
  <2> QED BY <1>3, <1>4, <1>5, <2>1
<1> HIDE DEF start
<1>7. CASE p.type = "Pods"
  <2>1. DownLimit(p) = Max({start - p.value, 0}) /\ Spared(p) = b - p.value
    BY <1>7 DEF DownLimit, Spared, start, c, D, b
  <2>2. start - p.value \in Int /\ 0 \in Int /\ b - p.value \in Int /\ b - p.value <= start - p.value
    BY <1>2, <1>5, <1>6
  <2>3. Max({start - p.value, 0}) \in {start - p.value, 0}
        /\ Max({start - p.value, 0}) >= start - p.value /\ Max({start - p.value, 0}) >= 0
    BY <2>2, Extreme2, Zenon
  <2>4. PICK m : m = Max({start - p.value, 0})
    OBVIOUS
  <2>5. m \in Int /\ m >= start - p.value /\ m >= 0
    BY <2>2, <2>3, <2>4
  <2> QED BY <1>2, <1>5, <1>6, <2>1, <2>2, <2>4, <2>5
<1>8. CASE p.type = "Percent"
  <2> DEFINE share == Max({100 - p.value, 0})
             n == Share(start, share)
             l == Ceiling(<<start * share, 100>>)
             m == Ceiling(<<b * share, 100>>)
  <2>1. DownLimit(p) = n /\ Spared(p) = m
    BY <1>8 DEF DownLimit, Spared, start, c, D, b
  <2>2. share \in Nat
    <3>1. 100 - p.value \in Int /\ 0 \in Int
      BY <1>2
    <3>2. share \in {100 - p.value, 0} /\ share >= 0
      BY <3>1, Extreme2, Zenon
    <3> HIDE DEF share
    <3> QED BY <3>1, <3>2
  <2> HIDE DEF share
  <2>3. n \in Nat /\ l \in Nat /\ m \in Nat /\ l <= n
    BY <1>5, <1>6, <2>2, PercentFits
  <2>4. m <= l
    BY <1>5, <1>6, <2>2, PercentGrows
  <2> HIDE DEF n, m, l
  <2> QED BY <2>1, <2>3, <2>4
<1> QED BY <1>2, <1>7, <1>8

(* A decision to add replicas stays below max.  As long as the autoscaler  *)
(* is alone it stays within what the policies allow, counted from the      *)
(* replicas there really were at the start of the period, since the books  *)
(* say what there was (Balanced); but for a policy whose subtraction wraps *)
(* around, and for a patient autoscaler there is none, since what was      *)
(* added within a window is still there (StillThere).                      *)
THEOREM AddsSlowly == Spec => RisesSlowly
<1>1. ASSUME Slow, Next, Decides, ctl'.desired > ctl.current
      PROVE  /\ ctl'.desired <= ctl.hpa.limits.max
             /\ Alone =>
                  CASE world.up.select = "Max" ->
                         \E p \in world.up.policies : Wraps(p) \/ ctl'.desired <= Allowed(p)
                    [] world.up.select = "Min" ->
                         \A p \in world.up.policies : Wraps(p) \/ ctl'.desired <= Allowed(p)
                    [] OTHER -> FALSE
             /\ Alone /\ Patient => \A p \in world.up.policies : ~Wraps(p)
  <2>1. Types
    BY <1>1 DEF Slow
  <2>2. Calculate /\ ctl'.at = "scale" /\ ctl.at = "metrics"
    BY <1>1, <2>1, DecidesByCalculation DEF Decides
  <2>3. PICK n \in Nat : Decided(n)
    BY <2>1, <2>2, CalculateShape
  <2>4. ctl'.desired <= ctl.hpa.limits.max /\ ctl'.desired <= ScaleUpLimit
    BY <1>1, <2>2, <2>3 DEF Decided
  <2>5. ctl.current \in Words /\ ctl'.desired \in Words
    <3>1. Types'
      BY <1>1, <2>1, NextKeepsTypes
    <3> QED BY <2>1, <3>1, TypesByPart, TypesByPartNext DEF CtlTypes, CtlType
  <2>6. /\ ScaleUpLimit \in Words
        /\ ScaleUpLimit > ctl.current =>
              \/ world.up.select = "Max" /\ \E p \in world.up.policies : ScaleUpLimit = UpLimit(p)
              \/ world.up.select = "Min" /\ \A p \in world.up.policies : ScaleUpLimit <= UpLimit(p)
    BY <2>1, <2>5, UpLimitChosen
  <2>7. ctl.current \in Nat /\ ctl'.desired \in Nat /\ ScaleUpLimit \in Nat
    BY <2>5, <2>6, WordsAreNumbers
  <2>8. ScaleUpLimit > ctl.current
    BY <1>1, <2>4, <2>7
  <2>9. ASSUME Alone, NEW p \in world.up.policies, ScaleUpLimit <= UpLimit(p), ~Wraps(p)
        PROVE  ctl'.desired <= Allowed(p)
    <3>1. UpLimit(p) <= Allowed(p) /\ UpLimit(p) \in Nat /\ Allowed(p) \in Nat
      BY <1>1, <2>2, <2>9, UpLimitAllowed
    <3> QED BY <2>4, <2>7, <2>9, <3>1
  <2>10. ASSUME Alone, world.up.select = "Max"
         PROVE  \E p \in world.up.policies : Wraps(p) \/ ctl'.desired <= Allowed(p)
    <3>1. PICK p \in world.up.policies : ScaleUpLimit = UpLimit(p)
      BY <2>6, <2>8, <2>10
    <3>2. ScaleUpLimit <= UpLimit(p)
      BY <2>7, <3>1
    <3> QED BY <2>9, <2>10, <3>2
  <2>11. ASSUME Alone, world.up.select = "Min"
         PROVE  \A p \in world.up.policies : Wraps(p) \/ ctl'.desired <= Allowed(p)
    BY <2>6, <2>8, <2>9, <2>11
  <2>12. world.up.select = "Max" \/ world.up.select = "Min"
    BY <2>6, <2>8
  <2>13. ASSUME Alone, Patient PROVE \A p \in world.up.policies : ~Wraps(p)
    BY <1>1, <2>2, <2>13, PatientNeverWraps
  <2> QED BY <2>4, <2>10, <2>11, <2>12, <2>13
<1>2. ASSUME UNCHANGED vars, Decides PROVE FALSE
  BY <1>2 DEF Decides, vars
<1>3. Slow /\ [Next]_vars =>
        [Decides /\ ctl'.desired > ctl.current =>
           /\ ctl'.desired <= ctl.hpa.limits.max
           /\ Alone =>
                CASE world.up.select = "Max" ->
                       \E p \in world.up.policies : Wraps(p) \/ ctl'.desired <= Allowed(p)
                  [] world.up.select = "Min" ->
                       \A p \in world.up.policies : Wraps(p) \/ ctl'.desired <= Allowed(p)
                  [] OTHER -> FALSE
           /\ Alone /\ Patient => \A p \in world.up.policies : ~Wraps(p)]_vars
  BY <1>1, <1>2
<1> QED BY <1>3, SlowInit, NextKeepsSlow, PTL DEF Spec, RisesSlowly

(* A decision to remove replicas stays above min and above everything that *)
(* was calculated within the stabilisation window; and as long as the      *)
(* autoscaler is alone it leaves what the policies spare, counted from the *)
(* replicas there really were, provided that no period started with more   *)
(* of them than an unsigned integer holds.                                 *)
THEOREM RemovesSlowly == Spec /\ []Roomy => FallsSlowly
<1>1. ASSUME Slow, Roomy, Next, Decides, ctl'.desired < ctl.current
      PROVE  /\ ctl'.desired >= ctl.hpa.limits.min
             /\ env["drop"] = 0 => \A r \in wanted' : ctl'.desired >= r.n
             /\ Alone =>
                  CASE world.down.select = "Max" ->
                         \E p \in world.down.policies : ctl'.desired >= Spared(p)
                    [] world.down.select = "Min" ->
                         \A p \in world.down.policies : ctl'.desired >= Spared(p)
                    [] OTHER -> FALSE
  <2>1. Types /\ KeepsWishes /\ WantedInWindow
    BY <1>1 DEF Slow
  <2>2. Calculate /\ ctl'.at = "scale" /\ ctl.at = "metrics"
    BY <1>1, <2>1, DecidesByCalculation DEF Decides
  <2>3. PICK n \in Nat : Decided(n)
    BY <2>1, <2>2, CalculateShape
  <2>4. /\ ctl'.desired >= n /\ ctl'.desired >= ctl.hpa.limits.min /\ ctl'.desired >= ScaleDownLimit
        /\ \A r \in recs : r.age <= world.down.window => ctl'.desired >= r.n
        /\ wanted' = wanted \cup {[n |-> n, age |-> 0]}
    BY <1>1, <2>2, <2>3 DEF Decided
  <2>5. env["drop"] = 0 => \A r \in wanted' : ctl'.desired >= r.n
    <3>1. ASSUME env["drop"] = 0, NEW r \in wanted PROVE ctl'.desired >= r.n
      BY <2>1, <2>4, <3>1 DEF KeepsWishes, WantedInWindow
    <3>2. [n |-> n, age |-> 0].n = n
      OBVIOUS
    <3> QED BY <2>4, <3>1, <3>2
  <2>6. ctl.current \in Words /\ ctl'.desired \in Words
    <3>1. Types'
      BY <1>1, <2>1, NextKeepsTypes
    <3> QED BY <2>1, <3>1, TypesByPart, TypesByPartNext DEF CtlTypes, CtlType
  <2>7. /\ ScaleDownLimit \in Nat
        /\ ScaleDownLimit < ctl.current =>
              \/ /\ world.down.select = "Max"
                 /\ \E p \in world.down.policies : ScaleDownLimit = DownLimit(p)
              \/ /\ world.down.select = "Min"
                 /\ \A p \in world.down.policies : ScaleDownLimit >= DownLimit(p)
    BY <2>1, <2>6, DownLimitChosen
  <2>8. ctl.current \in Nat /\ ctl'.desired \in Nat
    BY <2>6, WordsAreNumbers
  <2>9. ScaleDownLimit < ctl.current
    BY <1>1, <2>4, <2>7, <2>8
  <2>10. ASSUME Alone, NEW p \in world.down.policies, ScaleDownLimit >= DownLimit(p)
         PROVE  ctl'.desired >= Spared(p)
    <3>1. DownLimit(p) >= Spared(p) /\ DownLimit(p) \in Nat /\ Spared(p) \in Int
      BY <1>1, <2>2, <2>10, DownLimitSpares
    <3> QED BY <2>4, <2>7, <2>8, <2>10, <3>1
  <2>11. ASSUME Alone, world.down.select = "Max"
         PROVE  \E p \in world.down.policies : ctl'.desired >= Spared(p)
    <3>1. PICK p \in world.down.policies : ScaleDownLimit = DownLimit(p)
      BY <2>7, <2>9, <2>11
    <3>2. ScaleDownLimit >= DownLimit(p)
      BY <2>7, <3>1
    <3> QED BY <2>10, <2>11, <3>2
  <2>12. ASSUME Alone, world.down.select = "Min"
         PROVE  \A p \in world.down.policies : ctl'.desired >= Spared(p)
    BY <2>7, <2>9, <2>10, <2>12
  <2>13. world.down.select = "Max" \/ world.down.select = "Min"
    BY <2>7, <2>9
  <2> QED BY <2>4, <2>5, <2>11, <2>12, <2>13
<1>2. ASSUME UNCHANGED vars, Decides PROVE FALSE
  BY <1>2 DEF Decides, vars
<1>3. Slow /\ Roomy /\ [Next]_vars =>
        [Decides /\ ctl'.desired < ctl.current =>
           /\ ctl'.desired >= ctl.hpa.limits.min
           /\ env["drop"] = 0 => \A r \in wanted' : ctl'.desired >= r.n
           /\ Alone =>
                CASE world.down.select = "Max" ->
                       \E p \in world.down.policies : ctl'.desired >= Spared(p)
                  [] world.down.select = "Min" ->
                       \A p \in world.down.policies : ctl'.desired >= Spared(p)
                  [] OTHER -> FALSE]_vars
  BY <1>1, <1>2
<1> QED BY <1>3, SlowInit, NextKeepsSlow, PTL DEF Spec, FallsSlowly
===============================================================================
