---------------------------------- MODULE HPA ----------------------------------
(***************************************************************************)
(* The horizontal pod autoscaler                                           *)
(* (controllers/src/podautoscaler/horizontal.rs), for one autoscaler and   *)
(* its ReplicaSet.  One task takes names from a queue with delays, reads   *)
(* the ReplicaSet, asks for metrics, puts the ReplicaSet and then its own  *)
(* status, and puts the name back for the next period.  What it wanted and *)
(* did in the past it remembers with the time: wishes hold back the next   *)
(* decision (stabilisation), changes limit its size (scaling policies).    *)
(*                                                                         *)
(* Time is counted in ticks; what is remembered has an age.  etcd, watches *)
(* and stores are as in ReplicaSet.                                        *)
(***************************************************************************)
EXTENDS ReplicaCalculator, FiniteSetsExt

CONSTANTS
  NoHpa,        \* no such autoscaler
  QueueCap,     \* capacity of the channel of names (16 in the code)
  Sync,         \* ticks between two reconciliations (SYNC_PERIOD)
  Horizon,      \* bound: ticks after which nothing counts any more
  Word,         \* number of values of an unsigned integer (2^32 in the code)
  RoundedUp,    \* products that f64 makes larger than they are, see Share
  Worlds        \* what the autoscaler may have to cope with, see World

Policy == [type : {"Pods", "Percent"}, value : Nat, period : 0 .. Horizon]
Rules == [policies : {ps \in SUBSET Policy : IsFiniteSet(ps)},
          select : {"Min", "Max", "Disabled"}, window : 0 .. Horizon]
Limits == {l \in [min : 0 .. Word - 1, max : 0 .. Word - 1] : l.min <= l.max}

(* A user or the router sets the number of replicas ("scale"), a user      *)
(* patches the limits ("patch"), deletes the autoscaler ("drop") or makes  *)
(* it anew ("create"); a read of the ReplicaSet or of metrics fails        *)
(* ("fail"), the API server refuses a put ("refuse"), the answer to a put  *)
(* is lost ("lose"), a watch is lost ("relist").                           *)
Disturbance ==
  {"scale", "patch", "drop", "create", "fail", "refuse", "lose", "relist"}
World == [first : 0 .. Word - 1,           \* replicas in the beginning
          limits : Limits,                 \* limits in the beginning
          scales : SUBSET (0 .. Word - 1), \* replicas set by others
          patches : SUBSET Limits,         \* limits asked for later
          up : Rules, down : Rules,
          metrics : SUBSET Observation,    \* what may be observed
          punctual : BOOLEAN,              \* no tick passes while it works
          checked : BOOLEAN,               \* a build that checks for overflow
          may : [Disturbance -> Nat]]

ASSUME HPAAssumption ==
  /\ QueueCap \in Nat \ {0}
  /\ Sync \in Nat \ {0}
  /\ Horizon \in Nat
  /\ Word \in Nat \ {0}
  /\ Worlds \subseteq World

(* Hundredths are not exact in f64, so that a product that should be whole *)
(* may come out a little more.                                             *)
ASSUME RoundedUpAssumption ==
  /\ RoundedUp \subseteq Nat \X Nat
  /\ \A r \in RoundedUp : r[2] % 100 # 0 /\ (r[1] * r[2]) % 100 = 0

VARIABLES
  replicas,   \* etcd: spec.replicas of the ReplicaSet
  hpa,        \* etcd: the autoscaler
  hpaWatch,   \* watch events on it not yet received
  hpaStore,   \* the controller's store
  rx,         \* number of names sent by the informer
  resync,     \* a resync is due
  queue,      \* [delay -> number of entries of the work queue]
  inQueue,    \* the name is in in_queue
  recs,       \* recommendations: wishes of the past with their ages
  ups, downs, \* scale events: [age -> replicas added, removed]
  ctl,        \* what the task is doing
  past,       \* ghost: [age -> replicas before the tick that many ticks ago]
  wanted,     \* ghost: what was calculated, with its age
  world,      \* the world of this behaviour
  env         \* [Disturbance -> how often it happened]

apiVars == <<replicas, hpa, hpaWatch>>
storeVars == <<hpaStore, rx, resync>>
queueVars == <<queue, inQueue>>
memory == <<recs, ups, downs>>
ghosts == <<past, wanted>>
envVars == <<world, env>>
vars == <<apiVars, storeVars, queueVars, memory, ctl, ghosts, envVars>>

Hpa == [limits : Limits, current : 0 .. Word - 1, desired : 0 .. Word - 1]
ASSUME NoHpaAssumption == NoHpa \notin Hpa

Age == 0 .. Horizon
Remembered == [n : Nat, age : 0 .. Horizon + 1]
Nothing == [a \in Age |-> 0]
Idle == [at |-> "idle", hpa |-> NoHpa, current |-> 0, desired |-> 0]

TypeOK ==
  /\ replicas \in 0 .. Word - 1
  /\ hpa \in Hpa \cup {NoHpa}
  /\ hpaWatch \in Seq(Hpa \cup {NoHpa})
  /\ hpaStore \in Hpa \cup {NoHpa}
  /\ rx \in 0 .. QueueCap
  /\ resync \in BOOLEAN
  /\ queue \in [0 .. Sync -> Nat]
  /\ inQueue \in BOOLEAN
  /\ recs \subseteq Remembered
  /\ ups \in [Age -> Nat] /\ downs \in [Age -> Nat]
  /\ ctl \in [at : {"idle", "get", "metrics", "scale", "status", "crashed"},
              hpa : Hpa \cup {NoHpa}, current : 0 .. Word - 1, desired : 0 .. Word - 1]
  /\ past \in [Age -> 0 .. Word - 1]
  /\ wanted \subseteq Remembered
  /\ world \in Worlds
  /\ env \in [Disturbance -> Nat]

(* An autoscaler is created with the number of pods that the ReplicaSet's  *)
(* status counts: those asked for, or none if it is as new.                *)
Created(counted) == [limits |-> world.limits, current |-> counted, desired |-> counted]

(* The autoscaler has been created, and is seen by the watch.              *)
Init ==
  /\ world \in Worlds
  /\ replicas = world.first
  /\ hpa \in {Created(n) : n \in {0, world.first}}
  /\ hpaWatch = <<hpa>>
  /\ hpaStore = NoHpa
  /\ rx = 0
  /\ resync = FALSE
  /\ queue = [d \in 0 .. Sync |-> 0]
  /\ inQueue = FALSE
  /\ recs = {}
  /\ ups = Nothing /\ downs = Nothing
  /\ ctl = Idle
  /\ past = [a \in Age |-> world.first]
  /\ wanted = {}
  /\ env = [d \in Disturbance |-> 0]

Disturb(d) ==
  /\ env[d] < world.may[d]
  /\ env' = [env EXCEPT ![d] = @ + 1]
  /\ UNCHANGED world

-------------------------------------------------------------------------------
(* Others: users, the router, the API server.                              *)

PutHpa(new) ==
  /\ hpa' = new
  /\ hpaWatch' = Append(hpaWatch, new)

ScaleByHand(n) ==
  /\ n # replicas
  /\ Disturb("scale")
  /\ replicas' = n
  /\ UNCHANGED <<hpa, hpaWatch, storeVars, queueVars, memory, ctl, ghosts>>

PatchHpa(limits) ==
  /\ hpa # NoHpa
  /\ limits # hpa.limits
  /\ Disturb("patch")
  /\ PutHpa([hpa EXCEPT !.limits = limits])
  /\ UNCHANGED <<replicas, storeVars, queueVars, memory, ctl, ghosts>>

DropHpa ==
  /\ hpa # NoHpa
  /\ Disturb("drop")
  /\ PutHpa(NoHpa)
  /\ UNCHANGED <<replicas, storeVars, queueVars, memory, ctl, ghosts>>

CreateHpa ==
  /\ hpa = NoHpa
  /\ Disturb("create")
  /\ \E n \in {0, replicas} : PutHpa(Created(n))
  /\ UNCHANGED <<replicas, storeVars, queueVars, memory, ctl, ghosts>>

-------------------------------------------------------------------------------
(* The informer, whose handlers send the name of a new autoscaler and of   *)
(* one whose spec has changed.                                             *)

ReceiveHpa ==
  LET new == Head(hpaWatch) IN
  /\ hpaWatch # <<>>
  /\ hpaWatch' = Tail(hpaWatch)
  /\ hpaStore' = new
  /\ IF new # NoHpa /\ (hpaStore = NoHpa \/ hpaStore.limits # new.limits)
       THEN rx < QueueCap /\ rx' = rx + 1
       ELSE UNCHANGED rx
  /\ UNCHANGED <<replicas, hpa, resync, queueVars, memory, ctl, ghosts, envVars>>

RelistHpas ==
  /\ Disturb("relist")
  /\ hpaWatch' = <<>>
  /\ hpaStore' = hpa
  /\ resync' = (resync \/ hpaStore # hpa)
  /\ UNCHANGED <<replicas, hpa, rx, queueVars, memory, ctl, ghosts>>

-------------------------------------------------------------------------------
(* Time.                                                                   *)

Older(S) == {[r EXCEPT !.age = IF @ > Horizon THEN @ ELSE @ + 1] : r \in S}
Shifted(f, new) == [a \in Age |-> IF a = 0 THEN new ELSE f[a - 1]]

Busy == ctl # Idle \/ queue[0] > 0 \/ rx > 0 \/ resync

(* Entries come nearer; events beyond every period count for nothing and   *)
(* are left out (discard_outdated_scale_events).  Bound: no tick passes    *)
(* while a watch event is under way, nor during "get", at whose beginning  *)
(* the code reads the clock, and the model at its end.                     *)
Tick ==
  /\ ctl.at # "get"
  /\ hpaWatch = <<>>
  /\ world.punctual => ~Busy
  /\ queue' = [d \in 0 .. Sync |-> IF d = 0 THEN queue[0] + queue[1]
                                   ELSE IF d = Sync THEN 0 ELSE queue[d + 1]]
  /\ recs' = Older(recs)
  /\ ups' = Shifted(ups, 0)
  /\ downs' = Shifted(downs, 0)
  /\ past' = Shifted(past, replicas)
  /\ wanted' = {r \in Older(wanted) : r.age <= world.down.window}
  /\ UNCHANGED <<apiVars, storeVars, inQueue, ctl, envVars>>

-------------------------------------------------------------------------------
(* The work queue.                                                         *)

EnqueueNow ==
  /\ inQueue' = TRUE
  /\ queue' = [queue EXCEPT ![0] = @ + 1]

ReceiveName ==
  /\ ctl = Idle
  /\ rx > 0
  /\ rx' = rx - 1
  /\ EnqueueNow
  /\ UNCHANGED <<apiVars, hpaStore, resync, memory, ctl, ghosts, envVars>>

(* handle_resync: what is in the store and not noted as queued.            *)
HandleResync ==
  /\ ctl = Idle
  /\ resync
  /\ resync' = FALSE
  /\ IF hpaStore # NoHpa /\ ~inQueue THEN EnqueueNow ELSE UNCHANGED queueVars
  /\ UNCHANGED <<apiVars, hpaStore, rx, memory, ctl, ghosts, envVars>>

(* An entry is due: reconcile what the store holds, or forget what was     *)
(* remembered of an autoscaler that is gone.                               *)
TakeEntry ==
  /\ ctl = Idle
  /\ queue[0] > 0
  /\ queue' = [queue EXCEPT ![0] = @ - 1]
  /\ inQueue' = FALSE
  /\ \/ /\ hpaStore = NoHpa
        /\ recs' = {} /\ ups' = Nothing /\ downs' = Nothing
        /\ UNCHANGED ctl
     \/ /\ hpaStore # NoHpa
        /\ ctl' = [Idle EXCEPT !.at = "get", !.hpa = hpaStore]
        /\ UNCHANGED memory
  /\ UNCHANGED <<apiVars, storeVars, ghosts, envVars>>

(* Mutant: a reconciliation that failed is not repeated.                   *)
Again_UnlessFailed ==
  /\ ctl' = Idle
  /\ queue' = IF inQueue \/ ctl.at \in {"get", "metrics"} THEN queue
                                                          ELSE [queue EXCEPT ![Sync] = @ + 1]
  /\ UNCHANGED inQueue

(* enqueue_hpa, after a reconciliation however it ended; in_queue is not   *)
(* told.                                                                   *)
Again ==
  /\ ctl' = Idle
  /\ queue' = IF inQueue THEN queue ELSE [queue EXCEPT ![Sync] = @ + 1]
  /\ UNCHANGED inQueue

-------------------------------------------------------------------------------
(* Deciding.                                                               *)

(* Unsigned arithmetic of a build that does not check it.                  *)
Minus(m, n) == (m + Word - n) % Word
Plus(m, n) == (m + n) % Word
Saturated(n) == Min({n, Word - 1})

Changed(events, period) == SumFunctionOnSet(events, 0 .. period)

(* So many hundredths of a number: multiplied in f64, then rounded up.     *)
Share(n, hundredths) ==
  Ceiling(<<n * hundredths, 100>>) + (IF <<n, hundredths>> \in RoundedUp THEN 1 ELSE 0)

(* Mutant: what was added in the period is not taken off.                  *)
UpLimit_Afresh(p) ==
  IF p.type = "Pods" THEN Plus(ctl.current, p.value)
  ELSE Saturated(Share(ctl.current, 100 + p.value))

(* How far one policy lets the number rise and fall, from what it was at   *)
(* the beginning of the policy's period.                                   *)
UpLimit(p) ==
  LET start == Minus(ctl.current, Changed(ups, p.period)) IN
  IF p.type = "Pods" THEN Plus(start, p.value)
  ELSE Saturated(Share(start, 100 + p.value))

DownLimit(p) ==
  LET start == Plus(ctl.current, Changed(downs, p.period)) IN
  IF p.type = "Pods" THEN Max({start - p.value, 0})
  ELSE Share(start, Max({100 - p.value, 0}))

(* calc_scale_up_limit, calc_scale_down_limit: the policy that changes     *)
(* most, or least; and a limit never turns the direction around.           *)
ScaleUpLimit ==
  LET limits == {UpLimit(p) : p \in world.up.policies} IN
  Max({ctl.current} \cup
      CASE world.up.select = "Max" -> limits
        [] world.up.select = "Min" -> {Min(limits \cup {Word - 1})}
        [] OTHER -> {})

ScaleDownLimit ==
  LET limits == {DownLimit(p) : p \in world.down.policies} IN
  Min({ctl.current} \cup
      CASE world.down.select = "Max" -> limits
        [] world.down.select = "Min" -> {Max(limits \cup {0})}
        [] OTHER -> {})

(* More was added in the policy's period than there is now: the period     *)
(* started with less than nothing.                                         *)
Wraps(p) == Changed(ups, p.period) > ctl.current

Underflows(n) ==
  /\ n > ctl.current
  /\ world.up.select # "Disabled"
  /\ \E p \in world.up.policies : Wraps(p)

Within(window) == {r.n : r \in {s \in recs : s.age <= window}}

(* Mutant: the lowest wish of the window is followed downwards.            *)
Stabilized_Eager(want) ==
  LET up == Min({want} \cup Within(world.up.window))
      down == Min({want} \cup Within(world.down.window)) IN
  Min({Max({ctl.current, up}), down})

(* stabilize_recommendation: up to the lowest wish of one window, down to  *)
(* the highest of the other.                                               *)
Stabilized(want) ==
  LET up == Min({want} \cup Within(world.up.window))
      down == Max({want} \cup Within(world.down.window)) IN
  Min({Max({ctl.current, up}), down})

(* Wishes outside both windows are dropped.                                *)
Recent == {r \in recs : r.age <= world.up.window \/ r.age <= world.down.window}

(* conform_with_behavior, then not below min.                              *)
Conforming(n) ==
  LET l == ctl.hpa.limits IN
  Max({l.min,
       IF n > ctl.current THEN Min({n, l.max, ScaleUpLimit})
       ELSE IF n < ctl.current THEN Max({n, l.min, ScaleDownLimit})
       ELSE n})

-------------------------------------------------------------------------------
(* A reconciliation.                                                       *)

StatusOf(current, desired) ==
  [current |-> IF desired = 0 THEN 0 ELSE current, desired |-> desired]

(* Scale if need be, then put the status if it has changed.                *)
Act(current, desired) ==
  LET next == [ctl EXCEPT !.current = current, !.desired = desired]
      old == [current |-> ctl.hpa.current, desired |-> ctl.hpa.desired] IN
  IF desired # current
    THEN ctl' = [next EXCEPT !.at = "scale"] /\ UNCHANGED queueVars
  ELSE IF StatusOf(current, desired) # old
    THEN ctl' = [next EXCEPT !.at = "status"] /\ UNCHANGED queueVars
  ELSE Again

(* The number read is a recommendation too if there is none yet, or if     *)
(* somebody else has set it.  No metrics are needed outside the limits.    *)
Get ==
  LET l == ctl.hpa.limits IN
  /\ ctl.at = "get"
  /\ recs' = recs \cup IF recs = {} \/ replicas # ctl.hpa.desired
                         THEN {[n |-> replicas, age |-> 0]}
                         ELSE {}
  /\ \/ replicas = 0 /\ Act(0, 0)
     \/ replicas > 0 /\ replicas > l.max /\ Act(replicas, l.max)
     \/ replicas > 0 /\ replicas < l.min /\ Act(replicas, l.min)
     \/ /\ replicas > 0 /\ replicas \in l.min .. l.max
        /\ ctl' = [ctl EXCEPT !.at = "metrics", !.current = replicas]
        /\ UNCHANGED queueVars
  /\ UNCHANGED <<apiVars, storeVars, ups, downs, ghosts, envVars>>

(* normalize_desired_replicas: the wish is stabilised, remembered as it    *)
(* was, and limited.                                                       *)
Normalize(n) ==
  /\ recs' = Recent \cup {[n |-> n, age |-> 0]}
  /\ wanted' = wanted \cup {[n |-> n, age |-> 0]}
  /\ IF world.checked /\ Underflows(Stabilized(n))
       THEN ctl' = [ctl EXCEPT !.at = "crashed"] /\ UNCHANGED queueVars
       ELSE Act(ctl.current, Conforming(Stabilized(n)))

Calculate ==
  /\ ctl.at = "metrics"
  /\ \E o \in world.metrics :
       LET result == CalcReplicas(o, ctl.current) IN
       \/ result.end = "error" /\ Again /\ UNCHANGED <<recs, wanted>>
       \/ /\ result.end = "panic"
          /\ ctl' = [ctl EXCEPT !.at = "crashed"]
          /\ UNCHANGED <<recs, wanted, queueVars>>
       \/ result.end = "number" /\ Normalize(Saturated(result.n))
  /\ UNCHANGED <<apiVars, storeVars, ups, downs, past, envVars>>

ReadFails ==
  /\ ctl.at \in {"get", "metrics"}
  /\ Disturb("fail")
  /\ Again
  /\ UNCHANGED <<apiVars, storeVars, memory, ghosts>>

(* record_scale_event.                                                     *)
Record ==
  /\ ups' = [ups EXCEPT ![0] = @ + Max({ctl.desired - ctl.current, 0})]
  /\ downs' = [downs EXCEPT ![0] = @ + Max({ctl.current - ctl.desired, 0})]

(* The ReplicaSet is put; a refusal looks like success (post_update).      *)
PutScale ==
  /\ ctl.at = "scale"
  /\ replicas' = ctl.desired
  /\ Record
  /\ ctl' = [ctl EXCEPT !.at = "status"]
  /\ UNCHANGED <<hpa, hpaWatch, storeVars, queueVars, recs, ghosts, envVars>>

ScaleRefused ==
  /\ ctl.at = "scale"
  /\ Disturb("refuse")
  /\ Record
  /\ ctl' = [ctl EXCEPT !.at = "status"]
  /\ UNCHANGED <<apiVars, storeVars, queueVars, recs, ghosts>>

(* No answer comes, whether or not the request was executed.               *)
ScaleUnanswered ==
  /\ ctl.at = "scale"
  /\ Disturb("lose")
  /\ replicas' \in {replicas, ctl.desired}
  /\ Again
  /\ UNCHANGED <<hpa, hpaWatch, storeVars, memory, ghosts>>

(* The autoscaler is put whole, from the copy that was reconciled; one     *)
(* that is gone is not put.                                                *)
PutStatus ==
  /\ ctl.at = "status"
  /\ IF hpa = NoHpa
       THEN UNCHANGED <<hpa, hpaWatch>>
       ELSE PutHpa([ctl.hpa EXCEPT !.current = StatusOf(ctl.current, ctl.desired).current,
                                   !.desired = ctl.desired])
  /\ Again
  /\ UNCHANGED <<replicas, storeVars, memory, ghosts, envVars>>

StatusRefused ==
  /\ ctl.at = "status"
  /\ Disturb("refuse")
  /\ Again
  /\ UNCHANGED <<apiVars, storeVars, memory, ghosts>>

-------------------------------------------------------------------------------
Task ==
  \/ ReceiveName \/ HandleResync \/ TakeEntry
  \/ Get \/ Calculate \/ PutScale \/ PutStatus

Next ==
  \/ (\E n \in world.scales : ScaleByHand(n))
  \/ (\E limits \in world.patches : PatchHpa(limits))
  \/ DropHpa \/ CreateHpa
  \/ ReceiveHpa \/ RelistHpas
  \/ Tick
  \/ Task
  \/ ReadFails \/ ScaleRefused \/ ScaleUnanswered \/ StatusRefused

(* Time passes, and the informer and the task run when they can.           *)
Fairness ==
  /\ WF_vars(Tick)
  /\ WF_vars(ReceiveHpa)
  /\ WF_vars(Task)

Spec == Init /\ [][Next]_vars
FairSpec == Spec /\ Fairness

-------------------------------------------------------------------------------
(* Nobody else touches the number of replicas or makes the autoscaler      *)
(* forget, every put is answered truly and within a tick.                  *)
Alone ==
  /\ \A d \in {"scale", "drop", "refuse", "lose"} : env[d] = 0
  /\ world.punctual

(* As in the default behaviour: what was added is not taken away again     *)
(* before it is forgotten, unless the limits are changed.                  *)
Patient ==
  /\ \A p \in world.up.policies : p.period <= world.down.window
  /\ env["patch"] = 0

(* What a policy allows when so many replicas were there a period ago:     *)
(* one replica may be due to rounding.                                     *)
Allowed(p) ==
  LET start == past[p.period]
      share == start * (100 + p.value) IN
  IF p.type = "Pods" THEN start + p.value
  ELSE IF p.value % 100 = 0 THEN Ceiling(<<share, 100>>)
  ELSE share \div 100 + 1
Spared(p) ==
  LET start == past[p.period] IN
  IF p.type = "Pods" THEN start - p.value
  ELSE Ceiling(<<start * Max({100 - p.value, 0}), 100>>)

(* The task has decided by metrics.                                        *)
Decides == ctl.at = "metrics" /\ ctl'.at = "scale"

(* A decision to add replicas stays below max.  As long as the autoscaler  *)
(* is alone it stays within what the scaling policies allow, counted from  *)
(* the replicas there really were at the start of the period, but for a    *)
(* policy whose subtraction wraps around; and that happens to none that is *)
(* patient.                                                                *)
RisesSlowly ==
  [][Decides /\ ctl'.desired > ctl.current =>
       /\ ctl'.desired <= ctl.hpa.limits.max
       /\ Alone =>
            CASE world.up.select = "Max" ->
                   \E p \in world.up.policies : Wraps(p) \/ ctl'.desired <= Allowed(p)
              [] world.up.select = "Min" ->
                   \A p \in world.up.policies : Wraps(p) \/ ctl'.desired <= Allowed(p)
              [] OTHER -> FALSE
       /\ Alone /\ Patient => \A p \in world.up.policies : ~Wraps(p)]_vars

(* A decision to remove replicas stays above min and above everything that *)
(* was calculated within the stabilisation window; and as long as the      *)
(* autoscaler is alone it leaves what the policies spare.                  *)
FallsSlowly ==
  [][Decides /\ ctl'.desired < ctl.current =>
       /\ ctl'.desired >= ctl.hpa.limits.min
       /\ env["drop"] = 0 => \A r \in wanted' : ctl'.desired >= r.n
       /\ Alone =>
            CASE world.down.select = "Max" ->
                   \E p \in world.down.policies : ctl'.desired >= Spared(p)
              [] world.down.select = "Min" ->
                   \A p \in world.down.policies : ctl'.desired >= Spared(p)
              [] OTHER -> FALSE]_vars

(* An autoscaler that the store holds is about to be reconciled: its name  *)
(* has been sent, is in the work queue, or is what the task is at.         *)
StaysScheduled ==
  hpaStore # NoHpa => \/ rx > 0 \/ resync
                      \/ \E d \in 0 .. Sync : queue[d] > 0
                      \/ ctl # Idle

(* When a calculation changes the number, the new number of pods can carry *)
(* what was measured at the target, apart from what an average cuts off,   *)
(* however many pods are missing, not ready or unknown to the store.       *)
CarriesTheLoad ==
  ctl.at = "metrics" => \A o \in world.metrics : Carries(o, ctl.current)

(* The metrics say the same for ever, the rules permit both directions and *)
(* an underflow does not end the program.                                  *)
Steady == /\ Cardinality(world.metrics) = 1
          /\ "Disabled" \notin {world.up.select, world.down.select}
          /\ ~world.checked

(* What the metrics ask for, within the limits, of so many replicas.       *)
Wish(n) ==
  LET o == CHOOSE m \in world.metrics : TRUE IN
  Max({hpa.limits.min, Min({CalcReplicas(o, n).n, hpa.limits.max})})

(* The load can be dealt out to replicas that serve the target each, so    *)
(* that cutting off averages makes no difference in the end.               *)
Even == \A o \in world.metrics : o.source = "function" /\ o.total % o.target = 0

(* When the metrics stay, the number of replicas comes to be among those   *)
(* that the metrics ask for; and if the load is even it comes to be the    *)
(* one they ask for, and stays.  (A load that is not is cut off to nothing *)
(* and back: for 3 queries and a target of 2 the number goes up and down   *)
(* between 1 and 2 for ever.)                                              *)
SettlesOnMetrics ==
  Steady => <>[](hpa # NoHpa /\ replicas > 0 =>
                   /\ \E m, n \in hpa.limits.min .. hpa.limits.max :
                        Wish(m) <= replicas /\ replicas <= Wish(n)
                   /\ Even => replicas = Wish(replicas))
================================================================================
