-------------------------------- MODULE HPAMC --------------------------------
(* Worlds for HPA to be checked in, and metrics to calculate with.         *)
EXTENDS HPA

CONSTANT MaxPods    \* bound: pods in an observation

-------------------------------------------------------------------------------
(* Observations.                                                           *)

Load(n, target) == [source |-> "function", target |-> target, total |-> n]
Queries(n) == Load(n, 1)

(* What f64 makes of the shares that are used below, up to Word.           *)
Excess == {<<50, 110>>} \cup {<<n, 30>> : n \in {10, 20, 30, 40, 50, 60}}

Request == 2
Seen(stored, measured, ready, usage) ==
  [stored |-> stored, measured |-> measured, ready |-> ready, usage |-> usage,
   request |-> Request]

(* Pods that do little and too much, that are not ready, whose metric is   *)
(* missing, that are not in the store.                                     *)
Pods == {Seen(TRUE, TRUE, TRUE, u) : u \in {1, 4}}
          \cup {Seen(TRUE, TRUE, FALSE, 4), Seen(TRUE, FALSE, FALSE, 0),
                Seen(FALSE, TRUE, FALSE, 3)}

Observations ==
  [source : {"utilization"}, target : {75},
   pods : UNION {[1 .. n -> Pods] : n \in 0 .. MaxPods}]
    \cup [source : {"value"}, target : {0, 2},
          pods : UNION {[1 .. n -> Pods] : n \in 0 .. MaxPods}]

-------------------------------------------------------------------------------
(* Worlds.                                                                 *)

Rule(type, value) == [type |-> type, value |-> value, period |-> 2]

(* The defaults on a smaller scale, and rules that are more careful.       *)
UpDefault == [policies |-> {Rule("Pods", 1), Rule("Percent", 100)}, select |-> "Max", window |-> 0]
DownDefault == [policies |-> {Rule("Percent", 100)}, select |-> "Max", window |-> 2]
UpCareful == [policies |-> {Rule("Pods", 1), Rule("Percent", 50)}, select |-> "Min", window |-> 2]
DownCareful == [policies |-> {Rule("Pods", 1), Rule("Percent", 50)}, select |-> "Min", window |-> 2]

Careful(w) == [w EXCEPT !.up = UpCareful, !.down = DownCareful]
Frozen(w) == [w EXCEPT !.up.select = "Disabled", !.down.select = "Disabled"]
Eager(w) == [w EXCEPT !.down.window = 0]
Slow(w) == [w EXCEPT !.punctual = FALSE]
Checked(w) == [w EXCEPT !.checked = TRUE]

Once(ds) == [d \in Disturbance |-> IF d \in ds THEN 1 ELSE 0]
Base == [first |-> 1, limits |-> [min |-> 1, max |-> 3], scales |-> {0, 1, 4},
         patches |-> {[min |-> 2, max |-> 3]},
         up |-> UpDefault, down |-> DownDefault,
         metrics |-> {Queries(1), Queries(4)},
         punctual |-> TRUE, checked |-> FALSE, may |-> Once({})]

(* Changing load, and one disturbance; time that passes at any moment.     *)
Careless == {[Base EXCEPT !.may = Once({d})] : d \in Disturbance \ {"patch"}}
              \cup {[Base EXCEPT !.may = Once({"drop", "create"})]}
BusyWorlds ==
  Careless
    \cup {Careful(w) : w \in Careless \cup {[Base EXCEPT !.may = Once({"patch"})]}}
    \cup {Slow(Base), Slow(Careful(Base)), Frozen(Base), Eager(Base),
          Checked(Base), Checked(Eager(Base))}

(* Metrics of pods, some of which cannot be averaged.                      *)
PodMetrics(source) ==
  {[source |-> source, target |-> IF source = "value" THEN 2 ELSE 100, pods |-> ps] :
     ps \in {<<>>,
            <<Seen(TRUE, TRUE, TRUE, 4), Seen(TRUE, FALSE, FALSE, 0)>>,
            <<Seen(TRUE, TRUE, TRUE, 1), Seen(TRUE, TRUE, TRUE, 2)>>,
            <<Seen(TRUE, TRUE, FALSE, 4)>>}}
PodWorlds ==
  {[Base EXCEPT !.metrics = PodMetrics(source)] : source \in {"utilization", "value"}}
    \cup {Frozen(Eager([Base EXCEPT !.metrics = Observations, !.first = n,
                                    !.limits.max = MaxPods + 1])) : n \in 1 .. MaxPods + 1}

(* The same load for ever, and few disturbances.                           *)
SteadyWorlds ==
  {[Base EXCEPT !.metrics = {Queries(n)}, !.may = Once(ds)] :
     n \in {1, 4},
     ds \in {{d} : d \in Disturbance}
             \cup {{"drop", "create"}, {"scale", "fail"}, {"refuse", "lose"}}}
    \cup {Slow([Base EXCEPT !.metrics = {Queries(4)}])}
    \cup {[Base EXCEPT !.metrics = {Load(n, 2)}, !.first = m] : n \in {3, 4, 5}, m \in {1, 3}}

(* What was added is taken away at once and added again.                   *)
EagerWorlds ==
  {Eager([Base EXCEPT !.first = 2, !.limits.max = 6, !.metrics = {Queries(1), Queries(12)},
                      !.may = Once({d})]) : d \in {"fail", "patch"}}

(* Many replicas, and shares of them that are not exact in f64.            *)
ManyWorlds ==
  {[Base EXCEPT !.first = l.first, !.limits = [min |-> l.min, max |-> l.max], !.metrics = {Queries(1), Queries(200)},
                !.up.policies = {Rule("Percent", 10)}, !.down.policies = {Rule("Percent", 70)},
                !.down.window = 0] :
     l \in {[first |-> 50, min |-> 50, max |-> 60], [first |-> 10, min |-> 2, max |-> 10]}}

AllWorlds == BusyWorlds \cup PodWorlds \cup SteadyWorlds
               \cup EagerWorlds \cup ManyWorlds
===============================================================================
