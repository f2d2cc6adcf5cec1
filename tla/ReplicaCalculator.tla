--------------------------- MODULE ReplicaCalculator ---------------------------
(***************************************************************************)
(* ReplicaCalculator (controllers/src/podautoscaler/replica_calculator.rs):*)
(* how many replicas the autoscaler asks for, given what Prometheus told   *)
(* and what the pod store holds.  Ratios are pairs <<dividend, divisor>>,  *)
(* where the code has f64: roundings of the last bit are not modelled.     *)
(***************************************************************************)
EXTENDS Integers, Sequences, FiniteSets, Functions

(* A pod that the selector matches: it is in the pod store, it has a       *)
(* metric, or both.                                                        *)
PodSeen == [stored : BOOLEAN, measured : BOOLEAN, ready : BOOLEAN,
            usage : Nat, request : Nat]

(* What one look at the metrics gives, and what the autoscaler aims at.    *)
Observation ==
  [source : {"utilization"}, target : Nat \ {0}, pods : Seq(PodSeen)]
    \cup [source : {"value"}, target : Nat, pods : Seq(PodSeen)]
    \cup [source : {"function"}, target : Nat \ {0}, total : Nat]

(* How a calculation ends.                                                 *)
Number(n) == [end |-> "number", n |-> n]
Error == [end |-> "error", n |-> 0]
Panic == [end |-> "panic", n |-> 0]

(* Mutant: what is left over is cut off.                                   *)
Ceiling_Cut(r) == r[1] \div r[2]

Ceiling(r) == (r[1] + r[2] - 1) \div r[2]
Below(r) == r[1] < r[2]
Above(r) == r[1] > r[2]

Stored(o) == {i \in DOMAIN o.pods : o.pods[i].stored}
Measured(o) == {i \in DOMAIN o.pods : o.pods[i].measured}

(* filter_pods: missing pods have no metric yet; a pod that is not ready   *)
(* loses its metric; metrics of pods that are not in the store are kept.   *)
Missing(o) == Stored(o) \ Measured(o)
Counted(o) == {i \in Measured(o) : o.pods[i].stored => o.pods[i].ready}

(* Usage by pod, with an assumption on those that are missing.             *)
Usage(o, assumed) ==
  [i \in DOMAIN o.pods |->
     IF i \in Missing(o) THEN assumed[i] ELSE o.pods[i].usage]

RequestOf(o) == [i \in DOMAIN o.pods |-> o.pods[i].request]

(* calc_scale_ratio_by_utilization: in percent of what the pods request.   *)
UtilizationRatio(o, usage, S) ==
  LET requests == SumFunctionOnSet(RequestOf(o), S \cap Stored(o)) IN
  IF requests = 0
    THEN <<1, 1>>
    ELSE <<100 * SumFunctionOnSet(usage, S), requests * o.target>>

(* calc_scale_ratio_by_value: the average, cut off to an integer.          *)
ValueRatio(o, usage, S) ==
  IF o.target = 0
    THEN <<1, 1>>
    ELSE <<SumFunctionOnSet(usage, S) \div Cardinality(S), o.target>>

Ratio(o, usage, S) ==
  IF o.source = "utilization" THEN UtilizationRatio(o, usage, S)
                              ELSE ValueRatio(o, usage, S)

(* What a missing pod is assumed to use: all of it when the others use     *)
(* little, nothing when they use much.                                     *)
Assumed(o, ratio) ==
  [i \in DOMAIN o.pods |->
     IF ~Below(ratio) THEN 0
     ELSE IF o.source = "utilization" THEN o.pods[i].request ELSE o.target]

(* The number stays when an assumption would turn the direction around, or *)
(* the ratio says up and the number down.                                  *)
Turned(before, after, n, current) ==
  \/ Above(after) /\ (Below(before) \/ n < current)
  \/ Below(after) /\ (Above(before) \/ n > current)

(* calc_replicas_by_utilization and calc_replicas_by_value; the average of *)
(* no metric divides by zero.                                              *)
CalcPodReplicas(o, current) ==
  LET known == Counted(o)
      all == known \cup Missing(o)
      before == Ratio(o, Usage(o, [i \in DOMAIN o.pods |-> 0]), known)
      after == Ratio(o, Usage(o, Assumed(o, before)), all)
      n == Ceiling(<<after[1] * Cardinality(all), after[2]>>) IN
  IF Measured(o) = {} \/ Stored(o) = {} THEN Error
  ELSE IF o.source = "value" /\ known = {} THEN Panic
  ELSE Number(IF Turned(before, after, n, current) THEN current ELSE n)

(* calc_function_replicas: queries per replica, cut off to an integer.     *)
CalcFunctionReplicas(o, current) ==
  Number(Ceiling(<<current * (o.total \div current), o.target>>))

CalcReplicas(o, current) ==
  IF o.source = "function" THEN CalcFunctionReplicas(o, current)
                           ELSE CalcPodReplicas(o, current)

-------------------------------------------------------------------------------
(* What a calculation promises.                                            *)

(* What the pods were measured to use.                                     *)
LoadOf(o) == SumFunctionOnSet(Usage(o, [i \in DOMAIN o.pods |-> 0]), Counted(o))

(* The pods of the store that count, and what they request.                *)
Known(o) == (Counted(o) \cup Missing(o)) \cap Stored(o)
Requested(o) == SumFunctionOnSet(RequestOf(o), Known(o))

(* A new number of pods can carry the load at the target: pods that request*)
(* as much as the known ones do on average, where anything is requested;   *)
(* pods that do as much as the target, apart from what an average cut off. *)
Carries(o, current) ==
  LET r == CalcReplicas(o, current) IN
  (r.end = "number" /\ r.n # current) =>
    CASE o.source = "utilization" ->
           Requested(o) > 0 => r.n * Requested(o) * o.target
                                 >= 100 * LoadOf(o) * Cardinality(Known(o))
      [] o.source = "value" ->
           o.target > 0 =>
             r.n * o.target > LoadOf(o) - Cardinality(Counted(o) \cup Missing(o))
      [] o.source = "function" -> r.n * o.target > o.total - current
================================================================================
