------------------------------ MODULE NetworkMC ------------------------------
(***************************************************************************)
(* The worlds in which Network is model-checked.                           *)
(***************************************************************************)
EXTENDS Network

CONSTANTS p1, p2

Never == [d \in Disturbance |-> 0]

(* Two services that pick both pods, or one of them only.                  *)
In(runs, patient, total, may) ==
  [runs |-> runs, selectors |-> {{p1}, {p1, p2}}, offers |-> {Port},
   patient |-> patient, total |-> total, may |-> may @@ Never]

(* One thing at a time, for all three components.                          *)
Patiently(total, may) ==
  [In(Component, TRUE, total, may) EXCEPT !.selectors = {{p1, p2}}]

AllWorlds == {
  Patiently(5, [create |-> 2, drop |-> 1, start |-> 3, stop |-> 1]),
  Patiently(5, [create |-> 1, drop |-> 1, start |-> 2, publish |-> 2, withdraw |-> 1]),
  Patiently(5, [create |-> 1, start |-> 4, stop |-> 1, relist |-> 1]),
  Patiently(4, [create |-> 1, start |-> 2, publish |-> 1, relist |-> 2]),
  In({"endpoints", "proxy"}, FALSE, 4,
     [create |-> 2, overwrite |-> 1, drop |-> 1, start |-> 2]),
  In({"ingress"}, FALSE, 4,
     [create |-> 2, overwrite |-> 1, drop |-> 1, publish |-> 2, withdraw |-> 1, relist |-> 2]),
  In({"endpoints", "proxy"}, TRUE, 4,
     [create |-> 2, start |-> 2, stop |-> 1, relist |-> 1, fail |-> 1]),
  In({"ingress"}, FALSE, 4,
     [create |-> 2, give |-> 1, drop |-> 1, publish |-> 1, restart |-> 1])
}
===============================================================================
