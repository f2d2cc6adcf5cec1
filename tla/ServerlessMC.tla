----------------------------- MODULE ServerlessMC -----------------------------
(***************************************************************************)
(* The worlds in which Serverless is model-checked.                        *)
(***************************************************************************)
EXTENDS Serverless, TLC

Never == [d \in Disturbance |-> 0]
In(patient, router, may) ==
  [patient |-> patient, router |-> router, may |-> may @@ Never]

ThreeNames == 1 .. 3

AllWorlds == {
  In(TRUE, FALSE, [create |-> 3, delete |-> 2, break |-> 1, lose |-> 1]),
  In(TRUE, FALSE, [create |-> 3, hangup |-> 1]),
  In(TRUE, TRUE, [create |-> 2, delete |-> 1]),
  In(TRUE, FALSE, [create |-> 2, delete |-> 2, fail |-> 2]),
  In(TRUE, TRUE, [create |-> 1, delete |-> 1, request |-> 2, scale |-> 2]),
  In(FALSE, FALSE, [create |-> 2, delete |-> 2, lose |-> 1]),
  In(FALSE, FALSE, [create |-> 1, overwrite |-> 1, delete |-> 1, hangup |-> 1, break |-> 1]),
  In(FALSE, TRUE, [create |-> 1, delete |-> 1, request |-> 2]),
  In(FALSE, TRUE, [create |-> 1, request |-> 1, workflow |-> 1, scale |-> 1])
}
===============================================================================
