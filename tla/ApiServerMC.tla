----------------------------- MODULE ApiServerMC -----------------------------
(***************************************************************************)
(* The API server: its handlers of objects, two at a time, and of nodes,   *)
(* one at a time.  They share nothing, so that a behaviour is of either.   *)
(***************************************************************************)
EXTENDS ApiServer, Nodes, TLC

VARIABLE half   \* which handlers this behaviour is of

allVars == <<vars, nodeVars, half>>

Never == [e \in Event |-> 0]

NodesOnce == {
  [report |-> 2, delete |-> 1, label |-> 1, fail |-> 1] @@ Never,
  [report |-> 1, delete |-> 2, target |-> 1, fail |-> 2] @@ Never,
  [report |-> 1, delete |-> 1, unread |-> 1, fail |-> 1] @@ Never,
  [report |-> 1, move |-> 1, label |-> 2, delete |-> 1] @@ Never
}

MCInit == Init /\ NodesInit /\ half \in {"objects", "nodes"}

MCNext ==
  \/ half = "objects" /\ Next /\ UNCHANGED <<nodeVars, half>>
  \/ half = "nodes" /\ NodesNext /\ UNCHANGED <<vars, half>>

MCSpec == MCInit /\ [][MCNext]_allVars
===============================================================================
