-------------------------------- MODULE Nodes --------------------------------
(***************************************************************************)
(* Nodes: the kubelets' node status managers (rkubelet/src/                *)
(* node_status_manager.rs), the API server's handlers of nodes             *)
(* (api_server/src/handler/node.rs) and the targets Prometheus scrapes     *)
(* (metrics.rs), which are kept in a file the handlers read, change and    *)
(* write whole, and then ask Prometheus to load.                           *)
(*                                                                         *)
(* A handler is a sequence of steps; other handlers run in between, for    *)
(* there is a lock on neither etcd nor the file.                           *)
(***************************************************************************)
EXTENDS FiniteSets, Naturals

CONSTANTS
  Node,         \* nodes; also the addresses they start with, if any
  NewAddr,      \* an address a node may get later
  Extra,        \* targets that users add and remove, not the nodes' own
  Label0,       \* the labels of a new node
  Label,        \* labels that users ask for
  Slot,         \* handlers that run at a time
  Absent,
  NodeWorlds    \* how often each of the following may happen

(* A kubelet reports its status again ("report"), the address of its       *)
(* machine changes ("move"); a user deletes or labels a node, or adds or   *)
(* removes a target; a read of etcd fails ("unread"), another step of a    *)
(* handler fails ("fail").                                                 *)
Event == {"report", "move", "delete", "label", "target", "unread", "fail"}

ASSUME NodesAssumption ==
  /\ NodeWorlds \subseteq [Event -> Nat]
  /\ Absent \notin {NewAddr} \cup Node \cup Extra
  /\ Extra \cap Node = {}
  /\ IsFiniteSet(Slot)

VARIABLES
  nodes,       \* etcd: [Node -> [labels, addr] or Absent]
  file,        \* the targets in the file, Absent when it cannot be parsed
  scraped,     \* the targets Prometheus has loaded
  handlers,    \* [Slot -> handler or Absent]
  kubelets,    \* [Node -> what its kubelet knows]
  labelled,    \* ghost: [Node -> labels last put for a user or a new node]
  may, happened

nodeVars == <<nodes, file, scraped, handlers, kubelets, labelled, may, happened>>

(* A kubelet registers until it is told its metadata, which it keeps, and  *)
(* reports from then on; it waits for each answer.  A machine without an   *)
(* interface whose name begins with "en" has no address to report.         *)
NodesInit ==
  /\ may \in NodeWorlds
  /\ nodes = [n \in Node |-> Absent]
  /\ file = {}
  /\ scraped = {}
  /\ handlers = [h \in Slot |-> Absent]
  /\ \E bare \in SUBSET Node :
       kubelets = [n \in Node |-> [registered |-> FALSE, waits |-> FALSE, labels |-> Label0,
                                   addr |-> IF n \in bare THEN Absent ELSE n]]
  /\ labelled = [n \in Node |-> Label0]
  /\ happened = [e \in Event |-> 0]

Happens(e) ==
  /\ happened[e] < may[e]
  /\ happened' = [happened EXCEPT ![e] = @ + 1]
  /\ UNCHANGED may

Calm == UNCHANGED <<may, happened>>

(* A request arrives; a slot is taken.                                     *)
Starts(h, handler) ==
  /\ handlers[h] = Absent
  /\ handlers' = [handlers EXCEPT ![h] = handler]
  /\ UNCHANGED <<nodes, file, scraped, labelled>>

Report(h, n) ==
  /\ ~kubelets[n].waits
  /\ IF kubelets[n].registered THEN Happens("report") ELSE Calm
  /\ kubelets' = [kubelets EXCEPT ![n].waits = TRUE]
  /\ Starts(h, [op |-> "update", at |-> "get", node |-> n, read |-> Absent,
                obj |-> [labels |-> kubelets[n].labels, addr |-> kubelets[n].addr]])

Move(n) ==
  /\ Happens("move")
  /\ kubelets[n].registered
  /\ kubelets' = [kubelets EXCEPT ![n].addr = NewAddr]
  /\ UNCHANGED <<nodes, file, scraped, handlers, labelled>>

UserRequest(h) ==
  /\ \/ /\ Happens("delete")
        /\ \E n \in Node : Starts(h, [op |-> "delete", at |-> "get", node |-> n,
                                      read |-> Absent, obj |-> Absent])
     \/ /\ Happens("label")
        /\ \E n \in Node, l \in Label :
             Starts(h, [op |-> "label", at |-> "get", node |-> n, read |-> Absent,
                        obj |-> [labels |-> l, addr |-> Absent]])
     \/ /\ Happens("target")
        /\ \E t \in Extra, op \in {"add", "remove"} :
             Starts(h, [op |-> op, at |-> "read", node |-> Absent, read |-> Absent,
                        obj |-> [labels |-> Label0, addr |-> t]])
  /\ UNCHANGED kubelets

-------------------------------------------------------------------------------
(* The steps of a handler.                                                 *)

Stands(h, at) == handlers[h] # Absent /\ handlers[h].at = at

(* A kubelet that registers takes the metadata it is given.                *)
Told(n, obj) ==
  [kubelets EXCEPT ![n].waits = FALSE,
                   ![n].registered = @ \/ obj # Absent,
                   ![n].labels = IF kubelets[n].registered \/ obj = Absent THEN @ ELSE obj.labels]

(* The handler has answered: with an object, or with Absent.                 *)
Answers(h, obj) ==
  /\ handlers' = [handlers EXCEPT ![h] = Absent]
  /\ kubelets' = IF handlers[h].op = "update" THEN Told(handlers[h].node, obj) ELSE kubelets

Goes(h, handler) == handlers' = [handlers EXCEPT ![h] = handler] /\ UNCHANGED kubelets

(* Mutant: a node is put as soon as it registers, whatever its target.     *)
NotRead_PutsFirst(h) ==
  IF handlers[h].op = "update"
    THEN Goes(h, [handlers[h] EXCEPT !.at = "put"])
    ELSE Answers(h, Absent)

(* The node is not found, or etcd does not answer: update takes both for a *)
(* node that is new, whose address, if it has one, becomes a target before *)
(* it is put; the others give up.                                          *)
NotRead(h) ==
  LET me == handlers[h] IN
  IF me.op = "update"
    THEN Goes(h, [me EXCEPT !.at = IF me.obj.addr = Absent THEN "put" ELSE "read"])
    ELSE Answers(h, Absent)

(* Mutant: what the kubelet knows of the labels is put.                    *)
Known_ByKubelet(node, obj) == [node EXCEPT !.addr = obj.addr, !.labels = obj.labels]

(* What there is keeps its metadata and gets the new status.               *)
Known(node, obj) == [node EXCEPT !.addr = obj.addr]

GetNode(h) ==
  LET me == handlers[h]
      node == nodes[me.node] IN
  /\ Stands(h, "get")
  /\ IF node = Absent THEN NotRead(h)
     ELSE CASE me.op = "update" ->
                 Goes(h, [me EXCEPT !.at = "put", !.obj = Known(node, me.obj)])
            [] me.op = "label" ->
                 Goes(h, [me EXCEPT !.at = "put", !.obj.addr = node.addr])
            [] me.op = "delete" ->
                 Goes(h, [me EXCEPT !.at = "drop", !.obj = node])
  /\ Calm
  /\ UNCHANGED <<nodes, file, scraped, labelled>>

EtcdSilent(h) ==
  /\ Stands(h, "get")
  /\ Happens("unread")
  /\ NotRead(h)
  /\ UNCHANGED <<nodes, file, scraped, labelled>>

Puts(me) ==
  /\ nodes' = [nodes EXCEPT ![me.node] = me.obj]
  /\ labelled' = IF nodes[me.node] = Absent \/ me.op = "label"
                   THEN [labelled EXCEPT ![me.node] = me.obj.labels] ELSE labelled

PutNode(h) ==
  LET me == handlers[h] IN
  /\ Stands(h, "put")
  /\ Puts(me)
  /\ Answers(h, me.obj)
  /\ Calm
  /\ UNCHANGED <<file, scraped>>

(* A node that is gone by now is an error, and its target stays; without   *)
(* an address it had none.                                                 *)
DropNode(h) ==
  LET me == handlers[h] IN
  /\ Stands(h, "drop")
  /\ nodes' = [nodes EXCEPT ![me.node] = Absent]
  /\ IF nodes[me.node] = Absent \/ me.obj.addr = Absent
       THEN Answers(h, Absent)
       ELSE Goes(h, [me EXCEPT !.at = "read"])
  /\ Calm
  /\ UNCHANGED <<file, scraped, labelled>>

ReadFile(h) ==
  /\ Stands(h, "read")
  /\ IF file = Absent THEN Answers(h, Absent)
     ELSE Goes(h, [handlers[h] EXCEPT !.at = "write", !.read = file])
  /\ Calm
  /\ UNCHANGED <<nodes, file, scraped, labelled>>

(* The targets a handler writes.                                           *)
Targets(me) == IF me.op \in {"update", "add"} THEN me.read \cup {me.obj.addr}
               ELSE me.read \ {me.obj.addr}

WriteFile(h) ==
  /\ Stands(h, "write")
  /\ file' = Targets(handlers[h])
  /\ Goes(h, [handlers[h] EXCEPT !.at = "reload"])
  /\ Calm
  /\ UNCHANGED <<nodes, scraped, labelled>>

(* Prometheus loads the file there is now, if it can.                      *)
Loads == scraped' = IF file = Absent THEN scraped ELSE file

(* The node is put only after its target was added.                        *)
Reload(h) ==
  /\ Stands(h, "reload")
  /\ Loads
  /\ IF handlers[h].op = "update" /\ file # Absent
       THEN Goes(h, [handlers[h] EXCEPT !.at = "put"])
       ELSE Answers(h, Absent)
  /\ Calm
  /\ UNCHANGED <<nodes, file, labelled>>

(* A step fails, with or without having been done; a write may leave half  *)
(* a file.                                                                 *)
Fail(h) ==
  LET me == handlers[h] IN
  /\ me # Absent /\ me.at # "get"
  /\ Happens("fail")
  /\ Answers(h, Absent)
  /\ \/ UNCHANGED <<nodes, file, scraped, labelled>>
     \/ me.at = "put" /\ Puts(me) /\ UNCHANGED <<file, scraped>>
     \/ /\ me.at = "drop" /\ nodes' = [nodes EXCEPT ![me.node] = Absent]
        /\ UNCHANGED <<file, scraped, labelled>>
     \/ /\ me.at = "write" /\ file' \in {Absent, Targets(me)}
        /\ UNCHANGED <<nodes, scraped, labelled>>
     \/ me.at = "reload" /\ Loads /\ UNCHANGED <<nodes, file, labelled>>

HandlerStep(h) ==
  GetNode(h) \/ PutNode(h) \/ DropNode(h) \/ ReadFile(h) \/ WriteFile(h) \/ Reload(h)

NodesNext ==
  \E h \in Slot : \/ HandlerStep(h) \/ EtcdSilent(h) \/ Fail(h) \/ UserRequest(h)
                  \/ \E n \in Node : Report(h, n) \/ Move(n)

NodesSpec == NodesInit /\ [][NodesNext]_nodeVars

-------------------------------------------------------------------------------
(* Every node that has an address is scraped, whatever failed on the way:  *)
(* the order of the steps of registration and of deletion sees to it.      *)
(* This holds for one handler at a time and machines that neither change   *)
(* their address nor get one later: only a node that is new adds a target. *)
NodesAreScraped ==
  Cardinality(Slot) = 1 /\ may["move"] = 0 =>
    \A n \in Node : nodes[n] # Absent /\ nodes[n].addr # Absent => nodes[n].addr \in scraped

(* A node keeps the labels last asked for, whatever its kubelet reports.   *)
LabelsKept ==
  Cardinality(Slot) = 1 /\ may["unread"] = 0 =>
    \A n \in Node : nodes[n] # Absent => nodes[n].labels = labelled[n]
===============================================================================
