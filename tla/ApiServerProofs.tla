--------------------------- MODULE ApiServerProofs ---------------------------
(***************************************************************************)
(* Theorems about the handlers of the API server: those of nodes (Nodes),  *)
(* for any nodes, users' targets, labels and events, whatever step of a    *)
(* handler fails; and those of the other objects (ApiServer), for any      *)
(* specs, statuses, numbers of objects and of handlers under way; and      *)
(* those of functions with the controller and the router (Serverless), for *)
(* any functions, names, users and requests.                               *)
(***************************************************************************)
EXTENDS ApiServer, Nodes, Serverless, FiniteSetTheorems, SequenceTheorems, TLAPS

-------------------------------------------------------------------------------
(* The handlers of nodes.                                                  *)

(* Everything that may be in the file, and the addresses of nodes.         *)
Address == Node \cup {NewAddr}
Target == Address \cup Extra
Labels == Label \cup {Label0}
NodeObject == [labels : Labels, addr : Target \cup {Absent}]
Files == (SUBSET Target) \cup {Absent}

(* A handler of each operation, and where it may stand.                    *)
Reports == [op : {"update"}, at : {"get", "read", "write", "reload", "put"},
            node : Node, read : Files, obj : [labels : Labels, addr : Address \cup {Absent}]]
Updates == {me \in Reports : me.at \in {"read", "write", "reload"} => me.obj.addr # Absent}
Deletes == [op : {"delete"}, at : {"get", "drop", "read", "write", "reload"},
            node : Node, read : Files, obj : NodeObject \cup {Absent}]
LabelsANode == [op : {"label"}, at : {"get", "put"}, node : Node, read : Files, obj : NodeObject]
ChangesTargets == [op : {"add", "remove"}, at : {"read", "write", "reload"}, node : {Absent},
                   read : Files, obj : [labels : Labels, addr : Extra]]

NodeHandler == Updates \cup Deletes \cup LabelsANode \cup ChangesTargets
Kubelet == [registered : BOOLEAN, waits : BOOLEAN, labels : Labels,
            addr : Address \cup {Absent}]

Types ==
  /\ nodes \in [Node -> NodeObject \cup {Absent}]
  /\ file \in Files
  /\ scraped \in SUBSET Target
  /\ handlers \in [Slot -> NodeHandler \cup {Absent}]
  /\ \A h \in Slot : Stands(h, "write") => handlers[h].read \in SUBSET Target
  /\ kubelets \in [Node -> Kubelet]
  /\ labelled \in [Node -> Labels]
  /\ happened \in [Event -> Nat]

LEMMA HappensCounts == ASSUME Types, NEW e \in Event, Happens(e)
                       PROVE  happened' \in [Event -> Nat]
BY DEF Types, Happens

(* A handler that goes on, or begins, leaves the others where they are.    *)
LEMMA OneHandler ==
  ASSUME Types, NEW h \in Slot, NEW to \in NodeHandler \cup {Absent},
         to # Absent /\ to.at = "write" => to.read \in SUBSET Target,
         handlers' = [handlers EXCEPT ![h] = to]
  PROVE  /\ handlers' \in [Slot -> NodeHandler \cup {Absent}]
         /\ \A g \in Slot : Stands(g, "write")' => handlers'[g].read \in SUBSET Target
BY DEF Types, Stands

LEMMA AnswersTyped ==
  ASSUME Types, NEW h \in Slot, handlers[h] # Absent, NEW obj, Answers(h, obj),
         obj = Absent \/ (handlers[h].op = "update" => obj.labels \in Labels)
  PROVE  /\ handlers' \in [Slot -> NodeHandler \cup {Absent}]
         /\ \A g \in Slot : Stands(g, "write")' => handlers'[g].read \in SUBSET Target
         /\ kubelets' \in [Node -> Kubelet]
<1>1. handlers' = [handlers EXCEPT ![h] = Absent]
  BY DEF Answers
<1>2. kubelets' \in [Node -> Kubelet]
  <2>1. CASE handlers[h].op = "update"
    <3>1. handlers[h].node \in Node
      BY <2>1 DEF Types, NodeHandler, Updates, Reports, Deletes, LabelsANode, ChangesTargets
    <3>2. kubelets' = Told(handlers[h].node, obj)
      BY <2>1 DEF Answers
    <3> DEFINE n == handlers[h].node
               registered == kubelets[n].registered \/ obj # Absent
               labels == IF kubelets[n].registered \/ obj = Absent
                           THEN kubelets[n].labels ELSE obj.labels
    <3>3. registered \in BOOLEAN
      OBVIOUS
    <3>4. labels \in Labels
      BY <2>1, <3>1 DEF Types, Kubelet
    <3>5. kubelets' = [kubelets EXCEPT ![n].waits = FALSE, ![n].registered = registered,
                                       ![n].labels = labels]
      BY <3>1, <3>2 DEF Told, Types, Kubelet
    <3> HIDE DEF registered, labels
    <3> QED BY <3>1, <3>3, <3>4, <3>5, ZenonT(60) DEF Types, Kubelet
  <2>2. CASE handlers[h].op # "update"
    BY <2>2 DEF Answers, Types
  <2> QED BY <2>1, <2>2
<1> QED BY <1>1, <1>2, OneHandler

(* A handler whose node was not read goes on or answers.                   *)
LEMMA NotReadTyped ==
  ASSUME Types, NEW h \in Slot, Stands(h, "get"), NotRead(h)
  PROVE  /\ handlers' \in [Slot -> NodeHandler \cup {Absent}]
         /\ \A g \in Slot : Stands(g, "write")' => handlers'[g].read \in SUBSET Target
         /\ kubelets' \in [Node -> Kubelet]
<1>1. CASE handlers[h].op = "update"
  <2> DEFINE at == IF handlers[h].obj.addr = Absent THEN "put" ELSE "read"
  <2>1. [handlers[h] EXCEPT !.at = at] \in NodeHandler
    BY <1>1 DEF Types, Stands, NodeHandler, Updates, Reports, Deletes, LabelsANode, ChangesTargets
  <2>2. [handlers[h] EXCEPT !.at = at].at # "write"
    BY <1>1 DEF Types, Stands, NodeHandler, Updates, Reports, Deletes, LabelsANode, ChangesTargets
  <2>3. Goes(h, [handlers[h] EXCEPT !.at = at])
    BY <1>1 DEF NotRead
  <2> HIDE DEF NodeHandler, at
  <2> QED BY <2>1, <2>2, <2>3, OneHandler DEF Goes, Types
<1>2. CASE handlers[h].op # "update"
  BY <1>2, AnswersTyped DEF NotRead, Stands
<1> QED BY <1>1, <1>2

LEMMA StepTyped == ASSUME Types, [NodesNext]_nodeVars PROVE Types'
<1>1. ASSUME NEW h \in Slot, NEW n \in Node, Report(h, n) PROVE Types'
  <2> DEFINE me == [op |-> "update", at |-> "get", node |-> n, read |-> Absent,
                    obj |-> [labels |-> kubelets[n].labels, addr |-> kubelets[n].addr]]
  <2>1. me \in NodeHandler /\ me.at = "get"
    BY DEF Types, NodeHandler, Updates, Reports, Kubelet, Files
  <2>2. handlers' = [handlers EXCEPT ![h] = me] /\ UNCHANGED <<nodes, file, scraped, labelled>>
    BY <1>1 DEF Report, Starts
  <2>3. kubelets' \in [Node -> Kubelet]
    BY <1>1 DEF Report, Types, Kubelet
  <2>4. happened' \in [Event -> Nat]
    BY <1>1, HappensCounts DEF Report, Calm, Types, Event
  <2> HIDE DEF me
  <2> QED BY <2>1, <2>2, <2>3, <2>4, OneHandler DEF Types
<1>2. ASSUME NEW n \in Node, Move(n) PROVE Types'
  <2>1. happened' \in [Event -> Nat]
    BY <1>2, HappensCounts DEF Move, Event
  <2>2. kubelets' \in [Node -> Kubelet]
    BY <1>2 DEF Move, Types, Kubelet, Address
  <2> QED BY <1>2, <2>1, <2>2 DEF Move, Types, Stands
<1>3. ASSUME NEW h \in Slot, UserRequest(h) PROVE Types'
  <2>1. PICK me \in NodeHandler : Starts(h, me) /\ me.at \in {"get", "read"}
    <3>1. CASE \E n \in Node : Starts(h, [op |-> "delete", at |-> "get", node |-> n,
                                          read |-> Absent, obj |-> Absent])
      BY <3>1 DEF NodeHandler, Deletes, Files
    <3>2. CASE \E n \in Node, l \in Label :
                 Starts(h, [op |-> "label", at |-> "get", node |-> n, read |-> Absent,
                            obj |-> [labels |-> l, addr |-> Absent]])
      BY <3>2 DEF NodeHandler, LabelsANode, Files, NodeObject, Labels
    <3>3. CASE \E t \in Extra, op \in {"add", "remove"} :
                 Starts(h, [op |-> op, at |-> "read", node |-> Absent, read |-> Absent,
                            obj |-> [labels |-> Label0, addr |-> t]])
      BY <3>3 DEF NodeHandler, ChangesTargets, Files, Labels
    <3> QED BY <1>3, <3>1, <3>2, <3>3 DEF UserRequest
  <2>2. happened' \in [Event -> Nat]
    BY <1>3, HappensCounts DEF UserRequest, Event
  <2>3. UNCHANGED kubelets
    BY <1>3 DEF UserRequest
  <2> QED BY <2>1, <2>2, <2>3, OneHandler DEF Starts, Types
<1>4. ASSUME NEW h \in Slot, HandlerStep(h) \/ EtcdSilent(h) \/ Fail(h) PROVE Types'
  <2> DEFINE me == handlers[h]
  <2>1. me # Absent /\ me \in NodeHandler
    BY <1>4 DEF HandlerStep, GetNode, PutNode, DropNode, ReadFile, WriteFile, Reload,
                EtcdSilent, Fail, Stands, Types
  <2>2. happened' \in [Event -> Nat]
    BY <1>4, HappensCounts DEF HandlerStep, GetNode, PutNode, DropNode, ReadFile, WriteFile,
       Reload, EtcdSilent, Fail, Calm, Types, Event
  <2>a. me.at = "get" => me.op \in {"update", "delete", "label"} /\ me.node \in Node
    BY <2>1 DEF NodeHandler, Updates, Reports, Deletes, LabelsANode, ChangesTargets
  <2>b. me.at = "put" => /\ me.op \in {"update", "label"} /\ me.node \in Node
                         /\ me.obj \in NodeObject /\ me.obj.labels \in Labels
    BY <2>1 DEF NodeHandler, Updates, Reports, Deletes, LabelsANode, ChangesTargets, NodeObject, Target
  <2>c. me.at = "drop" => me.op = "delete" /\ me.node \in Node
    BY <2>1 DEF NodeHandler, Updates, Reports, Deletes, LabelsANode, ChangesTargets
  <2>d. Stands(h, "write") => Targets(me) \in SUBSET Target
    <3> SUFFICES ASSUME Stands(h, "write") PROVE Targets(me) \in SUBSET Target
      OBVIOUS
    <3>1. me.read \in SUBSET Target
      BY DEF Types
    <3>2. me.op \in {"update", "add"} => me.obj.addr \in Target
      BY <2>1 DEF Stands, NodeHandler, Updates, Reports, Deletes, LabelsANode, ChangesTargets, Target
    <3> QED BY <3>1, <3>2 DEF Targets
  <2>e. ASSUME Stands(h, "put"), Puts(me)
        PROVE  nodes' \in [Node -> NodeObject \cup {Absent}] /\ labelled' \in [Node -> Labels]
    BY <2>e, <2>b DEF Puts, Types, Stands
  <2>f. Loads => scraped' \in SUBSET Target
    BY DEF Loads, Types, Files
  <2>3. CASE GetNode(h)
    <3>1. CASE NotRead(h)
      BY <2>3, <2>2, <3>1, NotReadTyped DEF GetNode, Types
    <3>2. CASE \E to \in NodeHandler : Goes(h, to) /\ to.at # "write"
      BY <2>3, <2>2, <3>2, OneHandler DEF GetNode, Goes, Types
    <3>3. CASE nodes[me.node] # Absent
      <4>1. nodes[me.node] \in NodeObject
        BY <2>3, <2>a, <3>3 DEF GetNode, Stands, Types
      <4>2. CASE me.op = "update"
        <5>1. Goes(h, [me EXCEPT !.at = "put", !.obj = Known(nodes[me.node], me.obj)])
          BY <2>3, <3>3, <4>2 DEF GetNode
        <5>2. Known(nodes[me.node], me.obj) \in [labels : Labels, addr : Address \cup {Absent}]
          BY <2>1, <4>1, <4>2
             DEF Known, NodeObject, NodeHandler, Updates, Reports, Deletes, LabelsANode, ChangesTargets
        <5>3. [me EXCEPT !.at = "put", !.obj = Known(nodes[me.node], me.obj)] \in Updates
          BY <2>1, <4>2, <5>2 DEF NodeHandler, Updates, Reports, Deletes, LabelsANode, ChangesTargets
        <5> QED BY <3>2, <5>1, <5>3 DEF NodeHandler, Updates, Reports
      <4>3. CASE me.op = "label"
        <5>1. Goes(h, [me EXCEPT !.at = "put", !.obj.addr = nodes[me.node].addr])
          BY <2>3, <3>3, <4>3 DEF GetNode
        <5>2. [me EXCEPT !.at = "put", !.obj.addr = nodes[me.node].addr] \in LabelsANode
          BY <2>1, <4>1, <4>3
             DEF NodeObject, NodeHandler, Updates, Reports, Deletes, LabelsANode, ChangesTargets
        <5> QED BY <3>2, <5>1, <5>2 DEF NodeHandler, LabelsANode
      <4>4. CASE me.op = "delete"
        <5>1. Goes(h, [me EXCEPT !.at = "drop", !.obj = nodes[me.node]])
          BY <2>3, <3>3, <4>4 DEF GetNode
        <5>2. [me EXCEPT !.at = "drop", !.obj = nodes[me.node]] \in Deletes
          BY <2>1, <4>1, <4>4 DEF NodeHandler, Updates, Reports, Deletes, LabelsANode, ChangesTargets
        <5> QED BY <3>2, <5>1, <5>2 DEF NodeHandler, Deletes
      <4> QED BY <2>3, <2>a, <4>2, <4>3, <4>4 DEF GetNode, Stands
    <3> QED BY <2>3, <3>1, <3>3 DEF GetNode
  <2>4. CASE PutNode(h)
    BY <2>4, <2>1, <2>2, <2>b, <2>e, AnswersTyped DEF PutNode, Stands, Types
  <2>5. CASE DropNode(h)
    <3>1. nodes' \in [Node -> NodeObject \cup {Absent}]
      BY <2>5, <2>c DEF DropNode, Stands, Types
    <3>2. CASE Answers(h, Absent)
      BY <2>5, <2>1, <2>2, <3>1, <3>2, AnswersTyped DEF DropNode, Types
    <3>3. CASE Goes(h, [me EXCEPT !.at = "read"])
      <4>1. [me EXCEPT !.at = "read"] \in Deletes
        BY <2>5, <2>1, <2>c DEF DropNode, Stands, NodeHandler, Updates, Reports, Deletes, LabelsANode,
                                ChangesTargets
      <4>2. [me EXCEPT !.at = "read"] \in NodeHandler /\ [me EXCEPT !.at = "read"].at # "write"
        BY <4>1 DEF NodeHandler, Deletes
      <4> QED BY <2>5, <2>2, <3>1, <3>3, <4>2, OneHandler DEF DropNode, Goes, Types
    <3> QED BY <2>5, <3>2, <3>3 DEF DropNode
  <2>6. CASE ReadFile(h)
    <3>1. CASE Answers(h, Absent)
      BY <2>6, <2>1, <2>2, <3>1, AnswersTyped DEF ReadFile, Types
    <3>2. CASE file # Absent
      <4> DEFINE to == [me EXCEPT !.at = "write", !.read = file]
      <4>1. file \in SUBSET Target
        BY <3>2 DEF Types, Files
      <4>2. to \in NodeHandler /\ to.read \in SUBSET Target
        BY <2>6, <2>1, <4>1 DEF ReadFile, Stands, Files, NodeHandler, Updates, Reports, Deletes,
                                LabelsANode, ChangesTargets
      <4>3. Goes(h, to) /\ UNCHANGED <<nodes, file, scraped, labelled>>
        BY <2>6, <3>2 DEF ReadFile
      <4> HIDE DEF to
      <4> QED BY <2>2, <4>2, <4>3, OneHandler DEF Goes, Types
    <3> QED BY <2>6, <3>1, <3>2 DEF ReadFile
  <2>7. CASE WriteFile(h)
    <3> DEFINE to == [me EXCEPT !.at = "reload"]
    <3>1. to \in NodeHandler /\ to.at # "write"
      BY <2>7, <2>1 DEF WriteFile, Stands, Files, NodeHandler, Updates, Reports, Deletes,
                        LabelsANode, ChangesTargets
    <3>2. Goes(h, to) /\ UNCHANGED <<nodes, scraped, labelled>> /\ file' \in Files
      BY <2>7, <2>d DEF WriteFile, Files
    <3> HIDE DEF to
    <3> QED BY <2>2, <3>1, <3>2, OneHandler DEF Goes, Types
  <2>8. CASE Reload(h)
    <3>1. CASE Answers(h, Absent)
      BY <2>8, <2>1, <2>2, <2>f, <3>1, AnswersTyped DEF Reload, Types
    <3>2. CASE me.op = "update" /\ Goes(h, [me EXCEPT !.at = "put"])
      <4> DEFINE to == [me EXCEPT !.at = "put"]
      <4>1. to \in NodeHandler /\ to.at # "write"
        BY <2>1, <3>2 DEF NodeHandler, Updates, Reports, Deletes, LabelsANode, ChangesTargets
      <4>2. Goes(h, to) /\ UNCHANGED <<nodes, file, labelled>>
        BY <2>8, <3>2 DEF Reload
      <4> HIDE DEF to
      <4> QED BY <2>8, <2>2, <2>f, <4>1, <4>2, OneHandler DEF Reload, Goes, Types
    <3> QED BY <2>8, <3>1, <3>2 DEF Reload
  <2>9. CASE EtcdSilent(h)
    BY <2>9, <2>2, NotReadTyped DEF EtcdSilent, Types
  <2>10. CASE Fail(h)
    <3>1. /\ nodes' \in [Node -> NodeObject \cup {Absent}]
          /\ labelled' \in [Node -> Labels]
      BY <2>10, <2>1, <2>c, <2>e DEF Fail, Types, Stands
    <3>2. file' \in Files /\ scraped' \in SUBSET Target
      BY <2>10, <2>1, <2>d, <2>f DEF Fail, Types, Stands, Files
    <3> QED BY <2>10, <2>1, <2>2, <3>1, <3>2, AnswersTyped DEF Fail, Types
  <2> QED BY <1>4, <2>3, <2>4, <2>5, <2>6, <2>7, <2>8, <2>9, <2>10 DEF HandlerStep
<1>5. CASE UNCHANGED nodeVars
  BY <1>5 DEF nodeVars, Types, Stands
<1> QED BY <1>1, <1>2, <1>3, <1>4, <1>5 DEF NodesNext

(* Nodes, handlers and file are always of their types.                     *)
LEMMA AlwaysTyped == NodesSpec => []Types
<1>1. NodesInit => Types
  BY DEF NodesInit, Types, Stands, Kubelet, Address, Labels, Files
<1> QED BY <1>1, StepTyped, PTL DEF NodesSpec

-------------------------------------------------------------------------------
(* One handler at a time, and machines that keep their addresses.          *)

(* Node n, if it has an address, is scraped, and will be when Prometheus   *)
(* loads the file.                                                         *)
Addr(n) == kubelets[n].addr
Covered(n) == Addr(n) # Absent => Addr(n) \in scraped /\ (file # Absent => Addr(n) \in file)

(* What a handler has seen to, by where it stands.                         *)
InOrder(me) ==
  /\ me.op = "update" => me.obj.addr = Addr(me.node)
  /\ me.op = "update" /\ me.at = "reload" /\ file # Absent => Addr(me.node) \in file
  /\ me.op = "delete" /\ me.at # "get" => me.obj.addr = Addr(me.node)
  /\ me.op = "delete" /\ me.at \in {"read", "write", "reload"}
       => nodes[me.node] = Absent /\ Addr(me.node) # Absent
  /\ me.at = "write" => \A n \in Node : nodes[n] # Absent /\ Addr(n) # Absent => Addr(n) \in me.read
  /\ me.at = "put" => me.obj.addr = Addr(me.node) /\ Covered(me.node)

Inv(h) ==
  /\ \A n \in Node : Addr(n) \in {n, Absent}
  /\ \A n \in Node : nodes[n] # Absent => nodes[n].addr = Addr(n) /\ Covered(n)
  /\ handlers[h] # Absent => InOrder(handlers[h])

(* Answers leave the addresses kubelets report.                            *)
LEMMA AddressesStay ==
  ASSUME Types, NEW h \in Slot, handlers[h] # Absent, NEW obj, Answers(h, obj)
  PROVE  /\ handlers'[h] = Absent
         /\ \A n \in Node : kubelets'[n].addr = kubelets[n].addr
<1>1. handlers' = [handlers EXCEPT ![h] = Absent]
  BY DEF Answers
<1>2. CASE handlers[h].op = "update"
  <2>1. handlers[h].node \in Node
    BY <1>2 DEF Types, NodeHandler, Updates, Reports, Deletes, LabelsANode, ChangesTargets
  <2> QED BY <1>1, <1>2, <2>1 DEF Answers, Told, Types, Kubelet
<1> QED BY <1>1, <1>2 DEF Answers, Types

LEMMA StepInOrder ==
  ASSUME Types, NEW h \in Slot, Slot = {h}, may["move"] = 0, Inv(h), [NodesNext]_nodeVars
  PROVE  Inv(h)'
<1> USE DEF Inv, Covered, Addr
<1>1. ASSUME NEW n \in Node, Report(h, n) PROVE Inv(h)'
  <2> DEFINE me == [op |-> "update", at |-> "get", node |-> n, read |-> Absent,
                    obj |-> [labels |-> kubelets[n].labels, addr |-> kubelets[n].addr]]
  <2>1. handlers'[h] = me /\ UNCHANGED <<nodes, file, scraped>>
    BY <1>1 DEF Report, Starts, Types
  <2>2. \A m \in Node : kubelets'[m].addr = kubelets[m].addr
    BY <1>1 DEF Report, Types, Kubelet
  <2> QED BY <2>1, <2>2 DEF InOrder
<1>2. ASSUME NEW n \in Node, Move(n) PROVE FALSE
  BY <1>2 DEF Move, Happens, Types, Event
<1>3. CASE UserRequest(h)
  <2>1. /\ handlers'[h].at \in {"get", "read"}
        /\ handlers'[h].op # "update"
        /\ handlers'[h].op = "delete" => handlers'[h].at = "get"
    BY <1>3 DEF UserRequest, Starts, Types
  <2>2. UNCHANGED <<nodes, file, scraped, kubelets>>
    BY <1>3 DEF UserRequest, Starts
  <2> QED BY <2>1, <2>2 DEF InOrder
<1>4. CASE HandlerStep(h) \/ EtcdSilent(h) \/ Fail(h)
  <2> DEFINE me == handlers[h]
             StillCovered ==
               \A n \in Node : nodes'[n] # Absent =>
                 /\ nodes'[n].addr = Addr(n)
                 /\ Addr(n) # Absent => Addr(n) \in scraped' /\ (file' # Absent => Addr(n) \in file')
  <2>1. me # Absent /\ me \in NodeHandler /\ InOrder(me)
    BY <1>4 DEF HandlerStep, GetNode, PutNode, DropNode, ReadFile, WriteFile, Reload,
                EtcdSilent, Fail, Stands, Types
  <2>2. /\ me.at \in {"get", "put", "drop"} => me.node \in Node
        /\ me.op \in {"update", "delete"} => me.node \in Node
        /\ me.op \in {"add", "remove"} => me.obj.addr \in Extra
        /\ me.op \in {"update", "delete", "label", "add", "remove"}
        /\ me.at = "put" => me.op \in {"update", "label"}
        /\ me.at = "write" => me.op # "label"
    BY <2>1 DEF NodeHandler, Updates, Reports, Deletes, LabelsANode, ChangesTargets
  <2>g. ASSUME NEW to, Goes(h, to) PROVE handlers'[h] = to /\ UNCHANGED kubelets
    BY <2>g DEF Goes, Types
  <2>a. ASSUME NEW obj, Answers(h, obj),
               StillCovered
        PROVE  Inv(h)'
    BY <2>1, <2>a, AddressesStay
  <2>p. Puts(me) /\ me.at = "put" /\ UNCHANGED <<file, scraped>>
        => StillCovered
    BY <2>1, <2>2 DEF Puts, Types, InOrder
  <2>w. me.at = "write"
        => \A n \in Node : nodes[n] # Absent /\ Addr(n) # Absent => Addr(n) \in Targets(me)
    BY <2>1, <2>2, NodesAssumption DEF InOrder, Targets
  <2>l. Loads /\ UNCHANGED <<nodes, file>>
        => StillCovered
    BY DEF Loads
  <2>n. CASE NotRead(h) /\ me.at = "get" /\ UNCHANGED <<nodes, file, scraped>>
    <3>1. CASE me.op = "update"
      <4> DEFINE at == IF me.obj.addr = Absent THEN "put" ELSE "read"
      <4>1. handlers'[h] = [me EXCEPT !.at = at] /\ UNCHANGED kubelets
        BY <2>n, <2>g, <3>1 DEF NotRead
      <4>2. handlers'[h].at = at /\ handlers'[h].op = "update"
            /\ handlers'[h].node = me.node /\ handlers'[h].obj = me.obj
        BY <2>1, <3>1, <4>1 DEF NodeHandler, Updates, Reports, Deletes, LabelsANode, ChangesTargets
      <4> QED BY <2>n, <2>1, <3>1, <4>1, <4>2 DEF InOrder
    <3>2. CASE me.op # "update"
      BY <2>n, <2>a, <3>2 DEF NotRead
    <3> QED BY <3>1, <3>2
  <2>3. CASE GetNode(h)
    <3>1. me.at = "get" /\ UNCHANGED <<nodes, file, scraped>>
      BY <2>3 DEF GetNode, Stands
    <3>2. CASE nodes[me.node] = Absent
      BY <2>3, <2>n, <3>1, <3>2 DEF GetNode
    <3>3. CASE nodes[me.node] # Absent
      <4>1. nodes[me.node] \in NodeObject /\ nodes[me.node].addr = Addr(me.node) /\ Covered(me.node)
        BY <2>2, <3>1, <3>3 DEF Types
      <4>2. CASE me.op = "update"
        <5>1. handlers'[h] = [me EXCEPT !.at = "put", !.obj = Known(nodes[me.node], me.obj)]
              /\ UNCHANGED kubelets
          BY <2>3, <2>g, <3>3, <4>2 DEF GetNode
        <5>2. handlers'[h].at = "put" /\ handlers'[h].op = "update"
              /\ handlers'[h].node = me.node /\ handlers'[h].obj.addr = me.obj.addr
          BY <2>1, <4>1, <4>2, <5>1
             DEF Known, NodeObject, NodeHandler, Updates, Reports, Deletes, LabelsANode, ChangesTargets
        <5> QED BY <2>1, <3>1, <4>1, <4>2, <5>1, <5>2 DEF InOrder
      <4>3. CASE me.op = "label"
        <5>1. handlers'[h] = [me EXCEPT !.at = "put", !.obj.addr = nodes[me.node].addr]
              /\ UNCHANGED kubelets
          BY <2>3, <2>g, <3>3, <4>3 DEF GetNode
        <5>2. handlers'[h].at = "put" /\ handlers'[h].op = "label"
              /\ handlers'[h].node = me.node /\ handlers'[h].obj.addr = nodes[me.node].addr
          BY <2>1, <4>1, <4>3, <5>1
             DEF NodeObject, NodeHandler, Updates, Reports, Deletes, LabelsANode, ChangesTargets
        <5> QED BY <2>1, <3>1, <4>1, <5>1, <5>2 DEF InOrder
      <4>4. CASE me.op = "delete"
        <5>1. handlers'[h] = [me EXCEPT !.at = "drop", !.obj = nodes[me.node]]
              /\ UNCHANGED kubelets
          BY <2>3, <2>g, <3>3, <4>4 DEF GetNode
        <5>2. handlers'[h].at = "drop" /\ handlers'[h].op = "delete"
              /\ handlers'[h].node = me.node /\ handlers'[h].obj = nodes[me.node]
          BY <2>1, <4>4, <5>1 DEF NodeHandler, Updates, Reports, Deletes, LabelsANode, ChangesTargets
        <5> QED BY <2>1, <3>1, <4>1, <5>1, <5>2 DEF InOrder
      <4>5. me.op \in {"update", "label", "delete"}
        BY <2>1, <3>1 DEF NodeHandler, Updates, Reports, Deletes, LabelsANode, ChangesTargets
      <4> QED BY <4>2, <4>3, <4>4, <4>5
    <3> QED BY <3>2, <3>3
  <2>4. CASE PutNode(h)
    BY <2>4, <2>a, <2>p DEF PutNode, Stands
  <2>5. CASE DropNode(h)
    <3>1. /\ nodes' = [nodes EXCEPT ![me.node] = Absent] /\ UNCHANGED <<file, scraped>>
          /\ me.at = "drop"
      BY <2>5 DEF DropNode, Stands
    <3>2. StillCovered
      BY <2>2, <3>1 DEF Types
    <3>3. CASE Answers(h, Absent)
      BY <2>a, <3>2, <3>3
    <3>4. CASE Goes(h, [me EXCEPT !.at = "read"]) /\ me.obj.addr # Absent
      <4>1. handlers'[h] = [me EXCEPT !.at = "read"] /\ UNCHANGED kubelets
        BY <2>g, <3>4
      <4>2. handlers'[h].at = "read" /\ handlers'[h].op = "delete" /\ me.op = "delete"
            /\ handlers'[h].node = me.node /\ handlers'[h].obj = me.obj
        BY <2>1, <3>1, <4>1 DEF NodeHandler, Updates, Reports, Deletes, LabelsANode, ChangesTargets
      <4>3. nodes'[me.node] = Absent
        BY <2>2, <3>1 DEF Types
      <4> QED BY <2>1, <3>1, <3>2, <3>4, <4>1, <4>2, <4>3 DEF InOrder
    <3> QED BY <2>5, <3>3, <3>4 DEF DropNode
  <2>6. CASE ReadFile(h)
    <3>1. me.at = "read" /\ UNCHANGED <<nodes, file, scraped>>
      BY <2>6 DEF ReadFile, Stands
    <3>2. CASE file = Absent
      BY <2>6, <2>a, <3>1, <3>2 DEF ReadFile
    <3>3. CASE file # Absent
      <4>1. handlers'[h] = [me EXCEPT !.at = "write", !.read = file] /\ UNCHANGED kubelets
        BY <2>6, <2>g, <3>3 DEF ReadFile
      <4>2. handlers'[h].at = "write" /\ handlers'[h].op = me.op /\ handlers'[h].read = file
            /\ handlers'[h].node = me.node /\ handlers'[h].obj = me.obj
        BY <2>1, <4>1 DEF NodeHandler, Updates, Reports, Deletes, LabelsANode, ChangesTargets
      <4> QED BY <2>1, <3>1, <3>3, <4>1, <4>2 DEF InOrder
    <3> QED BY <3>2, <3>3
  <2>7. CASE WriteFile(h)
    <3>1. me.at = "write" /\ file' = Targets(me) /\ UNCHANGED <<nodes, scraped>>
      BY <2>7 DEF WriteFile, Stands
    <3>2. handlers'[h] = [me EXCEPT !.at = "reload"] /\ UNCHANGED kubelets
      BY <2>7, <2>g DEF WriteFile
    <3>3. handlers'[h].at = "reload" /\ handlers'[h].op = me.op
          /\ handlers'[h].node = me.node /\ handlers'[h].obj = me.obj
      BY <2>1, <3>2 DEF NodeHandler, Updates, Reports, Deletes, LabelsANode, ChangesTargets
    <3>4. me.op = "update" => Addr(me.node) \in file'
      BY <2>1, <3>1 DEF InOrder, Targets
    <3> QED BY <2>1, <2>w, <3>1, <3>2, <3>3, <3>4 DEF InOrder
  <2>8. CASE Reload(h)
    <3>1. me.at = "reload" /\ Loads /\ UNCHANGED <<nodes, file>>
      BY <2>8 DEF Reload, Stands
    <3>2. CASE me.op = "update" /\ file # Absent
      <4>1. handlers'[h] = [me EXCEPT !.at = "put"] /\ UNCHANGED kubelets
        BY <2>8, <2>g, <3>2 DEF Reload
      <4>2. handlers'[h].at = "put" /\ handlers'[h].op = "update"
            /\ handlers'[h].node = me.node /\ handlers'[h].obj = me.obj
        BY <2>1, <3>2, <4>1 DEF NodeHandler, Updates, Reports, Deletes, LabelsANode, ChangesTargets
      <4>3. Addr(me.node) \in scraped' /\ Addr(me.node) \in file'
        BY <2>1, <3>1, <3>2 DEF InOrder, Loads
      <4> QED BY <2>1, <2>l, <3>1, <3>2, <4>1, <4>2, <4>3 DEF InOrder
    <3>3. CASE ~(me.op = "update" /\ file # Absent)
      BY <2>8, <2>a, <2>l, <3>1, <3>3 DEF Reload
    <3> QED BY <3>2, <3>3
  <2>9. CASE EtcdSilent(h)
    BY <2>9, <2>n DEF EtcdSilent, Stands
  <2>10. CASE Fail(h)
    <3>1. StillCovered
      <4>1. CASE UNCHANGED <<nodes, file, scraped>>
        BY <4>1
      <4>2. CASE me.at = "put" /\ Puts(me) /\ UNCHANGED <<file, scraped>>
        BY <4>2, <2>p
      <4>3. CASE me.at = "drop" /\ nodes' = [nodes EXCEPT ![me.node] = Absent]
                 /\ UNCHANGED <<file, scraped>>
        BY <4>3, <2>2 DEF Types
      <4>4. CASE me.at = "write" /\ file' \in {Absent, Targets(me)} /\ UNCHANGED <<nodes, scraped>>
        BY <4>4, <2>w
      <4>5. CASE Loads /\ UNCHANGED <<nodes, file>>
        BY <4>5, <2>l
      <4> QED BY <2>10, <4>1, <4>2, <4>3, <4>4, <4>5 DEF Fail
    <3> QED BY <2>10, <2>a, <3>1 DEF Fail
  <2> QED BY <1>4, <2>3, <2>4, <2>5, <2>6, <2>7, <2>8, <2>9, <2>10 DEF HandlerStep
<1>5. CASE UNCHANGED nodeVars
  BY <1>5 DEF nodeVars, InOrder
<1> QED BY <1>1, <1>2, <1>3, <1>4, <1>5 DEF NodesNext

(* Every node with an address is scraped, whatever step of a handler       *)
(* fails: its target is added before the node is put, and removed after    *)
(* the node is deleted.                                                    *)
THEOREM NodesStayScraped == NodesSpec => []NodesAreScraped
<1> DEFINE Kept == \A h \in Slot : Slot = {h} /\ may["move"] = 0 => Inv(h)
<1>1. NodesInit => Kept
  BY DEF NodesInit, Inv, Addr
<1>2. Types /\ Kept /\ [NodesNext]_nodeVars => Kept'
  <2> SUFFICES ASSUME Types, Kept, [NodesNext]_nodeVars,
                      NEW h \in Slot, Slot = {h}, may'["move"] = 0
               PROVE  Inv(h)'
    OBVIOUS
  <2>1. may' = may
    BY DEF NodesNext, Report, Move, UserRequest, HandlerStep, GetNode, PutNode, DropNode,
       ReadFile, WriteFile, Reload, EtcdSilent, Fail, Happens, Calm, nodeVars
  <2> QED BY <2>1, StepInOrder
<1>3. Kept => NodesAreScraped
  <2> SUFFICES ASSUME Kept, Cardinality(Slot) = 1, may["move"] = 0
               PROVE  \A n \in Node : nodes[n] # Absent /\ nodes[n].addr # Absent
                        => nodes[n].addr \in scraped
    BY DEF NodesAreScraped
  <2>1. \E h : Slot = {h}
    BY NodesAssumption, FS_Singleton
  <2> QED BY <2>1 DEF Inv, Covered, Addr
<1> QED BY <1>1, <1>2, <1>3, AlwaysTyped, PTL DEF NodesSpec

-------------------------------------------------------------------------------
(* One handler at a time, and an etcd that answers when it is read.        *)

(* What a handler knows of the labels of its node.                         *)
KnowsLabels(me) ==
  /\ me.op = "update" /\ me.at \in {"read", "write", "reload"} => nodes[me.node] = Absent
  /\ me.op = "update" /\ me.at = "put" /\ nodes[me.node] # Absent
       => me.obj.labels = labelled[me.node]

LabelInv(h) ==
  /\ \A n \in Node : nodes[n] # Absent => nodes[n].labels = labelled[n]
  /\ handlers[h] # Absent => KnowsLabels(handlers[h])

LEMMA StepKeepsLabels ==
  ASSUME Types, NEW h \in Slot, Slot = {h}, may["unread"] = 0, LabelInv(h),
         [NodesNext]_nodeVars
  PROVE  LabelInv(h)'
<1> USE DEF LabelInv
<1>1. ASSUME NEW n \in Node, Report(h, n) PROVE LabelInv(h)'
  <2>1. handlers'[h].at = "get" /\ UNCHANGED <<nodes, labelled>>
    BY <1>1 DEF Report, Starts, Types
  <2> QED BY <2>1 DEF KnowsLabels
<1>2. ASSUME NEW n \in Node, Move(n) PROVE LabelInv(h)'
  BY <1>2 DEF Move, KnowsLabels
<1>3. CASE UserRequest(h)
  <2>1. handlers'[h].op # "update" /\ UNCHANGED <<nodes, labelled>>
    BY <1>3 DEF UserRequest, Starts, Types
  <2> QED BY <2>1 DEF KnowsLabels
<1>4. CASE HandlerStep(h) \/ Fail(h)
  <2> DEFINE me == handlers[h]
  <2>1. me # Absent /\ me \in NodeHandler /\ KnowsLabels(me)
    BY <1>4 DEF HandlerStep, GetNode, PutNode, DropNode, ReadFile, WriteFile, Reload,
                Fail, Stands, Types
  <2>2. /\ me.at \in {"get", "put", "drop"} => me.node \in Node
        /\ me.op = "update" => me.node \in Node
        /\ me.at = "put" => me.op \in {"update", "label"}
    BY <2>1 DEF NodeHandler, Updates, Reports, Deletes, LabelsANode, ChangesTargets
  <2>g. ASSUME NEW to, Goes(h, to) PROVE handlers'[h] = to
    BY <2>g DEF Goes, Types
  <2>a. ASSUME NEW obj, Answers(h, obj),
               \A n \in Node : nodes'[n] # Absent => nodes'[n].labels = labelled'[n]
        PROVE  LabelInv(h)'
    BY <2>1, <2>a, AddressesStay
  <2>p. Puts(me) /\ me.at = "put"
        => \A n \in Node : nodes'[n] # Absent => nodes'[n].labels = labelled'[n]
    <3> SUFFICES ASSUME Puts(me), me.at = "put", NEW n \in Node, nodes'[n] # Absent
                 PROVE  nodes'[n].labels = labelled'[n]
      OBVIOUS
    <3>1. CASE n # me.node
      BY <2>2, <3>1 DEF Puts, Types
    <3>2. CASE n = me.node
      <4>1. nodes'[n] = me.obj
        BY <2>2, <3>2 DEF Puts, Types
      <4>2. labelled'[n] = me.obj.labels
        BY <2>1, <2>2, <3>2 DEF Puts, Types, KnowsLabels
      <4> QED BY <4>1, <4>2
    <3> QED BY <3>1, <3>2
  <2>d. me.at = "drop" /\ nodes' = [nodes EXCEPT ![me.node] = Absent] /\ UNCHANGED labelled
        => \A n \in Node : nodes'[n] # Absent => nodes'[n].labels = labelled'[n]
    BY <2>2 DEF Types
  <2>3. CASE GetNode(h)
    <3>1. me.at = "get" /\ UNCHANGED <<nodes, labelled>>
      BY <2>3 DEF GetNode, Stands
    <3>2. CASE nodes[me.node] = Absent /\ me.op = "update"
      <4> DEFINE at == IF me.obj.addr = Absent THEN "put" ELSE "read"
      <4>1. handlers'[h] = [me EXCEPT !.at = at]
        BY <2>3, <2>g, <3>2 DEF GetNode, NotRead
      <4>2. handlers'[h].at \in {"put", "read"} /\ handlers'[h].node = me.node
        BY <2>1, <3>2, <4>1 DEF NodeHandler, Updates, Reports, Deletes, LabelsANode, ChangesTargets
      <4> QED BY <3>1, <3>2, <4>2 DEF KnowsLabels
    <3>3. CASE nodes[me.node] = Absent /\ me.op # "update"
      BY <2>3, <2>a, <3>1, <3>3 DEF GetNode, NotRead
    <3>4. CASE nodes[me.node] # Absent /\ me.op = "update"
      <4>1. handlers'[h] = [me EXCEPT !.at = "put", !.obj = Known(nodes[me.node], me.obj)]
        BY <2>3, <2>g, <3>4 DEF GetNode
      <4>2. nodes[me.node] \in NodeObject
        BY <2>2, <3>1, <3>4 DEF Types
      <4>3. handlers'[h].at = "put" /\ handlers'[h].node = me.node
            /\ handlers'[h].obj.labels = nodes[me.node].labels
        BY <2>1, <3>4, <4>1, <4>2
           DEF Known, NodeObject, NodeHandler, Updates, Reports, Deletes, LabelsANode, ChangesTargets
      <4> QED BY <2>2, <3>1, <3>4, <4>3 DEF KnowsLabels
    <3>5. CASE nodes[me.node] # Absent /\ me.op # "update"
      <4>1. me.op \in {"label", "delete"}
        BY <2>1, <3>1, <3>5 DEF NodeHandler, Updates, Reports, Deletes, LabelsANode, ChangesTargets
      <4>2. \/ handlers'[h] = [me EXCEPT !.at = "put", !.obj.addr = nodes[me.node].addr]
            \/ handlers'[h] = [me EXCEPT !.at = "drop", !.obj = nodes[me.node]]
        BY <2>3, <2>g, <3>5, <4>1 DEF GetNode
      <4>3. handlers'[h].op = me.op
        BY <2>1, <4>2 DEF NodeHandler, Updates, Reports, Deletes, LabelsANode, ChangesTargets
      <4> QED BY <3>1, <3>5, <4>3 DEF KnowsLabels
    <3> QED BY <3>2, <3>3, <3>4, <3>5
  <2>4. CASE PutNode(h)
    BY <2>4, <2>a, <2>p DEF PutNode, Stands
  <2>5. CASE DropNode(h)
    <3>1. \A n \in Node : nodes'[n] # Absent => nodes'[n].labels = labelled'[n]
      BY <2>5, <2>d DEF DropNode, Stands
    <3>2. CASE Answers(h, Absent)
      BY <2>a, <3>1, <3>2
    <3>3. CASE Goes(h, [me EXCEPT !.at = "read"])
      <4>1. me.op = "delete"
        BY <2>1, <2>5 DEF DropNode, Stands, NodeHandler, Updates, Reports, Deletes, LabelsANode,
                          ChangesTargets
      <4>2. handlers'[h].op = "delete"
        BY <2>1, <2>g, <3>3, <4>1 DEF NodeHandler, Updates, Reports, Deletes, LabelsANode, ChangesTargets
      <4> QED BY <3>1, <4>2 DEF KnowsLabels
    <3> QED BY <2>5, <3>2, <3>3 DEF DropNode
  <2>6. CASE ReadFile(h) \/ WriteFile(h) \/ Reload(h)
    <3>1. me.at \in {"read", "write", "reload"} /\ UNCHANGED <<nodes, labelled>>
      BY <2>6 DEF ReadFile, WriteFile, Reload, Stands
    <3>2. \/ Answers(h, Absent)
          \/ Goes(h, [me EXCEPT !.at = "write", !.read = file])
          \/ \E at \in {"reload", "put"} : Goes(h, [me EXCEPT !.at = at])
      BY <2>6 DEF ReadFile, WriteFile, Reload
    <3>3. CASE Answers(h, Absent)
      BY <2>a, <3>1, <3>3
    <3>4. CASE ~Answers(h, Absent)
      <4>1. handlers'[h].op = me.op /\ handlers'[h].node = me.node
        BY <2>1, <2>g, <3>2, <3>4 DEF NodeHandler, Updates, Reports, Deletes, LabelsANode, ChangesTargets
      <4> QED BY <2>1, <3>1, <4>1 DEF KnowsLabels
    <3> QED BY <3>3, <3>4
  <2>7. CASE Fail(h)
    <3>1. \A n \in Node : nodes'[n] # Absent => nodes'[n].labels = labelled'[n]
      BY <2>7, <2>p, <2>d DEF Fail
    <3> QED BY <2>7, <2>a, <3>1 DEF Fail
  <2> QED BY <1>4, <2>3, <2>4, <2>5, <2>6, <2>7 DEF HandlerStep
<1>5. CASE EtcdSilent(h)
  BY <1>5 DEF EtcdSilent, Happens, Types, Event
<1>6. CASE UNCHANGED nodeVars
  BY <1>6 DEF nodeVars, KnowsLabels
<1> QED BY <1>1, <1>2, <1>3, <1>4, <1>5, <1>6 DEF NodesNext

(* A node keeps the labels a user gave it, however many reports of its     *)
(* kubelet come after them, whatever step fails.                           *)
THEOREM LabelsStay == NodesSpec => []LabelsKept
<1> DEFINE Kept == \A h \in Slot : Slot = {h} /\ may["unread"] = 0 => LabelInv(h)
<1>1. NodesInit => Kept
  BY DEF NodesInit, LabelInv
<1>2. Types /\ Kept /\ [NodesNext]_nodeVars => Kept'
  <2> SUFFICES ASSUME Types, Kept, [NodesNext]_nodeVars,
                      NEW h \in Slot, Slot = {h}, may'["unread"] = 0
               PROVE  LabelInv(h)'
    OBVIOUS
  <2>1. may' = may
    BY DEF NodesNext, Report, Move, UserRequest, HandlerStep, GetNode, PutNode, DropNode,
       ReadFile, WriteFile, Reload, EtcdSilent, Fail, Happens, Calm, nodeVars
  <2> QED BY <2>1, StepKeepsLabels
<1>3. Kept => LabelsKept
  <2> SUFFICES ASSUME Kept, Cardinality(Slot) = 1, may["unread"] = 0
               PROVE  \A n \in Node : nodes[n] # Absent => nodes[n].labels = labelled[n]
    BY DEF LabelsKept
  <2>1. \E h : Slot = {h}
    BY NodesAssumption, FS_Singleton
  <2> QED BY <2>1 DEF LabelInv
<1> QED BY <1>1, <1>2, <1>3, AlwaysTyped, PTL DEF NodesSpec

-------------------------------------------------------------------------------
(* The handlers of the other objects.                                      *)

LEMMA Arithmetic == MaxInFlight \in Nat /\ MaxCreates \in Nat /\ MaxRequests \in Nat
BY ApiServerAssumption

(* Objects, and the handlers that will put them, have their types, and no  *)
(* more handlers are under way than there is room for.                     *)
HandlersTyped == IsFiniteSet(pending) /\ \A h \in pending : h.put \in Object

LEMMA BeginsTyped ==
  ASSUME TypeOK, HandlersTyped, NEW k \in Kind, NEW object \in Object, Begin(k, object)
  PROVE  pending' \subseteq Handler /\ HandlersTyped'
<1> DEFINE me == [kind |-> k, got |-> etcd[k], put |-> object]
<1>1. me \in Handler /\ me.put = object
  BY DEF TypeOK, Handler
<1>2. pending' = pending \cup {me}
  BY DEF Begin
<1> HIDE DEF me
<1>3. IsFiniteSet(pending')
  BY <1>2, FS_AddElement DEF HandlersTyped
<1> QED BY <1>1, <1>2, <1>3 DEF TypeOK, HandlersTyped

LEMMA PutsTyped ==
  ASSUME TypeOK, NEW k \in Kind, NEW object \in Object, Put(k, object)
  PROVE  /\ etcd' \in [Kind -> Object \cup {None}] /\ seen' \in [Kind -> SUBSET Object]
         /\ deleted' \subseteq Uid
BY DEF TypeOK, Put

LEMMA ReportsTyped ==
  ASSUME TypeOK, NEW k \in Kind, NEW o \in Reported(k)
  PROVE  o \in Object /\ \E old \in seen[k] : o.uid = old.uid
<1>1. PICK old \in seen[k], st \in Statuses : o = [old EXCEPT !.status = st]
  BY DEF Reported
<1>2. old \in Object
  BY DEF TypeOK
<1> QED BY <1>1, <1>2 DEF Object

LEMMA PatchesTyped ==
  ASSUME TypeOK, NEW k \in Kind, Exists(k), NEW s \in Specs
  PROVE  /\ [etcd[k] EXCEPT !.spec = s] \in Object
         /\ [etcd[k] EXCEPT !.spec = s].uid = etcd[k].uid
<1>1. etcd[k] \in Object
  BY DEF TypeOK, Exists
<1> QED BY <1>1 DEF Object

LEMMA FreshTyped ==
  ASSUME TypeOK, NewUid, NEW st \in Statuses
  PROVE  /\ Fresh(st) \in Object /\ Fresh(st).uid = uids + 1
         /\ uids \in Nat /\ uids' = uids + 1 /\ uids' \in 0 .. MaxCreates
BY Arithmetic DEF TypeOK, NewUid, Fresh, Object, Uid

(* Every step is one of six, on an object of some kind: created unseen,    *)
(* begun with a new object, begun with a copy, put as a copy, removed, or  *)
(* put by a handler that had begun.                                        *)
Creates == /\ NewUid /\ UNCHANGED <<pending, requests>>
           /\ \E st \in Statuses : Put("pod", Fresh(st))
BeginsNew(k) == /\ ~Exists(k) /\ NewUid /\ UNCHANGED requests
                /\ \E st \in Statuses : Begin(k, Fresh(st))
BeginsCopy(k) == /\ Exists(k) /\ Count /\ UNCHANGED uids
                 /\ \E o \in Object : /\ \E old \in seen[k] : o.uid = old.uid
                                      /\ Begin(k, o)
PutsCopy(k) == /\ k \in {"rs", "gpujob"} /\ Count /\ UNCHANGED <<pending, uids>>
               /\ \E o \in Object : /\ \E old \in seen[k] : o.uid = old.uid
                                    /\ Put(k, o)

LEMMA Shapes ==
  ASSUME TypeOK, \A k \in Kind : Exists(k) => etcd[k] \in seen[k], [Next]_vars
  PROVE  \/ Creates \/ End \/ UNCHANGED vars
         \/ \E k \in Kind : BeginsNew(k) \/ BeginsCopy(k) \/ PutsCopy(k) \/ Delete(k)
<1>1. ASSUME NEW k \in Kind, ReplaceExisting(k) PROVE BeginsCopy(k)
  BY <1>1, ReportsTyped DEF ReplaceExisting, BeginsCopy
<1>2. ASSUME NEW k \in Kind, Patch(k) PROVE BeginsCopy(k)
  <2>1. PICK s \in Specs : Begin(k, [etcd[k] EXCEPT !.spec = s])
    BY <1>2 DEF Patch
  <2>2. Exists(k) /\ Count /\ UNCHANGED uids /\ etcd[k] \in seen[k]
    BY <1>2 DEF Patch
  <2> QED BY <2>1, <2>2, PatchesTyped DEF BeginsCopy
<1>3. ASSUME NEW k \in {"rs", "gpujob"}, ReplaceBlindly(k) PROVE PutsCopy(k)
  <2>1. PICK o \in Reported(k) : Put(k, o)
    BY <1>3 DEF ReplaceBlindly
  <2>2. o \in Object /\ \E old \in seen[k] : o.uid = old.uid
    BY ReportsTyped DEF Kind
  <2> QED BY <1>3, <2>1, <2>2 DEF ReplaceBlindly, PutsCopy
<1>4. ASSUME NEW k \in Kind, Create(k) PROVE BeginsNew(k)
  BY <1>4 DEF Create, BeginsNew
<1>5. CASE PodCreate
  BY <1>5 DEF PodCreate, Creates
<1>k. {"pod", "rs", "gpujob", "hpa"} = Kind
  BY DEF Kind
<1>6. CASE PodReplace \/ HpaUpdate
  BY <1>1, <1>6, <1>k DEF PodReplace, HpaUpdate
<1>7. CASE Bind \/ RsPatch \/ GpuJobPatch \/ HpaPatch
  BY <1>2, <1>7, <1>k DEF Bind, RsPatch, GpuJobPatch, HpaPatch
<1>8. CASE RsUpdate \/ GpuJobUpdate
  BY <1>3, <1>8, <1>k DEF RsUpdate, GpuJobUpdate
<1>9. CASE RsCreate \/ GpuJobCreate \/ HpaCreate
  BY <1>4, <1>9, <1>k DEF RsCreate, GpuJobCreate, HpaCreate
<1>10. CASE PodDelete \/ RsDelete \/ GpuJobDelete \/ HpaDelete
  BY <1>10, <1>k DEF PodDelete, RsDelete, GpuJobDelete, HpaDelete
<1> QED BY <1>5, <1>6, <1>7, <1>8, <1>9, <1>10 DEF Next

-------------------------------------------------------------------------------
(* Which uids were ever put, and which are still to be put for the first   *)
(* time: a handler that found nothing holds a uid nobody else has.         *)
WasPut(u) == \E k \in Kind : \E o \in seen[k] : o.uid = u
FindsNothing(h) == h.got = None

CreatedOnce ==
  /\ \A k \in Kind : Exists(k) => etcd[k] \in seen[k]
  /\ \A u \in deleted : WasPut(u)
  /\ \A u \in Uid : WasPut(u) => u <= uids
  /\ \A h \in pending :
       IF FindsNothing(h) THEN h.put.uid <= uids /\ ~WasPut(h.put.uid)
                          ELSE WasPut(h.put.uid)
  /\ \A g, h \in pending :
       FindsNothing(g) /\ FindsNothing(h) /\ g.put.uid = h.put.uid => g = h

UidInv == TypeOK /\ HandlersTyped /\ CreatedOnce

LEMMA StepKeepsUids == ASSUME UidInv, [Next]_vars PROVE UidInv'
<1>0. TypeOK /\ HandlersTyped /\ CreatedOnce
  BY DEF UidInv
<1>a. /\ uids \in Nat /\ \A u \in Uid : u \in Nat
      /\ \A o \in Object : o.uid \in Uid
  BY <1>0, Arithmetic DEF TypeOK, Uid, Object
<1>r. Count => requests' \in 0 .. MaxRequests
  BY <1>0, Arithmetic DEF Count, TypeOK
<1>n. ~WasPut(uids + 1) /\ (uids + 1) \notin deleted
      /\ \A h \in pending : h.put.uid # uids + 1
  <2>1. \A k \in Kind : \A o \in seen[k] : o.uid \in Uid
    BY <1>0, <1>a DEF TypeOK
  <2>2. ~WasPut(uids + 1)
    BY <1>0, <1>a, <2>1 DEF CreatedOnce, WasPut
  <2>3. \A h \in pending : h.put.uid \in Uid /\ h.put.uid <= uids
    BY <1>0, <1>a DEF CreatedOnce, HandlersTyped
  <2> QED BY <1>0, <1>a, <2>2, <2>3 DEF CreatedOnce
<1>p. ASSUME NEW k \in Kind, NEW object \in Object, Put(k, object)
      PROVE  /\ \A u : WasPut(u)' <=> WasPut(u) \/ u = object.uid
             /\ \A j \in Kind : Exists(j)' => etcd'[j] \in seen'[j]
  BY <1>0, <1>p DEF Put, WasPut, Exists, TypeOK, CreatedOnce
<1>1. CASE Creates
  <2>1. PICK st \in Statuses : Put("pod", Fresh(st))
    BY <1>1 DEF Creates
  <2> DEFINE o == Fresh(st)
  <2>2. /\ o \in Object /\ o.uid = uids + 1 /\ uids' = uids + 1 /\ uids' \in 0 .. MaxCreates
        /\ "pod" \in Kind /\ UNCHANGED <<pending, requests>> /\ Put("pod", o)
    BY <1>0, <1>1, <2>1, FreshTyped DEF Creates, Kind
  <2> HIDE DEF o
  <2>3. TypeOK' /\ HandlersTyped'
    BY <1>0, <2>2, PutsTyped DEF TypeOK, HandlersTyped
  <2>4. /\ \A u : WasPut(u)' <=> WasPut(u) \/ u = uids + 1
        /\ \A j \in Kind : Exists(j)' => etcd'[j] \in seen'[j]
    BY <1>p, <2>2
  <2>5. UNCHANGED deleted
    BY <2>2 DEF Put
  <2>6. CreatedOnce'
    <3>1. \A h \in pending : h.put.uid \in Nat /\ h.put.uid # uids + 1
      BY <1>0, <1>a, <1>n DEF HandlersTyped
    <3>2. /\ \A u \in deleted' : WasPut(u)'
          /\ \A u \in Uid : WasPut(u)' => u <= uids'
      BY <1>0, <1>a, <2>2, <2>4, <2>5 DEF CreatedOnce
    <3>3. \A h \in pending' : IF FindsNothing(h) THEN h.put.uid <= uids' /\ ~WasPut(h.put.uid)'
                                                 ELSE WasPut(h.put.uid)'
      BY <1>0, <1>a, <2>2, <2>4, <3>1 DEF CreatedOnce
    <3> QED BY <1>0, <2>2, <2>4, <3>2, <3>3 DEF CreatedOnce, FindsNothing
  <2> QED BY <2>3, <2>6 DEF UidInv
<1>2. ASSUME NEW k \in Kind, BeginsNew(k) PROVE UidInv'
  <2>1. PICK st \in Statuses : Begin(k, Fresh(st))
    BY <1>2 DEF BeginsNew
  <2> DEFINE o == Fresh(st)
             me == [kind |-> k, got |-> etcd[k], put |-> o]
  <2>2. /\ o \in Object /\ o.uid = uids + 1 /\ uids' = uids + 1 /\ uids' \in 0 .. MaxCreates
        /\ UNCHANGED <<etcd, seen, deleted, requests>> /\ Begin(k, o)
    BY <1>0, <1>2, <2>1, FreshTyped DEF BeginsNew, Begin
  <2>3. pending' = pending \cup {me} /\ FindsNothing(me) /\ me.put.uid = uids + 1
    BY <1>2, <2>2 DEF BeginsNew, Begin, FindsNothing, Exists
  <2>4. TypeOK' /\ HandlersTyped'
    BY <1>0, <2>2, BeginsTyped DEF TypeOK
  <2> HIDE DEF o, me
  <2>5. \A u : WasPut(u)' <=> WasPut(u)
    BY <2>2 DEF WasPut
  <2>6. \A h \in pending' : IF FindsNothing(h) THEN h.put.uid <= uids' /\ ~WasPut(h.put.uid)
                                               ELSE WasPut(h.put.uid)
    BY <1>0, <1>a, <1>n, <2>2, <2>3 DEF CreatedOnce, HandlersTyped
  <2>7. \A g, h \in pending' :
          FindsNothing(g) /\ FindsNothing(h) /\ g.put.uid = h.put.uid => g = h
    BY <1>0, <1>n, <2>3 DEF CreatedOnce
  <2>8. CreatedOnce'
    BY <1>0, <1>a, <2>2, <2>5, <2>6, <2>7 DEF CreatedOnce, FindsNothing, Exists
  <2> QED BY <2>4, <2>8 DEF UidInv
<1>3. ASSUME NEW k \in Kind, BeginsCopy(k) PROVE UidInv'
  <2>1. PICK o \in Object : Begin(k, o) /\ \E old \in seen[k] : o.uid = old.uid
    BY <1>3 DEF BeginsCopy
  <2> DEFINE me == [kind |-> k, got |-> etcd[k], put |-> o]
  <2>2. /\ UNCHANGED <<etcd, seen, deleted, uids>> /\ Count
        /\ pending' = pending \cup {me} /\ ~FindsNothing(me) /\ WasPut(me.put.uid)
    BY <1>3, <2>1 DEF BeginsCopy, Begin, FindsNothing, Exists, WasPut
  <2>3. TypeOK' /\ HandlersTyped'
    BY <1>0, <1>r, <2>1, <2>2, BeginsTyped DEF TypeOK
  <2> HIDE DEF me
  <2>4. \A u : WasPut(u)' <=> WasPut(u)
    BY <2>2 DEF WasPut
  <2>5. CreatedOnce'
    BY <1>0, <2>2, <2>4 DEF CreatedOnce, FindsNothing, Exists
  <2> QED BY <2>3, <2>5 DEF UidInv
<1>4. ASSUME NEW k \in Kind, PutsCopy(k) PROVE UidInv'
  <2>1. PICK o \in Object : Put(k, o) /\ \E old \in seen[k] : o.uid = old.uid
    BY <1>4 DEF PutsCopy
  <2>2. UNCHANGED <<pending, uids, deleted>> /\ Count /\ WasPut(o.uid)
    BY <1>4, <2>1 DEF PutsCopy, Put, WasPut
  <2>3. TypeOK' /\ HandlersTyped'
    BY <1>0, <1>r, <2>1, <2>2, PutsTyped DEF TypeOK, HandlersTyped
  <2>4. /\ \A u : WasPut(u)' <=> WasPut(u)
        /\ \A j \in Kind : Exists(j)' => etcd'[j] \in seen'[j]
    BY <1>p, <2>1, <2>2
  <2>5. CreatedOnce'
    BY <1>0, <2>2, <2>4 DEF CreatedOnce, FindsNothing
  <2> QED BY <2>3, <2>5 DEF UidInv
<1>5. ASSUME NEW k \in Kind, Delete(k) PROVE UidInv'
  <2>1. /\ Exists(k) /\ etcd' = [etcd EXCEPT ![k] = None] /\ Count
        /\ deleted' = deleted \cup {etcd[k].uid} /\ UNCHANGED <<seen, pending, uids>>
    BY <1>5 DEF Delete, Remove
  <2>2. etcd[k] \in Object /\ etcd[k] \in seen[k] /\ etcd[k].uid \in Uid
    BY <1>0, <1>a, <2>1 DEF TypeOK, Exists, CreatedOnce
  <2>3. TypeOK' /\ HandlersTyped'
    BY <1>0, <1>r, <2>1, <2>2 DEF TypeOK, HandlersTyped
  <2>4. /\ \A u : WasPut(u)' <=> WasPut(u)
        /\ WasPut(etcd[k].uid)
    BY <2>1, <2>2 DEF WasPut
  <2>5. \A j \in Kind : Exists(j)' => etcd'[j] \in seen'[j]
    BY <1>0, <2>1 DEF TypeOK, Exists, CreatedOnce
  <2>6. CreatedOnce'
    BY <1>0, <2>1, <2>4, <2>5 DEF CreatedOnce, FindsNothing
  <2> QED BY <2>3, <2>6 DEF UidInv
<1>6. CASE End
  <2>1. PICK h \in pending : Put(h.kind, h.put) /\ pending' = pending \ {h}
    BY <1>6 DEF End
  <2>2. h.kind \in Kind /\ h.put \in Object /\ UNCHANGED <<uids, requests, deleted>>
    BY <1>0, <1>6, <2>1 DEF End, Put, TypeOK, Handler, HandlersTyped
  <2>3. IsFiniteSet(pending')
    BY <1>0, <2>1, FS_RemoveElement DEF HandlersTyped
  <2>4. TypeOK' /\ HandlersTyped'
    BY <1>0, <2>1, <2>2, <2>3, PutsTyped DEF TypeOK, HandlersTyped
  <2>5. /\ \A u : WasPut(u)' <=> WasPut(u) \/ u = h.put.uid
        /\ \A j \in Kind : Exists(j)' => etcd'[j] \in seen'[j]
    BY <1>p, <2>1, <2>2
  <2>6. h.put.uid \in Uid /\ h.put.uid <= uids
    BY <1>0, <1>a, <2>2 DEF CreatedOnce
  <2>7. \A g \in pending' : FindsNothing(g) => g.put.uid # h.put.uid
    BY <1>0, <2>1 DEF CreatedOnce
  <2>8. CreatedOnce'
    BY <1>0, <2>1, <2>2, <2>5, <2>6, <2>7 DEF CreatedOnce, FindsNothing
  <2> QED BY <2>4, <2>8 DEF UidInv
<1>7. CASE UNCHANGED vars
  BY <1>0, <1>7 DEF vars, UidInv, TypeOK, HandlersTyped, CreatedOnce, FindsNothing, WasPut, Exists
<1> QED BY <1>0, <1>1, <1>2, <1>3, <1>4, <1>5, <1>6, <1>7, Shapes DEF CreatedOnce

LEMMA UidsHold == Spec => []UidInv
<1>1. Init => UidInv
  BY FS_EmptySet, Arithmetic DEF Init, UidInv, TypeOK, HandlersTyped, CreatedOnce, WasPut, Exists
<1> QED BY <1>1, StepKeepsUids, PTL DEF Spec

(* Objects, handlers, uids and requests always have their types.           *)
THEOREM ApiServerTypeCorrect == Spec => []TypeOK
BY UidsHold, PTL DEF UidInv

-------------------------------------------------------------------------------
(* However many handlers are under way, a deleted pod or autoscaler comes  *)
(* back only by a handler that had found one before it was deleted: nobody *)
(* who looks for the object afterwards, and nobody who creates another,    *)
(* brings it back.                                                         *)
LEMMA OnlyWhoFoundOneRecreates ==
  ASSUME UidInv, [Next]_vars, NEW k \in {"pod", "hpa"}, Recreates(k)
  PROVE  FoundOne(k)
<1>0. TypeOK /\ HandlersTyped /\ CreatedOnce /\ k \in Kind
  BY DEF UidInv, Kind
<1>a. etcd'[k] # etcd[k]
  BY DEF Recreates, Exists
<1>1. CASE End
  <2>1. PICK h \in pending : Put(h.kind, h.put) /\ pending' = pending \ {h}
    BY <1>1 DEF End
  <2>2. h.kind = k /\ etcd'[k] = h.put
    BY <1>0, <1>a, <2>1 DEF Put, TypeOK, Handler
  <2>3. ~FindsNothing(h)
    BY <1>0, <2>2 DEF Recreates, CreatedOnce
  <2> QED BY <2>1, <2>2, <2>3 DEF FoundOne, FindsNothing
<1>2. CASE Creates
  <2>1. PICK st \in Statuses : Put("pod", Fresh(st))
    BY <1>2 DEF Creates
  <2>2. k = "pod" /\ etcd'[k] = Fresh(st)
    BY <1>0, <1>a, <2>1 DEF Put, TypeOK
  <2>3. /\ Fresh(st) \in Object /\ Fresh(st).uid = uids + 1 /\ uids \in Nat
    BY <1>0, <1>2, FreshTyped DEF Creates
  <2>4. uids + 1 \in Uid
    BY <2>3 DEF Object
  <2>5. uids + 1 \notin deleted
    BY <1>0, <2>3, <2>4 DEF CreatedOnce
  <2> QED BY <2>2, <2>3, <2>5 DEF Recreates
<1>3. ASSUME NEW j \in Kind, BeginsNew(j) \/ BeginsCopy(j) \/ PutsCopy(j) \/ Delete(j)
      PROVE  FALSE
  <2>1. CASE BeginsNew(j) \/ BeginsCopy(j)
    BY <1>a, <2>1 DEF BeginsNew, BeginsCopy, Begin
  <2>2. CASE PutsCopy(j)
    BY <1>0, <1>a, <2>2 DEF PutsCopy, Put, TypeOK
  <2>3. CASE Delete(j)
    <3>1. etcd' = [etcd EXCEPT ![j] = None]
      BY <2>3 DEF Delete, Remove
    <3> QED BY <1>0, <3>1 DEF Recreates, Exists, TypeOK
  <2> QED BY <1>3, <2>1, <2>2, <2>3
<1>4. CASE UNCHANGED vars
  BY <1>a, <1>4 DEF vars
<1> QED BY <1>0, <1>1, <1>2, <1>3, <1>4, Shapes DEF CreatedOnce

(* However many handlers overlap, a put that brings back a pod or an       *)
(* autoscaler that was deleted is one of a handler that had found it: the  *)
(* deletion came between its read and its put.                             *)
THEOREM RecreatedOnlyInARace == Spec => UndoneOnlyInARace
<1>1. UidInv /\ [Next]_vars
        => [\A k \in {"pod", "hpa"} : Recreates(k) => FoundOne(k)]_vars
  BY OnlyWhoFoundOneRecreates
<1> QED BY <1>1, UidsHold, PTL DEF Spec, UndoneOnlyInARace

-------------------------------------------------------------------------------
(* Serverless functions.                                                   *)

Deleting == {"service", "replica set", "autoscaler", "function"}
Call == {Idle} \cup [pc : {"put"} \cup Deleting, fun : Fun, svc : SvcName]
               \cup [pc : {"poll"}, fun : Fun, polls : Nat]
Added == [fun : Fun, svc : SvcName]
Waking == {w \in [pc : {"get", "patch", "poll"}, fun : Fun, svc : SvcName \cup {Nothing},
                   polls : Nat] : w.pc = "poll" => w.svc \in SvcName}
Routed == {Idle} \cup Waking \cup [pc : {"forward"}, svc : SvcName]
Functions == [Fun -> Function \cup {Nothing}]
Services == [SvcName -> Service \cup {Nothing}]

ServerlessTypes ==
  /\ funcs \in Functions
  /\ svcs \in Services
  /\ rss \in [Fun -> Nat \cup {Nothing}]
  /\ hpas \in SUBSET Fun
  /\ named \in Nat
  /\ calls \in [Client -> Call]
  /\ adds \in Seq(Added)
  /\ building \in Work \cup {Nothing}
  /\ stores \in [func : Functions, svc : Services]
  /\ reqs \in [Request -> Routed]
  /\ sure \in SUBSET Request
  /\ world \in World
  /\ env \in [Disturbance -> Nat]

(* Every step is one of these.                                             *)
LEMMA ServerlessShapes ==
  ASSUME [ServerlessNext]_serverlessVars
  PROVE  \/ \E c \in Client, f \in Fun : CreateService(c, f)
         \/ \E c \in Client, f \in Fun : DeleteBegins(c, f)
         \/ \E c \in Client : DeleteFails(c) \/ HangUp(c)
         \/ \E c \in Client : CreateFunction(c)
         \/ \E c \in Client : AwaitImage(c)
         \/ \E c \in Client : DeleteStep(c)
         \/ TakeFunction \/ Build \/ PostStatus \/ CreateReplicaSet \/ CreateHpa
         \/ Break \/ LoseWatch \/ Learn
         \/ \E r \in Request, f \in Fun : Route(r, f) \/ RunWorkflow(r, f)
         \/ \E r \in Request : RequestStep(r)
         \/ \E f \in Fun : Autoscale(f)
         \/ \E n \in SvcName : PodsFollow(n)
         \/ UNCHANGED serverlessVars
BY DEF ServerlessNext, UserStep, ApiStep, ControllerStep

(* What a record with a given state carries.                               *)
LEMMA CallsTyped ==
  ASSUME ServerlessTypes, NEW c \in Client
  PROVE  /\ calls[c] \in Call
         /\ calls[c].pc \in {"put"} \cup Deleting
              => calls[c] \in [pc : {"put"} \cup Deleting, fun : Fun, svc : SvcName]
         /\ calls[c].pc = "poll" => calls[c] \in [pc : {"poll"}, fun : Fun, polls : Nat]
<1>1. calls[c] \in Call
  BY DEF ServerlessTypes
<1>2. calls[c] = Idle
        \/ calls[c] \in [pc : {"put"} \cup Deleting, fun : Fun, svc : SvcName]
        \/ calls[c] \in [pc : {"poll"}, fun : Fun, polls : Nat]
  BY <1>1 DEF Call
<1>3. CASE calls[c] = Idle
  BY <1>1, <1>3 DEF Idle, Deleting
<1>4. CASE calls[c] \in [pc : {"put"} \cup Deleting, fun : Fun, svc : SvcName]
  BY <1>1, <1>4 DEF Deleting
<1>5. CASE calls[c] \in [pc : {"poll"}, fun : Fun, polls : Nat]
  BY <1>1, <1>5 DEF Deleting
<1> QED BY <1>2, <1>3, <1>4, <1>5

LEMMA RoutedTyped ==
  ASSUME ServerlessTypes, NEW r \in Request
  PROVE  /\ reqs[r] \in Routed
         /\ reqs[r].pc \in {"get", "patch", "poll"} => reqs[r] \in Waking
<1>1. reqs[r] \in Routed
  BY DEF ServerlessTypes
<1> QED BY <1>1 DEF Routed, Waking, Idle

(* A request goes on, or a call, and the others stay.                      *)
LEMMA PutFunctionTyped ==
  ASSUME ServerlessTypes, NEW f \in Fun, NEW n \in SvcName, NEW image \in BOOLEAN,
         PutFunction(f, n, image)
  PROVE  funcs' \in Functions /\ adds' \in Seq(Added)
<1>1. [svc |-> n, image |-> image] \in Function /\ [fun |-> f, svc |-> n] \in Added
  BY DEF Function, Added
<1>2. funcs' \in Functions
  BY <1>1 DEF PutFunction, ServerlessTypes, Functions
<1>3. Append(adds, [fun |-> f, svc |-> n]) \in Seq(Added)
  BY <1>1 DEF ServerlessTypes
<1> QED BY <1>2, <1>3 DEF PutFunction, ServerlessTypes

LEMMA DisturbTyped ==
  ASSUME ServerlessTypes, NEW d \in Disturbance, Disturb(d)
  PROVE  /\ world' \in World /\ env' \in [Disturbance -> Nat]
         /\ world.may[d] # 0
<1>1. env[d] \in Nat /\ world.may[d] \in Nat
  BY DEF ServerlessTypes, World
<1> QED BY <1>1 DEF ServerlessTypes, Disturb

LEMMA ServerlessTypesKept ==
  ASSUME ServerlessTypes, [ServerlessNext]_serverlessVars PROVE ServerlessTypes'
<1>0. ASSUME NEW d \in Disturbance, Disturb(d)
      PROVE  world' \in World /\ env' \in [Disturbance -> Nat]
  BY <1>0, DisturbTyped
<1>1. ASSUME NEW c \in Client, NEW f \in Fun, CreateService(c, f) PROVE ServerlessTypes'
  <2>1. [pc |-> "put", fun |-> f, svc |-> named + 1] \in Call /\ named + 1 \in Nat
    BY <1>1, ServerlessAssumption DEF CreateService, Call
  <2>2. [fun |-> f, ready |-> FALSE] \in Service
    BY DEF Service
  <2>3. svcs' \in Services
    BY <1>1, <2>2 DEF CreateService, ServerlessTypes, Services
  <2>4. calls' \in [Client -> Call] /\ named' \in Nat
    BY <1>1, <2>1 DEF CreateService, ServerlessTypes
  <2>5. world' \in World /\ env' \in [Disturbance -> Nat]
    BY <1>0, <1>1 DEF CreateService, Disturbance
  <2> QED BY <1>1, <2>3, <2>4, <2>5 DEF CreateService, ctlVars, ServerlessTypes
<1>2. ASSUME NEW c \in Client, NEW f \in Fun, DeleteBegins(c, f) PROVE ServerlessTypes'
  <2>1. funcs[f] \in Function
    BY <1>2 DEF DeleteBegins, ServerlessTypes, Functions
  <2>2. [pc |-> "service", fun |-> f, svc |-> funcs[f].svc] \in Call
    BY <2>1 DEF Function, Call, Deleting
  <2>3. calls' \in [Client -> Call]
    BY <1>2, <2>2 DEF DeleteBegins, ServerlessTypes
  <2>4. world' \in World /\ env' \in [Disturbance -> Nat]
    BY <1>0, <1>2 DEF DeleteBegins, Disturbance
  <2> QED BY <1>2, <2>3, <2>4 DEF DeleteBegins, etcdVars, ctlVars, ServerlessTypes
<1>3. ASSUME NEW c \in Client, DeleteFails(c) \/ HangUp(c) PROVE ServerlessTypes'
  <2>1. CASE HangUp(c)
    <3>1. calls' \in [Client -> Call]
      BY <2>1 DEF HangUp, ServerlessTypes, Call
    <3>2. world' \in World /\ env' \in [Disturbance -> Nat]
      BY <1>0, <2>1 DEF HangUp, Disturbance
    <3> QED BY <2>1, <3>1, <3>2 DEF HangUp, etcdVars, ctlVars, ServerlessTypes
  <2>2. CASE DeleteFails(c)
    <3>1. calls[c] \in [pc : {"put"} \cup Deleting, fun : Fun, svc : SvcName]
      BY <2>2, CallsTyped DEF DeleteFails, Deleting
    <3>2. AfterDeleting(calls[c].pc) # "end"
            => [calls[c] EXCEPT !.pc = AfterDeleting(calls[c].pc)] \in Call
      BY <3>1 DEF Call, AfterDeleting, Deleting
    <3>3. calls' \in [Client -> Call]
      BY <2>2, <3>2 DEF DeleteFails, Call, ServerlessTypes
    <3>4. world' \in World /\ env' \in [Disturbance -> Nat]
      BY <1>0, <2>2 DEF DeleteFails, Disturbance
    <3> QED BY <2>2, <3>3, <3>4 DEF DeleteFails, etcdVars, ctlVars, ServerlessTypes
  <2> QED BY <1>3, <2>1, <2>2
<1>4. ASSUME NEW c \in Client, CreateFunction(c) PROVE ServerlessTypes'
  <2>1. calls[c] \in [pc : {"put"} \cup Deleting, fun : Fun, svc : SvcName]
    BY <1>4, CallsTyped DEF CreateFunction, ServerlessTypes
  <2>2. funcs' \in Functions /\ adds' \in Seq(Added)
    BY <1>4, <2>1, PutFunctionTyped DEF CreateFunction, ServerlessTypes
  <2>3. [pc |-> "poll", fun |-> calls[c].fun, polls |-> 0] \in Call
    BY <2>1 DEF Call
  <2>4. calls' \in [Client -> Call]
    BY <1>4, <2>3 DEF CreateFunction, ServerlessTypes
  <2> QED BY <1>4, <2>2, <2>4 DEF CreateFunction, ServerlessTypes
<1>5. ASSUME NEW c \in Client, AwaitImage(c) PROVE ServerlessTypes'
  <2>1. calls[c] \in [pc : {"poll"}, fun : Fun, polls : Nat]
    BY <1>5, CallsTyped DEF AwaitImage
  <2>2. [calls[c] EXCEPT !.polls = @ + 1] \in Call /\ Idle \in Call
    BY <2>1 DEF Call
  <2>3. \/ calls' = [calls EXCEPT ![c] = Idle]
        \/ calls' = [calls EXCEPT ![c] = [calls[c] EXCEPT !.polls = @ + 1]]
    BY <1>5 DEF AwaitImage
  <2> QED BY <1>5, <2>2, <2>3 DEF AwaitImage, ctlVars, etcdVars, ServerlessTypes
<1>6. ASSUME NEW c \in Client, DeleteStep(c) PROVE ServerlessTypes'
  <2>1. calls[c] \in [pc : {"put"} \cup Deleting, fun : Fun, svc : SvcName]
    BY <1>6, CallsTyped DEF DeleteStep, Deleting
  <2>2. AfterDeleting(calls[c].pc) # "end"
          => [calls[c] EXCEPT !.pc = AfterDeleting(calls[c].pc)] \in Call
    BY <2>1 DEF Call, AfterDeleting, Deleting
  <2>3. calls' \in [Client -> Call]
    BY <1>6, <2>2 DEF DeleteStep, Call, ServerlessTypes
  <2>4. funcs' \in Functions /\ svcs' \in Services
    BY <1>6, <2>1 DEF DeleteStep, Functions, Services, ServerlessTypes
  <2>5. rss' \in [Fun -> Nat \cup {Nothing}] /\ hpas' \in SUBSET Fun
    BY <1>6, <2>1 DEF DeleteStep, ServerlessTypes
  <2> QED BY <1>6, <2>3, <2>4, <2>5 DEF DeleteStep, ctlVars, ServerlessTypes
<1>7. ASSUME TakeFunction PROVE ServerlessTypes'
  <2>1. Head(adds) \in Added /\ Tail(adds) \in Seq(Added)
    BY <1>7, HeadTailProperties DEF TakeFunction, ServerlessTypes
  <2>2. [pc |-> "build", fun |-> Head(adds).fun, svc |-> Head(adds).svc] \in Work
    BY <2>1 DEF Work, Added
  <2> QED BY <1>7, <2>1, <2>2 DEF TakeFunction, etcdVars, ServerlessTypes
<1>8. ASSUME Build \/ CreateHpa \/ Break PROVE ServerlessTypes'
  <2>1. building' \in Work \cup {Nothing} /\ hpas' \in SUBSET Fun
    BY <1>8 DEF Build, CreateHpa, Break, At, After, etcdVars, ServerlessTypes, Work
  <2>2. world' \in World /\ env' \in [Disturbance -> Nat]
    BY <1>0, <1>8 DEF Build, CreateHpa, Break, Disturbance, ServerlessTypes
  <2> QED BY <1>8, <2>1, <2>2 DEF Build, CreateHpa, Break, etcdVars, ServerlessTypes
<1>9. ASSUME PostStatus PROVE ServerlessTypes'
  <2>1. building \in Work /\ building' \in Work
    BY <1>9 DEF PostStatus, At, After, Work, ServerlessTypes
  <2>2. funcs' \in Functions /\ adds' \in Seq(Added)
    BY <1>9, <2>1, PutFunctionTyped DEF PostStatus, Work
  <2> QED BY <1>9, <2>1, <2>2 DEF PostStatus, ServerlessTypes
<1>10. ASSUME CreateReplicaSet PROVE ServerlessTypes'
  <2>1. building' \in Work \cup {Nothing} /\ building \in Work
    BY <1>10 DEF CreateReplicaSet, At, After, ServerlessTypes, Work
  <2>2. rss' \in [Fun -> Nat \cup {Nothing}]
    BY <1>10, <2>1 DEF CreateReplicaSet, ServerlessTypes, Work
  <2> QED BY <1>10, <2>1, <2>2 DEF CreateReplicaSet, ServerlessTypes
<1>11. ASSUME LoseWatch PROVE ServerlessTypes'
  <2>1. adds' \in Seq(Added)
    BY <1>11 DEF LoseWatch, ServerlessTypes
  <2>2. world' \in World /\ env' \in [Disturbance -> Nat]
    BY <1>0, <1>11 DEF LoseWatch, Disturbance
  <2> QED BY <1>11, <2>1, <2>2 DEF LoseWatch, etcdVars, ServerlessTypes
<1>12. ASSUME Learn PROVE ServerlessTypes'
  <2>1. stores' \in [func : Functions, svc : Services]
    <3>1. stores.func \in Functions /\ stores.svc \in Services
      BY DEF ServerlessTypes
    <3>2. funcs \in Functions /\ svcs \in Services
      BY DEF ServerlessTypes
    <3>3. ASSUME NEW f \in Fun, stores' = [stores EXCEPT !.func[f] = funcs[f]]
          PROVE  stores' \in [func : Functions, svc : Services]
      <4>1. [stores.func EXCEPT ![f] = funcs[f]] \in Functions
        BY <3>1, <3>2 DEF Functions
      <4>2. stores' = [stores EXCEPT !.func = [stores.func EXCEPT ![f] = funcs[f]]]
        BY <3>3
      <4> QED BY <4>1, <4>2 DEF ServerlessTypes
    <3>4. ASSUME NEW n \in SvcName, stores' = [stores EXCEPT !.svc[n] = svcs[n]]
          PROVE  stores' \in [func : Functions, svc : Services]
      <4>1. [stores.svc EXCEPT ![n] = svcs[n]] \in Services
        BY <3>1, <3>2 DEF Services
      <4>2. stores' = [stores EXCEPT !.svc = [stores.svc EXCEPT ![n] = svcs[n]]]
        BY <3>4
      <4> QED BY <4>1, <4>2 DEF ServerlessTypes
    <3> QED BY <1>12, <3>3, <3>4 DEF Learn
  <2> QED BY <1>12, <2>1 DEF Learn, etcdVars, ctlVars, ServerlessTypes
<1>13. ASSUME NEW r \in Request, NEW f \in Fun, Route(r, f) \/ RunWorkflow(r, f)
       PROVE  ServerlessTypes'
  <2>1. stores.func \in Functions /\ stores.func[f] \in Function \cup {Nothing}
    BY DEF ServerlessTypes, Functions
  <2>2. CASE Route(r, f)
    <3>1. stores.func[f] \in Function
      BY <2>1, <2>2 DEF Route
    <3>2. /\ [pc |-> "get", fun |-> f, svc |-> stores.func[f].svc, polls |-> 0] \in Routed
          /\ [pc |-> "forward", svc |-> stores.func[f].svc] \in Routed
      BY <3>1 DEF Routed, Waking, Function
    <3>3. reqs' \in [Request -> Routed]
      BY <2>2, <3>2 DEF Route, RouterGoes, ServerlessTypes
    <3>4. world' \in World /\ env' \in [Disturbance -> Nat]
      BY <1>0, <2>2 DEF Route, Disturbance
    <3> QED BY <2>2, <3>3, <3>4 DEF Route, RouterGoes, ctlVars, ServerlessTypes
  <2>3. CASE RunWorkflow(r, f)
    <3>1. [pc |-> "get", fun |-> f, svc |-> Nothing, polls |-> 0] \in Routed
      BY DEF Routed, Waking
    <3>2. reqs' \in [Request -> Routed]
      BY <2>3, <3>1 DEF RunWorkflow, RouterGoes, ServerlessTypes
    <3>3. world' \in World /\ env' \in [Disturbance -> Nat]
      BY <1>0, <2>3 DEF RunWorkflow, Disturbance
    <3> QED BY <2>3, <3>2, <3>3 DEF RunWorkflow, RouterGoes, ctlVars, ServerlessTypes
  <2> QED BY <1>13, <2>2, <2>3
<1>14. ASSUME NEW r \in Request, RequestStep(r) PROVE ServerlessTypes'
  <2>1. CASE GetReplicaSet(r)
    <3>1. reqs[r] \in Waking
      BY <2>1, RoutedTyped DEF GetReplicaSet
    <3>2. Idle \in Routed /\ [reqs[r] EXCEPT !.pc = "patch"] \in Routed
      BY <3>1 DEF Routed, Waking
    <3> QED BY <2>1, <3>2 DEF GetReplicaSet, RouterGoes, ctlVars, ServerlessTypes
  <2>2. CASE PatchReplicaSet(r)
    <3>1. reqs[r] \in Waking
      BY <2>2, RoutedTyped DEF PatchReplicaSet
    <3>2. /\ Idle \in Routed
          /\ reqs[r].svc # Nothing => [reqs[r] EXCEPT !.pc = "poll"] \in Routed
      BY <3>1 DEF Routed, Waking
    <3>3. rss' \in [Fun -> Nat \cup {Nothing}]
      BY <2>2 DEF PatchReplicaSet, ServerlessTypes
    <3> QED BY <2>2, <3>2, <3>3 DEF PatchReplicaSet, RouterGoes, ctlVars, ServerlessTypes
  <2>3. CASE AwaitEndpoints(r)
    <3>1. reqs[r] \in Waking
      BY <2>3, RoutedTyped DEF AwaitEndpoints
    <3>2. Idle \in Routed /\ [reqs[r] EXCEPT !.polls = @ + 1] \in Routed
      BY <3>1 DEF Routed, Waking
    <3>3. [pc |-> "forward", svc |-> reqs[r].svc] \in Routed
      BY <2>3, <3>1 DEF AwaitEndpoints, Routed, Waking
    <3>4. \E to \in Routed : reqs' = [reqs EXCEPT ![r] = to]
      BY <2>3, <3>2, <3>3 DEF AwaitEndpoints, RouterGoes
    <3> QED BY <3>4, <2>3, <3>2, <3>3 DEF AwaitEndpoints, RouterGoes, ctlVars, ServerlessTypes
  <2>4. CASE Forward(r)
    BY <2>4 DEF Forward, RouterGoes, ctlVars, Routed, ServerlessTypes
  <2> QED BY <1>14, <2>1, <2>2, <2>3, <2>4 DEF RequestStep
<1>15. ASSUME NEW f \in Fun, Autoscale(f) PROVE ServerlessTypes'
  <2>1. rss' \in [Fun -> Nat \cup {Nothing}]
    BY <1>15, ServerlessAssumption DEF Autoscale, ServerlessTypes
  <2>2. world' \in World /\ env' \in [Disturbance -> Nat]
    BY <1>0, <1>15 DEF Autoscale, Disturbance
  <2> QED BY <1>15, <2>1, <2>2 DEF Autoscale, ctlVars, ServerlessTypes
<1>16. ASSUME NEW n \in SvcName, PodsFollow(n) PROVE ServerlessTypes'
  <2>1. svcs[n] \in Service /\ [svcs[n] EXCEPT !.ready = ~@] \in Service
    BY <1>16 DEF PodsFollow, Services, Service, ServerlessTypes
  <2>2. svcs' = [svcs EXCEPT ![n] = [svcs[n] EXCEPT !.ready = ~@]]
    BY <1>16 DEF PodsFollow
  <2>3. svcs' \in Services
    BY <2>1, <2>2 DEF Services, ServerlessTypes
  <2> QED BY <1>16, <2>3 DEF PodsFollow, ctlVars, ServerlessTypes
<1>17. ASSUME UNCHANGED serverlessVars PROVE ServerlessTypes'
  BY <1>17 DEF serverlessVars, ServerlessTypes
<1> QED
  BY <1>1, <1>2, <1>3, <1>4, <1>5, <1>6, <1>7, <1>8, <1>9, <1>10, <1>11, <1>12, <1>13,
     <1>14, <1>15, <1>16, <1>17, ServerlessShapes

-------------------------------------------------------------------------------
(* Names.                                                                  *)

(* f and the service n belong together: whoever refers to both, the        *)
(* function itself, a call, an event or the controller.                    *)
Refers(f, n) ==
  \/ funcs[f] # Nothing /\ funcs[f].svc = n
  \/ \E c \in Client : calls[c].pc = "put" /\ calls[c].fun = f /\ calls[c].svc = n
  \/ \E i \in DOMAIN adds : adds[i].fun = f /\ adds[i].svc = n
  \/ building # Nothing /\ building.fun = f /\ building.svc = n

(* The name was given for f, and the service is that of f if it is there.  *)
Belongs(f, n) == n <= named /\ (svcs[n] # Nothing => svcs[n].fun = f)

NamesAgree == \A f \in Fun, n \in SvcName : Refers(f, n) => Belongs(f, n)

LEMMA SvcNamesAreNumbers == \A n \in SvcName : n \in Int
BY ServerlessAssumption

LEMMA StillBelongs ==
  ASSUME ServerlessTypes, [ServerlessNext]_serverlessVars,
         NEW f \in Fun, NEW n \in SvcName, Belongs(f, n)
  PROVE  Belongs(f, n)'
<1> USE SvcNamesAreNumbers DEF ServerlessTypes, Belongs
<1>1. ASSUME NEW c \in Client, NEW g \in Fun, CreateService(c, g) PROVE Belongs(f, n)'
  BY <1>1 DEF CreateService, Services
<1>2. ASSUME NEW c \in Client, DeleteStep(c) PROVE Belongs(f, n)'
  <2>1. svcs'[n] \in {svcs[n], Nothing} /\ named' = named
    BY <1>2 DEF DeleteStep, Services
  <2> QED BY <2>1
<1>3. ASSUME NEW m \in SvcName, PodsFollow(m) PROVE Belongs(f, n)'
  <2>1. svcs' = [svcs EXCEPT ![m] = [svcs[m] EXCEPT !.ready = ~@]] /\ named' = named
    BY <1>3 DEF PodsFollow
  <2>2. svcs[m] \in Service
    BY <1>3 DEF PodsFollow, Services
  <2>3. [svcs[m] EXCEPT !.ready = ~@].fun = svcs[m].fun
    BY <2>2 DEF Service
  <2>4. svcs[m] # Nothing
    BY <1>3 DEF PodsFollow
  <2> QED BY <2>1, <2>3, <2>4 DEF Services
<1>4. CASE UNCHANGED <<svcs, named>>
  BY <1>4
<1> QED
  BY <1>1, <1>2, <1>3, <1>4, ServerlessShapes
     DEF DeleteBegins, DeleteFails, HangUp, CreateFunction, AwaitImage, TakeFunction, Build, PostStatus,
         CreateReplicaSet, CreateHpa, Break, LoseWatch, Learn, Route, RunWorkflow, RequestStep,
         GetReplicaSet, PatchReplicaSet, AwaitEndpoints, Forward, RouterGoes, Autoscale,
         etcdVars, serverlessVars

(* A function that is put brings no reference that was not there.          *)
LEMMA PutRefers ==
  ASSUME ServerlessTypes, NEW g \in Fun, NEW m \in SvcName, NEW image \in BOOLEAN,
         PutFunction(g, m, image), Refers(g, m), NEW f \in Fun, NEW n \in SvcName
  PROVE  /\ (funcs'[f] # Nothing /\ funcs'[f].svc = n) => Refers(f, n)
         /\ (\E i \in DOMAIN adds' : adds'[i].fun = f /\ adds'[i].svc = n) => Refers(f, n)
<1>1. funcs' = [funcs EXCEPT ![g] = [svc |-> m, image |-> image]]
  BY DEF PutFunction
<1>2. (funcs'[f] # Nothing /\ funcs'[f].svc = n) => Refers(f, n)
  BY <1>1 DEF ServerlessTypes, Functions, Refers
<1>3. ASSUME NEW i \in DOMAIN adds', adds'[i].fun = f, adds'[i].svc = n PROVE Refers(f, n)
  <2>1. adds \in Seq(Added) /\ [fun |-> g, svc |-> m] \in Added
    BY DEF ServerlessTypes, Added
  <2>2. CASE adds' = adds
    BY <1>3, <2>2 DEF Refers
  <2>3. CASE adds' = Append(adds, [fun |-> g, svc |-> m])
    <3>1. (i \in DOMAIN adds /\ adds'[i] = adds[i]) \/ adds'[i] = [fun |-> g, svc |-> m]
      BY <1>3, <2>1, <2>3
    <3> QED BY <1>3, <3>1 DEF Refers
  <2> QED BY <2>2, <2>3 DEF PutFunction
<1> QED BY <1>2, <1>3

LEMMA NamesKept ==
  ASSUME ServerlessTypes, NamesAgree, [ServerlessNext]_serverlessVars PROVE NamesAgree'
<1> SUFFICES ASSUME NEW f \in Fun, NEW n \in SvcName, Refers(f, n)' PROVE Belongs(f, n)'
  BY DEF NamesAgree
<1>0. Refers(f, n) => Belongs(f, n)'
  BY StillBelongs DEF NamesAgree
<1>a. calls \in [Client -> Call]
  BY DEF ServerlessTypes
<1>1. ASSUME NEW c \in Client, NEW g \in Fun, CreateService(c, g) PROVE Belongs(f, n)'
  <2>1. calls' = [calls EXCEPT ![c] = [pc |-> "put", fun |-> g, svc |-> named + 1]]
    BY <1>1 DEF CreateService
  <2>2. CASE f = g /\ n = named + 1
    BY <1>1, <2>2 DEF CreateService, Belongs, ServerlessTypes, Services
  <2>3. CASE ~(f = g /\ n = named + 1)
    <3>1. Refers(f, n)
      BY <1>a, <1>1, <2>1, <2>3 DEF CreateService, ctlVars, Refers
    <3> QED BY <1>0, <3>1
  <2> QED BY <2>2, <2>3
<1>2. ASSUME NEW c \in Client, CreateFunction(c) PROVE Belongs(f, n)'
  <2>1. /\ PutFunction(calls[c].fun, calls[c].svc, FALSE) /\ building' = building
        /\ Refers(calls[c].fun, calls[c].svc)
    BY <1>2 DEF CreateFunction, Refers
  <2>2. calls[c].fun \in Fun /\ calls[c].svc \in SvcName
    BY <1>2, CallsTyped DEF CreateFunction
  <2>3. \A d \in Client : calls'[d].pc = "put" => calls'[d] = calls[d]
    BY <1>a, <1>2 DEF CreateFunction
  <2>4. Refers(f, n)
    <3>1. CASE funcs'[f] # Nothing /\ funcs'[f].svc = n
      BY <2>1, <2>2, <3>1, PutRefers
    <3>2. CASE \E i \in DOMAIN adds' : adds'[i].fun = f /\ adds'[i].svc = n
      BY <2>1, <2>2, <3>2, PutRefers
    <3>3. CASE \E d \in Client : calls'[d].pc = "put" /\ calls'[d].fun = f /\ calls'[d].svc = n
      BY <2>3, <3>3 DEF Refers
    <3>4. CASE building' # Nothing /\ building'.fun = f /\ building'.svc = n
      BY <2>1, <3>4 DEF Refers
    <3> QED BY <3>1, <3>2, <3>3, <3>4 DEF Refers
  <2> QED BY <1>0, <2>4
<1>3. ASSUME NEW c \in Client,
             \/ \E g \in Fun : DeleteBegins(c, g)
             \/ DeleteFails(c) \/ HangUp(c) \/ AwaitImage(c) \/ DeleteStep(c)
      PROVE  Belongs(f, n)'
  <2>1. adds' = adds /\ building' = building
    BY <1>3 DEF DeleteBegins, DeleteFails, HangUp, AwaitImage, DeleteStep, ctlVars
  <2>2. funcs'[f] \in {funcs[f], Nothing}
    BY <1>3 DEF DeleteBegins, DeleteFails, HangUp, AwaitImage, DeleteStep, etcdVars,
                ServerlessTypes, Functions
  <2>3. \A d \in Client : calls'[d].pc = "put" => calls'[d] = calls[d]
    <3>1. CASE \E g \in Fun : DeleteBegins(c, g)
      BY <1>a, <3>1 DEF DeleteBegins
    <3>2. CASE HangUp(c)
      BY <1>a, <3>2 DEF HangUp, Idle
    <3>3. CASE AwaitImage(c)
      BY <1>a, <3>3, CallsTyped DEF AwaitImage, Idle
    <3>4. CASE DeleteStep(c)
      <4>1. calls'[c].pc # "put"
        BY <1>a, <3>4, CallsTyped DEF DeleteStep, AfterDeleting, Idle, Deleting
      <4> QED BY <1>a, <3>4, <4>1 DEF DeleteStep
    <3>5. CASE DeleteFails(c)
      <4>1. calls'[c].pc # "put"
        BY <1>a, <3>5, CallsTyped DEF DeleteFails, AfterDeleting, Idle, Deleting
      <4> QED BY <1>a, <3>5, <4>1 DEF DeleteFails
    <3> QED BY <1>3, <3>1, <3>2, <3>3, <3>4, <3>5
  <2>4. Refers(f, n)
    BY <2>1, <2>2, <2>3 DEF Refers
  <2> QED BY <1>0, <2>4
<1>4. CASE TakeFunction
  <2>1. /\ building' = [pc |-> "build", fun |-> adds[1].fun, svc |-> adds[1].svc]
        /\ 1 \in DOMAIN adds
        /\ \A i \in DOMAIN adds' : i + 1 \in DOMAIN adds /\ adds'[i] = adds[i + 1]
    BY <1>4, HeadTailProperties DEF TakeFunction, ServerlessTypes
  <2>2. Refers(f, n)
    BY <1>4, <2>1 DEF TakeFunction, etcdVars, Refers
  <2> QED BY <1>0, <2>2
<1>5. CASE Build \/ CreateReplicaSet \/ CreateHpa \/ Break
  <2>1. UNCHANGED <<funcs, calls, adds>>
    BY <1>5 DEF Build, CreateReplicaSet, CreateHpa, Break, etcdVars
  <2>2. building' # Nothing => /\ building # Nothing /\ building'.fun = building.fun
                              /\ building'.svc = building.svc
    BY <1>5 DEF Build, CreateReplicaSet, CreateHpa, Break, At, ServerlessTypes, Work
  <2>3. Refers(f, n)
    BY <2>1, <2>2 DEF Refers
  <2> QED BY <1>0, <2>3
<1>6. CASE PostStatus
  <2>1. /\ PutFunction(building.fun, building.svc, TRUE) /\ calls' = calls
        /\ Refers(building.fun, building.svc) /\ building \in Work
    BY <1>6 DEF PostStatus, At, Refers, ServerlessTypes
  <2>2. building.fun \in Fun /\ building.svc \in SvcName
    BY <2>1 DEF Work
  <2>3. building' # Nothing => building'.fun = building.fun /\ building'.svc = building.svc
    BY <1>6, <2>1 DEF PostStatus, At, Work
  <2>4. Refers(f, n)
    <3>1. CASE funcs'[f] # Nothing /\ funcs'[f].svc = n
      BY <2>1, <2>2, <3>1, PutRefers
    <3>2. CASE \E i \in DOMAIN adds' : adds'[i].fun = f /\ adds'[i].svc = n
      BY <2>1, <2>2, <3>2, PutRefers
    <3>3. CASE \E d \in Client : calls'[d].pc = "put" /\ calls'[d].fun = f /\ calls'[d].svc = n
      BY <2>1, <3>3 DEF Refers
    <3>4. CASE building' # Nothing /\ building'.fun = f /\ building'.svc = n
      BY <2>1, <2>3, <3>4 DEF Refers
    <3> QED BY <3>1, <3>2, <3>3, <3>4 DEF Refers
  <2> QED BY <1>0, <2>4
<1>7. CASE LoseWatch
  <2>1. \A i \in DOMAIN adds' : i \in DOMAIN adds /\ adds'[i] = adds[i]
    <3>1. PICK k \in 0 .. Len(adds) : adds' = SubSeq(adds, 1, k)
      BY <1>7 DEF LoseWatch
    <3> QED BY <3>1 DEF ServerlessTypes
  <2>2. Refers(f, n)
    BY <1>7, <2>1 DEF LoseWatch, etcdVars, Refers
  <2> QED BY <1>0, <2>2
<1>8. CASE UNCHANGED <<funcs, calls, adds, building>>
  BY <1>0, <1>8 DEF Refers
<1> QED
  BY <1>1, <1>2, <1>3, <1>4, <1>5, <1>6, <1>7, <1>8, ServerlessShapes
     DEF Learn, Route, RunWorkflow, RequestStep, GetReplicaSet, PatchReplicaSet,
         AwaitEndpoints, Forward, RouterGoes, Autoscale, PodsFollow, etcdVars, ctlVars,
         serverlessVars

-------------------------------------------------------------------------------
(* Activation.                                                             *)

(* A function that a sure request is about to wake has one replica at most.*)
WakesAtMostOne ==
  \A r \in sure : reqs[r].pc \in {"get", "patch"} => rss[reqs[r].fun] \in {Nothing, 0, 1}

LEMMA WorldStays ==
  ASSUME [ServerlessNext]_serverlessVars PROVE world' = world
BY ServerlessShapes
   DEF CreateService, DeleteBegins, DeleteFails, HangUp, CreateFunction, AwaitImage, DeleteStep,
       TakeFunction, Build, PostStatus, CreateReplicaSet, CreateHpa, Break, LoseWatch, Learn,
       Route, RunWorkflow, RequestStep, GetReplicaSet, PatchReplicaSet, AwaitEndpoints, Forward,
       Autoscale, PodsFollow, Disturb, serverlessVars

(* Of a function it sees as it is the router sends a request to activation *)
(* only if the function wants no pods.                                     *)
LEMMA WakesOnlyTheIdle ==
  ASSUME ServerlessTypes, NamesAgree, NEW f \in Fun, SeenAsItIs(f),
         stores.func[f] # Nothing, stores.svc[stores.func[f].svc] # Nothing,
         NeedActivate(stores.svc[stores.func[f].svc])
  PROVE  rss[f] \in {Nothing, 0}
BY DEF SeenAsItIs, NeedActivate, Wanted

(* A request that becomes sure with this step, or stays so.                *)
LEMMA WakesKept ==
  ASSUME ServerlessTypes, NamesAgree, WakesAtMostOne, [ServerlessNext]_serverlessVars
  PROVE  WakesAtMostOne'
<1> SUFFICES ASSUME NEW r \in sure', reqs'[r].pc \in {"get", "patch"}
             PROVE  rss'[reqs'[r].fun] \in {Nothing, 0, 1}
  BY DEF WakesAtMostOne
<1>a. /\ rss \in [Fun -> Nat \cup {Nothing}] /\ reqs \in [Request -> Routed]
      /\ sure \in SUBSET Request
  BY DEF ServerlessTypes
<1>b. ASSUME r \in sure, reqs[r].pc \in {"get", "patch"}
      PROVE  reqs[r].fun \in Fun /\ rss[reqs[r].fun] \in {Nothing, 0, 1}
  BY <1>a, <1>b, RoutedTyped DEF WakesAtMostOne, Waking
<1>1. ASSUME NEW c \in Client, DeleteStep(c) PROVE rss'[reqs'[r].fun] \in {Nothing, 0, 1}
  BY <1>a, <1>b, <1>1 DEF DeleteStep
<1>2. CASE CreateReplicaSet
  BY <1>a, <1>b, <1>2 DEF CreateReplicaSet
<1>3. ASSUME NEW q \in Request, NEW f \in Fun, Route(q, f)
      PROVE  rss'[reqs'[r].fun] \in {Nothing, 0, 1}
  <2>1. CASE q # r
    <3>1. reqs'[r] = reqs[r] /\ rss' = rss /\ r \in sure
      BY <1>3, <1>a, <2>1 DEF Route, RouterGoes
    <3> QED BY <1>b, <3>1
  <2>2. CASE q = r
    <3>1. SeenAsItIs(f) /\ rss' = rss
      BY <1>3, <2>2 DEF Route
    <3>2. NeedActivate(stores.svc[stores.func[f].svc]) /\ reqs'[r].fun = f
      BY <1>3, <1>a, <2>2 DEF Route, RouterGoes
    <3>3. rss[f] \in {Nothing, 0}
      BY <1>3, <3>1, <3>2, WakesOnlyTheIdle DEF Route
    <3> QED BY <3>1, <3>2, <3>3
  <2> QED BY <2>1, <2>2
<1>4. ASSUME NEW q \in Request, NEW f \in Fun, RunWorkflow(q, f)
      PROVE  rss'[reqs'[r].fun] \in {Nothing, 0, 1}
  <2>1. q # r /\ r \in sure
    BY <1>4 DEF RunWorkflow
  <2>2. reqs'[r] = reqs[r] /\ rss' = rss
    BY <1>4, <1>a, <2>1 DEF RunWorkflow, RouterGoes
  <2> QED BY <1>b, <2>1, <2>2
<1>5. ASSUME NEW q \in Request, RequestStep(q) PROVE rss'[reqs'[r].fun] \in {Nothing, 0, 1}
  <2>0. r \in sure
    BY <1>5 DEF RequestStep, GetReplicaSet, PatchReplicaSet, AwaitEndpoints, Forward
  <2>1. reqs'[r].pc \in {"get", "patch"} => /\ reqs[r].pc \in {"get", "patch"}
                                           /\ reqs'[r].fun = reqs[r].fun
    <3>1. CASE GetReplicaSet(q)
      BY <1>a, <3>1, RoutedTyped DEF GetReplicaSet, RouterGoes, Idle, Waking
    <3>2. CASE PatchReplicaSet(q)
      BY <1>a, <3>2, RoutedTyped DEF PatchReplicaSet, RouterGoes, Idle, Waking
    <3>3. CASE AwaitEndpoints(q)
      BY <1>a, <3>3, RoutedTyped DEF AwaitEndpoints, RouterGoes, Idle, Waking
    <3>4. CASE Forward(q)
      BY <1>a, <3>4, RoutedTyped DEF Forward, RouterGoes, Idle
    <3> QED BY <1>5, <3>1, <3>2, <3>3, <3>4 DEF RequestStep
  <2>2. \A f \in Fun : rss'[f] \in {rss[f], Nothing, 1}
    BY <1>a, <1>5 DEF RequestStep, GetReplicaSet, PatchReplicaSet, AwaitEndpoints, Forward
  <2> QED BY <1>b, <2>0, <2>1, <2>2
<1>6. ASSUME NEW f \in Fun, Autoscale(f) PROVE rss'[reqs'[r].fun] \in {Nothing, 0, 1}
  <2>1. reqs' = reqs /\ r \in sure /\ reqs[r].fun # f
    BY <1>6, <1>a DEF Autoscale
  <2>2. reqs[r].fun \in Fun /\ rss[reqs[r].fun] \in {Nothing, 0, 1}
    BY <1>b, <2>1
  <2>3. rss'[reqs[r].fun] = rss[reqs[r].fun]
    BY <1>6, <1>a, <2>1, <2>2 DEF Autoscale
  <2> QED BY <2>1, <2>2, <2>3
<1>7. CASE UNCHANGED <<rss, reqs, sure>>
  BY <1>b, <1>7
<1> QED
  BY <1>1, <1>2, <1>3, <1>4, <1>5, <1>6, <1>7, ServerlessShapes
     DEF CreateService, DeleteBegins, DeleteFails, HangUp, CreateFunction, AwaitImage,
         TakeFunction, Build, PostStatus, CreateHpa, Break, LoseWatch, Learn, PodsFollow,
         etcdVars, serverlessVars

LEMMA ServerlessInits ==
  ServerlessInit => ServerlessTypes /\ NamesAgree /\ WakesAtMostOne
<1> SUFFICES ASSUME ServerlessInit PROVE ServerlessTypes /\ NamesAgree /\ WakesAtMostOne
  OBVIOUS
<1>1. ServerlessTypes
  <2>1. funcs \in Functions /\ svcs \in Services /\ stores \in [func : Functions, svc : Services]
    BY DEF ServerlessInit, Functions, Services
  <2>2. adds \in Seq(Added)
    BY EmptySeq DEF ServerlessInit
  <2>3. calls \in [Client -> Call] /\ reqs \in [Request -> Routed]
    BY DEF ServerlessInit, Call, Routed
  <2>4. world \in World
    BY ServerlessAssumption DEF ServerlessInit
  <2> QED BY <2>1, <2>2, <2>3, <2>4 DEF ServerlessInit, ServerlessTypes
<1>2. NamesAgree
  BY DEF ServerlessInit, NamesAgree, Refers, Idle
<1>3. WakesAtMostOne
  BY DEF ServerlessInit, WakesAtMostOne
<1> QED BY <1>1, <1>2, <1>3

LEMMA NamesHold == ServerlessSpec => [](ServerlessTypes /\ NamesAgree /\ WakesAtMostOne)
BY ServerlessInits, ServerlessTypesKept, NamesKept, WakesKept, PTL DEF ServerlessSpec

(* Whatever overlaps, a request takes replicas from a function only if the *)
(* router's view of it was old when the request came, if it belongs to a   *)
(* workflow, or if the autoscaler overtook it.                             *)
THEOREM RouterKeepsReplicas == ServerlessSpec => ActivationKeepsScale
<1>1. /\ ServerlessTypes /\ NamesAgree /\ WakesAtMostOne
      /\ [ServerlessNext]_serverlessVars
      => [\A r \in sure :
            reqs[r].pc = "patch" /\ reqs'[r] # reqs[r] /\ rss[reqs[r].fun] # Nothing
            => rss'[reqs[r].fun] >= rss[reqs[r].fun]]_serverlessVars
  <2> SUFFICES ASSUME ServerlessTypes, WakesAtMostOne, [ServerlessNext]_serverlessVars,
                      NEW r \in sure, reqs[r].pc = "patch", reqs'[r] # reqs[r],
                      rss[reqs[r].fun] # Nothing
               PROVE  rss'[reqs[r].fun] >= rss[reqs[r].fun]
    OBVIOUS
  <2>0. r \in Request
    BY DEF ServerlessTypes
  <2>1. rss[reqs[r].fun] \in {0, 1} /\ reqs[r].fun \in Fun
    BY <2>0, RoutedTyped DEF WakesAtMostOne, Waking
  <2>2. PatchReplicaSet(r)
    <3>1. CASE \E q \in Request, f \in Fun : Route(q, f) \/ RunWorkflow(q, f)
      BY <2>0, <3>1 DEF Route, RunWorkflow, RouterGoes, Idle, ServerlessTypes
    <3>2. CASE \E q \in Request : RequestStep(q)
      BY <2>0, <3>2 DEF RequestStep, GetReplicaSet, PatchReplicaSet, AwaitEndpoints, Forward,
                  RouterGoes, ServerlessTypes
    <3>3. reqs' # reqs
      OBVIOUS
    <3> QED
      BY <3>1, <3>2, <3>3, ServerlessShapes
         DEF CreateService, DeleteBegins, DeleteFails, HangUp, CreateFunction, AwaitImage, DeleteStep,
             TakeFunction, Build, PostStatus, CreateReplicaSet, CreateHpa, Break, LoseWatch,
             Learn, Autoscale, PodsFollow, serverlessVars
  <2>3. rss'[reqs[r].fun] = 1
    BY <2>1, <2>2 DEF PatchReplicaSet, ServerlessTypes
  <2> QED BY <2>1, <2>3
<1> QED BY <1>1, NamesHold, PTL DEF ServerlessSpec, ActivationKeepsScale

-------------------------------------------------------------------------------
(* Functions that are created, built and deleted.                          *)

Makes(c, f) == calls[c].pc = "put" /\ calls[c].fun = f
Removes(c, f) == calls[c].pc \in Deleting /\ calls[c].fun = f

(* The function of an event, or of the controller, is there and is the     *)
(* same function.                                                          *)
IsThere(e) == funcs[e.fun] # Nothing /\ funcs[e.fun].svc = e.svc

(* In orderly worlds a call that creates or deletes has everything to      *)
(* itself, and nothing is built that is not there.                         *)
CallsTakeTurns ==
  /\ \A c, d \in Client : calls[c] # Idle /\ calls[d] # Idle => c = d
  /\ \A c \in Client : calls[c].pc = "put" => funcs[calls[c].fun] = Nothing
  /\ \A c \in Client : calls[c].pc \in Deleting => IsThere(calls[c])
  /\ \A c \in Client : calls[c].pc \in {"put"} \cup Deleting => adds = <<>> /\ building = Nothing
  /\ world.may["delete"] = 0 => \A c \in Client : calls[c].pc \notin Deleting
BuildsWhatIsThere ==
  /\ \A i \in DOMAIN adds : IsThere(adds[i])
  /\ building # Nothing => IsThere(building)
InTurn == Orderly => CallsTakeTurns /\ BuildsWhatIsThere

LEMMA CreatesTheAbsent ==
  ASSUME ServerlessTypes, Orderly, NEW c \in Client, NEW f \in Fun, CreateService(c, f)
  PROVE  funcs[f] = Nothing /\ Rested
<1>1. funcs[f] # Nothing => Disturb("overwrite")
  BY DEF CreateService
<1> QED BY <1>1, DisturbTyped DEF CreateService, Orderly, Disturbance

LEMMA InTurnKept ==
  ASSUME ServerlessTypes, InTurn, [ServerlessNext]_serverlessVars PROVE InTurn'
<1>0. world' = world
  BY WorldStays
<1> SUFFICES ASSUME Orderly, CallsTakeTurns, BuildsWhatIsThere
             PROVE  CallsTakeTurns' /\ BuildsWhatIsThere'
  BY <1>0 DEF InTurn, Orderly
<1>a. calls \in [Client -> Call] /\ funcs \in Functions
  BY DEF ServerlessTypes
<1>i. Idle.pc \notin {"put"} \cup Deleting
  BY DEF Idle, Deleting
<1>b. ASSUME UNCHANGED <<funcs, adds, building>>,
             \A c \in Client : calls'[c] # Idle => calls[c] # Idle,
             \A c \in Client : calls'[c].pc \in {"put"} \cup Deleting => calls'[c] = calls[c]
      PROVE  CallsTakeTurns' /\ BuildsWhatIsThere'
  BY <1>b, <1>0 DEF CallsTakeTurns, BuildsWhatIsThere, IsThere
<1>1. ASSUME NEW c \in Client, NEW f \in Fun, CreateService(c, f)
      PROVE  CallsTakeTurns' /\ BuildsWhatIsThere'
  <2>1. funcs[f] = Nothing /\ Rested
    BY <1>1, CreatesTheAbsent
  <2>2. calls' = [calls EXCEPT ![c] = [pc |-> "put", fun |-> f, svc |-> named + 1]]
    BY <1>1 DEF CreateService
  <2>3. \A d \in Client : d # c => calls'[d] = Idle
    BY <1>a, <2>1, <2>2 DEF Rested
  <2>4. calls'[c].pc = "put" /\ calls'[c].fun = f
    BY <1>a, <2>2
  <2>5. UNCHANGED <<funcs, adds, building>> /\ adds = <<>> /\ building = Nothing
    BY <1>1, <2>1 DEF CreateService, ctlVars, Rested
  <2>6. CallsTakeTurns'
    BY <1>i, <2>1, <2>3, <2>4, <2>5 DEF CallsTakeTurns, Deleting
  <2> QED BY <2>5, <2>6 DEF BuildsWhatIsThere
<1>2. ASSUME NEW c \in Client, CreateFunction(c) PROVE CallsTakeTurns' /\ BuildsWhatIsThere'
  <2>. DEFINE f == calls[c].fun
              n == calls[c].svc
  <2>1. /\ funcs[f] = Nothing /\ adds = <<>> /\ building = Nothing /\ f \in Fun
        /\ n \in SvcName
    BY <1>2, CallsTyped DEF CreateFunction, CallsTakeTurns
  <2>2. /\ funcs' = [funcs EXCEPT ![f] = [svc |-> n, image |-> FALSE]]
        /\ adds' = <<[fun |-> f, svc |-> n]>>
        /\ building' = building
    BY <1>2, <2>1 DEF CreateFunction, PutFunction
  <2>3. calls' = [calls EXCEPT ![c] = [pc |-> "poll", fun |-> f, polls |-> 0]]
    BY <1>2 DEF CreateFunction
  <2>4. calls[c] # Idle
    BY <1>2 DEF CreateFunction, Idle
  <2>5. \A d \in Client : calls'[d].pc \notin {"put"} \cup Deleting
    BY <1>a, <1>i, <2>3, <2>4 DEF CallsTakeTurns, Deleting
  <2>6. \A d \in Client : calls'[d] # Idle => calls[d] # Idle
    BY <1>a, <2>3, <2>4
  <2>7. CallsTakeTurns'
    BY <2>5, <2>6 DEF CallsTakeTurns
  <2>8. [svc |-> n, image |-> FALSE] \in Function
    BY <2>1 DEF Function
  <2>9. funcs'[f] # Nothing /\ funcs'[f].svc = n
    BY <1>a, <2>1, <2>2, <2>8, ServerlessAssumption DEF Functions
  <2>10. \A i \in DOMAIN adds' : adds'[i] = [fun |-> f, svc |-> n]
    BY <2>2
  <2>11. BuildsWhatIsThere'
    BY <2>1, <2>2, <2>9, <2>10 DEF BuildsWhatIsThere, IsThere
  <2> QED BY <2>7, <2>11
<1>3. ASSUME NEW c \in Client, HangUp(c) \/ AwaitImage(c)
      PROVE  CallsTakeTurns' /\ BuildsWhatIsThere'
  <2>1. UNCHANGED <<funcs, adds, building>>
    BY <1>3 DEF HangUp, AwaitImage, etcdVars, ctlVars
  <2>2. /\ \A d \in Client : d # c => calls'[d] = calls[d]
        /\ calls[c] # Idle
        /\ calls'[c].pc \notin {"put"} \cup Deleting
    <3>1. CASE HangUp(c)
      BY <1>a, <1>i, <3>1 DEF HangUp
    <3>2. CASE AwaitImage(c)
      <4>1. calls[c] \in [pc : {"poll"}, fun : Fun, polls : Nat]
        BY <3>2, CallsTyped DEF AwaitImage
      <4>2. \/ calls' = [calls EXCEPT ![c] = Idle]
            \/ calls' = [calls EXCEPT ![c] = [calls[c] EXCEPT !.polls = @ + 1]]
        BY <3>2 DEF AwaitImage
      <4>3. [calls[c] EXCEPT !.polls = @ + 1].pc = "poll" /\ "poll" \notin Deleting
        BY <4>1 DEF Deleting
      <4>4. calls[c] # Idle
        BY <4>1 DEF Idle
      <4> QED BY <1>a, <1>i, <4>2, <4>3, <4>4
    <3> QED BY <1>3, <3>1, <3>2
  <2> QED BY <1>b, <2>1, <2>2
<1>4. ASSUME NEW c \in Client, NEW f \in Fun, DeleteBegins(c, f)
      PROVE  CallsTakeTurns' /\ BuildsWhatIsThere'
  <2>1. Rested /\ funcs[f] # Nothing /\ world.may["delete"] # 0
    BY <1>4, DisturbTyped DEF DeleteBegins, Orderly, Disturbance
  <2>2. calls' = [calls EXCEPT ![c] = [pc |-> "service", fun |-> f, svc |-> funcs[f].svc]]
    BY <1>4 DEF DeleteBegins
  <2>3. \A d \in Client : d # c => calls'[d] = Idle
    BY <1>a, <2>1, <2>2 DEF Rested
  <2>4. calls'[c] = [pc |-> "service", fun |-> f, svc |-> funcs[f].svc]
    BY <1>a, <2>2
  <2>5. UNCHANGED <<funcs, adds, building>> /\ adds = <<>> /\ building = Nothing
    BY <1>4, <2>1 DEF DeleteBegins, etcdVars, ctlVars, Rested
  <2>6. CallsTakeTurns'
    <3>1. calls'[c].pc # "put" /\ calls'[c].fun = f /\ calls'[c].svc = funcs[f].svc
      BY <2>4
    <3>2. IsThere(calls[c])' /\ \A d \in Client : calls'[d].pc # "put"
      BY <1>i, <2>1, <2>3, <2>5, <3>1 DEF IsThere
    <3>3. \A d \in Client : calls'[d].pc \in Deleting => IsThere(calls[d])'
      BY <1>i, <2>3, <3>2
    <3> QED BY <1>0, <2>1, <2>3, <2>5, <3>2, <3>3 DEF CallsTakeTurns
  <2> QED BY <2>5, <2>6 DEF BuildsWhatIsThere
<1>5. ASSUME NEW c \in Client, DeleteStep(c) PROVE CallsTakeTurns' /\ BuildsWhatIsThere'
  <2>. DEFINE f == calls[c].fun
              after == AfterDeleting(calls[c].pc)
  <2>1. calls[c].pc \in Deleting /\ calls[c] # Idle
    BY <1>5, <1>i DEF DeleteStep, Deleting
  <2>2. /\ adds = <<>> /\ building = Nothing /\ UNCHANGED <<adds, building>>
        /\ IsThere(calls[c]) /\ world.may["delete"] # 0
    BY <1>5, <2>1 DEF CallsTakeTurns, DeleteStep, ctlVars
  <2>3. \A d \in Client : d # c => calls'[d] = Idle
    BY <1>a, <1>5, <2>1 DEF CallsTakeTurns, DeleteStep
  <2>4. calls[c] \in [pc : {"put"} \cup Deleting, fun : Fun, svc : SvcName]
    BY <2>1, CallsTyped
  <2>5. CASE calls[c].pc = "function"
    <3>1. calls'[c] = Idle
      BY <1>a, <1>5, <2>5 DEF DeleteStep, AfterDeleting
    <3> QED BY <1>i, <2>2, <2>3, <3>1 DEF CallsTakeTurns, BuildsWhatIsThere
  <2>6. CASE calls[c].pc # "function"
    <3>1. /\ funcs' = funcs /\ calls'[c].fun = f /\ calls'[c].svc = calls[c].svc
          /\ calls'[c].pc # "put"
      BY <1>a, <1>5, <2>4, <2>6 DEF DeleteStep, AfterDeleting
    <3>2. IsThere(calls[c])'
      BY <2>2, <3>1 DEF IsThere
    <3>3. \A d \in Client : /\ calls'[d].pc # "put"
                            /\ calls'[d].pc \in Deleting => IsThere(calls[d])'
      BY <1>i, <2>3, <3>1, <3>2
    <3> QED BY <1>0, <2>2, <2>3, <3>3 DEF CallsTakeTurns, BuildsWhatIsThere
  <2> QED BY <2>5, <2>6
<1>f. ASSUME NEW c \in Client, DeleteFails(c) PROVE CallsTakeTurns' /\ BuildsWhatIsThere'
  <2>1. calls[c].pc \in Deleting /\ calls[c] # Idle
    BY <1>f, <1>i DEF DeleteFails, Deleting
  <2>2. /\ adds = <<>> /\ building = Nothing /\ UNCHANGED <<funcs, adds, building>>
        /\ IsThere(calls[c]) /\ world.may["delete"] # 0
    BY <1>f, <2>1 DEF CallsTakeTurns, DeleteFails, etcdVars, ctlVars
  <2>3. \A d \in Client : d # c => calls'[d] = Idle
    BY <1>a, <1>f, <2>1 DEF CallsTakeTurns, DeleteFails
  <2>4. calls[c] \in [pc : {"put"} \cup Deleting, fun : Fun, svc : SvcName]
    BY <2>1, CallsTyped
  <2>5. CASE calls[c].pc = "function"
    <3>1. calls'[c] = Idle
      BY <1>a, <1>f, <2>5 DEF DeleteFails, AfterDeleting
    <3> QED BY <1>i, <2>2, <2>3, <3>1 DEF CallsTakeTurns, BuildsWhatIsThere
  <2>6. CASE calls[c].pc # "function"
    <3>1. /\ calls'[c].fun = calls[c].fun /\ calls'[c].svc = calls[c].svc
          /\ calls'[c].pc # "put"
      BY <1>a, <1>f, <2>4, <2>6 DEF DeleteFails, AfterDeleting
    <3>2. IsThere(calls[c])'
      BY <2>2, <3>1 DEF IsThere
    <3>3. \A d \in Client : /\ calls'[d].pc # "put"
                            /\ calls'[d].pc \in Deleting => IsThere(calls[d])'
      BY <1>i, <2>3, <3>1, <3>2
    <3> QED BY <1>0, <2>2, <2>3, <3>3 DEF CallsTakeTurns, BuildsWhatIsThere
  <2> QED BY <2>5, <2>6
<1>6. CASE TakeFunction
  <2>1. /\ building' = [pc |-> "build", fun |-> adds[1].fun, svc |-> adds[1].svc]
        /\ adds # <<>> /\ 1 \in DOMAIN adds
        /\ \A i \in DOMAIN adds' : i + 1 \in DOMAIN adds /\ adds'[i] = adds[i + 1]
        /\ UNCHANGED <<funcs, calls>>
    BY <1>6, HeadTailProperties DEF TakeFunction, ServerlessTypes, etcdVars
  <2>2. CallsTakeTurns'
    BY <1>0, <2>1 DEF CallsTakeTurns
  <2>3. BuildsWhatIsThere'
    BY <2>1 DEF BuildsWhatIsThere, IsThere
  <2> QED BY <2>2, <2>3
<1>7. CASE Build \/ CreateReplicaSet \/ CreateHpa \/ Break
  <2>1. UNCHANGED <<funcs, calls, adds>>
    BY <1>7 DEF Build, CreateReplicaSet, CreateHpa, Break, etcdVars
  <2>2. building # Nothing
    BY <1>7 DEF Build, CreateReplicaSet, CreateHpa, Break, At
  <2>3. building' # Nothing => building'.fun = building.fun /\ building'.svc = building.svc
    BY <1>7 DEF Build, CreateReplicaSet, CreateHpa, Break, At, ServerlessTypes, Work
  <2> QED BY <1>0, <2>1, <2>2, <2>3 DEF CallsTakeTurns, BuildsWhatIsThere, IsThere
<1>8. CASE PostStatus
  <2>1. /\ building \in Work /\ building # Nothing /\ calls' = calls
        /\ building' # Nothing => building'.fun = building.fun /\ building'.svc = building.svc
    BY <1>8 DEF PostStatus, At, ServerlessTypes, Work
  <2>2. IsThere(building) /\ building.fun \in Fun /\ building.svc \in SvcName
    BY <2>1 DEF BuildsWhatIsThere, Work
  <2>3. /\ funcs' = [funcs EXCEPT ![building.fun] = [svc |-> building.svc, image |-> TRUE]]
        /\ adds' = adds
    BY <1>8, <2>2 DEF PostStatus, PutFunction, IsThere
  <2>4. [svc |-> building.svc, image |-> TRUE] \in Function
    BY <2>2 DEF Function
  <2>5. \A e : e.fun \in Fun /\ IsThere(e) => IsThere(e)'
    BY <1>a, <2>2, <2>3, <2>4, ServerlessAssumption DEF IsThere, Functions
  <2>6. \A c \in Client : calls[c].pc \notin {"put"} \cup Deleting
    BY <2>1 DEF CallsTakeTurns
  <2>7. CallsTakeTurns'
    BY <2>1, <2>6 DEF CallsTakeTurns
  <2>8. \A i \in DOMAIN adds : adds[i].fun \in Fun
    <3>1. \A i \in DOMAIN adds : adds[i] \in Added
      BY DEF ServerlessTypes
    <3> QED BY <3>1 DEF Added
  <2> QED BY <2>1, <2>2, <2>3, <2>5, <2>7, <2>8 DEF BuildsWhatIsThere, IsThere
<1>9. CASE LoseWatch
  <2>1. \A i \in DOMAIN adds' : i \in DOMAIN adds /\ adds'[i] = adds[i]
    <3>1. PICK k \in 0 .. Len(adds) : adds' = SubSeq(adds, 1, k)
      BY <1>9 DEF LoseWatch
    <3> QED BY <3>1 DEF ServerlessTypes
  <2>2. adds = <<>> => adds' = <<>>
    BY <1>9 DEF LoseWatch
  <2>3. UNCHANGED <<funcs, calls, building>>
    BY <1>9 DEF LoseWatch, etcdVars
  <2> QED BY <1>0, <2>1, <2>2, <2>3 DEF CallsTakeTurns, BuildsWhatIsThere, IsThere
<1>10. CASE UNCHANGED <<funcs, calls, adds, building>>
  BY <1>b, <1>10
<1> QED
  BY <1>1, <1>2, <1>3, <1>4, <1>5, <1>f, <1>6, <1>7, <1>8, <1>9, <1>10, ServerlessShapes
     DEF Learn, Route, RunWorkflow, RequestStep, GetReplicaSet, PatchReplicaSet,
         AwaitEndpoints, Forward, RouterGoes, Autoscale, PodsFollow, etcdVars, ctlVars,
         serverlessVars

-------------------------------------------------------------------------------
(* What is left of a function.                                             *)

ServicesOf(f) == {n \in SvcName : svcs[n] # Nothing /\ svcs[n].fun = f}

(* A function that is not there has no objects but, while it is created,   *)
(* its new service; one that is there has no service but its own; one that *)
(* is deleted loses its objects in order.                                  *)
AbsentHasNothing(f) ==
  /\ rss[f] = Nothing /\ f \notin hpas
  /\ \A n \in ServicesOf(f) : \E c \in Client : Makes(c, f) /\ calls[c].svc = n
LosesInOrder(c) ==
  /\ calls[c].pc \in Deleting \ {"service"} => ServicesOf(calls[c].fun) = {}
  /\ calls[c].pc \in {"autoscaler", "function"} => rss[calls[c].fun] = Nothing
  /\ calls[c].pc = "function" => calls[c].fun \notin hpas
LeavesNothing ==
  /\ \A f \in Fun : funcs[f] = Nothing => AbsentHasNothing(f)
  /\ \A f \in Fun : funcs[f] # Nothing => ServicesOf(f) \subseteq {funcs[f].svc}
  /\ \A c \in Client : calls[c].pc \in Deleting => LosesInOrder(c)
NothingLeft == Orderly /\ world.may["hangup"] = 0 /\ world.may["fail"] = 0 => LeavesNothing

(* A step that makes objects only of functions that are there and are not  *)
(* deleted.                                                                *)
LEMMA NothingLeftStays ==
  ASSUME ServerlessTypes, LeavesNothing,
         \A f \in Fun : /\ funcs'[f] = Nothing <=> funcs[f] = Nothing
                        /\ funcs[f] # Nothing => funcs'[f].svc = funcs[f].svc
                        /\ ServicesOf(f)' = ServicesOf(f)
                        /\ (funcs[f] = Nothing \/ \E c \in Client : Removes(c, f)) =>
                             /\ rss[f] = Nothing => rss'[f] = Nothing
                             /\ f \notin hpas => f \notin hpas',
         \A c \in Client : calls[c].pc = "put" => calls'[c] = calls[c],
         \A c \in Client : calls'[c].pc \in Deleting => calls'[c] = calls[c]
  PROVE  LeavesNothing'
<1>1. \A f \in Fun : funcs'[f] = Nothing => AbsentHasNothing(f)'
  BY DEF LeavesNothing, AbsentHasNothing, Makes
<1>2. \A f \in Fun : funcs'[f] # Nothing => ServicesOf(f)' \subseteq {funcs'[f].svc}
  BY DEF LeavesNothing
<1>3. ASSUME NEW c \in Client, calls'[c].pc \in Deleting PROVE LosesInOrder(c)'
  <2>1. calls'[c] = calls[c] /\ LosesInOrder(c)
    BY <1>3 DEF LeavesNothing
  <2>2. PICK f \in Fun : calls[c].fun = f
    BY <1>3, <2>1, CallsTyped
  <2>3. Removes(c, f)
    BY <1>3, <2>1, <2>2 DEF Removes
  <2>4. /\ ServicesOf(f)' = ServicesOf(f)
        /\ rss[f] = Nothing => rss'[f] = Nothing
        /\ f \notin hpas => f \notin hpas'
    BY <2>3
  <2>5. ServicesOf(calls[c].fun)' = ServicesOf(calls[c].fun)
    <3>1. ServicesOf(calls[c].fun) = ServicesOf(f)
      BY <2>2
    <3>2. ServicesOf(calls[c].fun)' = ServicesOf(f)'
      BY <2>1, <2>2 DEF ServicesOf
    <3> QED BY <2>4, <3>1, <3>2
  <2> QED BY <2>1, <2>2, <2>4, <2>5 DEF LosesInOrder
<1> QED BY <1>1, <1>2, <1>3 DEF LeavesNothing

(* Services come and go only by users' calls.                              *)
LEMMA ServicesStay ==
  ASSUME ServerlessTypes, NEW n \in SvcName, PodsFollow(n), NEW f \in Fun
  PROVE  ServicesOf(f)' = ServicesOf(f)
<1>1. svcs[n] \in Service /\ svcs[n] # Nothing
  BY DEF PodsFollow, ServerlessTypes, Services
<1>2. [svcs[n] EXCEPT !.ready = ~@] \in Service /\ [svcs[n] EXCEPT !.ready = ~@].fun = svcs[n].fun
  BY <1>1 DEF Service
<1>3. svcs' = [svcs EXCEPT ![n] = [svcs[n] EXCEPT !.ready = ~@]]
  BY DEF PodsFollow
<1>4. \A m \in SvcName : /\ svcs'[m] = Nothing <=> svcs[m] = Nothing
                         /\ svcs[m] # Nothing => svcs'[m].fun = svcs[m].fun
  BY <1>1, <1>2, <1>3, ServerlessAssumption DEF ServerlessTypes, Services
<1> QED BY <1>4 DEF ServicesOf

LEMMA NothingLeftKept ==
  ASSUME ServerlessTypes, NamesAgree, InTurn, InTurn', NothingLeft,
         [ServerlessNext]_serverlessVars
  PROVE  NothingLeft'
<1>0. world' = world
  BY WorldStays
<1> SUFFICES ASSUME Orderly, world.may["hangup"] = 0, world.may["fail"] = 0, LeavesNothing
             PROVE LeavesNothing'
  BY <1>0 DEF NothingLeft, Orderly
<1>t. CallsTakeTurns /\ BuildsWhatIsThere /\ CallsTakeTurns'
  BY <1>0 DEF InTurn, Orderly
<1>a. /\ calls \in [Client -> Call] /\ funcs \in Functions /\ svcs \in Services
      /\ rss \in [Fun -> Nat \cup {Nothing}]
  BY DEF ServerlessTypes
<1>i. Idle.pc \notin {"put"} \cup Deleting /\ "put" \notin Deleting
  BY DEF Idle, Deleting
<1>1. ASSUME NEW c \in Client, NEW f \in Fun, CreateService(c, f) PROVE LeavesNothing'
  <2>1. funcs[f] = Nothing /\ Rested
    BY <1>1, CreatesTheAbsent
  <2>2. /\ calls' = [calls EXCEPT ![c] = [pc |-> "put", fun |-> f, svc |-> named + 1]]
        /\ svcs' = [svcs EXCEPT ![named + 1] = [fun |-> f, ready |-> FALSE]]
        /\ named + 1 \in SvcName
        /\ UNCHANGED <<funcs, rss, hpas>>
    BY <1>1 DEF CreateService
  <2>3. \A d \in Client : calls[d] = Idle
    BY <2>1 DEF Rested
  <2>4. \A d \in Client : calls'[d].pc \notin Deleting
    BY <1>a, <1>i, <2>2, <2>3
  <2>5. \A g \in Fun : funcs[g] = Nothing => ServicesOf(g) = {}
    BY <1>i, <2>3 DEF LeavesNothing, AbsentHasNothing, Makes
  <2>6. /\ ServicesOf(f)' \subseteq ServicesOf(f) \cup {named + 1}
        /\ \A g \in Fun : g # f => ServicesOf(g)' \subseteq ServicesOf(g)
    BY <1>a, <2>2 DEF ServicesOf, Services
  <2>7. Makes(c, f)' /\ calls'[c].svc = named + 1
    BY <1>a, <2>2 DEF Makes
  <2>8. \A g \in Fun : funcs'[g] = Nothing => AbsentHasNothing(g)'
    <3>1. ASSUME NEW g \in Fun, funcs'[g] = Nothing PROVE AbsentHasNothing(g)'
      <4>1. rss'[g] = Nothing /\ g \notin hpas' /\ ServicesOf(g) = {}
        BY <2>2, <2>5, <3>1 DEF LeavesNothing, AbsentHasNothing
      <4>2. \A n \in ServicesOf(g)' : n = named + 1 /\ g = f
        BY <2>6, <4>1
      <4> QED BY <2>7, <4>1, <4>2 DEF AbsentHasNothing
    <3> QED BY <3>1
  <2>9. \A g \in Fun : funcs'[g] # Nothing => ServicesOf(g)' \subseteq {funcs'[g].svc}
    BY <2>1, <2>2, <2>6 DEF LeavesNothing
  <2> QED BY <2>4, <2>8, <2>9 DEF LeavesNothing
<1>2. ASSUME NEW c \in Client, CreateFunction(c) PROVE LeavesNothing'
  <2>1. PICK f \in Fun, n \in SvcName : calls[c].fun = f /\ calls[c].svc = n /\ calls[c].pc = "put"
    BY <1>2, CallsTyped DEF CreateFunction
  <2>2. /\ funcs' = [funcs EXCEPT ![f] = [svc |-> n, image |-> FALSE]]
        /\ UNCHANGED <<svcs, rss, hpas>>
    BY <1>2, <2>1 DEF CreateFunction, PutFunction
  <2>3. \A d \in Client : d # c => calls[d] = Idle /\ calls'[d] = Idle
    BY <1>a, <1>i, <1>2, <2>1, <1>t DEF CallsTakeTurns, CreateFunction
  <2>4. calls'[c].pc = "poll"
    BY <1>a, <1>2 DEF CreateFunction
  <2>5. \A d \in Client : calls'[d].pc \notin Deleting
    BY <1>i, <2>3, <2>4 DEF Deleting
  <2>6. [svc |-> n, image |-> FALSE] # Nothing
    <3>1. [svc |-> n, image |-> FALSE] \in Function
      BY DEF Function
    <3> QED BY <3>1, ServerlessAssumption
  <2>7. \A g \in Fun : ServicesOf(g)' = ServicesOf(g)
    BY <2>2 DEF ServicesOf
  <2>8. ASSUME NEW g \in Fun, funcs'[g] = Nothing PROVE AbsentHasNothing(g)'
    <3>1. g # f /\ funcs[g] = Nothing
      BY <1>a, <2>2, <2>6, <2>8 DEF Functions
    <3>2. AbsentHasNothing(g)
      BY <3>1 DEF LeavesNothing
    <3>3. ServicesOf(g) = {}
      BY <1>i, <2>1, <2>3, <3>1, <3>2 DEF AbsentHasNothing, Makes
    <3> QED BY <2>2, <2>7, <3>2, <3>3 DEF AbsentHasNothing
  <2>9. ASSUME NEW g \in Fun, funcs'[g] # Nothing PROVE ServicesOf(g)' \subseteq {funcs'[g].svc}
    <3>1. CASE g = f
      <4>1. funcs[f] = Nothing
        BY <1>t, <2>1 DEF CallsTakeTurns
      <4>2. AbsentHasNothing(f)
        BY <4>1 DEF LeavesNothing
      <4>3. ServicesOf(f) \subseteq {n}
        BY <1>i, <2>1, <2>3, <4>2 DEF AbsentHasNothing, Makes
      <4> QED BY <1>a, <2>2, <2>7, <3>1, <4>3 DEF Functions
    <3>2. CASE g # f
      BY <1>a, <2>2, <2>7, <2>9, <3>2 DEF Functions, LeavesNothing
    <3> QED BY <3>1, <3>2
  <2> QED BY <2>5, <2>8, <2>9 DEF LeavesNothing
<1>3. ASSUME NEW c \in Client, DeleteFails(c) \/ HangUp(c) PROVE FALSE
  BY <1>3, DisturbTyped DEF DeleteFails, HangUp, Disturbance
<1>4. ASSUME NEW c \in Client, NEW f \in Fun, DeleteBegins(c, f) PROVE LeavesNothing'
  <2>1. Rested /\ UNCHANGED <<funcs, svcs, rss, hpas>>
    BY <1>4 DEF DeleteBegins, Orderly, etcdVars
  <2>2. calls' = [calls EXCEPT ![c] = [pc |-> "service", fun |-> f, svc |-> funcs[f].svc]]
    BY <1>4 DEF DeleteBegins
  <2>3. \A d \in Client : calls[d] = Idle
    BY <2>1 DEF Rested
  <2>4. \A d \in Client : calls'[d].pc \in Deleting => calls'[d].pc = "service"
    BY <1>a, <1>i, <2>2, <2>3
  <2>5. \A d \in Client : calls'[d].pc \in Deleting => LosesInOrder(d)'
    BY <2>4 DEF LosesInOrder, Deleting
  <2>6. \A g \in Fun : ServicesOf(g)' = ServicesOf(g)
    BY <2>1 DEF ServicesOf
  <2>7. \A g \in Fun : funcs[g] = Nothing => AbsentHasNothing(g)'
    BY <1>i, <2>1, <2>3, <2>6 DEF LeavesNothing, AbsentHasNothing, Makes
  <2> QED BY <2>1, <2>5, <2>6, <2>7 DEF LeavesNothing
<1>5. ASSUME NEW c \in Client, DeleteStep(c) PROVE LeavesNothing'
  <2>1. calls[c].pc \in Deleting
    BY <1>5 DEF DeleteStep, Deleting
  <2>2. PICK f \in Fun, n \in SvcName : calls[c].fun = f /\ calls[c].svc = n
    BY <2>1, CallsTyped
  <2>3. funcs[f] # Nothing /\ funcs[f].svc = n
    BY <1>t, <2>1, <2>2 DEF CallsTakeTurns, IsThere
  <2>4. \A d \in Client : d # c => calls[d] = Idle /\ calls'[d] = Idle
    BY <1>a, <1>i, <1>5, <2>1, <1>t DEF CallsTakeTurns, DeleteStep
  <2>5. LosesInOrder(c) /\ ServicesOf(f) \subseteq {n}
    BY <2>1, <2>3 DEF LeavesNothing
  <2>6. \A g \in Fun : g # f =>
           /\ funcs'[g] = funcs[g] /\ rss'[g] = rss[g] /\ (g \in hpas' <=> g \in hpas)
           /\ ServicesOf(g)' \subseteq ServicesOf(g)
    BY <1>a, <1>5, <2>2 DEF DeleteStep, Functions, Services, ServicesOf
  <2>7. /\ funcs'[f] \in {funcs[f], Nothing} /\ ServicesOf(f)' \subseteq ServicesOf(f)
        /\ rss'[f] \in {rss[f], Nothing} /\ (f \in hpas' => f \in hpas)
    BY <1>a, <1>5, <2>2 DEF DeleteStep, Functions, Services, ServicesOf
  <2>8. ASSUME NEW g \in Fun, g # f, funcs'[g] = Nothing PROVE AbsentHasNothing(g)'
    <3>1. AbsentHasNothing(g)
      BY <2>6, <2>8 DEF LeavesNothing
    <3>2. ServicesOf(g) = {}
      BY <1>i, <2>1, <2>4, <3>1 DEF AbsentHasNothing, Makes
    <3> QED BY <2>6, <2>8, <3>1, <3>2 DEF AbsentHasNothing
  <2>9. ASSUME NEW g \in Fun, funcs'[g] # Nothing PROVE ServicesOf(g)' \subseteq {funcs'[g].svc}
    <3>1. ServicesOf(g) \subseteq {funcs[g].svc}
      BY <2>3, <2>6, <2>9 DEF LeavesNothing
    <3> QED BY <2>6, <2>7, <2>9, <3>1
  <2>10. CASE calls[c].pc = "function"
    <3>1. calls'[c] = Idle /\ UNCHANGED <<svcs, rss, hpas>>
      BY <1>a, <1>5, <2>10 DEF DeleteStep, AfterDeleting
    <3>2. ServicesOf(f) = {} /\ rss[f] = Nothing /\ f \notin hpas
      BY <2>2, <2>5, <2>10 DEF LosesInOrder, Deleting
    <3>3. AbsentHasNothing(f)'
      BY <2>7, <3>1, <3>2 DEF AbsentHasNothing
    <3>4. \A d \in Client : calls'[d].pc \notin Deleting
      BY <1>i, <2>4, <3>1
    <3> QED BY <2>8, <2>9, <3>3, <3>4 DEF LeavesNothing
  <2>11. CASE calls[c].pc # "function"
    <3>1. funcs'[f] = funcs[f] /\ calls'[c].fun = f
      BY <1>a, <1>5, <2>1, <2>2, <2>11, CallsTyped DEF DeleteStep, AfterDeleting, Deleting
    <3>2. ASSUME calls[c].pc = "service" PROVE LosesInOrder(c)'
      <4>1. calls'[c].pc = "replica set"
        BY <1>a, <1>5, <3>2, CallsTyped DEF DeleteStep, AfterDeleting, Deleting
      <4>2. svcs' = [svcs EXCEPT ![n] = Nothing]
        BY <1>5, <2>2, <3>2 DEF DeleteStep
      <4>3. ServicesOf(f)' = {}
        BY <1>a, <2>5, <2>7, <4>2 DEF ServicesOf, Services
      <4>4. ServicesOf(calls[c].fun)' = {}
        BY <3>1, <4>3 DEF ServicesOf
      <4> QED BY <4>1, <4>4 DEF LosesInOrder, Deleting
    <3>3. ASSUME calls[c].pc = "replica set" PROVE LosesInOrder(c)'
      <4>1. calls'[c].pc = "autoscaler"
        BY <1>a, <1>5, <3>3, CallsTyped DEF DeleteStep, AfterDeleting, Deleting
      <4>2. rss'[f] = Nothing /\ svcs' = svcs
        BY <1>a, <1>5, <2>2, <3>3 DEF DeleteStep
      <4>3. ServicesOf(calls[c].fun)' = {}
        BY <2>2, <2>5, <3>1, <3>3, <4>2 DEF ServicesOf, LosesInOrder, Deleting
      <4> QED BY <3>1, <4>1, <4>2, <4>3 DEF LosesInOrder, Deleting
    <3>4. ASSUME calls[c].pc = "autoscaler" PROVE LosesInOrder(c)'
      <4>1. calls'[c].pc = "function"
        BY <1>a, <1>5, <3>4, CallsTyped DEF DeleteStep, AfterDeleting, Deleting
      <4>2. f \notin hpas' /\ svcs' = svcs /\ rss' = rss
        BY <1>5, <2>2, <3>4 DEF DeleteStep
      <4>3. ServicesOf(calls[c].fun)' = {} /\ rss[f] = Nothing
        BY <2>2, <2>5, <3>1, <3>4, <4>2 DEF ServicesOf, LosesInOrder, Deleting
      <4> QED BY <3>1, <4>1, <4>2, <4>3 DEF LosesInOrder, Deleting
    <3>5. LosesInOrder(c)'
      BY <2>1, <2>11, <3>2, <3>3, <3>4 DEF Deleting
    <3>6. \A d \in Client : calls'[d].pc \in Deleting => LosesInOrder(d)'
      BY <1>i, <2>4, <3>5
    <3> QED BY <2>3, <2>8, <2>9, <3>1, <3>6 DEF LeavesNothing
  <2> QED BY <2>10, <2>11
<1>6. ASSUME NEW c \in Client, AwaitImage(c) PROVE LeavesNothing'
  <2>1. calls[c] \in [pc : {"poll"}, fun : Fun, polls : Nat]
    BY <1>6, CallsTyped DEF AwaitImage
  <2>2. \/ calls' = [calls EXCEPT ![c] = Idle]
        \/ calls' = [calls EXCEPT ![c] = [calls[c] EXCEPT !.polls = @ + 1]]
    BY <1>6 DEF AwaitImage
  <2>3. [calls[c] EXCEPT !.polls = @ + 1].pc = "poll" /\ "poll" \notin Deleting
    BY <2>1 DEF Deleting
  <2>4. /\ \A d \in Client : calls[d].pc = "put" => calls'[d] = calls[d]
        /\ \A d \in Client : calls'[d].pc \in Deleting => calls'[d] = calls[d]
    BY <1>a, <1>i, <2>1, <2>2, <2>3
  <2>5. UNCHANGED <<funcs, svcs, rss, hpas>>
    BY <1>6 DEF AwaitImage, etcdVars
  <2> QED BY <2>4, <2>5, NothingLeftStays DEF ServicesOf
<1>7. CASE PostStatus
  <2>1. building \in Work /\ building # Nothing /\ UNCHANGED <<calls, svcs, rss, hpas>>
    BY <1>7 DEF PostStatus, At, ServerlessTypes
  <2>2. /\ building.fun \in Fun /\ building.svc \in SvcName
        /\ funcs[building.fun] # Nothing /\ funcs[building.fun].svc = building.svc
    BY <1>t, <2>1 DEF BuildsWhatIsThere, IsThere, Work
  <2>3. funcs' = [funcs EXCEPT ![building.fun] = [svc |-> building.svc, image |-> TRUE]]
    BY <1>7 DEF PostStatus, PutFunction
  <2>4. [svc |-> building.svc, image |-> TRUE] \in Function
    BY <2>2 DEF Function
  <2>5. \A f \in Fun : /\ funcs'[f] = Nothing <=> funcs[f] = Nothing
                       /\ funcs[f] # Nothing => funcs'[f].svc = funcs[f].svc
    BY <1>a, <2>2, <2>3, <2>4, ServerlessAssumption DEF Functions
  <2> QED BY <2>1, <2>5, NothingLeftStays DEF ServicesOf
<1>8. CASE CreateReplicaSet \/ CreateHpa
  <2>1. building \in Work /\ building # Nothing /\ UNCHANGED <<calls, funcs, svcs>>
    BY <1>8 DEF CreateReplicaSet, CreateHpa, At, ServerlessTypes
  <2>2. building.fun \in Fun /\ funcs[building.fun] # Nothing
    BY <1>t, <2>1 DEF BuildsWhatIsThere, IsThere, Work
  <2>3. \A c \in Client : calls[c].pc \notin Deleting
    BY <1>t, <2>1 DEF CallsTakeTurns
  <2>4. \A f \in Fun : f # building.fun => rss'[f] = rss[f] /\ (f \in hpas' <=> f \in hpas)
    BY <1>a, <1>8, <2>2 DEF CreateReplicaSet, CreateHpa
  <2> QED BY <2>1, <2>2, <2>3, <2>4, NothingLeftStays DEF ServicesOf, Removes
<1>9. CASE /\ UNCHANGED <<funcs, svcs, hpas, calls>>
           /\ \A f \in Fun : rss[f] = Nothing => rss'[f] = Nothing
  BY <1>9, NothingLeftStays DEF ServicesOf
<1>10. ASSUME NEW n \in SvcName, PodsFollow(n) PROVE LeavesNothing'
  <2>1. UNCHANGED <<funcs, rss, hpas, calls>>
    BY <1>10 DEF PodsFollow
  <2> QED BY <1>10, <2>1, ServicesStay, NothingLeftStays
<1>11. ASSUME NEW q \in Request, RequestStep(q) PROVE LeavesNothing'
  <2>1. UNCHANGED <<funcs, svcs, hpas, calls>>
    BY <1>11 DEF RequestStep, GetReplicaSet, PatchReplicaSet, AwaitEndpoints, Forward, RouterGoes
  <2>2. \A f \in Fun : rss[f] = Nothing => rss'[f] = Nothing
    BY <1>a, <1>11 DEF RequestStep, GetReplicaSet, PatchReplicaSet, AwaitEndpoints, Forward
  <2> QED BY <1>9, <2>1, <2>2
<1>12. ASSUME NEW f \in Fun, Autoscale(f) PROVE LeavesNothing'
  <2>1. /\ UNCHANGED <<funcs, svcs, hpas, calls>>
        /\ \A g \in Fun : rss[g] = Nothing => rss'[g] = Nothing
    BY <1>a, <1>12 DEF Autoscale
  <2> QED BY <1>9, <2>1
<1>13. CASE UNCHANGED <<funcs, svcs, rss, hpas, calls>>
  BY <1>9, <1>13
<1> QED
  BY <1>1, <1>2, <1>3, <1>4, <1>5, <1>6, <1>7, <1>8, <1>10, <1>11, <1>12, <1>13, ServerlessShapes
     DEF TakeFunction, Build, Break, LoseWatch, Learn, Route, RunWorkflow, RouterGoes, etcdVars,
         serverlessVars

-------------------------------------------------------------------------------
(* What a function has.                                                    *)

Queued(f) == \E i \in DOMAIN adds : adds[i].fun = f
(* The controller is at f, and what comes before in its work is done.      *)
Built(f) ==
  /\ building # Nothing /\ building.fun = f
  /\ building.pc \in {"replica set", "autoscaler"} => funcs[f].image
  /\ building.pc = "autoscaler" => rss[f] # Nothing
HasWhatItShould(f) ==
  svcs[funcs[f].svc] # Nothing /\ (Queued(f) \/ Built(f) \/ Complete(f))

Unbroken ==
  /\ Orderly
  /\ world.may["break"] = 0 /\ world.may["lose"] = 0
  /\ (world.may["hangup"] = 0 /\ world.may["fail"] = 0) \/ world.may["delete"] = 0

(* A call that creates has made a service; a function that is there waits  *)
(* to be built, is being built, or has everything; or it is deleted.       *)
NothingMissing ==
  /\ \A c \in Client : calls[c].pc = "put" => svcs[calls[c].svc] # Nothing
  /\ \A f \in Fun : funcs[f] # Nothing => HasWhatItShould(f) \/ \E c \in Client : Removes(c, f)
AllMade == Unbroken => NothingMissing

(* A step that takes nothing away.                                         *)
LEMMA NothingMissingStays ==
  ASSUME ServerlessTypes, NothingMissing,
         funcs' = funcs,
         \A n \in SvcName : svcs[n] # Nothing => svcs'[n] # Nothing,
         \A c \in Client : calls'[c].pc = "put" => calls'[c] = calls[c],
         \A c \in Client : calls[c].pc \in Deleting => calls'[c] = calls[c],
         \A f \in Fun : Queued(f) \/ Built(f) \/ Complete(f)
                           => Queued(f)' \/ Built(f)' \/ Complete(f)'
  PROVE  NothingMissing'
<1>1. ASSUME NEW c \in Client, calls'[c].pc = "put" PROVE svcs'[calls'[c].svc] # Nothing
  <2>1. calls'[c] = calls[c] /\ calls[c].svc \in SvcName
    BY <1>1, CallsTyped
  <2> QED BY <1>1, <2>1 DEF NothingMissing
<1>2. ASSUME NEW f \in Fun, funcs'[f] # Nothing
      PROVE  HasWhatItShould(f)' \/ \E c \in Client : Removes(c, f)'
  <2>1. CASE \E c \in Client : Removes(c, f)
    BY <2>1 DEF Removes
  <2>2. CASE HasWhatItShould(f)
    <3>1. funcs[f].svc \in SvcName
      BY <1>2 DEF ServerlessTypes, Functions, Function
    <3> QED BY <2>2, <3>1 DEF HasWhatItShould
  <2> QED BY <1>2, <2>1, <2>2 DEF NothingMissing
<1> QED BY <1>1, <1>2 DEF NothingMissing

LEMMA NothingMissingKept ==
  ASSUME ServerlessTypes, NamesAgree, InTurn, AllMade, [ServerlessNext]_serverlessVars
  PROVE  AllMade'
<1>0. world' = world
  BY WorldStays
<1> SUFFICES ASSUME Unbroken, NothingMissing PROVE NothingMissing'
  BY <1>0 DEF AllMade, Unbroken, Orderly
<1>t. CallsTakeTurns /\ BuildsWhatIsThere /\ Orderly
  BY DEF InTurn, Unbroken
<1>a. /\ calls \in [Client -> Call] /\ funcs \in Functions /\ svcs \in Services
      /\ rss \in [Fun -> Nat \cup {Nothing}]
  BY DEF ServerlessTypes
<1>i. Idle.pc \notin {"put"} \cup Deleting /\ "put" \notin Deleting
  BY DEF Idle, Deleting
<1>1. ASSUME NEW c \in Client, NEW f \in Fun, CreateService(c, f) PROVE NothingMissing'
  <2>1. Rested
    BY <1>t, <1>1, CreatesTheAbsent
  <2>2. /\ calls' = [calls EXCEPT ![c] = [pc |-> "put", fun |-> f, svc |-> named + 1]]
        /\ svcs' = [svcs EXCEPT ![named + 1] = [fun |-> f, ready |-> FALSE]]
        /\ named + 1 \in SvcName
        /\ UNCHANGED <<funcs, rss, hpas, adds, building>>
    BY <1>1 DEF CreateService, ctlVars
  <2>3. \A d \in Client : calls[d] = Idle
    BY <2>1 DEF Rested
  <2>4. [fun |-> f, ready |-> FALSE] \in Service
    BY DEF Service
  <2>5. svcs'[named + 1] # Nothing /\ \A n \in SvcName : svcs[n] # Nothing => svcs'[n] # Nothing
    BY <1>a, <2>2, <2>4, ServerlessAssumption DEF Services
  <2>6. \A d \in Client : calls'[d].pc = "put" => svcs'[calls'[d].svc] # Nothing
    BY <1>a, <1>i, <2>2, <2>3, <2>5
  <2>7. ASSUME NEW g \in Fun, funcs'[g] # Nothing PROVE HasWhatItShould(g)'
    <3>1. HasWhatItShould(g)
      BY <1>i, <2>2, <2>3, <2>7 DEF NothingMissing, Removes
    <3>2. funcs[g].svc \in SvcName
      BY <1>a, <2>2, <2>7 DEF Functions, Function
    <3>3. svcs'[funcs[g].svc] # Nothing
      BY <2>5, <3>1, <3>2 DEF HasWhatItShould
    <3> QED BY <2>2, <3>1, <3>3 DEF HasWhatItShould, Queued, Built, Complete
  <2> QED BY <2>6, <2>7 DEF NothingMissing
<1>2. ASSUME NEW c \in Client, CreateFunction(c) PROVE NothingMissing'
  <2>1. PICK f \in Fun, n \in SvcName : calls[c].fun = f /\ calls[c].svc = n /\ calls[c].pc = "put"
    BY <1>2, CallsTyped DEF CreateFunction
  <2>2. funcs[f] = Nothing /\ adds = <<>> /\ building = Nothing /\ svcs[n] # Nothing
    BY <1>t, <2>1 DEF CallsTakeTurns, NothingMissing
  <2>3. /\ funcs' = [funcs EXCEPT ![f] = [svc |-> n, image |-> FALSE]]
        /\ adds' = <<[fun |-> f, svc |-> n]>>
        /\ UNCHANGED <<svcs, rss, hpas, building>>
    BY <1>2, <2>1, <2>2 DEF CreateFunction, PutFunction
  <2>4. \A d \in Client : d # c => calls[d] = Idle /\ calls'[d] = Idle
    BY <1>a, <1>i, <1>2, <2>1, <1>t DEF CallsTakeTurns, CreateFunction
  <2>5. calls'[c].pc = "poll"
    BY <1>a, <1>2 DEF CreateFunction
  <2>6. \A d \in Client : calls'[d].pc # "put" /\ calls[d].pc \notin Deleting
    BY <1>i, <2>1, <2>4, <2>5
  <2>7. ASSUME NEW g \in Fun, funcs'[g] # Nothing PROVE HasWhatItShould(g)'
    <3>1. CASE g = f
      <4>1. funcs'[f].svc = n /\ svcs'[n] # Nothing
        BY <1>a, <2>2, <2>3 DEF Functions
      <4>2. Queued(f)'
        BY <2>3 DEF Queued
      <4> QED BY <3>1, <4>1, <4>2 DEF HasWhatItShould
    <3>2. CASE g # f
      <4>1. funcs'[g] = funcs[g]
        BY <1>a, <2>3, <3>2 DEF Functions
      <4>2. HasWhatItShould(g)
        BY <2>6, <2>7, <4>1 DEF NothingMissing, Removes
      <4>3. Complete(g)
        BY <2>2, <4>2 DEF HasWhatItShould, Queued, Built
      <4> QED BY <2>3, <4>1, <4>2, <4>3 DEF HasWhatItShould, Complete
    <3> QED BY <3>1, <3>2
  <2> QED BY <2>6, <2>7 DEF NothingMissing
<1>f. ASSUME NEW c \in Client, DeleteFails(c) PROVE FALSE
  <2>1. world.may["delete"] = 0 /\ calls[c].pc \in Deleting
    BY <1>f, DisturbTyped DEF DeleteFails, Deleting, Unbroken, Disturbance
  <2> QED BY <1>t, <2>1 DEF CallsTakeTurns
<1>3. ASSUME NEW c \in Client, HangUp(c) PROVE NothingMissing'
  <2>1. world.may["delete"] = 0
    BY <1>3, DisturbTyped DEF HangUp, Unbroken, Disturbance
  <2>2. \A d \in Client : calls[d].pc \notin Deleting
    BY <1>t, <2>1 DEF CallsTakeTurns
  <2>3. UNCHANGED <<funcs, svcs, rss, hpas, adds, building>>
    BY <1>3 DEF HangUp, etcdVars, ctlVars
  <2>4. \A d \in Client : calls'[d].pc = "put" => calls'[d] = calls[d]
    BY <1>a, <1>i, <1>3 DEF HangUp
  <2> QED BY <2>2, <2>3, <2>4, NothingMissingStays DEF Queued, Built, Complete
<1>4. ASSUME NEW c \in Client, NEW f \in Fun, DeleteBegins(c, f) PROVE NothingMissing'
  <2>1. Rested /\ UNCHANGED <<funcs, svcs, rss, hpas, adds, building>>
    BY <1>t, <1>4 DEF DeleteBegins, Orderly, etcdVars, ctlVars
  <2>2. calls' = [calls EXCEPT ![c] = [pc |-> "service", fun |-> f, svc |-> funcs[f].svc]]
    BY <1>4 DEF DeleteBegins
  <2>3. \A d \in Client : calls[d] = Idle
    BY <2>1 DEF Rested
  <2>4. /\ \A d \in Client : calls'[d].pc # "put"
        /\ \A d \in Client : calls[d].pc \notin Deleting
    BY <1>a, <1>i, <2>2, <2>3
  <2> QED BY <2>1, <2>4, NothingMissingStays DEF Queued, Built, Complete
<1>5. ASSUME NEW c \in Client, DeleteStep(c) PROVE NothingMissing'
  <2>1. calls[c].pc \in Deleting
    BY <1>5 DEF DeleteStep, Deleting
  <2>2. PICK f \in Fun, n \in SvcName : calls[c].fun = f /\ calls[c].svc = n
    BY <2>1, CallsTyped
  <2>3. funcs[f] # Nothing /\ funcs[f].svc = n /\ adds = <<>> /\ building = Nothing
    BY <1>t, <2>1, <2>2 DEF CallsTakeTurns, IsThere
  <2>4. \A d \in Client : d # c => calls[d] = Idle /\ calls'[d] = Idle
    BY <1>a, <1>i, <1>5, <2>1, <1>t DEF CallsTakeTurns, DeleteStep
  <2>5. calls'[c].pc # "put"
    <3>1. calls[c] \in [pc : {"put"} \cup Deleting, fun : Fun, svc : SvcName]
      BY <2>1, CallsTyped
    <3> QED BY <1>a, <1>i, <1>5, <3>1 DEF DeleteStep, AfterDeleting
  <2>6. ASSUME NEW g \in Fun, g # f, funcs'[g] # Nothing PROVE HasWhatItShould(g)'
    <3>1. /\ funcs'[g] = funcs[g] /\ rss'[g] = rss[g] /\ (g \in hpas' <=> g \in hpas)
      BY <1>a, <1>5, <2>2, <2>6 DEF DeleteStep, Functions
    <3>2. \A d \in Client : ~Removes(d, g)
      BY <1>i, <2>2, <2>4, <2>6 DEF Removes
    <3>3. HasWhatItShould(g)
      BY <2>6, <3>1, <3>2 DEF NothingMissing
    <3>4. Complete(g)
      BY <2>3, <3>3 DEF HasWhatItShould, Queued, Built
    <3>5. funcs[g].svc # n
      <4>1. funcs[g].svc = n => svcs[n].fun = g /\ svcs[n].fun = f
        BY <2>3, <2>6, <3>1, <3>3 DEF HasWhatItShould, NamesAgree, Refers, Belongs
      <4> QED BY <2>6, <4>1
    <3>6. svcs'[funcs[g].svc] = svcs[funcs[g].svc]
      <4>1. funcs[g].svc \in SvcName
        BY <1>a, <2>6, <3>1 DEF Functions, Function
      <4> QED BY <1>a, <1>5, <2>2, <3>5, <4>1 DEF DeleteStep, Services
    <3> QED BY <3>1, <3>3, <3>4, <3>6 DEF HasWhatItShould, Complete
  <2>7. funcs'[f] # Nothing => Removes(c, f)'
    <3>1. calls[c].pc = "function" => funcs'[f] = Nothing
      BY <1>a, <1>5, <2>2 DEF DeleteStep, Functions
    <3>2. calls[c].pc # "function" => AfterDeleting(calls[c].pc) \in Deleting
      BY <2>1 DEF AfterDeleting, Deleting
    <3>3. calls[c].pc # "function" => AfterDeleting(calls[c].pc) # "end"
      BY <2>1 DEF AfterDeleting, Deleting
    <3>4. calls[c] \in [pc : {"put"} \cup Deleting, fun : Fun, svc : SvcName]
      BY <2>1, CallsTyped
    <3>5. ASSUME calls[c].pc # "function" PROVE calls'[c].pc \in Deleting /\ calls'[c].fun = f
      <4>1. calls'[c] = [calls[c] EXCEPT !.pc = AfterDeleting(calls[c].pc)]
        BY <1>a, <1>5, <3>3, <3>5 DEF DeleteStep
      <4> QED BY <2>2, <3>2, <3>4, <3>5, <4>1
    <3> QED BY <3>1, <3>5 DEF Removes
  <2> QED BY <1>i, <2>4, <2>5, <2>6, <2>7 DEF NothingMissing
<1>6. ASSUME NEW c \in Client, AwaitImage(c) PROVE NothingMissing'
  <2>1. calls[c] \in [pc : {"poll"}, fun : Fun, polls : Nat]
    BY <1>6, CallsTyped DEF AwaitImage
  <2>2. \/ calls' = [calls EXCEPT ![c] = Idle]
        \/ calls' = [calls EXCEPT ![c] = [calls[c] EXCEPT !.polls = @ + 1]]
    BY <1>6 DEF AwaitImage
  <2>3. [calls[c] EXCEPT !.polls = @ + 1].pc = "poll" /\ "poll" \notin Deleting
    BY <2>1 DEF Deleting
  <2>4. /\ \A d \in Client : calls'[d].pc = "put" => calls'[d] = calls[d]
        /\ \A d \in Client : calls[d].pc \in Deleting => calls'[d] = calls[d]
    BY <1>a, <1>i, <2>1, <2>2, <2>3
  <2>5. UNCHANGED <<funcs, svcs, rss, hpas, adds, building>>
    BY <1>6 DEF AwaitImage, etcdVars, ctlVars
  <2> QED BY <2>4, <2>5, NothingMissingStays DEF Queued, Built, Complete
<1>7. CASE TakeFunction
  <2>1. /\ building = Nothing
        /\ building' = [pc |-> "build", fun |-> adds[1].fun, svc |-> adds[1].svc]
        /\ adds # <<>> /\ adds[1] \in Added
        /\ \A i \in DOMAIN adds : i = 1 \/ (i - 1 \in DOMAIN adds' /\ adds'[i - 1] = adds[i])
        /\ UNCHANGED <<funcs, svcs, rss, hpas, calls>>
    BY <1>7, HeadTailProperties DEF TakeFunction, ServerlessTypes, etcdVars
  <2>2. building' \in Work
    BY <2>1 DEF Work, Added
  <2>3. ASSUME NEW f \in Fun, Queued(f) PROVE Queued(f)' \/ Built(f)'
    <3>1. PICK i \in DOMAIN adds : adds[i].fun = f
      BY <2>3 DEF Queued
    <3>2. CASE i = 1
      <4>1. building' # Nothing /\ building'.fun = f /\ building'.pc = "build"
        BY <2>1, <2>2, <3>1, <3>2, ServerlessAssumption
      <4> QED BY <4>1 DEF Built
    <3>3. CASE i # 1
      BY <2>1, <3>1, <3>3 DEF Queued
    <3> QED BY <3>2, <3>3
  <2>4. \A f \in Fun : ~Built(f)
    BY <2>1 DEF Built
  <2>5. \A f \in Fun : Complete(f) => Complete(f)'
    BY <2>1 DEF Complete
  <2> QED BY <2>1, <2>3, <2>4, <2>5, NothingMissingStays
<1>8. CASE Build
  <2>1. UNCHANGED <<funcs, svcs, rss, hpas, calls, adds>>
    BY <1>8 DEF Build, etcdVars
  <2>2. building \in Work /\ building' = [building EXCEPT !.pc = "status"]
    BY <1>8 DEF Build, At, After, ServerlessTypes
  <2>3. building' \in Work /\ building'.pc = "status" /\ building'.fun = building.fun
    BY <2>2 DEF Work
  <2>4. building' # Nothing
    BY <2>3, ServerlessAssumption
  <2>5. \A f \in Fun : Built(f) => Built(f)'
    BY <2>3, <2>4 DEF Built
  <2> QED BY <2>1, <2>5, NothingMissingStays DEF Queued, Complete
<1>9. CASE PostStatus
  <2>1. /\ building \in Work /\ building # Nothing /\ UNCHANGED <<calls, svcs, rss, hpas>>
        /\ building' = [building EXCEPT !.pc = "replica set"]
    BY <1>9 DEF PostStatus, At, After, ServerlessTypes
  <2>2. PICK f \in Fun, n \in SvcName : building.fun = f /\ building.svc = n
    BY <2>1 DEF Work
  <2>3. funcs[f] # Nothing /\ funcs[f].svc = n
    BY <1>t, <2>1, <2>2 DEF BuildsWhatIsThere, IsThere
  <2>4. funcs' = [funcs EXCEPT ![f] = [svc |-> n, image |-> TRUE]] /\ adds' = adds
    BY <1>9, <2>2, <2>3 DEF PostStatus, PutFunction
  <2>5. building' \in Work /\ building'.pc = "replica set" /\ building'.fun = f
    BY <2>1, <2>2 DEF Work
  <2>6. building' # Nothing
    BY <2>5, ServerlessAssumption
  <2>7. \A c \in Client : calls[c].pc \notin {"put"} \cup Deleting
    BY <1>t, <2>1 DEF CallsTakeTurns
  <2>8. ASSUME NEW g \in Fun, funcs'[g] # Nothing PROVE HasWhatItShould(g)'
    <3>1. CASE g = f
      <4>1. funcs'[f].image /\ funcs'[f].svc = n
        BY <1>a, <2>4 DEF Functions
      <4>2. Built(f)'
        BY <2>5, <2>6, <4>1 DEF Built
      <4>3. svcs[n] # Nothing
        BY <2>3, <2>7 DEF NothingMissing, Removes, HasWhatItShould
      <4> QED BY <2>1, <3>1, <4>1, <4>2, <4>3 DEF HasWhatItShould
    <3>2. CASE g # f
      <4>1. funcs'[g] = funcs[g]
        BY <1>a, <2>4, <3>2 DEF Functions
      <4>2. HasWhatItShould(g)
        BY <2>7, <2>8, <4>1 DEF NothingMissing, Removes
      <4>3. ~Built(g)
        BY <2>2, <3>2 DEF Built
      <4> QED BY <2>1, <2>4, <4>1, <4>2, <4>3 DEF HasWhatItShould, Complete, Queued
    <3> QED BY <3>1, <3>2
  <2> QED BY <2>1, <2>7, <2>8 DEF NothingMissing
<1>10. CASE CreateReplicaSet
  <2>1. /\ building \in Work /\ building # Nothing
        /\ UNCHANGED <<calls, funcs, svcs, hpas, adds>>
        /\ building' = [building EXCEPT !.pc = "autoscaler"] /\ building.pc = "replica set"
    BY <1>10 DEF CreateReplicaSet, At, After, ServerlessTypes
  <2>2. building' \in Work /\ building'.pc = "autoscaler" /\ building'.fun = building.fun
    BY <2>1 DEF Work
  <2>3. building' # Nothing
    BY <2>2, ServerlessAssumption
  <2>4. building.fun \in Fun
    BY <2>1 DEF Work
  <2>5. rss'[building.fun] # Nothing /\ \A f \in Fun : rss[f] # Nothing => rss'[f] # Nothing
    <3>1. 0 # Nothing
      BY ServerlessAssumption
    <3>2. rss' = [rss EXCEPT ![building.fun] =
                    IF rss[building.fun] = Nothing THEN 0 ELSE rss[building.fun]]
      BY <1>10 DEF CreateReplicaSet
    <3> QED BY <1>a, <2>4, <3>1, <3>2
  <2>6. \A f \in Fun : Built(f) => Built(f)'
    BY <2>1, <2>2, <2>3, <2>5 DEF Built
  <2>7. \A f \in Fun : Complete(f) => Complete(f)'
    BY <2>1, <2>5 DEF Complete
  <2> QED BY <2>1, <2>6, <2>7, NothingMissingStays DEF Queued
<1>11. CASE CreateHpa
  <2>1. /\ building \in Work /\ building # Nothing
        /\ UNCHANGED <<calls, funcs, svcs, rss, adds>> /\ building.pc = "autoscaler"
        /\ hpas' = IF rss[building.fun] = Nothing THEN hpas ELSE hpas \cup {building.fun}
    BY <1>11 DEF CreateHpa, At, ServerlessTypes
  <2>2. ASSUME NEW f \in Fun, funcs[f] # Nothing, HasWhatItShould(f) PROVE HasWhatItShould(f)'
    <3>1. Complete(f) => Complete(f)'
      BY <2>1 DEF Complete
    <3>2. Built(f) => Complete(f)'
      BY <2>1, <2>2 DEF Built, Complete, HasWhatItShould
    <3> QED BY <2>1, <2>2, <3>1, <3>2 DEF HasWhatItShould, Queued
  <2> QED BY <2>1, <2>2 DEF NothingMissing, Removes
<1>12. CASE Break \/ LoseWatch
  BY <1>12, DisturbTyped DEF Break, LoseWatch, Unbroken, Disturbance
<1>13. CASE /\ UNCHANGED <<funcs, svcs, hpas, calls, adds, building>>
            /\ \A f \in Fun : rss[f] # Nothing => rss'[f] # Nothing
  <2>1. \A f \in Fun : Built(f) => Built(f)'
    BY <1>13 DEF Built
  <2>2. \A f \in Fun : Complete(f) => Complete(f)'
    BY <1>13 DEF Complete
  <2> QED BY <1>13, <2>1, <2>2, NothingMissingStays DEF Queued
<1>14. ASSUME NEW n \in SvcName, PodsFollow(n) PROVE NothingMissing'
  <2>1. UNCHANGED <<funcs, rss, hpas, calls, adds, building>>
    BY <1>14 DEF PodsFollow, ctlVars
  <2>2. svcs' = [svcs EXCEPT ![n] = [svcs[n] EXCEPT !.ready = ~@]] /\ svcs[n] \in Service
    BY <1>a, <1>14 DEF PodsFollow, Services
  <2>3. [svcs[n] EXCEPT !.ready = ~@] \in Service
    BY <2>2 DEF Service
  <2>4. \A m \in SvcName : svcs[m] # Nothing => svcs'[m] # Nothing
    BY <1>a, <2>2, <2>3, ServerlessAssumption DEF Services
  <2>5. \A f \in Fun : funcs[f] # Nothing => funcs[f].svc \in SvcName
    BY <1>a DEF Functions, Function
  <2>6. ASSUME NEW f \in Fun, funcs[f] # Nothing, HasWhatItShould(f) PROVE HasWhatItShould(f)'
    BY <2>1, <2>4, <2>5, <2>6 DEF HasWhatItShould, Queued, Built, Complete
  <2>7. \A c \in Client : calls[c].pc = "put" => svcs'[calls[c].svc] # Nothing
    BY <2>4, CallsTyped DEF NothingMissing
  <2> QED BY <2>1, <2>6, <2>7 DEF NothingMissing, Removes
<1>15. ASSUME NEW q \in Request, RequestStep(q) PROVE NothingMissing'
  <2>1. UNCHANGED <<funcs, svcs, hpas, calls, adds, building>>
    BY <1>15 DEF RequestStep, GetReplicaSet, PatchReplicaSet, AwaitEndpoints, Forward,
                 RouterGoes, ctlVars
  <2>2. 1 # Nothing
    BY ServerlessAssumption
  <2>3. \A f \in Fun : rss[f] # Nothing => rss'[f] # Nothing
    BY <1>a, <1>15, <2>2 DEF RequestStep, GetReplicaSet, PatchReplicaSet, AwaitEndpoints, Forward
  <2> QED BY <1>13, <2>1, <2>3
<1>16. ASSUME NEW f \in Fun, Autoscale(f) PROVE NothingMissing'
  <2>1. /\ UNCHANGED <<funcs, svcs, hpas, calls, adds, building>>
        /\ \A g \in Fun : rss[g] # Nothing => rss'[g] # Nothing
    BY <1>a, <1>16, ServerlessAssumption DEF Autoscale, ctlVars
  <2> QED BY <1>13, <2>1
<1>17. CASE UNCHANGED <<funcs, svcs, rss, hpas, calls, adds, building>>
  BY <1>13, <1>17
<1> QED
  BY <1>1, <1>2, <1>f, <1>3, <1>4, <1>5, <1>6, <1>7, <1>8, <1>9, <1>10, <1>11, <1>12, <1>14,
     <1>15, <1>16, <1>17, ServerlessShapes
     DEF Learn, Route, RunWorkflow, RouterGoes, etcdVars, ctlVars, serverlessVars

(* The invariant of orderly worlds.                                        *)
LEMMA ServerlessInvariant ==
  ServerlessSpec => [](/\ ServerlessTypes /\ NamesAgree /\ WakesAtMostOne
                       /\ InTurn /\ NothingLeft /\ AllMade)
<1>1. ServerlessInit => InTurn /\ NothingLeft /\ AllMade
  <2> SUFFICES ASSUME ServerlessInit PROVE InTurn /\ NothingLeft /\ AllMade
    OBVIOUS
  <2>1. \A c \in Client : calls[c] = Idle /\ calls[c].pc \notin {"put"} \cup Deleting
    BY DEF ServerlessInit, Idle, Deleting
  <2>2. adds = <<>> /\ building = Nothing /\ hpas = {}
    BY DEF ServerlessInit
  <2>3. \A f \in Fun : funcs[f] = Nothing /\ rss[f] = Nothing /\ ServicesOf(f) = {}
    BY DEF ServerlessInit, ServicesOf
  <2>4. InTurn
    BY <2>1, <2>2 DEF InTurn, CallsTakeTurns, BuildsWhatIsThere
  <2>5. NothingLeft
    BY <2>1, <2>2, <2>3 DEF NothingLeft, LeavesNothing, AbsentHasNothing
  <2>6. AllMade
    BY <2>1, <2>3 DEF AllMade, NothingMissing
  <2> QED BY <2>4, <2>5, <2>6
<1> QED
  BY <1>1, NamesHold, InTurnKept, NothingLeftKept, NothingMissingKept, PTL DEF ServerlessSpec

(* Of a function that is not there nothing is there: as long as users      *)
(* finish what they begin and overwrite nothing and no deletion fails, at  *)
(* every moment at which it is not just being created, whatever the        *)
(* controller failed at.                                                   *)
AbsentIsGone ==
  Orderly /\ world.may["hangup"] = 0 /\ world.may["fail"] = 0 =>
    \A f \in Fun : funcs[f] = Nothing /\ (\A c \in Client : ~Makes(c, f)) => Gone(f)

THEOREM DeletedFunctionsAreGone == ServerlessSpec => []AbsentIsGone
<1>1. NothingLeft => AbsentIsGone
  BY DEF NothingLeft, LeavesNothing, AbsentHasNothing, ServicesOf, AbsentIsGone, Gone
<1> QED BY <1>1, ServerlessInvariant, PTL

(* A function that is there has everything whenever users and controller   *)
(* have nothing more to do, if nothing failed.                             *)
RestedIsComplete ==
  Unbroken /\ Rested => \A f \in Fun : funcs[f] # Nothing => Complete(f)

THEOREM FunctionsAtRestAreComplete == ServerlessSpec => []RestedIsComplete
<1>1. AllMade => RestedIsComplete
  <2> SUFFICES ASSUME AllMade, Unbroken, Rested, NEW f \in Fun, funcs[f] # Nothing
               PROVE  Complete(f)
    BY DEF RestedIsComplete
  <2>1. \A c \in Client : ~Removes(c, f)
    <3>1. (\A c \in Client : calls[c] = Idle) /\ Idle.pc \notin Deleting
      BY DEF Rested, Idle, Deleting
    <3> QED BY <3>1 DEF Removes
  <2>2. HasWhatItShould(f)
    BY <2>1 DEF AllMade, NothingMissing
  <2> QED BY <2>2 DEF HasWhatItShould, Queued, Built, Rested
<1> QED BY <1>1, ServerlessInvariant, PTL
===============================================================================
