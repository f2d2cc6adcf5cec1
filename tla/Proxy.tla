-------------------------------- MODULE Proxy --------------------------------
(***************************************************************************)
(* rkube_proxy (rkube_proxy/src/main.rs, k8s_iptables.rs): one task that   *)
(* turns services into rules of the kernel.  A rule of KUBE-SERVICES sends *)
(* an address and port to a chain, a chain picks one endpoint at random.   *)
(* The proxy remembers in its own table what it has installed.             *)
(*                                                                         *)
(* A call of iptables that fails ends the process (unwrap), except where   *)
(* a rule is deleted.  Handlers do not wait, so that each is one step;     *)
(* packets that meet a chain half written are not modelled.                *)
(***************************************************************************)
EXTENDS Services

VARIABLES
  rules,     \* the kernel: KUBE-SERVICES, a sequence of rules
  chains,    \* the kernel: a function from the chains there are to ladders
  svc_tb,    \* the proxy's table: [Svc -> table or None]
  panicked   \* the process has ended

(* What the proxy knows of a service: a chain for each port, and who is in *)
(* the chain.                                                              *)
Table == [addr : Addr,
          lb : UNION {[P -> [chain : Nat, eps : SUBSET Ip]] : P \in SUBSET Port}]
ASSUME NoTableAssumption == None \notin Table

proxyVars == <<rules, chains, svc_tb, panicked>>
ipt == [rules |-> rules, chains |-> chains, tb |-> svc_tb, panicked |-> panicked]

(* Chains have random names; a new one has a name nobody remembers.        *)
ChainsOf(table) == IF table = None THEN {} ELSE {table.lb[p].chain : p \in DOMAIN table.lb}
NewChain(st) ==
  LET used == (DOMAIN st.chains) \cup UNION {ChainsOf(st.tb[s]) : s \in Svc}
  IN CHOOSE c \in 1 .. Cardinality(used) + 1 : c \notin used

InitProxy ==
  /\ rules = <<>>
  /\ chains = <<>>
  /\ svc_tb = [s \in Svc |-> None]
  /\ panicked = FALSE

-------------------------------------------------------------------------------
(* Mutant: rules are appended, so that the certain one comes first.        *)
Ladder_Upside(eps) == LET order == SetToSeq(eps) IN
  [k \in 1 .. Len(order) |-> [ep |-> order[k], one_in |-> k]]

(* rewrite_lb_rulus: the i-th endpoint is taken with probability 1/i, and  *)
(* inserted before the others.  The order of the map does not matter.      *)
Ladder(eps) == LET order == SetToSeq(eps)
                   n == Len(order) IN
  [k \in 1 .. n |-> [ep |-> order[k], one_in |-> n - k + 1]]

(* A map with this value under this key.                                    *)
With(map, key, value) ==
  [k \in (DOMAIN map) \cup {key} |-> IF k = key THEN value ELSE map[k]]

(* add_port: a new chain, a rule that leads to it, an entry in the table.  *)
(* A chain the table had for this port is forgotten.                       *)
AddPort(st, s, port) ==
  LET c == NewChain(st) IN
  [st EXCEPT
     !.chains = With(@, c, <<>>),
     !.rules = Append(@, [addr |-> st.tb[s].addr, port |-> port, chain |-> c]),
     !.tb[s].lb = With(@, port, [chain |-> c, eps |-> {}])]

(* add_ep for every endpoint, in the chain of every port the table knows:  *)
(* a chain that is gone cannot be rewritten.                               *)
Joined(lb, eps) == [p \in DOMAIN lb |-> [lb[p] EXCEPT !.eps = @ \cup eps]]

Rewritten(ladders, lb) ==
  [c \in DOMAIN ladders |->
     IF \E p \in DOMAIN lb : lb[p].chain = c
       THEN Ladder(lb[CHOOSE p \in DOMAIN lb : lb[p].chain = c].eps)
       ELSE ladders[c]]

AddEndpoints(st, s, eps) ==
  LET lb == Joined(st.tb[s].lb, eps) IN
  IF eps = {} THEN st
  ELSE IF \E p \in DOMAIN lb : lb[p].chain \notin DOMAIN st.chains
         THEN [st EXCEPT !.panicked = TRUE]
         ELSE [st EXCEPT !.chains = Rewritten(@, lb), !.tb[s].lb = lb]

AddPorts(st, s, ports) == FoldSet(LAMBDA port, t : AddPort(t, s, port), st, ports)

(* add_svc: a service the table has keeps the address it has there.        *)
AddSvc(st, s, svc) ==
  LET known == IF st.tb[s] # None THEN st
               ELSE [st EXCEPT !.tb[s] = [addr |-> svc.addr, lb |-> <<>>]]
  IN AddEndpoints(AddPorts(known, s, svc.ports), s, svc.eps)

(* The rules that are left when those to old chains are deleted.           *)
Without(rs, old) ==
  LET kept[i \in 0 .. Len(rs)] ==
        IF i = 0 THEN <<>>
        ELSE IF rs[i].chain \in old THEN kept[i - 1] ELSE Append(kept[i - 1], rs[i])
  IN kept[Len(rs)]

(* del_svc: a rule that is not there is no error, a chain is.              *)
DelSvc(st, s) ==
  LET old == ChainsOf(st.tb[s]) IN
  IF st.tb[s] = None THEN st
  ELSE IF ~(old \subseteq DOMAIN st.chains)
         THEN [st EXCEPT !.panicked = TRUE, !.tb[s] = None]
         ELSE [st EXCEPT
                 !.tb[s] = None,
                 !.rules = Without(@, old),
                 !.chains = [c \in (DOMAIN @) \ old |-> @[c]]]

(* cleanup: all rules and chains; the table is not told.                   *)
Cleanup(st) == [st EXCEPT !.rules = <<>>, !.chains = <<>>]

-------------------------------------------------------------------------------
Becomes(st) ==
  /\ rules' = st.rules
  /\ chains' = st.chains
  /\ svc_tb' = st.tb
  /\ panicked' = st.panicked

(* Mutant: a service that changes is added anew, and never taken away.     *)
Handled_NoDelete(st, note) ==
  IF note.new # None THEN AddSvc(st, note.name, note.new) ELSE DelSvc(st, note.name)

(* handle_notification: a change is a deletion and an addition.            *)
Handled(st, note) ==
  LET gone == IF note.old # None THEN DelSvc(st, note.name) ELSE st IN
  IF note.new = None \/ gone.panicked THEN gone
  ELSE AddSvc(gone, note.name, note.new)

ProxyHandles ==
  /\ ~panicked
  /\ TakeNote("proxy")
  /\ \E st \in {Handled(ipt, Head(queue["proxy"]))} : Becomes(st)
  /\ UNCHANGED <<apiVars, store, held, envVars>>

Listed == <<"proxy", "svc">>

(* handle_resync: everything is removed, and every service of the store    *)
(* added.                                                                  *)
AddAll(st, svcs) ==
  FoldSet(LAMBDA s, t : IF t.panicked THEN t ELSE AddSvc(t, s, svcs[s]),
          st, {s \in Svc : svcs[s] # None})

ProxyResyncs ==
  /\ ~panicked
  /\ TakeResync("proxy")
  /\ \E st \in {AddAll(Cleanup(ipt), store[Listed])} : Becomes(st)
  /\ UNCHANGED <<apiVars, store, held, envVars>>

ProxyTask == ProxyHandles \/ ProxyResyncs

-------------------------------------------------------------------------------
(* What the kernel does with a connection.                                 *)

(* The fraction of connections that pass the first k rules of a ladder, as *)
(* a pair of integers.                                                     *)
Passing(ladder) ==
  LET pass[k \in 0 .. Len(ladder)] ==
        IF k = 0 THEN <<1, 1>>
        ELSE <<pass[k - 1][1] * (ladder[k].one_in - 1), pass[k - 1][2] * ladder[k].one_in>>
  IN pass

(* Each endpoint gets one in as many connections as there are endpoints.   *)
Even(ladder) ==
  \A k \in 1 .. Len(ladder) :
    LET before == Passing(ladder)[k - 1] IN
    before[1] * Len(ladder) = before[2] * ladder[k].one_in

(* The rules that may send a connection on; an empty chain returns to the  *)
(* rule that follows.                                                      *)
Routes(addr, port) ==
  {i \in DOMAIN rules : /\ rules[i].addr = addr /\ rules[i].port = port
                        /\ chains[rules[i].chain] # <<>>}

EndpointsOf(addr, port) ==
  IF Routes(addr, port) = {} THEN {}
  ELSE LET ladder == chains[rules[Min(Routes(addr, port))].chain]
       IN {ladder[k].ep : k \in 1 .. Len(ladder)}

(* The kernel serves these services: each by its endpoints, evenly, and no *)
(* other address.                                                          *)
Serves(svcs) ==
  /\ ~panicked
  /\ \A c \in DOMAIN chains : Even(chains[c])
  /\ \A addr \in Addr, port \in Port :
       EndpointsOf(addr, port) =
         UNION {svcs[s].eps : s \in {t \in Svc : /\ svcs[t] # None
                                                 /\ svcs[t].addr = addr
                                                 /\ port \in svcs[t].ports}}

(* No watch is lost and addresses are distinct; or a lost watch hides only *)
(* services that are new and endpoints that change, and the proxy had      *)
(* caught up when it was lost.                                             *)
Tracked ==
  /\ world.may["give"] = 0 /\ world.may["restart"] = 0
  /\ \/ world.may["relist"] = 0
     \/ world.patient /\ world.may["drop"] = 0 /\ world.may["overwrite"] = 0

(* What the proxy has heard of it has installed: while no notification and *)
(* no resync is waiting the kernel serves the store of services, whatever  *)
(* the order in which services came, changed and went.                     *)
KernelServesStore ==
  Tracked /\ "proxy" \in world.runs /\ queue["proxy"] = <<>> /\ "proxy" \notin resync
    => Serves(store[Listed])
===============================================================================
