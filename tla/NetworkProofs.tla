---------------------------- MODULE NetworkProofs ----------------------------
(***************************************************************************)
(* Theorems about Network, for any services, pods, ingresses, addresses,   *)
(* capacity and world: the configuration of the ingress controller follows *)
(* its two stores, the kernel serves what the proxy's store has, and when  *)
(* nothing is under way traffic arrives.                                   *)
(***************************************************************************)
EXTENDS Network, FiniteSetTheorems, TLAPS

(* The names of what an informer lists.                                    *)
Names == [svc |-> Svc, pod |-> Pod, ing |-> Ing]

(* A channel that holds nothing but that there is news.                     *)
Bare(q) == q \in Seq({<<>>})

(* Etcd and stores are functions of the names of their kind, the ingress   *)
(* controller's channel is bare.                                           *)
Typed ==
  /\ etcd = [k \in Kind |-> [n \in Names[k] |-> etcd[k][n]]]
  /\ store = [i \in Informers |-> [n \in Names[i[2]] |-> store[i][n]]]
  /\ queue = [c \in Component |-> queue[c]]
  /\ Bare(queue["ingress"])

Inv == Typed /\ ConfigFollowsStores

(* A sequence grows by an element of the same set.                         *)
LEMMA Growing ==
  ASSUME NEW S, NEW q \in Seq(S), NEW x \in S
  PROVE  Append(q, x) \in Seq(S) /\ Append(q, x) # <<>>
<1>1. Append(q, x) \in Seq(S) /\ Len(Append(q, x)) = Len(q) + 1
  OBVIOUS
<1>2. Len(q) \in Nat /\ Len(<<>>) = 0
  OBVIOUS
<1> QED BY <1>1, <1>2

(* The rest of a sequence is one.                                          *)
LEMMA Shrinking ==
  ASSUME NEW S, NEW q \in Seq(S), q # <<>>
  PROVE  Tail(q) \in Seq(S)
OBVIOUS

(* A bare channel stays bare when news comes and is taken.                 *)
LEMMA BareChannels ==
  ASSUME NEW q, Bare(q)
  PROVE  /\ Bare(Append(q, <<>>)) /\ Append(q, <<>>) # <<>>
         /\ q # <<>> => Bare(Tail(q))
<1>1. <<>> \in {<<>>}
  OBVIOUS
<1> QED BY <1>1, Growing, Shrinking DEF Bare

(* What the ingress controller looks at.                                   *)
ingressVars == <<nginx, store[Ingresses], store[IngressSvcs], queue["ingress"]>>

(* A step of others leaves the configuration as it was called for.         *)
LEMMA Elsewhere ==
  ASSUME ConfigFollowsStores, UNCHANGED ingressVars, resync \cap {"ingress"} \subseteq resync'
  PROVE  ConfigFollowsStores'
BY DEF ConfigFollowsStores, Stored, ingressVars

(* A step after which there is news.                                       *)
LEMMA News ==
  ASSUME queue["ingress"]' # <<>> \/ "ingress" \in resync'
  PROVE  ConfigFollowsStores'
BY DEF ConfigFollowsStores

(* An object that is put has a name of its kind.                           *)
LEMMA PutKeepsTypes ==
  ASSUME Typed, NEW kind \in Kind, NEW name, NEW object, Put(kind, name, object)
  PROVE  etcd' = [k \in Kind |-> [n \in Names[k] |-> etcd'[k][n]]]
BY ZenonT(60) DEF Typed, Put

(* Requests of users reach etcd and the wires only.                        *)
LEMMA RequestStep ==
  ASSUME Inv, NEW kind \in Kind, NEW name, NEW object, Put(kind, name, object),
         UNCHANGED <<store, queue, resync, nginx>>
  PROVE  Inv'
<1>1. Typed'
  BY PutKeepsTypes DEF Inv, Typed
<1>2. ConfigFollowsStores'
  BY Elsewhere DEF Inv, ingressVars
<1> QED BY <1>1, <1>2 DEF Inv

(* Users, kubelets and restarts keep the invariant.                        *)
LEMMA UserStepKeeps ==
  ASSUME Inv, UserStep, UNCHANGED nginx
  PROVE  Inv'
<1> USE DEF Request, Kind
<1>1. CASE \E s \in Svc : DeleteService(s)
  BY <1>1, RequestStep DEF DeleteService
<1>2. CASE \E s \in Svc, a \in Addr, ports \in world.offers, picks \in world.selectors :
             CreateService(s, a, ports, picks)
  <2>1. PICK s \in Svc, a \in Addr, ports \in world.offers, picks \in world.selectors :
          CreateService(s, a, ports, picks)
    BY <1>2
  <2>2. UNCHANGED <<store, queue, resync>>
    BY <2>1 DEF CreateService
  <2>3. \E object : Put("svc", s, object)
    BY <2>1 DEF CreateService
  <2> QED BY <2>2, <2>3, RequestStep
<1>3. CASE \E p \in Pod : StartPod(p) \/ StopPod(p)
  <2>1. PICK p \in Pod : StartPod(p) \/ StopPod(p)
    BY <1>3
  <2>2. \E object : Put("pod", p, object)
    BY <2>1 DEF StartPod, StopPod
  <2>3. UNCHANGED <<store, queue, resync>>
    BY <2>1 DEF StartPod, StopPod
  <2> QED BY <2>2, <2>3, RequestStep
<1>4. CASE \E g \in Ing : DeleteIngress(g) \/ \E paths \in Ingress : PutIngress(g, paths)
  <2>1. PICK g \in Ing : DeleteIngress(g) \/ \E paths \in Ingress : PutIngress(g, paths)
    BY <1>4
  <2>2. \E object : Put("ing", g, object)
    BY <2>1 DEF DeleteIngress, PutIngress
  <2>3. UNCHANGED <<store, queue, resync>>
    BY <2>1 DEF DeleteIngress, PutIngress
  <2> QED BY <2>2, <2>3, RequestStep
<1>5. CASE RestartApi
  <2>1. UNCHANGED <<etcd, store, queue, resync>>
    BY <1>5 DEF RestartApi
  <2>2. Typed'
    BY <2>1 DEF Inv, Typed
  <2> QED BY <2>1, <2>2, Elsewhere DEF Inv, ingressVars
<1> QED BY <1>1, <1>2, <1>3, <1>4, <1>5 DEF UserStep

(* So do the informers.                                                    *)
LEMMA InformersKeep ==
  ASSUME Inv, NEW i \in Informers, Receive(i) \/ Relist(i) \/ Connect(i), UNCHANGED nginx
  PROVE  Inv'
<1> DEFINE Mine == i[1] = "ingress"
<1>1. i[1] \in Component /\ i[2] \in Kind /\ (i \in {Ingresses, IngressSvcs} <=> Mine)
  BY DEF Informers, Component, Kind, Ingresses, IngressSvcs
<1>2. ASSUME Receive(i) PROVE Inv'
  <2> DEFINE name == Head(wire[i])[1]
             new == Head(wire[i])[2]
             told == store[i][name] # new /\ Passes(i, store[i][name], new)
             note == Note(i, name, store[i][name], new)
  <2>1. /\ store' = [store EXCEPT ![i][name] = new]
        /\ told => queue' = [queue EXCEPT ![i[1]] = Append(@, note)]
        /\ ~told => UNCHANGED queue
        /\ UNCHANGED <<etcd, resync>>
    BY <1>2 DEF Receive
  <2> HIDE DEF name, new, told, note
  <2>2. Mine => note = <<>>
    BY DEF note, Note
  <2>3. Typed'
    <3>1. store' = [j \in Informers |-> [n \in Names[j[2]] |-> store'[j][n]]]
      BY <2>1 DEF Inv, Typed
    <3>2. queue' = [c \in Component |-> queue'[c]]
      BY <2>1, <1>1 DEF Inv, Typed
    <3>3. Bare(queue'["ingress"])
      <4>1. CASE told /\ Mine
        <5>1. queue'["ingress"] = Append(queue["ingress"], <<>>)
          BY <4>1, <2>1, <2>2 DEF Inv, Typed, Component
        <5> QED BY <5>1, BareChannels DEF Inv, Typed
      <4>2. CASE ~told \/ ~Mine
        BY <4>2, <2>1, <1>1 DEF Inv, Typed, Component
      <4> QED BY <4>1, <4>2
    <3> QED BY <2>1, <3>1, <3>2, <3>3 DEF Inv, Typed
  <2>4. CASE ~Mine
    <3>1. store'[Ingresses] = store[Ingresses] /\ store'[IngressSvcs] = store[IngressSvcs]
      BY <2>1, <2>4, <1>1 DEF Inv, Typed, Ingresses, IngressSvcs, Informers
    <3>2. queue'["ingress"] = queue["ingress"]
      BY <2>1, <2>4 DEF Inv, Typed, Component
    <3> QED BY <2>1, <2>3, <3>1, <3>2, Elsewhere DEF Inv, ingressVars
  <2>5. CASE Mine /\ told
    <3>1. queue'["ingress"] = Append(queue["ingress"], <<>>)
      BY <2>1, <2>2, <2>5 DEF Inv, Typed, Component
    <3>2. queue'["ingress"] # <<>>
      BY <3>1, BareChannels DEF Inv, Typed
    <3> QED BY <2>3, <3>2, News DEF Inv
  <2>6. CASE Mine /\ ~told
    <3>1. store[i][name] = new
      BY <2>6, <1>1 DEF told, Passes
    <3>2. store' = store
      BY <2>1, <3>1 DEF Inv, Typed
    <3> QED BY <2>1, <2>3, <2>6, <3>2, Elsewhere DEF Inv, ingressVars
  <2> QED BY <2>4, <2>5, <2>6
<1>3. ASSUME Relist(i) PROVE Inv'
  <2>1. Typed'
    BY <1>3, <1>1 DEF Relist, List, Inv, Typed
  <2>2. CASE Mine /\ store' # store
    <3>1. store'[i] # store[i]
      BY <1>3, <2>2 DEF Relist, List, Inv, Typed
    <3> QED BY <1>3, <2>1, <2>2, <3>1, News DEF Relist, List, Inv
  <2>3. CASE ~(Mine /\ store' # store)
    <3>1. UNCHANGED <<store[Ingresses], store[IngressSvcs]>>
      BY <1>3, <2>3, <1>1 DEF Relist, List, Inv, Typed, Ingresses, IngressSvcs, Informers
    <3> QED BY <1>3, <2>1, <3>1, Elsewhere DEF Relist, List, Inv, ingressVars
  <2> QED BY <2>2, <2>3
<1>4. ASSUME Connect(i) PROVE Inv'
  <2>1. UNCHANGED <<etcd, store, queue, resync>>
    BY <1>4 DEF Connect, storeVars
  <2>2. Typed'
    BY <2>1 DEF Inv, Typed
  <2> QED BY <2>1, <2>2, Elsewhere DEF Inv, ingressVars
<1> QED BY <1>2, <1>3, <1>4

(* The other two components take from their own channels, and of the       *)
(* stores change the endpoints controller's only.                          *)
LEMMA OthersKeep ==
  ASSUME Inv, EndpointsTask \/ EndpointsFail \/ ProxyTask, UNCHANGED nginx
  PROVE  Inv'
<1>1. \/ UNCHANGED queue
      \/ \E c \in {"endpoints", "proxy"} : queue' = [queue EXCEPT ![c] = Tail(@)]
  BY DEF EndpointsTask, EndpointsFail, AddFails, UpdateFails, ProxyTask, HandlePodNote, HandleServiceNote,
         HandleResync, Lock, Update, ProxyHandles, ProxyResyncs, TakeNote, TakeResync
<1>2. UNCHANGED store \/ \E s, new : store' = [store EXCEPT ![Svcs][s] = new]
  BY DEF EndpointsTask, EndpointsFail, AddFails, UpdateFails, ProxyTask, HandlePodNote, HandleServiceNote,
         HandleResync, Lock, Update, ProxyHandles, ProxyResyncs, apiVars, linkVars
<1>3. UNCHANGED etcd \/ \E s, new : Put("svc", s, new)
  BY DEF EndpointsTask, EndpointsFail, AddFails, UpdateFails, ProxyTask, HandlePodNote, HandleServiceNote,
         HandleResync, Lock, Update, ProxyHandles, ProxyResyncs, apiVars, linkVars
<1>4. resync \cap {"ingress"} \subseteq resync'
  BY DEF EndpointsTask, EndpointsFail, AddFails, UpdateFails, ProxyTask, HandlePodNote, HandleServiceNote,
         HandleResync, Lock, Update, ProxyHandles, ProxyResyncs, TakeNote, TakeResync
<1>5. UNCHANGED <<store[Ingresses], store[IngressSvcs], queue["ingress"]>>
  BY <1>1, <1>2 DEF Inv, Typed, Ingresses, IngressSvcs, Svcs, Informers, Component
<1>6. etcd' = [k \in Kind |-> [n \in Names[k] |-> etcd'[k][n]]]
  BY <1>3, PutKeepsTypes DEF Inv, Typed, Kind
<1>7. Typed'
  BY <1>1, <1>2, <1>5, <1>6, SMTT(30) DEF Inv, Typed
<1> QED BY <1>4, <1>5, <1>7, Elsewhere DEF Inv, ingressVars

(* The invariant holds throughout.                                         *)
LEMMA InvHolds == Spec => []Inv
<1>1. Init => Inv
  <2> SUFFICES ASSUME Init PROVE Inv
    OBVIOUS
  <2>1. Typed
    <3>1. etcd = [k \in Kind |-> [n \in Names[k] |-> etcd[k][n]]]
      BY DEF Init, InitServices, Names, Nothing, Kind
    <3>2. store = [i \in Informers |-> [n \in Names[i[2]] |-> store[i][n]]]
      <4>1. store = [i \in Informers |-> Nothing[i[2]]]
        BY DEF Init, InitServices
      <4>2. \A k \in Kind : Nothing[k] = [n \in Names[k] |-> Nothing[k][n]]
        BY DEF Kind, Names, Nothing
      <4>3. \A i \in Informers : i[2] \in Kind
        BY DEF Informers, Kind
      <4>4. \A i \in Informers : store[i] = [n \in Names[i[2]] |-> store[i][n]]
        BY <4>1, <4>2, <4>3
      <4> QED BY <4>1, <4>4
    <3>3. queue = [c \in Component |-> queue[c]] /\ queue["ingress"] = <<>>
      BY DEF Init, InitServices, Component
    <3>4. Bare(<<>>)
      BY DEF Bare
    <3> QED BY <3>1, <3>2, <3>3, <3>4 DEF Typed
  <2>2. Stored = NoHosts
    BY DEF Init, InitServices, Stored, Config, NoHosts, Nothing, Ingresses, IngressSvcs,
       Informers
  <2> QED BY <2>1, <2>2 DEF Inv, ConfigFollowsStores
<1>2. Inv /\ [Next]_vars => Inv'
  <2> SUFFICES ASSUME Inv, [Next]_vars PROVE Inv'
    OBVIOUS
  <2>1. CASE UserStep /\ UNCHANGED nginx
    BY <2>1, UserStepKeeps
  <2>2. CASE \E i \in Informers : (Receive(i) \/ Relist(i) \/ Connect(i)) /\ UNCHANGED nginx
    BY <2>2, InformersKeep
  <2>3. CASE (EndpointsTask \/ EndpointsFail \/ ProxyTask) /\ UNCHANGED nginx
    BY <2>3, OthersKeep
  <2>4. CASE Reconfigure
    <3>1. UNCHANGED <<etcd, store>>
      BY <2>4 DEF Reconfigure, apiVars
    <3>2. \/ UNCHANGED queue
          \/ queue["ingress"] # <<>> /\ queue' = [queue EXCEPT !["ingress"] = Tail(@)]
      BY <2>4 DEF Reconfigure, TakeNote, TakeResync
    <3>3. queue' = [c \in Component |-> queue'[c]] /\ Bare(queue'["ingress"])
      BY <3>2, BareChannels, ZenonT(60) DEF Inv, Typed, Component
    <3>4. Typed'
      BY <3>1, <3>3 DEF Inv, Typed
    <3>5. ConfigFollowsStores'
      BY <2>4, <3>1 DEF Reconfigure, Flush, Stored, ConfigFollowsStores
    <3> QED BY <3>4, <3>5 DEF Inv
  <2>5. CASE UNCHANGED vars
    <3>1. UNCHANGED <<etcd, store, queue, resync, nginx>>
      BY <2>5 DEF vars, serviceVars, apiVars, storeVars
    <3>2. Typed'
      BY <3>1 DEF Inv, Typed
    <3> QED BY <3>1, <3>2, Elsewhere DEF Inv, ingressVars
  <2> QED BY <2>1, <2>2, <2>3, <2>4, <2>5 DEF Next, InformerStep
<1> QED BY <1>1, <1>2, PTL DEF Spec

(* Whatever becomes of services and ingresses, in whatever order, and      *)
(* whichever watches are lost: nginx has the configuration the ingress     *)
(* controller's stores call for, or the controller is about to write it,   *)
(* or there is no ingress left.                                            *)
THEOREM ConfigurationFollows == Spec => []ConfigFollowsStores
<1>1. Inv => ConfigFollowsStores
  BY DEF Inv
<1> QED BY <1>1, InvHolds, PTL
-------------------------------------------------------------------------------
(* Induction, and what is defined by recursion.                            *)

(* Of the finite sets that are no example, one is smallest.                *)
LEMMA SmallestFinite ==
  ASSUME NEW S, NEW C \in SUBSET FiniteSubsetsOf(S), C # {}
  PROVE  \E u \in C : \A x \in u : (u \ {x}) \notin C
<1>1. IsWellFoundedOn(StrictSubsetOrdering(S), FiniteSubsetsOf(S))
  BY FS_StrictSubsetOrderingWellFounded
<1>2. PICK u \in C : \A y \in C : ~ (<<y, u>> \in StrictSubsetOrdering(S))
  BY <1>1, WFMin
<1>3. ASSUME NEW x \in u PROVE (u \ {x}) \notin C
  <2>1. u \in SUBSET S /\ (u \ {x}) \in SUBSET S /\ (u \ {x}) \subseteq u /\ u \ {x} # u
    BY DEF FiniteSubsetsOf
  <2>2. <<u \ {x}, u>> \in StrictSubsetOrdering(S)
    BY <2>1 DEF StrictSubsetOrdering
  <2> QED BY <1>2, <2>2
<1> QED BY <1>3

(* The smallest number of which something is false.                        *)
LEMMA SmallestNumber ==
  ASSUME NEW C \in SUBSET Nat, C # {}
  PROVE  \E n \in C : \A m \in 0 .. n - 1 : m \notin C
<1>1. PICK n \in C : \A m \in C : ~ (<<m, n>> \in OpToRel(<, Nat))
  BY WFMin, NatLessThanWellFounded
<1>2. ASSUME NEW m \in 0 .. n - 1, m \in C PROVE FALSE
  <2>1. m \in Nat /\ n \in Nat /\ m < n
    OBVIOUS
  <2>2. <<m, n>> \in OpToRel(<, Nat)
    BY <2>1 DEF OpToRel
  <2> QED BY <1>1, <1>2, <2>2
<1> QED BY <1>2

(* One function for both folds of the proxy: over the ports of a service   *)
(* and over the services of its store.                                     *)
First(u) == CHOOSE x \in u : TRUE
Step(k, x, t) == IF k[1] = "ports" THEN AddPort(t, k[2], x)
                 ELSE IF t.panicked THEN t ELSE AddSvc(t, x, k[2][x])
Folds(g, k, base, S) ==
  g = [u \in SUBSET S |-> IF u = {} THEN base ELSE Step(k, First(u), g[u \ {First(u)}])]
Folded(k, base, S) == (CHOOSE g : Folds(g, k, base, S))[S]

(* The element that is taken last is one.                                  *)
LEMMA FirstIsIn == ASSUME NEW u, u # {} PROVE First(u) \in u
BY DEF First

(* What the function is for one subset.                                    *)
LEMMA FoldsStep ==
  ASSUME NEW k, NEW base, NEW S, NEW g, Folds(g, k, base, S), NEW u \in SUBSET S
  PROVE  /\ u = {} => g[u] = base
         /\ u # {} => g[u] = Step(k, First(u), g[u \ {First(u)}])
BY DEF Folds

(* It does not depend on the set whose subsets it is defined for.          *)
LEMMA FoldsAgree ==
  ASSUME NEW k, NEW base, NEW S, NEW T, NEW g, NEW h,
         Folds(g, k, base, S), Folds(h, k, base, T), NEW u \in FiniteSubsetsOf(S \cap T)
  PROVE  g[u] = h[u]
<1> DEFINE C == {w \in FiniteSubsetsOf(S \cap T) : g[w] # h[w]}
<1>1. SUFFICES ASSUME C # {} PROVE FALSE
  OBVIOUS
<1>2. PICK w \in C : \A x \in w : (w \ {x}) \notin C
  BY <1>1, SmallestFinite
<1>3. w \in SUBSET S /\ w \in SUBSET T /\ w \in FiniteSubsetsOf(S \cap T) /\ g[w] # h[w]
  BY DEF FiniteSubsetsOf
<1>4. w # {}
  BY <1>3, FoldsStep
<1>5. First(w) \in w
  BY <1>4, FirstIsIn
<1>6. w \ {First(w)} \in FiniteSubsetsOf(S \cap T)
  BY <1>3, FS_RemoveElement DEF FiniteSubsetsOf
<1>7. g[w \ {First(w)}] = h[w \ {First(w)}]
  BY <1>2, <1>5, <1>6
<1>8. /\ g[w] = Step(k, First(w), g[w \ {First(w)}])
      /\ h[w] = Step(k, First(w), h[w \ {First(w)}])
  BY <1>3, <1>4, FoldsStep
<1> QED BY <1>3, <1>7, <1>8

(* It is one for the subsets of a subset too.                              *)
LEMMA FoldsSubset ==
  ASSUME NEW k, NEW base, NEW S, NEW g, Folds(g, k, base, S), NEW T \in SUBSET S
  PROVE  Folds([u \in SUBSET T |-> g[u]], k, base, T)
<1> DEFINE h == [u \in SUBSET T |-> g[u]]
<1>1. ASSUME NEW u \in SUBSET T
      PROVE  h[u] = IF u = {} THEN base ELSE Step(k, First(u), h[u \ {First(u)}])
  <2>1. u \in SUBSET S /\ u \ {First(u)} \in SUBSET T
    OBVIOUS
  <2>2. h[u] = g[u] /\ h[u \ {First(u)}] = g[u \ {First(u)}]
    BY <2>1
  <2>3. /\ u = {} => g[u] = base
        /\ u # {} => g[u] = Step(k, First(u), g[u \ {First(u)}])
    BY <2>1, FoldsStep
  <2> HIDE DEF h
  <2> QED BY <2>2, <2>3
<1>2. h = [u \in SUBSET T |-> IF u = {} THEN base ELSE Step(k, First(u), h[u \ {First(u)}])]
  BY <1>1
<1> QED BY <1>2 DEF Folds

(* There is one: the definition is well founded.                           *)
LEMMA FoldsExists ==
  ASSUME NEW k, NEW base, NEW S, IsFiniteSet(S)
  PROVE  \E g : Folds(g, k, base, S)
<1> DEFINE C == {u \in FiniteSubsetsOf(S) : ~ \E g : Folds(g, k, base, u)}
<1>1. SUFFICES ASSUME C # {} PROVE FALSE
  BY DEF FiniteSubsetsOf
<1>2. PICK u \in C : \A x \in u : (u \ {x}) \notin C
  BY <1>1, SmallestFinite
<1>3. u \in SUBSET S /\ IsFiniteSet(u) /\ ~ \E g : Folds(g, k, base, u)
  BY DEF FiniteSubsetsOf
<1> DEFINE a(t) == CHOOSE g : Folds(g, k, base, t)
           less(w) == w \ {First(w)}
           G == [w \in SUBSET u |-> IF w = {} THEN base
                                    ELSE Step(k, First(w), a(less(w))[less(w)])]
<1>4. ASSUME NEW t \in SUBSET u, t # u PROVE Folds(a(t), k, base, t)
  <2>1. PICK x \in u : x \notin t
    BY <1>4
  <2>2. u \ {x} \in FiniteSubsetsOf(S)
    BY <1>3, FS_RemoveElement DEF FiniteSubsetsOf
  <2>3. PICK g : Folds(g, k, base, u \ {x})
    BY <1>2, <2>2
  <2>4. t \in SUBSET (u \ {x})
    BY <2>1
  <2>5. \E h : Folds(h, k, base, t)
    BY <2>3, <2>4, FoldsSubset
  <2> QED BY <2>5
<1> HIDE DEF a, C
<1>5. ASSUME NEW w \in SUBSET u, w # {} PROVE less(w) \in SUBSET u /\ less(w) # u
  <2>1. First(w) \in w
    BY <1>5, FirstIsIn
  <2> QED BY <2>1
<1>6. ASSUME NEW t \in SUBSET u, t # u PROVE G[t] = a(t)[t]
  <2>1. Folds(a(t), k, base, t) /\ t \in SUBSET t
    BY <1>4, <1>6
  <2>2. CASE t = {}
    <3>1. PICK h : h = a(t)
      OBVIOUS
    <3>2. Folds(h, k, base, t)
      BY <2>1, <3>1
    <3>3. h[t] = base
      BY <2>1, <2>2, <3>2, FoldsStep
    <3> QED BY <2>2, <3>1, <3>3
  <2>3. CASE t # {}
    <3>1. less(t) \in SUBSET u /\ less(t) # u /\ less(t) \in SUBSET t
      BY <1>5, <2>3
    <3>2. Folds(a(less(t)), k, base, less(t))
      BY <1>4, <3>1
    <3>3. less(t) \in FiniteSubsetsOf(t \cap less(t))
      <4>1. IsFiniteSet(less(t))
        BY <1>3, <3>1, FS_Subset
      <4> QED BY <4>1, <3>1 DEF FiniteSubsetsOf
    <3>4. a(t)[less(t)] = a(less(t))[less(t)]
      BY <2>1, <3>2, <3>3, FoldsAgree
    <3>5. a(t)[t] = Step(k, First(t), a(t)[less(t)])
      BY <2>1, <2>3, FoldsStep
    <3> QED BY <2>3, <3>4, <3>5
  <2> QED BY <2>2, <2>3
<1>7. G = [w \in SUBSET u |-> IF w = {} THEN base ELSE Step(k, First(w), G[w \ {First(w)}])]
  <2>1. ASSUME NEW w \in SUBSET u
        PROVE  G[w] = IF w = {} THEN base ELSE Step(k, First(w), G[w \ {First(w)}])
    BY <1>5, <1>6
  <2> HIDE DEF a, less
  <2> QED BY <2>1
<1>8. Folds(G, k, base, u)
  BY <1>7 DEF Folds
<1> QED BY <1>3, <1>8

(* A fold takes one element after all the others.                          *)
LEMMA FoldsFirst ==
  ASSUME NEW k, NEW base, NEW S, IsFiniteSet(S)
  PROVE  /\ S = {} => Folded(k, base, S) = base
         /\ S # {} => Folded(k, base, S)
                        = Step(k, First(S), Folded(k, base, S \ {First(S)}))
<1> DEFINE T == S \ {First(S)}
           g == CHOOSE g : Folds(g, k, base, S)
           h == CHOOSE h : Folds(h, k, base, T)
<1>1. Folds(g, k, base, S)
  BY FoldsExists
<1>2. IsFiniteSet(T)
  BY FS_RemoveElement
<1>3. Folds(h, k, base, T)
  BY <1>2, FoldsExists
<1>4. Folded(k, base, S) = g[S] /\ Folded(k, base, T) = h[T]
  BY DEF Folded
<1>5. T \in FiniteSubsetsOf(S \cap T)
  BY <1>2 DEF FiniteSubsetsOf
<1> HIDE DEF g, h
<1>6. g[T] = h[T]
  BY <1>1, <1>3, <1>5, FoldsAgree
<1>7. S \in SUBSET S /\ (S = {} => g[S] = base) /\ (S # {} => g[S] = Step(k, First(S), g[T]))
  BY <1>1, FoldsStep
<1> QED BY <1>4, <1>6, <1>7

(* The fold over nothing.                                                  *)
LEMMA FoldsNothing == ASSUME NEW k, NEW base PROVE Folded(k, base, {}) = base
BY FoldsFirst, FS_EmptySet

(* AddPorts is such a fold.                                                *)
LEMMA PortsAreFolded ==
  ASSUME NEW st, NEW s, NEW S, IsFiniteSet(S)
  PROVE  AddPorts(st, s, S) = Folded(<<"ports", s>>, st, S)
<1> DEFINE k == <<"ports", s>>
           Is(g) == g = [u \in SUBSET S |->
                           IF u = {} THEN st ELSE AddPort(g[u \ {First(u)}], s, First(u))]
           G == CHOOSE g : Is(g)
           H == CHOOSE h : Folds(h, k, st, S)
<1>1. ASSUME NEW g PROVE Is(g) <=> Folds(g, k, st, S)
  <2>1. ASSUME NEW x, NEW t PROVE Step(k, x, t) = AddPort(t, s, x)
    BY DEF Step
  <2> HIDE DEF k
  <2> QED BY <2>1 DEF Folds
<1>2. Folds(H, k, st, S)
  BY FoldsExists
<1>3. Is(G)
  BY <1>1, <1>2
<1>4. AddPorts(st, s, S) = G[S] /\ Folded(k, st, S) = H[S]
  BY DEF AddPorts, FoldSet, MapThenFoldSet, Folded, First
<1>5. Folds(G, k, st, S) /\ S \in FiniteSubsetsOf(S \cap S)
  BY <1>1, <1>3 DEF FiniteSubsetsOf
<1> HIDE DEF G, H, k
<1>6. G[S] = H[S]
  BY <1>2, <1>5, FoldsAgree
<1> QED BY <1>4, <1>6 DEF k

(* AddAll is such a fold.                                                  *)
LEMMA ServicesAreFolded ==
  ASSUME NEW st, NEW svcs, NEW S, S = {s \in Svc : svcs[s] # None}, IsFiniteSet(S)
  PROVE  AddAll(st, svcs) = Folded(<<"services", svcs>>, st, S)
<1> DEFINE k == <<"services", svcs>>
           next(t, x) == IF t.panicked THEN t ELSE AddSvc(t, x, svcs[x])
           Is(g) == g = [u \in SUBSET S |->
                           IF u = {} THEN st ELSE next(g[u \ {First(u)}], First(u))]
           G == CHOOSE g : Is(g)
           H == CHOOSE h : Folds(h, k, st, S)
<1>1. ASSUME NEW g PROVE Is(g) <=> Folds(g, k, st, S)
  <2>1. ASSUME NEW x, NEW t PROVE Step(k, x, t) = next(t, x)
    BY DEF Step
  <2> HIDE DEF k, next
  <2> QED BY <2>1 DEF Folds
<1>2. Folds(H, k, st, S)
  BY FoldsExists
<1>3. Is(G)
  BY <1>1, <1>2
<1>4. AddAll(st, svcs) = G[S] /\ Folded(k, st, S) = H[S]
  BY DEF AddAll, FoldSet, MapThenFoldSet, Folded, First
<1>5. Folds(G, k, st, S) /\ S \in FiniteSubsetsOf(S \cap S)
  BY <1>1, <1>3 DEF FiniteSubsetsOf
<1> HIDE DEF G, H, k
<1>6. G[S] = H[S]
  BY <1>2, <1>5, FoldsAgree
<1> QED BY <1>4, <1>6 DEF k

(* One function for both recursions over the rules of a chain: what passes *)
(* them, and which of them are kept.                                       *)
Ground(k) == IF k[1] = "pass" THEN <<1, 1>> ELSE <<>>
Grow(k, i, x) ==
  IF k[1] = "pass" THEN <<x[1] * (k[2][i].one_in - 1), x[2] * k[2][i].one_in>>
  ELSE IF k[2][i].chain \in k[3] THEN x ELSE Append(x, k[2][i])
Grows(g, k, n) == g = [i \in 0 .. n |-> IF i = 0 THEN Ground(k) ELSE Grow(k, i, g[i - 1])]

(* There is such a function.                                               *)
LEMMA GrowsExists ==
  ASSUME NEW k, NEW n \in Nat
  PROVE  \E g : Grows(g, k, n)
<1> DEFINE C == {m \in Nat : ~ \E g : Grows(g, k, m)}
<1>1. SUFFICES ASSUME C # {} PROVE FALSE
  OBVIOUS
<1>2. PICK m \in C : \A l \in 0 .. m - 1 : l \notin C
  BY <1>1, SmallestNumber
<1>3. m \in Nat /\ ~ \E g : Grows(g, k, m)
  OBVIOUS
<1>4. CASE m = 0
  <2> DEFINE g == [i \in 0 .. m |-> Ground(k)]
  <2>1. g = [i \in 0 .. m |-> IF i = 0 THEN Ground(k) ELSE Grow(k, i, g[i - 1])]
    BY <1>4
  <2>2. Grows(g, k, m)
    BY <2>1 DEF Grows
  <2> QED BY <1>3, <2>2
<1>5. CASE m # 0
  <2>1. m - 1 \in Nat /\ m - 1 \in 0 .. m - 1
    BY <1>3, <1>5
  <2>2. PICK g : Grows(g, k, m - 1)
    BY <1>2, <2>1
  <2> DEFINE G == [i \in 0 .. m |-> IF i = m THEN Grow(k, m, g[m - 1]) ELSE g[i]]
  <2>3. ASSUME NEW i \in 0 .. m
        PROVE  G[i] = IF i = 0 THEN Ground(k) ELSE Grow(k, i, G[i - 1])
    <3>1. CASE i = m
      <4>1. m - 1 \in 0 .. m /\ m - 1 # m
        BY <1>3, <2>1
      <4> QED BY <1>5, <3>1, <4>1
    <3>2. CASE i # m
      <4>1. i \in 0 .. m - 1 /\ (i # 0 => i - 1 \in 0 .. m /\ i - 1 # m)
        BY <1>3, <3>2
      <4>2. g[i] = IF i = 0 THEN Ground(k) ELSE Grow(k, i, g[i - 1])
        BY <2>2, <4>1 DEF Grows
      <4> QED BY <3>2, <4>1, <4>2
    <3> QED BY <3>1, <3>2
  <2>4. G = [i \in 0 .. m |-> IF i = 0 THEN Ground(k) ELSE Grow(k, i, G[i - 1])]
    BY <2>3
  <2>5. Grows(G, k, m)
    BY <2>4 DEF Grows
  <2> QED BY <1>3, <2>5
<1> QED BY <1>4, <1>5

(* What passes the first rules of a ladder.                                *)
LEMMA PassingSteps ==
  ASSUME NEW ladder, Len(ladder) \in Nat
  PROVE  /\ Passing(ladder)[0] = <<1, 1>>
         /\ \A i \in 1 .. Len(ladder) :
              Passing(ladder)[i] = <<Passing(ladder)[i - 1][1] * (ladder[i].one_in - 1),
                                     Passing(ladder)[i - 1][2] * ladder[i].one_in>>
<1> DEFINE n == Len(ladder)
           k == <<"pass", ladder>>
           next(i, x) == <<x[1] * (ladder[i].one_in - 1), x[2] * ladder[i].one_in>>
           Is(g) == g = [i \in 0 .. n |-> IF i = 0 THEN <<1, 1>> ELSE next(i, g[i - 1])]
           G == CHOOSE g : Is(g)
<1>1. ASSUME NEW g PROVE Is(g) <=> Grows(g, k, n)
  <2>1. Ground(k) = <<1, 1>> /\ \A i, x : Grow(k, i, x) = next(i, x)
    BY DEF Ground, Grow
  <2> HIDE DEF k, next
  <2> QED BY <2>1 DEF Grows
<1>2. \E g : Grows(g, k, n)
  BY GrowsExists
<1>3. Is(G)
  BY <1>1, <1>2
<1>4. Passing(ladder) = G
  BY DEF Passing
<1>5. 0 \in 0 .. n /\ \A i \in 1 .. n : i \in 0 .. n /\ i # 0
  OBVIOUS
<1> HIDE DEF n, G, next
<1>6. G[0] = <<1, 1>> /\ \A i \in 1 .. n : G[i] = next(i, G[i - 1])
  BY <1>3, <1>5, Zenon
<1> QED BY <1>4, <1>6 DEF n, next

(* Rules are kept unless they lead to an old chain.                        *)
LEMMA WithoutSteps ==
  ASSUME NEW rs, NEW old, Len(rs) \in Nat
  PROVE  \E g : /\ g[0] = <<>>
                /\ \A i \in 1 .. Len(rs) :
                     g[i] = IF rs[i].chain \in old THEN g[i - 1] ELSE Append(g[i - 1], rs[i])
                /\ Without(rs, old) = g[Len(rs)]
<1> DEFINE n == Len(rs)
           k == <<"kept", rs, old>>
           next(i, x) == IF rs[i].chain \in old THEN x ELSE Append(x, rs[i])
           Is(g) == g = [i \in 0 .. n |-> IF i = 0 THEN <<>>
                                          ELSE next(i, g[i - 1])]
           G == CHOOSE g : Is(g)
<1>1. ASSUME NEW g PROVE Is(g) <=> Grows(g, k, n)
  <2>1. Ground(k) = <<>> /\ \A i, x : Grow(k, i, x) = next(i, x)
    BY DEF Ground, Grow
  <2> HIDE DEF k, next
  <2> QED BY <2>1 DEF Grows
<1>2. \E g : Grows(g, k, n)
  BY GrowsExists
<1>3. Is(G)
  BY <1>1, <1>2
<1>4. Without(rs, old) = G[n]
  BY DEF Without
<1>5. n \in Nat /\ 0 \in 0 .. n /\ \A i \in 1 .. n : i \in 0 .. n /\ i # 0
  OBVIOUS
<1> HIDE DEF G, next, n
<1>6. G[0] = <<>> /\ \A i \in 1 .. n : G[i] = next(i, G[i - 1])
  BY <1>3, <1>5
<1> QED BY <1>4, <1>6 DEF next, n

RangeOf(q) == {q[i] : i \in DOMAIN q}

(* What a sequence has after an element more.                              *)
LEMMA AppendRange ==
  ASSUME NEW S, NEW q \in Seq(S), NEW x \in S
  PROVE  Append(q, x) \in Seq(S) /\ RangeOf(Append(q, x)) = RangeOf(q) \cup {x}
<1>1. Append(q, x) \in Seq(S) /\ Len(q) \in Nat /\ Len(Append(q, x)) = Len(q) + 1
  OBVIOUS
<1>2. DOMAIN q = 1 .. Len(q) /\ DOMAIN Append(q, x) = 1 .. (Len(q) + 1)
  BY <1>1
<1>3. \A i \in 1 .. Len(q) : Append(q, x)[i] = q[i]
  OBVIOUS
<1>4. Append(q, x)[Len(q) + 1] = x /\ Len(q) + 1 \in 1 .. (Len(q) + 1)
  BY <1>1
<1>5. \A i \in 1 .. (Len(q) + 1) : i \in 1 .. Len(q) \/ i = Len(q) + 1
  BY <1>1
<1>6. 1 .. Len(q) \subseteq 1 .. (Len(q) + 1)
  BY <1>1
<1> QED BY <1>1, <1>2, <1>3, <1>4, <1>5, <1>6 DEF RangeOf

(* What is left of the rules when those to old chains are deleted.         *)
LEMMA WithoutRange ==
  ASSUME NEW S, NEW rs \in Seq(S), NEW old
  PROVE  /\ Without(rs, old) \in Seq(S)
         /\ RangeOf(Without(rs, old)) = {r \in RangeOf(rs) : r.chain \notin old}
<1> DEFINE n == Len(rs)
<1>1. n \in Nat /\ DOMAIN rs = 1 .. n /\ \A i \in 1 .. n : rs[i] \in S
  OBVIOUS
<1>2. PICK g : /\ g[0] = <<>>
               /\ \A i \in 1 .. n :
                    g[i] = IF rs[i].chain \in old THEN g[i - 1] ELSE Append(g[i - 1], rs[i])
               /\ Without(rs, old) = g[n]
  BY <1>1, WithoutSteps
<1> DEFINE upto(i) == {r \in {rs[j] : j \in 1 .. i} : r.chain \notin old}
           C == {i \in Nat : i <= n /\ ~(g[i] \in Seq(S) /\ RangeOf(g[i]) = upto(i))}
<1>3. ASSUME C # {} PROVE FALSE
  <2>1. PICK i \in C : \A j \in 0 .. i - 1 : j \notin C
    BY <1>3, SmallestNumber
  <2>2. i \in Nat /\ i <= n /\ ~(g[i] \in Seq(S) /\ RangeOf(g[i]) = upto(i))
    OBVIOUS
  <2>3. CASE i = 0
    <3>1. g[i] = <<>> /\ <<>> \in Seq(S)
      BY <1>2, <2>3
    <3>2. RangeOf(<<>>) = {} /\ 1 .. 0 = {}
      BY DEF RangeOf
    <3>3. upto(i) = {}
      BY <2>3, <3>2
    <3> QED BY <2>2, <3>1, <3>2, <3>3
  <2>4. CASE i # 0
    <3>1. i - 1 \in 0 .. i - 1 /\ i - 1 \in Nat /\ i - 1 <= n /\ i \in 1 .. n
      BY <1>1, <2>2, <2>4
    <3>2. g[i - 1] \in Seq(S) /\ RangeOf(g[i - 1]) = upto(i - 1)
      BY <2>1, <3>1
    <3>3. 1 .. i = (1 .. i - 1) \cup {i}
      BY <2>2, <2>4
    <3>4. {rs[j] : j \in 1 .. i} = {rs[j] : j \in 1 .. i - 1} \cup {rs[i]}
      BY <3>3
    <3>5. CASE rs[i].chain \in old
      <4>1. g[i] = g[i - 1]
        BY <1>2, <3>1, <3>5
      <4>2. upto(i) = upto(i - 1)
        BY <3>4, <3>5
      <4> QED BY <2>2, <3>2, <4>1, <4>2
    <3>6. CASE rs[i].chain \notin old
      <4>1. g[i] = Append(g[i - 1], rs[i])
        BY <1>2, <3>1, <3>6
      <4>2. upto(i) = upto(i - 1) \cup {rs[i]}
        BY <3>4, <3>6
      <4>3. g[i] \in Seq(S) /\ RangeOf(g[i]) = RangeOf(g[i - 1]) \cup {rs[i]}
        BY <1>1, <3>1, <3>2, <4>1, AppendRange
      <4> QED BY <2>2, <3>2, <4>2, <4>3
    <3> QED BY <3>5, <3>6
  <2> QED BY <2>3, <2>4
<1>4. n \in Nat /\ n <= n
  BY <1>1
<1>5. g[n] \in Seq(S) /\ RangeOf(g[n]) = upto(n)
  BY <1>3, <1>4
<1>6. RangeOf(rs) = {rs[j] : j \in 1 .. n}
  BY <1>1 DEF RangeOf
<1> QED BY <1>2, <1>5, <1>6

-------------------------------------------------------------------------------
(* A ladder of rules.                                                      *)

(* A ladder has each endpoint once, the one before last one in two.        *)
LEMMA LadderRungs ==
  ASSUME NEW eps, IsFiniteSet(eps)
  PROVE  /\ Cardinality(eps) \in Nat /\ Len(Ladder(eps)) = Cardinality(eps)
         /\ \A i \in 1 .. Cardinality(eps) : Ladder(eps)[i].one_in = Cardinality(eps) - i + 1
         /\ {Ladder(eps)[i].ep : i \in 1 .. Cardinality(eps)} = eps
         /\ eps = {} => Ladder(eps) = <<>>
         /\ eps # {} => Ladder(eps) # <<>>
<1> DEFINE n == Cardinality(eps)
           order == SetToSeq(eps)
<1>1. n \in Nat /\ ExistsBijection(1 .. n, eps)
  BY FS_CardinalityType
<1>2. order \in [1 .. n -> eps] /\ IsInjective(order)
  <2>1. \E f \in [1 .. n -> eps] : IsInjective(f)
    BY <1>1 DEF ExistsBijection, Bijection, Injection
  <2> QED BY <2>1 DEF SetToSeq
<1>3. order \in Surjection(1 .. n, eps)
  <2>1. order \in Injection(1 .. n, eps)
    BY <1>2 DEF Injection
  <2>2. IsFiniteSet(1 .. n) /\ Cardinality(1 .. n) = n
    <3>1. 1 \in Int /\ n \in Int
      BY <1>1
    <3>2. IsFiniteSet(1 .. n) /\ Cardinality(1 .. n) = IF 1 > n THEN 0 ELSE n - 1 + 1
      BY <3>1, FS_Interval
    <3> QED BY <1>1, <3>2
  <2> QED BY <2>1, <2>2, FS_Injection
<1>4. {order[i] : i \in 1 .. n} = eps
  BY <1>2, <1>3 DEF Surjection
<1>5. Len(order) = n
  <2>1. order \in Seq(eps) /\ DOMAIN order = 1 .. n
    BY <1>1, <1>2
  <2> QED BY <1>1, <2>1
<1> HIDE DEF order, n
<1>6. Ladder(eps) = [i \in 1 .. n |-> [ep |-> order[i], one_in |-> n - i + 1]]
  BY <1>5 DEF Ladder, order
<1>7. Len(Ladder(eps)) = n
  <2>1. Ladder(eps) \in Seq([ep : eps, one_in : Int]) /\ DOMAIN Ladder(eps) = 1 .. n
    BY <1>1, <1>2, <1>6
  <2> QED BY <1>1, <2>1
<1>8. \A i \in 1 .. n : Ladder(eps)[i].one_in = n - i + 1 /\ Ladder(eps)[i].ep = order[i]
  BY <1>6
<1>9. eps = {} <=> n = 0
  BY FS_EmptySet DEF n
<1>10. n = 0 <=> Ladder(eps) = <<>>
  <2>1. CASE n = 0
    <3>1. 1 .. n = {}
      BY <2>1
    <3>2. Ladder(eps) = <<>>
      BY <1>6, <3>1
    <3> QED BY <2>1, <3>2
  <2>2. CASE n # 0
    <3>1. Len(<<>>) = 0
      OBVIOUS
    <3> QED BY <1>7, <2>2, <3>1
  <2> QED BY <2>1, <2>2
<1>11. {Ladder(eps)[i].ep : i \in 1 .. n} = eps
  BY <1>4, <1>8
<1> QED BY <1>1, <1>7, <1>8, <1>9, <1>10, <1>11 DEF n

(* The step of the arithmetic of ladders.                                  *)
LEMMA Regrouped ==
  ASSUME NEW a \in Nat, NEW b \in Nat, NEW c \in Nat, NEW d \in Nat, NEW e \in Nat,
         a * b = c * d
  PROVE  (a * e) * b = (c * d) * e
<1>1. (a * e) * b = (a * b) * e
  OBVIOUS
<1> QED BY <1>1

(* Whoever comes as far as a rung has come by chance through the ones      *)
(* before it; so each endpoint gets its share.                             *)
LEMMA LaddersAreEven ==
  ASSUME NEW eps, IsFiniteSet(eps)
  PROVE  Even(Ladder(eps))
<1> DEFINE ladder == Ladder(eps)
           n == Len(ladder)
           pass == Passing(ladder)
           Share(i) == /\ pass[i][1] \in Nat /\ pass[i][2] \in Nat
                       /\ pass[i][1] * n = pass[i][2] * (n - i)
           C == {i \in Nat : i <= n /\ ~Share(i)}
<1>1. n \in Nat /\ \A i \in 1 .. n : ladder[i].one_in = n - i + 1
  BY LadderRungs
<1>2. /\ pass[0] = <<1, 1>>
      /\ \A i \in 1 .. n : pass[i] = <<pass[i - 1][1] * (ladder[i].one_in - 1),
                                       pass[i - 1][2] * ladder[i].one_in>>
  BY <1>1, PassingSteps
<1> HIDE DEF ladder, pass, n
<1>3. ASSUME C # {} PROVE FALSE
  <2>1. PICK i \in C : \A j \in 0 .. i - 1 : j \notin C
    BY <1>3, SmallestNumber
  <2>2. i \in Nat /\ i <= n /\ ~Share(i)
    OBVIOUS
  <2>3. CASE i = 0
    <3>1. pass[i][1] = 1 /\ pass[i][2] = 1
      BY <1>2, <2>3
    <3> QED BY <1>1, <2>2, <2>3, <3>1
  <2>4. CASE i # 0
    <3>1. i - 1 \in 0 .. i - 1 /\ i - 1 \in Nat /\ i - 1 <= n /\ i \in 1 .. n
      BY <1>1, <2>2, <2>4
    <3>2. Share(i - 1)
      BY <2>1, <3>1
    <3>3. PICK a, c, d, e : /\ a = pass[i - 1][1] /\ c = pass[i - 1][2]
                            /\ d = n - (i - 1) /\ e = n - i
      OBVIOUS
    <3>4. a \in Nat /\ c \in Nat /\ d \in Nat /\ e \in Nat /\ a * n = c * d
          /\ ladder[i].one_in - 1 = e /\ ladder[i].one_in = d
      BY <1>1, <2>2, <3>1, <3>2, <3>3
    <3>5. pass[i][1] = a * e /\ pass[i][2] = c * d
      BY <1>2, <3>1, <3>3, <3>4
    <3>6. a * e \in Nat /\ c * d \in Nat
      BY <3>4
    <3>7. (a * e) * n = (c * d) * e
      BY <1>1, <3>4, Regrouped
    <3> QED BY <2>2, <3>3, <3>5, <3>6, <3>7
  <2> QED BY <2>3, <2>4
<1>4. ASSUME NEW i \in 1 .. n PROVE pass[i - 1][1] * n = pass[i - 1][2] * ladder[i].one_in
  <2>1. i - 1 \in Nat /\ i - 1 <= n /\ n - (i - 1) = n - i + 1
    BY <1>1
  <2>2. Share(i - 1)
    BY <1>3, <2>1
  <2> QED BY <1>1, <2>1, <2>2
<1> QED BY <1>4 DEF Even, ladder, pass, n

-------------------------------------------------------------------------------
(* The proxy's table and the kernel.                                       *)

Entry == [chain : Nat, eps : SUBSET Ip]
Rule == [addr : Addr, port : Port, chain : Nat]

(* An entry of the table is a service and a port.                          *)
Entries(st) == {x \in Svc \X Port : st.tb[x[1]] # None /\ x[2] \in DOMAIN st.tb[x[1]].lb}
ChainOf(st, x) == st.tb[x[1]].lb[x[2]].chain
EpsOf(st, x) == st.tb[x[1]].lb[x[2]].eps
RuleOf(st, x) == [addr |-> st.tb[x[1]].addr, port |-> x[2], chain |-> ChainOf(st, x)]

IsState(st) ==
  /\ st = [rules |-> st.rules, chains |-> st.chains, tb |-> st.tb, panicked |-> st.panicked]
  /\ st.tb \in [Svc -> Table \cup {None}]
  /\ st.rules \in Seq(Rule)

(* For these entries, which may be some of the table's, there is all that  *)
(* is needed in the kernel, and nothing else: a chain of their own with an *)
(* even ladder, and a rule that leads to it.                               *)
Agrees(st, L) ==
  /\ L \subseteq Entries(st)
  /\ DOMAIN st.chains = {ChainOf(st, x) : x \in L}
  /\ \A x \in L : st.chains[ChainOf(st, x)] = Ladder(EpsOf(st, x))
  /\ \A x \in L, y \in L : ChainOf(st, x) = ChainOf(st, y) => x = y
  /\ RangeOf(st.rules) = {RuleOf(st, x) : x \in L}

Sound(st, L) == IsState(st) /\ st.panicked = FALSE /\ Agrees(st, L)

(* The fields of a table, and that it is one.                              *)
LEMMA TableParts ==
  ASSUME NEW t \in Table
  PROVE  /\ t = [addr |-> t.addr, lb |-> t.lb] /\ t.addr \in Addr /\ t # None
         /\ DOMAIN t.lb \subseteq Port /\ t.lb \in [DOMAIN t.lb -> Entry]
<1>1. PICK lbs : lbs = UNION {[P -> Entry] : P \in SUBSET Port}
  OBVIOUS
<1>2. t \in [addr : Addr, lb : lbs]
  BY <1>1 DEF Table, Entry
<1>3. t = [addr |-> t.addr, lb |-> t.lb] /\ t.addr \in Addr /\ t.lb \in lbs
  BY <1>2
<1>4. DOMAIN t.lb \subseteq Port /\ t.lb \in [DOMAIN t.lb -> Entry]
  BY <1>1, <1>3
<1> QED BY <1>3, <1>4, NoTableAssumption

(* A table from its fields.                                                *)
LEMMA TableMade ==
  ASSUME NEW a \in Addr, NEW P \in SUBSET Port, NEW f \in [P -> Entry]
  PROVE  /\ [addr |-> a, lb |-> f] \in Table
         /\ [addr |-> a, lb |-> f].addr = a /\ [addr |-> a, lb |-> f].lb = f
         /\ [addr |-> a, lb |-> f] # None
<1>1. PICK lbs : lbs = UNION {[Q -> Entry] : Q \in SUBSET Port}
  OBVIOUS
<1>2. f \in lbs
  BY <1>1
<1>3. [addr |-> a, lb |-> f] \in [addr : Addr, lb : lbs]
  BY <1>2
<1>4. [addr |-> a, lb |-> f] \in Table
  BY <1>1, <1>3 DEF Table, Entry
<1> QED BY <1>4, NoTableAssumption

(* The image of a finite set is finite.                                    *)
LEMMA ImageFinite ==
  ASSUME NEW S, IsFiniteSet(S), NEW f
  PROVE  IsFiniteSet({f[x] : x \in S})
<1> DEFINE T == {f[x] : x \in S}
           g == [x \in S |-> f[x]]
<1>1. g \in Surjection(S, T)
  BY DEF Surjection
<1> QED BY <1>1, FS_Surjection

(* There is always a name for a new chain.                                 *)
LEMMA NewChainIsNew ==
  ASSUME NEW st, st.tb \in [Svc -> Table \cup {None}], IsFiniteSet(DOMAIN st.chains)
  PROVE  /\ NewChain(st) \in Nat /\ NewChain(st) \notin DOMAIN st.chains
         /\ \A s \in Svc : st.tb[s] # None =>
              \A p \in DOMAIN st.tb[s].lb : NewChain(st) # st.tb[s].lb[p].chain
<1> DEFINE each == [s \in Svc |-> ChainsOf(st.tb[s])]
           all == {each[s] : s \in Svc}
           used == (DOMAIN st.chains) \cup UNION {ChainsOf(st.tb[s]) : s \in Svc}
           n == Cardinality(used)
<1>1. ASSUME NEW s \in Svc PROVE IsFiniteSet(ChainsOf(st.tb[s]))
  <2>1. CASE st.tb[s] = None
    BY <2>1, FS_EmptySet DEF ChainsOf
  <2>2. CASE st.tb[s] # None
    <3>1. st.tb[s] \in Table
      BY <2>2
    <3>2. PICK lb : lb = st.tb[s].lb
      OBVIOUS
    <3>3. DOMAIN lb \in SUBSET Port
      BY <3>1, <3>2, TableParts
    <3>4. IsFiniteSet(DOMAIN lb)
      BY <3>3, FS_Subset, ServicesAssumption
    <3>10. PICK f : f = [p \in DOMAIN lb |-> lb[p].chain]
      OBVIOUS
    <3>5. IsFiniteSet({f[p] : p \in DOMAIN lb})
      BY <3>4, ImageFinite
    <3>6. ChainsOf(st.tb[s]) = {f[p] : p \in DOMAIN lb}
      BY <2>2, <3>2, <3>10 DEF ChainsOf
    <3> QED BY <3>5, <3>6
  <2> QED BY <2>1, <2>2
<1>2. IsFiniteSet(all)
  <2>1. PICK f : f = each
    OBVIOUS
  <2>2. IsFiniteSet({f[s] : s \in Svc})
    BY ImageFinite, ServicesAssumption
  <2> HIDE DEF each
  <2> QED BY <2>1, <2>2
<1>3. \A T \in all : IsFiniteSet(T)
  BY <1>1
<1>4. IsFiniteSet(UNION all)
  BY <1>2, <1>3, FS_UNION
<1>5. used = (DOMAIN st.chains) \cup UNION all
  OBVIOUS
<1> HIDE DEF all, used
<1>6. IsFiniteSet(used)
  BY <1>4, <1>5, FS_Union
<1>7. n \in Nat
  BY <1>6, FS_CardinalityType
<1>8. \E c \in 1 .. n + 1 : c \notin used
  <2>1. SUFFICES ASSUME 1 .. n + 1 \subseteq used PROVE FALSE
    OBVIOUS
  <2>2. Cardinality(1 .. n + 1) <= n
    BY <1>6, <2>1, FS_Subset
  <2>3. 1 \in Int /\ n + 1 \in Int
    BY <1>7
  <2>4. Cardinality(1 .. n + 1) = IF 1 > n + 1 THEN 0 ELSE (n + 1) - 1 + 1
    BY <2>3, FS_Interval
  <2> HIDE DEF n
  <2> QED BY <1>7, <2>2, <2>4
<1>9. NewChain(st) = CHOOSE c \in 1 .. n + 1 : c \notin used
  BY DEF NewChain, used, n
<1>10. NewChain(st) \in 1 .. n + 1 /\ NewChain(st) \notin used
  <2> HIDE DEF n, used
  <2> QED BY <1>8, <1>9, Zenon
<1>11. ASSUME NEW s \in Svc, st.tb[s] # None, NEW p \in DOMAIN st.tb[s].lb
       PROVE  st.tb[s].lb[p].chain \in used
  <2>1. st.tb[s].lb[p].chain \in ChainsOf(st.tb[s])
    BY <1>11 DEF ChainsOf
  <2> QED BY <2>1 DEF used
<1>12. NewChain(st) \in Nat
  BY <1>7, <1>10
<1> QED BY <1>5, <1>10, <1>11, <1>12

(* The kernel has finitely many chains.                                    *)
LEMMA SoundIsFinite ==
  ASSUME NEW st, NEW L, Sound(st, L)
  PROVE  IsFiniteSet(L) /\ IsFiniteSet(DOMAIN st.chains)
<1>1. L \in SUBSET (Svc \X Port)
  BY DEF Sound, Agrees, Entries
<1>2. IsFiniteSet(Svc \X Port)
  BY FS_Product, ServicesAssumption
<1>3. IsFiniteSet(L)
  BY <1>1, <1>2, FS_Subset
<1> DEFINE f == [x \in L |-> ChainOf(st, x)]
<1>4. IsFiniteSet({f[x] : x \in L})
  BY <1>3, ImageFinite
<1>5. {f[x] : x \in L} = {ChainOf(st, x) : x \in L}
  OBVIOUS
<1>6. DOMAIN st.chains = {ChainOf(st, x) : x \in L}
  BY DEF Sound, Agrees
<1> HIDE DEF f
<1> QED BY <1>3, <1>4, <1>5, <1>6

(* What is added to the table and the kernel leaves the rest as it was.    *)
SameBut(r, st, s) == \A t \in Svc : t # s => r.tb[t] = st.tb[t]

(* The fields after a port is added.                                       *)
LEMMA AddPortFields ==
  ASSUME NEW st, IsState(st), NEW s \in Svc, st.tb[s] # None, NEW port \in Port,
         NEW c, c = NewChain(st)
  PROVE  AddPort(st, s, port) =
           [rules |-> Append(st.rules, [addr |-> st.tb[s].addr, port |-> port, chain |-> c]),
            chains |-> With(st.chains, c, <<>>),
            tb |-> [st.tb EXCEPT ![s] =
                      [addr |-> st.tb[s].addr,
                       lb |-> With(st.tb[s].lb, port, [chain |-> c, eps |-> {}])]],
            panicked |-> st.panicked]
<1>1. st.tb[s] \in Table
  BY DEF IsState
<1>2. st.tb[s] = [addr |-> st.tb[s].addr, lb |-> st.tb[s].lb]
  BY <1>1, TableParts
<1>3. PICK rs, cs, new : /\ rs = Append(st.rules, [addr |-> st.tb[s].addr,
                                                  port |-> port, chain |-> c])
                         /\ cs = With(st.chains, c, <<>>)
                         /\ new = With(st.tb[s].lb, port, [chain |-> c, eps |-> {}])
  OBVIOUS
<1>4. AddPort(st, s, port) = [st EXCEPT !.chains = cs, !.rules = rs,
                                        !.tb = [st.tb EXCEPT ![s] = [st.tb[s] EXCEPT !.lb = new]]]
  BY <1>3 DEF AddPort, IsState
<1>5. [st.tb[s] EXCEPT !.lb = new] = [addr |-> st.tb[s].addr, lb |-> new]
  BY <1>2
<1>6. PICK table : table = [st.tb EXCEPT ![s] = [addr |-> st.tb[s].addr, lb |-> new]]
  OBVIOUS
<1>7. AddPort(st, s, port) = [st EXCEPT !.chains = cs, !.rules = rs, !.tb = table]
  BY <1>4, <1>5, <1>6
<1>8. st = [rules |-> st.rules, chains |-> st.chains, tb |-> st.tb, panicked |-> st.panicked]
  BY DEF IsState
<1>9. PICK e : e = [st EXCEPT !.chains = cs, !.rules = rs, !.tb = table]
  OBVIOUS
<1>10. e.rules = rs /\ e.chains = cs /\ e.tb = table /\ e.panicked = st.panicked
  BY <1>8, <1>9
<1>11. e = [rules |-> e.rules, chains |-> e.chains, tb |-> e.tb, panicked |-> e.panicked]
  BY <1>8, <1>9
<1> QED BY <1>3, <1>6, <1>7, <1>9, <1>10, <1>11

(* The entries a service has with these ports.                             *)
Of(s, S) == {<<s, p>> : p \in S}

(* A service has been given these ports, in the table and in the kernel,   *)
(* and nothing else has changed.                                           *)
Extended(r, st, s, L, S) ==
  /\ Sound(r, L \cup Of(s, S)) /\ SameBut(r, st, s)
  /\ r.tb[s] # None /\ r.tb[s].addr = st.tb[s].addr
  /\ DOMAIN r.tb[s].lb = (DOMAIN st.tb[s].lb) \cup S
  /\ \A p \in S : r.tb[s].lb[p].eps = {}
  /\ \A p \in (DOMAIN st.tb[s].lb) \ S : r.tb[s].lb[p] = st.tb[s].lb[p]

(* A port is added that the table did not have, or not in the kernel.      *)
LEMMA PortAdded ==
  ASSUME NEW st, NEW L, Sound(st, L), NEW s \in Svc, st.tb[s] # None, NEW port \in Port,
         <<s, port>> \notin L, NEW r, r = AddPort(st, s, port)
  PROVE  Extended(r, st, s, L, {port})
<1>1. /\ st.tb \in [Svc -> Table \cup {None}] /\ st.rules \in Seq(Rule)
      /\ st.panicked = FALSE /\ IsState(st) /\ st.tb[s] \in Table
  BY DEF Sound, IsState
<1>2. PICK a, lb : a = st.tb[s].addr /\ lb = st.tb[s].lb
  OBVIOUS
<1>3. a \in Addr /\ DOMAIN lb \subseteq Port /\ lb \in [DOMAIN lb -> Entry]
  BY <1>1, <1>2, TableParts
<1>4. IsFiniteSet(DOMAIN st.chains)
  BY SoundIsFinite
<1>5. PICK c : c = NewChain(st)
  OBVIOUS
<1>6. /\ c \in Nat /\ c \notin DOMAIN st.chains
      /\ \A t \in Svc : st.tb[t] # None => \A p \in DOMAIN st.tb[t].lb : c # st.tb[t].lb[p].chain
  BY <1>1, <1>4, <1>5, NewChainIsNew
<1>7. PICK new : new = With(lb, port, [chain |-> c, eps |-> {}])
  OBVIOUS
<1>8. PICK P : P = (DOMAIN lb) \cup {port}
  OBVIOUS
<1>9. /\ DOMAIN new = P /\ new[port] = [chain |-> c, eps |-> {}]
      /\ \A p \in DOMAIN lb : p # port => new[p] = lb[p]
  BY <1>7, <1>8 DEF With
<1>10. P \in SUBSET Port /\ new \in [P -> Entry]
  <2>1. [chain |-> c, eps |-> {}] \in Entry
    BY <1>6 DEF Entry
  <2>2. new = [p \in P |-> new[p]]
    BY <1>7, <1>8 DEF With
  <2>3. \A p \in P : new[p] \in Entry
    BY <1>3, <1>8, <1>9, <2>1
  <2> QED BY <1>3, <1>8, <2>2, <2>3
<1>11. PICK e, rule, cs : /\ e = [addr |-> a, lb |-> new]
                          /\ rule = [addr |-> a, port |-> port, chain |-> c]
                          /\ cs = With(st.chains, c, <<>>)
  OBVIOUS
<1>12. e \in Table /\ e.addr = a /\ e.lb = new /\ e # None
  BY <1>3, <1>10, <1>11, TableMade
<1>13. rule \in Rule
  BY <1>3, <1>6, <1>11 DEF Rule
<1>14. r = [rules |-> Append(st.rules, rule), chains |-> cs,
            tb |-> [st.tb EXCEPT ![s] = e], panicked |-> st.panicked]
  BY <1>1, <1>2, <1>5, <1>7, <1>11, AddPortFields
<1>15. /\ r.rules = Append(st.rules, rule) /\ r.chains = cs
       /\ r.tb = [st.tb EXCEPT ![s] = e] /\ r.panicked = FALSE
       /\ r = [rules |-> r.rules, chains |-> r.chains, tb |-> r.tb, panicked |-> r.panicked]
  BY <1>1, <1>14
<1>16. r.tb[s] = e /\ r.tb \in [Svc -> Table \cup {None}] /\ SameBut(r, st, s)
  BY <1>1, <1>12, <1>15 DEF SameBut
<1>17. r.rules \in Seq(Rule) /\ RangeOf(r.rules) = RangeOf(st.rules) \cup {rule}
  BY <1>1, <1>13, <1>15, AppendRange
<1>18. IsState(r)
  BY <1>15, <1>16, <1>17 DEF IsState
<1>19. /\ L \subseteq Entries(st)
       /\ DOMAIN st.chains = {ChainOf(st, x) : x \in L}
       /\ \A x \in L : st.chains[ChainOf(st, x)] = Ladder(EpsOf(st, x))
       /\ \A x \in L, y \in L : ChainOf(st, x) = ChainOf(st, y) => x = y
       /\ RangeOf(st.rules) = {RuleOf(st, x) : x \in L}
  BY DEF Sound, Agrees
<1>20. PICK z : z = <<s, port>>
  OBVIOUS
<1>21. z \in Svc \X Port /\ z[1] = s /\ z[2] = port /\ z \notin L
  BY <1>20
<1>22. ASSUME NEW x \in L
       PROVE  /\ x \in Entries(r) /\ ChainOf(r, x) = ChainOf(st, x)
              /\ EpsOf(r, x) = EpsOf(st, x) /\ RuleOf(r, x) = RuleOf(st, x)
              /\ ChainOf(st, x) # c
  <2>1. x \in Svc \X Port /\ st.tb[x[1]] # None /\ x[2] \in DOMAIN st.tb[x[1]].lb
    BY <1>19 DEF Entries
  <2>2. x[1] \in Svc /\ x[2] \in Port /\ x = <<x[1], x[2]>>
    BY <2>1
  <2>3. CASE x[1] # s
    <3>1. r.tb[x[1]] = st.tb[x[1]]
      BY <1>16, <2>2, <2>3 DEF SameBut
    <3> QED BY <1>6, <2>1, <2>2, <3>1 DEF Entries, ChainOf, EpsOf, RuleOf
  <2>4. CASE x[1] = s
    <3>1. x[2] # port
      BY <1>20, <1>21, <2>2, <2>4
    <3>2. x[2] \in DOMAIN lb /\ new[x[2]] = lb[x[2]]
      BY <1>2, <1>9, <2>1, <2>4, <3>1
    <3>3. r.tb[x[1]] = e /\ e.lb[x[2]] = st.tb[x[1]].lb[x[2]] /\ e.addr = st.tb[x[1]].addr
          /\ x[2] \in DOMAIN e.lb
      BY <1>2, <1>8, <1>9, <1>12, <1>16, <2>4, <3>2
    <3>4. x \in Entries(r)
      BY <1>12, <2>1, <3>3 DEF Entries
    <3>5. ChainOf(st, x) # c
      BY <1>6, <2>1, <2>2 DEF ChainOf
    <3> QED BY <3>3, <3>4, <3>5 DEF ChainOf, EpsOf, RuleOf
  <2> QED BY <2>3, <2>4
<1>23. z \in Entries(r) /\ ChainOf(r, z) = c /\ EpsOf(r, z) = {} /\ RuleOf(r, z) = rule
  <2>1. e.lb[port] = [chain |-> c, eps |-> {}] /\ port \in DOMAIN e.lb
    BY <1>8, <1>9, <1>12
  <2>2. z \in Entries(r)
    BY <1>12, <1>16, <1>21, <2>1 DEF Entries
  <2>3. ChainOf(r, z) = c /\ EpsOf(r, z) = {}
    BY <1>16, <1>21, <2>1 DEF ChainOf, EpsOf
  <2>4. RuleOf(r, z) = rule
    BY <1>11, <1>12, <1>16, <1>21, <2>3 DEF RuleOf
  <2> QED BY <2>2, <2>3, <2>4
<1>24. /\ DOMAIN cs = (DOMAIN st.chains) \cup {c} /\ cs[c] = <<>>
       /\ \A d \in DOMAIN st.chains : d # c => cs[d] = st.chains[d]
  BY <1>11 DEF With
<1> DEFINE M == L \cup {z}
<1>25. M \subseteq Entries(r)
  BY <1>22, <1>23
<1>26. DOMAIN r.chains = {ChainOf(r, x) : x \in M}
  BY <1>15, <1>19, <1>22, <1>23, <1>24
<1>27. ASSUME NEW x \in M PROVE r.chains[ChainOf(r, x)] = Ladder(EpsOf(r, x))
  <2>1. CASE x = z
    <3>1. Ladder({}) = <<>>
      BY FS_EmptySet, LadderRungs
    <3> QED BY <1>15, <1>23, <1>24, <2>1, <3>1
  <2>2. CASE x \in L
    <3>1. ChainOf(st, x) \in DOMAIN st.chains
      BY <1>19, <2>2
    <3> QED BY <1>15, <1>19, <1>22, <1>24, <2>2, <3>1
  <2> QED BY <2>1, <2>2
<1>28. \A x \in M, y \in M : ChainOf(r, x) = ChainOf(r, y) => x = y
  BY <1>19, <1>22, <1>23
<1>29. RangeOf(r.rules) = {RuleOf(r, x) : x \in M}
  BY <1>17, <1>19, <1>22, <1>23
<1>30. Sound(r, M)
  BY <1>15, <1>18, <1>25, <1>26, <1>27, <1>28, <1>29 DEF Sound, Agrees
<1>31. M = L \cup Of(s, {port})
  BY <1>20 DEF Of
<1> HIDE DEF M
<1> QED BY <1>2, <1>8, <1>9, <1>12, <1>16, <1>30, <1>31 DEF Extended

(* All ports of a service are added.                                       *)
LEMMA PortsAdded ==
  ASSUME NEW st, NEW L, Sound(st, L), NEW s \in Svc, st.tb[s] # None, NEW S \in SUBSET Port,
         Of(s, S) \cap L = {}, NEW r, r = AddPorts(st, s, S)
  PROVE  Extended(r, st, s, L, S)
<1> DEFINE k == <<"ports", s>>
           f(u) == Folded(k, st, u)
           C == {u \in FiniteSubsetsOf(S) : ~Extended(f(u), st, s, L, u)}
<1>1. IsFiniteSet(S)
  BY FS_Subset, ServicesAssumption
<1>2. ASSUME C # {} PROVE FALSE
  <2>1. PICK u \in C : \A x \in u : (u \ {x}) \notin C
    BY <1>2, SmallestFinite
  <2>2. u \in SUBSET S /\ IsFiniteSet(u) /\ ~Extended(f(u), st, s, L, u)
    BY DEF FiniteSubsetsOf
  <2>3. CASE u = {}
    <3>1. f(u) = st
      BY <2>3, FoldsNothing
    <3>2. Of(s, u) = {}
      BY <2>3 DEF Of
    <3>3. Extended(st, st, s, L, u)
      BY <2>3, <3>2 DEF SameBut, Extended
    <3> QED BY <2>2, <3>1, <3>3
  <2>4. CASE u # {}
    <3>1. PICK x : x = First(u)
      OBVIOUS
    <3>2. x \in u /\ x \in Port
      BY <2>2, <2>4, <3>1, FirstIsIn
    <3>3. PICK w : w = u \ {x}
      OBVIOUS
    <3>4. w \in FiniteSubsetsOf(S) /\ w \notin C
      BY <2>1, <2>2, <3>2, <3>3, FS_RemoveElement DEF FiniteSubsetsOf
    <3>5. PICK t : t = f(w)
      OBVIOUS
    <3>6. Extended(t, st, s, L, w)
      BY <3>4, <3>5
    <3>7. PICK M : M = L \cup Of(s, w)
      OBVIOUS
    <3>8. Sound(t, M) /\ t.tb[s] # None
      BY <3>6, <3>7 DEF Extended
    <3>9. <<s, x>> \notin M
      BY <2>2, <3>2, <3>3, <3>7 DEF Of
    <3>10. PICK q : q = AddPort(t, s, x)
      OBVIOUS
    <3>11. Extended(q, t, s, M, {x})
      BY <3>2, <3>8, <3>9, <3>10, PortAdded
    <3>12. f(u) = q
      <4>1. f(u) = Step(k, x, t)
        BY <2>2, <2>4, <3>1, <3>3, <3>5, FoldsFirst
      <4>2. Step(k, x, t) = AddPort(t, s, x)
        BY DEF Step
      <4> QED BY <3>10, <4>1, <4>2
    <3>13. u = w \cup {x}
      BY <3>2, <3>3
    <3>14. M \cup Of(s, {x}) = L \cup Of(s, u)
      BY <3>7, <3>13 DEF Of
    <3>15. Extended(q, st, s, L, u)
      <4>1. Sound(q, L \cup Of(s, u))
        BY <3>11, <3>14 DEF Extended
      <4>2. SameBut(q, st, s)
        BY <3>6, <3>11 DEF Extended, SameBut
      <4>3. q.tb[s] # None /\ q.tb[s].addr = st.tb[s].addr
        BY <3>6, <3>11 DEF Extended
      <4>4. DOMAIN q.tb[s].lb = (DOMAIN st.tb[s].lb) \cup u
        BY <3>6, <3>11, <3>13 DEF Extended
      <4>5. \A p \in u : q.tb[s].lb[p].eps = {}
        BY <3>6, <3>11, <3>13 DEF Extended
      <4>6. \A p \in (DOMAIN st.tb[s].lb) \ u : q.tb[s].lb[p] = st.tb[s].lb[p]
        BY <3>6, <3>11, <3>13 DEF Extended
      <4> QED BY <4>1, <4>2, <4>3, <4>4, <4>5, <4>6 DEF Extended
    <3> QED BY <2>2, <3>12, <3>15
  <2> QED BY <2>3, <2>4
<1>3. r = f(S)
  BY <1>1, PortsAreFolded
<1>4. S \in FiniteSubsetsOf(S)
  BY <1>1 DEF FiniteSubsetsOf
<1>5. Extended(f(S), st, s, L, S)
  BY <1>2, <1>4
<1> QED BY <1>3, <1>5

(* Endpoints are added to a service that is in the kernel.                 *)
LEMMA EndpointsAdded ==
  ASSUME NEW st, NEW L, Sound(st, L), NEW s \in Svc, st.tb[s] # None, NEW eps \in SUBSET Ip,
         \A p \in DOMAIN st.tb[s].lb : <<s, p>> \in L, NEW r, r = AddEndpoints(st, s, eps)
  PROVE  /\ Sound(r, L) /\ SameBut(r, st, s)
         /\ r.tb[s] # None /\ r.tb[s].addr = st.tb[s].addr
         /\ DOMAIN r.tb[s].lb = DOMAIN st.tb[s].lb
         /\ \A p \in DOMAIN st.tb[s].lb : r.tb[s].lb[p].eps = st.tb[s].lb[p].eps \cup eps
<1>1. /\ st.tb \in [Svc -> Table \cup {None}] /\ st.rules \in Seq(Rule)
      /\ st.panicked = FALSE /\ IsState(st) /\ st.tb[s] \in Table
      /\ st = [rules |-> st.rules, chains |-> st.chains, tb |-> st.tb, panicked |-> st.panicked]
  BY DEF Sound, IsState
<1>2. PICK a, lb, P : a = st.tb[s].addr /\ lb = st.tb[s].lb /\ P = DOMAIN lb
  OBVIOUS
<1>3. a \in Addr /\ P \in SUBSET Port /\ lb \in [P -> Entry] /\ st.tb[s] = [addr |-> a, lb |-> lb]
  BY <1>1, <1>2, TableParts
<1>4. CASE eps = {}
  <2>1. r = st
    BY <1>4 DEF AddEndpoints
  <2>2. SameBut(st, st, s)
    BY DEF SameBut
  <2> QED BY <1>4, <2>1, <2>2
<1>5. CASE eps # {}
  <2>1. PICK new : new = [p \in P |-> [lb[p] EXCEPT !.eps = @ \cup eps]]
    OBVIOUS
  <2>2. ASSUME NEW p \in P
        PROVE  new[p] \in Entry /\ new[p].chain = lb[p].chain /\ new[p].eps = lb[p].eps \cup eps
    <3>1. lb[p] \in Entry
      BY <1>3
    <3>2. lb[p].chain \in Nat /\ lb[p].eps \in SUBSET Ip
          /\ lb[p] = [chain |-> lb[p].chain, eps |-> lb[p].eps]
      BY <3>1 DEF Entry
    <3>3. new[p] = [chain |-> lb[p].chain, eps |-> lb[p].eps \cup eps]
      BY <2>1, <3>2
    <3>4. lb[p].eps \cup eps \in SUBSET Ip
      BY <3>2
    <3> QED BY <3>2, <3>3, <3>4 DEF Entry
  <2>3. new \in [P -> Entry] /\ DOMAIN new = P
    <3>1. new = [p \in P |-> new[p]]
      BY <2>1
    <3> QED BY <2>2, <3>1
  <2>4. /\ L \subseteq Entries(st)
        /\ DOMAIN st.chains = {ChainOf(st, x) : x \in L}
        /\ \A x \in L : st.chains[ChainOf(st, x)] = Ladder(EpsOf(st, x))
        /\ \A x \in L, y \in L : ChainOf(st, x) = ChainOf(st, y) => x = y
        /\ RangeOf(st.rules) = {RuleOf(st, x) : x \in L}
    BY DEF Sound, Agrees
  <2>5. ASSUME NEW p \in P
        PROVE  <<s, p>> \in L /\ ChainOf(st, <<s, p>>) = lb[p].chain
               /\ EpsOf(st, <<s, p>>) = lb[p].eps
    BY <1>2 DEF ChainOf, EpsOf
  <2>6. \A p \in P : new[p].chain \in DOMAIN st.chains
    BY <2>2, <2>4, <2>5
  <2>7. PICK cs : cs = [c \in DOMAIN st.chains |->
                          IF \E p \in P : new[p].chain = c
                            THEN Ladder(new[CHOOSE p \in P : new[p].chain = c].eps)
                            ELSE st.chains[c]]
    OBVIOUS
  <2>8. PICK e : e = [addr |-> a, lb |-> new]
    OBVIOUS
  <2>9. e \in Table /\ e.addr = a /\ e.lb = new /\ e # None
    BY <1>3, <2>3, <2>8, TableMade
  <2>10. /\ r.rules = st.rules /\ r.chains = cs /\ r.tb = [st.tb EXCEPT ![s] = e]
         /\ r.panicked = FALSE
         /\ r = [rules |-> r.rules, chains |-> r.chains, tb |-> r.tb, panicked |-> r.panicked]
    <3>1. Joined(st.tb[s].lb, eps) = new
      BY <1>2, <2>1 DEF Joined
    <3>2. r = [st EXCEPT !.chains = cs,
                         !.tb = [st.tb EXCEPT ![s] = [st.tb[s] EXCEPT !.lb = new]]]
      <4>1. ~ \E p \in DOMAIN new : new[p].chain \notin DOMAIN st.chains
        BY <2>3, <2>6
      <4>2. Rewritten(st.chains, new) = cs
        BY <2>3, <2>7 DEF Rewritten
      <4>3. r = [st EXCEPT !.chains = Rewritten(st.chains, new),
                           !.tb = [st.tb EXCEPT ![s] = [st.tb[s] EXCEPT !.lb = new]]]
        BY <1>1, <1>5, <3>1, <4>1 DEF AddEndpoints
      <4> QED BY <4>2, <4>3
    <3>3. [st.tb[s] EXCEPT !.lb = new] = e
      BY <1>3, <2>8
    <3>4. PICK table : table = [st.tb EXCEPT ![s] = e]
      OBVIOUS
    <3>5. r = [st EXCEPT !.chains = cs, !.tb = table]
      BY <3>2, <3>3, <3>4
    <3> QED BY <1>1, <3>4, <3>5
  <2>11. r.tb[s] = e /\ r.tb \in [Svc -> Table \cup {None}] /\ SameBut(r, st, s)
    BY <1>1, <2>9, <2>10 DEF SameBut
  <2>12. IsState(r)
    BY <1>1, <2>10, <2>11 DEF IsState
  <2>13. ASSUME NEW x \in L
         PROVE  /\ x \in Entries(r) /\ ChainOf(r, x) = ChainOf(st, x)
                /\ RuleOf(r, x) = RuleOf(st, x)
                /\ x[1] # s => EpsOf(r, x) = EpsOf(st, x)
                /\ x[1] = s => x = <<s, x[2]>> /\ x[2] \in P /\ EpsOf(r, x) = new[x[2]].eps
    <3>1. x \in Svc \X Port /\ st.tb[x[1]] # None /\ x[2] \in DOMAIN st.tb[x[1]].lb
      BY <2>4 DEF Entries
    <3>2. x[1] \in Svc /\ x[2] \in Port /\ x = <<x[1], x[2]>>
      BY <3>1
    <3>3. CASE x[1] # s
      <4>1. r.tb[x[1]] = st.tb[x[1]]
        BY <2>11, <3>2, <3>3 DEF SameBut
      <4> QED BY <3>1, <3>3, <4>1 DEF Entries, ChainOf, EpsOf, RuleOf
    <3>4. CASE x[1] = s
      <4>1. x[2] \in P /\ new[x[2]].chain = lb[x[2]].chain
        BY <1>2, <2>2, <3>1, <3>4
      <4>2. x \in Entries(r)
        BY <2>3, <2>9, <2>11, <3>1, <3>4, <4>1 DEF Entries
      <4>3. ChainOf(r, x) = ChainOf(st, x) /\ EpsOf(r, x) = new[x[2]].eps
        BY <1>2, <2>9, <2>11, <3>4, <4>1 DEF ChainOf, EpsOf
      <4>4. RuleOf(r, x) = RuleOf(st, x)
        BY <1>2, <2>9, <2>11, <3>4, <4>3 DEF RuleOf
      <4> QED BY <3>2, <3>4, <4>1, <4>2, <4>3, <4>4
    <3> QED BY <3>3, <3>4
  <2>14. DOMAIN r.chains = {ChainOf(r, x) : x \in L}
    BY <2>4, <2>7, <2>10, <2>13
  <2>15. ASSUME NEW x \in L PROVE r.chains[ChainOf(r, x)] = Ladder(EpsOf(r, x))
    <3>1. PICK c : c = ChainOf(st, x)
      OBVIOUS
    <3>2. c \in DOMAIN st.chains /\ r.chains[ChainOf(r, x)] = cs[c]
      BY <2>4, <2>10, <2>13, <3>1
    <3>3. CASE x[1] = s
      <4>1. x[2] \in P /\ x = <<s, x[2]>> /\ EpsOf(r, x) = new[x[2]].eps
        BY <2>13, <3>3
      <4>2. new[x[2]].chain = c
        BY <2>2, <2>5, <3>1, <4>1
      <4>3. PICK q \in P : new[q].chain = c /\ q = CHOOSE p \in P : new[p].chain = c
        BY <4>1, <4>2
      <4>4. ChainOf(st, <<s, q>>) = ChainOf(st, x) /\ <<s, q>> \in L
        BY <2>2, <2>5, <3>1, <4>3
      <4>5. <<s, q>> = x
        BY <2>4, <4>4
      <4>6. q = x[2]
        BY <4>5
      <4>7. cs[c] = Ladder(new[q].eps)
        BY <2>7, <3>2, <4>3
      <4> QED BY <3>2, <4>1, <4>6, <4>7
    <3>4. CASE x[1] # s
      <4>1. ASSUME NEW p \in P, new[p].chain = c PROVE FALSE
        <5>1. ChainOf(st, <<s, p>>) = ChainOf(st, x) /\ <<s, p>> \in L
          BY <2>2, <2>5, <3>1, <4>1
        <5>2. <<s, p>> = x
          BY <2>4, <5>1
        <5> QED BY <3>4, <5>2
      <4>2. cs[c] = st.chains[c]
        BY <2>7, <3>2, <4>1
      <4> QED BY <2>4, <2>13, <3>1, <3>2, <3>4, <4>2
    <3> QED BY <3>3, <3>4
  <2>16. \A x \in L, y \in L : ChainOf(r, x) = ChainOf(r, y) => x = y
    BY <2>4, <2>13
  <2>17. RangeOf(r.rules) = {RuleOf(r, x) : x \in L}
    BY <2>4, <2>10, <2>13
  <2>18. L \subseteq Entries(r)
    BY <2>13
  <2>19. Sound(r, L)
    BY <2>10, <2>12, <2>14, <2>15, <2>16, <2>17, <2>18 DEF Sound, Agrees
  <2> QED BY <1>2, <2>2, <2>3, <2>9, <2>11, <2>19
<1> QED BY <1>4, <1>5

(* The table has a service as it is, or does not have one that is not.     *)
Fits(t, v) ==
  IF v = None THEN t = None
  ELSE /\ t # None /\ t.addr = v.addr /\ DOMAIN t.lb = v.ports
       /\ \A p \in v.ports : t.lb[p].eps = v.eps

(* The fields of a service.                                                *)
LEMMA ServiceParts ==
  ASSUME NEW v \in Service
  PROVE  v.addr \in Addr /\ v.ports \in SUBSET Port /\ v.eps \in SUBSET Ip
         /\ v.picks \in SUBSET Pod /\ v # None
         /\ v = [addr |-> v.addr, ports |-> v.ports, picks |-> v.picks, eps |-> v.eps]
BY NoServiceAssumption DEF Service

(* A service enters the table before its ports do.                         *)
Named(st, s, a) == [st EXCEPT !.tb[s] = [addr |-> a, lb |-> <<>>]]

(* A service enters the table, as yet without ports.                       *)
LEMMA SvcKnown ==
  ASSUME NEW st, NEW L, Sound(st, L), NEW s \in Svc, st.tb[s] = None, NEW a \in Addr,
         NEW r, r = Named(st, s, a)
  PROVE  /\ Sound(r, L) /\ SameBut(r, st, s)
         /\ r.tb[s] # None /\ r.tb[s].addr = a /\ DOMAIN r.tb[s].lb = {}
<1>1. /\ st.tb \in [Svc -> Table \cup {None}] /\ st.rules \in Seq(Rule)
      /\ st.panicked = FALSE /\ IsState(st)
      /\ st = [rules |-> st.rules, chains |-> st.chains, tb |-> st.tb, panicked |-> st.panicked]
  BY DEF Sound, IsState
<1>2. PICK lb : lb = <<>>
  OBVIOUS
<1>3. DOMAIN lb = {} /\ lb \in [{} -> Entry]
  <2>1. DOMAIN lb = {}
    BY <1>2
  <2>2. lb = [p \in {} |-> lb[p]]
    BY <1>2, <2>1
  <2> QED BY <2>1, <2>2
<1>4. PICK e : e = [addr |-> a, lb |-> lb]
  OBVIOUS
<1>5. e \in Table /\ e.addr = a /\ e.lb = lb /\ e # None
  <2>1. PICK P : P = {}
    OBVIOUS
  <2>2. P \in SUBSET Port /\ lb \in [P -> Entry]
    BY <1>3, <2>1
  <2> QED BY <1>4, <2>2, TableMade
<1>6. /\ r.rules = st.rules /\ r.chains = st.chains /\ r.tb = [st.tb EXCEPT ![s] = e]
      /\ r.panicked = FALSE
      /\ r = [rules |-> r.rules, chains |-> r.chains, tb |-> r.tb, panicked |-> r.panicked]
  BY <1>1, <1>2, <1>4 DEF Named
<1>7. r.tb[s] = e /\ r.tb \in [Svc -> Table \cup {None}] /\ SameBut(r, st, s)
  BY <1>1, <1>5, <1>6 DEF SameBut
<1>8. IsState(r)
  BY <1>1, <1>6, <1>7 DEF IsState
<1>9. /\ L \subseteq Entries(st)
      /\ DOMAIN st.chains = {ChainOf(st, x) : x \in L}
      /\ \A x \in L : st.chains[ChainOf(st, x)] = Ladder(EpsOf(st, x))
      /\ \A x \in L, y \in L : ChainOf(st, x) = ChainOf(st, y) => x = y
      /\ RangeOf(st.rules) = {RuleOf(st, x) : x \in L}
  BY DEF Sound, Agrees
<1>10. ASSUME NEW x \in L
       PROVE  /\ x \in Entries(r) /\ ChainOf(r, x) = ChainOf(st, x)
              /\ EpsOf(r, x) = EpsOf(st, x) /\ RuleOf(r, x) = RuleOf(st, x)
  <2>1. x \in Svc \X Port /\ st.tb[x[1]] # None /\ x[2] \in DOMAIN st.tb[x[1]].lb
    BY <1>9 DEF Entries
  <2>2. r.tb[x[1]] = st.tb[x[1]]
    BY <1>7, <2>1 DEF SameBut
  <2> QED BY <2>1, <2>2 DEF Entries, ChainOf, EpsOf, RuleOf
<1>11. Agrees(r, L)
  BY <1>6, <1>9, <1>10 DEF Agrees
<1> QED BY <1>3, <1>5, <1>6, <1>7, <1>8, <1>11 DEF Sound

(* A service is added that is not in the kernel, and in the table only     *)
(* with the address and the ports it has.                                  *)
LEMMA SvcAdded ==
  ASSUME NEW st, NEW L, Sound(st, L), NEW s \in Svc, NEW svc \in Service,
         \A p \in Port : <<s, p>> \notin L,
         st.tb[s] # None => st.tb[s].addr = svc.addr /\ DOMAIN st.tb[s].lb = svc.ports,
         NEW r, r = AddSvc(st, s, svc)
  PROVE  /\ Sound(r, L \cup Of(s, svc.ports)) /\ SameBut(r, st, s)
         /\ Fits(r.tb[s], svc)
<1>1. svc.addr \in Addr /\ svc.ports \in SUBSET Port /\ svc.eps \in SUBSET Ip /\ svc # None
  BY ServiceParts
<1>2. PICK known : known = IF st.tb[s] # None THEN st
                           ELSE [st EXCEPT !.tb[s] = [addr |-> svc.addr, lb |-> <<>>]]
  OBVIOUS
<1>3. /\ Sound(known, L) /\ SameBut(known, st, s) /\ known.tb[s] # None
      /\ known.tb[s].addr = svc.addr /\ DOMAIN known.tb[s].lb \subseteq svc.ports
  <2>1. CASE st.tb[s] = None
    <3>1. PICK a : a = svc.addr
      OBVIOUS
    <3>2. known = Named(st, s, a) /\ a \in Addr
      BY <1>1, <1>2, <2>1, <3>1 DEF Named
    <3>3. /\ Sound(known, L) /\ SameBut(known, st, s)
          /\ known.tb[s] # None /\ known.tb[s].addr = a /\ DOMAIN known.tb[s].lb = {}
      BY <2>1, <3>2, SvcKnown
    <3> QED BY <3>1, <3>3
  <2>2. CASE st.tb[s] # None
    <3>1. known = st /\ SameBut(st, st, s)
      BY <1>2, <2>2 DEF SameBut
    <3> QED BY <2>2, <3>1
  <2> QED BY <2>1, <2>2
<1>4. PICK P, M : P = svc.ports /\ M = L \cup Of(s, svc.ports)
  OBVIOUS
<1>5. PICK q : q = AddPorts(known, s, P)
  OBVIOUS
<1>6. P \in SUBSET Port /\ Of(s, P) \cap L = {}
  BY <1>1, <1>4 DEF Of
<1>7. Extended(q, known, s, L, P)
  <2>1. Sound(known, L) /\ known.tb[s] # None
    BY <1>3
  <2> QED BY <1>5, <1>6, <2>1, PortsAdded
<1>8. Sound(q, M) /\ DOMAIN q.tb[s].lb = P
  BY <1>3, <1>4, <1>7 DEF Extended
<1>9. \A p \in P : <<s, p>> \in M
  BY <1>4 DEF Of
<1>10. PICK eps : eps = svc.eps
  OBVIOUS
<1>11. r = AddEndpoints(q, s, eps)
  BY <1>2, <1>4, <1>5, <1>10 DEF AddSvc
<1>12. /\ Sound(r, M) /\ SameBut(r, q, s)
       /\ r.tb[s] # None /\ r.tb[s].addr = q.tb[s].addr
       /\ DOMAIN r.tb[s].lb = DOMAIN q.tb[s].lb
       /\ \A p \in DOMAIN q.tb[s].lb : r.tb[s].lb[p].eps = q.tb[s].lb[p].eps \cup eps
  BY <1>1, <1>7, <1>8, <1>9, <1>10, <1>11, EndpointsAdded DEF Extended
<1>13. SameBut(r, st, s)
  BY <1>3, <1>7, <1>12 DEF SameBut, Extended
<1>14. ASSUME NEW p \in P PROVE r.tb[s].lb[p].eps = eps
  <2>1. q.tb[s].lb[p].eps = {}
    BY <1>7 DEF Extended
  <2>2. r.tb[s].lb[p].eps = q.tb[s].lb[p].eps \cup eps
    BY <1>8, <1>12
  <2> QED BY <2>1, <2>2
<1>15. Fits(r.tb[s], svc)
  BY <1>1, <1>3, <1>4, <1>7, <1>8, <1>10, <1>12, <1>14 DEF Fits, Extended
<1> QED BY <1>4, <1>12, <1>13, <1>15

(* A service is taken away, and its rules and chains with it.              *)
LEMMA SvcDeleted ==
  ASSUME NEW st, Sound(st, Entries(st)), NEW s \in Svc, NEW r, r = DelSvc(st, s)
  PROVE  Sound(r, Entries(r)) /\ SameBut(r, st, s) /\ r.tb[s] = None
<1>1. /\ st.tb \in [Svc -> Table \cup {None}] /\ st.rules \in Seq(Rule)
      /\ st.panicked = FALSE /\ IsState(st)
      /\ st = [rules |-> st.rules, chains |-> st.chains, tb |-> st.tb, panicked |-> st.panicked]
  BY DEF Sound, IsState
<1>2. CASE st.tb[s] = None
  <2>1. r = st /\ SameBut(st, st, s)
    BY <1>2 DEF DelSvc, SameBut
  <2> QED BY <1>2, <2>1
<1>3. CASE st.tb[s] # None
  <2>1. PICK E : E = Entries(st)
    OBVIOUS
  <2>2. /\ DOMAIN st.chains = {ChainOf(st, x) : x \in E}
        /\ \A x \in E : st.chains[ChainOf(st, x)] = Ladder(EpsOf(st, x))
        /\ \A x \in E, y \in E : ChainOf(st, x) = ChainOf(st, y) => x = y
        /\ RangeOf(st.rules) = {RuleOf(st, x) : x \in E}
    BY <2>1 DEF Sound, Agrees
  <2>3. \A x \in E : x \in Svc \X Port /\ st.tb[x[1]] # None /\ x[2] \in DOMAIN st.tb[x[1]].lb
    BY <2>1 DEF Entries
  <2>4. PICK old : old = ChainsOf(st.tb[s])
    OBVIOUS
  <2>5. \A x \in E : x[1] = s => ChainOf(st, x) \in old
    BY <1>3, <2>3, <2>4 DEF ChainsOf, ChainOf
  <2>6. ASSUME NEW c \in old PROVE \E x \in E : x[1] = s /\ ChainOf(st, x) = c
    <3>1. PICK p \in DOMAIN st.tb[s].lb : c = st.tb[s].lb[p].chain
      BY <1>3, <2>4 DEF ChainsOf
    <3>2. p \in Port
      BY <1>1, <1>3, <3>1, TableParts
    <3>3. <<s, p>> \in E /\ ChainOf(st, <<s, p>>) = c /\ <<s, p>>[1] = s
      BY <1>3, <2>1, <3>1, <3>2 DEF Entries, ChainOf
    <3> QED BY <3>3
  <2>7. \A x \in E : ChainOf(st, x) \in old => x[1] = s
    BY <2>2, <2>6
  <2>8. old \subseteq DOMAIN st.chains
    BY <2>2, <2>6
  <2>9. PICK cs : cs = [c \in (DOMAIN st.chains) \ old |-> st.chains[c]]
    OBVIOUS
  <2>10. /\ r.rules = Without(st.rules, old) /\ r.chains = cs
         /\ r.tb = [st.tb EXCEPT ![s] = None] /\ r.panicked = FALSE
         /\ r = [rules |-> r.rules, chains |-> r.chains, tb |-> r.tb, panicked |-> r.panicked]
    <3>1. r = [st EXCEPT !.tb = [st.tb EXCEPT ![s] = None],
                         !.rules = Without(st.rules, old),
                         !.chains = cs]
      BY <1>1, <1>3, <2>4, <2>8, <2>9 DEF DelSvc
    <3> QED BY <1>1, <3>1
  <2>11. r.tb[s] = None /\ r.tb \in [Svc -> Table \cup {None}] /\ SameBut(r, st, s)
    BY <1>1, <2>10 DEF SameBut
  <2>12. /\ r.rules \in Seq(Rule)
         /\ RangeOf(r.rules) = {u \in RangeOf(st.rules) : u.chain \notin old}
    BY <1>1, <2>10, WithoutRange
  <2>13. IsState(r)
    BY <2>10, <2>11, <2>12 DEF IsState
  <2>14. PICK F : F = {x \in E : x[1] # s}
    OBVIOUS
  <2>15. Entries(r) = F
    <3>1. ASSUME NEW x \in Svc \X Port PROVE x \in Entries(r) <=> x \in F
      BY <2>1, <2>11, <2>14 DEF Entries, SameBut
    <3>2. Entries(r) \subseteq Svc \X Port /\ F \subseteq Svc \X Port
      BY <2>3, <2>14 DEF Entries
    <3> QED BY <3>1, <3>2
  <2>16. ASSUME NEW x \in F
         PROVE  /\ x \in E /\ ChainOf(r, x) = ChainOf(st, x) /\ ChainOf(st, x) \notin old
                /\ EpsOf(r, x) = EpsOf(st, x) /\ RuleOf(r, x) = RuleOf(st, x)
    <3>1. x \in E /\ x[1] # s /\ x[1] \in Svc
      BY <2>3, <2>14
    <3>2. r.tb[x[1]] = st.tb[x[1]]
      BY <2>11, <3>1 DEF SameBut
    <3> QED BY <2>7, <3>1, <3>2 DEF ChainOf, EpsOf, RuleOf
  <2>17. ASSUME NEW x \in E, x \notin F PROVE ChainOf(st, x) \in old
    BY <2>5, <2>14, <2>17
  <2>18. DOMAIN r.chains = {ChainOf(r, x) : x \in F}
    BY <2>2, <2>9, <2>10, <2>16, <2>17
  <2>19. \A x \in F : r.chains[ChainOf(r, x)] = Ladder(EpsOf(r, x))
    BY <2>2, <2>9, <2>10, <2>16
  <2>20. \A x \in F, y \in F : ChainOf(r, x) = ChainOf(r, y) => x = y
    BY <2>2, <2>16
  <2>21. \A x \in E : RuleOf(st, x).chain = ChainOf(st, x)
    BY DEF RuleOf
  <2>22. RangeOf(r.rules) = {RuleOf(r, x) : x \in F}
    BY <2>2, <2>12, <2>16, <2>17, <2>21
  <2>23. Sound(r, F)
    BY <2>10, <2>13, <2>15, <2>18, <2>19, <2>20, <2>22 DEF Sound, Agrees
  <2> QED BY <2>11, <2>15, <2>23
<1> QED BY <1>2, <1>3

(* The entries after one service was added.                                *)
LEMMA EntriesAre ==
  ASSUME NEW r, NEW st, NEW s \in Svc, SameBut(r, st, s), st.tb[s] = None, r.tb[s] # None,
         NEW S \in SUBSET Port, DOMAIN r.tb[s].lb = S
  PROVE  Entries(r) = Entries(st) \cup Of(s, S)
<1>1. Of(s, S) \subseteq Svc \X Port
  BY DEF Of
<1>2. ASSUME NEW x \in Svc \X Port PROVE x \in Entries(r) <=> x \in Entries(st) \cup Of(s, S)
  <2>1. x[1] \in Svc /\ x[2] \in Port /\ x = <<x[1], x[2]>>
    OBVIOUS
  <2>2. CASE x[1] = s
    <3>1. x \in Entries(r) <=> x[2] \in S
      BY <2>2 DEF Entries
    <3>2. x \in Of(s, S) <=> x[2] \in S
      BY <2>1, <2>2 DEF Of
    <3>3. x \notin Entries(st)
      BY <2>2 DEF Entries
    <3> QED BY <3>1, <3>2, <3>3
  <2>3. CASE x[1] # s
    <3>1. x \notin Of(s, S)
      BY <2>1, <2>3 DEF Of
    <3>2. r.tb[x[1]] = st.tb[x[1]]
      BY <2>1, <2>3 DEF SameBut
    <3> QED BY <3>1, <3>2 DEF Entries
  <2> QED BY <2>2, <2>3
<1>3. Entries(r) \subseteq Svc \X Port /\ Entries(st) \subseteq Svc \X Port
  BY DEF Entries
<1> HIDE DEF Entries, Of
<1> QED BY <1>1, <1>2, <1>3

(* A notification is handled: the table has the service as it is now.      *)
LEMMA NoteHandled ==
  ASSUME NEW st, Sound(st, Entries(st)), NEW note, note.name \in Svc,
         note.new \in Service \cup {None},
         note.old = None => st.tb[note.name] = None, NEW r, r = Handled(st, note)
  PROVE  /\ Sound(r, Entries(r)) /\ SameBut(r, st, note.name)
         /\ Fits(r.tb[note.name], note.new)
<1>1. PICK s, v : s = note.name /\ v = note.new
  OBVIOUS
<1>2. s \in Svc /\ v \in Service \cup {None}
  BY <1>1
<1>3. PICK gone : gone = IF note.old # None THEN DelSvc(st, s) ELSE st
  OBVIOUS
<1>4. Sound(gone, Entries(gone)) /\ SameBut(gone, st, s) /\ gone.tb[s] = None
  <2>1. CASE note.old # None
    BY <1>2, <1>3, <2>1, SvcDeleted
  <2>2. CASE note.old = None
    <3>1. SameBut(st, st, s)
      BY DEF SameBut
    <3> QED BY <1>1, <1>3, <2>2, <3>1
  <2> QED BY <2>1, <2>2
<1>5. r = IF v = None \/ gone.panicked THEN gone ELSE AddSvc(gone, s, v)
  BY <1>1, <1>3 DEF Handled
<1>6. gone.panicked = FALSE
  BY <1>4 DEF Sound
<1>7. CASE v = None
  <2>1. r = gone
    BY <1>5, <1>7
  <2> QED BY <1>1, <1>4, <1>7, <2>1 DEF Fits
<1>8. CASE v # None
  <2>1. r = AddSvc(gone, s, v) /\ v \in Service
    BY <1>2, <1>5, <1>6, <1>8
  <2>2. PICK L : L = Entries(gone)
    OBVIOUS
  <2>3. \A p \in Port : <<s, p>> \notin L
    BY <1>4, <2>2 DEF Entries
  <2>4. Sound(gone, L)
    BY <1>4, <2>2
  <2>5. Sound(r, L \cup Of(s, v.ports)) /\ SameBut(r, gone, s) /\ Fits(r.tb[s], v)
    BY <1>2, <1>4, <2>1, <2>3, <2>4, SvcAdded
  <2>6. PICK S : S = v.ports
    OBVIOUS
  <2>7. S \in SUBSET Port /\ r.tb[s] # None /\ DOMAIN r.tb[s].lb = S
    BY <1>8, <2>1, <2>5, <2>6, ServiceParts DEF Fits
  <2>8. Entries(r) = L \cup Of(s, S)
    BY <1>2, <1>4, <2>2, <2>5, <2>7, EntriesAre
  <2>9. Sound(r, Entries(r))
    BY <2>5, <2>6, <2>8
  <2>10. SameBut(r, st, s)
    BY <1>4, <2>5 DEF SameBut
  <2> QED BY <1>1, <2>5, <2>9, <2>10
<1> QED BY <1>7, <1>8

(* The entries the services in u have in the end.                          *)
EntriesOf(svcs, u) == {x \in Svc \X Port : x[1] \in u /\ x[2] \in svcs[x[1]].ports}

(* The services in u are in the table and in the kernel, and the others as *)
(* they were.                                                              *)
Filled(t, st, svcs, u) ==
  /\ Sound(t, EntriesOf(svcs, u))
  /\ \A s \in Svc : IF s \in u THEN Fits(t.tb[s], svcs[s]) ELSE t.tb[s] = st.tb[s]

(* After a cleanup the kernel is empty, and the table as it was.           *)
LEMMA CleanedUp ==
  ASSUME NEW st, IsState(st), st.panicked = FALSE, NEW r, r = Cleanup(st)
  PROVE  Sound(r, {}) /\ r.tb = st.tb
<1>1. st = [rules |-> st.rules, chains |-> st.chains, tb |-> st.tb, panicked |-> st.panicked]
  BY DEF IsState
<1>2. PICK e : e = <<>>
  OBVIOUS
<1>3. /\ r.rules = e /\ r.chains = e /\ r.tb = st.tb /\ r.panicked = FALSE
      /\ r = [rules |-> r.rules, chains |-> r.chains, tb |-> r.tb, panicked |-> r.panicked]
  BY <1>1, <1>2 DEF Cleanup
<1>4. DOMAIN e = {} /\ e \in Seq(Rule)
  BY <1>2
<1>5. RangeOf(e) = {}
  BY <1>4 DEF RangeOf
<1>6. IsState(r)
  BY <1>3, <1>4 DEF IsState
<1>7. PICK L : L = {}
  OBVIOUS
<1>8. Agrees(r, L)
  BY <1>3, <1>4, <1>5, <1>7 DEF Agrees
<1> QED BY <1>3, <1>6, <1>7, <1>8 DEF Sound

(* After a resync the table has every service of the store.                *)
LEMMA AllAdded ==
  ASSUME NEW st, IsState(st), st.panicked = FALSE,
         NEW svcs \in [Svc -> Service \cup {None}],
         \A s \in Svc : st.tb[s] # None =>
           svcs[s] # None /\ st.tb[s].addr = svcs[s].addr /\ DOMAIN st.tb[s].lb = svcs[s].ports,
         NEW r, r = AddAll(Cleanup(st), svcs)
  PROVE  Sound(r, Entries(r)) /\ \A s \in Svc : Fits(r.tb[s], svcs[s])
<1>1. PICK base : base = Cleanup(st)
  OBVIOUS
<1>2. Sound(base, {}) /\ base.tb = st.tb
  BY <1>1, CleanedUp
<1>3. PICK S : S = {s \in Svc : svcs[s] # None}
  OBVIOUS
<1>4. S \in SUBSET Svc /\ IsFiniteSet(S)
  BY <1>3, FS_Subset, ServicesAssumption
<1> DEFINE k == <<"services", svcs>>
           f(u) == Folded(k, base, u)
           C == {u \in FiniteSubsetsOf(S) : ~Filled(f(u), base, svcs, u)}
<1>5. ASSUME C # {} PROVE FALSE
  <2>1. PICK u \in C : \A x \in u : (u \ {x}) \notin C
    BY <1>5, SmallestFinite
  <2>2. u \in SUBSET S /\ IsFiniteSet(u) /\ ~Filled(f(u), base, svcs, u)
    BY DEF FiniteSubsetsOf
  <2>3. CASE u = {}
    <3>1. f(u) = base
      BY <2>3, FoldsNothing
    <3>2. EntriesOf(svcs, u) = {}
      BY <2>3 DEF EntriesOf
    <3>3. Filled(base, base, svcs, u)
      BY <1>2, <2>3, <3>2 DEF Filled
    <3> QED BY <2>2, <3>1, <3>3
  <2>4. CASE u # {}
    <3>1. PICK x : x = First(u)
      OBVIOUS
    <3>2. x \in u /\ x \in Svc /\ svcs[x] # None
      BY <1>3, <2>2, <2>4, <3>1, FirstIsIn
    <3>3. PICK w : w = u \ {x}
      OBVIOUS
    <3>4. w \in FiniteSubsetsOf(S) /\ w \notin C
      BY <2>1, <2>2, <3>2, <3>3, FS_RemoveElement DEF FiniteSubsetsOf
    <3>5. PICK t : t = f(w)
      OBVIOUS
    <3>6. Filled(t, base, svcs, w)
      BY <3>4, <3>5
    <3>7. PICK L, v : L = EntriesOf(svcs, w) /\ v = svcs[x]
      OBVIOUS
    <3>8. Sound(t, L) /\ v \in Service /\ t.tb[x] = st.tb[x]
      BY <1>2, <3>2, <3>3, <3>6, <3>7 DEF Filled
    <3>9. \A p \in Port : <<x, p>> \notin L
      BY <3>3, <3>7 DEF EntriesOf
    <3>10. t.tb[x] # None => t.tb[x].addr = v.addr /\ DOMAIN t.tb[x].lb = v.ports
      BY <3>2, <3>7, <3>8
    <3>11. PICK q : q = AddSvc(t, x, v)
      OBVIOUS
    <3>12. Sound(q, L \cup Of(x, v.ports)) /\ SameBut(q, t, x) /\ Fits(q.tb[x], v)
      BY <3>2, <3>8, <3>9, <3>10, <3>11, SvcAdded
    <3>13. f(u) = q
      <4>1. f(u) = Step(k, x, t)
        BY <2>2, <2>4, <3>1, <3>3, <3>5, FoldsFirst
      <4>2. Step(k, x, t) = IF t.panicked THEN t ELSE AddSvc(t, x, svcs[x])
        BY DEF Step
      <4>3. t.panicked = FALSE
        BY <3>8 DEF Sound
      <4> QED BY <3>7, <3>11, <4>1, <4>2, <4>3
    <3>14. EntriesOf(svcs, u) = L \cup Of(x, v.ports)
      <4>1. v.ports \in SUBSET Port
        BY <3>8, ServiceParts
      <4>2. Of(x, v.ports) \subseteq Svc \X Port
        BY <3>2, <4>1 DEF Of
      <4>3. ASSUME NEW y \in Svc \X Port
            PROVE  y \in EntriesOf(svcs, u) <=> y \in L \cup Of(x, v.ports)
        <5>1. y = <<y[1], y[2]>>
          OBVIOUS
        <5>2. y \in Of(x, v.ports) <=> y[1] = x /\ y[2] \in v.ports
          BY <5>1 DEF Of
        <5> QED BY <3>2, <3>3, <3>7, <5>2 DEF EntriesOf
      <4>4. EntriesOf(svcs, u) \subseteq Svc \X Port /\ L \subseteq Svc \X Port
        BY <3>7 DEF EntriesOf
      <4> QED BY <4>2, <4>3, <4>4
    <3>15. Filled(q, base, svcs, u)
      BY <3>2, <3>3, <3>6, <3>7, <3>12, <3>14 DEF Filled, SameBut
    <3> QED BY <2>2, <3>13, <3>15
  <2> QED BY <2>3, <2>4
<1>6. r = f(S)
  BY <1>1, <1>3, <1>4, ServicesAreFolded
<1>7. S \in FiniteSubsetsOf(S)
  BY <1>4 DEF FiniteSubsetsOf
<1>8. Filled(r, base, svcs, S)
  BY <1>5, <1>6, <1>7
<1>9. ASSUME NEW s \in Svc PROVE Fits(r.tb[s], svcs[s])
  BY <1>2, <1>3, <1>8 DEF Filled, Fits
<1>10. Entries(r) = EntriesOf(svcs, S)
  <2>1. ASSUME NEW x \in Svc \X Port PROVE x \in Entries(r) <=> x \in EntriesOf(svcs, S)
    BY <1>3, <1>9 DEF Entries, EntriesOf, Fits
  <2>2. Entries(r) \subseteq Svc \X Port /\ EntriesOf(svcs, S) \subseteq Svc \X Port
    BY DEF Entries, EntriesOf
  <2> QED BY <2>1, <2>2
<1>11. Sound(r, Entries(r))
  BY <1>8, <1>10 DEF Filled
<1> QED BY <1>9, <1>11

(* A set of numbers has a least one.                                       *)
LEMMA MinIsIn ==
  ASSUME NEW S \in SUBSET Nat, S # {}
  PROVE  Min(S) \in S
<1>1. PICK n \in S : \A m \in 0 .. n - 1 : m \notin S
  BY SmallestNumber
<1>2. \A m \in S : n =< m
  BY <1>1
<1>3. \E x \in S : \A y \in S : x =< y
  BY <1>1, <1>2
<1> QED BY <1>3 DEF Min

(* A table that is sound and up to date makes the kernel serve what it     *)
(* should, if no two services have an address.                             *)
LEMMA ItServes ==
  ASSUME Sound(ipt, Entries(ipt)), NEW svcs \in [Svc -> Service \cup {None}],
         \A s \in Svc : Fits(svc_tb[s], svcs[s]),
         \A s, t \in Svc : svcs[s] # None /\ svcs[t] # None /\ svcs[s].addr = svcs[t].addr
                             => s = t
  PROVE  Serves(svcs)
<1>1. /\ ipt.rules = rules /\ ipt.chains = chains /\ ipt.tb = svc_tb /\ ipt.panicked = panicked
  BY DEF ipt
<1>2. PICK st, E : st = ipt /\ E = Entries(st)
  OBVIOUS
<1>3. /\ st.rules = rules /\ st.chains = chains /\ st.tb = svc_tb /\ st.panicked = panicked
      /\ Sound(st, E)
  BY <1>1, <1>2
<1>4. /\ panicked = FALSE /\ rules \in Seq(Rule) /\ svc_tb \in [Svc -> Table \cup {None}]
  BY <1>3 DEF Sound, IsState
<1>5. /\ DOMAIN chains = {ChainOf(st, x) : x \in E}
      /\ \A x \in E : chains[ChainOf(st, x)] = Ladder(EpsOf(st, x))
      /\ {rules[i] : i \in DOMAIN rules} = {RuleOf(st, x) : x \in E}
  BY <1>3 DEF Sound, Agrees, RangeOf
<1>6. ASSUME NEW x \in Svc \X Port
      PROVE  x \in E <=> svcs[x[1]] # None /\ x[2] \in svcs[x[1]].ports
  BY <1>2, <1>3 DEF Entries, Fits
<1>7. ASSUME NEW x \in E
      PROVE  /\ x[1] \in Svc /\ x[2] \in Port /\ x = <<x[1], x[2]>>
             /\ svcs[x[1]] \in Service /\ x[2] \in svcs[x[1]].ports
             /\ EpsOf(st, x) = svcs[x[1]].eps /\ IsFiniteSet(EpsOf(st, x))
             /\ RuleOf(st, x).addr = svcs[x[1]].addr /\ RuleOf(st, x).port = x[2]
             /\ RuleOf(st, x).chain = ChainOf(st, x)
  <2>1. x \in Svc \X Port
    BY <1>2 DEF Entries
  <2>2. x[1] \in Svc /\ x[2] \in Port /\ x = <<x[1], x[2]>>
    BY <2>1
  <2>3. svcs[x[1]] \in Service /\ x[2] \in svcs[x[1]].ports
    BY <1>6, <2>1, <2>2
  <2>4. svc_tb[x[1]].addr = svcs[x[1]].addr /\ svc_tb[x[1]].lb[x[2]].eps = svcs[x[1]].eps
    BY <1>6, <2>1, <2>2, <2>3 DEF Fits
  <2>5. EpsOf(st, x) = svcs[x[1]].eps
    BY <1>3, <2>4 DEF EpsOf
  <2>6. svcs[x[1]].eps \in SUBSET Ip
    BY <2>3, ServiceParts
  <2>7. IsFiniteSet(EpsOf(st, x))
    BY <2>5, <2>6, FS_Subset, ServicesAssumption
  <2> QED BY <1>3, <2>2, <2>3, <2>4, <2>5, <2>7 DEF RuleOf
<1>8. ASSUME NEW c \in DOMAIN chains PROVE Even(chains[c])
  <2>1. PICK x \in E : c = ChainOf(st, x)
    BY <1>5
  <2>2. PICK eps : eps = EpsOf(st, x)
    OBVIOUS
  <2>3. IsFiniteSet(eps) /\ chains[c] = Ladder(eps)
    BY <1>5, <1>7, <2>1, <2>2
  <2> QED BY <2>3, LaddersAreEven
<1>9. ASSUME NEW addr \in Addr, NEW port \in Port
      PROVE  EndpointsOf(addr, port) =
               UNION {svcs[s].eps : s \in {t \in Svc : /\ svcs[t] # None
                                                       /\ svcs[t].addr = addr
                                                       /\ port \in svcs[t].ports}}
  <2> DEFINE Mine == {t \in Svc : svcs[t] # None /\ svcs[t].addr = addr /\ port \in svcs[t].ports}
  <2>1. PICK R : R = Routes(addr, port)
    OBVIOUS
  <2>2. R = {i \in DOMAIN rules : /\ rules[i].addr = addr /\ rules[i].port = port
                                  /\ chains[rules[i].chain] # <<>>}
    BY <2>1 DEF Routes
  <2>3. ASSUME NEW i \in R
        PROVE  \E x \in E : rules[i] = RuleOf(st, x) /\ x[1] \in Mine /\ x[2] = port
    <3>1. PICK x \in E : rules[i] = RuleOf(st, x)
      BY <1>5, <2>2
    <3>2. svcs[x[1]].addr = addr /\ x[2] = port
      BY <1>7, <2>2, <3>1
    <3>3. x[1] \in Mine
      BY <1>7, <3>2, NoServiceAssumption
    <3> QED BY <3>1, <3>2, <3>3
  <2>4. CASE Mine = {}
    <3>1. R = {}
      BY <2>3, <2>4
    <3> QED BY <2>1, <2>4, <3>1 DEF EndpointsOf
  <2>5. CASE Mine # {}
    <3>1. PICK s \in Mine : TRUE
      BY <2>5
    <3>2. \A t \in Mine : t = s
      BY <3>1
    <3>3. Mine = {s}
      BY <3>1, <3>2
    <3>4. PICK x : x = <<s, port>>
      OBVIOUS
    <3>5. x \in Svc \X Port /\ x[1] = s /\ x[2] = port
      BY <3>1, <3>4
    <3>6. x \in E
      BY <1>6, <3>1, <3>5
    <3>7. PICK eps : eps = EpsOf(st, x)
      OBVIOUS
    <3>8. IsFiniteSet(eps) /\ svcs[s].eps = eps /\ chains[ChainOf(st, x)] = Ladder(eps)
      BY <1>5, <1>7, <3>5, <3>6, <3>7
    <3>9. UNION {svcs[t].eps : t \in Mine} = eps
      BY <3>3, <3>8
    <3>10. ASSUME NEW i \in R PROVE rules[i] = RuleOf(st, x)
      <4>1. PICK y \in E : rules[i] = RuleOf(st, y) /\ y[1] \in Mine /\ y[2] = port
        BY <2>3
      <4>2. y = x
        BY <1>7, <3>2, <3>4, <4>1
      <4> QED BY <4>1, <4>2
    <3>11. PICK n : n = Cardinality(eps)
      OBVIOUS
    <3>12. /\ n \in Nat /\ Len(Ladder(eps)) = n
           /\ {Ladder(eps)[i].ep : i \in 1 .. n} = eps
           /\ eps = {} => Ladder(eps) = <<>>
           /\ eps # {} => Ladder(eps) # <<>>
      BY <3>8, <3>11, LadderRungs
    <3>13. CASE eps = {}
      <4>1. R = {}
        <5>1. SUFFICES ASSUME NEW i \in R PROVE FALSE
          OBVIOUS
        <5>2. rules[i].chain = ChainOf(st, x)
          BY <1>7, <3>6, <3>10
        <5> QED BY <2>2, <3>8, <3>12, <3>13, <5>2
      <4>2. EndpointsOf(addr, port) = {}
        BY <2>1, <4>1 DEF EndpointsOf
      <4> QED BY <3>9, <3>13, <4>2
    <3>14. CASE eps # {}
      <4>1. PICK i \in DOMAIN rules : rules[i] = RuleOf(st, x)
        BY <1>5, <3>6
      <4>2. i \in R
        BY <1>7, <2>2, <3>1, <3>5, <3>6, <3>8, <3>12, <3>14, <4>1
      <4>3. R \in SUBSET Nat
        <5>1. DOMAIN rules = 1 .. Len(rules)
          BY <1>4
        <5>2. 1 .. Len(rules) \subseteq Nat
          BY <1>4
        <5> QED BY <2>2, <5>1, <5>2
      <4>4. PICK m : m = Min(R)
        OBVIOUS
      <4>5. m \in R
        BY <4>2, <4>3, <4>4, MinIsIn
      <4>6. rules[m].chain = ChainOf(st, x)
        BY <1>7, <3>6, <3>10, <4>5
      <4>7. EndpointsOf(addr, port) = {Ladder(eps)[k].ep : k \in 1 .. n}
        <5>1. EndpointsOf(addr, port)
                = {chains[rules[Min(R)].chain][k].ep : k \in 1 .. Len(chains[rules[Min(R)].chain])}
          BY <2>1, <4>2 DEF EndpointsOf
        <5> QED BY <3>8, <3>12, <4>4, <4>6, <5>1
      <4> QED BY <3>9, <3>12, <4>7
    <3> QED BY <3>13, <3>14
  <2> QED BY <2>4, <2>5
<1> QED BY <1>4, <1>8, <1>9 DEF Serves

-------------------------------------------------------------------------------
(* From etcd to the proxy.                                                 *)

Sequence(q) == Len(q) \in Nat /\ q \in Seq({q[k] : k \in 1 .. Len(q)})

Longer(r, q, x) ==
  /\ Sequence(r) /\ Len(r) = Len(q) + 1 /\ r[Len(q) + 1] = x /\ Len(q) \in Nat
  /\ \A k \in 1 .. Len(q) : r[k] = q[k]
  /\ \A k \in 1 .. Len(r) : k \in 1 .. Len(q) \/ k = Len(q) + 1

Shorter(r, q) ==
  /\ Sequence(r) /\ Len(r) = Len(q) - 1 /\ Len(q) \in Nat \ {0} /\ Head(q) = q[1]
  /\ \A k \in 1 .. Len(r) : r[k] = q[k + 1] /\ k + 1 \in 1 .. Len(q)

(* A channel to which something is sent.                                   *)
LEMMA AppendParts ==
  ASSUME NEW q, Sequence(q), NEW x
  PROVE  Longer(Append(q, x), q, x)
<1> DEFINE r == Append(q, x)
<1>1. PICK n, S : n = Len(q) /\ S = {q[k] : k \in 1 .. Len(q)} \cup {x}
  OBVIOUS
<1>2. n \in Nat /\ q \in Seq(S) /\ x \in S
  BY <1>1 DEF Sequence
<1>3. r \in Seq(S) /\ Len(r) = n + 1 /\ r[n + 1] = x /\ \A k \in 1 .. n : r[k] = q[k]
  BY <1>1, <1>2
<1>4. \A k \in 1 .. n + 1 : k \in 1 .. n \/ k = n + 1
  BY <1>2
<1>5. Len(r) \in Nat /\ r \in Seq({r[k] : k \in 1 .. Len(r)})
  BY <1>3
<1> QED BY <1>1, <1>2, <1>3, <1>4, <1>5 DEF Sequence, Longer

(* A channel from which something is taken.                                *)
LEMMA TailParts ==
  ASSUME NEW q, Sequence(q), q # <<>>
  PROVE  Shorter(Tail(q), q)
<1>1. PICK S : S = {q[k] : k \in 1 .. Len(q)}
  OBVIOUS
<1>2. q \in Seq(S) /\ Len(q) \in Nat
  BY <1>1 DEF Sequence
<1>3. PICK r : r = Tail(q)
  OBVIOUS
<1>4. /\ Len(q) \in Nat \ {0} /\ Head(q) = q[1] /\ r \in Seq(S) /\ Len(r) = Len(q) - 1
      /\ \A k \in 1 .. Len(q) - 1 : r[k] = q[k + 1]
  BY <1>2, <1>3
<1>5. \A k \in 1 .. Len(q) - 1 : k + 1 \in 1 .. Len(q)
  BY <1>2
<1>6. Len(r) \in Nat
  BY <1>4
<1>7. r \in Seq({r[k] : k \in 1 .. Len(r)})
  <2>1. r \in Seq(S)
    BY <1>4
  <2> QED BY ONLY <2>1
<1>8. Sequence(r)
  BY <1>6, <1>7 DEF Sequence
<1> QED BY <1>3, <1>4, <1>5, <1>8 DEF Shorter

(* An empty channel.                                                       *)
LEMMA EmptyIsSequence == Sequence(<<>>) /\ Len(<<>>) = 0
BY DEF Sequence

(* The informers of services.                                              *)
Watchers == {Svcs, Listed, IngressSvcs}

Relisting == world.may["relist"] # 0

(* V has the forms a service may be met in under its name: whatever its    *)
(* endpoints, with an address that is its own and in the pool; where       *)
(* watches are lost, always with the same address and ports, and it is in  *)
(* etcd.                                                                   *)
Forms(V) ==
  /\ V \in [Svc -> SUBSET Service]
  /\ \A s \in Svc : \A v \in V[s], eps \in SUBSET Ip : [v EXCEPT !.eps = eps] \in V[s]
  /\ \A s, t \in Svc : \A v \in V[s], w \in V[t] : v.addr = w.addr => s = t
  /\ \A s \in Svc : \A v \in V[s] : v.addr \in pool
  /\ Relisting => \A s \in Svc : /\ V[s] # {} => etcd.svc[s] # None
                                 /\ \A v, w \in V[s] : v.addr = w.addr /\ v.ports = w.ports

(* What is heard of a service: where watches are lost, never that it went. *)
IsNews(V, s, v) == s \in Svc /\ v \in V[s] \cup {None} /\ (Relisting => v # None)

Copies(V) ==
  /\ \A s \in Svc : etcd.svc[s] \in V[s] \cup {None}
  /\ \A i \in Watchers, s \in Svc : store[i][s] \in V[s] \cup {None}
  /\ \A i \in Watchers : /\ Sequence(wire[i])
                         /\ \A k \in 1 .. Len(wire[i]) : IsNews(V, wire[i][k][1], wire[i][k][2])

Told(V) ==
  /\ Sequence(queue["endpoints"]) /\ Sequence(queue["proxy"])
  /\ \A k \in 1 .. Len(queue["endpoints"]) :
       queue["endpoints"][k].of = "svc" =>
         /\ queue["endpoints"][k].name \in Svc
         /\ queue["endpoints"][k].new \in V[queue["endpoints"][k].name]
  /\ \A k \in 1 .. Len(queue["proxy"]) :
       IsNews(V, queue["proxy"][k].name, queue["proxy"][k].new)

IsJob(j) == /\ j = [op |-> j.op, pod |-> j.pod, ip |-> j.ip, on |-> j.on]
            /\ j.op = "add" => j.ip \in Ip

(* Services are changed under the lock, and are in the store.              *)
Working ==
  /\ Sequence(jobs)
  /\ \A k \in 1 .. Len(jobs) : IsJob(jobs[k]) /\ (k # 1 => jobs[k].on = None)
  /\ jobs # <<>> /\ jobs[1].on # None =>
       Svcs \in held /\ \A s \in jobs[1].on : s \in Svc /\ store[Svcs][s] # None

(* The proxy's store before each of the notifications that wait.           *)
History(V, h) ==
  /\ h[Len(queue["proxy"])] = store[Listed]
  /\ \A k \in 0 .. Len(queue["proxy"]), s \in Svc : h[k][s] \in V[s] \cup {None}
  /\ \A k \in 1 .. Len(queue["proxy"]) :
       /\ queue["proxy"][k].old = h[k - 1][queue["proxy"][k].name]
       /\ queue["proxy"][k].new = h[k][queue["proxy"][k].name]
       /\ \A s \in Svc : s # queue["proxy"][k].name => h[k][s] = h[k - 1][s]

About(q, s) == \E k \in 1 .. Len(q) : q[k].name = s

(* The table is what the store was before the notifications that wait,     *)
(* but for what they are about, and for what a resync will mend.           *)
Followed(V, h) ==
  /\ \A s \in Svc :
       /\ h[0][s] = None => svc_tb[s] = None
       /\ Fits(svc_tb[s], h[0][s]) \/ "proxy" \in resync \/ About(queue["proxy"], s)
  /\ resync # {} => Relisting
  /\ "proxy" \in resync =>
       \A k \in 0 .. Len(queue["proxy"]), s \in Svc : V[s] # {} => h[k][s] # None
  /\ Relisting => \A s \in Svc : svc_tb[s] # None =>
       \E v \in V[s] : svc_tb[s].addr = v.addr /\ DOMAIN svc_tb[s].lb = v.ports

Good(V, h) ==
  /\ Forms(V) /\ Copies(V) /\ Told(V) /\ Working /\ History(V, h) /\ Followed(V, h)
  /\ Sound(ipt, Entries(ipt))

Shaped ==
  /\ Typed /\ wire = [i \in Informers |-> wire[i]]
  /\ world \in World /\ env \in [Disturbance -> Nat]
  /\ world.may["restart"] = 0 => lost = {}

KernelInv == Shaped /\ (Tracked => \E V, h : Good(V, h))

(* While nothing waits for the proxy, it follows that the kernel serves.   *)
LEMMA KernelInvEnough == ASSUME KernelInv PROVE KernelServesStore
<1> SUFFICES ASSUME Tracked, queue["proxy"] = <<>>, "proxy" \notin resync
             PROVE  Serves(store[Listed])
  BY DEF KernelServesStore
<1>1. PICK V, h : Good(V, h)
  BY DEF KernelInv
<1>2. Len(queue["proxy"]) = 0
  BY EmptyIsSequence
<1>3. h[0] = store[Listed]
  BY <1>1, <1>2 DEF Good, History
<1>4. PICK svcs : svcs = store[Listed]
  OBVIOUS
<1>5. \A s \in Svc : Fits(svc_tb[s], svcs[s])
  <2>1. \A s \in Svc : ~ About(queue["proxy"], s)
    BY <1>2 DEF About
  <2> QED BY <1>1, <1>3, <1>4, <2>1 DEF Good, Followed
<1>6. \A s \in Svc : svcs[s] \in V[s] \cup {None}
  BY <1>1, <1>4 DEF Good, Copies, Watchers
<1>7. svcs \in [Svc -> Service \cup {None}]
  <2>1. svcs = [n \in Svc |-> svcs[n]]
    BY <1>4 DEF KernelInv, Shaped, Typed, Informers, Listed, Names
  <2>2. \A s \in Svc : svcs[s] \in Service \cup {None}
    BY <1>1, <1>6 DEF Good, Forms
  <2> QED BY <2>1, <2>2
<1>8. \A s, t \in Svc : svcs[s] # None /\ svcs[t] # None /\ svcs[s].addr = svcs[t].addr => s = t
  BY <1>1, <1>6 DEF Good, Forms
<1>9. Serves(svcs)
  BY <1>1, <1>5, <1>7, <1>8, ItServes DEF Good
<1> QED BY <1>4, <1>9

(* What does not happen in the worlds the property is about.               *)
LEMMA TrackedWorlds ==
  ASSUME Tracked, Shaped
  PROVE  /\ ~(env["give"] < world.may["give"]) /\ ~(env["restart"] < world.may["restart"])
         /\ env["relist"] < world.may["relist"] => Relisting
         /\ Relisting => /\ world.patient /\ ~(env["drop"] < world.may["drop"])
                         /\ ~(env["overwrite"] < world.may["overwrite"])
<1>1. world.may \in [Disturbance -> Nat] /\ env \in [Disturbance -> Nat]
  BY DEF Shaped, World
<1>2. \A d \in Disturbance : world.may[d] = 0 => ~(env[d] < world.may[d])
  BY <1>1
<1>3. {"give", "restart", "drop", "overwrite", "relist"} \subseteq Disturbance
  BY DEF Disturbance
<1> QED BY <1>2, <1>3 DEF Tracked, Relisting

(* Each part stays as long as what it is about does: the forms,            *)
LEMMA FormsKept ==
  ASSUME NEW V, Forms(V), UNCHANGED <<pool, world>>,
         \A s \in Svc : Relisting /\ etcd.svc[s] # None => etcd'.svc[s] # None
  PROVE  Forms(V)'
BY DEF Forms, Relisting

(* what was heard of services and is stored,                               *)
LEMMA CopiesKept ==
  ASSUME NEW V, Copies(V), UNCHANGED <<etcd, wire, world>>,
         \A i \in Watchers, s \in Svc : store'[i][s] \in V[s] \cup {None}
  PROVE  Copies(V)'
BY DEF Copies, IsNews, Relisting

(* what waits in channels,                                                 *)
LEMMA ToldKept ==
  ASSUME NEW V, Told(V), UNCHANGED <<queue["endpoints"], queue["proxy"], world>>
  PROVE  Told(V)'
BY DEF Told, IsNews, Relisting

(* the stores between notifications,                                       *)
LEMMA HistoryKept ==
  ASSUME NEW V, NEW h, History(V, h), UNCHANGED <<queue["proxy"], store[Listed]>>
  PROVE  History(V, h)'
BY DEF History

(* the table of the proxy,                                                 *)
LEMMA FollowedKept ==
  ASSUME NEW V, NEW h, Followed(V, h), UNCHANGED <<queue["proxy"], svc_tb, world>>,
         "proxy" \in resync' <=> "proxy" \in resync, resync' # {} => resync # {} \/ Relisting
  PROVE  Followed(V, h)'
BY DEF Followed, Relisting

(* the kernel,                                                             *)
LEMMA SoundKept ==
  ASSUME Sound(ipt, Entries(ipt)), UNCHANGED proxyVars
  PROVE  Sound(ipt, Entries(ipt))'
<1>1. UNCHANGED ipt
  BY DEF proxyVars, ipt
<1>2. PICK st : st = ipt
  OBVIOUS
<1>3. Sound(st, Entries(st)) /\ st = ipt'
  BY <1>1, <1>2
<1> QED BY <1>3

(* and the jobs of the endpoints controller.                               *)
LEMMA WorkingKept ==
  ASSUME Working, UNCHANGED <<jobs, held>>,
         \A s \in Svc : store[Svcs][s] # None /\ Svcs \in held => store'[Svcs][s] # None
  PROVE  Working'
BY DEF Working

(* A service is put, with a form it may be met in.                         *)
LEMMA SvcPut ==
  ASSUME Shaped, NEW V, Forms(V), Copies(V), NEW s, NEW v, IsNews(V, s, v),
         Put("svc", s, v), UNCHANGED <<pool, world>>,
         \A i \in Watchers, t \in Svc : store'[i][t] \in V[t] \cup {None}
  PROVE  Forms(V)' /\ Copies(V)'
<1>1. s \in Svc /\ v \in V[s] \cup {None} /\ (Relisting => v # None)
  BY DEF IsNews
<1>2. \A t \in Svc : etcd'.svc[t] = IF t = s THEN v ELSE etcd.svc[t]
  <2>1. "svc" \in Kind
    BY DEF Kind
  <2>2. etcd' = [etcd EXCEPT !["svc"][s] = v]
    BY DEF Put
  <2>3. "svc" \in DOMAIN etcd /\ \A t \in Svc : t \in DOMAIN etcd["svc"]
    BY <2>1 DEF Shaped, Typed, Names
  <2> QED BY <2>2, <2>3
<1>3. Forms(V)'
  BY <1>1, <1>2, FormsKept
<1>4. \A t \in Svc : etcd'.svc[t] \in V[t] \cup {None}
  BY <1>1, <1>2 DEF Copies
<1>5. ASSUME NEW i \in Watchers
      PROVE  wire'[i] = wire[i] \/ wire'[i] = Append(wire[i], <<s, v>>)
  BY DEF Put, Watchers, Informers, Svcs, Listed, IngressSvcs
<1>6. ASSUME NEW i \in Watchers
      PROVE  /\ Sequence(wire'[i])
             /\ \A k \in 1 .. Len(wire'[i]) : IsNews(V, wire'[i][k][1], wire'[i][k][2])
  <2>1. /\ Sequence(wire[i])
        /\ \A k \in 1 .. Len(wire[i]) : IsNews(V, wire[i][k][1], wire[i][k][2])
    BY DEF Copies
  <2>2. PICK q, r, x : q = wire[i] /\ r = wire'[i] /\ x = <<s, v>>
    OBVIOUS
  <2>3. CASE r = q
    BY <2>1, <2>2, <2>3
  <2>4. CASE r = Append(q, x)
    <3>1. Longer(r, q, x)
      BY <2>1, <2>2, <2>4, AppendParts
    <3>2. \A k \in 1 .. Len(r) : r[k] = x \/ (k \in 1 .. Len(q) /\ r[k] = q[k])
      BY <3>1 DEF Longer
    <3>3. x[1] = s /\ x[2] = v
      BY <2>2
    <3>4. \A k \in 1 .. Len(r) : IsNews(V, r[k][1], r[k][2])
      BY <2>1, <2>2, <3>2, <3>3
    <3> QED BY <2>2, <3>1, <3>4 DEF Longer
  <2> QED BY <1>5, <2>2, <2>3, <2>4
<1>7. Relisting' <=> Relisting
  BY DEF Relisting
<1>8. Copies(V)'
  BY <1>4, <1>6, <1>7 DEF Copies, IsNews
<1> QED BY <1>3, <1>8

(* Pods and ingresses are no concern of the proxy.                         *)
LEMMA OtherPut ==
  ASSUME Shaped, NEW V, Forms(V), Copies(V), NEW kind \in {"pod", "ing"}, NEW name, NEW object,
         Put(kind, name, object), UNCHANGED <<pool, world, store>>
  PROVE  Forms(V)' /\ Copies(V)'
<1>1. etcd'.svc = etcd.svc
  BY DEF Put, Shaped, Typed, Kind
<1>2. \A i \in Watchers : wire'[i] = wire[i]
  BY DEF Put, Watchers, Informers, Svcs, Listed, IngressSvcs
<1>3. Forms(V)'
  BY <1>1, FormsKept
<1>4. Copies(V)'
  BY <1>1, <1>2 DEF Copies, IsNews, Relisting
<1> QED BY <1>3, <1>4

(* What users do reaches no further than the wires.                        *)
LEMMA RequestsKeep ==
  ASSUME NEW V, NEW h, Good(V, h), Forms(V)', Copies(V)',
         UNCHANGED <<store, queue, resync, held, world, endpointsVars, proxyVars>>
  PROVE  Good(V, h)'
<1>1. Told(V)' /\ History(V, h)'
  BY ToldKept, HistoryKept DEF Good
<1>2. Followed(V, h)'
  BY FollowedKept DEF Good, proxyVars
<1>3. Working' /\ Sound(ipt, Entries(ipt))'
  BY WorkingKept, SoundKept DEF Good, endpointsVars
<1> QED BY <1>1, <1>2, <1>3 DEF Good

(* A service that is created adds to the forms services may be met in.     *)
LEMMA CreateKeeps ==
  ASSUME Shaped, Tracked, NEW V, NEW h, Good(V, h),
         NEW s \in Svc, NEW a \in Addr, NEW ports \in world.offers, NEW picks \in world.selectors,
         CreateService(s, a, ports, picks), UNCHANGED <<endpointsVars, proxyVars>>
  PROVE  \E W : Good(W, h)'
<1>1. ports \in SUBSET Port /\ picks \in SUBSET Pod
  BY DEF Shaped, World
<1>2. PICK v : v = [addr |-> a, ports |-> ports, picks |-> picks, eps |-> {}]
  OBVIOUS
<1>3. v \in Service /\ v.addr = a /\ v.ports = ports /\ v # None
  BY <1>1, <1>2, NoServiceAssumption DEF Service
<1>4. /\ a \notin pool /\ pool' = pool \cup {a} /\ Put("svc", s, v)
      /\ UNCHANGED <<store, queue, resync, held, world>>
      /\ Relisting => etcd.svc[s] = None /\ resync = {}
  <2>1. ~Request("give")
    BY TrackedWorlds DEF Request, Disturb
  <2>2. Relisting => ~Request("overwrite") /\ world.patient
    BY TrackedWorlds DEF Request, Disturb
  <2>3. /\ Draw(a) /\ Put("svc", s, v)
        /\ Request(IF etcd.svc[s] = None THEN "create" ELSE "overwrite")
    BY <1>2, <2>1 DEF CreateService
  <2> QED BY <2>2, <2>3 DEF Draw, Request, Disturb, Delivered
<1> DEFINE Mine == {w \in Service : w.addr = a /\ w.ports = ports}
           W == [V EXCEPT ![s] = @ \cup Mine]
<1>5. PICK F : F = W
  OBVIOUS
<1>6. V \in [Svc -> SUBSET Service]
  BY DEF Good, Forms
<1>7. /\ F \in [Svc -> SUBSET Service] /\ F[s] = V[s] \cup Mine
      /\ \A t \in Svc : t # s => F[t] = V[t]
  BY <1>5, <1>6
<1>8. ASSUME NEW w \in Service, NEW eps \in SUBSET Ip
      PROVE  /\ [w EXCEPT !.eps = eps] \in Service
             /\ [w EXCEPT !.eps = eps].addr = w.addr /\ [w EXCEPT !.eps = eps].ports = w.ports
  BY DEF Service
<1>9. ASSUME NEW t \in Svc, NEW w \in F[t], NEW eps \in SUBSET Ip
      PROVE  [w EXCEPT !.eps = eps] \in F[t]
  <2>1. CASE w \in V[t]
    BY <1>7, <2>1 DEF Good, Forms
  <2>2. CASE w \notin V[t]
    <3>1. t = s /\ w \in Mine
      BY <1>7, <2>2
    <3> QED BY <1>7, <1>8, <3>1
  <2> QED BY <2>1, <2>2
<1>10. \A t \in Svc : \A w \in V[t] : w.addr \in pool
  BY DEF Good, Forms
<1>11. ASSUME NEW t \in Svc, NEW u \in Svc, NEW w \in F[t], NEW x \in F[u], w.addr = x.addr
       PROVE  t = u
  <2>1. CASE w \in V[t] /\ x \in V[u]
    BY <1>11, <2>1 DEF Good, Forms
  <2>2. CASE w \notin V[t] /\ x \notin V[u]
    BY <1>7, <2>2
  <2>3. CASE w \notin V[t] /\ x \in V[u]
    <3>1. w.addr = a /\ x.addr \in pool
      BY <1>7, <1>10, <2>3
    <3> QED BY <1>4, <1>11, <3>1
  <2>4. CASE w \in V[t] /\ x \notin V[u]
    <3>1. x.addr = a /\ w.addr \in pool
      BY <1>7, <1>10, <2>4
    <3> QED BY <1>4, <1>11, <3>1
  <2> QED BY <2>1, <2>2, <2>3, <2>4
<1>12. \A t \in Svc : \A w \in F[t] : w.addr \in pool'
  BY <1>4, <1>7, <1>10
<1>13. \A t \in Svc : etcd'.svc[t] = IF t = s THEN v ELSE etcd.svc[t]
  <2>1. "svc" \in Kind
    BY DEF Kind
  <2>2. etcd' = [etcd EXCEPT !["svc"][s] = v]
    BY <1>4 DEF Put
  <2>3. "svc" \in DOMAIN etcd /\ \A t \in Svc : t \in DOMAIN etcd["svc"]
    BY <2>1 DEF Shaped, Typed, Names
  <2> QED BY <2>2, <2>3
<1>14. ASSUME Relisting, NEW t \in Svc
       PROVE  /\ F[t] # {} => etcd'.svc[t] # None
              /\ \A w, x \in F[t] : w.addr = x.addr /\ w.ports = x.ports
  <2>1. V[s] = {}
    BY <1>4, <1>14 DEF Good, Forms
  <2>2. CASE t = s
    BY <1>3, <1>7, <1>13, <2>1, <2>2
  <2>3. CASE t # s
    BY <1>7, <1>13, <1>14, <2>3 DEF Good, Forms
  <2> QED BY <2>2, <2>3
<1>15. Relisting' <=> Relisting
  BY <1>4 DEF Relisting
<1>16. Forms(F)'
  BY <1>7, <1>9, <1>11, <1>12, <1>14, <1>15 DEF Forms
<1>17. v \in F[s]
  BY <1>3, <1>7
<1>18. \A t \in Svc : V[t] \subseteq F[t]
  BY <1>7
<1>19. Copies(F)
  BY <1>18 DEF Good, Copies, IsNews
<1>20. Copies(F)'
  <2>1. \A t \in Svc : etcd'.svc[t] \in F[t] \cup {None}
    BY <1>13, <1>17, <1>19 DEF Copies
  <2>2. ASSUME NEW i \in Watchers
        PROVE  wire'[i] = wire[i] \/ wire'[i] = Append(wire[i], <<s, v>>)
    BY <1>4 DEF Put, Watchers, Informers, Svcs, Listed, IngressSvcs
  <2>3. ASSUME NEW i \in Watchers
        PROVE  /\ Sequence(wire'[i])
               /\ \A k \in 1 .. Len(wire'[i]) : IsNews(F, wire'[i][k][1], wire'[i][k][2])
    <3>1. /\ Sequence(wire[i])
          /\ \A k \in 1 .. Len(wire[i]) : IsNews(F, wire[i][k][1], wire[i][k][2])
      BY <1>19 DEF Copies
    <3>2. PICK q, r, x : q = wire[i] /\ r = wire'[i] /\ x = <<s, v>>
      OBVIOUS
    <3>3. CASE r = q
      BY <3>1, <3>2, <3>3
    <3>4. CASE r = Append(q, x)
      <4>1. Longer(r, q, x)
        BY <3>1, <3>2, <3>4, AppendParts
      <4>2. \A k \in 1 .. Len(r) : r[k] = x \/ (k \in 1 .. Len(q) /\ r[k] = q[k])
        BY <4>1 DEF Longer
      <4>3. IsNews(F, x[1], x[2])
        BY <1>3, <1>17, <3>2 DEF IsNews
      <4>4. \A k \in 1 .. Len(r) : IsNews(F, r[k][1], r[k][2])
        BY <3>1, <3>2, <4>2, <4>3
      <4> QED BY <3>2, <4>1, <4>4 DEF Longer
    <3> QED BY <2>2, <3>2, <3>3, <3>4
  <2>4. \A i \in Watchers, t \in Svc : store'[i][t] \in F[t] \cup {None}
    BY <1>4, <1>19 DEF Copies
  <2> QED BY <1>15, <2>1, <2>3, <2>4 DEF Copies, IsNews
<1>21. Told(F) /\ Told(F)'
  <2>1. Told(F)
    BY <1>18 DEF Good, Told, IsNews
  <2> QED BY <1>4, <2>1, ToldKept
<1>22. History(F, h)'
  <2>1. History(F, h)
    BY <1>18 DEF Good, History
  <2> QED BY <1>4, <2>1, HistoryKept
<1>23. Followed(F, h)'
  <2>1. Followed(F, h)
    <3>1. "proxy" \notin resync
      BY <1>4 DEF Good, Followed
    <3> QED BY <1>18, <3>1 DEF Good, Followed
  <2> QED BY <1>4, <2>1, FollowedKept DEF proxyVars
<1>24. Working' /\ Sound(ipt, Entries(ipt))'
  BY <1>4, WorkingKept, SoundKept DEF Good, endpointsVars
<1>25. Good(F, h)'
  BY <1>16, <1>20, <1>21, <1>22, <1>23, <1>24 DEF Good
<1> QED BY <1>25

(* Requests of users keep the invariant.                                   *)
LEMMA UsersKeep ==
  ASSUME Shaped, Tracked, NEW V, NEW h, Good(V, h), UserStep,
         UNCHANGED <<endpointsVars, proxyVars>>
  PROVE  \E W : Good(W, h)'
<1>1. CASE \E s \in Svc : DeleteService(s)
  <2>1. PICK s \in Svc : DeleteService(s)
    BY <1>1
  <2>2. ~Relisting
    BY <2>1, TrackedWorlds DEF DeleteService, Request, Disturb
  <2>3. /\ Put("svc", s, None)
        /\ UNCHANGED <<pool, store, queue, resync, held, world>>
    BY <2>1 DEF DeleteService, Request, Disturb
  <2>4. IsNews(V, s, None)
    BY <2>2 DEF IsNews
  <2>5. \A i \in Watchers, t \in Svc : store'[i][t] \in V[t] \cup {None}
    BY <2>3 DEF Good, Copies
  <2>6. Forms(V)' /\ Copies(V)'
    BY <2>3, <2>4, <2>5, SvcPut DEF Good
  <2> QED BY <2>3, <2>6, RequestsKeep
<1>2. CASE \E s \in Svc, a \in Addr, ports \in world.offers, picks \in world.selectors :
             CreateService(s, a, ports, picks)
  BY <1>2, CreateKeeps
<1>3. CASE \/ \E p \in Pod : StartPod(p) \/ StopPod(p)
           \/ \E g \in Ing : DeleteIngress(g) \/ \E paths \in Ingress : PutIngress(g, paths)
  <2>1. UNCHANGED <<pool, store, queue, resync, held, world>>
    BY <1>3 DEF StartPod, StopPod, DeleteIngress, PutIngress, Request, Disturb
  <2>2. \E kind \in {"pod", "ing"} : \E name, object : Put(kind, name, object)
    BY <1>3 DEF StartPod, StopPod, DeleteIngress, PutIngress
  <2>3. Forms(V)' /\ Copies(V)'
    BY <2>1, <2>2, OtherPut DEF Good
  <2> QED BY <2>1, <2>3, RequestsKeep
<1>4. ~RestartApi
  BY TrackedWorlds DEF RestartApi, Request, Disturb
<1> QED BY <1>1, <1>2, <1>3, <1>4 DEF UserStep

(* A lost watch: the proxy had caught up, and will resync.                 *)
LEMMA RelistKeeps ==
  ASSUME Shaped, Tracked, NEW V, NEW h, Good(V, h), NEW i \in Informers, Relist(i),
         UNCHANGED <<endpointsVars, proxyVars>>
  PROVE  \E g : Good(V, g)'
<1>1. /\ Relisting /\ queue[i[1]] = <<>> /\ resync = {} /\ i \notin held
      /\ wire' = [wire EXCEPT ![i] = <<>>] /\ store' = [store EXCEPT ![i] = etcd[i[2]]]
      /\ resync' = IF store'[i] = store[i] THEN resync ELSE resync \cup {i[1]}
      /\ UNCHANGED <<etcd, pool, queue, held, world>>
  <2>1. i \notin lost
    BY DEF Tracked, Shaped
  <2> QED BY <2>1, TrackedWorlds DEF Relist, List
<1>2. Forms(V)'
  BY <1>1, FormsKept DEF Good
<1>3. /\ Svcs \in Informers /\ Listed \in Informers /\ IngressSvcs \in Informers
      /\ \A j \in Watchers : j \in Informers /\ j[2] = "svc"
      /\ i[1] = "proxy" <=> i = Listed
  BY DEF Informers, Svcs, Listed, IngressSvcs, Watchers
<1>4. /\ \A j \in Watchers : store'[j] = IF j = i THEN etcd.svc ELSE store[j]
      /\ \A j \in Watchers : wire'[j] = IF j = i THEN <<>> ELSE wire[j]
  BY <1>1, <1>3 DEF Shaped, Typed
<1>5. Copies(V)'
  <2>1. \A j \in Watchers, s \in Svc : store'[j][s] \in V[s] \cup {None}
    BY <1>4 DEF Good, Copies
  <2>2. PICK e : e = <<>>
    OBVIOUS
  <2>3. Sequence(e) /\ Len(e) = 0
    BY <2>2, EmptyIsSequence
  <2>4. \A k \in 1 .. Len(e) : IsNews(V, e[k][1], e[k][2])
    BY <2>3
  <2>5. \A j \in Watchers :
          /\ Sequence(wire'[j])
          /\ \A k \in 1 .. Len(wire'[j]) : IsNews(V, wire'[j][k][1], wire'[j][k][2])
    BY <1>4, <2>2, <2>3, <2>4 DEF Good, Copies
  <2> QED BY <1>1, <2>1, <2>5 DEF Good, Copies, IsNews, Relisting
<1>6. Told(V)'
  BY <1>1, ToldKept DEF Good
<1>7. Working'
  <2>1. UNCHANGED <<jobs, held>>
    BY <1>1 DEF endpointsVars
  <2>2. Svcs \in held => store'[Svcs] = store[Svcs]
    BY <1>1, <1>4 DEF Watchers
  <2> QED BY <2>1, <2>2, WorkingKept DEF Good
<1>8. Sound(ipt, Entries(ipt))'
  BY SoundKept DEF Good
<1>9. CASE store'[Listed] = store[Listed]
  <2>1. History(V, h)'
    BY <1>1, <1>9, HistoryKept DEF Good
  <2>2. "proxy" \in resync' <=> "proxy" \in resync
    BY <1>1, <1>3, <1>9
  <2>3. Followed(V, h)'
    BY <1>1, <2>2, FollowedKept DEF Good, proxyVars
  <2> QED BY <1>2, <1>5, <1>6, <1>7, <1>8, <2>1, <2>3 DEF Good
<1>10. CASE store'[Listed] # store[Listed]
  <2>1. i = Listed /\ store'[Listed] = etcd.svc
    BY <1>4, <1>10 DEF Watchers
  <2>2. queue["proxy"] = <<>> /\ resync' = {"proxy"}
    BY <1>1, <1>3, <1>10, <2>1
  <2>3. Len(queue'["proxy"]) = 0
    BY <1>1, <2>2, EmptyIsSequence
  <2>4. PICK g : g = [k \in {0} |-> etcd.svc]
    OBVIOUS
  <2>5. g[0] = etcd.svc
    BY <2>4
  <2>6. History(V, g)'
    <3>1. \A s \in Svc : etcd.svc[s] \in V[s] \cup {None}
      BY DEF Good, Copies
    <3>2. \A k \in 0 .. 0 : k = 0
      OBVIOUS
    <3>3. \A k \in 1 .. 0 : FALSE
      OBVIOUS
    <3> QED BY <2>1, <2>3, <2>5, <3>1, <3>2, <3>3 DEF History
  <2>7. \A s \in Svc : V[s] # {} => etcd.svc[s] # None
    BY <1>1 DEF Good, Forms
  <2>8. UNCHANGED svc_tb
    BY DEF proxyVars
  <2>9. \A s \in Svc : svc_tb[s] # None => V[s] # {}
    BY <1>1 DEF Good, Followed
  <2>10. Relisting'
    BY <1>1 DEF Relisting
  <2>11. Relisting => \A s \in Svc : svc_tb[s] # None =>
           \E v \in V[s] : svc_tb[s].addr = v.addr /\ DOMAIN svc_tb[s].lb = v.ports
    BY DEF Good, Followed
  <2>12. Followed(V, g)'
    <3>1. \A k \in 0 .. Len(queue'["proxy"]) : k = 0
      BY <2>3
    <3>2. \A s \in Svc : g[0][s] = None => svc_tb'[s] = None
      BY <2>5, <2>7, <2>8, <2>9
    <3>3. "proxy" \in resync'
      BY <2>2
    <3>4. \A k \in 0 .. Len(queue'["proxy"]), s \in Svc : V[s] # {} => g[k][s] # None
      BY <2>5, <2>7, <3>1
    <3> QED BY <1>1, <2>8, <2>10, <2>11, <3>2, <3>3, <3>4 DEF Followed
  <2> QED BY <1>2, <1>5, <1>6, <1>7, <1>8, <2>6, <2>12 DEF Good
<1> QED BY <1>9, <1>10

(* An event of a watch that is not of services reaches the endpoints       *)
(* controller's channel at most, and one of services the store.            *)
LEMMA ReceiveOther ==
  ASSUME Shaped, NEW V, NEW h, Good(V, h), NEW i \in Informers \ Watchers, Receive(i),
         UNCHANGED <<endpointsVars, proxyVars>>
  PROVE  Good(V, h)'
<1>1. \A j \in Watchers : store'[j] = store[j] /\ wire'[j] = wire[j]
  <2>1. Watchers \subseteq Informers /\ \A j \in Watchers : j # i
    BY DEF Watchers, Informers, Svcs, Listed, IngressSvcs
  <2>2. \A j \in Informers : j # i => store'[j] = store[j] /\ wire'[j] = wire[j]
    BY DEF Receive, Shaped, Typed
  <2> QED BY <2>1, <2>2
<1>2. UNCHANGED <<etcd, pool, resync, held, world>>
  BY DEF Receive, envVars
<1>3. Forms(V)' /\ Copies(V)'
  <2>1. Forms(V)'
    BY <1>2, FormsKept DEF Good
  <2>2. Copies(V)'
    BY <1>1, <1>2 DEF Good, Copies, IsNews, Relisting
  <2> QED BY <2>1, <2>2
<1>4. i[2] # "svc" /\ i[1] \in {"endpoints", "ingress"}
  BY DEF Watchers, Informers, Svcs, Listed, IngressSvcs
<1>5. queue'["proxy"] = queue["proxy"]
  BY <1>4 DEF Receive, Shaped, Typed, Component
<1>6. \/ queue'["endpoints"] = queue["endpoints"]
      \/ \E n : n.of # "svc" /\ queue'["endpoints"] = Append(queue["endpoints"], n)
  <2>1. CASE queue' = queue
    BY <2>1
  <2>2. CASE queue' # queue
    <3> DEFINE name == Head(wire[i])[1]
    <3>1. PICK n : /\ queue' = [queue EXCEPT ![i[1]] = Append(@, n)]
                   /\ n = Note(i, name, store[i][name], Head(wire[i])[2])
      BY <2>2 DEF Receive
    <3>2. i[1] # "ingress" => n.of = i[2]
      BY <3>1 DEF Note
    <3>3. CASE i[1] = "ingress"
      BY <3>1, <3>3 DEF Shaped, Typed, Component
    <3>4. CASE i[1] = "endpoints"
      BY <1>4, <3>1, <3>2, <3>4 DEF Shaped, Typed, Component
    <3> QED BY <1>4, <3>3, <3>4
  <2> QED BY <2>1, <2>2
<1>7. Told(V)'
  <2>1. CASE queue'["endpoints"] = queue["endpoints"]
    BY <1>2, <1>5, <2>1, ToldKept DEF Good
  <2>2. CASE queue'["endpoints"] # queue["endpoints"]
    <3>1. PICK n : n.of # "svc" /\ queue'["endpoints"] = Append(queue["endpoints"], n)
      BY <1>6, <2>2
    <3>2. PICK q, r : q = queue["endpoints"] /\ r = queue'["endpoints"]
      OBVIOUS
    <3>3. Longer(r, q, n)
      BY <3>1, <3>2, AppendParts DEF Good, Told
    <3>4. \A k \in 1 .. Len(r) : r[k].of = "svc" => k \in 1 .. Len(q) /\ r[k] = q[k]
      BY <3>1, <3>3 DEF Longer
    <3> QED BY <1>2, <1>5, <3>2, <3>3, <3>4 DEF Good, Told, IsNews, Relisting, Longer
  <2> QED BY <2>1, <2>2
<1>8. History(V, h)' /\ Followed(V, h)'
  BY <1>1, <1>2, <1>5, HistoryKept, FollowedKept DEF Good, Watchers, proxyVars
<1>9. Working' /\ Sound(ipt, Entries(ipt))'
  BY <1>1, <1>2, WorkingKept, SoundKept DEF Good, endpointsVars, Watchers
<1> QED BY <1>3, <1>7, <1>8, <1>9 DEF Good

(* An event of services is installed in the store.                         *)
LEMMA ReceiveSvc ==
  ASSUME Shaped, NEW V, NEW h, Good(V, h), NEW i \in Watchers, Receive(i),
         UNCHANGED <<endpointsVars, proxyVars>>
  PROVE  \E g : Good(V, g)'
<1>1. PICK name, new : name = Head(wire[i])[1] /\ new = Head(wire[i])[2]
  OBVIOUS
<1>2. PICK old : old = store[i][name]
  OBVIOUS
<1>3. /\ wire[i] # <<>> /\ i \notin held
      /\ wire' = [wire EXCEPT ![i] = Tail(@)]
      /\ store' = [store EXCEPT ![i][name] = new]
      /\ UNCHANGED <<etcd, pool, resync, held, world>>
      /\ IF old # new /\ Passes(i, old, new)
           THEN queue' = [queue EXCEPT ![i[1]] = Append(@, Note(i, name, old, new))]
           ELSE UNCHANGED queue
  BY <1>1, <1>2 DEF Receive, envVars
<1>4. i \in Informers /\ i[2] = "svc" /\ Svcs \in Informers /\ Listed \in Informers
      /\ Svcs # Listed /\ Svcs[1] = "endpoints" /\ Listed[1] = "proxy"
      /\ IngressSvcs[1] = "ingress"
  BY DEF Watchers, Informers, Svcs, Listed, IngressSvcs
<1>5. Shorter(Tail(wire[i]), wire[i])
  BY <1>3, TailParts DEF Good, Copies
<1>6. IsNews(V, name, new)
  <2>1. Len(wire[i]) \in Nat \ {0} /\ Head(wire[i]) = wire[i][1]
    BY <1>5 DEF Shorter
  <2>2. 1 \in 1 .. Len(wire[i])
    BY <2>1
  <2> QED BY <1>1, <2>1, <2>2 DEF Good, Copies
<1>7. name \in Svc /\ new \in V[name] \cup {None} /\ (Relisting => new # None)
  BY <1>6 DEF IsNews
<1>8. /\ \A j \in Watchers : j # i => store'[j] = store[j] /\ wire'[j] = wire[j]
      /\ wire'[i] = Tail(wire[i]) /\ store'[i] = [store[i] EXCEPT ![name] = new]
      /\ \A s \in Svc : store'[i][s] = IF s = name THEN new ELSE store[i][s]
  <2>1. store[i] = [n \in Svc |-> store[i][n]]
    BY <1>4 DEF Shaped, Typed, Names
  <2>2. store'[i] = [store[i] EXCEPT ![name] = new]
    BY <1>3, <1>4 DEF Shaped, Typed
  <2>3. \A s \in Svc : store'[i][s] = IF s = name THEN new ELSE store[i][s]
    BY <1>7, <2>1, <2>2
  <2> QED BY <1>3, <1>4, <2>2, <2>3 DEF Shaped, Typed
<1>9. Forms(V)'
  BY <1>3, FormsKept DEF Good
<1>10. Copies(V)'
  <2>1. ASSUME NEW j \in Watchers, NEW s \in Svc
        PROVE  store'[j][s] \in V[s] \cup {None}
    <3>1. store[j][s] \in V[s] \cup {None}
      BY DEF Good, Copies
    <3>2. CASE j = i
      BY <1>7, <1>8, <3>1, <3>2
    <3>3. CASE j # i
      BY <1>8, <3>1, <3>3
    <3> QED BY <3>2, <3>3
  <2>2. PICK r : r = Tail(wire[i])
    OBVIOUS
  <2>3. Shorter(r, wire[i])
    BY <1>5, <2>2
  <2>4. \A k \in 1 .. Len(r) : IsNews(V, r[k][1], r[k][2])
    BY <2>3 DEF Shorter, Good, Copies
  <2>5. \A j \in Watchers :
          /\ Sequence(wire'[j])
          /\ \A k \in 1 .. Len(wire'[j]) : IsNews(V, wire'[j][k][1], wire'[j][k][2])
    BY <1>8, <2>2, <2>3, <2>4 DEF Good, Copies, Shorter
  <2> QED BY <1>3, <2>1, <2>5 DEF Good, Copies, IsNews, Relisting
<1>11. Working'
  <2>1. UNCHANGED <<jobs, held>>
    BY <1>3 DEF endpointsVars
  <2>2. Svcs \in held => store'[Svcs] = store[Svcs]
    BY <1>3, <1>8 DEF Watchers
  <2> QED BY <2>1, <2>2, WorkingKept DEF Good
<1>12. Sound(ipt, Entries(ipt))'
  BY SoundKept DEF Good
<1>13. UNCHANGED svc_tb
  BY DEF proxyVars
<1>14. CASE i = Listed /\ old # new
  <2>1. PICK n : n = [of |-> "svc", name |-> name, old |-> old, new |-> new]
    OBVIOUS
  <2>2. n.of = "svc" /\ n.name = name /\ n.old = old /\ n.new = new
    BY <2>1
  <2>3. Passes(i, old, new) /\ Note(i, name, old, new) = n
    BY <1>4, <1>14, <2>1 DEF Passes, Note
  <2>4. queue' = [queue EXCEPT !["proxy"] = Append(@, n)]
    BY <1>3, <1>4, <1>14, <2>3
  <2>5. queue'["proxy"] = Append(queue["proxy"], n) /\ queue'["endpoints"] = queue["endpoints"]
    BY <2>4 DEF Shaped, Typed, Component
  <2>6. PICK q, r, m : q = queue["proxy"] /\ r = queue'["proxy"] /\ m = Len(q)
    OBVIOUS
  <2>7. Longer(r, q, n)
    BY <2>5, <2>6, AppendParts DEF Good, Told
  <2>8. /\ m \in Nat /\ Sequence(r) /\ Len(r) = m + 1 /\ r[m + 1] = n
        /\ \A k \in 1 .. m : r[k] = q[k]
        /\ \A k \in 1 .. m + 1 : k \in 1 .. m \/ k = m + 1
        /\ \A k \in 0 .. m + 1 : k \in 0 .. m \/ k = m + 1
    BY <2>6, <2>7 DEF Longer
  <2>9. Told(V)'
    <3>1. \A k \in 1 .. Len(r) : IsNews(V, r[k].name, r[k].new)
      BY <1>6, <2>2, <2>6, <2>8 DEF Good, Told
    <3> QED BY <1>3, <2>5, <2>6, <2>8, <3>1 DEF Good, Told, IsNews, Relisting
  <2>10. PICK g : g = [k \in 0 .. m + 1 |-> IF k = m + 1 THEN store'[Listed] ELSE h[k]]
    OBVIOUS
  <2>11. g[m + 1] = store'[Listed] /\ \A k \in 0 .. m : g[k] = h[k]
    BY <2>8, <2>10
  <2>12. /\ h[m] = store[Listed]
         /\ \A k \in 0 .. m, s \in Svc : h[k][s] \in V[s] \cup {None}
         /\ \A k \in 1 .. m : /\ q[k].old = h[k - 1][q[k].name]
                              /\ q[k].new = h[k][q[k].name]
                              /\ \A s \in Svc : s # q[k].name => h[k][s] = h[k - 1][s]
    BY <2>6 DEF Good, History
  <2>13. /\ g[m + 1][name] = new /\ h[m][name] = old
         /\ \A s \in Svc : s # name => g[m + 1][s] = h[m][s]
    <3>1. h[m] = store[i] /\ g[m + 1] = store'[i]
      BY <1>14, <2>11, <2>12
    <3>2. store'[i][name] = new /\ \A s \in Svc : s # name => store'[i][s] = store[i][s]
      BY <1>7, <1>8
    <3> QED BY <1>2, <3>1, <3>2
  <2>14. History(V, g)'
    <3>1. \A k \in 0 .. m + 1, s \in Svc : g[k][s] \in V[s] \cup {None}
      BY <1>7, <2>8, <2>11, <2>12, <2>13
    <3>2. ASSUME NEW k \in 1 .. m + 1
          PROVE  /\ r[k].old = g[k - 1][r[k].name]
                 /\ r[k].new = g[k][r[k].name]
                 /\ \A s \in Svc : s # r[k].name => g[k][s] = g[k - 1][s]
      <4>1. CASE k \in 1 .. m
        <5>1. k \in 0 .. m /\ k - 1 \in 0 .. m
          BY <2>8, <4>1
        <5> QED BY <2>8, <2>11, <2>12, <4>1, <5>1
      <4>2. CASE k = m + 1
        <5>1. k - 1 = m /\ m \in 0 .. m
          BY <2>8, <4>2
        <5>2. r[k] = n /\ g[k - 1] = h[m]
          BY <2>8, <2>11, <4>2, <5>1
        <5> QED BY <2>2, <2>13, <4>2, <5>2
      <4> QED BY <2>8, <4>1, <4>2
    <3>3. Len(queue'["proxy"]) = m + 1 /\ g[Len(queue'["proxy"])] = store'[Listed]
      BY <2>6, <2>8, <2>11
    <3>4. r = queue'["proxy"]
      BY <2>6
    <3> QED BY <3>1, <3>2, <3>3, <3>4 DEF History
  <2>15. Followed(V, g)'
    <3>1. 0 \in 0 .. m /\ g[0] = h[0]
      BY <2>8, <2>11
    <3>2. \A s \in Svc : About(q, s) => About(r, s)
      <4>1. 1 .. m \subseteq 1 .. m + 1
        BY <2>8
      <4> QED BY <2>6, <2>8, <4>1 DEF About
    <3>3. ASSUME "proxy" \in resync
          PROVE  \A k \in 0 .. m + 1, s \in Svc : V[s] # {} => g[k][s] # None
      <4>1. Relisting /\ \A k \in 0 .. m, s \in Svc : V[s] # {} => h[k][s] # None
        BY <2>6, <3>3 DEF Good, Followed
      <4>2. new # None /\ m \in 0 .. m
        BY <1>7, <2>8, <4>1
      <4> QED BY <2>8, <2>11, <2>13, <4>1, <4>2
    <3>4. Relisting' <=> Relisting
      BY <1>3 DEF Relisting
    <3> QED BY <1>3, <1>13, <2>6, <2>8, <3>1, <3>2, <3>3, <3>4 DEF Good, Followed
  <2> QED BY <1>9, <1>10, <1>11, <1>12, <2>9, <2>14, <2>15 DEF Good
<1>15. CASE ~(i = Listed /\ old # new)
  <2>1. store'[Listed] = store[Listed]
    <3>1. CASE i # Listed
      BY <1>8, <3>1 DEF Watchers
    <3>2. CASE i = Listed
      <4>1. old = new /\ store[i] = [n \in Svc |-> store[i][n]]
        BY <1>4, <1>15, <3>2 DEF Shaped, Typed, Names
      <4> QED BY <1>2, <1>8, <3>2, <4>1
    <3> QED BY <3>1, <3>2
  <2>2. queue'["proxy"] = queue["proxy"]
    <3>1. CASE i # Listed
      <4>1. i[1] # "proxy"
        BY <1>4, <3>1 DEF Watchers
      <4> QED BY <1>3, <4>1 DEF Shaped, Typed, Component
    <3>2. CASE i = Listed
      BY <1>3, <1>15, <3>2
    <3> QED BY <3>1, <3>2
  <2>3. History(V, h)' /\ Followed(V, h)'
    BY <1>3, <1>13, <2>1, <2>2, HistoryKept, FollowedKept DEF Good
  <2>4. Told(V)'
    <3>1. CASE queue'["endpoints"] = queue["endpoints"]
      BY <1>3, <2>2, <3>1, ToldKept DEF Good
    <3>2. CASE queue'["endpoints"] # queue["endpoints"]
      <4>1. i = Svcs /\ old # new /\ Passes(i, old, new)
        BY <1>3, <1>4, <3>2 DEF Shaped, Typed, Component, Watchers
      <4>2. PICK n : n = [of |-> "svc", name |-> name, old |-> old, new |-> new]
        OBVIOUS
      <4>3. n.name = name /\ n.new = new
        BY <4>2
      <4>4. Note(i, name, old, new) = n
        BY <1>4, <4>1, <4>2 DEF Note
      <4>5. queue'["endpoints"] = Append(queue["endpoints"], n)
        BY <1>3, <1>4, <4>1, <4>4 DEF Shaped, Typed, Component
      <4>6. new \in V[name]
        BY <1>7, <4>1 DEF Passes, Svcs
      <4>7. PICK q, r : q = queue["endpoints"] /\ r = queue'["endpoints"]
        OBVIOUS
      <4>8. Longer(r, q, n)
        BY <4>5, <4>7, AppendParts DEF Good, Told
      <4>9. \A k \in 1 .. Len(r) : r[k].of = "svc" => r[k].name \in Svc /\ r[k].new \in V[r[k].name]
        <5>1. \A k \in 1 .. Len(q) :
                q[k].of = "svc" => q[k].name \in Svc /\ q[k].new \in V[q[k].name]
          BY <4>7 DEF Good, Told
        <5>2. \A k \in 1 .. Len(r) : r[k] = n \/ (k \in 1 .. Len(q) /\ r[k] = q[k])
          BY <4>8 DEF Longer
        <5> QED BY <1>7, <4>3, <4>6, <5>1, <5>2
      <4> QED BY <1>3, <2>2, <4>7, <4>8, <4>9 DEF Good, Told, IsNews, Relisting, Longer
    <3> QED BY <3>1, <3>2
  <2> QED BY <1>9, <1>10, <1>11, <1>12, <2>3, <2>4 DEF Good
<1> QED BY <1>14, <1>15

(* The endpoints controller changes nothing but endpoints.                 *)
LEMMA IpsAreIps == ASSUME NEW pods, NEW picks PROVE IpsOf(pods, picks) \in SUBSET Ip
BY DEF IpsOf, IpOf

(* A service that is changed is still a form of it.                        *)
LEMMA ChangedForm ==
  ASSUME NEW V, Forms(V), NEW s \in Svc, NEW v \in V[s], NEW job, IsJob(job)
  PROVE  Changed(job, v) \in V[s] /\ Changed(job, v) # None
<1>1. v \in Service /\ \A eps \in SUBSET Ip : [v EXCEPT !.eps = eps] \in V[s]
  BY DEF Forms
<1>2. v.eps \in SUBSET Ip
  BY <1>1, ServiceParts
<1>3. \A eps : eps \in SUBSET Ip /\ Changed(job, v) = [v EXCEPT !.eps = eps]
                 => Changed(job, v) \in V[s]
  BY <1>1
<1>4. CASE job.op = "sync"
  <2>1. Changed(job, v) = [v EXCEPT !.eps = IpsOf(store[Pods], v.picks)]
    BY <1>4, Zenon DEF Changed
  <2> QED BY <1>1, <2>1, IpsAreIps, NoServiceAssumption DEF Forms
<1>5. CASE job.op = "add" /\ job.pod \in v.picks
  <2>1. Changed(job, v) = [v EXCEPT !.eps = v.eps \cup {job.ip}]
    BY <1>5, Zenon DEF Changed
  <2>2. PICK eps : eps = v.eps \cup {job.ip}
    OBVIOUS
  <2>3. job.ip \in Ip
    BY <1>5 DEF IsJob
  <2>4. eps \in SUBSET Ip
    BY <1>2, <2>2, <2>3
  <2>5. Changed(job, v) \in V[s]
    BY <1>1, <2>1, <2>2, <2>4
  <2> QED BY <2>5, NoServiceAssumption DEF Forms
<1>6. CASE job.op = "del" /\ job.pod \in v.picks
  <2>1. Changed(job, v) = [v EXCEPT !.eps = v.eps \ {job.ip}]
    BY <1>6, Zenon DEF Changed
  <2>2. PICK eps : eps = v.eps \ {job.ip}
    OBVIOUS
  <2>3. eps \in SUBSET Ip
    BY <1>2, <2>2
  <2>4. Changed(job, v) \in V[s]
    BY <1>1, <2>1, <2>2, <2>3
  <2> QED BY <2>4, NoServiceAssumption DEF Forms
<1>7. CASE /\ job.op # "sync" /\ ~(job.op = "add" /\ job.pod \in v.picks)
           /\ ~(job.op = "del" /\ job.pod \in v.picks)
  <2>1. Changed(job, v) = v
    BY <1>7, Zenon DEF Changed
  <2> QED BY <1>1, <2>1, NoServiceAssumption
<1> QED BY <1>4, <1>5, <1>6, <1>7

(* The endpoints controller takes a notification.                          *)
LEMMA NoteTaken ==
  ASSUME Shaped, NEW V, Told(V), TakeNote("endpoints"), UNCHANGED world
  PROVE  /\ Told(V)' /\ UNCHANGED <<queue["proxy"], resync>>
         /\ Head(queue["endpoints"]).of = "svc" =>
              /\ Head(queue["endpoints"]).name \in Svc
              /\ Head(queue["endpoints"]).new \in V[Head(queue["endpoints"]).name]
<1>1. PICK q, r : q = queue["endpoints"] /\ r = Tail(q)
  OBVIOUS
<1>2. queue'["endpoints"] = r /\ UNCHANGED <<queue["proxy"], resync>> /\ q # <<>>
  BY <1>1 DEF TakeNote, Shaped, Typed, Component
<1>3. Shorter(r, q)
  BY <1>1, <1>2, TailParts DEF Told
<1>4. \A k \in 1 .. Len(q) : q[k].of = "svc" => q[k].name \in Svc /\ q[k].new \in V[q[k].name]
  BY <1>1 DEF Told
<1>5. \A k \in 1 .. Len(r) : r[k].of = "svc" => r[k].name \in Svc /\ r[k].new \in V[r[k].name]
  BY <1>3, <1>4 DEF Shorter
<1>6. Head(q) = q[1] /\ 1 \in 1 .. Len(q)
  BY <1>3 DEF Shorter
<1>7. Told(V)'
  BY <1>2, <1>3, <1>5 DEF Told, IsNews, Relisting, Shorter
<1> QED BY <1>1, <1>2, <1>4, <1>6, <1>7

(* Nothing is joined to a sequence.                                        *)
LEMMA NothingJoined ==
  ASSUME NEW S, NEW q \in Seq(S)
  PROVE  <<>> \o q = q /\ q \o <<>> = q
<1>1. <<>> \in Seq(S)
  OBVIOUS
<1>2. <<>> \o q \in Seq(S) /\ q \o <<>> \in Seq(S)
  BY <1>1
<1>3. /\ Len(<<>> \o q) = Len(q) /\ \A k \in 1 .. Len(q) : (<<>> \o q)[k] = q[k]
      /\ Len(q \o <<>>) = Len(q) /\ \A k \in 1 .. Len(q) : (q \o <<>>)[k] = q[k]
  BY <1>1
<1> QED BY <1>2, <1>3

(* A pod's address is taken away, added or both.                           *)
LEMMA JobsOf ==
  ASSUME NEW note, NEW a, NEW b, NEW r, r = JobsFor(note),
         a = Job("del", note.name, note.old), b = Job("add", note.name, note.new)
  PROVE  r = IF note.old \in Ip \ {note.new}
               THEN IF note.new \in Ip \ {note.old} THEN <<a, b>> ELSE <<a>>
               ELSE IF note.new \in Ip \ {note.old} THEN <<b>> ELSE <<>>
<1>1. PICK u, w : /\ u = IF note.old \in Ip \ {note.new} THEN <<a>> ELSE <<>>
                  /\ w = IF note.new \in Ip \ {note.old} THEN <<b>> ELSE <<>>
  OBVIOUS
<1>2. r = u \o w
  BY <1>1, Zenon DEF JobsFor
<1>3. <<>> \o <<b>> = <<b>> /\ <<a>> \o <<>> = <<a>>
  <2>1. <<a>> \in Seq({a}) /\ <<b>> \in Seq({b})
    OBVIOUS
  <2> QED BY <2>1, NothingJoined
<1>4. <<>> \o <<>> = <<>>
  OBVIOUS
<1>5. <<a>> \o <<b>> = <<a, b>>
  <2>1. PICK S, y, z : S = {a, b} /\ y = <<a>> \o <<b>> /\ z = <<a, b>>
    OBVIOUS
  <2>2. <<a>> \in Seq(S) /\ <<b>> \in Seq(S) /\ z \in Seq(S) /\ Len(z) = 2 /\ z[1] = a /\ z[2] = b
    BY <2>1
  <2>3. Len(<<a>>) = 1 /\ Len(<<b>>) = 1 /\ <<a>>[1] = a /\ <<b>>[1] = b
    OBVIOUS
  <2>4. y \in Seq(S) /\ Len(y) = 2 /\ y[1] = a /\ y[2] = b
    BY <2>1, <2>2, <2>3
  <2>5. \A k \in 1 .. Len(y) : y[k] = z[k]
    BY <2>2, <2>4
  <2>6. y = z
    BY <2>2, <2>4, <2>5
  <2> QED BY <2>1, <2>6
<1> QED BY <1>1, <1>2, <1>3, <1>4, <1>5

(* The jobs for a pod are jobs that have not begun.                        *)
LEMMA JobsAreJobs ==
  ASSUME NEW note, NEW r, r = JobsFor(note)
  PROVE  Sequence(r) /\ \A k \in 1 .. Len(r) : IsJob(r[k]) /\ r[k].on = None
<1>1. PICK a, b : a = Job("del", note.name, note.old) /\ b = Job("add", note.name, note.new)
  OBVIOUS
<1>2. IsJob(a) /\ a.on = None
  BY <1>1 DEF Job, IsJob
<1>3. note.new \in Ip => IsJob(b) /\ b.on = None
  BY <1>1 DEF Job, IsJob
<1>4. \/ r = <<>>
      \/ r = <<a>>
      \/ r = <<b>> /\ note.new \in Ip
      \/ r = <<a, b>> /\ note.new \in Ip
  BY <1>1, JobsOf
<1>5. Sequence(<<>>) /\ Len(<<>>) = 0
  BY EmptyIsSequence
<1>6. \A x : Sequence(<<x>>) /\ Len(<<x>>) = 1 /\ <<x>>[1] = x
  BY DEF Sequence
<1>7. \A x, y : Sequence(<<x, y>>) /\ Len(<<x, y>>) = 2 /\ <<x, y>>[1] = x /\ <<x, y>>[2] = y
  BY DEF Sequence
<1>8. \A k \in 1 .. 1 : k = 1
  OBVIOUS
<1>9. \A k \in 1 .. 2 : k = 1 \/ k = 2
  OBVIOUS
<1>10. CASE r = <<>>
  BY <1>5, <1>10
<1>11. CASE r = <<a>>
  BY <1>2, <1>6, <1>8, <1>11
<1>12. CASE r = <<b>> /\ note.new \in Ip
  BY <1>3, <1>6, <1>8, <1>12
<1>13. CASE r = <<a, b>> /\ note.new \in Ip
  BY <1>2, <1>3, <1>7, <1>9, <1>13
<1> QED BY <1>4, <1>10, <1>11, <1>12, <1>13

Begun(q, x) == [q EXCEPT ![1] = x]

Headed(r, q, x) ==
  /\ Sequence(r) /\ Len(r) = Len(q) /\ r[1] = x
  /\ \A k \in 1 .. Len(q) : k # 1 => r[k] = q[k]

(* The other jobs stay as they are.                                        *)
LEMMA FirstJob ==
  ASSUME NEW q, Sequence(q), q # <<>>, NEW x
  PROVE  Headed(Begun(q, x), q, x)
<1>0. PICK r : r = [q EXCEPT ![1] = x]
  OBVIOUS
<1>1. PICK n, S : n = Len(q) /\ S = {q[k] : k \in 1 .. Len(q)} \cup {x}
  OBVIOUS
<1>2. n \in Nat /\ q \in Seq(S) /\ x \in S
  BY <1>1 DEF Sequence
<1>3. 1 \in 1 .. n /\ DOMAIN q = 1 .. n
  BY <1>1, <1>2
<1>4. r[1] = x /\ DOMAIN r = 1 .. n /\ \A k \in 1 .. n : k # 1 => r[k] = q[k]
  BY <1>0, <1>3
<1>5. r \in Seq(S)
  BY <1>0, <1>2
<1>6. Len(r) = n
  BY <1>2, <1>4, <1>5
<1>7. r \in Seq({r[k] : k \in 1 .. Len(r)})
  BY ONLY <1>5
<1> QED BY <1>0, <1>1, <1>2, <1>4, <1>6, <1>7 DEF Sequence, Begun, Headed

(* What the endpoints controller does is no concern of the proxy, but for  *)
(* the service it puts.                                                    *)
LEMMA ProxyLeftAlone ==
  ASSUME NEW V, NEW h, Good(V, h), Forms(V)', Copies(V)', Told(V)', Working',
         UNCHANGED <<queue["proxy"], store[Listed], proxyVars, world>>,
         resync' = resync \ {"endpoints"} \/ resync' = resync
  PROVE  Good(V, h)'
<1>1. ("proxy" \in resync' <=> "proxy" \in resync) /\ (resync' # {} => resync # {})
  OBVIOUS
<1>2. History(V, h)' /\ Followed(V, h)'
  BY <1>1, HistoryKept, FollowedKept DEF Good, proxyVars
<1>3. Sound(ipt, Entries(ipt))'
  BY SoundKept DEF Good
<1> QED BY <1>2, <1>3 DEF Good

(* Jobs of which none has begun.                                           *)
LEMMA FirstIsThere ==
  ASSUME NEW q, Sequence(q), q # <<>>
  PROVE  1 \in 1 .. Len(q) /\ Head(q) = q[1]
BY TailParts DEF Shorter

(* Such jobs may be all there are.                                         *)
LEMMA FreshJobs ==
  ASSUME NEW r, jobs' = r, Sequence(r), \A k \in 1 .. Len(r) : IsJob(r[k]) /\ r[k].on = None
  PROVE  Working'
<1>1. r # <<>> => r[1].on = None
  BY FirstIsThere
<1> QED BY <1>1 DEF Working

(* The first job is done.                                                  *)
LEMMA LaterJobs ==
  ASSUME Working, jobs # <<>>, jobs' = Tail(jobs)
  PROVE  Working'
<1>1. PICK q, r : q = jobs /\ r = Tail(jobs)
  OBVIOUS
<1>2. Shorter(r, q)
  BY <1>1, TailParts DEF Working
<1>3. \A k \in 1 .. Len(q) : IsJob(q[k]) /\ (k # 1 => q[k].on = None)
  BY <1>1 DEF Working
<1>4. \A k \in 1 .. Len(r) : r[k] = q[k + 1] /\ k + 1 \in 1 .. Len(q) /\ k + 1 # 1
  BY <1>2 DEF Shorter
<1>5. \A k \in 1 .. Len(r) : IsJob(r[k]) /\ r[k].on = None
  BY <1>3, <1>4
<1> QED BY <1>1, <1>2, <1>5, FreshJobs DEF Shorter

(* The first job goes on with these services.                              *)
LEMMA JobGoesOn ==
  ASSUME Working, jobs # <<>>, NEW on, jobs' = [jobs EXCEPT ![1].on = on],
         Svcs \in held', \A s \in on : s \in Svc /\ store'[Svcs][s] # None
  PROVE  Working'
<1>1. PICK q, x : q = jobs /\ x = [jobs[1] EXCEPT !.on = on]
  OBVIOUS
<1>2. Sequence(q) /\ q # <<>> /\ \A k \in 1 .. Len(q) : IsJob(q[k]) /\ (k # 1 => q[k].on = None)
  BY <1>1 DEF Working
<1>3. 1 \in 1 .. Len(q)
  BY <1>2, FirstIsThere
<1>4. PICK r : r = jobs'
  OBVIOUS
<1>5. /\ Sequence(r) /\ Len(r) = Len(q) /\ r[1] = x
      /\ \A k \in 1 .. Len(q) : k # 1 => r[k] = q[k]
  <2>1. r = Begun(q, x)
    BY <1>1, <1>4 DEF Begun
  <2> QED BY <1>2, <2>1, FirstJob DEF Headed
<1>6. IsJob(x) /\ x.on = on
  <2>1. IsJob(q[1])
    BY <1>2, <1>3
  <2>2. q[1] = [op |-> q[1].op, pod |-> q[1].pod, ip |-> q[1].ip, on |-> q[1].on]
    BY <2>1 DEF IsJob
  <2>3. /\ x.op = q[1].op /\ x.pod = q[1].pod /\ x.ip = q[1].ip /\ x.on = on
        /\ x = [op |-> x.op, pod |-> x.pod, ip |-> x.ip, on |-> x.on]
    BY <1>1, <2>2
  <2> QED BY <2>1, <2>3 DEF IsJob
<1>7. \A k \in 1 .. Len(r) : IsJob(r[k]) /\ (k # 1 => r[k].on = None)
  BY <1>2, <1>5, <1>6
<1> QED BY <1>4, <1>5, <1>6, <1>7 DEF Working

(* A service is changed in the store, and put or not.                      *)
LEMMA ServiceChanged ==
  ASSUME Shaped, NEW V, Forms(V), Copies(V), NEW s \in Svc, NEW v \in V[s], v # None,
         store' = [store EXCEPT ![Svcs][s] = v],
         Put("svc", s, v) \/ UNCHANGED <<etcd, wire>>, UNCHANGED <<pool, world>>
  PROVE  /\ Forms(V)' /\ Copies(V)' /\ UNCHANGED store[Listed]
         /\ \A t \in Svc : store[Svcs][t] # None => store'[Svcs][t] # None
<1>1. Svcs \in Informers /\ Svcs[2] = "svc" /\ Svcs # Listed /\ Listed \in Informers
      /\ Svcs \in Watchers /\ Watchers \subseteq Informers
  BY DEF Svcs, Listed, IngressSvcs, Informers, Watchers
<1>2. store[Svcs] = [t \in Svc |-> store[Svcs][t]]
  BY <1>1 DEF Shaped, Typed, Names
<1>3. /\ \A i \in Informers : i # Svcs => store'[i] = store[i]
      /\ store'[Svcs] = [store[Svcs] EXCEPT ![s] = v]
  BY <1>1 DEF Shaped, Typed
<1>4. \A t \in Svc : store'[Svcs][t] = IF t = s THEN v ELSE store[Svcs][t]
  BY <1>2, <1>3
<1>5. \A i \in Watchers, t \in Svc : store'[i][t] \in V[t] \cup {None}
  BY <1>1, <1>3, <1>4 DEF Copies
<1>6. CASE Put("svc", s, v)
  <2>1. IsNews(V, s, v)
    BY DEF IsNews
  <2> QED BY <1>1, <1>3, <1>4, <1>5, <1>6, <2>1, SvcPut
<1>7. CASE UNCHANGED <<etcd, wire>>
  BY <1>1, <1>3, <1>4, <1>5, <1>7, FormsKept, CopiesKept
<1> QED BY <1>6, <1>7

(* The endpoints controller keeps the invariant.                           *)
LEMMA EndpointsKeep ==
  ASSUME Shaped, NEW V, NEW h, Good(V, h), EndpointsTask \/ EndpointsFail, UNCHANGED proxyVars
  PROVE  Good(V, h)'
<1>1. Forms(V) /\ Copies(V) /\ Told(V) /\ Working
  BY DEF Good
<1>2. ASSUME UNCHANGED <<etcd, pool, wire, store, world>>
      PROVE  Forms(V)' /\ Copies(V)' /\ UNCHANGED store[Listed]
  <2>1. Forms(V)'
    BY <1>1, <1>2, FormsKept
  <2>2. \A i \in Watchers, s \in Svc : store'[i][s] \in V[s] \cup {None}
    BY <1>1, <1>2 DEF Copies
  <2> QED BY <1>1, <1>2, <2>1, <2>2, CopiesKept
<1>3. ASSUME UNCHANGED <<queue, world>>
      PROVE  Told(V)' /\ UNCHANGED queue["proxy"]
  BY <1>1, <1>3, ToldKept
<1>4. CASE HandlePodNote
  <2>1. /\ TakeNote("endpoints") /\ UNCHANGED <<etcd, pool, wire, store, held, world>>
        /\ jobs' = JobsFor(Head(queue["endpoints"]))
    BY <1>4 DEF HandlePodNote, apiVars, linkVars, envVars
  <2>2. Forms(V)' /\ Copies(V)' /\ UNCHANGED store[Listed]
    BY <1>2, <2>1
  <2>3. Told(V)' /\ UNCHANGED <<queue["proxy"], resync>>
    BY <1>1, <2>1, NoteTaken
  <2>4. Working'
    BY <2>1, JobsAreJobs, FreshJobs
  <2> QED BY <2>1, <2>2, <2>3, <2>4, ProxyLeftAlone
<1>5. CASE HandleServiceNote \/ AddFails
  <2>1. PICK note, ips : note = Head(queue["endpoints"]) /\ ips = IpsOf(store[Pods], note.new.picks)
    OBVIOUS
  <2>2. /\ TakeNote("endpoints") /\ note.of = "svc"
        /\ \/ UNCHANGED <<etcd, wire>>
           \/ Put("svc", note.name, [note.new EXCEPT !.eps = @ \cup ips])
        /\ UNCHANGED <<pool, store, held, world, jobs>>
    BY <1>5, <2>1 DEF HandleServiceNote, AddFails, Fail, linkVars, envVars
  <2>3. Told(V)' /\ UNCHANGED <<queue["proxy"], resync>>
        /\ note.name \in Svc /\ note.new \in V[note.name]
    BY <1>1, <2>1, <2>2, NoteTaken
  <2>4. UNCHANGED store[Listed]
    BY <2>2
  <2>5. Forms(V)' /\ Copies(V)'
    <3>1. CASE UNCHANGED <<etcd, wire>>
      BY <1>2, <2>2, <3>1
    <3>2. CASE Put("svc", note.name, [note.new EXCEPT !.eps = @ \cup ips])
      <4>1. PICK eps, v : eps = note.new.eps \cup ips /\ v = [note.new EXCEPT !.eps = eps]
        OBVIOUS
      <4>2. Put("svc", note.name, v)
        BY <3>2, <4>1
      <4>3. note.new \in Service
        BY <1>1, <2>3 DEF Forms
      <4>4. eps \in SUBSET Ip
        BY <2>1, <4>1, <4>3, IpsAreIps, ServiceParts
      <4>5. v \in V[note.name]
        BY <1>1, <2>3, <4>1, <4>4 DEF Forms
      <4>6. v # None
        BY <1>1, <2>3, <4>5, NoServiceAssumption DEF Forms
      <4>7. IsNews(V, note.name, v)
        BY <2>3, <4>5, <4>6 DEF IsNews
      <4>8. \A i \in Watchers, s \in Svc : store'[i][s] \in V[s] \cup {None}
        BY <1>1, <2>2 DEF Copies
      <4> QED BY <1>1, <2>2, <4>2, <4>7, <4>8, SvcPut
    <3> QED BY <2>2, <3>1, <3>2
  <2>6. Working'
    BY <1>1, <2>2, WorkingKept
  <2> QED BY <2>2, <2>3, <2>4, <2>5, <2>6, ProxyLeftAlone
<1>6. CASE HandleResync
  <2>1. /\ resync' = resync \ {"endpoints"}
        /\ UNCHANGED <<etcd, pool, wire, store, held, world, queue>>
        /\ jobs' = <<Job("sync", None, NoIp)>>
    BY <1>6 DEF HandleResync, TakeResync, apiVars, linkVars, envVars
  <2>2. PICK j, r : j = Job("sync", None, NoIp) /\ r = <<j>>
    OBVIOUS
  <2>3. IsJob(j) /\ j.on = None
    BY <2>2 DEF Job, IsJob
  <2>4. Sequence(r) /\ \A k \in 1 .. Len(r) : r[k] = j
    BY <2>2 DEF Sequence
  <2>5. Working'
    BY <2>1, <2>2, <2>3, <2>4, FreshJobs
  <2> QED BY <1>2, <1>3, <2>1, <2>5, ProxyLeftAlone
<1>7. CASE Lock
  <2>1. PICK job, on :
          /\ job = Head(jobs)
          /\ on = {s \in Svc : /\ store[Svcs][s] # None
                               /\ Changed(job, store[Svcs][s]) # store[Svcs][s]}
    OBVIOUS
  <2>2. /\ jobs # <<>> /\ UNCHANGED <<etcd, pool, wire, store, world, queue, resync>>
        /\ \/ jobs' = Tail(jobs)
           \/ jobs' = [jobs EXCEPT ![1].on = on] /\ Svcs \in held'
    BY <1>7, <2>1 DEF Lock, apiVars, linkVars, envVars
  <2>3. Working'
    <3>1. \A s \in on : s \in Svc /\ store'[Svcs][s] # None
      BY <2>1, <2>2
    <3> QED BY <1>1, <2>2, <3>1, LaterJobs, JobGoesOn
  <2> QED BY <1>2, <1>3, <2>2, <2>3, ProxyLeftAlone
<1>8. CASE Update \/ UpdateFails
  <2>1. PICK job : job = Head(jobs)
    OBVIOUS
  <2>2. PICK s \in job.on : \E v :
          /\ v = Changed(job, store[Svcs][s]) /\ store' = [store EXCEPT ![Svcs][s] = v]
          /\ Put("svc", s, v) \/ UNCHANGED <<etcd, wire>>
          /\ Done(s) \/ jobs' = <<>>
    BY <1>8, <2>1 DEF Update, UpdateFails, linkVars
  <2>8. PICK v :
          /\ v = Changed(job, store[Svcs][s]) /\ store' = [store EXCEPT ![Svcs][s] = v]
          /\ Put("svc", s, v) \/ UNCHANGED <<etcd, wire>>
          /\ Done(s) \/ jobs' = <<>>
    BY <2>2
  <2>3. jobs # <<>> /\ job.on # None /\ UNCHANGED <<pool, queue, resync, world>>
    BY <1>8, <2>1 DEF Update, UpdateFails, Fail, envVars
  <2>4. /\ job = jobs[1] /\ IsJob(job) /\ Svcs \in held
        /\ \A t \in job.on : t \in Svc /\ store[Svcs][t] # None
    BY <1>1, <2>1, <2>3, FirstIsThere DEF Working
  <2>5. s \in Svc /\ v \in V[s] /\ v # None
    <3>1. s \in Svc /\ store[Svcs][s] \in V[s]
      BY <1>1, <2>8, <2>4 DEF Copies, Watchers
    <3> QED BY <1>1, <2>8, <2>4, <3>1, ChangedForm
  <2>6. /\ Forms(V)' /\ Copies(V)' /\ UNCHANGED store[Listed]
        /\ \A t \in Svc : store[Svcs][t] # None => store'[Svcs][t] # None
    BY <1>1, <2>8, <2>3, <2>5, ServiceChanged
  <2>7. Working'
    <3>1. CASE jobs' = <<>>
      <4>1. \A k \in 1 .. Len(<<>>) : IsJob(<<>>[k]) /\ <<>>[k].on = None
        BY EmptyIsSequence
      <4> QED BY <3>1, <4>1, EmptyIsSequence, FreshJobs
    <3>2. CASE jobs' = Tail(jobs)
      BY <1>1, <2>3, <3>2, LaterJobs
    <3>3. CASE jobs' = [jobs EXCEPT ![1].on = @ \ {s}] /\ UNCHANGED held
      <4>1. PICK on : on = job.on \ {s}
        OBVIOUS
      <4>2. jobs' = [jobs EXCEPT ![1].on = on]
        BY <2>4, <3>3, <4>1
      <4>3. \A t \in on : t \in Svc /\ store'[Svcs][t] # None
        BY <2>4, <2>6, <4>1
      <4> QED BY <1>1, <2>3, <2>4, <3>3, <4>2, <4>3, JobGoesOn
    <3> QED BY <2>8, <3>1, <3>2, <3>3 DEF Done
  <2> QED BY <1>3, <2>3, <2>6, <2>7, ProxyLeftAlone
<1> QED BY <1>4, <1>5, <1>6, <1>7, <1>8 DEF EndpointsTask, EndpointsFail

(* What the proxy does.                                                    *)
LEMMA UntouchedStays ==
  ASSUME NEW h, NEW n \in Nat, NEW s, \A k \in 1 .. n : h[k][s] = h[k - 1][s]
  PROVE  h[n][s] = h[0][s]
<1>1. SUFFICES ASSUME h[n][s] # h[0][s] PROVE FALSE
  OBVIOUS
<1>2. PICK C : C = {k \in 0 .. n : h[k][s] # h[0][s]}
  OBVIOUS
<1>3. C \in SUBSET Nat /\ n \in C /\ 0 \notin C
  BY <1>1, <1>2
<1>4. PICK k \in C : \A m \in 0 .. k - 1 : m \notin C
  BY <1>3, SmallestNumber
<1>5. k \in 1 .. n /\ k - 1 \in 0 .. k - 1 /\ k - 1 \in 0 .. n
  BY <1>2, <1>3
<1>6. h[k - 1][s] = h[0][s]
  BY <1>2, <1>4, <1>5
<1>7. h[k][s] # h[0][s]
  BY <1>2
<1> QED BY <1>5, <1>6, <1>7

(* The kernel and the table are these from now on.                         *)
LEMMA BecomesIt ==
  ASSUME NEW st, Sound(st, Entries(st)), Becomes(st)
  PROVE  Sound(ipt, Entries(ipt))' /\ svc_tb' = st.tb
<1>1. PICK r : r = [rules |-> rules', chains |-> chains', tb |-> svc_tb', panicked |-> panicked']
  OBVIOUS
<1>2. r = st
  BY <1>1 DEF Sound, IsState, Becomes
<1>3. r = ipt'
  BY <1>1 DEF ipt
<1>4. Sound(r, Entries(r))
  BY <1>2
<1> QED BY <1>3, <1>4 DEF Becomes

(* The table of the proxy remembers a form of the service.                 *)
LEMMA FitIsKnown ==
  ASSUME NEW V, NEW s, NEW v \in V[s] \cup {None}, NEW t, Fits(t, v), t # None
  PROVE  \E w \in V[s] : t.addr = w.addr /\ DOMAIN t.lb = w.ports
BY DEF Fits

(* The proxy handles the first of its notifications.                       *)
LEMMA ProxyHandlesKeeps ==
  ASSUME Shaped, NEW V, NEW h, Good(V, h), ProxyHandles, UNCHANGED endpointsVars
  PROVE  \E g : Good(V, g)'
<1>1. PICK q, r, note, m : q = queue["proxy"] /\ r = Tail(q) /\ note = Head(q) /\ m = Len(r)
  OBVIOUS
<1>2. /\ TakeNote("proxy") /\ q # <<>>
      /\ UNCHANGED <<etcd, pool, wire, store, held, world, resync>>
  BY <1>1 DEF ProxyHandles, TakeNote, apiVars, linkVars, envVars
<1>3. queue'["proxy"] = r /\ queue'["endpoints"] = queue["endpoints"]
  BY <1>1, <1>2 DEF TakeNote, Shaped, Typed, Component
<1>4. Shorter(r, q)
  BY <1>1, <1>2, TailParts DEF Good, Told
<1>5. /\ m \in Nat /\ Len(q) = m + 1 /\ note = q[1] /\ Sequence(r)
      /\ \A k \in 1 .. m : r[k] = q[k + 1] /\ k + 1 \in 1 .. m + 1
  <2>1. /\ Sequence(r) /\ m = Len(q) - 1 /\ Len(q) \in Nat \ {0} /\ note = q[1]
        /\ \A k \in 1 .. m : r[k] = q[k + 1] /\ k + 1 \in 1 .. Len(q)
    BY <1>1, <1>4, Zenon DEF Shorter
  <2>2. m \in Nat /\ Len(q) = m + 1
    BY <2>1
  <2> QED BY <2>1, <2>2
<1>6. 1 \in 1 .. m + 1 /\ 1 - 1 = 0 /\ 0 \in 0 .. m + 1
  BY <1>5
<1>7. \A k \in 1 .. m + 1 : IsNews(V, q[k].name, q[k].new)
  BY <1>1, <1>5 DEF Good, Told
<1>8. /\ h[m + 1] = store[Listed]
      /\ \A k \in 0 .. m + 1, s \in Svc : h[k][s] \in V[s] \cup {None}
      /\ \A k \in 1 .. m + 1 : /\ q[k].old = h[k - 1][q[k].name]
                               /\ q[k].new = h[k][q[k].name]
                               /\ \A s \in Svc : s # q[k].name => h[k][s] = h[k - 1][s]
  BY <1>1, <1>5 DEF Good, History
<1>9. PICK name, new : name = note.name /\ new = note.new
  OBVIOUS
<1>10. /\ name \in Svc /\ new \in V[name] \cup {None} /\ new \in Service \cup {None}
       /\ note.old = h[0][name] /\ new = h[1][name]
       /\ \A s \in Svc : s # name => h[1][s] = h[0][s]
  <2>1. IsNews(V, name, new)
    BY <1>5, <1>6, <1>7, <1>9
  <2>2. V \in [Svc -> SUBSET Service]
    BY DEF Good, Forms
  <2> QED BY <1>5, <1>6, <1>8, <1>9, <2>1, <2>2 DEF IsNews
<1>11. PICK st, next : st = ipt /\ next = Handled(ipt, note)
  OBVIOUS
<1>12. Sound(st, Entries(st)) /\ st.tb = svc_tb /\ Becomes(next)
  <2>1. ipt.tb = svc_tb
    BY DEF ipt
  <2> QED BY <1>1, <1>11, <2>1 DEF Good, ProxyHandles
<1>13. h[0][name] = None => st.tb[name] = None
  BY <1>10, <1>12 DEF Good, Followed
<1>14. Sound(next, Entries(next)) /\ SameBut(next, st, name) /\ Fits(next.tb[name], new)
  <2>1. next = Handled(st, note)
    BY <1>11
  <2> QED BY <1>9, <1>10, <1>12, <1>13, <2>1, NoteHandled
<1>15. Sound(ipt, Entries(ipt))' /\ svc_tb' = next.tb
  BY <1>12, <1>14, BecomesIt
<1>16. \A s \in Svc : s # name => svc_tb'[s] = svc_tb[s]
  BY <1>12, <1>14, <1>15 DEF SameBut
<1>17. Fits(svc_tb'[name], new)
  BY <1>14, <1>15
<1>18. PICK g : g = [k \in 0 .. m |-> h[k + 1]]
  OBVIOUS
<1>19. \A k \in 0 .. m : g[k] = h[k + 1] /\ k + 1 \in 0 .. m + 1
  BY <1>5, <1>18
<1>20. Forms(V)' /\ Copies(V)' /\ Working'
  <2>1. Forms(V)'
    BY <1>2, FormsKept DEF Good
  <2>2. Copies(V)'
    BY <1>2, CopiesKept DEF Good, Copies
  <2>3. Working'
    BY <1>2, WorkingKept DEF Good, endpointsVars
  <2> QED BY <2>1, <2>2, <2>3
<1>21. Told(V)'
  <2>1. \A k \in 1 .. m : IsNews(V, r[k].name, r[k].new)
    BY <1>5, <1>7
  <2> QED BY <1>1, <1>2, <1>3, <1>5, <2>1 DEF Good, Told, IsNews, Relisting
<1>22. History(V, g)'
  <2>1. m \in 0 .. m
    BY <1>5
  <2>2. g[m] = store'[Listed]
    BY <1>2, <1>8, <1>19, <2>1
  <2>3. \A k \in 0 .. m, s \in Svc : g[k][s] \in V[s] \cup {None}
    BY <1>8, <1>19
  <2>4. ASSUME NEW k \in 1 .. m
        PROVE  /\ r[k].old = g[k - 1][r[k].name]
               /\ r[k].new = g[k][r[k].name]
               /\ \A s \in Svc : s # r[k].name => g[k][s] = g[k - 1][s]
    <3>1. /\ k - 1 \in 0 .. m /\ k \in 0 .. m /\ (k - 1) + 1 = k /\ (k + 1) - 1 = k
          /\ k + 1 \in 1 .. m + 1
      BY <1>5
    <3>2. g[k - 1] = h[k] /\ g[k] = h[k + 1] /\ r[k] = q[k + 1]
      BY <1>5, <1>19, <3>1
    <3>3. PICK j : j = k + 1
      OBVIOUS
    <3>4. j \in 1 .. m + 1 /\ h[j - 1] = g[k - 1] /\ h[j] = g[k] /\ q[j] = r[k]
      BY <3>1, <3>2, <3>3
    <3> QED BY <1>8, <3>4
  <2> QED BY <1>1, <1>3, <2>2, <2>3, <2>4 DEF History
<1>23. Followed(V, g)'
  <2>1. 0 \in 0 .. m /\ g[0] = h[1]
    <3>1. 0 \in 0 .. m /\ 0 + 1 = 1
      BY <1>5
    <3> QED BY <1>19, <3>1
  <2>2. ASSUME NEW s \in Svc
        PROVE  /\ g[0][s] = None => svc_tb'[s] = None
               /\ Fits(svc_tb'[s], g[0][s]) \/ "proxy" \in resync' \/ About(r, s)
    <3>1. CASE s = name
      <4>1. g[0][s] = new
        BY <1>10, <2>1, <3>1
      <4>2. new = None => svc_tb'[name] = None
        BY <1>17 DEF Fits
      <4> QED BY <1>17, <3>1, <4>1, <4>2
    <3>2. CASE s # name
      <4>1. g[0][s] = h[0][s] /\ svc_tb'[s] = svc_tb[s]
        BY <1>10, <1>16, <2>1, <3>2
      <4>2. About(q, s) => About(r, s)
        <5>1. ASSUME NEW k \in 1 .. m + 1, q[k].name = s PROVE About(r, s)
          <6>1. k # 1
            BY <1>5, <1>9, <3>2, <5>1
          <6>2. k - 1 \in 1 .. m /\ (k - 1) + 1 = k
            BY <1>5, <6>1
          <6>3. r[k - 1].name = s
            BY <1>5, <5>1, <6>2
          <6> QED BY <1>1, <6>2, <6>3 DEF About
        <5> QED BY <1>5, <5>1 DEF About
      <4>3. /\ h[0][s] = None => svc_tb[s] = None
            /\ Fits(svc_tb[s], h[0][s]) \/ "proxy" \in resync \/ About(q, s)
        BY <1>1 DEF Good, Followed
      <4> QED BY <1>2, <4>1, <4>2, <4>3
    <3> QED BY <3>1, <3>2
  <2>3. resync' # {} => Relisting'
    BY <1>2 DEF Good, Followed, Relisting
  <2>4. ASSUME "proxy" \in resync'
        PROVE  \A k \in 0 .. m, s \in Svc : V[s] # {} => g[k][s] # None
    <3>1. \A k \in 0 .. m + 1, s \in Svc : V[s] # {} => h[k][s] # None
      BY <1>1, <1>2, <1>5, <2>4 DEF Good, Followed
    <3> QED BY <1>19, <3>1
  <2>5. ASSUME Relisting', NEW s \in Svc, svc_tb'[s] # None
        PROVE  \E v \in V[s] : svc_tb'[s].addr = v.addr /\ DOMAIN svc_tb'[s].lb = v.ports
    <3>1. CASE s = name
      <4>1. PICK t : t = svc_tb'[s]
        OBVIOUS
      <4>2. Fits(t, new) /\ t # None /\ new \in V[s] \cup {None}
        BY <1>10, <1>17, <2>5, <3>1, <4>1
      <4>3. \E v \in V[s] : t.addr = v.addr /\ DOMAIN t.lb = v.ports
        BY <4>2 DEF Fits
      <4> QED BY <4>1, <4>3
    <3>2. CASE s # name
      <4>1. Relisting /\ svc_tb[s] # None /\ svc_tb'[s] = svc_tb[s]
        BY <1>2, <1>16, <2>5, <3>2 DEF Relisting
      <4> QED BY <4>1 DEF Good, Followed
    <3> QED BY <3>1, <3>2
  <2> QED BY <1>1, <1>3, <2>2, <2>3, <2>4, <2>5 DEF Followed
<1> QED BY <1>15, <1>20, <1>21, <1>22, <1>23 DEF Good

(* A resync makes up for what was missed: where watches are lost, what the *)
(* table has is still there, with the address and the ports it had.        *)
LEMMA ProxyResyncsKeeps ==
  ASSUME Shaped, NEW V, NEW h, Good(V, h), ProxyResyncs, UNCHANGED endpointsVars
  PROVE  Good(V, h)'
<1>1. /\ "proxy" \in resync /\ resync' = resync \ {"proxy"}
      /\ UNCHANGED <<etcd, pool, wire, store, held, world, queue>>
  BY DEF ProxyResyncs, TakeResync, apiVars, linkVars, envVars
<1>2. Relisting
  BY <1>1 DEF Good, Followed
<1>3. PICK q, n, svcs : q = queue["proxy"] /\ n = Len(q) /\ svcs = store[Listed]
  OBVIOUS
<1>4. n \in Nat
  BY <1>3 DEF Good, Told, Sequence
<1>5. /\ h[n] = svcs
      /\ \A k \in 0 .. n, s \in Svc : h[k][s] \in V[s] \cup {None}
      /\ \A k \in 1 .. n : \A s \in Svc : s # q[k].name => h[k][s] = h[k - 1][s]
      /\ \A k \in 0 .. n, s \in Svc : V[s] # {} => h[k][s] # None
  BY <1>1, <1>3 DEF Good, History, Followed
<1>6. 0 \in 0 .. n /\ n \in 0 .. n
  BY <1>4
<1>7. \A s \in Svc : svcs[s] \in V[s] \cup {None} /\ (V[s] # {} => svcs[s] # None)
  BY <1>5, <1>6
<1>8. svcs \in [Svc -> Service \cup {None}]
  <2>1. svcs = [s \in Svc |-> svcs[s]]
    BY <1>3 DEF Shaped, Typed, Informers, Listed, Names
  <2>2. V \in [Svc -> SUBSET Service]
    BY DEF Good, Forms
  <2>3. \A s \in Svc : svcs[s] \in Service \cup {None}
    BY <1>7, <2>2
  <2> QED BY <2>1, <2>3
<1>9. PICK st, next : st = ipt /\ next = AddAll(Cleanup(ipt), store[Listed])
  OBVIOUS
<1>10. /\ IsState(st) /\ st.panicked = FALSE /\ st.tb = svc_tb
       /\ next = AddAll(Cleanup(st), svcs) /\ Becomes(next)
  <2>1. ipt.tb = svc_tb
    BY DEF ipt
  <2>2. Becomes(next)
    BY <1>9 DEF ProxyResyncs
  <2> QED BY <1>3, <1>9, <2>1, <2>2 DEF Good, Sound
<1>11. ASSUME NEW s \in Svc, st.tb[s] # None
       PROVE  /\ svcs[s] # None /\ st.tb[s].addr = svcs[s].addr
              /\ DOMAIN st.tb[s].lb = svcs[s].ports
  <2>1. PICK v \in V[s] : st.tb[s].addr = v.addr /\ DOMAIN st.tb[s].lb = v.ports
    BY <1>2, <1>10, <1>11 DEF Good, Followed
  <2>2. svcs[s] \in V[s] /\ svcs[s] # None
    BY <1>7
  <2>3. v.addr = svcs[s].addr /\ v.ports = svcs[s].ports
    BY <1>2, <2>2 DEF Good, Forms
  <2> QED BY <2>1, <2>2, <2>3
<1>12. Sound(next, Entries(next)) /\ \A s \in Svc : Fits(next.tb[s], svcs[s])
  BY <1>8, <1>10, <1>11, AllAdded
<1>13. Sound(ipt, Entries(ipt))' /\ svc_tb' = next.tb
  BY <1>10, <1>12, BecomesIt
<1>14. \A s \in Svc : Fits(svc_tb'[s], svcs[s])
  BY <1>12, <1>13
<1>15. Forms(V)' /\ Copies(V)' /\ Told(V)' /\ Working' /\ History(V, h)'
  <2>1. Forms(V)'
    BY <1>1, FormsKept DEF Good
  <2>2. Copies(V)'
    BY <1>1, CopiesKept DEF Good, Copies
  <2>3. Working'
    BY <1>1, WorkingKept DEF Good, endpointsVars
  <2>4. Told(V)'
    BY <1>1, ToldKept DEF Good
  <2>5. History(V, h)'
    BY <1>1, HistoryKept DEF Good
  <2> QED BY <2>1, <2>2, <2>3, <2>4, <2>5
<1>16. Followed(V, h)'
  <2>1. ASSUME NEW s \in Svc
        PROVE  /\ h[0][s] = None => svc_tb'[s] = None
               /\ Fits(svc_tb'[s], h[0][s]) \/ About(q, s)
    <3>1. h[0][s] = None => svcs[s] = None
      BY <1>5, <1>6, <1>7
    <3>2. svcs[s] = None => svc_tb'[s] = None
      BY <1>14 DEF Fits
    <3>3. CASE ~ About(q, s)
      <4>1. \A k \in 1 .. n : h[k][s] = h[k - 1][s]
        BY <1>3, <1>5, <3>3 DEF About
      <4>2. svcs[s] = h[0][s]
        BY <1>4, <1>5, <4>1, UntouchedStays
      <4> QED BY <1>14, <3>1, <3>2, <4>2
    <3> QED BY <3>1, <3>2, <3>3
  <2>2. Relisting' /\ "proxy" \notin resync'
    BY <1>1, <1>2 DEF Relisting
  <2>3. ASSUME NEW s \in Svc, svc_tb'[s] # None
        PROVE  \E v \in V[s] : svc_tb'[s].addr = v.addr /\ DOMAIN svc_tb'[s].lb = v.ports
    BY <1>7, <1>14, <2>3, FitIsKnown
  <2> QED BY <1>1, <1>3, <2>1, <2>2, <2>3 DEF Followed
<1> QED BY <1>13, <1>15, <1>16 DEF Good

(* The ingress controller is no concern of the proxy.                      *)
LEMMA ReconfigureKeeps ==
  ASSUME Shaped, NEW V, NEW h, Good(V, h), Reconfigure, UNCHANGED <<endpointsVars, proxyVars>>
  PROVE  Good(V, h)'
<1>1. /\ UNCHANGED <<etcd, pool, wire, store, held, world>>
      /\ \/ queue' = [queue EXCEPT !["ingress"] = Tail(@)] /\ UNCHANGED resync
         \/ resync' = resync \ {"ingress"} /\ UNCHANGED queue
  BY DEF Reconfigure, TakeNote, TakeResync, apiVars, linkVars, envVars
<1>2. UNCHANGED <<queue["endpoints"], queue["proxy"]>>
  BY <1>1 DEF Shaped, Typed, Component
<1>3. ("proxy" \in resync' <=> "proxy" \in resync) /\ (resync' # {} => resync # {})
  BY <1>1
<1>4. Forms(V)' /\ Copies(V)'
  <2>1. \A i \in Watchers, s \in Svc : store'[i][s] \in V[s] \cup {None}
    BY <1>1 DEF Good, Copies
  <2> QED BY <1>1, <2>1, FormsKept, CopiesKept DEF Good
<1>5. Told(V)' /\ History(V, h)'
  BY <1>1, <1>2, ToldKept, HistoryKept DEF Good
<1>6. Followed(V, h)'
  BY <1>1, <1>2, <1>3, FollowedKept DEF Good, proxyVars
<1>7. Working' /\ Sound(ipt, Entries(ipt))'
  BY <1>1, WorkingKept, SoundKept DEF Good, endpointsVars
<1> QED BY <1>4, <1>5, <1>6, <1>7 DEF Good

(* Nothing happens but that an informer connects.                          *)
LEMMA GoodStaysGood ==
  ASSUME NEW V, NEW h, Good(V, h),
         UNCHANGED <<etcd, pool, wire, store, queue, resync, held, world, endpointsVars, proxyVars>>
  PROVE  Good(V, h)'
<1>1. Forms(V)'
  BY FormsKept DEF Good
<1>2. \A i \in Watchers, s \in Svc : store'[i][s] \in V[s] \cup {None}
  BY DEF Good, Copies
<1>3. Copies(V)'
  BY <1>2, CopiesKept DEF Good
<1> QED BY <1>1, <1>3, RequestsKeep

(* Wires are one for each informer, and disturbances are counted.          *)
LEMMA ShapeKept ==
  ASSUME Shaped, Typed', [Next]_vars
  PROVE  Shaped' /\ UNCHANGED world
<1>1. /\ UNCHANGED world
      /\ env' = env \/ \E d \in Disturbance : env' = [env EXCEPT ![d] = @ + 1]
      /\ \/ wire' = wire
         \/ \E i \in Informers : \E q : wire' = [wire EXCEPT ![i] = q]
         \/ \E f : wire' = [i \in Informers |-> f[i]]
      /\ lost' \subseteq lost \/ Disturb("restart")
  <2>1. CASE UserStep
    <3>1. UNCHANGED world /\ \E d \in Disturbance : env' = [env EXCEPT ![d] = @ + 1]
      <4>1. \E d \in Disturbance : Disturb(d)
        BY <2>1 DEF UserStep, DeleteService, CreateService, StartPod, StopPod, PutIngress,
                    DeleteIngress, RestartApi, Request, Disturbance
      <4> QED BY <4>1 DEF Disturb
    <3>2. \/ \E kind, name, object : Put(kind, name, object)
          \/ wire' = [i \in Informers |-> <<>>]
      BY <2>1 DEF UserStep, DeleteService, CreateService, StartPod, StopPod, PutIngress,
                  DeleteIngress, RestartApi
    <3>3. wire' = [i \in Informers |-> wire'[i]]
      BY <3>2 DEF Put
    <3>4. UNCHANGED lost \/ Disturb("restart")
      BY <2>1 DEF UserStep, DeleteService, CreateService, StartPod, StopPod, PutIngress,
                  DeleteIngress, RestartApi, Put, Request
    <3> QED BY <3>1, <3>3, <3>4
  <2>2. CASE \E i \in Informers : Receive(i) \/ Relist(i) \/ Connect(i)
    BY <2>2 DEF Receive, Relist, List, Connect, envVars, Disturbance
  <2>3. CASE EndpointsTask \/ EndpointsFail
    <3>1. UNCHANGED world /\ (env' = env \/ env' = [env EXCEPT !["fail"] = @ + 1])
      BY <2>3 DEF EndpointsTask, HandlePodNote, HandleServiceNote, HandleResync, Lock, Update,
                  EndpointsFail, AddFails, UpdateFails, Fail, envVars
    <3>2. UNCHANGED <<wire, lost>> \/ \E kind, name, object : Put(kind, name, object)
      BY <2>3 DEF EndpointsTask, HandlePodNote, HandleServiceNote, HandleResync, Lock, Update,
                  EndpointsFail, AddFails, UpdateFails, apiVars, linkVars
    <3>3. /\ wire' = wire \/ wire' = [i \in Informers |-> wire'[i]]
          /\ UNCHANGED lost
      BY <3>2 DEF Put
    <3> QED BY <3>1, <3>3 DEF Disturbance
  <2>4. CASE ProxyTask \/ Reconfigure
    BY <2>4 DEF ProxyTask, ProxyHandles, ProxyResyncs, Reconfigure, apiVars, linkVars, envVars
  <2>5. CASE UNCHANGED vars
    BY <2>5 DEF vars, serviceVars, apiVars, linkVars, envVars
  <2> QED BY <2>1, <2>2, <2>3, <2>4, <2>5 DEF Next, InformerStep
<1>2. wire = [i \in Informers |-> wire[i]] /\ env \in [Disturbance -> Nat]
  BY DEF Shaped
<1>3. wire' = [i \in Informers |-> wire'[i]]
  BY <1>1, <1>2
<1>4. env' \in [Disturbance -> Nat]
  BY <1>1, <1>2
<1>5. world.may["restart"] = 0 => ~Disturb("restart")
  <2>1. world.may \in [Disturbance -> Nat] /\ "restart" \in Disturbance
    BY DEF Shaped, World, Disturbance
  <2> QED BY <1>2, <2>1 DEF Disturb
<1> QED BY <1>1, <1>3, <1>4, <1>5 DEF Shaped

(* Every step keeps the invariant.                                         *)
LEMMA KernelInvKept ==
  ASSUME KernelInv, Typed', [Next]_vars
  PROVE  KernelInv'
<1>1. Shaped' /\ UNCHANGED world /\ Shaped
  BY ShapeKept DEF KernelInv
<1>2. SUFFICES ASSUME Tracked' PROVE \E W, g : Good(W, g)'
  BY <1>1 DEF KernelInv
<1>3. Tracked
  BY <1>1, <1>2 DEF Tracked
<1>4. PICK V, h : Good(V, h)
  BY <1>3 DEF KernelInv
<1>5. CASE UserStep /\ UNCHANGED <<endpointsVars, proxyVars, nginx>>
  BY <1>1, <1>3, <1>4, <1>5, UsersKeep
<1>6. CASE (\E i \in Informers : Relist(i)) /\ UNCHANGED <<endpointsVars, proxyVars, nginx>>
  BY <1>1, <1>3, <1>4, <1>6, RelistKeeps
<1>12. CASE (\E i \in Informers : Connect(i)) /\ UNCHANGED <<endpointsVars, proxyVars, nginx>>
  BY <1>4, <1>12, GoodStaysGood DEF Connect, storeVars, envVars
<1>7. CASE (\E i \in Informers : Receive(i)) /\ UNCHANGED <<endpointsVars, proxyVars, nginx>>
  <2>1. PICK i \in Informers : Receive(i)
    BY <1>7
  <2>2. CASE i \in Watchers
    BY <1>1, <1>4, <1>7, <2>1, <2>2, ReceiveSvc
  <2>3. CASE i \notin Watchers
    BY <1>1, <1>4, <1>7, <2>1, <2>3, ReceiveOther
  <2> QED BY <2>2, <2>3
<1>8. CASE (EndpointsTask \/ EndpointsFail) /\ UNCHANGED <<proxyVars, nginx>>
  BY <1>1, <1>4, <1>8, EndpointsKeep
<1>9. CASE ProxyTask /\ UNCHANGED <<endpointsVars, nginx>>
  BY <1>1, <1>4, <1>9, ProxyHandlesKeeps, ProxyResyncsKeeps DEF ProxyTask
<1>10. CASE Reconfigure /\ UNCHANGED <<endpointsVars, proxyVars>>
  BY <1>1, <1>4, <1>10, ReconfigureKeeps
<1>11. CASE UNCHANGED vars
  BY <1>4, <1>11, GoodStaysGood DEF vars, serviceVars, apiVars, linkVars, storeVars, envVars
<1> QED BY <1>5, <1>6, <1>7, <1>8, <1>9, <1>10, <1>11, <1>12 DEF Next, InformerStep

(* In the beginning there is nothing.                                      *)
LEMMA KernelInvInit == ASSUME Init, Typed PROVE KernelInv
<1>1. /\ world \in World /\ etcd = Nothing /\ pool = {} /\ resync = {} /\ held = {}
      /\ wire = [i \in Informers |-> <<>>] /\ store = [i \in Informers |-> Nothing[i[2]]]
      /\ queue = [c \in Component |-> <<>>] /\ env = [d \in Disturbance |-> 0]
      /\ jobs = <<>> /\ rules = <<>> /\ chains = <<>> /\ svc_tb = [s \in Svc |-> None]
      /\ panicked = FALSE /\ lost = {}
  BY ServicesAssumption DEF Init, InitServices, InitEndpoints, InitProxy
<1>2. Shaped
  BY <1>1 DEF Shaped
<1>3. PICK V, h, none : /\ V = [s \in Svc |-> {}] /\ none = [s \in Svc |-> None]
                        /\ h = [k \in {0} |-> none]
  OBVIOUS
<1>4. Svcs \in Informers /\ Watchers \subseteq Informers /\ Listed \in Informers
      /\ \A i \in Watchers : i[2] = "svc"
  BY DEF Watchers, Svcs, Listed, IngressSvcs, Informers
<1>5. /\ \A i \in Watchers : wire[i] = <<>> /\ store[i] = none
      /\ store[Listed] = none /\ etcd.svc = none
      /\ queue["endpoints"] = <<>> /\ queue["proxy"] = <<>>
  <2>1. Nothing.svc = none /\ Nothing["svc"] = none
    BY <1>3 DEF Nothing
  <2>2. Listed[2] = "svc"
    BY DEF Listed
  <2> QED BY <1>1, <1>4, <2>1, <2>2 DEF Component
<1>6. Sequence(<<>>) /\ Len(<<>>) = 0 /\ \A k \in 1 .. 0 : FALSE
  BY EmptyIsSequence
<1>7. Forms(V)
  BY <1>3 DEF Forms
<1>8. Copies(V)
  <2>1. \A k \in 1 .. Len(<<>>) : FALSE
    BY <1>6
  <2> QED BY <1>3, <1>5, <1>6, <2>1 DEF Copies
<1>9. Told(V) /\ Working
  <2>1. \A k \in 1 .. Len(<<>>) : FALSE
    BY <1>6
  <2> QED BY <1>1, <1>5, <1>6, <2>1 DEF Told, Working
<1>10. Len(queue["proxy"]) = 0 /\ h[0] = none /\ \A k \in 0 .. 0 : k = 0
  BY <1>3, <1>5, <1>6
<1>11. History(V, h)
  BY <1>3, <1>5, <1>6, <1>10 DEF History
<1>12. Followed(V, h)
  BY <1>1, <1>3, <1>10 DEF Followed, Fits
<1>13. Sound(ipt, Entries(ipt))
  <2>1. PICK st : st = [rules |-> <<>>, chains |-> <<>>, tb |-> svc_tb, panicked |-> FALSE]
    OBVIOUS
  <2>2. st = ipt /\ st.tb = svc_tb /\ st.rules = <<>> /\ st.chains = <<>> /\ st.panicked = FALSE
    BY <1>1, <2>1 DEF ipt
  <2>3. Entries(st) = {}
    BY <1>1, <2>2 DEF Entries
  <2>4. IsState(st)
    BY <1>1, <2>1, <2>2 DEF IsState
  <2>5. RangeOf(<<>>) = {} /\ DOMAIN <<>> = {}
    BY DEF RangeOf
  <2>6. Agrees(st, {})
    BY <2>2, <2>5 DEF Agrees
  <2>7. Sound(st, Entries(st))
    BY <2>2, <2>3, <2>4, <2>6 DEF Sound
  <2> QED BY <2>2, <2>7
<1>14. Good(V, h)
  BY <1>7, <1>8, <1>9, <1>11, <1>12, <1>13 DEF Good
<1> QED BY <1>2, <1>14 DEF KernelInv

(* However services come, change and go, and whatever else runs: if no     *)
(* watch is lost, or one is lost when the proxy had caught up and no       *)
(* service is deleted, the kernel sends each address of the proxy's store  *)
(* to the endpoints of its service, evenly, and no other address anywhere, *)
(* whenever no notification and no resync waits for the proxy.             *)
THEOREM KernelFollows == Spec => []KernelServesStore
<1>1. Inv => Typed
  BY DEF Inv
<1>2. Init /\ Inv => KernelInv
  BY <1>1, KernelInvInit
<1>3. KernelInv /\ Inv' /\ [Next]_vars => KernelInv'
  BY KernelInvKept DEF Inv
<1>4. KernelInv => KernelServesStore
  BY KernelInvEnough
<1> QED BY <1>2, <1>3, <1>4, InvHolds, PTL DEF Spec
-------------------------------------------------------------------------------
(* From users to traffic, when nothing is under way.                       *)

(* Who has "have" of the object n and receives the events of q has "is" in *)
(* the end.                                                                *)
Reaches(q, n, have, is) ==
  \/ have = is /\ \A k \in 1 .. Len(q) : q[k][1] # n
  \/ \E k \in 1 .. Len(q) :
       /\ q[k][1] = n /\ q[k][2] = is
       /\ \A j \in 1 .. Len(q) : j > k => q[j][1] # n

Mirrors ==
  \A i \in Informers :
    /\ Sequence(wire[i])
    /\ \A n \in Names[i[2]] : Reaches(wire[i], n, store[i][n], etcd[i[2]][n])

(* A change is an event.                                                   *)
LEMMA ReachesNews ==
  ASSUME NEW q, NEW r, NEW n, NEW v, NEW have, Longer(r, q, <<n, v>>)
  PROVE  Reaches(r, n, have, v)
<1>1. PICK k : k = Len(q) + 1
  OBVIOUS
<1>2. Len(q) \in Nat /\ Len(r) = k /\ r[k] = <<n, v>>
  BY <1>1 DEF Longer
<1>3. k \in 1 .. Len(r) /\ \A j \in 1 .. Len(r) : ~(j > k)
  BY <1>1, <1>2
<1>4. r[k][1] = n /\ r[k][2] = v
  BY <1>2
<1> QED BY <1>3, <1>4 DEF Reaches

(* An event about another object changes nothing.                          *)
LEMMA ReachesOther ==
  ASSUME NEW q, NEW r, NEW x, NEW n, NEW have, NEW is, Longer(r, q, x), x[1] # n,
         Reaches(q, n, have, is)
  PROVE  Reaches(r, n, have, is)
<1>1. /\ Len(q) \in Nat /\ Len(r) = Len(q) + 1 /\ r[Len(q) + 1] = x
      /\ \A k \in 1 .. Len(q) : r[k] = q[k] /\ k \in 1 .. Len(r)
      /\ \A k \in 1 .. Len(r) : k \in 1 .. Len(q) \/ k = Len(q) + 1
  BY DEF Longer
<1>2. CASE have = is /\ \A k \in 1 .. Len(q) : q[k][1] # n
  <2>1. \A k \in 1 .. Len(r) : r[k][1] # n
    BY <1>1, <1>2
  <2> QED BY <1>2, <2>1 DEF Reaches
<1>3. CASE \E k \in 1 .. Len(q) : /\ q[k][1] = n /\ q[k][2] = is
                                  /\ \A j \in 1 .. Len(q) : j > k => q[j][1] # n
  <2>1. PICK k \in 1 .. Len(q) : /\ q[k][1] = n /\ q[k][2] = is
                                 /\ \A j \in 1 .. Len(q) : j > k => q[j][1] # n
    BY <1>3
  <2>2. \A j \in 1 .. Len(r) : j > k => r[j][1] # n
    BY <1>1, <2>1
  <2> QED BY <1>1, <2>1, <2>2 DEF Reaches
<1> QED BY <1>2, <1>3 DEF Reaches

(* An event is received.                                                   *)
LEMMA ReachesAfter ==
  ASSUME NEW q, NEW r, Shorter(r, q), NEW n, NEW have, NEW is, Reaches(q, n, have, is)
  PROVE  Reaches(r, n, IF n = q[1][1] THEN q[1][2] ELSE have, is)
<1>1. /\ Len(q) \in Nat \ {0} /\ Len(r) = Len(q) - 1
      /\ \A k \in 1 .. Len(r) : r[k] = q[k + 1] /\ k + 1 \in 1 .. Len(q)
  BY DEF Shorter
<1>2. 1 \in 1 .. Len(q) /\ \A k \in 1 .. Len(q) : k > 1 => k - 1 \in 1 .. Len(r) /\ r[k - 1] = q[k]
  BY <1>1
<1>3. CASE have = is /\ \A k \in 1 .. Len(q) : q[k][1] # n
  <2>1. \A k \in 1 .. Len(r) : r[k][1] # n
    BY <1>1, <1>3
  <2> QED BY <1>2, <1>3, <2>1 DEF Reaches
<1>4. CASE \E k \in 1 .. Len(q) : /\ q[k][1] = n /\ q[k][2] = is
                                  /\ \A j \in 1 .. Len(q) : j > k => q[j][1] # n
  <2>1. PICK k \in 1 .. Len(q) : /\ q[k][1] = n /\ q[k][2] = is
                                 /\ \A j \in 1 .. Len(q) : j > k => q[j][1] # n
    BY <1>4
  <2>2. CASE k = 1
    <3>1. \A j \in 1 .. Len(r) : r[j][1] # n
      BY <1>1, <2>1, <2>2
    <3> QED BY <2>1, <2>2, <3>1 DEF Reaches
  <2>3. CASE k > 1
    <3>1. PICK m \in 1 .. Len(r) : m = k - 1 /\ r[m] = q[k]
      BY <1>2, <2>3
    <3>2. \A j \in 1 .. Len(r) : j > m => j + 1 > k
      BY <3>1
    <3>3. \A j \in 1 .. Len(r) : j > m => r[j][1] # n
      BY <1>1, <2>1, <3>2
    <3> QED BY <2>1, <3>1, <3>3 DEF Reaches
  <2> QED BY <2>2, <2>3
<1> QED BY <1>3, <1>4 DEF Reaches

(* Nothing is under way, and nothing is missing.                           *)
LEMMA ReachedIs ==
  ASSUME NEW n, NEW have, NEW is
  PROVE  Reaches(<<>>, n, have, is) <=> have = is
<1>1. \A k \in 1 .. Len(<<>>) : FALSE
  BY EmptyIsSequence
<1> QED BY <1>1 DEF Reaches

(* Then a store is what etcd has.                                          *)
LEMMA NothingMissing ==
  ASSUME Mirrors, Shaped, NEW i \in Informers, wire[i] = <<>>
  PROVE  store[i] = etcd[i[2]]
<1>1. i[2] \in Kind
  BY DEF Informers, Kind
<1>2. PICK st, et : st = store[i] /\ et = etcd[i[2]]
  OBVIOUS
<1>3. st = [n \in Names[i[2]] |-> st[n]] /\ et = [n \in Names[i[2]] |-> et[n]]
  BY <1>1, <1>2 DEF Shaped, Typed
<1>4. \A n \in Names[i[2]] : st[n] = et[n]
  BY <1>2, ReachedIs DEF Mirrors
<1> QED BY <1>2, <1>3, <1>4

(* No write falls between an informer's list and its watch.                *)
Unbroken == missed = {} /\ missed' = {}

(* What a write changes, when all components run.                          *)
Wrote(kind, name, object) ==
  /\ \A k \in Kind : \A n \in Names[k] :
       etcd'[k][n] = IF k = kind /\ n = name THEN object ELSE etcd[k][n]
  /\ \A i \in Informers :
       wire'[i] = IF i[2] = kind THEN Append(wire[i], <<name, object>>) ELSE wire[i]

(* Every informer of its kind is sent it.                                  *)
LEMMA PutParts ==
  ASSUME Shaped, Orderly, Unbroken, NEW kind \in Kind, NEW name \in Names[kind], NEW object,
         Put(kind, name, object)
  PROVE  Wrote(kind, name, object)
<1>1. etcd' = [etcd EXCEPT ![kind][name] = object]
  BY DEF Put
<1>2. /\ kind \in DOMAIN etcd
      /\ \A k \in Kind : k \in DOMAIN etcd /\ \A n \in Names[k] : n \in DOMAIN etcd[k]
  BY DEF Shaped, Typed
<1>3. \A i \in Informers : Running(i)
  BY DEF Running, Orderly, Informers, Component
<1>6. \A i \in Informers : i[2] = kind => i \notin lost \cup listing
  <2>1. lost = {}
    BY DEF Shaped, Orderly, Tracked
  <2>2. {i \in listing : i[2] = kind} = {}
    BY DEF Put, Unbroken
  <2> QED BY <2>1, <2>2
<1>4. \A i \in Informers :
        wire'[i] = IF i[2] = kind THEN Append(wire[i], <<name, object>>) ELSE wire[i]
  BY <1>3, <1>6 DEF Put
<1>5. \A k \in Kind : \A n \in Names[k] :
        etcd'[k][n] = IF k = kind /\ n = name THEN object ELSE etcd[k][n]
  BY <1>1, <1>2
<1> QED BY <1>4, <1>5 DEF Wrote

(* A write is sent to all who may not have it.                             *)
LEMMA MirrorsPut ==
  ASSUME Shaped, Orderly, Unbroken, Mirrors,
         NEW kind \in Kind, NEW name \in Names[kind], NEW object, Put(kind, name, object),
         \A i \in Informers : \A n \in Names[i[2]] :
           (i[2] = kind /\ n = name) \/ store'[i][n] = store[i][n]
  PROVE  Mirrors'
<1> SUFFICES ASSUME NEW i \in Informers
             PROVE  /\ Sequence(wire'[i])
                    /\ \A n \in Names[i[2]] :
                         Reaches(wire'[i], n, store'[i][n], etcd'[i[2]][n])
  BY DEF Mirrors
<1>1. i[2] \in Kind
  BY DEF Informers, Kind
<1>2. PICK q, r, x : q = wire[i] /\ r = wire'[i] /\ x = <<name, object>>
  OBVIOUS
<1>3. Sequence(q) /\ \A n \in Names[i[2]] : Reaches(q, n, store[i][n], etcd[i[2]][n])
  BY <1>2 DEF Mirrors
<1>4. /\ \A n \in Names[i[2]] :
           etcd'[i[2]][n] = IF i[2] = kind /\ n = name THEN object ELSE etcd[i[2]][n]
      /\ r = IF i[2] = kind THEN Append(q, x) ELSE q
  BY <1>1, <1>2, PutParts DEF Wrote
<1>5. CASE i[2] # kind
  BY <1>2, <1>3, <1>4, <1>5
<1>6. CASE i[2] = kind
  <2>1. Longer(r, q, x)
    BY <1>3, <1>4, <1>6, AppendParts
  <2>2. Reaches(r, name, store'[i][name], object)
    BY <1>2, <2>1, ReachesNews
  <2>3. ASSUME NEW n \in Names[i[2]], n # name
        PROVE  Reaches(r, n, store'[i][n], etcd'[i[2]][n])
    <3>1. x[1] # n
      BY <1>2, <2>3
    <3>2. Reaches(r, n, store[i][n], etcd[i[2]][n])
      BY <1>3, <2>1, <3>1, ReachesOther
    <3> QED BY <1>4, <2>3, <3>2
  <2>4. \A n \in Names[i[2]] : Reaches(r, n, store'[i][n], etcd'[i[2]][n])
    BY <1>4, <1>6, <2>2, <2>3
  <2> QED BY <1>2, <2>1, <2>4 DEF Longer
<1> QED BY <1>5, <1>6

(* What an informer receives: the first event of its wire.                 *)
LEMMA ReceiveParts ==
  ASSUME Shaped, Mirrors, NEW i \in Informers, Receive(i)
  PROVE  /\ i \notin held /\ UNCHANGED <<etcd, pool, resync, held, world>>
         /\ Shorter(wire'[i], wire[i])
         /\ \A j \in Informers : j # i => wire'[j] = wire[j] /\ store'[j] = store[j]
         /\ \A n \in Names[i[2]] :
              store'[i][n] = IF n = wire[i][1][1] THEN wire[i][1][2] ELSE store[i][n]
         /\ IF store[i][wire[i][1][1]] # wire[i][1][2]
               /\ Passes(i, store[i][wire[i][1][1]], wire[i][1][2])
              THEN queue' = [queue EXCEPT ![i[1]] =
                     Append(@, Note(i, wire[i][1][1], store[i][wire[i][1][1]], wire[i][1][2]))]
              ELSE UNCHANGED queue
<1>1. PICK q, x : q = wire[i] /\ x = q[1]
  OBVIOUS
<1>2. Shorter(Tail(q), q)
  BY <1>1, TailParts DEF Mirrors, Receive
<1>3. Head(q) = x
  BY <1>1, <1>2 DEF Shorter
<1>4. wire' = [wire EXCEPT ![i] = Tail(q)] /\ store' = [store EXCEPT ![i][x[1]] = x[2]]
  BY <1>1, <1>3 DEF Receive
<1>5. wire'[i] = Tail(q) /\ \A j \in Informers : j # i => wire'[j] = wire[j] /\ store'[j] = store[j]
  BY <1>4 DEF Shaped, Typed
<1>6. \A n \in Names[i[2]] : store'[i][n] = IF n = x[1] THEN x[2] ELSE store[i][n]
  <2>1. i \in DOMAIN store /\ \A n \in Names[i[2]] : n \in DOMAIN store[i]
    BY DEF Shaped, Typed
  <2> QED BY <1>4, <2>1
<1>7. i \notin held /\ UNCHANGED <<etcd, pool, resync, held, world>>
  BY DEF Receive, envVars
<1>8. IF store[i][x[1]] # x[2] /\ Passes(i, store[i][x[1]], x[2])
        THEN queue' = [queue EXCEPT ![i[1]] = Append(@, Note(i, x[1], store[i][x[1]], x[2]))]
        ELSE UNCHANGED queue
  BY <1>1, <1>3 DEF Receive
<1> QED BY <1>1, <1>2, <1>5, <1>6, <1>7, <1>8

(* Events are received in order.                                           *)
LEMMA MirrorsReceive ==
  ASSUME Shaped, Mirrors, NEW i \in Informers, Receive(i)
  PROVE  Mirrors'
<1>1. /\ UNCHANGED etcd /\ Shorter(wire'[i], wire[i])
      /\ \A j \in Informers : j # i => wire'[j] = wire[j] /\ store'[j] = store[j]
      /\ \A n \in Names[i[2]] :
           store'[i][n] = IF n = wire[i][1][1] THEN wire[i][1][2] ELSE store[i][n]
  BY ReceiveParts
<1>2. Sequence(wire'[i])
  BY <1>1 DEF Shorter
<1>3. \A n \in Names[i[2]] : Reaches(wire'[i], n, store'[i][n], etcd'[i[2]][n])
  BY <1>1, ReachesAfter DEF Mirrors
<1> QED BY <1>1, <1>2, <1>3 DEF Mirrors

(* A listing is what etcd has, and no event is left.                       *)
LEMMA RelistParts ==
  ASSUME Shaped, NEW i \in Informers, Relist(i)
  PROVE  /\ store'[i] = etcd[i[2]] /\ wire'[i] = <<>>
         /\ \A j \in Informers : j # i => wire'[j] = wire[j] /\ store'[j] = store[j]
         /\ resync' = IF store'[i] = store[i] THEN resync ELSE resync \cup {i[1]}
         /\ UNCHANGED <<etcd, pool, queue, held, world>>
BY DEF Relist, List, Shaped, Typed

(* Such an informer has what etcd has.                                     *)
LEMMA MirrorsRelist ==
  ASSUME Shaped, Mirrors, NEW i \in Informers, Relist(i)
  PROVE  Mirrors'
<1>1. /\ store'[i] = etcd[i[2]] /\ wire'[i] = <<>> /\ UNCHANGED etcd
      /\ \A j \in Informers : j # i => wire'[j] = wire[j] /\ store'[j] = store[j]
  BY RelistParts
<1>2. \A n \in Names[i[2]] : Reaches(wire'[i], n, store'[i][n], etcd'[i[2]][n])
  BY <1>1, ReachedIs
<1> QED BY <1>1, <1>2, EmptyIsSequence DEF Mirrors

(* The endpoints of a service are right when pods have these addresses.    *)
Right(s, pods) == etcd.svc[s] # None => etcd.svc[s].eps = IpsOf(pods, etcd.svc[s].picks)

Apart(pods) == \A p, q \in Pod : pods[p] \in Ip /\ pods[p] = pods[q] => p = q

(* Events the endpoints controller receives without acting on them: it has *)
(* the service, or wrote it.                                               *)
Familiar == \A k \in 1 .. Len(wire[Svcs]) : store[Svcs][wire[Svcs][k][1]] # None
Lasting == \A k \in 1 .. Len(wire[Svcs]) : wire[Svcs][k][2] # None
Echoing == \A k \in 1 .. Len(wire[Svcs]) :
             wire[Svcs][k][2] # None /\ wire[Svcs][k][2] = etcd.svc[wire[Svcs][k][1]]

Quiet == queue["endpoints"] = <<>> /\ "endpoints" \notin resync /\ jobs = <<>>

(* There is nothing to do for the endpoints controller;                    *)
Resting ==
  /\ Quiet /\ wire[Pods] = <<>>
  /\ \A s \in Svc : Right(s, etcd.pod)
  /\ Familiar /\ (Len(wire[Svcs]) = 1 \/ Lasting)

(* a service is new, as yet without endpoints;                             *)
Created(s) ==
  /\ wire[Pods] = <<>> /\ "endpoints" \notin resync /\ jobs = <<>>
  /\ etcd.svc[s] # None /\ etcd.svc[s].eps = {}
  /\ \A t \in Svc : t # s => Right(t, etcd.pod)
  /\ \/ /\ wire[Svcs] = <<<<s, etcd.svc[s]>>>> /\ queue["endpoints"] = <<>>
        /\ store[Svcs][s] = None
     \/ /\ wire[Svcs] = <<>>
        /\ queue["endpoints"] = <<Note(Svcs, s, None, etcd.svc[s])>>

(* a pod was in "from" what it is no longer;                               *)
PodMoved(p, from) ==
  /\ wire[Svcs] = <<>> /\ "endpoints" \notin resync /\ jobs = <<>>
  /\ Apart(from) /\ \A q \in Pod : q # p => from[q] = etcd.pod[q]
  /\ \A s \in Svc : Right(s, from)
  /\ \/ /\ wire[Pods] = <<<<p, etcd.pod[p]>>>> /\ queue["endpoints"] = <<>>
        /\ store[Pods][p] = from[p]
     \/ /\ wire[Pods] = <<>>
        /\ queue["endpoints"] = <<Note(Pods, p, from[p], etcd.pod[p])>>

(* a watch was lost and something with it;                                 *)
SyncDue ==
  /\ wire[Svcs] = <<>> /\ wire[Pods] = <<>> /\ queue["endpoints"] = <<>>
  /\ "endpoints" \in resync /\ jobs = <<>>

(* or it is at work: a job brings the endpoints of a service from what the *)
(* pods were to what they are, or to what they are before the job that is  *)
(* left.                                                                   *)
Leads(job, from, to) ==
  \/ job.op = "sync" /\ to = etcd.pod
  \/ /\ job.op \in {"del", "add"} /\ job.pod \in Pod /\ job.ip \in Ip
     /\ \A q \in Pod : q # job.pod => to[q] = from[q]
     /\ \/ /\ job.op = "del" /\ to[job.pod] \notin Ip
           /\ \A q \in Pod : from[q] = job.ip <=> q = job.pod
        \/ job.op = "add" /\ from[job.pod] \notin Ip /\ to[job.pod] = job.ip

Untouched(job, s) == job.on = None \/ s \in job.on

AtWork(from, to) ==
  /\ jobs # <<>> /\ queue["endpoints"] = <<>> /\ "endpoints" \notin resync
  /\ wire[Pods] = <<>> /\ \A s \in Svc : store[Svcs][s] = etcd.svc[s]
  /\ Leads(jobs[1], from, to)
  /\ \A s \in Svc : IF Untouched(jobs[1], s) THEN jobs[1].op = "sync" \/ Right(s, from)
                                             ELSE Right(s, to)
  /\ \/ /\ Len(jobs) = 1 /\ to = etcd.pod
        /\ Echoing \/ (jobs[1].on # None /\ Familiar /\ Lasting)
     \/ /\ Len(jobs) = 2 /\ jobs[1].op # "sync" /\ jobs[2].op = "add"
        /\ Leads(jobs[2], to, etcd.pod) /\ Echoing
        /\ \A k \in 1 .. Len(wire[Svcs]) : ~Untouched(jobs[1], wire[Svcs][k][1])

Stages ==
  \/ Resting
  \/ \E s \in Svc : Created(s)
  \/ \E p \in Pod : \E from : PodMoved(p, from)
  \/ SyncDue
  \/ \E from, to : AtWork(from, to)

RestInv ==
  Orderly /\ missed = {} =>
    /\ Mirrors /\ Apart(etcd.pod) /\ Stages
    /\ \A g \in Ing : etcd.ing[g] \in Ingress \cup {None}

(* Addresses of pods that are the same or are none.                        *)
LEMMA SameIps ==
  ASSUME NEW from, NEW to, NEW picks \in SUBSET Pod,
         \A q \in Pod : from[q] = to[q] \/ {from[q], to[q]} \cap Ip = {}
  PROVE  IpsOf(from, picks) = IpsOf(to, picks)
<1>1. \A q \in picks : IpOf(from, q) = IpOf(to, q)
  BY DEF IpOf
<1> QED BY <1>1 DEF IpsOf

(* The kinds of informers the endpoints controller has.                    *)
LEMMA EndpointsInformers ==
  /\ Svcs \in Informers /\ Pods \in Informers /\ Svcs # Pods
  /\ Svcs[1] = "endpoints" /\ Svcs[2] = "svc" /\ Pods[1] = "endpoints" /\ Pods[2] = "pod"
  /\ \A i \in Informers : i[1] = "endpoints" <=> i \in {Svcs, Pods}
  /\ {"svc", "pod", "ing"} \subseteq Kind /\ {"endpoints", "proxy", "ingress"} \subseteq Component
  /\ Names["svc"] = Svc /\ Names["pod"] = Pod /\ Names["ing"] = Ing
BY DEF Svcs, Pods, Informers, Kind, Component, Names

(* A service in etcd or in the store is one.                               *)
LEMMA ServicesAre ==
  ASSUME KernelInv, Orderly, NEW s \in Svc
  PROVE  etcd.svc[s] \in Service \cup {None} /\ store[Svcs][s] \in Service \cup {None}
<1>1. PICK V, h : Good(V, h)
  BY DEF KernelInv, Orderly
<1>2. V[s] \subseteq Service
  BY <1>1 DEF Good, Forms
<1> QED BY <1>1, <1>2 DEF Good, Copies, Watchers

(* Its endpoints are right for the same addresses.                         *)
LEMMA RightToo ==
  ASSUME KernelInv, Orderly, NEW s \in Svc, NEW from, NEW to, Right(s, from),
         \A q \in Pod : from[q] = to[q] \/ {from[q], to[q]} \cap Ip = {}
  PROVE  Right(s, to)
<1>1. SUFFICES ASSUME etcd.svc[s] # None
               PROVE  etcd.svc[s].eps = IpsOf(to, etcd.svc[s].picks)
  BY DEF Right
<1>2. etcd.svc[s].picks \in SUBSET Pod
  BY <1>1, ServicesAre, ServiceParts
<1>3. IpsOf(from, etcd.svc[s].picks) = IpsOf(to, etcd.svc[s].picks)
  BY <1>2, SameIps
<1> QED BY <1>1, <1>3 DEF Right

(* What the stages are about.                                              *)
stageVars == <<etcd.svc, etcd.pod, wire[Svcs], wire[Pods], store[Svcs], store[Pods],
               queue["endpoints"], jobs>>

(* Steps that leave it alone.                                              *)
LEMMA StagesKept ==
  ASSUME Stages, UNCHANGED stageVars, "endpoints" \in resync' <=> "endpoints" \in resync
  PROVE  Stages'
<1>1. /\ UNCHANGED <<etcd.svc, etcd.pod, jobs>>
      /\ UNCHANGED <<wire[Svcs], wire[Pods], store[Svcs], store[Pods], queue["endpoints"]>>
  BY DEF stageVars
<1>2. \A s, pods : Right(s, pods)' <=> Right(s, pods)
  BY <1>1 DEF Right
<1>3. CASE Resting
  <2>1. Resting'
    BY <1>1, <1>2, <1>3 DEF Resting, Quiet, Familiar, Lasting, Right
  <2> QED BY <2>1 DEF Stages
<1>4. CASE \E s \in Svc : Created(s)
  <2>1. PICK s \in Svc : Created(s)
    BY <1>4
  <2>2. Created(s)'
    BY <1>1, <1>2, <2>1 DEF Created, Right, Note
  <2> QED BY <2>2 DEF Stages
<1>5. CASE \E p \in Pod : \E from : PodMoved(p, from)
  <2>1. PICK p \in Pod : \E from : PodMoved(p, from)
    BY <1>5
  <2>2. PICK from : PodMoved(p, from)
    BY <2>1
  <2>3. PodMoved(p, from)'
    BY <1>1, <2>2 DEF PodMoved, Right, Apart, Note
  <2> QED BY <2>3 DEF Stages
<1>6. CASE SyncDue
  <2>1. SyncDue'
    BY <1>1, <1>6 DEF SyncDue
  <2> QED BY <2>1 DEF Stages
<1>7. CASE \E from, to : AtWork(from, to)
  <2>1. PICK from, to : AtWork(from, to)
    BY <1>7
  <2>2. \A job, x, y : Leads(job, x, y)' <=> Leads(job, x, y)
    BY <1>1 DEF Leads
  <2>3. (Echoing' <=> Echoing) /\ (Familiar' <=> Familiar) /\ (Lasting' <=> Lasting)
    BY <1>1 DEF Echoing, Familiar, Lasting
  <2>4. AtWork(from, to)'
    BY <1>1, <1>2, <2>1, <2>2, <2>3 DEF AtWork, Untouched
  <2> QED BY <2>4 DEF Stages
<1> QED BY <1>3, <1>4, <1>5, <1>6, <1>7 DEF Stages

(* Nothing is under way: etcd, the stores and the endpoints agree.         *)
LEMMA AtRest ==
  ASSUME Shaped, Mirrors, Stages, Delivered, jobs = <<>>
  PROVE  Resting /\ \A i \in Informers : store[i] = etcd[i[2]]
<1>1. /\ \A i \in Informers : wire[i] = <<>>
      /\ queue["endpoints"] = <<>> /\ resync = {}
  BY DEF Delivered, Component
<1>2. \A x : <<x>> # <<>>
  OBVIOUS
<1>3. wire[Svcs] = <<>> /\ wire[Pods] = <<>>
  BY <1>1, EndpointsInformers
<1>4. \A s \in Svc : ~Created(s)
  BY <1>1, <1>2, <1>3 DEF Created
<1>5. \A p \in Pod : \A from : ~PodMoved(p, from)
  BY <1>1, <1>2, <1>3 DEF PodMoved
<1>6. ~SyncDue /\ \A from, to : ~AtWork(from, to)
  BY <1>1 DEF SyncDue, AtWork
<1> QED BY <1>1, <1>4, <1>5, <1>6, NothingMissing DEF Stages

(* The event of a write when none is under way.                            *)
Sent(kind, name, object) ==
  /\ \A k \in Kind : \A n \in Names[k] :
       etcd'[k][n] = IF k = kind /\ n = name THEN object ELSE etcd[k][n]
  /\ \A i \in Informers :
       wire'[i] = IF i[2] = kind THEN <<<<name, object>>>> ELSE <<>>

(* It is the only one.                                                     *)
LEMMA FirstEvent ==
  ASSUME Shaped, Orderly, Unbroken, Delivered, NEW kind \in Kind, NEW name \in Names[kind], NEW object,
         Put(kind, name, object)
  PROVE  Sent(kind, name, object)
<1>1. \A x : Append(<<>>, x) = <<x>>
  OBVIOUS
<1>2. Wrote(kind, name, object)
  BY PutParts
<1>3. Append(<<>>, <<name, object>>) = <<<<name, object>>>>
  BY <1>1, Zenon
<1> QED BY <1>2, <1>3 DEF Delivered, Sent, Wrote

(* A service is created.                                                   *)
LEMMA AfterCreate ==
  ASSUME Shaped, Orderly, Unbroken, Mirrors, Resting, Delivered,
         NEW s \in Svc, etcd.svc[s] = None, NEW v, v # None, v.eps = {}, Put("svc", s, v),
         UNCHANGED <<store, queue, resync, jobs>>
  PROVE  Created(s)'
<1>1. /\ \A t \in Svc : etcd'.svc[t] = IF t = s THEN v ELSE etcd.svc[t]
      /\ \A p \in Pod : etcd'.pod[p] = etcd.pod[p]
      /\ wire'[Svcs] = <<<<s, v>>>> /\ wire'[Pods] = <<>>
  <2>1. Sent("svc", s, v)
    BY FirstEvent, EndpointsInformers
  <2> QED BY <2>1, EndpointsInformers DEF Sent
<1>2. store[Svcs][s] = None
  BY NothingMissing, EndpointsInformers DEF Delivered
<1>3. \A t \in Svc : t # s => Right(t, etcd.pod)'
  <2>1. etcd'.pod = etcd.pod
    BY EndpointsInformers DEF Put, Shaped, Typed
  <2> QED BY <1>1, <2>1 DEF Resting, Right
<1> QED BY <1>1, <1>2, <1>3 DEF Resting, Quiet, Created

(* A service is deleted.                                                   *)
LEMMA AfterDelete ==
  ASSUME Shaped, Orderly, Unbroken, Mirrors, Resting, Delivered,
         NEW s \in Svc, etcd.svc[s] # None, Put("svc", s, None),
         UNCHANGED <<store, queue, resync, jobs>>
  PROVE  Resting'
<1>1. /\ \A t \in Svc : etcd'.svc[t] = IF t = s THEN None ELSE etcd.svc[t]
      /\ wire'[Svcs] = <<<<s, None>>>> /\ wire'[Pods] = <<>>
  <2>1. Sent("svc", s, None)
    BY FirstEvent, EndpointsInformers
  <2> QED BY <2>1, EndpointsInformers DEF Sent
<1>2. store[Svcs][s] # None
  BY NothingMissing, EndpointsInformers DEF Delivered
<1>3. \A t \in Svc : Right(t, etcd.pod)'
  <2>1. etcd'.pod = etcd.pod
    BY EndpointsInformers DEF Put, Shaped, Typed
  <2> QED BY <1>1, <2>1 DEF Resting, Right
<1>4. PICK q : q = wire'[Svcs]
  OBVIOUS
<1>5. Len(q) = 1 /\ \A k \in 1 .. Len(q) : q[k][1] = s
  BY <1>1, <1>4
<1>6. Familiar'
  BY <1>2, <1>4, <1>5 DEF Familiar
<1> QED BY <1>1, <1>3, <1>4, <1>5, <1>6 DEF Resting, Quiet

(* A pod changes.                                                          *)
LEMMA AfterPod ==
  ASSUME Shaped, Orderly, Unbroken, Mirrors, Resting, Delivered, Apart(etcd.pod),
         NEW p \in Pod, NEW v, Put("pod", p, v), UNCHANGED <<store, queue, resync, jobs>>
  PROVE  \E from : PodMoved(p, from)'
<1>1. PICK from : from = etcd.pod
  OBVIOUS
<1>2. /\ \A q \in Pod : etcd'.pod[q] = IF q = p THEN v ELSE from[q]
      /\ wire'[Pods] = <<<<p, v>>>> /\ wire'[Svcs] = <<>>
  <2>1. Sent("pod", p, v)
    BY FirstEvent, EndpointsInformers
  <2> QED BY <1>1, <2>1, EndpointsInformers DEF Sent
<1>3. store[Pods] = from
  BY <1>1, NothingMissing, EndpointsInformers DEF Delivered
<1>4. etcd'.svc = etcd.svc
  BY EndpointsInformers DEF Put, Shaped, Typed
<1>5. \A s \in Svc : Right(s, from)'
  BY <1>1, <1>4 DEF Resting, Right
<1>6. PodMoved(p, from)'
  BY <1>1, <1>2, <1>3, <1>5 DEF Resting, Quiet, PodMoved, Apart
<1> QED BY <1>6

(* What does not happen in orderly worlds.                                 *)
LEMMA OrderlyWorlds ==
  ASSUME Orderly, Shaped
  PROVE  /\ \A d \in {"fail", "overwrite", "give", "restart"} : ~(env[d] < world.may[d])
         /\ Tracked
<1>1. world.may \in [Disturbance -> Nat] /\ env \in [Disturbance -> Nat]
  BY DEF Shaped, World
<1>2. \A d \in Disturbance : world.may[d] = 0 => ~(env[d] < world.may[d])
  BY <1>1
<1>3. {"fail", "overwrite", "give", "restart"} \subseteq Disturbance
  BY DEF Disturbance
<1> QED BY <1>2, <1>3 DEF Tracked, Orderly

(* Users act when nothing is under way.                                    *)
LEMMA UsersRest ==
  ASSUME Shaped, Orderly, Unbroken, RestInv, UserStep, Waiting, UNCHANGED <<world, jobs>>
  PROVE  RestInv'
<1>1. Mirrors /\ Apart(etcd.pod) /\ Stages /\ \A g \in Ing : etcd.ing[g] \in Ingress \cup {None}
  BY DEF RestInv, Unbroken
<1>2. jobs = <<>>
  BY DEF Waiting, Orderly
<1>3. ASSUME Delivered, UNCHANGED <<store, queue, resync>>,
             NEW kind \in Kind, NEW name \in Names[kind], NEW object, Put(kind, name, object)
      PROVE  /\ Mirrors' /\ Resting
             /\ kind # "pod" => Apart(etcd.pod)'
             /\ kind # "ing" => \A g \in Ing : etcd'.ing[g] \in Ingress \cup {None}
             /\ \A k \in Kind : \A n \in Names[k] :
                  etcd'[k][n] = IF k = kind /\ n = name THEN object ELSE etcd[k][n]
  <2>1. Mirrors'
    BY <1>1, <1>3, MirrorsPut
  <2>2. Resting
    BY <1>1, <1>2, <1>3, AtRest
  <2>3. \A k \in Kind : \A n \in Names[k] :
          etcd'[k][n] = IF k = kind /\ n = name THEN object ELSE etcd[k][n]
    <3>1. Wrote(kind, name, object)
      BY <1>3, PutParts
    <3> QED BY <3>1 DEF Wrote
  <2>4. kind # "pod" => \A p \in Pod : etcd'.pod[p] = etcd.pod[p]
    BY <2>3, EndpointsInformers
  <2>5. kind # "ing" => \A g \in Ing : etcd'.ing[g] = etcd.ing[g]
    BY <2>3, EndpointsInformers
  <2> QED BY <1>1, <2>1, <2>2, <2>3, <2>4, <2>5 DEF Apart
<1>4. CASE \E s \in Svc : DeleteService(s)
  <2>1. PICK s \in Svc : DeleteService(s)
    BY <1>4
  <2>2. Delivered /\ etcd.svc[s] # None /\ Put("svc", s, None) /\ UNCHANGED <<store, queue, resync>>
    BY <2>1 DEF DeleteService, Request, Disturb, Orderly
  <2>3. Resting'
    BY <1>1, <1>3, <2>2, AfterDelete, EndpointsInformers
  <2> QED BY <1>3, <2>2, <2>3, EndpointsInformers DEF RestInv, Stages
<1>5. CASE \E s \in Svc, a \in Addr, ports \in world.offers, picks \in world.selectors :
             CreateService(s, a, ports, picks)
  <2>1. PICK s \in Svc, a \in Addr, ports \in world.offers, picks \in world.selectors :
          CreateService(s, a, ports, picks)
    BY <1>5
  <2>2. PICK v : v = [addr |-> a, ports |-> ports, picks |-> picks, eps |-> {}]
    OBVIOUS
  <2>3. Delivered /\ Put("svc", s, v) /\ UNCHANGED <<store, queue, resync>>
    BY <2>1, <2>2 DEF CreateService, Request, Disturb, Orderly
  <2>4. etcd.svc[s] = None
    BY <2>1, OrderlyWorlds DEF CreateService, Request, Disturb
  <2>5. v # None /\ v.eps = {}
    <3>1. world.offers \subseteq SUBSET Port /\ world.selectors \subseteq SUBSET Pod
      BY DEF Shaped, World
    <3>2. v \in Service
      BY <2>2, <3>1 DEF Service
    <3> QED BY <2>2, <3>2, NoServiceAssumption
  <2>6. Created(s)'
    BY <1>1, <1>3, <2>3, <2>4, <2>5, AfterCreate, EndpointsInformers
  <2> QED BY <1>3, <2>3, <2>6, EndpointsInformers DEF RestInv, Stages
<1>6. CASE \E p \in Pod : StartPod(p) \/ StopPod(p)
  <2>1. PICK p \in Pod : StartPod(p) \/ StopPod(p)
    BY <1>6
  <2>2. PICK v : /\ Put("pod", p, v)
                 /\ v \in Ip => \A q \in Pod : etcd.pod[q] # v
    BY <2>1, ServicesAssumption DEF StartPod, StopPod
  <2>3. Delivered /\ UNCHANGED <<store, queue, resync>>
    BY <2>1 DEF StartPod, StopPod, Request, Disturb, Orderly
  <2>4. \A q \in Pod : etcd'.pod[q] = IF q = p THEN v ELSE etcd.pod[q]
    BY <1>3, <2>2, <2>3, EndpointsInformers
  <2>5. Apart(etcd.pod)'
    BY <1>1, <2>2, <2>4 DEF Apart
  <2>6. Mirrors' /\ Resting /\ \A g \in Ing : etcd'.ing[g] \in Ingress \cup {None}
    BY <1>3, <2>2, <2>3, EndpointsInformers
  <2>7. \E from : PodMoved(p, from)'
    BY <1>1, <2>2, <2>3, <2>6, AfterPod
  <2> QED BY <2>5, <2>6, <2>7 DEF RestInv, Stages
<1>7. CASE \E g \in Ing : DeleteIngress(g) \/ \E paths \in Ingress : PutIngress(g, paths)
  <2>1. PICK g \in Ing : DeleteIngress(g) \/ \E paths \in Ingress : PutIngress(g, paths)
    BY <1>7
  <2>2. PICK v \in Ingress \cup {None} : Put("ing", g, v)
    BY <2>1 DEF DeleteIngress, PutIngress
  <2>3. Delivered /\ UNCHANGED <<store, queue, resync>>
    BY <2>1 DEF DeleteIngress, PutIngress, Request, Disturb, Orderly
  <2>4. /\ Mirrors' /\ Resting /\ Apart(etcd.pod)'
        /\ \A f \in Ing : etcd'.ing[f] = IF f = g THEN v ELSE etcd.ing[f]
    BY <1>3, <2>2, <2>3, EndpointsInformers
  <2>5. UNCHANGED stageVars
    <3>1. UNCHANGED <<etcd.svc, etcd.pod>>
      BY <2>2, EndpointsInformers DEF Put, Shaped, Typed
    <3>2. wire'[Svcs] = wire[Svcs] /\ wire'[Pods] = wire[Pods]
      <4>1. Wrote("ing", g, v)
        BY <2>2, PutParts, EndpointsInformers
      <4> QED BY <4>1, EndpointsInformers DEF Wrote
    <3> QED BY <2>3, <3>1, <3>2 DEF stageVars
  <2>6. Stages'
    BY <1>1, <2>3, <2>5, StagesKept
  <2> QED BY <1>1, <2>4, <2>6 DEF RestInv
<1>8. ~RestartApi
  BY OrderlyWorlds DEF RestartApi, Request, Disturb
<1> QED BY <1>4, <1>5, <1>6, <1>7, <1>8 DEF UserStep

(* The endpoints controller's informers: an event of a service.            *)
LEMMA ReceiveService ==
  ASSUME Shaped, KernelInv, Orderly, Mirrors, Stages, Receive(Svcs), UNCHANGED jobs
  PROVE  Stages'
<1>1. PICK q, r, n, v : q = wire[Svcs] /\ r = wire'[Svcs] /\ n = q[1][1] /\ v = q[1][2]
  OBVIOUS
<1>2. /\ Svcs \notin held /\ UNCHANGED <<etcd, resync>> /\ Shorter(r, q)
      /\ wire'[Pods] = wire[Pods] /\ store'[Pods] = store[Pods]
      /\ \A s \in Svc : store'[Svcs][s] = IF s = n THEN v ELSE store[Svcs][s]
      /\ IF store[Svcs][n] # v /\ Passes(Svcs, store[Svcs][n], v)
           THEN queue' = [queue EXCEPT !["endpoints"] = Append(@, Note(Svcs, n, store[Svcs][n], v))]
           ELSE UNCHANGED queue
  BY <1>1, ReceiveParts, EndpointsInformers
<1>3. /\ Len(q) \in Nat \ {0} /\ Len(r) = Len(q) - 1 /\ 1 \in 1 .. Len(q)
      /\ \A k \in 1 .. Len(r) : r[k] = q[k + 1] /\ k + 1 \in 1 .. Len(q)
      /\ q # <<>>
  BY <1>2, EmptyIsSequence DEF Shorter
<1>4. Passes(Svcs, store[Svcs][n], v) <=> store[Svcs][n] = None
  BY DEF Passes, Svcs
<1>5. \A k \in 1 .. Len(q) : q[k][1] \in Svc
  <2>1. PICK V, h : Good(V, h)
    BY DEF KernelInv, Orderly
  <2> QED BY <1>1, <2>1 DEF Good, Copies, Watchers, IsNews
<1>6. \A s \in Svc : \A pods : Right(s, pods) => Right(s, pods)'
  BY <1>2 DEF Right
<1>7. CASE Resting
  <2>1. store[Svcs][n] # None
    BY <1>1, <1>3, <1>7 DEF Resting, Familiar
  <2>2. UNCHANGED queue
    BY <1>2, <1>4, <2>1
  <2>3. Len(r) = 0 \/ \A k \in 1 .. Len(q) : q[k][2] # None
    BY <1>1, <1>3, <1>7 DEF Resting, Lasting
  <2>4. CASE Len(r) = 0
    <3>1. Familiar' /\ Lasting'
      BY <1>1, <2>4 DEF Familiar, Lasting
    <3> QED BY <1>2, <1>6, <1>7, <2>2, <3>1 DEF Resting, Quiet, Stages
  <2>5. CASE \A k \in 1 .. Len(q) : q[k][2] # None
    <3>1. \A k \in 1 .. Len(q) : store[Svcs][q[k][1]] # None
      BY <1>1, <1>7 DEF Resting, Familiar
    <3>2. v # None
      BY <1>1, <1>3, <2>5
    <3>3. \A k \in 1 .. Len(q) : store'[Svcs][q[k][1]] # None
      BY <1>2, <1>5, <3>1, <3>2
    <3>4. Familiar' /\ Lasting'
      BY <1>1, <1>3, <2>5, <3>3 DEF Familiar, Lasting
    <3> QED BY <1>2, <1>6, <1>7, <2>2, <3>4 DEF Resting, Quiet, Stages
  <2> QED BY <2>3, <2>4, <2>5
<1>8. CASE \E s \in Svc : Created(s)
  <2>1. PICK s \in Svc : Created(s)
    BY <1>8
  <2>2. q = <<<<s, etcd.svc[s]>>>> /\ queue["endpoints"] = <<>> /\ store[Svcs][s] = None
        /\ etcd.svc[s] # None
    BY <1>1, <1>3, <2>1 DEF Created
  <2>3. n = s /\ v = etcd.svc[s] /\ Len(q) = 1
    BY <1>1, <2>2
  <2>4. PICK x : x = Note(Svcs, s, None, etcd.svc[s])
    OBVIOUS
  <2>5. queue' = [queue EXCEPT !["endpoints"] = Append(@, x)]
    BY <1>2, <1>4, <2>2, <2>3, <2>4
  <2>6. queue'["endpoints"] = <<x>>
    <3>1. "endpoints" \in DOMAIN queue
      BY EndpointsInformers DEF Shaped, Typed
    <3>2. queue'["endpoints"] = Append(<<>>, x)
      BY <2>2, <2>5, <3>1
    <3>3. Append(<<>>, x) = <<x>>
      OBVIOUS
    <3> QED BY <3>2, <3>3
  <2>7. r = <<>>
    BY <1>2, <1>3, <2>3 DEF Shorter, Sequence
  <2>8. Created(s)'
    <3>1. Note(Svcs, s, None, etcd.svc[s])' = x
      BY <1>2, <2>4 DEF Note
    <3> QED BY <1>1, <1>2, <1>6, <2>1, <2>6, <2>7, <3>1 DEF Created
  <2> QED BY <2>8 DEF Stages
<1>9. ~SyncDue /\ \A p \in Pod : \A from : ~PodMoved(p, from)
  BY <1>1, <1>3 DEF SyncDue, PodMoved
<1>10. CASE \E from, to : AtWork(from, to)
  <2>1. PICK from, to : AtWork(from, to)
    BY <1>10
  <2>2. PICK V, h : Good(V, h)
    BY DEF KernelInv, Orderly
  <2>3. jobs[1].on = None
    BY <1>2, <2>1, <2>2 DEF Good, Working, AtWork
  <2>4. Len(jobs) = 1 /\ to = etcd.pod /\ Echoing
    BY <1>1, <1>3, <2>1, <2>3 DEF AtWork, Untouched
  <2>5. \A k \in 1 .. Len(q) : q[k][2] # None /\ q[k][2] = etcd.svc[q[k][1]]
    BY <1>1, <2>4 DEF Echoing
  <2>6. n \in Svc /\ v = store[Svcs][n] /\ v # None
    BY <1>1, <1>3, <1>5, <2>1, <2>5 DEF AtWork
  <2>7. UNCHANGED queue /\ \A s \in Svc : store'[Svcs][s] = store[Svcs][s]
    BY <1>2, <2>6
  <2>8. Echoing'
    <3>1. \A k \in 1 .. Len(r) : r[k][2] # None /\ r[k][2] = etcd.svc[r[k][1]]
      BY <1>3, <2>5
    <3> QED BY <1>1, <1>2, <3>1 DEF Echoing
  <2>9. AtWork(from, to)'
    BY <1>2, <1>6, <2>1, <2>4, <2>7, <2>8 DEF AtWork, Leads, Untouched
  <2> QED BY <2>9 DEF Stages
<1> QED BY <1>7, <1>8, <1>9, <1>10 DEF Stages

(* An event of a pod.                                                      *)
LEMMA ReceivePod ==
  ASSUME Shaped, KernelInv, Orderly, Mirrors, Stages, Receive(Pods), UNCHANGED jobs
  PROVE  Stages'
<1>1. PICK q, r, n, v : q = wire[Pods] /\ r = wire'[Pods] /\ n = q[1][1] /\ v = q[1][2]
  OBVIOUS
<1>2. /\ UNCHANGED <<etcd, resync>> /\ Shorter(r, q)
      /\ wire'[Svcs] = wire[Svcs] /\ store'[Svcs] = store[Svcs]
      /\ \A p \in Pod : store'[Pods][p] = IF p = n THEN v ELSE store[Pods][p]
      /\ IF store[Pods][n] # v /\ Passes(Pods, store[Pods][n], v)
           THEN queue' = [queue EXCEPT !["endpoints"] = Append(@, Note(Pods, n, store[Pods][n], v))]
           ELSE UNCHANGED queue
  BY <1>1, ReceiveParts, EndpointsInformers
<1>3. Len(q) \in Nat \ {0} /\ Len(r) = Len(q) - 1 /\ q # <<>>
  BY <1>2, EmptyIsSequence DEF Shorter
<1>4. PICK p \in Pod : \E from : PodMoved(p, from)
  BY <1>1, <1>3 DEF Stages, Resting, Created, SyncDue, AtWork
<1>5. PICK from : PodMoved(p, from)
  BY <1>4
<1>6. /\ q = <<<<p, etcd.pod[p]>>>> /\ queue["endpoints"] = <<>> /\ store[Pods][p] = from[p]
      /\ jobs = <<>> /\ "endpoints" \notin resync /\ wire[Svcs] = <<>>
      /\ \A s \in Svc : Right(s, from)
  BY <1>1, <1>3, <1>5 DEF PodMoved
<1>7. n = p /\ v = etcd.pod[p] /\ Len(q) = 1
  BY <1>1, <1>6
<1>8. r = <<>>
  BY <1>2, <1>3, <1>7 DEF Shorter, Sequence
<1>9. Passes(Pods, store[Pods][n], v)
  BY EndpointsInformers DEF Passes, Svcs, Pods
<1>10. \A s \in Svc : \A pods : Right(s, pods)' <=> Right(s, pods)
  BY <1>2 DEF Right
<1>11. CASE from[p] = v
  <2>1. UNCHANGED queue
    BY <1>2, <1>6, <1>7, <1>11
  <2>2. \A t \in Pod : from[t] = etcd.pod[t]
    BY <1>5, <1>7, <1>11 DEF PodMoved
  <2>3. \A s \in Svc : Right(s, etcd.pod)
    BY <1>6, <2>2, RightToo
  <2>4. Familiar' /\ Lasting'
    BY <1>2, <1>6, EmptyIsSequence DEF Familiar, Lasting
  <2>5. Resting'
    BY <1>1, <1>2, <1>6, <1>8, <1>10, <2>1, <2>3, <2>4 DEF Resting, Quiet, Right
  <2> QED BY <2>5 DEF Stages
<1>12. CASE from[p] # v
  <2>1. PICK x : x = Note(Pods, p, from[p], etcd.pod[p])
    OBVIOUS
  <2>2. queue' = [queue EXCEPT !["endpoints"] = Append(@, x)]
    BY <1>2, <1>6, <1>7, <1>9, <1>12, <2>1
  <2>3. queue'["endpoints"] = <<x>>
    <3>1. "endpoints" \in DOMAIN queue
      BY EndpointsInformers DEF Shaped, Typed
    <3>2. queue'["endpoints"] = Append(<<>>, x)
      BY <1>6, <2>2, <3>1
    <3>3. Append(<<>>, x) = <<x>>
      OBVIOUS
    <3> QED BY <3>2, <3>3
  <2>4. PodMoved(p, from)'
    <3>1. Note(Pods, p, from[p], etcd.pod[p])' = x
      BY <1>2, <2>1 DEF Note
    <3> QED BY <1>1, <1>2, <1>5, <1>6, <1>8, <1>10, <2>3, <3>1 DEF PodMoved, Apart
  <2> QED BY <2>4 DEF Stages
<1> QED BY <1>11, <1>12

(* The endpoints controller has lost a watch of services,                  *)
LEMMA RelistServices ==
  ASSUME Shaped, Orderly, Mirrors, Stages, Relist(Svcs), jobs = <<>>, UNCHANGED jobs
  PROVE  Stages'
<1>1. /\ store'[Svcs] = etcd.svc /\ wire'[Svcs] = <<>> /\ UNCHANGED <<etcd, queue>>
      /\ wire'[Pods] = wire[Pods] /\ store'[Pods] = store[Pods]
      /\ resync' = IF store'[Svcs] = store[Svcs] THEN resync ELSE resync \cup {"endpoints"}
  BY RelistParts, EndpointsInformers
<1>2. queue["endpoints"] = <<>> /\ resync = {}
  BY EndpointsInformers DEF Relist, List, Orderly
<1>3. Familiar' /\ Lasting'
  BY <1>1, EmptyIsSequence DEF Familiar, Lasting
<1>4. \A s \in Svc : \A pods : Right(s, pods)' <=> Right(s, pods)
  BY <1>1 DEF Right
<1>5. CASE Resting
  <2>1. CASE store'[Svcs] = store[Svcs]
    <3>1. Resting'
      BY <1>1, <1>3, <1>5, <2>1 DEF Resting, Quiet, Right
    <3> QED BY <3>1 DEF Stages
  <2>2. CASE store'[Svcs] # store[Svcs]
    <3>1. SyncDue'
      BY <1>1, <1>2, <1>5, <2>2 DEF Resting, SyncDue
    <3> QED BY <3>1 DEF Stages
  <2> QED BY <2>1, <2>2
<1>6. CASE \E s \in Svc : Created(s)
  <2>1. PICK s \in Svc : Created(s)
    BY <1>6
  <2>2. store[Svcs][s] = None /\ etcd.svc[s] # None /\ wire[Pods] = <<>>
    BY <1>2, <2>1 DEF Created
  <2>3. SyncDue'
    BY <1>1, <1>2, <2>2 DEF SyncDue
  <2> QED BY <2>3 DEF Stages
<1>7. CASE \E p \in Pod : \E from : PodMoved(p, from)
  <2>1. PICK p \in Pod : \E from : PodMoved(p, from)
    BY <1>7
  <2>2. PICK from : PodMoved(p, from)
    BY <2>1
  <2>3. store[Svcs] = etcd.svc
    BY <2>2, NothingMissing, EndpointsInformers DEF PodMoved
  <2>4. PodMoved(p, from)'
    BY <1>1, <1>4, <2>2, <2>3 DEF PodMoved, Apart, Note
  <2> QED BY <2>4 DEF Stages
<1>8. ~SyncDue /\ \A from, to : ~AtWork(from, to)
  BY <1>2 DEF SyncDue, AtWork
<1> QED BY <1>5, <1>6, <1>7, <1>8 DEF Stages

(* or of pods.                                                             *)
LEMMA RelistPods ==
  ASSUME Shaped, KernelInv, Orderly, Mirrors, Stages, Relist(Pods), jobs = <<>>, UNCHANGED jobs
  PROVE  Stages'
<1>1. /\ store'[Pods] = etcd.pod /\ wire'[Pods] = <<>> /\ UNCHANGED <<etcd, queue>>
      /\ wire'[Svcs] = wire[Svcs] /\ store'[Svcs] = store[Svcs]
      /\ resync' = IF store'[Pods] = store[Pods] THEN resync ELSE resync \cup {"endpoints"}
  BY RelistParts, EndpointsInformers
<1>2. queue["endpoints"] = <<>> /\ resync = {}
  BY EndpointsInformers DEF Relist, List, Orderly
<1>3. CASE wire[Pods] = <<>>
  <2>1. store'[Pods] = store[Pods]
    BY <1>1, <1>3, NothingMissing, EndpointsInformers
  <2> QED BY <1>1, <1>3, <2>1, StagesKept DEF stageVars
<1>4. CASE wire[Pods] # <<>>
  <2>1. PICK p \in Pod : \E from : PodMoved(p, from)
    BY <1>4 DEF Stages, Resting, Created, SyncDue, AtWork
  <2>2. PICK from : PodMoved(p, from)
    BY <2>1
  <2>3. /\ store[Pods][p] = from[p] /\ wire[Svcs] = <<>>
        /\ \A q \in Pod : q # p => from[q] = etcd.pod[q]
        /\ \A s \in Svc : Right(s, from)
    BY <1>4, <2>2 DEF PodMoved
  <2>4. CASE store'[Pods] = store[Pods]
    <3>1. \A q \in Pod : from[q] = etcd.pod[q]
      BY <1>1, <2>3, <2>4
    <3>2. \A s \in Svc : Right(s, etcd.pod)
      BY <2>3, <3>1, RightToo
    <3>3. Familiar' /\ Lasting'
      BY <1>1, <2>3, EmptyIsSequence DEF Familiar, Lasting
    <3>4. Resting'
      BY <1>1, <1>2, <2>4, <3>2, <3>3 DEF Resting, Quiet, Right
    <3> QED BY <3>4 DEF Stages
  <2>5. CASE store'[Pods] # store[Pods]
    <3>1. SyncDue'
      BY <1>1, <1>2, <2>3, <2>5 DEF SyncDue
    <3> QED BY <3>1 DEF Stages
  <2> QED BY <2>4, <2>5
<1> QED BY <1>3, <1>4

(* What the handlers do for the only notification there is.                *)
LEMMA LastNote ==
  ASSUME Shaped, NEW x, queue["endpoints"] = <<x>>, TakeNote("endpoints")
  PROVE  queue'["endpoints"] = <<>> /\ Head(queue["endpoints"]) = x /\ UNCHANGED resync
<1>1. Tail(<<x>>) = <<>> /\ Head(<<x>>) = x
  OBVIOUS
<1>2. queue'["endpoints"] = Tail(queue["endpoints"])
  BY EndpointsInformers DEF TakeNote, Shaped, Typed
<1> QED BY <1>1, <1>2 DEF TakeNote

(* The endpoints controller is told of a pod.                              *)
LEMMA PodNoteRest ==
  ASSUME Shaped, KernelInv, Orderly, Mirrors, Stages, HandlePodNote
  PROVE  Stages'
<1>1. /\ TakeNote("endpoints") /\ Head(queue["endpoints"]).of = "pod"
      /\ jobs' = JobsFor(Head(queue["endpoints"])) /\ UNCHANGED <<etcd, wire, store>>
  BY DEF HandlePodNote, apiVars, linkVars
<1>2. queue["endpoints"] # <<>>
  BY <1>1 DEF TakeNote
<1>3. \A s \in Svc : ~Created(s)
  <2>1. SUFFICES ASSUME NEW s \in Svc, Created(s) PROVE FALSE
    OBVIOUS
  <2>2. PICK x : x = Note(Svcs, s, None, etcd.svc[s])
    OBVIOUS
  <2>3. queue["endpoints"] = <<x>>
    BY <1>2, <2>1, <2>2 DEF Created
  <2>4. Head(queue["endpoints"]) = x
    BY <1>1, <2>3, LastNote
  <2>5. x.of = "svc"
    BY <2>2, EndpointsInformers DEF Note
  <2> QED BY <1>1, <2>4, <2>5
<1>4. PICK p \in Pod : \E from : PodMoved(p, from)
  BY <1>2, <1>3 DEF Stages, Resting, Quiet, SyncDue, AtWork
<1>5. PICK from : PodMoved(p, from)
  BY <1>4
<1>6. PICK note : note = Note(Pods, p, from[p], etcd.pod[p])
  OBVIOUS
<1>7. /\ queue["endpoints"] = <<note>> /\ wire[Pods] = <<>> /\ wire[Svcs] = <<>>
      /\ "endpoints" \notin resync /\ Apart(from) /\ \A s \in Svc : Right(s, from)
      /\ \A q \in Pod : q # p => from[q] = etcd.pod[q]
  BY <1>2, <1>5, <1>6 DEF PodMoved
<1>8. note.name = p /\ note.old = from[p] /\ note.new = etcd.pod[p]
  BY <1>6, EndpointsInformers DEF Note
<1>9. jobs' = JobsFor(note) /\ queue'["endpoints"] = <<>> /\ UNCHANGED resync
  BY <1>1, <1>7, LastNote
<1>10. PICK a, b : a = Job("del", note.name, note.old) /\ b = Job("add", note.name, note.new)
  OBVIOUS
<1>11. /\ a.op = "del" /\ a.pod = p /\ a.ip = from[p] /\ a.on = None
       /\ b.op = "add" /\ b.pod = p /\ b.ip = etcd.pod[p] /\ b.on = None
  BY <1>8, <1>10 DEF Job
<1>12. jobs' = IF from[p] \in Ip \ {etcd.pod[p]}
                 THEN IF etcd.pod[p] \in Ip \ {from[p]} THEN <<a, b>> ELSE <<a>>
                 ELSE IF etcd.pod[p] \in Ip \ {from[p]} THEN <<b>> ELSE <<>>
  BY <1>8, <1>9, <1>10, JobsOf
<1>13. \A s \in Svc : store[Svcs][s] = etcd.svc[s]
  BY <1>7, NothingMissing, EndpointsInformers
<1>14. \A s \in Svc : \A pods : Right(s, pods)' <=> Right(s, pods)
  BY <1>1 DEF Right
<1>15. Len(wire'[Svcs]) = 0 /\ \A k \in 1 .. Len(wire'[Svcs]) : FALSE
  BY <1>1, <1>7, EmptyIsSequence
<1>16. Echoing' /\ Familiar' /\ Lasting'
  BY <1>15 DEF Echoing, Familiar, Lasting
<1>17. \A q \in Pod : from[q] = from[p] /\ from[p] \in Ip => q = p
  BY <1>7 DEF Apart
<1>18. ASSUME NEW job, NEW to, jobs' = <<job>>, job.on = None, Leads(job, from, to), to = etcd.pod
       PROVE  Stages'
  <2>1. jobs'[1] = job /\ Len(jobs') = 1 /\ jobs' # <<>>
    BY <1>18
  <2>2. Leads(job, from, to)'
    BY <1>1, <1>18 DEF Leads
  <2>3. AtWork(from, to)'
    BY <1>1, <1>7, <1>9, <1>13, <1>14, <1>16, <1>18, <2>1, <2>2 DEF AtWork, Untouched
  <2> QED BY <2>3 DEF Stages
<1>19. CASE from[p] \in Ip \ {etcd.pod[p]} /\ etcd.pod[p] \in Ip \ {from[p]}
  <2>1. PICK mid : mid = [q \in Pod |-> IF q = p THEN NoIp ELSE from[q]]
    OBVIOUS
  <2>2. mid[p] \notin Ip /\ \A q \in Pod : q # p => mid[q] = from[q]
    BY <2>1, ServicesAssumption
  <2>3. Leads(a, from, mid)'
    BY <1>11, <1>17, <1>19, <2>2 DEF Leads
  <2>4. Leads(b, mid, etcd.pod)'
    BY <1>1, <1>7, <1>11, <1>19, <2>2 DEF Leads
  <2>5. jobs'[1] = a /\ jobs'[2] = b /\ Len(jobs') = 2 /\ jobs' # <<>>
    BY <1>12, <1>19
  <2>6. AtWork(from, mid)'
    BY <1>1, <1>7, <1>9, <1>11, <1>13, <1>14, <1>15, <1>16, <2>3, <2>4, <2>5 DEF AtWork, Untouched
  <2> QED BY <2>6 DEF Stages
<1>20. CASE from[p] \in Ip \ {etcd.pod[p]} /\ etcd.pod[p] \notin Ip \ {from[p]}
  <2>1. Leads(a, from, etcd.pod)
    BY <1>7, <1>11, <1>17, <1>20 DEF Leads
  <2> QED BY <1>11, <1>12, <1>18, <1>20, <2>1
<1>21. CASE from[p] \notin Ip \ {etcd.pod[p]} /\ etcd.pod[p] \in Ip \ {from[p]}
  <2>1. Leads(b, from, etcd.pod)
    BY <1>7, <1>11, <1>21 DEF Leads
  <2> QED BY <1>11, <1>12, <1>18, <1>21, <2>1
<1>22. CASE from[p] \notin Ip \ {etcd.pod[p]} /\ etcd.pod[p] \notin Ip \ {from[p]}
  <2>1. \A q \in Pod : from[q] = etcd.pod[q] \/ {from[q], etcd.pod[q]} \cap Ip = {}
    BY <1>7, <1>22
  <2>2. \A s \in Svc : Right(s, etcd.pod)
    BY <1>7, <2>1, RightToo
  <2>3. jobs' = <<>>
    BY <1>12, <1>22
  <2>4. Resting'
    BY <1>1, <1>7, <1>9, <1>16, <2>2, <2>3 DEF Resting, Quiet, Right
  <2> QED BY <2>4 DEF Stages
<1> QED BY <1>19, <1>20, <1>21, <1>22

(* It is told of a service, and puts it with its endpoints if there are.   *)
LEMMA ServiceNoteRest ==
  ASSUME Shaped, KernelInv, Orderly, Unbroken, Mirrors, Stages, HandleServiceNote
  PROVE  Stages' /\ Mirrors' /\ etcd'.pod = etcd.pod /\ etcd'.ing = etcd.ing
<1>1. queue["endpoints"] # <<>> /\ Head(queue["endpoints"]).of = "svc" /\ TakeNote("endpoints")
      /\ UNCHANGED <<store, jobs>>
  BY DEF HandleServiceNote, TakeNote
<1>2. \A p \in Pod : \A from : ~PodMoved(p, from)
  <2>1. SUFFICES ASSUME NEW p \in Pod, NEW from, PodMoved(p, from) PROVE FALSE
    OBVIOUS
  <2>2. PICK x : x = Note(Pods, p, from[p], etcd.pod[p])
    OBVIOUS
  <2>3. queue["endpoints"] = <<x>>
    BY <1>1, <2>1, <2>2 DEF PodMoved
  <2>4. Head(queue["endpoints"]) = x
    BY <1>1, <2>3, LastNote
  <2>5. x.of = "pod"
    BY <2>2, EndpointsInformers DEF Note
  <2> QED BY <1>1, <2>4, <2>5
<1>3. PICK s \in Svc : Created(s)
  BY <1>1, <1>2 DEF Stages, Resting, Quiet, SyncDue, AtWork
<1>4. PICK note : note = Note(Svcs, s, None, etcd.svc[s])
  OBVIOUS
<1>5. /\ queue["endpoints"] = <<note>> /\ wire[Pods] = <<>> /\ wire[Svcs] = <<>>
      /\ "endpoints" \notin resync /\ jobs = <<>>
      /\ etcd.svc[s] # None /\ etcd.svc[s].eps = {}
      /\ \A t \in Svc : t # s => Right(t, etcd.pod)
  BY <1>1, <1>3, <1>4 DEF Created
<1>6. note.name = s /\ note.new = etcd.svc[s]
  BY <1>4, EndpointsInformers DEF Note
<1>7. Head(queue["endpoints"]) = note /\ queue'["endpoints"] = <<>> /\ UNCHANGED resync
  BY <1>1, <1>5, LastNote
<1>8. store[Pods] = etcd.pod /\ store[Svcs] = etcd.svc
  BY <1>5, NothingMissing, EndpointsInformers
<1>9. PICK ips, v : /\ ips = IpsOf(etcd.pod, etcd.svc[s].picks)
                    /\ v = [etcd.svc[s] EXCEPT !.eps = ips]
  OBVIOUS
<1>10. /\ etcd.svc[s] \in Service /\ v \in Service /\ v # None
       /\ v.eps = ips /\ v.picks = etcd.svc[s].picks
  <2>1. etcd.svc[s] \in Service
    BY <1>5, ServicesAre
  <2>2. ips \in SUBSET Ip
    BY <1>9, IpsAreIps
  <2>3. v \in Service /\ v.eps = ips /\ v.picks = etcd.svc[s].picks
    BY <1>9, <2>1, <2>2 DEF Service
  <2> QED BY <2>1, <2>3, NoServiceAssumption
<1>11. IF ips = {} THEN UNCHANGED <<etcd, wire>> ELSE Put("svc", s, v)
  <2>1. etcd.svc[s].eps \cup ips = ips
    BY <1>5
  <2> QED BY <1>6, <1>7, <1>8, <1>9, <2>1 DEF HandleServiceNote, linkVars
<1>12. CASE ips = {}
  <2>1. UNCHANGED <<etcd, wire>>
    BY <1>11, <1>12
  <2>2. Right(s, etcd.pod)
    BY <1>5, <1>9, <1>12 DEF Right
  <2>3. \A t \in Svc : Right(t, etcd.pod)'
    BY <1>5, <2>1, <2>2 DEF Right
  <2>4. Familiar' /\ Lasting'
    BY <1>5, <2>1, EmptyIsSequence DEF Familiar, Lasting
  <2>5. Resting'
    BY <1>1, <1>5, <1>7, <2>1, <2>3, <2>4 DEF Resting, Quiet
  <2> QED BY <1>1, <2>1, <2>5 DEF Stages, Mirrors
<1>13. CASE ips # {}
  <2>1. Put("svc", s, v)
    BY <1>11, <1>13
  <2>2. Mirrors'
    BY <1>1, <2>1, MirrorsPut, EndpointsInformers
  <2>3. UNCHANGED <<etcd.pod, etcd.ing>>
    BY <2>1, EndpointsInformers DEF Put, Shaped, Typed
  <2>4. Wrote("svc", s, v)
    BY <2>1, PutParts, EndpointsInformers
  <2>5. PICK x : x = <<s, v>>
    OBVIOUS
  <2>6. wire'[Svcs] = <<x>> /\ wire'[Pods] = <<>>
    <3>1. wire'[Svcs] = Append(<<>>, x) /\ wire'[Pods] = <<>>
      BY <1>5, <2>4, <2>5, EndpointsInformers DEF Wrote
    <3>2. Append(<<>>, x) = <<x>>
      OBVIOUS
    <3> QED BY <3>1, <3>2
  <2>7. \A t \in Svc : etcd'.svc[t] = IF t = s THEN v ELSE etcd.svc[t]
    BY <2>4, EndpointsInformers DEF Wrote
  <2>8. \A t \in Svc : Right(t, etcd.pod)'
    BY <1>5, <1>9, <1>10, <2>3, <2>7 DEF Right
  <2>9. PICK q : q = wire'[Svcs]
    OBVIOUS
  <2>10. Len(q) = 1 /\ \A k \in 1 .. Len(q) : q[k][1] = s /\ q[k][2] = v
    BY <2>5, <2>6, <2>9
  <2>11. Familiar' /\ Lasting'
    BY <1>1, <1>5, <1>8, <1>10, <2>9, <2>10 DEF Familiar, Lasting
  <2>12. Resting'
    BY <1>1, <1>5, <1>7, <2>6, <2>8, <2>11 DEF Resting, Quiet
  <2> QED BY <2>2, <2>3, <2>12 DEF Stages
<1> QED BY <1>12, <1>13

(* A resync computes everything anew.                                      *)
LEMMA ResyncRest ==
  ASSUME Shaped, Orderly, Mirrors, Stages, HandleResync
  PROVE  Stages'
<1>1. /\ "endpoints" \in resync /\ resync' = resync \ {"endpoints"}
      /\ UNCHANGED <<etcd, wire, store, queue>> /\ jobs' = <<Job("sync", None, NoIp)>>
  BY DEF HandleResync, TakeResync, apiVars, linkVars
<1>2. SyncDue
  BY <1>1 DEF Stages, Resting, Quiet, Created, PodMoved, AtWork
<1>3. PICK j : j = Job("sync", None, NoIp)
  OBVIOUS
<1>4. j.op = "sync" /\ j.on = None
  BY <1>3 DEF Job
<1>5. jobs'[1] = j /\ Len(jobs') = 1 /\ jobs' # <<>>
  BY <1>1, <1>3
<1>6. PICK to : to = etcd.pod
  OBVIOUS
<1>7. store[Svcs] = etcd.svc
  BY <1>2, NothingMissing, EndpointsInformers DEF SyncDue
<1>8. Echoing'
  BY <1>1, <1>2, EmptyIsSequence DEF Echoing, SyncDue
<1>9. Leads(j, to, to)'
  BY <1>1, <1>4, <1>6 DEF Leads
<1>10. AtWork(to, to)'
  BY <1>1, <1>2, <1>4, <1>5, <1>6, <1>7, <1>8, <1>9 DEF AtWork, SyncDue, Untouched
<1> QED BY <1>10 DEF Stages

(* A job does what it is there for.                                        *)
LEMMA ChangedIsRight ==
  ASSUME NEW job, NEW from, NEW to, Leads(job, from, to), store[Pods] = etcd.pod,
         NEW v \in Service, job.op = "sync" \/ v.eps = IpsOf(from, v.picks)
  PROVE  /\ Changed(job, v) \in Service /\ Changed(job, v).picks = v.picks
         /\ Changed(job, v).eps = IpsOf(to, v.picks)
<1>1. \A eps \in SUBSET Ip : LET w == [v EXCEPT !.eps = eps] IN
        w \in Service /\ w.picks = v.picks /\ w.eps = eps
  BY DEF Service
<1>2. v.picks \in SUBSET Pod /\ v.eps \in SUBSET Ip
  BY ServiceParts
<1>3. CASE job.op = "sync" /\ to = etcd.pod
  <2>1. Changed(job, v) = [v EXCEPT !.eps = IpsOf(store[Pods], v.picks)]
    BY <1>3, Zenon DEF Changed
  <2>2. PICK eps : eps = IpsOf(to, v.picks)
    OBVIOUS
  <2>3. eps \in SUBSET Ip /\ Changed(job, v) = [v EXCEPT !.eps = eps]
    BY <1>3, <2>1, <2>2, IpsAreIps
  <2> QED BY <1>1, <2>2, <2>3
<1>4. CASE job.op # "sync"
  <2>1. /\ job.op \in {"del", "add"} /\ job.pod \in Pod /\ job.ip \in Ip
        /\ \A q \in Pod : q # job.pod => to[q] = from[q]
        /\ \/ /\ job.op = "del" /\ to[job.pod] \notin Ip
              /\ \A q \in Pod : from[q] = job.ip <=> q = job.pod
           \/ job.op = "add" /\ from[job.pod] \notin Ip /\ to[job.pod] = job.ip
    BY <1>4 DEF Leads
  <2>2. v.eps = IpsOf(from, v.picks)
    BY <1>4
  <2>3. \A x, pods : x \in IpsOf(pods, v.picks) <=> x \in Ip /\ \E q \in v.picks : pods[q] = x
    BY DEF IpsOf, IpOf
  <2>4. CASE job.pod \notin v.picks
    <3>1. Changed(job, v) = v
      BY <1>4, <2>1, <2>4, Zenon DEF Changed
    <3>2. \A q \in v.picks : to[q] = from[q]
      BY <1>2, <2>1, <2>4
    <3>3. \A q \in v.picks : IpOf(to, q) = IpOf(from, q)
      BY <3>2 DEF IpOf
    <3>4. IpsOf(to, v.picks) = IpsOf(from, v.picks)
      BY <3>3 DEF IpsOf
    <3> QED BY <2>2, <3>1, <3>4
  <2>5. CASE job.pod \in v.picks /\ job.op = "del"
    <3>1. PICK eps : eps = v.eps \ {job.ip}
      OBVIOUS
    <3>2. Changed(job, v) = [v EXCEPT !.eps = eps]
      <4>1. Changed(job, v) = [v EXCEPT !.eps = @ \ {job.ip}]
        BY <1>4, <2>5, Zenon DEF Changed
      <4> QED BY <3>1, <4>1
    <3>3. \A x : x \in eps <=> x \in IpsOf(to, v.picks)
      <4>1. to[job.pod] \notin Ip /\ \A q \in Pod : from[q] = job.ip <=> q = job.pod
        BY <2>1, <2>5
      <4>2. \A x : x \in eps <=> x # job.ip /\ x \in Ip /\ \E q \in v.picks : from[q] = x
        BY <2>2, <2>3, <3>1
      <4>3. \A x : x \in IpsOf(to, v.picks) <=> x \in Ip /\ \E q \in v.picks : to[q] = x
        BY <2>3
      <4>4. ASSUME NEW x, x # job.ip, x \in Ip, NEW q \in v.picks, from[q] = x
            PROVE  to[q] = x
        BY <1>2, <2>1, <4>1, <4>4
      <4>5. ASSUME NEW x, x \in Ip, NEW q \in v.picks, to[q] = x
            PROVE  x # job.ip /\ from[q] = x
        BY <1>2, <2>1, <4>1, <4>5
      <4> QED BY <4>2, <4>3, <4>4, <4>5
    <3>4. eps = IpsOf(to, v.picks) /\ eps \in SUBSET Ip
      BY <1>2, <3>1, <3>3
    <3> QED BY <1>1, <3>2, <3>4
  <2>6. CASE job.pod \in v.picks /\ job.op = "add"
    <3>1. PICK eps : eps = v.eps \cup {job.ip}
      OBVIOUS
    <3>2. Changed(job, v) = [v EXCEPT !.eps = eps]
      <4>1. Changed(job, v) = [v EXCEPT !.eps = @ \cup {job.ip}]
        BY <1>4, <2>6, Zenon DEF Changed
      <4> QED BY <3>1, <4>1
    <3>3. \A x : x \in eps <=> x \in IpsOf(to, v.picks)
      <4>1. from[job.pod] \notin Ip /\ to[job.pod] = job.ip
        BY <2>1, <2>6
      <4>2. \A x : x \in eps <=> x = job.ip \/ (x \in Ip /\ \E q \in v.picks : from[q] = x)
        BY <2>2, <2>3, <3>1
      <4>3. \A x : x \in IpsOf(to, v.picks) <=> x \in Ip /\ \E q \in v.picks : to[q] = x
        BY <2>3
      <4>4. ASSUME NEW x, x \in Ip, NEW q \in v.picks, from[q] = x
            PROVE  to[q] = x
        BY <1>2, <2>1, <4>1, <4>4
      <4>5. ASSUME NEW x, x \in Ip, NEW q \in v.picks, to[q] = x
            PROVE  x = job.ip \/ from[q] = x
        BY <1>2, <2>1, <4>1, <4>5
      <4> QED BY <2>1, <2>6, <4>1, <4>2, <4>3, <4>4, <4>5
    <3>4. eps = IpsOf(to, v.picks) /\ eps \in SUBSET Ip
      BY <1>2, <2>1, <3>1, <3>3
    <3> QED BY <1>1, <3>2, <3>4
  <2> QED BY <2>1, <2>4, <2>5, <2>6
<1> QED BY <1>3, <1>4 DEF Leads

(* There are no jobs but those of the stage it is at.                      *)
LEMMA WorkIs ==
  ASSUME Stages, jobs # <<>>
  PROVE  \E from, to : AtWork(from, to)
BY DEF Stages, Resting, Quiet, Created, PodMoved, SyncDue

(* Echoes are of services there are.                                       *)
LEMMA EchoesAre ==
  ASSUME KernelInv, Orderly, \A s \in Svc : store[Svcs][s] = etcd.svc[s]
  PROVE  /\ \A k \in 1 .. Len(wire[Svcs]) : wire[Svcs][k][1] \in Svc
         /\ Echoing => Familiar /\ Lasting
<1>1. PICK V, h : Good(V, h)
  BY DEF KernelInv, Orderly
<1>2. \A k \in 1 .. Len(wire[Svcs]) : wire[Svcs][k][1] \in Svc
  BY <1>1 DEF Good, Copies, Watchers, IsNews
<1> QED BY <1>2 DEF Echoing, Familiar, Lasting

(* The first of two jobs is done.                                          *)
LEMMA SecondJob ==
  ASSUME NEW q, Sequence(q), Len(q) = 2
  PROVE  Len(Tail(q)) = 1 /\ Tail(q)[1] = q[2] /\ Tail(q) # <<>>
<1>1. PICK r : r = Tail(q)
  OBVIOUS
<1>2. q # <<>>
  BY EmptyIsSequence
<1>3. Shorter(r, q)
  BY <1>1, <1>2, TailParts
<1>4. Len(r) = 1 /\ r[1] = q[2]
  BY <1>3 DEF Shorter
<1>5. r # <<>>
  BY <1>4, EmptyIsSequence
<1> QED BY <1>1, <1>4, <1>5

(* It was the only one.                                                    *)
LEMMA LastJob ==
  ASSUME NEW q, Sequence(q), Len(q) = 1
  PROVE  Tail(q) = <<>>
<1>1. PICK r : r = Tail(q)
  OBVIOUS
<1>2. q # <<>>
  BY EmptyIsSequence
<1>3. Shorter(r, q)
  BY <1>1, <1>2, TailParts
<1>4. r = <<>>
  BY <1>3 DEF Shorter, Sequence
<1> QED BY <1>1, <1>4

(* The lock is taken, or nothing is to be changed.                         *)
LEMMA LockRest ==
  ASSUME Shaped, KernelInv, Orderly, Mirrors, Stages, Lock
  PROVE  Stages'
<1>1. PICK from, to : AtWork(from, to)
  BY WorkIs DEF Lock
<1>2. PICK V, h : Good(V, h)
  BY DEF KernelInv, Orderly
<1>3. PICK job, on :
        /\ job = jobs[1]
        /\ on = {s \in Svc : store[Svcs][s] # None /\ Changed(job, store[Svcs][s]) # store[Svcs][s]}
  OBVIOUS
<1>4. Sequence(jobs) /\ Head(jobs) = job
  BY <1>2, <1>3, FirstIsThere DEF Good, Working, Lock
<1>5. /\ jobs # <<>> /\ job.on = None
      /\ IF on = {} THEN jobs' = Tail(jobs) ELSE jobs' = [jobs EXCEPT ![1].on = on]
      /\ UNCHANGED <<etcd, wire, store, queue, resync>>
  BY <1>3, <1>4 DEF Lock, apiVars, linkVars
<1>6. /\ queue["endpoints"] = <<>> /\ "endpoints" \notin resync /\ wire[Pods] = <<>>
      /\ \A s \in Svc : store[Svcs][s] = etcd.svc[s]
      /\ Leads(job, from, to)
      /\ \A s \in Svc : job.op = "sync" \/ Right(s, from)
  BY <1>1, <1>3, <1>5 DEF AtWork, Untouched
<1>7. store[Pods] = etcd.pod
  BY <1>6, NothingMissing, EndpointsInformers
<1>8. \A s \in Svc : s \notin on => Right(s, to)
  <2>1. SUFFICES ASSUME NEW s \in Svc, s \notin on, etcd.svc[s] # None
                 PROVE  etcd.svc[s].eps = IpsOf(to, etcd.svc[s].picks)
    BY DEF Right
  <2>2. PICK v : v = etcd.svc[s]
    OBVIOUS
  <2>3. v \in Service /\ Changed(job, v) = v
    BY <1>3, <1>6, <2>1, <2>2, ServicesAre
  <2>4. job.op = "sync" \/ v.eps = IpsOf(from, v.picks)
    BY <1>6, <2>1, <2>2 DEF Right
  <2> QED BY <1>6, <1>7, <2>2, <2>3, <2>4, ChangedIsRight
<1>9. \A s \in Svc : \A pods : Right(s, pods)' <=> Right(s, pods)
  BY <1>5 DEF Right
<1>10. (Echoing => Echoing') /\ (Familiar => Familiar') /\ (Lasting => Lasting')
  BY <1>5 DEF Echoing, Familiar, Lasting
<1>11. \/ Len(jobs) = 1 /\ to = etcd.pod /\ Echoing
       \/ /\ Len(jobs) = 2 /\ job.op # "sync" /\ jobs[2].op = "add" /\ Leads(jobs[2], to, etcd.pod)
          /\ Echoing /\ \A k \in 1 .. Len(wire[Svcs]) : FALSE
  BY <1>1, <1>3, <1>5 DEF AtWork, Untouched
<1>12. CASE on = {} /\ Len(jobs) = 1
  <2>1. jobs' = <<>>
    BY <1>4, <1>5, <1>12, LastJob
  <2>2. \A s \in Svc : Right(s, etcd.pod)'
    BY <1>5, <1>8, <1>11, <1>12 DEF Right
  <2>3. Familiar' /\ Lasting'
    BY <1>6, <1>10, <1>11, EchoesAre
  <2>4. Resting'
    BY <1>5, <1>6, <2>1, <2>2, <2>3 DEF Resting, Quiet
  <2> QED BY <2>4 DEF Stages
<1>13. CASE on = {} /\ Len(jobs) = 2
  <2>1. Len(jobs') = 1 /\ jobs'[1] = jobs[2] /\ jobs' # <<>>
    BY <1>4, <1>5, <1>13, SecondJob
  <2>2. PICK pods, j : pods = etcd.pod /\ j = jobs[2]
    OBVIOUS
  <2>3. Leads(j, to, pods) /\ j.op = "add" /\ Echoing
    BY <1>11, <1>13, <2>2
  <2>4. j.on = None
    <3>1. 2 \in 1 .. Len(jobs)
      BY <1>13
    <3> QED BY <1>2, <2>2, <3>1 DEF Good, Working
  <2>5. Leads(j, to, pods)'
    BY <1>5, <2>3 DEF Leads
  <2>6. \A s \in Svc : Right(s, to)
    BY <1>8, <1>13
  <2>7. AtWork(to, pods)'
    BY <1>5, <1>6, <1>9, <1>10, <2>1, <2>2, <2>3, <2>4, <2>5, <2>6 DEF AtWork, Untouched
  <2> QED BY <2>7 DEF Stages
<1>14. CASE on # {}
  <2>1. jobs' = Begun(jobs, [job EXCEPT !.on = on])
    BY <1>3, <1>5, <1>14 DEF Begun
  <2>2. PICK x : x = [job EXCEPT !.on = on]
    OBVIOUS
  <2>3. IsJob(job)
    BY <1>2, <1>3, <1>5, FirstIsThere DEF Good, Working
  <2>4. x.op = job.op /\ x.pod = job.pod /\ x.ip = job.ip /\ x.on = on
    <3>1. job = [op |-> job.op, pod |-> job.pod, ip |-> job.ip, on |-> job.on]
      BY <2>3 DEF IsJob
    <3> QED BY <2>2, <3>1
  <2>5. Headed(jobs', jobs, x)
    BY <1>4, <1>5, <2>1, <2>2, FirstJob
  <2>6. /\ Len(jobs') = Len(jobs) /\ jobs'[1] = x /\ (Len(jobs) = 2 => jobs'[2] = jobs[2])
        /\ jobs' # <<>>
    <3>1. Len(jobs) # 0
      BY <1>11
    <3> QED BY <2>5, <3>1, EmptyIsSequence DEF Headed
  <2>7. Leads(x, from, to)'
    BY <1>5, <1>6, <2>4 DEF Leads
  <2>8. \A s \in Svc : IF Untouched(x, s) THEN x.op = "sync" \/ Right(s, from) ELSE Right(s, to)
    BY <1>6, <1>8, <2>4 DEF Untouched
  <2>9. PICK j : j = jobs[2]
    OBVIOUS
  <2>10. Len(jobs) = 2 => Leads(j, to, etcd.pod)'
    BY <1>5, <1>11, <2>9 DEF Leads
  <2>11. AtWork(from, to)'
    BY <1>5, <1>6, <1>9, <1>10, <1>11, <2>4, <2>6, <2>7, <2>8, <2>9, <2>10 DEF AtWork, Untouched
  <2> QED BY <2>11 DEF Stages
<1> QED BY <1>11, <1>12, <1>13, <1>14

(* A service is put.                                                       *)
LEMMA UpdateRest ==
  ASSUME Shaped, KernelInv, Orderly, Unbroken, Mirrors, Stages, Update
  PROVE  Stages' /\ Mirrors' /\ etcd'.pod = etcd.pod /\ etcd'.ing = etcd.ing
<1>1. PICK from, to : AtWork(from, to)
  BY WorkIs DEF Update
<1>2. PICK V, h : Good(V, h)
  BY DEF KernelInv, Orderly
<1>3. PICK job : job = jobs[1]
  OBVIOUS
<1>4. Sequence(jobs) /\ jobs # <<>> /\ Head(jobs) = job
  BY <1>2, <1>3, FirstIsThere DEF Good, Working, Update
<1>5. IsJob(job) /\ job.on # None /\ \A t \in job.on : t \in Svc /\ store[Svcs][t] # None
  BY <1>2, <1>3, <1>4, FirstIsThere DEF Good, Working, Update
<1>6. PICK s \in job.on : \E v :
        /\ v = Changed(job, store[Svcs][s]) /\ store' = [store EXCEPT ![Svcs][s] = v]
        /\ Put("svc", s, v) /\ Done(s)
  BY <1>4 DEF Update
<1>7. PICK v :
        /\ v = Changed(job, store[Svcs][s]) /\ store' = [store EXCEPT ![Svcs][s] = v]
        /\ Put("svc", s, v) /\ Done(s)
  BY <1>6
<1>8. UNCHANGED <<queue, resync>>
  BY DEF Update
<1>9. /\ queue["endpoints"] = <<>> /\ "endpoints" \notin resync /\ wire[Pods] = <<>>
      /\ \A t \in Svc : store[Svcs][t] = etcd.svc[t]
      /\ Leads(job, from, to)
      /\ \A t \in Svc : IF t \in job.on THEN job.op = "sync" \/ Right(t, from) ELSE Right(t, to)
  BY <1>1, <1>3, <1>5 DEF AtWork, Untouched
<1>10. \/ /\ Len(jobs) = 1 /\ to = etcd.pod /\ (Echoing \/ (Familiar /\ Lasting))
       \/ /\ Len(jobs) = 2 /\ job.op # "sync" /\ jobs[2].op = "add" /\ Leads(jobs[2], to, etcd.pod)
          /\ Echoing /\ \A k \in 1 .. Len(wire[Svcs]) : wire[Svcs][k][1] \notin job.on
  BY <1>1, <1>3 DEF AtWork, Untouched
<1>11. s \in Svc /\ etcd.svc[s] # None /\ store[Svcs][s] = etcd.svc[s] /\ etcd.svc[s] \in Service
  BY <1>5, <1>9, ServicesAre
<1>12. store[Pods] = etcd.pod
  BY <1>9, NothingMissing, EndpointsInformers
<1>13. /\ v \in Service /\ v # None /\ v.picks = etcd.svc[s].picks
       /\ v.eps = IpsOf(to, v.picks)
  <2>1. job.op = "sync" \/ etcd.svc[s].eps = IpsOf(from, etcd.svc[s].picks)
    BY <1>9, <1>11 DEF Right
  <2>2. v \in Service /\ v.picks = etcd.svc[s].picks /\ v.eps = IpsOf(to, v.picks)
    BY <1>7, <1>9, <1>11, <1>12, <2>1, ChangedIsRight
  <2> QED BY <2>2, NoServiceAssumption
<1>14. Wrote("svc", s, v)
  BY <1>7, <1>11, PutParts, EndpointsInformers
<1>15. /\ \A t \in Svc : etcd'.svc[t] = IF t = s THEN v ELSE etcd.svc[t]
       /\ \A t \in Svc : store'[Svcs][t] = IF t = s THEN v ELSE store[Svcs][t]
       /\ wire'[Pods] = <<>>
       /\ wire'[Svcs] = Append(wire[Svcs], <<s, v>>)
       /\ \A i \in Informers : i # Svcs => store'[i] = store[i]
  <2>1. \A t \in Svc : store'[Svcs][t] = IF t = s THEN v ELSE store[Svcs][t]
    BY <1>7, EndpointsInformers DEF Shaped, Typed
  <2>2. \A i \in Informers : i # Svcs => store'[i] = store[i]
    BY <1>7 DEF Shaped, Typed
  <2> QED BY <1>9, <1>14, <2>1, <2>2, EndpointsInformers DEF Wrote
<1>16. UNCHANGED <<etcd.pod, etcd.ing>>
  BY <1>7, EndpointsInformers DEF Put, Shaped, Typed
<1>17. Mirrors'
  <2>1. \A i \in Informers : \A n \in Names[i[2]] :
          (i[2] = "svc" /\ n = s) \/ store'[i][n] = store[i][n]
    BY <1>15, EndpointsInformers
  <2> QED BY <1>7, <1>11, <2>1, MirrorsPut, EndpointsInformers
<1>18. \A t \in Svc : store'[Svcs][t] = etcd'.svc[t]
  BY <1>9, <1>15
<1>19. Right(s, to)' /\ \A t \in Svc : \A pods : t # s /\ Right(t, pods) => Right(t, pods)'
  BY <1>11, <1>13, <1>15 DEF Right
<1>20. PICK q, r, x : q = wire[Svcs] /\ r = wire'[Svcs] /\ x = <<s, v>>
  OBVIOUS
<1>21. Longer(r, q, x)
  <2>1. Sequence(q)
    BY <1>20, EndpointsInformers DEF Mirrors
  <2> QED BY <1>15, <1>20, <2>1, AppendParts
<1>22. x[1] = s /\ x[2] = v
  BY <1>20
<1>23. \A k \in 1 .. Len(r) : r[k] = x \/ (k \in 1 .. Len(q) /\ r[k] = q[k])
  BY <1>21 DEF Longer
<1>24. \A k \in 1 .. Len(q) : q[k][1] \in Svc
  BY <1>9, <1>20, EchoesAre
<1>25. CASE job.on = {s}
  <2>1. jobs' = Tail(jobs)
    BY <1>4, <1>7, <1>25 DEF Done
  <2>2. \A t \in Svc : Right(t, to)'
    BY <1>9, <1>19, <1>25
  <2>3. CASE Len(jobs) = 1
    <3>1. jobs' = <<>>
      BY <1>4, <2>1, <2>3, LastJob
    <3>2. to = etcd.pod /\ Familiar /\ Lasting
      BY <1>9, <1>10, <2>3, EchoesAre
    <3>3. \A k \in 1 .. Len(q) : store[Svcs][q[k][1]] # None /\ q[k][2] # None
      BY <1>20, <3>2 DEF Familiar, Lasting
    <3>4. \A k \in 1 .. Len(r) : store'[Svcs][r[k][1]] # None /\ r[k][2] # None
      BY <1>11, <1>13, <1>15, <1>22, <1>23, <1>24, <3>3
    <3>5. Familiar' /\ Lasting'
      BY <1>20, <3>4 DEF Familiar, Lasting
    <3>6. \A t \in Svc : Right(t, etcd.pod)'
      BY <1>16, <2>2, <3>2 DEF Right
    <3>7. Resting'
      BY <1>8, <1>9, <1>15, <3>1, <3>5, <3>6 DEF Resting, Quiet
    <3> QED BY <1>16, <1>17, <3>7 DEF Stages
  <2>4. CASE Len(jobs) = 2
    <3>1. Len(jobs') = 1 /\ jobs'[1] = jobs[2] /\ jobs' # <<>>
      BY <1>4, <2>1, <2>4, SecondJob
    <3>2. PICK pods, j : pods = etcd.pod /\ j = jobs[2]
      OBVIOUS
    <3>3. /\ Leads(j, to, pods) /\ j.op = "add"
          /\ \A k \in 1 .. Len(q) : q[k][2] # None /\ q[k][2] = etcd.svc[q[k][1]] /\ q[k][1] # s
      BY <1>10, <1>20, <1>25, <2>4, <3>2 DEF Echoing
    <3>4. j.on = None
      <4>1. 2 \in 1 .. Len(jobs)
        BY <2>4
      <4> QED BY <1>2, <3>2, <4>1 DEF Good, Working
    <3>5. Leads(j, to, pods)'
      BY <1>16, <3>2, <3>3 DEF Leads
    <3>6. \A k \in 1 .. Len(r) : r[k][2] # None /\ r[k][2] = etcd'.svc[r[k][1]]
      BY <1>11, <1>13, <1>15, <1>22, <1>23, <1>24, <3>3
    <3>7. Echoing'
      BY <1>20, <3>6 DEF Echoing
    <3>8. AtWork(to, pods)'
      BY <1>8, <1>9, <1>15, <1>16, <1>18, <2>2, <3>1, <3>2, <3>4, <3>5, <3>7 DEF AtWork, Untouched
    <3> QED BY <1>16, <1>17, <3>8 DEF Stages
  <2> QED BY <1>10, <2>3, <2>4
<1>26. CASE job.on # {s}
  <2>1. PICK on, y : on = job.on \ {s} /\ y = [job EXCEPT !.on = on]
    OBVIOUS
  <2>2. jobs' = Begun(jobs, y)
    BY <1>3, <1>4, <1>7, <1>26, <2>1 DEF Done, Begun
  <2>3. y.op = job.op /\ y.pod = job.pod /\ y.ip = job.ip /\ y.on = on
    <3>1. job = [op |-> job.op, pod |-> job.pod, ip |-> job.ip, on |-> job.on]
      BY <1>5 DEF IsJob
    <3> QED BY <2>1, <3>1
  <2>4. on # None
    <3>1. on \in SUBSET Svc
      BY <1>5, <2>1
    <3> QED BY <3>1, NoServicesAssumption
  <2>5. Headed(jobs', jobs, y)
    BY <1>4, <2>2, FirstJob
  <2>6. PICK j : j = jobs[2]
    OBVIOUS
  <2>7. /\ Len(jobs') = Len(jobs) /\ jobs'[1] = y /\ (Len(jobs) = 2 => jobs'[2] = j)
        /\ jobs' # <<>>
    <3>1. Len(jobs) # 0
      BY <1>10
    <3> QED BY <2>5, <2>6, <3>1, EmptyIsSequence DEF Headed
  <2>8. Leads(y, from, to)'
    BY <1>9, <1>16, <2>3 DEF Leads
  <2>9. \A t \in Svc : (IF t \in on THEN y.op = "sync" \/ Right(t, from) ELSE Right(t, to))'
    BY <1>9, <1>19, <2>1, <2>3
  <2>10. CASE Len(jobs) = 1
    <3>1. to = etcd.pod /\ Familiar /\ Lasting
      BY <1>9, <1>10, <2>10, EchoesAre
    <3>2. \A k \in 1 .. Len(q) : store[Svcs][q[k][1]] # None /\ q[k][2] # None
      BY <1>20, <3>1 DEF Familiar, Lasting
    <3>3. \A k \in 1 .. Len(r) : store'[Svcs][r[k][1]] # None /\ r[k][2] # None
      BY <1>11, <1>13, <1>15, <1>22, <1>23, <1>24, <3>2
    <3>4. Familiar' /\ Lasting'
      BY <1>20, <3>3 DEF Familiar, Lasting
    <3>5. AtWork(from, to)'
      BY <1>8, <1>9, <1>15, <1>16, <1>18, <2>3, <2>4, <2>7, <2>8, <2>9, <2>10, <3>1, <3>4
      DEF AtWork, Untouched
    <3> QED BY <1>16, <1>17, <3>5 DEF Stages
  <2>11. CASE Len(jobs) = 2
    <3>1. /\ Leads(j, to, etcd.pod) /\ j.op = "add" /\ job.op # "sync"
          /\ \A k \in 1 .. Len(q) :
               q[k][2] # None /\ q[k][2] = etcd.svc[q[k][1]] /\ q[k][1] \notin job.on
      BY <1>10, <1>20, <2>6, <2>11 DEF Echoing
    <3>2. Leads(j, to, etcd.pod)'
      BY <1>16, <3>1 DEF Leads
    <3>3. \A k \in 1 .. Len(r) :
            r[k][2] # None /\ r[k][2] = etcd'.svc[r[k][1]] /\ r[k][1] \notin on
      BY <1>11, <1>13, <1>15, <1>22, <1>23, <1>24, <2>1, <3>1
    <3>4. Echoing' /\ \A k \in 1 .. Len(wire'[Svcs]) : wire'[Svcs][k][1] \notin on
      BY <1>20, <3>3 DEF Echoing
    <3>5. AtWork(from, to)'
      BY <1>8, <1>9, <1>15, <1>18, <2>3, <2>4, <2>7, <2>8, <2>9, <2>11, <3>1, <3>2, <3>4
      DEF AtWork, Untouched
    <3> QED BY <1>16, <1>17, <3>5 DEF Stages
  <2> QED BY <1>10, <2>10, <2>11
<1> QED BY <1>25, <1>26

(* The other informers do not reach the endpoints controller.              *)
LEMMA ReceiveElse ==
  ASSUME Shaped, Mirrors, Stages, NEW i \in Informers \ {Svcs, Pods}, Receive(i), UNCHANGED jobs
  PROVE  Stages'
<1>1. /\ UNCHANGED <<etcd, resync>>
      /\ \A j \in Informers : j # i => wire'[j] = wire[j] /\ store'[j] = store[j]
  BY ReceiveParts
<1>2. queue' = queue \/ \E q : queue' = [queue EXCEPT ![i[1]] = q]
  BY DEF Receive
<1>3. UNCHANGED queue["endpoints"]
  BY <1>2, EndpointsInformers DEF Shaped, Typed
<1> QED BY <1>1, <1>3, StagesKept, EndpointsInformers DEF stageVars

(* Nor does the loss of their watches.                                     *)
LEMMA RelistElse ==
  ASSUME Shaped, Stages, NEW i \in Informers \ {Svcs, Pods}, Relist(i), UNCHANGED jobs
  PROVE  Stages'
<1>1. /\ UNCHANGED <<etcd, queue>>
      /\ \A j \in Informers : j # i => wire'[j] = wire[j] /\ store'[j] = store[j]
      /\ resync' = resync \/ resync' = resync \cup {i[1]}
  BY RelistParts
<1>2. "endpoints" \in resync' <=> "endpoints" \in resync
  BY <1>1, EndpointsInformers
<1> QED BY <1>1, <1>2, StagesKept, EndpointsInformers DEF stageVars

(* A write that was missed stays missed.                                   *)
LEMMA MissedIsMissed == ASSUME [Next]_vars PROVE missed \subseteq missed'
<1>1. CASE UserStep
  <2>1. UNCHANGED missed \/ \E kind, name, object : Put(kind, name, object)
    BY <1>1 DEF UserStep, DeleteService, CreateService, StartPod, StopPod, PutIngress,
                DeleteIngress, RestartApi
  <2> QED BY <2>1 DEF Put
<1>2. CASE InformerStep \/ \E i \in Informers : Relist(i)
  BY <1>2 DEF InformerStep, Receive, Connect, Relist, List
<1>3. CASE EndpointsTask \/ EndpointsFail
  <2>1. UNCHANGED missed \/ \E kind, name, object : Put(kind, name, object)
    BY <1>3 DEF EndpointsTask, HandlePodNote, HandleServiceNote, HandleResync, Lock, Update,
                EndpointsFail, AddFails, UpdateFails, apiVars, linkVars
  <2> QED BY <2>1 DEF Put
<1>4. CASE ProxyTask \/ Reconfigure \/ UNCHANGED vars
  BY <1>4 DEF ProxyTask, ProxyHandles, ProxyResyncs, Reconfigure, vars, serviceVars, apiVars,
              linkVars
<1> QED BY <1>1, <1>2, <1>3, <1>4 DEF Next

(* Every step keeps the invariant.                                         *)
LEMMA RestInvKept ==
  ASSUME KernelInv, RestInv, [Next]_vars
  PROVE  RestInv'
<1>1. Shaped /\ UNCHANGED world
  <2>1. CASE UserStep
    BY <2>1 DEF UserStep, DeleteService, CreateService, StartPod, StopPod, PutIngress,
                DeleteIngress, RestartApi, Request, Disturb, KernelInv
  <2>2. CASE ~UserStep
    BY <2>2 DEF KernelInv, Next, vars, serviceVars, envVars, InformerStep, Receive, Relist, List,
                Connect, EndpointsTask, HandlePodNote, HandleServiceNote, HandleResync, Lock,
                Update, EndpointsFail, AddFails, UpdateFails, Fail, ProxyTask, ProxyHandles,
                ProxyResyncs, Reconfigure
  <2> QED BY <2>1, <2>2
<1>2. SUFFICES ASSUME Orderly, Unbroken PROVE RestInv'
  <2>1. Orderly' => Orderly
    BY <1>1 DEF Orderly, Tracked
  <2>2. missed' = {} => Unbroken
    BY MissedIsMissed DEF Unbroken
  <2> QED BY <2>1, <2>2 DEF RestInv
<1>3. Mirrors /\ Apart(etcd.pod) /\ Stages /\ \A g \in Ing : etcd.ing[g] \in Ingress \cup {None}
  BY <1>2 DEF RestInv, Unbroken
<1>4. Mirrors' /\ Stages' /\ UNCHANGED <<etcd.pod, etcd.ing>> => RestInv'
  BY <1>3 DEF RestInv, Apart
<1>5. UNCHANGED <<etcd, wire, store>> => Mirrors' /\ UNCHANGED <<etcd.pod, etcd.ing>>
  BY <1>3 DEF Mirrors
<1>6. CASE UserStep /\ Waiting /\ UNCHANGED endpointsVars
  BY <1>1, <1>2, <1>6, UsersRest DEF endpointsVars
<1>7. ASSUME NEW i \in Informers, Receive(i), UNCHANGED endpointsVars
      PROVE  RestInv'
  <2>1. Mirrors'
    BY <1>1, <1>3, <1>7, MirrorsReceive
  <2>2. Stages'
    BY <1>1, <1>2, <1>3, <1>7, ReceiveService, ReceivePod, ReceiveElse DEF endpointsVars
  <2> QED BY <1>4, <1>7, <2>1, <2>2 DEF Receive
<1>8. ASSUME NEW i \in Informers, Relist(i), Waiting, UNCHANGED endpointsVars
      PROVE  RestInv'
  <2>1. Mirrors'
    BY <1>1, <1>3, <1>8, MirrorsRelist
  <2>2. jobs = <<>> /\ UNCHANGED jobs
    BY <1>2, <1>8 DEF Waiting, Orderly, endpointsVars
  <2>3. Stages'
    BY <1>1, <1>2, <1>3, <1>8, <2>2, RelistServices, RelistPods, RelistElse
  <2> QED BY <1>4, <1>8, <2>1, <2>3 DEF Relist, List
<1>13. ASSUME NEW i \in Informers, Connect(i), UNCHANGED endpointsVars
       PROVE  RestInv'
  <2>1. UNCHANGED <<etcd, wire, store, queue, resync, jobs>>
    BY <1>13 DEF Connect, storeVars, endpointsVars
  <2>2. Stages'
    BY <1>3, <2>1, StagesKept DEF stageVars
  <2> QED BY <1>4, <1>5, <2>1, <2>2
<1>9. CASE EndpointsTask
  <2>1. CASE HandlePodNote
    BY <1>1, <1>2, <1>3, <1>4, <1>5, <2>1, PodNoteRest DEF HandlePodNote, apiVars, linkVars
  <2>2. CASE HandleServiceNote
    BY <1>1, <1>2, <1>3, <1>4, <2>2, ServiceNoteRest
  <2>3. CASE HandleResync
    BY <1>1, <1>2, <1>3, <1>4, <1>5, <2>3, ResyncRest DEF HandleResync, apiVars, linkVars
  <2>4. CASE Lock
    BY <1>1, <1>2, <1>3, <1>4, <1>5, <2>4, LockRest DEF Lock, apiVars, linkVars
  <2>5. CASE Update
    BY <1>1, <1>2, <1>3, <1>4, <2>5, UpdateRest
  <2> QED BY <1>9, <2>1, <2>2, <2>3, <2>4, <2>5 DEF EndpointsTask
<1>10. ~EndpointsFail
  BY <1>1, <1>2, OrderlyWorlds DEF EndpointsFail, AddFails, UpdateFails, Fail
<1>11. CASE (ProxyTask \/ Reconfigure) /\ UNCHANGED endpointsVars
  <2>1. UNCHANGED <<etcd, wire, store>>
    BY <1>11 DEF ProxyTask, ProxyHandles, ProxyResyncs, Reconfigure, apiVars, linkVars
  <2>2. \E c \in {"proxy", "ingress"} : TakeNote(c) \/ TakeResync(c)
    BY <1>11 DEF ProxyTask, ProxyHandles, ProxyResyncs, Reconfigure
  <2>3. UNCHANGED queue["endpoints"] /\ ("endpoints" \in resync' <=> "endpoints" \in resync)
    BY <1>1, <2>2, EndpointsInformers DEF TakeNote, TakeResync, Shaped, Typed
  <2>4. Stages'
    BY <1>3, <1>11, <2>1, <2>3, StagesKept DEF stageVars, endpointsVars
  <2> QED BY <1>4, <1>5, <2>1, <2>4
<1>12. CASE UNCHANGED vars
  <2>1. UNCHANGED <<etcd, wire, store, queue, resync, jobs>>
    BY <1>12 DEF vars, serviceVars, apiVars, linkVars, storeVars, endpointsVars
  <2>2. Stages'
    BY <1>3, <2>1, StagesKept DEF stageVars
  <2> QED BY <1>4, <1>5, <2>1, <2>2
<1> QED BY <1>6, <1>7, <1>8, <1>9, <1>10, <1>11, <1>12, <1>13 DEF Next, InformerStep

(* In the beginning nothing is under way, and there is nothing.            *)
LEMMA RestInvInit == ASSUME Init PROVE RestInv
<1>1. /\ etcd = Nothing /\ resync = {} /\ wire = [i \in Informers |-> <<>>]
      /\ store = [i \in Informers |-> Nothing[i[2]]] /\ queue = [c \in Component |-> <<>>]
      /\ jobs = <<>>
  BY DEF Init, InitServices, InitEndpoints
<1>2. Mirrors
  <2>1. ASSUME NEW i \in Informers, NEW n \in Names[i[2]]
        PROVE  Reaches(wire[i], n, store[i][n], etcd[i[2]][n])
    <3>1. wire[i] = <<>> /\ store[i][n] = etcd[i[2]][n]
      BY <1>1
    <3> QED BY <3>1, ReachedIs
  <2> QED BY <1>1, <2>1, EmptyIsSequence DEF Mirrors
<1>3. /\ \A s \in Svc : etcd.svc[s] = None
      /\ \A p \in Pod : etcd.pod[p] = None
      /\ \A g \in Ing : etcd.ing[g] = None
  BY <1>1 DEF Nothing
<1>4. Apart(etcd.pod)
  BY <1>3, ServicesAssumption DEF Apart
<1>5. wire[Svcs] = <<>> /\ wire[Pods] = <<>> /\ queue["endpoints"] = <<>>
  BY <1>1, EndpointsInformers
<1>6. Familiar /\ Lasting
  BY <1>5, EmptyIsSequence DEF Familiar, Lasting
<1>7. Resting
  BY <1>1, <1>3, <1>5, <1>6 DEF Resting, Quiet, Right
<1> QED BY <1>2, <1>3, <1>4, <1>7 DEF RestInv, Stages

(* The paths of an ingress are not taken for no host.                      *)
LEMMA HostsAreConfigured ==
  ASSUME NEW ings, NEW svcs, \A g \in Ing : ings[g] \in Ingress \cup {None},
         \A s \in Svc : svcs[s] \in Service \cup {None}, Config(ings, svcs) = NoHosts
  PROVE  \A g \in Ing : ings[g] = None
<1>1. SUFFICES ASSUME NEW g \in Ing, ings[g] # None PROVE FALSE
  OBVIOUS
<1>2. PICK paths : paths = {<<s, svcs[s].addr>> : s \in {t \in ings[g] : svcs[t] # None}}
  OBVIOUS
<1>3. Config(ings, svcs)[g] = paths
  BY <1>1, <1>2 DEF Config
<1>4. paths \in SUBSET (Svc \X Addr)
  <2>1. ings[g] \subseteq Svc
    BY <1>1 DEF Ingress
  <2>2. \A s \in Svc : svcs[s] # None => svcs[s].addr \in Addr
    BY ServiceParts
  <2> QED BY <1>2, <2>1, <2>2
<1>5. NoHosts[g] = None
  BY DEF NoHosts
<1> QED BY <1>3, <1>4, <1>5, NoPathsAssumption

(* When nothing is under way, it follows that traffic arrives.             *)
LEMMA RestEnough ==
  ASSUME Inv, KernelInv, RestInv
  PROVE  WorksAtRest
<1>1. SUFFICES ASSUME Orderly, missed = {}, Delivered, jobs = <<>> PROVE Works
  BY DEF WorksAtRest
<1>2. Shaped /\ Mirrors /\ Stages /\ \A g \in Ing : etcd.ing[g] \in Ingress \cup {None}
  BY <1>1 DEF RestInv, KernelInv
<1>3. Resting /\ \A i \in Informers : store[i] = etcd[i[2]]
  BY <1>1, <1>2, AtRest
<1>4. DOMAIN etcd["svc"] = Svc /\ DOMAIN etcd["ing"] = Ing
  BY <1>2, EndpointsInformers DEF Shaped, Typed
<1>5. \A s \in Exists("svc") : etcd.svc[s].eps = IpsOf(etcd.pod, etcd.svc[s].picks)
  BY <1>3, <1>4 DEF Exists, Resting, Right
<1>6. /\ store[Listed] = etcd.svc /\ store[IngressSvcs] = etcd.svc /\ store[Ingresses] = etcd.ing
  BY <1>3 DEF Listed, IngressSvcs, Ingresses, Informers
<1>7. Serves(etcd.svc)
  <2>1. Tracked /\ "proxy" \in world.runs /\ queue["proxy"] = <<>> /\ "proxy" \notin resync
    BY <1>1 DEF Orderly, Delivered, Component
  <2>2. Serves(store[Listed])
    BY <2>1, KernelInvEnough DEF KernelServesStore
  <2>3. PICK svcs : svcs = etcd.svc
    OBVIOUS
  <2> QED BY <1>6, <2>2
<1>8. ASSUME Exists("ing") # {} PROVE nginx = Config(etcd.ing, etcd.svc)
  <2>1. nginx = Stored \/ Stored = NoHosts
    BY <1>1 DEF Inv, ConfigFollowsStores, Delivered, Component
  <2>2. Stored = Config(etcd.ing, etcd.svc)
    BY <1>6 DEF Stored
  <2>3. \A s \in Svc : etcd.svc[s] \in Service \cup {None}
    BY <1>1, ServicesAre
  <2>4. Stored # NoHosts
    <3>1. PICK ings, svcs : ings = etcd.ing /\ svcs = etcd.svc
      OBVIOUS
    <3>2. \E g \in Ing : ings[g] # None
      BY <1>4, <1>8, <3>1 DEF Exists
    <3>3. Config(ings, svcs) # NoHosts
      BY <1>2, <2>3, <3>1, <3>2, HostsAreConfigured
    <3> QED BY <2>2, <3>1, <3>3
  <2> QED BY <2>1, <2>2, <2>4
<1> QED BY <1>5, <1>7, <1>8 DEF Works

(* Whatever services, ingresses and pods came, went or got other           *)
(* addresses, one thing at a time, whatever order the events were received *)
(* and handled in and whichever watches were lost, unless a write fell     *)
(* between an informer's list and its watch: when no event, notification,  *)
(* resync or job is left, every service has the addresses of the pods it   *)
(* picks for endpoints, the kernel serves those services and nginx leads   *)
(* every path there is to its service.                                     *)
THEOREM TrafficAtRest == Spec => []WorksAtRest
<1>1. Inv => Typed
  BY DEF Inv
<1>2. Init /\ Inv => KernelInv /\ RestInv
  BY <1>1, KernelInvInit, RestInvInit
<1>3. KernelInv /\ RestInv /\ Inv' /\ [Next]_vars => KernelInv' /\ RestInv'
  BY KernelInvKept, RestInvKept DEF Inv
<1>4. Inv /\ KernelInv /\ RestInv => WorksAtRest
  BY RestEnough
<1> QED BY <1>2, <1>3, <1>4, InvHolds, PTL DEF Spec
===============================================================================
