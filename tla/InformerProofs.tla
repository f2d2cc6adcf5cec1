---------------------------- MODULE InformerProofs ----------------------------
(***************************************************************************)
(* Theorems about Informer, for any keys, contents, channel capacities and *)
(* number of writes and faults.                                            *)
(***************************************************************************)
EXTENDS Informer, SequenceTheorems, TLAPS

-------------------------------------------------------------------------------
(* What a watch stream is when an event is taken from or put at its end.   *)

LEMMA TailElements ==
  ASSUME NEW S, NEW s \in Seq(S), s # <<>>
  PROVE  /\ Head(s) \in S
         /\ Head(s) = s[1]
         /\ Tail(s) \in Seq(S)
         /\ Len(s) \in Nat \ {0}
         /\ Len(Tail(s)) = Len(s) - 1
         /\ \A i \in 1 .. Len(Tail(s)) : Tail(s)[i] = s[i + 1]
BY HeadTailProperties

LEMMA AppendElements ==
  ASSUME NEW S, NEW s \in Seq(S), NEW e \in S
  PROVE  /\ Append(s, e) \in Seq(S)
         /\ Len(s) \in Nat
         /\ Len(Append(s, e)) = Len(s) + 1
         /\ \A i \in 1 .. Len(s) : Append(s, e)[i] = s[i]
         /\ Append(s, e)[Len(s) + 1] = e
BY AppendProperties, LenProperties

-------------------------------------------------------------------------------
(* Types.                                                                  *)

(* Every reachable state of the informer is well typed; in particular the  *)
(* resync channel never holds more than its capacity.                      *)
THEOREM InformerTypeCorrect == Spec => []TypeOK
<1>1. Init => TypeOK
  BY InformerAssumption DEF Init, TypeOK, None, Object, Value, Phase
<1>2. TypeOK /\ [Next]_vars => TypeOK'
  <2> SUFFICES ASSUME TypeOK, [Next]_vars PROVE TypeOK'
    OBVIOUS
  <2> USE InformerAssumption DEF TypeOK
  <2>1. ASSUME NEW k \in Key, NEW v \in Value, Write(k, v) PROVE TypeOK'
    <3>1. [val |-> v, rev |-> rev + 1] \in Object
      BY DEF Object
    <3>2. [key |-> k, obj |-> [val |-> v, rev |-> rev + 1]] \in Event
      BY <3>1 DEF Event
    <3>3. Append(ws, [key |-> k, obj |-> [val |-> v, rev |-> rev + 1]]) \in Seq(Event)
      BY <3>2, AppendElements
    <3>4. etcd' \in [Key -> Object] /\ rev' \in Nat
      BY <2>1, <3>1 DEF Write
    <3>5. CASE phase = "watch"
      BY <2>1, <3>3, <3>4, <3>5 DEF Write
    <3>6. CASE phase # "watch"
      BY <2>1, <3>4, <3>6 DEF Write
    <3> QED BY <3>5, <3>6
  <2>2. CASE Disconnect
    BY <2>2 DEF Disconnect, Phase
  <2>3. CASE ConnectFails
    BY <2>3 DEF ConnectFails, Phase
  <2>4. CASE List
    BY <2>4 DEF List, Phase
  <2>5. CASE Install
    BY <2>5 DEF Install, Phase
  <2>6. CASE SendResync
    BY <2>6 DEF SendResync, Phase
  <2>7. CASE Connect
    BY <2>7 DEF Connect, Phase
  <2>8. CASE ReceiveKnown
    <3>1. Head(ws) \in Event /\ Tail(ws) \in Seq(Event)
      BY <2>8, TailElements DEF ReceiveKnown
    <3> QED BY <2>8, <3>1 DEF ReceiveKnown, Event
  <2>9. CASE ReceiveChange
    <3>1. Head(ws) \in Event /\ Tail(ws) \in Seq(Event)
      BY <2>9, TailElements DEF ReceiveChange
    <3>2. [key |-> Head(ws).key, old |-> store[Head(ws).key].val,
           new |-> Head(ws).obj] \in Notification
      BY <3>1 DEF Event, Notification, Object
    <3>3. notifs' \in Seq(Notification)
      BY <2>9, <3>2, AppendElements DEF ReceiveChange
    <3> QED BY <2>9, <3>1, <3>3 DEF ReceiveChange, Event
  <2>10. CASE Deliver
    <3>1. Head(notifs) \in Notification /\ Tail(notifs) \in Seq(Notification)
      BY <2>10, TailElements DEF Deliver
    <3> QED BY <2>10, <3>1 DEF Deliver, Notification, Object
  <2>11. CASE DeliverResync
    BY <2>11 DEF DeliverResync, Object
  <2>12. CASE UNCHANGED vars
    BY <2>12 DEF vars
  <2> QED BY <2>1, <2>2, <2>3, <2>4, <2>5, <2>6, <2>7, <2>8, <2>9, <2>10,
             <2>11, <2>12 DEF Next, Reflect
<1> QED BY <1>1, <1>2, PTL DEF Spec

-------------------------------------------------------------------------------
(* The handlers.                                                           *)

(* HandlersCanFollow is inductive over well-typed states: a notification   *)
(* queued last for a key carries what the store now holds, and only a      *)
(* relist breaks that, for the keys it marks torn.                         *)
LEMMA HandlersStep ==
  ASSUME TypeOK, HandlersCanFollow, [Next]_vars
  PROVE  HandlersCanFollow'
<1> USE InformerAssumption DEF HandlersCanFollow, Notified
<1>1. ASSUME NEW k \in Key, NEW v \in Value, Write(k, v)
      PROVE  HandlersCanFollow'
  BY <1>1 DEF Write
<1>2. CASE Disconnect
  <2>1. /\ phase # "resync"
        /\ UNCHANGED <<store, notifs, resyncs, view, torn>>
    BY <1>2 DEF Disconnect
  <2> QED BY <2>1
<1>3. CASE ConnectFails
  BY <1>3 DEF ConnectFails
<1>4. CASE List
  BY <1>4 DEF List
<1>5. CASE Install
  <2> DEFINE differs == {k \in Key : store[k].val # snapshot[k].val}
  <2> SUFFICES ASSUME NEW k \in Key \ torn'
               PROVE  /\ \A i \in 1 .. Len(notifs) :
                           (notifs[i].key = k /\ \A j \in i + 1 .. Len(notifs) :
                                                    notifs[j].key # k)
                             => notifs[i].new.val = snapshot[k].val
                      /\ (~Notified(k) /\ resyncs = 0 /\ phase' # "resync")
                             => view[k] = snapshot[k].val
    BY <1>5 DEF Install
  <2>1. k \notin torn /\ (k \in differs => ~Notified(k))
    BY <1>5 DEF Install
  <2>2. CASE k \in differs
    BY <1>5, <2>1, <2>2 DEF Install
  <2>3. CASE k \notin differs
    BY <1>5, <2>1, <2>3 DEF Install
  <2> QED BY <2>2, <2>3
<1>6. CASE SendResync
  BY <1>6 DEF SendResync, TypeOK
<1>7. CASE Connect
  BY <1>7 DEF Connect
<1>8. CASE ReceiveKnown
  <2>1. Head(ws) \in Event
    BY <1>8, TailElements DEF ReceiveKnown, TypeOK
  <2>2. \A k \in Key : store'[k].val = store[k].val
    BY <1>8, <2>1 DEF ReceiveKnown, TypeOK, Event
  <2> QED BY <1>8, <2>2 DEF ReceiveKnown
<1>9. CASE ReceiveChange
  <2> DEFINE h == Head(ws).key
             n == [key |-> h, old |-> store[h].val, new |-> Head(ws).obj]
  <2>1. Head(ws) \in Event
    BY <1>9, TailElements DEF ReceiveChange, TypeOK
  <2>2. n \in Notification
    BY <2>1 DEF Event, Notification, Object, TypeOK
  <2>3. /\ Len(notifs) \in Nat
        /\ Len(notifs') = Len(notifs) + 1
        /\ \A i \in 1 .. Len(notifs) : notifs'[i] = notifs[i]
        /\ notifs'[Len(notifs) + 1] = n
    BY <1>9, <2>2, AppendElements DEF ReceiveChange, TypeOK
  <2>4. /\ store'[h].val = n.new.val
        /\ \A k \in Key \ {h} : store'[k] = store[k]
        /\ torn' = torn \ {h}
        /\ UNCHANGED <<view, resyncs, phase>>
    BY <1>9, <2>1 DEF ReceiveChange, TypeOK, Event
  <2> HIDE DEF n
  <2>5. n.key = h
    BY DEF n
  <2> SUFFICES ASSUME NEW k \in Key \ torn'
               PROVE  /\ \A i \in 1 .. Len(notifs') :
                           (notifs'[i].key = k /\ \A j \in i + 1 .. Len(notifs') :
                                                     notifs'[j].key # k)
                             => notifs'[i].new.val = store'[k].val
                      /\ (~Notified(k)' /\ resyncs' = 0 /\ phase' # "resync")
                             => view'[k] = store'[k].val
    OBVIOUS
  <2>6. CASE k = h
    <3>1. ASSUME NEW i \in 1 .. Len(notifs'),
                 \A j \in i + 1 .. Len(notifs') : notifs'[j].key # k
          PROVE  i = Len(notifs')
      BY <2>3, <2>5, <2>6, <3>1
    <3>2. Notified(k)'
      BY <2>3, <2>5, <2>6
    <3> QED BY <2>3, <2>4, <2>6, <3>1, <3>2
  <2>7. CASE k # h
    <3>1. k \notin torn /\ store'[k] = store[k]
      BY <2>4, <2>7
    <3>2. ASSUME NEW i \in 1 .. Len(notifs'), notifs'[i].key = k,
                 \A j \in i + 1 .. Len(notifs') : notifs'[j].key # k
          PROVE  notifs'[i].new.val = store'[k].val
      <4>1. i \in 1 .. Len(notifs)
        BY <2>3, <2>5, <2>7, <3>2
      <4>2. \A j \in i + 1 .. Len(notifs) : notifs[j].key # k
        BY <2>3, <3>2, <4>1
      <4> QED BY <2>3, <3>1, <3>2, <4>1, <4>2
    <3>3. Notified(k) => Notified(k)'
      BY <2>3
    <3> QED BY <2>4, <3>1, <3>2, <3>3
  <2> QED BY <2>6, <2>7
<1>10. CASE Deliver
  <2> DEFINE n == Head(notifs)
  <2>1. /\ n \in Notification
        /\ n = notifs[1]
        /\ Len(notifs) \in Nat \ {0}
        /\ Len(notifs') = Len(notifs) - 1
        /\ \A i \in 1 .. Len(notifs') : notifs'[i] = notifs[i + 1]
    BY <1>10, TailElements DEF Deliver, TypeOK
  <2>2. /\ view' = [view EXCEPT ![n.key] = n.new.val]
        /\ UNCHANGED <<store, torn, resyncs, phase>>
    BY <1>10 DEF Deliver
  <2> SUFFICES ASSUME NEW k \in Key \ torn
               PROVE  /\ \A i \in 1 .. Len(notifs') :
                           (notifs'[i].key = k /\ \A j \in i + 1 .. Len(notifs') :
                                                     notifs'[j].key # k)
                             => notifs'[i].new.val = store[k].val
                      /\ (~Notified(k)' /\ resyncs = 0 /\ phase # "resync")
                             => view'[k] = store[k].val
    BY <2>2
  <2>3. ASSUME NEW i \in 1 .. Len(notifs'), notifs'[i].key = k,
               \A j \in i + 1 .. Len(notifs') : notifs'[j].key # k
        PROVE  notifs'[i].new.val = store[k].val
    <3>1. i + 1 \in 1 .. Len(notifs) /\ notifs[i + 1].key = k
      BY <2>1, <2>3
    <3>2. ASSUME NEW j \in i + 2 .. Len(notifs) PROVE notifs[j].key # k
      <4>1. j - 1 \in i + 1 .. Len(notifs') /\ j - 1 \in 1 .. Len(notifs')
        BY <2>1
      <4>2. notifs'[j - 1] = notifs[j]
        BY <2>1, <4>1
      <4> QED BY <2>3, <4>1, <4>2
    <3>3. \A j \in (i + 1) + 1 .. Len(notifs) : notifs[j].key # k
      BY <3>2
    <3>4. notifs[i + 1].new.val = store[k].val
      BY <3>1, <3>3
    <3> QED BY <2>1, <3>4
  <2>4. ASSUME ~Notified(k)', resyncs = 0, phase # "resync"
        PROVE  view'[k] = store[k].val
    <3>1. \A j \in 1 + 1 .. Len(notifs) : notifs[j].key # k
      <4> SUFFICES ASSUME NEW j \in 2 .. Len(notifs) PROVE notifs[j].key # k
        OBVIOUS
      <4>1. j - 1 \in 1 .. Len(notifs')
        BY <2>1
      <4>2. notifs'[j - 1] = notifs[j]
        BY <2>1, <4>1
      <4>3. notifs'[j - 1].key # k
        BY <2>4, <4>1
      <4> QED BY <4>2, <4>3
    <3>2. CASE n.key = k
      <4>1. n.new.val = store[k].val
        BY <2>1, <3>1, <3>2
      <4> QED BY <2>2, <3>2, <4>1 DEF TypeOK
    <3>3. CASE n.key # k
      <4>1. ~Notified(k)
        BY <2>1, <3>1, <3>3
      <4> QED BY <2>2, <2>4, <3>3, <4>1 DEF TypeOK
    <3> QED BY <3>2, <3>3
  <2> QED BY <2>3, <2>4
<1>11. CASE DeliverResync
  BY <1>11 DEF DeliverResync, TypeOK
<1>12. CASE UNCHANGED vars
  BY <1>12 DEF vars
<1> QED BY <1>1, <1>2, <1>3, <1>4, <1>5, <1>6, <1>7, <1>8, <1>9, <1>10,
           <1>11, <1>12 DEF Next, Reflect

(* What the handlers are told catches up with the store, whatever the      *)
(* select! of the informer task prefers: the two channels of               *)
(* informer/mod.rs lose no change of a key no relist overtook.             *)
THEOREM HandlersFollowTheStore == Spec => []HandlersCanFollow
<1>1. Init => HandlersCanFollow
  <2> SUFFICES ASSUME Init PROVE HandlersCanFollow
    OBVIOUS
  <2>1. Len(notifs) = 0 /\ \A k \in Key : view[k] = store[k].val
    BY DEF Init, None
  <2>2. 1 .. Len(notifs) = {}
    BY <2>1
  <2> QED BY <2>1, <2>2 DEF HandlersCanFollow, Notified
<1>2. TypeOK /\ HandlersCanFollow /\ [Next]_vars => HandlersCanFollow'
  BY HandlersStep
<1> QED BY <1>1, <1>2, InformerTypeCorrect, PTL DEF Spec

-------------------------------------------------------------------------------
(* The store and etcd.                                                     *)

(* A write keeps SyncInv: its event goes to the end of a connected stream  *)
(* and is the newest, and without a connection its key enters the gap.     *)
LEMMA SyncWrite ==
  ASSUME TypeOK, SyncInv, NEW w \in Key, NEW v \in Value, Write(w, v)
  PROVE  SyncInv'
<1> USE DEF SyncInv
<1> DEFINE obj == [val |-> v, rev |-> rev + 1]
           e == [key |-> w, obj |-> obj]
<1>1. obj \in Object /\ e \in Event
  BY DEF Object, Event, TypeOK
<1>2. /\ rev' = rev + 1
      /\ etcd' = [etcd EXCEPT ![w] = obj]
      /\ UNCHANGED <<phase, snapshot, store>>
      /\ obj.rev = rev + 1
  BY DEF Write
<1>3. /\ etcd'[w] = obj
      /\ \A k \in Key \ {w} : etcd'[k] = etcd[k]
  BY <1>2 DEF TypeOK
<1>4. /\ rev \in Nat /\ obj.rev \in Nat
      /\ \A k \in Key : /\ etcd[k].rev \in Nat /\ store[k].rev \in Nat
                        /\ snapshot[k].rev \in Nat
                        /\ etcd[k].rev < obj.rev /\ store[k].rev < obj.rev
  BY <1>2 DEF TypeOK, Object, CopiesAreOld, NoNewer
<1>5. \A i \in 1 .. Len(ws) : ws[i].key \in Key /\ ws[i].obj.rev \in Nat
                              /\ ws[i].obj.rev < obj.rev
  <2> SUFFICES ASSUME NEW i \in 1 .. Len(ws)
               PROVE  /\ ws[i].key \in Key /\ ws[i].obj.rev \in Nat
                      /\ ws[i].obj.rev < obj.rev
    OBVIOUS
  <2>1. ws[i] \in Event
    BY DEF TypeOK
  <2>2. ws[i].key \in Key /\ ws[i].obj.rev \in Nat
    BY <2>1 DEF Event, Object
  <2>3. ws[i].obj.rev <= etcd[ws[i].key].rev
    BY DEF EventsInOrder, NoNewer
  <2> QED BY <1>4, <2>2, <2>3
<1>6. CopiesAreOld'
  BY <1>2, <1>3, <1>4 DEF CopiesAreOld, NoNewer
<1> HIDE DEF obj, e
<1>7. CASE phase = "watch"
  <2>1. ws' = Append(ws, e) /\ gap' = gap \ {w}
    BY <1>7 DEF Write, e, obj
  <2>2. /\ Len(ws) \in Nat
        /\ Len(ws') = Len(ws) + 1
        /\ \A i \in 1 .. Len(ws) : ws'[i] = ws[i]
        /\ ws'[Len(ws) + 1] = e
        /\ e.key = w /\ e.obj = obj
    BY <1>1, <2>1, AppendElements DEF TypeOK, e
  <2>3. ListingMissesOnlyGap'
    BY <1>2, <1>7 DEF ListingMissesOnlyGap
  <2>4. EventsInOrder'
    <3> SUFFICES ASSUME NEW i \in 1 .. Len(ws')
                 PROVE  /\ NoNewer(ws'[i].obj, etcd'[ws'[i].key])
                        /\ store[ws'[i].key].rev < ws'[i].obj.rev
                        /\ \A j \in i + 1 .. Len(ws') : ws'[i].obj.rev < ws'[j].obj.rev
      BY <1>2, <1>7 DEF EventsInOrder
    <3>1. CASE i = Len(ws) + 1
      BY <1>3, <1>4, <2>2, <3>1 DEF NoNewer
    <3>2. CASE i \in 1 .. Len(ws)
      <4>1. ws'[i] = ws[i] /\ ws[i].key \in Key
        BY <1>5, <2>2, <3>2
      <4>2. NoNewer(ws[i].obj, etcd'[ws[i].key])
        <5>1. CASE ws[i].key = w
          BY <1>3, <1>4, <1>5, <3>2, <5>1 DEF NoNewer
        <5>2. CASE ws[i].key # w
          BY <1>3, <3>2, <4>1, <5>2 DEF EventsInOrder
        <5> QED BY <5>1, <5>2
      <4>3. ASSUME NEW j \in i + 1 .. Len(ws')
            PROVE  ws[i].obj.rev < ws'[j].obj.rev
        <5>1. CASE j = Len(ws) + 1
          BY <1>5, <2>2, <3>2, <5>1
        <5>2. CASE j # Len(ws) + 1
          <6>1. j \in i + 1 .. Len(ws) /\ j \in 1 .. Len(ws)
            BY <2>2, <3>2, <5>2
          <6> QED BY <2>2, <3>2, <6>1 DEF EventsInOrder
        <5> QED BY <5>1, <5>2
      <4>4. store[ws[i].key].rev < ws[i].obj.rev
        BY <3>2 DEF EventsInOrder
      <4> QED BY <4>1, <4>2, <4>3, <4>4
    <3> QED BY <2>2, <3>1, <3>2
  <2>5. WatchedKeyInSync'
    <3> SUFFICES ASSUME NEW k \in Key \ gap'
                 PROVE  IF Pending(k)' = {}
                          THEN store[k] = etcd'[k]
                          ELSE \E i \in Pending(k)' : /\ ws'[i].obj = etcd'[k]
                                                      /\ \A j \in Pending(k)' : j <= i
      BY <1>2, <1>7 DEF WatchedKeyInSync
    <3>1. CASE k = w
      <4>1. Len(ws) + 1 \in Pending(k)'
        BY <2>2, <3>1 DEF Pending
      <4>2. \A j \in Pending(k)' : j <= Len(ws) + 1
        BY <2>2 DEF Pending
      <4> QED BY <1>3, <2>2, <3>1, <4>1, <4>2
    <3>2. CASE k # w
      <4>1. Pending(k)' = Pending(k)
        BY <2>2, <3>2 DEF Pending
      <4>2. k \notin gap /\ etcd'[k] = etcd[k]
        BY <1>3, <2>1, <3>2
      <4>3. \A i \in Pending(k) : ws'[i] = ws[i]
        BY <2>2 DEF Pending
      <4> QED BY <1>7, <4>1, <4>2, <4>3 DEF WatchedKeyInSync
    <3> QED BY <3>1, <3>2
  <2> QED BY <1>6, <2>3, <2>4, <2>5
<1>8. CASE phase # "watch"
  <2>1. ws = <<>> /\ ws' = ws
    BY <1>8 DEF Write, EventsInOrder
  <2>2. phase # "list" => gap' = gap \cup {w}
    BY <1>8 DEF Write
  <2>3. ListingMissesOnlyGap'
    <3>1. CASE phase = "install"
      <4> SUFFICES ASSUME NEW k \in Key
                   PROVE  /\ NoNewer(store[k], snapshot[k])
                          /\ NoNewer(snapshot[k], etcd'[k])
                          /\ k \notin gap' => snapshot[k] = etcd'[k]
        BY <1>2, <3>1 DEF ListingMissesOnlyGap
      <4>1. NoNewer(store[k], snapshot[k]) /\ NoNewer(snapshot[k], etcd[k])
        BY <3>1 DEF ListingMissesOnlyGap
      <4>2. CASE k = w
        BY <1>3, <1>4, <2>2, <3>1, <4>1, <4>2 DEF NoNewer
      <4>3. CASE k # w
        BY <1>3, <2>2, <3>1, <4>1, <4>3 DEF ListingMissesOnlyGap
      <4> QED BY <4>2, <4>3
    <3>2. CASE phase \in {"resync", "connect"}
      BY <1>2, <1>3, <2>2, <3>2 DEF ListingMissesOnlyGap
    <3>3. CASE phase \notin {"install", "resync", "connect"}
      BY <1>2, <3>3 DEF ListingMissesOnlyGap
    <3> QED BY <3>1, <3>2, <3>3
  <2>4. EventsInOrder'
    <3>1. 1 .. Len(ws') = {}
      BY <2>1
    <3> QED BY <1>2, <1>8, <2>1, <3>1 DEF EventsInOrder
  <2>5. WatchedKeyInSync'
    BY <1>2, <1>8 DEF WatchedKeyInSync
  <2> QED BY <1>6, <2>3, <2>4, <2>5
<1> QED BY <1>7, <1>8

(* Taking the oldest event of the stream keeps SyncInv, whether the store  *)
(* changes contents or not.                                                *)
LEMMA SyncReceive ==
  ASSUME TypeOK, SyncInv, phase = "watch", ws # <<>>,
         ws' = Tail(ws),
         store' = [store EXCEPT ![Head(ws).key] = Head(ws).obj],
         UNCHANGED <<etcd, rev, phase, snapshot, gap>>
  PROVE  SyncInv'
<1> USE DEF SyncInv
<1> DEFINE h == Head(ws).key
<1>1. /\ Head(ws) \in Event /\ Head(ws) = ws[1]
      /\ Len(ws) \in Nat \ {0}
      /\ Len(ws') = Len(ws) - 1
      /\ \A i \in 1 .. Len(ws') : ws'[i] = ws[i + 1]
  BY TailElements DEF TypeOK
<1>2. /\ h \in Key
      /\ store'[h] = ws[1].obj
      /\ \A k \in Key \ {h} : store'[k] = store[k]
  BY <1>1 DEF TypeOK, Event
<1>3. NoNewer(ws[1].obj, etcd[h])
  BY <1>1 DEF EventsInOrder
<1>4. CopiesAreOld'
  BY <1>2, <1>3 DEF CopiesAreOld
<1>5. ListingMissesOnlyGap'
  BY DEF ListingMissesOnlyGap
<1> HIDE DEF h
<1>6. EventsInOrder'
  <2> SUFFICES ASSUME NEW i \in 1 .. Len(ws')
               PROVE  /\ NoNewer(ws'[i].obj, etcd[ws'[i].key])
                      /\ store'[ws'[i].key].rev < ws'[i].obj.rev
                      /\ \A j \in i + 1 .. Len(ws') : ws'[i].obj.rev < ws'[j].obj.rev
    BY DEF EventsInOrder
  <2>1. i + 1 \in 2 .. Len(ws) /\ i + 1 \in 1 .. Len(ws) /\ ws'[i] = ws[i + 1]
    BY <1>1
  <2>2. ws[i + 1].key \in Key
    <3>1. ws[i + 1] \in Event
      BY <2>1 DEF TypeOK
    <3> QED BY <3>1 DEF Event
  <2>3. NoNewer(ws[i + 1].obj, etcd[ws[i + 1].key])
    BY <2>1 DEF EventsInOrder
  <2>4. store'[ws[i + 1].key].rev < ws[i + 1].obj.rev
    <3>1. store[ws[i + 1].key].rev < ws[i + 1].obj.rev
      BY <2>1 DEF EventsInOrder
    <3>2. ws[1].obj.rev < ws[i + 1].obj.rev
      BY <1>1, <2>1 DEF EventsInOrder
    <3> QED BY <1>2, <2>2, <3>1, <3>2
  <2>5. ASSUME NEW j \in i + 1 .. Len(ws')
        PROVE  ws[i + 1].obj.rev < ws'[j].obj.rev
    <3>1. /\ ws'[j] = ws[j + 1]
          /\ j + 1 \in (i + 1) + 1 .. Len(ws)
      BY <1>1, <2>1
    <3> QED BY <2>1, <3>1 DEF EventsInOrder
  <2> QED BY <2>1, <2>3, <2>4, <2>5
<1>7. WatchedKeyInSync'
  <2> SUFFICES ASSUME NEW k \in Key \ gap
               PROVE  IF Pending(k)' = {}
                        THEN store'[k] = etcd[k]
                        ELSE \E i \in Pending(k)' : /\ ws'[i].obj = etcd[k]
                                                    /\ \A j \in Pending(k)' : j <= i
    BY DEF WatchedKeyInSync
  <2>1. \A i \in Nat : i \in Pending(k)' <=> i # 0 /\ i + 1 \in Pending(k)
    BY <1>1 DEF Pending
  <2>2. Pending(k) \subseteq 1 .. Len(ws) /\ Pending(k)' \subseteq 1 .. Len(ws')
    BY DEF Pending
  <2>3. 1 \in Pending(k) <=> k = h
    BY <1>1 DEF Pending, h
  <2>4. CASE Pending(k) = {}
    <3>1. Pending(k)' = {}
      BY <1>1, <2>1, <2>2, <2>4
    <3>2. store[k] = etcd[k] /\ k # h
      BY <2>3, <2>4 DEF WatchedKeyInSync
    <3> QED BY <1>2, <3>1, <3>2
  <2>5. CASE Pending(k) # {}
    <3>1. PICK i \in Pending(k) : ws[i].obj = etcd[k] /\ \A j \in Pending(k) : j <= i
      BY <2>5 DEF WatchedKeyInSync
    <3>2. CASE i = 1
      <4>1. Pending(k)' = {}
        BY <1>1, <2>1, <2>2, <3>1, <3>2
      <4> QED BY <1>2, <2>3, <3>1, <3>2, <4>1
    <3>3. CASE i # 1
      <4>1. i - 1 \in Pending(k)' /\ i - 1 \in 1 .. Len(ws')
        BY <1>1, <2>1, <2>2, <3>1, <3>3
      <4>2. ws'[i - 1].obj = etcd[k]
        BY <1>1, <3>1, <4>1, <2>2
      <4>3. \A j \in Pending(k)' : j <= i - 1
        BY <1>1, <2>1, <2>2, <3>1
      <4> QED BY <4>1, <4>2, <4>3
    <3> QED BY <3>2, <3>3
  <2> QED BY <2>4, <2>5
<1> QED BY <1>4, <1>5, <1>6, <1>7

(* Every step of the informer keeps SyncInv.                               *)
LEMMA SyncStep ==
  ASSUME TypeOK, SyncInv, [Next]_vars
  PROVE  SyncInv'
<1> USE DEF SyncInv
<1>1. ASSUME NEW k \in Key, NEW v \in Value, Write(k, v) PROVE SyncInv'
  BY <1>1, SyncWrite
<1>2. CASE Disconnect
  <2>1. 1 .. Len(ws') = {}
    BY <1>2 DEF Disconnect
  <2>2. CopiesAreOld' /\ ListingMissesOnlyGap' /\ WatchedKeyInSync'
    BY <1>2 DEF Disconnect, CopiesAreOld, ListingMissesOnlyGap, WatchedKeyInSync
  <2>3. EventsInOrder'
    BY <1>2, <2>1 DEF Disconnect, EventsInOrder
  <2> QED BY <2>2, <2>3
<1>3. CASE ConnectFails
  BY <1>3 DEF ConnectFails, CopiesAreOld, ListingMissesOnlyGap, EventsInOrder,
              WatchedKeyInSync
<1>4. CASE List
  <2>1. ListingMissesOnlyGap'
    BY <1>4 DEF List, ListingMissesOnlyGap, CopiesAreOld, NoNewer, TypeOK, Object
  <2>2. CopiesAreOld' /\ EventsInOrder' /\ WatchedKeyInSync'
    BY <1>4 DEF List, CopiesAreOld, EventsInOrder, WatchedKeyInSync
  <2> QED BY <2>1, <2>2
<1>5. CASE Install
  <2>1. /\ store' = snapshot
        /\ phase' \in {"resync", "connect"}
        /\ phase = "install"
        /\ UNCHANGED <<etcd, rev, ws, gap>>
    BY <1>5 DEF Install
  <2>2. ws = <<>> /\ 1 .. Len(ws') = {}
    BY <2>1 DEF EventsInOrder
  <2>3. CopiesAreOld' /\ ListingMissesOnlyGap'
    BY <2>1 DEF CopiesAreOld, ListingMissesOnlyGap
  <2>4. EventsInOrder' /\ WatchedKeyInSync'
    BY <2>1, <2>2 DEF EventsInOrder, WatchedKeyInSync
  <2> QED BY <2>3, <2>4
<1>6. CASE SendResync
  BY <1>6 DEF SendResync, CopiesAreOld, ListingMissesOnlyGap, EventsInOrder,
              WatchedKeyInSync
<1>7. CASE Connect
  <2>1. /\ phase = "connect" /\ phase' = "watch" /\ ws = <<>>
        /\ UNCHANGED <<etcd, rev, ws, store, gap>>
    BY <1>7 DEF Connect, EventsInOrder
  <2>2. 1 .. Len(ws') = {}
    BY <2>1
  <2>3. \A k \in Key : Pending(k)' = {}
    BY <2>2 DEF Pending
  <2>4. CopiesAreOld' /\ ListingMissesOnlyGap'
    BY <2>1 DEF CopiesAreOld, ListingMissesOnlyGap
  <2>5. EventsInOrder'
    BY <2>1, <2>2 DEF EventsInOrder
  <2>6. WatchedKeyInSync'
    BY <2>1, <2>3 DEF ListingMissesOnlyGap, WatchedKeyInSync
  <2> QED BY <2>4, <2>5, <2>6
<1>8. CASE ReceiveKnown
  BY <1>8, SyncReceive DEF ReceiveKnown
<1>9. CASE ReceiveChange
  BY <1>9, SyncReceive DEF ReceiveChange
<1>10. CASE Deliver
  BY <1>10 DEF Deliver, CopiesAreOld, ListingMissesOnlyGap, EventsInOrder,
               WatchedKeyInSync, Pending
<1>11. CASE DeliverResync
  BY <1>11 DEF DeliverResync, CopiesAreOld, ListingMissesOnlyGap, EventsInOrder,
               WatchedKeyInSync, Pending
<1>12. CASE UNCHANGED vars
  BY <1>12 DEF vars, CopiesAreOld, ListingMissesOnlyGap, EventsInOrder,
               WatchedKeyInSync, Pending
<1> QED BY <1>1, <1>2, <1>3, <1>4, <1>5, <1>6, <1>7, <1>8, <1>9, <1>10,
           <1>11, <1>12 DEF Next, Reflect

(* The inductive invariant of the list/watch protocol.                     *)
THEOREM SyncInvariant == Spec => []SyncInv
<1>1. Init => SyncInv
  <2> SUFFICES ASSUME Init PROVE SyncInv
    OBVIOUS
  <2>1. 1 .. Len(ws) = {}
    BY DEF Init
  <2> QED BY <2>1 DEF Init, None, SyncInv, CopiesAreOld, NoNewer,
             ListingMissesOnlyGap, EventsInOrder, WatchedKeyInSync
<1>2. TypeOK /\ SyncInv /\ [Next]_vars => SyncInv'
  BY SyncStep
<1> QED BY <1>1, <1>2, InformerTypeCorrect, PTL DEF Spec

(* While the watch is up the store holds what etcd holds, or the last      *)
(* event under way does, for every key not written between the listing and *)
(* the connection (reflector.rs:40 and :66).                               *)
THEOREM WatchKeepsSync == Spec => []WatchedKeyInSync
<1>1. SyncInv => WatchedKeyInSync
  BY DEF SyncInv
<1> QED BY <1>1, SyncInvariant, PTL

(* The informer implements Mirror: its store lags behind etcd, is never    *)
(* ahead of it and never steps back, across disconnections and relists.    *)
THEOREM InformerMirrorsEtcd == Spec => MirrorsEtcd
<1> USE DEF Mirrored!Object, Object
<1>1. Init => Mirrored!Init
  BY DEF Init, None, Mirrored!Init, Value
<1>2. TypeOK /\ TypeOK' /\ SyncInv /\ [Next]_vars => [Mirrored!Next]_Mirrored!vars
  <2> SUFFICES ASSUME TypeOK, TypeOK', SyncInv, [Next]_vars
               PROVE  Mirrored!Next \/ UNCHANGED Mirrored!vars
    OBVIOUS
  <2> USE DEF Mirrored!Next, Mirrored!vars
  <2>1. ASSUME NEW k \in Key, NEW v \in Value, Write(k, v) PROVE Mirrored!Write(k)
    <3>1. /\ etcd' = [etcd EXCEPT ![k] = [val |-> v, rev |-> rev + 1]]
          /\ UNCHANGED store
      BY <2>1 DEF Write
    <3>2. etcd[k].rev < rev + 1
      BY DEF SyncInv, CopiesAreOld, TypeOK
    <3> QED BY <3>1, <3>2 DEF Mirrored!Write, TypeOK
  <2>2. CASE Install
    <3>1. \A k \in Key : NoNewer(store[k], snapshot[k]) /\ NoNewer(snapshot[k], etcd[k])
      BY <2>2 DEF Install, SyncInv, ListingMissesOnlyGap
    <3> QED BY <2>2, <3>1 DEF Install, Mirrored!CatchUp, NoNewer, TypeOK
  <2>3. CASE ReceiveKnown \/ ReceiveChange
    <3>1. /\ ws # <<>>
          /\ store' = [store EXCEPT ![Head(ws).key] = Head(ws).obj]
          /\ UNCHANGED etcd
      BY <2>3 DEF ReceiveKnown, ReceiveChange
    <3>2. Head(ws) \in Event /\ Head(ws) = ws[1] /\ 1 \in 1 .. Len(ws)
      BY <3>1, TailElements DEF TypeOK
    <3>3. /\ NoNewer(Head(ws).obj, etcd[Head(ws).key])
          /\ store[Head(ws).key].rev < Head(ws).obj.rev
      BY <3>2 DEF SyncInv, EventsInOrder
    <3>4. ASSUME NEW k \in Key
          PROVE  /\ store[k].rev <= store'[k].rev
                 /\ NoNewer(store'[k], etcd[k])
      <4>1. NoNewer(store[k], etcd[k]) /\ store[k].rev \in Nat
        BY DEF SyncInv, CopiesAreOld, TypeOK
      <4>2. Head(ws).obj.rev \in Nat
        BY <3>2 DEF Event
      <4> QED BY <3>1, <3>3, <4>1, <4>2, SMTT(30) DEF TypeOK
    <3> QED BY <3>1, <3>4 DEF Mirrored!CatchUp, NoNewer, TypeOK
  <2>4. CASE UNCHANGED <<etcd, store>>
    BY <2>4
  <2>5. CASE Disconnect \/ ConnectFails \/ List \/ SendResync \/ Connect
             \/ Deliver \/ DeliverResync \/ UNCHANGED vars
    BY <2>4, <2>5 DEF Disconnect, ConnectFails, List, SendResync, Connect,
                      Deliver, DeliverResync, vars
  <2> QED BY <2>1, <2>2, <2>3, <2>5 DEF Next, Reflect
<1> QED BY <1>1, <1>2, InformerTypeCorrect, SyncInvariant, PTL
        DEF Spec, MirrorsEtcd, Mirrored!Spec
===============================================================================
