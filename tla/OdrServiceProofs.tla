-------------------------- MODULE OdrServiceProofs --------------------------
(***************************************************************************)
(* A network of routers is a datagram service, in every network: it        *)
(* implements DatagramService, and so never duplicates a datagram.         *)
(*                                                                         *)
(* Two things are followed through every handler.  Where: a datagram, or   *)
(* its error, is at one place only.  What: a message says nothing that the *)
(* datagram it belongs to did not say, apart from what routers count.      *)
(***************************************************************************)
EXTENDS OdrProofs, FiniteSetTheorems

-----------------------------------------------------------------------------
(* Where.  The messages of datagram id in a queue and in a lot. *)

InQueue(s, id) == \E i \in DOMAIN s : s[i].msg.payload = id

QueuedOnce(s, id) ==
    \A i, j \in DOMAIN s : s[i].msg.payload = id /\ s[j].msg.payload = id => i = j

InLot(lot, id) == \E i \in DOMAIN lot : lot[i].payload = id

ParkedOnce(lot, id) ==
    \A i, j \in DOMAIN lot : lot[i].payload = id /\ lot[j].payload = id => i = j

LotOf(T, n, d) == T[n].entry[d].parking_lot

Absent(q, T, id) ==
    /\ \A a \in HwAddr : ~InQueue(q[a], id)
    /\ \A n, d \in Node : ~InLot(LotOf(T, n, d), id)

(* At most one place of the queues q and the tables T. *)
HeldOnce(q, T, id) ==
    /\ \A a \in HwAddr : QueuedOnce(q[a], id)
    /\ \A n, d \in Node : ParkedOnce(LotOf(T, n, d), id)
    /\ \A a, b \in HwAddr : InQueue(q[a], id) /\ InQueue(q[b], id) => a = b
    /\ \A n, d, m, e \in Node :
          InLot(LotOf(T, n, d), id) /\ InLot(LotOf(T, m, e), id) =>
              n = m /\ d = e
    /\ \A a \in HwAddr, n, d \in Node :
          ~(InQueue(q[a], id) /\ InLot(LotOf(T, n, d), id))

(* At most one place, those where datagrams are delivered included. *)
Once(q, T, D, id) ==
    /\ HeldOnce(q, T, id)
    /\ \A r, s \in D : r.id = id /\ s.id = id => r = s
    /\ (\E r \in D : r.id = id) => Absent(q, T, id)

(* Queues p, or tables U, have of id no more than q, or T. *)
FewerQueued(q, p, id) ==
    \A a \in HwAddr :
        /\ InQueue(p[a], id) => InQueue(q[a], id)
        /\ QueuedOnce(q[a], id) => QueuedOnce(p[a], id)

FewerParked(T, U, id) ==
    \A n, d \in Node :
        /\ InLot(LotOf(U, n, d), id) => InLot(LotOf(T, n, d), id)
        /\ ParkedOnce(LotOf(T, n, d), id) => ParkedOnce(LotOf(U, n, d), id)

(* What.  All that a message says of its datagram. *)
View(h) ==
    [id |-> h.payload,
     flags |-> h.flags \ {"FRC"},
     from |-> <<h.source_id, h.source_port>>,
     to |-> <<h.destination_id, h.destination_port>>]

SeenQueued(q, v) ==
    \E a \in HwAddr : \E i \in DOMAIN q[a] : v = View(q[a][i].msg)

SeenParked(T, v) ==
    \E n, d \in Node :
        \E i \in DOMAIN LotOf(T, n, d) : v = View(LotOf(T, n, d)[i])

Seen(q, T, v) == SeenQueued(q, v) \/ SeenParked(T, v)

(* A REQ or REP. *)
Control(v) == v.id = 0 /\ "DAT" \notin v.flags

-----------------------------------------------------------------------------
(* Fewer messages. *)

LEMMA FewerAbsent ==
    ASSUME NEW q, NEW p, NEW T, NEW U, NEW id,
           FewerQueued(q, p, id), FewerParked(T, U, id), Absent(q, T, id)
    PROVE  Absent(p, U, id)
BY DEF FewerQueued, FewerParked, Absent

LEMMA AbsentOnce ==
    ASSUME NEW q, NEW T, NEW id, Absent(q, T, id)
    PROVE  HeldOnce(q, T, id)
BY DEF Absent, HeldOnce, InQueue, InLot, QueuedOnce, ParkedOnce

LEMMA FewerOnce ==
    ASSUME NEW q, NEW p, NEW T, NEW U, NEW id,
           FewerQueued(q, p, id), FewerParked(T, U, id), HeldOnce(q, T, id)
    PROVE  HeldOnce(p, U, id)
BY DEF FewerQueued, FewerParked, HeldOnce

LEMMA SameFewer ==
    ASSUME NEW q, NEW T, NEW id
    PROVE  FewerQueued(q, q, id) /\ FewerParked(T, T, id)
BY DEF FewerQueued, FewerParked

LEMMA FewerChain ==
    ASSUME NEW q, NEW p, NEW o, NEW id,
           FewerQueued(q, p, id), FewerQueued(p, o, id)
    PROVE  FewerQueued(q, o, id)
BY DEF FewerQueued

-----------------------------------------------------------------------------
(* Queues. *)

Queues == [HwAddr -> Seq(Frame)]

LEMMA TakenFacts ==
    ASSUME rxq \in Queues, NEW a \in HwAddr, rxq[a] # <<>>
    PROVE  /\ Taken(a) \in Queues
           /\ \A id : FewerQueued(rxq, Taken(a), id)
           /\ \A v : SeenQueued(Taken(a), v) => SeenQueued(rxq, v)
           /\ SeenQueued(rxq, View(Head(rxq[a]).msg))
           /\ \A T, id : HeldOnce(rxq, T, id) /\ Head(rxq[a]).msg.payload = id
                            => Absent(Taken(a), T, id)
<1> DEFINE s == rxq[a]
           t == Tail(s)
<1>1. s \in Seq(Frame) /\ s # <<>>
  BY DEF Queues
<1>2. /\ t \in Seq(Frame)
      /\ \A i \in DOMAIN t : i + 1 \in DOMAIN s /\ t[i] = s[i + 1]
      /\ 1 \in DOMAIN s /\ Head(s) = s[1]
      /\ DOMAIN t \subseteq Nat
  BY <1>1
<1>3. \A b \in HwAddr : Taken(a)[b] = IF b = a THEN t ELSE rxq[b]
  BY DEF Taken, Queues
<1>4. Taken(a) \in Queues
  BY <1>2 DEF Taken, Queues
<1> HIDE DEF s, t
<1>5. ASSUME NEW id
      PROVE  /\ InQueue(t, id) => InQueue(s, id)
             /\ QueuedOnce(s, id) => QueuedOnce(t, id)
             /\ QueuedOnce(s, id) /\ Head(s).msg.payload = id => ~InQueue(t, id)
  <2>1. InQueue(t, id) => InQueue(s, id)
    BY <1>2 DEF InQueue
  <2>2. QueuedOnce(s, id) => QueuedOnce(t, id)
    <3> SUFFICES ASSUME QueuedOnce(s, id), NEW i \in DOMAIN t, NEW j \in DOMAIN t,
                        t[i].msg.payload = id, t[j].msg.payload = id
                 PROVE  i = j
      BY DEF QueuedOnce
    <3>1. i + 1 = j + 1
      BY <1>2 DEF QueuedOnce
    <3> QED
      BY <1>2, <3>1
  <2>3. QueuedOnce(s, id) /\ Head(s).msg.payload = id => ~InQueue(t, id)
    <3> SUFFICES ASSUME QueuedOnce(s, id), Head(s).msg.payload = id,
                        NEW i \in DOMAIN t, t[i].msg.payload = id
                 PROVE  FALSE
      BY DEF InQueue
    <3>1. i + 1 = 1
      BY <1>2 DEF QueuedOnce
    <3> QED
      BY <1>2, <3>1
  <2> QED
    BY <2>1, <2>2, <2>3
<1>6. \A id : FewerQueued(rxq, Taken(a), id)
  BY <1>3, <1>5 DEF FewerQueued, s
<1>7. ASSUME NEW v, SeenQueued(Taken(a), v)
      PROVE  SeenQueued(rxq, v)
  <2>1. PICK b \in HwAddr : \E i \in DOMAIN Taken(a)[b] :
             v = View(Taken(a)[b][i].msg)
    BY <1>7 DEF SeenQueued
  <2>2. PICK i \in DOMAIN Taken(a)[b] : v = View(Taken(a)[b][i].msg)
    BY <2>1
  <2>3. \E j \in DOMAIN rxq[b] : v = View(rxq[b][j].msg)
    BY <1>2, <1>3, <2>2 DEF s
  <2> QED
    BY <2>3 DEF SeenQueued
<1>8. SeenQueued(rxq, View(Head(rxq[a]).msg))
  BY <1>2 DEF SeenQueued, s
<1>9. \A T, id : HeldOnce(rxq, T, id) /\ Head(rxq[a]).msg.payload = id
                    => Absent(Taken(a), T, id)
  <2> SUFFICES ASSUME NEW T, NEW id, HeldOnce(rxq, T, id),
                      Head(s).msg.payload = id
               PROVE  Absent(Taken(a), T, id)
    BY DEF s
  <2>1. QueuedOnce(s, id) /\ InQueue(s, id)
    BY <1>2 DEF HeldOnce, InQueue, s
  <2>2. ~InQueue(t, id)
    BY <1>5, <2>1
  <2> QED
    BY <1>3, <2>1, <2>2 DEF HeldOnce, Absent, s
<1> QED
  BY <1>4, <1>6, <1>7, <1>8, <1>9

(* What is in a queue after sending was there before or has been sent. *)
LEMMA SentFacts ==
    ASSUME NEW q \in Queues, NEW out \in Queues
    PROVE  /\ Sent(q, out) \in Queues
           /\ \A a \in HwAddr : \A id :
                 /\ InQueue(Sent(q, out)[a], id)
                       <=> InQueue(q[a], id) \/ InQueue(out[a], id)
                 /\ /\ QueuedOnce(q[a], id) /\ QueuedOnce(out[a], id)
                    /\ ~(InQueue(q[a], id) /\ InQueue(out[a], id))
                    => QueuedOnce(Sent(q, out)[a], id)
           /\ \A v : SeenQueued(Sent(q, out), v)
                        => SeenQueued(q, v) \/ SeenQueued(out, v)
<1>1. \A a \in HwAddr : Sent(q, out)[a] = q[a] \o out[a]
  BY DEF Sent
<1>2. ASSUME NEW a \in HwAddr
      PROVE  LET s == q[a]
                 t == out[a]
                 u == Sent(q, out)[a]
             IN  /\ u \in Seq(Frame)
                 /\ DOMAIN s \subseteq DOMAIN u
                 /\ \A i \in DOMAIN s : u[i] = s[i]
                 /\ \A i \in DOMAIN t : /\ Len(s) + i \in DOMAIN u
                                        /\ u[Len(s) + i] = t[i]
                 /\ \A i \in DOMAIN u \ DOMAIN s : i - Len(s) \in DOMAIN t
                 /\ \A i \in DOMAIN u \ DOMAIN s : u[i] = t[i - Len(s)]
                 /\ DOMAIN u \subseteq Int /\ Len(s) \in Int
  <2> DEFINE s == q[a]
             t == out[a]
             u == s \o t
  <2>1. s \in Seq(Frame) /\ t \in Seq(Frame)
    BY DEF Queues
  <2>0. Sent(q, out)[a] = u
    BY <1>1
  <2> HIDE DEF s, t
  <2>2. /\ u \in Seq(Frame)
        /\ Len(u) = Len(s) + Len(t)
        /\ \A i \in 1..Len(u) : u[i] = IF i <= Len(s) THEN s[i] ELSE t[i - Len(s)]
    BY <2>1, ConcatProperties
  <2>3. /\ DOMAIN s = 1..Len(s) /\ DOMAIN t = 1..Len(t) /\ DOMAIN u = 1..Len(u)
        /\ Len(s) \in Nat /\ Len(t) \in Nat
    BY <2>1, <2>2
  <2> HIDE DEF u
  <2>4. \A i \in DOMAIN t : Len(s) + i \in DOMAIN u /\ u[Len(s) + i] = t[i]
    BY <2>2, <2>3
  <2>5. \A i \in DOMAIN u \ DOMAIN s : i - Len(s) \in DOMAIN t
                                       /\ u[i] = t[i - Len(s)]
    BY <2>2, <2>3
  <2>6. DOMAIN s \subseteq DOMAIN u /\ \A i \in DOMAIN s : u[i] = s[i]
    BY <2>2, <2>3
  <2>7. DOMAIN u \subseteq Int /\ Len(s) \in Int
    BY <2>2, <2>3
  <2> QED
    BY <2>2, <2>4, <2>5, <2>6, <2>7, <2>0 DEF s, t
<1>3. ASSUME NEW a \in HwAddr, NEW id
      PROVE  InQueue(Sent(q, out)[a], id)
                <=> InQueue(q[a], id) \/ InQueue(out[a], id)
  BY <1>2 DEF InQueue
<1>4. ASSUME NEW a \in HwAddr, NEW id,
             QueuedOnce(q[a], id), QueuedOnce(out[a], id),
             ~(InQueue(q[a], id) /\ InQueue(out[a], id))
      PROVE  QueuedOnce(Sent(q, out)[a], id)
  <2> DEFINE s == q[a]
             t == out[a]
             u == Sent(q, out)[a]
  <2> HIDE DEF s, t, u
  <2> SUFFICES ASSUME NEW i \in DOMAIN u, NEW j \in DOMAIN u,
                      u[i].msg.payload = id, u[j].msg.payload = id
               PROVE  i = j
    BY DEF QueuedOnce, u
  <2>1. CASE i \in DOMAIN s /\ j \in DOMAIN s
    BY <1>2, <1>4, <2>1 DEF QueuedOnce, s, u
  <2>2. CASE i \notin DOMAIN s /\ j \notin DOMAIN s
    <3>1. i - Len(s) = j - Len(s)
      BY <1>2, <1>4, <2>2 DEF QueuedOnce, s, t, u
    <3> QED
      BY <1>2, <3>1 DEF s, t, u
  <2>3. CASE (i \in DOMAIN s) # (j \in DOMAIN s)
    BY <1>2, <1>4, <2>3 DEF InQueue, s, t, u
  <2> QED
    BY <2>1, <2>2, <2>3
<1>5. ASSUME NEW v, SeenQueued(Sent(q, out), v)
      PROVE  SeenQueued(q, v) \/ SeenQueued(out, v)
  <2>1. PICK a \in HwAddr : \E i \in DOMAIN Sent(q, out)[a] :
             v = View(Sent(q, out)[a][i].msg)
    BY <1>5 DEF SeenQueued
  <2>2. PICK i \in DOMAIN Sent(q, out)[a] : v = View(Sent(q, out)[a][i].msg)
    BY <2>1
  <2>3. CASE i \in DOMAIN q[a]
    BY <1>2, <2>2, <2>3 DEF SeenQueued
  <2>4. CASE i \notin DOMAIN q[a]
    BY <1>2, <2>2, <2>4 DEF SeenQueued
  <2> QED
    BY <2>3, <2>4
<1>6. Sent(q, out) \in Queues
  BY <1>2 DEF Sent, Queues
<1> QED
  BY <1>3, <1>4, <1>5, <1>6

LEMMA FloodFacts ==
    ASSUME NEW n \in Node, NEW except, NEW h \in Header
    PROVE  /\ Flood(n, except, h) \in Queues
           /\ \A a \in HwAddr : \A id :
                 InQueue(Flood(n, except, h)[a], id) => id = h.payload
           /\ \A v : SeenQueued(Flood(n, except, h), v) => v = View(h)
<1> DEFINE out == Flood(n, except, h)
           F == [a \in HwAddr |-> Frame]
<1>1. MaySend(n, F, h)
  <2> SUFFICES ASSUME NEW a \in HwAddr, a[2] \in Interfaces(n)
               PROVE  [from |-> <<n, a[2]>>, msg |-> h] \in Frame
    BY DEF MaySend
  <2>1. <<n, a[2]>> \in HwAddr
    BY InterfaceAddress
  <2> QED
    BY <2>1 DEF Frame
<1>2. out \in Queues
  <2>1. Within(out, F)
    BY <1>1, FloodWithin
  <2> QED
    BY <2>1 DEF Within, Queues
<1>3. \A a \in HwAddr : \A i \in DOMAIN out[a] : out[a][i].msg = h
  <2> SUFFICES ASSUME NEW a \in HwAddr, NEW i \in DOMAIN out[a]
               PROVE  out[a][i].msg = h
    OBVIOUS
  <2>1. out[a] # <<>>
    BY <1>2 DEF Queues
  <2>2. out[a] = << [from |-> <<n, a[2]>>, msg |-> h] >>
    BY <2>1 DEF Flood
  <2> QED
    BY <2>2
<1> QED
  BY <1>2, <1>3 DEF InQueue, SeenQueued

LEMMA UnicastFacts ==
    ASSUME NEW n \in Node, NEW s, NEW hw, NEW hs \in Seq(Header)
    PROVE  /\ Unicast(n, s, hw, hs) \in Queues
           /\ \A a \in HwAddr : \A id :
                 /\ InQueue(Unicast(n, s, hw, hs)[a], id)
                       => a = hw /\ InLot(hs, id)
                 /\ ParkedOnce(hs, id)
                       => QueuedOnce(Unicast(n, s, hw, hs)[a], id)
           /\ \A v : SeenQueued(Unicast(n, s, hw, hs), v)
                        => \E i \in DOMAIN hs : v = View(hs[i])
<1> DEFINE out == Unicast(n, s, hw, hs)
           frames == [i \in 1..Len(hs) |-> [from |-> <<n, s>>, msg |-> hs[i]]]
<1>1. ASSUME NEW a \in HwAddr
      PROVE  /\ out[a] \in Seq(Frame)
             /\ \A i \in DOMAIN out[a] : /\ a = hw /\ i \in DOMAIN hs
                                         /\ out[a][i].msg = hs[i]
  <2>1. CASE a = hw /\ a[2] = s /\ s \in Interfaces(n)
    <3>1. <<n, s>> \in HwAddr
      BY <2>1, InterfaceAddress
    <3>2. Len(hs) \in Nat /\ \A i \in 1..Len(hs) : hs[i] \in Header
      OBVIOUS
    <3>3. frames \in [1..Len(hs) -> Frame]
      BY <3>1, <3>2 DEF Frame
    <3>4. out[a] = frames
      BY <2>1 DEF Unicast
    <3>5. \A i \in DOMAIN frames : i \in DOMAIN hs /\ frames[i].msg = hs[i]
      OBVIOUS
    <3> HIDE DEF frames, out
    <3> QED
      BY <2>1, <3>2, <3>3, <3>4, <3>5, FunctionSequence
  <2>2. CASE ~(a = hw /\ a[2] = s /\ s \in Interfaces(n))
    <3>1. out[a] = <<>>
      BY <2>2 DEF Unicast
    <3> HIDE DEF out
    <3> QED
      BY <3>1, EmptySeq
  <2> QED
    BY <2>1, <2>2
<1>2. out \in Queues
  BY <1>1 DEF Unicast, Queues
<1> HIDE DEF out
<1>3. ASSUME NEW a \in HwAddr, NEW id
      PROVE  /\ InQueue(out[a], id) => a = hw /\ InLot(hs, id)
             /\ ParkedOnce(hs, id) => QueuedOnce(out[a], id)
  BY <1>1 DEF InQueue, InLot, QueuedOnce, ParkedOnce
<1>4. \A v : SeenQueued(out, v) => \E i \in DOMAIN hs : v = View(hs[i])
  BY <1>1 DEF SeenQueued
<1> QED
  BY <1>2, <1>3, <1>4 DEF out

-----------------------------------------------------------------------------
(* Lots. *)

(* Parking h adds nothing to a lot but h. *)
LEMMA ParkPlaces ==
    ASSUME NEW lot \in Seq(Header), Single(lot), NEW h \in Header,
           NEW p, p = Park(lot, h)
    PROVE  /\ \A id : id # h.payload =>
                 /\ InLot(p, id) => InLot(lot, id)
                 /\ ParkedOnce(lot, id) => ParkedOnce(p, id)
           /\ \A id : id = h.payload /\ ~InLot(lot, id) => ParkedOnce(p, id)
           /\ \A i \in DOMAIN p : \/ View(p[i]) = View(h)
                                  \/ \E k \in DOMAIN lot : p[i] = lot[k]
<1>1. CASE p = lot
  BY <1>1 DEF InLot, ParkedOnce
<1>2. CASE p # lot
  <2> DEFINE r == RemoveCar(lot, h)
             c == Car(h)
             m == <<c>> \o r
  <2>1. /\ r \in Seq(Header)
        /\ \A i \in DOMAIN r :
              \E k \in DOMAIN lot : r[i] = lot[k] /\ ~SameCar(lot[k], h)
        /\ Single(r)
    BY RemoveCarFacts
  <2>2. View(c) = View(h) /\ c.payload = h.payload
    BY DEF Car, View, Header
  <2>3. p = m
    BY <1>2 DEF Park, InsertCar
  <2> HIDE DEF r, c
  <2>4. /\ DOMAIN m = 1..(Len(r) + 1)
        /\ m[1] = c
        /\ \A i \in DOMAIN m : i # 1 => i - 1 \in DOMAIN r /\ m[i] = r[i - 1]
        /\ DOMAIN m \subseteq Int
    BY <2>1
  <2> HIDE DEF m
  <2>5. \A i \in DOMAIN p : i # 1 => \E k \in DOMAIN lot : p[i] = lot[k]
    BY <2>1, <2>3, <2>4
  <2>6. p[1] = c
    BY <2>3, <2>4
  <2>7. ASSUME NEW id, id # h.payload, ParkedOnce(lot, id)
        PROVE  ParkedOnce(p, id)
    <3> SUFFICES ASSUME NEW i \in DOMAIN p, NEW j \in DOMAIN p,
                        p[i].payload = id, p[j].payload = id
                 PROVE  i = j
      BY DEF ParkedOnce
    <3>1. i # 1 /\ j # 1
      BY <2>2, <2>6, <2>7
    <3>2. p[i] = p[j]
      BY <2>5, <2>7, <3>1 DEF ParkedOnce
    <3>3. /\ i - 1 \in DOMAIN r /\ j - 1 \in DOMAIN r
          /\ SameCar(r[i - 1], r[j - 1])
      BY <2>3, <2>4, <3>1, <3>2 DEF SameCar
    <3>4. i - 1 = j - 1
      BY <2>1, <3>3 DEF Single
    <3> QED
      BY <2>3, <2>4, <3>4
  <2>8. ASSUME NEW id, id # h.payload, InLot(p, id)
        PROVE  InLot(lot, id)
    BY <2>2, <2>5, <2>6, <2>8 DEF InLot
  <2>9. ASSUME NEW id, id = h.payload, ~InLot(lot, id)
        PROVE  ParkedOnce(p, id)
    BY <2>5, <2>9 DEF InLot, ParkedOnce
  <2> QED
    BY <2>2, <2>5, <2>6, <2>7, <2>8, <2>9
<1> QED
  BY <1>1, <1>2

(* Searches and routes are not about messages. *)
LEMMA TableFacts ==
    ASSUME NEW T \in [Node -> Table], NEW n \in Node, NEW u,
           SameSearches(T[n], u)
    PROVE  /\ \A id : FewerParked(T, [T EXCEPT ![n] = u], id)
           /\ \A v : SeenParked([T EXCEPT ![n] = u], v) => SeenParked(T, v)
<1> DEFINE U == [T EXCEPT ![n] = u]
<1>1. \A m, d \in Node : LotOf(U, m, d) = LotOf(T, m, d)
  BY DEF SameSearches, LotOf
<1> HIDE DEF U
<1>2. \A id : FewerParked(T, U, id)
  BY <1>1 DEF FewerParked
<1>3. \A v : SeenParked(U, v) => SeenParked(T, v)
  BY <1>1 DEF SeenParked
<1> QED
  BY <1>2, <1>3 DEF U

-----------------------------------------------------------------------------
(* What one router does with message h, which is not in queues q or tables *)
(* T any more: it drops the message, or puts it in one place.              *)

Dropped(q, T) ==
    /\ \A id : FewerQueued(q, rxq', id) /\ FewerParked(T, rt_table', id)
    /\ \A v : Seen(rxq', rt_table', v) => Seen(q, T, v)

Handled(q, T, h) ==
    /\ \A id : id # 0 /\ id # h.payload =>
          FewerQueued(q, rxq', id) /\ FewerParked(T, rt_table', id)
    /\ \A id : id # 0 /\ id = h.payload /\ Absent(q, T, id) =>
          HeldOnce(rxq', rt_table', id)
    /\ \A v : Seen(rxq', rt_table', v) =>
          Seen(q, T, v) \/ v = View(h) \/ Control(v)

LEMMA DroppedHandled ==
    ASSUME NEW q, NEW T, NEW h, Dropped(q, T)
    PROVE  Handled(q, T, h)
BY FewerAbsent, AbsentOnce DEF Dropped, Handled

(* A table with the same searches, and nothing sent. *)
LEMMA OnlyTable ==
    ASSUME rt_table \in [Node -> Table], NEW n \in Node, NEW u,
           SameSearches(rt_table[n], u), NEW q,
           rt_table' = [rt_table EXCEPT ![n] = u], rxq' = q
    PROVE  Dropped(q, rt_table)
BY TableFacts, SameFewer DEF Dropped, Seen

(* h leaves in one frame. *)
LEMMA SentHandled ==
    ASSUME rt_table \in [Node -> Table], NEW n \in Node, NEW t,
           SameSearches(rt_table[n], t), NEW h \in Header,
           NEW q \in Queues, NEW s, NEW hw,
           rt_table' = [rt_table EXCEPT ![n] = t],
           rxq' = Sent(q, Unicast(n, s, hw, <<h>>))
    PROVE  Handled(q, rt_table, h)
<1> DEFINE hs == <<h>>
           out == Unicast(n, s, hw, hs)
<1>1. /\ hs \in Seq(Header)
      /\ \A id : ParkedOnce(hs, id) /\ (InLot(hs, id) => id = h.payload)
      /\ \A i \in DOMAIN hs : View(hs[i]) = View(h)
  BY DEF ParkedOnce, InLot
<1>2. rxq' = Sent(q, out)
  OBVIOUS
<1> HIDE DEF hs
<1>3. /\ out \in Queues
      /\ \A a \in HwAddr : \A id :
            /\ InQueue(out[a], id) => a = hw /\ id = h.payload
            /\ QueuedOnce(out[a], id)
      /\ \A v : SeenQueued(out, v) => v = View(h)
  <2>1. /\ out \in Queues
        /\ \A a \in HwAddr : \A id :
              /\ InQueue(out[a], id) => a = hw /\ InLot(hs, id)
              /\ ParkedOnce(hs, id) => QueuedOnce(out[a], id)
        /\ \A v : SeenQueued(out, v) => \E i \in DOMAIN hs : v = View(hs[i])
    BY <1>1, UnicastFacts
  <2> HIDE DEF out
  <2> QED
    BY <1>1, <2>1
<1> HIDE DEF out
<1>4. /\ \A id : FewerParked(rt_table, rt_table', id)
      /\ \A v : SeenParked(rt_table', v) => SeenParked(rt_table, v)
  BY TableFacts
<1>5. /\ \A a \in HwAddr : \A id :
            /\ InQueue(rxq'[a], id) <=> InQueue(q[a], id) \/ InQueue(out[a], id)
            /\ /\ QueuedOnce(q[a], id) /\ QueuedOnce(out[a], id)
               /\ ~(InQueue(q[a], id) /\ InQueue(out[a], id))
               => QueuedOnce(rxq'[a], id)
      /\ \A v : SeenQueued(rxq', v) => SeenQueued(q, v) \/ SeenQueued(out, v)
  <2> DEFINE p == Sent(q, out)
  <2>1. /\ \A a \in HwAddr : \A id :
              /\ InQueue(p[a], id) <=> InQueue(q[a], id) \/ InQueue(out[a], id)
              /\ /\ QueuedOnce(q[a], id) /\ QueuedOnce(out[a], id)
                 /\ ~(InQueue(q[a], id) /\ InQueue(out[a], id))
                 => QueuedOnce(p[a], id)
        /\ \A v : SeenQueued(p, v) => SeenQueued(q, v) \/ SeenQueued(out, v)
    BY <1>3, SentFacts
  <2>2. rxq' = p
    BY <1>2
  <2> HIDE DEF p
  <2> QED
    BY <2>1, <2>2
<1>6. ASSUME NEW id, id # h.payload
      PROVE  FewerQueued(q, rxq', id)
  BY <1>3, <1>5, <1>6 DEF FewerQueued
<1>7. ASSUME NEW id, id = h.payload, Absent(q, rt_table, id)
      PROVE  HeldOnce(rxq', rt_table', id)
  <2>1. \A m, d \in Node : ~InLot(LotOf(rt_table', m, d), id)
    BY <1>4, <1>7 DEF FewerParked, Absent
  <2>2. \A m, d \in Node : ParkedOnce(LotOf(rt_table', m, d), id)
    BY <2>1 DEF InLot, ParkedOnce
  <2>3. \A a \in HwAddr : ~InQueue(q[a], id) /\ QueuedOnce(q[a], id)
    BY <1>7 DEF Absent, InQueue, QueuedOnce
  <2>4. \A a \in HwAddr : /\ InQueue(rxq'[a], id) => a = hw
                          /\ QueuedOnce(rxq'[a], id)
    BY <1>3, <1>5, <2>3
  <2> QED
    BY <2>1, <2>2, <2>4 DEF HeldOnce
<1> QED
  BY <1>3, <1>4, <1>5, <1>6, <1>7 DEF Handled, Seen

(* A REQ belongs to no datagram. *)
LEMMA RequestView ==
    ASSUME NEW n \in Node, NEW d \in Node, NEW bid \in 0..MaxBroadcastId,
           NEW forced
    PROVE  /\ RouteRequest(n, d, bid, forced) \in Header
           /\ RouteRequest(n, d, bid, forced).payload = 0
           /\ Control(View(RouteRequest(n, d, bid, forced)))
BY DEF RouteRequest, View, Control, Header, Flag

(* broadcast_req sends nothing but a REQ. *)
LEMMA BroadcastReqPlaces ==
    ASSUME rt_table \in [Node -> Table],
           g_broadcast_id \in [Node -> 0..MaxBroadcastId],
           NEW n \in Node, NEW t \in Table, NEW d \in Node, NEW forced,
           NEW except, NEW q \in Queues,
           BroadcastReq(n, t, q, d, forced, except)
    PROVE  /\ \A id : id # 0 => FewerQueued(q, rxq', id)
           /\ \A v : SeenQueued(rxq', v) => SeenQueued(q, v) \/ Control(v)
           /\ \A m, c \in Node :
                 LotOf(rt_table', m, c)
                    = IF m = n THEN t.entry[c].parking_lot
                               ELSE LotOf(rt_table, m, c)
<1>1. CASE t.entry[d].finding_route
  BY <1>1, SameFewer DEF BroadcastReq, LotOf
<1>2. CASE ~t.entry[d].finding_route
  <2> DEFINE bid == NextBroadcastId(g_broadcast_id[n])
             h == RouteRequest(n, d, bid, forced)
             out == Flood(n, except, h)
             u == [t EXCEPT !.entry[d].finding_route = TRUE]
  <2>1. /\ rxq' = Sent(q, out)
        /\ rt_table' = [rt_table EXCEPT ![n] = u]
    BY <1>2 DEF BroadcastReq
  <2>2. bid \in 0..MaxBroadcastId
    BY BroadcastIdAssumption DEF NextBroadcastId
  <2> HIDE DEF bid
  <2>3. h \in Header /\ h.payload = 0 /\ Control(View(h))
    BY <2>2, RequestView
  <2> HIDE DEF h
  <2>4. /\ out \in Queues
        /\ \A a \in HwAddr : \A id : InQueue(out[a], id) => id = 0
        /\ \A v : SeenQueued(out, v) => Control(v)
    BY <2>3, FloodFacts
  <2> HIDE DEF out
  <2>5. \A c \in Node : u.entry[c].parking_lot = t.entry[c].parking_lot
    BY DEF Table, Entry
  <2> HIDE DEF u
  <2>6. \A m, c \in Node :
           LotOf(rt_table', m, c) = IF m = n THEN t.entry[c].parking_lot
                                             ELSE LotOf(rt_table, m, c)
    BY <2>1, <2>5 DEF LotOf
  <2>7. ASSUME NEW id, id # 0
        PROVE  FewerQueued(q, rxq', id)
    <3>1. \A a \in HwAddr : ~InQueue(out[a], id) /\ QueuedOnce(out[a], id)
      BY <2>4, <2>7 DEF InQueue, QueuedOnce
    <3> QED
      BY <2>1, <2>4, <3>1, SentFacts DEF FewerQueued
  <2>8. \A v : SeenQueued(rxq', v) => SeenQueued(q, v) \/ Control(v)
    BY <2>1, <2>4, SentFacts
  <2> QED
    BY <2>6, <2>7, <2>8
<1> QED
  BY <1>1, <1>2

LEMMA SendOrParkHandled ==
    ASSUME rt_table \in [Node -> Table],
           g_broadcast_id \in [Node -> 0..MaxBroadcastId],
           NEW n \in Node, NEW t \in Table, SameSearches(rt_table[n], t),
           \A c \in Node : Single(t.entry[c].parking_lot),
           NEW h \in Header, NEW q \in Queues, NEW except,
           SendOrPark(n, t, q, h, except)
    PROVE  Handled(q, rt_table, h)
<1> DEFINE d == h.destination_id
           u == ParkMsg(t, h)
           lot == t.entry[d].parking_lot
           p == Park(lot, h)
<1>1. CASE ~IsStale(t, d)
  BY <1>1, SentHandled DEF SendOrPark
<1>2. CASE IsStale(t, d)
  <2>1. d \in Node
    BY DEF Header
  <2>2. BroadcastReq(n, u, q, d, IsFlagSet(h, "FRC"), except)
    BY <1>2 DEF SendOrPark
  <2>3. /\ u \in Table
        /\ \A c \in Node : u.entry[c].parking_lot =
              IF c = d THEN p ELSE t.entry[c].parking_lot
    BY ParkFacts
  <2> HIDE DEF u, d
  <2>4. /\ \A id : id # 0 => FewerQueued(q, rxq', id)
        /\ \A v : SeenQueued(rxq', v) => SeenQueued(q, v) \/ Control(v)
        /\ \A m, c \in Node :
              LotOf(rt_table', m, c) = IF m = n THEN u.entry[c].parking_lot
                                                ELSE LotOf(rt_table, m, c)
    BY <2>1, <2>2, <2>3, BroadcastReqPlaces
  <2>5. /\ lot \in Seq(Header) /\ Single(lot)
        /\ lot = LotOf(rt_table, n, d)
    BY <2>1 DEF Table, Entry, SameSearches, LotOf
  <2>6. \A m, c \in Node :
           LotOf(rt_table', m, c) = IF m = n /\ c = d THEN p
                                    ELSE LotOf(rt_table, m, c)
    BY <2>3, <2>4 DEF SameSearches, LotOf
  <2> HIDE DEF lot
  <2>7. /\ \A id : id # h.payload =>
              /\ InLot(p, id) => InLot(lot, id)
              /\ ParkedOnce(lot, id) => ParkedOnce(p, id)
        /\ \A id : id = h.payload /\ ~InLot(lot, id) => ParkedOnce(p, id)
        /\ \A i \in DOMAIN p : \/ View(p[i]) = View(h)
                               \/ \E k \in DOMAIN lot : p[i] = lot[k]
    BY <2>5, ParkPlaces
  <2> HIDE DEF p
  <2>8. ASSUME NEW id, id # h.payload
        PROVE  FewerParked(rt_table, rt_table', id)
    BY <2>5, <2>6, <2>7, <2>8 DEF FewerParked
  <2>9. ASSUME NEW id, id # 0, id = h.payload, Absent(q, rt_table, id)
        PROVE  HeldOnce(rxq', rt_table', id)
    <3>1. \A a \in HwAddr : ~InQueue(rxq'[a], id)
      BY <2>4, <2>9 DEF FewerQueued, Absent
    <3>2. \A a \in HwAddr : QueuedOnce(rxq'[a], id)
      BY <3>1 DEF InQueue, QueuedOnce
    <3>3. ParkedOnce(p, id)
      BY <2>1, <2>5, <2>7, <2>9 DEF Absent
    <3>4. \A m, c \in Node : InLot(LotOf(rt_table', m, c), id) => m = n /\ c = d
      BY <2>6, <2>9 DEF Absent
    <3>5. \A m, c \in Node : ParkedOnce(LotOf(rt_table', m, c), id)
      BY <2>6, <3>3, <3>4 DEF InLot, ParkedOnce
    <3> QED
      BY <3>1, <3>2, <3>4, <3>5 DEF HeldOnce
  <2>10. ASSUME NEW v, SeenParked(rt_table', v)
         PROVE  SeenParked(rt_table, v) \/ v = View(h)
    <3>1. PICK m \in Node, c \in Node :
             \E i \in DOMAIN LotOf(rt_table', m, c) :
                v = View(LotOf(rt_table', m, c)[i])
      BY <2>10 DEF SeenParked
    <3>2. CASE m = n /\ c = d
      BY <2>1, <2>5, <2>6, <2>7, <3>1, <3>2 DEF SeenParked
    <3>3. CASE ~(m = n /\ c = d)
      BY <2>6, <3>1, <3>3 DEF SeenParked
    <3> QED
      BY <3>2, <3>3
  <2> QED
    BY <2>4, <2>8, <2>9, <2>10 DEF Handled, Seen
<1> QED
  BY <1>1, <1>2

LEMMA RouteMsgHandled ==
    ASSUME rt_table \in [Node -> Table],
           g_broadcast_id \in [Node -> 0..MaxBroadcastId],
           NEW n \in Node, NEW t \in Table, SameSearches(rt_table[n], t),
           \A c \in Node : Single(t.entry[c].parking_lot),
           NEW h \in Header, NEW q \in Queues, RouteMsg(n, t, q, h)
    PROVE  Handled(q, rt_table, h)
<1>1. CASE h.destination_id = n
  BY <1>1, OnlyTable, DroppedHandled DEF RouteMsg
<1>2. CASE h.destination_id # n
  <2> DEFINE u == QueryTable(t, h.destination_id)
  <2>1. SendOrPark(n, u, q, h, {})
    BY <1>2 DEF RouteMsg
  <2>2. h.destination_id \in Node
    BY DEF Header
  <2>3. u \in Table /\ SameSearches(t, u)
    BY <2>2, QueryFacts
  <2> HIDE DEF u
  <2>4. SameSearches(rt_table[n], u)
    BY <2>3, RouteChain
  <2>5. \A c \in Node : Single(u.entry[c].parking_lot)
    BY <2>3 DEF SameSearches
  <2> QED
    BY <2>1, <2>3, <2>4, <2>5, SendOrParkHandled
<1> QED
  BY <1>1, <1>2

(* h is for a client of router n: it is delivered, or dropped, or an error *)
(* takes its place.                                                        *)
LEMMA RouteToSelfHandled ==
    ASSUME rt_table \in [Node -> Table],
           g_broadcast_id \in [Node -> 0..MaxBroadcastId],
           NEW n \in Node, NEW t \in Table, SameSearches(rt_table[n], t),
           \A c \in Node : Single(t.entry[c].parking_lot),
           NEW h \in Header, NEW q \in Queues, NEW ports,
           RouteToSelf(n, t, q, h, ports)
    PROVE  \/ /\ CanDeliver(n, ports, h)
              /\ Dropped(q, rt_table)
              /\ Deliver(n, h)
           \/ /\ delivered' = delivered
              /\ Dropped(q, rt_table)
           \/ /\ delivered' = delivered
              /\ ~CanDeliver(n, ports, h)
              /\ ~IsFlagSet(h, "ERR")
              /\ Handled(q, rt_table, ErrorReport(h))
<1>1. ErrorReport(h) \in Header
  BY DEF ErrorReport, SwapRoles, Header, Flag
<1>2. CASE CanDeliver(n, ports, h)
  BY <1>2, OnlyTable DEF RouteToSelf
<1>3. CASE ~CanDeliver(n, ports, h) /\ IsFlagSet(h, "ERR")
  BY <1>3, OnlyTable DEF RouteToSelf
<1>4. CASE ~CanDeliver(n, ports, h) /\ ~IsFlagSet(h, "ERR")
  <2>1. RouteMsg(n, t, q, ErrorReport(h)) /\ delivered' = delivered
    BY <1>4 DEF RouteToSelf
  <2> QED
    BY <1>1, <1>4, <2>1, RouteMsgHandled
<1> QED
  BY <1>2, <1>3, <1>4

-----------------------------------------------------------------------------
(* The network.  What is said of datagram id of the flows A. *)

TransitView(A, id) ==
    [id |-> id, flags |-> {"DAT"},
     from |-> <<A[id].src, A[id].sport>>, to |-> <<A[id].dst, A[id].dport>>]

ErrorView(A, id) ==
    [id |-> id, flags |-> {"DAT", "ERR"},
     from |-> <<A[id].dst, A[id].dport>>, to |-> <<A[id].src, A[id].sport>>]

(* v is what a REQ, a REP, a datagram of A, or the error of one says. *)
Honest(A, v) ==
    \/ Control(v)
    \/ v.id \in DOMAIN A /\ v \in {TransitView(A, v.id), ErrorView(A, v.id)}

CopyInv ==
    /\ LotInv
    /\ \A id \in DOMAIN accepted : Once(rxq, rt_table, delivered, id)
    /\ \A v : Seen(rxq, rt_table, v) => Honest(accepted, v)
    /\ \A r \in delivered : r.id \in DOMAIN accepted
    /\ \A n \in Node : ServerPort \in client_list[n]

(* A message with view v is there before the step, or is being sent. *)
Present(v) ==
    \/ Seen(rxq, rt_table, v)
    \/ /\ accepted' # accepted
       /\ v = TransitView(accepted', Len(accepted) + 1)

(* What a step may do: datagrams stay where they are, or move; a datagram  *)
(* becomes an error if its destination may be unknown; and a datagram, or  *)
(* an error, is delivered to the process it is for.                        *)
Progress ==
    /\ \A id \in DOMAIN accepted' : Once(rxq', rt_table', delivered', id)
    /\ \A v : Seen(rxq', rt_table', v) =>
          \/ Control(v)
          \/ Present(v)
          \/ \E id \in DOMAIN accepted' :
                /\ v = ErrorView(accepted', id)
                /\ Present(TransitView(accepted', id))
                /\ ~(/\ accepted'[id].dport = ServerPort
                     /\ <<accepted'[id].dst, ServerPort>> \in Alive)
    /\ delivered \subseteq delivered'
    /\ \A r \in delivered' \ delivered :
          \E id \in DOMAIN accepted' :
             \/ /\ r = [id |-> id, node |-> accepted'[id].dst,
                        port |-> accepted'[id].dport, err |-> FALSE]
                /\ Present(TransitView(accepted', id))
                /\ <<accepted'[id].dst, accepted'[id].dport>> \in Alive
             \/ /\ r = [id |-> id, node |-> accepted'[id].src,
                        port |-> accepted'[id].sport, err |-> TRUE]
                /\ Present(ErrorView(accepted', id))

(* The datagrams of a step: those that were there and the one it sends. *)
Sending == accepted' = accepted \/ \E f \in Flow : accepted' = Append(accepted, f)

LEMMA SendingFacts ==
    ASSUME CopyInv, Sending
    PROVE  /\ DOMAIN accepted \subseteq DOMAIN accepted'
           /\ \A id \in DOMAIN accepted : accepted'[id] = accepted[id]
           /\ \A id \in DOMAIN accepted' : id \in Nat \ {0}
           /\ \A id \in DOMAIN accepted' \ DOMAIN accepted :
                 accepted' # accepted /\ id = Len(accepted) + 1
           /\ accepted' # accepted =>
                 /\ Len(accepted) + 1 \in DOMAIN accepted'
                 /\ Len(accepted) + 1 \notin DOMAIN accepted
<1>1. accepted \in Seq(Flow)
  BY DEF CopyInv, LotInv, IInv, TypeOK
<1>2. CASE accepted' = accepted
  BY <1>1, <1>2
<1>3. CASE \E f \in Flow : accepted' = Append(accepted, f)
  BY <1>1, <1>3
<1> QED
  BY <1>2, <1>3 DEF Sending

(* A datagram is seen where it is held, and only there. *)
LEMMA SeenAbsent ==
    ASSUME NEW q, NEW T, NEW id
    PROVE  Absent(q, T, id) <=> \A v : Seen(q, T, v) => v.id # id
<1>1. ASSUME Absent(q, T, id), NEW v, Seen(q, T, v)
      PROVE  v.id # id
  <2>1. CASE SeenQueued(q, v)
    BY <1>1, <2>1 DEF Absent, InQueue, SeenQueued, View
  <2>2. CASE SeenParked(T, v)
    BY <1>1, <2>2 DEF Absent, InLot, SeenParked, View
  <2> QED
    BY <1>1, <2>1, <2>2 DEF Seen
<1>2. ASSUME \A v : Seen(q, T, v) => v.id # id
      PROVE  Absent(q, T, id)
  <2>1. ASSUME NEW a \in HwAddr, NEW i \in DOMAIN q[a], q[a][i].msg.payload = id
        PROVE  FALSE
    <3>1. Seen(q, T, View(q[a][i].msg))
      BY DEF Seen, SeenQueued
    <3>2. View(q[a][i].msg).id = id
      BY <2>1 DEF View
    <3> QED
      BY <1>2, <3>1, <3>2
  <2>2. ASSUME NEW n \in Node, NEW d \in Node, NEW i \in DOMAIN LotOf(T, n, d),
               LotOf(T, n, d)[i].payload = id
        PROVE  FALSE
    <3>1. Seen(q, T, View(LotOf(T, n, d)[i]))
      BY DEF Seen, SeenParked
    <3>2. View(LotOf(T, n, d)[i]).id = id
      BY <2>2 DEF View
    <3> QED
      BY <1>2, <3>1, <3>2
  <2> QED
    BY <2>1, <2>2 DEF Absent, InQueue, InLot
<1> QED
  BY <1>1, <1>2

(* What is held once is seen in one form. *)
LEMMA SeenOnce ==
    ASSUME NEW q, NEW T, NEW id, HeldOnce(q, T, id),
           NEW v, NEW w, Seen(q, T, v), Seen(q, T, w), v.id = id, w.id = id
    PROVE  v = w
<1>1. CASE SeenQueued(q, v) /\ SeenQueued(q, w)
  <2>1. PICK a \in HwAddr : \E i \in DOMAIN q[a] : v = View(q[a][i].msg)
    BY <1>1 DEF SeenQueued
  <2>2. PICK b \in HwAddr : \E i \in DOMAIN q[b] : w = View(q[b][i].msg)
    BY <1>1 DEF SeenQueued
  <2>3. PICK i \in DOMAIN q[a] : v = View(q[a][i].msg)
    BY <2>1
  <2>4. PICK j \in DOMAIN q[b] : w = View(q[b][j].msg)
    BY <2>2
  <2>5. q[a][i].msg.payload = id /\ q[b][j].msg.payload = id
    BY <2>3, <2>4 DEF View
  <2>6. a = b /\ i = j
    BY <2>5 DEF HeldOnce, InQueue, QueuedOnce
  <2> QED
    BY <2>3, <2>4, <2>6
<1>2. CASE SeenParked(T, v) /\ SeenParked(T, w)
  <2>1. PICK n \in Node, d \in Node :
           \E i \in DOMAIN LotOf(T, n, d) : v = View(LotOf(T, n, d)[i])
    BY <1>2 DEF SeenParked
  <2>2. PICK m \in Node, e \in Node :
           \E i \in DOMAIN LotOf(T, m, e) : w = View(LotOf(T, m, e)[i])
    BY <1>2 DEF SeenParked
  <2>3. PICK i \in DOMAIN LotOf(T, n, d) : v = View(LotOf(T, n, d)[i])
    BY <2>1
  <2>4. PICK j \in DOMAIN LotOf(T, m, e) : w = View(LotOf(T, m, e)[j])
    BY <2>2
  <2>5. LotOf(T, n, d)[i].payload = id /\ LotOf(T, m, e)[j].payload = id
    BY <2>3, <2>4 DEF View
  <2>6. n = m /\ d = e /\ i = j
    BY <2>5 DEF HeldOnce, InLot, ParkedOnce
  <2> QED
    BY <2>3, <2>4, <2>6
<1>3. ASSUME NEW x, NEW y, SeenQueued(q, x), SeenParked(T, y),
             x.id = id, y.id = id
      PROVE  FALSE
  BY <1>3 DEF HeldOnce, InQueue, InLot, SeenQueued, SeenParked, View
<1> QED
  BY <1>1, <1>2, <1>3 DEF Seen

(* What holds before a step of the datagram that it may send. *)
LEMMA PresentFacts ==
    ASSUME CopyInv, Sending
    PROVE  /\ \A id \in DOMAIN accepted' : Once(rxq, rt_table, delivered, id)
           /\ \A v : Present(v) => Honest(accepted', v)
           /\ \A id \in DOMAIN accepted' : \A v :
                 Present(v) /\ v.id = id => \A r \in delivered : r.id # id
           /\ \A id \in DOMAIN accepted' :
                 ~(/\ Present(TransitView(accepted', id))
                   /\ Present(ErrorView(accepted', id)))
<1> DEFINE new == Len(accepted) + 1
<1>0. /\ DOMAIN accepted \subseteq DOMAIN accepted'
      /\ \A id \in DOMAIN accepted : accepted'[id] = accepted[id]
      /\ \A id \in DOMAIN accepted' : id \in Nat \ {0}
      /\ \A id \in DOMAIN accepted' \ DOMAIN accepted :
            accepted' # accepted /\ id = new
      /\ accepted' # accepted => new \in DOMAIN accepted' \ DOMAIN accepted
  BY SendingFacts
<1> HIDE DEF new
<1>1. ASSUME NEW id \in DOMAIN accepted' \ DOMAIN accepted
      PROVE  /\ Absent(rxq, rt_table, id)
             /\ \A r \in delivered : r.id # id
  <2>1. \A v : Seen(rxq, rt_table, v) => v.id # id
    BY <1>0 DEF CopyInv, Honest, Control
  <2>2. \A r \in delivered : r.id # id
    BY DEF CopyInv
  <2> QED
    BY <2>1, <2>2, SeenAbsent
<1>2. \A id \in DOMAIN accepted' : Once(rxq, rt_table, delivered, id)
  <2>1. ASSUME NEW id \in DOMAIN accepted' \ DOMAIN accepted
        PROVE  Once(rxq, rt_table, delivered, id)
    BY <1>1, AbsentOnce DEF Once
  <2> QED
    BY <2>1 DEF CopyInv
<1>3. ASSUME NEW v, Seen(rxq, rt_table, v)
      PROVE  Honest(accepted', v) /\ (v.id = 0 \/ v.id \in DOMAIN accepted)
  <2>1. Honest(accepted, v)
    BY <1>3 DEF CopyInv
  <2> QED
    BY <1>0, <2>1 DEF Honest, TransitView, ErrorView, Control
<1>4. \A v : Present(v) => Honest(accepted', v)
  <2>1. accepted' # accepted => Honest(accepted', TransitView(accepted', new))
    BY <1>0 DEF Honest, TransitView
  <2> QED
    BY <1>3, <2>1 DEF Present, new
<1>5. ASSUME NEW id \in DOMAIN accepted', NEW v, Present(v), v.id = id,
             NEW r \in delivered, r.id = id
      PROVE  FALSE
  <2>1. CASE Seen(rxq, rt_table, v)
    <3>1. ~Absent(rxq, rt_table, id)
      BY <1>5, <2>1, SeenAbsent
    <3> QED
      BY <1>2, <1>5, <3>1 DEF Once
  <2>2. CASE ~Seen(rxq, rt_table, v)
    <3>1. accepted' # accepted /\ id = new
      BY <1>5, <2>2 DEF Present, TransitView, new
    <3> QED
      BY <1>0, <1>1, <1>5, <3>1
  <2> QED
    BY <2>1, <2>2
<1>6. ASSUME NEW id \in DOMAIN accepted',
             Present(TransitView(accepted', id)), Present(ErrorView(accepted', id))
      PROVE  FALSE
  <2> DEFINE v == TransitView(accepted', id)
             w == ErrorView(accepted', id)
  <2>1. v.id = id /\ w.id = id /\ v.flags = {"DAT"} /\ "ERR" \in w.flags
    BY DEF TransitView, ErrorView
  <2>2. Seen(rxq, rt_table, w)
    <3>1. \A k : "ERR" \notin TransitView(accepted', k).flags
      BY DEF TransitView
    <3> QED
      BY <1>6, <2>1, <3>1 DEF Present
  <2>3. id \in DOMAIN accepted
    BY <1>0, <1>3, <2>1, <2>2
  <2>4. Seen(rxq, rt_table, v)
    <3>1. \A k : TransitView(accepted', k).id = k
      BY DEF TransitView
    <3> QED
      BY <1>0, <1>6, <2>1, <2>3, <3>1 DEF Present, new
  <2>5. HeldOnce(rxq, rt_table, id)
    BY <1>2 DEF Once
  <2> HIDE DEF v, w
  <2>6. v = w
    BY <2>1, <2>2, <2>4, <2>5, SeenOnce
  <2> QED
    BY <2>1, <2>6
<1> QED
  BY <1>2, <1>4, <1>5, <1>6

(* A step in which datagrams only stay where they are, or are lost. *)
Passed ==
    /\ \A id : id # 0 =>
          /\ HeldOnce(rxq, rt_table, id) => HeldOnce(rxq', rt_table', id)
          /\ Absent(rxq, rt_table, id) => Absent(rxq', rt_table', id)
    /\ \A v : Seen(rxq', rt_table', v) => Seen(rxq, rt_table, v) \/ Control(v)
    /\ delivered' = delivered

LEMMA PassedProgress ==
    ASSUME CopyInv, Sending, Passed
    PROVE  Progress
<1>1. ASSUME NEW id \in DOMAIN accepted'
      PROVE  Once(rxq', rt_table', delivered', id)
  <2>1. id # 0 /\ Once(rxq, rt_table, delivered, id)
    BY SendingFacts, PresentFacts
  <2> QED
    BY <2>1 DEF Once, Passed
<1> QED
  BY <1>1 DEF Passed, Progress, Present

LEMMA DroppedPassed ==
    ASSUME Dropped(rxq, rt_table), delivered' = delivered
    PROVE  Passed
BY FewerAbsent, FewerOnce DEF Dropped, Passed

-----------------------------------------------------------------------------
(* The message a step handles: h, at router n where ports are known. *)

HandledAt(q, h, n, ports) ==
    \/ /\ delivered' = delivered
       /\ Handled(q, rt_table, h)
    \/ /\ IsFlagSet(h, "DAT") /\ h.destination_id = n
       /\ CanDeliver(n, ports, h)
       /\ Dropped(q, rt_table)
       /\ Deliver(n, h)
    \/ /\ IsFlagSet(h, "DAT") /\ h.destination_id = n
       /\ delivered' = delivered
       /\ ~CanDeliver(n, ports, h)
       /\ ~IsFlagSet(h, "ERR")
       /\ Handled(q, rt_table, ErrorReport(h))

(* What the datagram that h belongs to has to do with h. *)
LEMMA MessageView ==
    ASSUME CopyInv, Sending, NEW h \in Header, Present(View(h)),
           IsFlagSet(h, "DAT")
    PROVE  /\ h.payload \in DOMAIN accepted'
           /\ ~IsFlagSet(h, "ERR") =>
                 /\ View(h) = TransitView(accepted', h.payload)
                 /\ h.source_id = accepted'[h.payload].src
                 /\ h.source_port = accepted'[h.payload].sport
                 /\ h.destination_id = accepted'[h.payload].dst
                 /\ h.destination_port = accepted'[h.payload].dport
           /\ IsFlagSet(h, "ERR") =>
                 /\ View(h) = ErrorView(accepted', h.payload)
                 /\ h.destination_id = accepted'[h.payload].src
                 /\ h.destination_port = accepted'[h.payload].sport
<1> DEFINE id == h.payload
<1>1. /\ View(h).id = id /\ View(h).flags = h.flags \ {"FRC"}
      /\ View(h).from = <<h.source_id, h.source_port>>
      /\ View(h).to = <<h.destination_id, h.destination_port>>
  BY DEF View
<1>2. Honest(accepted', View(h)) /\ "DAT" \in View(h).flags
  BY <1>1, PresentFacts DEF IsFlagSet
<1>3. /\ id \in DOMAIN accepted'
      /\ View(h) \in {TransitView(accepted', id), ErrorView(accepted', id)}
  BY <1>1, <1>2 DEF Honest, Control
<1>4. ASSUME View(h) = TransitView(accepted', id)
      PROVE  /\ ~IsFlagSet(h, "ERR")
             /\ h.source_id = accepted'[id].src
             /\ h.source_port = accepted'[id].sport
             /\ h.destination_id = accepted'[id].dst
             /\ h.destination_port = accepted'[id].dport
  BY <1>1, <1>4 DEF TransitView, IsFlagSet
<1>5. ASSUME View(h) = ErrorView(accepted', id)
      PROVE  /\ IsFlagSet(h, "ERR")
             /\ h.destination_id = accepted'[id].src
             /\ h.destination_port = accepted'[id].sport
  BY <1>1, <1>5 DEF ErrorView, IsFlagSet
<1> QED
  BY <1>3, <1>4, <1>5

(* The error of a datagram says where the datagram could not be delivered. *)
LEMMA ErrorReportView ==
    ASSUME CopyInv, Sending, NEW h \in Header, Present(View(h)),
           IsFlagSet(h, "DAT"), ~IsFlagSet(h, "ERR")
    PROVE  View(ErrorReport(h)) = ErrorView(accepted', h.payload)
<1> DEFINE g == ErrorReport(h)
           id == h.payload
<1>1. /\ g.payload = id
      /\ g.flags = h.flags \cup {"ERR", "DAT"}
      /\ g.source_id = h.destination_id /\ g.source_port = h.destination_port
      /\ g.destination_id = h.source_id /\ g.destination_port = h.source_port
  BY DEF ErrorReport, SwapRoles, Header
<1>2. /\ View(h) = TransitView(accepted', id)
      /\ h.source_id = accepted'[id].src
      /\ h.source_port = accepted'[id].sport
      /\ h.destination_id = accepted'[id].dst
      /\ h.destination_port = accepted'[id].dport
  BY MessageView
<1>3. h.flags \ {"FRC"} = {"DAT"}
  BY <1>2 DEF View, TransitView
<1> HIDE DEF g
<1>4. g.flags \ {"FRC"} = {"DAT", "ERR"}
  BY <1>1, <1>3
<1> QED
  BY <1>1, <1>2, <1>4 DEF View, ErrorView, g

LEMMA MessageProgress ==
    ASSUME CopyInv, Sending, NEW h \in Header, Present(View(h)),
           NEW n, NEW ports, ServerPort \in ports, NEW q,
           \A id : FewerQueued(rxq, q, id),
           \A v : SeenQueued(q, v) => SeenQueued(rxq, v),
           h.payload # 0 => Absent(q, rt_table, h.payload),
           HandledAt(q, h, n, ports)
    PROVE  Progress
<1> DEFINE c == h.payload
           g == ErrorReport(h)
<1>1. /\ \A id \in DOMAIN accepted' :
            id # 0 /\ Once(rxq, rt_table, delivered, id)
      /\ View(h).id = c
      /\ c \in DOMAIN accepted' => \A r \in delivered : r.id # c
  BY SendingFacts, PresentFacts DEF View
<1>2. g.payload = c
  BY DEF ErrorReport, SwapRoles, Header
<1>3. \A v : Seen(q, rt_table, v) => Seen(rxq, rt_table, v)
  BY DEF Seen
<1>4. /\ delivered \subseteq delivered'
      /\ \A r \in delivered' \ delivered : r.id = c
      /\ \A r, s \in delivered' \ delivered : r = s
  BY DEF HandledAt, Deliver
<1> HIDE DEF c, g
<1>5. ASSUME NEW id \in DOMAIN accepted', id # c
      PROVE  Once(rxq', rt_table', delivered', id)
  <2>1. FewerQueued(q, rxq', id) /\ FewerParked(rt_table, rt_table', id)
    BY <1>1, <1>2, <1>5 DEF HandledAt, Handled, Dropped, c, g
  <2>2. FewerQueued(rxq, rxq', id)
    BY <2>1, FewerChain
  <2>3. HeldOnce(rxq', rt_table', id)
    BY <1>1, <2>1, <2>2, FewerOnce DEF Once
  <2>4. Absent(rxq, rt_table, id) => Absent(rxq', rt_table', id)
    BY <2>1, <2>2, FewerAbsent
  <2>5. \A r \in delivered' : r.id = id => r \in delivered
    BY <1>4, <1>5
  <2> QED
    BY <1>1, <2>3, <2>4, <2>5 DEF Once
<1>6. ASSUME c \in DOMAIN accepted'
      PROVE  Once(rxq', rt_table', delivered', c)
  <2>1. c # 0 /\ Absent(q, rt_table, c)
    BY <1>1, <1>6 DEF c
  <2>2. CASE delivered' = delivered
    <3>1. HeldOnce(rxq', rt_table', c)
      <4>1. Handled(q, rt_table, h) => HeldOnce(rxq', rt_table', c)
        BY <2>1 DEF Handled, c
      <4>2. Handled(q, rt_table, g) => HeldOnce(rxq', rt_table', c)
        BY <1>2, <2>1 DEF Handled
      <4>3. Dropped(q, rt_table) => HeldOnce(rxq', rt_table', c)
        BY <4>1, DroppedHandled
      <4> QED
        BY <4>1, <4>2, <4>3 DEF HandledAt, g
    <3> QED
      BY <1>1, <1>6, <2>2, <3>1 DEF Once
  <2>3. CASE delivered' # delivered
    <3>1. Dropped(q, rt_table)
      BY <2>3 DEF HandledAt
    <3>2. Absent(rxq', rt_table', c)
      BY <2>1, <3>1, FewerAbsent DEF Dropped
    <3> QED
      BY <1>1, <1>4, <1>6, <3>2, AbsentOnce DEF Once
  <2> QED
    BY <2>2, <2>3
<1>7. ASSUME NEW v, Seen(rxq', rt_table', v), ~Control(v), ~Present(v)
      PROVE  \E id \in DOMAIN accepted' :
                /\ v = ErrorView(accepted', id)
                /\ Present(TransitView(accepted', id))
                /\ ~(/\ accepted'[id].dport = ServerPort
                     /\ <<accepted'[id].dst, ServerPort>> \in Alive)
  <2>1. ~Seen(q, rt_table, v) /\ v # View(h)
    BY <1>3, <1>7 DEF Present
  <2>2. /\ IsFlagSet(h, "DAT") /\ h.destination_id = n
        /\ ~CanDeliver(n, ports, h)
        /\ ~IsFlagSet(h, "ERR")
        /\ v = View(g)
    BY <1>7, <2>1 DEF HandledAt, Handled, Dropped, g
  <2>3. /\ c \in DOMAIN accepted'
        /\ View(h) = TransitView(accepted', c)
        /\ h.destination_id = accepted'[c].dst
        /\ h.destination_port = accepted'[c].dport
    BY <2>2, MessageView DEF c
  <2>4. v = ErrorView(accepted', c)
    BY <2>2, ErrorReportView DEF c, g
  <2>5. ~(/\ accepted'[c].dport = ServerPort
          /\ <<accepted'[c].dst, ServerPort>> \in Alive)
    BY <2>2, <2>3 DEF CanDeliver
  <2> QED
    BY <2>3, <2>4, <2>5
<1>8. ASSUME NEW r \in delivered' \ delivered
      PROVE  \E id \in DOMAIN accepted' :
                \/ /\ r = [id |-> id, node |-> accepted'[id].dst,
                           port |-> accepted'[id].dport, err |-> FALSE]
                   /\ Present(TransitView(accepted', id))
                   /\ <<accepted'[id].dst, accepted'[id].dport>> \in Alive
                \/ /\ r = [id |-> id, node |-> accepted'[id].src,
                           port |-> accepted'[id].sport, err |-> TRUE]
                   /\ Present(ErrorView(accepted', id))
  <2>1. /\ IsFlagSet(h, "DAT") /\ h.destination_id = n
        /\ CanDeliver(n, ports, h)
        /\ r = [id |-> c, node |-> n, port |-> h.destination_port,
                err |-> IsFlagSet(h, "ERR")]
    BY <1>8 DEF HandledAt, Deliver, c
  <2>2. c \in DOMAIN accepted'
    BY <2>1, MessageView DEF c
  <2>3. CASE ~IsFlagSet(h, "ERR")
    <3>1. /\ View(h) = TransitView(accepted', c)
          /\ h.destination_id = accepted'[c].dst
          /\ h.destination_port = accepted'[c].dport
      BY <2>1, <2>3, MessageView DEF c
    <3>2. IsFlagSet(h, "ERR") = FALSE
      BY <2>3 DEF IsFlagSet
    <3> QED
      BY <2>1, <2>2, <3>1, <3>2 DEF CanDeliver
  <2>4. CASE IsFlagSet(h, "ERR")
    <3>1. /\ View(h) = ErrorView(accepted', c)
          /\ h.destination_id = accepted'[c].src
          /\ h.destination_port = accepted'[c].sport
      BY <2>1, <2>4, MessageView DEF c
    <3>2. IsFlagSet(h, "ERR") = TRUE
      BY <2>4 DEF IsFlagSet
    <3> QED
      BY <2>1, <2>2, <3>1, <3>2
  <2> QED
    BY <2>3, <2>4
<1> QED
  BY <1>4, <1>5, <1>6, <1>7, <1>8 DEF Progress

-----------------------------------------------------------------------------
(* The steps of a network. *)

(* Queues p are queues q with some REQs and REPs added. *)
ControlAdded(q, p) ==
    /\ p \in Queues
    /\ \A id : id # 0 => FewerQueued(q, p, id)
    /\ \A v : SeenQueued(p, v) => SeenQueued(q, v) \/ Control(v)

LEMMA ControlSent ==
    ASSUME NEW q, NEW p, ControlAdded(q, p), NEW out \in Queues,
           \A a \in HwAddr : \A id : InQueue(out[a], id) => id = 0,
           \A v : SeenQueued(out, v) => Control(v)
    PROVE  ControlAdded(q, Sent(p, out))
<1> DEFINE s == Sent(p, out)
<1>1. /\ s \in Queues
      /\ \A a \in HwAddr : \A id :
            /\ InQueue(s[a], id) <=> InQueue(p[a], id) \/ InQueue(out[a], id)
            /\ /\ QueuedOnce(p[a], id) /\ QueuedOnce(out[a], id)
               /\ ~(InQueue(p[a], id) /\ InQueue(out[a], id))
               => QueuedOnce(s[a], id)
      /\ \A v : SeenQueued(s, v) => SeenQueued(p, v) \/ SeenQueued(out, v)
  BY SentFacts DEF ControlAdded
<1> HIDE DEF s
<1>2. ASSUME NEW id, id # 0
      PROVE  FewerQueued(q, s, id)
  <2>1. \A a \in HwAddr : ~InQueue(out[a], id) /\ QueuedOnce(out[a], id)
    BY <1>2 DEF InQueue, QueuedOnce
  <2>2. FewerQueued(p, s, id)
    BY <1>1, <2>1 DEF FewerQueued
  <2> QED
    BY <1>2, <2>2, FewerChain DEF ControlAdded
<1>3. \A v : SeenQueued(s, v) => SeenQueued(q, v) \/ Control(v)
  BY <1>1 DEF ControlAdded
<1> QED
  BY <1>1, <1>2, <1>3 DEF ControlAdded, s

LEMMA ControlFlooded ==
    ASSUME NEW q, NEW p, ControlAdded(q, p), NEW n \in Node, NEW except,
           NEW h \in Header, h.payload = 0, Control(View(h))
    PROVE  ControlAdded(q, Sent(p, Flood(n, except, h)))
<1> DEFINE out == Flood(n, except, h)
<1>1. /\ out \in Queues
      /\ \A a \in HwAddr : \A id : InQueue(out[a], id) => id = 0
      /\ \A v : SeenQueued(out, v) => Control(v)
  BY FloodFacts
<1> HIDE DEF out
<1>2. ControlAdded(q, Sent(p, out))
  BY <1>1, ControlSent
<1> QED
  BY <1>2 DEF out

LEMMA ControlUnicast ==
    ASSUME NEW q, NEW p, ControlAdded(q, p), NEW n \in Node, NEW s, NEW hw,
           NEW h \in Header, h.payload = 0, Control(View(h))
    PROVE  ControlAdded(q, Sent(p, Unicast(n, s, hw, <<h>>)))
<1> DEFINE hs == <<h>>
           out == Unicast(n, s, hw, hs)
<1>1. /\ hs \in Seq(Header)
      /\ \A id : InLot(hs, id) => id = 0
      /\ \A i \in DOMAIN hs : Control(View(hs[i]))
  BY DEF InLot
<1> HIDE DEF hs
<1>2. /\ out \in Queues
      /\ \A a \in HwAddr : \A id : InQueue(out[a], id) => id = 0
      /\ \A v : SeenQueued(out, v) => Control(v)
  <2>1. /\ out \in Queues
        /\ \A a \in HwAddr : \A id : InQueue(out[a], id) => a = hw /\ InLot(hs, id)
        /\ \A v : SeenQueued(out, v) => \E i \in DOMAIN hs : v = View(hs[i])
    BY <1>1, UnicastFacts
  <2> HIDE DEF out
  <2> QED
    BY <1>1, <2>1
<1> HIDE DEF out
<1>3. ControlAdded(q, Sent(p, out))
  BY <1>2, ControlSent
<1> QED
  BY <1>3 DEF out, hs

LEMMA ControlHandled ==
    ASSUME rt_table \in [Node -> Table], NEW n \in Node, NEW u,
           SameSearches(rt_table[n], u), NEW q, ControlAdded(q, rxq'),
           rt_table' = [rt_table EXCEPT ![n] = u],
           NEW h, h.payload = 0
    PROVE  Handled(q, rt_table, h)
<1>1. /\ \A id : FewerParked(rt_table, rt_table', id)
      /\ \A v : SeenParked(rt_table', v) => SeenParked(rt_table, v)
  BY TableFacts
<1> QED
  BY <1>1 DEF ControlAdded, Handled, Seen

(* The message at the head of a queue. *)
LEMMA IncomingFacts ==
    ASSUME CopyInv, NEW a \in HwAddr, Arrives(a)
    PROVE  LET h == Incoming(a)
           IN  /\ h \in Header
               /\ Present(View(h))
               /\ Taken(a) \in Queues
               /\ \A id : FewerQueued(rxq, Taken(a), id)
               /\ \A v : SeenQueued(Taken(a), v) => SeenQueued(rxq, v)
               /\ h.payload # 0 => Absent(Taken(a), rt_table, h.payload)
               /\ IsFlagSet(h, "REQ") \/ IsFlagSet(h, "REP") =>
                     h.payload = 0 /\ Control(View(h))
<1> DEFINE m == Head(rxq[a]).msg
           h == Incoming(a)
           q == Taken(a)
<1>1. h \in Header
  BY ArrivalFacts DEF CopyInv, LotInv
<1>2. rxq \in Queues /\ rxq[a] # <<>>
  BY DEF CopyInv, LotInv, IInv, TypeOK, Queues, Arrives
<1>3. /\ q \in Queues
      /\ \A id : FewerQueued(rxq, q, id)
      /\ \A v : SeenQueued(q, v) => SeenQueued(rxq, v)
      /\ SeenQueued(rxq, View(m))
      /\ \A T, id : HeldOnce(rxq, T, id) /\ m.payload = id => Absent(q, T, id)
  BY <1>2, TakenFacts
<1>4. /\ h.payload = m.payload
      /\ View(h) = View(m)
  <2>1. Head(rxq[a]) \in Frame
    BY <1>2 DEF Queues
  <2>2. m \in Header
    BY <2>1 DEF Frame
  <2> HIDE DEF m
  <2>3. h = [m EXCEPT !.hop_count = @ + 1]
    BY DEF Incoming, Hopped, m
  <2> QED
    BY <2>2, <2>3 DEF View, Header
<1> HIDE DEF m, q, h
<1>5. Seen(rxq, rt_table, View(h)) /\ Honest(accepted, View(h))
  BY <1>3, <1>4 DEF Seen, CopyInv
<1>6. h.payload # 0 => Absent(q, rt_table, h.payload)
  <2>1. View(h).id = h.payload
    BY DEF View
  <2>2. h.payload # 0 => h.payload \in DOMAIN accepted
    BY <1>5, <2>1 DEF Honest, Control
  <2> QED
    BY <1>3, <1>4, <2>2 DEF CopyInv, Once
<1>7. IsFlagSet(h, "REQ") \/ IsFlagSet(h, "REP") =>
         h.payload = 0 /\ Control(View(h))
  <2>1. View(h).flags = h.flags \ {"FRC"} /\ View(h).id = h.payload
    BY DEF View
  <2>2. ~Control(View(h)) => View(h).flags \subseteq {"DAT", "ERR"}
    BY <1>5 DEF Honest, TransitView, ErrorView
  <2> QED
    BY <2>1, <2>2 DEF IsFlagSet, Control
<1> QED
  BY <1>1, <1>3, <1>5, <1>6, <1>7 DEF Present, h, q

LEMMA AnswerRequestHandled ==
    ASSUME CopyInv, NEW a \in HwAddr, AnswerRequest(a)
    PROVE  Handled(Taken(a), rt_table, Incoming(a))
<1> DEFINE n == a[1]
           h == Incoming(a)
           t == RequestTable(a, h)
           hops == t.entry[h.destination_id].hop_count
           q == Taken(a)
<1>1. Arrives(a) /\ IsFlagSet(h, "REQ")
  BY DEF AnswerRequest, IsRequest
<1>2. /\ n \in Node /\ h \in Header /\ q \in Queues
      /\ h.payload = 0 /\ Control(View(h))
  BY <1>1, AddressFacts, IncomingFacts
<1>3. SameSearches(rt_table[n], t) /\ t \in Table
  BY <1>1, RequestTableFacts DEF CopyInv, LotInv, NodeOK
<1>4. hops \in Nat
  BY <1>2, <1>3 DEF Header, Table, Entry
<1>5. rt_table \in [Node -> Table]
  BY DEF CopyInv, LotInv, IInv, TypeOK
<1> DEFINE answered == AnsweredRequest(h)
           reply == RouteReply(h, hops)
           flooded == Sent(q, Flood(n, {a[2]}, answered))
<1>6. /\ rt_table' = [rt_table EXCEPT ![n] = t]
      /\ \/ rxq' = q
         \/ rxq' = flooded
         \/ rxq' = Sent(q, Unicast(n, a[2], Sender(a), <<reply>>))
         \/ rxq' = Sent(flooded, Unicast(n, a[2], Sender(a), <<reply>>))
  BY DEF AnswerRequest
<1> HIDE DEF n, h, t, hops, q
<1>7. "DAT" \notin h.flags
  BY <1>2 DEF Control, View
<1>8. /\ answered \in Header /\ answered.payload = 0
      /\ Control(View(answered))
  <2>1. answered \in Header
    BY <1>2 DEF AnsweredRequest, Header, Flag
  <2>2. answered.payload = 0 /\ answered.flags = h.flags \cup {"REP"}
    BY <1>2 DEF AnsweredRequest, Header
  <2> QED
    BY <1>7, <2>1, <2>2 DEF View, Control
<1>9. /\ reply \in Header /\ reply.payload = 0
      /\ Control(View(reply))
  <2>1. reply \in Header
    BY <1>2, <1>4 DEF RouteReply, SwapRoles, Header, Flag
  <2>2. /\ reply.payload = 0
        /\ reply.flags = (h.flags \cup {"REP"}) \ {"REQ"}
    BY <1>2 DEF RouteReply, SwapRoles, Header
  <2> QED
    BY <1>7, <2>1, <2>2 DEF View, Control
<1> HIDE DEF answered, reply
<1>10. ControlAdded(q, q)
  BY <1>2, SameFewer DEF ControlAdded
<1>11. ControlAdded(q, flooded)
  BY <1>2, <1>8, <1>10, ControlFlooded
<1> HIDE DEF flooded
<1>12. ControlAdded(q, rxq')
  BY <1>2, <1>6, <1>9, <1>10, <1>11, ControlUnicast
<1> QED
  BY <1>2, <1>3, <1>5, <1>6, <1>12, ControlHandled DEF h, q

LEMMA RelayRequestHandled ==
    ASSUME CopyInv, NEW a \in HwAddr, RelayRequest(a)
    PROVE  Handled(Taken(a), rt_table, Incoming(a))
<1> DEFINE n == a[1]
           h == Incoming(a)
           t == RequestTable(a, h)
           v == RecordRelay(t, h.source_id, h.broadcast_id)
           q == Taken(a)
           flooded == Sent(q, Flood(n, {a[2]}, h))
<1>1. Arrives(a) /\ IsFlagSet(h, "REQ")
  BY DEF RelayRequest, IsRequest
<1>2. /\ n \in Node /\ h \in Header /\ q \in Queues
      /\ h.payload = 0 /\ Control(View(h))
  BY <1>1, AddressFacts, IncomingFacts
<1>3. SameSearches(rt_table[n], t) /\ t \in Table
  BY <1>1, RequestTableFacts DEF CopyInv, LotInv, NodeOK
<1>4. h.source_id \in Node /\ h.broadcast_id \in 0..MaxBroadcastId
  BY <1>2 DEF Header
<1>5. rt_table \in [Node -> Table]
  BY DEF CopyInv, LotInv, IInv, TypeOK
<1>6. /\ \/ rt_table' = [rt_table EXCEPT ![n] = t]
         \/ rt_table' = [rt_table EXCEPT ![n] = v]
      /\ rxq' \in {q, flooded}
  BY DEF RelayRequest
<1> HIDE DEF n, h, t, q
<1>7. SameSearches(rt_table[n], v)
  BY <1>3, <1>4, RelayFacts, RouteChain
<1>8. ControlAdded(q, q)
  BY <1>2, SameFewer DEF ControlAdded
<1>9. ControlAdded(q, flooded)
  BY <1>2, <1>8, ControlFlooded
<1> HIDE DEF flooded, v
<1>10. ControlAdded(q, rxq')
  BY <1>6, <1>8, <1>9
<1> QED
  BY <1>2, <1>3, <1>5, <1>6, <1>7, <1>10, ControlHandled DEF h, q

(* Everything parked for d leaves at once. *)
LEMMA UnparkPassed ==
    ASSUME CopyInv, NEW a \in HwAddr, Unpark(a)
    PROVE  Passed
<1> DEFINE n == a[1]
           h == Incoming(a)
           t == Learned(a, h)
           d == h.source_id
           lot == t.entry[d].parking_lot
           q == Taken(a)
           out == Unicast(n, a[2], Sender(a), lot)
<1>1. /\ Arrives(a)
      /\ rt_table' = [rt_table EXCEPT ![n] = Release(t, d)]
      /\ rxq' = Sent(q, out)
      /\ delivered' = delivered
  BY DEF Unpark
<1>2. /\ n \in Node /\ h \in Header /\ q \in Queues
      /\ \A id : FewerQueued(rxq, q, id)
      /\ \A v : SeenQueued(q, v) => SeenQueued(rxq, v)
  BY <1>1, AddressFacts, IncomingFacts
<1>3. SameSearches(rt_table[n], t) /\ t \in Table
  BY <1>1, ArrivalFacts DEF CopyInv, LotInv, NodeOK
<1>4. rt_table \in [Node -> Table]
  BY DEF CopyInv, LotInv, IInv, TypeOK
<1> HIDE DEF n, h, t, q
<1>5. d \in Node
  BY <1>2 DEF Header
<1>6. lot \in Seq(Header) /\ lot = LotOf(rt_table, n, d)
  BY <1>3, <1>5 DEF Table, Entry, SameSearches, LotOf
<1>7. \A m, c \in Node :
         LotOf(rt_table', m, c) = IF m = n /\ c = d THEN <<>>
                                  ELSE LotOf(rt_table, m, c)
  <2>1. \A c \in Node : Release(t, d).entry[c].parking_lot =
           IF c = d THEN <<>> ELSE t.entry[c].parking_lot
    BY <1>3, <1>5 DEF Release, Table, Entry
  <2> QED
    BY <1>1, <1>2, <1>3, <1>4, <2>1 DEF LotOf, SameSearches
<1> HIDE DEF d, lot
<1>8. /\ out \in Queues
      /\ \A b \in HwAddr : \A id :
            /\ InQueue(out[b], id) => b = Sender(a) /\ InLot(lot, id)
            /\ ParkedOnce(lot, id) => QueuedOnce(out[b], id)
      /\ \A v : SeenQueued(out, v) => \E i \in DOMAIN lot : v = View(lot[i])
  BY <1>2, <1>6, UnicastFacts
<1> HIDE DEF out
<1>9. /\ \A b \in HwAddr : \A id :
            /\ InQueue(rxq'[b], id) <=> InQueue(q[b], id) \/ InQueue(out[b], id)
            /\ /\ QueuedOnce(q[b], id) /\ QueuedOnce(out[b], id)
               /\ ~(InQueue(q[b], id) /\ InQueue(out[b], id))
               => QueuedOnce(rxq'[b], id)
      /\ \A v : SeenQueued(rxq', v) => SeenQueued(q, v) \/ SeenQueued(out, v)
  <2> DEFINE p == Sent(q, out)
  <2>1. /\ \A b \in HwAddr : \A id :
              /\ InQueue(p[b], id) <=> InQueue(q[b], id) \/ InQueue(out[b], id)
              /\ /\ QueuedOnce(q[b], id) /\ QueuedOnce(out[b], id)
                 /\ ~(InQueue(q[b], id) /\ InQueue(out[b], id))
                 => QueuedOnce(p[b], id)
        /\ \A v : SeenQueued(p, v) => SeenQueued(q, v) \/ SeenQueued(out, v)
    BY <1>2, <1>8, SentFacts
  <2>2. rxq' = p
    BY <1>1
  <2> HIDE DEF p
  <2> QED
    BY <2>1, <2>2
<1>10. \A id : ~InLot(<<>>, id) /\ ParkedOnce(<<>>, id)
  BY DEF InLot, ParkedOnce
<1>11. ASSUME NEW v, Seen(rxq', rt_table', v)
       PROVE  Seen(rxq, rt_table, v)
  <2>1. CASE SeenQueued(rxq', v)
    <3>1. (\E i \in DOMAIN lot : v = View(lot[i])) => SeenParked(rt_table, v)
      BY <1>2, <1>5, <1>6 DEF SeenParked
    <3> QED
      BY <1>2, <1>8, <1>9, <2>1, <3>1 DEF Seen
  <2>2. CASE SeenParked(rt_table', v)
    <3>1. PICK m \in Node, c \in Node :
             \E i \in DOMAIN LotOf(rt_table', m, c) :
                v = View(LotOf(rt_table', m, c)[i])
      BY <2>2 DEF SeenParked
    <3>2. ~(m = n /\ c = d)
      BY <1>7, <3>1
    <3>3. LotOf(rt_table', m, c) = LotOf(rt_table, m, c)
      BY <1>7, <3>2
    <3>4. SeenParked(rt_table, v)
      BY <3>1, <3>3 DEF SeenParked
    <3> QED
      BY <3>4 DEF Seen
  <2> QED
    BY <1>11, <2>1, <2>2 DEF Seen
<1>12. \A id : Absent(rxq, rt_table, id) => Absent(rxq', rt_table', id)
  BY <1>11, SeenAbsent
<1>13. ASSUME NEW id, HeldOnce(rxq, rt_table, id)
       PROVE  HeldOnce(rxq', rt_table', id)
  <2>1. HeldOnce(q, rt_table, id)
    BY <1>2, <1>13, SameFewer, FewerOnce
  <2>2. ParkedOnce(lot, id)
    BY <1>2, <1>5, <1>6, <2>1 DEF HeldOnce
  <2>3. CASE InLot(lot, id)
    <3>1. \A b \in HwAddr : ~InQueue(q[b], id) /\ QueuedOnce(q[b], id)
      <4>1. \A b \in HwAddr : ~InQueue(q[b], id)
        BY <1>2, <1>5, <1>6, <2>1, <2>3 DEF HeldOnce
      <4> QED
        BY <4>1 DEF InQueue, QueuedOnce
    <3>2. \A b \in HwAddr : /\ InQueue(rxq'[b], id) => b = Sender(a)
                            /\ QueuedOnce(rxq'[b], id)
      BY <1>8, <1>9, <2>2, <3>1
    <3>3. \A m, c \in Node : ~InLot(LotOf(rt_table', m, c), id)
      BY <1>2, <1>5, <1>6, <1>7, <1>10, <2>1, <2>3 DEF HeldOnce
    <3>4. \A m, c \in Node : ParkedOnce(LotOf(rt_table', m, c), id)
      BY <3>3 DEF InLot, ParkedOnce
    <3> QED
      BY <3>2, <3>3, <3>4 DEF HeldOnce
  <2>4. CASE ~InLot(lot, id)
    <3>1. \A b \in HwAddr : ~InQueue(out[b], id) /\ QueuedOnce(out[b], id)
      BY <1>8, <2>2, <2>4
    <3>2. FewerQueued(q, rxq', id)
      BY <1>9, <3>1 DEF FewerQueued
    <3>3. FewerParked(rt_table, rt_table', id)
      BY <1>7, <1>10 DEF FewerParked
    <3> QED
      BY <2>1, <3>2, <3>3, FewerOnce
  <2> QED
    BY <2>3, <2>4
<1> QED
  BY <1>1, <1>11, <1>12, <1>13 DEF Passed

LEMMA ForwardHandled ==
    ASSUME CopyInv, NEW a \in HwAddr, ForwardReply(a) \/ ForwardData(a)
    PROVE  Handled(Taken(a), rt_table, Incoming(a))
<1> DEFINE n == a[1]
           h == Incoming(a)
           t == Learned(a, h)
           q == Taken(a)
<1>1. /\ Arrives(a)
      /\ SendOrPark(n, t, q, h, {a[2]}) \/ RouteMsg(n, t, q, h)
  BY DEF ForwardReply, ForwardData
<1>2. n \in Node /\ h \in Header /\ q \in Queues
  BY <1>1, AddressFacts, IncomingFacts
<1>3. SameSearches(rt_table[n], t) /\ t \in Table
  BY <1>1, ArrivalFacts DEF CopyInv, LotInv, NodeOK
<1>4. /\ rt_table \in [Node -> Table]
      /\ g_broadcast_id \in [Node -> 0..MaxBroadcastId]
      /\ GoodLots(n, rt_table[n])
  BY <1>2 DEF CopyInv, LotInv, IInv, TypeOK
<1> HIDE DEF n, h, t, q
<1>5. \A c \in Node : Single(t.entry[c].parking_lot)
  BY <1>3, <1>4 DEF GoodLots, GoodLot, SameSearches
<1>6. Handled(q, rt_table, h)
  BY <1>1, <1>2, <1>3, <1>4, <1>5, SendOrParkHandled, RouteMsgHandled
<1> QED
  BY <1>6 DEF h, q

LEMMA ReceiveDataHandled ==
    ASSUME CopyInv, NEW a \in HwAddr, ReceiveData(a)
    PROVE  HandledAt(Taken(a), Incoming(a), a[1], client_list[a[1]])
<1> DEFINE n == a[1]
           h == Incoming(a)
           t == Learned(a, h)
           q == Taken(a)
           ports == client_list[n]
<1>1. /\ Arrives(a)
      /\ IsFlagSet(h, "DAT") /\ h.destination_id = n
      /\ RouteToSelf(n, t, q, h, ports)
  BY DEF ReceiveData, IsData
<1>2. n \in Node /\ h \in Header /\ q \in Queues
  BY <1>1, AddressFacts, IncomingFacts
<1>3. SameSearches(rt_table[n], t) /\ t \in Table
  BY <1>1, ArrivalFacts DEF CopyInv, LotInv, NodeOK
<1>4. /\ rt_table \in [Node -> Table]
      /\ g_broadcast_id \in [Node -> 0..MaxBroadcastId]
      /\ GoodLots(n, rt_table[n])
  BY <1>2 DEF CopyInv, LotInv, IInv, TypeOK
<1> HIDE DEF n, h, t, q, ports
<1>5. \A c \in Node : Single(t.entry[c].parking_lot)
  BY <1>3, <1>4 DEF GoodLots, GoodLot, SameSearches
<1>6. HandledAt(q, h, n, ports)
  BY <1>1, <1>2, <1>3, <1>4, <1>5, RouteToSelfHandled, DroppedHandled
     DEF HandledAt
<1> QED
  BY <1>6 DEF n, h, q, ports

LEMMA IgnoreOwnDropped ==
    ASSUME CopyInv, NEW a \in HwAddr, IgnoreOwn(a)
    PROVE  Dropped(Taken(a), rt_table)
<1> DEFINE n == a[1]
           t == Learned(a, Incoming(a))
<1>1. /\ Arrives(a)
      /\ rt_table' = [rt_table EXCEPT ![n] = t]
      /\ rxq' = Taken(a)
  BY DEF IgnoreOwn
<1>2. n \in Node /\ SameSearches(rt_table[n], t)
  BY <1>1, ArrivalFacts DEF CopyInv, LotInv
<1>3. rt_table \in [Node -> Table]
  BY DEF CopyInv, LotInv, IInv, TypeOK
<1> HIDE DEF n, t
<1> QED
  BY <1>1, <1>2, <1>3, OnlyTable

LEMMA ReceiveProgress ==
    ASSUME CopyInv, NEW a \in HwAddr, ProcessFrame(a)
    PROVE  Progress
<1> DEFINE n == a[1]
           h == Incoming(a)
           q == Taken(a)
           ports == client_list[n]
<1>1. Arrives(a) /\ Sending
  BY DEF ProcessFrame, AnswerRequest, RelayRequest, Unpark, ForwardReply,
         ReceiveData, ForwardData, IgnoreOwn, Sending
<1>2. CASE Unpark(a)
  BY <1>1, <1>2, UnparkPassed, PassedProgress
<1>3. CASE ~Unpark(a)
  <2>1. HandledAt(q, h, n, ports)
    <3>1. CASE ReceiveData(a)
      BY <3>1, ReceiveDataHandled
    <3>2. CASE ~ReceiveData(a)
      <4>1. delivered' = delivered
        BY <1>3, <3>2 DEF ProcessFrame, AnswerRequest, RelayRequest,
             ForwardReply, ForwardData, IgnoreOwn
      <4>2. Handled(q, rt_table, h)
        BY <1>3, <3>2, AnswerRequestHandled, RelayRequestHandled, ForwardHandled,
           IgnoreOwnDropped, DroppedHandled DEF ProcessFrame
      <4> QED
        BY <4>1, <4>2 DEF HandledAt
    <3> QED
      BY <3>1, <3>2
  <2>2. /\ h \in Header
        /\ Present(View(h))
        /\ \A id : FewerQueued(rxq, q, id)
        /\ \A v : SeenQueued(q, v) => SeenQueued(rxq, v)
        /\ h.payload # 0 => Absent(q, rt_table, h.payload)
    BY <1>1, IncomingFacts
  <2>3. ServerPort \in ports
    BY AddressFacts DEF CopyInv
  <2> HIDE DEF n, h, q, ports
  <2> QED
    BY <1>1, <2>1, <2>2, <2>3, MessageProgress
<1> QED
  BY <1>2, <1>3

LEMMA SendProgress ==
    ASSUME CopyInv, NEW f \in Flow, NEW forced \in Forcing, DoProcess(f, forced)
    PROVE  Progress /\ Sending
<1> DEFINE n == f.src
           new == Len(accepted) + 1
           h == Datagram(n, f.sport, f.dst, f.dport, forced, new)
           t == IF forced THEN PurgeEntry(rt_table[n], f.dst) ELSE rt_table[n]
           ports == client_list[n] \cup {f.sport}
<1>1. /\ accepted' = Append(accepted, f)
      /\ \/ f.dst = n /\ RouteToSelf(n, t, rxq, h, ports)
         \/ RouteMsg(n, t, rxq, h) /\ delivered' = delivered
  BY DEF DoProcess
<1>2. forced \in BOOLEAN
  BY FlowAssumption
<1>3. /\ n \in Node /\ h \in Header
      /\ t \in Table /\ SameSearches(rt_table[n], t)
  BY <1>2, ClientFacts DEF CopyInv, LotInv, NodeOK
<1>4. /\ rt_table \in [Node -> Table]
      /\ g_broadcast_id \in [Node -> 0..MaxBroadcastId]
      /\ rxq \in Queues
      /\ accepted \in Seq(Flow)
      /\ GoodLots(n, rt_table[n])
      /\ ServerPort \in ports
  BY <1>3 DEF CopyInv, LotInv, IInv, TypeOK, Queues
<1>5. Sending
  BY <1>1 DEF Sending
<1>6. accepted' # accepted /\ accepted'[new] = f
  BY <1>1, <1>4
<1>7. /\ h.payload = new /\ h.flags \ {"FRC"} = {"DAT"}
      /\ h.source_id = n /\ h.source_port = f.sport
      /\ h.destination_id = f.dst /\ h.destination_port = f.dport
      /\ IsFlagSet(h, "DAT")
  BY DEF Datagram, IsFlagSet
<1>8. Absent(rxq, rt_table, new)
  <2>1. \A v : Seen(rxq, rt_table, v) => v.id # new
    BY <1>5, <1>6, SendingFacts DEF CopyInv, Honest, Control
  <2> QED
    BY <2>1, SeenAbsent
<1> HIDE DEF t, ports, h, new
<1>9. View(h) = TransitView(accepted', new)
  BY <1>6, <1>7 DEF View, TransitView
<1>10. Present(View(h))
  BY <1>6, <1>9 DEF Present, new
<1>11. \A c \in Node : Single(t.entry[c].parking_lot)
  BY <1>3, <1>4 DEF GoodLots, GoodLot, SameSearches
<1>12. HandledAt(rxq, h, n, ports)
  <2>1. CASE f.dst = n /\ RouteToSelf(n, t, rxq, h, ports)
    BY <1>3, <1>4, <1>7, <1>11, <2>1, RouteToSelfHandled, DroppedHandled
       DEF HandledAt
  <2>2. CASE RouteMsg(n, t, rxq, h) /\ delivered' = delivered
    BY <1>3, <1>4, <1>11, <2>2, RouteMsgHandled DEF HandledAt
  <2> QED
    BY <1>1, <2>1, <2>2
<1>13. \A id : FewerQueued(rxq, rxq, id)
  BY SameFewer
<1>14. Progress
  BY <1>3, <1>4, <1>5, <1>7, <1>8, <1>10, <1>12, <1>13, MessageProgress
<1> QED
  BY <1>5, <1>14

LEMMA TickProgress ==
    ASSUME CopyInv, NEW n \in Node, Tick(n)
    PROVE  Progress /\ Sending
<1>1. /\ rt_table' = [rt_table EXCEPT ![n] = Aged(rt_table[n])]
      /\ rxq' = rxq /\ delivered' = delivered /\ accepted' = accepted
  BY DEF Tick
<1>2. rt_table \in [Node -> Table]
  BY DEF CopyInv, LotInv, IInv, TypeOK
<1>3. SameSearches(rt_table[n], Aged(rt_table[n]))
  BY <1>2, AgedFacts
<1>4. Dropped(rxq, rt_table)
  BY <1>1, <1>2, <1>3, OnlyTable
<1> QED
  BY <1>1, <1>4, DroppedPassed, PassedProgress DEF Sending

LEMMA LoseProgress ==
    ASSUME CopyInv, NEW a \in HwAddr, Lose(a)
    PROVE  Progress /\ Sending
<1>1. /\ rxq[a] # <<>> /\ rxq' = Taken(a)
      /\ rt_table' = rt_table /\ delivered' = delivered /\ accepted' = accepted
  BY DEF Lose
<1>2. rxq \in Queues
  BY DEF CopyInv, LotInv, IInv, TypeOK, Queues
<1>3. /\ \A id : FewerQueued(rxq, Taken(a), id)
      /\ \A v : SeenQueued(Taken(a), v) => SeenQueued(rxq, v)
  BY <1>1, <1>2, TakenFacts
<1>4. Dropped(rxq, rt_table)
  BY <1>1, <1>3, SameFewer DEF Dropped, Seen
<1> QED
  BY <1>1, <1>4, DroppedPassed, PassedProgress DEF Sending

LEMMA RestartProgress ==
    ASSUME CopyInv, NEW n \in Node, Restart(n)
    PROVE  Progress /\ Sending
<1>1. /\ rt_table' = [rt_table EXCEPT ![n] = CreateRoutingTable(n)]
      /\ rxq' = [a \in HwAddr |-> IF a[1] = n THEN <<>> ELSE rxq[a]]
      /\ delivered' = delivered /\ accepted' = accepted
  BY DEF Restart
<1>2. rt_table \in [Node -> Table]
  BY DEF CopyInv, LotInv, IInv, TypeOK
<1>3. \A a \in HwAddr : rxq'[a] = rxq[a] \/ rxq'[a] = <<>>
  BY <1>1
<1>4. \A m, d \in Node : \/ LotOf(rt_table', m, d) = LotOf(rt_table, m, d)
                         \/ LotOf(rt_table', m, d) = <<>>
  <2>1. \A d \in Node : CreateRoutingTable(n).entry[d].parking_lot = <<>>
    BY DEF CreateRoutingTable, EmptyEntry
  <2> QED
    BY <1>1, <1>2, <2>1 DEF LotOf
<1>5. \A id : /\ ~InQueue(<<>>, id) /\ QueuedOnce(<<>>, id)
              /\ ~InLot(<<>>, id) /\ ParkedOnce(<<>>, id)
  BY DEF InQueue, QueuedOnce, InLot, ParkedOnce
<1>6. \A id : FewerQueued(rxq, rxq', id) /\ FewerParked(rt_table, rt_table', id)
  <2>1. \A id : FewerQueued(rxq, rxq', id)
    BY <1>3, <1>5 DEF FewerQueued
  <2>2. \A id : FewerParked(rt_table, rt_table', id)
    BY <1>4, <1>5 DEF FewerParked
  <2> QED
    BY <2>1, <2>2
<1>7. ASSUME NEW v, Seen(rxq', rt_table', v)
      PROVE  Seen(rxq, rt_table, v)
  <2>1. CASE SeenQueued(rxq', v)
    <3>1. PICK a \in HwAddr : \E i \in DOMAIN rxq'[a] : v = View(rxq'[a][i].msg)
      BY <2>1 DEF SeenQueued
    <3>2. rxq'[a] # <<>>
      BY <3>1
    <3>3. SeenQueued(rxq, v)
      BY <1>3, <3>1, <3>2 DEF SeenQueued
    <3> QED
      BY <3>3 DEF Seen
  <2>2. CASE SeenParked(rt_table', v)
    <3>1. PICK m \in Node, c \in Node :
             \E i \in DOMAIN LotOf(rt_table', m, c) :
                v = View(LotOf(rt_table', m, c)[i])
      BY <2>2 DEF SeenParked
    <3>2. LotOf(rt_table', m, c) # <<>>
      BY <3>1
    <3>3. SeenParked(rt_table, v)
      BY <1>4, <3>1, <3>2 DEF SeenParked
    <3> QED
      BY <3>3 DEF Seen
  <2> QED
    BY <1>7, <2>1, <2>2 DEF Seen
<1>8. Dropped(rxq, rt_table)
  BY <1>6, <1>7 DEF Dropped
<1> QED
  BY <1>1, <1>8, DroppedPassed, PassedProgress DEF Sending

LEMMA StepProgress ==
    ASSUME CopyInv, [Next]_vars
    PROVE  Progress /\ Sending
<1>1. CASE \E f \in Flow, forced \in Forcing : DoProcess(f, forced)
  BY <1>1, SendProgress
<1>2. CASE \E a \in HwAddr : ProcessFrame(a)
  <2>1. accepted' = accepted
    BY <1>2 DEF ProcessFrame, AnswerRequest, RelayRequest, Unpark, ForwardReply,
       ReceiveData, ForwardData, IgnoreOwn
  <2> QED
    BY <1>2, <2>1, ReceiveProgress DEF Sending
<1>3. CASE \E n \in Node : Tick(n)
  BY <1>3, TickProgress
<1>4. CASE \E a \in HwAddr : Lose(a)
  BY <1>4, LoseProgress
<1>5. CASE \E n \in Node : Restart(n)
  BY <1>5, RestartProgress
<1>6. CASE UNCHANGED vars
  <2>1. /\ rxq' = rxq /\ rt_table' = rt_table
        /\ delivered' = delivered /\ accepted' = accepted
    BY <1>6 DEF vars
  <2>2. Passed
    BY <2>1 DEF Passed
  <2> QED
    BY <2>1, <2>2, PassedProgress DEF Sending
<1> QED
  BY <1>1, <1>2, <1>3, <1>4, <1>5, <1>6 DEF Next

LEMMA InitCopyInv == Init => CopyInv
<1> SUFFICES ASSUME Init
             PROVE  CopyInv
  OBVIOUS
<1>1. LotInv
  BY InitLotInv
<1>2. DOMAIN accepted = {} /\ delivered = {}
  BY DEF Init
<1>3. \A v : ~SeenQueued(rxq, v)
  BY DEF Init, SeenQueued
<1>4. \A v : ~SeenParked(rt_table, v)
  <2>1. \A n, d \in Node : LotOf(rt_table, n, d) = <<>>
    BY DEF Init, LotOf, CreateRoutingTable, EmptyEntry
  <2> QED
    BY <2>1 DEF SeenParked
<1>5. \A n \in Node : ServerPort \in client_list[n]
  BY DEF Init
<1> QED
  BY <1>1, <1>2, <1>3, <1>4, <1>5 DEF CopyInv, Seen

LEMMA ServerKnown ==
    ASSUME CopyInv, [Next]_vars
    PROVE  \A n \in Node : ServerPort \in client_list'[n]
<1>1. /\ client_list \in [Node -> SUBSET Nat]
      /\ \A n \in Node : ServerPort \in client_list[n]
  BY DEF CopyInv, LotInv, IInv, TypeOK
<1>2. CASE client_list' = client_list
  BY <1>1, <1>2
<1>3. ASSUME NEW f \in Flow, NEW forced \in Forcing, DoProcess(f, forced)
      PROVE  \A n \in Node : ServerPort \in client_list'[n]
  <2>1. client_list' =
           [client_list EXCEPT ![f.src] = client_list[f.src] \cup {f.sport}]
    BY <1>3 DEF DoProcess
  <2> QED
    BY <1>1, <2>1
<1>4. ASSUME NEW m \in Node, Restart(m)
      PROVE  \A n \in Node : ServerPort \in client_list'[n]
  BY <1>1, <1>4 DEF Restart
<1> QED
  BY <1>2, <1>3, <1>4 DEF Next, vars, ProcessFrame, AnswerRequest, RelayRequest,
     Unpark, ForwardReply, ReceiveData, ForwardData, IgnoreOwn, Tick, Lose

LEMMA StepKeepsCopyInv ==
    ASSUME CopyInv, [Next]_vars
    PROVE  CopyInv'
<1>0. Progress /\ Sending
  BY StepProgress
<1>1. LotInv'
  BY StepKeepsLotInv DEF CopyInv
<1>2. \A id \in DOMAIN accepted' : Once(rxq', rt_table', delivered', id)
  BY <1>0 DEF Progress
<1>3. ASSUME NEW v, Seen(rxq', rt_table', v)
      PROVE  Honest(accepted', v)
  <2>1. CASE Control(v) \/ Present(v)
    BY <1>0, <2>1, PresentFacts DEF Honest
  <2>2. CASE ~(Control(v) \/ Present(v))
    <3>1. PICK id \in DOMAIN accepted' : v = ErrorView(accepted', id)
      BY <1>0, <1>3, <2>2 DEF Progress
    <3>2. v.id = id
      BY <3>1 DEF ErrorView
    <3> QED
      BY <3>1, <3>2 DEF Honest
  <2> QED
    BY <2>1, <2>2
<1>4. \A r \in delivered' : r.id \in DOMAIN accepted'
  <2>1. \A r \in delivered : r.id \in DOMAIN accepted'
    BY <1>0, SendingFacts DEF CopyInv
  <2>2. ASSUME NEW r \in delivered' \ delivered
        PROVE  r.id \in DOMAIN accepted'
    <3>1. PICK id \in DOMAIN accepted' :
             \/ r = [id |-> id, node |-> accepted'[id].dst,
                     port |-> accepted'[id].dport, err |-> FALSE]
             \/ r = [id |-> id, node |-> accepted'[id].src,
                     port |-> accepted'[id].sport, err |-> TRUE]
      BY <1>0 DEF Progress
    <3>2. r.id = id
      BY <3>1
    <3> QED
      BY <3>2
  <2> QED
    BY <2>1, <2>2
<1>5. \A n \in Node : ServerPort \in client_list'[n]
  BY ServerKnown
<1> QED
  BY <1>1, <1>2, <1>3, <1>4, <1>5
     DEF CopyInv, Once, HeldOnce, Absent, InQueue, InLot, QueuedOnce, ParkedOnce,
         LotOf, Seen, SeenQueued, SeenParked, View, Honest, Control, TransitView,
         ErrorView

LEMMA CopyInvariance == Spec => []CopyInv
BY InitCopyInv, StepKeepsCopyInv, PTL DEF Spec

-----------------------------------------------------------------------------
(* Copies. *)

LEMMA QueuedPlaces ==
    ASSUME NEW id
    PROVE  \A x : x \in Queued(id) <=>
              \E a \in HwAddr : \E i \in DOMAIN rxq[a] :
                 x = <<a, i>> /\ rxq[a][i].msg.payload = id
BY DEF Queued

LEMMA ParkedPlaces ==
    ASSUME NEW id
    PROVE  \A x : x \in Parked(id) <=>
              \E n, d \in Node : \E i \in DOMAIN LotOf(rt_table, n, d) :
                 /\ x = <<<<n, d>>, i>>
                 /\ LotOf(rt_table, n, d)[i].payload = id
BY DEF Parked, Lot, LotOf

LEMMA AtMostOne ==
    ASSUME NEW S, \A x, y \in S : x = y
    PROVE  Cardinality(S) = IF S = {} THEN 0 ELSE 1
<1>1. CASE S = {}
  BY <1>1, FS_EmptySet
<1>2. CASE S # {}
  <2>1. PICK x : x \in S
    BY <1>2
  <2>2. S = {x}
    BY <2>1
  <2> QED
    BY <1>2, <2>2, FS_Singleton
<1> QED
  BY <1>1, <1>2

LEMMA OneCopy == CopyInv => AtMostOneCopy
<1> SUFFICES ASSUME CopyInv, NEW id \in DOMAIN accepted
             PROVE  CopiesOf(id) <= 1
  BY DEF AtMostOneCopy
<1>1. Once(rxq, rt_table, delivered, id)
  BY DEF CopyInv
<1>2. HeldOnce(rxq, rt_table, id)
  BY <1>1 DEF Once
<1>3. ASSUME NEW x \in Queued(id), NEW y \in Queued(id)
      PROVE  x = y
  <2>1. PICK a \in HwAddr : \E i \in DOMAIN rxq[a] :
             x = <<a, i>> /\ rxq[a][i].msg.payload = id
    BY QueuedPlaces
  <2>2. PICK b \in HwAddr : \E i \in DOMAIN rxq[b] :
             y = <<b, i>> /\ rxq[b][i].msg.payload = id
    BY QueuedPlaces
  <2>3. PICK i \in DOMAIN rxq[a] : x = <<a, i>> /\ rxq[a][i].msg.payload = id
    BY <2>1
  <2>4. PICK j \in DOMAIN rxq[b] : y = <<b, j>> /\ rxq[b][j].msg.payload = id
    BY <2>2
  <2>5. a = b /\ i = j
    BY <1>2, <2>3, <2>4 DEF HeldOnce, InQueue, QueuedOnce
  <2> QED
    BY <2>3, <2>4, <2>5
<1>4. ASSUME NEW x \in Parked(id), NEW y \in Parked(id)
      PROVE  x = y
  <2>1. PICK n \in Node, d \in Node : \E i \in DOMAIN LotOf(rt_table, n, d) :
             x = <<<<n, d>>, i>> /\ LotOf(rt_table, n, d)[i].payload = id
    BY ParkedPlaces
  <2>2. PICK m \in Node, e \in Node : \E i \in DOMAIN LotOf(rt_table, m, e) :
             y = <<<<m, e>>, i>> /\ LotOf(rt_table, m, e)[i].payload = id
    BY ParkedPlaces
  <2>3. PICK i \in DOMAIN LotOf(rt_table, n, d) :
             x = <<<<n, d>>, i>> /\ LotOf(rt_table, n, d)[i].payload = id
    BY <2>1
  <2>4. PICK j \in DOMAIN LotOf(rt_table, m, e) :
             y = <<<<m, e>>, j>> /\ LotOf(rt_table, m, e)[j].payload = id
    BY <2>2
  <2>5. n = m /\ d = e /\ i = j
    BY <1>2, <2>3, <2>4 DEF HeldOnce, InLot, ParkedOnce
  <2> QED
    BY <2>3, <2>4, <2>5
<1>5. \A x, y \in ArrivedAt(id) : x = y
  BY <1>1 DEF Once, ArrivedAt
<1>6. Queued(id) = {} \/ Parked(id) = {}
  BY <1>2, QueuedPlaces, ParkedPlaces DEF HeldOnce, InQueue, InLot
<1>7. ArrivedAt(id) # {} => Queued(id) = {} /\ Parked(id) = {}
  <2> SUFFICES ASSUME ArrivedAt(id) # {}
               PROVE  Queued(id) = {} /\ Parked(id) = {}
    OBVIOUS
  <2>1. Absent(rxq, rt_table, id)
    BY <1>1 DEF Once, ArrivedAt
  <2>2. Queued(id) = {}
    BY <2>1, QueuedPlaces DEF Absent, InQueue
  <2>3. Parked(id) = {}
    BY <2>1, ParkedPlaces DEF Absent, InLot
  <2> QED
    BY <2>2, <2>3
<1>8. /\ Cardinality(Queued(id)) = IF Queued(id) = {} THEN 0 ELSE 1
      /\ Cardinality(Parked(id)) = IF Parked(id) = {} THEN 0 ELSE 1
      /\ Cardinality(ArrivedAt(id)) = IF ArrivedAt(id) = {} THEN 0 ELSE 1
  BY <1>3, <1>4, <1>5, AtMostOne
<1> QED
  BY <1>6, <1>7, <1>8 DEF CopiesOf

(* However frames are lost and routers restart, however messages are       *)
(* parked, sent on, answered with an error and searched a route for, a     *)
(* datagram, or the error that answers it, is in one place: nothing is     *)
(* ever delivered twice (process_incoming_rep empties the lot it sends).   *)
THEOREM AtMostOneCopyHolds == Spec => []AtMostOneCopy
BY CopyInvariance, OneCopy, PTL

-----------------------------------------------------------------------------
(* The service.  The fate of datagram id, from where it is and what is     *)
(* said of it.                                                             *)

FateIn(q, T, D, A, id) ==
    IF \E r \in D : r.id = id /\ ~r.err THEN "delivered"
    ELSE IF \E r \in D : r.id = id /\ r.err THEN "returned"
    ELSE IF Seen(q, T, ErrorView(A, id)) THEN "error"
    ELSE IF Seen(q, T, TransitView(A, id)) THEN "transit"
    ELSE "lost"

FateNow == [id \in DOMAIN accepted |-> FateOf(id)]

LEMMA ViewsDiffer ==
    ASSUME NEW A, NEW B, NEW i, NEW j
    PROVE  /\ TransitView(A, i).id = i /\ ErrorView(A, i).id = i
           /\ TransitView(A, i) # ErrorView(B, j)
           /\ "ERR" \notin TransitView(A, i).flags
           /\ "ERR" \in ErrorView(A, i).flags
<1>1. "ERR" \notin TransitView(A, i).flags /\ "ERR" \in ErrorView(B, j).flags
  BY DEF TransitView, ErrorView
<1> QED
  BY <1>1 DEF TransitView, ErrorView

LEMMA FateFact ==
    CopyInv => FateNow = [id \in DOMAIN accepted |->
                             FateIn(rxq, rt_table, delivered, accepted, id)]
<1> SUFFICES ASSUME CopyInv, NEW id \in DOMAIN accepted
             PROVE  FateOf(id) = FateIn(rxq, rt_table, delivered, accepted, id)
  BY DEF FateNow
<1> DEFINE T == TransitView(accepted, id)
           E == ErrorView(accepted, id)
           Here(v) == Seen(rxq, rt_table, v)
<1>1. id # 0
  BY DEF CopyInv, LotInv, IInv, TypeOK
<1>2. ASSUME NEW v, Here(v), v.id = id
      PROVE  v = T \/ v = E
  BY <1>1, <1>2 DEF CopyInv, Honest, Control
<1>3. T.id = id /\ E.id = id /\ "ERR" \notin T.flags /\ "ERR" \in E.flags
  BY ViewsDiffer
<1>4. \A h : /\ View(h).id = h.payload
             /\ "ERR" \in View(h).flags <=> IsFlagSet(h, "ERR")
  BY DEF View, IsFlagSet
<1> HIDE DEF T, E
<1>5. \A a \in HwAddr : \A i \in DOMAIN rxq[a] : Here(View(rxq[a][i].msg))
  BY DEF Seen, SeenQueued
<1>6. \A n, d \in Node : \A i \in DOMAIN LotOf(rt_table, n, d) :
         Here(View(LotOf(rt_table, n, d)[i]))
  BY DEF Seen, SeenParked
<1>7. \A v : Here(v) =>
         \/ \E a \in HwAddr : \E i \in DOMAIN rxq[a] : v = View(rxq[a][i].msg)
         \/ \E n, d \in Node : \E i \in DOMAIN LotOf(rt_table, n, d) :
               v = View(LotOf(rt_table, n, d)[i])
  BY DEF Seen, SeenQueued, SeenParked
<1> HIDE DEF Here
<1>8. (Queued(id) # {} \/ Parked(id) # {}) <=> (Here(T) \/ Here(E))
  <2>1. Queued(id) # {} => Here(T) \/ Here(E)
    BY <1>2, <1>4, <1>5, QueuedPlaces
  <2>2. Parked(id) # {} => Here(T) \/ Here(E)
    BY <1>2, <1>4, <1>6, ParkedPlaces
  <2>3. ASSUME NEW v \in {T, E}, Here(v)
        PROVE  Queued(id) # {} \/ Parked(id) # {}
    <3>1. CASE \E a \in HwAddr : \E i \in DOMAIN rxq[a] : v = View(rxq[a][i].msg)
      <4>1. PICK a \in HwAddr : \E i \in DOMAIN rxq[a] : v = View(rxq[a][i].msg)
        BY <3>1
      <4>2. PICK i \in DOMAIN rxq[a] : v = View(rxq[a][i].msg)
        BY <4>1
      <4>3. rxq[a][i].msg.payload = id
        BY <1>3, <1>4, <4>2
      <4>4. <<a, i>> \in Queued(id)
        BY <4>3, QueuedPlaces
      <4> QED
        BY <4>4
    <3>2. CASE \E n, d \in Node : \E i \in DOMAIN LotOf(rt_table, n, d) :
                  v = View(LotOf(rt_table, n, d)[i])
      <4>1. PICK n \in Node, d \in Node : \E i \in DOMAIN LotOf(rt_table, n, d) :
                 v = View(LotOf(rt_table, n, d)[i])
        BY <3>2
      <4>2. PICK i \in DOMAIN LotOf(rt_table, n, d) :
                 v = View(LotOf(rt_table, n, d)[i])
        BY <4>1
      <4>3. LotOf(rt_table, n, d)[i].payload = id
        BY <1>3, <1>4, <4>2
      <4>4. <<<<n, d>>, i>> \in Parked(id)
        BY <4>3, ParkedPlaces
      <4> QED
        BY <4>4
    <3> QED
      BY <1>7, <2>3, <3>1, <3>2
  <2> QED
    BY <2>1, <2>2, <2>3
<1>9. InError(id) <=> Here(E)
  <2>1. ASSUME NEW x \in Queued(id), IsFlagSet(rxq[x[1]][x[2]].msg, "ERR")
        PROVE  Here(E)
    <3>1. PICK a \in HwAddr : \E i \in DOMAIN rxq[a] :
               x = <<a, i>> /\ rxq[a][i].msg.payload = id
      BY QueuedPlaces
    <3>2. PICK i \in DOMAIN rxq[a] : x = <<a, i>> /\ rxq[a][i].msg.payload = id
      BY <3>1
    <3> QED
      BY <1>2, <1>3, <1>4, <1>5, <2>1, <3>2
  <2>2. ASSUME NEW x \in Parked(id),
               IsFlagSet(Lot(x[1][1], x[1][2])[x[2]], "ERR")
        PROVE  Here(E)
    <3>1. PICK n \in Node, d \in Node : \E i \in DOMAIN LotOf(rt_table, n, d) :
               x = <<<<n, d>>, i>> /\ LotOf(rt_table, n, d)[i].payload = id
      BY ParkedPlaces
    <3>2. PICK i \in DOMAIN LotOf(rt_table, n, d) :
               x = <<<<n, d>>, i>> /\ LotOf(rt_table, n, d)[i].payload = id
      BY <3>1
    <3>3. IsFlagSet(LotOf(rt_table, n, d)[i], "ERR")
      BY <2>2, <3>2 DEF Lot, LotOf
    <3> QED
      BY <1>2, <1>3, <1>4, <1>6, <3>2, <3>3
  <2>3. ASSUME Here(E)
        PROVE  InError(id)
    <3>1. CASE \E a \in HwAddr : \E i \in DOMAIN rxq[a] : E = View(rxq[a][i].msg)
      <4>1. PICK a \in HwAddr : \E i \in DOMAIN rxq[a] : E = View(rxq[a][i].msg)
        BY <3>1
      <4>2. PICK i \in DOMAIN rxq[a] : E = View(rxq[a][i].msg)
        BY <4>1
      <4>3. <<a, i>> \in Queued(id) /\ IsFlagSet(rxq[a][i].msg, "ERR")
        BY <1>3, <1>4, <4>2, QueuedPlaces
      <4> DEFINE x == <<a, i>>
      <4>4. x[1] = a /\ x[2] = i
        OBVIOUS
      <4> HIDE DEF x
      <4>5. x \in Queued(id) /\ IsFlagSet(rxq[x[1]][x[2]].msg, "ERR")
        BY <4>3, <4>4 DEF x
      <4> QED
        BY <4>5 DEF InError
    <3>2. CASE \E n, d \in Node : \E i \in DOMAIN LotOf(rt_table, n, d) :
                  E = View(LotOf(rt_table, n, d)[i])
      <4>1. PICK n \in Node, d \in Node : \E i \in DOMAIN LotOf(rt_table, n, d) :
                 E = View(LotOf(rt_table, n, d)[i])
        BY <3>2
      <4>2. PICK i \in DOMAIN LotOf(rt_table, n, d) :
                 E = View(LotOf(rt_table, n, d)[i])
        BY <4>1
      <4>3. <<<<n, d>>, i>> \in Parked(id) /\ IsFlagSet(Lot(n, d)[i], "ERR")
        <5>1. IsFlagSet(LotOf(rt_table, n, d)[i], "ERR")
          BY <1>3, <1>4, <4>2
        <5> QED
          BY <1>3, <1>4, <4>2, <5>1, ParkedPlaces DEF Lot, LotOf
      <4> DEFINE x == <<<<n, d>>, i>>
      <4>4. x[1][1] = n /\ x[1][2] = d /\ x[2] = i
        OBVIOUS
      <4> HIDE DEF x
      <4>5. x \in Parked(id) /\ IsFlagSet(Lot(x[1][1], x[1][2])[x[2]], "ERR")
        BY <4>3, <4>4 DEF x
      <4> QED
        BY <4>5 DEF InError
    <3> QED
      BY <1>7, <2>3, <3>1, <3>2
  <2> QED
    BY <2>1, <2>2, <2>3 DEF InError
<1>10. FateIn(rxq, rt_table, delivered, accepted, id) =
          IF \E r \in delivered : r.id = id /\ ~r.err THEN "delivered"
          ELSE IF \E r \in delivered : r.id = id /\ r.err THEN "returned"
          ELSE IF Here(E) THEN "error"
          ELSE IF Here(T) THEN "transit"
          ELSE "lost"
  BY DEF FateIn, Here, T, E
<1>11. /\ (\E r \in ArrivedAt(id) : ~r.err)
             <=> (\E r \in delivered : r.id = id /\ ~r.err)
       /\ (\E r \in ArrivedAt(id) : r.err)
             <=> (\E r \in delivered : r.id = id /\ r.err)
  BY DEF ArrivedAt
<1> QED
  BY <1>8, <1>9, <1>10, <1>11 DEF FateOf

(* The fate of datagram id before a step, and after it. *)
FateBefore(id) ==
    IF id \in DOMAIN accepted
    THEN FateIn(rxq, rt_table, delivered, accepted, id) ELSE "transit"

FateAfter(id) == FateIn(rxq', rt_table', delivered', accepted', id)

DeliveryOf(A, id) ==
    [id |-> id, node |-> A[id].dst, port |-> A[id].dport, err |-> FALSE]

ReturnOf(A, id) ==
    [id |-> id, node |-> A[id].src, port |-> A[id].sport, err |-> TRUE]

Got(D, id, err) == \E r \in D : r.id = id /\ (r.err <=> err)

LEMMA BeforeFacts ==
    ASSUME CopyInv, Sending, NEW id \in DOMAIN accepted'
    PROVE  FateBefore(id) = IF Got(delivered, id, FALSE) THEN "delivered"
                            ELSE IF Got(delivered, id, TRUE) THEN "returned"
                            ELSE IF Present(ErrorView(accepted', id)) THEN "error"
                            ELSE IF Present(TransitView(accepted', id))
                                 THEN "transit"
                            ELSE "lost"
<1>1. /\ \A k \in DOMAIN accepted : accepted'[k] = accepted[k]
      /\ accepted' # accepted => Len(accepted) + 1 \notin DOMAIN accepted
      /\ id \notin DOMAIN accepted =>
            accepted' # accepted /\ id = Len(accepted) + 1
  BY SendingFacts
<1>2. CASE id \in DOMAIN accepted
  <2>1. /\ ErrorView(accepted', id) = ErrorView(accepted, id)
        /\ TransitView(accepted', id) = TransitView(accepted, id)
    BY <1>1, <1>2 DEF ErrorView, TransitView
  <2>2. /\ Present(ErrorView(accepted, id))
              <=> Seen(rxq, rt_table, ErrorView(accepted, id))
        /\ Present(TransitView(accepted, id))
              <=> Seen(rxq, rt_table, TransitView(accepted, id))
    BY <1>1, <1>2, ViewsDiffer DEF Present
  <2> QED
    BY <1>2, <2>1, <2>2 DEF FateBefore, FateIn, Got
<1>3. CASE id \notin DOMAIN accepted
  <2>1. Present(TransitView(accepted', id))
    BY <1>1, <1>3 DEF Present
  <2>2. ~Present(ErrorView(accepted', id))
    BY <2>1, PresentFacts
  <2>3. \A r \in delivered : r.id # id
    BY <2>1, PresentFacts, ViewsDiffer
  <2> QED
    BY <1>3, <2>1, <2>2, <2>3 DEF FateBefore, Got
<1> QED
  BY <1>2, <1>3

(* What a step can do to one datagram. *)
LEMMA FateFacts ==
    ASSUME CopyInv, Sending, Progress, NEW id \in DOMAIN accepted'
    PROVE  LET toError == Present(ErrorView(accepted', id))
               inTransit == Present(TransitView(accepted', id))
               flow == accepted'[id]
               now(v) == Seen(rxq', rt_table', v)
               got(err) == Got(delivered', id, err)
               had(err) == Got(delivered, id, err)
           IN  /\ inTransit => ~had(FALSE) /\ ~had(TRUE) /\ ~toError
               /\ toError => ~had(FALSE) /\ ~had(TRUE)
               /\ had(FALSE) => got(FALSE)
               /\ had(TRUE) => got(TRUE)
               /\ ~(got(FALSE) /\ got(TRUE))
               /\ got(FALSE) /\ ~had(FALSE) =>
                     inTransit /\ <<flow.dst, flow.dport>> \in Alive
               /\ got(TRUE) /\ ~had(TRUE) => toError
               /\ now(TransitView(accepted', id)) => inTransit
               /\ now(ErrorView(accepted', id)) =>
                     \/ toError
                     \/ /\ inTransit
                        /\ ~(/\ flow.dport = ServerPort
                             /\ <<flow.dst, ServerPort>> \in Alive)
<1> DEFINE T == TransitView(accepted', id)
           E == ErrorView(accepted', id)
<1>1. T.id = id /\ E.id = id /\ "ERR" \notin T.flags /\ "ERR" \in E.flags
  BY ViewsDiffer
<1>2. id # 0
  BY SendingFacts
<1>3. /\ Present(T) => ~Got(delivered, id, FALSE) /\ ~Got(delivered, id, TRUE)
      /\ Present(E) => ~Got(delivered, id, FALSE) /\ ~Got(delivered, id, TRUE)
      /\ ~(Present(T) /\ Present(E))
  BY <1>1, PresentFacts DEF Got
<1>4. /\ Got(delivered, id, FALSE) => Got(delivered', id, FALSE)
      /\ Got(delivered, id, TRUE) => Got(delivered', id, TRUE)
  BY DEF Got, Progress
<1>5. ~(Got(delivered', id, FALSE) /\ Got(delivered', id, TRUE))
  BY DEF Got, Progress, Once
<1>6. ASSUME NEW r \in delivered' \ delivered, r.id = id
      PROVE  \/ /\ r = DeliveryOf(accepted', id)
                /\ Present(T)
                /\ <<accepted'[id].dst, accepted'[id].dport>> \in Alive
             \/ r = ReturnOf(accepted', id) /\ Present(E)
  <2>1. PICK k \in DOMAIN accepted' :
           \/ /\ r = DeliveryOf(accepted', k)
              /\ Present(TransitView(accepted', k))
              /\ <<accepted'[k].dst, accepted'[k].dport>> \in Alive
           \/ r = ReturnOf(accepted', k) /\ Present(ErrorView(accepted', k))
    BY DEF Progress, DeliveryOf, ReturnOf
  <2>2. r.id = k
    BY <2>1 DEF DeliveryOf, ReturnOf
  <2> QED
    BY <1>6, <2>1, <2>2
<1>7. /\ ~DeliveryOf(accepted', id).err /\ ReturnOf(accepted', id).err
  BY DEF DeliveryOf, ReturnOf
<1>8. /\ Got(delivered', id, FALSE) /\ ~Got(delivered, id, FALSE) =>
            /\ Present(T)
            /\ <<accepted'[id].dst, accepted'[id].dport>> \in Alive
      /\ Got(delivered', id, TRUE) /\ ~Got(delivered, id, TRUE) => Present(E)
  BY <1>6, <1>7 DEF Got
<1>9. ASSUME NEW v, Seen(rxq', rt_table', v), v.id = id
      PROVE  \/ Present(v)
             \/ /\ v = E /\ Present(T)
                /\ ~(/\ accepted'[id].dport = ServerPort
                     /\ <<accepted'[id].dst, ServerPort>> \in Alive)
  <2>1. CASE Present(v)
    BY <2>1
  <2>2. CASE ~Present(v)
    <3>1. PICK k \in DOMAIN accepted' :
             /\ v = ErrorView(accepted', k)
             /\ Present(TransitView(accepted', k))
             /\ ~(/\ accepted'[k].dport = ServerPort
                  /\ <<accepted'[k].dst, ServerPort>> \in Alive)
      BY <1>2, <1>9, <2>2 DEF Progress, Control
    <3>2. k = id
      BY <1>9, <3>1, ViewsDiffer
    <3> QED
      BY <3>1, <3>2
  <2> QED
    BY <2>1, <2>2
<1>10. T # E
  BY <1>1
<1> HIDE DEF T, E
<1>11. /\ Seen(rxq', rt_table', T) => Present(T)
       /\ Seen(rxq', rt_table', E) =>
             \/ Present(E)
             \/ /\ Present(T)
                /\ ~(/\ accepted'[id].dport = ServerPort
                     /\ <<accepted'[id].dst, ServerPort>> \in Alive)
  BY <1>1, <1>9, <1>10
<1> QED
  BY <1>3, <1>4, <1>5, <1>8, <1>11 DEF T, E

LEMMA AfterFacts ==
    ASSUME NEW id
    PROVE  FateAfter(id) =
              IF Got(delivered', id, FALSE) THEN "delivered"
              ELSE IF Got(delivered', id, TRUE) THEN "returned"
              ELSE IF Seen(rxq', rt_table', ErrorView(accepted', id)) THEN "error"
              ELSE IF Seen(rxq', rt_table', TransitView(accepted', id))
                   THEN "transit"
              ELSE "lost"
BY DEF FateAfter, FateIn, Got

LEMMA FateMoves ==
    ASSUME CopyInv, Sending, Progress, NEW id \in DOMAIN accepted'
    PROVE  /\ FateAfter(id) \in Service!Moves(FateBefore(id))
           /\ FateBefore(id) # "delivered" /\ FateAfter(id) = "delivered" =>
                 <<accepted'[id].dst, accepted'[id].dport>> \in Alive
           /\ FateBefore(id) # "error" /\ FateAfter(id) = "error" =>
                 <<accepted'[id].dst, accepted'[id].dport>>
                    \notin {e \in Alive : e[2] = ServerPort}
<1>1. CASE FateBefore(id) = "delivered"
  BY <1>1, BeforeFacts, AfterFacts, FateFacts DEF Service!Moves, Service!Final
<1>2. CASE FateBefore(id) = "returned"
  BY <1>2, BeforeFacts, AfterFacts, FateFacts DEF Service!Moves, Service!Final
<1>3. CASE FateBefore(id) = "error"
  BY <1>3, BeforeFacts, AfterFacts, FateFacts DEF Service!Moves, Service!Final
<1>4. CASE FateBefore(id) = "transit"
  BY <1>4, BeforeFacts, AfterFacts, FateFacts DEF Service!Moves, Service!Final
<1>5. CASE FateBefore(id) = "lost"
  BY <1>5, BeforeFacts, AfterFacts, FateFacts DEF Service!Moves, Service!Final
<1> QED
  BY <1>1, <1>2, <1>3, <1>4, <1>5, BeforeFacts

(* What is handed to processes is what the fates say. *)
LEMMA InboxGrows ==
    ASSUME CopyInv, Sending, Progress
    PROVE  delivered' = delivered
              \cup {DeliveryOf(accepted', id) :
                      id \in {i \in DOMAIN accepted' :
                                 FateBefore(i) # "delivered"
                                 /\ FateAfter(i) = "delivered"}}
              \cup {ReturnOf(accepted', id) :
                      id \in {i \in DOMAIN accepted' :
                                 FateBefore(i) # "returned"
                                 /\ FateAfter(i) = "returned"}}
<1> DEFINE Reached == {i \in DOMAIN accepted' : FateBefore(i) # "delivered"
                                               /\ FateAfter(i) = "delivered"}
           Back == {i \in DOMAIN accepted' : FateBefore(i) # "returned"
                                             /\ FateAfter(i) = "returned"}
<1>1. ASSUME NEW r \in delivered' \ delivered
      PROVE  \/ \E i \in Reached : r = DeliveryOf(accepted', i)
             \/ \E i \in Back : r = ReturnOf(accepted', i)
  <2>1. PICK i \in DOMAIN accepted' :
           \/ r = DeliveryOf(accepted', i) /\ Present(TransitView(accepted', i))
           \/ r = ReturnOf(accepted', i) /\ Present(ErrorView(accepted', i))
    BY DEF Progress, DeliveryOf, ReturnOf
  <2>2. CASE r = DeliveryOf(accepted', i) /\ Present(TransitView(accepted', i))
    <3>1. r.id = i /\ r.err = FALSE
      BY <2>2 DEF DeliveryOf
    <3>2. Got(delivered', i, FALSE)
      BY <3>1 DEF Got
    <3>3. i \in Reached
      BY <2>2, <3>2, BeforeFacts, AfterFacts, FateFacts
    <3> QED
      BY <2>2, <3>3
  <2>3. CASE r = ReturnOf(accepted', i) /\ Present(ErrorView(accepted', i))
    <3>1. r.id = i /\ r.err = TRUE
      BY <2>3 DEF ReturnOf
    <3>2. Got(delivered', i, TRUE)
      BY <3>1 DEF Got
    <3>3. i \in Back
      BY <2>3, <3>2, BeforeFacts, AfterFacts, FateFacts
    <3> QED
      BY <2>3, <3>3
  <2> QED
    BY <2>1, <2>2, <2>3
<1>2. ASSUME NEW i \in DOMAIN accepted', NEW r \in delivered' \ delivered,
             r.id = i
      PROVE  \/ r = DeliveryOf(accepted', i) /\ ~r.err
             \/ r = ReturnOf(accepted', i) /\ r.err
  <2>1. PICK k \in DOMAIN accepted' : \/ r = DeliveryOf(accepted', k)
                                      \/ r = ReturnOf(accepted', k)
    BY DEF Progress, DeliveryOf, ReturnOf
  <2>2. /\ r.id = k
        /\ r = DeliveryOf(accepted', k) => r.err = FALSE
        /\ r = ReturnOf(accepted', k) => r.err = TRUE
    BY <2>1 DEF DeliveryOf, ReturnOf
  <2> QED
    BY <1>2, <2>1, <2>2
<1>3. ASSUME NEW i \in Reached
      PROVE  DeliveryOf(accepted', i) \in delivered'
  <2>1. Got(delivered', i, FALSE) /\ ~Got(delivered, i, FALSE)
    BY BeforeFacts, AfterFacts
  <2>2. PICK r \in delivered' \ delivered : r.id = i /\ ~r.err
    BY <2>1 DEF Got
  <2> QED
    BY <1>2, <2>2
<1>4. ASSUME NEW i \in Back
      PROVE  ReturnOf(accepted', i) \in delivered'
  <2>1. Got(delivered', i, TRUE) /\ ~Got(delivered, i, TRUE)
    BY BeforeFacts, AfterFacts, FateFacts
  <2>2. PICK r \in delivered' \ delivered : r.id = i /\ r.err
    BY <2>1 DEF Got
  <2> QED
    BY <1>2, <2>2
<1>5. delivered \subseteq delivered'
  BY DEF Progress
<1> HIDE DEF Reached, Back
<1>6. delivered' = delivered \cup {DeliveryOf(accepted', id) : id \in Reached}
                             \cup {ReturnOf(accepted', id) : id \in Back}
  BY <1>1, <1>3, <1>4, <1>5
<1> QED
  BY <1>6 DEF Reached, Back

LEMMA FateNext ==
    (CopyInv => FateNow = [id \in DOMAIN accepted |->
                             FateIn(rxq, rt_table, delivered, accepted, id)])'
BY FateFact, PTL

LEMMA StepIsService ==
    ASSUME CopyInv, [Next]_vars
    PROVE  Service!Next
<1>1. Progress /\ Sending /\ CopyInv'
  BY StepProgress, StepKeepsCopyInv
<1>2. FateNow = [id \in DOMAIN accepted |->
                    FateIn(rxq, rt_table, delivered, accepted, id)]
  BY FateFact
<1>3. FateNow' = [id \in DOMAIN accepted' |-> FateAfter(id)]
  BY <1>1, FateNext
     DEF FateAfter, FateIn, Seen, SeenQueued, SeenParked, View, LotOf, ErrorView,
         TransitView
<1>4. \A id : (IF id \in DOMAIN FateNow THEN FateNow[id] ELSE "transit")
                 = FateBefore(id)
  BY <1>2 DEF FateBefore
<1>5. /\ DOMAIN FateNow' = DOMAIN accepted'
      /\ \A id \in DOMAIN accepted' : FateNow'[id] = FateAfter(id)
  BY <1>3
<1>6. accepted' = accepted \/ \E f \in Flow : accepted' = Append(accepted, f)
  BY <1>1 DEF Sending
<1> DEFINE Was(id) == IF id \in DOMAIN FateNow THEN FateNow[id] ELSE "transit"
           Becomes(id, x) == Was(id) # x /\ FateNow'[id] = x
<1>7. \A id \in DOMAIN accepted' :
         /\ FateNow'[id] \in Service!Moves(Was(id))
         /\ Becomes(id, "delivered") =>
               <<accepted'[id].dst, accepted'[id].dport>> \in Alive
         /\ Becomes(id, "error") =>
               <<accepted'[id].dst, accepted'[id].dport>>
                  \notin {e \in Alive : e[2] = ServerPort}
  BY <1>1, <1>4, <1>5, FateMoves
<1>8. delivered' = delivered
         \cup {DeliveryOf(accepted', id) :
                 id \in {i \in DOMAIN accepted' : Becomes(i, "delivered")}}
         \cup {ReturnOf(accepted', id) :
                 id \in {i \in DOMAIN accepted' : Becomes(i, "returned")}}
  <2>1. \A i \in DOMAIN accepted' :
           /\ Becomes(i, "delivered") <=>
                 FateBefore(i) # "delivered" /\ FateAfter(i) = "delivered"
           /\ Becomes(i, "returned") <=>
                 FateBefore(i) # "returned" /\ FateAfter(i) = "returned"
    BY <1>4, <1>5
  <2> HIDE DEF Becomes
  <2>2. /\ {i \in DOMAIN accepted' : Becomes(i, "delivered")} =
              {i \in DOMAIN accepted' : FateBefore(i) # "delivered"
                                        /\ FateAfter(i) = "delivered"}
        /\ {i \in DOMAIN accepted' : Becomes(i, "returned")} =
              {i \in DOMAIN accepted' : FateBefore(i) # "returned"
                                        /\ FateAfter(i) = "returned"}
    BY <2>1
  <2> QED
    BY <1>1, <2>2, InboxGrows
<1> QED
  BY <1>5, <1>6, <1>7, <1>8
     DEF Service!Next, Service!Becomes, Service!Was, Service!Delivery,
         Service!Return, FateNow, DeliveryOf, ReturnOf

LEMMA InitIsService == Init => Service!Init
<1> SUFFICES ASSUME Init
             PROVE  accepted = <<>> /\ delivered = {}
                    /\ [id \in DOMAIN accepted |-> FateOf(id)] = <<>>
  BY DEF Service!Init
<1>1. accepted = <<>> /\ delivered = {}
  BY DEF Init
<1> QED
  BY <1>1

(* Every run of the routers is one of the datagram service: whatever is    *)
(* lost, forgotten or restarted, a datagram is delivered at most once, and *)
(* to the process it is for; its error only to the process that sent it,   *)
(* and never when the destination is a server that is known at all times;  *)
(* and what was delivered, returned or lost stays so.                      *)
THEOREM ImplementsServiceHolds == Spec => ImplementsService
<1>1. Init => Service!Init
  BY InitIsService
<1>2. CopyInv /\ [Next]_vars =>
         [Service!Next]_<<accepted, [id \in DOMAIN accepted |-> FateOf(id)],
                          delivered>>
  BY StepIsService
<1> QED
  BY <1>1, <1>2, CopyInvariance, PTL DEF Spec, ImplementsService, Service!Spec
=============================================================================
