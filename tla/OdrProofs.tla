----------------------------- MODULE OdrProofs -----------------------------
(***************************************************************************)
(* Theorems about Odr, for every network, set of flows and bounds.  First  *)
(* come lemmas about the operations of ParkingLot and RoutingTable: the    *)
(* types of their results, and which routes and which parked messages they *)
(* leave alone.                                                            *)
(*                                                                         *)
(* The lemmas about what a router sends and keeps are stated for an        *)
(* arbitrary set F[a] of frames that may wait at interface a, and an       *)
(* arbitrary set M of messages that may be parked, so that they serve both *)
(* the type invariant and the proof that there are no routing loops.       *)
(***************************************************************************)
EXTENDS Odr, SequenceTheorems, WellFoundedInduction, TLAPS

-----------------------------------------------------------------------------
(* Parking lots. *)

(* A set of numbers that is not empty has a least one. *)
LEMMA LeastNumber ==
    ASSUME NEW S \in SUBSET Nat, S # {}
    PROVE  \E i \in S : \A j \in S : i <= j
<1>1. IsWellFoundedOn(OpToRel(<, Nat), Nat)
  BY NatLessThanWellFounded
<1>2. PICK i \in S : \A j \in S : ~(<<j, i>> \in OpToRel(<, Nat))
  BY <1>1, WFMin
<1>3. \A j \in S : ~(j < i)
  BY <1>2 DEF OpToRel
<1> QED
  BY <1>3

(* find_odr_car finds a car of the lot when there is one to find. *)
LEMMA CarAtPosition ==
    ASSUME NEW M, NEW lot \in Seq(M), NEW h, HasCar(lot, h)
    PROVE  /\ CarAt(lot, h) \in 1..Len(lot)
           /\ SameCar(lot[CarAt(lot, h)], h)
<1> DEFINE S == {i \in DOMAIN lot : SameCar(lot[i], h)}
<1>1. S \in SUBSET Nat /\ S # {}
  BY DEF HasCar
<1>2. PICK i \in S : \A j \in S : i <= j
  BY <1>1, LeastNumber
<1>3. \A j \in 1..(i - 1) : ~SameCar(lot[j], h)
  BY <1>2
<1> QED
  BY <1>2, <1>3 DEF CarAt

(* Parking adds the car to the messages of the lot, and leaves no lot      *)
(* empty.                                                                  *)
LEMMA ParkType ==
    ASSUME NEW M, NEW lot \in Seq(M), NEW h, Car(h) \in M
    PROVE  Park(lot, h) \in Seq(M) /\ Park(lot, h) # <<>>
<1>1. CASE HasCar(lot, h) /\ lot[CarAt(lot, h)].hop_count < h.hop_count
  BY <1>1 DEF Park, HasCar
<1>2. CASE ~(HasCar(lot, h) /\ lot[CarAt(lot, h)].hop_count < h.hop_count)
  <2>1. RemoveCar(lot, h) \in Seq(M)
    BY CarAtPosition DEF RemoveCar
  <2> QED
    BY <1>2, <2>1 DEF Park, InsertCar
<1> QED
  BY <1>1, <1>2

-----------------------------------------------------------------------------
(* Routing tables. *)

(* u has the searches and the parked messages of t. *)
SameSearches(t, u) ==
    \A d \in Node :
        /\ u.entry[d].parking_lot = t.entry[d].parking_lot
        /\ u.entry[d].finding_route = t.entry[d].finding_route

SameRoute(t, u, d) ==
    /\ ~IsStale(t, d)
    /\ ~IsStale(u, d)
    /\ u.entry[d].next_hop = t.entry[d].next_hop
    /\ u.entry[d].outgoing_if = t.entry[d].outgoing_if
    /\ u.entry[d].hop_count = t.entry[d].hop_count

(* The routes of u are routes of t. *)
NoNewRoute(t, u) == \A d \in Node : ~IsStale(u, d) => SameRoute(t, u, d)

(* The routes of t are routes of u. *)
KeepsRoutes(t, u) == \A d \in Node : ~IsStale(t, d) => SameRoute(t, u, d)

LEMMA AgeFacts ==
    /\ Staleness \in -1..Staleness
    /\ 0 \in -1..Staleness
    /\ NoHwAddr \in HwAddr \cup {NoHwAddr}
    /\ NoInterface \in Segment \cup {NoInterface}
BY StalenessAssumption

LEMMA CreateFacts ==
    ASSUME NEW self \in Node
    PROVE  CreateRoutingTable(self) \in Table
<1>1. EmptyEntry \in Entry
  BY StalenessAssumption, BroadcastIdAssumption DEF EmptyEntry, Entry
<1>2. [EmptyEntry EXCEPT !.age = -1] \in Entry
  BY <1>1, StalenessAssumption DEF Entry
<1> QED
  BY <1>1, <1>2 DEF CreateRoutingTable, Table

LEMMA InsertFacts ==
    ASSUME NEW t \in Table, NEW d \in Node
    PROVE  /\ Insert(t, d) \in Table
           /\ Insert(t, d).entry = t.entry
BY DEF Insert, Table

(* A table whose entry for d has been replaced. *)
LEMMA ReplaceEntry ==
    ASSUME NEW t \in Table, NEW d \in Node, NEW e \in Entry
    PROVE  /\ [t EXCEPT !.entry[d] = e] \in Table
           /\ [t EXCEPT !.entry[d] = e].entry[d] = e
           /\ \A c \in Node \ {d} : [t EXCEPT !.entry[d] = e].entry[c] = t.entry[c]
BY DEF Table

LEMMA PurgeFacts ==
    ASSUME NEW t \in Table, NEW d \in Node
    PROVE  /\ PurgeEntry(t, d) \in Table
           /\ SameSearches(t, PurgeEntry(t, d))
           /\ NoNewRoute(t, PurgeEntry(t, d))
           /\ \A c \in Node \ {d} : PurgeEntry(t, d).entry[c] = t.entry[c]
<1> DEFINE e == [t.entry[d] EXCEPT !.next_hop = NoHwAddr,
                                   !.outgoing_if = NoInterface,
                                   !.hop_count = 0, !.age = Staleness]
<1> DEFINE u == [t EXCEPT !.entry[d] = e]
<1>1. t.entry[d] \in Entry
  BY DEF Table
<1>2. /\ e \in Entry
      /\ e.parking_lot = t.entry[d].parking_lot
      /\ e.finding_route = t.entry[d].finding_route
      /\ e.age = Staleness
  BY <1>1, AgeFacts DEF Entry
<1>3. CASE d \in t.listed /\ d # t.head
  <2>1. PurgeEntry(t, d) = u
    BY <1>3 DEF PurgeEntry
  <2>2. /\ u \in Table
        /\ u.entry[d] = e
        /\ \A c \in Node \ {d} : u.entry[c] = t.entry[c]
    BY <1>2, ReplaceEntry
  <2>3. SameSearches(t, u)
    BY <1>2, <2>2 DEF SameSearches
  <2>4. NoNewRoute(t, u)
    BY <1>2, <2>2, StalenessAssumption DEF NoNewRoute, SameRoute, IsStale
  <2> QED
    BY <2>1, <2>2, <2>3, <2>4
<1>4. CASE ~(d \in t.listed /\ d # t.head)
  BY <1>4 DEF PurgeEntry, SameSearches, NoNewRoute, SameRoute
<1> QED
  BY <1>3, <1>4

LEMMA QueryFacts ==
    ASSUME NEW t \in Table, NEW d \in Node
    PROVE  /\ QueryTable(t, d) \in Table
           /\ SameSearches(t, QueryTable(t, d))
           /\ NoNewRoute(t, QueryTable(t, d))
           /\ KeepsRoutes(t, QueryTable(t, d))
<1>1. CASE ~IsStale(t, d)
  BY <1>1 DEF QueryTable, SameSearches, NoNewRoute, KeepsRoutes, SameRoute
<1>2. CASE IsStale(t, d) /\ d \notin t.listed
  <2>1. QueryTable(t, d) = Insert(t, d)
    BY <1>2 DEF QueryTable
  <2> QED
    BY <2>1, InsertFacts
       DEF SameSearches, NoNewRoute, KeepsRoutes, SameRoute, IsStale
<1>3. CASE IsStale(t, d) /\ d \in t.listed
  <2>1. QueryTable(t, d) = PurgeEntry(t, d)
    BY <1>3 DEF QueryTable
  <2>2. KeepsRoutes(t, PurgeEntry(t, d))
    BY <1>3, PurgeFacts DEF KeepsRoutes, SameRoute, IsStale
  <2> QED
    BY <2>1, <2>2, PurgeFacts
<1> QED
  BY <1>1, <1>2, <1>3

LEMMA UpdateFacts ==
    ASSUME NEW t \in Table, NEW d \in Node, NEW hw \in HwAddr,
           NEW s \in Segment, NEW hops \in Nat
    PROVE  LET u == UpdateTable(t, d, hw, s, hops)
           IN  /\ u \in Table
               /\ SameSearches(t, u)
               /\ \A c \in Node \ {d} : u.entry[c] = t.entry[c]
               /\ IsBetter(t, d, hw, hops) =>
                    /\ u.entry[d].next_hop = hw
                    /\ u.entry[d].outgoing_if = s
                    /\ u.entry[d].hop_count = hops
                    /\ u.entry[d].age = 0
               /\ ~IsBetter(t, d, hw, hops) => u = t
<1> DEFINE e == [t.entry[d] EXCEPT !.next_hop = hw, !.outgoing_if = s,
                                   !.hop_count = hops, !.age = 0]
<1> DEFINE r == [t EXCEPT !.entry[d] = e]
<1>1. t.entry[d] \in Entry
  BY DEF Table
<1>2. /\ e \in Entry
      /\ e.parking_lot = t.entry[d].parking_lot
      /\ e.finding_route = t.entry[d].finding_route
      /\ e.next_hop = hw
      /\ e.outgoing_if = s
      /\ e.hop_count = hops
      /\ e.age = 0
  BY <1>1, AgeFacts DEF Entry
<1>3. /\ r \in Table
      /\ r.entry[d] = e
      /\ \A c \in Node \ {d} : r.entry[c] = t.entry[c]
  BY <1>2, ReplaceEntry
<1>4. Insert(r, d) \in Table /\ Insert(r, d).entry = r.entry
  BY <1>3, InsertFacts
<1>5. CASE IsBetter(t, d, hw, hops)
  <2>1. UpdateTable(t, d, hw, s, hops) = Insert(r, d)
    BY <1>5 DEF UpdateTable
  <2> QED
    BY <1>2, <1>3, <1>4, <1>5, <2>1 DEF SameSearches
<1>6. CASE ~IsBetter(t, d, hw, hops)
  BY <1>6 DEF UpdateTable, SameSearches
<1> QED
  BY <1>5, <1>6

(* A step that changes only bookkeeping of one entry keeps every route. *)
LEMMA RelayFacts ==
    ASSUME NEW t \in Table, NEW d \in Node, NEW bid \in 0..MaxBroadcastId
    PROVE  /\ RecordRelay(t, d, bid) \in Table
           /\ SameSearches(t, RecordRelay(t, d, bid))
           /\ NoNewRoute(t, RecordRelay(t, d, bid))
           /\ KeepsRoutes(t, RecordRelay(t, d, bid))
<1> DEFINE e == [t.entry[d] EXCEPT !.last_relayed_broadcast = bid]
<1> DEFINE u == [t EXCEPT !.entry[d] = e]
<1>1. t.entry[d] \in Entry
  BY DEF Table
<1>2. /\ e \in Entry
      /\ e.parking_lot = t.entry[d].parking_lot
      /\ e.finding_route = t.entry[d].finding_route
      /\ e.next_hop = t.entry[d].next_hop
      /\ e.outgoing_if = t.entry[d].outgoing_if
      /\ e.hop_count = t.entry[d].hop_count
      /\ e.age = t.entry[d].age
  BY <1>1 DEF Entry
<1>3. /\ u \in Table
      /\ u.entry[d] = e
      /\ \A c \in Node \ {d} : u.entry[c] = t.entry[c]
  BY <1>2, ReplaceEntry
<1>4. SameSearches(t, u) /\ NoNewRoute(t, u) /\ KeepsRoutes(t, u)
  BY <1>2, <1>3
     DEF SameSearches, NoNewRoute, KeepsRoutes, SameRoute, IsStale
<1>5. CASE ShouldRelayBroadcast(t, d, bid)
  <2>1. RecordRelay(t, d, bid) = u
    <3>1. u = [t EXCEPT !.entry[d].last_relayed_broadcast = bid]
      OBVIOUS
    <3> QED
      BY <1>5, <3>1 DEF RecordRelay
  <2> QED
    BY <1>3, <1>4, <2>1
<1>6. CASE ~ShouldRelayBroadcast(t, d, bid)
  BY <1>6 DEF RecordRelay, SameSearches, NoNewRoute, KeepsRoutes, SameRoute
<1> QED
  BY <1>5, <1>6

(* A table in which the lot and the search of d have been set. *)
WithSearch(t, d, lot, b) ==
    [t EXCEPT !.entry[d] =
        [@ EXCEPT !.parking_lot = lot, !.finding_route = b]]

LEMMA SearchFacts ==
    ASSUME NEW t \in Table, NEW d \in Node, NEW lot \in Seq(Header),
           NEW b \in BOOLEAN
    PROVE  LET u == WithSearch(t, d, lot, b)
           IN  /\ u \in Table
               /\ u.entry[d].parking_lot = lot
               /\ u.entry[d].finding_route = b
               /\ \A c \in Node \ {d} : u.entry[c] = t.entry[c]
               /\ NoNewRoute(t, u)
               /\ KeepsRoutes(t, u)
<1> DEFINE e == [t.entry[d] EXCEPT !.parking_lot = lot, !.finding_route = b]
<1> DEFINE u == [t EXCEPT !.entry[d] = e]
<1>1. t.entry[d] \in Entry
  BY DEF Table
<1>2. /\ e \in Entry
      /\ e.parking_lot = lot
      /\ e.finding_route = b
      /\ e.next_hop = t.entry[d].next_hop
      /\ e.outgoing_if = t.entry[d].outgoing_if
      /\ e.hop_count = t.entry[d].hop_count
      /\ e.age = t.entry[d].age
  BY <1>1 DEF Entry
<1>3. /\ u \in Table
      /\ u.entry[d] = e
      /\ \A c \in Node \ {d} : u.entry[c] = t.entry[c]
  BY <1>2, ReplaceEntry
<1>4. NoNewRoute(t, u) /\ KeepsRoutes(t, u)
  BY <1>2, <1>3 DEF NoNewRoute, KeepsRoutes, SameRoute, IsStale
<1>5. WithSearch(t, d, lot, b) = u
  BY DEF WithSearch
<1> QED
  BY <1>2, <1>3, <1>4, <1>5

LEMMA ParkFacts ==
    ASSUME NEW t \in Table, NEW h \in Header
    PROVE  LET u == ParkMsg(t, h)
               d == h.destination_id
           IN  /\ u \in Table
               /\ u.entry[d].parking_lot = Park(t.entry[d].parking_lot, h)
               /\ u.entry[d].finding_route = t.entry[d].finding_route
               /\ \A c \in Node \ {d} : u.entry[c] = t.entry[c]
               /\ NoNewRoute(t, u)
               /\ KeepsRoutes(t, u)
<1> DEFINE d == h.destination_id
           r == Insert(t, d)
           lot == Park(t.entry[d].parking_lot, h)
           b == t.entry[d].finding_route
           e == [t.entry[d] EXCEPT !.parking_lot = lot, !.finding_route = b]
           u == [r EXCEPT !.entry[d] = e]
<1>1. d \in Node
  BY DEF Header
<1>2. r \in Table /\ r.entry = t.entry
  BY <1>1, InsertFacts
<1>3. t.entry[d] \in Entry
  BY <1>1 DEF Table
<1>4. Car(h) \in Header
  BY DEF Car, Header
<1>5. lot \in Seq(Header) /\ b \in BOOLEAN
  BY <1>3, <1>4, ParkType DEF Entry
<1>6. ParkMsg(t, h) = u
  <2>1. e = [t.entry[d] EXCEPT !.parking_lot = lot]
    BY <1>3 DEF Entry
  <2> QED
    BY <1>1, <1>2, <2>1 DEF ParkMsg, Table
<1>7. /\ u \in Table
      /\ u.entry[d].parking_lot = lot
      /\ u.entry[d].finding_route = b
      /\ \A c \in Node \ {d} : u.entry[c] = r.entry[c]
      /\ NoNewRoute(r, u)
      /\ KeepsRoutes(r, u)
  <2>1. u = WithSearch(r, d, lot, b)
    BY <1>2 DEF WithSearch
  <2> HIDE DEF r, lot, b, e, u, d
  <2> QED
    BY <1>1, <1>2, <1>5, <2>1, SearchFacts
<1>8. NoNewRoute(t, u) /\ KeepsRoutes(t, u)
  BY <1>2, <1>7 DEF NoNewRoute, KeepsRoutes, SameRoute, IsStale
<1> QED
  BY <1>2, <1>6, <1>7, <1>8

LEMMA AgedFacts ==
    ASSUME NEW t \in Table
    PROVE  /\ Aged(t) \in Table
           /\ SameSearches(t, Aged(t))
           /\ NoNewRoute(t, Aged(t))
<1> DEFINE e(d) == IF t.entry[d].age \in 0..(Staleness - 1)
                   THEN [t.entry[d] EXCEPT !.age = @ + 1]
                   ELSE t.entry[d]
<1>1. ASSUME NEW d \in Node
      PROVE  /\ e(d) \in Entry
             /\ e(d).parking_lot = t.entry[d].parking_lot
             /\ e(d).finding_route = t.entry[d].finding_route
             /\ e(d).next_hop = t.entry[d].next_hop
             /\ e(d).outgoing_if = t.entry[d].outgoing_if
             /\ e(d).hop_count = t.entry[d].hop_count
             /\ e(d).age >= t.entry[d].age
  <2>1. t.entry[d] \in Entry
    BY DEF Table
  <2>2. CASE t.entry[d].age \in 0..(Staleness - 1)
    <3>1. t.entry[d].age + 1 \in -1..Staleness
      BY <2>2, StalenessAssumption
    <3> QED
      BY <2>1, <2>2, <3>1 DEF Entry
  <2>3. CASE t.entry[d].age \notin 0..(Staleness - 1)
    BY <2>1, <2>3 DEF Entry
  <2> QED
    BY <2>2, <2>3
<1>2. Aged(t).entry = [d \in Node |-> e(d)] /\ Aged(t) \in Table
  BY <1>1 DEF Aged, Table
<1>3. ASSUME NEW d \in Node
      PROVE  t.entry[d].age \in Int /\ e(d).age \in Int
  BY <1>1, StalenessAssumption DEF Table, Entry
<1>4. \A d \in Node : ~IsStale(Aged(t), d) => ~IsStale(t, d)
  <2> SUFFICES ASSUME NEW d \in Node, ~IsStale(Aged(t), d)
               PROVE  ~IsStale(t, d)
    OBVIOUS
  <2>1. ~(e(d).age >= Staleness)
    BY <1>2 DEF IsStale
  <2> QED
    BY <1>1, <1>3, <2>1, StalenessAssumption DEF IsStale
<1> QED
  BY <1>1, <1>2, <1>4 DEF SameSearches, NoNewRoute, SameRoute

-----------------------------------------------------------------------------
(* What may wait, be sent and be parked. *)

Within(q, F) ==
    /\ q = [a \in HwAddr |-> q[a]]
    /\ \A a \in HwAddr : q[a] \in Seq(F[a])

(* Every copy of h that router n may send belongs where it arrives. *)
MaySend(n, F, h) ==
    \A a \in HwAddr :
        a[1] # n /\ a[2] \in Interfaces(n) =>
            [from |-> <<n, a[2]>>, msg |-> h] \in F[a]

(* So does every REQ it may send for want of a route for h. *)
MayRequest(n, F, h) ==
    \A d \in Node, bid \in 0..MaxBroadcastId :
        MaySend(n, F, RouteRequest(n, d, bid, IsFlagSet(h, "FRC")))

LotsIn(t, M) == \A d \in Node : t.entry[d].parking_lot \in Seq(M)

(* ParkedIffFinding and FreshRouteUsable for one table. *)
Searches(t) ==
    \A d \in Node : t.entry[d].parking_lot # <<>> <=> t.entry[d].finding_route

UsableRoute(n, e) ==
    /\ e.next_hop \in HwAddr
    /\ e.next_hop[1] # n
    /\ e.next_hop[2] = e.outgoing_if
    /\ e.outgoing_if \in Interfaces(n)

Usable(n, t) ==
    \A d \in Node : n # d /\ ~IsStale(t, d) => UsableRoute(n, t.entry[d])

NodeOK(n, t) == t \in Table /\ Searches(t) /\ Usable(n, t)

-----------------------------------------------------------------------------
(* The network. *)

LEMMA AddressFacts ==
    ASSUME NEW a \in HwAddr
    PROVE  /\ a[1] \in Node
           /\ a[2] \in Segment
           /\ a[2] \in Interfaces(a[1])
           /\ a = <<a[1], a[2]>>
BY DEF HwAddr, Interfaces

LEMMA InterfaceAddress ==
    ASSUME NEW n \in Node, NEW s \in Interfaces(n)
    PROVE  <<n, s>> \in HwAddr
BY DEF HwAddr, Interfaces

LEMMA OneElement ==
    ASSUME NEW S, NEW x \in S
    PROVE  <<x>> \in Seq(S)
OBVIOUS

LEMMA FunctionSequence ==
    ASSUME NEW S, NEW k \in Nat, NEW f \in [1..k -> S]
    PROVE  f \in Seq(S)
BY SeqDef

LEMMA FloodWithin ==
    ASSUME NEW F, NEW n \in Node, NEW except, NEW h, MaySend(n, F, h)
    PROVE  Within(Flood(n, except, h), F)
<1> SUFFICES ASSUME NEW a \in HwAddr
             PROVE  Flood(n, except, h)[a] \in Seq(F[a])
  BY DEF Within, Flood
<1>1. CASE a[1] # n /\ a[2] \in Interfaces(n) \ except
  <2>1. [from |-> <<n, a[2]>>, msg |-> h] \in F[a]
    BY <1>1 DEF MaySend
  <2>2. Flood(n, except, h)[a] = << [from |-> <<n, a[2]>>, msg |-> h] >>
    BY <1>1 DEF Flood
  <2> QED
    BY <2>1, <2>2, OneElement
<1>2. CASE ~(a[1] # n /\ a[2] \in Interfaces(n) \ except)
  <2>1. Flood(n, except, h)[a] = <<>>
    BY <1>2 DEF Flood
  <2> QED
    BY <2>1, EmptySeq
<1> QED
  BY <1>1, <1>2

LEMMA UnicastWithin ==
    ASSUME NEW F, NEW n \in Node, NEW s, NEW hw \in HwAddr, hw[1] # n,
           NEW M, NEW hs \in Seq(M), \A h \in M : MaySend(n, F, h)
    PROVE  Within(Unicast(n, s, hw, hs), F)
<1> SUFFICES ASSUME NEW a \in HwAddr
             PROVE  Unicast(n, s, hw, hs)[a] \in Seq(F[a])
  BY DEF Within, Unicast
<1>1. CASE a = hw /\ a[2] = s /\ s \in Interfaces(n)
  <2> DEFINE out == [i \in 1..Len(hs) |-> [from |-> <<n, s>>, msg |-> hs[i]]]
  <2>1. Len(hs) \in Nat /\ \A i \in 1..Len(hs) : hs[i] \in M
    OBVIOUS
  <2>2. \A i \in 1..Len(hs) : [from |-> <<n, s>>, msg |-> hs[i]] \in F[a]
    BY <1>1, <2>1 DEF MaySend
  <2>3. out \in [1..Len(hs) -> F[a]]
    BY <2>2
  <2>4. Unicast(n, s, hw, hs)[a] = out
    BY <1>1 DEF Unicast
  <2> HIDE DEF out
  <2> QED
    BY <2>1, <2>3, <2>4, FunctionSequence
<1>2. CASE ~(a = hw /\ a[2] = s /\ s \in Interfaces(n))
  <2>1. Unicast(n, s, hw, hs)[a] = <<>>
    BY <1>2 DEF Unicast
  <2> QED
    BY <2>1, EmptySeq
<1> QED
  BY <1>1, <1>2

LEMMA UnicastOneWithin ==
    ASSUME NEW F, NEW n \in Node, NEW s, NEW hw \in HwAddr, hw[1] # n,
           NEW h, MaySend(n, F, h)
    PROVE  Within(Unicast(n, s, hw, <<h>>), F)
<1> DEFINE hs == <<h>>
           M == {h}
<1>1. hs \in Seq(M) /\ \A m \in M : MaySend(n, F, m)
  BY OneElement
<1> HIDE DEF hs, M
<1>2. Within(Unicast(n, s, hw, hs), F)
  BY <1>1, UnicastWithin
<1> QED
  BY <1>2 DEF hs

LEMMA SentWithin ==
    ASSUME NEW F, NEW q, NEW out, Within(q, F), Within(out, F)
    PROVE  Within(Sent(q, out), F)
<1>1. \A a \in HwAddr : q[a] \o out[a] \in Seq(F[a])
  BY ConcatProperties DEF Within
<1> QED
  BY <1>1 DEF Within, Sent

LEMMA TakenWithin ==
    ASSUME NEW F, Within(rxq, F), NEW a \in HwAddr, rxq[a] # <<>>
    PROVE  /\ Within(Taken(a), F)
           /\ Head(rxq[a]) \in F[a]
<1>1. Head(rxq[a]) \in F[a] /\ Tail(rxq[a]) \in Seq(F[a])
  BY HeadTailProperties DEF Within
<1> QED
  BY <1>1 DEF Within, Taken

-----------------------------------------------------------------------------
(* What one router does. *)

LEMMA UsableKept ==
    ASSUME NEW n \in Node, NEW t, NEW u, Usable(n, t), NoNewRoute(t, u)
    PROVE  Usable(n, u)
BY DEF Usable, UsableRoute, NoNewRoute, SameRoute

LEMMA RouteChain ==
    ASSUME NEW t, NEW u, NEW v
    PROVE  /\ NoNewRoute(t, t) /\ KeepsRoutes(t, t) /\ SameSearches(t, t)
           /\ NoNewRoute(t, u) /\ NoNewRoute(u, v) => NoNewRoute(t, v)
           /\ KeepsRoutes(t, u) /\ KeepsRoutes(u, v) => KeepsRoutes(t, v)
           /\ SameSearches(t, u) /\ SameSearches(u, v) => SameSearches(t, v)
BY DEF NoNewRoute, KeepsRoutes, SameRoute, SameSearches

(* The state after router n, whose table was t when it came to routing, is *)
(* done: only its own table has changed, and its routes are those of t.    *)
Outcome(n, t, F, M) ==
    LET u == rt_table'[n]
    IN  /\ rt_table' = [rt_table EXCEPT ![n] = u]
        /\ NodeOK(n, u)
        /\ NoNewRoute(t, u)
        /\ KeepsRoutes(t, u)
        /\ LotsIn(u, M)
        /\ Within(rxq', F)
        /\ g_broadcast_id' \in [Node -> 0..MaxBroadcastId]

LEMMA BroadcastReqOutcome ==
    ASSUME rt_table \in [Node -> Table],
           g_broadcast_id \in [Node -> 0..MaxBroadcastId],
           NEW n \in Node, NEW t \in Table, Usable(n, t),
           NEW d \in Node, NEW forced \in BOOLEAN, NEW except,
           t.entry[d].parking_lot # <<>>,
           \A c \in Node \ {d} :
              t.entry[c].parking_lot # <<>> <=> t.entry[c].finding_route,
           NEW M, LotsIn(t, M),
           NEW F, NEW q, Within(q, F),
           \A bid \in 0..MaxBroadcastId :
              MaySend(n, F, RouteRequest(n, d, bid, forced)),
           BroadcastReq(n, t, q, d, forced, except)
    PROVE  Outcome(n, t, F, M)
<1>1. CASE t.entry[d].finding_route
  <2>1. /\ rt_table' = [rt_table EXCEPT ![n] = t]
        /\ rxq' = q
        /\ g_broadcast_id' = g_broadcast_id
    BY <1>1 DEF BroadcastReq
  <2>2. Searches(t)
    BY <1>1 DEF Searches
  <2> QED
    BY <2>1, <2>2, RouteChain DEF Outcome, NodeOK
<1>2. CASE ~t.entry[d].finding_route
  <2> DEFINE bid == NextBroadcastId(g_broadcast_id[n])
             lot == t.entry[d].parking_lot
             u == WithSearch(t, d, lot, TRUE)
  <2>1. bid \in 0..MaxBroadcastId
    BY BroadcastIdAssumption DEF NextBroadcastId
  <2>2. t.entry[d] \in Entry /\ lot \in Seq(Header)
    BY DEF Table, Entry
  <2>3. u = [t EXCEPT !.entry[d].finding_route = TRUE]
    <3>1. [t.entry[d] EXCEPT !.parking_lot = lot, !.finding_route = TRUE]
            = [t.entry[d] EXCEPT !.finding_route = TRUE]
      BY <2>2 DEF Entry
    <3> QED
      BY <3>1 DEF WithSearch
  <2>4. /\ rt_table' = [rt_table EXCEPT ![n] = u]
        /\ rxq' = Sent(q, Flood(n, except, RouteRequest(n, d, bid, forced)))
        /\ g_broadcast_id' = [g_broadcast_id EXCEPT ![n] = bid]
    BY <1>2, <2>3 DEF BroadcastReq
  <2> HIDE DEF lot, u
  <2>5. /\ u \in Table
        /\ u.entry[d].parking_lot = lot
        /\ u.entry[d].finding_route = TRUE
        /\ \A c \in Node \ {d} : u.entry[c] = t.entry[c]
        /\ NoNewRoute(t, u)
        /\ KeepsRoutes(t, u)
    BY <2>2, SearchFacts DEF u
  <2>6. lot # <<>> /\ lot \in Seq(M)
    BY DEF lot, LotsIn
  <2>7. Searches(u) /\ LotsIn(u, M)
    BY <2>5, <2>6 DEF Searches, LotsIn
  <2>8. Usable(n, u)
    BY <2>5, UsableKept
  <2>9. Within(rxq', F)
    BY <2>1, <2>4, FloodWithin, SentWithin
  <2>10. rt_table'[n] = u
    BY <2>4
  <2> QED
    BY <2>1, <2>4, <2>5, <2>7, <2>8, <2>9, <2>10 DEF Outcome, NodeOK
<1> QED
  BY <1>1, <1>2

LEMMA SendOrParkOutcome ==
    ASSUME rt_table \in [Node -> Table],
           g_broadcast_id \in [Node -> 0..MaxBroadcastId],
           NEW n \in Node, NEW t, NodeOK(n, t),
           NEW h \in Header, h.destination_id # n, NEW except,
           NEW M, LotsIn(t, M), Car(h) \in M,
           NEW F, NEW q, Within(q, F), MaySend(n, F, h), MayRequest(n, F, h),
           SendOrPark(n, t, q, h, except)
    PROVE  Outcome(n, t, F, M)
<1> DEFINE d == h.destination_id
<1>1. d \in Node
  BY DEF Header
<1>2. t \in Table /\ Searches(t) /\ Usable(n, t)
  BY DEF NodeOK
<1>3. CASE ~IsStale(t, d)
  <2> DEFINE e == t.entry[d]
  <2>1. /\ rt_table' = [rt_table EXCEPT ![n] = t]
        /\ rxq' = Sent(q, Unicast(n, e.outgoing_if, e.next_hop, <<h>>))
        /\ g_broadcast_id' = g_broadcast_id
    BY <1>3 DEF SendOrPark
  <2>2. UsableRoute(n, e)
    BY <1>1, <1>2, <1>3 DEF Usable
  <2> HIDE DEF e
  <2>3. Within(Unicast(n, e.outgoing_if, e.next_hop, <<h>>), F)
    BY <2>2, UnicastOneWithin DEF UsableRoute
  <2>4. Within(rxq', F)
    BY <2>1, <2>3, SentWithin
  <2> QED
    BY <1>2, <2>1, <2>4, RouteChain DEF Outcome, NodeOK
<1>4. CASE IsStale(t, d)
  <2> DEFINE u == ParkMsg(t, h)
             forced == IsFlagSet(h, "FRC")
  <2>1. BroadcastReq(n, u, q, d, forced, except)
    BY <1>4 DEF SendOrPark
  <2>2. /\ u \in Table
        /\ u.entry[d].parking_lot = Park(t.entry[d].parking_lot, h)
        /\ \A c \in Node \ {d} : u.entry[c] = t.entry[c]
        /\ NoNewRoute(t, u)
        /\ KeepsRoutes(t, u)
    BY <1>2, ParkFacts
  <2>3. /\ forced \in BOOLEAN
        /\ \A bid \in 0..MaxBroadcastId :
              MaySend(n, F, RouteRequest(n, d, bid, forced))
    BY <1>1 DEF IsFlagSet, MayRequest
  <2> HIDE DEF u, forced
  <2>4. /\ u.entry[d].parking_lot \in Seq(M)
        /\ u.entry[d].parking_lot # <<>>
    BY <1>1, <2>2, ParkType DEF LotsIn
  <2>5. LotsIn(u, M)
    BY <2>2, <2>4 DEF LotsIn
  <2>6. Usable(n, u)
    BY <1>2, <2>2, UsableKept
  <2>7. \A c \in Node \ {d} :
          u.entry[c].parking_lot # <<>> <=> u.entry[c].finding_route
    BY <1>2, <2>2 DEF Searches
  <2> HIDE DEF d
  <2>8. Outcome(n, u, F, M)
    BY <1>1, <2>1, <2>2, <2>3, <2>4, <2>5, <2>6, <2>7, BroadcastReqOutcome
  <2>9. /\ NoNewRoute(u, rt_table'[n])
        /\ KeepsRoutes(u, rt_table'[n])
    BY <2>8 DEF Outcome
  <2>10. /\ NoNewRoute(t, rt_table'[n])
         /\ KeepsRoutes(t, rt_table'[n])
    BY <2>2, <2>9, RouteChain
  <2> QED
    BY <2>8, <2>10 DEF Outcome
<1> QED
  BY <1>3, <1>4

(* Looking a destination up keeps a table in order. *)
LEMMA QueryOK ==
    ASSUME NEW n \in Node, NEW t, NodeOK(n, t), NEW d \in Node
    PROVE  NodeOK(n, QueryTable(t, d))
<1>1. /\ QueryTable(t, d) \in Table
      /\ SameSearches(t, QueryTable(t, d))
      /\ NoNewRoute(t, QueryTable(t, d))
  BY QueryFacts DEF NodeOK
<1>2. Searches(QueryTable(t, d))
  BY <1>1 DEF NodeOK, Searches, SameSearches
<1>3. Usable(n, QueryTable(t, d))
  BY <1>1, UsableKept DEF NodeOK
<1> QED
  BY <1>1, <1>2, <1>3 DEF NodeOK

LEMMA PurgeOK ==
    ASSUME NEW n \in Node, NEW t, NodeOK(n, t), NEW d \in Node
    PROVE  NodeOK(n, PurgeEntry(t, d))
<1>1. /\ PurgeEntry(t, d) \in Table
      /\ SameSearches(t, PurgeEntry(t, d))
      /\ NoNewRoute(t, PurgeEntry(t, d))
  BY PurgeFacts DEF NodeOK
<1>2. Searches(PurgeEntry(t, d))
  BY <1>1 DEF NodeOK, Searches, SameSearches
<1>3. Usable(n, PurgeEntry(t, d))
  BY <1>1, UsableKept DEF NodeOK
<1> QED
  BY <1>1, <1>2, <1>3 DEF NodeOK

LEMMA LotsKept ==
    ASSUME NEW t, NEW u, SameSearches(t, u), NEW M, LotsIn(t, M)
    PROVE  LotsIn(u, M)
BY DEF LotsIn, SameSearches

LEMMA RouteMsgOutcome ==
    ASSUME rt_table \in [Node -> Table],
           g_broadcast_id \in [Node -> 0..MaxBroadcastId],
           NEW n \in Node, NEW t, NodeOK(n, t),
           NEW h \in Header,
           NEW M, LotsIn(t, M), Car(h) \in M,
           NEW F, NEW q, Within(q, F), MaySend(n, F, h), MayRequest(n, F, h),
           RouteMsg(n, t, q, h)
    PROVE  Outcome(n, t, F, M)
<1>1. CASE h.destination_id = n
  <2>1. /\ rt_table' = [rt_table EXCEPT ![n] = t]
        /\ rxq' = q
        /\ g_broadcast_id' = g_broadcast_id
    BY <1>1 DEF RouteMsg
  <2> QED
    BY <2>1, RouteChain DEF Outcome, NodeOK
<1>2. CASE h.destination_id # n
  <2> DEFINE u == QueryTable(t, h.destination_id)
  <2>1. SendOrPark(n, u, q, h, {})
    BY <1>2 DEF RouteMsg
  <2>2. h.destination_id \in Node
    BY DEF Header
  <2>3. NodeOK(n, u)
    BY <2>2, QueryOK
  <2>4. SameSearches(t, u) /\ NoNewRoute(t, u) /\ KeepsRoutes(t, u)
    BY <2>2, QueryFacts DEF NodeOK
  <2> HIDE DEF u
  <2>5. LotsIn(u, M)
    BY <2>4, LotsKept
  <2>6. Outcome(n, u, F, M)
    BY <1>2, <2>1, <2>3, <2>5, SendOrParkOutcome
  <2>7. /\ NoNewRoute(u, rt_table'[n])
        /\ KeepsRoutes(u, rt_table'[n])
    BY <2>6 DEF Outcome
  <2>8. /\ NoNewRoute(t, rt_table'[n])
        /\ KeepsRoutes(t, rt_table'[n])
    BY <2>4, <2>7, RouteChain
  <2> QED
    BY <2>6, <2>8 DEF Outcome
<1> QED
  BY <1>1, <1>2

LEMMA RouteToSelfOutcome ==
    ASSUME rt_table \in [Node -> Table],
           g_broadcast_id \in [Node -> 0..MaxBroadcastId],
           delivered \subseteq Delivery,
           NEW n \in Node, NEW t, NodeOK(n, t),
           NEW h \in Header, NEW ports,
           NEW M, LotsIn(t, M), Car(ErrorReport(h)) \in M,
           NEW F, NEW q, Within(q, F), MaySend(n, F, ErrorReport(h)),
           MayRequest(n, F, ErrorReport(h)),
           RouteToSelf(n, t, q, h, ports)
    PROVE  Outcome(n, t, F, M) /\ delivered' \subseteq Delivery
<1>1. ErrorReport(h) \in Header
  BY DEF ErrorReport, SwapRoles, Header, Flag
<1>2. CASE CanDeliver(n, ports, h)
  <2>1. /\ rt_table' = [rt_table EXCEPT ![n] = t]
        /\ rxq' = q
        /\ g_broadcast_id' = g_broadcast_id
        /\ Deliver(n, h)
    BY <1>2 DEF RouteToSelf
  <2> DEFINE r == [id |-> h.payload, node |-> n, port |-> h.destination_port,
                   err |-> IsFlagSet(h, "ERR")]
  <2>2. h.payload \in Nat /\ h.destination_port \in Nat
    BY DEF Header
  <2>3. IsFlagSet(h, "ERR") \in BOOLEAN
    BY DEF IsFlagSet
  <2>4. r \in Delivery
    BY <2>2, <2>3 DEF Delivery
  <2>5. delivered' = delivered \cup {r}
    BY <2>1 DEF Deliver
  <2> HIDE DEF r
  <2>6. delivered' \subseteq Delivery
    BY <2>4, <2>5
  <2> QED
    BY <2>1, <2>6, RouteChain DEF Outcome, NodeOK
<1>3. CASE ~CanDeliver(n, ports, h) /\ IsFlagSet(h, "ERR")
  <2>1. /\ rt_table' = [rt_table EXCEPT ![n] = t]
        /\ rxq' = q
        /\ g_broadcast_id' = g_broadcast_id
        /\ delivered' = delivered
    BY <1>3 DEF RouteToSelf
  <2> QED
    BY <2>1, RouteChain DEF Outcome, NodeOK
<1>4. CASE ~CanDeliver(n, ports, h) /\ ~IsFlagSet(h, "ERR")
  <2>1. RouteMsg(n, t, q, ErrorReport(h)) /\ delivered' = delivered
    BY <1>4 DEF RouteToSelf
  <2> QED
    BY <1>1, <2>1, RouteMsgOutcome
<1> QED
  BY <1>2, <1>3, <1>4

-----------------------------------------------------------------------------
(* The inductive invariant: types, the two properties of every table, and  *)
(* that a frame waits at an interface of its sender's segment, but never   *)
(* at the sender: without the latter, a route learned from a frame could   *)
(* lead a router to itself.                                                *)
FrameAt ==
    [a \in HwAddr |-> {f \in Frame : f.from[1] # a[1] /\ f.from[2] = a[2]}]

IInv ==
    /\ TypeOK
    /\ Within(rxq, FrameAt)
    /\ \A n \in Node : NodeOK(n, rt_table[n])

LEMMA AnyMessage ==
    ASSUME NEW n \in Node, NEW h \in Header
    PROVE  MaySend(n, FrameAt, h)
<1> SUFFICES ASSUME NEW a \in HwAddr, a[1] # n, a[2] \in Interfaces(n)
             PROVE  [from |-> <<n, a[2]>>, msg |-> h] \in FrameAt[a]
  BY DEF MaySend
<1>1. <<n, a[2]>> \in HwAddr
  BY InterfaceAddress
<1> QED
  BY <1>1 DEF FrameAt, Frame

LEMMA AnyRequest ==
    ASSUME NEW n \in Node
    PROVE  \A h : MayRequest(n, FrameAt, h)
<1>1. \A d \in Node, bid \in 0..MaxBroadcastId : \A forced :
        RouteRequest(n, d, bid, forced) \in Header
  BY DEF RouteRequest, Header, Flag
<1> QED
  BY <1>1, AnyMessage DEF MayRequest

LEMMA UpdateOK ==
    ASSUME NEW n \in Node, NEW t, NodeOK(n, t), NEW d \in Node,
           NEW hw \in HwAddr, hw[1] # n, hw[2] \in Interfaces(n),
           NEW hops \in Nat
    PROVE  NodeOK(n, UpdateTable(t, d, hw, hw[2], hops))
<1> DEFINE u == UpdateTable(t, d, hw, hw[2], hops)
<1>1. t \in Table /\ hw[2] \in Segment
  BY DEF NodeOK, HwAddr
<1>2. /\ u \in Table
      /\ SameSearches(t, u)
      /\ \A c \in Node \ {d} : u.entry[c] = t.entry[c]
      /\ IsBetter(t, d, hw, hops) =>
            /\ u.entry[d].next_hop = hw
            /\ u.entry[d].outgoing_if = hw[2]
      /\ ~IsBetter(t, d, hw, hops) => u = t
  BY <1>1, UpdateFacts
<1> HIDE DEF u
<1>3. Searches(u)
  BY <1>2 DEF NodeOK, Searches, SameSearches
<1>4. Usable(n, u)
  <2> SUFFICES ASSUME NEW c \in Node, n # c, ~IsStale(u, c)
               PROVE  UsableRoute(n, u.entry[c])
    BY DEF Usable
  <2>1. CASE c = d /\ IsBetter(t, d, hw, hops)
    BY <1>2, <2>1 DEF UsableRoute
  <2>2. CASE ~(c = d /\ IsBetter(t, d, hw, hops))
    BY <1>2, <2>2 DEF NodeOK, Usable, IsStale
  <2> QED
    BY <2>1, <2>2
<1> QED
  BY <1>2, <1>3, <1>4 DEF NodeOK, u

(* The frame at the head of a queue, and the table once it was looked at.  *)
LEMMA ArrivalFacts ==
    ASSUME IInv, NEW a \in HwAddr, Arrives(a)
    PROVE  LET n == a[1]
               h == Incoming(a)
               p == ForcePurged(rt_table[n], h)
           IN  /\ n \in Node
               /\ a[2] \in Interfaces(n)
               /\ h \in Header
               /\ Sender(a) \in HwAddr
               /\ Sender(a)[1] # n
               /\ Sender(a)[2] = a[2]
               /\ NodeOK(n, p)
               /\ SameSearches(rt_table[n], p)
               /\ NodeOK(n, LearnSource(a, h))
               /\ SameSearches(rt_table[n], LearnSource(a, h))
               /\ NodeOK(n, Learned(a, h))
               /\ SameSearches(rt_table[n], Learned(a, h))
<1> DEFINE n == a[1]
           f == Head(rxq[a])
           h == Incoming(a)
           t == rt_table[n]
           r == IF IsFlagSet(h, "REP")
                THEN t ELSE PurgeEntry(t, h.destination_id)
           p == ForcePurged(t, h)
           u == LearnSource(a, h)
<1>1. n \in Node /\ a[2] \in Segment /\ a[2] \in Interfaces(n)
  BY AddressFacts
<1>2. f \in FrameAt[a]
  BY TakenWithin DEF IInv, Arrives
<1>3. /\ f.from \in HwAddr /\ f.msg \in Header
      /\ f.from[1] # n /\ f.from[2] = a[2]
  BY <1>2 DEF FrameAt, Frame
<1>4. h \in Header
  BY <1>3 DEF Incoming, Hopped, Header
<1>5. h.source_id \in Node /\ h.destination_id \in Node /\ h.hop_count + 1 \in Nat
  BY <1>4 DEF Header
<1>6. NodeOK(n, t) /\ t \in Table
  BY <1>1 DEF IInv, NodeOK
<1> HIDE DEF h, f, t, n
<1>7. NodeOK(n, r) /\ SameSearches(t, r)
  BY <1>1, <1>5, <1>6, PurgeOK, PurgeFacts, RouteChain
<1>8. NodeOK(n, p) /\ SameSearches(t, p)
  <2>1. NodeOK(n, PurgeEntry(r, h.source_id))
    BY <1>1, <1>5, <1>7, PurgeOK
  <2>2. SameSearches(r, PurgeEntry(r, h.source_id))
    BY <1>5, <1>7, PurgeFacts DEF NodeOK
  <2>3. SameSearches(t, PurgeEntry(r, h.source_id))
    BY <1>7, <2>2, RouteChain
  <2> QED
    BY <1>6, <2>1, <2>3, RouteChain DEF ForcePurged
<1> HIDE DEF r, p
<1>9. u = UpdateTable(p, h.source_id, f.from, f.from[2], h.hop_count + 1)
  BY <1>3 DEF LearnSource, Sender, p, t, n, f
<1>10. NodeOK(n, u) /\ SameSearches(t, u)
  <2>1. NodeOK(n, u)
    BY <1>1, <1>3, <1>5, <1>8, <1>9, UpdateOK
  <2>2. SameSearches(p, u)
    BY <1>1, <1>3, <1>5, <1>8, <1>9, UpdateFacts DEF NodeOK
  <2> QED
    BY <1>8, <2>1, <2>2, RouteChain
<1> HIDE DEF u
<1>11. NodeOK(n, QueryTable(u, h.destination_id))
  BY <1>1, <1>5, <1>10, QueryOK
<1>12. SameSearches(t, QueryTable(u, h.destination_id))
  BY <1>5, <1>10, QueryFacts, RouteChain DEF NodeOK
<1>13. QueryTable(u, h.destination_id) = Learned(a, h)
  BY DEF Learned, u
<1> QED
  BY <1>1, <1>3, <1>4, <1>8, <1>10, <1>11, <1>12, <1>13
     DEF n, h, f, t, p, u, Sender

(* What handling the frame at interface a may send, and may park. *)
Sendable(a, F, M) ==
    LET n == a[1]
        h == Incoming(a)
        t == RequestTable(a, h)
    IN  /\ MayRequest(n, F, h)
        /\ \A m \in M : MaySend(n, F, m)
        /\ MaySend(n, F, h)
        /\ MaySend(n, F, AnsweredRequest(h))
        /\ ~IsStale(t, h.destination_id) =>
              MaySend(n, F, RouteReply(h, t.entry[h.destination_id].hop_count))
        /\ h.destination_id = n =>
              /\ MaySend(n, F, ErrorReport(h))
              /\ MayRequest(n, F, ErrorReport(h))
              /\ Car(ErrorReport(h)) \in M
        /\ Car(h) \in M

LEMMA RequestTableFacts ==
    ASSUME IInv, NEW a \in HwAddr, Arrives(a)
    PROVE  LET u == Learned(a, Incoming(a))
               t == RequestTable(a, Incoming(a))
           IN  /\ NodeOK(a[1], t)
               /\ NoNewRoute(u, t)
               /\ KeepsRoutes(u, t)
               /\ SameSearches(rt_table[a[1]], t)
<1> DEFINE h == Incoming(a)
           u == Learned(a, h)
<1>1. /\ a[1] \in Node /\ h \in Header /\ NodeOK(a[1], u)
      /\ SameSearches(rt_table[a[1]], u)
  BY ArrivalFacts
<1>2. h.source_id \in Node
  BY <1>1 DEF Header
<1>3. RequestTable(a, h) = QueryTable(u, h.source_id)
  BY DEF RequestTable
<1> HIDE DEF u, h
<1>4. NodeOK(a[1], QueryTable(u, h.source_id))
  BY <1>1, <1>2, QueryOK
<1>5. /\ SameSearches(u, QueryTable(u, h.source_id))
      /\ NoNewRoute(u, QueryTable(u, h.source_id))
      /\ KeepsRoutes(u, QueryTable(u, h.source_id))
  BY <1>1, <1>2, QueryFacts DEF NodeOK
<1> QED
  BY <1>1, <1>3, <1>4, <1>5, RouteChain DEF u, h

LEMMA RecordOK ==
    ASSUME NEW n \in Node, NEW t, NodeOK(n, t), NEW d \in Node,
           NEW bid \in 0..MaxBroadcastId
    PROVE  /\ NodeOK(n, RecordRelay(t, d, bid))
           /\ NoNewRoute(t, RecordRelay(t, d, bid))
           /\ KeepsRoutes(t, RecordRelay(t, d, bid))
           /\ SameSearches(t, RecordRelay(t, d, bid))
<1>1. /\ RecordRelay(t, d, bid) \in Table
      /\ SameSearches(t, RecordRelay(t, d, bid))
      /\ NoNewRoute(t, RecordRelay(t, d, bid))
      /\ KeepsRoutes(t, RecordRelay(t, d, bid))
  BY RelayFacts DEF NodeOK
<1>2. Searches(RecordRelay(t, d, bid))
  BY <1>1 DEF NodeOK, Searches, SameSearches
<1>3. Usable(n, RecordRelay(t, d, bid))
  BY <1>1, UsableKept DEF NodeOK
<1> QED
  BY <1>1, <1>2, <1>3 DEF NodeOK

LEMMA AnswerRequestOutcome ==
    ASSUME IInv, NEW a \in HwAddr, AnswerRequest(a),
           NEW F, Within(rxq, F),
           NEW M, LotsIn(rt_table[a[1]], M), Sendable(a, F, M)
    PROVE  Outcome(a[1], Learned(a, Incoming(a)), F, M)
<1> DEFINE n == a[1]
           h == Incoming(a)
           u == Learned(a, h)
           t == RequestTable(a, h)
           answer == RouteReply(h, t.entry[h.destination_id].hop_count)
           onward == /\ BetterRoute(a, h)
                     /\ ~IsFlagSet(h, "FRC")
                     /\ h.destination_id # n
           flooded == IF onward
                      THEN Sent(Taken(a), Flood(n, {a[2]}, AnsweredRequest(h)))
                      ELSE Taken(a)
<1>1. /\ Arrives(a)
      /\ rt_table' = [rt_table EXCEPT ![n] = t]
      /\ rxq' = IF IsFlagSet(h, "REP")
                THEN flooded
                ELSE Sent(flooded, Unicast(n, a[2], Sender(a), <<answer>>))
      /\ g_broadcast_id' = g_broadcast_id
      /\ ~IsStale(t, h.destination_id)
  BY DEF AnswerRequest
<1>2. /\ n \in Node /\ Sender(a) \in HwAddr /\ Sender(a)[1] # n
      /\ SameSearches(rt_table[n], t)
      /\ NodeOK(n, t) /\ NoNewRoute(u, t) /\ KeepsRoutes(u, t)
  BY <1>1, ArrivalFacts, RequestTableFacts
<1>3. MaySend(n, F, AnsweredRequest(h)) /\ MaySend(n, F, answer)
  BY <1>1 DEF Sendable
<1>4. Within(Taken(a), F)
  BY <1>1, TakenWithin DEF Arrives
<1>5. LotsIn(t, M)
  BY <1>2, LotsKept
<1>6. rt_table'[n] = t /\ rt_table \in [Node -> Table]
      /\ g_broadcast_id \in [Node -> 0..MaxBroadcastId]
  BY <1>1, <1>2 DEF IInv, TypeOK
<1> HIDE DEF n, h, u, t, answer, onward
<1>7. Within(flooded, F)
  BY <1>2, <1>3, <1>4, FloodWithin, SentWithin
<1>8. Within(Unicast(n, a[2], Sender(a), <<answer>>), F)
  BY <1>2, <1>3, UnicastOneWithin
<1> HIDE DEF flooded
<1>9. Within(rxq', F)
  BY <1>1, <1>7, <1>8, SentWithin
<1>10. Outcome(n, u, F, M)
  BY <1>1, <1>2, <1>5, <1>6, <1>9 DEF Outcome
<1> QED
  BY <1>10 DEF n, h, u

LEMMA RelayRequestOutcome ==
    ASSUME IInv, NEW a \in HwAddr, RelayRequest(a),
           NEW F, Within(rxq, F),
           NEW M, LotsIn(rt_table[a[1]], M), Sendable(a, F, M)
    PROVE  Outcome(a[1], Learned(a, Incoming(a)), F, M)
<1> DEFINE n == a[1]
           h == Incoming(a)
           u == Learned(a, h)
           t == RequestTable(a, h)
           v == RecordRelay(t, h.source_id, h.broadcast_id)
           onward == \/ ShouldRelayBroadcast(t, h.source_id, h.broadcast_id)
                     \/ BetterRoute(a, h)
<1>1. /\ Arrives(a)
      /\ IF HaveOnlyOneInterface(n)
         THEN /\ rt_table' = [rt_table EXCEPT ![n] = t]
              /\ rxq' = Taken(a)
         ELSE /\ rt_table' = [rt_table EXCEPT ![n] = v]
              /\ rxq' = IF onward
                        THEN Sent(Taken(a), Flood(n, {a[2]}, h))
                        ELSE Taken(a)
      /\ g_broadcast_id' = g_broadcast_id
  BY DEF RelayRequest
<1>2. /\ n \in Node /\ h \in Header
      /\ SameSearches(rt_table[n], t)
      /\ NodeOK(n, t) /\ NoNewRoute(u, t) /\ KeepsRoutes(u, t)
  BY <1>1, ArrivalFacts, RequestTableFacts
<1>3. MaySend(n, F, h)
  BY DEF Sendable
<1>4. Within(Taken(a), F)
  BY <1>1, TakenWithin DEF Arrives
<1>5. LotsIn(t, M)
  BY <1>2, LotsKept
<1>6. rt_table \in [Node -> Table]
      /\ g_broadcast_id \in [Node -> 0..MaxBroadcastId]
  BY DEF IInv, TypeOK
<1>7. h.source_id \in Node /\ h.broadcast_id \in 0..MaxBroadcastId
  BY <1>2 DEF Header
<1> HIDE DEF n, h, u, t, onward
<1>8. /\ NodeOK(n, v) /\ NoNewRoute(t, v) /\ KeepsRoutes(t, v)
      /\ SameSearches(t, v)
  BY <1>2, <1>7, RecordOK
<1> HIDE DEF v
<1>9. NoNewRoute(u, v) /\ KeepsRoutes(u, v) /\ LotsIn(v, M)
  BY <1>2, <1>5, <1>8, RouteChain, LotsKept
<1>10. Within(rxq', F)
  BY <1>1, <1>2, <1>3, <1>4, FloodWithin, SentWithin
<1>11. Outcome(n, u, F, M)
  BY <1>1, <1>2, <1>5, <1>6, <1>8, <1>9, <1>10 DEF Outcome
<1> QED
  BY <1>11 DEF n, h, u

LEMMA UnparkOutcome ==
    ASSUME IInv, NEW a \in HwAddr, Unpark(a),
           NEW F, Within(rxq, F),
           NEW M, LotsIn(rt_table[a[1]], M), Sendable(a, F, M)
    PROVE  Outcome(a[1], Learned(a, Incoming(a)), F, M)
<1> DEFINE n == a[1]
           h == Incoming(a)
           t == Learned(a, h)
           d == h.source_id
           lot == t.entry[d].parking_lot
           v == WithSearch(t, d, <<>>, FALSE)
<1>1. /\ Arrives(a)
      /\ rt_table' = [rt_table EXCEPT ![n] = Release(t, d)]
      /\ rxq' = Sent(Taken(a), Unicast(n, a[2], Sender(a), lot))
      /\ g_broadcast_id' = g_broadcast_id
  BY DEF Unpark
<1>2. /\ n \in Node /\ h \in Header
      /\ Sender(a) \in HwAddr /\ Sender(a)[1] # n
      /\ SameSearches(rt_table[n], t)
      /\ NodeOK(n, t)
  BY <1>1, ArrivalFacts
<1>3. d \in Node
  BY <1>2 DEF Header
<1>4. LotsIn(t, M)
  BY <1>2, LotsKept
<1>5. lot \in Seq(M) /\ \A m \in M : MaySend(n, F, m)
  BY <1>3, <1>4 DEF LotsIn, Sendable
<1>6. rt_table \in [Node -> Table]
      /\ g_broadcast_id \in [Node -> 0..MaxBroadcastId]
  BY DEF IInv, TypeOK
<1>7. Within(Taken(a), F)
  BY <1>1, TakenWithin DEF Arrives
<1> HIDE DEF n, h, t, d, lot
<1>8. rt_table' = [rt_table EXCEPT ![n] = v]
  BY <1>1, <1>2, <1>3 DEF Release, WithSearch, NodeOK, Table
<1>9. /\ v \in Table
      /\ v.entry[d].parking_lot = <<>>
      /\ v.entry[d].finding_route = FALSE
      /\ \A c \in Node \ {d} : v.entry[c] = t.entry[c]
      /\ NoNewRoute(t, v)
      /\ KeepsRoutes(t, v)
  BY <1>2, <1>3, EmptySeq, SearchFacts DEF NodeOK
<1> HIDE DEF v
<1>10. NodeOK(n, v)
  <2>1. Searches(v)
    BY <1>2, <1>9 DEF NodeOK, Searches
  <2>2. Usable(n, v)
    BY <1>2, <1>9, UsableKept DEF NodeOK
  <2> QED
    BY <1>9, <2>1, <2>2 DEF NodeOK
<1>11. LotsIn(v, M)
  BY <1>4, <1>9, EmptySeq DEF LotsIn
<1>12. Within(rxq', F)
  BY <1>1, <1>2, <1>5, <1>7, UnicastWithin, SentWithin
<1>13. Outcome(n, t, F, M)
  BY <1>1, <1>2, <1>6, <1>8, <1>9, <1>10, <1>11, <1>12 DEF Outcome
<1> QED
  BY <1>13 DEF n, h, t

LEMMA ForwardReplyOutcome ==
    ASSUME IInv, NEW a \in HwAddr, ForwardReply(a),
           NEW F, Within(rxq, F),
           NEW M, LotsIn(rt_table[a[1]], M), Sendable(a, F, M)
    PROVE  Outcome(a[1], Learned(a, Incoming(a)), F, M)
<1> DEFINE n == a[1]
           h == Incoming(a)
           t == Learned(a, h)
<1>1. /\ Arrives(a)
      /\ h.destination_id # n
      /\ SendOrPark(n, t, Taken(a), h, {a[2]})
  BY DEF ForwardReply
<1>2. /\ n \in Node /\ h \in Header /\ NodeOK(n, t)
      /\ SameSearches(rt_table[n], t)
  BY <1>1, ArrivalFacts
<1>3. Within(Taken(a), F)
  BY <1>1, TakenWithin DEF Arrives
<1>4. MaySend(n, F, h) /\ MayRequest(n, F, h) /\ Car(h) \in M
  BY DEF Sendable
<1>5. rt_table \in [Node -> Table]
      /\ g_broadcast_id \in [Node -> 0..MaxBroadcastId]
  BY DEF IInv, TypeOK
<1>6. LotsIn(t, M)
  BY <1>2, LotsKept
<1> HIDE DEF n, h, t
<1>7. Outcome(n, t, F, M)
  BY <1>1, <1>2, <1>3, <1>4, <1>5, <1>6, SendOrParkOutcome
<1> QED
  BY <1>7 DEF n, h, t

LEMMA ForwardDataOutcome ==
    ASSUME IInv, NEW a \in HwAddr, ForwardData(a),
           NEW F, Within(rxq, F),
           NEW M, LotsIn(rt_table[a[1]], M), Sendable(a, F, M)
    PROVE  Outcome(a[1], Learned(a, Incoming(a)), F, M)
<1> DEFINE n == a[1]
           h == Incoming(a)
           t == Learned(a, h)
<1>1. /\ Arrives(a)
      /\ RouteMsg(n, t, Taken(a), h)
  BY DEF ForwardData
<1>2. /\ n \in Node /\ h \in Header /\ NodeOK(n, t)
      /\ SameSearches(rt_table[n], t)
  BY <1>1, ArrivalFacts
<1>3. Within(Taken(a), F)
  BY <1>1, TakenWithin DEF Arrives
<1>4. MaySend(n, F, h) /\ MayRequest(n, F, h) /\ Car(h) \in M
  BY DEF Sendable
<1>5. rt_table \in [Node -> Table]
      /\ g_broadcast_id \in [Node -> 0..MaxBroadcastId]
  BY DEF IInv, TypeOK
<1>6. LotsIn(t, M)
  BY <1>2, LotsKept
<1> HIDE DEF n, h, t
<1>7. Outcome(n, t, F, M)
  BY <1>1, <1>2, <1>3, <1>4, <1>5, <1>6, RouteMsgOutcome
<1> QED
  BY <1>7 DEF n, h, t

LEMMA ReceiveDataOutcome ==
    ASSUME IInv, NEW a \in HwAddr, ReceiveData(a),
           NEW F, Within(rxq, F),
           NEW M, LotsIn(rt_table[a[1]], M), Sendable(a, F, M)
    PROVE  /\ Outcome(a[1], Learned(a, Incoming(a)), F, M)
           /\ delivered' \subseteq Delivery
<1> DEFINE n == a[1]
           h == Incoming(a)
           t == Learned(a, h)
           ports == client_list[n]
<1>1. /\ Arrives(a)
      /\ h.destination_id = n
      /\ RouteToSelf(n, t, Taken(a), h, ports)
  BY DEF ReceiveData
<1>2. /\ n \in Node /\ h \in Header /\ NodeOK(n, t)
      /\ SameSearches(rt_table[n], t)
  BY <1>1, ArrivalFacts
<1>3. Within(Taken(a), F)
  BY <1>1, TakenWithin DEF Arrives
<1>4. /\ MaySend(n, F, ErrorReport(h)) /\ MayRequest(n, F, ErrorReport(h))
      /\ Car(ErrorReport(h)) \in M
  BY <1>1 DEF Sendable
<1>5. rt_table \in [Node -> Table] /\ delivered \subseteq Delivery
      /\ g_broadcast_id \in [Node -> 0..MaxBroadcastId]
  BY DEF IInv, TypeOK
<1>6. LotsIn(t, M)
  BY <1>2, LotsKept
<1> HIDE DEF n, h, t, ports
<1>7. Outcome(n, t, F, M) /\ delivered' \subseteq Delivery
  BY <1>1, <1>2, <1>3, <1>4, <1>5, <1>6, RouteToSelfOutcome
<1> QED
  BY <1>7 DEF n, h, t

LEMMA IgnoreOwnOutcome ==
    ASSUME IInv, NEW a \in HwAddr, IgnoreOwn(a),
           NEW F, Within(rxq, F),
           NEW M, LotsIn(rt_table[a[1]], M)
    PROVE  Outcome(a[1], Learned(a, Incoming(a)), F, M)
<1> DEFINE n == a[1]
           h == Incoming(a)
           t == Learned(a, h)
<1>1. /\ Arrives(a)
      /\ rt_table' = [rt_table EXCEPT ![n] = t]
      /\ rxq' = Taken(a)
      /\ g_broadcast_id' = g_broadcast_id
  BY DEF IgnoreOwn
<1>2. /\ n \in Node /\ NodeOK(n, t) /\ SameSearches(rt_table[n], t)
  BY <1>1, ArrivalFacts
<1>3. Within(Taken(a), F)
  BY <1>1, TakenWithin DEF Arrives
<1>4. rt_table \in [Node -> Table]
      /\ g_broadcast_id \in [Node -> 0..MaxBroadcastId]
  BY DEF IInv, TypeOK
<1>5. LotsIn(t, M)
  BY <1>2, LotsKept
<1> HIDE DEF n, h, t
<1>6. Outcome(n, t, F, M)
  BY <1>1, <1>2, <1>3, <1>4, <1>5, RouteChain DEF Outcome
<1> QED
  BY <1>6 DEF n, h, t

LEMMA ProcessFrameOutcome ==
    ASSUME IInv, NEW a \in HwAddr, ProcessFrame(a),
           NEW F, Within(rxq, F),
           NEW M, LotsIn(rt_table[a[1]], M), Sendable(a, F, M)
    PROVE  /\ Arrives(a)
           /\ Outcome(a[1], Learned(a, Incoming(a)), F, M)
           /\ delivered' \subseteq Delivery
           /\ UNCHANGED <<client_list, accepted, environment>>
<1>1. CASE AnswerRequest(a)
  BY <1>1, AnswerRequestOutcome DEF AnswerRequest, IInv, TypeOK
<1>2. CASE RelayRequest(a)
  BY <1>2, RelayRequestOutcome DEF RelayRequest, IInv, TypeOK
<1>3. CASE Unpark(a)
  BY <1>3, UnparkOutcome DEF Unpark, IInv, TypeOK
<1>4. CASE ForwardReply(a)
  BY <1>4, ForwardReplyOutcome DEF ForwardReply, IInv, TypeOK
<1>5. CASE ReceiveData(a)
  BY <1>5, ReceiveDataOutcome DEF ReceiveData
<1>6. CASE ForwardData(a)
  BY <1>6, ForwardDataOutcome DEF ForwardData, IInv, TypeOK
<1>7. CASE IgnoreOwn(a)
  BY <1>7, IgnoreOwnOutcome DEF IgnoreOwn, IInv, TypeOK
<1> QED
  BY <1>1, <1>2, <1>3, <1>4, <1>5, <1>6, <1>7 DEF ProcessFrame

(* A client's message is a header, and the table it is routed with is in   *)
(* order.                                                                  *)
LEMMA ClientFacts ==
    ASSUME IInv, NEW f \in Flow, NEW forced \in BOOLEAN
    PROVE  LET n == f.src
               h == Datagram(n, f.sport, f.dst, f.dport, forced,
                             Len(accepted) + 1)
               t == IF forced
                    THEN PurgeEntry(rt_table[n], f.dst) ELSE rt_table[n]
           IN  /\ n \in Node /\ h \in Header /\ ErrorReport(h) \in Header
               /\ NodeOK(n, t)
               /\ SameSearches(rt_table[n], t)
               /\ client_list[n] \cup {f.sport} \in SUBSET Nat
<1>1. /\ f.src \in Node /\ f.dst \in Node
      /\ f.sport \in Nat /\ f.dport \in Nat
  BY FlowAssumption
<1>2. Len(accepted) + 1 \in Nat
  BY DEF IInv, TypeOK
<1> DEFINE h == Datagram(f.src, f.sport, f.dst, f.dport, forced,
                         Len(accepted) + 1)
<1>3. h \in Header
  BY <1>1, <1>2, BroadcastIdAssumption DEF Datagram, Header, Flag
<1>4. ErrorReport(h) \in Header
  <2> HIDE DEF h
  <2> QED
    BY <1>3 DEF ErrorReport, SwapRoles, Header, Flag
<1>5. NodeOK(f.src, rt_table[f.src])
  BY <1>1 DEF IInv
<1>6. NodeOK(f.src, PurgeEntry(rt_table[f.src], f.dst))
  BY <1>1, <1>5, PurgeOK
<1>7. SameSearches(rt_table[f.src], PurgeEntry(rt_table[f.src], f.dst))
  BY <1>1, <1>5, PurgeFacts DEF NodeOK
<1>8. client_list[f.src] \cup {f.sport} \in SUBSET Nat
  BY <1>1 DEF IInv, TypeOK
<1> QED
  BY <1>1, <1>3, <1>4, <1>5, <1>6, <1>7, <1>8, RouteChain

LEMMA DoProcessOutcome ==
    ASSUME IInv, NEW f \in Flow, NEW forced \in BOOLEAN, DoProcess(f, forced),
           NEW F, Within(rxq, F),
           NEW M, LotsIn(rt_table[f.src], M),
           LET h == Datagram(f.src, f.sport, f.dst, f.dport, forced,
                             Len(accepted) + 1)
           IN  /\ MaySend(f.src, F, h)
               /\ MayRequest(f.src, F, h)
               /\ Car(h) \in M
               /\ f.dst = f.src =>
                     /\ MaySend(f.src, F, ErrorReport(h))
                     /\ MayRequest(f.src, F, ErrorReport(h))
                     /\ Car(ErrorReport(h)) \in M
    PROVE  LET t == IF forced
                    THEN PurgeEntry(rt_table[f.src], f.dst)
                    ELSE rt_table[f.src]
           IN  /\ Outcome(f.src, t, F, M)
               /\ delivered' \subseteq Delivery
<1> DEFINE n == f.src
           h == Datagram(n, f.sport, f.dst, f.dport, forced, Len(accepted) + 1)
           t == IF forced THEN PurgeEntry(rt_table[n], f.dst) ELSE rt_table[n]
           ports == client_list[n] \cup {f.sport}
<1>1. \/ f.dst = n /\ RouteToSelf(n, t, rxq, h, ports)
      \/ RouteMsg(n, t, rxq, h) /\ delivered' = delivered
  BY DEF DoProcess
<1>2. /\ n \in Node /\ h \in Header
      /\ NodeOK(n, t) /\ SameSearches(rt_table[n], t)
  BY ClientFacts
<1>3. rt_table \in [Node -> Table] /\ delivered \subseteq Delivery
      /\ g_broadcast_id \in [Node -> 0..MaxBroadcastId]
  BY DEF IInv, TypeOK
<1>4. LotsIn(t, M)
  BY <1>2, LotsKept
<1>5. /\ MaySend(n, F, h) /\ MayRequest(n, F, h) /\ Car(h) \in M
      /\ f.dst = n =>
            /\ MaySend(n, F, ErrorReport(h))
            /\ MayRequest(n, F, ErrorReport(h))
            /\ Car(ErrorReport(h)) \in M
  OBVIOUS
<1> HIDE DEF n, h, t, ports
<1>6. Outcome(n, t, F, M) /\ delivered' \subseteq Delivery
  <2>1. CASE f.dst = n /\ RouteToSelf(n, t, rxq, h, ports)
    BY <1>2, <1>3, <1>4, <1>5, <2>1, RouteToSelfOutcome
  <2>2. CASE RouteMsg(n, t, rxq, h) /\ delivered' = delivered
    BY <1>2, <1>3, <1>4, <1>5, <2>2, RouteMsgOutcome
  <2> QED
    BY <1>1, <2>1, <2>2
<1> QED
  BY <1>6 DEF n, t

-----------------------------------------------------------------------------
(* The invariant holds in every state. *)

LEMMA QueueType ==
    ASSUME NEW q, Within(q, FrameAt)
    PROVE  q \in [HwAddr -> Seq(Frame)]
<1>1. \A a \in HwAddr : q[a] \in Seq(Frame)
  <2> SUFFICES ASSUME NEW a \in HwAddr
               PROVE  q[a] \in Seq(Frame)
    OBVIOUS
  <2>1. FrameAt[a] \subseteq Frame /\ q[a] \in Seq(FrameAt[a])
    BY DEF FrameAt, Within
  <2> QED
    BY <2>1, SeqMonotonic
<1> QED
  BY <1>1 DEF Within

LEMMA HandlerKeepsIInv ==
    ASSUME IInv, NEW n \in Node, NEW t, NEW M, Outcome(n, t, FrameAt, M),
           delivered' \subseteq Delivery,
           client_list' \in [Node -> SUBSET Nat],
           accepted' \in Seq(Flow),
           UNCHANGED environment
    PROVE  IInv'
<1>1. /\ rt_table \in [Node -> Table]
      /\ ticks \in Nat /\ losses \in Nat /\ restarts \in Nat
      /\ \A m \in Node : NodeOK(m, rt_table[m])
  BY DEF IInv, TypeOK
<1>2. /\ rt_table' = [rt_table EXCEPT ![n] = rt_table'[n]]
      /\ NodeOK(n, rt_table'[n])
      /\ Within(rxq', FrameAt)
      /\ g_broadcast_id' \in [Node -> 0..MaxBroadcastId]
  BY DEF Outcome
<1>3. rt_table' \in [Node -> Table]
  BY <1>1, <1>2 DEF NodeOK
<1>4. \A m \in Node : NodeOK(m, rt_table'[m])
  BY <1>1, <1>2
<1>5. rxq' \in [HwAddr -> Seq(Frame)]
  BY <1>2, QueueType
<1> QED
  BY <1>1, <1>2, <1>3, <1>4, <1>5
     DEF IInv, TypeOK, environment, NodeOK, Searches, Usable, UsableRoute,
         IsStale, Within

LEMMA InitIInv == Init => IInv
<1> SUFFICES ASSUME Init
             PROVE  IInv
  OBVIOUS
<1>1. ASSUME NEW n \in Node
      PROVE  NodeOK(n, CreateRoutingTable(n))
  <2>1. CreateRoutingTable(n) \in Table
    BY CreateFacts
  <2>2. \A d \in Node : CreateRoutingTable(n).entry[d].parking_lot = <<>>
                        /\ CreateRoutingTable(n).entry[d].finding_route = FALSE
    BY DEF CreateRoutingTable, EmptyEntry
  <2>3. \A d \in Node : d # n => IsStale(CreateRoutingTable(n), d)
    BY StalenessAssumption DEF CreateRoutingTable, EmptyEntry, IsStale
  <2> QED
    BY <2>1, <2>2, <2>3 DEF NodeOK, Searches, Usable
<1>2. Within(rxq, FrameAt)
  BY EmptySeq DEF Init, Within
<1>3. TypeOK
  <2>1. rt_table \in [Node -> Table]
    BY CreateFacts DEF Init
  <2>2. rxq \in [HwAddr -> Seq(Frame)]
    BY <1>2, QueueType
  <2> QED
    BY <2>1, <2>2, FlowAssumption, BroadcastIdAssumption, EmptySeq
       DEF Init, TypeOK
<1> QED
  BY <1>1, <1>2, <1>3 DEF IInv, Init

(* Whatever frame arrives, its receiver's table stays in order. *)
LEMMA ReceiveOutcome ==
    ASSUME IInv, NEW a \in HwAddr, ProcessFrame(a)
    PROVE  /\ Outcome(a[1], Learned(a, Incoming(a)), FrameAt, Header)
           /\ delivered' \subseteq Delivery
           /\ UNCHANGED <<client_list, accepted, environment>>
<1>0. Arrives(a)
  BY DEF ProcessFrame, AnswerRequest, RelayRequest, Unpark, ForwardReply,
         ReceiveData, ForwardData, IgnoreOwn
<1>1. /\ a[1] \in Node
      /\ Incoming(a) \in Header
      /\ NodeOK(a[1], RequestTable(a, Incoming(a)))
  BY <1>0, ArrivalFacts, RequestTableFacts
<1>2. Within(rxq, FrameAt)
  BY DEF IInv
<1>3. LotsIn(rt_table[a[1]], Header)
  BY <1>1 DEF IInv, TypeOK, LotsIn, Table, Entry
<1>4. Sendable(a, FrameAt, Header)
  <2> DEFINE n == a[1]
             h == Incoming(a)
             t == RequestTable(a, h)
             hops == t.entry[h.destination_id].hop_count
  <2>1. h.destination_id \in Node /\ t \in Table
    BY <1>1 DEF Header, NodeOK
  <2>2. hops \in Nat
    BY <2>1 DEF Table, Entry
  <2> HIDE DEF h, t, hops, n
  <2>3. /\ AnsweredRequest(h) \in Header
        /\ RouteReply(h, hops) \in Header
        /\ ErrorReport(h) \in Header
    BY <1>1, <2>2
       DEF AnsweredRequest, RouteReply, ErrorReport, SwapRoles, Header, Flag, h
  <2>4. Car(h) \in Header /\ Car(ErrorReport(h)) \in Header
    BY <1>1, <2>3 DEF Car, Header, h
  <2>5. n \in Node /\ h \in Header
    BY <1>1 DEF n, h
  <2>6. /\ \A m : MayRequest(n, FrameAt, m)
        /\ \A m \in Header : MaySend(n, FrameAt, m)
    BY <2>5, AnyRequest, AnyMessage
  <2> QED
    BY <2>3, <2>4, <2>5, <2>6 DEF Sendable, n, h, t, hops
<1> QED
  BY <1>2, <1>3, <1>4, ProcessFrameOutcome

LEMMA ReceiveIInv ==
    ASSUME IInv, NEW a \in HwAddr, ProcessFrame(a)
    PROVE  IInv'
<1>1. a[1] \in Node
  BY AddressFacts
<1>2. /\ Outcome(a[1], Learned(a, Incoming(a)), FrameAt, Header)
      /\ delivered' \subseteq Delivery
      /\ UNCHANGED <<client_list, accepted, environment>>
  BY ReceiveOutcome
<1>3. client_list' \in [Node -> SUBSET Nat] /\ accepted' \in Seq(Flow)
  BY <1>2 DEF IInv, TypeOK
<1> QED
  BY <1>1, <1>2, <1>3, HandlerKeepsIInv

LEMMA SendIInv ==
    ASSUME IInv, NEW f \in Flow, NEW forced \in Forcing, DoProcess(f, forced)
    PROVE  IInv'
<1> DEFINE n == f.src
           h == Datagram(n, f.sport, f.dst, f.dport, forced, Len(accepted) + 1)
           t == IF forced THEN PurgeEntry(rt_table[n], f.dst) ELSE rt_table[n]
           ports == client_list[n] \cup {f.sport}
<1>1. forced \in BOOLEAN
  BY FlowAssumption
<1>2. /\ n \in Node /\ h \in Header /\ ErrorReport(h) \in Header
      /\ ports \in SUBSET Nat
  BY <1>1, ClientFacts
<1>3. /\ accepted' = Append(accepted, f)
      /\ client_list' = [client_list EXCEPT ![n] = ports]
      /\ UNCHANGED environment
  BY DEF DoProcess
<1>4. Within(rxq, FrameAt)
  BY DEF IInv
<1>5. LotsIn(rt_table[n], Header)
  BY <1>2 DEF IInv, TypeOK, LotsIn, Table, Entry
<1> HIDE DEF h, ports
<1>6. Car(h) \in Header /\ Car(ErrorReport(h)) \in Header
  BY <1>2 DEF Car, Header
<1>7. /\ MayRequest(n, FrameAt, h) /\ MayRequest(n, FrameAt, ErrorReport(h))
      /\ MaySend(n, FrameAt, h) /\ MaySend(n, FrameAt, ErrorReport(h))
  BY <1>2, AnyRequest, AnyMessage
<1>8. Outcome(n, t, FrameAt, Header) /\ delivered' \subseteq Delivery
  BY <1>1, <1>4, <1>5, <1>6, <1>7, DoProcessOutcome DEF h
<1>9. client_list' \in [Node -> SUBSET Nat] /\ accepted' \in Seq(Flow)
  BY <1>2, <1>3 DEF IInv, TypeOK
<1> QED
  BY <1>2, <1>3, <1>8, <1>9, HandlerKeepsIInv

LEMMA TickIInv ==
    ASSUME IInv, NEW n \in Node, Tick(n)
    PROVE  IInv'
<1> DEFINE t == rt_table[n]
           u == Aged(t)
<1>1. /\ rt_table' = [rt_table EXCEPT ![n] = u]
      /\ ticks' = ticks + 1
      /\ UNCHANGED <<g_broadcast_id, client_list, rxq, delivered, accepted,
                     losses, restarts>>
  BY DEF Tick
<1>2. NodeOK(n, t) /\ t \in Table
  BY DEF IInv, NodeOK
<1> HIDE DEF t
<1>3. u \in Table /\ SameSearches(t, u) /\ NoNewRoute(t, u)
  BY <1>2, AgedFacts
<1> HIDE DEF u
<1>4. NodeOK(n, u)
  <2>1. Searches(u)
    BY <1>2, <1>3 DEF NodeOK, Searches, SameSearches
  <2>2. Usable(n, u)
    BY <1>2, <1>3, UsableKept DEF NodeOK
  <2> QED
    BY <1>3, <2>1, <2>2 DEF NodeOK
<1>5. rt_table \in [Node -> Table] /\ \A m \in Node : NodeOK(m, rt_table[m])
  BY DEF IInv, TypeOK
<1>6. rt_table' \in [Node -> Table] /\ \A m \in Node : NodeOK(m, rt_table'[m])
  BY <1>1, <1>3, <1>4, <1>5
<1> QED
  BY <1>1, <1>6 DEF IInv, TypeOK, Within, NodeOK, Searches, Usable,
                    UsableRoute, IsStale

LEMMA LoseIInv ==
    ASSUME IInv, NEW a \in HwAddr, Lose(a)
    PROVE  IInv'
<1>1. /\ rxq[a] # <<>>
      /\ rxq' = Taken(a)
      /\ losses' = losses + 1
      /\ UNCHANGED <<rt_table, g_broadcast_id, client_list, delivered, accepted,
                     ticks, restarts>>
  BY DEF Lose
<1>2. Within(rxq', FrameAt)
  BY <1>1, TakenWithin DEF IInv
<1>3. rxq' \in [HwAddr -> Seq(Frame)]
  BY <1>2, QueueType
<1> QED
  BY <1>1, <1>2, <1>3 DEF IInv, TypeOK, Within, NodeOK, Searches, Usable,
                          UsableRoute, IsStale

LEMMA RestartIInv ==
    ASSUME IInv, NEW n \in Node, Restart(n)
    PROVE  IInv'
<1> DEFINE u == CreateRoutingTable(n)
<1>1. /\ rt_table' = [rt_table EXCEPT ![n] = u]
      /\ g_broadcast_id' = [g_broadcast_id EXCEPT ![n] = 0]
      /\ client_list' = [client_list EXCEPT ![n] = {ServerPort}]
      /\ rxq' = [a \in HwAddr |-> IF a[1] = n THEN <<>> ELSE rxq[a]]
      /\ restarts' = restarts + 1
      /\ UNCHANGED <<delivered, accepted, ticks, losses>>
  BY DEF Restart
<1>2. NodeOK(n, u)
  <2>1. u \in Table
    BY CreateFacts
  <2>2. \A d \in Node : u.entry[d].parking_lot = <<>>
                        /\ u.entry[d].finding_route = FALSE
    BY DEF CreateRoutingTable, EmptyEntry
  <2>3. \A d \in Node : d # n => IsStale(u, d)
    BY StalenessAssumption DEF CreateRoutingTable, EmptyEntry, IsStale
  <2> QED
    BY <2>1, <2>2, <2>3 DEF NodeOK, Searches, Usable
<1> HIDE DEF u
<1>3. rt_table \in [Node -> Table] /\ \A m \in Node : NodeOK(m, rt_table[m])
  BY DEF IInv, TypeOK
<1>4. rt_table' \in [Node -> Table] /\ \A m \in Node : NodeOK(m, rt_table'[m])
  BY <1>1, <1>2, <1>3 DEF NodeOK
<1>5. Within(rxq', FrameAt)
  BY <1>1, EmptySeq DEF IInv, Within
<1>6. rxq' \in [HwAddr -> Seq(Frame)]
  BY <1>5, QueueType
<1>7. client_list' \in [Node -> SUBSET Nat]
      /\ g_broadcast_id' \in [Node -> 0..MaxBroadcastId]
  BY <1>1, FlowAssumption, BroadcastIdAssumption DEF IInv, TypeOK
<1>8. TypeOK'
  BY <1>1, <1>4, <1>6, <1>7 DEF IInv, TypeOK
<1> QED
  BY <1>4, <1>5, <1>8 DEF IInv, Within, NodeOK, Searches, Usable, UsableRoute,
                          IsStale

LEMMA StutterIInv ==
    ASSUME IInv, UNCHANGED vars
    PROVE  IInv'
BY DEF IInv, TypeOK, vars, Within, NodeOK, Searches, Usable, UsableRoute,
       IsStale

LEMMA StepKeepsIInv ==
    ASSUME IInv, [Next]_vars
    PROVE  IInv'
<1>1. CASE \E f \in Flow, forced \in Forcing : DoProcess(f, forced)
  BY <1>1, SendIInv
<1>2. CASE \E a \in HwAddr : ProcessFrame(a)
  BY <1>2, ReceiveIInv
<1>3. CASE \E n \in Node : Tick(n)
  BY <1>3, TickIInv
<1>4. CASE \E a \in HwAddr : Lose(a)
  BY <1>4, LoseIInv
<1>5. CASE \E n \in Node : Restart(n)
  BY <1>5, RestartIInv
<1>6. CASE UNCHANGED vars
  BY <1>6, StutterIInv
<1> QED
  BY <1>1, <1>2, <1>3, <1>4, <1>5, <1>6 DEF Next

LEMMA Invariance == Spec => []IInv
<1>1. Init => IInv
  BY InitIInv
<1>2. IInv /\ [Next]_vars => IInv'
  BY StepKeepsIInv
<1> QED
  BY <1>1, <1>2, PTL DEF Spec

(* Every state a network of ODR routers can reach is well typed. *)
THEOREM TypeCorrect == Spec => []TypeOK
<1>1. IInv => TypeOK
  BY DEF IInv
<1> QED
  BY <1>1, Invariance, PTL

(* Messages are parked for a destination exactly while a route to it is    *)
(* searched for, whatever the network loses and whichever routers restart. *)
THEOREM ParkedIffFindingHolds == Spec => []ParkedIffFinding
<1>1. IInv => ParkedIffFinding
  BY DEF IInv, NodeOK, Searches, ParkedIffFinding, Lot, Finding
<1> QED
  BY <1>1, Invariance, PTL

(* A route that is not stale leads out of an interface of the router to a  *)
(* neighbour there.                                                        *)
THEOREM FreshRouteUsableHolds == Spec => []FreshRouteUsable
<1>1. IInv => FreshRouteUsable
  BY DEF IInv, NodeOK, Usable, UsableRoute, FreshRouteUsable, HasRoute
<1> QED
  BY <1>1, Invariance, PTL

-----------------------------------------------------------------------------
(* The parking lots of a network of routers are well formed: each holds    *)
(* messages for its own destination, never for its own router, no two with *)
(* the same broadcast id and none marked FRC.                              *)

(* No two cars of the lot are the same. *)
Single(lot) == \A i, j \in DOMAIN lot : SameCar(lot[i], lot[j]) => i = j

(* LotWellFormed for router n's lot of messages for d. *)
GoodLot(n, d, lot) ==
    /\ lot # <<>> => n # d
    /\ \A i \in DOMAIN lot :
          /\ lot[i].destination_id = d
          /\ ~IsFlagSet(lot[i], "FRC")
    /\ Single(lot)

GoodLots(n, t) == \A d \in Node : GoodLot(n, d, t.entry[d].parking_lot)

(* Only router n's table has changed, and its lots are well formed. *)
LotOutcome(n) ==
    /\ rt_table' = [rt_table EXCEPT ![n] = rt_table'[n]]
    /\ GoodLots(n, rt_table'[n])

-----------------------------------------------------------------------------
(* Parking. *)

(* What is left of a lot when the car that matches h has been removed:     *)
(* other cars of the lot, in the same order.                               *)
LEMMA RemoveCarFacts ==
    ASSUME NEW M, NEW lot \in Seq(M), NEW h, Single(lot),
           NEW r, r = RemoveCar(lot, h)
    PROVE  /\ r \in Seq(M)
           /\ \A i \in DOMAIN r :
                 \E k \in DOMAIN lot : r[i] = lot[k] /\ ~SameCar(lot[k], h)
           /\ Single(r)
<1>1. CASE ~HasCar(lot, h)
  BY <1>1 DEF RemoveCar, HasCar
<1>2. CASE HasCar(lot, h)
  <2> DEFINE p == CarAt(lot, h)
             k(i) == IF i < p THEN i ELSE i + 1
  <2>1. p \in 1..Len(lot) /\ SameCar(lot[p], h)
    BY <1>2, CarAtPosition
  <2>2. r = SubSeq(lot, 1, p - 1) \o SubSeq(lot, p + 1, Len(lot))
    BY <1>2 DEF RemoveCar
  <2> HIDE DEF p
  <2>3. /\ r \in Seq(M)
        /\ Len(r) = Len(lot) - 1
        /\ \A i \in 1..(Len(lot) - 1) : r[i] = lot[k(i)]
    <3> DEFINE s == SubSeq(lot, 1, p - 1)
               e == SubSeq(lot, p + 1, Len(lot))
    <3>1. /\ s \in Seq(M) /\ Len(s) = p - 1
          /\ \A i \in 1..(p - 1) : s[i] = lot[i]
      BY <2>1
    <3>2. /\ e \in Seq(M) /\ Len(e) = Len(lot) - p
          /\ \A i \in 1..(Len(lot) - p) : e[i] = lot[p + i]
      BY <2>1
    <3>3. r = s \o e
      BY <2>2
    <3> HIDE DEF s, e
    <3>4. /\ r \in Seq(M)
          /\ Len(r) = Len(lot) - 1
          /\ \A i \in 1..(Len(lot) - 1) :
                r[i] = IF i <= p - 1 THEN s[i] ELSE e[i - (p - 1)]
      <4>1. Len(s) + Len(e) = Len(lot) - 1
        BY <2>1, <3>1, <3>2
      <4> QED
        BY <3>1, <3>2, <3>3, <4>1, ConcatProperties
    <3>5. \A i \in 1..(Len(lot) - 1) : r[i] = lot[k(i)]
      <4> SUFFICES ASSUME NEW i \in 1..(Len(lot) - 1)
                   PROVE  r[i] = lot[k(i)]
        OBVIOUS
      <4>1. CASE i < p
        BY <2>1, <3>1, <3>4, <4>1
      <4>2. CASE i >= p
        <5>1. i - (p - 1) \in 1..(Len(lot) - p) /\ p + (i - (p - 1)) = i + 1
          BY <2>1, <4>2
        <5>2. r[i] = e[i - (p - 1)] /\ k(i) = i + 1
          BY <2>1, <3>4, <4>2
        <5> QED
          BY <3>2, <5>1, <5>2
      <4> QED
        BY <2>1, <4>1, <4>2
    <3> QED
      BY <3>4, <3>5
  <2>4. \A i \in DOMAIN r : k(i) \in DOMAIN lot /\ k(i) # p /\ r[i] = lot[k(i)]
    BY <2>1, <2>3
  <2>5. \A i, j \in DOMAIN r : k(i) = k(j) => i = j
    BY <2>1, <2>3
  <2> HIDE DEF k
  <2>6. \A i \in DOMAIN r : ~SameCar(lot[k(i)], h)
    BY <2>1, <2>4 DEF Single, SameCar
  <2>7. Single(r)
    BY <2>4, <2>5 DEF Single
  <2> QED
    BY <2>3, <2>4, <2>6, <2>7
<1> QED
  BY <1>1, <1>2

(* A message for d that is parked at another router keeps the lot in form. *)
LEMMA ParkGood ==
    ASSUME NEW n \in Node, NEW d \in Node, n # d,
           NEW lot \in Seq(Header), GoodLot(n, d, lot),
           NEW h \in Header, h.destination_id = d
    PROVE  GoodLot(n, d, Park(lot, h))
<1>1. CASE HasCar(lot, h) /\ lot[CarAt(lot, h)].hop_count < h.hop_count
  BY <1>1 DEF Park
<1>2. CASE ~(HasCar(lot, h) /\ lot[CarAt(lot, h)].hop_count < h.hop_count)
  <2> DEFINE r == RemoveCar(lot, h)
             c == Car(h)
             m == <<c>> \o r
  <2>1. /\ r \in Seq(Header)
        /\ \A i \in DOMAIN r :
              \E k \in DOMAIN lot : r[i] = lot[k] /\ ~SameCar(lot[k], h)
        /\ Single(r)
    BY RemoveCarFacts DEF GoodLot
  <2>2. /\ c.destination_id = d
        /\ c.broadcast_id = h.broadcast_id
        /\ ~IsFlagSet(c, "FRC")
    BY DEF Car, IsFlagSet, Header
  <2>3. Park(lot, h) = m
    BY <1>2 DEF Park, InsertCar
  <2> HIDE DEF r, c
  <2>4. /\ DOMAIN m = 1..(Len(r) + 1)
        /\ m[1] = c
        /\ \A i \in DOMAIN m : i # 1 => i - 1 \in DOMAIN r /\ m[i] = r[i - 1]
    BY <2>1
  <2> HIDE DEF m
  <2>5. \A i \in DOMAIN r : /\ r[i].destination_id = d
                            /\ ~IsFlagSet(r[i], "FRC")
                            /\ ~SameCar(r[i], h)
    BY <2>1 DEF GoodLot
  <2>6. \A i \in DOMAIN m : m[i].destination_id = d /\ ~IsFlagSet(m[i], "FRC")
    BY <2>2, <2>4, <2>5
  <2>7. Single(m)
    <3> SUFFICES ASSUME NEW i \in DOMAIN m, NEW j \in DOMAIN m,
                        SameCar(m[i], m[j])
                 PROVE  i = j
      BY DEF Single
    <3>1. i = 1 /\ j # 1 => FALSE
      BY <2>2, <2>4, <2>5 DEF SameCar
    <3>2. j = 1 /\ i # 1 => FALSE
      BY <2>2, <2>4, <2>5 DEF SameCar
    <3>3. i # 1 /\ j # 1 => i - 1 = j - 1
      BY <2>1, <2>4 DEF Single
    <3>4. i \in Nat /\ j \in Nat
      BY <2>1, <2>4
    <3> QED
      BY <3>1, <3>2, <3>3, <3>4
  <2> QED
    BY <2>3, <2>6, <2>7 DEF GoodLot
<1> QED
  BY <1>1, <1>2

LEMMA EmptyLotGood == \A n, d : GoodLot(n, d, <<>>)
BY DEF GoodLot, Single

LEMMA GoodLotsKept ==
    ASSUME NEW n, NEW t, NEW u, SameSearches(t, u), GoodLots(n, t)
    PROVE  GoodLots(n, u)
BY DEF GoodLots, SameSearches

-----------------------------------------------------------------------------
(* What one router does. *)

LEMMA SendOrParkGood ==
    ASSUME rt_table \in [Node -> Table],
           NEW n \in Node, NEW t \in Table, GoodLots(n, t),
           NEW h \in Header, h.destination_id # n, NEW q, NEW except,
           SendOrPark(n, t, q, h, except)
    PROVE  LotOutcome(n)
<1> DEFINE d == h.destination_id
           u == ParkMsg(t, h)
           forced == IsFlagSet(h, "FRC")
<1>1. d \in Node
  BY DEF Header
<1>2. CASE ~IsStale(t, d)
  BY <1>2 DEF SendOrPark, LotOutcome
<1>3. CASE IsStale(t, d)
  <2>1. BroadcastReq(n, u, q, d, forced, except)
    BY <1>3 DEF SendOrPark
  <2>2. /\ u \in Table
        /\ u.entry[d].parking_lot = Park(t.entry[d].parking_lot, h)
        /\ \A c \in Node \ {d} : u.entry[c] = t.entry[c]
    BY ParkFacts
  <2> HIDE DEF u, d
  <2>3. t.entry[d].parking_lot \in Seq(Header)
    BY <1>1 DEF Table, Entry
  <2>4. GoodLot(n, d, u.entry[d].parking_lot)
    BY <1>1, <2>2, <2>3, ParkGood DEF GoodLots, d
  <2>5. GoodLots(n, u)
    BY <2>2, <2>4 DEF GoodLots
  <2>6. CASE u.entry[d].finding_route
    BY <2>1, <2>5, <2>6 DEF BroadcastReq, LotOutcome
  <2>7. CASE ~u.entry[d].finding_route
    <3> DEFINE lot == u.entry[d].parking_lot
               v == WithSearch(u, d, lot, TRUE)
    <3>1. u.entry[d] \in Entry /\ lot \in Seq(Header) /\ d \in Node
      BY <1>1, <2>2 DEF Table, Entry, d
    <3>2. v = [u EXCEPT !.entry[d].finding_route = TRUE]
      <4>1. [u.entry[d] EXCEPT !.parking_lot = lot, !.finding_route = TRUE]
              = [u.entry[d] EXCEPT !.finding_route = TRUE]
        BY <3>1 DEF Entry
      <4> QED
        BY <4>1 DEF WithSearch
    <3>3. rt_table' = [rt_table EXCEPT ![n] = v]
      BY <2>1, <2>7, <3>2 DEF BroadcastReq
    <3> HIDE DEF lot
    <3>4. /\ v \in Table
          /\ v.entry[d].parking_lot = lot
          /\ v.entry[d].finding_route = TRUE
          /\ \A c \in Node \ {d} : v.entry[c] = u.entry[c]
          /\ NoNewRoute(u, v)
          /\ KeepsRoutes(u, v)
      BY <2>2, <3>1, SearchFacts
    <3> HIDE DEF v
    <3>5. GoodLots(n, v)
      BY <2>5, <3>4 DEF GoodLots, lot
    <3> QED
      BY <3>3, <3>5 DEF LotOutcome
  <2> QED
    BY <2>6, <2>7
<1> QED
  BY <1>2, <1>3

LEMMA RouteMsgGood ==
    ASSUME rt_table \in [Node -> Table],
           NEW n \in Node, NEW t \in Table, GoodLots(n, t),
           NEW h \in Header, NEW q, RouteMsg(n, t, q, h)
    PROVE  LotOutcome(n)
<1>1. CASE h.destination_id = n
  BY <1>1 DEF RouteMsg, LotOutcome
<1>2. CASE h.destination_id # n
  <2> DEFINE u == QueryTable(t, h.destination_id)
  <2>1. SendOrPark(n, u, q, h, {})
    BY <1>2 DEF RouteMsg
  <2>2. h.destination_id \in Node
    BY DEF Header
  <2>3. u \in Table /\ SameSearches(t, u)
    BY <2>2, QueryFacts
  <2> HIDE DEF u
  <2>4. GoodLots(n, u)
    BY <2>3, GoodLotsKept
  <2> QED
    BY <1>2, <2>1, <2>3, <2>4, SendOrParkGood
<1> QED
  BY <1>1, <1>2

LEMMA RouteToSelfGood ==
    ASSUME rt_table \in [Node -> Table],
           NEW n \in Node, NEW t \in Table, GoodLots(n, t),
           NEW h \in Header, NEW q, NEW ports,
           RouteToSelf(n, t, q, h, ports)
    PROVE  LotOutcome(n)
<1>1. ErrorReport(h) \in Header
  BY DEF ErrorReport, SwapRoles, Header, Flag
<1>2. CASE CanDeliver(n, ports, h) \/ IsFlagSet(h, "ERR")
  BY <1>2 DEF RouteToSelf, LotOutcome
<1>3. CASE ~(CanDeliver(n, ports, h) \/ IsFlagSet(h, "ERR"))
  <2>1. RouteMsg(n, t, q, ErrorReport(h))
    BY <1>3 DEF RouteToSelf
  <2> QED
    BY <1>1, <2>1, RouteMsgGood
<1> QED
  BY <1>2, <1>3

-----------------------------------------------------------------------------
(* The steps of a network. *)

LotInv == IInv /\ \A n \in Node : GoodLots(n, rt_table[n])

LEMMA OutcomeKeeps ==
    ASSUME rt_table \in [Node -> Table],
           \A m \in Node : GoodLots(m, rt_table[m]),
           NEW n \in Node, LotOutcome(n)
    PROVE  \A m \in Node : GoodLots(m, rt_table'[m])
BY DEF LotOutcome

LEMMA ReceiveGood ==
    ASSUME LotInv, NEW a \in HwAddr, ProcessFrame(a)
    PROVE  LotOutcome(a[1])
<1> DEFINE n == a[1]
           h == Incoming(a)
           t == Learned(a, h)
           r == RequestTable(a, h)
<1>0. Arrives(a)
  BY DEF ProcessFrame, AnswerRequest, RelayRequest, Unpark, ForwardReply,
         ReceiveData, ForwardData, IgnoreOwn
<1>1. /\ n \in Node /\ h \in Header
      /\ NodeOK(n, t) /\ SameSearches(rt_table[n], t)
      /\ NodeOK(n, r) /\ SameSearches(rt_table[n], r)
  BY <1>0, ArrivalFacts, RequestTableFacts DEF LotInv
<1>2. rt_table \in [Node -> Table] /\ GoodLots(n, rt_table[n])
  BY <1>1 DEF LotInv, IInv, TypeOK
<1>3. t \in Table /\ r \in Table /\ GoodLots(n, t) /\ GoodLots(n, r)
  BY <1>1, <1>2, GoodLotsKept DEF NodeOK
<1>4. h.source_id \in Node /\ h.broadcast_id \in 0..MaxBroadcastId
  BY <1>1 DEF Header
<1>5. CASE AnswerRequest(a)
  BY <1>2, <1>3, <1>5 DEF AnswerRequest, LotOutcome
<1>6. CASE RelayRequest(a)
  <2> DEFINE v == RecordRelay(r, h.source_id, h.broadcast_id)
  <2>1. rt_table' = [rt_table EXCEPT ![n] = r]
        \/ rt_table' = [rt_table EXCEPT ![n] = v]
    BY <1>6 DEF RelayRequest
  <2>2. GoodLots(n, v)
    BY <1>3, <1>4, RelayFacts, GoodLotsKept
  <2> HIDE DEF n, h, r, v
  <2> QED
    BY <1>1, <1>2, <1>3, <2>1, <2>2 DEF LotOutcome, n
<1>7. CASE Unpark(a)
  <2> DEFINE d == h.source_id
             v == WithSearch(t, d, <<>>, FALSE)
  <2>1. rt_table' = [rt_table EXCEPT ![n] = Release(t, d)]
    BY <1>7 DEF Unpark
  <2> HIDE DEF n, h, t
  <2>2. rt_table' = [rt_table EXCEPT ![n] = v]
    BY <1>3, <1>4, <2>1 DEF Release, WithSearch, Table
  <2>3. /\ v \in Table
        /\ v.entry[d].parking_lot = <<>>
        /\ v.entry[d].finding_route = FALSE
        /\ \A c \in Node \ {d} : v.entry[c] = t.entry[c]
        /\ NoNewRoute(t, v)
        /\ KeepsRoutes(t, v)
    BY <1>3, <1>4, EmptySeq, SearchFacts
  <2> HIDE DEF v
  <2>4. GoodLots(n, v)
    BY <1>3, <2>3, EmptyLotGood DEF GoodLots
  <2> QED
    BY <1>1, <1>2, <2>2, <2>4 DEF LotOutcome, n
<1>8. CASE ForwardReply(a)
  <2>1. h.destination_id # n /\ SendOrPark(n, t, Taken(a), h, {a[2]})
    BY <1>8 DEF ForwardReply
  <2> HIDE DEF n, h, t
  <2>2. LotOutcome(n)
    BY <1>1, <1>2, <1>3, <2>1, SendOrParkGood
  <2> QED
    BY <2>2 DEF n
<1>9. CASE ReceiveData(a)
  <2>1. RouteToSelf(n, t, Taken(a), h, client_list[n])
    BY <1>9 DEF ReceiveData
  <2> HIDE DEF n, h, t
  <2>2. LotOutcome(n)
    BY <1>1, <1>2, <1>3, <2>1, RouteToSelfGood
  <2> QED
    BY <2>2 DEF n
<1>10. CASE ForwardData(a)
  <2>1. RouteMsg(n, t, Taken(a), h)
    BY <1>10 DEF ForwardData
  <2> HIDE DEF n, h, t
  <2>2. LotOutcome(n)
    BY <1>1, <1>2, <1>3, <2>1, RouteMsgGood
  <2> QED
    BY <2>2 DEF n
<1>11. CASE IgnoreOwn(a)
  BY <1>1, <1>2, <1>3, <1>11 DEF IgnoreOwn, LotOutcome
<1> QED
  BY <1>5, <1>6, <1>7, <1>8, <1>9, <1>10, <1>11 DEF ProcessFrame

LEMMA SendKeepsGood ==
    ASSUME LotInv, NEW f \in Flow, NEW forced \in Forcing, DoProcess(f, forced)
    PROVE  LotOutcome(f.src)
<1> DEFINE n == f.src
           h == Datagram(n, f.sport, f.dst, f.dport, forced, Len(accepted) + 1)
           t == IF forced THEN PurgeEntry(rt_table[n], f.dst) ELSE rt_table[n]
           ports == client_list[n] \cup {f.sport}
<1>1. forced \in BOOLEAN
  BY FlowAssumption
<1>2. /\ n \in Node /\ h \in Header
      /\ NodeOK(n, t) /\ SameSearches(rt_table[n], t)
  BY <1>1, ClientFacts DEF LotInv
<1>3. \/ RouteToSelf(n, t, rxq, h, ports)
      \/ RouteMsg(n, t, rxq, h)
  BY DEF DoProcess
<1> HIDE DEF h, t, ports
<1>4. rt_table \in [Node -> Table] /\ GoodLots(n, t) /\ t \in Table
  BY <1>2, GoodLotsKept DEF LotInv, IInv, TypeOK, NodeOK
<1> QED
  BY <1>2, <1>3, <1>4, RouteToSelfGood, RouteMsgGood

LEMMA TickGood ==
    ASSUME LotInv, NEW n \in Node, Tick(n)
    PROVE  LotOutcome(n)
<1>1. rt_table' = [rt_table EXCEPT ![n] = Aged(rt_table[n])]
  BY DEF Tick
<1>2. rt_table \in [Node -> Table] /\ GoodLots(n, rt_table[n])
  BY DEF LotInv, IInv, TypeOK
<1>3. GoodLots(n, Aged(rt_table[n]))
  BY <1>2, AgedFacts, GoodLotsKept
<1> QED
  BY <1>1, <1>2, <1>3 DEF LotOutcome

LEMMA NewTableGood ==
    ASSUME NEW n \in Node
    PROVE  GoodLots(n, CreateRoutingTable(n))
<1>1. \A d \in Node : CreateRoutingTable(n).entry[d].parking_lot = <<>>
  BY DEF CreateRoutingTable, EmptyEntry
<1> QED
  BY <1>1, EmptyLotGood DEF GoodLots

LEMMA RestartGood ==
    ASSUME LotInv, NEW n \in Node, Restart(n)
    PROVE  LotOutcome(n)
<1>1. rt_table' = [rt_table EXCEPT ![n] = CreateRoutingTable(n)]
  BY DEF Restart
<1>2. rt_table \in [Node -> Table]
  BY DEF LotInv, IInv, TypeOK
<1> QED
  BY <1>1, <1>2, NewTableGood DEF LotOutcome

LEMMA InitLotInv == Init => LotInv
BY InitIInv, NewTableGood DEF Init, LotInv

LEMMA StepKeepsLotInv ==
    ASSUME LotInv, [Next]_vars
    PROVE  LotInv'
<1>1. IInv'
  BY StepKeepsIInv DEF LotInv
<1>2. /\ rt_table \in [Node -> Table]
      /\ \A m \in Node : GoodLots(m, rt_table[m])
  BY DEF LotInv, IInv, TypeOK
<1>3. \A m \in Node : GoodLots(m, rt_table'[m])
  <2>1. CASE \E f \in Flow, forced \in Forcing : DoProcess(f, forced)
    BY <1>2, <2>1, SendKeepsGood, OutcomeKeeps, FlowAssumption
  <2>2. CASE \E a \in HwAddr : ProcessFrame(a)
    BY <1>2, <2>2, ReceiveGood, OutcomeKeeps, AddressFacts
  <2>3. CASE \E n \in Node : Tick(n)
    BY <1>2, <2>3, TickGood, OutcomeKeeps
  <2>4. CASE \E n \in Node : Restart(n)
    BY <1>2, <2>4, RestartGood, OutcomeKeeps
  <2>5. CASE (\E a \in HwAddr : Lose(a)) \/ UNCHANGED vars
    <3>1. rt_table' = rt_table
      BY <2>5 DEF Lose, vars
    <3> QED
      BY <1>2, <3>1
  <2> QED
    BY <2>1, <2>2, <2>3, <2>4, <2>5 DEF Next
<1> QED
  BY <1>1, <1>3 DEF LotInv, GoodLots, GoodLot, Single, SameCar, IsFlagSet

(* Whatever is parked waits for the route it needs, at a router that is    *)
(* not its destination, once, and will not erase that route when it        *)
(* leaves.                                                                 *)
THEOREM LotWellFormedHolds == Spec => []LotWellFormed
<1>1. LotInv => LotWellFormed
  BY DEF LotInv, GoodLots, GoodLot, Single, LotWellFormed, Lot
<1>2. Spec => []LotInv
  BY InitLotInv, StepKeepsLotInv, PTL DEF Spec
<1> QED
  BY <1>1, <1>2, PTL
=============================================================================
