--------------------------- MODULE OdrLoopProofs ---------------------------
(***************************************************************************)
(* Routes that nobody forgets form no loops, in every network.             *)
(*                                                                         *)
(* RouteCloser is not inductive: it relates the tables of two routers,     *)
(* while a router changes its table for what a frame says.  What makes it  *)
(* inductive is that frames tell the truth: the router a frame comes from, *)
(* or a car is parked at, knows a route to the message's source that is no *)
(* longer than the message claims.  Routes only improve, so the claim stays*)
(* true until the frame is received, however long it is under way.         *)
(***************************************************************************)
EXTENDS OdrProofs

Known(T, m, h) ==
    h.source_id # m =>
        /\ ~IsStale(T[m], h.source_id)
        /\ T[m].entry[h.source_id].hop_count <= h.hop_count + 1

(* True messages, none of which makes a router forget a route. *)
GoodCars(T, m) == {h \in Header : Known(T, m, h) /\ ~IsFlagSet(h, "FRC")}

GoodFrames(T) ==
    [a \in HwAddr |-> {f \in FrameAt[a] : f.msg \in GoodCars(T, f.from[1])}]

Closer(T) ==
    \A n, d \in Node :
        n # d /\ ~IsStale(T[n], d) =>
            LET m == T[n].entry[d].next_hop[1]
            IN  m # d => /\ ~IsStale(T[m], d)
                         /\ T[m].entry[d].hop_count < T[n].entry[d].hop_count

Truthful(T, q) ==
    /\ Within(q, GoodFrames(T))
    /\ \A n \in Node : LotsIn(T[n], GoodCars(T, n))
    /\ Closer(T)

(* u has every route that t has, or a shorter one. *)
Improves(t, u) ==
    \A d \in Node :
        ~IsStale(t, d) =>
            ~IsStale(u, d) /\ u.entry[d].hop_count <= t.entry[d].hop_count

-----------------------------------------------------------------------------
(* Better routes falsify no message. *)

LEMMA ImprovesChain ==
    ASSUME NEW t \in Table, NEW u \in Table, NEW v \in Table
    PROVE  /\ Improves(t, t)
           /\ Improves(t, u) /\ Improves(u, v) => Improves(t, v)
           /\ KeepsRoutes(t, u) => Improves(t, u)
<1>1. \A x \in Table, d \in Node : x.entry[d].hop_count \in Nat
  BY DEF Table, Entry
<1>2. Improves(t, t)
  BY <1>1 DEF Improves
<1>3. Improves(t, u) /\ Improves(u, v) => Improves(t, v)
  BY <1>1 DEF Improves
<1>4. KeepsRoutes(t, u) => Improves(t, u)
  BY <1>1 DEF Improves, KeepsRoutes, SameRoute
<1> QED
  BY <1>2, <1>3, <1>4

LEMMA StillKnown ==
    ASSUME NEW T \in [Node -> Table], NEW U \in [Node -> Table],
           \A m \in Node : Improves(T[m], U[m]), NEW n \in Node
    PROVE  GoodCars(T, n) \subseteq GoodCars(U, n)
<1> SUFFICES ASSUME NEW h \in GoodCars(T, n)
             PROVE  h \in GoodCars(U, n)
  OBVIOUS
<1>1. h \in Header /\ Known(T, n, h) /\ ~IsFlagSet(h, "FRC")
  BY DEF GoodCars
<1>2. h.source_id \in Node /\ h.hop_count \in Nat
  BY <1>1 DEF Header
<1>3. /\ T[n].entry[h.source_id].hop_count \in Nat
      /\ U[n].entry[h.source_id].hop_count \in Nat
  BY <1>2 DEF Table, Entry
<1>4. Known(U, n, h)
  BY <1>1, <1>2, <1>3 DEF Known, Improves
<1> QED
  BY <1>1, <1>4 DEF GoodCars

LEMMA StillGood ==
    ASSUME NEW T \in [Node -> Table], NEW U \in [Node -> Table],
           \A m \in Node : Improves(T[m], U[m]),
           NEW q, Within(q, GoodFrames(T))
    PROVE  Within(q, GoodFrames(U))
<1> SUFFICES ASSUME NEW a \in HwAddr
             PROVE  q[a] \in Seq(GoodFrames(U)[a])
  BY DEF Within
<1>1. GoodFrames(T)[a] \subseteq GoodFrames(U)[a]
  <2> SUFFICES ASSUME NEW f \in GoodFrames(T)[a]
               PROVE  f \in GoodFrames(U)[a]
    OBVIOUS
  <2>1. f \in FrameAt[a] /\ f.msg \in GoodCars(T, f.from[1])
    BY DEF GoodFrames
  <2>2. f.from[1] \in Node
    BY <2>1, AddressFacts DEF FrameAt, Frame
  <2>3. f.msg \in GoodCars(U, f.from[1])
    BY <2>1, <2>2, StillKnown
  <2> QED
    BY <2>1, <2>3 DEF GoodFrames
<1>2. q[a] \in Seq(GoodFrames(T)[a])
  BY DEF Within
<1> QED
  BY <1>1, <1>2, SeqMonotonic

LEMMA StillInLots ==
    ASSUME NEW T \in [Node -> Table], NEW U \in [Node -> Table],
           \A m \in Node : Improves(T[m], U[m]),
           NEW n \in Node, NEW t, LotsIn(t, GoodCars(T, n))
    PROVE  LotsIn(t, GoodCars(U, n))
<1>1. GoodCars(T, n) \subseteq GoodCars(U, n)
  BY StillKnown
<1> QED
  BY <1>1, SeqMonotonic DEF LotsIn

(* A message that the router n may send is a good frame where it arrives. *)
LEMMA SendGood ==
    ASSUME NEW T, NEW n \in Node, NEW h \in GoodCars(T, n)
    PROVE  MaySend(n, GoodFrames(T), h)
<1>1. h \in Header
  BY DEF GoodCars
<1>2. MaySend(n, FrameAt, h)
  BY <1>1, AnyMessage
<1> SUFFICES ASSUME NEW a \in HwAddr, a[1] # n, a[2] \in Interfaces(n)
             PROVE  [from |-> <<n, a[2]>>, msg |-> h] \in GoodFrames(T)[a]
  BY DEF MaySend
<1>3. [from |-> <<n, a[2]>>, msg |-> h] \in FrameAt[a]
  BY <1>2 DEF MaySend
<1> QED
  BY <1>3 DEF GoodFrames

LEMMA RequestGood ==
    ASSUME NEW T, NEW n \in Node, NEW h, ~IsFlagSet(h, "FRC")
    PROVE  MayRequest(n, GoodFrames(T), h)
<1> DEFINE forced == IsFlagSet(h, "FRC")
<1> SUFFICES ASSUME NEW d \in Node, NEW bid \in 0..MaxBroadcastId
             PROVE  MaySend(n, GoodFrames(T), RouteRequest(n, d, bid, forced))
  BY DEF MayRequest
<1> DEFINE r == RouteRequest(n, d, bid, forced)
<1>1. r \in Header
  BY DEF RouteRequest, Header, Flag
<1>2. r.source_id = n /\ ~IsFlagSet(r, "FRC")
  BY DEF RouteRequest, IsFlagSet
<1> HIDE DEF r
<1>3. r \in GoodCars(T, n)
  BY <1>1, <1>2 DEF GoodCars, Known
<1> QED
  BY <1>3, SendGood DEF r

-----------------------------------------------------------------------------
(* What one frame teaches. *)

(* u is t after learning a route to s of the given length through hw. *)
Learns(t, u, s, hw, hops) ==
    /\ Improves(t, u)
    /\ ~IsStale(u, s)
    /\ u.entry[s].hop_count <= hops
    /\ \A d \in Node :
          ~IsStale(u, d) =>
              \/ SameRoute(t, u, d)
              \/ /\ d = s
                 /\ u.entry[d].next_hop = hw
                 /\ u.entry[d].hop_count = hops

LEMMA UpdateLearns ==
    ASSUME Staleness > 0,
           NEW t \in Table, NEW s \in Node, NEW hw \in HwAddr,
           NEW i \in Segment, NEW hops \in Nat
    PROVE  Learns(t, UpdateTable(t, s, hw, i, hops), s, hw, hops)
<1> DEFINE u == UpdateTable(t, s, hw, i, hops)
<1>1. /\ u \in Table
      /\ \A c \in Node \ {s} : u.entry[c] = t.entry[c]
      /\ IsBetter(t, s, hw, hops) =>
            /\ u.entry[s].next_hop = hw
            /\ u.entry[s].hop_count = hops
            /\ u.entry[s].age = 0
      /\ ~IsBetter(t, s, hw, hops) => u = t
  BY UpdateFacts
<1> HIDE DEF u
<1>2. \A d \in Node : /\ t.entry[d].hop_count \in Nat
                      /\ u.entry[d].hop_count \in Nat
  BY <1>1 DEF Table, Entry
<1>3. CASE IsBetter(t, s, hw, hops)
  <2>1. ~IsStale(u, s)
    BY <1>1, <1>3, StalenessAssumption DEF IsStale
  <2>2. ~IsStale(t, s) => hops <= t.entry[s].hop_count
    BY <1>2, <1>3 DEF IsBetter
  <2>3. Improves(t, u)
    BY <1>1, <1>2, <1>3, <2>1, <2>2 DEF Improves, IsStale
  <2>4. \A d \in Node \ {s} : ~IsStale(u, d) => SameRoute(t, u, d)
    BY <1>1 DEF SameRoute, IsStale
  <2> QED
    BY <1>1, <1>3, <2>1, <2>3, <2>4 DEF Learns, u
<1>4. CASE ~IsBetter(t, s, hw, hops)
  <2>1. u = t /\ ~IsStale(t, s) /\ t.entry[s].hop_count <= hops
    BY <1>1, <1>2, <1>4 DEF IsBetter
  <2>2. Improves(t, u)
    BY <2>1, <1>1, ImprovesChain
  <2> QED
    BY <2>1, <2>2 DEF Learns, SameRoute, u
<1> QED
  BY <1>3, <1>4

LEMMA KeepsLearned ==
    ASSUME NEW t \in Table, NEW u \in Table, NEW v \in Table,
           NEW s \in Node, NEW hw, NEW hops,
           Learns(t, u, s, hw, hops), NoNewRoute(u, v), KeepsRoutes(u, v)
    PROVE  Learns(t, v, s, hw, hops)
<1>1. Improves(t, v)
  BY ImprovesChain DEF Learns
<1>2. ~IsStale(v, s) /\ v.entry[s].hop_count <= hops
  BY DEF Learns, KeepsRoutes, SameRoute
<1>3. ASSUME NEW d \in Node, ~IsStale(v, d)
      PROVE  \/ SameRoute(t, v, d)
             \/ /\ d = s
                /\ v.entry[d].next_hop = hw
                /\ v.entry[d].hop_count = hops
  BY <1>3 DEF Learns, NoNewRoute, SameRoute
<1> QED
  BY <1>1, <1>2, <1>3 DEF Learns

(* The table of the frame's receiver once the frame was dispatched. *)
LEMMA FrameLearns ==
    ASSUME IInv, Staleness > 0, NEW a \in HwAddr, Arrives(a),
           ~IsFlagSet(Incoming(a), "FRC")
    PROVE  LET h == Incoming(a)
           IN  Learns(rt_table[a[1]], Learned(a, h), h.source_id, Sender(a),
                      h.hop_count + 1)
<1> DEFINE n == a[1]
           h == Incoming(a)
           t == rt_table[n]
           u == LearnSource(a, h)
<1>1. /\ n \in Node /\ h \in Header /\ Sender(a) \in HwAddr
      /\ NodeOK(n, u) /\ NodeOK(n, Learned(a, h))
  BY ArrivalFacts
<1>2. /\ h.source_id \in Node /\ h.destination_id \in Node
      /\ h.hop_count + 1 \in Nat
      /\ a[2] \in Segment
  BY <1>1, AddressFacts DEF Header
<1>3. t \in Table
  BY <1>1 DEF IInv, NodeOK
<1>4. u = UpdateTable(t, h.source_id, Sender(a), a[2], h.hop_count + 1)
  BY DEF LearnSource, ForcePurged
<1>5. Learned(a, h) = QueryTable(u, h.destination_id)
  BY DEF Learned
<1> HIDE DEF h, t, u
<1>6. Learns(t, u, h.source_id, Sender(a), h.hop_count + 1)
  BY <1>1, <1>2, <1>3, <1>4, UpdateLearns
<1>7. /\ NoNewRoute(u, QueryTable(u, h.destination_id))
      /\ KeepsRoutes(u, QueryTable(u, h.destination_id))
  BY <1>1, <1>2, QueryFacts DEF NodeOK
<1>8. Learns(t, Learned(a, h), h.source_id, Sender(a), h.hop_count + 1)
  BY <1>1, <1>2, <1>3, <1>5, <1>6, <1>7, KeepsLearned DEF NodeOK
<1> QED
  BY <1>8 DEF h, t

(* What it teaches brings the receiver closer to the source. *)
LEMMA LearningKeepsCloser ==
    ASSUME NEW T \in [Node -> Table], Closer(T),
           NEW n \in Node, NEW u \in Table,
           NEW m \in Node, NEW hw \in HwAddr, hw[1] = m, m # n,
           NEW s \in Node, NEW hops \in Nat,
           s # m => ~IsStale(T[m], s) /\ T[m].entry[s].hop_count < hops,
           Learns(T[n], u, s, hw, hops),
           \A c, d \in Node : c # d /\ ~IsStale(T[c], d) =>
              T[c].entry[d].next_hop[1] \in Node
    PROVE  Closer([T EXCEPT ![n] = u])
<1> DEFINE U == [T EXCEPT ![n] = u]
<1>1. /\ U \in [Node -> Table]
      /\ U[n] = u
      /\ \A c \in Node \ {n} : U[c] = T[c]
  OBVIOUS
<1>2. Improves(T[n], u)
  BY DEF Learns
<1> HIDE DEF U
<1>3. \A c, d \in Node : /\ T[c].entry[d].hop_count \in Nat
                         /\ U[c].entry[d].hop_count \in Nat
  <2>1. \A x \in Table, d \in Node : x.entry[d].hop_count \in Nat
    BY DEF Table, Entry
  <2>2. \A c \in Node : T[c] \in Table /\ U[c] \in Table
    BY <1>1
  <2> QED
    BY <2>1, <2>2
<1>4. \A c \in Node : Improves(T[c], U[c])
  BY <1>1, <1>2, ImprovesChain
<1> SUFFICES ASSUME NEW c \in Node, NEW d \in Node,
                    c # d, ~IsStale(U[c], d),
                    U[c].entry[d].next_hop[1] # d
             PROVE  LET x == U[c].entry[d].next_hop[1]
                    IN  /\ ~IsStale(U[x], d)
                        /\ U[x].entry[d].hop_count < U[c].entry[d].hop_count
  BY DEF Closer, U
<1>5. CASE SameRoute(T[c], U[c], d)
  <2> DEFINE x == T[c].entry[d].next_hop[1]
  <2>1. /\ ~IsStale(T[c], d)
        /\ U[c].entry[d].next_hop = T[c].entry[d].next_hop
        /\ U[c].entry[d].hop_count = T[c].entry[d].hop_count
    BY <1>5 DEF SameRoute
  <2>2. x \in Node /\ x # d
    BY <2>1
  <2>3. ~IsStale(T[x], d) /\ T[x].entry[d].hop_count < T[c].entry[d].hop_count
    BY <2>1, <2>2 DEF Closer
  <2> HIDE DEF x
  <2>4. ~IsStale(U[x], d) /\ U[x].entry[d].hop_count <= T[x].entry[d].hop_count
    BY <1>4, <2>2, <2>3 DEF Improves
  <2>5. U[x].entry[d].hop_count < U[c].entry[d].hop_count
    BY <1>3, <2>1, <2>2, <2>3, <2>4
  <2> QED
    BY <2>1, <2>4, <2>5 DEF x
<1>6. CASE ~SameRoute(T[c], U[c], d)
  <2>1. c = n
    BY <1>1, <1>6 DEF SameRoute
  <2>2. d = s /\ u.entry[d].next_hop = hw /\ u.entry[d].hop_count = hops
    BY <1>1, <1>6, <2>1 DEF Learns
  <2>3. m # d /\ U[m] = T[m]
    BY <1>1, <2>1, <2>2
  <2> QED
    BY <1>1, <2>1, <2>2, <2>3
<1> QED
  BY <1>5, <1>6

(* A router that learns nothing stays as close. *)
LEMMA SameRoutesCloser ==
    ASSUME NEW T \in [Node -> Table], Closer(T),
           NEW n \in Node, NEW u \in Table,
           NoNewRoute(T[n], u), KeepsRoutes(T[n], u),
           \A c, d \in Node : c # d /\ ~IsStale(T[c], d) =>
              T[c].entry[d].next_hop[1] \in Node
    PROVE  Closer([T EXCEPT ![n] = u])
<1> DEFINE U == [T EXCEPT ![n] = u]
<1>1. /\ U \in [Node -> Table]
      /\ U[n] = u
      /\ \A c \in Node \ {n} : U[c] = T[c]
  OBVIOUS
<1> HIDE DEF U
<1>2. \A c, d \in Node : ~IsStale(U[c], d) => SameRoute(T[c], U[c], d)
  BY <1>1 DEF NoNewRoute, SameRoute
<1>3. \A c, d \in Node : ~IsStale(T[c], d) => SameRoute(T[c], U[c], d)
  BY <1>1 DEF KeepsRoutes, SameRoute
<1>4. Closer(U)
  <2> SUFFICES ASSUME NEW c \in Node, NEW d \in Node,
                      c # d, ~IsStale(U[c], d),
                      U[c].entry[d].next_hop[1] # d
               PROVE  LET x == U[c].entry[d].next_hop[1]
                      IN  /\ ~IsStale(U[x], d)
                          /\ U[x].entry[d].hop_count < U[c].entry[d].hop_count
    BY DEF Closer
  <2> DEFINE x == T[c].entry[d].next_hop[1]
  <2>1. SameRoute(T[c], U[c], d)
    BY <1>2
  <2>2. x \in Node /\ x # d
    BY <2>1 DEF SameRoute
  <2>3. ~IsStale(T[x], d) /\ T[x].entry[d].hop_count < T[c].entry[d].hop_count
    BY <2>1, <2>2 DEF Closer, SameRoute
  <2>4. x = U[c].entry[d].next_hop[1]
    BY <2>1 DEF SameRoute
  <2> HIDE DEF x
  <2>5. SameRoute(T[x], U[x], d)
    BY <1>3, <2>2, <2>3
  <2>6. ~IsStale(U[x], d) /\ U[x].entry[d].hop_count < U[c].entry[d].hop_count
    BY <2>1, <2>3, <2>5 DEF SameRoute
  <2> QED
    BY <2>4, <2>6
<1> QED
  BY <1>4 DEF U

-----------------------------------------------------------------------------
(* Every step of the routers keeps messages true and routes free of loops. *)

(* What the receiver of a true frame sends and parks is true as well: U is *)
(* what the tables have become when it is done.                            *)
LEMMA AnswersGood ==
    ASSUME IInv, NEW a \in HwAddr, Arrives(a),
           ~IsFlagSet(Incoming(a), "FRC"),
           NEW U \in [Node -> Table],
           LET h == Incoming(a)
           IN  /\ ~IsStale(U[a[1]], h.source_id)
               /\ U[a[1]].entry[h.source_id].hop_count <= h.hop_count + 1
               /\ KeepsRoutes(Learned(a, h), U[a[1]])
    PROVE  Sendable(a, GoodFrames(U), GoodCars(U, a[1]))
<1> DEFINE n == a[1]
           h == Incoming(a)
           t == RequestTable(a, h)
           d == h.destination_id
           hops == t.entry[d].hop_count
           F == GoodFrames(U)
           M == GoodCars(U, n)
<1>1. /\ n \in Node /\ h \in Header
      /\ NoNewRoute(Learned(a, h), t)
      /\ KeepsRoutes(Learned(a, h), U[n])
      /\ ~IsStale(U[n], h.source_id)
      /\ U[n].entry[h.source_id].hop_count <= h.hop_count + 1
      /\ t \in Table
  BY ArrivalFacts, RequestTableFacts DEF NodeOK
<1>2. ~IsFlagSet(h, "FRC")
  OBVIOUS
<1>3. d \in Node /\ hops \in Nat
  BY <1>1 DEF Header, Table, Entry
<1>4. ~IsStale(t, d) => ~IsStale(U[n], d) /\ U[n].entry[d].hop_count = hops
  BY <1>1, <1>3 DEF NoNewRoute, KeepsRoutes, SameRoute
<1> HIDE DEF n, h, t, hops, F, M
<1>5. Known(U, n, h)
  BY <1>1 DEF Known
<1>6. h \in M
  BY <1>1, <1>2, <1>5 DEF M, GoodCars
<1>7. AnsweredRequest(h) \in M
  BY <1>1, <1>2, <1>5
     DEF AnsweredRequest, M, GoodCars, Known, Header, Flag, IsFlagSet
<1>8. ~IsStale(t, d) => RouteReply(h, hops) \in M
  <2> DEFINE r == RouteReply(h, hops)
  <2>1. /\ r \in Header
        /\ r.source_id = d
        /\ r.hop_count = hops
        /\ ~IsFlagSet(r, "FRC")
    BY <1>1, <1>2, <1>3 DEF RouteReply, SwapRoles, Header, Flag, IsFlagSet
  <2> HIDE DEF r
  <2> QED
    BY <1>3, <1>4, <2>1 DEF M, GoodCars, Known, r
<1>9. Car(h) \in M
  BY <1>1, <1>5 DEF Car, M, GoodCars, Known, Header, Flag, IsFlagSet
<1>10. d = n =>
          /\ ErrorReport(h) \in M
          /\ ~IsFlagSet(ErrorReport(h), "FRC")
          /\ Car(ErrorReport(h)) \in M
  <2> DEFINE r == ErrorReport(h)
  <2>1. /\ r \in Header
        /\ r.source_id = d
        /\ ~IsFlagSet(r, "FRC")
    BY <1>1, <1>2 DEF ErrorReport, SwapRoles, Header, Flag, IsFlagSet
  <2> HIDE DEF r
  <2>2. Car(r) \in Header /\ Car(r).source_id = d /\ ~IsFlagSet(Car(r), "FRC")
    BY <2>1 DEF Car, Header, Flag, IsFlagSet
  <2> QED
    BY <2>1, <2>2 DEF M, GoodCars, Known, r
<1> HIDE DEF d
<1>11. \A m \in M : MaySend(n, F, m)
  BY <1>1, SendGood DEF F, M
<1>12. MayRequest(n, F, h)
  BY <1>1, <1>2, RequestGood DEF F
<1>13. d = n => MayRequest(n, F, ErrorReport(h))
  BY <1>1, <1>10, RequestGood DEF F
<1> QED
  BY <1>6, <1>7, <1>8, <1>9, <1>10, <1>11, <1>12, <1>13
     DEF Sendable, n, h, t, d, hops, F, M

CInv == IInv /\ Truthful(rt_table, rxq)

(* Every route but one's own leads to a neighbour. *)
LEMMA NextHopFacts ==
    ASSUME IInv, NEW n \in Node, NEW d \in Node, n # d,
           ~IsStale(rt_table[n], d)
    PROVE  rt_table[n].entry[d].next_hop[1] \in Node
<1>1. rt_table[n].entry[d].next_hop \in HwAddr
  BY DEF IInv, NodeOK, Usable, UsableRoute
<1> QED
  BY <1>1, AddressFacts

LEMMA ReceiveTruthful ==
    ASSUME CInv, Stable, NEW a \in HwAddr, ProcessFrame(a)
    PROVE  Truthful(rt_table', rxq')
<1> DEFINE n == a[1]
           h == Incoming(a)
           f == Head(rxq[a])
           m == f.from[1]
           T == rt_table
<1> PICK U : U = rt_table'
  OBVIOUS
<1>1. IInv /\ Truthful(T, rxq)
  BY DEF CInv
<1>2. Arrives(a)
  BY DEF ProcessFrame, AnswerRequest, RelayRequest, Unpark, ForwardReply,
         ReceiveData, ForwardData, IgnoreOwn
<1>3. IInv'
  BY <1>1, ReceiveIInv
<1>4. /\ n \in Node /\ h \in Header
      /\ NodeOK(n, Learned(a, h))
      /\ Sender(a) \in HwAddr /\ Sender(a)[1] = m /\ m # n /\ m \in Node
  BY <1>1, <1>2, ArrivalFacts, AddressFacts DEF Sender
<1>5. f \in GoodFrames(T)[a]
  BY <1>1, <1>2, TakenWithin DEF Truthful, Arrives
<1>6. f.msg \in Header /\ Known(T, m, f.msg) /\ ~IsFlagSet(f.msg, "FRC")
  BY <1>5 DEF GoodFrames, GoodCars
<1>7. /\ ~IsFlagSet(h, "FRC")
      /\ h.source_id = f.msg.source_id
      /\ h.hop_count = f.msg.hop_count + 1
      /\ h.source_id \in Node
      /\ f.msg.hop_count \in Nat
  BY <1>6 DEF Incoming, Hopped, IsFlagSet, Header
<1>8. Staleness > 0
  BY DEF Stable
<1>9. /\ T \in [Node -> Table] /\ U \in [Node -> Table]
  BY <1>1, <1>3 DEF IInv, TypeOK
<1>10. Learns(T[n], Learned(a, h), h.source_id, Sender(a), h.hop_count + 1)
  BY <1>1, <1>2, <1>7, <1>8, FrameLearns
<1>11. /\ U = [T EXCEPT ![n] = U[n]]
       /\ NoNewRoute(Learned(a, h), U[n])
       /\ KeepsRoutes(Learned(a, h), U[n])
  BY <1>1, <1>2, <1>4, ReceiveOutcome DEF Outcome
<1>12. Learns(T[n], U[n], h.source_id, Sender(a), h.hop_count + 1)
  BY <1>4, <1>7, <1>9, <1>10, <1>11, KeepsLearned DEF NodeOK
<1> HIDE DEF n, h, f, m, T
<1>13. Closer(U)
  <2>1. h.source_id # m =>
          /\ ~IsStale(T[m], h.source_id)
          /\ T[m].entry[h.source_id].hop_count < h.hop_count + 1
    <3> SUFFICES ASSUME h.source_id # m
                 PROVE  /\ ~IsStale(T[m], h.source_id)
                        /\ T[m].entry[h.source_id].hop_count < h.hop_count + 1
      OBVIOUS
    <3> DEFINE hops == T[m].entry[h.source_id].hop_count
    <3>1. hops \in Nat
      <4>1. \A x \in Table, d \in Node : x.entry[d].hop_count \in Nat
        BY DEF Table, Entry
      <4>2. T[m] \in Table
        BY <1>4, <1>9
      <4> QED
        BY <1>7, <4>1, <4>2
    <3>2. ~IsStale(T[m], h.source_id) /\ hops <= f.msg.hop_count + 1
      BY <1>6, <1>7 DEF Known
    <3> HIDE DEF hops
    <3>3. hops < h.hop_count + 1
      BY <1>7, <3>1, <3>2
    <3> QED
      BY <3>2, <3>3 DEF hops
  <2>2. \A c, d \in Node : c # d /\ ~IsStale(T[c], d) =>
          T[c].entry[d].next_hop[1] \in Node
    BY <1>1, NextHopFacts DEF T
  <2>3. Closer(T) /\ h.hop_count + 1 \in Nat /\ U[n] \in Table
    BY <1>1, <1>4, <1>7, <1>9 DEF Truthful
  <2> QED
    BY <1>4, <1>7, <1>9, <1>11, <1>12, <2>1, <2>2, <2>3, LearningKeepsCloser
<1>14. \A c \in Node : Improves(T[c], U[c])
  <2>1. \A c \in Node \ {n} : U[c] = T[c]
    BY <1>11, <1>9
  <2>2. \A c \in Node : T[c] \in Table
    BY <1>9
  <2> QED
    BY <1>12, <2>1, <2>2, ImprovesChain DEF Learns
<1>15. Within(rxq, GoodFrames(U)) /\ \A c \in Node : LotsIn(T[c], GoodCars(U, c))
  BY <1>1, <1>9, <1>14, StillGood, StillInLots DEF Truthful
<1>16. Sendable(a, GoodFrames(U), GoodCars(U, n))
  <2>1. /\ ~IsStale(U[n], h.source_id)
        /\ U[n].entry[h.source_id].hop_count <= h.hop_count + 1
    BY <1>12 DEF Learns
  <2> QED
    BY <1>1, <1>2, <1>7, <1>9, <1>11, <2>1, AnswersGood DEF n, h
<1>17. Outcome(n, Learned(a, h), GoodFrames(U), GoodCars(U, n))
  BY <1>1, <1>4, <1>15, <1>16, ProcessFrameOutcome DEF n, h, T
<1>18. Within(rxq', GoodFrames(U)) /\ LotsIn(U[n], GoodCars(U, n))
  BY <1>17 DEF Outcome
<1>19. \A c \in Node : LotsIn(U[c], GoodCars(U, c))
  BY <1>9, <1>11, <1>15, <1>18
<1> QED
  BY <1>13, <1>18, <1>19 DEF Truthful

LEMMA SendTruthful ==
    ASSUME CInv, Stable, NEW f \in Flow, NEW forced \in Forcing,
           DoProcess(f, forced)
    PROVE  Truthful(rt_table', rxq')
<1> DEFINE n == f.src
           h == Datagram(n, f.sport, f.dst, f.dport, FALSE, Len(accepted) + 1)
           T == rt_table
<1> PICK U : U = rt_table'
  OBVIOUS
<1>1. IInv /\ Truthful(T, rxq)
  BY DEF CInv
<1>2. forced = FALSE /\ FALSE \in BOOLEAN
  BY DEF Stable
<1>3. IInv'
  BY <1>1, SendIInv
<1>4. n \in Node /\ h \in Header /\ ErrorReport(h) \in Header
  BY <1>1, <1>2, ClientFacts
<1>5. DoProcess(f, FALSE)
  BY <1>2
<1>6. T \in [Node -> Table] /\ U \in [Node -> Table]
  BY <1>1, <1>3 DEF IInv, TypeOK
<1>7. /\ h.source_id = n
      /\ f.dst = n => ErrorReport(h).source_id = n
      /\ ~IsFlagSet(h, "FRC") /\ ~IsFlagSet(ErrorReport(h), "FRC")
  BY DEF Datagram, ErrorReport, SwapRoles, IsFlagSet
<1> HIDE DEF h, T
<1>8. /\ Car(h) \in Header /\ Car(h).source_id = n
      /\ ~IsFlagSet(Car(h), "FRC")
      /\ f.dst = n =>
            /\ Car(ErrorReport(h)) \in Header
            /\ Car(ErrorReport(h)).source_id = n
            /\ ~IsFlagSet(Car(ErrorReport(h)), "FRC")
  BY <1>4, <1>7 DEF Car, Header, Flag, IsFlagSet
<1> HIDE DEF n
<1>9. ASSUME NEW x \in [Node -> Table]
      PROVE  /\ h \in GoodCars(x, n) /\ Car(h) \in GoodCars(x, n)
             /\ f.dst = n =>
                   /\ ErrorReport(h) \in GoodCars(x, n)
                   /\ Car(ErrorReport(h)) \in GoodCars(x, n)
  BY <1>4, <1>7, <1>8 DEF GoodCars, Known
<1>10. ASSUME NEW x \in [Node -> Table],
              Within(rxq, GoodFrames(x)), LotsIn(T[n], GoodCars(x, n))
       PROVE  Outcome(n, T[n], GoodFrames(x), GoodCars(x, n))
  <2> DEFINE F == GoodFrames(x)
             M == GoodCars(x, n)
  <2>1. /\ MaySend(n, F, h) /\ MayRequest(n, F, h) /\ Car(h) \in M
        /\ f.dst = n =>
              /\ MaySend(n, F, ErrorReport(h))
              /\ MayRequest(n, F, ErrorReport(h))
              /\ Car(ErrorReport(h)) \in M
    BY <1>4, <1>7, <1>9, SendGood, RequestGood
  <2> HIDE DEF F, M
  <2>2. Within(rxq, F) /\ LotsIn(T[n], M)
    BY <1>10 DEF F, M
  <2>3. Outcome(n, T[n], F, M)
    BY <1>1, <1>2, <1>5, <2>1, <2>2, DoProcessOutcome DEF n, h, T
  <2> QED
    BY <2>3 DEF F, M
<1>11. Outcome(n, T[n], GoodFrames(T), GoodCars(T, n))
  BY <1>1, <1>4, <1>6, <1>10 DEF Truthful
<1>12. /\ U = [T EXCEPT ![n] = U[n]]
       /\ NoNewRoute(T[n], U[n]) /\ KeepsRoutes(T[n], U[n])
  BY <1>11 DEF Outcome, T
<1>13. \A c \in Node : Improves(T[c], U[c])
  <2>1. \A c \in Node \ {n} : U[c] = T[c]
    BY <1>6, <1>12
  <2>2. \A c \in Node : T[c] \in Table /\ U[c] \in Table
    BY <1>6
  <2> QED
    BY <1>4, <1>12, <2>1, <2>2, ImprovesChain
<1>14. Within(rxq, GoodFrames(U)) /\ \A c \in Node : LotsIn(T[c], GoodCars(U, c))
  BY <1>1, <1>6, <1>13, StillGood, StillInLots DEF Truthful, T
<1>15. Outcome(n, T[n], GoodFrames(U), GoodCars(U, n))
  BY <1>4, <1>6, <1>10, <1>14
<1>16. Within(rxq', GoodFrames(U)) /\ \A c \in Node : LotsIn(U[c], GoodCars(U, c))
  BY <1>6, <1>12, <1>14, <1>15 DEF Outcome
<1>17. Closer(U)
  BY <1>1, <1>4, <1>6, <1>12, SameRoutesCloser, NextHopFacts DEF Truthful, T
<1> QED
  BY <1>16, <1>17 DEF Truthful

LEMMA InitTruthful ==
    ASSUME Init
    PROVE  Truthful(rt_table, rxq)
<1>1. \A n, d \in Node :
        /\ rt_table[n].entry[d].parking_lot = <<>>
        /\ d # n => IsStale(rt_table[n], d)
  <2> SUFFICES ASSUME NEW n \in Node, NEW d \in Node
               PROVE  /\ rt_table[n].entry[d].parking_lot = <<>>
                      /\ d # n => IsStale(rt_table[n], d)
    OBVIOUS
  <2>1. rt_table[n] = CreateRoutingTable(n)
    BY DEF Init
  <2>2. CreateRoutingTable(n).entry[d].parking_lot = <<>>
    BY DEF CreateRoutingTable, EmptyEntry
  <2>3. d # n => IsStale(CreateRoutingTable(n), d)
    BY StalenessAssumption DEF CreateRoutingTable, EmptyEntry, IsStale
  <2> QED
    BY <2>1, <2>2, <2>3
<1>2. Within(rxq, GoodFrames(rt_table))
  BY EmptySeq DEF Init, Within
<1>3. \A n \in Node : LotsIn(rt_table[n], GoodCars(rt_table, n))
  BY <1>1, EmptySeq DEF LotsIn
<1>4. Closer(rt_table)
  BY <1>1 DEF Closer
<1> QED
  BY <1>2, <1>3, <1>4 DEF Truthful

(* The inductive invariant, for networks in which routes last. *)
LEMMA LoopInvariance ==
    ASSUME Stable
    PROVE  Spec => []CInv
<1>1. Init => CInv
  BY InitIInv, InitTruthful DEF CInv
<1>2. CInv /\ [Next]_vars => CInv'
  <2> SUFFICES ASSUME CInv, [Next]_vars
               PROVE  Truthful(rt_table', rxq')
    BY StepKeepsIInv DEF CInv
  <2>1. CASE \E f \in Flow, forced \in Forcing : DoProcess(f, forced)
    BY <2>1, SendTruthful
  <2>2. CASE \E a \in HwAddr : ProcessFrame(a)
    BY <2>2, ReceiveTruthful
  <2>3. CASE \E n \in Node : Tick(n) \/ Restart(n)
    BY <2>3 DEF Tick, Restart, Stable, CInv, IInv, TypeOK
  <2>4. CASE \E a \in HwAddr : Lose(a)
    <3> PICK a \in HwAddr : Lose(a)
      BY <2>4
    <3>1. rxq[a] # <<>> /\ rxq' = Taken(a) /\ rt_table' = rt_table
      BY DEF Lose
    <3>2. Within(Taken(a), GoodFrames(rt_table))
      BY <3>1, TakenWithin DEF CInv, Truthful
    <3> QED
      BY <3>1, <3>2 DEF CInv, Truthful
  <2>5. CASE UNCHANGED vars
    BY <2>5 DEF vars, CInv
  <2> QED
    BY <2>1, <2>2, <2>3, <2>4, <2>5 DEF Next
<1> QED
  BY <1>1, <1>2, PTL DEF Spec

(* There are no routing loops: in every network in which nobody forgets a  *)
(* route, each hop along the routes to a destination is nearer to it,      *)
(* whatever messages are lost and in whatever order routers work.          *)
THEOREM RouteCloserHolds == Spec => []RouteCloser
<1>1. CASE Stable
  <2>1. CInv => RouteCloser
    BY DEF CInv, Truthful, Closer, RouteCloser, HasRoute, Hops
  <2> QED
    BY <1>1, <2>1, LoopInvariance, PTL
<1>2. CASE ~Stable
  <2>1. RouteCloser
    BY <1>2 DEF RouteCloser
  <2> QED
    BY <2>1, PTL
<1> QED
  BY <1>1, <1>2
=============================================================================
