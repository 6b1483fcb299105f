-------------------------------- MODULE Odr --------------------------------
(***************************************************************************)
(* A network of ODR routers.  Each router discovers routes on demand with  *)
(* flooded REQ and unicast REP messages, keeps them in a routing table     *)
(* whose entries go stale, parks the messages it has no route for, and     *)
(* forwards application datagrams (DAT) hop by hop.                        *)
(*                                                                         *)
(* One step of a router is one whole handler: the frontend's processing of *)
(* a client's message (__do_process), or the backend's processing of one   *)
(* Ethernet frame (process_incoming_ethernet_frame).  The frame receive    *)
(* action is split by the branch the code takes.                           *)
(***************************************************************************)
EXTENDS RoutingTable, FiniteSets

CONSTANTS
    ServerPort,     \* the port the server has from the start
    Alive,          \* <<node, port>>: a process is behind that port
    Flow,           \* who may send to whom: [src, sport, dst, dport]
    Forcing,        \* values of the client's force_route_discovery flag
    MaxHopCount,    \* bound: frames that have come further are not taken
    MaxSends,       \* bound on the datagrams that clients send
    MaxTicks,       \* bound on the passing of time, which makes routes stale
    MaxLosses,      \* bound on the frames that the network loses
    MaxRestarts     \* bound on the routers that are killed and restarted

ASSUME FlowAssumption ==
    /\ ServerPort \in Nat
    /\ Alive \subseteq Node \X Nat
    /\ Flow \subseteq [src : Node, sport : Nat, dst : Node, dport : Nat]
    /\ Forcing \subseteq BOOLEAN

ASSUME BoundAssumption ==
    /\ MaxHopCount \in Nat
    /\ MaxSends \in Nat
    /\ MaxTicks \in Nat
    /\ MaxLosses \in Nat
    /\ MaxRestarts \in Nat

VARIABLES
    rt_table,       \* each router's routing table
    g_broadcast_id, \* each router's last broadcast id
    client_list,    \* ports registered with each router
    rxq,            \* frames waiting at each interface, oldest first
    delivered,      \* datagrams handed to local clients
    accepted,       \* history: the flows of the datagrams sent, by number
    ticks,          \* times that time has passed at some router so far
    losses,         \* frames lost so far
    restarts        \* restarts so far

vars == <<rt_table, g_broadcast_id, client_list, rxq, delivered, accepted,
          ticks, losses, restarts>>

environment == <<ticks, losses, restarts>>

Frame == [from : HwAddr, msg : Header]

Delivery == [id : Nat, node : Node, port : Nat, err : BOOLEAN]

Interfaces(n) == {s \in Segment : n \in Attached[s]}

HaveOnlyOneInterface(n) == Cardinality(Interfaces(n)) = 1

-----------------------------------------------------------------------------
(* What a router sends is a sequence of frames for every interface.        *)

(* socket_l2_flood_msg: out of every interface except those in except.     *)
Flood(n, except, h) ==
    [a \in HwAddr |->
        IF a[1] # n /\ a[2] \in Interfaces(n) \ except
        THEN << [from |-> <<n, a[2]>>, msg |-> h] >>
        ELSE <<>>]

(* socket_l2_send_unicast: messages hs out of interface s to address hw.   *)
Unicast(n, s, hw, hs) ==
    [a \in HwAddr |->
        IF a = hw /\ a[2] = s /\ s \in Interfaces(n)
        THEN [i \in 1..Len(hs) |-> [from |-> <<n, s>>, msg |-> hs[i]]]
        ELSE <<>>]

Sent(q, out) == [a \in HwAddr |-> q[a] \o out[a]]

Taken(a) == [rxq EXCEPT ![a] = Tail(@)]

-----------------------------------------------------------------------------
(* broadcast_req at router n, whose table and queues are t and q so far.   *)
(* While a search for d is on, nothing is sent, not even a forced REQ.     *)
BroadcastReq(n, t, q, d, forced, except) ==
    IF t.entry[d].finding_route
    THEN /\ rt_table' = [rt_table EXCEPT ![n] = t]
         /\ rxq' = q
         /\ UNCHANGED g_broadcast_id
    ELSE LET bid == NextBroadcastId(g_broadcast_id[n])
         IN  /\ rt_table' = [rt_table EXCEPT
                    ![n] = [t EXCEPT !.entry[d].finding_route = TRUE]]
             /\ rxq' = Sent(q, Flood(n, except, RouteRequest(n, d, bid, forced)))
             /\ g_broadcast_id' = [g_broadcast_id EXCEPT ![n] = bid]

(* Send h along the table's route, or park it and search for one. *)
SendOrPark(n, t, q, h, except) ==
    LET d == h.destination_id
    IN  \/ /\ ~IsStale(t, d)
           /\ rt_table' = [rt_table EXCEPT ![n] = t]
           /\ rxq' = Sent(q, Unicast(n, t.entry[d].outgoing_if,
                                     t.entry[d].next_hop, <<h>>))
           /\ UNCHANGED g_broadcast_id
        \/ /\ IsStale(t, d)
           /\ BroadcastReq(n, ParkMsg(t, h), q, d, IsFlagSet(h, "FRC"), except)

(* odr_route_msg: messages for this very node are silently dropped. *)
RouteMsg(n, t, q, h) ==
    \/ /\ h.destination_id = n
       /\ rt_table' = [rt_table EXCEPT ![n] = t]
       /\ rxq' = q
       /\ UNCHANGED g_broadcast_id
    \/ /\ h.destination_id # n
       /\ SendOrPark(n, QueryTable(t, h.destination_id), q, h, {})

(* route_to_self succeeds: the port is registered and someone reads it. *)
CanDeliver(n, ports, h) ==
    /\ h.destination_port \in ports
    /\ <<n, h.destination_port>> \in Alive

Deliver(n, h) ==
    delivered' = delivered \cup
        {[id |-> h.payload, node |-> n, port |-> h.destination_port,
          err |-> IsFlagSet(h, "ERR")]}

(* odr_route_data of a DAT for this node: deliver it, or tell the sender   *)
(* that it cannot be delivered, unless it is such an error itself.         *)
RouteToSelf(n, t, q, h, ports) ==
    \/ /\ CanDeliver(n, ports, h)
       /\ Deliver(n, h)
       /\ rt_table' = [rt_table EXCEPT ![n] = t]
       /\ rxq' = q
       /\ UNCHANGED g_broadcast_id
    \/ /\ ~CanDeliver(n, ports, h)
       /\ UNCHANGED delivered
       /\ IF IsFlagSet(h, "ERR")
          THEN /\ rt_table' = [rt_table EXCEPT ![n] = t]
               /\ rxq' = q
               /\ UNCHANGED g_broadcast_id
          ELSE RouteMsg(n, t, q, ErrorReport(h))

-----------------------------------------------------------------------------
Init ==
    /\ rt_table = [n \in Node |-> CreateRoutingTable(n)]
    /\ g_broadcast_id = [n \in Node |-> 0]
    /\ client_list = [n \in Node |-> {ServerPort}]
    /\ rxq = [a \in HwAddr |-> <<>>]
    /\ delivered = {}
    /\ accepted = <<>>
    /\ ticks = 0
    /\ losses = 0
    /\ restarts = 0

(* A client calls send_msg and the frontend processes the message: the     *)
(* client is registered, a forced message purges the route, then the       *)
(* message is routed.                                                      *)
DoProcess(f, forced) ==
    LET n == f.src
        h == Datagram(n, f.sport, f.dst, f.dport, forced, Len(accepted) + 1)
        t == IF forced THEN PurgeEntry(rt_table[n], f.dst) ELSE rt_table[n]
        ports == client_list[n] \cup {f.sport}
    IN  /\ Len(accepted) < MaxSends
        /\ accepted' = Append(accepted, f)
        /\ client_list' = [client_list EXCEPT ![n] = ports]
        /\ \/ f.dst = n /\ RouteToSelf(n, t, rxq, h, ports)
           \/ f.dst # n /\ RouteMsg(n, t, rxq, h) /\ UNCHANGED delivered
        /\ UNCHANGED environment

-----------------------------------------------------------------------------
(* What every frame does to the table before it is dispatched.             *)

Incoming(a) == Hopped(Head(rxq[a]).msg)

Sender(a) == Head(rxq[a]).from

(* A FRC frame erases the routes to its ends, a REP only that to its       *)
(* source.                                                                 *)
ForcePurged(t, h) ==
    LET p == IF IsFlagSet(h, "REP") THEN t ELSE PurgeEntry(t, h.destination_id)
    IN  IF IsFlagSet(h, "FRC") THEN PurgeEntry(p, h.source_id) ELSE t

(* extract_base_info: a route to the source through the frame's sender. *)
BetterRoute(a, h) ==
    IsBetter(ForcePurged(rt_table[a[1]], h), h.source_id, Sender(a),
             h.hop_count + 1)

LearnSource(a, h) ==
    UpdateTable(ForcePurged(rt_table[a[1]], h), h.source_id, Sender(a), a[2],
                h.hop_count + 1)

(* The table when the frame is dispatched. *)
Learned(a, h) == QueryTable(LearnSource(a, h), h.destination_id)

Arrives(a) == rxq[a] # <<>> /\ Head(rxq[a]).msg.hop_count < MaxHopCount

IsRequest(a, h) == IsFlagSet(h, "REQ") /\ h.source_id # a[1]

IsReply(a, h) == ~IsRequest(a, h) /\ IsFlagSet(h, "REP")

IsData(a, h) == ~IsRequest(a, h) /\ ~IsReply(a, h) /\ IsFlagSet(h, "DAT")

(* process_incoming_req looks the source up once more. *)
RequestTable(a, h) == QueryTable(Learned(a, h), h.source_id)

(* A REQ for a destination this router has a route to, or is: the REQ goes *)
(* on, marked as answered, when it brought a better route to its source;   *)
(* and it is answered unless it is so marked.                              *)
AnswerRequest(a) ==
    LET n == a[1]
        h == Incoming(a)
        t == RequestTable(a, h)
        onward == /\ BetterRoute(a, h)
                  /\ ~IsFlagSet(h, "FRC")
                  /\ h.destination_id # n
        answer == RouteReply(h, t.entry[h.destination_id].hop_count)
        flooded == IF onward
                   THEN Sent(Taken(a), Flood(n, {a[2]}, AnsweredRequest(h)))
                   ELSE Taken(a)
    IN  /\ Arrives(a)
        /\ IsRequest(a, h)
        /\ ~IsStale(t, h.destination_id)
        /\ rt_table' = [rt_table EXCEPT ![n] = t]
        /\ rxq' = IF IsFlagSet(h, "REP")
                  THEN flooded
                  ELSE Sent(flooded, Unicast(n, a[2], Sender(a), <<answer>>))
        /\ UNCHANGED <<g_broadcast_id, client_list, delivered, accepted>>
        /\ UNCHANGED environment

(* relay_broadcast: a REQ this router cannot answer goes on when it is new *)
(* or brought a better route; the id is recorded only with two interfaces. *)
RelayRequest(a) ==
    LET n == a[1]
        h == Incoming(a)
        t == RequestTable(a, h)
        onward == \/ ShouldRelayBroadcast(t, h.source_id, h.broadcast_id)
                  \/ BetterRoute(a, h)
    IN  /\ Arrives(a)
        /\ IsRequest(a, h)
        /\ IsStale(t, h.destination_id)
        /\ IF HaveOnlyOneInterface(n)
           THEN /\ rt_table' = [rt_table EXCEPT ![n] = t]
                /\ rxq' = Taken(a)
           ELSE /\ rt_table' = [rt_table EXCEPT
                        ![n] = RecordRelay(t, h.source_id, h.broadcast_id)]
                /\ rxq' = IF onward
                          THEN Sent(Taken(a), Flood(n, {a[2]}, h))
                          ELSE Taken(a)
        /\ UNCHANGED <<g_broadcast_id, client_list, delivered, accepted>>
        /\ UNCHANGED environment

(* A REP for this router: everything parked for its source leaves through  *)
(* the interface, and to the neighbour, that the REP came from.            *)
Unpark(a) ==
    LET n == a[1]
        h == Incoming(a)
        t == Learned(a, h)
        d == h.source_id
    IN  /\ Arrives(a)
        /\ IsReply(a, h)
        /\ h.destination_id = n
        /\ rt_table' = [rt_table EXCEPT ![n] = Release(t, d)]
        /\ rxq' = Sent(Taken(a),
                       Unicast(n, a[2], Sender(a), t.entry[d].parking_lot))
        /\ UNCHANGED <<g_broadcast_id, client_list, delivered, accepted>>
        /\ UNCHANGED environment

(* A REP for another router travels along this router's route, or waits    *)
(* here while that is searched for on the other interfaces.                *)
ForwardReply(a) ==
    LET n == a[1]
        h == Incoming(a)
    IN  /\ Arrives(a)
        /\ IsReply(a, h)
        /\ h.destination_id # n
        /\ SendOrPark(n, Learned(a, h), Taken(a), h, {a[2]})
        /\ UNCHANGED <<client_list, delivered, accepted>>
        /\ UNCHANGED environment

(* process_incoming_dat for a local client. *)
ReceiveData(a) ==
    LET n == a[1]
        h == Incoming(a)
    IN  /\ Arrives(a)
        /\ IsData(a, h)
        /\ h.destination_id = n
        /\ RouteToSelf(n, Learned(a, h), Taken(a), h, client_list[n])
        /\ UNCHANGED <<client_list, accepted>>
        /\ UNCHANGED environment

(* process_incoming_dat for another router. *)
ForwardData(a) ==
    LET n == a[1]
        h == Incoming(a)
    IN  /\ Arrives(a)
        /\ IsData(a, h)
        /\ h.destination_id # n
        /\ RouteMsg(n, Learned(a, h), Taken(a), h)
        /\ UNCHANGED <<client_list, delivered, accepted>>
        /\ UNCHANGED environment

(* A router's own REQ that comes back unanswered only updates the table. *)
IgnoreOwn(a) ==
    LET n == a[1]
        h == Incoming(a)
    IN  /\ Arrives(a)
        /\ ~IsRequest(a, h) /\ ~IsReply(a, h) /\ ~IsData(a, h)
        /\ rt_table' = [rt_table EXCEPT ![n] = Learned(a, h)]
        /\ rxq' = Taken(a)
        /\ UNCHANGED <<g_broadcast_id, client_list, delivered, accepted>>
        /\ UNCHANGED environment

(* process_incoming_ethernet_frame on the frame at interface a. *)
ProcessFrame(a) ==
    \/ AnswerRequest(a) \/ RelayRequest(a)
    \/ Unpark(a) \/ ForwardReply(a)
    \/ ReceiveData(a) \/ ForwardData(a)
    \/ IgnoreOwn(a)

-----------------------------------------------------------------------------
(* The environment. *)

(* Time passes at router n. *)
Tick(n) ==
    /\ ticks < MaxTicks
    /\ rt_table' = [rt_table EXCEPT ![n] = Aged(@)]
    /\ ticks' = ticks + 1
    /\ UNCHANGED <<g_broadcast_id, client_list, rxq, delivered, accepted,
                   losses, restarts>>

(* Ethernet is unreliable and socket buffers overflow. *)
Lose(a) ==
    /\ losses < MaxLosses
    /\ rxq[a] # <<>>
    /\ rxq' = Taken(a)
    /\ losses' = losses + 1
    /\ UNCHANGED <<rt_table, g_broadcast_id, client_list, delivered, accepted,
                   ticks, restarts>>

(* The router process of n is killed and started again: nothing it knew is *)
(* kept on disk, its sockets are new.                                      *)
Restart(n) ==
    /\ restarts < MaxRestarts
    /\ rt_table' = [rt_table EXCEPT ![n] = CreateRoutingTable(n)]
    /\ g_broadcast_id' = [g_broadcast_id EXCEPT ![n] = 0]
    /\ client_list' = [client_list EXCEPT ![n] = {ServerPort}]
    /\ rxq' = [a \in HwAddr |-> IF a[1] = n THEN <<>> ELSE rxq[a]]
    /\ restarts' = restarts + 1
    /\ UNCHANGED <<delivered, accepted, ticks, losses>>

-----------------------------------------------------------------------------
Next ==
    \/ \E f \in Flow, forced \in Forcing : DoProcess(f, forced)
    \/ \E a \in HwAddr : ProcessFrame(a)
    \/ \E n \in Node : Tick(n)
    \/ \E a \in HwAddr : Lose(a)
    \/ \E n \in Node : Restart(n)

Spec == Init /\ [][Next]_vars

(* The backend thread reads every interface that has a frame in turn, so   *)
(* no frame waits for ever.  Clients, time and the network owe nothing.    *)
Fairness == \A a \in HwAddr : WF_vars(ProcessFrame(a))

FairSpec == Spec /\ Fairness

-----------------------------------------------------------------------------
(* Properties. *)

TypeOK ==
    /\ rt_table \in [Node -> Table]
    /\ g_broadcast_id \in [Node -> 0..MaxBroadcastId]
    /\ client_list \in [Node -> SUBSET Nat]
    /\ rxq \in [HwAddr -> Seq(Frame)]
    /\ delivered \subseteq Delivery
    /\ accepted \in Seq(Flow)
    /\ ticks \in Nat
    /\ losses \in Nat
    /\ restarts \in Nat

Lot(n, d) == rt_table[n].entry[d].parking_lot

Finding(n, d) == rt_table[n].entry[d].finding_route

(* Messages wait for a route exactly while it is being searched for: a     *)
(* router never keeps a message without having asked for a route, and      *)
(* never goes on searching when nothing waits (park_msg, broadcast_req and *)
(* the unparking in process_incoming_rep run in different handlers).       *)
ParkedIffFinding ==
    \A n, d \in Node : Lot(n, d) # <<>> <=> Finding(n, d)

(* A lot holds messages for its own destination only, never for the router *)
(* itself, no two with the same broadcast id, none marked FRC: that mark   *)
(* would erase, at every hop, the route the message has just waited for.   *)
LotWellFormed ==
    \A n, d \in Node :
        LET lot == Lot(n, d)
        IN  /\ lot # <<>> => n # d
            /\ \A i \in DOMAIN lot :
                  /\ lot[i].destination_id = d
                  /\ ~IsFlagSet(lot[i], "FRC")
                  /\ \A j \in DOMAIN lot : SameCar(lot[i], lot[j]) => i = j

HasRoute(n, d) == ~IsStale(rt_table[n], d)

(* A route that is not stale can be used: it leads out of an interface of  *)
(* this router to a neighbour on that interface.  A purge that forgot a    *)
(* field, or an update that forgot one, would leave a route to nowhere.    *)
FreshRouteUsable ==
    \A n, d \in Node :
        n # d /\ HasRoute(n, d) =>
            LET e == rt_table[n].entry[d]
            IN  /\ e.next_hop \in HwAddr
                /\ e.next_hop[1] # n
                /\ e.next_hop[2] = e.outgoing_if
                /\ e.outgoing_if \in Interfaces(n)

(* The conditions under which routes are neither forgotten nor go stale. *)
Stable ==
    /\ Staleness > 0
    /\ MaxTicks = 0
    /\ Forcing \subseteq {FALSE}
    /\ MaxRestarts = 0

Hops(n, d) == rt_table[n].entry[d].hop_count

(* No routing loops: following routes, the hop count falls with every hop, *)
(* until the destination is reached.                                       *)
RouteCloser ==
    Stable => \A n, d \in Node :
        n # d /\ HasRoute(n, d) =>
            LET m == rt_table[n].entry[d].next_hop[1]
            IN  m # d => HasRoute(m, d) /\ Hops(m, d) < Hops(n, d)

(* Where the copies of datagram id, or of its error, are on their way. *)
Queued(id) ==
    UNION {{<<a, i>> : i \in {j \in DOMAIN rxq[a] : rxq[a][j].msg.payload = id}}
              : a \in HwAddr}

Parked(id) ==
    UNION {{<<p, i>> : i \in {j \in DOMAIN Lot(p[1], p[2]) :
                                 Lot(p[1], p[2])[j].payload = id}}
              : p \in Node \X Node}

ArrivedAt(id) == {r \in delivered : r.id = id}

CopiesOf(id) ==
    Cardinality(Queued(id)) + Cardinality(Parked(id))
        + Cardinality(ArrivedAt(id))

(* A datagram, with the error that answers it, exists at most once: on the *)
(* wire, parked, or delivered.  A router that keeps a parked message after *)
(* sending it would deliver it twice.                                      *)
AtMostOneCopy == \A id \in DOMAIN accepted : CopiesOf(id) <= 1

(* No datagram vanishes while the network loses nothing and no router      *)
(* restarts.  The documentation says of the harshest setting, staleness 0, *)
(* that the code routes the DAT messages successfully.                     *)
NoDatDropped == \A id \in DOMAIN accepted : CopiesOf(id) >= 1

Answered(id) == ArrivedAt(id) # {}

(* What the applications see is a DatagramService. *)
InError(id) ==
    \/ \E q \in Queued(id) : IsFlagSet(rxq[q[1]][q[2]].msg, "ERR")
    \/ \E q \in Parked(id) :
          IsFlagSet(Lot(q[1][1], q[1][2])[q[2]], "ERR")

FateOf(id) ==
    IF \E r \in ArrivedAt(id) : ~r.err THEN "delivered"
    ELSE IF \E r \in ArrivedAt(id) : r.err THEN "returned"
    ELSE IF InError(id) THEN "error"
    ELSE IF Queued(id) # {} \/ Parked(id) # {} THEN "transit"
    ELSE "lost"

Service ==
    INSTANCE DatagramService WITH
        Open <- Alive,
        Permanent <- {e \in Alive : e[2] = ServerPort},
        sent <- accepted,
        fate <- [id \in DOMAIN accepted |-> FateOf(id)],
        inbox <- delivered

(* Every run of the routers is one of the service: a datagram is handed at *)
(* most once to the process it is for, an error only to the process that   *)
(* sent it and only when the destination could not be reached.             *)
ImplementsService == Service!Spec

(* Another datagram between the same two nodes was sent later. *)
Superseded(id) ==
    \E j \in DOMAIN accepted :
        /\ j > id
        /\ accepted[j].src = accepted[id].src
        /\ accepted[j].dst = accepted[id].dst

(* The newest datagram between two nodes is in the end delivered, or its   *)
(* sender is told that it cannot be, when nothing is lost, routes last and *)
(* the destination is not switched off.                                    *)
NewestDatAnswered ==
    <>[](\A id \in DOMAIN accepted :
            \/ Answered(id) \/ Superseded(id)
            \/ Interfaces(accepted[id].dst) = {})

(* Floods die out: once clients stop sending, the network falls silent. *)
Quiesces == <>[](\A a \in HwAddr : rxq[a] = <<>>)

(* "Reads an incoming ethernet frame and sends appropriate reply for it":  *)
(* a REQ that reaches its destination, and that nobody has answered yet,   *)
(* is answered at once.                                                    *)
AwaitsReply(a) ==
    /\ rxq[a] # <<>>
    /\ LET h == Head(rxq[a]).msg
       IN  h.destination_id = a[1] /\ h.flags \cap {"REQ", "REP"} = {"REQ"}

RepliesSent(a) ==
    LET back == Sender(a)
        m == Len(rxq[back])
    IN  /\ Len(rxq'[back]) > m
        /\ IsFlagSet(rxq'[back][m + 1].msg, "REP")

DestinationReplies ==
    [][\A a \in HwAddr :
          AwaitsReply(a) /\ ProcessFrame(a) => RepliesSent(a)]_vars
=============================================================================
