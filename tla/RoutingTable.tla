--------------------------- MODULE RoutingTable ----------------------------
(***************************************************************************)
(* routing_table.c and routing_table_provider.c: the routing table of one  *)
(* router as a value, and its operations as functions of that value.       *)
(*                                                                         *)
(* The C table is a linked list with at most one entry per destination, in *)
(* insertion order, newest first.  Three facts of the list are visible to  *)
(* the rest of the program: whether a destination is listed, what its      *)
(* entry holds, and which entry is the head of the list (purge_entry does  *)
(* nothing to the head).  The value keeps exactly these.                   *)
(*                                                                         *)
(* A timestamp is kept as the age of the entry in units of Staleness: the  *)
(* time elapsed since it was written, counted no further than Staleness.   *)
(* The LONG_MAX timestamp of a router's entry for itself is age -1, the 0  *)
(* timestamp of a new or purged entry is age Staleness.                    *)
(***************************************************************************)
EXTENDS ParkingLot, Integers

CONSTANTS
    Segment,    \* Ethernet segments; an interface is named by its segment
    Attached,   \* the nodes that have an interface on each segment
    Staleness   \* g_staleness: age from which an entry is stale

ASSUME TopologyAssumption ==
    /\ Segment \subseteq Nat \ {0}
    /\ Attached \in [Segment -> SUBSET Node]

ASSUME StalenessAssumption == Staleness \in Nat

(* A hardware address is the interface of a node on a segment. *)
HwAddr == {a \in Node \X Segment : a[1] \in Attached[a[2]]}

NoHwAddr == <<>>    \* a zeroed next_hop
NoInterface == 0    \* a zeroed outgoing_if

Entry ==
    [next_hop : HwAddr \cup {NoHwAddr},
     outgoing_if : Segment \cup {NoInterface},
     hop_count : Nat,
     age : -1..Staleness,
     last_relayed_broadcast : 0..MaxBroadcastId,
     finding_route : BOOLEAN,
     parking_lot : Seq(Header)]

(* What calloc returns; also what a lookup of an unlisted entry shows. *)
EmptyEntry ==
    [next_hop |-> NoHwAddr, outgoing_if |-> NoInterface, hop_count |-> 0,
     age |-> Staleness, last_relayed_broadcast |-> 0,
     finding_route |-> FALSE, parking_lot |-> <<>>]

Table ==
    [listed : SUBSET Node, head : Node, entry : [Node -> Entry]]

CreateRoutingTable(self) ==
    [listed |-> {self}, head |-> self,
     entry |-> [d \in Node |->
                  IF d = self THEN [EmptyEntry EXCEPT !.age = -1]
                              ELSE EmptyEntry]]

IsStale(t, d) == t.entry[d].age >= Staleness

(* Is a route of hops hops through hw better than what the table has? *)
IsBetter(t, d, hw, hops) ==
    \/ IsStale(t, d)
    \/ hops < t.entry[d].hop_count
    \/ hops = t.entry[d].hop_count /\ hw # t.entry[d].next_hop

(* A new entry becomes the head of the list. *)
Insert(t, d) ==
    IF d \in t.listed
    THEN t
    ELSE [t EXCEPT !.listed = @ \cup {d}, !.head = d]

(* Mutant: the timestamp stays. *)
PurgeKeepingTime(t, d) ==
    IF d \in t.listed /\ d # t.head
    THEN [t EXCEPT !.entry[d] =
            [@ EXCEPT !.next_hop = NoHwAddr, !.outgoing_if = NoInterface,
                      !.hop_count = 0]]
    ELSE t

(* Forgets the route to d, but not that it is being searched for, nor what *)
(* is parked, nor the last relayed id; the head of the list is skipped.    *)
PurgeEntry(t, d) ==
    IF d \in t.listed /\ d # t.head
    THEN [t EXCEPT !.entry[d] =
            [@ EXCEPT !.next_hop = NoHwAddr, !.outgoing_if = NoInterface,
                      !.hop_count = 0, !.age = Staleness]]
    ELSE t

QueryTable(t, d) ==
    IF ~IsStale(t, d) THEN t
    ELSE IF d \notin t.listed THEN Insert(t, d)
    ELSE PurgeEntry(t, d)

UpdateTable(t, d, hw, interface, hops) ==
    IF IsBetter(t, d, hw, hops)
    THEN Insert([t EXCEPT !.entry[d] =
                   [@ EXCEPT !.next_hop = hw, !.outgoing_if = interface,
                             !.hop_count = hops, !.age = 0]], d)
    ELSE t

(* Mutant: a copy of what was relayed is relayed again. *)
RelayAgain(t, d, bid) == t.entry[d].last_relayed_broadcast <= bid

ShouldRelayBroadcast(t, d, bid) == t.entry[d].last_relayed_broadcast < bid

(* The side effect of should_relay_broadcast. *)
RecordRelay(t, d, bid) ==
    IF ShouldRelayBroadcast(t, d, bid)
    THEN [t EXCEPT !.entry[d].last_relayed_broadcast = bid]
    ELSE t

(* park_msg, in the lot of the entry for the message's destination. *)
ParkMsg(t, h) ==
    [Insert(t, h.destination_id) EXCEPT
        !.entry[h.destination_id].parking_lot = Park(@, h)]

(* Mutants: what was sent stays parked; the search is never over. *)
ReleaseKeepingLot(t, d) == [t EXCEPT !.entry[d].finding_route = FALSE]

ReleaseStillFinding(t, d) == [t EXCEPT !.entry[d].parking_lot = <<>>]

(* The search for d is over and what was parked for it has been sent. *)
Release(t, d) ==
    [t EXCEPT !.entry[d].parking_lot = <<>>, !.entry[d].finding_route = FALSE]

(* One unit of time passes for every entry that carries a real timestamp.  *)
Aged(t) ==
    [t EXCEPT !.entry =
        [d \in Node |->
            IF t.entry[d].age \in 0..(Staleness - 1)
            THEN [t.entry[d] EXCEPT !.age = @ + 1]
            ELSE t.entry[d]]]
=============================================================================
