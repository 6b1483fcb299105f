----------------------------- MODULE MsgHeader -----------------------------
(***************************************************************************)
(* The header every ODR message carries (msg_header.h, msg_header.c) and   *)
(* the operations the router applies to it.  A header keeps the fields of  *)
(* the C struct; the payload is reduced to the number of the application   *)
(* datagram it belongs to (0 for REQ and REP, which have no payload).      *)
(***************************************************************************)
EXTENDS Naturals

CONSTANTS
    Node,           \* canonical IP addresses, one per ODR router
    MaxBroadcastId  \* largest broadcast id (2^32 - 1 in the code)

ASSUME BroadcastIdAssumption == MaxBroadcastId \in Nat \ {0}

Flag == {"REQ", "REP", "DAT", "FRC", "ERR"}

Header ==
    [source_id : Node, destination_id : Node,
     source_port : Nat, destination_port : Nat,
     broadcast_id : 0..MaxBroadcastId,
     flags : SUBSET Flag,
     hop_count : Nat,
     payload : Nat]

IsFlagSet(h, f) == f \in h.flags

(* ++g_broadcast_id of an unsigned counter, skipping 0. *)
NextBroadcastId(b) == IF b = MaxBroadcastId THEN 1 ELSE b + 1

(* The REQ that broadcast_req builds on a zeroed header. *)
RouteRequest(source, destination, bid, forced) ==
    [source_id |-> source, destination_id |-> destination,
     source_port |-> 0, destination_port |-> 0,
     broadcast_id |-> bid,
     flags |-> IF forced THEN {"REQ", "FRC"} ELSE {"REQ"},
     hop_count |-> 0,
     payload |-> 0]

(* The DAT that a client hands to its router, source filled in. *)
Datagram(source, sport, destination, dport, forced, id) ==
    [source_id |-> source, destination_id |-> destination,
     source_port |-> sport, destination_port |-> dport,
     broadcast_id |-> 0,
     flags |-> IF forced THEN {"DAT", "FRC"} ELSE {"DAT"},
     hop_count |-> 0,
     payload |-> id]

SwapRoles(h) ==
    [h EXCEPT !.source_id = h.destination_id,
              !.destination_id = h.source_id,
              !.source_port = h.destination_port,
              !.destination_port = h.source_port]

(* Mutant: the receiver forgets to count the hop. *)
UncountedHop(h) == h

(* Counting a hop at the receiver. *)
Hopped(h) == [h EXCEPT !.hop_count = @ + 1]

(* Mutant: takes back the hop that the requester will count again. *)
ReplyOneHopLess(h, hops) ==
    [SwapRoles(h) EXCEPT !.flags = (@ \cup {"REP"}) \ {"REQ"},
                         !.hop_count = hops - 1]

(* Mutant: the REQ flag stays. *)
ReplyStillRequest(h, hops) ==
    [SwapRoles(h) EXCEPT !.flags = @ \cup {"REP"}, !.hop_count = hops]

(* The REP that answers REQ h from a table entry of the given hop count. *)
RouteReply(h, hops) ==
    [SwapRoles(h) EXCEPT !.flags = (@ \cup {"REP"}) \ {"REQ"},
                         !.hop_count = hops]

(* The copy of an answered REQ that is flooded on, so that others learn. *)
AnsweredRequest(h) == [h EXCEPT !.flags = @ \cup {"REP"}]

(* Mutant: the error looks like data. *)
UnmarkedError(h) == [SwapRoles(h) EXCEPT !.flags = @ \cup {"DAT"}]

(* The error that goes back to the sender of DAT h. *)
ErrorReport(h) == [SwapRoles(h) EXCEPT !.flags = @ \cup {"ERR", "DAT"}]
=============================================================================
