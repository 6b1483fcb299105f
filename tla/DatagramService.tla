-------------------------- MODULE DatagramService --------------------------
(***************************************************************************)
(* What a network of ODR routers promises the applications on top of it:   *)
(* an unreliable datagram service that tells the sender when nobody reads  *)
(* the destination port.                                                   *)
(*                                                                         *)
(* A datagram that was sent is in transit until it is delivered, turned    *)
(* into an error that travels back, or lost; an error is returned to the   *)
(* sender or lost.  It is delivered, or returned, at most once, and to no  *)
(* process but the one it is for.  Order is not promised.                  *)
(***************************************************************************)
EXTENDS Naturals, Sequences

CONSTANTS
    Flow,       \* who may send to whom: [src, sport, dst, dport]
    Open,       \* the <<node, port>> that some process reads
    Permanent   \* those of Open that are known to their router at all times

VARIABLES
    sent,       \* the flows of the datagrams sent, in the order of sending
    fate,       \* what has become of each datagram
    inbox       \* what processes have received: [id, node, port, err]

Fate == {"transit", "error", "delivered", "returned", "lost"}

Final == {"delivered", "returned", "lost"}

(* The fates a datagram may have after fate x, one step later. *)
Moves(x) ==
    CASE x = "transit" -> {"transit", "error", "delivered", "lost"}
      [] x = "error"   -> {"error", "returned", "lost"}
      [] x \in Final   -> {x}

Was(id) == IF id \in DOMAIN fate THEN fate[id] ELSE "transit"

Becomes(id, x) == Was(id) # x /\ fate'[id] = x

Delivery(id) ==
    [id |-> id, node |-> sent'[id].dst, port |-> sent'[id].dport, err |-> FALSE]

Return(id) ==
    [id |-> id, node |-> sent'[id].src, port |-> sent'[id].sport, err |-> TRUE]

Init == sent = <<>> /\ fate = <<>> /\ inbox = {}

(* A step may send one datagram, and may move any number of datagrams: a   *)
(* router that stops loses all it holds.                                   *)
Next ==
    /\ sent' = sent \/ \E f \in Flow : sent' = Append(sent, f)
    /\ DOMAIN fate' = DOMAIN sent'
    /\ \A id \in DOMAIN sent' :
          /\ fate'[id] \in Moves(Was(id))
          /\ Becomes(id, "delivered") =>
                <<sent'[id].dst, sent'[id].dport>> \in Open
          /\ Becomes(id, "error") =>
                <<sent'[id].dst, sent'[id].dport>> \notin Permanent
    /\ inbox' = inbox
          \cup {Delivery(id) :
                  id \in {i \in DOMAIN sent' : Becomes(i, "delivered")}}
          \cup {Return(id) :
                  id \in {i \in DOMAIN sent' : Becomes(i, "returned")}}

Spec == Init /\ [][Next]_<<sent, fate, inbox>>
=============================================================================
