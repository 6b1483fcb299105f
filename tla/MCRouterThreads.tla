--------------------------- MODULE MCRouterThreads --------------------------
(* A router with two neighbours on which TLC checks RouterThreads. *)
EXTENDS RouterThreads

CONSTANTS S, X, Y

Neighbours == {1, 2}

(* Messages to X, with and without FRC. *)
Messages == {[destination |-> X, forced |-> b] : b \in BOOLEAN}

ToX == {[destination |-> X, forced |-> FALSE]}

(* Messages to X, and to a process of this node. *)
ToXOrThis == {[destination |-> d, forced |-> FALSE] : d \in {X, S}}

Rep(source, destination, via) ==
    [kind |-> "REP", source |-> source, destination |-> destination,
     via |-> via, forced |-> FALSE, bid |-> 1]

Dat(source, destination, via) ==
    [kind |-> "DAT", source |-> source, destination |-> destination,
     via |-> via, forced |-> FALSE, bid |-> 0]

(* The answer of X, and one to X for a request of another router, which    *)
(* may have to wait for a route to X.                                      *)
Answers == {Rep(X, S, 1), Rep(Y, X, 2)}

(* The answer of X, and a forced message of X to a process of this node,   *)
(* which brings another route to X and may come back as an error.          *)
AnswerAndDat == {Rep(X, S, 1), [Dat(X, S, 2) EXCEPT !.forced = TRUE]}

(* A message that passes through, for a node that nothing is known of. *)
DatInTransit == {Dat(X, Y, 2)}
=============================================================================
