------------------------------- MODULE MCOdr -------------------------------
(* Small networks on which TLC checks Odr. *)
EXTENDS Odr

CONSTANTS A, B, C, D, E

Two == {1, 2}
Three == {1, 2, 3}

(* A - B - C: B relays between two segments. *)
Line == [s \in {1, 2} |-> IF s = 1 THEN {A, B} ELSE {B, C}]

(* Every two routers have a wire of their own: floods meet themselves. *)
Triangle ==
    [s \in {1, 2, 3} |->
        IF s = 1 THEN {A, B} ELSE IF s = 2 THEN {B, C} ELSE {C, A}]

(* B, C and D share a wire, and C and D have another one of their own: the *)
(* floods of A can go round without A.                                     *)
Kite ==
    [s \in {1, 2, 3} |->
        IF s = 1 THEN {A, B} ELSE IF s = 2 THEN {B, C, D} ELSE {C, D}]

(* The servers and clients of A and C are up; B has no server, and port 7   *)
(* of C is nobody's.                                                       *)
Processes == {<<C, 1>>, <<A, 3>>, <<A, 4>>, <<C, 3>>, <<A, 1>>}

ToServer == [src |-> A, sport |-> 3, dst |-> C, dport |-> 1]
FromServer == [src |-> C, sport |-> 1, dst |-> A, dport |-> 3]
Opposite == [src |-> C, sport |-> 3, dst |-> A, dport |-> 1]
ToNobody == [src |-> A, sport |-> 4, dst |-> C, dport |-> 7]

(* E is switched off: nobody answers, and requests come back on a cycle. *)
ToAbsent == [src |-> A, sport |-> 4, dst |-> E, dport |-> 1]

NextDoor == [src |-> A, sport |-> 4, dst |-> B, dport |-> 7]
AtHome == [src |-> A, sport |-> 3, dst |-> A, dport |-> 7]

ForthAndBack == {ToServer, FromServer}
BothWays == {ToServer, Opposite}
Neighbours == {ToServer, ToNobody, AtHome}
PresentOrAbsent == {ToServer, NextDoor, ToAbsent}
AlsoAbsent == {ToServer, FromServer, ToAbsent}
Everyone == {ToServer, FromServer, ToNobody}

ForcedOrNot == {TRUE, FALSE}
NotForced == {FALSE}
=============================================================================
