---------------------------- MODULE ParkingLot -----------------------------
(***************************************************************************)
(* odr_parking_lot.c: the messages of one routing table entry that wait    *)
(* for a route.  A lot is the linked list of cars, newest first; a car is  *)
(* the header of the message parked in it.                                 *)
(***************************************************************************)
EXTENDS MsgHeader, Sequences

(* Cars are told apart by broadcast id alone (find_odr_car). *)
SameCar(c, h) == c.broadcast_id = h.broadcast_id

HasCar(lot, h) == \E i \in DOMAIN lot : SameCar(lot[i], h)

(* The position of the first car that matches h. *)
CarAt(lot, h) ==
    CHOOSE i \in DOMAIN lot :
        /\ SameCar(lot[i], h)
        /\ \A j \in 1..(i - 1) : ~SameCar(lot[j], h)

(* remove_odr_car of what find_odr_car returns, nothing when that is NULL. *)
RemoveCar(lot, h) ==
    IF HasCar(lot, h)
    THEN SubSeq(lot, 1, CarAt(lot, h) - 1) \o
         SubSeq(lot, CarAt(lot, h) + 1, Len(lot))
    ELSE lot

(* A car is made from a message without its FRC flag. *)
Car(h) == [h EXCEPT !.flags = @ \ {"FRC"}]

(* Mutant: the car that h replaces stays. *)
InsertSecondCar(lot, h) == <<Car(h)>> \o lot

InsertCar(lot, h) == <<Car(h)>> \o RemoveCar(lot, h)

(* park_msg keeps the parked car when it has come fewer hops. *)
Park(lot, h) ==
    IF HasCar(lot, h) /\ lot[CarAt(lot, h)].hop_count < h.hop_count
    THEN lot
    ELSE InsertCar(lot, h)
=============================================================================
