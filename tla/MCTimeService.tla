--------------------------- MODULE MCTimeService ---------------------------
(* A client that asks two servers, one after the other. *)
EXTENDS TimeService

CONSTANTS P, S, T

Clients == {P}
Servers == {S, T}
=============================================================================
