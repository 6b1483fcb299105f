---------------------------- MODULE MCOdrClients ----------------------------
(* A server, some clients, and fewer ports than clients. *)
EXTENDS OdrClients, TLC

CONSTANTS Server, P, Q, R

Processes == {Server, P, Q, R}

Newcomers == Permutations({P, Q, R})
=============================================================================
