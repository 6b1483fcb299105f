----------------------------- MODULE OdrClients -----------------------------
(***************************************************************************)
(* odr_client.c and the uses router_top_frontend.c makes of it: the list   *)
(* of the local processes a router knows, and the ports it gives them.     *)
(*                                                                         *)
(* Odr takes the ports of processes as given; this module is where they    *)
(* come from, and what happens when there are none left.  A process is     *)
(* named by the file its socket is bound to.  send_msg leaves the source port  *)
(* of a message zero, so a process is always looked up by that name.       *)
(***************************************************************************)
EXTENDS Naturals, Sequences, FiniteSets

CONSTANTS
    File,       \* socket files of processes
    ServerFile, \* SERVER_IPC_ABSFILENAME
    ServerPort, \* DEFAULT_PORT_NUMBER
    LastPort,   \* g_seq_last_port, 0xFFFF in the code
    MaxTime     \* bound on the clock

ASSUME PortAssumption ==
    /\ ServerFile \in File
    /\ ServerPort \in Nat \ {0}
    /\ LastPort \in Nat /\ LastPort > ServerPort + 1
    /\ MaxTime \in Nat

VARIABLES
    client_list,            \* the list, newest entry first
    g_next_ephemeral_port,  \* the port given out last
    now,                    \* the clock that timestamps are taken from
    bound,                  \* files that a running process reads
    asked                   \* requests not answered yet: [file, port]

vars == <<client_list, g_next_ephemeral_port, now, bound, asked>>

Client == [file : File, port : Nat, timestamp : Nat]

(* create_odr_client has no return statement, which leaves its result to   *)
(* the compiler; here it is the new client, as where the router works.     *)
CreateOdrClient(file, port) == [file |-> file, port |-> port, timestamp |-> 0]

-----------------------------------------------------------------------------
(* The list. *)

Ports(l) == {l[i].port : i \in DOMAIN l}

Files(l) == {l[i].file : i \in DOMAIN l}

FindPort(l, port) == CHOOSE i \in DOMAIN l : l[i].port = port

FindName(l, file) == CHOOSE i \in DOMAIN l : l[i].file = file

(* Mutant: the entry of a port that is taken stays, in the shadow of e. *)
InsertAnyway(l, e) == <<e>> \o l

InsertInList(l, e) ==
    IF e.port \in Ports(l)
    THEN [l EXCEPT ![FindPort(l, e.port)].file = e.file]
    ELSE <<e>> \o l

(* The entry that was used least recently, the head of the list excepted. *)
Oldest(l) ==
    CHOOSE i \in 2..Len(l) :
        /\ \A j \in 2..Len(l) : l[i].timestamp <= l[j].timestamp
        /\ \A j \in 2..(i - 1) : l[i].timestamp < l[j].timestamp

Exhausted == g_next_ephemeral_port = LastPort

(* Mutants: ports are given out for ever; the same port again and again. *)
EndlessPorts(l) == g_next_ephemeral_port + 1

SamePort(l) ==
    IF Exhausted THEN l[Oldest(l)].port ELSE g_next_ephemeral_port

(* With all ports given out, a newcomer gets that of the oldest client. *)
NextEphemeralPort(l) ==
    IF Exhausted THEN l[Oldest(l)].port ELSE g_next_ephemeral_port + 1

-----------------------------------------------------------------------------
Init ==
    /\ client_list = InsertInList(<<>>, CreateOdrClient(ServerFile, ServerPort))
    /\ g_next_ephemeral_port = ServerPort + 1
    /\ now = 0
    /\ bound = {}
    /\ asked = {}

(* A process binds its socket; a client's file is a new temporary one, the *)
(* server's is always the same.                                            *)
Start(f) ==
    /\ f \notin bound
    /\ f # ServerFile => f \notin Files(client_list)
    /\ bound' = bound \cup {f}
    /\ UNCHANGED <<client_list, g_next_ephemeral_port, now, asked>>

(* A process ends, its file is removed. *)
Exit(f) ==
    /\ f \in bound
    /\ bound' = bound \ {f}
    /\ asked' = {r \in asked : r.file # f}
    /\ UNCHANGED <<client_list, g_next_ephemeral_port, now>>

(* register_odr_client for a message of a process that is in the list: its *)
(* entry is refreshed.                                                     *)
RegisterAgain(f) ==
    LET i == FindName(client_list, f)
    IN  /\ f \in bound
        /\ f \in Files(client_list)
        /\ client_list' = [client_list EXCEPT ![i].timestamp = now]
        /\ asked' = asked \cup {[file |-> f, port |-> client_list[i].port]}
        /\ UNCHANGED <<g_next_ephemeral_port, now, bound>>

(* register_odr_client for a newcomer.  The new entry gets the time; when  *)
(* its port is taken already, the entry of that port only gets its file.   *)
Register(f) ==
    LET port == NextEphemeralPort(client_list)
        e == [CreateOdrClient(f, port) EXCEPT !.timestamp = now]
    IN  /\ f \in bound
        /\ f \notin Files(client_list)
        /\ client_list' = InsertInList(client_list, e)
        /\ g_next_ephemeral_port' =
              IF Exhausted THEN g_next_ephemeral_port ELSE port
        /\ asked' = asked \cup {[file |-> f, port |-> port]}
        /\ UNCHANGED <<now, bound>>

(* route_to_self of a message for port: it is given to the process that    *)
(* the port belongs to now, which fails when that has ended.               *)
RouteToSelf(port) ==
    LET i == FindPort(client_list, port)
    IN  client_list' =
            IF port \in Ports(client_list) /\ client_list[i].file \in bound
            THEN [client_list EXCEPT ![i].timestamp = now]
            ELSE client_list

(* The answer to request r arrives. *)
AnswerArrives(r) ==
    /\ r \in asked
    /\ RouteToSelf(r.port)
    /\ asked' = asked \ {r}
    /\ UNCHANGED <<g_next_ephemeral_port, now, bound>>

(* A request of a client elsewhere arrives. *)
RequestArrives ==
    /\ RouteToSelf(ServerPort)
    /\ UNCHANGED <<g_next_ephemeral_port, now, bound, asked>>

Pass ==
    /\ now < MaxTime
    /\ now' = now + 1
    /\ UNCHANGED <<client_list, g_next_ephemeral_port, bound, asked>>

Next ==
    \/ \E f \in File : Start(f) \/ Exit(f) \/ RegisterAgain(f) \/ Register(f)
    \/ \E r \in asked : AnswerArrives(r)
    \/ RequestArrives
    \/ Pass

Spec == Init /\ [][Next]_vars

-----------------------------------------------------------------------------
TypeOK ==
    /\ client_list \in Seq(Client)
    /\ Ports(client_list) \subseteq ServerPort..LastPort
    /\ g_next_ephemeral_port \in ServerPort..LastPort
    /\ now \in Nat
    /\ bound \subseteq File
    /\ asked \subseteq [file : File, port : Nat]

(* A port belongs to one process and a process has one port, also after    *)
(* ports have changed hands: a lookup by port and one by name agree.       *)
RegistryOneToOne ==
    \A i, j \in DOMAIN client_list :
        \/ client_list[i].port = client_list[j].port
        \/ client_list[i].file = client_list[j].file
        => i = j

(* The list never outgrows the range of ports, however many processes come *)
(* and go: entries of processes that have ended are found again.           *)
ListBounded == Len(client_list) <= LastPort - ServerPort

Owner(port) == client_list[FindPort(client_list, port)].file

(* An answer goes to the process that asked, as long as ports last: a      *)
(* router that still knows a port knows it for the same process.           *)
PortsKept ==
    ~Exhausted =>
        \A r \in asked : r.port \in Ports(client_list) /\ Owner(r.port) = r.file

(* "Also includes creation of odr_client_list in which server is added     *)
(* default": the server's well-known port is the server's.                 *)
ServerKeepsPort == Owner(ServerPort) = ServerFile
=============================================================================
