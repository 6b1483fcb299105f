---------------------------- MODULE TimeService ----------------------------
(***************************************************************************)
(* The applications: client.c, which asks a time server and retries once   *)
(* with a forced message, and server.c, with the send_msg and recv_msg of  *)
(* channel_wrapper.c they are built on.                                    *)
(*                                                                         *)
(* Between them is what DatagramService promises: a message arrives once,  *)
(* in any order, or is lost, or comes back as an error when nobody reads   *)
(* its port.  Answers carry no request number, so a client takes whatever  *)
(* comes for its answer; the numbers in messages are for the properties.   *)
(***************************************************************************)
EXTENDS Naturals, Sequences, FiniteSets, Functions

CONSTANTS
    Client,         \* client processes
    Server,         \* time servers, one per node, at the well-known port
    MaxSessions     \* bound on the questions that users ask

ASSUME ProcessAssumption ==
    /\ Server # {}
    /\ Client \cap Server = {}
    /\ MaxSessions \in Nat

Process == Client \cup Server

VARIABLES
    pc,         \* where each client is: at the prompt, or in which recv_msg
    session,    \* the number of each client's latest question
    target,     \* the server it asked
    running,    \* the processes that run
    wire,       \* messages under way
    inbox,      \* each process's socket, oldest message first
    sessions,   \* questions asked so far
    timeouts    \* history: each client's reads that have timed out

vars == <<pc, session, target, running, wire, inbox, sessions, timeouts>>

Attempt == {"first", "forced"}

Message ==
    {m \in [session : 1..MaxSessions, attempt : Attempt,
            client : Client, server : Server,
            kind : {"request", "answer", "error"}, to : Process] :
        /\ m.to \in {m.client, m.server}
        /\ m.kind = "request" => m.to = m.server
        /\ m.kind = "answer" => m.to = m.client}

Request(n, attempt, c, s) ==
    [session |-> n, attempt |-> attempt, client |-> c, server |-> s,
     kind |-> "request", to |-> s]

(* Mutant: the answer goes to where the request went. *)
AnswerAstray(m) == [m EXCEPT !.kind = "answer"]

(* The server answers the source of the request. *)
Answer(m) == [m EXCEPT !.kind = "answer", !.to = m.client]

(* The error that a router returns for m. *)
Bounce(m) ==
    [m EXCEPT !.kind = "error",
              !.to = IF m.to = m.client THEN m.server ELSE m.client]

-----------------------------------------------------------------------------
Init ==
    /\ pc = [c \in Client |-> "prompt"]
    /\ session = [c \in Client |-> 0]
    /\ target \in [Client -> Server]
    /\ running = Process
    /\ wire = {}
    /\ inbox = [p \in Process |-> <<>>]
    /\ sessions = 0
    /\ timeouts = [c \in Client |-> 0]

(* The user names a server; the client sends a message and waits. *)
Ask(c, s) ==
    /\ c \in running
    /\ pc[c] = "prompt"
    /\ sessions < MaxSessions
    /\ sessions' = sessions + 1
    /\ session' = [session EXCEPT ![c] = sessions']
    /\ target' = [target EXCEPT ![c] = s]
    /\ wire' = wire \cup {Request(sessions', "first", c, s)}
    /\ pc' = [pc EXCEPT ![c] = "first"]
    /\ UNCHANGED <<running, inbox, timeouts>>

Waits(c) == c \in running /\ pc[c] \in Attempt

(* Mutant: recv_msg leaves the message in the socket. *)
PeekAnswer(c) ==
    /\ Waits(c)
    /\ inbox[c] # <<>>
    /\ pc' = [pc EXCEPT ![c] = "prompt"]
    /\ UNCHANGED <<session, target, running, wire, inbox, sessions, timeouts>>

(* recv_msg returns an answer, or an error, to whatever request: back to   *)
(* the prompt.                                                             *)
TakeAnswer(c) ==
    /\ Waits(c)
    /\ inbox[c] # <<>>
    /\ inbox' = [inbox EXCEPT ![c] = Tail(@)]
    /\ pc' = [pc EXCEPT ![c] = "prompt"]
    /\ UNCHANGED <<session, target, running, wire, sessions, timeouts>>

(* The first recv_msg times out: ask once more, with a forced message. *)
Retry(c) ==
    /\ Waits(c)
    /\ pc[c] = "first"
    /\ inbox[c] = <<>>
    /\ wire' = wire \cup {Request(session[c], "forced", c, target[c])}
    /\ pc' = [pc EXCEPT ![c] = "forced"]
    /\ timeouts' = [timeouts EXCEPT ![c] = @ + 1]
    /\ UNCHANGED <<session, target, running, inbox, sessions>>

(* Mutant: the second timeout is treated like the first. *)
RetryForEver(c) ==
    /\ Waits(c)
    /\ pc[c] = "forced"
    /\ inbox[c] = <<>>
    /\ wire' = wire \cup {Request(session[c], "forced", c, target[c])}
    /\ UNCHANGED <<pc, session, target, running, inbox, sessions, timeouts>>

(* The second one times out as well. *)
GiveUp(c) ==
    /\ Waits(c)
    /\ pc[c] = "forced"
    /\ inbox[c] = <<>>
    /\ pc' = [pc EXCEPT ![c] = "prompt"]
    /\ timeouts' = [timeouts EXCEPT ![c] = @ + 1]
    /\ UNCHANGED <<session, target, running, wire, inbox, sessions>>

(* Mutant: the server answers whatever it reads. *)
ServeAnything(s) ==
    /\ s \in running
    /\ inbox[s] # <<>>
    /\ inbox' = [inbox EXCEPT ![s] = Tail(@)]
    /\ wire' = wire \cup {Answer(Head(inbox[s]))}
    /\ UNCHANGED <<pc, session, target, running, sessions, timeouts>>

(* The server reads a message; it answers when recv_msg returns no error   *)
(* and the message is a request.                                           *)
Serve(s) ==
    /\ s \in running
    /\ inbox[s] # <<>>
    /\ inbox' = [inbox EXCEPT ![s] = Tail(@)]
    /\ wire' = IF Head(inbox[s]).kind = "request"
               THEN wire \cup {Answer(Head(inbox[s]))}
               ELSE wire
    /\ UNCHANGED <<pc, session, target, running, sessions, timeouts>>

(* A process ends, by a signal or because its user leaves; what waits in   *)
(* its socket is gone.                                                     *)
Exit(p) ==
    /\ p \in running
    /\ running' = running \ {p}
    /\ inbox' = [inbox EXCEPT ![p] = <<>>]
    /\ UNCHANGED <<pc, session, target, wire, sessions, timeouts>>

-----------------------------------------------------------------------------
(* The routers, as DatagramService has it. *)

Arrive(m) ==
    /\ m \in wire
    /\ m.to \in running
    /\ wire' = wire \ {m}
    /\ inbox' = [inbox EXCEPT ![m.to] = Append(@, m)]
    /\ UNCHANGED <<pc, session, target, running, sessions, timeouts>>

(* The process has ended, or its router does not know the client's port    *)
(* (any more); an error for such a message is dropped.                     *)
Refuse(m) ==
    /\ m \in wire
    /\ m.to \in Client \/ m.to \notin running
    /\ wire' = IF m.kind = "error"
               THEN wire \ {m}
               ELSE (wire \ {m}) \cup {Bounce(m)}
    /\ UNCHANGED <<pc, session, target, running, inbox, sessions, timeouts>>

(* Lost, or parked for ever in some router. *)
Lose(m) ==
    /\ m \in wire
    /\ wire' = wire \ {m}
    /\ UNCHANGED <<pc, session, target, running, inbox, sessions, timeouts>>

Transport == \E m \in wire : Arrive(m) \/ Refuse(m) \/ Lose(m)

Next ==
    \/ \E c \in Client, s \in Server : Ask(c, s)
    \/ \E c \in Client : TakeAnswer(c) \/ Retry(c) \/ GiveUp(c)
    \/ \E s \in Server : Serve(s)
    \/ \E p \in Process : Exit(p)
    \/ Transport

Spec == Init /\ [][Next]_vars

(* recv_msg returns, at the latest when it times out; the server reads its *)
(* socket again and again; no message is under way for ever.  Users and    *)
(* signals owe nothing.                                                    *)
Fairness ==
    /\ \A c \in Client : WF_vars(TakeAnswer(c) \/ Retry(c) \/ GiveUp(c))
    /\ \A s \in Server : WF_vars(Serve(s))
    /\ WF_vars(Transport)

FairSpec == Spec /\ Fairness

-----------------------------------------------------------------------------
TypeOK ==
    /\ pc \in [Client -> Attempt \cup {"prompt"}]
    /\ session \in [Client -> 0..MaxSessions]
    /\ target \in [Client -> Server]
    /\ running \subseteq Process
    /\ wire \subseteq Message
    /\ inbox \in [Process -> Seq(Message)]
    /\ sessions \in 0..MaxSessions
    /\ timeouts \in [Client -> Nat]

(* What may still reach client c, or is on its way to being answered. *)
Pending(c) ==
    {m \in wire \cup UNION {Range(inbox[p]) : p \in Process} :
        m.client = c /\ ~(m.kind = "error" /\ m.to # c)}

(* It belongs to the request that c is waiting for. *)
Expected(c, m) == Waits(c) /\ m.session = session[c] /\ m.attempt = pc[c]

(* An answer can be taken for that to another question only as often as    *)
(* the client's patience has run out before: every read that times out     *)
(* leaves at most one message behind, and a read that returns takes one.   *)
StaleBounded ==
    \A c \in running \cap Client :
        Cardinality({m \in Pending(c) : ~Expected(c, m)}) <= timeouts[c]

(* A question comes to an end, with an answer or without. *)
SessionsEnd == \A c \in Client : Waits(c) ~> ~Waits(c)

(* Errors and answers provoke no messages without end: when users stop     *)
(* asking, the network and the servers fall silent, also when clients have *)
(* ended and every answer to them comes back.                              *)
Silence ==
    <>[](wire = {} /\ \A s \in Server : inbox[s] = <<>>)
=============================================================================
