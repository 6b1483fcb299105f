--------------------------- MODULE RouterThreads ---------------------------
(***************************************************************************)
(* One router process from the inside: the frontend thread, which reads    *)
(* the messages of local clients, the backend thread, which reads frames,  *)
(* and the main thread, which waits for both.  Odr lets them take turns;   *)
(* here they take steps, because nothing in the code makes them wait for   *)
(* each other.  They share the routing table, a linked list of entries     *)
(* with a linked list of parked messages (cars) each, and g_broadcast_id.  *)
(*                                                                         *)
(* A step ends before the next access to shared memory that the other      *)
(* thread could make a difference to.  Cars are freed while others walk    *)
(* along them, so each look at a car is a step; a walk along the entries,  *)
(* which stay allocated, is one step with the look at what it finds, and   *)
(* so are writes to the two fields of a route.  A thread's pending steps   *)
(* are its todo: a function that the code calls is a step that puts its    *)
(* own steps in front.  All routes have the same length here, and frames   *)
(* are those that reach the steps of the frontend too: any REP, any DAT.   *)
(* The list of clients, which both threads use as well, is left out.       *)
(* A thread that follows a null pointer, touches freed memory or walks a   *)
(* cycle of entries ends the model's run with a fault.                     *)
(***************************************************************************)
EXTENDS Integers, Sequences, FiniteSets

CONSTANTS
    Self,           \* this router's node
    Peer,           \* other nodes
    Via,            \* interfaces; also names the one neighbour behind each
    Input,          \* what clients send: [destination, forced]
    Frame,          \* what arrives: [kind, source, destination, via, forced,
                    \* bid]; bid is the broadcast id
    MaxEvents       \* bound on messages, frames, expiring routes, signals
                    \* and failing waits for input, all together

ASSUME InputAssumption ==
    /\ Self \notin Peer
    /\ Via \subseteq Nat \ {0}
    /\ Input \subseteq [destination : Peer \cup {Self}, forced : BOOLEAN]
    /\ Frame \subseteq [kind : {"REP", "DAT"}, source : Peer,
                        destination : Peer \cup {Self}, via : Via,
                        forced : BOOLEAN, bid : Nat]
    /\ \A f \in Frame : f.kind = "DAT" => f.bid = 0

ASSUME LimitAssumption == MaxEvents \in Nat

Null == 0
Thread == {"frontend", "backend"}
Id == 1..(2 * MaxEvents)    \* messages, then frames; also their cars

VARIABLES
    rt_table,       \* the head of the list of entries
    entry,          \* the entries allocated so far; a pointer is an index
    next_car,       \* the next pointer of each car
    freed,          \* cars that have been freed
    broadcast_id,   \* the field of each message's header, also in its car
    g_broadcast_id,
    todo,           \* each thread's pending steps
    job,            \* the message or frame each thread works on
    rte,            \* each thread's local pointer to an entry
    reg,            \* each thread's register
    alive,          \* threads that have not returned
    main,           \* what the main thread does
    stopping,       \* odr_router.stopping
    received,       \* history: number of inputs of each thread so far
    requests,       \* history: the REQs flooded, [destination, id]
    sent,           \* history: how often each message went to its neighbour
    astray,         \* history: messages that went to nobody
    clash,          \* history: the threads have been at the same thing
    fault,          \* what went wrong in memory
    events          \* how many of the bounded events have happened

table == <<rt_table, entry>>
cars == <<next_car, freed, broadcast_id>>
local == <<job, rte, reg>>
process == <<alive, main, stopping>>
history == <<received, requests, sent, astray, clash>>

vars == <<table, cars, g_broadcast_id, todo, local, process, history, fault,
          events>>

-----------------------------------------------------------------------------
(* The routing table's list. *)

NewEntry(d) ==
    [destination |-> d, next |-> Null, next_hop |-> Null, outgoing_if |-> Null,
     fresh |-> FALSE, finding_route |-> FALSE, parking_lot |-> Null]

Unnamed == "unnamed"    \* the destination of an entry that calloc returned

(* The pointers met by following next from first, Null from the end on. *)
Walk(first, next, length) ==
    LET at[k \in 1..length] ==
            IF k = 1 THEN first
            ELSE LET previous == at[k - 1]
                 IN  IF previous = Null THEN Null ELSE next[previous]
    IN  at

Path == Walk(rt_table, [e \in DOMAIN entry |-> entry[e].next], Len(entry) + 1)

Listed == LET path == Path IN {path[k] : k \in DOMAIN path} \ {Null}

(* More pointers than entries: the list has become a cycle. *)
Cyclic == Path[Len(entry) + 1] # Null

(* find_routing_table_entry: the first match, which shadows later ones. *)
Find(d) ==
    LET path == Path
        matches == {k \in DOMAIN path :
                       path[k] # Null /\ entry[path[k]].destination = d}
    IN  IF matches = {} THEN Null
        ELSE path[CHOOSE k \in matches : \A j \in matches : k <= j]

(* The cars of the parking lot whose first car is c. *)
CarsFrom(c) ==
    LET path == Walk(c, next_car, Cardinality(Id) + 1)
    IN  {path[k] : k \in DOMAIN path} \ {Null}

(* A client's message has come no hop, everything else at least one. *)
HopCount(c) == IF c <= MaxEvents THEN 0 ELSE 1

-----------------------------------------------------------------------------
(* Threads. *)

Op(name, arg) == << [op |-> name, arg |-> arg] >>

NoJob == [source |-> Self, destination |-> Self, via |-> Null, id |-> Null]

Busy(t) == job[t] # NoJob

Other(t) == IF t = "frontend" THEN "backend" ELSE "frontend"

Doing(t, name) ==
    fault = "none" /\ todo[t] # <<>> /\ Head(todo[t]).op = name

Arg(t) == Head(todo[t]).arg

(* The current step is done; the steps more come before the others. *)
Then(t, more) == todo' = [todo EXCEPT ![t] = more \o Tail(@)]

Faulty(kind) ==
    /\ fault' = kind
    /\ UNCHANGED <<table, cars, g_broadcast_id, todo, local, process, history,
                   events>>

(* The entry e is being created: it is, or will be, published. *)
Creating(t) ==
    \E k \in DOMAIN todo[t] :
        \/ todo[t][k].op = "link"
        \/ /\ todo[t][k].op \in {"insert", "publish"}
           /\ todo[t][k].arg \notin Listed

Touches(j) == {j.source, j.destination} \ {Self}

(* Where a message goes; one for this node that cannot be delivered comes  *)
(* back as an error, in whose header inform_error has swapped both ends.   *)
Goal(j) == IF j.destination = Self THEN j.source ELSE j.destination

Init ==
    /\ rt_table = 1
    /\ entry = << [NewEntry(Self) EXCEPT !.fresh = TRUE] >>
    /\ next_car = [c \in Id |-> Null]
    /\ freed = {}
    /\ broadcast_id = [c \in Id |-> 0]
    /\ g_broadcast_id = 0
    /\ todo = [t \in Thread |->
                 IF t = "backend" THEN Op("read", Null) ELSE <<>>]
    /\ job = [t \in Thread |-> NoJob]
    /\ rte = [t \in Thread |-> Null]
    /\ reg = [t \in Thread |-> Null]
    /\ alive = Thread
    /\ main = "join"
    /\ stopping = FALSE
    /\ received = [t \in Thread |-> 0]
    /\ requests = <<>>
    /\ sent = [i \in Id |-> 0]
    /\ astray = {}
    /\ clash = FALSE
    /\ fault = "none"
    /\ events = 0

-----------------------------------------------------------------------------
(* The loops of the threads. *)

(* Mutant: the backend does not look at stopping. *)
FrontendMustStop(t) == stopping /\ t = "frontend"

(* The condition of both loops. *)
MustStop(t) == stopping

(* At the loop's condition: wait for input, or return.  A wait without     *)
(* input ends after five seconds and comes back to the condition.          *)
Loop(t) ==
    /\ fault = "none" /\ t \in alive
    /\ todo[t] \in {<<>>, Op("read", Null)}
    /\ IF MustStop(t)
       THEN alive' = alive \ {t} /\ todo' = [todo EXCEPT ![t] = <<>>]
       ELSE todo' = [todo EXCEPT ![t] = Op("read", Null)] /\ UNCHANGED alive
    /\ job' = [job EXCEPT ![t] = NoJob]
    /\ rte' = [rte EXCEPT ![t] = Null]
    /\ reg' = [reg EXCEPT ![t] = Null]
    /\ UNCHANGED <<table, cars, g_broadcast_id, main, stopping, history, fault,
                   events>>

Happens == events < MaxEvents /\ events' = events + 1

Begin(t, j, bid, steps) ==
    /\ Happens
    /\ job' = [job EXCEPT ![t] = j]
    /\ todo' = [todo EXCEPT ![t] = steps]
    /\ broadcast_id' = [broadcast_id EXCEPT ![j.id] = bid]
    /\ received' = [received EXCEPT ![t] = @ + 1]
    /\ clash' = \/ clash
                \/ /\ Busy(Other(t))
                   /\ \/ Touches(j) \cap Touches(job[Other(t)]) # {}
                      \/ Creating(Other(t))
    /\ UNCHANGED <<table, next_car, freed, g_broadcast_id, rte, reg, process,
                   requests, sent, astray, fault>>

PurgeIf(forced, d) == IF forced THEN Op("purge", d) ELSE <<>>

RouteTo(d) == Op("query", d) \o Op("route", d)

RouteData(d) == IF d = Self THEN Op("deliver", Null) ELSE RouteTo(d)

(* The frontend reads a client's message; its broadcast id is 0. *)
ReadMessage(m) ==
    /\ Doing("frontend", "read")
    /\ Begin("frontend",
             [source |-> Self, destination |-> m.destination, via |-> Null,
              id |-> received["frontend"] + 1], 0,
             PurgeIf(m.forced, m.destination) \o RouteData(m.destination))

(* What a frame's kind makes of it after the table has been updated.  For a *)
(* REP to another router the entry that was just queried is used as it is.  *)
Service(f) ==
    IF f.kind = "DAT" THEN RouteData(f.destination)
    ELSE IF f.destination = Self THEN Op("release", f.source)
    ELSE Op("route", f.destination)

(* The backend reads a frame.  After one, it looks at the interfaces later *)
(* in its list, those with lower indices, before it is back at the loop's  *)
(* condition.  A REP for this router answers a REQ of its own.             *)
ReadFrame(f) ==
    LET t == "backend" IN
    /\ \/ Doing(t, "read")
       \/ /\ fault = "none" /\ t \in alive /\ todo[t] = <<>>
          /\ Busy(t) /\ f.via < job[t].via
    /\ f.kind = "REP" /\ f.destination = Self =>
           \E k \in DOMAIN requests : requests[k].destination = f.source
    /\ Begin(t,
             [source |-> f.source, destination |-> f.destination,
              via |-> f.via, id |-> MaxEvents + received[t] + 1], f.bid,
             (IF f.kind = "REP" THEN <<>> ELSE PurgeIf(f.forced, f.destination))
             \o PurgeIf(f.forced, f.source)
             \o Op("update", f.source) \o Op("query", f.destination)
             \o Service(f))

-----------------------------------------------------------------------------
(* Steps on the routing table.  In all of them the thread that takes the   *)
(* step is not interrupted between a walk and the look at what it found.   *)

(* The walks of a step look for this destination. *)
Sought(t) ==
    IF Head(todo[t]).op = "insert" THEN entry[Arg(t)].destination ELSE Arg(t)

(* A walk that finds nothing on a cycle does not end. *)
Endless(t) ==
    /\ fault = "none" /\ todo[t] # <<>>
    /\ Head(todo[t]).op \in
           {"purge", "query", "insert", "update", "park", "release"}
    /\ Find(Sought(t)) = Null /\ Cyclic
    /\ Faulty("endless")

Seeking(t, name) ==
    /\ Doing(t, name)
    /\ ~(Find(Sought(t)) = Null /\ Cyclic)

(* The effect of a step that only reads the table. *)
OnlyReads(t, more) ==
    /\ Then(t, more)
    /\ UNCHANGED <<table, cars, g_broadcast_id, local, process, history, fault,
                   events>>

(* The effect of a write to entry e. *)
Writes(t, e, value, more) ==
    /\ entry' = [entry EXCEPT ![e] = value]
    /\ Then(t, more)
    /\ UNCHANGED <<rt_table, cars, g_broadcast_id, local, process, history,
                   fault, events>>

(* The effect of creating an entry that the thread has yet to insert.      *)
Creates(t, new, pointer, more) ==
    /\ entry' = Append(entry, new)
    /\ rte' = [rte EXCEPT ![t] = pointer]
    /\ Then(t, more)
    /\ clash' = (clash \/ Busy(Other(t)))
    /\ UNCHANGED <<rt_table, cars, g_broadcast_id, job, reg, process, received,
                   requests, sent, astray, fault, events>>

New == Len(entry) + 1

Purge(t) ==
    LET e == Find(Arg(t)) IN
    /\ Seeking(t, "purge")
    /\ IF e = Null \/ e = rt_table
       THEN OnlyReads(t, <<>>)
       ELSE Writes(t, e, [entry[e] EXCEPT !.next_hop = Null,
                                          !.outgoing_if = Null],
                   Op("zero_time", e))

ZeroTime(t) ==
    /\ Doing(t, "zero_time")
    /\ Writes(t, Arg(t), [entry[Arg(t)] EXCEPT !.fresh = FALSE], <<>>)

Query(t) ==
    LET e == Find(Arg(t)) IN
    /\ Seeking(t, "query")
    /\ IF e = Null
       THEN Creates(t, NewEntry(Arg(t)), New, Op("insert", New))
       ELSE /\ rte' = [rte EXCEPT ![t] = e]
            /\ Then(t, IF entry[e].fresh THEN <<>> ELSE Op("purge", Arg(t)))
            /\ UNCHANGED <<table, cars, g_broadcast_id, job, reg, process,
                           history, fault, events>>

(* insert_in_routing_table reads the head, then publishes, then links. *)
Insert(t) ==
    /\ Seeking(t, "insert")
    /\ IF Find(Sought(t)) # Null
       THEN OnlyReads(t, <<>>)
       ELSE /\ reg' = [reg EXCEPT ![t] = rt_table]
            /\ Then(t, Op("publish", Arg(t)) \o Op("link", Arg(t)))
            /\ UNCHANGED <<table, cars, g_broadcast_id, job, rte, process,
                           history, fault, events>>

Publish(t) ==
    /\ Doing(t, "publish")
    /\ rt_table' = Arg(t)
    /\ Then(t, <<>>)
    /\ UNCHANGED <<entry, cars, g_broadcast_id, local, process, history, fault,
                   events>>

Link(t) ==
    /\ Doing(t, "link")
    /\ Writes(t, Arg(t), [entry[Arg(t)] EXCEPT !.next = reg[t]], <<>>)

(* Routes of the same length: another next hop is better. *)
Update(t) ==
    LET e == Find(Arg(t))
        writes(p) == Op("set_hop", p) \o Op("set_time", p) \o Op("insert", p)
    IN
    /\ Seeking(t, "update")
    /\ IF e = Null
       THEN Creates(t, NewEntry(Arg(t)), rte[t], writes(New))
       ELSE OnlyReads(t, IF entry[e].fresh /\ entry[e].next_hop = job[t].via
                         THEN <<>> ELSE writes(e))

SetHop(t) ==
    /\ Doing(t, "set_hop")
    /\ Writes(t, Arg(t), [entry[Arg(t)] EXCEPT !.next_hop = job[t].via,
                                               !.outgoing_if = job[t].via],
              <<>>)

SetTime(t) ==
    /\ Doing(t, "set_time")
    /\ Writes(t, Arg(t), [entry[Arg(t)] EXCEPT !.fresh = TRUE], <<>>)

-----------------------------------------------------------------------------
(* Steps of odr_route_data and route_to_self for a message of this node's. *)

(* If it cannot be delivered, inform_error routes an error to its source.  *)
(* A message of this node, for which odr_route_msg does nothing, and one   *)
(* that is an error itself then end as if they had been delivered.         *)
Undelivered(t) == IF job[t].source = Self THEN <<>> ELSE RouteTo(job[t].source)

(* The message is delivered, or nobody reads the port, or sendmsg waits    *)
(* because the receivers of this router's messages leave too many unread.  *)
Deliver(t) ==
    /\ Doing(t, "deliver")
    /\ \/ OnlyReads(t, <<>>)
       \/ OnlyReads(t, Undelivered(t))
       \/ OnlyReads(t, Op("wait", Null))

Waits(t) == Doing(t, "wait")

(* A receiver has read its messages, or ended. *)
Resume(t) ==
    /\ Waits(t)
    /\ OnlyReads(t, <<>>) \/ OnlyReads(t, Undelivered(t))

-----------------------------------------------------------------------------
(* Steps of odr_route_msg. *)

(* Is the route that query_table returned still fresh? *)
Route(t) ==
    /\ Doing(t, "route")
    /\ OnlyReads(t, IF entry[rte[t]].fresh
                    THEN Op("pick_if", rte[t]) \o Op("transmit", rte[t])
                    ELSE Op("park", Arg(t)) \o Op("request", Arg(t)))

(* The message of thread t leaves by interface i for the node behind hop. *)
SendTo(i, hop, id) ==
    IF hop = i
    THEN sent' = [sent EXCEPT ![id] = @ + 1] /\ UNCHANGED astray
    ELSE astray' = astray \cup {id} /\ UNCHANGED sent

PickIf(t) ==
    /\ Doing(t, "pick_if")
    /\ IF entry[Arg(t)].outgoing_if = Null
       THEN Faulty("null")
       ELSE /\ reg' = [reg EXCEPT ![t] = entry[Arg(t)].outgoing_if]
            /\ Then(t, <<>>)
            /\ UNCHANGED <<table, cars, g_broadcast_id, job, rte, process,
                           history, fault, events>>

Transmit(t) ==
    /\ Doing(t, "transmit")
    /\ SendTo(reg[t], entry[Arg(t)].next_hop, job[t].id)
    /\ Then(t, <<>>)
    /\ UNCHANGED <<table, cars, g_broadcast_id, local, process, received,
                   requests, clash, fault, events>>

-----------------------------------------------------------------------------
(* Steps on parking lots.  The car that a thread works with is in reg.     *)

(* The effect of loading a pointer to a car into reg. *)
Loads(t, c, more) ==
    /\ reg' = [reg EXCEPT ![t] = c]
    /\ Then(t, more)
    /\ UNCHANGED <<table, cars, g_broadcast_id, job, rte, process, history,
                   fault, events>>

(* Touching a car that has been freed. *)
Freed(c) == c \in freed /\ Faulty("freed")

(* The first car of the lot of an entry. *)
LoadLot(t) ==
    /\ Doing(t, "lot")
    /\ Loads(t, entry[Arg(t)].parking_lot, <<>>)

(* One round of the loop of find_odr_car, which compares broadcast ids.    *)
FindCar(t) ==
    LET c == reg[t] IN
    /\ Doing(t, "find")
    /\ \/ Freed(c)
       \/ /\ c \notin freed
          /\ IF c = Null \/ broadcast_id[c] = broadcast_id[job[t].id]
             THEN OnlyReads(t, <<>>)
             ELSE Loads(t, next_car[c], Op("find", Null))

(* insert_in_odr_parking_lot: the car that matches is removed, the head is *)
(* read, the new car becomes the head, then gets its next pointer.         *)
InsertCar(e) ==
    Op("lot", e) \o Op("find", Null) \o Op("remove", e)
    \o Op("lot", e) \o Op("push", e) \o Op("push_link", e) \o Op("check", e)

ParkMsg(t) ==
    LET e == Find(Arg(t)) IN
    /\ Seeking(t, "park")
    /\ IF e = Null
       THEN Creates(t, NewEntry(Unnamed), rte[t],
                    Op("insert", New) \o Op("name", New) \o InsertCar(New))
       ELSE OnlyReads(t, Op("lot", e) \o Op("find", Null) \o Op("compare", e))

NameEntry(t) ==
    /\ Doing(t, "name")
    /\ Writes(t, Arg(t),
              [entry[Arg(t)] EXCEPT !.destination = Goal(job[t])], <<>>)

(* The message is not parked if the one that matches has come fewer hops.  *)
Compare(t) ==
    LET c == reg[t] IN
    /\ Doing(t, "compare")
    /\ \/ Freed(c)
       \/ /\ c \notin freed
          /\ OnlyReads(t, IF c # Null /\ HopCount(c) < HopCount(job[t].id)
                          THEN <<>> ELSE InsertCar(Arg(t)))

(* remove_odr_car: the first car, or one that is sought behind it. *)
Remove(t) ==
    LET first == entry[Arg(t)].parking_lot IN
    /\ Doing(t, "remove")
    /\ IF reg[t] = Null THEN OnlyReads(t, <<>>)
       ELSE IF first = reg[t] THEN OnlyReads(t, Op("unlink_first", Arg(t)))
       ELSE IF first = Null THEN Faulty("null")
       ELSE OnlyReads(t, Op("seek", first))

Seek(t) ==
    LET prev == Arg(t)
        p == next_car[prev]
    IN
    /\ Doing(t, "seek")
    /\ \/ Freed(prev)
       \/ /\ prev \notin freed
          /\ OnlyReads(t, IF p = Null THEN <<>>
                          ELSE IF p = reg[t] THEN Op("unlink_after", prev)
                          ELSE Op("seek", p))

UnlinkFirst(t) ==
    LET c == reg[t] IN
    /\ Doing(t, "unlink_first")
    /\ \/ Freed(c)
       \/ /\ c \notin freed
          /\ Writes(t, Arg(t), [entry[Arg(t)] EXCEPT !.parking_lot = next_car[c]],
                    Op("free", c))

UnlinkAfter(t) ==
    LET prev == Arg(t)
        c == reg[t]
    IN
    /\ Doing(t, "unlink_after")
    /\ \/ Freed(prev) \/ Freed(c)
       \/ /\ {prev, c} \cap freed = {}
          /\ next_car' = [next_car EXCEPT ![prev] = next_car[c]]
          /\ Then(t, Op("free", c))
          /\ UNCHANGED <<table, freed, broadcast_id, g_broadcast_id, local,
                         process, history, fault, events>>

(* destroy_odr_car *)
FreeCar(t) ==
    LET c == Arg(t) IN
    /\ Doing(t, "free")
    /\ \/ Freed(c)
       \/ /\ c \notin freed
          /\ freed' = freed \cup {c}
          /\ Then(t, <<>>)
          /\ UNCHANGED <<table, next_car, broadcast_id, g_broadcast_id, local,
                         process, history, fault, events>>

Push(t) ==
    /\ Doing(t, "push")
    /\ Writes(t, Arg(t), [entry[Arg(t)] EXCEPT !.parking_lot = job[t].id], <<>>)

PushLink(t) ==
    LET c == job[t].id IN
    /\ Doing(t, "push_link")
    /\ \/ Freed(c)
       \/ /\ c \notin freed
          /\ next_car' = [next_car EXCEPT ![c] = reg[t]]
          /\ Then(t, <<>>)
          /\ UNCHANGED <<table, freed, broadcast_id, g_broadcast_id, local,
                         process, history, fault, events>>

(* park_msg prints the first car of the lot. *)
Check(t) ==
    LET first == entry[Arg(t)].parking_lot IN
    /\ Doing(t, "check")
    /\ IF first = Null THEN Faulty("null")
       ELSE \/ Freed(first)
            \/ first \notin freed /\ OnlyReads(t, <<>>)

-----------------------------------------------------------------------------
(* Steps of broadcast_req. *)

(* broadcast_req tests, then sets finding_route of the entry that          *)
(* query_table returned, which need not be the one park_msg found.         *)
Request(t) ==
    /\ Doing(t, "request")
    /\ OnlyReads(t, IF entry[rte[t]].finding_route THEN <<>>
                    ELSE Op("mark", rte[t]) \o Op("store", Null)
                         \o Op("flood", Arg(t)))

(* finding_route is set; ++g_broadcast_id loads the counter, *)
Mark(t) ==
    /\ Doing(t, "mark")
    /\ entry' = [entry EXCEPT ![Arg(t)].finding_route = TRUE]
    /\ reg' = [reg EXCEPT ![t] = g_broadcast_id]
    /\ Then(t, <<>>)
    /\ UNCHANGED <<rt_table, cars, g_broadcast_id, job, rte, process, history,
                   fault, events>>

(* Mutant: it counts down. *)
StoreLess(t) ==
    /\ Doing(t, "store")
    /\ g_broadcast_id' = reg[t] - 1
    /\ Then(t, <<>>)
    /\ UNCHANGED <<table, cars, local, process, history, fault, events>>

(* then stores it, *)
Store(t) ==
    /\ Doing(t, "store")
    /\ g_broadcast_id' = reg[t] + 1
    /\ Then(t, <<>>)
    /\ UNCHANGED <<table, cars, local, process, history, fault, events>>

(* and loads it again for the header of the REQ. *)
FloodReq(t) ==
    /\ Doing(t, "flood")
    /\ requests' = Append(requests,
                          [destination |-> Arg(t), id |-> g_broadcast_id])
    /\ Then(t, <<>>)
    /\ UNCHANGED <<table, cars, g_broadcast_id, local, process, received, sent,
                   astray, clash, fault, events>>

-----------------------------------------------------------------------------
(* Steps of process_incoming_rep for a REP that ends a search. *)

Release(t) ==
    LET e == Find(Arg(t)) IN
    /\ Seeking(t, "release")
    /\ IF e = Null
       THEN Faulty("null")
       ELSE /\ rte' = [rte EXCEPT ![t] = e]
            /\ Then(t, Op("lot", e) \o Op("unpark", e))
            /\ UNCHANGED <<table, cars, g_broadcast_id, job, reg, process,
                           history, fault, events>>

(* Mutants: what was sent stays parked; the search is never over. *)
AfterKeepingLot(e) == Op("found", e)

AfterStillFinding(e) == Op("lot", e) \o Op("destroy", Null) \o Op("clear", e)

(* destroy_odr_parking_lot is given the first car of that moment; the lot  *)
(* is cleared, and the search over, when it has returned.                  *)
AfterUnpark(e) ==
    Op("lot", e) \o Op("destroy", Null) \o Op("clear", e) \o Op("found", e)

(* One round of the loop over the parked cars. *)
Unpark(t) ==
    LET c == reg[t] IN
    /\ Doing(t, "unpark")
    /\ IF c = Null THEN OnlyReads(t, AfterUnpark(Arg(t)))
       ELSE IF c \in freed THEN Faulty("freed")
       ELSE /\ SendTo(job[t].via, job[t].via, c)
            /\ reg' = [reg EXCEPT ![t] = next_car[c]]
            /\ Then(t, Op("unpark", Arg(t)))
            /\ UNCHANGED <<table, cars, g_broadcast_id, job, rte, process,
                           received, requests, clash, fault, events>>

(* One round of the loop of destroy_odr_parking_lot. *)
Destroy(t) ==
    LET c == reg[t] IN
    /\ Doing(t, "destroy")
    /\ IF c = Null THEN OnlyReads(t, <<>>)
       ELSE IF c \in freed THEN Faulty("freed")
       ELSE Loads(t, next_car[c], Op("free", c) \o Op("destroy", Null))

Clear(t) ==
    /\ Doing(t, "clear")
    /\ Writes(t, Arg(t), [entry[Arg(t)] EXCEPT !.parking_lot = Null], <<>>)

Found(t) ==
    /\ Doing(t, "found")
    /\ Writes(t, Arg(t), [entry[Arg(t)] EXCEPT !.finding_route = FALSE], <<>>)

-----------------------------------------------------------------------------
(* The rest of the process, and what happens to it. *)

(* A route reaches the age g_staleness; the router's own never does. *)
Expire(e) ==
    /\ fault = "none" /\ e # 1 /\ entry[e].fresh
    /\ Happens
    /\ entry' = [entry EXCEPT ![e].fresh = FALSE]
    /\ UNCHANGED <<rt_table, cars, g_broadcast_id, todo, local, process,
                   history, fault>>

(* A thread leaves its loop because its wait failed: only the frontend     *)
(* says so to the other one.                                               *)
Leave(t, stop) ==
    /\ todo' = [todo EXCEPT ![t] = <<>>]
    /\ alive' = alive \ {t}
    /\ stopping' = (stop \/ t = "frontend")

(* The wait of t fails. *)
Fail(t) ==
    /\ Doing(t, "read")
    /\ Happens
    /\ Leave(t, stopping)
    /\ UNCHANGED <<table, cars, g_broadcast_id, local, main, history, fault>>

(* termination_handler runs in the thread u or, for every other u, in the  *)
(* main thread; it stops the router, and a wait that it interrupts fails,  *)
(* be it for input or for a receiver's room.                               *)
(* Once the router is destroyed the handler writes to freed memory.        *)
Signal(u) ==
    /\ fault = "none" /\ main # "exited" /\ (u \in Thread => u \in alive)
    /\ Happens
    /\ IF main = "destroyed"
       THEN fault' = "signal" /\ UNCHANGED <<todo, alive, stopping>>
       ELSE /\ UNCHANGED fault
            /\ IF u \in Thread /\ todo[u] = Op("read", Null)
               THEN Leave(u, TRUE)
               ELSE /\ IF u \in Thread /\ Waits(u)
                       THEN Then(u, Undelivered(u)) ELSE UNCHANGED todo
                    /\ stopping' = TRUE
                    /\ UNCHANGED alive
    /\ UNCHANGED <<table, cars, g_broadcast_id, local, main, history>>

(* Both threads are joined; then destroy_odr_router; then the process ends. *)
Main ==
    /\ fault = "none"
    /\ \/ main = "join" /\ alive = {} /\ main' = "destroyed"
       \/ main = "destroyed" /\ main' = "exited"
    /\ UNCHANGED <<table, cars, g_broadcast_id, todo, local, alive, stopping,
                   history, fault, events>>

Over ==
    /\ fault # "none" \/ main = "exited"
    /\ UNCHANGED vars

Step(t) ==
    \/ Loop(t) \/ Endless(t) \/ Deliver(t)
    \/ Purge(t) \/ ZeroTime(t) \/ Query(t)
    \/ Insert(t) \/ Publish(t) \/ Link(t)
    \/ Update(t) \/ SetHop(t) \/ SetTime(t)
    \/ Route(t) \/ PickIf(t) \/ Transmit(t)
    \/ ParkMsg(t) \/ NameEntry(t) \/ LoadLot(t) \/ FindCar(t) \/ Compare(t)
    \/ Remove(t) \/ Seek(t) \/ UnlinkFirst(t) \/ UnlinkAfter(t) \/ FreeCar(t)
    \/ Push(t) \/ PushLink(t) \/ Check(t)
    \/ Request(t) \/ Mark(t) \/ Store(t) \/ FloodReq(t)
    \/ Release(t) \/ Unpark(t) \/ Destroy(t) \/ Clear(t) \/ Found(t)

Next ==
    \/ \E t \in Thread : Step(t) \/ Resume(t) \/ Fail(t)
    \/ \E m \in Input : ReadMessage(m)
    \/ \E f \in Frame : ReadFrame(f)
    \/ \E e \in DOMAIN entry : Expire(e)
    \/ \E u \in Thread \cup {"main"} : Signal(u)
    \/ Main
    \/ Over

(* Both threads and the main thread are scheduled: a thread goes on taking *)
(* steps, unless it waits for a receiver, which owes nothing, or for input *)
(* while there is no reason to stop.  This is weak fairness of what it     *)
(* does, as it then has a step to take, in a form that TLC evaluates much  *)
(* faster than the ENABLED of all these steps.                             *)
Runs(t) ==
    /\ fault = "none" /\ t \in alive /\ ~Waits(t)
    /\ ~(todo[t] = Op("read", Null) /\ ~MustStop(t))

Fairness ==
    /\ \A t \in Thread : []<>~Runs(t) \/ []<><<TRUE>>_(todo[t])
    /\ WF_vars(Main)

Spec == Init /\ [][Next]_vars /\ Fairness

-----------------------------------------------------------------------------
(* Properties. *)

Pointer == 0..Len(entry)

(* Pointers point to what was allocated, and there is at most one REQ per  *)
(* message or frame.                                                       *)
TypeOK ==
    /\ rt_table \in Pointer
    /\ \A e \in DOMAIN entry :
           /\ entry[e].destination \in Peer \cup {Self, Unnamed}
           /\ entry[e].next \in Pointer
           /\ {entry[e].next_hop, entry[e].outgoing_if} \subseteq Via \cup {Null}
           /\ {entry[e].fresh, entry[e].finding_route} \subseteq BOOLEAN
           /\ entry[e].parking_lot \in Id \cup {Null}
    /\ next_car \in [Id -> Id \cup {Null}]
    /\ broadcast_id \in [Id -> Nat]
    /\ freed \cup astray \subseteq Id
    /\ rte \in [Thread -> Pointer]
    /\ alive \subseteq Thread
    /\ main \in {"join", "destroyed", "exited"}
    /\ g_broadcast_id \in Nat /\ Len(requests) <= Cardinality(Id)
    /\ sent \in [Id -> Nat]
    /\ {stopping, clash} \subseteq BOOLEAN
    /\ fault \in {"none", "null", "freed", "endless", "signal"}

Idle == \A t \in Thread : ~Busy(t)

(* What the table is like between handlers. *)
Tidy ==
    /\ ~Cyclic
    /\ \A e, f \in Listed :
           entry[e].destination = entry[f].destination => e = f
    /\ \A e \in Listed \ {1} :
           /\ entry[e].finding_route <=> entry[e].parking_lot # Null
           /\ entry[e].fresh => /\ entry[e].outgoing_if # Null
                                /\ entry[e].next_hop = entry[e].outgoing_if
    /\ freed \cap UNION {CarsFrom(entry[e].parking_lot) : e \in Listed} = {}

(* The threads share the table without a lock.  As long as they are never  *)
(* busy with the same node, and no entry is created while the other thread *)
(* is busy, memory is safe, what is sent goes to the node behind the       *)
(* interface it leaves by, and the table is as whole handlers leave it.    *)
SoundApart ==
    ~clash =>
        /\ fault \in {"none", "signal"}
        /\ astray = {}
        /\ Idle => Tidy

(* However the threads interfere, no message is sent twice to a neighbour: *)
(* the loop over the lot and its destruction see the same list or less.    *)
SentOnce == \A i \in Id : sent[i] <= 1

(* Every REQ of the router has an id of its own: g_broadcast_id is said to *)
(* be "Assumed atomic in terms of usage - single threaded access".         *)
IdsDistinct ==
    \A i, j \in DOMAIN requests : requests[i].id = requests[j].id => i = j

(* A router that was told to stop, or whose frontend has failed, ends: the *)
(* waits for input of both threads time out and both look at stopping.     *)
(* The one wait without a limit is that of sendmsg in __ipc_send_msg, so   *)
(* this takes a receiver that does not leave a thread waiting for ever.    *)
Stops ==
    (\A t \in Thread : []<>~Waits(t)) =>
        (stopping ~> (main = "exited" \/ fault # "none"))
=============================================================================
