# A TLA+ model of AODV_ODR

The repository holds an on-demand-distance-vector router (ODR) for Ethernet, a
time client and a time server that use it, and the beginning of an ARP daemon.
This directory models a network of routers, the threads inside one router, the
list of local clients a router keeps, and the two applications. TLC checks small
instances; TLAPS proves for all instances every safety property that TLC finds
true of the network, the list of clients and the applications, among them that
the network is a datagram service, and of the threads their type invariant.

All paths below are relative to `src/`.

## 1. The system

| part | files | state | operations |
|---|---|---|---|
| message header | `msg_header.*`, `app_settings.h` | – | flags, role swap, byte order |
| routing table | `routing_table.c`, `routing_table_provider.c` | linked list of entries: next hop, interface, hop count, timestamp, last relayed broadcast, `finding_route`, parking lot | `query_table`, `update_table`, `purge_entry`, `is_stale`, `is_better`, `should_relay_broadcast` |
| parking lot | `odr_parking_lot.*` | per entry, a linked list of messages that wait for a route | `park_msg`, insert, remove, find |
| ODR frontend (thread) | `router_top_frontend.c` | – | reads a client's message, registers the client, routes the message or delivers it locally |
| ODR backend (thread) | `router_top_backend.c`, `ethernet_frame_processor.c` | `g_broadcast_id` | reads a frame, learns a route from it, then handles it as REQ, REP or DAT |
| router process | `odr_router.*` | canonical address, table, clients, interfaces, `stopping` | create, cancel, destroy, signal handler |
| client registry | `odr_client.*` | list of (file, port, timestamp), next ephemeral port | register, find, take over the oldest port |
| message API | `channel_wrapper.*`, `ipc_provider.c` | – | `send_msg`, `recv_msg` over Unix domain sockets |
| applications | `client.c`, `server.c` | the socket | ask, wait, retry with a forced message; read and answer |
| interfaces | `endpoint.*`, `get_hw_addrs.c`, `prhwaddrs.c` | list of interfaces | build, find |
| ARP (not modelled) | `arp_core.c`, `arp_r_processor.c`, `arp_cache.*`, `arp_header.*`, `iarp.*` | cache, two sockets | request, reply, `areq` |
| utilities | `np_time.*`, `extras.*`, `logger.*`, `socket_*` | – | clock, texts, logging, socket wrappers |

**How they interact.** A client's `send_msg` puts a DAT message into the
router's Unix socket. The frontend thread registers the client by the name of
its file and calls `odr_route_data`. If the destination is another node and
the table has a fresh route, the message leaves as one Ethernet frame;
otherwise it is parked in the destination's entry and a REQ is flooded, once,
until a REP for this router comes back. The backend thread handles every frame
in the same way: FRC frames purge routes, the hop is counted, a route to the
frame's source is learned, then the frame is dispatched. Routers that have a
route answer a REQ with a REP, others relay it. A REP to this router sends what
is parked. A DAT for a local port goes to that process; if nobody reads the
port, the message returns to its sender as an ERR DAT.

**What is hard.** Two kinds of concurrency: routers run at the same time and
their floods, answers and data cross each other, and inside a router two
threads share tables without locks. Frames are lost; routes go stale at
different times at different routers; routers are killed and lose everything;
clients retry; ids and ports run out. What a router may forget and what it has
to keep when a route expires, is purged or is replaced is spread over six
files. The list of hazards, each at its line, is in `PROJECT.json`.

**What makes each part correct.**

- Routing table: a fresh route leads somewhere; routes of different routers
  never form a loop.
- Parking lot: messages are parked exactly while a search for a route is on;
  nothing parked is lost or sent twice.
- Routers together: a datagram arrives at most once, at the process it is for,
  or comes back at most once, to the process that sent it; floods end.
- Client registry: ports and processes correspond one to one; the list stays
  bounded; an answer goes to the process that asked.
- Applications: a question ends; late answers are bounded; errors about
  answers provoke no further messages.

## 2. The modules

```
MsgHeader <- ParkingLot <- RoutingTable <- Odr <- MCOdr
                                            |  \- refines DatagramService
                                        OdrProofs <- OdrLoopProofs
                                           ^-- OdrServiceProofs
OdrClients <- MCOdrClients, OdrClientsProofs
TimeService <- MCTimeService, TimeServiceProofs
RouterThreads <- MCRouterThreads, RouterThreadsProofs
```

**`MsgHeader`** – the C struct as a record and the messages the router makes:
the REQ of `broadcast_req`, the DAT of `send_msg`, the REP that
`process_incoming_req` makes from a REQ, the error of `inform_error`. The
payload is the number of the application datagram it belongs to, which only
the properties look at. The hop count is a natural number (see Bounds).

**`ParkingLot`** – a lot as a sequence, newest car first. `park_msg`'s
comparison by broadcast id, its comparison of hop counts and the replacement of
the old car are as in the code; so is the FRC flag that a parked message loses.

**`RoutingTable`** – a table as a value `[listed, head, entry]`. The C list is
reduced to three facts which the rest of the code can see: which destinations
are listed, what their entries hold, and which entry is the head
(`purge_entry` skips it). A timestamp is kept as the age of the entry in
multiples of the staleness, up to the first that makes it stale; the `LONG_MAX`
of a router's entry for itself is age -1. `QueryTable` inserts or purges as
`query_table` does, `UpdateTable` is `update_table` with `is_better`.

**`Odr`** – the network. Variables are the fields of every router
(`rt_table`, `g_broadcast_id`, `client_list`) and the frames waiting at every
interface (`rxq`). One action is one whole handler:

| action | code |
|---|---|
| `DoProcess` | `__do_process`: register, purge if forced, route or deliver |
| `AnswerRequest`, `RelayRequest` | `process_incoming_req` with a fresh / stale route |
| `Unpark`, `ForwardReply` | `process_incoming_rep` for this / another router |
| `ReceiveData`, `ForwardData` | `process_incoming_dat` for this / another router |
| `IgnoreOwn` | a router's own REQ that comes back: only the table learns |
| `Tick` | one staleness period passes at one router |
| `Lose` | Ethernet or a full buffer loses a frame |
| `Restart` | the router process is killed and started again |

Each of the frame actions starts with what `process_incoming_ethernet_frame`
does to every frame: the purges of a FRC frame, the hop, `extract_base_info`,
`query_table`. `socket_l2_flood_msg` and `socket_l2_send_unicast` are declared
and used but not in the repository; they are modelled from their uses as
sending the message unchanged, out of all interfaces but one, or to one
address. `routing_table.h` is not in the repository either; the entry's fields
are those the code uses.

`create_listen_hub` at this commit keeps the interface `eth0` only
(`endpoint.c:138`), a change made for the ARP daemon that shares the file. The
router's code is written for any list of interfaces, so the list is a
parameter, the constant `Attached`: the line and the triangle have routers with
two interfaces, and on the kite of `odr_live` three routers share one wire.

**`DatagramService`** – what applications may expect: every datagram is in
transit until it is delivered, becomes an error, or is lost; an error is
returned or lost; delivery and return happen at most once and to the right
process only; no error is made for a well-known port that a process reads.
`Odr` implements it (`ImplementsService`, a property of the runs and a theorem)
with the refinement mapping `FateOf`: a datagram's fate is read off the places
where copies of it are found.

**`OdrClients`** – the registry of one router in detail: the list with newest
entry first, timestamps, the ephemeral port counter, and processes that start,
ask, get answers and end. `Odr` uses only the set of registered ports.
`create_odr_client` has no return statement (`odr_client.c:27-33`), so what it
returns is up to the compiler; it is modelled as returning the client it made.
The callers of `bind_ipc` in the router and the applications pass one argument
of its two; their sockets are modelled as the datagram sockets that the rest of
their code needs.

**`RouterThreads`** – one router from the inside. `Odr` runs whole handlers; in
the code the frontend thread, which reads clients' messages, and the backend
thread, which reads frames, share the routing table and `g_broadcast_id`
without a lock. Here the table is the C list: entries are allocated one after
the other, a pointer is an index, 0 is NULL; parked messages are list cells that
can be freed. Each thread has a `todo` of steps, and a step ends before the next
access to shared memory to which the other thread could make a difference:

| steps | code |
|---|---|
| `Loop`, `Fail`, `Leave` | the loops of both threads, their waits (which time out and come back to the condition), the `return` in `WATCH_CALL`, the `break` of the frontend |
| `ReadMessage`, `ReadFrame` | `__do_process`, `process_incoming_ethernet_frame`: the calls they lead to become the `todo` |
| `Query`, `Insert`, `Publish`, `Link` | `query_table`; `insert_in_routing_table` reads the head, publishes the entry, then links it |
| `Purge`, `ZeroTime` / `Update`, `SetHop`, `SetTime` | the writes of `purge_entry` and of `update_table` |
| `Deliver`, `Resume` | `odr_route_data` for this node: delivered, refused and answered with an error, or waiting in `sendmsg` until the receiver reads |
| `Route`, `PickIf`, `Transmit` | `odr_route_msg`: test, read the interface, read the next hop |
| `ParkMsg`, `NameEntry`, `Compare`, `Check` | `park_msg`: find the entry or create it (and name it after the parked header's destination), compare hop counts, print the first car |
| `LoadLot`, `FindCar`, `Push`, `PushLink` | `insert_in_odr_parking_lot` and `find_odr_car`, car by car |
| `Remove`, `Seek`, `UnlinkFirst`, `UnlinkAfter`, `FreeCar` | `remove_odr_car`: the first car, or one behind it |
| `Request`, `Mark`, `Store`, `FloodReq` | `broadcast_req`: test and set `finding_route`, load, store and reload the counter |
| `Release`, `Unpark` | `process_incoming_rep` for this router: the loop over the lot |
| `Destroy`, `FreeCar`, `Clear`, `Found` | `destroy_odr_parking_lot`, then the two assignments behind it |
| `Signal`, `Main` | `termination_handler`, which runs in any thread; the joins and `destroy_odr_router` |

A walk along the entries, which are never freed, with the look at what it finds
is one step, and so are the writes to next hop and interface; a walk along cars,
which are freed by one thread while the other is at them, takes one step for
each car. A null pointer that is followed, freed memory
that is touched, a walk along a cycle and a signal after `destroy_odr_router`
end the run with a `fault`. The frames are those whose handling routes, parks or
unparks: REPs for this router and for others, which have the broadcast ids of
the REQs they answer, and DATs, forced or not, with broadcast id 0. A lot may
hold a DAT and any number of REPs, so a car may have to be found and removed
behind the first one. All
routes have the same length, so that `is_better` depends on staleness and next
hop only.

**`TimeService`** – clients and servers over a service like
`DatagramService`: messages arrive in any order, are lost, or come back as
errors. The client's program counter says which of its two `recv_msg` calls it
is in.

## 3. What TLC checks

| run | question |
|---|---|
| `odr_line` | line of three routers; client to server, server to client, and a client whose destination port nobody reads; forced and unforced; one lost frame, one expiry |
| `odr_restart` | line; one router is killed at any moment; broadcast ids wrap at 1; one client talks to its own node |
| `odr_triangle` | triangle; floods meet; one lost frame; three messages, in two directions and to a node that is switched off |
| `odr_live` | kite – A and B on one wire, B, C and D on a second, C and D on a third – under fairness, nothing lost: do floods for a present and for an absent node end, and is the newest message delivered or returned, once? |
| `odr_forced`, `odr_dropped` | two statements of the documentation that the code does not keep |
| `clients`, `clients_full` | three clients and a server in a router with three ports |
| `app` | a client that asks two questions of two servers |
| `threads` | the threads of one router with two neighbours, messages to one of them, its answer, and an answer that passes through: three events out of messages, frames, expiring routes, signals and failing waits, and every interleaving of their steps |
| `threads_stop` | the same, with messages to local processes, which may have to wait for the receiver or come back as errors; do the threads end when they are told to? |
| `threads_ids` | the statement of a comment about the broadcast counter that the code does not keep |

**Properties of the routers.** `ParkedIffFinding`: an entry has parked messages
exactly if a search for its destination is on. Four handlers in two files keep
this together. `LotWellFormed`: a lot holds messages for its own destination
only, no two with the same id, none marked FRC. `FreshRouteUsable`: a route
that is not stale has a next hop that is a neighbour on its interface.
`AtMostOneCopy`: a datagram and its error exist once – on a wire, in a lot or
delivered. `RouteCloser`: if nothing expires or is purged, the next hop of a
route has a shorter route itself, so following routes ends at the destination.
`ImplementsService`: the refinement. `NewestDatAnswered`: without losses, of
all datagrams between two nodes the newest one is delivered or returned.
Earlier ones are not covered because of the second finding below. `Quiesces`:
floods end.

**Properties of the threads.** `SoundApart`: as long as the two threads are
never busy with the same node at once, and no entry is created while the other
thread is busy, memory is safe, everything is sent to the node behind the
interface it leaves by, and between handlers the table is as `Odr` has it (no
cycle, no destination twice, messages parked exactly while a search is on, fresh
routes usable). So whole handlers, as `Odr` runs them, describe these
behaviours. The condition, `clash`, is needed: within the same bounds each of
these goes wrong without it – a null pointer, freed memory, an endless walk, a
message to the wrong interface, a duplicated entry, a parked message without a
search, a fresh route without a next hop. `SentOnce`: in spite of all that, no
message is sent twice to a neighbour. `Stops`: a router that was told to stop
ends, whatever waits have failed before, unless a receiver leaves a thread
waiting in `sendmsg` for ever: that wait has no limit, and a signal ends it only
in the thread that it interrupts.

**Properties of the registry.** `RegistryOneToOne`, `ListBounded` (the list
does not outgrow the ports), `PortsKept` (until ports run out, a port that is
still known belongs to the process that asked with it).

**Properties of the applications.** `StaleBounded`: the messages that could
be taken for the answer to the wrong question are no more than the reads that
have timed out. `SessionsEnd`: every question ends. `Silence`: when users stop,
messages stop.

**Bounds.** Three routers are the fewest with a relay, a cycle and an
answer from a third party. `odr_live` has four, because on a triangle every way
round passes the origin, which drops its own REQ, so a flood ends there whatever
the relays do; on the kite only what the relays remember of it can end it. Two messages are enough for a second message to
meet the state the first one has left or is just leaving: a route, a search in
progress, a parked message, a registered port; `odr_triangle` has three because
a loop needs routes that were learned from different directions. One loss, one
expiry or one restart, at any place and time, are enough to separate any two
routers' views; more only repeats that. `MaxHopCount` bounds how far a frame
travels. Where nothing expires and nothing is forced (`odr_triangle`,
`odr_live`) no frame reaches it, so a frame that does would stay
in its queue and violate `Quiesces`. Elsewhere frames do: when a
router forgets a route, it can learn a new one from a neighbour whose own route
leads back to it, and a DAT then goes back and forth between the two, for ever.
The model stops such a frame after six hops, three round trips, and with it the
queue it waits in; the routes of the two no longer change by then. That loops
occur under these conditions is why `RouteCloser` assumes `Stable`.
`MaxBroadcastId` stands for 2^32 - 1 and is 1 in `odr_restart` so that every
REQ wraps. In `clients` there are fewer ports than processes, so that ports run
out and change hands; the clock has four values so that timestamps of list
entries differ and coincide. In `threads` three events are the fewest with which
every kind of damage named above occurs: one message waits in the table, and a
message and a frame, or a frame and an expiry, meet there.
`CHECK_DEADLOCK` is off in the runs of `Odr` and `TimeService`: all
bounds can be used up, and all processes can end.

**Fairness.** `odr_live` assumes that every interface with a waiting frame is
served in the end: `backend_do_process` selects on all interfaces and, in one
turn of its loop, reads a frame from each that is ready. Clients owe nothing.
`threads_stop` assumes that both threads and the main thread are scheduled.
`select` and the read of the IPC socket time out after five seconds, so a thread
that waits for input comes back to its loop's condition. A thread that waits for
a receiver (`ipc_provider.c:27`, "This is blocking.") is owed nothing; that no
thread does so for ever is an assumption of `Stops`, not of the specification.
`app` assumes that `recv_msg` returns (it has a timeout), that the server reads
its socket (its loop has no other exit than a signal), and that no message
stays in transit for ever, which includes that it may be lost: a message that
stays parked for ever counts as lost.

**Findings** (runs that are expected to fail).

1. `odr_forced`. A forced REQ purges its destination's entry everywhere –
   also at the destination itself, whose entry for itself is safe only while it
   is the head of the list. Once purged, it is stale: the destination
   relays REQs for itself instead of answering them, unless a REQ of its own
   comes back to it on a cycle and freshens the entry. The comment says
   "Reads an incoming ethernet frame and sends appropriate reply for it."
   (`ethernet_frame_processor.c:266`).
2. `odr_dropped`. All DATs have broadcast id 0, so the second DAT parked for
   a destination replaces the first. README.text:68 says of staleness 0 that
   "the code routes the DAT messages successfully".
3. `clients_full`. When ports run out, the oldest entry's port is taken over,
   and the server's entry is the oldest if no message has reached the server
   lately. `odr_router.c:53-55` says that the "server is added default".
4. `threads_ids`. `++g_broadcast_id` is a load and a store, followed by another
   load, in both threads: two REQs for different destinations can have the same
   id. The counter's comment says "Assumed atomic in terms of usage - single
   threaded access." (`router_top_backend.c:8-9`).

## 4. What TLAPS proves

For every network, registry, set of processes and bound:

| theorem | statement |
|---|---|
| `OdrProofs!TypeCorrect` | `Spec => []TypeOK` |
| `OdrProofs!ParkedIffFindingHolds` | `Spec => []ParkedIffFinding` |
| `OdrProofs!FreshRouteUsableHolds` | `Spec => []FreshRouteUsable` |
| `OdrLoopProofs!RouteCloserHolds` | `Spec => []RouteCloser` |
| `OdrProofs!LotWellFormedHolds` | `Spec => []LotWellFormed` |
| `OdrServiceProofs!AtMostOneCopyHolds` | `Spec => []AtMostOneCopy` |
| `OdrServiceProofs!ImplementsServiceHolds` | `Spec => ImplementsService` |
| `OdrClientsProofs!TypeCorrect` | `Spec => []TypeOK` |
| `OdrClientsProofs!RegistryOneToOneHolds` | `Spec => []RegistryOneToOne` |
| `OdrClientsProofs!ListBoundedHolds` | `Spec => []ListBounded` |
| `OdrClientsProofs!PortsKeptHolds` | `Spec => []PortsKept` |
| `TimeServiceProofs!TypeCorrect` | `Spec => []TypeOK` |
| `TimeServiceProofs!StaleBoundedHolds` | `Spec => []StaleBounded` |
| `RouterThreadsProofs!TypeCorrect` | `Spec => []TypeOK` |

The assumptions are those the modules state about their constants: segments
are numbered from 1, `Attached` says which nodes are on them, ids start at 1,
bounds are natural numbers.

`OdrProofs` begins with lemmas about the operations of lots and tables: the
type of the result, and which searches, parked messages and routes it leaves
alone. It defines the inductive invariant `IInv`: types; every table
has `Searches` and `Usable`, the two properties for one table; and every frame
waits at an interface of its sender's segment, but not at the sender. The last
part is what the properties do not say and need: a route is learned from a
frame's sender, so a frame from elsewhere, or from itself, would give a router a
route to nowhere. What a handler sends and parks is proved once, for arbitrary
sets of allowed frames and messages (`Outcome`); `ReceiveOutcome` and
`SendOutcome` are used for both invariants.

`OdrLoopProofs` proves the absence of loops. `RouteCloser` is not inductive: it
relates the tables of two routers, and a router changes its table for what a
frame says. `CInv` adds `Truthful`: the router that sent a frame, or parked a
message, is the message's source or has a fresh route to it of no more hops
than the message's hop count plus one. Without expiry, purges and restarts
(`Stable`) routes only improve, so the claim stays true until the frame is
received, however long it is under way; and the receiver's new route is one hop
longer than its sender's.

The last part of `OdrProofs` adds to `IInv` what `LotWellFormed` says of each
lot (`GoodLots`). It is inductive with one fact about `odr_parking_lot.c`: what
`RemoveCar` leaves are cars of the old lot, in the same order, none of them the
same as the new one.

`OdrServiceProofs` follows two things through every handler. Where: `Once` says
of a datagram's number that it occurs in one queue, one lot or one delivery.
What: the `View` of a message is all it says of its datagram (number, DAT and
ERR, both ends), and every view is that of a REQ or REP, of an accepted
datagram, or of its error (`Honest`). Both are needed: a handler copies a
message (floods it) only if it is a REQ, and that no datagram is ever taken for
a REQ, or a REQ for a datagram, is `Honest`. Forwarding, parking and reporting
an error are shown to put the message they handle in one place (`Handled`);
unparking moves a lot into one queue. `Progress` sums up what any step can do to
any datagram, and both the invariant and the steps of `DatagramService` follow
from `Progress` alone.

`OdrClientsProofs`: no two entries share a port or a file, every port lies
between the server's and the counter, the list is as long as the ports given
out, and until they run out each request that was made is still known under its
file and port. That there is an oldest entry, whose port is taken over, is a
fact about nonempty sets of numbers (`WellFoundedInduction`).

`TimeServiceProofs`: every message is in one place (`Placed`), there is one for
each request (`Keyed`), questions are numbered and a client that waits for the
first time has not sent its retry (`Numbered`), and the messages that a client
does not expect are no more than its timeouts (`Bounded`). The other three are
needed because a bound on a set is kept only if a step adds at most one element
to it for each timeout it counts.

`RouterThreadsProofs` is about two threads that share the table without a lock,
so its invariant says what may happen between any two of their steps. `Typed`
adds to `TypeOK` what a thread still has to do (`Plan`): which steps may be
pending together and in which order (`Shape`), that their arguments are entries
that exist, and that a step finds in the thread's register and local pointer
what the step before it has left there (`publish` the old head, `route` an
entry). Only so does a step keep the types, whatever the other thread has done
since. Most of the code's functions put their steps in front of those that are
pending; `Fits` says what such a row must be like for a plan to stay a plan, and
the lemmas on `Row` build the rows of the code from single steps. `Typed` also
has the two counts behind `TypeOK`: every search that is pending (`Due`) belongs
to a message or frame that has been read, and each of these is a bounded event.
`TypedHolds` proves it; `TypeCorrect` follows.

## 5. What is only model-checked, and what is not modelled

Liveness under fairness is outside the prover's reach and stays with TLC
(`NewestDatAnswered`, `Quiesces`, `SessionsEnd`, `Silence`, `Stops`). Of the
threads, `SentOnce` and `SoundApart` are model-checked only. Every other
property of a run that passes is a theorem.

Left out of the models: byte order (`htonm` and `ntohm` cancel out between
routers of this code), the widths of `hop_count` and of ports, memory
management, logs, and the texts of requests and answers.

In `RouterThreads`, the list of clients is left out: `route_to_self` looks a
client up and writes its timestamp in both threads, and `register_odr_client`
changes the list in the frontend. What a delivery comes to is a free choice
there. Steps are as coarse as described above: a `memcpy` of a
hardware address is not interrupted, a walk sees one state of the list, and
memory is sequentially consistent, as on the machines and with the flags
(`-w -g`, no optimisation) of the Makefile. A frame that a router only relays
is left to `Odr`, since the frontend has no part in it.

The ARP daemon is not modelled: it does not reach its loop at this commit.
Without a usable `eth0` it follows a null pointer (`arp_core.c:58`); with one it
passes the string literal `ARP_IPC_ABSFILENAME` to `bind_ipc` (`arp_core.c:66`),
which writes the socket's name back into it (`socket_binder.c:117`). The router
and the server copy the name to a buffer first. So `listen`, the loop, the
cache and the answers to `areq` are never reached, and a model of them would
not be a model of this program. `get_hw_addrs.c` and
`prhwaddrs.c` are system calls made once; `extras.c` and `logger.c` make texts.

## 6. Plan

1. Routes after expiry: what remains true of loops when routes age.
2. Proofs of `SentOnce`, which needs to say where the only copy of each message
   is while one thread walks along a lot that the other changes, and of
   `SoundApart`.
3. That `RouterThreads`, while its threads keep apart, takes no step that a
   router of `Odr` does not take.
