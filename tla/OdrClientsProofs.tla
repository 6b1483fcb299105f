-------------------------- MODULE OdrClientsProofs --------------------------
(***************************************************************************)
(* Theorems about OdrClients, for every set of processes, range of ports   *)
(* and bound on the clock.                                                 *)
(***************************************************************************)
EXTENDS OdrClients, WellFoundedInduction, TLAPS

OneToOne(l) ==
    \A i, j \in DOMAIN l : l[i].port = l[j].port \/ l[i].file = l[j].file => i = j

(* Some entry of l has the file and the port of r. *)
Knows(l, r) == \E i \in DOMAIN l : l[i].port = r.port /\ l[i].file = r.file

(* The type invariant and the three properties, with what they need: the   *)
(* list is as long as ports have been given out, and none is ahead of the  *)
(* counter.                                                                *)
ListOK(l, g) ==
    /\ l \in Seq(Client)
    /\ OneToOne(l)
    /\ Ports(l) \subseteq ServerPort..g
    /\ Len(l) = g - ServerPort

IInv ==
    /\ ListOK(client_list, g_next_ephemeral_port)
    /\ g_next_ephemeral_port \in ServerPort..LastPort
    /\ now \in Nat
    /\ bound \subseteq File
    /\ asked \subseteq [file : File, port : Nat]
    /\ ~Exhausted => \A r \in asked : Knows(client_list, r)

-----------------------------------------------------------------------------
(* Lists of clients. *)

(* Every nonempty set of natural numbers has a least element. *)
LEMMA Least ==
    ASSUME NEW S, S \subseteq Nat, S # {}
    PROVE  \E x \in S : \A y \in S : x <= y
<1> DEFINE R == OpToRel(<, Nat)
<1>1. \E x \in S : \A y \in S : ~ (<<y, x>> \in R)
  BY NatLessThanWellFounded, WFMin
<1>2. \A x, y \in Nat : ~ (<<y, x>> \in R) => x <= y
  BY DEF OpToRel
<1> QED
  BY <1>1, <1>2

(* Oldest finds an entry behind the head, if there is one. *)
LEMMA OldestInList ==
    ASSUME NEW l \in Seq(Client), Len(l) >= 2
    PROVE  Oldest(l) \in 2..Len(l)
<1> DEFINE Times == {l[i].timestamp : i \in 2..Len(l)}
<1>1. \A i \in 2..Len(l) : l[i].timestamp \in Nat
  <2>1. \A i \in 2..Len(l) : l[i] \in Client
    OBVIOUS
  <2> QED
    BY <2>1 DEF Client
<1>2. PICK t \in Times : \A u \in Times : t <= u
  <2>1. Times \subseteq Nat /\ Times # {}
    BY <1>1
  <2> QED
    BY <2>1, Least
<1> DEFINE First == {i \in 2..Len(l) : l[i].timestamp = t}
<1>3. PICK i \in First : \A j \in First : i <= j
  <2>1. First \subseteq Nat /\ First # {}
    BY <1>2
  <2> QED
    BY <2>1, Least
<1>4. \A j \in 2..Len(l) : l[i].timestamp <= l[j].timestamp
  BY <1>2, <1>3
<1>5. \A j \in 2..(i - 1) : l[i].timestamp < l[j].timestamp
  <2> SUFFICES ASSUME NEW j \in 2..(i - 1)
               PROVE  l[i].timestamp < l[j].timestamp
    OBVIOUS
  <2>1. j \in 2..Len(l) /\ j \notin First
    BY <1>3
  <2> QED
    BY <2>1, <1>1, <1>3, <1>4
<1> QED
  BY <1>3, <1>4, <1>5 DEF Oldest

(* A port and a file that are in the list are found. *)
LEMMA FindPortFinds ==
    ASSUME NEW l, NEW port \in Ports(l)
    PROVE  FindPort(l, port) \in DOMAIN l /\ l[FindPort(l, port)].port = port
BY DEF FindPort, Ports

LEMMA FindNameFinds ==
    ASSUME NEW l, NEW file \in Files(l)
    PROVE  FindName(l, file) \in DOMAIN l /\ l[FindName(l, file)].file = file
BY DEF FindName, Files

(* The entry of a port is the only one. *)
LEMMA FindPortUnique ==
    ASSUME NEW l, OneToOne(l), NEW i \in DOMAIN l
    PROVE  FindPort(l, l[i].port) = i
BY FindPortFinds DEF OneToOne, Ports

(* In a list without duplicates, FindPort is the entry that Knows means. *)
LEMMA KnowsOwner ==
    ASSUME NEW l, OneToOne(l), NEW r
    PROVE  Knows(l, r) <=> /\ r.port \in Ports(l)
                           /\ l[FindPort(l, r.port)].file = r.file
BY FindPortFinds, FindPortUnique DEF Knows, Ports

LEMMA EntryType ==
    ASSUME NEW l \in Seq(Client), NEW i \in DOMAIN l
    PROVE  /\ l[i] \in Client
           /\ l[i].file \in File /\ l[i].port \in Nat /\ l[i].timestamp \in Nat
<1>1. l[i] \in Client
  OBVIOUS
<1> QED
  BY <1>1 DEF Client

LEMMA Prepended ==
    ASSUME NEW S, NEW l \in Seq(S), NEW e \in S, NEW m, m = <<e>> \o l
    PROVE  /\ m \in Seq(S)
           /\ Len(m) = Len(l) + 1
           /\ m[1] = e
           /\ \A i \in DOMAIN l : m[i + 1] = l[i]
<1>1. <<e>> \in Seq(S) /\ Len(<<e>>) = 1 /\ <<e>>[1] = e
  OBVIOUS
<1> QED
  BY <1>1

LEMMA Reshaped ==
    ASSUME NEW S, NEW l \in Seq(S), NEW m, m = [j \in DOMAIN l |-> m[j]],
           \A j \in DOMAIN l : m[j] \in S
    PROVE  m \in Seq(S) /\ Len(m) = Len(l)
<1>1. Len(l) \in Nat /\ DOMAIN l = 1..Len(l)
  OBVIOUS
<1>2. m \in [1..Len(l) -> S]
  BY <1>1
<1> QED
  BY <1>1, <1>2

(* A new time for one entry. *)
LEMMA Refreshed ==
    ASSUME NEW l, NEW g, ListOK(l, g), NEW i \in DOMAIN l, NEW t \in Nat
    PROVE  /\ ListOK([l EXCEPT ![i].timestamp = t], g)
           /\ \A r : Knows(l, r) => Knows([l EXCEPT ![i].timestamp = t], r)
<1> DEFINE m == [l EXCEPT ![i].timestamp = t]
<1>1. l \in Seq(Client)
  BY DEF ListOK
<1>2. DOMAIN m = DOMAIN l
  OBVIOUS
<1>3. \A j \in DOMAIN l : /\ m[j] \in Client
                          /\ m[j].port = l[j].port
                          /\ m[j].file = l[j].file
  <2> SUFFICES ASSUME NEW j \in DOMAIN l
               PROVE  /\ m[j] \in Client
                      /\ m[j].port = l[j].port
                      /\ m[j].file = l[j].file
    OBVIOUS
  <2>1. l[j] \in Client
    BY <1>1, EntryType
  <2>2. m[j] = IF j = i THEN [l[j] EXCEPT !.timestamp = t] ELSE l[j]
    OBVIOUS
  <2> QED
    BY <2>1, <2>2 DEF Client
<1>4. m \in Seq(Client) /\ Len(m) = Len(l)
  BY <1>1, <1>2, <1>3
<1>5. OneToOne(m) /\ Ports(m) = Ports(l)
  BY <1>2, <1>3 DEF ListOK, OneToOne, Ports
<1>6. \A r : Knows(l, r) => Knows(m, r)
  BY <1>2, <1>3 DEF Knows
<1> QED
  BY <1>4, <1>5, <1>6 DEF ListOK

(* A newcomer takes over the oldest port. *)
LEMMA TakenOver ==
    ASSUME NEW l, ListOK(l, LastPort), NEW f \in File, f \notin Files(l),
           NEW t \in Nat
    PROVE  /\ l[Oldest(l)].port \in Nat
           /\ ListOK(InsertInList(l, [CreateOdrClient(f, l[Oldest(l)].port)
                                        EXCEPT !.timestamp = t]), LastPort)
<1> DEFINE o == Oldest(l)
           e == [CreateOdrClient(f, l[o].port) EXCEPT !.timestamp = t]
           m == [l EXCEPT ![FindPort(l, l[o].port)].file = f]
<1>1. l \in Seq(Client) /\ OneToOne(l)
  BY DEF ListOK
<1>2. o \in DOMAIN l
  <2>1. Len(l) >= 2
    BY PortAssumption DEF ListOK
  <2> QED
    BY <1>1, <2>1, OldestInList
<1>3. l[o].port \in Nat
  BY <1>1, <1>2, EntryType
<1>4. InsertInList(l, e) = m
  BY <1>2 DEF InsertInList, CreateOdrClient, Ports
<1>5. FindPort(l, l[o].port) = o
  BY <1>1, <1>2, FindPortUnique
<1>6. DOMAIN m = DOMAIN l
  OBVIOUS
<1>7. \A j \in DOMAIN l : /\ m[j] \in Client
                          /\ m[j].port = l[j].port
                          /\ m[j].file = IF j = o THEN f ELSE l[j].file
  <2> SUFFICES ASSUME NEW j \in DOMAIN l
               PROVE  /\ m[j] \in Client
                      /\ m[j].port = l[j].port
                      /\ m[j].file = IF j = o THEN f ELSE l[j].file
    OBVIOUS
  <2>1. l[j] \in Client
    BY <1>1, EntryType
  <2>2. m[j] = IF j = o THEN [l[j] EXCEPT !.file = f] ELSE l[j]
    BY <1>5
  <2> QED
    BY <2>1, <2>2 DEF Client
<1>8. m \in Seq(Client) /\ Len(m) = Len(l)
  <2>1. m = [j \in DOMAIN l |-> m[j]]
    OBVIOUS
  <2>2. \A j \in DOMAIN l : m[j] \in Client
    BY <1>7
  <2> HIDE DEF m
  <2> QED
    BY <1>1, <2>1, <2>2, Reshaped
<1> HIDE DEF m
<1>9. OneToOne(m) /\ Ports(m) = Ports(l)
  BY <1>1, <1>6, <1>7 DEF OneToOne, Ports, Files
<1> QED
  BY <1>3, <1>4, <1>8, <1>9 DEF ListOK

(* A client with the next port is put in front of the list. *)
LEMMA PutInFront ==
    ASSUME NEW l, NEW g \in ServerPort..LastPort, ListOK(l, g),
           NEW e \in Client, e.port = g + 1, e.file \notin Files(l),
           NEW m, m = <<e>> \o l
    PROVE  /\ ListOK(m, g + 1)
           /\ \A r : Knows(l, r) => Knows(m, r)
           /\ Knows(m, [file |-> e.file, port |-> g + 1])
<1>1. l \in Seq(Client) /\ OneToOne(l) /\ Ports(l) \subseteq ServerPort..g
      /\ Len(l) = g - ServerPort
  BY DEF ListOK
<1>2. ServerPort \in Nat /\ g \in Nat
  BY PortAssumption
<1>3. /\ m \in Seq(Client)
      /\ Len(m) = Len(l) + 1
      /\ m[1] = e
      /\ \A i \in DOMAIN l : m[i + 1] = l[i]
  <2>1. l \in Seq(Client)
    BY <1>1
  <2> QED
    BY <2>1, Prepended
<1>4. m[1] = e /\ \A i \in DOMAIN l : i + 1 \in DOMAIN m /\ m[i + 1] = l[i]
  <2>1. \A i \in DOMAIN l : i + 1 \in DOMAIN m
    BY <1>1, <1>3
  <2> QED
    BY <2>1, <1>3
<1>5. \A j \in DOMAIN m : j = 1 \/ (j - 1 \in DOMAIN l /\ m[j] = l[j - 1])
  <2> SUFFICES ASSUME NEW j \in DOMAIN m, j # 1
               PROVE  j - 1 \in DOMAIN l /\ m[j] = l[j - 1]
    OBVIOUS
  <2>1. j - 1 \in DOMAIN l /\ (j - 1) + 1 = j
    BY <1>1, <1>3
  <2> QED
    BY <2>1, <1>4
<1>6. Ports(m) \subseteq ServerPort..(g + 1)
  <2> SUFFICES ASSUME NEW j \in DOMAIN m
               PROVE  m[j].port \in ServerPort..(g + 1)
    BY DEF Ports
  <2>1. CASE j = 1
    BY <2>1, <1>2, <1>4
  <2>2. CASE j # 1
    <3>1. m[j].port \in Ports(l)
      BY <2>2, <1>5 DEF Ports
    <3> QED
      BY <3>1, <1>1, <1>2
  <2> QED
    BY <2>1, <2>2
<1>7. OneToOne(m)
  <2> SUFFICES ASSUME NEW i \in DOMAIN m, NEW j \in DOMAIN m,
                      m[i].port = m[j].port \/ m[i].file = m[j].file
               PROVE  i = j
    BY DEF OneToOne
  <2>1. \A k \in DOMAIN l : l[k].port # g + 1 /\ l[k].file # e.file
    <3>1. g + 1 \notin Ports(l)
      BY <1>1, <1>2
    <3> QED
      BY <3>1 DEF Ports, Files
  <2>2. i \in Nat /\ j \in Nat
    BY <1>3
  <2>3. i = 1 \/ j = 1 => i = 1 /\ j = 1
    BY <1>4, <1>5, <2>1
  <2>4. i # 1 /\ j # 1 => i - 1 = j - 1
    BY <1>1, <1>5 DEF OneToOne
  <2> QED
    BY <2>2, <2>3, <2>4
<1>8. \A r : Knows(l, r) => Knows(m, r)
  BY <1>4 DEF Knows
<1>9. Knows(m, [file |-> e.file, port |-> g + 1])
  <2>1. 1 \in DOMAIN m
    BY <1>1, <1>3
  <2> QED
    BY <2>1, <1>4 DEF Knows
<1>10. Len(m) = (g + 1) - ServerPort
  BY <1>1, <1>2, <1>3
<1> QED
  BY <1>3, <1>6, <1>7, <1>8, <1>9, <1>10 DEF ListOK

(* A newcomer gets the next port. *)
LEMMA Joined ==
    ASSUME NEW l, NEW g \in ServerPort..LastPort, ListOK(l, g),
           NEW f \in File, f \notin Files(l), NEW t \in Nat,
           NEW m, m = InsertInList(l, [CreateOdrClient(f, g + 1)
                                        EXCEPT !.timestamp = t])
    PROVE  /\ ListOK(m, g + 1)
           /\ \A r : Knows(l, r) => Knows(m, r)
           /\ Knows(m, [file |-> f, port |-> g + 1])
<1> DEFINE e == [file |-> f, port |-> g + 1, timestamp |-> t]
<1>1. g + 1 \notin Ports(l)
  BY PortAssumption DEF ListOK
<1>2. m = <<e>> \o l
  BY <1>1 DEF InsertInList, CreateOdrClient
<1>3. e \in Client /\ e.port = g + 1 /\ e.file = f
  BY PortAssumption DEF Client
<1> HIDE DEF e
<1>4. /\ ListOK(m, g + 1)
      /\ \A r : Knows(l, r) => Knows(m, r)
      /\ Knows(m, [file |-> e.file, port |-> g + 1])
  BY <1>2, <1>3, PutInFront
<1> QED
  BY <1>3, <1>4

-----------------------------------------------------------------------------
(* The invariant. *)

LEMMA InitIInv == Init => IInv
<1> SUFFICES ASSUME Init
             PROVE  IInv
  OBVIOUS
<1> DEFINE e == CreateOdrClient(ServerFile, ServerPort)
<1>1. client_list = <<e>>
  <2>1. InsertInList(<<>>, e) = <<e>>
    BY DEF InsertInList, Ports
  <2> QED
    BY <2>1 DEF Init
<1>2. e \in Client /\ e.port = ServerPort
  BY PortAssumption DEF CreateOdrClient, Client
<1> HIDE DEF e
<1>3. client_list \in Seq(Client) /\ Len(client_list) = 1 /\ client_list[1] = e
  BY <1>1, <1>2
<1>4. Ports(client_list) = {ServerPort} /\ OneToOne(client_list)
  BY <1>2, <1>3 DEF Ports, OneToOne
<1>5. ListOK(client_list, ServerPort + 1)
  BY <1>3, <1>4, PortAssumption DEF ListOK
<1> QED
  BY <1>5, PortAssumption DEF Init, IInv

LEMMA RouteToSelfKeeps ==
    ASSUME IInv, NEW port, RouteToSelf(port)
    PROVE  /\ ListOK(client_list', g_next_ephemeral_port)
           /\ \A r : Knows(client_list, r) => Knows(client_list', r)
<1>1. CASE port \in Ports(client_list) /\ client_list[FindPort(client_list, port)].file \in bound
  BY <1>1, Refreshed, FindPortFinds DEF RouteToSelf, IInv
<1>2. CASE ~(port \in Ports(client_list) /\ client_list[FindPort(client_list, port)].file \in bound)
  BY <1>2 DEF RouteToSelf, IInv
<1> QED
  BY <1>1, <1>2

LEMMA NextIInv == IInv /\ [Next]_vars => IInv'
<1> SUFFICES ASSUME IInv, [Next]_vars
             PROVE  IInv'
  OBVIOUS
<1>1. ASSUME NEW f \in File, Start(f)
      PROVE  IInv'
  BY <1>1 DEF Start, IInv, Exhausted
<1>2. ASSUME NEW f \in File, Exit(f)
      PROVE  IInv'
  BY <1>2 DEF Exit, IInv, Exhausted
<1>3. ASSUME NEW f \in File, RegisterAgain(f)
      PROVE  IInv'
  <2> DEFINE i == FindName(client_list, f)
             r == [file |-> f, port |-> client_list[i].port]
  <2>1. i \in DOMAIN client_list /\ client_list[i].file = f
    BY <1>3, FindNameFinds DEF RegisterAgain
  <2>2. client_list[i].port \in Nat
    BY <2>1, EntryType DEF IInv, ListOK
  <2>3. Knows(client_list, r)
    BY <2>1 DEF Knows
  <2>4. /\ ListOK(client_list', g_next_ephemeral_port)
        /\ \A s : Knows(client_list, s) => Knows(client_list', s)
    BY <1>3, <2>1, Refreshed DEF RegisterAgain, IInv
  <2>5. asked' = asked \cup {r}
        /\ UNCHANGED <<g_next_ephemeral_port, now, bound>>
    BY <1>3 DEF RegisterAgain
  <2> QED
    BY <2>2, <2>3, <2>4, <2>5 DEF IInv, Exhausted
<1>4. ASSUME NEW f \in File, Register(f)
      PROVE  IInv'
  <2> DEFINE port == NextEphemeralPort(client_list)
             r == [file |-> f, port |-> port]
  <2>1. f \notin Files(client_list) /\ now \in Nat
    BY <1>4 DEF Register, IInv
  <2>2. UNCHANGED <<now, bound>> /\ asked' = asked \cup {r}
    BY <1>4 DEF Register
  <2>3. CASE Exhausted
    <3>1. port = client_list[Oldest(client_list)].port
          /\ g_next_ephemeral_port' = g_next_ephemeral_port
          /\ g_next_ephemeral_port = LastPort
      BY <1>4, <2>3 DEF Register, NextEphemeralPort, Exhausted
    <3>2. port \in Nat /\ ListOK(client_list', LastPort)
      BY <1>4, <2>1, <3>1, TakenOver DEF Register, IInv
    <3> QED
      BY <2>2, <3>1, <3>2 DEF IInv, Exhausted
  <2>4. CASE ~Exhausted
    <3>1. port = g_next_ephemeral_port + 1 /\ g_next_ephemeral_port' = port
      BY <1>4, <2>4 DEF Register, NextEphemeralPort
    <3>2. /\ ListOK(client_list', port)
          /\ \A s : Knows(client_list, s) => Knows(client_list', s)
          /\ Knows(client_list', r)
      BY <1>4, <2>1, <3>1, Joined DEF Register, IInv
    <3>3. port \in ServerPort..LastPort /\ port \in Nat
      BY <2>4, <3>1, PortAssumption DEF IInv, Exhausted
    <3> QED
      BY <2>2, <2>4, <3>1, <3>2, <3>3 DEF IInv
  <2> QED
    BY <2>3, <2>4
<1>5. ASSUME NEW r \in asked, AnswerArrives(r)
      PROVE  IInv'
  BY <1>5, RouteToSelfKeeps DEF AnswerArrives, IInv, Exhausted
<1>6. CASE RequestArrives
  BY <1>6, RouteToSelfKeeps DEF RequestArrives, IInv, Exhausted
<1>7. CASE Pass
  BY <1>7 DEF Pass, IInv, Exhausted
<1>8. CASE UNCHANGED vars
  BY <1>8 DEF vars, IInv, Exhausted
<1> QED
  BY <1>1, <1>2, <1>3, <1>4, <1>5, <1>6, <1>7, <1>8 DEF Next

(* The invariant holds in every reachable state. *)
THEOREM Invariant == Spec => []IInv
BY InitIInv, NextIInv, PTL DEF Spec

(* Entries are clients with ports from the range, and so are the requests  *)
(* that wait for answers.                                                  *)
THEOREM TypeCorrect == Spec => []TypeOK
<1>1. IInv => TypeOK
  BY PortAssumption DEF IInv, ListOK, TypeOK
<1> QED
  BY <1>1, Invariant, PTL

(* Whatever processes come and go, and however often ports change hands,   *)
(* register_odr_client and insert_in_odr_client_list keep ports and files  *)
(* one-to-one.                                                             *)
THEOREM RegistryOneToOneHolds == Spec => []RegistryOneToOne
<1>1. IInv => RegistryOneToOne
  BY DEF IInv, ListOK, OneToOne, RegistryOneToOne
<1> QED
  BY <1>1, Invariant, PTL

(* The list does not outgrow the range of ports. *)
THEOREM ListBoundedHolds == Spec => []ListBounded
<1>1. IInv => ListBounded
  BY PortAssumption DEF IInv, ListOK, ListBounded
<1> QED
  BY <1>1, Invariant, PTL

(* Until ports run out, an answer goes to the process that asked. *)
THEOREM PortsKeptHolds == Spec => []PortsKept
<1>1. IInv => PortsKept
  BY KnowsOwner DEF IInv, ListOK, PortsKept, Owner
<1> QED
  BY <1>1, Invariant, PTL
=============================================================================
