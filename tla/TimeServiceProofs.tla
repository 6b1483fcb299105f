------------------------- MODULE TimeServiceProofs -------------------------
(***************************************************************************)
(* Theorems about TimeService, for every set of clients and servers and    *)
(* any number of questions.                                                *)
(***************************************************************************)
EXTENDS TimeService, FiniteSetTheorems, SequenceTheorems, TLAPS

(* All messages there are. *)
Messages == wire \cup UNION {Range(inbox[p]) : p \in Process}

(* The same request, or what became of it. *)
SameRequest(m, k) == m.session = k.session /\ m.attempt = k.attempt

(* Every message is in one place. *)
Placed ==
    /\ \A p \in Process : \A i \in DOMAIN inbox[p] :
          /\ inbox[p][i].to = p
          /\ inbox[p][i] \notin wire
          /\ \A j \in DOMAIN inbox[p] : inbox[p][i] = inbox[p][j] => i = j

(* There is one message for each request. *)
Keyed == \A m, k \in Messages : SameRequest(m, k) => m = k

(* Questions are numbered; a client that waits for the first time has not  *)
(* sent its forced request.                                                *)
Numbered ==
    /\ \A m \in Messages : m.session <= sessions
    /\ \A c \in Client :
          /\ session[c] <= sessions
          /\ pc[c] # "prompt" => session[c] > 0
          /\ \A d \in Client : session[c] = session[d] /\ session[c] > 0 => c = d
          /\ pc[c] = "first" =>
                \A m \in Messages : m.session = session[c] => m.attempt = "first"

Stale(c) == {m \in Pending(c) : ~Expected(c, m)}

Bounded ==
    \A c \in running \cap Client :
        IsFiniteSet(Stale(c)) /\ Cardinality(Stale(c)) <= timeouts[c]

IInv == TypeOK /\ Placed /\ Keyed /\ Numbered /\ Bounded

-----------------------------------------------------------------------------
(* Sets. *)

(* One element, x, has been replaced by another, or none. *)
LEMMA Replacing ==
    ASSUME NEW S, IsFiniteSet(S), NEW x, NEW y, NEW T,
           T \subseteq (S \ {x}) \cup {y},
           y \in T => x \in S \/ y \in S
    PROVE  IsFiniteSet(T) /\ Cardinality(T) <= Cardinality(S)
<1>1. Cardinality(S) \in Nat
  BY FS_CardinalityType
<1>2. CASE T \subseteq S
  BY <1>2, FS_Subset
<1>3. CASE ~(T \subseteq S)
  <2>1. x \in S /\ y \notin S /\ y \notin S \ {x}
    BY <1>3
  <2>2. IsFiniteSet(S \ {x}) /\ Cardinality(S \ {x}) = Cardinality(S) - 1
    BY <2>1, FS_RemoveElement
  <2>3. /\ IsFiniteSet((S \ {x}) \cup {y})
        /\ Cardinality((S \ {x}) \cup {y}) = (Cardinality(S) - 1) + 1
    BY <2>1, <2>2, FS_AddElement
  <2>4. /\ IsFiniteSet(T)
        /\ Cardinality(T) <= Cardinality((S \ {x}) \cup {y})
    BY <2>3, FS_Subset
  <2> QED
    BY <1>1, <2>3, <2>4
<1> QED
  BY <1>2, <1>3

LEMMA Adding ==
    ASSUME NEW S, IsFiniteSet(S), NEW y, NEW T, T \subseteq S \cup {y}
    PROVE  IsFiniteSet(T) /\ Cardinality(T) <= Cardinality(S) + 1
<1>1. Cardinality(S) \in Nat
  BY FS_CardinalityType
<1>2. /\ IsFiniteSet(S \cup {y})
      /\ Cardinality(S \cup {y}) =
            IF y \in S THEN Cardinality(S) ELSE Cardinality(S) + 1
  BY FS_AddElement
<1>3. IsFiniteSet(T) /\ Cardinality(T) <= Cardinality(S \cup {y})
  BY <1>2, FS_Subset
<1>4. Cardinality(T) \in Nat
  BY <1>3, FS_CardinalityType
<1> QED
  BY <1>1, <1>2, <1>3, <1>4

-----------------------------------------------------------------------------
(* Messages. *)

LEMMA MessageFacts ==
    ASSUME NEW m \in Message
    PROVE  /\ m.session \in 1..MaxSessions /\ m.attempt \in Attempt
           /\ m.client \in Client /\ m.server \in Server
           /\ m.kind \in {"request", "answer", "error"}
           /\ m.to \in {m.client, m.server} /\ m.to \in Process
           /\ m.kind = "request" => m.to = m.server
           /\ m.kind = "answer" => m.to = m.client
           /\ m.client # m.server
BY ProcessAssumption DEF Message

LEMMA RequestFacts ==
    ASSUME NEW n \in 1..MaxSessions, NEW a \in Attempt, NEW c \in Client,
           NEW s \in Server
    PROVE  Request(n, a, c, s) \in Message
BY DEF Request, Message, Process

LEMMA AnswerFacts ==
    ASSUME NEW m \in Message
    PROVE  /\ Answer(m) \in Message
           /\ SameRequest(m, Answer(m))
           /\ Answer(m).client = m.client
BY DEF Answer, Message, Process, SameRequest

LEMMA BounceFacts ==
    ASSUME NEW m \in Message, m.kind # "error"
    PROVE  /\ Bounce(m) \in Message
           /\ SameRequest(m, Bounce(m))
           /\ Bounce(m).client = m.client
BY DEF Bounce, Message, Process, SameRequest

LEMMA AllTyped ==
    ASSUME TypeOK
    PROVE  Messages \subseteq Message
<1> SUFFICES ASSUME NEW p \in Process
             PROVE  Range(inbox[p]) \subseteq Message
  BY DEF TypeOK, Messages
<1>1. inbox[p] \in Seq(Message)
  BY DEF TypeOK
<1> QED
  BY <1>1 DEF Range

(* What is in a socket, and where. *)
LEMMA InSocket ==
    ASSUME NEW p \in Process, NEW i \in DOMAIN inbox[p]
    PROVE  inbox[p][i] \in Messages
BY DEF Messages, Range

LEMMA PendingIs ==
    ASSUME NEW c
    PROVE  Pending(c) =
              {m \in Messages : m.client = c /\ ~(m.kind = "error" /\ m.to # c)}
BY DEF Pending, Messages

-----------------------------------------------------------------------------
(* Steps that make no new request. *)

Lost(m) == m.kind = "error" /\ m.to # m.client

(* x becomes y, or messages only go away. *)
Replaced(x, y) ==
    \/ Messages' \subseteq Messages
    \/ /\ x \in Messages
       /\ Messages' \subseteq (Messages \ {x}) \cup {y}
       /\ SameRequest(x, y)
       /\ y.client = x.client
       /\ Lost(x) => Lost(y)

LEMMA ReplacedKeeps ==
    ASSUME IInv, TypeOK', Placed', running' \subseteq running,
           UNCHANGED <<pc, session, sessions, timeouts>>,
           NEW x, NEW y, Replaced(x, y)
    PROVE  IInv'
<1>1. \A m \in Messages' : m \in Messages \/ (x \in Messages /\ m = y)
  BY DEF Replaced
<1>2. Keyed'
  <2> SUFFICES ASSUME NEW m \in Messages', NEW k \in Messages',
                      SameRequest(m, k)
               PROVE  m = k
    BY DEF Keyed, SameRequest
  <2>1. CASE Messages' \subseteq Messages
    BY <2>1 DEF IInv, Keyed
  <2>2. CASE /\ x \in Messages
             /\ Messages' \subseteq (Messages \ {x}) \cup {y}
             /\ SameRequest(x, y)
    <3>1. m # y /\ k # y => m = k
      BY <2>2 DEF IInv, Keyed
    <3>2. m = y /\ k # y => k = x
      BY <2>2 DEF IInv, Keyed, SameRequest
    <3>3. m # y /\ k = y => m = x
      BY <2>2 DEF IInv, Keyed, SameRequest
    <3> QED
      BY <2>2, <3>1, <3>2, <3>3
  <2> QED
    BY <2>1, <2>2 DEF Replaced
<1>3. Numbered'
  <2>1. \A m \in Messages' : \E k \in Messages : SameRequest(m, k)
    <3> SUFFICES ASSUME NEW m \in Messages', m \notin Messages
                 PROVE  \E k \in Messages : SameRequest(m, k)
      BY DEF SameRequest
    <3> QED
      BY DEF Replaced, SameRequest
  <2>2. \A m \in Messages' : m.session <= sessions
    BY <2>1 DEF IInv, Numbered, SameRequest
  <2>3. ASSUME NEW c \in Client, pc[c] = "first", NEW m \in Messages',
               m.session = session[c]
        PROVE  m.attempt = "first"
    BY <2>1, <2>3 DEF IInv, Numbered, SameRequest
  <2> QED
    BY <2>2, <2>3 DEF IInv, Numbered
<1>4. Bounded'
  <2> SUFFICES ASSUME NEW c \in running' \cap Client
               PROVE  /\ IsFiniteSet(Stale(c)')
                      /\ Cardinality(Stale(c)') <= timeouts'[c]
    BY DEF Bounded
  <2>1. /\ IsFiniteSet(Stale(c))
        /\ Cardinality(Stale(c)) <= timeouts[c]
        /\ timeouts[c] \in Nat /\ c \in running /\ c \in running'
    BY DEF IInv, Bounded, TypeOK
  <2>2. Stale(c) = {m \in Messages : /\ m.client = c
                                     /\ ~(m.kind = "error" /\ m.to # c)
                                     /\ ~Expected(c, m)}
    BY PendingIs DEF Stale
  <2>3. Stale(c)' = {m \in Messages' : /\ m.client = c
                                       /\ ~(m.kind = "error" /\ m.to # c)
                                       /\ ~Expected(c, m)}
    BY <2>1 DEF Stale, Pending, Messages, Expected, Waits
  <2>4. Stale(c)' \subseteq Stale(c)
        \/ /\ Stale(c)' \subseteq (Stale(c) \ {x}) \cup {y}
           /\ y \in Stale(c)' => x \in Stale(c) \/ y \in Stale(c)
    <3>1. CASE Messages' \subseteq Messages
      BY <2>2, <2>3, <3>1
    <3>2. CASE ~(Messages' \subseteq Messages)
      <4>1. /\ x \in Messages
            /\ Messages' \subseteq (Messages \ {x}) \cup {y}
            /\ SameRequest(x, y) /\ y.client = x.client
            /\ Lost(x) => Lost(y)
        BY <3>2 DEF Replaced
      <4>2. Expected(c, x) <=> Expected(c, y)
        BY <4>1 DEF Expected, SameRequest
      <4>3. y \in Stale(c)' => x \in Stale(c)
        BY <2>2, <2>3, <4>1, <4>2 DEF Lost
      <4> QED
        BY <2>2, <2>3, <4>1, <4>3
    <3> QED
      BY <3>1, <3>2
  <2> DEFINE S == Stale(c)
             T == Stale(c)'
  <2> HIDE DEF S, T
  <2>5. IsFiniteSet(S) /\ Cardinality(S) <= timeouts[c] /\ Cardinality(S) \in Nat
    BY <2>1, FS_CardinalityType DEF S
  <2>6. IsFiniteSet(T) /\ Cardinality(T) <= Cardinality(S)
    <3>1. CASE T \subseteq S
      BY <2>5, <3>1, FS_Subset
    <3>2. CASE T \subseteq (S \ {x}) \cup {y} /\ (y \in T => x \in S \/ y \in S)
      BY <2>5, <3>2, Replacing
    <3> QED
      BY <2>4, <3>1, <3>2 DEF S, T
  <2>7. Cardinality(T) \in Nat
    BY <2>6, FS_CardinalityType
  <2>8. Cardinality(T) <= timeouts[c]
    BY <2>1, <2>5, <2>6, <2>7
  <2> QED
    BY <2>6, <2>8 DEF T
<1> QED
  BY <1>2, <1>3, <1>4 DEF IInv

-----------------------------------------------------------------------------
(* Messages on the wire and in sockets. *)

(* A process takes the first message out of its socket. *)
LEMMA Taken ==
    ASSUME IInv, NEW p \in Process, inbox[p] # <<>>,
           inbox' = [inbox EXCEPT ![p] = Tail(@)],
           NEW h, h = Head(inbox[p])
    PROVE  /\ h \in Messages /\ h \in Message /\ h.to = p
           /\ inbox' \in [Process -> Seq(Message)]
           /\ UNION {Range(inbox'[q]) : q \in Process} \subseteq Messages \ {h}
           /\ \A q \in Process : \A i \in DOMAIN inbox'[q] :
                 /\ inbox'[q][i].to = q
                 /\ inbox'[q][i] \notin wire
                 /\ \A j \in DOMAIN inbox'[q] :
                       inbox'[q][i] = inbox'[q][j] => i = j
<1>1. inbox \in [Process -> Seq(Message)] /\ inbox[p] \in Seq(Message)
  BY DEF IInv, TypeOK
<1>2. /\ 1 \in DOMAIN inbox[p] /\ h = inbox[p][1] /\ h \in Message
      /\ Tail(inbox[p]) \in Seq(Message)
      /\ Len(Tail(inbox[p])) = Len(inbox[p]) - 1
      /\ \A i \in 1..Len(Tail(inbox[p])) : Tail(inbox[p])[i] = inbox[p][i + 1]
  BY <1>1, HeadTailProperties
<1>3. h \in Messages /\ h.to = p
  BY <1>2, InSocket DEF IInv, Placed
<1>4. inbox' \in [Process -> Seq(Message)]
  BY <1>1, <1>2
<1>5. \A i \in DOMAIN inbox'[p] : /\ i + 1 \in DOMAIN inbox[p]
                                  /\ inbox'[p][i] = inbox[p][i + 1]
                                  /\ i \in Nat /\ i + 1 # 1
  <2>1. inbox'[p] = Tail(inbox[p])
    BY <1>1
  <2> QED
    BY <1>1, <1>2, <2>1
<1>6. \A q \in Process \ {p} : inbox'[q] = inbox[q]
  BY <1>1
<1>7. ASSUME NEW q \in Process, NEW i \in DOMAIN inbox'[q]
      PROVE  /\ inbox'[q][i] \in Messages \ {h}
             /\ inbox'[q][i].to = q
             /\ inbox'[q][i] \notin wire
             /\ \A j \in DOMAIN inbox'[q] : inbox'[q][i] = inbox'[q][j] => i = j
  <2>1. CASE q = p
    <3>1. /\ inbox'[q][i] \in Messages
          /\ inbox'[q][i].to = q
          /\ inbox'[q][i] \notin wire
      BY <1>5, <2>1, InSocket DEF IInv, Placed
    <3>2. inbox'[q][i] # h
      BY <1>2, <1>5, <2>1 DEF IInv, Placed
    <3>3. ASSUME NEW j \in DOMAIN inbox'[q], inbox'[q][i] = inbox'[q][j]
          PROVE  i = j
      <4>1. i + 1 = j + 1
        BY <1>5, <2>1, <3>3 DEF IInv, Placed
      <4> QED
        BY <1>5, <2>1, <4>1
    <3> QED
      BY <3>1, <3>2, <3>3
  <2>2. CASE q # p
    <3>1. i \in DOMAIN inbox[q] /\ inbox'[q] = inbox[q]
      BY <1>6, <2>2
    <3>2. /\ inbox[q][i] \in Messages
          /\ inbox[q][i].to = q
          /\ inbox[q][i] \notin wire
          /\ \A j \in DOMAIN inbox[q] : inbox[q][i] = inbox[q][j] => i = j
      BY <3>1, InSocket DEF IInv, Placed
    <3> QED
      BY <1>3, <2>2, <3>1, <3>2
  <2> QED
    BY <2>1, <2>2
<1>8. UNION {Range(inbox'[q]) : q \in Process} \subseteq Messages \ {h}
  BY <1>7 DEF Range
<1> QED
  BY <1>2, <1>3, <1>4, <1>7, <1>8

LEMMA ServeKeeps ==
    ASSUME IInv, NEW s \in Server, Serve(s)
    PROVE  IInv'
<1> DEFINE h == Head(inbox[s])
<1>1. /\ s \in Process /\ inbox[s] # <<>>
      /\ inbox' = [inbox EXCEPT ![s] = Tail(@)]
      /\ UNCHANGED <<pc, session, target, running, sessions, timeouts>>
  BY DEF Serve, Process
<1>2. /\ h \in Messages /\ h \in Message /\ h.to = s
      /\ inbox' \in [Process -> Seq(Message)]
      /\ UNION {Range(inbox'[q]) : q \in Process} \subseteq Messages \ {h}
      /\ \A q \in Process : \A i \in DOMAIN inbox'[q] :
            /\ inbox'[q][i].to = q
            /\ inbox'[q][i] \notin wire
            /\ \A j \in DOMAIN inbox'[q] : inbox'[q][i] = inbox'[q][j] => i = j
  BY <1>1, Taken
<1>3. wire' = IF h.kind = "request" THEN wire \cup {Answer(h)} ELSE wire
  BY DEF Serve
<1> HIDE DEF h
<1>4. /\ Answer(h) \in Message
      /\ SameRequest(h, Answer(h))
      /\ Answer(h).client = h.client
      /\ Answer(h).kind = "answer"
  BY <1>2, AnswerFacts DEF Answer, Message
<1>5. h \notin wire
  <2>1. h = inbox[s][1] /\ 1 \in DOMAIN inbox[s]
    BY <1>1, HeadTailProperties DEF IInv, TypeOK, h
  <2> QED
    BY <1>1, <2>1 DEF IInv, Placed
<1>6. CASE h.kind = "request"
  <2>1. wire' = wire \cup {Answer(h)}
    BY <1>3, <1>6
  <2>2. TypeOK'
    BY <1>1, <1>2, <1>4, <2>1 DEF IInv, TypeOK
  <2>3. Messages' \subseteq (Messages \ {h}) \cup {Answer(h)}
    BY <1>2, <1>5, <2>1 DEF Messages
  <2>4. Replaced(h, Answer(h))
    BY <1>2, <1>4, <1>6, <2>3 DEF Replaced, Lost
  <2>5. Placed'
    <3>1. \A m \in Messages \ {h} : m # Answer(h)
      BY <1>2, <1>4 DEF IInv, Keyed, SameRequest
    <3>2. \A q \in Process : \A i \in DOMAIN inbox'[q] :
             inbox'[q][i] \in Messages \ {h}
      BY <1>2 DEF Range
    <3> QED
      BY <1>2, <2>1, <3>1, <3>2 DEF Placed
  <2> QED
    BY <1>1, <2>2, <2>4, <2>5, ReplacedKeeps
<1>7. CASE h.kind # "request"
  <2>1. wire' = wire
    BY <1>3, <1>7
  <2>2. TypeOK' /\ Placed'
    BY <1>1, <1>2, <2>1 DEF IInv, TypeOK, Placed
  <2>3. Replaced(h, h)
    BY <1>2, <2>1 DEF Replaced, Messages
  <2> QED
    BY <1>1, <2>2, <2>3, ReplacedKeeps
<1> QED
  BY <1>6, <1>7

LEMMA ExitKeeps ==
    ASSUME IInv, NEW p \in Process, Exit(p)
    PROVE  IInv'
<1>1. /\ running' = running \ {p}
      /\ inbox' = [inbox EXCEPT ![p] = <<>>]
      /\ UNCHANGED <<pc, session, target, wire, sessions, timeouts>>
  BY DEF Exit
<1>2. inbox \in [Process -> Seq(Message)]
  BY DEF IInv, TypeOK
<1>3. \A q \in Process : inbox'[q] = IF q = p THEN <<>> ELSE inbox[q]
  BY <1>1, <1>2
<1>4. TypeOK'
  BY <1>1, <1>2, EmptySeq DEF IInv, TypeOK
<1>5. Placed'
  BY <1>1, <1>3 DEF IInv, Placed
<1>6. \A q \in Process : Range(inbox'[q]) \subseteq Range(inbox[q])
  BY <1>3 DEF Range
<1>7. Messages' \subseteq Messages
  BY <1>1, <1>6 DEF Messages
<1> QED
  BY <1>1, <1>4, <1>5, <1>7, ReplacedKeeps DEF Replaced

LEMMA ArriveKeeps ==
    ASSUME IInv, NEW m \in wire, Arrive(m)
    PROVE  IInv'
<1> DEFINE p == m.to
<1>1. /\ wire' = wire \ {m}
      /\ inbox' = [inbox EXCEPT ![p] = Append(@, m)]
      /\ UNCHANGED <<pc, session, target, running, sessions, timeouts>>
  BY DEF Arrive
<1>2. /\ inbox \in [Process -> Seq(Message)] /\ m \in Message
      /\ p \in Process /\ inbox[p] \in Seq(Message)
  BY MessageFacts DEF IInv, TypeOK
<1>3. \A q \in Process : inbox'[q] = IF q = p THEN Append(inbox[p], m)
                                     ELSE inbox[q]
  BY <1>1, <1>2
<1>4. TypeOK'
  BY <1>1, <1>2 DEF IInv, TypeOK
<1>5. ASSUME NEW q \in Process, NEW i \in DOMAIN inbox'[q]
      PROVE  \/ i \in DOMAIN inbox[q] /\ inbox'[q][i] = inbox[q][i]
             \/ q = p /\ i = Len(inbox[p]) + 1 /\ inbox'[q][i] = m
  <2>1. CASE q = p
    <3>1. inbox'[q] = Append(inbox[p], m)
      BY <1>3, <2>1
    <3>2. /\ Len(Append(inbox[p], m)) = Len(inbox[p]) + 1
          /\ Append(inbox[p], m) \in Seq(Message)
          /\ \A k \in 1..Len(inbox[p]) : Append(inbox[p], m)[k] = inbox[p][k]
          /\ Append(inbox[p], m)[Len(inbox[p]) + 1] = m
      BY <1>2, AppendProperties
    <3> QED
      BY <1>2, <2>1, <3>1, <3>2
  <2>2. CASE q # p
    BY <1>3, <2>2
  <2> QED
    BY <2>1, <2>2
<1>6. Placed'
  <2> SUFFICES ASSUME NEW q \in Process, NEW i \in DOMAIN inbox'[q]
               PROVE  /\ inbox'[q][i].to = q
                      /\ inbox'[q][i] \notin wire'
                      /\ \A j \in DOMAIN inbox'[q] :
                            inbox'[q][i] = inbox'[q][j] => i = j
    BY DEF Placed
  <2>1. \A j \in DOMAIN inbox[q] : inbox[q][j] # m
    BY DEF IInv, Placed
  <2>2. inbox'[q][i].to = q
    BY <1>5 DEF IInv, Placed
  <2>3. inbox'[q][i] \notin wire'
    BY <1>1, <1>5 DEF IInv, Placed
  <2>4. ASSUME NEW j \in DOMAIN inbox'[q], inbox'[q][i] = inbox'[q][j]
        PROVE  i = j
    BY <1>5, <2>1, <2>4 DEF IInv, Placed
  <2> QED
    BY <2>2, <2>3, <2>4
<1>7. Messages' \subseteq Messages
  <2>1. \A q \in Process : Range(inbox'[q]) \subseteq Range(inbox[q]) \cup {m}
    BY <1>5 DEF Range
  <2> QED
    BY <1>1, <2>1 DEF Messages
<1> QED
  BY <1>1, <1>4, <1>6, <1>7, ReplacedKeeps DEF Replaced

LEMMA RefuseKeeps ==
    ASSUME IInv, NEW m \in wire, Refuse(m)
    PROVE  IInv'
<1>1. /\ wire' = IF m.kind = "error" THEN wire \ {m}
                 ELSE (wire \ {m}) \cup {Bounce(m)}
      /\ UNCHANGED <<pc, session, target, running, inbox, sessions, timeouts>>
  BY DEF Refuse
<1>2. m \in Message /\ m \in Messages
  BY DEF IInv, TypeOK, Messages
<1>3. CASE m.kind = "error"
  <2>1. wire' = wire \ {m}
    BY <1>1, <1>3
  <2>2. TypeOK' /\ Placed' /\ Messages' \subseteq Messages
    BY <1>1, <2>1 DEF IInv, TypeOK, Placed, Messages
  <2> QED
    BY <1>1, <2>2, ReplacedKeeps DEF Replaced
<1>4. CASE m.kind # "error"
  <2>1. wire' = (wire \ {m}) \cup {Bounce(m)}
    BY <1>1, <1>4
  <2>2. /\ Bounce(m) \in Message
        /\ SameRequest(m, Bounce(m))
        /\ Bounce(m).client = m.client
    BY <1>2, <1>4, BounceFacts
  <2>3. TypeOK'
    BY <1>1, <2>1, <2>2 DEF IInv, TypeOK
  <2>4. \A q \in Process : \A i \in DOMAIN inbox[q] :
           inbox[q][i] # m /\ inbox[q][i] \in Messages
    BY InSocket DEF IInv, Placed
  <2>5. \A q \in Process : \A i \in DOMAIN inbox[q] : inbox[q][i] # Bounce(m)
    BY <1>2, <2>2, <2>4 DEF IInv, Keyed, SameRequest
  <2>6. Placed'
    BY <1>1, <2>1, <2>4, <2>5 DEF IInv, Placed
  <2>7. Messages' \subseteq (Messages \ {m}) \cup {Bounce(m)}
    BY <1>1, <2>1, <2>4 DEF Messages, Range
  <2>8. Replaced(m, Bounce(m))
    BY <1>2, <1>4, <2>2, <2>7 DEF Replaced, Lost
  <2> QED
    BY <1>1, <2>3, <2>6, <2>8, ReplacedKeeps
<1> QED
  BY <1>3, <1>4

LEMMA LoseKeeps ==
    ASSUME IInv, NEW m \in wire, Lose(m)
    PROVE  IInv'
<1>1. /\ wire' = wire \ {m}
      /\ UNCHANGED <<pc, session, target, running, inbox, sessions, timeouts>>
  BY DEF Lose
<1>2. TypeOK' /\ Placed' /\ Messages' \subseteq Messages
  BY <1>1 DEF IInv, TypeOK, Placed, Messages
<1> QED
  BY <1>1, <1>2, ReplacedKeeps DEF Replaced

-----------------------------------------------------------------------------
(* Steps of a client. *)

(* A request that was not there before. *)
LEMMA RequestSent ==
    ASSUME IInv, NEW r \in Message, \A m \in Messages : ~SameRequest(m, r),
           wire' = wire \cup {r}, inbox' = inbox
    PROVE  /\ wire' \subseteq Message
           /\ Placed' /\ Keyed'
           /\ Messages' = Messages \cup {r}
<1>1. r \notin Messages
  BY DEF SameRequest
<1>2. Messages' = Messages \cup {r}
  BY DEF Messages
<1>3. Placed'
  BY <1>1, InSocket DEF IInv, Placed
<1>4. Keyed'
  BY <1>2 DEF IInv, Keyed, SameRequest
<1> QED
  BY <1>2, <1>3, <1>4 DEF IInv, TypeOK

(* What may be taken for an answer by d, before and after a step. *)
LEMMA StaleIs ==
    ASSUME NEW d
    PROVE  /\ Stale(d) = {m \in Messages : /\ m.client = d
                                           /\ ~(m.kind = "error" /\ m.to # d)
                                           /\ ~Expected(d, m)}
           /\ Stale(d)' = {m \in Messages' : /\ m.client = d
                                             /\ ~(m.kind = "error" /\ m.to # d)
                                             /\ ~Expected(d, m)'}
BY DEF Stale, Pending, Messages

(* A client's step makes no difference to the others. *)
LEMMA OthersBounded ==
    ASSUME IInv, NEW c \in Client, running' = running,
           \A d \in Client \ {c} : /\ pc'[d] = pc[d]
                                   /\ session'[d] = session[d]
                                   /\ timeouts'[d] = timeouts[d],
           \A m \in Messages' : m \in Messages \/ m.client = c,
           c \in running => /\ IsFiniteSet(Stale(c)')
                            /\ Cardinality(Stale(c)') <= timeouts'[c]
    PROVE  Bounded'
<1> SUFFICES ASSUME NEW d \in running \cap Client
             PROVE  /\ IsFiniteSet(Stale(d)')
                    /\ Cardinality(Stale(d)') <= timeouts'[d]
  BY DEF Bounded
<1>1. CASE d = c
  BY <1>1
<1>2. CASE d # c
  <2>1. \A m : Expected(d, m)' <=> Expected(d, m)
    BY <1>2 DEF Expected, Waits
  <2>2. Stale(d)' \subseteq Stale(d)
    BY <1>2, <2>1, StaleIs
  <2> DEFINE S == Stale(d)
             T == Stale(d)'
  <2>3. IsFiniteSet(S) /\ Cardinality(S) <= timeouts[d] /\ timeouts[d] \in Nat
    BY DEF IInv, Bounded, TypeOK
  <2>4. T \subseteq S /\ timeouts'[d] = timeouts[d]
    BY <1>2, <2>2
  <2> HIDE DEF S, T
  <2>5. IsFiniteSet(T) /\ Cardinality(T) <= Cardinality(S)
    BY <2>3, <2>4, FS_Subset
  <2>6. Cardinality(T) \in Nat /\ Cardinality(S) \in Nat
    BY <2>3, <2>5, FS_CardinalityType
  <2> QED
    BY <2>3, <2>4, <2>5, <2>6 DEF T
<1> QED
  BY <1>1, <1>2

LEMMA AskKeeps ==
    ASSUME IInv, NEW c \in Client, NEW s \in Server, Ask(c, s)
    PROVE  IInv'
<1> DEFINE n == sessions + 1
<1>0. PICK r : r = Request(n, "first", c, s)
  OBVIOUS
<1>1. /\ c \in running /\ pc[c] = "prompt" /\ sessions < MaxSessions
      /\ sessions' = n
      /\ session' = [session EXCEPT ![c] = n]
      /\ target' = [target EXCEPT ![c] = s]
      /\ wire' = wire \cup {r}
      /\ pc' = [pc EXCEPT ![c] = "first"]
      /\ UNCHANGED <<running, inbox, timeouts>>
  BY <1>0 DEF Ask
<1>2. /\ sessions \in 0..MaxSessions /\ n \in 1..MaxSessions /\ sessions < n
      /\ session \in [Client -> 0..MaxSessions]
      /\ pc \in [Client -> Attempt \cup {"prompt"}]
      /\ Messages \subseteq Message
      /\ timeouts \in [Client -> Nat]
  BY <1>1, AllTyped, ProcessAssumption DEF IInv, TypeOK
<1>3. /\ r \in Message /\ r.session = n /\ r.attempt = "first"
      /\ r.client = c /\ r.kind = "request"
  BY <1>0, <1>2, RequestFacts DEF Request, Attempt
<1> HIDE DEF n
<1>4. \A m \in Messages : m.session \in Nat /\ m.session <= sessions /\ m.session # n
  BY <1>2, MessageFacts DEF IInv, Numbered
<1>5. /\ wire' \subseteq Message /\ Placed' /\ Keyed'
      /\ Messages' = Messages \cup {r}
  BY <1>1, <1>3, <1>4, RequestSent DEF SameRequest
<1>6. TypeOK'
  BY <1>1, <1>2, <1>5 DEF IInv, TypeOK, Attempt
<1>7. Numbered'
  <2>1. \A m \in Messages' : m.session <= sessions'
    BY <1>1, <1>2, <1>3, <1>4, <1>5
  <2>2. \A d \in Client : /\ session'[d] = IF d = c THEN n ELSE session[d]
                          /\ pc'[d] = IF d = c THEN "first" ELSE pc[d]
                          /\ session[d] <= sessions /\ session[d] \in Nat
    BY <1>1, <1>2 DEF IInv, Numbered
  <2>3. ASSUME NEW d \in Client, NEW e \in Client, session'[d] = session'[e],
               session'[d] > 0
        PROVE  d = e
    BY <1>2, <2>2, <2>3 DEF IInv, Numbered
  <2>4. ASSUME NEW d \in Client, pc'[d] = "first", NEW m \in Messages',
               m.session = session'[d]
        PROVE  m.attempt = "first"
    <3>1. CASE m = r
      BY <1>3, <3>1
    <3>2. CASE m # r /\ d = c
      BY <1>4, <1>5, <2>2, <2>4, <3>2
    <3>3. CASE m # r /\ d # c
      BY <1>5, <2>2, <2>4, <3>3 DEF IInv, Numbered
    <3> QED
      BY <3>1, <3>2, <3>3
  <2>5. \A d \in Client : /\ session'[d] <= sessions'
                          /\ pc'[d] # "prompt" => session'[d] > 0
    BY <1>1, <1>2, <2>2 DEF IInv, Numbered
  <2> QED
    BY <2>1, <2>3, <2>4, <2>5 DEF Numbered
<1>8. Bounded'
  <2>1. Expected(c, r)'
    BY <1>1, <1>2, <1>3 DEF Expected, Waits, Attempt
  <2>2. \A m : ~Expected(c, m)
    BY <1>1 DEF Expected, Waits, Attempt
  <2>3. Stale(c)' \subseteq Stale(c)
    BY <1>5, <2>1, <2>2, StaleIs
  <2> DEFINE S == Stale(c)
             T == Stale(c)'
  <2>4. IsFiniteSet(S) /\ Cardinality(S) <= timeouts[c]
    BY <1>1 DEF IInv, Bounded
  <2>5. T \subseteq S /\ timeouts'[c] = timeouts[c] /\ timeouts[c] \in Nat
    BY <1>1, <1>2, <2>3
  <2> HIDE DEF S, T
  <2>6. IsFiniteSet(T) /\ Cardinality(T) <= Cardinality(S)
    BY <2>4, <2>5, FS_Subset
  <2>7. Cardinality(T) \in Nat /\ Cardinality(S) \in Nat
    BY <2>4, <2>6, FS_CardinalityType
  <2>8. IsFiniteSet(Stale(c)') /\ Cardinality(Stale(c)') <= timeouts'[c]
    BY <2>4, <2>5, <2>6, <2>7 DEF T
  <2>9. \A d \in Client \ {c} : /\ pc'[d] = pc[d]
                                /\ session'[d] = session[d]
                                /\ timeouts'[d] = timeouts[d]
    BY <1>1, <1>2
  <2> QED
    BY <1>1, <1>3, <1>5, <2>8, <2>9, OthersBounded
<1> QED
  BY <1>5, <1>6, <1>7, <1>8 DEF IInv

(* At most one message is expected. *)
LEMMA OneExpected ==
    ASSUME IInv, NEW c \in Client
    PROVE  \E e : \A m \in Messages : Expected(c, m) => m = e
BY DEF IInv, Keyed, Expected, SameRequest

(* A read that times out leaves at most one message behind. *)
LEMMA TimedOut ==
    ASSUME IInv, NEW c \in Client, c \in running, running' = running,
           timeouts' = [timeouts EXCEPT ![c] = @ + 1],
           \A d \in Client \ {c} : pc'[d] = pc[d],
           session' = session,
           \A m \in Messages' :
              m \in Messages \/ (m.client = c /\ Expected(c, m)')
    PROVE  Bounded'
<1>1. PICK e : \A m \in Messages : Expected(c, m) => m = e
  BY OneExpected
<1>2. Stale(c)' \subseteq Stale(c) \cup {e}
  BY <1>1, StaleIs
<1> DEFINE S == Stale(c)
           T == Stale(c)'
<1>3. IsFiniteSet(S) /\ Cardinality(S) <= timeouts[c]
  BY DEF IInv, Bounded
<1>4. /\ T \subseteq S \cup {e} /\ timeouts \in [Client -> Nat]
      /\ timeouts'[c] = timeouts[c] + 1
  BY <1>2 DEF IInv, TypeOK
<1> HIDE DEF S, T
<1>5. IsFiniteSet(T) /\ Cardinality(T) <= Cardinality(S) + 1
  BY <1>3, <1>4, Adding
<1>6. Cardinality(T) \in Nat /\ Cardinality(S) \in Nat
  BY <1>3, <1>5, FS_CardinalityType
<1>7. timeouts[c] \in Nat
  BY <1>4
<1>8. IsFiniteSet(Stale(c)') /\ Cardinality(Stale(c)') <= timeouts'[c]
  BY <1>3, <1>4, <1>5, <1>6, <1>7 DEF T
<1>9. \A d \in Client \ {c} : timeouts'[d] = timeouts[d]
  BY <1>4
<1> QED
  BY <1>8, <1>9, OthersBounded

LEMMA RetryKeeps ==
    ASSUME IInv, NEW c \in Client, Retry(c)
    PROVE  IInv'
<1> DEFINE n == session[c]
<1>0. PICK r : r = Request(n, "forced", c, target[c])
  OBVIOUS
<1>1. /\ c \in running /\ pc[c] = "first"
      /\ wire' = wire \cup {r}
      /\ pc' = [pc EXCEPT ![c] = "forced"]
      /\ timeouts' = [timeouts EXCEPT ![c] = @ + 1]
      /\ UNCHANGED <<session, target, running, inbox, sessions>>
  BY <1>0 DEF Retry, Waits
<1>2. /\ session \in [Client -> 0..MaxSessions] /\ n > 0
      /\ pc \in [Client -> Attempt \cup {"prompt"}]
      /\ target[c] \in Server
      /\ timeouts \in [Client -> Nat]
  BY <1>1 DEF IInv, TypeOK, Numbered
<1>3. n \in 1..MaxSessions
  BY <1>2, ProcessAssumption
<1>4. /\ r \in Message /\ r.session = n /\ r.attempt = "forced"
      /\ r.client = c /\ r.kind = "request"
  BY <1>0, <1>2, <1>3, RequestFacts DEF Request, Attempt
<1>5. \A m \in Messages : ~SameRequest(m, r)
  BY <1>1, <1>4 DEF IInv, Numbered, SameRequest
<1>6. /\ wire' \subseteq Message /\ Placed' /\ Keyed'
      /\ Messages' = Messages \cup {r}
  BY <1>1, <1>4, <1>5, RequestSent
<1>7. TypeOK'
  BY <1>1, <1>2, <1>6 DEF IInv, TypeOK, Attempt
<1>8. Numbered'
  <2>1. \A d \in Client : pc'[d] = IF d = c THEN "forced" ELSE pc[d]
    BY <1>1, <1>2
  <2>2. n <= sessions
    BY DEF IInv, Numbered
  <2>3. \A m \in Messages' : m.session <= sessions'
    BY <1>1, <1>4, <1>6, <2>2 DEF IInv, Numbered
  <2>4. ASSUME NEW d \in Client, pc'[d] = "first", NEW m \in Messages',
               m.session = session[d]
        PROVE  m.attempt = "first"
    <3>1. d # c /\ pc[d] = "first"
      BY <2>1, <2>4
    <3>2. m # r
      BY <1>2, <1>4, <2>4, <3>1 DEF IInv, Numbered
    <3> QED
      BY <1>6, <2>4, <3>1, <3>2 DEF IInv, Numbered
  <2>5. \A d \in Client : pc'[d] # "prompt" => session[d] > 0
    BY <1>1, <1>2, <2>1 DEF IInv, Numbered
  <2> QED
    BY <1>1, <2>3, <2>4, <2>5 DEF IInv, Numbered
<1>9. Bounded'
  <2>1. Expected(c, r)'
    BY <1>1, <1>2, <1>4 DEF Expected, Waits, Attempt
  <2>2. \A m \in Messages' :
           m \in Messages \/ (m.client = c /\ Expected(c, m)')
    BY <1>4, <1>6, <2>1
  <2>3. \A d \in Client \ {c} : pc'[d] = pc[d]
    BY <1>1, <1>2
  <2> QED
    BY <1>1, <2>2, <2>3, TimedOut
<1> QED
  BY <1>6, <1>7, <1>8, <1>9 DEF IInv

LEMMA GiveUpKeeps ==
    ASSUME IInv, NEW c \in Client, GiveUp(c)
    PROVE  IInv'
<1>1. /\ c \in running
      /\ pc' = [pc EXCEPT ![c] = "prompt"]
      /\ timeouts' = [timeouts EXCEPT ![c] = @ + 1]
      /\ UNCHANGED <<session, target, running, wire, inbox, sessions>>
  BY DEF GiveUp, Waits
<1>2. Messages' = Messages
  BY <1>1 DEF Messages
<1>3. /\ pc \in [Client -> Attempt \cup {"prompt"}]
      /\ timeouts \in [Client -> Nat]
  BY DEF IInv, TypeOK
<1>4. TypeOK' /\ Placed' /\ Keyed'
  BY <1>1, <1>2, <1>3 DEF IInv, TypeOK, Placed, Keyed, SameRequest
<1>5. \A d \in Client : pc'[d] = IF d = c THEN "prompt" ELSE pc[d]
  BY <1>1, <1>3
<1>6. Numbered'
  BY <1>1, <1>2, <1>5 DEF IInv, Numbered
<1>7. Bounded'
  BY <1>1, <1>2, <1>5, TimedOut
<1> QED
  BY <1>4, <1>6, <1>7 DEF IInv

(* A read that returns takes one message, not always the one expected. *)
LEMMA TakeAnswerKeeps ==
    ASSUME IInv, NEW c \in Client, TakeAnswer(c)
    PROVE  IInv'
<1> DEFINE h == Head(inbox[c])
<1>1. /\ c \in running /\ c \in Process /\ inbox[c] # <<>>
      /\ inbox' = [inbox EXCEPT ![c] = Tail(@)]
      /\ pc' = [pc EXCEPT ![c] = "prompt"]
      /\ UNCHANGED <<session, target, running, wire, sessions, timeouts>>
  BY DEF TakeAnswer, Waits, Process
<1>2. /\ h \in Messages /\ h \in Message /\ h.to = c
      /\ inbox' \in [Process -> Seq(Message)]
      /\ UNION {Range(inbox'[q]) : q \in Process} \subseteq Messages \ {h}
      /\ \A q \in Process : \A i \in DOMAIN inbox'[q] :
            /\ inbox'[q][i].to = q
            /\ inbox'[q][i] \notin wire
            /\ \A j \in DOMAIN inbox'[q] : inbox'[q][i] = inbox'[q][j] => i = j
  BY <1>1, Taken
<1>3. h \notin wire
  <2>1. h = inbox[c][1] /\ 1 \in DOMAIN inbox[c]
    BY <1>1, HeadTailProperties DEF IInv, TypeOK
  <2> QED
    BY <1>1, <2>1 DEF IInv, Placed
<1> HIDE DEF h
<1>4. Messages' \subseteq Messages \ {h}
  BY <1>1, <1>2, <1>3 DEF Messages
<1>5. /\ pc \in [Client -> Attempt \cup {"prompt"}]
      /\ timeouts \in [Client -> Nat]
  BY DEF IInv, TypeOK
<1>6. \A d \in Client : pc'[d] = IF d = c THEN "prompt" ELSE pc[d]
  BY <1>1, <1>5
<1>7. TypeOK' /\ Placed' /\ Keyed'
  BY <1>1, <1>2, <1>4, <1>5 DEF IInv, TypeOK, Placed, Keyed, SameRequest
<1>8. Numbered'
  BY <1>1, <1>4, <1>6 DEF IInv, Numbered
<1>9. Bounded'
  <2>1. h.client = c
    BY <1>2, MessageFacts, ProcessAssumption
  <2>2. PICK e : \A m \in Messages : Expected(c, m) => m = e
    BY OneExpected
  <2>3. Stale(c)' \subseteq (Stale(c) \ {h}) \cup ({e} \ {h})
    BY <1>4, <2>2, StaleIs
  <2>4. h # e => h \in Stale(c)
    BY <1>2, <2>1, <2>2, StaleIs
  <2> DEFINE S == Stale(c)
             T == Stale(c)'
  <2>5. IsFiniteSet(S) /\ Cardinality(S) <= timeouts[c] /\ timeouts[c] \in Nat
    BY <1>1, <1>5 DEF IInv, Bounded
  <2>6. T \subseteq (S \ {h}) \cup {e} /\ (e \in T => h \in S \/ e \in S)
    BY <2>3, <2>4
  <2> HIDE DEF S, T
  <2>7. IsFiniteSet(T) /\ Cardinality(T) <= Cardinality(S)
    BY <2>5, <2>6, Replacing
  <2>8. Cardinality(T) \in Nat /\ Cardinality(S) \in Nat
    BY <2>5, <2>7, FS_CardinalityType
  <2>9. IsFiniteSet(Stale(c)') /\ Cardinality(Stale(c)') <= timeouts'[c]
    BY <1>1, <2>5, <2>7, <2>8 DEF T
  <2> QED
    BY <1>1, <1>4, <1>6, <2>9, OthersBounded
<1> QED
  BY <1>7, <1>8, <1>9 DEF IInv

-----------------------------------------------------------------------------
(* The invariant. *)

LEMMA InitIInv == Init => IInv
<1> SUFFICES ASSUME Init
             PROVE  IInv
  OBVIOUS
<1>1. Messages = {}
  BY DEF Init, Messages, Range
<1>2. TypeOK /\ Placed /\ Keyed /\ Numbered
  BY <1>1, ProcessAssumption, EmptySeq
     DEF Init, TypeOK, Placed, Keyed, Numbered
<1>3. \A c \in Client : Stale(c) = {} /\ timeouts[c] = 0
  BY <1>1, StaleIs DEF Init
<1>4. Bounded
  BY <1>3, FS_EmptySet DEF Bounded
<1> QED
  BY <1>2, <1>4 DEF IInv

LEMMA NextIInv == IInv /\ [Next]_vars => IInv'
<1> SUFFICES ASSUME IInv, [Next]_vars
             PROVE  IInv'
  OBVIOUS
<1>1. CASE \E c \in Client, s \in Server : Ask(c, s)
  BY <1>1, AskKeeps
<1>2. CASE \E c \in Client : TakeAnswer(c) \/ Retry(c) \/ GiveUp(c)
  BY <1>2, TakeAnswerKeeps, RetryKeeps, GiveUpKeeps
<1>3. CASE \E s \in Server : Serve(s)
  BY <1>3, ServeKeeps
<1>4. CASE \E p \in Process : Exit(p)
  BY <1>4, ExitKeeps
<1>5. CASE Transport
  BY <1>5, ArriveKeeps, RefuseKeeps, LoseKeeps DEF Transport
<1>6. CASE UNCHANGED vars
  <2>1. /\ TypeOK' /\ Placed' /\ Messages' = Messages
        /\ UNCHANGED <<pc, session, sessions, timeouts, running>>
    BY <1>6 DEF vars, IInv, TypeOK, Placed, Messages
  <2> QED
    BY <2>1, ReplacedKeeps DEF Replaced
<1> QED
  BY <1>1, <1>2, <1>3, <1>4, <1>5, <1>6 DEF Next

(* The invariant holds in every reachable state. *)
THEOREM Invariant == Spec => []IInv
BY InitIInv, NextIInv, PTL DEF Spec

(* Messages are well formed wherever they are: servers are only asked, or  *)
(* told of errors, and clients only answered, or told of errors.           *)
THEOREM TypeCorrect == Spec => []TypeOK
<1>1. IInv => TypeOK
  BY DEF IInv
<1> QED
  BY <1>1, Invariant, PTL

(* A client that runs can be misled by late answers at most as often as    *)
(* its reads have timed out.                                               *)
THEOREM StaleBoundedHolds == Spec => []StaleBounded
<1>1. IInv => StaleBounded
  BY DEF IInv, Bounded, Stale, StaleBounded
<1> QED
  BY <1>1, Invariant, PTL
=============================================================================
