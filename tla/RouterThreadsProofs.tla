------------------------ MODULE RouterThreadsProofs ------------------------
(***************************************************************************)
(* Theorems about RouterThreads, for every set of neighbours, interfaces,  *)
(* messages and frames and every number of events.                         *)
(***************************************************************************)
EXTENDS RouterThreads, SequenceTheorems, FiniteSetTheorems,
        WellFoundedInduction, TLAPS

Node == Peer \cup {Self}

Cell ==
    [destination : Node \cup {Unnamed}, next : Nat, next_hop : Via \cup {Null},
     outgoing_if : Via \cup {Null}, fresh : BOOLEAN, finding_route : BOOLEAN,
     parking_lot : Id \cup {Null}]

Job == [source : Node, destination : Node, via : Via \cup {Null},
        id : Id \cup {Null}]

EntryStep == {"zero_time", "insert", "publish", "link", "set_hop", "set_time",
              "pick_if", "transmit", "name", "lot", "compare", "remove",
              "unlink_first", "push", "push_link", "check", "mark", "unpark",
              "clear", "found"}

CarStep == {"seek", "unlink_after", "free"}

NodeStep == {"purge", "query", "update", "route", "park", "request", "flood",
             "release"}

PlainStep == {"read", "deliver", "wait", "find", "store", "destroy"}

(* The steps of a thread when n entries have been allocated. *)
StepsFor(n) ==
    [op : EntryStep, arg : 1..n] \cup [op : CarStep, arg : Id]
    \cup [op : NodeStep, arg : Node] \cup [op : PlainStep, arg : {Null}]

(* Steps with the thread's message, those that lead to a REQ in the end,   *)
(* and those that use the route that query_table found.                    *)
Carries == {"deliver", "wait", "route", "transmit", "park", "compare", "push"}
Asks == {"deliver", "wait", "route", "request", "flood"}
UsesRoute == {"route", "park", "request"}

(* Steps that a thread takes at once when they have been put in. *)
FirstOnly == {"read", "zero_time", "publish", "pick_if", "mark", "seek",
              "unlink_first", "unlink_after", "free", "wait"}

(* Steps that may be directly followed by their other half. *)
Halves == {"publish", "pick_if", "mark", "store", "set_hop", "lot", "find",
           "push", "free", "destroy", "clear"}

Seconds == {"link", "transmit", "store", "flood", "set_time", "find",
            "compare", "remove", "push", "push_link", "unpark", "destroy",
            "clear", "found"}

(* What the pending step q must follow, unless it is the first. *)
Tied(p, q) ==
    /\ q.op = "link" => p.op = "publish"
    /\ q.op = "transmit" => p.op = "pick_if"
    /\ q.op = "store" => p.op = "mark"
    /\ q.op = "flood" => p.op = "store"
    /\ q.op = "set_time" => p.op = "set_hop"
    /\ q.op = "find" => p.op = "lot"
    /\ q.op \in {"compare", "remove"} => p.op = "find"
    /\ q.op \in {"push", "unpark"} => p.op = "lot" /\ p.arg = q.arg
    /\ q.op = "push_link" => p.op = "push" /\ p.arg = q.arg
    /\ q.op = "destroy" => p.op \in {"lot", "free"}
    /\ q.op = "clear" => p.op = "destroy"
    /\ q.op = "found" => p.op = "clear" /\ p.arg = q.arg

(* Pending steps carry one message and make one REQ at most, and halves of *)
(* an operation stay together.                                             *)
Shape(s) ==
    /\ \A k, l \in DOMAIN s : k < l =>
           /\ ~(s[k].op \in Carries /\ s[l].op \in Carries)
           /\ ~(s[k].op \in Asks /\ s[l].op \in Asks)
    /\ \A k \in 2..Len(s) :
           s[k].op \notin FirstOnly /\ Tied(s[k - 1], s[k])

(* The thread has a route r in hand when it uses it, or asks for one first. *)
RouteKnown(s, r) ==
    \A k \in DOMAIN s :
        s[k].op \in UsesRoute =>
            r # Null \/ (k > 1 /\ s[k - 1].op = "query")

(* What the register holds when a step needs it. *)
RegisterFits(op, g, n) ==
    /\ op \in {"publish", "link"} => g \in 0..n
    /\ op = "store" => g \in Nat
    /\ op \in {"find", "compare", "remove", "push", "push_link", "unpark",
               "destroy", "free"} => g \in Id \cup {Null}
    /\ op \in {"seek", "unlink_first", "unlink_after"} => g \in Id

(* The pending steps s of a thread with local pointer r and register g. *)
Plan(s, r, g, n) ==
    /\ s \in Seq(StepsFor(n))
    /\ Shape(s)
    /\ r \in 0..n
    /\ RouteKnown(s, r)
    /\ s # <<>> => RegisterFits(s[1].op, g, n)

(* What the steps that are put in must be like, when the first pending     *)
(* step is p, for the plan to be one again with pointer q instead of r,    *)
(* register h and m entries.                                               *)
Fits(more, p, r, q, h, m) ==
    /\ more \in Seq(StepsFor(m))
    /\ Shape(more)
    /\ RouteKnown(more, q)
    /\ \A k \in DOMAIN more :
           /\ more[k].op \in Carries => p.op \in Carries
           /\ more[k].op \in Asks => p.op \in Asks
    /\ q \in 0..m
    /\ q # Null \/ (q = r /\ p.op # "query")
    /\ more # <<>> => /\ p.op \notin Halves \/ more[Len(more)] = p
                      /\ RegisterFits(more[1].op, h, m)
    /\ more = <<>> =>
           \A x \in StepsFor(m) :
               Tied(p, x) /\ x.op \notin FirstOnly => RegisterFits(x.op, h, m)
-----------------------------------------------------------------------------
(* Sequences of steps. *)

LEMMA StepType ==
    ASSUME NEW n \in Nat, NEW x \in StepsFor(n)
    PROVE  /\ x.op \in EntryStep \cup CarStep \cup NodeStep \cup PlainStep
           /\ x.op \in EntryStep => x.arg \in 1..n
           /\ x.op \in CarStep => x.arg \in Id
           /\ x.op \in NodeStep => x.arg \in Node
           /\ x.op \in PlainStep => x.arg = Null
BY DEF StepsFor, EntryStep, CarStep, NodeStep, PlainStep

LEMMA StepMade ==
    ASSUME NEW n \in Nat, NEW name, NEW arg,
           \/ name \in EntryStep /\ arg \in 1..n
           \/ name \in CarStep /\ arg \in Id
           \/ name \in NodeStep /\ arg \in Node
           \/ name \in PlainStep /\ arg = Null
    PROVE  [op |-> name, arg |-> arg] \in StepsFor(n)
BY DEF StepsFor

LEMMA MoreEntries ==
    ASSUME NEW n \in Nat, NEW m \in Nat, n <= m
    PROVE  StepsFor(n) \subseteq StepsFor(m)
BY DEF StepsFor

LEMMA TwoSteps ==
    ASSUME NEW p, NEW q
    PROVE  <<p>> \o <<q>> = <<p, q>>
<1> DEFINE S == {p, q}
           u == <<p>>
           v == <<q>>
           s == u \o v
           z == <<p, q>>
<1>1. u \in Seq(S) /\ Len(u) = 1 /\ u[1] = p
  OBVIOUS
<1>2. v \in Seq(S) /\ Len(v) = 1 /\ v[1] = q
  OBVIOUS
<1>3. z \in Seq(S) /\ Len(z) = 2 /\ z[1] = p /\ z[2] = q
  OBVIOUS
<1> HIDE DEF u, v, z
<1>4. /\ s \in Seq(S) /\ Len(s) = Len(u) + Len(v)
      /\ \A i \in 1..Len(u) + Len(v) :
             s[i] = IF i <= Len(u) THEN u[i] ELSE v[i - Len(u)]
  BY <1>1, <1>2, ConcatProperties
<1> HIDE DEF s
<1>5. s[1] = p /\ s[2] = q /\ Len(s) = 2
  BY <1>1, <1>2, <1>4
<1>6. s = z
  BY <1>3, <1>4, <1>5, SeqEqual
<1> QED
  BY <1>6 DEF s, u, v, z

LEMMA ThreeSteps ==
    ASSUME NEW p, NEW q, NEW r
    PROVE  <<p>> \o <<q>> \o <<r>> = <<p, q, r>>
<1> DEFINE S == {p, q, r}
           u == <<p, q>>
           v == <<r>>
           s == u \o v
           z == <<p, q, r>>
<1>1. u \in Seq(S) /\ Len(u) = 2 /\ u[1] = p /\ u[2] = q
  OBVIOUS
<1>2. v \in Seq(S) /\ Len(v) = 1 /\ v[1] = r
  OBVIOUS
<1>3. z \in Seq(S) /\ Len(z) = 3 /\ z[1] = p /\ z[2] = q /\ z[3] = r
  OBVIOUS
<1> HIDE DEF u, v, z
<1>4. /\ s \in Seq(S) /\ Len(s) = Len(u) + Len(v)
      /\ \A i \in 1..Len(u) + Len(v) :
             s[i] = IF i <= Len(u) THEN u[i] ELSE v[i - Len(u)]
  BY SMTT(40), <1>1, <1>2, ConcatProperties
<1> HIDE DEF s
<1>5. s[1] = p /\ s[2] = q /\ s[3] = r /\ Len(s) = 3
  BY <1>1, <1>2, <1>4
<1>6. s = z
  BY SMTT(40), <1>3, <1>4, <1>5, SeqEqual
<1>7. <<p>> \o <<q>> = u
  BY TwoSteps DEF u
<1> QED
  BY <1>6, <1>7 DEF s, u, v, z

(* The elements of what Then makes of pending steps. *)
LEMMA ThenElements ==
    ASSUME NEW S, NEW s \in Seq(S), s # <<>>, NEW more \in Seq(S),
           NEW r, r = more \o Tail(s)
    PROVE  /\ r \in Seq(S) /\ Len(r) = Len(more) + Len(s) - 1
           /\ Len(s) >= 1 /\ Len(more) \in Nat /\ Len(s) \in Nat
           /\ DOMAIN r = 1..Len(r) /\ DOMAIN s = 1..Len(s)
           /\ DOMAIN more = 1..Len(more)
           /\ \A k \in 1..Len(r) :
                  r[k] = IF k <= Len(more) THEN more[k]
                         ELSE s[k - Len(more) + 1]
           /\ Head(s) = s[1]
<1>1. /\ Tail(s) \in Seq(S) /\ Len(Tail(s)) = Len(s) - 1
      /\ \A i \in 1..Len(Tail(s)) : Tail(s)[i] = s[i + 1]
      /\ Len(s) >= 1 /\ Len(s) \in Nat /\ Len(more) \in Nat
  BY HeadTailProperties, LenProperties, EmptySeq
<1>2. /\ r \in Seq(S) /\ Len(r) = Len(more) + Len(Tail(s))
      /\ \A k \in 1..Len(more) + Len(Tail(s)) :
             r[k] = IF k <= Len(more) THEN more[k] ELSE Tail(s)[k - Len(more)]
  BY <1>1, ConcatProperties
<1>3. ASSUME NEW k \in 1..Len(r), ~(k <= Len(more))
      PROVE  Tail(s)[k - Len(more)] = s[k - Len(more) + 1]
  BY <1>1, <1>2, <1>3
<1> QED
  BY <1>1, <1>2, <1>3, LenProperties

(* A position is before, at or behind a border. *)
LEMMA Trichotomy ==
    ASSUME NEW k \in Nat, NEW l \in Nat
    PROVE  k <= l \/ k = l + 1 \/ k > l + 1
OBVIOUS

(* Fitting steps make a plan again. *)
LEMMA ThenPlan ==
    ASSUME NEW n \in Nat, NEW m \in Nat, n <= m,
           NEW s, NEW r, NEW g, Plan(s, r, g, n), s # <<>>,
           NEW more, NEW q, NEW h, Fits(more, s[1], r, q, h, m),
           NEW z, z = more \o Tail(s)
    PROVE  Plan(z, q, h, m)
<1>1. s \in Seq(StepsFor(m)) /\ more \in Seq(StepsFor(m))
  BY MoreEntries, SeqMonotonic DEF Plan, Fits
<1>2. /\ z \in Seq(StepsFor(m)) /\ Len(z) = Len(more) + Len(s) - 1
      /\ Len(s) >= 1 /\ Len(more) \in Nat /\ Len(s) \in Nat
      /\ DOMAIN z = 1..Len(z) /\ DOMAIN s = 1..Len(s)
      /\ DOMAIN more = 1..Len(more)
      /\ \A k \in 1..Len(z) :
             z[k] = IF k <= Len(more) THEN more[k] ELSE s[k - Len(more) + 1]
  BY <1>1, ThenElements
<1> DEFINE L == Len(more)
<1>3. ASSUME NEW k \in 1..Len(z), ~(k <= L)
      PROVE  k - L + 1 \in 2..Len(s) /\ z[k] = s[k - L + 1]
  BY <1>2, <1>3
<1>4. more # <<>> => L >= 1
  BY <1>1, EmptySeq
<1>5. more = <<>> => L = 0
  BY <1>1
<1>6. \A k, l \in 1..Len(z) : k < l =>
          /\ ~(z[k].op \in Carries /\ z[l].op \in Carries)
          /\ ~(z[k].op \in Asks /\ z[l].op \in Asks)
  <2> SUFFICES ASSUME NEW k \in 1..Len(z), NEW l \in 1..Len(z), k < l
               PROVE  /\ ~(z[k].op \in Carries /\ z[l].op \in Carries)
                      /\ ~(z[k].op \in Asks /\ z[l].op \in Asks)
    OBVIOUS
  <2>1. CASE l <= L
    <3>1. /\ k \in DOMAIN more /\ l \in DOMAIN more
          /\ z[k] = more[k] /\ z[l] = more[l]
      BY <1>2, <2>1
    <3> QED
      BY <3>1 DEF Fits, Shape
  <2>2. CASE ~(k <= L)
    <3>1. /\ k - L + 1 \in DOMAIN s /\ l - L + 1 \in DOMAIN s
          /\ k - L + 1 < l - L + 1
          /\ z[k] = s[k - L + 1] /\ z[l] = s[l - L + 1]
      BY SMTT(40), <1>2, <2>2, EmptySeq
    <3> QED
      BY <3>1 DEF Plan, Shape
  <2>3. CASE k <= L /\ ~(l <= L)
    <3>1. /\ l - L + 1 \in 1..Len(s) /\ 1 < l - L + 1 /\ 1 \in 1..Len(s)
          /\ z[l] = s[l - L + 1] /\ z[k] = more[k] /\ k \in DOMAIN more
      BY <1>2, <1>3, <2>3
    <3>2. /\ ~(s[1].op \in Carries /\ s[l - L + 1].op \in Carries)
          /\ ~(s[1].op \in Asks /\ s[l - L + 1].op \in Asks)
      BY <1>2, <3>1 DEF Plan, Shape
    <3> QED
      BY <3>1, <3>2 DEF Fits
  <2> QED
    BY <1>2, <2>1, <2>2, <2>3
<1>7. ASSUME NEW k \in 2..Len(z)
      PROVE  z[k].op \notin FirstOnly /\ Tied(z[k - 1], z[k])
  <2>1. CASE k <= L
    <3>1. z[k] = more[k] /\ z[k - 1] = more[k - 1] /\ k \in 2..Len(more)
      BY <1>2, <2>1
    <3> QED
      BY <3>1 DEF Fits, Shape
  <2>2. CASE k = L + 1
    <3>1. /\ z[k] = s[2] /\ 2 \in 2..Len(s) /\ more # <<>>
          /\ z[k - 1] = more[Len(more)]
      BY <1>2, <1>5, <2>2
    <3>2. s[2].op \notin FirstOnly /\ Tied(s[1], s[2])
      BY <3>1 DEF Plan, Shape
    <3>3. CASE more[Len(more)] = s[1]
      BY <3>1, <3>2, <3>3
    <3>4. CASE s[1].op \notin Halves
      BY <3>1, <3>2, <3>4 DEF Tied, Halves
    <3> QED
      BY <3>1, <3>3, <3>4 DEF Fits
  <2>3. CASE k > L + 1
    <3>1. /\ k - L + 1 \in 2..Len(s) /\ z[k] = s[k - L + 1]
          /\ z[k - 1] = s[(k - L + 1) - 1]
      BY <1>2, <2>3
    <3> QED
      BY <3>1 DEF Plan, Shape
  <2>4. L \in Nat /\ k \in Nat
    BY <1>2
  <2>5. k <= L \/ k = L + 1 \/ k > L + 1
    BY Zenon, <2>4, Trichotomy
  <2> HIDE DEF L
  <2> QED
    BY <2>1, <2>2, <2>3, <2>5
<1>8. RouteKnown(z, q)
  <2>1. CASE q # Null
    BY <2>1 DEF RouteKnown
  <2>2. CASE q = Null
    <3>1. q = r /\ s[1].op # "query"
      BY <2>2 DEF Fits
    <3> SUFFICES ASSUME NEW k \in DOMAIN z, z[k].op \in UsesRoute
                 PROVE  k > 1 /\ z[k - 1].op = "query"
      BY DEF RouteKnown
    <3>2. CASE k <= L
      <4>1. k \in DOMAIN more /\ more[k] = z[k]
        BY <1>2, <3>2
      <4>2. k > 1 /\ more[k - 1].op = "query"
        BY <2>2, <4>1 DEF Fits, RouteKnown
      <4>3. k - 1 \in 1..Len(z) /\ k - 1 <= L
        BY <1>2, <3>2, <4>2
      <4> QED
        BY <1>2, <4>2, <4>3
    <3>3. CASE ~(k <= L)
      <4>1. k - L + 1 \in 2..Len(s) /\ z[k] = s[k - L + 1]
        BY <1>2, <1>3, <3>3
      <4>2. s[(k - L + 1) - 1].op = "query"
        BY SMTT(40), <1>2, <2>2, <3>1, <4>1 DEF Plan, RouteKnown
      <4>3. (k - L + 1) - 1 # 1
        BY <3>1, <4>2
      <4>4. k - 1 \in 1..Len(z) /\ ~(k - 1 <= L) /\ k > 1
        BY <1>2, <3>3, <4>1, <4>3
      <4>5. z[k - 1] = s[(k - 1) - L + 1] /\ (k - 1) - L + 1 = (k - L + 1) - 1
        BY <1>2, <1>3, <4>4
      <4> QED
        BY <4>2, <4>4, <4>5
    <3> QED
      BY <3>2, <3>3
  <2> QED
    BY <2>1, <2>2
<1>9. z # <<>> => RegisterFits(z[1].op, h, m)
  <2>1. CASE more # <<>>
    <3>1. z[1] = more[1]
      BY <1>2, <1>4, <2>1
    <3> QED
      BY <2>1, <3>1 DEF Fits
  <2>2. CASE more = <<>> /\ z # <<>>
    <3>0. Len(z) # 0
      BY <1>2, <2>2, EmptySeq
    <3>1. 2 \in 2..Len(s) /\ z[1] = s[2] /\ s[2] \in StepsFor(m)
      BY SMTT(40), <1>1, <1>2, <1>5, <2>2, <3>0
    <3>2. s[2].op \notin FirstOnly /\ Tied(s[1], s[2])
      BY <3>1 DEF Plan, Shape
    <3> QED
      BY <2>2, <3>1, <3>2 DEF Fits
  <2> QED
    BY <2>1, <2>2
<1> QED
  BY <1>2, <1>6, <1>7, <1>8, <1>9 DEF Plan, Shape, Fits

(* No step is new that carries a message, or makes a REQ. *)
LEMMA ThenHas ==
    ASSUME NEW n \in Nat, NEW s \in Seq(StepsFor(n)), s # <<>>,
           NEW more \in Seq(StepsFor(n)), NEW ops,
           \A k \in DOMAIN more : more[k].op \in ops => s[1].op \in ops,
           NEW z, z = more \o Tail(s),
           \E k \in DOMAIN z : z[k].op \in ops
    PROVE  \E k \in DOMAIN s : s[k].op \in ops
<1>1. /\ Len(s) >= 1 /\ Len(more) \in Nat /\ Len(s) \in Nat
      /\ Len(z) = Len(more) + Len(s) - 1
      /\ DOMAIN z = 1..Len(z) /\ DOMAIN s = 1..Len(s)
      /\ DOMAIN more = 1..Len(more)
      /\ \A k \in 1..Len(z) :
             z[k] = IF k <= Len(more) THEN more[k] ELSE s[k - Len(more) + 1]
  BY ThenElements
<1>2. PICK k \in 1..Len(z) : z[k].op \in ops
  BY <1>1
<1>3. CASE k <= Len(more)
  <2>1. k \in DOMAIN more /\ more[k].op \in ops /\ 1 \in DOMAIN s
    BY <1>1, <1>2, <1>3
  <2> QED
    BY <2>1
<1>4. CASE ~(k <= Len(more))
  <2>1. k - Len(more) + 1 \in 1..Len(s)
    BY <1>1, <1>2, <1>4
  <2> QED
    BY <1>1, <1>2, <1>4, <2>1
<1> QED
  BY <1>3, <1>4

(* A step of either kind that was the only one is gone. *)
LEMMA ThenHasNot ==
    ASSUME NEW n \in Nat, NEW s \in Seq(StepsFor(n)), s # <<>>, Shape(s),
           NEW ops \in {Carries, Asks}, s[1].op \in ops,
           NEW more \in Seq(StepsFor(n)),
           \A k \in DOMAIN more : more[k].op \notin ops,
           NEW z, z = more \o Tail(s)
    PROVE  ~\E k \in DOMAIN z : z[k].op \in ops
<1>1. /\ Len(s) >= 1 /\ Len(more) \in Nat /\ Len(s) \in Nat
      /\ Len(z) = Len(more) + Len(s) - 1
      /\ DOMAIN z = 1..Len(z) /\ DOMAIN s = 1..Len(s)
      /\ DOMAIN more = 1..Len(more)
      /\ \A k \in 1..Len(z) :
             z[k] = IF k <= Len(more) THEN more[k] ELSE s[k - Len(more) + 1]
  BY ThenElements
<1> SUFFICES ASSUME NEW k \in 1..Len(z), z[k].op \in ops
             PROVE  FALSE
  BY <1>1
<1>2. ~(k <= Len(more))
  BY <1>1
<1>3. /\ k - Len(more) + 1 \in DOMAIN s /\ 1 \in DOMAIN s
      /\ 1 < k - Len(more) + 1 /\ s[k - Len(more) + 1].op \in ops
  BY <1>1, <1>2
<1> QED
  BY <1>3 DEF Shape


-----------------------------------------------------------------------------
(* Sequences of steps that are put together. *)

Row(s, n, r, ops) ==
    /\ s \in Seq(StepsFor(n))
    /\ Shape(s)
    /\ RouteKnown(s, r)
    /\ \A k \in DOMAIN s : s[k].op \in ops

Ends(s, p, q) == s # <<>> /\ s[1] = p /\ s[Len(s)] = q

Apart(few, ops) ==
    /\ few \cap Carries = {} \/ ops \cap Carries = {}
    /\ few \cap Asks = {} \/ ops \cap Asks = {}

LEMMA RowNone ==
    ASSUME NEW n \in Nat, NEW r, NEW ops
    PROVE  Row(<<>>, n, r, ops)
<1>1. <<>> \in Seq(StepsFor(n)) /\ Len(<<>>) = 0 /\ DOMAIN <<>> = {}
  OBVIOUS
<1> QED
  BY <1>1 DEF Row, Shape, RouteKnown

LEMMA RowOne ==
    ASSUME NEW n \in Nat, NEW r, NEW name, NEW arg,
           \/ name \in EntryStep /\ arg \in 1..n
           \/ name \in CarStep /\ arg \in Id
           \/ name \in NodeStep /\ arg \in Node
           \/ name \in PlainStep /\ arg = Null,
           name \in UsesRoute => r # Null,
           NEW ops, name \in ops
    PROVE  LET p == [op |-> name, arg |-> arg]
           IN  /\ Op(name, arg) = <<p>>
               /\ Row(Op(name, arg), n, r, ops) /\ Ends(Op(name, arg), p, p)
<1> DEFINE p == [op |-> name, arg |-> arg]
<1>1. p \in StepsFor(n) /\ p.op = name
  BY StepMade
<1>2. PICK s : s = <<p>>
  OBVIOUS
<1>3. Op(name, arg) = s
  BY <1>2 DEF Op
<1> HIDE DEF p
<1>4. s \in Seq(StepsFor(n)) /\ Len(s) = 1 /\ DOMAIN s = {1} /\ s[1] = p /\ s # <<>>
  BY <1>1, <1>2
<1>5. Row(s, n, r, ops) /\ Ends(s, p, p)
  BY <1>1, <1>4 DEF Row, Shape, RouteKnown, Ends
<1> QED
  BY <1>2, <1>3, <1>5 DEF p

LEMMA RowJoin ==
    ASSUME NEW n \in Nat, NEW r, NEW few, NEW ops, Apart(few, ops),
           NEW a, Row(a, n, r, few), NEW b, Row(b, n, r, ops),
           a # <<>> /\ b # <<>> =>
               b[1].op \notin FirstOnly /\ Tied(a[Len(a)], b[1])
    PROVE  /\ Row(a \o b, n, r, few \cup ops)
           /\ Len(a \o b) = Len(a) + Len(b)
           /\ a # <<>> => a \o b # <<>> /\ (a \o b)[1] = a[1]
           /\ b # <<>> => a \o b # <<>> /\ (a \o b)[Len(a \o b)] = b[Len(b)]
           /\ a = <<>> => a \o b = b
<1>0. PICK z : z = a \o b
  OBVIOUS
<1>1. /\ z \in Seq(StepsFor(n)) /\ Len(z) = Len(a) + Len(b)
      /\ Len(a) \in Nat /\ Len(b) \in Nat
      /\ DOMAIN z = 1..Len(z) /\ DOMAIN a = 1..Len(a) /\ DOMAIN b = 1..Len(b)
      /\ \A k \in 1..Len(z) :
             z[k] = IF k <= Len(a) THEN a[k] ELSE b[k - Len(a)]
  BY <1>0, ConcatProperties, LenProperties DEF Row
<1>2. /\ a # <<>> <=> Len(a) # 0
      /\ b # <<>> <=> Len(b) # 0
      /\ z # <<>> <=> Len(z) # 0
  BY <1>1, EmptySeq DEF Row
<1>3. ASSUME NEW k \in 1..Len(z)
      PROVE  \/ k <= Len(a) /\ k \in DOMAIN a /\ z[k] = a[k]
             \/ ~(k <= Len(a)) /\ k - Len(a) \in DOMAIN b /\ z[k] = b[k - Len(a)]
  BY <1>1
<1>4. ASSUME NEW k \in 1..Len(z), NEW l \in 1..Len(z), k < l
      PROVE  /\ ~(z[k].op \in Carries /\ z[l].op \in Carries)
             /\ ~(z[k].op \in Asks /\ z[l].op \in Asks)
  <2>1. CASE l <= Len(a)
    <3>1. k \in DOMAIN a /\ l \in DOMAIN a /\ z[k] = a[k] /\ z[l] = a[l]
      BY <1>1, <1>4, <2>1
    <3> QED
      BY <1>4, <3>1 DEF Row, Shape
  <2>2. CASE ~(k <= Len(a))
    <3>1. /\ k - Len(a) \in DOMAIN b /\ l - Len(a) \in DOMAIN b
          /\ k - Len(a) < l - Len(a)
          /\ z[k] = b[k - Len(a)] /\ z[l] = b[l - Len(a)]
      BY <1>1, <1>4, <2>2
    <3> QED
      BY <3>1 DEF Row, Shape
  <2>3. CASE k <= Len(a) /\ ~(l <= Len(a))
    <3>1. z[k].op \in few /\ z[l].op \in ops
      BY <1>3, <2>3 DEF Row
    <3> QED
      BY <3>1 DEF Apart
  <2> QED
    BY <1>1, <1>4, <2>1, <2>2, <2>3
<1>5. ASSUME NEW k \in 2..Len(z)
      PROVE  z[k].op \notin FirstOnly /\ Tied(z[k - 1], z[k])
  <2>1. CASE k <= Len(a)
    <3>1. k \in 2..Len(a) /\ z[k] = a[k] /\ z[k - 1] = a[k - 1]
      BY <1>1, <2>1
    <3> QED
      BY <3>1 DEF Row, Shape
  <2>2. CASE k = Len(a) + 1
    <3>1. b # <<>> /\ a # <<>> /\ z[k] = b[1] /\ z[k - 1] = a[Len(a)]
      BY <1>1, <1>2, <2>2
    <3> QED
      BY <3>1
  <2>3. CASE k > Len(a) + 1
    <3>1. /\ k - Len(a) \in 2..Len(b) /\ z[k] = b[k - Len(a)]
          /\ z[k - 1] = b[(k - Len(a)) - 1]
      <4>1. /\ k \in 1..Len(z) /\ k - 1 \in 1..Len(z)
            /\ ~(k <= Len(a)) /\ ~(k - 1 <= Len(a))
        BY <1>1, <2>3
      <4>2. z[k - 1] = b[(k - 1) - Len(a)] /\ (k - 1) - Len(a) = (k - Len(a)) - 1
        BY <1>1, <4>1
      <4> QED
        BY <1>1, <2>3, <4>1, <4>2
    <3> QED
      BY <3>1 DEF Row, Shape
  <2> QED
    BY <1>1, <2>1, <2>2, <2>3
<1>6. RouteKnown(z, r)
  <2> SUFFICES ASSUME NEW k \in 1..Len(z), z[k].op \in UsesRoute, r = Null
               PROVE  k > 1 /\ z[k - 1].op = "query"
    BY <1>1 DEF RouteKnown
  <2>1. CASE k <= Len(a)
    <3>1. k \in DOMAIN a /\ a[k].op \in UsesRoute
      BY <1>1, <2>1
    <3>2. k > 1 /\ a[k - 1].op = "query"
      BY <3>1 DEF Row, RouteKnown
    <3>3. z[k - 1] = a[k - 1]
      BY <1>1, <2>1, <3>2
    <3> QED
      BY <3>2, <3>3
  <2>2. CASE ~(k <= Len(a))
    <3>1. k - Len(a) \in DOMAIN b /\ b[k - Len(a)].op \in UsesRoute
      BY <1>1, <2>2
    <3>2. k - Len(a) > 1 /\ b[k - Len(a) - 1].op = "query"
      BY <3>1 DEF Row, RouteKnown
    <3>3. z[k - 1] = b[k - 1 - Len(a)] /\ k - 1 - Len(a) = k - Len(a) - 1
      BY SMTT(40), <1>1, <2>2, <3>2
    <3> QED
      BY <1>1, <3>2, <3>3
  <2> QED
    BY <2>1, <2>2
<1>7. \A k \in DOMAIN z : z[k].op \in few \cup ops
  BY <1>1, <1>3 DEF Row
<1>8. Row(z, n, r, few \cup ops)
  BY <1>1, <1>4, <1>5, <1>6, <1>7 DEF Row, Shape
<1>9. a = <<>> => z = b
  BY <1>0, ConcatEmptySeq DEF Row
<1>10. a # <<>> => z # <<>> /\ z[1] = a[1]
  BY <1>1, <1>2
<1>11. b # <<>> => z # <<>> /\ z[Len(z)] = b[Len(b)]
  BY <1>1, <1>2
<1> QED
  BY <1>0, <1>1, <1>8, <1>9, <1>10, <1>11

(* One more step. *)
LEMMA RowMore ==
    ASSUME NEW n \in Nat, NEW r, NEW few, NEW s, Row(s, n, r, few),
           NEW p, NEW q, Ends(s, p, q), NEW x \in StepsFor(n),
           x.op \in UsesRoute => r # Null,
           x.op \in Carries => few \cap Carries = {},
           x.op \in Asks => few \cap Asks = {},
           x.op \notin FirstOnly, Tied(q, x), NEW z, z = s \o <<x>>,
           NEW ops, few \subseteq ops, x.op \in ops
    PROVE  Row(z, n, r, ops)
<1>1. PICK b : b = <<x>>
  OBVIOUS
<1>2. b \in Seq(StepsFor(n)) /\ Len(b) = 1 /\ DOMAIN b = {1} /\ b[1] = x /\ b # <<>>
  BY <1>1
<1>3. Row(b, n, r, {x.op})
  BY <1>2 DEF Row, Shape, RouteKnown
<1>4. Apart(few, {x.op})
  BY DEF Apart
<1>5. s # <<>> /\ s[1] = p /\ s[Len(s)] = q
  BY DEF Ends
<1>6. b[1].op \notin FirstOnly /\ Tied(s[Len(s)], b[1])
  BY <1>2, <1>5
<1>7. Row(z, n, r, few \cup {x.op})
  BY <1>1, <1>3, <1>4, <1>6, RowJoin
<1> QED
  BY <1>7 DEF Row

LEMMA EndsMore ==
    ASSUME NEW n \in Nat, NEW s \in Seq(StepsFor(n)), NEW p, NEW q,
           Ends(s, p, q), NEW x \in StepsFor(n), NEW z, z = s \o <<x>>
    PROVE  Ends(z, p, x)
<1>1. PICK b : b = <<x>>
  OBVIOUS
<1>2. b \in Seq(StepsFor(n)) /\ Len(b) = 1 /\ b[1] = x
  BY <1>1
<1>3. /\ z \in Seq(StepsFor(n)) /\ Len(z) = Len(s) + 1 /\ Len(s) \in Nat
      /\ \A k \in 1..Len(z) : z[k] = IF k <= Len(s) THEN s[k] ELSE b[k - Len(s)]
  BY <1>1, <1>2, ConcatProperties, LenProperties
<1>4. Len(s) # 0
  BY EmptySeq DEF Ends
<1>5. 1 \in 1..Len(z) /\ 1 <= Len(s) /\ Len(z) \in 1..Len(z) /\ ~(Len(z) <= Len(s))
      /\ Len(z) - Len(s) = 1 /\ z # <<>>
  BY <1>3, <1>4
<1> QED
  BY <1>2, <1>3, <1>5 DEF Ends

(* A row is put in front. *)
LEMMA FitsRow ==
    ASSUME NEW m \in Nat, NEW head, NEW r, NEW q \in 0..m, NEW h,
           NEW more, NEW ops, NEW a, NEW b, Row(more, m, q, ops), Ends(more, a, b),
           ops \cap Carries # {} => head.op \in Carries,
           ops \cap Asks # {} => head.op \in Asks,
           q # Null \/ (q = r /\ head.op # "query"),
           head.op \notin Halves \/ b = head,
           RegisterFits(a.op, h, m)
    PROVE  Fits(more, head, r, q, h, m)
BY DEF Fits, Row, Ends

(* Nothing is put in front. *)
LEMMA FitsNone ==
    ASSUME NEW m \in Nat, NEW head, NEW r, NEW q \in 0..m, NEW h,
           q # Null \/ (q = r /\ head.op # "query"),
           head.op = "publish" => h \in 0..m,
           head.op \in {"lot", "find", "push", "free", "destroy"}
               => h \in Id \cup {Null},
           head.op = "mark" => h \in Nat
    PROVE  Fits(<<>>, head, r, q, h, m)
<1>1. <<>> \in Seq(StepsFor(m)) /\ Len(<<>>) = 0 /\ DOMAIN <<>> = {}
  OBVIOUS
<1>2. Shape(<<>>) /\ RouteKnown(<<>>, q)
  BY <1>1 DEF Shape, RouteKnown
<1>3. ASSUME NEW x \in StepsFor(m), Tied(head, x), x.op \notin FirstOnly
      PROVE  RegisterFits(x.op, h, m)
  BY <1>3 DEF Tied, RegisterFits, FirstOnly
<1> QED
  BY <1>1, <1>2, <1>3 DEF Fits

(* query_table, then odr_route_msg. *)
LEMMA RouteToRow ==
    ASSUME NEW n \in Nat, NEW r, NEW d \in Node
    PROVE  /\ Row(RouteTo(d), n, r, {"query", "route"})
           /\ Ends(RouteTo(d), [op |-> "query", arg |-> d],
                   [op |-> "route", arg |-> d])
<1>1. PICK a : a = [op |-> "query", arg |-> d]
  OBVIOUS
<1>2. PICK b : b = [op |-> "route", arg |-> d]
  OBVIOUS
<1>3. a \in StepsFor(n) /\ a.op = "query" /\ b \in StepsFor(n) /\ b.op = "route"
  BY <1>1, <1>2, StepMade DEF NodeStep
<1>4. PICK s : s = <<a, b>>
  OBVIOUS
<1>5. /\ s \in Seq(StepsFor(n)) /\ Len(s) = 2 /\ DOMAIN s = 1..2 /\ s # <<>>
      /\ s[1] = a /\ s[2] = b
  BY <1>3, <1>4
<1>6. Shape(s)
  BY <1>3, <1>5 DEF Shape, Carries, Asks, FirstOnly, Tied
<1>7. RouteKnown(s, r)
  BY <1>3, <1>5 DEF RouteKnown, UsesRoute
<1>8. Row(s, n, r, {"query", "route"}) /\ Ends(s, a, b)
  BY <1>3, <1>5, <1>6, <1>7 DEF Row, Ends
<1>9. s = RouteTo(d)
  BY <1>1, <1>2, <1>4, TwoSteps DEF RouteTo, Op
<1> QED
  BY <1>1, <1>2, <1>8, <1>9

(* insert_in_odr_parking_lot *)
CarSteps == {"lot", "find", "remove", "push", "push_link", "check"}

LEMMA InsertCarRow ==
    ASSUME NEW n \in Nat, NEW r, NEW e \in 1..n
    PROVE  /\ Row(InsertCar(e), n, r, CarSteps)
           /\ Ends(InsertCar(e), [op |-> "lot", arg |-> e],
                   [op |-> "check", arg |-> e])
<1> DEFINE Is(x, name, a) ==
               x \in StepsFor(n) /\ x.op = name /\ x.arg = a /\ <<x>> = Op(name, a)
<1>1. \A name \in EntryStep : \E x : Is(x, name, e)
  BY StepMade DEF Op
<1>2. \E x : Is(x, "find", Null)
  BY StepMade DEF Op, PlainStep
<1>3. PICK x1 : Is(x1, "lot", e)
  BY <1>1 DEF EntryStep
<1>4. PICK x2 : Is(x2, "find", Null)
  BY <1>2
<1>5. PICK x3 : Is(x3, "remove", e)
  BY <1>1 DEF EntryStep
<1>6. PICK x4 : Is(x4, "push", e)
  BY <1>1 DEF EntryStep
<1>7. PICK x5 : Is(x5, "push_link", e)
  BY <1>1 DEF EntryStep
<1>8. PICK x6 : Is(x6, "check", e)
  BY <1>1 DEF EntryStep
<1> DEFINE Plain(x) == x.op \notin UsesRoute \cup Carries \cup Asks \cup FirstOnly
<1>9. /\ Plain(x1) /\ Plain(x2) /\ Plain(x3) /\ Plain(x5) /\ Plain(x6)
      /\ x4.op \notin UsesRoute \cup Asks \cup FirstOnly
      /\ Tied(x1, x2) /\ Tied(x2, x3) /\ Tied(x3, x1) /\ Tied(x1, x4)
      /\ Tied(x4, x5) /\ Tied(x5, x6)
  BY <1>3, <1>4, <1>5, <1>6, <1>7, <1>8
     DEF UsesRoute, Carries, Asks, FirstOnly, Tied
<1>10. Row(<<x1>>, n, r, {"lot"}) /\ Ends(<<x1>>, x1, x1)
  <2>1. PICK s : s = <<x1>>
    OBVIOUS
  <2>2. /\ s \in Seq(StepsFor(n)) /\ Len(s) = 1 /\ DOMAIN s = {1} /\ s[1] = x1
        /\ s # <<>>
    BY <1>3, <2>1
  <2>3. Row(s, n, r, {"lot"}) /\ Ends(s, x1, x1)
    BY <1>3, <1>9, <2>2 DEF Row, Shape, RouteKnown, Ends
  <2> QED
    BY <2>1, <2>3
<1>11. PICK s2 : s2 = <<x1>> \o <<x2>>
  OBVIOUS
<1>12. Row(s2, n, r, {"lot", "find"}) /\ Ends(s2, x1, x2)
  <2>1. Row(s2, n, r, {"lot", "find"})
    BY <1>4, <1>9, <1>10, <1>11, RowMore
  <2>2. Ends(s2, x1, x2)
    BY <1>4, <1>10, <1>11, EndsMore DEF Row
  <2> QED
    BY <2>1, <2>2
<1>13. PICK s3 : s3 = s2 \o <<x3>>
  OBVIOUS
<1>14. Row(s3, n, r, {"lot", "find", "remove"}) /\ Ends(s3, x1, x3)
  <2>1. Row(s3, n, r, {"lot", "find", "remove"})
    BY <1>5, <1>9, <1>12, <1>13, RowMore
  <2>2. Ends(s3, x1, x3)
    BY <1>5, <1>12, <1>13, EndsMore DEF Row
  <2> QED
    BY <2>1, <2>2
<1>15. PICK s4 : s4 = s3 \o <<x1>>
  OBVIOUS
<1>16. Row(s4, n, r, {"lot", "find", "remove"}) /\ Ends(s4, x1, x1)
  <2>1. Row(s4, n, r, {"lot", "find", "remove"})
    BY <1>3, <1>9, <1>14, <1>15, RowMore
  <2>2. Ends(s4, x1, x1)
    BY <1>3, <1>14, <1>15, EndsMore DEF Row
  <2> QED
    BY <2>1, <2>2
<1>17. PICK s5 : s5 = s4 \o <<x4>>
  OBVIOUS
<1>18. Row(s5, n, r, {"lot", "find", "remove", "push"}) /\ Ends(s5, x1, x4)
  <2>1. Row(s5, n, r, {"lot", "find", "remove", "push"})
    <3>1. {"lot", "find", "remove"} \cap Carries = {}
      BY DEF Carries
    <3> QED
      BY <1>6, <1>9, <1>16, <1>17, <3>1, RowMore
  <2>2. Ends(s5, x1, x4)
    BY <1>6, <1>16, <1>17, EndsMore DEF Row
  <2> QED
    BY <2>1, <2>2
<1>19. PICK s6 : s6 = s5 \o <<x5>>
  OBVIOUS
<1>20. /\ Row(s6, n, r, {"lot", "find", "remove", "push", "push_link"})
       /\ Ends(s6, x1, x5)
  <2>1. Row(s6, n, r, {"lot", "find", "remove", "push", "push_link"})
    BY <1>7, <1>9, <1>18, <1>19, RowMore
  <2>2. Ends(s6, x1, x5)
    BY <1>7, <1>18, <1>19, EndsMore DEF Row
  <2> QED
    BY <2>1, <2>2
<1>21. PICK s7 : s7 = s6 \o <<x6>>
  OBVIOUS
<1>22. Row(s7, n, r, CarSteps) /\ Ends(s7, x1, x6)
  <2>1. Row(s7, n, r, CarSteps)
    BY <1>8, <1>9, <1>20, <1>21, RowMore DEF CarSteps
  <2>2. Ends(s7, x1, x6)
    BY <1>8, <1>20, <1>21, EndsMore DEF Row
  <2> QED
    BY <2>1, <2>2
<1>23. InsertCar(e) = s7
  BY <1>3, <1>4, <1>5, <1>6, <1>7, <1>8, <1>11, <1>13, <1>15, <1>17, <1>19,
     <1>21 DEF InsertCar
<1>24. x1 = [op |-> "lot", arg |-> e] /\ x6 = [op |-> "check", arg |-> e]
  BY <1>3, <1>8 DEF StepsFor
<1> QED
  BY <1>22, <1>23, <1>24

-----------------------------------------------------------------------------
(* The inductive invariant. *)

Has(t, ops) == \E k \in DOMAIN todo[t] : todo[t][k].op \in ops

(* Steps that only frames lead to. *)
BackendSteps == {"release", "unpark", "destroy", "clear", "found", "update",
                 "set_hop", "set_time"}

PlanOK(t) ==
    /\ Plan(todo[t], rte[t], reg[t], Len(entry))
    /\ t = "frontend" => ~Has(t, BackendSteps)

MemoryOK ==
    /\ entry \in Seq(Cell)
    /\ \A e \in DOMAIN entry : entry[e].next \in Pointer
    /\ rt_table \in Pointer
    /\ next_car \in [Id -> Id \cup {Null}]
    /\ freed \subseteq Id
    /\ broadcast_id \in [Id -> Nat]

(* The REQ that a thread may yet make. *)
Due(t) == IF Has(t, Asks) THEN 1 ELSE 0

CountsOK ==
    /\ received \in [Thread -> Nat]
    /\ events \in 0..MaxEvents
    /\ received["frontend"] + received["backend"] <= events
    /\ requests \in Seq([destination : Node, id : Nat])
    /\ Len(requests) + Due("frontend") + Due("backend")
           <= received["frontend"] + received["backend"]
    /\ g_broadcast_id \in Nat

(* The numbers of the messages or frames that t has read. *)
Ids(t) == IF t = "frontend" THEN 1..received[t]
          ELSE (MaxEvents + 1)..(MaxEvents + received[t])

JobsOK ==
    /\ job \in [Thread -> Job]
    /\ \A t \in Thread :
           /\ job[t].id \in Ids(t) \cup {Null}
           /\ Has(t, Carries) => job[t].id # Null

LocalsOK ==
    /\ DOMAIN todo = Thread
    /\ rte \in [Thread -> Nat] /\ reg \in [Thread -> Nat]
    /\ alive \subseteq Thread
    /\ main \in {"join", "destroyed", "exited"}
    /\ {stopping, clash} \subseteq BOOLEAN
    /\ sent \in [Id -> Nat] /\ astray \subseteq Id
    /\ fault \in {"none", "null", "freed", "endless", "signal"}

Typed ==
    /\ MemoryOK
    /\ CountsOK
    /\ JobsOK
    /\ LocalsOK
    /\ \A t \in Thread : PlanOK(t)

-----------------------------------------------------------------------------
(* Walks along lists. *)

(* Every nonempty set of natural numbers has a least element. *)
LEMMA Least ==
    ASSUME NEW S, S \subseteq Nat, S # {}
    PROVE  \E x \in S : \A y \in S : x <= y
<1> DEFINE R == OpToRel(<, Nat)
<1>1. \E x \in S : \A y \in S : ~ (<<y, x>> \in R)
  BY NatLessThanWellFounded, WFMin
<1>2. \A x, y \in Nat : ~ (<<y, x>> \in R) => x <= y
  BY DEF OpToRel
<1> QED
  BY <1>1, <1>2

(* One more pointer of a walk whose pointers so far are those of at. *)
Next1(first, next, at, k) ==
    IF k = 1 THEN first
    ELSE LET previous == at[k - 1]
         IN  IF previous = Null THEN Null ELSE next[previous]

(* There is a walk of every length, so Walk is what its equation says. *)
LEMMA WalkEquation ==
    ASSUME NEW first, NEW next, NEW length \in Nat
    PROVE  LET w == Walk(first, next, length)
           IN  w = [k \in 1..length |-> Next1(first, next, w, k)]
<1> DEFINE Is(at, n) == at = [k \in 1..n |-> Next1(first, next, at, k)]
           Bad == {n \in Nat : ~\E at : Is(at, n)}
<1>1. Bad = {}
  <2> SUFFICES ASSUME Bad # {}
               PROVE  FALSE
    OBVIOUS
  <2>1. PICK n \in Bad : \A j \in Bad : n <= j
    BY Least
  <2>2. n \in Nat /\ ~\E at : Is(at, n)
    BY <2>1
  <2>3. CASE n = 0
    <3> DEFINE at == [k \in 1..0 |-> first]
    <3>1. at = [k \in 1..0 |-> Next1(first, next, at, k)]
      OBVIOUS
    <3> QED
      BY <2>2, <2>3, <3>1
  <2>4. CASE n # 0
    <3>1. n - 1 \in Nat /\ n - 1 \notin Bad
      BY <2>1, <2>2, <2>4
    <3>2. PICK f : Is(f, n - 1)
      BY <3>1
    <3> DEFINE g == [k \in 1..n |-> Next1(first, next, f, k)]
    <3>3. \A k \in 1..(n - 1) : f[k] = g[k]
      BY <2>2, <3>2
    <3>4. \A k \in 1..n : g[k] = Next1(first, next, g, k)
      <4> SUFFICES ASSUME NEW k \in 1..n
                   PROVE  g[k] = Next1(first, next, g, k)
        OBVIOUS
      <4>1. g[k] = Next1(first, next, f, k)
        OBVIOUS
      <4>2. k # 1 => k - 1 \in 1..(n - 1)
        BY <2>2
      <4>3. k # 1 => f[k - 1] = g[k - 1]
        BY <3>3, <4>2
      <4> QED
        BY <4>1, <4>3 DEF Next1
    <3>5. Is(g, n)
      <4> DEFINE h == [k \in 1..n |-> Next1(first, next, g, k)]
      <4>1. \A k \in 1..n : g[k] = h[k]
        BY <3>4
      <4>2. g = h
        BY <4>1
      <4> QED
        BY <4>2
    <3> QED
      BY <2>2, <3>5
  <2> QED
    BY <2>3, <2>4
<1>2. \E at : Is(at, length)
  BY <1>1
<1>3. Walk(first, next, length) = CHOOSE at : Is(at, length)
  BY DEF Walk, Next1
<1>4. Is(CHOOSE at : Is(at, length), length)
  BY <1>2
<1> QED
  BY <1>3, <1>4

(* A walk stays where the pointers point. *)
LEMMA WalkType ==
    ASSUME NEW S, NEW next, \A c \in S : next[c] \in S \cup {Null},
           NEW first \in S \cup {Null}, NEW length \in Nat
    PROVE  Walk(first, next, length) \in [1..length -> S \cup {Null}]
<1>1. PICK w : w = Walk(first, next, length)
  OBVIOUS
<1>2. w = [k \in 1..length |-> Next1(first, next, w, k)]
  BY <1>1, WalkEquation
<1> DEFINE Bad == {k \in 1..length : w[k] \notin S \cup {Null}}
<1>3. Bad = {}
  <2> SUFFICES ASSUME Bad # {}
               PROVE  FALSE
    OBVIOUS
  <2>0. Bad \subseteq Nat
    OBVIOUS
  <2>1. PICK n \in Bad : \A j \in Bad : n <= j
    BY <2>0, Least
  <2>2. n \in 1..length /\ w[n] \notin S \cup {Null}
    BY <2>1
  <2>3. n # 1 => n - 1 \in 1..length /\ n - 1 \notin Bad
    BY <2>1, <2>2
  <2>4. w[n] = Next1(first, next, w, n)
    BY <1>2, <2>2
  <2> QED
    BY <2>2, <2>3, <2>4 DEF Next1
<1>4. DOMAIN w = 1..length
  BY <1>2
<1>5. w \in [1..length -> S \cup {Null}]
  <2>1. w = [k \in 1..length |-> w[k]]
    BY <1>2
  <2> QED
    BY <2>1, <1>3
<1> QED
  BY <1>1, <1>5

LEMMA FindType ==
    ASSUME MemoryOK, NEW d
    PROVE  Find(d) \in Pointer
<1>1. Len(entry) \in Nat /\ DOMAIN entry = 1..Len(entry)
  BY DEF MemoryOK
<1> DEFINE next == [e \in DOMAIN entry |-> entry[e].next]
<1>2. \A e \in 1..Len(entry) : next[e] \in 1..Len(entry) \cup {Null}
  BY <1>1 DEF MemoryOK, Pointer, Null
<1>3. rt_table \in 1..Len(entry) \cup {Null} /\ Len(entry) + 1 \in Nat
  BY <1>1 DEF MemoryOK, Pointer, Null
<1>4. Path \in [1..(Len(entry) + 1) -> 1..Len(entry) \cup {Null}]
  BY <1>2, <1>3, WalkType DEF Path
<1> DEFINE matches == {k \in DOMAIN Path :
                          Path[k] # Null /\ entry[Path[k]].destination = d}
<1>5. CASE matches = {}
  BY <1>1, <1>5 DEF Find, Pointer, Null
<1>6. CASE matches # {}
  <2>1. matches \subseteq Nat
    BY <1>4
  <2>2. \E k \in matches : \A j \in matches : k <= j
    BY <1>6, <2>1, Least
  <2> DEFINE i == CHOOSE k \in matches : \A j \in matches : k <= j
  <2>3. i \in matches
    BY <2>2
  <2>4. Find(d) = Path[i]
    BY <1>6 DEF Find
  <2> HIDE DEF i
  <2> QED
    BY <1>1, <1>4, <2>3, <2>4 DEF Pointer, Null
<1> QED
  BY <1>5, <1>6

(* An entry that is found is for that destination. *)
LEMMA FoundEntry ==
    ASSUME MemoryOK, NEW d, Find(d) # Null
    PROVE  Find(d) \in DOMAIN entry /\ entry[Find(d)].destination = d
<1> DEFINE matches == {k \in DOMAIN Path :
                          Path[k] # Null /\ entry[Path[k]].destination = d}
<1>1. matches # {}
  BY DEF Find
<1>2. Find(d) \in 1..Len(entry) /\ DOMAIN entry = 1..Len(entry)
  BY FindType DEF Pointer, MemoryOK, Null
<1>3. Find(d) = Path[CHOOSE k \in matches : \A j \in matches : k <= j]
  BY <1>1 DEF Find
<1>4. DOMAIN Path \subseteq Nat
  <2>1. Len(entry) + 1 \in Nat
    BY DEF MemoryOK
  <2>2. DOMAIN Path = 1..(Len(entry) + 1)
    BY <2>1, WalkEquation DEF Path
  <2> QED
    BY <2>2
<1>5. \E k \in matches : \A j \in matches : k <= j
  BY <1>1, <1>4, Least
<1>6. (CHOOSE k \in matches : \A j \in matches : k <= j) \in matches
  BY <1>5
<1> QED
  BY <1>2, <1>3, <1>6

-----------------------------------------------------------------------------
(* Steps that are in order whatever they do to the messages. *)

(* A thread's step that puts fitting steps in front of the others. *)
LEMMA EventTyped ==
    ASSUME Typed, NEW t \in Thread, todo[t] # <<>>, NEW more, Then(t, more),
           Fits(more, todo[t][1], rte[t], rte'[t], reg'[t], Len(entry')),
           \A k \in DOMAIN more :
               more[k].op \in BackendSteps => todo[t][1].op \in BackendSteps,
           rte'[Other(t)] = rte[Other(t)], reg'[Other(t)] = reg[Other(t)],
           MemoryOK', Len(entry) <= Len(entry'), LocalsOK',
           UNCHANGED <<job, received>>, g_broadcast_id' \in Nat,
           events' \in 0..MaxEvents, events <= events',
           \/ UNCHANGED requests
           \/ /\ requests' \in Seq([destination : Node, id : Nat])
              /\ Len(requests') = Len(requests) + 1
              /\ todo[t][1].op \in Asks /\ more = <<>>
    PROVE  /\ Typed'
           /\ \A u \in Thread : Has(u, Carries)' => Has(u, Carries)
<1>1. /\ Len(entry) \in Nat /\ Len(entry') \in Nat
      /\ DOMAIN todo = Thread /\ DOMAIN todo' = Thread
      /\ PlanOK(t) /\ PlanOK(Other(t)) /\ Other(t) \in Thread /\ Other(t) # t
      /\ \A u \in Thread : u = t \/ u = Other(t)
  BY DEF Typed, MemoryOK, LocalsOK, Thread, Other
<1>2. todo'[t] = more \o Tail(todo[t]) /\ todo'[Other(t)] = todo[Other(t)]
  BY <1>1 DEF Then
<1>3. Plan(todo'[t], rte'[t], reg'[t], Len(entry'))
  BY <1>1, <1>2, ThenPlan DEF PlanOK
<1>4. Plan(todo'[Other(t)], rte'[Other(t)], reg'[Other(t)], Len(entry'))
  <2>1. StepsFor(Len(entry)) \subseteq StepsFor(Len(entry'))
    BY <1>1, MoreEntries
  <2>2. todo[Other(t)] \in Seq(StepsFor(Len(entry')))
    BY <1>1, <2>1, SeqMonotonic DEF PlanOK, Plan
  <2> QED
    BY <1>1, <1>2, <2>2 DEF PlanOK, Plan, RegisterFits
<1>5. /\ todo[t] \in Seq(StepsFor(Len(entry')))
      /\ more \in Seq(StepsFor(Len(entry'))) /\ Shape(todo[t])
  BY <1>1, MoreEntries, SeqMonotonic DEF PlanOK, Plan, Fits
<1>6. Has(t, BackendSteps)' => Has(t, BackendSteps)
  <2>1. PICK ops : ops = BackendSteps
    OBVIOUS
  <2>2. \A k \in DOMAIN more : more[k].op \in ops => todo[t][1].op \in ops
    BY <2>1
  <2>3. ASSUME Has(t, ops)'
        PROVE  Has(t, ops)
    <3>1. \E k \in DOMAIN todo'[t] : todo'[t][k].op \in ops
      BY <2>3 DEF Has
    <3>2. \E k \in DOMAIN todo[t] : todo[t][k].op \in ops
      BY SMTT(40), <1>1, <1>2, <1>5, <2>2, <3>1, ThenHas
    <3> QED
      BY <3>2 DEF Has
  <2> QED
    BY <2>1, <2>3 DEF Has
<1>7. \A u \in Thread : PlanOK(u)'
  BY <1>1, <1>2, <1>3, <1>4, <1>6 DEF PlanOK, Has
<1>8. Has(t, Carries)' => Has(t, Carries)
  <2>1. \A k \in DOMAIN more : more[k].op \in Carries => todo[t][1].op \in Carries
    BY DEF Fits
  <2>2. ASSUME Has(t, Carries)'
        PROVE  Has(t, Carries)
    <3>1. \E k \in DOMAIN todo'[t] : todo'[t][k].op \in Carries
      BY <2>2 DEF Has
    <3>2. \E k \in DOMAIN todo[t] : todo[t][k].op \in Carries
      BY SMTT(40), <1>1, <1>2, <1>5, <2>1, <3>1, ThenHas
    <3> QED
      BY <3>2 DEF Has
  <2> QED
    BY <2>2
<1>9. Has(t, Asks)' => Has(t, Asks)
  <2>1. \A k \in DOMAIN more : more[k].op \in Asks => todo[t][1].op \in Asks
    BY DEF Fits
  <2>2. ASSUME Has(t, Asks)'
        PROVE  Has(t, Asks)
    <3>1. \E k \in DOMAIN todo'[t] : todo'[t][k].op \in Asks
      BY <2>2 DEF Has
    <3>2. \E k \in DOMAIN todo[t] : todo[t][k].op \in Asks
      BY SMTT(40), <1>1, <1>2, <1>5, <2>1, <3>1, ThenHas
    <3> QED
      BY <3>2 DEF Has
  <2> QED
    BY <2>2
<1>10. \A ops : Has(Other(t), ops)' <=> Has(Other(t), ops)
  BY <1>2 DEF Has
<1>11. \A u \in Thread : Has(u, Carries)' => Has(u, Carries)
  BY <1>1, <1>8, <1>10
<1>12. JobsOK'
  BY <1>11 DEF JobsOK, Ids, Typed
<1>13. CountsOK'
  <2>1. \A u \in Thread : Has(u, Asks)' => Has(u, Asks)
    BY <1>1, <1>9, <1>10
  <2>2. (Has("frontend", Asks)' => Has("frontend", Asks))
        /\ (Has("backend", Asks)' => Has("backend", Asks))
    BY <2>1 DEF Thread
  <2>3. /\ Due("frontend")' <= Due("frontend")
        /\ Due("backend")' <= Due("backend")
        /\ Due("frontend") \in 0..1 /\ Due("backend") \in 0..1
        /\ Due("frontend")' \in 0..1 /\ Due("backend")' \in 0..1
    BY <2>2 DEF Due
  <2>4. CASE UNCHANGED requests
    <3>1. /\ received \in [Thread -> Nat] /\ events \in 0..MaxEvents
          /\ events \in Nat /\ events' \in Nat /\ MaxEvents \in Nat
          /\ received["frontend"] \in Nat /\ received["backend"] \in Nat
          /\ requests \in Seq([destination : Node, id : Nat])
          /\ Len(requests) \in Nat
          /\ received["frontend"] + received["backend"] <= events
          /\ Len(requests) + Due("frontend") + Due("backend")
                 <= received["frontend"] + received["backend"]
      BY LimitAssumption DEF CountsOK, Typed, Thread
    <3> QED
      BY SMTT(40), <2>3, <2>4, <3>1 DEF CountsOK
  <2>5. CASE /\ requests' \in Seq([destination : Node, id : Nat])
             /\ Len(requests') = Len(requests) + 1
             /\ todo[t][1].op \in Asks /\ more = <<>>
    <3>1. ~Has(t, Asks)'
      <4>1. \A k \in DOMAIN more : more[k].op \notin Asks
        BY <2>5
      <4> QED
        BY <1>1, <1>2, <1>5, <2>5, <4>1, ThenHasNot DEF Has
    <3>2. Has(t, Asks)
      <4>1. 1 \in DOMAIN todo[t]
        BY <1>5, EmptySeq
      <4> QED
        BY <2>5, <4>1 DEF Has
    <3>3. CASE t = "frontend"
      <4>1. Due("frontend")' = 0 /\ Due("frontend") = 1
        BY <3>1, <3>2, <3>3 DEF Due
      <4> QED
        BY <2>3, <2>5, <4>1, LimitAssumption DEF CountsOK, Typed, Thread
    <3>4. CASE t = "backend"
      <4>1. Due("backend")' = 0 /\ Due("backend") = 1
        BY <3>1, <3>2, <3>4 DEF Due
      <4> QED
        BY <2>3, <2>5, <4>1, LimitAssumption DEF CountsOK, Typed, Thread
    <3> QED
      BY <3>3, <3>4 DEF Thread
  <2> QED
    BY <2>4, <2>5
<1> QED
  BY <1>7, <1>11, <1>12, <1>13 DEF Typed

LEMMA StepTyped ==
    ASSUME Typed, NEW t \in Thread, todo[t] # <<>>, NEW more, Then(t, more),
           Fits(more, todo[t][1], rte[t], rte'[t], reg'[t], Len(entry')),
           \A k \in DOMAIN more :
               more[k].op \in BackendSteps => todo[t][1].op \in BackendSteps,
           rte'[Other(t)] = rte[Other(t)], reg'[Other(t)] = reg[Other(t)],
           MemoryOK', Len(entry) <= Len(entry'), LocalsOK',
           UNCHANGED <<job, received, events>>, g_broadcast_id' \in Nat,
           \/ UNCHANGED requests
           \/ /\ requests' \in Seq([destination : Node, id : Nat])
              /\ Len(requests') = Len(requests) + 1
              /\ todo[t][1].op \in Asks /\ more = <<>>
    PROVE  /\ Typed'
           /\ \A u \in Thread : Has(u, Carries)' => Has(u, Carries)
<1>1. events' \in 0..MaxEvents /\ events <= events' /\ UNCHANGED <<job, received>>
  BY LimitAssumption DEF Typed, CountsOK
<1> QED
  BY <1>1, EventTyped

(* What the first pending step of a thread says. *)
LEMMA HeadStep ==
    ASSUME Typed, NEW t \in Thread, NEW name, todo[t] # <<>>,
           Head(todo[t]).op = name
    PROVE  /\ todo[t][1].op = name /\ Head(todo[t]) = todo[t][1]
           /\ Arg(t) = todo[t][1].arg
           /\ name \in EntryStep => Arg(t) \in DOMAIN entry
           /\ name \in CarStep => Arg(t) \in Id
           /\ name \in NodeStep => Arg(t) \in Node
           /\ name \in PlainStep => Arg(t) = Null
           /\ todo[t][1] \in StepsFor(Len(entry))
           /\ name \in UsesRoute => rte[t] \in DOMAIN entry
           /\ name \in BackendSteps => t = "backend"
           /\ RegisterFits(name, reg[t], Len(entry))
           /\ rte[t] \in 0..Len(entry) /\ Len(entry) \in Nat
           /\ DOMAIN entry = 1..Len(entry) /\ 1 \in DOMAIN todo[t]
<1>1. PlanOK(t) /\ Len(entry) \in Nat /\ DOMAIN entry = 1..Len(entry)
  BY DEF Typed, MemoryOK
<1>2. /\ todo[t] \in Seq(StepsFor(Len(entry))) /\ rte[t] \in 0..Len(entry)
      /\ RouteKnown(todo[t], rte[t]) /\ RegisterFits(todo[t][1].op, reg[t], Len(entry))
      /\ t = "frontend" => ~Has(t, BackendSteps)
  BY <1>1 DEF PlanOK, Plan
<1>3. /\ Head(todo[t]) = todo[t][1] /\ 1 \in DOMAIN todo[t]
      /\ todo[t][1] \in StepsFor(Len(entry))
  BY <1>2, HeadTailProperties, EmptySeq
<1>4. /\ name \in EntryStep => todo[t][1].arg \in 1..Len(entry)
      /\ name \in CarStep => todo[t][1].arg \in Id
      /\ name \in NodeStep => todo[t][1].arg \in Node
      /\ name \in PlainStep => todo[t][1].arg = Null
  BY <1>1, <1>3, StepType
<1>5. name \in UsesRoute => rte[t] # Null
  BY <1>2, <1>3 DEF RouteKnown
<1>6. name \in BackendSteps => t = "backend"
  BY <1>2, <1>3 DEF Has, Thread
<1> QED
  BY <1>1, <1>2, <1>3, <1>4, <1>5, <1>6 DEF Arg, Null

(* A thread that has its message afterwards had it before. *)
Keeps == \A u \in Thread : Has(u, Carries)' => Has(u, Carries)

LEMMA ReadsTyped ==
    ASSUME Typed, NEW t \in Thread, todo[t] # <<>>, NEW more,
           OnlyReads(t, more),
           Fits(more, todo[t][1], rte[t], rte[t], reg[t], Len(entry)),
           \A k \in DOMAIN more :
               more[k].op \in BackendSteps => todo[t][1].op \in BackendSteps
    PROVE  Typed' /\ Keeps
<1>1. /\ Then(t, more)
      /\ UNCHANGED <<rt_table, entry, next_car, freed, broadcast_id,
                     g_broadcast_id, job,
                     rte, reg, alive, main, stopping, received, requests,
                     sent, astray, clash, fault, events>>
  BY DEF OnlyReads, table, cars, local, process, history
<1>2. MemoryOK' /\ LocalsOK'
  BY <1>1 DEF Typed, MemoryOK, LocalsOK, Pointer, Then
<1>3. Len(entry) <= Len(entry') /\ g_broadcast_id' \in Nat
  BY <1>1 DEF Typed, MemoryOK, CountsOK
<1>4. Fits(more, todo[t][1], rte[t], rte'[t], reg'[t], Len(entry'))
  BY <1>1
<1> QED
  BY <1>1, <1>2, <1>3, <1>4, StepTyped DEF Keeps

LEMMA WritesTyped ==
    ASSUME Typed, NEW t \in Thread, todo[t] # <<>>, NEW more,
           NEW e \in DOMAIN entry, NEW value \in Cell, value.next \in Pointer,
           Writes(t, e, value, more),
           Fits(more, todo[t][1], rte[t], rte[t], reg[t], Len(entry)),
           \A k \in DOMAIN more :
               more[k].op \in BackendSteps => todo[t][1].op \in BackendSteps
    PROVE  Typed' /\ Keeps
<1>1. /\ Then(t, more)
      /\ entry' = [entry EXCEPT ![e] = value]
      /\ UNCHANGED <<rt_table, next_car, freed, broadcast_id,
                     g_broadcast_id, job,
                     rte, reg, alive, main, stopping, received, requests,
                     sent, astray, clash, fault, events>>
  BY DEF Writes, cars, local, process, history
<1>2. /\ entry' \in Seq(Cell) /\ Len(entry') = Len(entry)
      /\ DOMAIN entry' = DOMAIN entry /\ Len(entry) \in Nat
      /\ \A f \in DOMAIN entry : entry'[f] = IF f = e THEN value ELSE entry[f]
  BY <1>1, ExceptSeq DEF Typed, MemoryOK
<1>3. MemoryOK' /\ LocalsOK'
  BY <1>1, <1>2 DEF Typed, MemoryOK, LocalsOK, Pointer, Then
<1>4. Len(entry) <= Len(entry') /\ g_broadcast_id' \in Nat
  BY <1>1, <1>2 DEF Typed, CountsOK
<1>5. Fits(more, todo[t][1], rte[t], rte'[t], reg'[t], Len(entry'))
  BY <1>1, <1>2
<1> QED
  BY <1>1, <1>3, <1>4, <1>5, StepTyped DEF Keeps

LEMMA CreatesTyped ==
    ASSUME Typed, NEW t \in Thread, todo[t] # <<>>, NEW more, NEW pointer,
           NEW d \in Node \cup {Unnamed}, Creates(t, NewEntry(d), pointer, more),
           Fits(more, todo[t][1], rte[t], pointer, reg[t], Len(entry) + 1),
           \A k \in DOMAIN more :
               more[k].op \in BackendSteps => todo[t][1].op \in BackendSteps
    PROVE  /\ Typed' /\ Keeps
           /\ Len(entry') = Len(entry) + 1
           /\ \A f \in DOMAIN entry : entry'[f] = entry[f]
           /\ entry'[Len(entry')] = NewEntry(d)
<1>1. /\ Then(t, more)
      /\ entry' = Append(entry, NewEntry(d))
      /\ rte' = [rte EXCEPT ![t] = pointer]
      /\ clash' = (clash \/ Busy(Other(t)))
      /\ UNCHANGED <<rt_table, next_car, freed, broadcast_id,
                     g_broadcast_id, job,
                     reg, alive, main, stopping, received, requests,
                     sent, astray, fault, events>>
  BY DEF Creates, cars, process
<1>2. /\ NewEntry(d) \in Cell /\ NewEntry(d).next = Null
      /\ NewEntry(d).parking_lot = Null
  BY DEF NewEntry, Cell, Null
<1>3. /\ entry' \in Seq(Cell) /\ Len(entry') = Len(entry) + 1
      /\ DOMAIN entry' = 1..(Len(entry) + 1) /\ Len(entry) \in Nat
      /\ DOMAIN entry = 1..Len(entry)
      /\ \A f \in DOMAIN entry : entry'[f] = entry[f]
      /\ entry'[Len(entry) + 1] = NewEntry(d)
  BY <1>1, <1>2, AppendProperties DEF Typed, MemoryOK
<1>4. MemoryOK'
  <2>1. \A f \in DOMAIN entry' : entry'[f].next \in Pointer'
    <3> SUFFICES ASSUME NEW f \in 1..(Len(entry) + 1)
                 PROVE  entry'[f].next \in 0..(Len(entry) + 1)
      BY <1>3 DEF Pointer
    <3>1. CASE f = Len(entry) + 1
      BY <1>2, <1>3, <3>1 DEF Null
    <3>2. CASE f \in 1..Len(entry)
      BY <1>3, <3>2 DEF Typed, MemoryOK, Pointer
    <3> QED
      BY <1>3, <3>1, <3>2
  <2> QED
    BY <1>1, <1>3, <2>1 DEF Typed, MemoryOK, Pointer
<1>5. LocalsOK'
  BY <1>1 DEF Typed, LocalsOK, Then, Fits
<1>6. Fits(more, todo[t][1], rte[t], rte'[t], reg'[t], Len(entry'))
  BY <1>1, <1>3 DEF Typed, LocalsOK
<1>7. /\ rte'[Other(t)] = rte[Other(t)] /\ reg'[Other(t)] = reg[Other(t)]
      /\ Len(entry) <= Len(entry') /\ g_broadcast_id' \in Nat
  BY <1>1, <1>3 DEF Typed, LocalsOK, CountsOK, Other, Thread
<1>8. Typed' /\ Keeps
  BY <1>1, <1>4, <1>5, <1>6, <1>7, StepTyped DEF Keeps
<1> QED
  BY <1>3, <1>8

(* A step that changes the thread's own pointer or register. *)
LEMMA LocalTyped ==
    ASSUME Typed, NEW t \in Thread, todo[t] # <<>>, NEW more, Then(t, more),
           rte' \in [Thread -> Nat], rte'[Other(t)] = rte[Other(t)],
           reg' \in [Thread -> Nat], reg'[Other(t)] = reg[Other(t)],
           g_broadcast_id' \in Nat,
           UNCHANGED <<table, cars, job, process, received, requests, clash,
                       fault, events>>,
           sent' \in [Id -> Nat], astray' \subseteq Id,
           Fits(more, todo[t][1], rte[t], rte'[t], reg'[t], Len(entry)),
           \A k \in DOMAIN more :
               more[k].op \in BackendSteps => todo[t][1].op \in BackendSteps
    PROVE  Typed' /\ Keeps
<1>1. UNCHANGED <<rt_table, entry, next_car, freed, broadcast_id, job, alive, main,
                  stopping, received, requests, clash, fault, events>>
  BY DEF table, cars, process
<1>2. MemoryOK' /\ LocalsOK'
  BY <1>1 DEF Typed, MemoryOK, LocalsOK, Pointer, Then
<1>3. Len(entry) <= Len(entry')
  BY <1>1 DEF Typed, MemoryOK
<1>4. Fits(more, todo[t][1], rte[t], rte'[t], reg'[t], Len(entry'))
  BY <1>1
<1> QED
  BY <1>1, <1>2, <1>3, <1>4, StepTyped DEF Keeps

(* A step leaves the register and the pointer of the other thread alone. *)
LEMMA OwnRegister ==
    ASSUME Typed, NEW t \in Thread, NEW x \in Nat,
           reg' = [reg EXCEPT ![t] = x]
    PROVE  /\ reg' \in [Thread -> Nat] /\ reg'[t] = x
           /\ reg'[Other(t)] = reg[Other(t)]
<1>1. reg \in [Thread -> Nat]
  BY DEF Typed, LocalsOK
<1> QED
  BY <1>1 DEF Other, Thread

LEMMA OwnPointer ==
    ASSUME Typed, NEW t \in Thread, NEW x \in Nat,
           rte' = [rte EXCEPT ![t] = x]
    PROVE  /\ rte' \in [Thread -> Nat] /\ rte'[t] = x
           /\ rte'[Other(t)] = rte[Other(t)]
<1>1. rte \in [Thread -> Nat]
  BY DEF Typed, LocalsOK
<1> QED
  BY <1>1 DEF Other, Thread
-----------------------------------------------------------------------------
(* Every step of a thread keeps what Typed says, and puts no message in    *)
(* the hands of a thread.                                                  *)

LEMMA NoMore ==
    ASSUME Typed, NEW t \in Thread, NEW name, Doing(t, name),
           name \notin {"lot", "mark", "query"}
    PROVE  /\ todo[t] # <<>>
           /\ Fits(<<>>, todo[t][1], rte[t], rte[t], reg[t], Len(entry))
           /\ \A k \in DOMAIN <<>> : FALSE
<1>1. todo[t] # <<>> /\ Head(todo[t]).op = name
  BY DEF Doing
<1>2. /\ todo[t][1].op = name /\ rte[t] \in 0..Len(entry) /\ Len(entry) \in Nat
      /\ RegisterFits(name, reg[t], Len(entry))
  BY <1>1, HeadStep
<1>3. Fits(<<>>, todo[t][1], rte[t], rte[t], reg[t], Len(entry))
  BY <1>2, FitsNone DEF RegisterFits
<1> QED
  BY <1>1, <1>3

(* A row of steps that is put in front of a thread's others. *)
LEMMA RowFits ==
    ASSUME Typed, NEW t \in Thread, NEW name, Doing(t, name),
           NEW m \in Nat, Len(entry) <= m, NEW q \in 0..m, NEW h,
           NEW more, NEW ops, NEW a, NEW b, Row(more, m, q, ops), Ends(more, a, b),
           name \notin Carries => ops \cap Carries = {},
           name \notin Asks => ops \cap Asks = {},
           name \notin BackendSteps => ops \cap BackendSteps = {},
           q # Null \/ (q = rte[t] /\ name # "query"),
           name \notin Halves \/ b = [op |-> name, arg |-> Arg(t)],
           RegisterFits(a.op, h, m)
    PROVE  /\ Fits(more, todo[t][1], rte[t], q, h, m)
           /\ \A k \in DOMAIN more :
                  more[k].op \in BackendSteps => todo[t][1].op \in BackendSteps
           /\ todo[t] # <<>>
<1>1. todo[t] # <<>> /\ Head(todo[t]).op = name
  BY DEF Doing
<1>2. /\ todo[t][1].op = name /\ todo[t][1] \in StepsFor(Len(entry))
      /\ Arg(t) = todo[t][1].arg
  BY <1>1, HeadStep
<1>3. todo[t][1] = [op |-> name, arg |-> Arg(t)]
  BY <1>2 DEF StepsFor
<1>4. Fits(more, todo[t][1], rte[t], q, h, m)
  BY <1>2, <1>3, FitsRow
<1>5. \A k \in DOMAIN more : more[k].op \in ops
  BY DEF Row
<1> QED
  BY <1>1, <1>2, <1>4, <1>5

(* One step that is put in front of a thread's others. *)
LEMMA OneFits ==
    ASSUME Typed, NEW t \in Thread, NEW name, Doing(t, name),
           NEW m \in Nat, Len(entry) <= m, NEW q \in 0..m, NEW h,
           NEW new, NEW arg,
           \/ new \in EntryStep /\ arg \in 1..m
           \/ new \in CarStep /\ arg \in Id
           \/ new \in NodeStep /\ arg \in Node
           \/ new \in PlainStep /\ arg = Null,
           new \notin UsesRoute,
           new \in Carries => name \in Carries,
           new \in Asks => name \in Asks,
           new \in BackendSteps => name \in BackendSteps,
           q # Null \/ (q = rte[t] /\ name # "query"),
           name \notin Halves \/ (new = name /\ arg = Arg(t)),
           RegisterFits(new, h, m)
    PROVE  /\ Fits(Op(new, arg), todo[t][1], rte[t], q, h, m)
           /\ \A k \in DOMAIN Op(new, arg) :
                  Op(new, arg)[k].op \in BackendSteps
                      => todo[t][1].op \in BackendSteps
           /\ todo[t] # <<>>
<1>1. PICK p : p = [op |-> new, arg |-> arg]
  OBVIOUS
<1>2. Row(Op(new, arg), m, q, {new}) /\ Ends(Op(new, arg), p, p)
  BY <1>1, RowOne
<1>3. p.op = new /\ RegisterFits(p.op, h, m)
  BY <1>1
<1>4. /\ name \notin Carries => {new} \cap Carries = {}
      /\ name \notin Asks => {new} \cap Asks = {}
      /\ name \notin BackendSteps => {new} \cap BackendSteps = {}
      /\ name \notin Halves \/ p = [op |-> name, arg |-> Arg(t)]
  BY <1>1
<1>5. PICK more : more = Op(new, arg)
  OBVIOUS
<1>6. Row(more, m, q, {new}) /\ Ends(more, p, p)
  BY <1>2, <1>5
<1>7. /\ Fits(more, todo[t][1], rte[t], q, h, m)
      /\ \A k \in DOMAIN more :
             more[k].op \in BackendSteps => todo[t][1].op \in BackendSteps
      /\ todo[t] # <<>>
  BY <1>3, <1>4, <1>6, RowFits
<1> QED
  BY <1>5, <1>7

(* A thread whose step only reads, and is all there is. *)
LEMMA ReadsNoMore ==
    ASSUME Typed, NEW t \in Thread, NEW name, Doing(t, name),
           name \notin {"lot", "mark", "query"},
           OnlyReads(t, <<>>)
    PROVE  Typed' /\ Keeps
BY NoMore, ReadsTyped

LEMMA ReadsOne ==
    ASSUME Typed, NEW t \in Thread, NEW name, Doing(t, name),
           NEW new, NEW arg, OnlyReads(t, Op(new, arg)),
           \/ new \in EntryStep /\ arg \in DOMAIN entry
           \/ new \in CarStep /\ arg \in Id
           \/ new \in NodeStep /\ arg \in Node
           \/ new \in PlainStep /\ arg = Null,
           new \notin UsesRoute, name # "query",
           new \in Carries => name \in Carries,
           new \in Asks => name \in Asks,
           new \in BackendSteps => name \in BackendSteps,
           name \notin Halves \/ (new = name /\ arg = Arg(t)),
           RegisterFits(new, reg[t], Len(entry))
    PROVE  Typed' /\ Keeps
<1>1. /\ Len(entry) \in Nat /\ DOMAIN entry = 1..Len(entry)
      /\ rte[t] \in 0..Len(entry) /\ Len(entry) <= Len(entry)
  BY HeadStep DEF Doing
<1>2. /\ Fits(Op(new, arg), todo[t][1], rte[t], rte[t], reg[t], Len(entry))
      /\ \A k \in DOMAIN Op(new, arg) :
             Op(new, arg)[k].op \in BackendSteps
                 => todo[t][1].op \in BackendSteps
      /\ todo[t] # <<>>
  BY <1>1, OneFits
<1>3. PICK more : more = Op(new, arg)
  OBVIOUS
<1> QED
  BY <1>2, <1>3, ReadsTyped

(* A thread whose step only reads, and has a row to be done. *)
LEMMA ReadsRow ==
    ASSUME Typed, NEW t \in Thread, NEW name, Doing(t, name),
           NEW more, NEW ops, NEW a, NEW b, Row(more, Len(entry), rte[t], ops),
           Ends(more, a, b), OnlyReads(t, more), name # "query",
           name \notin Carries => ops \cap Carries = {},
           name \notin Asks => ops \cap Asks = {},
           name \notin BackendSteps => ops \cap BackendSteps = {},
           name \notin Halves,
           RegisterFits(a.op, reg[t], Len(entry))
    PROVE  Typed' /\ Keeps
<1>1. /\ Len(entry) \in Nat /\ rte[t] \in 0..Len(entry)
      /\ Len(entry) <= Len(entry)
  BY HeadStep DEF Doing
<1>2. /\ Fits(more, todo[t][1], rte[t], rte[t], reg[t], Len(entry))
      /\ \A k \in DOMAIN more :
             more[k].op \in BackendSteps => todo[t][1].op \in BackendSteps
      /\ todo[t] # <<>>
  BY <1>1, RowFits
<1> QED
  BY <1>2, ReadsTyped

LEMMA FieldsTyped ==
    ASSUME Typed, NEW t \in Thread, NEW name \in EntryStep, Doing(t, name),
           name \notin {"lot", "mark"},
           NEW value \in Cell, value.next \in Pointer,
           Writes(t, Arg(t), value, <<>>)
    PROVE  Typed' /\ Keeps
<1>1. todo[t] # <<>> /\ Head(todo[t]).op = name /\ name # "query"
  BY DEF Doing, EntryStep
<1>2. Arg(t) \in DOMAIN entry
  BY <1>1, HeadStep
<1> QED
  BY <1>1, <1>2, NoMore, WritesTyped

(* Any entry is a cell, with a pointer to the next. *)
LEMMA EntryCell ==
    ASSUME Typed, NEW e \in DOMAIN entry
    PROVE  entry[e] \in Cell /\ entry[e].next \in Pointer
BY DEF Typed, MemoryOK

LEMMA FaultyTyped ==
    ASSUME Typed, NEW kind \in {"null", "freed", "endless"}, Faulty(kind)
    PROVE  Typed' /\ Keeps
<1>1. /\ UNCHANGED <<rt_table, entry, next_car, freed, broadcast_id,
                     g_broadcast_id, todo, job, rte, reg, alive, main, stopping,
                     received, requests, sent, astray, clash, events>>
      /\ fault' = kind
  BY DEF Faulty, table, cars, local, process, history
<1>2. MemoryOK' /\ CountsOK' /\ JobsOK' /\ LocalsOK'
  BY <1>1
     DEF Typed, MemoryOK, CountsOK, JobsOK, LocalsOK, Pointer, Due, Has, Ids
<1>3. \A u \in Thread : PlanOK(u)'
  BY <1>1 DEF Typed, PlanOK, Has
<1> QED
  BY <1>1, <1>2, <1>3 DEF Typed, Keeps, Has

LEMMA FreedTyped ==
    ASSUME Typed, NEW c, Freed(c)
    PROVE  Typed' /\ Keeps
BY FaultyTyped DEF Freed

(* A step that changes nothing but the register, and perhaps what is sent. *)
LEMMA RegisterTyped ==
    ASSUME Typed, NEW t \in Thread, todo[t] # <<>>, NEW more,
           Then(t, more), NEW x \in Nat, reg' = [reg EXCEPT ![t] = x],
           UNCHANGED <<table, cars, g_broadcast_id, job, rte, process, received,
                       requests, clash, fault, events>>,
           sent' \in [Id -> Nat], astray' \subseteq Id,
           Fits(more, todo[t][1], rte[t], rte[t], x, Len(entry)),
           \A k \in DOMAIN more :
               more[k].op \in BackendSteps => todo[t][1].op \in BackendSteps
    PROVE  Typed' /\ Keeps
<1>1. /\ reg' \in [Thread -> Nat] /\ reg'[t] = x
      /\ reg'[Other(t)] = reg[Other(t)]
  BY OwnRegister
<1>2. rte' = rte /\ rte \in [Thread -> Nat] /\ g_broadcast_id' \in Nat
  BY DEF Typed, LocalsOK, CountsOK
<1> QED
  BY <1>1, <1>2, LocalTyped

(* Loading a car into the register. *)
LEMMA LoadsTyped ==
    ASSUME Typed, NEW t \in Thread, todo[t] # <<>>, NEW more,
           NEW c \in Id \cup {Null}, Loads(t, c, more),
           Fits(more, todo[t][1], rte[t], rte[t], c, Len(entry)),
           \A k \in DOMAIN more :
               more[k].op \in BackendSteps => todo[t][1].op \in BackendSteps
    PROVE  Typed' /\ Keeps
<1>1. /\ reg' = [reg EXCEPT ![t] = c] /\ Then(t, more)
      /\ UNCHANGED <<table, cars, g_broadcast_id, job, rte, process, received,
                     requests, sent, astray, clash, fault, events>>
  BY DEF Loads, history
<1>2. sent' \in [Id -> Nat] /\ astray' \subseteq Id
  BY <1>1 DEF Typed, LocalsOK
<1>3. c \in Nat
  BY LimitAssumption DEF Id, Null
<1> QED
  BY <1>1, <1>2, <1>3, RegisterTyped

(* A step that changes the cars. *)
LEMMA CarsTyped ==
    ASSUME Typed, NEW t \in Thread, todo[t] # <<>>, NEW more, Then(t, more),
           next_car' \in [Id -> Id \cup {Null}], freed' \subseteq Id,
           UNCHANGED <<table, broadcast_id, g_broadcast_id, local, process,
                       history, fault, events>>,
           Fits(more, todo[t][1], rte[t], rte[t], reg[t], Len(entry)),
           \A k \in DOMAIN more :
               more[k].op \in BackendSteps => todo[t][1].op \in BackendSteps
    PROVE  Typed' /\ Keeps
<1>1. UNCHANGED <<rt_table, entry, broadcast_id, g_broadcast_id, job, rte, reg,
                  alive, main, stopping, received, requests, sent, astray,
                  clash, fault, events>>
  BY DEF table, local, process, history
<1>2. MemoryOK' /\ LocalsOK'
  BY <1>1 DEF Typed, MemoryOK, LocalsOK, Pointer, Then
<1>3. Len(entry) <= Len(entry') /\ g_broadcast_id' \in Nat
  BY <1>1 DEF Typed, MemoryOK, CountsOK
<1>4. Fits(more, todo[t][1], rte[t], rte'[t], reg'[t], Len(entry'))
  BY <1>1
<1> QED
  BY <1>1, <1>2, <1>3, <1>4, StepTyped DEF Keeps


(* Rows of one, two and three steps. *)
Loose(x, r) == x.op \notin UsesRoute \/ r # Null

LEMMA RowFirst ==
    ASSUME NEW n \in Nat, NEW r, NEW x \in StepsFor(n), Loose(x, r),
           NEW s, s = <<x>>
    PROVE  Row(s, n, r, {x.op}) /\ Ends(s, x, x)
<1>1. s \in Seq(StepsFor(n)) /\ Len(s) = 1 /\ DOMAIN s = {1} /\ s[1] = x /\ s # <<>>
  OBVIOUS
<1> QED
  BY <1>1 DEF Row, Shape, RouteKnown, Ends, Loose

LEMMA RowTwo ==
    ASSUME NEW n \in Nat, NEW r, NEW a \in StepsFor(n), NEW b \in StepsFor(n),
           Loose(a, r), Loose(b, r),
           b.op \in Carries => a.op \notin Carries,
           b.op \in Asks => a.op \notin Asks,
           b.op \notin FirstOnly, Tied(a, b), NEW s, s = <<a>> \o <<b>>
    PROVE  Row(s, n, r, {a.op, b.op}) /\ Ends(s, a, b)
<1>1. PICK u : u = <<a>>
  OBVIOUS
<1>2. Row(u, n, r, {a.op}) /\ Ends(u, a, a)
  BY <1>1, RowFirst
<1>3. s = u \o <<b>> /\ u \in Seq(StepsFor(n))
  BY <1>1
<1>4. Ends(s, a, b)
  BY <1>2, <1>3, EndsMore
<1>5. /\ b.op \in UsesRoute => r # Null
      /\ b.op \in Carries => {a.op} \cap Carries = {}
      /\ b.op \in Asks => {a.op} \cap Asks = {}
      /\ {a.op} \subseteq {a.op, b.op} /\ b.op \in {a.op, b.op}
  BY DEF Loose
<1>6. Row(s, n, r, {a.op, b.op})
  BY <1>2, <1>3, <1>5, RowMore
<1> QED
  BY <1>4, <1>6

LEMMA RowThree ==
    ASSUME NEW n \in Nat, NEW r, NEW a \in StepsFor(n), NEW b \in StepsFor(n),
           NEW c \in StepsFor(n), Loose(a, r), Loose(b, r), Loose(c, r),
           b.op \in Carries => a.op \notin Carries,
           b.op \in Asks => a.op \notin Asks,
           c.op \in Carries => a.op \notin Carries /\ b.op \notin Carries,
           c.op \in Asks => a.op \notin Asks /\ b.op \notin Asks,
           b.op \notin FirstOnly, Tied(a, b), c.op \notin FirstOnly, Tied(b, c),
           NEW s, s = <<a>> \o <<b>> \o <<c>>
    PROVE  Row(s, n, r, {a.op, b.op, c.op}) /\ Ends(s, a, c)
<1>1. PICK u : u = <<a>> \o <<b>>
  OBVIOUS
<1>2. Row(u, n, r, {a.op, b.op}) /\ Ends(u, a, b)
  BY <1>1, RowTwo
<1>3. s = u \o <<c>> /\ u \in Seq(StepsFor(n))
  BY <1>1, <1>2 DEF Row
<1>4. Ends(s, a, c)
  BY <1>2, <1>3, EndsMore
<1>5. /\ c.op \in UsesRoute => r # Null
      /\ c.op \in Carries => {a.op, b.op} \cap Carries = {}
      /\ c.op \in Asks => {a.op, b.op} \cap Asks = {}
      /\ {a.op, b.op} \subseteq {a.op, b.op, c.op}
      /\ c.op \in {a.op, b.op, c.op}
  BY DEF Loose
<1>6. Row(s, n, r, {a.op, b.op, c.op})
  BY <1>2, <1>3, <1>5, RowMore
<1> QED
  BY <1>4, <1>6

LEMMA PurgeTyped ==
    ASSUME Typed, NEW t \in Thread, Purge(t)
    PROVE  Typed' /\ Keeps
<1>1. Doing(t, "purge") /\ todo[t] # <<>> /\ Head(todo[t]).op = "purge"
  BY DEF Purge, Seeking, Doing
<1>2. PICK e : e = Find(Arg(t))
  OBVIOUS
<1>3. CASE e = Null \/ e = rt_table
  BY <1>1, <1>2, <1>3, ReadsNoMore DEF Purge
<1>4. CASE ~(e = Null \/ e = rt_table)
  <2>1. PICK value :
            value = [entry[e] EXCEPT !.next_hop = Null, !.outgoing_if = Null]
    OBVIOUS
  <2>2. PICK more : more = Op("zero_time", e)
    OBVIOUS
  <2>3. Writes(t, e, value, more)
    BY <1>2, <1>4, <2>1, <2>2 DEF Purge
  <2>4. /\ rte[t] \in 0..Len(entry) /\ Len(entry) \in Nat
        /\ DOMAIN entry = 1..Len(entry)
    BY <1>1, HeadStep
  <2>5. e \in DOMAIN entry
    BY <1>2, <1>4, FoundEntry DEF Typed
  <2>6. value \in Cell /\ value.next \in Pointer
    BY <2>1, <2>5, EntryCell DEF Cell
  <2>7. /\ Fits(more, todo[t][1], rte[t], rte[t], reg[t], Len(entry))
        /\ \A k \in DOMAIN more :
               more[k].op \in BackendSteps => todo[t][1].op \in BackendSteps
    <3>1. /\ "zero_time" \in EntryStep /\ e \in 1..Len(entry)
          /\ "zero_time" \notin UsesRoute \cup Carries \cup Asks \cup BackendSteps
          /\ "purge" \notin Halves /\ RegisterFits("zero_time", reg[t], Len(entry))
          /\ Len(entry) <= Len(entry)
      BY <2>4, <2>5 DEF EntryStep, UsesRoute, Carries, Asks, BackendSteps,
                        Halves, RegisterFits
    <3> QED
      BY <1>1, <2>2, <2>4, <3>1, OneFits
  <2> QED
    BY <1>1, <2>3, <2>5, <2>6, <2>7, WritesTyped
<1> QED
  BY <1>3, <1>4

LEMMA ZeroTimeTyped ==
    ASSUME Typed, NEW t \in Thread, ZeroTime(t)
    PROVE  Typed' /\ Keeps
<1>1. Doing(t, "zero_time") /\ Arg(t) \in DOMAIN entry
  BY HeadStep DEF ZeroTime, Doing, EntryStep
<1>2. PICK value : value = [entry[Arg(t)] EXCEPT !.fresh = FALSE]
  OBVIOUS
<1>3. value \in Cell /\ value.next \in Pointer
  BY <1>1, <1>2, EntryCell DEF Cell
<1> QED
  BY <1>1, <1>2, <1>3, FieldsTyped DEF ZeroTime, EntryStep

LEMMA LinkTyped ==
    ASSUME Typed, NEW t \in Thread, Link(t)
    PROVE  Typed' /\ Keeps
<1>1. /\ Doing(t, "link") /\ Arg(t) \in DOMAIN entry
      /\ reg[t] \in Pointer /\ Len(entry) \in Nat
  BY HeadStep DEF Link, Doing, EntryStep, RegisterFits, Pointer
<1>2. PICK value : value = [entry[Arg(t)] EXCEPT !.next = reg[t]]
  OBVIOUS
<1>3. value \in Cell /\ value.next \in Pointer
  BY <1>1, <1>2, EntryCell DEF Cell, Pointer
<1> QED
  BY <1>1, <1>2, <1>3, FieldsTyped DEF Link, EntryStep

LEMMA SetHopTyped ==
    ASSUME Typed, NEW t \in Thread, SetHop(t)
    PROVE  Typed' /\ Keeps
<1>1. Doing(t, "set_hop") /\ Arg(t) \in DOMAIN entry
  BY HeadStep DEF SetHop, Doing, EntryStep
<1>2. PICK value : value = [entry[Arg(t)] EXCEPT !.next_hop = job[t].via,
                                                 !.outgoing_if = job[t].via]
  OBVIOUS
<1>3. job[t].via \in Via \cup {Null}
  BY DEF Typed, JobsOK, Job
<1>4. value \in Cell /\ value.next \in Pointer
  BY <1>1, <1>2, <1>3, EntryCell DEF Cell
<1> QED
  BY <1>1, <1>2, <1>4, FieldsTyped DEF SetHop, EntryStep

LEMMA SetTimeTyped ==
    ASSUME Typed, NEW t \in Thread, SetTime(t)
    PROVE  Typed' /\ Keeps
<1>1. Doing(t, "set_time") /\ Arg(t) \in DOMAIN entry
  BY HeadStep DEF SetTime, Doing, EntryStep
<1>2. PICK value : value = [entry[Arg(t)] EXCEPT !.fresh = TRUE]
  OBVIOUS
<1>3. value \in Cell /\ value.next \in Pointer
  BY <1>1, <1>2, EntryCell DEF Cell
<1> QED
  BY <1>1, <1>2, <1>3, FieldsTyped DEF SetTime, EntryStep

LEMMA NameEntryTyped ==
    ASSUME Typed, NEW t \in Thread, NameEntry(t)
    PROVE  Typed' /\ Keeps
<1>1. Doing(t, "name") /\ Arg(t) \in DOMAIN entry
  BY HeadStep DEF NameEntry, Doing, EntryStep
<1>2. PICK value :
          value = [entry[Arg(t)] EXCEPT !.destination = Goal(job[t])]
  OBVIOUS
<1>3. Goal(job[t]) \in Node
  BY DEF Typed, JobsOK, Job, Goal
<1>4. value \in Cell /\ value.next \in Pointer
  BY <1>1, <1>2, <1>3, EntryCell DEF Cell
<1> QED
  BY <1>1, <1>2, <1>4, FieldsTyped DEF NameEntry, EntryStep

LEMMA ClearTyped ==
    ASSUME Typed, NEW t \in Thread, Clear(t)
    PROVE  Typed' /\ Keeps
<1>1. Doing(t, "clear") /\ Arg(t) \in DOMAIN entry
  BY HeadStep DEF Clear, Doing, EntryStep
<1>2. PICK value : value = [entry[Arg(t)] EXCEPT !.parking_lot = Null]
  OBVIOUS
<1>3. value \in Cell /\ value.next \in Pointer
  BY <1>1, <1>2, EntryCell DEF Cell
<1> QED
  BY <1>1, <1>2, <1>3, FieldsTyped DEF Clear, EntryStep

LEMMA FoundTyped ==
    ASSUME Typed, NEW t \in Thread, Found(t)
    PROVE  Typed' /\ Keeps
<1>1. Doing(t, "found") /\ Arg(t) \in DOMAIN entry
  BY HeadStep DEF Found, Doing, EntryStep
<1>2. PICK value : value = [entry[Arg(t)] EXCEPT !.finding_route = FALSE]
  OBVIOUS
<1>3. value \in Cell /\ value.next \in Pointer
  BY <1>1, <1>2, EntryCell DEF Cell
<1> QED
  BY <1>1, <1>2, <1>3, FieldsTyped DEF Found, EntryStep

LEMMA QueryTyped ==
    ASSUME Typed, NEW t \in Thread, Query(t)
    PROVE  Typed' /\ Keeps
<1>1. Doing(t, "query") /\ todo[t] # <<>> /\ Head(todo[t]).op = "query"
  BY DEF Query, Seeking, Doing
<1>2. /\ todo[t][1].op = "query" /\ rte[t] \in 0..Len(entry)
      /\ Arg(t) \in Node /\ Len(entry) \in Nat /\ DOMAIN entry = 1..Len(entry)
  BY <1>1, HeadStep DEF NodeStep
<1>3. PICK e : e = Find(Arg(t))
  OBVIOUS
<1>4. PICK n : n = Len(entry) + 1
  OBVIOUS
<1>5. /\ "insert" \in EntryStep /\ "purge" \in NodeStep
      /\ {"insert", "purge"}
             \cap (UsesRoute \cup Carries \cup Asks \cup BackendSteps) = {}
      /\ "query" \notin Halves
      /\ \A h, m : RegisterFits("insert", h, m) /\ RegisterFits("purge", h, m)
  BY DEF EntryStep, NodeStep, UsesRoute, Carries, Asks, BackendSteps, Halves,
         RegisterFits
<1>6. CASE e = Null
  <2>1. PICK more : more = Op("insert", n)
    OBVIOUS
  <2>2. Creates(t, NewEntry(Arg(t)), n, more)
    BY <1>3, <1>4, <1>6, <2>1 DEF Query, New
  <2>3. /\ n \in 0..n /\ n \in 1..n /\ n # Null /\ n \in Nat /\ Len(entry) <= n
    BY <1>2, <1>4 DEF Null
  <2>4. /\ "insert" \notin UsesRoute /\ "insert" \notin Carries
        /\ "insert" \notin Asks /\ "insert" \notin BackendSteps
    BY <1>5
  <2>5. /\ Fits(more, todo[t][1], rte[t], n, reg[t], n)
        /\ \A k \in DOMAIN more :
               more[k].op \in BackendSteps => todo[t][1].op \in BackendSteps
    BY <1>1, <1>5, <2>1, <2>3, <2>4, OneFits
  <2> QED
    BY <1>1, <1>2, <1>4, <2>2, <2>5, CreatesTyped
<1>7. CASE e # Null
  <2>1. PICK more : more = IF entry[e].fresh THEN <<>> ELSE Op("purge", Arg(t))
    OBVIOUS
  <2>2. e \in DOMAIN entry
    BY <1>3, <1>7, FoundEntry DEF Typed
  <2>3. e \in 0..Len(entry) /\ e # Null /\ e \in Nat /\ Len(entry) <= Len(entry)
    BY <1>2, <1>7, <2>2
  <2>4. /\ Fits(more, todo[t][1], rte[t], e, reg[t], Len(entry))
        /\ \A k \in DOMAIN more :
               more[k].op \in BackendSteps => todo[t][1].op \in BackendSteps
    <3>1. CASE entry[e].fresh
      <4>1. more = <<>>
        BY <2>1, <3>1
      <4>2. Fits(<<>>, todo[t][1], rte[t], e, reg[t], Len(entry))
        BY <1>2, <2>3, FitsNone
      <4>3. DOMAIN <<>> = {}
        OBVIOUS
      <4> QED
        BY <4>1, <4>2, <4>3
    <3>2. CASE ~entry[e].fresh
      <4>1. more = Op("purge", Arg(t))
        BY <2>1, <3>2
      <4>2. /\ "purge" \notin UsesRoute /\ "purge" \notin Carries
            /\ "purge" \notin Asks /\ "purge" \notin BackendSteps
        BY <1>5
      <4> QED
        BY <1>1, <1>2, <1>5, <2>3, <4>1, <4>2, OneFits
    <3> QED
      BY <3>1, <3>2
  <2>5. /\ Then(t, more) /\ rte' = [rte EXCEPT ![t] = e]
        /\ UNCHANGED <<table, cars, g_broadcast_id, job, reg, process, received,
                       requests, sent, astray, clash, fault, events>>
    BY <1>3, <1>7, <2>1 DEF Query, history
  <2>6. g_broadcast_id' \in Nat /\ sent' \in [Id -> Nat] /\ astray' \subseteq Id
    BY <2>5 DEF Typed, LocalsOK, CountsOK
  <2>7. /\ rte' \in [Thread -> Nat] /\ reg' \in [Thread -> Nat]
        /\ rte'[t] = e /\ rte'[Other(t)] = rte[Other(t)] /\ reg' = reg
    <3>1. reg' = reg /\ reg \in [Thread -> Nat]
      BY <2>5 DEF Typed, LocalsOK
    <3> QED
      BY <2>3, <2>5, <3>1, OwnPointer
  <2> QED
    BY <1>1, <2>4, <2>5, <2>6, <2>7, LocalTyped
<1> QED
  BY <1>6, <1>7

LEMMA InsertTyped ==
    ASSUME Typed, NEW t \in Thread, Insert(t)
    PROVE  Typed' /\ Keeps
<1>1. Doing(t, "insert") /\ todo[t] # <<>> /\ Head(todo[t]).op = "insert"
  BY DEF Insert, Seeking, Doing
<1>2. /\ todo[t][1].op = "insert" /\ rte[t] \in 0..Len(entry)
      /\ Arg(t) \in DOMAIN entry /\ Len(entry) \in Nat
      /\ DOMAIN entry = 1..Len(entry)
  BY <1>1, HeadStep DEF EntryStep
<1>3. CASE Find(Sought(t)) # Null
  BY <1>1, <1>3, ReadsNoMore DEF Insert
<1>4. CASE Find(Sought(t)) = Null
  <2>1. PICK a : a = [op |-> "publish", arg |-> Arg(t)]
    OBVIOUS
  <2>2. PICK b : b = [op |-> "link", arg |-> Arg(t)]
    OBVIOUS
  <2>3. PICK more : more = <<a>> \o <<b>>
    OBVIOUS
  <2>4. PICK ops : ops = {"publish", "link"}
    OBVIOUS
  <2>5. /\ Then(t, more) /\ reg' = [reg EXCEPT ![t] = rt_table]
        /\ UNCHANGED <<table, cars, g_broadcast_id, job, rte, process, received,
                       requests, sent, astray, clash, fault, events>>
    BY <1>4, <2>1, <2>2, <2>3 DEF Insert, history, Op
  <2>6. /\ a \in StepsFor(Len(entry)) /\ b \in StepsFor(Len(entry))
        /\ a.op = "publish" /\ b.op = "link"
    BY <1>2, <2>1, <2>2, StepMade DEF EntryStep
  <2>7. /\ Loose(a, rte[t]) /\ Loose(b, rte[t])
        /\ b.op \notin Carries \cup Asks \cup FirstOnly /\ Tied(a, b)
        /\ ops \cap (Carries \cup Asks \cup BackendSteps) = {}
        /\ "insert" \notin Halves
    BY <2>4, <2>6 DEF Loose, UsesRoute, Carries, Asks, BackendSteps, FirstOnly,
                      Tied, Halves
  <2>8. Row(more, Len(entry), rte[t], {a.op, b.op}) /\ Ends(more, a, b)
    BY <1>2, <2>3, <2>6, <2>7, RowTwo
  <2>9. Row(more, Len(entry), rte[t], ops)
    BY <2>4, <2>6, <2>8
  <2>10. rt_table \in 0..Len(entry) /\ rt_table \in Nat
    BY <1>2 DEF Typed, MemoryOK, Pointer
  <2>11. /\ Fits(more, todo[t][1], rte[t], rte[t], rt_table, Len(entry))
         /\ \A k \in DOMAIN more :
                more[k].op \in BackendSteps => todo[t][1].op \in BackendSteps
    <3>1. RegisterFits(a.op, rt_table, Len(entry))
      BY <2>1, <2>10 DEF RegisterFits
    <3>2. /\ ops \cap Carries = {} /\ ops \cap Asks = {}
          /\ ops \cap BackendSteps = {}
          /\ Len(entry) <= Len(entry)
      BY <1>2, <2>7
    <3> QED
      BY <1>1, <1>2, <2>7, <2>8, <2>9, <3>1, <3>2, RowFits
  <2>12. sent' \in [Id -> Nat] /\ astray' \subseteq Id
    BY <2>5 DEF Typed, LocalsOK
  <2> QED
    BY <1>1, <2>5, <2>10, <2>11, <2>12, RegisterTyped
<1> QED
  BY <1>3, <1>4

LEMMA PublishTyped ==
    ASSUME Typed, NEW t \in Thread, Publish(t)
    PROVE  Typed' /\ Keeps
<1>1. /\ Doing(t, "publish") /\ todo[t] # <<>> /\ Head(todo[t]).op = "publish"
      /\ Then(t, <<>>) /\ rt_table' = Arg(t)
      /\ UNCHANGED <<entry, next_car, freed, broadcast_id, g_broadcast_id, job,
                     rte, reg, alive, main, stopping, received, requests, sent,
                     astray, clash, fault, events>>
  BY DEF Publish, Doing, cars, local, process, history
<1>2. /\ Arg(t) \in DOMAIN entry /\ Len(entry) \in Nat
      /\ DOMAIN entry = 1..Len(entry)
  BY <1>1, HeadStep DEF EntryStep
<1>3. /\ Fits(<<>>, todo[t][1], rte[t], rte[t], reg[t], Len(entry))
      /\ \A k \in DOMAIN <<>> : FALSE
  BY <1>1, NoMore
<1>4. MemoryOK' /\ LocalsOK'
  BY <1>1, <1>2 DEF Typed, MemoryOK, LocalsOK, Pointer, Then
<1>5. Len(entry) <= Len(entry') /\ g_broadcast_id' \in Nat
  BY <1>1, <1>2 DEF Typed, CountsOK
<1>6. Fits(<<>>, todo[t][1], rte[t], rte'[t], reg'[t], Len(entry'))
  BY <1>1, <1>3
<1> QED
  BY <1>1, <1>3, <1>4, <1>5, <1>6, StepTyped DEF Keeps

LEMMA UpdateTyped ==
    ASSUME Typed, NEW t \in Thread, Update(t)
    PROVE  Typed' /\ Keeps
<1>1. Doing(t, "update") /\ todo[t] # <<>> /\ Head(todo[t]).op = "update"
  BY DEF Update, Seeking, Doing
<1>2. /\ rte[t] \in 0..Len(entry) /\ Arg(t) \in Node
      /\ Len(entry) \in Nat /\ DOMAIN entry = 1..Len(entry)
  BY <1>1, HeadStep DEF NodeStep
<1>3. PICK e : e = Find(Arg(t))
  OBVIOUS
<1>4. PICK ops : ops = {"set_hop", "set_time", "insert"}
  OBVIOUS
<1> DEFINE writes(p) == Op("set_hop", p) \o Op("set_time", p) \o Op("insert", p)
<1>5. ASSUME NEW m \in Nat, NEW p \in 1..m
      PROVE  \E a, b : /\ a.op = "set_hop" /\ Row(writes(p), m, rte[t], ops)
                       /\ Ends(writes(p), a, b)
  <2>1. PICK a : a = [op |-> "set_hop", arg |-> p]
    OBVIOUS
  <2>2. PICK b : b = [op |-> "set_time", arg |-> p]
    OBVIOUS
  <2>3. PICK c : c = [op |-> "insert", arg |-> p]
    OBVIOUS
  <2>4. /\ a \in StepsFor(m) /\ b \in StepsFor(m) /\ c \in StepsFor(m)
        /\ a.op = "set_hop" /\ b.op = "set_time" /\ c.op = "insert"
    BY <2>1, <2>2, <2>3, StepMade DEF EntryStep
  <2>5. /\ Loose(a, rte[t]) /\ Loose(b, rte[t]) /\ Loose(c, rte[t])
        /\ b.op \notin Carries \cup Asks \cup FirstOnly /\ Tied(a, b)
        /\ c.op \notin Carries \cup Asks \cup FirstOnly /\ Tied(b, c)
    BY <2>4 DEF Loose, UsesRoute, Carries, Asks, FirstOnly, Tied
  <2>6. PICK s : s = <<a>> \o <<b>> \o <<c>>
    OBVIOUS
  <2>7. Row(s, m, rte[t], {a.op, b.op, c.op}) /\ Ends(s, a, c)
    BY <2>4, <2>5, <2>6, RowThree
  <2>8. s = writes(p)
    BY <2>1, <2>2, <2>3, <2>6 DEF Op
  <2>9. Row(s, m, rte[t], ops)
    BY <1>4, <2>4, <2>7
  <2> QED
    BY <2>4, <2>7, <2>8, <2>9
<1>6. /\ ops \cap (Carries \cup Asks) = {} /\ "update" \notin Halves
      /\ "update" \in BackendSteps
      /\ \A h, m : RegisterFits("set_hop", h, m)
  BY <1>4 DEF Carries, Asks, Halves, BackendSteps, RegisterFits
<1>7. CASE e = Null
  <2>1. PICK n : n = Len(entry) + 1
    OBVIOUS
  <2>2. PICK more : more = writes(n)
    OBVIOUS
  <2>3. Creates(t, NewEntry(Arg(t)), rte[t], more)
    BY <1>3, <1>7, <2>1, <2>2 DEF Update, New
  <2>4. /\ n \in 1..n /\ n \in Nat /\ Len(entry) <= n /\ rte[t] \in 0..n
    BY <1>2, <2>1
  <2>5. PICK a, b : a.op = "set_hop" /\ Row(more, n, rte[t], ops) /\ Ends(more, a, b)
    BY <1>5, <2>2, <2>4
  <2>6. /\ Fits(more, todo[t][1], rte[t], rte[t], reg[t], n)
        /\ \A k \in DOMAIN more :
               more[k].op \in BackendSteps => todo[t][1].op \in BackendSteps
    <3>1. RegisterFits(a.op, reg[t], n)
      BY <1>6, <2>5
    <3>2. ops \cap Carries = {} /\ ops \cap Asks = {}
      BY <1>6
    <3> QED
      BY <1>1, <1>6, <2>4, <2>5, <3>1, <3>2, RowFits
  <2> HIDE DEF writes
  <2> QED
    BY <1>1, <1>2, <2>1, <2>3, <2>6, CreatesTyped
<1>8. CASE e # Null
  <2>1. e \in DOMAIN entry
    BY <1>3, <1>8, FoundEntry DEF Typed
  <2>2. CASE entry[e].fresh /\ entry[e].next_hop = job[t].via
    <3>1. OnlyReads(t, <<>>)
      BY <1>3, <1>8, <2>2 DEF Update
    <3> QED
      BY <1>1, <3>1, ReadsNoMore
  <2>3. CASE ~(entry[e].fresh /\ entry[e].next_hop = job[t].via)
    <3>1. PICK more : more = writes(e)
      OBVIOUS
    <3>2. OnlyReads(t, more)
      BY <1>3, <1>8, <2>3, <3>1 DEF Update
    <3>3. PICK a, b : /\ a.op = "set_hop" /\ Row(more, Len(entry), rte[t], ops)
                      /\ Ends(more, a, b)
      BY <1>2, <1>5, <2>1, <3>1
    <3>4. ops \cap Carries = {} /\ ops \cap Asks = {}
          /\ RegisterFits(a.op, reg[t], Len(entry))
      BY <1>6, <3>3
    <3> QED
      BY <1>1, <1>6, <3>2, <3>3, <3>4, ReadsRow
  <2> QED
    BY <2>2, <2>3
<1> QED
  BY <1>7, <1>8

LEMMA RouteTyped ==
    ASSUME Typed, NEW t \in Thread, Route(t)
    PROVE  Typed' /\ Keeps
<1>1. Doing(t, "route") /\ todo[t] # <<>> /\ Head(todo[t]).op = "route"
  BY DEF Route, Doing
<1>2. /\ rte[t] \in DOMAIN entry /\ Arg(t) \in Node
      /\ Len(entry) \in Nat /\ DOMAIN entry = 1..Len(entry)
  BY <1>1, HeadStep DEF NodeStep, UsesRoute
<1>3. rte[t] # Null /\ rte[t] \in 1..Len(entry)
  BY <1>2 DEF Null
<1>4. /\ "route" \in Carries /\ "route" \in Asks /\ "route" \notin Halves
      /\ \A h, m : \A x \in {"pick_if", "park"} : RegisterFits(x, h, m)
  BY DEF Carries, Asks, Halves, RegisterFits
<1>5. CASE entry[rte[t]].fresh
  <2>1. PICK a : a = [op |-> "pick_if", arg |-> rte[t]]
    OBVIOUS
  <2>2. PICK b : b = [op |-> "transmit", arg |-> rte[t]]
    OBVIOUS
  <2>3. PICK more : more = <<a>> \o <<b>>
    OBVIOUS
  <2>4. OnlyReads(t, more)
    BY <1>5, <2>1, <2>2, <2>3 DEF Route, Op
  <2>5. /\ a \in StepsFor(Len(entry)) /\ b \in StepsFor(Len(entry))
        /\ a.op = "pick_if" /\ b.op = "transmit"
    BY <1>2, <1>3, <2>1, <2>2, StepMade DEF EntryStep
  <2>6. /\ Loose(a, rte[t]) /\ Loose(b, rte[t])
        /\ a.op \notin Carries \cup Asks
        /\ b.op \notin FirstOnly /\ Tied(a, b)
    BY <1>3, <2>5 DEF Loose, Carries, Asks, FirstOnly, Tied
  <2>7. Row(more, Len(entry), rte[t], {a.op, b.op}) /\ Ends(more, a, b)
    BY <1>2, <2>3, <2>5, <2>6, RowTwo
  <2>8. PICK ops : ops = {a.op, b.op}
    OBVIOUS
  <2>9. ops \cap BackendSteps = {} /\ RegisterFits(a.op, reg[t], Len(entry))
    BY <1>4, <2>5, <2>8 DEF BackendSteps
  <2>10. Row(more, Len(entry), rte[t], ops)
    BY <2>7, <2>8
  <2> QED
    BY <1>1, <1>4, <2>4, <2>7, <2>9, <2>10, ReadsRow
<1>6. CASE ~entry[rte[t]].fresh
  <2>1. PICK a : a = [op |-> "park", arg |-> Arg(t)]
    OBVIOUS
  <2>2. PICK b : b = [op |-> "request", arg |-> Arg(t)]
    OBVIOUS
  <2>3. PICK more : more = <<a>> \o <<b>>
    OBVIOUS
  <2>4. OnlyReads(t, more)
    BY <1>6, <2>1, <2>2, <2>3 DEF Route, Op
  <2>5. /\ a \in StepsFor(Len(entry)) /\ b \in StepsFor(Len(entry))
        /\ a.op = "park" /\ b.op = "request"
    BY <1>2, <2>1, <2>2, StepMade DEF NodeStep
  <2>6. /\ Loose(a, rte[t]) /\ Loose(b, rte[t])
        /\ b.op \notin Carries /\ a.op \notin Asks
        /\ b.op \notin FirstOnly /\ Tied(a, b)
    BY <1>3, <2>5 DEF Loose, Carries, Asks, FirstOnly, Tied
  <2>7. Row(more, Len(entry), rte[t], {a.op, b.op}) /\ Ends(more, a, b)
    BY <1>2, <2>3, <2>5, <2>6, RowTwo
  <2>8. PICK ops : ops = {a.op, b.op}
    OBVIOUS
  <2>9. ops \cap BackendSteps = {} /\ RegisterFits(a.op, reg[t], Len(entry))
    BY <1>4, <2>5, <2>8 DEF BackendSteps
  <2>10. Row(more, Len(entry), rte[t], ops)
    BY <2>7, <2>8
  <2> QED
    BY <1>1, <1>4, <2>4, <2>7, <2>9, <2>10, ReadsRow
<1> QED
  BY <1>5, <1>6

(* What is sent stays a matter of this router's messages. *)
LEMMA SendType ==
    ASSUME Typed, NEW i, NEW hop, NEW id \in Id, SendTo(i, hop, id)
    PROVE  sent' \in [Id -> Nat] /\ astray' \subseteq Id
<1>1. sent \in [Id -> Nat] /\ astray \subseteq Id
  BY DEF Typed, LocalsOK
<1>2. CASE hop = i
  BY <1>1, <1>2 DEF SendTo
<1>3. CASE hop # i
  BY <1>1, <1>3 DEF SendTo
<1> QED
  BY <1>2, <1>3

LEMMA PickIfTyped ==
    ASSUME Typed, NEW t \in Thread, PickIf(t)
    PROVE  Typed' /\ Keeps
<1>1. Doing(t, "pick_if") /\ todo[t] # <<>> /\ Head(todo[t]).op = "pick_if"
  BY DEF PickIf, Doing
<1>2. /\ todo[t][1].op = "pick_if" /\ rte[t] \in 0..Len(entry)
      /\ Arg(t) \in DOMAIN entry /\ Len(entry) \in Nat
  BY <1>1, HeadStep DEF EntryStep
<1>3. CASE entry[Arg(t)].outgoing_if = Null
  BY <1>3, FaultyTyped DEF PickIf
<1>4. CASE entry[Arg(t)].outgoing_if # Null
  <2>1. PICK x : x = entry[Arg(t)].outgoing_if
    OBVIOUS
  <2>2. x \in Nat
    <3>1. entry[Arg(t)] \in Cell
      BY <1>2, EntryCell
    <3>2. x \in Via \cup {Null}
      BY <2>1, <3>1 DEF Cell
    <3> QED
      BY <3>2, InputAssumption DEF Null
  <2>3. /\ Then(t, <<>>) /\ reg' = [reg EXCEPT ![t] = x]
        /\ UNCHANGED <<table, cars, g_broadcast_id, job, rte, process, received,
                       requests, sent, astray, clash, fault, events>>
    BY <1>4, <2>1 DEF PickIf, history
  <2>4. sent' \in [Id -> Nat] /\ astray' \subseteq Id
    BY <2>3 DEF Typed, LocalsOK
  <2>5. Fits(<<>>, todo[t][1], rte[t], rte[t], x, Len(entry))
    BY <1>2, FitsNone
  <2>6. \A k \in DOMAIN <<>> : FALSE
    OBVIOUS
  <2> QED
    BY <1>1, <2>2, <2>3, <2>4, <2>5, <2>6, RegisterTyped
<1> QED
  BY <1>3, <1>4

(* A thread about to do something with its message has one. *)
LEMMA MessageInHand ==
    ASSUME Typed, NEW t \in Thread, NEW name, Doing(t, name)
    PROVE  /\ name \in Carries => job[t].id \in Id
           /\ job[t].id \in Id \cup {Null}
           /\ job[t].source \in Node
<1>1. todo[t] # <<>> /\ Head(todo[t]).op = name
  BY DEF Doing
<1>2. todo[t][1].op = name /\ 1 \in DOMAIN todo[t]
  BY <1>1, HeadStep
<1>3. name \in Carries => Has(t, Carries)
  BY <1>2 DEF Has
<1>4. job[t] \in Job /\ (Has(t, Carries) => job[t].id # Null)
  BY DEF Typed, JobsOK
<1>5. job[t].id \in Id \cup {Null} /\ job[t].source \in Node
  BY <1>4 DEF Job
<1> QED
  BY <1>3, <1>4, <1>5

LEMMA TransmitTyped ==
    ASSUME Typed, NEW t \in Thread, Transmit(t)
    PROVE  Typed' /\ Keeps
<1>1. /\ Doing(t, "transmit") /\ Then(t, <<>>)
      /\ SendTo(reg[t], entry[Arg(t)].next_hop, job[t].id)
      /\ UNCHANGED <<table, cars, g_broadcast_id, job, rte, reg, process,
                     received, requests, clash, fault, events>>
  BY DEF Transmit, local
<1>2. job[t].id \in Id
  BY <1>1, MessageInHand DEF Carries
<1>3. sent' \in [Id -> Nat] /\ astray' \subseteq Id
  BY <1>1, <1>2, SendType
<1>4. /\ todo[t] # <<>>
      /\ Fits(<<>>, todo[t][1], rte[t], rte[t], reg[t], Len(entry))
      /\ \A k \in DOMAIN <<>> : FALSE
  BY <1>1, NoMore
<1>5. /\ rte' = rte /\ reg' = reg /\ rte \in [Thread -> Nat]
      /\ reg \in [Thread -> Nat] /\ g_broadcast_id' \in Nat
  BY <1>1 DEF Typed, LocalsOK, CountsOK
<1> QED
  BY <1>1, <1>3, <1>4, <1>5, LocalTyped

(* An error is routed like a message. *)
LEMMA ErrorTyped ==
    ASSUME Typed, NEW t \in Thread, NEW name \in {"deliver", "wait"},
           Doing(t, name), OnlyReads(t, <<>>) \/ OnlyReads(t, Undelivered(t))
    PROVE  Typed' /\ Keeps
<1>1. CASE OnlyReads(t, <<>>)
  BY <1>1, ReadsNoMore
<1>2. CASE OnlyReads(t, Undelivered(t)) /\ job[t].source = Self
  BY <1>2, ReadsNoMore DEF Undelivered
<1>3. CASE OnlyReads(t, Undelivered(t)) /\ job[t].source # Self
  <2>1. PICK d : d = job[t].source
    OBVIOUS
  <2>2. d \in Node
    BY <2>1, MessageInHand
  <2>3. PICK more : more = RouteTo(d)
    OBVIOUS
  <2>4. OnlyReads(t, more)
    BY <1>3, <2>1, <2>3 DEF Undelivered
  <2>5. PICK ops : ops = {"query", "route"}
    OBVIOUS
  <2>6. PICK a : a = [op |-> "query", arg |-> d]
    OBVIOUS
  <2>7. PICK b : b = [op |-> "route", arg |-> d]
    OBVIOUS
  <2>8. Len(entry) \in Nat
    BY DEF Typed, MemoryOK
  <2>9. Row(more, Len(entry), rte[t], ops) /\ Ends(more, a, b)
    BY <2>2, <2>3, <2>5, <2>6, <2>7, <2>8, RouteToRow
  <2>10. /\ name # "query" /\ name \in Carries /\ name \in Asks
         /\ name \notin Halves /\ ops \cap BackendSteps = {}
         /\ RegisterFits(a.op, reg[t], Len(entry))
    BY <2>5, <2>6 DEF Carries, Asks, Halves, BackendSteps, RegisterFits
  <2> QED
    BY <2>4, <2>9, <2>10, ReadsRow
<1> QED
  BY <1>1, <1>2, <1>3

LEMMA DeliverTyped ==
    ASSUME Typed, NEW t \in Thread, Deliver(t)
    PROVE  Typed' /\ Keeps
<1>1. Doing(t, "deliver")
  BY DEF Deliver
<1>2. CASE OnlyReads(t, <<>>) \/ OnlyReads(t, Undelivered(t))
  BY <1>1, <1>2, ErrorTyped
<1>3. CASE OnlyReads(t, Op("wait", Null))
  <2>1. /\ "wait" \in PlainStep /\ "wait" \notin UsesRoute
        /\ "wait" \notin BackendSteps /\ "deliver" \in Carries
        /\ "deliver" \in Asks /\ "deliver" \notin Halves
        /\ RegisterFits("wait", reg[t], Len(entry)) /\ "deliver" # "query"
    BY DEF PlainStep, UsesRoute, BackendSteps, Carries, Asks, Halves,
           RegisterFits
  <2>2. PICK arg : arg = Null
    OBVIOUS
  <2>3. OnlyReads(t, Op("wait", arg))
    BY <1>3, <2>2
  <2> QED
    BY <1>1, <2>1, <2>2, <2>3, ReadsOne
<1> QED
  BY <1>2, <1>3 DEF Deliver

LEMMA ResumeTyped ==
    ASSUME Typed, NEW t \in Thread, Resume(t)
    PROVE  Typed' /\ Keeps
BY ErrorTyped DEF Resume, Waits

LEMMA ParkMsgTyped ==
    ASSUME Typed, NEW t \in Thread, ParkMsg(t)
    PROVE  Typed' /\ Keeps
<1>1. Doing(t, "park") /\ todo[t] # <<>> /\ Head(todo[t]).op = "park"
  BY DEF ParkMsg, Seeking, Doing
<1>2. /\ rte[t] \in DOMAIN entry /\ rte[t] \in 0..Len(entry)
      /\ Arg(t) \in Node /\ Len(entry) \in Nat /\ DOMAIN entry = 1..Len(entry)
  BY <1>1, HeadStep DEF NodeStep, UsesRoute
<1>3. PICK e : e = Find(Arg(t))
  OBVIOUS
<1>4. /\ "park" \in Carries /\ "park" \notin Halves /\ "park" # "query"
      /\ \A h, m : \A x \in {"insert", "lot"} : RegisterFits(x, h, m)
  BY DEF Carries, Halves, RegisterFits
<1>5. CASE e = Null
  <2>1. PICK n : n = Len(entry) + 1
    OBVIOUS
  <2>2. PICK a : a = [op |-> "insert", arg |-> n]
    OBVIOUS
  <2>3. PICK b : b = [op |-> "name", arg |-> n]
    OBVIOUS
  <2>4. PICK s : s = <<a>> \o <<b>>
    OBVIOUS
  <2>5. PICK u : u = InsertCar(n)
    OBVIOUS
  <2>6. PICK more : more = s \o u
    OBVIOUS
  <2>7. Creates(t, NewEntry(Unnamed), rte[t], more)
    BY <1>3, <1>5, <2>1, <2>2, <2>3, <2>4, <2>5, <2>6 DEF ParkMsg, New, Op
  <2>8. n \in Nat /\ n \in 1..n /\ rte[t] \in 0..n /\ Len(entry) <= n
    BY <1>2, <2>1
  <2>9. /\ a \in StepsFor(n) /\ b \in StepsFor(n)
        /\ a.op = "insert" /\ b.op = "name"
    BY <2>2, <2>3, <2>8, StepMade DEF EntryStep
  <2>10. /\ Loose(a, rte[t]) /\ Loose(b, rte[t])
         /\ b.op \notin Carries \cup Asks \cup FirstOnly /\ Tied(a, b)
    BY <2>9 DEF Loose, UsesRoute, Carries, Asks, FirstOnly, Tied
  <2>11. Row(s, n, rte[t], {a.op, b.op}) /\ Ends(s, a, b)
    BY <2>4, <2>8, <2>9, <2>10, RowTwo
  <2>12. PICK c : c = [op |-> "lot", arg |-> n]
    OBVIOUS
  <2>13. PICK d : d = [op |-> "check", arg |-> n]
    OBVIOUS
  <2>14. Row(u, n, rte[t], CarSteps) /\ Ends(u, c, d)
    BY <2>5, <2>8, <2>12, <2>13, InsertCarRow
  <2>15. PICK few : few = {a.op, b.op}
    OBVIOUS
  <2>16. Apart(few, CarSteps)
    BY <2>9, <2>15 DEF Apart, Carries, Asks
  <2>17. u[1].op \notin FirstOnly /\ Tied(s[Len(s)], u[1])
    BY <2>9, <2>11, <2>12, <2>14 DEF Ends, FirstOnly, Tied
  <2>18. Row(s, n, rte[t], few)
    BY <2>11, <2>15
  <2>19. /\ Row(s \o u, n, rte[t], few \cup CarSteps)
         /\ s # <<>> => s \o u # <<>> /\ (s \o u)[1] = s[1]
         /\ u # <<>> => s \o u # <<>> /\ (s \o u)[Len(s \o u)] = u[Len(u)]
    <3>1. Row(s \o u, n, rte[t], few \cup CarSteps)
      BY <2>8, <2>14, <2>16, <2>17, <2>18, RowJoin
    <3>2. s # <<>> => s \o u # <<>> /\ (s \o u)[1] = s[1]
      BY <2>8, <2>14, <2>16, <2>17, <2>18, RowJoin
    <3>3. u # <<>> => s \o u # <<>> /\ (s \o u)[Len(s \o u)] = u[Len(u)]
      BY <2>8, <2>14, <2>16, <2>17, <2>18, RowJoin
    <3> QED
      BY <3>1, <3>2, <3>3
  <2>20. PICK ops : ops = few \cup CarSteps
    OBVIOUS
  <2>21. Row(more, n, rte[t], ops) /\ Ends(more, a, d)
    BY <2>6, <2>11, <2>14, <2>19, <2>20 DEF Ends
  <2>22. ops \cap Asks = {} /\ ops \cap BackendSteps = {}
    BY <2>9, <2>15, <2>20 DEF CarSteps, Asks, BackendSteps
  <2>23. rte[t] # Null /\ RegisterFits(a.op, reg[t], n)
    BY <1>2, <1>4, <2>9 DEF Null
  <2>24. /\ Fits(more, todo[t][1], rte[t], rte[t], reg[t], n)
         /\ \A k \in DOMAIN more :
                more[k].op \in BackendSteps => todo[t][1].op \in BackendSteps
    BY <1>1, <1>4, <2>8, <2>21, <2>22, <2>23, RowFits
  <2> QED
    BY <1>1, <2>1, <2>7, <2>24, CreatesTyped
<1>6. CASE e # Null
  <2>1. e \in DOMAIN entry
    BY <1>3, <1>6, FoundEntry DEF Typed
  <2>2. PICK a : a = [op |-> "lot", arg |-> e]
    OBVIOUS
  <2>3. PICK b : b = [op |-> "find", arg |-> Null]
    OBVIOUS
  <2>4. PICK c : c = [op |-> "compare", arg |-> e]
    OBVIOUS
  <2>5. PICK more : more = <<a>> \o <<b>> \o <<c>>
    OBVIOUS
  <2>6. OnlyReads(t, more)
    BY <1>3, <1>6, <2>2, <2>3, <2>4, <2>5 DEF ParkMsg, Op
  <2>7. /\ a \in StepsFor(Len(entry)) /\ b \in StepsFor(Len(entry))
        /\ c \in StepsFor(Len(entry))
        /\ a.op = "lot" /\ b.op = "find" /\ c.op = "compare"
    BY <1>2, <2>1, <2>2, <2>3, <2>4, StepMade DEF EntryStep, PlainStep
  <2>8. /\ Loose(a, rte[t]) /\ Loose(b, rte[t]) /\ Loose(c, rte[t])
        /\ a.op \notin Carries /\ b.op \notin Carries \cup Asks \cup FirstOnly
        /\ Tied(a, b) /\ c.op \notin Asks \cup FirstOnly /\ Tied(b, c)
    BY <2>7 DEF Loose, UsesRoute, Carries, Asks, FirstOnly, Tied
  <2>9. Row(more, Len(entry), rte[t], {a.op, b.op, c.op}) /\ Ends(more, a, c)
    BY <1>2, <2>5, <2>7, <2>8, RowThree
  <2>10. PICK ops : ops = {a.op, b.op, c.op}
    OBVIOUS
  <2>11. /\ Row(more, Len(entry), rte[t], ops)
         /\ ops \cap Asks = {} /\ ops \cap BackendSteps = {}
         /\ RegisterFits(a.op, reg[t], Len(entry))
    BY <1>4, <2>7, <2>9, <2>10 DEF Asks, BackendSteps
  <2> QED
    BY <1>1, <1>4, <2>6, <2>9, <2>11, ReadsRow
<1> QED
  BY <1>5, <1>6

LEMMA LoadLotTyped ==
    ASSUME Typed, NEW t \in Thread, LoadLot(t)
    PROVE  Typed' /\ Keeps
<1>1. Doing(t, "lot") /\ todo[t] # <<>> /\ Head(todo[t]).op = "lot"
  BY DEF LoadLot, Doing
<1>2. /\ todo[t][1].op = "lot" /\ rte[t] \in 0..Len(entry)
      /\ Arg(t) \in DOMAIN entry /\ Len(entry) \in Nat
  BY <1>1, HeadStep DEF EntryStep
<1>3. PICK c : c = entry[Arg(t)].parking_lot
  OBVIOUS
<1>4. c \in Id \cup {Null}
  <2>1. entry[Arg(t)] \in Cell
    BY <1>2, EntryCell
  <2> QED
    BY <1>3, <2>1 DEF Cell
<1>5. Fits(<<>>, todo[t][1], rte[t], rte[t], c, Len(entry))
  BY <1>2, <1>4, FitsNone
<1>6. \A k \in DOMAIN <<>> : FALSE
  OBVIOUS
<1> QED
  BY <1>1, <1>3, <1>4, <1>5, <1>6, LoadsTyped DEF LoadLot

(* A pointer to a car leads to a car, or nowhere. *)
LEMMA NextCarType ==
    ASSUME Typed, NEW c \in Id
    PROVE  next_car[c] \in Id \cup {Null}
BY DEF Typed, MemoryOK

LEMMA FindCarTyped ==
    ASSUME Typed, NEW t \in Thread, FindCar(t)
    PROVE  Typed' /\ Keeps
<1>1. Doing(t, "find") /\ todo[t] # <<>> /\ Head(todo[t]).op = "find"
  BY DEF FindCar, Doing
<1>2. /\ rte[t] \in 0..Len(entry) /\ Len(entry) \in Nat /\ Arg(t) = Null
      /\ reg[t] \in Id \cup {Null}
  BY <1>1, HeadStep DEF PlainStep, RegisterFits
<1>3. CASE Freed(reg[t])
  BY <1>3, FreedTyped
<1>4. CASE OnlyReads(t, <<>>)
  BY <1>1, <1>4, ReadsNoMore
<1>5. CASE reg[t] # Null /\ Loads(t, next_car[reg[t]], Op("find", Null))
  <2>1. PICK c : c = next_car[reg[t]]
    OBVIOUS
  <2>2. c \in Id \cup {Null}
    BY <1>2, <1>5, <2>1, NextCarType
  <2>3. PICK arg : arg = Null
    OBVIOUS
  <2>4. PICK more : more = Op("find", arg)
    OBVIOUS
  <2>5. /\ "find" \in PlainStep /\ "find" \notin UsesRoute
        /\ "find" \notin Carries /\ "find" \notin Asks
        /\ "find" \notin BackendSteps /\ RegisterFits("find", c, Len(entry))
        /\ Len(entry) <= Len(entry)
    BY <1>2, <2>2 DEF PlainStep, UsesRoute, Carries, Asks, BackendSteps,
                      RegisterFits
  <2>6. /\ Fits(more, todo[t][1], rte[t], rte[t], c, Len(entry))
        /\ \A k \in DOMAIN more :
               more[k].op \in BackendSteps => todo[t][1].op \in BackendSteps
    BY <1>1, <1>2, <2>3, <2>4, <2>5, OneFits
  <2>7. Loads(t, c, more)
    BY <1>5, <2>1, <2>3, <2>4
  <2> QED
    BY <1>1, <2>2, <2>6, <2>7, LoadsTyped
<1> QED
  BY <1>3, <1>4, <1>5 DEF FindCar

LEMMA CompareTyped ==
    ASSUME Typed, NEW t \in Thread, Compare(t)
    PROVE  Typed' /\ Keeps
<1>1. Doing(t, "compare") /\ todo[t] # <<>> /\ Head(todo[t]).op = "compare"
  BY DEF Compare, Doing
<1>2. /\ Arg(t) \in DOMAIN entry /\ Len(entry) \in Nat
      /\ DOMAIN entry = 1..Len(entry)
  BY <1>1, HeadStep DEF EntryStep
<1>3. CASE Freed(reg[t])
  BY <1>3, FreedTyped
<1>4. CASE OnlyReads(t, <<>>)
  BY <1>1, <1>4, ReadsNoMore
<1>5. CASE OnlyReads(t, InsertCar(Arg(t)))
  <2>1. PICK e : e = Arg(t)
    OBVIOUS
  <2>2. PICK more : more = InsertCar(e)
    OBVIOUS
  <2>3. PICK a : a = [op |-> "lot", arg |-> e]
    OBVIOUS
  <2>4. PICK b : b = [op |-> "check", arg |-> e]
    OBVIOUS
  <2>5. e \in 1..Len(entry)
    BY <1>2, <2>1
  <2>6. Row(more, Len(entry), rte[t], CarSteps) /\ Ends(more, a, b)
    BY <1>2, <2>2, <2>3, <2>4, <2>5, InsertCarRow
  <2>7. /\ "compare" # "query" /\ "compare" \in Carries
        /\ CarSteps \cap Asks = {} /\ CarSteps \cap BackendSteps = {}
        /\ "compare" \notin Halves /\ RegisterFits(a.op, reg[t], Len(entry))
    BY <2>3 DEF Carries, CarSteps, Asks, BackendSteps, Halves, RegisterFits
  <2>8. OnlyReads(t, more)
    BY <1>5, <2>1, <2>2
  <2> QED
    BY <1>1, <2>6, <2>7, <2>8, ReadsRow
<1> QED
  BY <1>3, <1>4, <1>5 DEF Compare

LEMMA RemoveTyped ==
    ASSUME Typed, NEW t \in Thread, Remove(t)
    PROVE  Typed' /\ Keeps
<1>1. Doing(t, "remove") /\ todo[t] # <<>> /\ Head(todo[t]).op = "remove"
  BY DEF Remove, Doing
<1>2. Arg(t) \in DOMAIN entry /\ reg[t] \in Id \cup {Null}
  BY <1>1, HeadStep DEF EntryStep, RegisterFits
<1>3. PICK e : e = Arg(t)
  OBVIOUS
<1>4. PICK first : first = entry[e].parking_lot
  OBVIOUS
<1>5. first \in Id \cup {Null}
  <2>1. entry[e] \in Cell
    BY <1>2, <1>3, EntryCell
  <2> QED
    BY <1>4, <2>1 DEF Cell
<1>6. /\ "remove" # "query" /\ "remove" \notin Halves
      /\ \A x \in {"unlink_first", "seek"} :
             x \notin UsesRoute \cup Carries \cup Asks \cup BackendSteps
      /\ "unlink_first" \in EntryStep /\ "seek" \in CarStep
  BY DEF Halves, UsesRoute, Carries, Asks, BackendSteps, EntryStep, CarStep
<1>7. CASE OnlyReads(t, <<>>)
  BY <1>1, <1>7, ReadsNoMore
<1>8. CASE reg[t] # Null /\ OnlyReads(t, Op("unlink_first", Arg(t)))
  <2>1. RegisterFits("unlink_first", reg[t], Len(entry))
    BY <1>2, <1>8 DEF RegisterFits
  <2>2. OnlyReads(t, Op("unlink_first", e)) /\ e \in DOMAIN entry
    BY <1>2, <1>3, <1>8
  <2> QED
    BY <1>1, <1>6, <2>1, <2>2, ReadsOne
<1>9. CASE Faulty("null")
  BY <1>9, FaultyTyped
<1>10. CASE reg[t] # Null /\ first # Null /\ OnlyReads(t, Op("seek", first))
  <2>1. RegisterFits("seek", reg[t], Len(entry)) /\ first \in Id
    BY <1>2, <1>5, <1>10 DEF RegisterFits
  <2> QED
    BY <1>1, <1>6, <1>10, <2>1, ReadsOne
<1> QED
  BY <1>3, <1>4, <1>7, <1>8, <1>9, <1>10 DEF Remove

LEMMA SeekTyped ==
    ASSUME Typed, NEW t \in Thread, Seek(t)
    PROVE  Typed' /\ Keeps
<1>1. Doing(t, "seek") /\ todo[t] # <<>> /\ Head(todo[t]).op = "seek"
  BY DEF Seek, Doing
<1>2. Arg(t) \in Id /\ reg[t] \in Id
  BY <1>1, HeadStep DEF CarStep, RegisterFits
<1>3. PICK prev : prev = Arg(t)
  OBVIOUS
<1>4. PICK p : p = next_car[prev]
  OBVIOUS
<1>5. prev \in Id /\ p \in Id \cup {Null}
  BY <1>2, <1>3, <1>4, NextCarType
<1>6. /\ "seek" # "query" /\ "seek" \notin Halves
      /\ \A x \in {"unlink_after", "seek"} :
             x \notin UsesRoute \cup Carries \cup Asks \cup BackendSteps
      /\ "unlink_after" \in CarStep /\ "seek" \in CarStep
      /\ RegisterFits("unlink_after", reg[t], Len(entry))
      /\ RegisterFits("seek", reg[t], Len(entry))
  BY <1>2 DEF Halves, UsesRoute, Carries, Asks, BackendSteps, CarStep,
              RegisterFits
<1>7. CASE Freed(prev)
  BY <1>7, FreedTyped
<1>8. CASE OnlyReads(t, <<>>)
  BY <1>1, <1>8, ReadsNoMore
<1>9. CASE OnlyReads(t, Op("unlink_after", prev))
  BY <1>1, <1>5, <1>6, <1>9, ReadsOne
<1>10. CASE p # Null /\ OnlyReads(t, Op("seek", p))
  <2>1. p \in Id
    BY <1>5, <1>10
  <2> QED
    BY <1>1, <1>6, <1>10, <2>1, ReadsOne
<1> QED
  BY <1>3, <1>4, <1>7, <1>8, <1>9, <1>10 DEF Seek

(* A car is freed next. *)
LEMMA FreeFits ==
    ASSUME Typed, NEW t \in Thread, NEW name, Doing(t, name), name # "query",
           name \notin Halves, NEW c \in Id, NEW h \in Id \cup {Null},
           NEW more, more = Op("free", c)
    PROVE  /\ Fits(more, todo[t][1], rte[t], rte[t], h, Len(entry))
           /\ \A k \in DOMAIN more :
                  more[k].op \in BackendSteps => todo[t][1].op \in BackendSteps
           /\ todo[t] # <<>>
<1>1. /\ rte[t] \in 0..Len(entry) /\ Len(entry) \in Nat
      /\ Len(entry) <= Len(entry)
  BY HeadStep DEF Doing
<1>2. /\ "free" \in CarStep /\ "free" \notin UsesRoute
      /\ "free" \notin Carries /\ "free" \notin Asks
      /\ "free" \notin BackendSteps /\ RegisterFits("free", h, Len(entry))
  BY DEF CarStep, UsesRoute, Carries, Asks, BackendSteps, RegisterFits
<1> QED
  BY <1>1, <1>2, OneFits

LEMMA UnlinkFirstTyped ==
    ASSUME Typed, NEW t \in Thread, UnlinkFirst(t)
    PROVE  Typed' /\ Keeps
<1>1. /\ Doing(t, "unlink_first") /\ todo[t] # <<>>
      /\ Head(todo[t]).op = "unlink_first"
  BY DEF UnlinkFirst, Doing
<1>2. Arg(t) \in DOMAIN entry /\ reg[t] \in Id
  BY <1>1, HeadStep DEF EntryStep, RegisterFits
<1>3. CASE Freed(reg[t])
  BY <1>3, FreedTyped
<1>4. CASE ~Freed(reg[t])
  <2>1. PICK value :
            value = [entry[Arg(t)] EXCEPT !.parking_lot = next_car[reg[t]]]
    OBVIOUS
  <2>2. PICK more : more = Op("free", reg[t])
    OBVIOUS
  <2>3. Writes(t, Arg(t), value, more)
    BY <1>4, <2>1, <2>2 DEF UnlinkFirst
  <2>4. next_car[reg[t]] \in Id \cup {Null}
    BY <1>2, NextCarType
  <2>5. entry[Arg(t)] \in Cell /\ entry[Arg(t)].next \in Pointer
    BY <1>2, EntryCell
  <2>6. value \in Cell /\ value.next \in Pointer
    BY <2>1, <2>4, <2>5 DEF Cell
  <2>7. /\ Fits(more, todo[t][1], rte[t], rte[t], reg[t], Len(entry))
        /\ \A k \in DOMAIN more :
               more[k].op \in BackendSteps => todo[t][1].op \in BackendSteps
    BY <1>1, <1>2, <2>2, FreeFits DEF Halves
  <2> QED
    BY <1>1, <1>2, <2>3, <2>6, <2>7, WritesTyped
<1> QED
  BY <1>3, <1>4

LEMMA UnlinkAfterTyped ==
    ASSUME Typed, NEW t \in Thread, UnlinkAfter(t)
    PROVE  Typed' /\ Keeps
<1>1. /\ Doing(t, "unlink_after") /\ todo[t] # <<>>
      /\ Head(todo[t]).op = "unlink_after"
  BY DEF UnlinkAfter, Doing
<1>2. Arg(t) \in Id /\ reg[t] \in Id
  BY <1>1, HeadStep DEF CarStep, RegisterFits
<1>3. CASE Freed(Arg(t)) \/ Freed(reg[t])
  BY <1>3, FreedTyped
<1>4. CASE ~(Freed(Arg(t)) \/ Freed(reg[t]))
  <2>1. PICK more : more = Op("free", reg[t])
    OBVIOUS
  <2>2. /\ next_car' = [next_car EXCEPT ![Arg(t)] = next_car[reg[t]]]
        /\ Then(t, more)
        /\ UNCHANGED <<table, freed, broadcast_id, g_broadcast_id, local,
                       process, history, fault, events>>
    BY <1>4, <2>1 DEF UnlinkAfter
  <2>3. /\ next_car[reg[t]] \in Id \cup {Null}
        /\ next_car \in [Id -> Id \cup {Null}] /\ freed \subseteq Id
    BY <1>2, NextCarType DEF Typed, MemoryOK
  <2>4. next_car' \in [Id -> Id \cup {Null}] /\ freed' \subseteq Id
    BY <2>2, <2>3
  <2>5. /\ Fits(more, todo[t][1], rte[t], rte[t], reg[t], Len(entry))
        /\ \A k \in DOMAIN more :
               more[k].op \in BackendSteps => todo[t][1].op \in BackendSteps
    BY <1>1, <1>2, <2>1, FreeFits DEF Halves
  <2> QED
    BY <1>1, <2>2, <2>4, <2>5, CarsTyped
<1> QED
  BY <1>3, <1>4

LEMMA FreeCarTyped ==
    ASSUME Typed, NEW t \in Thread, FreeCar(t)
    PROVE  Typed' /\ Keeps
<1>1. Doing(t, "free") /\ todo[t] # <<>> /\ Head(todo[t]).op = "free"
  BY DEF FreeCar, Doing
<1>2. Arg(t) \in Id
  BY <1>1, HeadStep DEF CarStep
<1>3. CASE Freed(Arg(t))
  BY <1>3, FreedTyped
<1>4. CASE ~Freed(Arg(t))
  <2>1. /\ freed' = freed \cup {Arg(t)} /\ Then(t, <<>>) /\ next_car' = next_car
        /\ UNCHANGED <<table, broadcast_id, g_broadcast_id, local, process,
                       history, fault, events>>
    BY <1>4 DEF FreeCar
  <2>2. next_car' \in [Id -> Id \cup {Null}] /\ freed' \subseteq Id
    BY <1>2, <2>1 DEF Typed, MemoryOK
  <2> QED
    BY <1>1, <2>1, <2>2, NoMore, CarsTyped
<1> QED
  BY <1>3, <1>4

LEMMA PushTyped ==
    ASSUME Typed, NEW t \in Thread, Push(t)
    PROVE  Typed' /\ Keeps
<1>1. Doing(t, "push") /\ Arg(t) \in DOMAIN entry
  BY HeadStep DEF Push, Doing, EntryStep
<1>2. PICK value : value = [entry[Arg(t)] EXCEPT !.parking_lot = job[t].id]
  OBVIOUS
<1>3. job[t].id \in Id \cup {Null}
  BY <1>1, MessageInHand
<1>4. entry[Arg(t)] \in Cell /\ entry[Arg(t)].next \in Pointer
  BY <1>1, EntryCell
<1>5. value \in Cell /\ value.next \in Pointer
  BY <1>2, <1>3, <1>4 DEF Cell
<1> QED
  BY <1>1, <1>2, <1>5, FieldsTyped DEF Push, EntryStep

LEMMA PushLinkTyped ==
    ASSUME Typed, NEW t \in Thread, PushLink(t)
    PROVE  Typed' /\ Keeps
<1>1. Doing(t, "push_link") /\ todo[t] # <<>> /\ Head(todo[t]).op = "push_link"
  BY DEF PushLink, Doing
<1>2. reg[t] \in Id \cup {Null}
  BY <1>1, HeadStep DEF RegisterFits
<1>3. CASE Freed(job[t].id)
  BY <1>3, FreedTyped
<1>4. CASE ~Freed(job[t].id)
  <2>1. /\ next_car' = [next_car EXCEPT ![job[t].id] = reg[t]]
        /\ Then(t, <<>>) /\ freed' = freed
        /\ UNCHANGED <<table, broadcast_id, g_broadcast_id, local, process,
                       history, fault, events>>
    BY <1>4 DEF PushLink
  <2>2. next_car \in [Id -> Id \cup {Null}] /\ freed \subseteq Id
    BY DEF Typed, MemoryOK
  <2>3. next_car' \in [Id -> Id \cup {Null}] /\ freed' \subseteq Id
    BY <1>2, <2>1, <2>2
  <2> QED
    BY <1>1, <2>1, <2>3, NoMore, CarsTyped
<1> QED
  BY <1>3, <1>4

LEMMA CheckTyped ==
    ASSUME Typed, NEW t \in Thread, Check(t)
    PROVE  Typed' /\ Keeps
<1>1. Doing(t, "check")
  BY DEF Check
<1>2. CASE Faulty("null")
  BY <1>2, FaultyTyped
<1>3. CASE Freed(entry[Arg(t)].parking_lot)
  BY <1>3, FreedTyped
<1>4. CASE OnlyReads(t, <<>>)
  BY <1>1, <1>4, ReadsNoMore
<1> QED
  BY <1>2, <1>3, <1>4 DEF Check

LEMMA RequestTyped ==
    ASSUME Typed, NEW t \in Thread, Request(t)
    PROVE  Typed' /\ Keeps
<1>1. Doing(t, "request") /\ todo[t] # <<>> /\ Head(todo[t]).op = "request"
  BY DEF Request, Doing
<1>2. /\ rte[t] \in DOMAIN entry /\ Arg(t) \in Node
      /\ Len(entry) \in Nat /\ DOMAIN entry = 1..Len(entry)
  BY <1>1, HeadStep DEF NodeStep, UsesRoute
<1>3. CASE OnlyReads(t, <<>>)
  BY <1>1, <1>3, ReadsNoMore
<1>4. CASE OnlyReads(t, Op("mark", rte[t]) \o Op("store", Null)
                        \o Op("flood", Arg(t)))
  <2>1. PICK a : a = [op |-> "mark", arg |-> rte[t]]
    OBVIOUS
  <2>2. PICK b : b = [op |-> "store", arg |-> Null]
    OBVIOUS
  <2>3. PICK c : c = [op |-> "flood", arg |-> Arg(t)]
    OBVIOUS
  <2>4. PICK more : more = <<a>> \o <<b>> \o <<c>>
    OBVIOUS
  <2>5. OnlyReads(t, more)
    BY <1>4, <2>1, <2>2, <2>3, <2>4 DEF Op
  <2>6. /\ a \in StepsFor(Len(entry)) /\ b \in StepsFor(Len(entry))
        /\ c \in StepsFor(Len(entry))
        /\ a.op = "mark" /\ b.op = "store" /\ c.op = "flood"
    BY <1>2, <2>1, <2>2, <2>3, StepMade DEF EntryStep, PlainStep, NodeStep
  <2>7. /\ Loose(a, rte[t]) /\ Loose(b, rte[t]) /\ Loose(c, rte[t])
        /\ a.op \notin Asks /\ b.op \notin Carries \cup Asks \cup FirstOnly
        /\ Tied(a, b) /\ c.op \notin Carries \cup FirstOnly /\ Tied(b, c)
    BY <2>6 DEF Loose, UsesRoute, Carries, Asks, FirstOnly, Tied
  <2>8. Row(more, Len(entry), rte[t], {a.op, b.op, c.op}) /\ Ends(more, a, c)
    BY <1>2, <2>4, <2>6, <2>7, RowThree
  <2>9. PICK ops : ops = {a.op, b.op, c.op}
    OBVIOUS
  <2>10. /\ Row(more, Len(entry), rte[t], ops)
         /\ ops \cap Carries = {} /\ ops \cap BackendSteps = {}
         /\ RegisterFits(a.op, reg[t], Len(entry))
         /\ "request" # "query" /\ "request" \in Asks /\ "request" \notin Halves
    BY <2>6, <2>8, <2>9 DEF Carries, BackendSteps, RegisterFits, Asks, Halves
  <2> QED
    BY <1>1, <2>5, <2>8, <2>10, ReadsRow
<1> QED
  BY <1>3, <1>4 DEF Request

LEMMA MarkTyped ==
    ASSUME Typed, NEW t \in Thread, Mark(t)
    PROVE  Typed' /\ Keeps
<1>1. /\ todo[t] # <<>> /\ Head(todo[t]).op = "mark" /\ Then(t, <<>>)
      /\ entry' = [entry EXCEPT ![Arg(t)].finding_route = TRUE]
      /\ reg' = [reg EXCEPT ![t] = g_broadcast_id]
      /\ UNCHANGED <<rt_table, next_car, freed, broadcast_id, g_broadcast_id,
                     job, rte, alive, main, stopping, received, requests, sent,
                     astray, clash, fault, events>>
  BY DEF Mark, Doing, cars, process, history
<1>2. /\ todo[t][1].op = "mark" /\ rte[t] \in 0..Len(entry)
      /\ Arg(t) \in DOMAIN entry /\ Len(entry) \in Nat
  BY <1>1, HeadStep DEF EntryStep
<1>3. PICK value : value = [entry[Arg(t)] EXCEPT !.finding_route = TRUE]
  OBVIOUS
<1>4. value \in Cell /\ value.next \in Pointer
  BY <1>2, <1>3, EntryCell DEF Cell
<1>5. /\ entry' \in Seq(Cell) /\ Len(entry') = Len(entry)
      /\ DOMAIN entry' = DOMAIN entry
      /\ \A f \in DOMAIN entry :
             entry'[f] = IF f = Arg(t) THEN value ELSE entry[f]
  <2>1. entry' = [entry EXCEPT ![Arg(t)] = value]
    BY <1>1, <1>3
  <2> QED
    BY <1>2, <1>4, <2>1, ExceptSeq DEF Typed, MemoryOK
<1>6. g_broadcast_id \in Nat
  BY DEF Typed, CountsOK
<1>7. /\ reg' \in [Thread -> Nat] /\ reg'[t] = g_broadcast_id
      /\ reg'[Other(t)] = reg[Other(t)]
  BY <1>1, <1>6, OwnRegister
<1>8. MemoryOK'
  BY <1>1, <1>4, <1>5 DEF Typed, MemoryOK, Pointer
<1>9. LocalsOK'
  BY <1>1, <1>7 DEF Typed, LocalsOK, Then
<1>10. Fits(<<>>, todo[t][1], rte[t], rte'[t], reg'[t], Len(entry'))
  BY <1>1, <1>2, <1>5, <1>6, <1>7, FitsNone
<1>11. \A k \in DOMAIN <<>> : FALSE
  OBVIOUS
<1>12. Len(entry) <= Len(entry') /\ g_broadcast_id' \in Nat
  BY <1>1, <1>2, <1>5, <1>6
<1> QED
  BY <1>1, <1>7, <1>8, <1>9, <1>10, <1>11, <1>12, StepTyped DEF Keeps

LEMMA StoreTyped ==
    ASSUME Typed, NEW t \in Thread, Store(t)
    PROVE  Typed' /\ Keeps
<1>1. /\ Doing(t, "store") /\ todo[t] # <<>> /\ Head(todo[t]).op = "store"
      /\ Then(t, <<>>) /\ g_broadcast_id' = reg[t] + 1
      /\ UNCHANGED <<table, cars, job, rte, reg, process, received, requests,
                     sent, astray, clash, fault, events>>
  BY DEF Store, Doing, local, history
<1>2. reg[t] \in Nat
  BY <1>1, HeadStep DEF RegisterFits
<1>3. /\ g_broadcast_id' \in Nat /\ rte' = rte /\ reg' = reg
      /\ rte \in [Thread -> Nat] /\ reg \in [Thread -> Nat]
      /\ sent' \in [Id -> Nat] /\ astray' \subseteq Id
  BY <1>1, <1>2 DEF Typed, LocalsOK
<1>4. /\ Fits(<<>>, todo[t][1], rte[t], rte'[t], reg'[t], Len(entry))
      /\ \A k \in DOMAIN <<>> : FALSE
  BY <1>1, <1>3, NoMore
<1> QED
  BY <1>1, <1>3, <1>4, LocalTyped

LEMMA FloodReqTyped ==
    ASSUME Typed, NEW t \in Thread, FloodReq(t)
    PROVE  Typed' /\ Keeps
<1>1. /\ Doing(t, "flood") /\ todo[t] # <<>> /\ Head(todo[t]).op = "flood"
      /\ Then(t, <<>>)
      /\ requests' = Append(requests,
                            [destination |-> Arg(t), id |-> g_broadcast_id])
      /\ UNCHANGED <<rt_table, entry, next_car, freed, broadcast_id,
                     g_broadcast_id, job, rte, reg, alive, main, stopping,
                     received, sent, astray, clash, fault, events>>
  BY DEF FloodReq, Doing, table, cars, local, process
<1>2. todo[t][1].op = "flood" /\ Arg(t) \in Node
  BY <1>1, HeadStep DEF NodeStep
<1>3. PICK request : request = [destination |-> Arg(t), id |-> g_broadcast_id]
  OBVIOUS
<1>4. request \in [destination : Node, id : Nat]
  BY <1>2, <1>3 DEF Typed, CountsOK
<1>5. /\ requests' \in Seq([destination : Node, id : Nat])
      /\ Len(requests') = Len(requests) + 1
  BY <1>1, <1>3, <1>4, AppendProperties DEF Typed, CountsOK
<1>6. MemoryOK' /\ LocalsOK'
  BY <1>1 DEF Typed, MemoryOK, LocalsOK, Pointer, Then
<1>7. /\ Fits(<<>>, todo[t][1], rte[t], rte'[t], reg'[t], Len(entry'))
      /\ \A k \in DOMAIN <<>> : FALSE
  BY <1>1, NoMore
<1>8. Len(entry) <= Len(entry') /\ g_broadcast_id' \in Nat
  BY <1>1 DEF Typed, MemoryOK, CountsOK
<1>9. todo[t][1].op \in Asks
  BY <1>2 DEF Asks
<1> QED
  BY <1>1, <1>5, <1>6, <1>7, <1>8, <1>9, StepTyped DEF Keeps

LEMMA ReleaseTyped ==
    ASSUME Typed, NEW t \in Thread, Release(t)
    PROVE  Typed' /\ Keeps
<1>1. Doing(t, "release") /\ todo[t] # <<>> /\ Head(todo[t]).op = "release"
  BY DEF Release, Seeking, Doing
<1>2. Len(entry) \in Nat /\ DOMAIN entry = 1..Len(entry)
  BY <1>1, HeadStep
<1>3. PICK e : e = Find(Arg(t))
  OBVIOUS
<1>4. CASE e = Null
  BY <1>3, <1>4, FaultyTyped DEF Release
<1>5. CASE e # Null
  <2>1. e \in 1..Len(entry) /\ e \in 0..Len(entry) /\ e \in Nat
    BY <1>2, <1>3, <1>5, FoundEntry DEF Typed
  <2>2. PICK a : a = [op |-> "lot", arg |-> e]
    OBVIOUS
  <2>3. PICK b : b = [op |-> "unpark", arg |-> e]
    OBVIOUS
  <2>4. PICK more : more = <<a>> \o <<b>>
    OBVIOUS
  <2>5. /\ Then(t, more) /\ rte' = [rte EXCEPT ![t] = e]
        /\ UNCHANGED <<table, cars, g_broadcast_id, job, reg, process, received,
                       requests, sent, astray, clash, fault, events>>
    BY <1>3, <1>5, <2>2, <2>3, <2>4 DEF Release, history, Op
  <2>6. /\ a \in StepsFor(Len(entry)) /\ b \in StepsFor(Len(entry))
        /\ a.op = "lot" /\ b.op = "unpark"
    BY <1>2, <2>1, <2>2, <2>3, StepMade DEF EntryStep
  <2>7. Tied(a, b)
    BY <2>2, <2>3 DEF Tied
  <2>8. Loose(a, e) /\ Loose(b, e) /\ b.op \notin Carries \cup Asks \cup FirstOnly
    BY <2>6 DEF Loose, UsesRoute, Carries, Asks, FirstOnly
  <2>9. Row(more, Len(entry), e, {a.op, b.op}) /\ Ends(more, a, b)
    BY <1>2, <2>4, <2>6, <2>7, <2>8, RowTwo
  <2>10. PICK ops : ops = {a.op, b.op}
    OBVIOUS
  <2>11. /\ Row(more, Len(entry), e, ops)
         /\ ops \cap Carries = {} /\ ops \cap Asks = {}
         /\ RegisterFits(a.op, reg[t], Len(entry))
         /\ "release" # "query" /\ "release" \notin Halves
         /\ "release" \in BackendSteps /\ Len(entry) <= Len(entry)
    BY <1>2, <2>6, <2>9, <2>10
       DEF Carries, Asks, RegisterFits, Halves, BackendSteps
  <2>12. /\ Fits(more, todo[t][1], rte[t], e, reg[t], Len(entry))
         /\ \A k \in DOMAIN more :
                more[k].op \in BackendSteps => todo[t][1].op \in BackendSteps
    BY <1>1, <1>2, <1>5, <2>1, <2>9, <2>11, RowFits
  <2>13. g_broadcast_id' \in Nat /\ sent' \in [Id -> Nat] /\ astray' \subseteq Id
    BY <2>5 DEF Typed, LocalsOK, CountsOK
  <2>14. /\ rte' \in [Thread -> Nat] /\ reg' \in [Thread -> Nat]
         /\ rte'[t] = e /\ rte'[Other(t)] = rte[Other(t)] /\ reg' = reg
    <3>1. reg' = reg /\ reg \in [Thread -> Nat]
      BY <2>5 DEF Typed, LocalsOK
    <3> QED
      BY <2>1, <2>5, <3>1, OwnPointer
  <2> QED
    BY <1>1, <2>5, <2>12, <2>13, <2>14, LocalTyped
<1> QED
  BY <1>4, <1>5

LEMMA UnparkTyped ==
    ASSUME Typed, NEW t \in Thread, Unpark(t)
    PROVE  Typed' /\ Keeps
<1>1. Doing(t, "unpark") /\ todo[t] # <<>> /\ Head(todo[t]).op = "unpark"
  BY DEF Unpark, Doing
<1>2. /\ Arg(t) \in DOMAIN entry /\ rte[t] \in 0..Len(entry)
      /\ reg[t] \in Id \cup {Null}
      /\ Len(entry) \in Nat /\ DOMAIN entry = 1..Len(entry)
  BY <1>1, HeadStep DEF EntryStep, RegisterFits
<1>3. PICK e : e = Arg(t)
  OBVIOUS
<1>4. PICK c : c = reg[t]
  OBVIOUS
<1>5. "unpark" # "query" /\ "unpark" \notin Halves /\ "unpark" \in BackendSteps
  BY DEF Halves, BackendSteps
<1>6. CASE c = Null
  <2>1. PICK w : w = [op |-> "lot", arg |-> e]
    OBVIOUS
  <2>2. PICK x : x = [op |-> "destroy", arg |-> Null]
    OBVIOUS
  <2>3. PICK y : y = [op |-> "clear", arg |-> e]
    OBVIOUS
  <2>4. PICK z : z = [op |-> "found", arg |-> e]
    OBVIOUS
  <2>5. PICK s : s = <<w>> \o <<x>> \o <<y>>
    OBVIOUS
  <2>6. PICK more : more = s \o <<z>>
    OBVIOUS
  <2>7. OnlyReads(t, more)
    BY <1>3, <1>4, <1>6, <2>1, <2>2, <2>3, <2>4, <2>5, <2>6
       DEF Unpark, AfterUnpark, Op
  <2>8. /\ w \in StepsFor(Len(entry)) /\ x \in StepsFor(Len(entry))
        /\ y \in StepsFor(Len(entry)) /\ z \in StepsFor(Len(entry))
        /\ w.op = "lot" /\ x.op = "destroy" /\ y.op = "clear" /\ z.op = "found"
    BY <1>2, <1>3, <2>1, <2>2, <2>3, <2>4, StepMade DEF EntryStep, PlainStep
  <2>9. Tied(w, x) /\ Tied(x, y) /\ Tied(y, z)
    BY <2>1, <2>2, <2>3, <2>4 DEF Tied
  <2>10. /\ Loose(w, rte[t]) /\ Loose(x, rte[t]) /\ Loose(y, rte[t])
         /\ x.op \notin Carries \cup Asks \cup FirstOnly
         /\ y.op \notin Carries \cup Asks \cup FirstOnly
         /\ z.op \notin Carries \cup Asks \cup FirstOnly \cup UsesRoute
    BY <2>8 DEF Loose, UsesRoute, Carries, Asks, FirstOnly
  <2>11. Row(s, Len(entry), rte[t], {w.op, x.op, y.op}) /\ Ends(s, w, y)
    BY <1>2, <2>5, <2>8, <2>9, <2>10, RowThree
  <2>12. PICK few : few = {w.op, x.op, y.op}
    OBVIOUS
  <2>13. PICK ops : ops = few \cup {z.op}
    OBVIOUS
  <2>14. /\ Row(s, Len(entry), rte[t], few) /\ few \subseteq ops /\ z.op \in ops
         /\ s \in Seq(StepsFor(Len(entry)))
    BY <2>11, <2>12, <2>13 DEF Row
  <2>15. Row(more, Len(entry), rte[t], ops)
    BY <1>2, <2>6, <2>8, <2>9, <2>10, <2>11, <2>14, RowMore
  <2>16. Ends(more, w, z)
    BY <1>2, <2>6, <2>8, <2>11, <2>14, EndsMore
  <2>17. /\ ops \cap Carries = {} /\ ops \cap Asks = {}
         /\ RegisterFits(w.op, reg[t], Len(entry))
    BY <2>8, <2>12, <2>13 DEF Carries, Asks, RegisterFits
  <2> QED
    BY <1>1, <1>5, <2>7, <2>15, <2>16, <2>17, ReadsRow
<1>7. CASE c \in freed /\ Faulty("freed")
  BY <1>7, FaultyTyped
<1>8. CASE /\ c # Null /\ SendTo(job[t].via, job[t].via, c)
           /\ reg' = [reg EXCEPT ![t] = next_car[c]]
           /\ Then(t, Op("unpark", Arg(t)))
           /\ UNCHANGED <<table, cars, g_broadcast_id, job, rte, process,
                          received, requests, clash, fault, events>>
  <2>1. c \in Id
    BY <1>2, <1>4, <1>8
  <2>2. PICK p : p = next_car[c]
    OBVIOUS
  <2>3. p \in Id \cup {Null} /\ p \in Nat
    BY <2>1, <2>2, NextCarType, LimitAssumption DEF Id, Null
  <2>4. PICK more : more = Op("unpark", e)
    OBVIOUS
  <2>5. /\ "unpark" \in EntryStep /\ "unpark" \notin UsesRoute
        /\ "unpark" \notin Carries /\ "unpark" \notin Asks
        /\ RegisterFits("unpark", p, Len(entry)) /\ Len(entry) <= Len(entry)
        /\ e \in 1..Len(entry)
    BY <1>2, <1>3, <2>3 DEF EntryStep, UsesRoute, Carries, Asks, RegisterFits
  <2>6. /\ Fits(more, todo[t][1], rte[t], rte[t], p, Len(entry))
        /\ \A k \in DOMAIN more :
               more[k].op \in BackendSteps => todo[t][1].op \in BackendSteps
    BY <1>1, <1>2, <1>5, <2>4, <2>5, OneFits
  <2>7. sent' \in [Id -> Nat] /\ astray' \subseteq Id
    BY <1>8, <2>1, SendType
  <2>8. Then(t, more) /\ reg' = [reg EXCEPT ![t] = p]
    BY <1>3, <1>8, <2>2, <2>4
  <2> QED
    BY <1>1, <1>8, <2>3, <2>6, <2>7, <2>8, RegisterTyped
<1> QED
  BY <1>4, <1>6, <1>7, <1>8 DEF Unpark

LEMMA DestroyTyped ==
    ASSUME Typed, NEW t \in Thread, Destroy(t)
    PROVE  Typed' /\ Keeps
<1>1. Doing(t, "destroy") /\ todo[t] # <<>> /\ Head(todo[t]).op = "destroy"
  BY DEF Destroy, Doing
<1>2. /\ rte[t] \in 0..Len(entry) /\ reg[t] \in Id \cup {Null}
      /\ Len(entry) \in Nat /\ Arg(t) = Null
  BY <1>1, HeadStep DEF PlainStep, RegisterFits
<1>3. CASE OnlyReads(t, <<>>)
  BY <1>1, <1>3, ReadsNoMore
<1>4. CASE Faulty("freed")
  BY <1>4, FaultyTyped
<1>5. CASE /\ reg[t] # Null
           /\ Loads(t, next_car[reg[t]], Op("free", reg[t]) \o Op("destroy", Null))
  <2>1. PICK c : c = next_car[reg[t]]
    OBVIOUS
  <2>2. reg[t] \in Id /\ c \in Id \cup {Null}
    BY <1>2, <1>5, <2>1, NextCarType
  <2>3. PICK a : a = [op |-> "free", arg |-> reg[t]]
    OBVIOUS
  <2>4. PICK b : b = [op |-> "destroy", arg |-> Null]
    OBVIOUS
  <2>5. PICK more : more = <<a>> \o <<b>>
    OBVIOUS
  <2>6. Loads(t, c, more)
    BY <1>5, <2>1, <2>3, <2>4, <2>5 DEF Op
  <2>7. /\ a \in StepsFor(Len(entry)) /\ b \in StepsFor(Len(entry))
        /\ a.op = "free" /\ b.op = "destroy"
    BY <1>2, <2>2, <2>3, <2>4, StepMade DEF CarStep, PlainStep
  <2>8. /\ Tied(a, b) /\ Loose(a, rte[t]) /\ Loose(b, rte[t])
        /\ b.op \notin Carries \cup Asks \cup FirstOnly
    BY <2>7 DEF Tied, Loose, UsesRoute, Carries, Asks, FirstOnly
  <2>9. Row(more, Len(entry), rte[t], {a.op, b.op}) /\ Ends(more, a, b)
    BY <1>2, <2>5, <2>7, <2>8, RowTwo
  <2>10. PICK ops : ops = {a.op, b.op}
    OBVIOUS
  <2>11. /\ Row(more, Len(entry), rte[t], ops)
         /\ ops \cap Carries = {} /\ ops \cap Asks = {}
         /\ RegisterFits(a.op, c, Len(entry)) /\ "destroy" # "query"
         /\ "destroy" \in BackendSteps /\ Len(entry) <= Len(entry)
         /\ b = [op |-> "destroy", arg |-> Arg(t)]
    BY <1>2, <2>2, <2>4, <2>7, <2>9, <2>10
       DEF Carries, Asks, RegisterFits, BackendSteps
  <2>12. /\ Fits(more, todo[t][1], rte[t], rte[t], c, Len(entry))
         /\ \A k \in DOMAIN more :
                more[k].op \in BackendSteps => todo[t][1].op \in BackendSteps
    BY <1>1, <1>2, <2>9, <2>11, RowFits
  <2> QED
    BY <1>1, <2>2, <2>6, <2>12, LoadsTyped
<1> QED
  BY <1>3, <1>4, <1>5 DEF Destroy

LEMMA EndlessTyped ==
    ASSUME Typed, NEW t \in Thread, Endless(t)
    PROVE  Typed' /\ Keeps
BY FaultyTyped DEF Endless

-----------------------------------------------------------------------------
(* What a thread has to do when it has read a message or a frame. *)

Starts == {"purge", "query", "update", "release", "deliver"}

Beginning(s, ops, m) ==
    Row(s, m, Null, ops) /\ (s # <<>> => s[1].op \in Starts)

LEMMA BeginningNone ==
    ASSUME NEW m \in Nat, NEW ops
    PROVE  Beginning(<<>>, ops, m)
BY RowNone DEF Beginning

LEMMA BeginningOne ==
    ASSUME NEW m \in Nat, NEW name \in Starts, NEW arg,
           IF name = "deliver" THEN arg = Null ELSE arg \in Node,
           NEW ops, name \in ops
    PROVE  Beginning(Op(name, arg), ops, m)
<1>1. PICK a : a = [op |-> name, arg |-> arg]
  OBVIOUS
<1>2. a \in StepsFor(m) /\ a.op = name
  BY <1>1, StepMade DEF Starts, NodeStep, PlainStep
<1>3. PICK s : s = <<a>>
  OBVIOUS
<1>4. Loose(a, Null)
  BY <1>2 DEF Loose, UsesRoute, Starts
<1>5. Row(s, m, Null, {a.op}) /\ Ends(s, a, a)
  BY <1>2, <1>3, <1>4, RowFirst
<1>6. Beginning(s, ops, m)
  BY <1>2, <1>5 DEF Beginning, Row, Ends
<1> QED
  BY <1>1, <1>3, <1>6 DEF Op

LEMMA BeginningRoute ==
    ASSUME NEW m \in Nat, NEW d \in Node, NEW ops, {"query", "route"} \subseteq ops
    PROVE  Beginning(RouteTo(d), ops, m)
<1>1. PICK s : s = RouteTo(d)
  OBVIOUS
<1>2. PICK a : a = [op |-> "query", arg |-> d]
  OBVIOUS
<1>3. PICK b : b = [op |-> "route", arg |-> d]
  OBVIOUS
<1>4. PICK few : few = {"query", "route"}
  OBVIOUS
<1>5. Row(s, m, Null, few) /\ Ends(s, a, b)
  BY <1>1, <1>2, <1>3, <1>4, RouteToRow
<1>6. Row(s, m, Null, ops)
  BY <1>4, <1>5 DEF Row
<1>7. s[1].op \in Starts
  BY <1>2, <1>5 DEF Ends, Starts
<1> QED
  BY <1>1, <1>6, <1>7 DEF Beginning

LEMMA BeginningData ==
    ASSUME NEW m \in Nat, NEW d \in Node, NEW ops,
           {"query", "route", "deliver"} \subseteq ops
    PROVE  Beginning(RouteData(d), ops, m)
<1>1. CASE d = Self
  <2>1. PICK arg : arg = Null
    OBVIOUS
  <2>2. Beginning(Op("deliver", arg), ops, m)
    BY <2>1, BeginningOne DEF Starts
  <2> QED
    BY <1>1, <2>1, <2>2 DEF RouteData
<1>2. CASE d # Self
  BY <1>2, BeginningRoute DEF RouteData
<1> QED
  BY <1>1, <1>2

LEMMA BeginningJoin ==
    ASSUME NEW m \in Nat, NEW ops, NEW few, few \subseteq ops,
           few \cap Carries = {}, few \cap Asks = {},
           NEW a, Beginning(a, few, m), NEW b, Beginning(b, ops, m),
           NEW z, z = a \o b
    PROVE  Beginning(z, ops, m)
<1>1. Row(a, m, Null, few) /\ Row(b, m, Null, ops) /\ Apart(few, ops)
  BY DEF Beginning, Apart
<1>2. b # <<>> => b[1].op \notin FirstOnly
  BY DEF Beginning, Starts, FirstOnly
<1>3. b # <<>> => Tied(a[Len(a)], b[1])
  BY DEF Beginning, Starts, Tied
<1>4. Row(a \o b, m, Null, few \cup ops)
  BY <1>1, <1>2, <1>3, RowJoin
<1>5. a # <<>> => (a \o b)[1] = a[1]
  BY <1>1, <1>2, <1>3, RowJoin
<1>6. a = <<>> => a \o b = b
  BY <1>1, <1>2, <1>3, RowJoin
<1>7. Row(z, m, Null, ops)
  BY <1>4 DEF Row
<1>8. z # <<>> => z[1].op \in Starts
  BY <1>5, <1>6 DEF Beginning
<1> QED
  BY <1>7, <1>8 DEF Beginning

LEMMA BeginningPurge ==
    ASSUME NEW m \in Nat, NEW d \in Node, NEW ops, "purge" \in ops, NEW forced
    PROVE  Beginning(PurgeIf(forced, d), ops, m)
<1>1. CASE forced
  BY <1>1, BeginningOne DEF PurgeIf, Starts
<1>2. CASE ~forced
  BY <1>2, BeginningNone DEF PurgeIf
<1> QED
  BY <1>1, <1>2

(* A thread has read something. *)
LEMMA BeginTyped ==
    ASSUME Typed, NEW t \in Thread, NEW j \in Job, NEW bid \in Nat, NEW steps,
           Begin(t, j, bid, steps), NEW ops, Beginning(steps, ops, Len(entry)),
           t = "frontend" => ops \cap BackendSteps = {},
           j.id = IF t = "frontend" THEN received[t] + 1
                  ELSE MaxEvents + received[t] + 1
    PROVE  Typed'
<1>1. /\ job' = [job EXCEPT ![t] = j]
      /\ todo' = [todo EXCEPT ![t] = steps]
      /\ broadcast_id' = [broadcast_id EXCEPT ![j.id] = bid]
      /\ received' = [received EXCEPT ![t] = @ + 1]
      /\ events < MaxEvents /\ events' = events + 1
      /\ clash' \in BOOLEAN
      /\ UNCHANGED <<rt_table, entry, next_car, freed, g_broadcast_id, rte, reg,
                     alive, main, stopping, requests, sent, astray, fault>>
  BY DEF Begin, Happens, table, process
<1>2. /\ received \in [Thread -> Nat] /\ job \in [Thread -> Job]
      /\ DOMAIN todo = Thread /\ Len(entry) \in Nat
      /\ events \in 0..MaxEvents /\ MaxEvents \in Nat
  BY LimitAssumption DEF Typed, CountsOK, JobsOK, LocalsOK, MemoryOK
<1>3. MemoryOK' /\ LocalsOK'
  <2>1. broadcast_id' \in [Id -> Nat]
    BY <1>1 DEF Typed, MemoryOK
  <2> QED
    BY <1>1, <2>1 DEF Typed, MemoryOK, LocalsOK, Pointer
<1>4. todo'[t] = steps /\ \A u \in Thread \ {t} : todo'[u] = todo[u]
  BY <1>1, <1>2
<1>5. PlanOK(t)'
  <2>1. /\ steps \in Seq(StepsFor(Len(entry))) /\ Shape(steps)
        /\ RouteKnown(steps, rte[t])
        /\ steps # <<>> => RegisterFits(steps[1].op, reg[t], Len(entry))
        /\ \A k \in DOMAIN steps : steps[k].op \in ops
    BY DEF Beginning, Row, RouteKnown, RegisterFits, Starts
  <2>2. rte[t] \in 0..Len(entry)
    BY DEF Typed, PlanOK, Plan
  <2>3. t = "frontend" => ~Has(t, BackendSteps)'
    BY <1>4, <2>1 DEF Has
  <2> QED
    BY <1>1, <1>4, <2>1, <2>2, <2>3 DEF PlanOK, Plan
<1>6. \A u \in Thread \ {t} : PlanOK(u)'
  BY <1>1, <1>4 DEF Typed, PlanOK, Has
<1>7. CountsOK'
  <2>1. /\ received' \in [Thread -> Nat]
        /\ received'["frontend"] + received'["backend"]
               = received["frontend"] + received["backend"] + 1
    BY <1>1, <1>2 DEF Thread
  <2>2. /\ Due("frontend") \in 0..1 /\ Due("backend") \in 0..1
        /\ Due("frontend")' \in 0..1 /\ Due("backend")' \in 0..1
    BY DEF Due
  <2>3. \A u \in Thread \ {t} : Due(u)' = Due(u)
    BY <1>4 DEF Due, Has
  <2>4. \/ Due("frontend")' = Due("frontend")
        \/ Due("backend")' = Due("backend")
    BY <2>3 DEF Thread
  <2>5. /\ Len(requests) \in Nat
        /\ Len(requests) + Due("frontend") + Due("backend")
               <= received["frontend"] + received["backend"]
        /\ received["frontend"] \in Nat /\ received["backend"] \in Nat
        /\ received["frontend"] + received["backend"] <= events
    BY <1>2 DEF Typed, CountsOK, Thread
  <2>6. Len(requests) + Due("frontend")' + Due("backend")'
            <= received'["frontend"] + received'["backend"]
    BY <2>1, <2>2, <2>4, <2>5
  <2>7. /\ received'["frontend"] + received'["backend"] <= events'
        /\ events' \in 0..MaxEvents
    BY <1>1, <1>2, <2>1, <2>5
  <2> QED
    BY <1>1, <2>1, <2>6, <2>7 DEF Typed, CountsOK
<1>8. JobsOK'
  <2>1. job' \in [Thread -> Job] /\ job'[t] = j
    BY <1>1, <1>2
  <2>2. /\ j.id \in Ids(t)' /\ j.id # Null
    BY <1>1, <1>2 DEF Ids, Null
  <2>3. \A u \in Thread \ {t} : /\ job'[u] = job[u] /\ Ids(u)' = Ids(u)
                                /\ Has(u, Carries)' <=> Has(u, Carries)
    BY <1>1, <1>2, <1>4 DEF Ids, Has
  <2> QED
    BY <2>1, <2>2, <2>3 DEF Typed, JobsOK
<1> QED
  BY <1>3, <1>5, <1>6, <1>7, <1>8 DEF Typed

(* What a message and a frame make a thread do. *)
MessageSteps == {"purge", "query", "route", "deliver"}
FrameSteps == {"purge", "update", "query", "route", "release", "deliver"}

LEMMA MessagePlan ==
    ASSUME Typed, NEW m \in Input, NEW steps,
           steps = PurgeIf(m.forced, m.destination) \o RouteData(m.destination)
    PROVE  Beginning(steps, MessageSteps, Len(entry))
<1>1. m.destination \in Node /\ Len(entry) \in Nat
  BY InputAssumption DEF Node, Typed, MemoryOK
<1>2. PICK few : few = {"purge"}
  OBVIOUS
<1>3. PICK a : a = PurgeIf(m.forced, m.destination)
  OBVIOUS
<1>4. PICK b : b = RouteData(m.destination)
  OBVIOUS
<1>5. Beginning(a, few, Len(entry))
  BY <1>1, <1>2, <1>3, BeginningPurge
<1>6. Beginning(b, MessageSteps, Len(entry))
  BY <1>1, <1>4, BeginningData DEF MessageSteps
<1>7. few \cap Carries = {} /\ few \cap Asks = {} /\ few \subseteq MessageSteps
  BY <1>2 DEF Carries, Asks, MessageSteps
<1>8. steps = a \o b
  BY <1>3, <1>4
<1> QED
  BY <1>1, <1>5, <1>6, <1>7, <1>8, BeginningJoin

LEMMA FramePlan ==
    ASSUME Typed, NEW f \in Frame, NEW steps,
           steps = (IF f.kind = "REP" THEN <<>>
                    ELSE PurgeIf(f.forced, f.destination))
                   \o PurgeIf(f.forced, f.source) \o Op("update", f.source)
                   \o Op("query", f.destination) \o Service(f)
    PROVE  Beginning(steps, FrameSteps, Len(entry))
<1>1. PICK n : n = Len(entry)
  OBVIOUS
<1>2. PICK few : few = {"purge", "update", "query"}
  OBVIOUS
<1>3. PICK a : a = IF f.kind = "REP" THEN <<>>
                   ELSE PurgeIf(f.forced, f.destination)
  OBVIOUS
<1>4. PICK b : b = PurgeIf(f.forced, f.source)
  OBVIOUS
<1>5. PICK c : c = Op("update", f.source)
  OBVIOUS
<1>6. PICK d : d = Op("query", f.destination)
  OBVIOUS
<1>7. PICK s : s = Service(f)
  OBVIOUS
<1>8. f.destination \in Node /\ f.source \in Node /\ n \in Nat
  BY <1>1, InputAssumption DEF Node, Typed, MemoryOK
<1>9. Beginning(a, few, n) /\ Beginning(b, few, n)
  BY <1>2, <1>3, <1>4, <1>8, BeginningPurge, BeginningNone
<1>10. Beginning(c, few, n) /\ Beginning(d, few, n)
  BY <1>2, <1>5, <1>6, <1>8, BeginningOne DEF Starts
<1>11. /\ few \cap Carries = {} /\ few \cap Asks = {} /\ few \subseteq few
       /\ few \subseteq FrameSteps
  BY <1>2 DEF Carries, Asks, FrameSteps
<1>12. PICK u : u = a \o b
  OBVIOUS
<1>13. PICK v : v = u \o c
  OBVIOUS
<1>14. Beginning(u, few, n)
  BY <1>8, <1>9, <1>11, <1>12, BeginningJoin
<1>15. Beginning(v, few, n)
  BY <1>8, <1>10, <1>11, <1>13, <1>14, BeginningJoin
<1>16. steps = v \o d \o s
  BY <1>3, <1>4, <1>5, <1>6, <1>7, <1>12, <1>13
<1>17. CASE f.kind # "DAT" /\ f.destination # Self
  <2>1. s = Op("route", f.destination)
    BY <1>7, <1>17 DEF Service
  <2>2. PICK w : w = RouteTo(f.destination)
    OBVIOUS
  <2>3. w = d \o s
    BY <1>6, <2>1, <2>2 DEF RouteTo
  <2>4. Beginning(w, FrameSteps, n)
    BY <1>8, <2>2, BeginningRoute DEF FrameSteps
  <2>5. Beginning(v \o w, FrameSteps, n)
    BY <1>8, <1>11, <1>15, <2>4, BeginningJoin
  <2>6. PICK x : x = [op |-> "route", arg |-> f.destination]
    OBVIOUS
  <2>7. x \in StepsFor(n) /\ s = <<x>>
    BY <1>8, <2>1, <2>6, StepMade DEF NodeStep, Op
  <2>8. /\ v \in Seq(StepsFor(n)) /\ d \in Seq(StepsFor(n))
        /\ s \in Seq(StepsFor(n))
    BY <1>10, <1>15, <2>7 DEF Beginning, Row
  <2>9. v \o d \o s = v \o (d \o s)
    BY <2>8, ConcatAssociative
  <2> QED
    BY <1>1, <1>16, <2>3, <2>5, <2>9
<1>18. CASE ~(f.kind # "DAT" /\ f.destination # Self)
  <2>1. PICK w : w = v \o d
    OBVIOUS
  <2>2. Beginning(w, few, n)
    BY <1>8, <1>10, <1>11, <1>15, <2>1, BeginningJoin
  <2>3. Beginning(s, FrameSteps, n)
    <3>1. Beginning(RouteData(f.destination), FrameSteps, n)
      BY <1>8, BeginningData DEF FrameSteps
    <3>2. Beginning(Op("release", f.source), FrameSteps, n)
      BY <1>8, BeginningOne DEF Starts, FrameSteps
    <3> QED
      BY <1>7, <1>18, <3>1, <3>2 DEF Service
  <2>4. steps = w \o s
    BY <1>16, <2>1
  <2>5. Beginning(steps, FrameSteps, n)
    BY <1>8, <1>11, <2>2, <2>3, <2>4, BeginningJoin
  <2> QED
    BY <1>1, <2>5
<1> QED
  BY <1>17, <1>18

LEMMA ReadMessageTyped ==
    ASSUME Typed, NEW m \in Input, ReadMessage(m)
    PROVE  Typed'
<1> DEFINE j == [source |-> Self, destination |-> m.destination, via |-> Null,
                 id |-> received["frontend"] + 1]
<1>1. PICK steps :
          steps = PurgeIf(m.forced, m.destination) \o RouteData(m.destination)
  OBVIOUS
<1>2. Begin("frontend", j, 0, steps) /\ events < MaxEvents
  BY <1>1 DEF ReadMessage, Begin, Happens
<1>3. m.destination \in Node /\ Len(entry) \in Nat
  BY InputAssumption DEF Node, Typed, MemoryOK
<1>4. Beginning(steps, MessageSteps, Len(entry))
  BY <1>1, MessagePlan
<1>5. MessageSteps \cap BackendSteps = {}
  BY DEF MessageSteps, BackendSteps
<1>6. j \in Job
  <2>1. received["frontend"] + 1 \in Id
    BY <1>2, LimitAssumption DEF Typed, CountsOK, Thread, Id
  <2> QED
    BY <1>3, <2>1 DEF Job, Node
<1>7. /\ "frontend" \in Thread /\ "frontend" = "frontend"
      /\ j.id = received["frontend"] + 1 /\ 0 \in Nat
  BY DEF Thread
<1> HIDE DEF j
<1> QED
  BY <1>2, <1>4, <1>5, <1>6, <1>7, BeginTyped

LEMMA ReadFrameTyped ==
    ASSUME Typed, NEW f \in Frame, ReadFrame(f)
    PROVE  Typed'
<1> DEFINE j == [source |-> f.source, destination |-> f.destination,
                 via |-> f.via, id |-> MaxEvents + received["backend"] + 1]
<1>1. PICK steps :
          steps = (IF f.kind = "REP" THEN <<>>
                   ELSE PurgeIf(f.forced, f.destination))
                  \o PurgeIf(f.forced, f.source) \o Op("update", f.source)
                  \o Op("query", f.destination) \o Service(f)
  OBVIOUS
<1>2. Begin("backend", j, f.bid, steps) /\ events < MaxEvents
  BY <1>1 DEF ReadFrame, Begin, Happens
<1>3. /\ f.destination \in Node /\ f.source \in Node /\ f.via \in Via
      /\ f.bid \in Nat
  BY InputAssumption DEF Node
<1>4. Beginning(steps, FrameSteps, Len(entry))
  BY <1>1, FramePlan
<1>5. j \in Job
  <2>1. MaxEvents + received["backend"] + 1 \in Id
    BY <1>2, LimitAssumption DEF Typed, CountsOK, Thread, Id
  <2> QED
    BY <1>3, <2>1 DEF Job
<1>6. /\ "backend" \in Thread /\ "backend" # "frontend"
      /\ j.id = MaxEvents + received["backend"] + 1
  BY DEF Thread
<1> HIDE DEF j
<1> QED
  BY <1>2, <1>3, <1>4, <1>5, <1>6, BeginTyped

-----------------------------------------------------------------------------
(* The loops of the threads, and what happens to them. *)

(* A thread has nothing to do, or waits. *)
LEMMA WaitingPlan ==
    ASSUME NEW s \in {<<>>, Op("read", Null)}, NEW n \in Nat, NEW r \in 0..n,
           NEW g
    PROVE  /\ Plan(s, r, g, n)
           /\ \A k \in DOMAIN s : s[k].op = "read"
<1>1. CASE s = <<>>
  <2>1. s \in Seq(StepsFor(n)) /\ Len(s) = 0 /\ DOMAIN s = {}
    BY <1>1
  <2> QED
    BY <1>1, <2>1 DEF Plan, Shape, RouteKnown
<1>2. CASE s = Op("read", Null)
  <2>1. PICK a : a = [op |-> "read", arg |-> Null]
    OBVIOUS
  <2>2. a \in StepsFor(n) /\ a.op = "read"
    BY <2>1, StepMade DEF PlainStep
  <2>3. s = <<a>>
    BY <1>2, <2>1 DEF Op
  <2>4. s \in Seq(StepsFor(n)) /\ Len(s) = 1 /\ DOMAIN s = {1} /\ s[1] = a
    BY <2>2, <2>3
  <2> QED
    BY <2>2, <2>4 DEF Plan, Shape, RouteKnown, RegisterFits, UsesRoute
<1> QED
  BY <1>1, <1>2

LEMMA RestTyped ==
    ASSUME Typed, MemoryOK', LocalsOK', Len(entry') = Len(entry),
           UNCHANGED <<g_broadcast_id, received, requests>>,
           job' \in [Thread -> Job], events' \in 0..MaxEvents, events <= events',
           \A u \in Thread :
               \/ /\ todo'[u] = todo[u] /\ job'[u] = job[u]
                  /\ rte'[u] = rte[u] /\ reg'[u] = reg[u]
               \/ /\ todo'[u] \in {<<>>, Op("read", Null)}
                  /\ job'[u] \in {job[u], NoJob} /\ rte'[u] \in {rte[u], Null}
    PROVE  Typed' /\ Keeps
<1>1. Len(entry) \in Nat
  BY DEF Typed, MemoryOK
<1>2. ASSUME NEW u \in Thread
      PROVE  /\ PlanOK(u)'
             /\ \A ops : "read" \notin ops => (Has(u, ops)' => Has(u, ops))
             /\ job'[u].id \in Ids(u)' \cup {Null}
             /\ job'[u].id = job[u].id \/ ~Has(u, Carries)'
  <2>0. job[u].id \in Ids(u) \cup {Null} /\ Ids(u)' = Ids(u) /\ rte[u] \in 0..Len(entry)
    BY DEF Typed, JobsOK, Ids, PlanOK, Plan
  <2>1. CASE /\ todo'[u] = todo[u] /\ job'[u] = job[u]
             /\ rte'[u] = rte[u] /\ reg'[u] = reg[u]
    BY <2>0, <2>1 DEF Typed, PlanOK, Has
  <2>2. CASE /\ todo'[u] \in {<<>>, Op("read", Null)}
             /\ job'[u] \in {job[u], NoJob} /\ rte'[u] \in {rte[u], Null}
    <3>1. rte'[u] \in 0..Len(entry')
      BY <1>1, <2>0, <2>2 DEF Null
    <3>2. Plan(todo'[u], rte'[u], reg'[u], Len(entry'))
      BY <1>1, <2>2, <3>1, WaitingPlan
    <3>3. \A k \in DOMAIN todo'[u] : todo'[u][k].op = "read"
      BY <1>1, <2>2, <3>1, WaitingPlan
    <3>4. \A ops : "read" \notin ops => ~Has(u, ops)'
      BY <3>3 DEF Has
    <3>5. "read" \notin BackendSteps /\ "read" \notin Carries
      BY DEF BackendSteps, Carries
    <3>6. job'[u].id \in Ids(u)' \cup {Null}
      BY <2>0, <2>2 DEF NoJob
    <3> QED
      BY <3>2, <3>4, <3>5, <3>6 DEF PlanOK
  <2> QED
    BY <2>1, <2>2
<1>3. "read" \notin Carries /\ "read" \notin Asks
  BY DEF Carries, Asks
<1>4. Keeps
  BY <1>2, <1>3 DEF Keeps
<1>5. JobsOK'
  BY <1>2, <1>4 DEF Typed, JobsOK, Keeps
<1>6. CountsOK'
  <2>1. \A u \in Thread : Has(u, Asks)' => Has(u, Asks)
    BY <1>2, <1>3
  <2>2. /\ Due("frontend")' <= Due("frontend")
        /\ Due("backend")' <= Due("backend")
        /\ Due("frontend") \in 0..1 /\ Due("backend") \in 0..1
        /\ Due("frontend")' \in 0..1 /\ Due("backend")' \in 0..1
    BY <2>1 DEF Due, Thread
  <2>3. /\ received["frontend"] \in Nat /\ received["backend"] \in Nat
        /\ Len(requests) \in Nat /\ events \in Nat /\ MaxEvents \in Nat
    BY LimitAssumption DEF Typed, CountsOK, Thread
  <2> QED
    BY <2>2, <2>3 DEF Typed, CountsOK
<1> QED
  BY <1>2, <1>4, <1>5, <1>6 DEF Typed

LEMMA LoopTyped ==
    ASSUME Typed, NEW t \in Thread, Loop(t)
    PROVE  Typed' /\ Keeps
<1>1. /\ UNCHANGED <<rt_table, entry, next_car, freed, broadcast_id, g_broadcast_id, main,
                     stopping, received, requests, sent, astray, clash, fault,
                     events>>
      /\ job' = [job EXCEPT ![t] = NoJob] /\ rte' = [rte EXCEPT ![t] = Null]
      /\ reg' = [reg EXCEPT ![t] = Null] /\ alive' \subseteq alive
      /\ \/ todo' = [todo EXCEPT ![t] = <<>>]
         \/ todo' = [todo EXCEPT ![t] = Op("read", Null)]
  BY DEF Loop, table, cars, history
<1>2. /\ job \in [Thread -> Job] /\ rte \in [Thread -> Nat]
      /\ reg \in [Thread -> Nat] /\ DOMAIN todo = Thread
      /\ events \in 0..MaxEvents /\ MaxEvents \in Nat
  BY LimitAssumption DEF Typed, JobsOK, LocalsOK, CountsOK
<1>3. NoJob \in Job
  BY DEF NoJob, Job, Node
<1>4. job' \in [Thread -> Job] /\ events' \in 0..MaxEvents /\ events <= events'
  BY <1>1, <1>2, <1>3
<1>5. MemoryOK' /\ Len(entry') = Len(entry)
  BY <1>1 DEF Typed, MemoryOK, Pointer
<1>6. LocalsOK'
  <2>1. rte' \in [Thread -> Nat] /\ reg' \in [Thread -> Nat]
    BY <1>1, <1>2 DEF Null
  <2>2. DOMAIN todo' = Thread
    BY <1>1, <1>2
  <2> QED
    BY <1>1, <2>1, <2>2 DEF Typed, LocalsOK
<1>7. ASSUME NEW u \in Thread
      PROVE  \/ /\ todo'[u] = todo[u] /\ job'[u] = job[u]
                /\ rte'[u] = rte[u] /\ reg'[u] = reg[u]
             \/ /\ todo'[u] \in {<<>>, Op("read", Null)}
                /\ job'[u] \in {job[u], NoJob} /\ rte'[u] \in {rte[u], Null}
  BY <1>1, <1>2
<1> QED
  BY <1>1, <1>4, <1>5, <1>6, <1>7, RestTyped

(* Only a thread may leave its loop, or the main thread or a route change. *)
LEMMA LeaveTyped ==
    ASSUME Typed, NEW t \in Thread, NEW stop \in BOOLEAN, Leave(t, stop),
           Happens,
           UNCHANGED <<table, cars, g_broadcast_id, local, main, history, fault>>
    PROVE  Typed' /\ Keeps
<1>1. /\ UNCHANGED <<rt_table, entry, next_car, freed, broadcast_id, g_broadcast_id, job, rte,
                     reg, main, received, requests, sent, astray, clash, fault>>
      /\ todo' = [todo EXCEPT ![t] = <<>>] /\ alive' \subseteq alive
      /\ stopping' \in BOOLEAN
      /\ events < MaxEvents /\ events' = events + 1
  BY DEF Leave, Happens, table, cars, local, history
<1>2. /\ job \in [Thread -> Job] /\ DOMAIN todo = Thread
      /\ events \in 0..MaxEvents /\ MaxEvents \in Nat
  BY LimitAssumption DEF Typed, JobsOK, LocalsOK, CountsOK
<1>3. job' \in [Thread -> Job] /\ events' \in 0..MaxEvents /\ events <= events'
  BY <1>1, <1>2
<1>4. MemoryOK' /\ Len(entry') = Len(entry)
  BY <1>1 DEF Typed, MemoryOK, Pointer
<1>5. LocalsOK'
  BY <1>1 DEF Typed, LocalsOK
<1>6. ASSUME NEW u \in Thread
      PROVE  \/ /\ todo'[u] = todo[u] /\ job'[u] = job[u]
                /\ rte'[u] = rte[u] /\ reg'[u] = reg[u]
             \/ /\ todo'[u] \in {<<>>, Op("read", Null)}
                /\ job'[u] \in {job[u], NoJob} /\ rte'[u] \in {rte[u], Null}
  BY <1>1, <1>2
<1> QED
  BY <1>1, <1>3, <1>4, <1>5, <1>6, RestTyped

LEMMA FailTyped ==
    ASSUME Typed, NEW t \in Thread, Fail(t)
    PROVE  Typed' /\ Keeps
<1>1. stopping \in BOOLEAN
  BY DEF Typed, LocalsOK
<1> QED
  BY <1>1, LeaveTyped DEF Fail

(* No thread does anything. *)
LEMMA OutsideTyped ==
    ASSUME Typed, MemoryOK', Len(entry') = Len(entry),
           UNCHANGED <<g_broadcast_id, todo, job, rte, reg, received, requests,
                       sent, astray, clash>>,
           alive' \subseteq Thread, main' \in {"join", "destroyed", "exited"},
           stopping' \in BOOLEAN, fault' \in {fault, "signal"},
           events' \in {events} \cup {e \in 0..MaxEvents : e = events + 1}
    PROVE  Typed' /\ Keeps
<1>1. LocalsOK'
  BY DEF Typed, LocalsOK
<1>2. /\ events' \in 0..MaxEvents /\ events <= events'
      /\ job' \in [Thread -> Job]
  BY LimitAssumption DEF Typed, CountsOK, JobsOK
<1>3. \A u \in Thread : /\ todo'[u] = todo[u] /\ job'[u] = job[u]
                        /\ rte'[u] = rte[u] /\ reg'[u] = reg[u]
  OBVIOUS
<1> QED
  BY <1>1, <1>2, <1>3, RestTyped

(* A wait for a receiver is over. *)
LEMMA ErrorFits ==
    ASSUME Typed, NEW t \in Thread, Doing(t, "wait"),
           NEW more, more = Undelivered(t)
    PROVE  /\ Fits(more, todo[t][1], rte[t], rte[t], reg[t], Len(entry))
           /\ \A k \in DOMAIN more :
                  more[k].op \in BackendSteps => todo[t][1].op \in BackendSteps
           /\ todo[t] # <<>>
<1>1. CASE job[t].source = Self
  BY <1>1, NoMore DEF Undelivered
<1>2. CASE job[t].source # Self
  <2>1. PICK d : d = job[t].source
    OBVIOUS
  <2>2. d \in Node
    BY <2>1, MessageInHand
  <2>3. more = RouteTo(d)
    BY <1>2, <2>1 DEF Undelivered
  <2>4. PICK ops : ops = {"query", "route"}
    OBVIOUS
  <2>5. PICK a : a = [op |-> "query", arg |-> d]
    OBVIOUS
  <2>6. PICK b : b = [op |-> "route", arg |-> d]
    OBVIOUS
  <2>7. Len(entry) \in Nat /\ rte[t] \in 0..Len(entry) /\ Len(entry) <= Len(entry)
    BY HeadStep DEF Doing
  <2>8. Row(more, Len(entry), rte[t], ops) /\ Ends(more, a, b)
    BY <2>2, <2>3, <2>4, <2>5, <2>6, <2>7, RouteToRow
  <2>9. /\ "wait" # "query" /\ "wait" \in Carries /\ "wait" \in Asks
        /\ "wait" \notin Halves /\ ops \cap BackendSteps = {}
        /\ RegisterFits(a.op, reg[t], Len(entry))
    BY <2>4, <2>5 DEF Carries, Asks, Halves, BackendSteps, RegisterFits
  <2> QED
    BY <2>7, <2>8, <2>9, RowFits
<1> QED
  BY <1>1, <1>2

LEMMA SignalTyped ==
    ASSUME Typed, NEW u \in Thread \cup {"main"}, Signal(u)
    PROVE  Typed' /\ Keeps
<1>1. /\ UNCHANGED <<rt_table, entry, next_car, freed, broadcast_id, g_broadcast_id, job, rte,
                     reg, main, received, requests, sent, astray, clash>>
      /\ events < MaxEvents /\ events' = events + 1
  BY DEF Signal, Happens, table, cars, local, history
<1>2. MemoryOK' /\ Len(entry') = Len(entry)
  BY <1>1 DEF Typed, MemoryOK, Pointer
<1>3. events' \in {e \in 0..MaxEvents : e = events + 1}
  BY <1>1, LimitAssumption DEF Typed, CountsOK
<1>4. alive \subseteq Thread /\ main' \in {"join", "destroyed", "exited"}
  BY <1>1 DEF Typed, LocalsOK
<1>5. CASE main = "destroyed"
  <2>1. fault' = "signal" /\ UNCHANGED <<todo, alive, stopping>>
    BY <1>5 DEF Signal
  <2>2. stopping' \in BOOLEAN
    BY <2>1 DEF Typed, LocalsOK
  <2> QED
    BY <1>1, <1>2, <1>3, <1>4, <2>1, <2>2, OutsideTyped
<1>6. CASE main # "destroyed" /\ u \in Thread /\ todo[u] = Op("read", Null)
  BY <1>6, LeaveTyped DEF Signal
<1>7. CASE main # "destroyed" /\ ~(u \in Thread /\ todo[u] = Op("read", Null))
  <2>1. stopping' = TRUE /\ UNCHANGED <<alive, fault>>
    BY <1>7 DEF Signal
  <2>2. CASE UNCHANGED todo
    BY <1>1, <1>2, <1>3, <1>4, <2>1, <2>2, OutsideTyped
  <2>3. CASE u \in Thread /\ Waits(u) /\ Then(u, Undelivered(u))
    <3>1. PICK more : more = Undelivered(u)
      OBVIOUS
    <3>2. Then(u, more) /\ Doing(u, "wait")
      BY <2>3, <3>1 DEF Waits
    <3>3. /\ Fits(more, todo[u][1], rte[u], rte[u], reg[u], Len(entry))
          /\ \A k \in DOMAIN more :
                 more[k].op \in BackendSteps => todo[u][1].op \in BackendSteps
          /\ todo[u] # <<>>
      BY <2>3, <3>1, <3>2, ErrorFits
    <3>4. Fits(more, todo[u][1], rte[u], rte'[u], reg'[u], Len(entry'))
      BY <1>1, <3>3
    <3>5. LocalsOK'
      BY <1>1, <2>1, <3>2 DEF Typed, LocalsOK, Then
    <3>6. /\ Len(entry) <= Len(entry') /\ g_broadcast_id' \in Nat
          /\ events' \in 0..MaxEvents /\ events <= events'
      BY <1>1, <1>3, LimitAssumption DEF Typed, MemoryOK, CountsOK
    <3>7. UNCHANGED requests /\ UNCHANGED <<job, received>>
      BY <1>1
    <3>8. rte'[Other(u)] = rte[Other(u)] /\ reg'[Other(u)] = reg[Other(u)]
      BY <1>1
    <3> QED
      BY <1>2, <2>3, <3>2, <3>3, <3>4, <3>5, <3>6, <3>7, <3>8, EventTyped
         DEF Keeps
  <2> QED
    BY <1>7, <2>2, <2>3 DEF Signal
<1> QED
  BY <1>5, <1>6, <1>7

LEMMA MainTyped ==
    ASSUME Typed, Main
    PROVE  Typed' /\ Keeps
<1>1. /\ UNCHANGED <<rt_table, entry, next_car, freed, broadcast_id, g_broadcast_id, todo, job,
                     rte, reg, alive, stopping, received, requests, sent,
                     astray, clash, fault, events>>
      /\ main' \in {"join", "destroyed", "exited"}
  BY DEF Main, table, cars, local, history
<1>2. MemoryOK' /\ Len(entry') = Len(entry)
  BY <1>1 DEF Typed, MemoryOK, Pointer
<1>3. alive' \subseteq Thread /\ stopping' \in BOOLEAN
  BY <1>1 DEF Typed, LocalsOK
<1> QED
  BY <1>1, <1>2, <1>3, OutsideTyped

LEMMA StutterTyped ==
    ASSUME Typed, UNCHANGED vars
    PROVE  Typed' /\ Keeps
<1>1. UNCHANGED <<rt_table, entry, next_car, freed, broadcast_id, g_broadcast_id, todo, job,
                  rte, reg, alive, main, stopping, received, requests, sent,
                  astray, clash, fault, events>>
  BY DEF vars, table, cars, local, process, history
<1>2. MemoryOK' /\ Len(entry') = Len(entry)
  BY <1>1 DEF Typed, MemoryOK, Pointer
<1>3. /\ alive' \subseteq Thread /\ stopping' \in BOOLEAN
      /\ main' \in {"join", "destroyed", "exited"}
  BY <1>1 DEF Typed, LocalsOK
<1> QED
  BY <1>1, <1>2, <1>3, OutsideTyped

LEMMA ExpireTyped ==
    ASSUME Typed, NEW e \in DOMAIN entry, Expire(e)
    PROVE  Typed' /\ Keeps
<1>1. PICK value : value = [entry[e] EXCEPT !.fresh = FALSE]
  OBVIOUS
<1>2. /\ UNCHANGED <<rt_table, next_car, freed, broadcast_id, g_broadcast_id, todo, job, rte,
                     reg, alive, main, stopping, received, requests, sent,
                     astray, clash, fault>>
      /\ entry' = [entry EXCEPT ![e] = value]
      /\ events < MaxEvents /\ events' = events + 1
  BY <1>1 DEF Expire, Happens, cars, local, process, history
<1>3. value \in Cell /\ value.next \in Pointer
  BY <1>1, EntryCell DEF Cell
<1>4. /\ entry' \in Seq(Cell) /\ Len(entry') = Len(entry)
      /\ DOMAIN entry' = DOMAIN entry
      /\ \A f \in DOMAIN entry : entry'[f] = IF f = e THEN value ELSE entry[f]
  BY <1>2, <1>3, ExceptSeq DEF Typed, MemoryOK
<1>5. MemoryOK'
  BY <1>2, <1>3, <1>4 DEF Typed, MemoryOK, Pointer
<1>6. events' \in {x \in 0..MaxEvents : x = events + 1}
  BY <1>2, LimitAssumption DEF Typed, CountsOK
<1>7. /\ alive' \subseteq Thread /\ stopping' \in BOOLEAN
      /\ main' \in {"join", "destroyed", "exited"}
  BY <1>2 DEF Typed, LocalsOK
<1> QED
  BY <1>2, <1>4, <1>5, <1>6, <1>7, OutsideTyped

LEMMA TypedInit ==
    ASSUME Init
    PROVE  Typed
<1>1. NewEntry(Self) \in Cell /\ NewEntry(Self).next = Null
  BY DEF NewEntry, Cell, Null, Node
<1>2. PICK own : own = [NewEntry(Self) EXCEPT !.fresh = TRUE]
  OBVIOUS
<1>3. own \in Cell /\ own.next = Null /\ entry = <<own>>
  BY <1>1, <1>2 DEF Cell, Init
<1>4. /\ entry \in Seq(Cell) /\ Len(entry) = 1 /\ DOMAIN entry = {1}
      /\ entry[1] = own
  BY <1>3
<1>5. MemoryOK
  <2>1. Pointer = 0..1 /\ Null \in 0..1
    BY <1>4 DEF Pointer, Null
  <2>2. \A e \in DOMAIN entry : entry[e].next \in Pointer
    BY <1>3, <1>4, <2>1
  <2>3. rt_table \in Pointer /\ freed \subseteq Id
    BY <2>1 DEF Init
  <2>4. next_car = [c \in Id |-> Null] /\ broadcast_id = [c \in Id |-> 0]
    BY DEF Init
  <2> QED
    BY <1>4, <2>2, <2>3, <2>4 DEF MemoryOK
<1>6. ASSUME NEW t \in Thread
      PROVE  /\ todo[t] \in {<<>>, Op("read", Null)} /\ rte[t] = Null
             /\ \A k \in DOMAIN todo[t] : todo[t][k].op = "read"
             /\ PlanOK(t)
  <2>1. todo[t] \in {<<>>, Op("read", Null)} /\ rte[t] = Null /\ Null \in 0..1
    BY DEF Init, Null
  <2>2. /\ Plan(todo[t], rte[t], reg[t], Len(entry))
        /\ \A k \in DOMAIN todo[t] : todo[t][k].op = "read"
    BY <1>4, <2>1, WaitingPlan
  <2>3. ~Has(t, BackendSteps)
    BY <2>2 DEF Has, BackendSteps
  <2> QED
    BY <2>1, <2>2, <2>3 DEF PlanOK
<1>7. \A t \in Thread : ~Has(t, Carries) /\ ~Has(t, Asks)
  BY <1>6 DEF Has, Carries, Asks
<1>8. JobsOK
  <2>1. NoJob \in Job /\ NoJob.id = Null
    BY DEF NoJob, Job, Node
  <2> QED
    BY <1>7, <2>1 DEF Init, JobsOK
<1>9. CountsOK
  <2>1. Due("frontend") = 0 /\ Due("backend") = 0
    BY <1>7 DEF Due, Thread
  <2>2. requests = <<>> /\ requests \in Seq([destination : Node, id : Nat])
        /\ Len(requests) = 0
    BY DEF Init
  <2> QED
    BY <2>1, <2>2, LimitAssumption DEF Init, CountsOK, Thread
<1>10. LocalsOK
  BY DEF Init, LocalsOK, Null
<1> QED
  BY <1>5, <1>6, <1>8, <1>9, <1>10 DEF Typed

(* Every step of a thread but reading. *)
LEMMA ThreadTyped ==
    ASSUME Typed, NEW t \in Thread, Step(t)
    PROVE  Typed' /\ Keeps
BY LoopTyped, EndlessTyped, DeliverTyped, PurgeTyped, ZeroTimeTyped,
   QueryTyped, InsertTyped, PublishTyped, LinkTyped, UpdateTyped, SetHopTyped,
   SetTimeTyped, RouteTyped, PickIfTyped, TransmitTyped, ParkMsgTyped,
   NameEntryTyped, LoadLotTyped, FindCarTyped, CompareTyped, RemoveTyped,
   SeekTyped, UnlinkFirstTyped, UnlinkAfterTyped, FreeCarTyped, PushTyped,
   PushLinkTyped, CheckTyped, RequestTyped, MarkTyped, StoreTyped,
   FloodReqTyped, ReleaseTyped, UnparkTyped, DestroyTyped, ClearTyped,
   FoundTyped
   DEF Step

LEMMA TypedNext ==
    ASSUME Typed, [Next]_vars
    PROVE  Typed'
BY ThreadTyped, ResumeTyped, FailTyped, ReadMessageTyped, ReadFrameTyped, ExpireTyped,
   SignalTyped, MainTyped, StutterTyped
   DEF Next, Over

(* What Typed says is true of every reachable state. *)
THEOREM TypedHolds == Spec => []Typed
<1>1. Init => Typed
  BY TypedInit
<1>2. Typed /\ [Next]_vars => Typed'
  BY TypedNext
<1> QED
  BY <1>1, <1>2, PTL DEF Spec

LEMMA TypedTypeOK ==
    ASSUME Typed
    PROVE  TypeOK
<1>1. /\ rt_table \in Pointer /\ DOMAIN entry = 1..Len(entry)
      /\ freed \cup astray \subseteq Id
      /\ alive \subseteq Thread /\ main \in {"join", "destroyed", "exited"}
      /\ sent \in [Id -> Nat] /\ {stopping, clash} \subseteq BOOLEAN
      /\ fault \in {"none", "null", "freed", "endless", "signal"}
      /\ g_broadcast_id \in Nat
  BY DEF Typed, MemoryOK, LocalsOK, CountsOK
<1>2. ASSUME NEW e \in DOMAIN entry
      PROVE  /\ entry[e].destination \in Peer \cup {Self, Unnamed}
             /\ entry[e].next \in Pointer
             /\ {entry[e].next_hop, entry[e].outgoing_if} \subseteq Via \cup {Null}
             /\ {entry[e].fresh, entry[e].finding_route} \subseteq BOOLEAN
             /\ entry[e].parking_lot \in Id \cup {Null}
  <2>1. entry[e] \in Cell /\ entry[e].next \in Pointer
    BY EntryCell
  <2> QED
    BY <2>1 DEF Cell, Node
<1>3. next_car \in [Id -> Id \cup {Null}] /\ broadcast_id \in [Id -> Nat]
  BY DEF Typed, MemoryOK
<1>4. rte \in [Thread -> Pointer]
  <2>1. \A t \in Thread : rte[t] \in Pointer
    BY DEF Typed, PlanOK, Plan, Pointer
  <2> QED
    BY <2>1 DEF Typed, LocalsOK
<1>5. Len(requests) <= Cardinality(Id)
  <2>1. Cardinality(Id) = 2 * MaxEvents
    BY FS_Interval, LimitAssumption DEF Id
  <2>2. Due("frontend") \in 0..1 /\ Due("backend") \in 0..1
    BY DEF Due
  <2> QED
    BY <2>1, <2>2, LimitAssumption DEF Typed, CountsOK, Thread
<1> QED
  BY <1>1, <1>2, <1>3, <1>4, <1>5 DEF TypeOK

(* Pointers point to what was allocated, and there is at most one REQ per  *)
(* message or frame, however the threads interleave.                       *)
THEOREM TypeCorrect == Spec => []TypeOK
BY TypedHolds, TypedTypeOK, PTL
=============================================================================
