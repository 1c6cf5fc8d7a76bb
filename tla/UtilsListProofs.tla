--------------------------- MODULE UtilsListProofs ---------------------------
(***************************************************************************)
(* The doubly linked list, for any number of nodes and any values, while   *)
(* the scheduler lets an operation finish before another thread begins one *)
(* (Serialised).  ListInv follows an operation through its stores: which   *)
(* links already are those of the list without the node that leaves (Rest) *)
(* or with the one that comes (New), and which still are the old ones.     *)
(*                                                                         *)
(* The walks of list_find, list_at and list_destroy are recursive          *)
(* functions: what they reach is found by induction along the numbers up   *)
(* to the length (UpTo), which rests on the numbers being well founded.    *)
(***************************************************************************)
EXTENDS UtilsList, SequenceTheorems, WellFoundedInduction, TLAPS

Less == {p \in Nat \X Nat : p[1] < p[2]}

\* A set of numbers that is not empty has a least one.
LEMMA Least ==
    ASSUME NEW T \in SUBSET Nat, T # {}
    PROVE  \E x \in T : \A y \in T : x <= y
<1>1. OpToRel(<, Nat) = Less
  BY DEF OpToRel, Less
<1>2. IsWellFoundedOn(Less, Nat)
  BY <1>1, NatLessThanWellFounded
<1>3. PICK x \in T : \A y \in T : ~ (<<y, x>> \in Less)
  BY <1>2, WFMin
<1>4. ASSUME NEW y \in T PROVE x <= y
  <2>1. y < x => <<y, x>> \in Less
    BY DEF Less
  <2> QED
    BY <1>3, <2>1
<1> QED
  BY <1>4

\* Induction along the numbers up to n.
LEMMA UpTo ==
    ASSUME NEW n \in Nat, NEW T \in SUBSET Nat, 0 \in T, \A i \in T : i < n => i + 1 \in T
    PROVE  0 .. n \subseteq T
<1> DEFINE M == (0 .. n) \ T
<1> SUFFICES ASSUME M # {} PROVE FALSE
  OBVIOUS
<1>0. M \in SUBSET Nat
  OBVIOUS
<1> HIDE DEF M
<1>1. PICK x \in M : \A y \in M : x <= y
  BY <1>0, Least
<1> USE DEF M
<1>2. x \in 1 .. n /\ x - 1 \in 0 .. n /\ x - 1 \notin M
  BY <1>1
<1>3. x - 1 \in T /\ x - 1 < n /\ (x - 1) + 1 = x
  BY <1>2
<1> QED
  BY <1>1, <1>3

\* What a node may carry, NoNode included.
Carried == Values \cup {CHOOSE v \in Values : TRUE}

Node == [alive : BOOLEAN, prev : Nodes \cup {NULL}, next : Nodes \cup {NULL}, val : Carried]

First(s) == IF Len(s) = 0 THEN NULL ELSE s[1]
End(s) == IF Len(s) = 0 THEN NULL ELSE s[Len(s)]

\* The links of the list of the nodes s.
NextIs(s, k) == IF k = Len(s) THEN NULL ELSE s[k + 1]
PrevIs(s, k) == IF k = 1 THEN NULL ELSE s[k - 1]
NextLinked(h, s) == \A k \in 1 .. Len(s) : h[s[k]].next = NextIs(s, k)
PrevLinked(h, s) == \A k \in 1 .. Len(s) : h[s[k]].prev = PrevIs(s, k)

LEMMA NthNext ==
    ASSUME NEW s \in Seq(Nodes), NextLinked(heap, s), Len(s) > 0, head = s[1],
           NEW k \in 0 .. Len(s) - 1
    PROVE  Nth(head, "next", k) = s[k + 1]
<1> DEFINE Rec(w) == w = [i \in 0 .. k |-> IF i = 0 THEN head ELSE heap[w[i - 1]]["next"]]
<1> DEFINE g == [i \in 0 .. k |-> s[i + 1]]
<1> DEFINE f == CHOOSE w : Rec(w)
<1>1. Rec(g)
  <2>1. \A i \in 0 .. k : g[i] = IF i = 0 THEN head ELSE heap[g[i - 1]]["next"]
    <3> SUFFICES ASSUME NEW i \in 0 .. k PROVE g[i] = IF i = 0 THEN head ELSE heap[g[i - 1]]["next"]
      OBVIOUS
    <3>1. CASE i = 0
      BY <3>1
    <3>2. CASE i # 0
      <4>1. i \in 1 .. Len(s) /\ i # Len(s) /\ i - 1 \in 0 .. k /\ (i - 1) + 1 = i
        BY <3>2
      <4>2. g[i - 1] = s[i] /\ g[i] = s[i + 1]
        BY <4>1
      <4>3. heap[s[i]].next = s[i + 1]
        BY <4>1 DEF NextLinked, NextIs
      <4> QED
        BY <3>2, <4>2, <4>3
    <3> QED
      BY <3>1, <3>2
  <2> QED
    BY <2>1
<1> HIDE DEF g
<1>2. Rec(f)
  BY <1>1
<1>3. Nth(head, "next", k) = f[k]
  BY DEF Nth
<1>4. \A i \in 0 .. k : f[i] = IF i = 0 THEN head ELSE heap[f[i - 1]]["next"]
  BY <1>2
<1> HIDE DEF f
<1> DEFINE T == {i \in 0 .. k : f[i] = s[i + 1]}
<1>5. k \in T
  <2>1. 0 \in T
    BY <1>4
  <2>2. ASSUME NEW i \in T, i < k PROVE i + 1 \in T
    <3>1. i + 1 \in 0 .. k /\ i + 1 # 0 /\ (i + 1) - 1 = i /\ i + 1 \in 1 .. Len(s) /\ i + 1 # Len(s)
      BY <2>2
    <3>2. f[i + 1] = heap[f[i]]["next"]
      BY <1>4, <3>1
    <3>3. heap[s[i + 1]].next = s[(i + 1) + 1]
      BY <3>1 DEF NextLinked, NextIs
    <3> QED
      BY <3>1, <3>2, <3>3
  <2>3. T \in SUBSET Nat /\ k \in Nat /\ k \in 0 .. k
    OBVIOUS
  <2> HIDE DEF T
  <2>4. 0 .. k \subseteq T
    BY <2>1, <2>2, <2>3, UpTo
  <2> QED
    BY <2>3, <2>4
<1> QED
  BY <1>3, <1>5

-----------------------------------------------------------------------------
(* Sequences of nodes, and the fields of a node.                           *)

In(s) == {s[k] : k \in 1 .. Len(s)}
Distinct(s) == \A k, l \in 1 .. Len(s) : s[k] = s[l] => k = l

\* Sequences with an element more or less.
LEMMA PushFacts ==
    ASSUME NEW S, NEW s \in Seq(S), NEW n \in S, NEW t, t = <<n>> \o s
    PROVE  /\ t \in Seq(S) /\ Len(s) \in Nat /\ Len(t) = Len(s) + 1 /\ t[1] = n
           /\ \A k \in 2 .. Len(t) : t[k] = s[k - 1]
OBVIOUS

LEMMA AppendFacts ==
    ASSUME NEW S, NEW s \in Seq(S), NEW n \in S, NEW t, t = Append(s, n)
    PROVE  /\ t \in Seq(S) /\ Len(s) \in Nat /\ Len(t) = Len(s) + 1 /\ t[Len(t)] = n
           /\ \A k \in 1 .. Len(s) : t[k] = s[k]
OBVIOUS

LEMMA TailFacts ==
    ASSUME NEW S, NEW s \in Seq(S), Len(s) > 0, NEW t, t = Tail(s)
    PROVE  /\ t \in Seq(S) /\ Len(s) \in Nat /\ Len(t) = Len(s) - 1
           /\ \A k \in 1 .. Len(t) : t[k] = s[k + 1]
OBVIOUS

LEMMA FrontFacts ==
    ASSUME NEW S, NEW s \in Seq(S), Len(s) > 0, NEW t, t = Front(s)
    PROVE  /\ t \in Seq(S) /\ Len(s) \in Nat /\ Len(t) = Len(s) - 1
           /\ \A k \in 1 .. Len(t) : t[k] = s[k]
<1>1. t = SubSeq(s, 1, Len(s) - 1) /\ Len(s) \in Nat /\ Len(s) - 1 \in Nat
  BY DEF Front
<1>2. PICK n \in Nat : n = Len(s) - 1
  BY <1>1
<1>3. t = SubSeq(s, 1, n)
  BY <1>1, <1>2
<1>4. t \in Seq(S)
  BY <1>2, <1>3
<1>5. Len(t) = n /\ \A k \in 1 .. n : t[k] = s[k]
  BY <1>2, <1>3
<1> QED
  BY <1>1, <1>2, <1>4, <1>5

LEMMA RemoveFacts ==
    ASSUME NEW S, NEW s \in Seq(S), NEW i \in 1 .. Len(s), NEW t, t = RemoveAt(s, i)
    PROVE  /\ t \in Seq(S) /\ Len(s) \in Nat /\ Len(t) = Len(s) - 1
           /\ \A k \in 1 .. Len(t) : t[k] = (IF k < i THEN s[k] ELSE s[k + 1])
<1> DEFINE a == SubSeq(s, 1, i - 1)
           b == SubSeq(s, i + 1, Len(s))
<1>1. t = a \o b
  BY DEF RemoveAt
<1>2. a \in Seq(S) /\ Len(a) = i - 1 /\ \A k \in 1 .. i - 1 : a[k] = s[k]
  OBVIOUS
<1>3. b \in Seq(S) /\ Len(b) = Len(s) - i /\ \A k \in 1 .. Len(s) - i : b[k] = s[i + k]
  OBVIOUS
<1> HIDE DEF a, b
<1>4. t \in Seq(S) /\ Len(t) = Len(s) - 1
  <2>1. t \in Seq(S) /\ Len(t) = Len(a) + Len(b)
    BY <1>1, <1>2, <1>3, ConcatProperties
  <2> QED
    BY <1>2, <1>3, <2>1
<1>5. ASSUME NEW k \in 1 .. Len(t) PROVE t[k] = (IF k < i THEN s[k] ELSE s[k + 1])
  <2>1. CASE k < i
    BY <1>1, <1>2, <1>3, <1>4, <2>1
  <2>2. CASE ~ (k < i)
    <3>1. t[k] = b[k - (i - 1)]
      BY <1>1, <1>2, <1>3, <1>4, <2>2
    <3>2. k - (i - 1) \in 1 .. Len(s) - i
      BY <1>4, <2>2
    <3>3. i + (k - (i - 1)) = k + 1
      BY <1>4
    <3> QED
      BY <1>3, <2>2, <3>1, <3>2, <3>3
  <2> QED
    BY <2>1, <2>2
<1> QED
  BY <1>4, <1>5

\* A node is at one place.
LEMMA IndexFacts ==
    ASSUME order \in Seq(Nodes), Distinct(order)
    PROVE  /\ \A k \in 1 .. Len(order) : IndexOf(order[k]) = k
           /\ \A n : n \in In(order) => IndexOf(n) \in 1 .. Len(order) /\ order[IndexOf(n)] = n
           /\ \A n : n \notin In(order) => IndexOf(n) = 0
           /\ \A n : n \in In(order) => n # NULL
<1>1. ASSUME NEW k \in 1 .. Len(order) PROVE IndexOf(order[k]) = k
  BY <1>1 DEF IndexOf, Distinct
<1>2. ASSUME NEW n, n \notin In(order) PROVE IndexOf(n) = 0
  BY <1>2 DEF IndexOf, In
<1>3. ASSUME NEW n, n \in In(order)
      PROVE  IndexOf(n) \in 1 .. Len(order) /\ order[IndexOf(n)] = n /\ n # NULL
  <2>1. PICK k \in 1 .. Len(order) : order[k] = n
    BY <1>3 DEF In
  <2>2. n \in Nodes
    BY <2>1
  <2>3. n # NULL
    BY <2>2, ListAssumption DEF Nodes, NULL
  <2> QED
    BY <1>1, <2>1, <2>3
<1> QED
  BY <1>1, <1>2, <1>3

\* The fields of a node are set one at a time.
LEMMA SetNext ==
    ASSUME NEW h \in [Nodes -> Node], NEW n \in Nodes, NEW x \in Nodes \cup {NULL},
           NEW g, g = [h EXCEPT ![n].next = x]
    PROVE  /\ g \in [Nodes -> Node]
           /\ g[n].next = x /\ \A m \in Nodes : m # n => g[m].next = h[m].next
           /\ \A m \in Nodes : g[m].prev = h[m].prev /\ g[m].alive = h[m].alive /\ g[m].val = h[m].val
<1> DEFINE q == [h[n] EXCEPT !.next = x]
<1>1. h[n] \in Node /\ g = [h EXCEPT ![n] = q]
  OBVIOUS
<1>2. q.next = x /\ q.prev = h[n].prev /\ q.alive = h[n].alive /\ q.val = h[n].val
  BY <1>1 DEF Node, Carried
<1>3. q \in Node
  BY <1>1 DEF Node, Carried
<1> HIDE DEF q
<1>4. g \in [Nodes -> Node] /\ g[n] = q /\ \A m \in Nodes : m # n => g[m] = h[m]
  BY <1>1, <1>3
<1> QED
  BY <1>2, <1>4

LEMMA SetPrev ==
    ASSUME NEW h \in [Nodes -> Node], NEW n \in Nodes, NEW x \in Nodes \cup {NULL},
           NEW g, g = [h EXCEPT ![n].prev = x]
    PROVE  /\ g \in [Nodes -> Node]
           /\ g[n].prev = x /\ \A m \in Nodes : m # n => g[m].prev = h[m].prev
           /\ \A m \in Nodes : g[m].next = h[m].next /\ g[m].alive = h[m].alive /\ g[m].val = h[m].val
<1> DEFINE q == [h[n] EXCEPT !.prev = x]
<1>1. h[n] \in Node /\ g = [h EXCEPT ![n] = q]
  OBVIOUS
<1>2. q.prev = x /\ q.next = h[n].next /\ q.alive = h[n].alive /\ q.val = h[n].val
  BY <1>1 DEF Node, Carried
<1>3. q \in Node
  BY <1>1 DEF Node, Carried
<1> HIDE DEF q
<1>4. g \in [Nodes -> Node] /\ g[n] = q /\ \A m \in Nodes : m # n => g[m] = h[m]
  BY <1>1, <1>3
<1> QED
  BY <1>2, <1>4

-----------------------------------------------------------------------------
(* The invariant.                                                          *)

ListTypes ==
    /\ heap \in [Nodes -> Node]
    /\ {head, tail, next, cur, pnode} \subseteq Nodes \cup {NULL}
    /\ len \in Nat /\ plen \in Nat /\ mlen \in Nat
    /\ direction \in {"none", "head", "tail"}
    /\ ppc \in {"idle", "link", "link_head", "set_head", "set_both", "count"}
    /\ mpc \in {"idle", "unlink_next", "free", "count"}
    /\ order \in Seq(Nodes) /\ Distinct(order)

Allocated(S) == \A n \in Nodes : heap[n].alive <=> n \in S

\* The list is that of the nodes s.
ListIs(s) == head = First(s) /\ tail = End(s) /\ NextLinked(heap, s) /\ PrevLinked(heap, s)

\* What the walk has in hand and what it is given next are in the list, and not the same.
WalkInv ==
    /\ cur # NULL => cur \in In(order)
    /\ next # NULL => next \in In(order) /\ next # cur /\ direction # "none"

IdleInv == Idle => len = Len(order) /\ ListIs(order) /\ Allocated(In(order))

\* list_lpush: the links of the new node, those to it, the ends, the count.
New == <<pnode>> \o order

PushInv == ppc # "idle" =>
    /\ mpc = "idle" /\ len = Len(order)
    /\ pnode \in Nodes /\ pnode \notin In(order) /\ heap[pnode].val \in Values
    /\ Allocated(In(order) \cup {pnode})
    /\ ppc \in {"link", "link_head"} => ListIs(order)
    /\ ppc = "link_head" => heap[pnode].prev = NULL
    /\ ppc \notin {"link", "link_head"} => PrevLinked(heap, New)
    /\ ppc # "link" => NextLinked(heap, New)
    /\ ppc \in {"link_head", "set_head"} => len # 0 /\ head = First(order) /\ tail = End(order)
    /\ ppc = "set_both" => len = 0
    /\ ppc = "count" => plen = len /\ head = First(New) /\ tail = End(New)

\* list_remove: the links along next and the head, those along prev and the tail, the count.
Rest == RemoveAt(order, IndexOf(cur))

RemoveInv == mpc # "idle" =>
    /\ ppc = "idle" /\ len = Len(order) /\ cur \in In(order)
    /\ NextLinked(heap, Rest) /\ head = First(Rest)
    /\ IF mpc = "unlink_next"
       THEN /\ PrevLinked(heap, order) /\ tail = End(order)
            /\ heap[cur].next = NextIs(order, IndexOf(cur))
       ELSE PrevLinked(heap, Rest) /\ tail = End(Rest)
    /\ Allocated(IF mpc = "count" THEN In(order) \ {cur} ELSE In(order))
    /\ mpc = "count" => mlen = len

ListInv == ListTypes /\ WalkInv /\ IdleInv /\ PushInv /\ RemoveInv /\ ~crashed

LEMMA NewFacts ==
    ASSUME ListTypes, pnode \in Nodes, pnode \notin In(order)
    PROVE  /\ New \in Seq(Nodes) /\ Len(order) \in Nat /\ Len(New) = Len(order) + 1 /\ New[1] = pnode
           /\ \A k \in 2 .. Len(New) : New[k] = order[k - 1]
           /\ \A k \in 1 .. Len(order) : order[k] # pnode /\ order[k] \in Nodes
           /\ Distinct(New) /\ In(New) = In(order) \cup {pnode}
<1>1. /\ New \in Seq(Nodes) /\ Len(order) \in Nat /\ Len(New) = Len(order) + 1 /\ New[1] = pnode
      /\ \A k \in 2 .. Len(New) : New[k] = order[k - 1]
  BY PushFacts DEF ListTypes, New
<1>2. \A k \in 1 .. Len(order) : order[k] # pnode /\ order[k] \in Nodes
  BY DEF In, ListTypes
<1>3. Distinct(New)
  <2> SUFFICES ASSUME NEW k \in 1 .. Len(New), NEW l \in 1 .. Len(New), New[k] = New[l] PROVE k = l
    BY DEF Distinct
  <2>1. CASE k = 1 \/ l = 1
    BY <1>1, <1>2, <2>1
  <2>2. CASE k # 1 /\ l # 1
    <3>1. k \in 2 .. Len(New) /\ l \in 2 .. Len(New) /\ k - 1 \in 1 .. Len(order) /\ l - 1 \in 1 .. Len(order)
      BY <1>1, <2>2
    <3>2. order[k - 1] = order[l - 1]
      BY <1>1, <3>1
    <3>3. k - 1 = l - 1
      BY <3>1, <3>2 DEF ListTypes, Distinct
    <3> QED
      BY <3>1, <3>3
  <2> QED
    BY <2>1, <2>2
<1>4. In(New) = In(order) \cup {pnode}
  <2>1. ASSUME NEW k \in 1 .. Len(New) PROVE New[k] \in In(order) \cup {pnode}
    <3>1. CASE k = 1
      BY <1>1, <3>1
    <3>2. CASE k # 1
      <4>1. k \in 2 .. Len(New) /\ k - 1 \in 1 .. Len(order)
        BY <1>1, <3>2
      <4> QED
        BY <1>1, <4>1 DEF In
    <3> QED
      BY <3>1, <3>2
  <2>2. pnode \in In(New)
    BY <1>1 DEF In
  <2>3. ASSUME NEW k \in 1 .. Len(order) PROVE order[k] \in In(New)
    <3>1. k + 1 \in 2 .. Len(New) /\ (k + 1) - 1 = k /\ k + 1 \in 1 .. Len(New)
      BY <1>1
    <3>2. New[k + 1] = order[k]
      BY <1>1, <3>1
    <3> QED
      BY <3>1, <3>2 DEF In
  <2> QED
    BY <2>1, <2>2, <2>3 DEF In
<1> QED
  BY <1>1, <1>2, <1>3, <1>4

LEMMA RestFacts ==
    ASSUME ListTypes, cur \in In(order), NEW i, i = IndexOf(cur)
    PROVE  /\ Len(order) \in Nat /\ i \in 1 .. Len(order) /\ order[i] = cur
           /\ Rest \in Seq(Nodes) /\ Len(Rest) = Len(order) - 1
           /\ \A k \in 1 .. Len(Rest) : Rest[k] = (IF k < i THEN order[k] ELSE order[k + 1])
           /\ \A k \in 1 .. Len(order) : order[k] \in Nodes /\ (k # i => order[k] # cur)
           /\ Distinct(Rest) /\ In(Rest) = In(order) \ {cur}
<1>1. order \in Seq(Nodes) /\ i \in 1 .. Len(order) /\ order[i] = cur
  BY IndexFacts DEF ListTypes
<1>2. /\ Rest \in Seq(Nodes) /\ Len(order) \in Nat /\ Len(Rest) = Len(order) - 1
      /\ \A k \in 1 .. Len(Rest) : Rest[k] = (IF k < i THEN order[k] ELSE order[k + 1])
  BY <1>1, RemoveFacts DEF Rest
<1>3. \A k \in 1 .. Len(order) : order[k] \in Nodes /\ (k # i => order[k] # cur)
  BY <1>1 DEF ListTypes, Distinct
<1> DEFINE old(k) == IF k < i THEN k ELSE k + 1
<1>4. \A k \in 1 .. Len(Rest) : Rest[k] = order[old(k)] /\ old(k) \in 1 .. Len(order) /\ old(k) # i
  BY <1>1, <1>2
<1>5. Distinct(Rest)
  <2> SUFFICES ASSUME NEW k \in 1 .. Len(Rest), NEW l \in 1 .. Len(Rest), Rest[k] = Rest[l] PROVE k = l
    BY DEF Distinct
  <2>1. old(k) = old(l)
    <3> HIDE DEF old
    <3> QED
      BY <1>4 DEF ListTypes, Distinct
  <2> QED
    BY <1>1, <1>2, <2>1
<1>6. In(Rest) = In(order) \ {cur}
  <2>1. ASSUME NEW k \in 1 .. Len(Rest) PROVE Rest[k] \in In(order) \ {cur}
    <3> HIDE DEF old
    <3> QED
      BY <1>3, <1>4 DEF In
  <2>2. ASSUME NEW k \in 1 .. Len(order), order[k] # cur PROVE order[k] \in In(Rest)
    <3>1. CASE k < i
      <4>1. k \in 1 .. Len(Rest) /\ Rest[k] = order[k]
        BY <1>1, <1>2, <3>1
      <4> QED
        BY <4>1 DEF In
    <3>2. CASE ~ (k < i)
      <4>1. k - 1 \in 1 .. Len(Rest) /\ ~ (k - 1 < i) /\ (k - 1) + 1 = k
        BY <1>1, <1>2, <2>2, <3>2
      <4>2. Rest[k - 1] = order[k]
        BY <1>2, <4>1
      <4> QED
        BY <4>1, <4>2 DEF In
    <3> QED
      BY <3>1, <3>2
  <2> QED
    BY <2>1, <2>2 DEF In
<1> QED
  BY <1>1, <1>2, <1>3, <1>5, <1>6

-----------------------------------------------------------------------------
(* list_lpush.                                                             *)

\* What is linked stays linked while the links of its nodes do not change.
LEMMA SameLinks ==
    ASSUME NEW s \in Seq(Nodes), NEW h, NEW g
    PROVE  /\ NextLinked(h, s) /\ (\A n \in In(s) : g[n].next = h[n].next) => NextLinked(g, s)
           /\ PrevLinked(h, s) /\ (\A n \in In(s) : g[n].prev = h[n].prev) => PrevLinked(g, s)
<1>1. \A k \in 1 .. Len(s) : s[k] \in In(s)
  BY DEF In
<1> QED
  BY <1>1 DEF NextLinked, PrevLinked

LEMMA NewNode ==
    ASSUME Serialised, ListInv, NEW v \in Values, list_node_new(v)
    PROVE  ListInv'
<1> DEFINE n == pnode'
           r == [alive |-> TRUE, prev |-> NULL, next |-> NULL, val |-> v]
<1>1. /\ ppc = "idle" /\ mpc = "idle" /\ ppc' = "link" /\ ~crashed
      /\ n \in Nodes /\ ~heap[n].alive /\ heap' = [heap EXCEPT ![n] = r]
      /\ UNCHANGED <<head, tail, len, next, direction, cur, ret, plen, mpc, mlen, order, crashed>>
  BY DEF list_node_new, ParserGoto, Free, ListInv, walkVars
<1>2. ListTypes /\ WalkInv /\ len = Len(order) /\ ListIs(order) /\ Allocated(In(order))
  BY <1>1 DEF ListInv, IdleInv, Idle
<1>3. r \in Node
  BY DEF Node, Carried
<1>4. n \notin In(order)
  BY <1>1, <1>2 DEF Allocated
<1>5. heap' \in [Nodes -> Node] /\ heap'[n] = r /\ \A m \in Nodes : m # n => heap'[m] = heap[m]
  BY <1>1, <1>2, <1>3 DEF ListTypes
<1>6. ListTypes'
  BY <1>1, <1>2, <1>5 DEF ListTypes, Distinct
<1>7. WalkInv'
  BY <1>1, <1>2 DEF WalkInv
<1>8. \A m \in In(order) : m \in Nodes /\ m # n
  BY <1>2, <1>4 DEF In, ListTypes
<1>9. NextLinked(heap', order) /\ PrevLinked(heap', order)
  BY <1>2, <1>5, <1>8, SameLinks DEF ListIs, ListTypes
<1>10. ListIs(order)'
  BY <1>1, <1>2, <1>9 DEF ListIs
<1>11. Allocated(In(order) \cup {pnode})'
  BY <1>1, <1>2, <1>5 DEF Allocated
<1>12. PushInv'
  BY <1>1, <1>2, <1>4, <1>5, <1>10, <1>11 DEF PushInv
<1>13. IdleInv' /\ RemoveInv'
  BY <1>1 DEF IdleInv, Idle, RemoveInv
<1> QED
  BY <1>1, <1>6, <1>7, <1>12, <1>13 DEF ListInv

LEMMA LinkNodeStep ==
    ASSUME Serialised, ListInv, LinkNode
    PROVE  ListInv'
<1> DEFINE x == IF len # 0 THEN head ELSE NULL
           g == [heap EXCEPT ![pnode].prev = NULL]
<1>1. /\ ppc = "link" /\ mpc = "idle" /\ ppc' = (IF len # 0 THEN "link_head" ELSE "set_both") /\ ~crashed
      /\ heap' = [g EXCEPT ![pnode].next = x]
      /\ UNCHANGED <<head, tail, len, next, direction, cur, ret, pnode, plen, mpc, mlen, order, crashed>>
  BY DEF LinkNode, ParserGoto, ListInv, walkVars
<1>2. /\ ListTypes /\ WalkInv /\ len = Len(order) /\ ListIs(order) /\ Allocated(In(order) \cup {pnode})
      /\ pnode \in Nodes /\ pnode \notin In(order) /\ heap[pnode].val \in Values
  BY <1>1 DEF ListInv, PushInv
<1>3. NULL \in Nodes \cup {NULL} /\ x \in Nodes \cup {NULL} /\ heap \in [Nodes -> Node]
  BY <1>2 DEF ListTypes
<1>4. /\ g \in [Nodes -> Node]
      /\ g[pnode].prev = NULL /\ \A m \in Nodes : m # pnode => g[m].prev = heap[m].prev
      /\ \A m \in Nodes : g[m].next = heap[m].next /\ g[m].alive = heap[m].alive /\ g[m].val = heap[m].val
  <2>1. g = [heap EXCEPT ![pnode].prev = NULL] /\ pnode \in Nodes
    BY <1>2
  <2>2. PICK y \in Nodes \cup {NULL} : y = NULL
    OBVIOUS
  <2>3. g = [heap EXCEPT ![pnode].prev = y] /\ heap \in [Nodes -> Node] /\ pnode \in Nodes
    BY <1>3, <2>1, <2>2
  <2> HIDE DEF g, x
  <2>4. /\ g \in [Nodes -> Node]
        /\ g[pnode].prev = y /\ \A m \in Nodes : m # pnode => g[m].prev = heap[m].prev
        /\ \A m \in Nodes : g[m].next = heap[m].next /\ g[m].alive = heap[m].alive /\ g[m].val = heap[m].val
    BY <2>3, SetPrev
  <2> QED
    BY <2>2, <2>4
<1> HIDE DEF g, x
<1>5. /\ heap' \in [Nodes -> Node]
      /\ heap'[pnode].next = x /\ \A m \in Nodes : m # pnode => heap'[m].next = g[m].next
      /\ \A m \in Nodes : heap'[m].prev = g[m].prev /\ heap'[m].alive = g[m].alive /\ heap'[m].val = g[m].val
  <2>1. heap' = [g EXCEPT ![pnode].next = x] /\ pnode \in Nodes /\ g \in [Nodes -> Node]
    BY <1>1, <1>2, <1>4
  <2> QED
    BY <2>1, <1>3, SetNext
<1>6. ListTypes'
  BY <1>1, <1>2, <1>5 DEF ListTypes, Distinct
<1>7. WalkInv'
  BY <1>1, <1>2 DEF WalkInv
<1>8. \A m \in In(order) : m \in Nodes /\ m # pnode
  BY <1>2 DEF In, ListTypes
<1>9. NextLinked(heap', order) /\ PrevLinked(heap', order)
  BY <1>2, <1>4, <1>5, <1>8, SameLinks DEF ListIs, ListTypes
<1>10. ListIs(order)'
  BY <1>1, <1>2, <1>9 DEF ListIs
<1>11. Allocated(In(order) \cup {pnode})'
  BY <1>1, <1>2, <1>4, <1>5 DEF Allocated
<1>12. x = First(order)
  BY <1>2 DEF x, ListIs, First
<1>13. NextLinked(heap', New) /\ (len = 0 => PrevLinked(heap', New))
  <2>1. /\ New \in Seq(Nodes) /\ Len(order) \in Nat /\ Len(New) = Len(order) + 1 /\ New[1] = pnode
        /\ \A k \in 2 .. Len(New) : New[k] = order[k - 1]
    BY <1>2, NewFacts
  <2>2. heap'[pnode].next = (IF Len(New) = 1 THEN NULL ELSE New[2]) /\ heap'[pnode].prev = NULL
    BY <1>2, <1>4, <1>5, <1>12, <2>1 DEF First
  <2>3. ASSUME NEW k \in 1 .. Len(New) PROVE heap'[New[k]].next = NextIs(New, k)
    <3>1. CASE k = 1
      BY <2>1, <2>2, <3>1 DEF NextIs
    <3>2. CASE k # 1
      <4>1. k \in 2 .. Len(New) /\ k - 1 \in 1 .. Len(order) /\ (k - 1) + 1 = k
        BY <2>1, <3>2
      <4>2. heap'[order[k - 1]].next = NextIs(order, k - 1)
        BY <1>9, <4>1 DEF NextLinked
      <4>3. k # Len(New) => k + 1 \in 2 .. Len(New) /\ New[k + 1] = order[k]
        BY <2>1, <4>1
      <4>4. k = Len(New) <=> k - 1 = Len(order)
        BY <2>1, <4>1
      <4> QED
        BY <2>1, <4>1, <4>2, <4>3, <4>4 DEF NextIs
    <3> QED
      BY <3>1, <3>2
  <2>4. ASSUME len = 0 PROVE PrevLinked(heap', New)
    <3>1. Len(New) = 1
      BY <1>2, <2>1, <2>4
    <3>2. \A k \in 1 .. Len(New) : k = 1
      BY <3>1
    <3> QED
      BY <2>1, <2>2, <3>2 DEF PrevLinked, PrevIs
  <2> QED
    BY <2>3, <2>4 DEF NextLinked
<1>14. NextLinked(heap, New)' /\ (len = 0 => PrevLinked(heap, New)')
  BY <1>1, <1>13 DEF New, NextLinked, PrevLinked, NextIs, PrevIs
<1>15. heap'[pnode].prev = NULL /\ heap'[pnode].val \in Values
  BY <1>2, <1>4, <1>5
<1>16. PushInv'
  BY <1>1, <1>2, <1>10, <1>11, <1>14, <1>15 DEF PushInv, ListIs
<1>17. IdleInv' /\ RemoveInv'
  BY <1>1 DEF IdleInv, Idle, RemoveInv
<1> QED
  BY <1>1, <1>6, <1>7, <1>16, <1>17 DEF ListInv

LEMMA LinkHeadStep ==
    ASSUME Serialised, ListInv, LinkHead
    PROVE  ListInv'
<1>1. /\ ppc = "link_head" /\ mpc = "idle" /\ ppc' = "set_head" /\ ~crashed
      /\ UNCHANGED <<head, tail, len, next, direction, cur, ret, pnode, plen, mpc, mlen, order>>
  BY DEF LinkHead, ParserGoto, ListInv, walkVars
<1>2. /\ ListTypes /\ WalkInv /\ len = Len(order) /\ ListIs(order) /\ Allocated(In(order) \cup {pnode})
      /\ pnode \in Nodes /\ pnode \notin In(order) /\ heap[pnode].val \in Values
      /\ heap[pnode].prev = NULL /\ NextLinked(heap, New) /\ len # 0
  BY <1>1 DEF ListInv, PushInv
<1>3. /\ New \in Seq(Nodes) /\ Len(order) \in Nat /\ Len(New) = Len(order) + 1 /\ New[1] = pnode
      /\ \A k \in 2 .. Len(New) : New[k] = order[k - 1]
      /\ \A k \in 1 .. Len(order) : order[k] # pnode /\ order[k] \in Nodes
  BY <1>2, NewFacts
<1>4. 1 \in 1 .. Len(order) /\ head = order[1] /\ head \in Nodes /\ head # pnode /\ head # NULL
  BY <1>2, <1>3, ListAssumption DEF ListIs, First, Nodes, NULL
<1>5. heap[head].alive
  BY <1>2, <1>4 DEF Allocated, In
<1>6. heap' = [heap EXCEPT ![head].prev = pnode] /\ ~crashed'
  BY <1>1, <1>4, <1>5 DEF LinkHead, Usable
<1>7. heap \in [Nodes -> Node] /\ pnode \in Nodes \cup {NULL}
  BY <1>2 DEF ListTypes
<1>8. /\ heap' \in [Nodes -> Node]
      /\ heap'[head].prev = pnode /\ \A m \in Nodes : m # head => heap'[m].prev = heap[m].prev
      /\ \A m \in Nodes : heap'[m].next = heap[m].next /\ heap'[m].alive = heap[m].alive /\ heap'[m].val = heap[m].val
  <2>1. head \in Nodes /\ heap' = [heap EXCEPT ![head].prev = pnode]
    BY <1>4, <1>6
  <2> QED
    BY <1>7, <2>1, SetPrev
<1>9. ListTypes'
  BY <1>1, <1>2, <1>8 DEF ListTypes, Distinct
<1>10. WalkInv'
  BY <1>1, <1>2 DEF WalkInv
<1>11. Allocated(In(order) \cup {pnode})'
  BY <1>1, <1>2, <1>8 DEF Allocated
<1>12. \A m \in In(New) : m \in Nodes
  BY <1>3 DEF In
<1>13. NextLinked(heap', New)
  BY <1>2, <1>3, <1>8, <1>12, SameLinks
<1>14. PrevLinked(heap', New)
  <2> SUFFICES ASSUME NEW k \in 1 .. Len(New) PROVE heap'[New[k]].prev = PrevIs(New, k)
    BY DEF PrevLinked
  <2>1. CASE k = 1
    BY <1>2, <1>3, <1>4, <1>8, <2>1 DEF PrevIs
  <2>2. CASE k = 2
    <3>1. New[k] = head /\ New[k - 1] = pnode
      BY <1>3, <1>4, <2>2
    <3> QED
      BY <1>8, <2>2, <3>1 DEF PrevIs
  <2>3. CASE k > 2
    <3>1. /\ k \in 2 .. Len(New) /\ k - 1 \in 2 .. Len(New) /\ k - 1 \in 1 .. Len(order) /\ k - 1 # 1
      BY <1>3, <2>3
    <3>2. New[k] = order[k - 1] /\ New[k - 1] = order[(k - 1) - 1]
      BY <1>3, <3>1
    <3>3. order[k - 1] # head
      BY <1>2, <1>4, <3>1 DEF ListTypes, Distinct
    <3>4. heap'[order[k - 1]].prev = heap[order[k - 1]].prev
      BY <1>3, <1>8, <3>1, <3>3
    <3>5. heap[order[k - 1]].prev = order[(k - 1) - 1]
      BY <1>2, <3>1 DEF ListIs, PrevLinked, PrevIs
    <3> QED
      BY <2>3, <3>2, <3>4, <3>5 DEF PrevIs
  <2> QED
    BY <1>3, <2>1, <2>2, <2>3
<1>15. NextLinked(heap, New)' /\ PrevLinked(heap, New)'
  BY <1>1, <1>13, <1>14 DEF New, NextLinked, PrevLinked, NextIs, PrevIs
<1>16. heap'[pnode].val \in Values
  BY <1>2, <1>8
<1>17. PushInv'
  BY <1>1, <1>2, <1>11, <1>15, <1>16 DEF PushInv, ListIs, First, End
<1>18. IdleInv' /\ RemoveInv'
  BY <1>1 DEF IdleInv, Idle, RemoveInv
<1> QED
  BY <1>6, <1>9, <1>10, <1>17, <1>18 DEF ListInv

LEMMA SetHeadStep ==
    ASSUME Serialised, ListInv, SetHead
    PROVE  ListInv'
<1>1. /\ ppc \in {"set_head", "set_both"} /\ mpc = "idle" /\ ppc' = "count" /\ ~crashed
      /\ head' = pnode /\ plen' = len /\ tail' = (IF ppc = "set_both" THEN pnode ELSE tail)
      /\ UNCHANGED <<heap, len, next, direction, cur, ret, pnode, mpc, mlen, order, crashed>>
  BY DEF SetHead, ParserGoto, ListInv, walkVars
<1>2. /\ ListTypes /\ WalkInv /\ len = Len(order) /\ Allocated(In(order) \cup {pnode})
      /\ pnode \in Nodes /\ pnode \notin In(order) /\ heap[pnode].val \in Values
      /\ NextLinked(heap, New) /\ PrevLinked(heap, New)
      /\ ppc = "set_head" => len # 0 /\ tail = End(order)
      /\ ppc = "set_both" => len = 0
  BY <1>1 DEF ListInv, PushInv
<1>3. /\ New \in Seq(Nodes) /\ Len(order) \in Nat /\ Len(New) = Len(order) + 1 /\ New[1] = pnode
      /\ \A k \in 2 .. Len(New) : New[k] = order[k - 1]
  BY <1>2, NewFacts
<1>4. ListTypes'
  BY <1>1, <1>2 DEF ListTypes, Distinct
<1>5. WalkInv'
  BY <1>1, <1>2 DEF WalkInv
<1>6. Allocated(In(order) \cup {pnode})'
  BY <1>1, <1>2 DEF Allocated
<1>7. head' = First(New)
  BY <1>1, <1>3 DEF First
<1>8. tail' = End(New)
  <2>1. CASE ppc = "set_both"
    BY <1>1, <1>2, <1>3, <2>1 DEF End
  <2>2. CASE ppc = "set_head"
    <3>1. Len(New) \in 2 .. Len(New) /\ Len(New) - 1 = Len(order) /\ Len(order) # 0
      BY <1>2, <1>3, <2>2
    <3> QED
      BY <1>1, <1>2, <1>3, <2>2, <3>1 DEF End
  <2> QED
    BY <1>1, <2>1, <2>2
<1>9. New' = New
  BY <1>1 DEF New
<1>10. PushInv'
  BY <1>1, <1>2, <1>6, <1>7, <1>8, <1>9 DEF PushInv
<1>11. IdleInv' /\ RemoveInv'
  BY <1>1 DEF IdleInv, Idle, RemoveInv
<1> QED
  BY <1>1, <1>4, <1>5, <1>10, <1>11 DEF ListInv

LEMMA LpushCountStep ==
    ASSUME Serialised, ListInv, LpushCount
    PROVE  ListInv'
<1>1. /\ ppc = "count" /\ mpc = "idle" /\ ppc' = "idle" /\ ~crashed
      /\ len' = plen + 1 /\ pnode' = NULL /\ plen' = 0 /\ order' = New
      /\ UNCHANGED <<heap, head, tail, next, direction, cur, ret, mpc, mlen, crashed>>
  BY DEF LpushCount, ParserGoto, ListInv, walkVars, New
<1>2. /\ ListTypes /\ WalkInv /\ len = Len(order) /\ Allocated(In(order) \cup {pnode})
      /\ pnode \in Nodes /\ pnode \notin In(order)
      /\ NextLinked(heap, New) /\ PrevLinked(heap, New)
      /\ plen = len /\ head = First(New) /\ tail = End(New)
  BY <1>1 DEF ListInv, PushInv
<1>3. /\ New \in Seq(Nodes) /\ Len(order) \in Nat /\ Len(New) = Len(order) + 1
      /\ Distinct(New) /\ In(New) = In(order) \cup {pnode}
  BY <1>2, NewFacts
<1>4. ListTypes'
  BY <1>1, <1>2, <1>3 DEF ListTypes
<1>5. In(order') = In(order) \cup {pnode}
  BY <1>1, <1>3
<1>6. WalkInv'
  BY <1>1, <1>2, <1>5 DEF WalkInv
<1>7. Allocated(In(order))'
  BY <1>1, <1>2, <1>5 DEF Allocated
<1>8. ListIs(order)'
  BY <1>1, <1>2 DEF ListIs
<1>9. IdleInv'
  BY <1>1, <1>2, <1>3, <1>7, <1>8 DEF IdleInv
<1>10. PushInv' /\ RemoveInv'
  BY <1>1 DEF PushInv, RemoveInv
<1> QED
  BY <1>1, <1>4, <1>6, <1>9, <1>10 DEF ListInv

-----------------------------------------------------------------------------
(* The walk.                                                               *)

\* Between two operations the list is the one of order.
LEMMA Between ==
    ASSUME ListInv, Idle
    PROVE  /\ ListTypes /\ WalkInv /\ len = Len(order) /\ ListIs(order) /\ Allocated(In(order)) /\ ~crashed
           /\ order \in Seq(Nodes) /\ Len(order) \in Nat /\ Distinct(order)
           /\ \A k \in 1 .. Len(order) : order[k] \in Nodes /\ order[k] # NULL /\ heap[order[k]].alive
<1>1. /\ ListTypes /\ WalkInv /\ len = Len(order) /\ ListIs(order) /\ Allocated(In(order)) /\ ~crashed
  BY DEF ListInv, IdleInv
<1>2. order \in Seq(Nodes) /\ Len(order) \in Nat /\ Distinct(order)
  BY <1>1 DEF ListTypes
<1>3. ASSUME NEW k \in 1 .. Len(order)
      PROVE  order[k] \in Nodes /\ order[k] # NULL /\ heap[order[k]].alive
  <2>1. order[k] \in Nodes /\ order[k] \in In(order)
    BY <1>2 DEF In
  <2>2. order[k] # NULL
    BY <2>1, ListAssumption DEF Nodes, NULL
  <2> QED
    BY <1>1, <2>1, <2>2 DEF Allocated
<1> QED
  BY <1>1, <1>2, <1>3

LEMMA Unmoved ==
    ASSUME ListInv, Idle, UNCHANGED <<heap, head, tail, len, ppc, mpc, order>>
    PROVE  IdleInv' /\ PushInv' /\ RemoveInv'
<1>1. len = Len(order) /\ ListIs(order) /\ Allocated(In(order))
  BY Between
<1>2. ListIs(order)' /\ Allocated(In(order))'
  BY <1>1 DEF ListIs, Allocated
<1>3. IdleInv'
  BY <1>1, <1>2 DEF IdleInv
<1> QED
  BY <1>3 DEF PushInv, RemoveInv, Idle

LEMMA IteratorNew ==
    ASSUME ListInv, NEW d \in {"head", "tail"}, list_iterator_new(d)
    PROVE  ListInv'
<1>1. /\ Idle /\ direction = "none" /\ direction' = d /\ cur' = NULL
      /\ next' = (IF d = "head" THEN head ELSE tail)
      /\ UNCHANGED <<heap, head, tail, len, ret, order, ppc, pnode, plen, mpc, mlen, crashed>>
  BY DEF list_iterator_new, Whole, listVars, Idle
<1>2. ListTypes /\ ListIs(order) /\ ~crashed /\ Len(order) \in Nat
  BY <1>1, Between
<1>3. next' # NULL => next' \in In(order)
  BY <1>1, <1>2 DEF ListIs, First, End, In
<1>4. ListTypes'
  BY <1>1, <1>2 DEF ListTypes, Distinct
<1>5. WalkInv'
  BY <1>1, <1>3 DEF WalkInv, In
<1> QED
  BY <1>1, <1>2, <1>4, <1>5, Unmoved DEF ListInv

\* The neighbours of a node of the list.
LEMMA Neighbours ==
    ASSUME ListInv, Idle, NEW n \in In(order), NEW i, i = IndexOf(n)
    PROVE  /\ i \in 1 .. Len(order) /\ order[i] = n
           /\ heap[n].next = NextIs(order, i) /\ heap[n].prev = PrevIs(order, i)
           /\ NextIs(order, i) # NULL => i + 1 \in 1 .. Len(order) /\ NextIs(order, i) = order[i + 1]
           /\ PrevIs(order, i) # NULL => i - 1 \in 1 .. Len(order) /\ PrevIs(order, i) = order[i - 1]
           /\ i = Len(order) <=> NextIs(order, i) = NULL
           /\ i = 1 <=> PrevIs(order, i) = NULL
<1>1. /\ order \in Seq(Nodes) /\ Distinct(order) /\ Len(order) \in Nat /\ ListIs(order)
      /\ \A k \in 1 .. Len(order) : order[k] \in Nodes /\ order[k] # NULL
  BY Between
<1>2. i \in 1 .. Len(order) /\ order[i] = n
  BY <1>1, IndexFacts
<1>3. heap[n].next = NextIs(order, i) /\ heap[n].prev = PrevIs(order, i)
  BY <1>1, <1>2 DEF ListIs, NextLinked, PrevLinked
<1>4. /\ i # Len(order) => i + 1 \in 1 .. Len(order)
      /\ i # 1 => i - 1 \in 1 .. Len(order)
  BY <1>1, <1>2
<1> QED
  BY <1>1, <1>2, <1>3, <1>4 DEF NextIs, PrevIs

LEMMA IteratorNext ==
    ASSUME Serialised, ListInv, list_iterator_next
    PROVE  ListInv'
<1>1. /\ Idle /\ direction # "none" /\ next # NULL /\ cur' = next
      /\ UNCHANGED <<heap, head, tail, len, direction, ppc, pnode, plen, mpc, mlen, order>>
  BY DEF list_iterator_next, listVars, Idle
<1>2. /\ ListTypes /\ WalkInv /\ ~crashed /\ Allocated(In(order))
      /\ \A k \in 1 .. Len(order) : order[k] \in Nodes
  BY <1>1, Between
<1>3. next \in In(order) /\ next \in Nodes
  BY <1>1, <1>2 DEF WalkInv, In
<1>4. Usable(next)
  BY <1>1, <1>2, <1>3 DEF Usable, Allocated
<1>5. /\ next' = (IF direction = "head" THEN heap[next].next ELSE heap[next].prev) /\ ~crashed'
  BY <1>2, <1>4 DEF list_iterator_next
<1>6. PICK i : i = IndexOf(next)
  OBVIOUS
<1>7. next' # NULL => next' \in In(order) /\ next' # next
  <2>1. /\ i \in 1 .. Len(order) /\ order[i] = next
        /\ heap[next].next = NextIs(order, i) /\ heap[next].prev = PrevIs(order, i)
        /\ NextIs(order, i) # NULL => i + 1 \in 1 .. Len(order) /\ NextIs(order, i) = order[i + 1]
        /\ PrevIs(order, i) # NULL => i - 1 \in 1 .. Len(order) /\ PrevIs(order, i) = order[i - 1]
    BY <1>1, <1>3, <1>6, Neighbours
  <2>2. \A k \in 1 .. Len(order) : order[k] \in In(order) /\ (k # i => order[k] # next)
    BY <1>2, <2>1 DEF In, ListTypes, Distinct
  <2>3. i + 1 # i /\ i - 1 # i
    BY <2>1
  <2> QED
    BY <1>5, <2>1, <2>2, <2>3
<1>8. next' \in Nodes \cup {NULL}
  BY <1>2, <1>7 DEF In
<1>9. ListTypes'
  BY <1>1, <1>2, <1>8 DEF ListTypes, Distinct
<1>10. WalkInv'
  BY <1>1, <1>3, <1>7 DEF WalkInv, In
<1> QED
  BY <1>1, <1>5, <1>9, <1>10, Unmoved DEF ListInv

LEMMA IteratorDestroy ==
    ASSUME ListInv, list_iterator_destroy
    PROVE  ListInv'
<1>1. /\ Idle /\ direction' = "none" /\ next' = NULL /\ cur' = NULL
      /\ UNCHANGED <<heap, head, tail, len, order, ppc, pnode, plen, mpc, mlen, crashed>>
  BY DEF list_iterator_destroy, Whole, listVars, Idle
<1>2. ListTypes /\ ~crashed
  BY <1>1, Between
<1>3. ListTypes' /\ WalkInv'
  BY <1>1, <1>2 DEF ListTypes, Distinct, WalkInv
<1> QED
  BY <1>1, <1>2, <1>3, Unmoved DEF ListInv

-----------------------------------------------------------------------------
(* list_remove.                                                            *)

LEMMA UnlinkPrevStep ==
    ASSUME Serialised, ListInv, UnlinkPrev
    PROVE  ListInv'
<1>1. /\ Idle /\ cur # NULL /\ mpc' = "unlink_next"
      /\ UNCHANGED <<tail, len, next, direction, cur, ret, ppc, pnode, plen, mlen, order, crashed>>
  BY DEF UnlinkPrev, MainGoto, walkVars, Idle
<1>2. /\ ListTypes /\ WalkInv /\ len = Len(order) /\ ListIs(order) /\ Allocated(In(order)) /\ ~crashed
      /\ \A k \in 1 .. Len(order) : order[k] \in Nodes /\ order[k] # NULL
  BY <1>1, Between
<1>3. cur \in In(order)
  BY <1>1, <1>2 DEF WalkInv
<1>4. PICK i : i = IndexOf(cur)
  OBVIOUS
<1>5. /\ i \in 1 .. Len(order) /\ order[i] = cur
      /\ heap[cur].next = NextIs(order, i) /\ heap[cur].prev = PrevIs(order, i)
      /\ NextIs(order, i) # NULL => i + 1 \in 1 .. Len(order) /\ NextIs(order, i) = order[i + 1]
      /\ PrevIs(order, i) # NULL => i - 1 \in 1 .. Len(order) /\ PrevIs(order, i) = order[i - 1]
      /\ i = Len(order) <=> NextIs(order, i) = NULL
      /\ i = 1 <=> PrevIs(order, i) = NULL
  BY <1>1, <1>3, <1>4, Neighbours
<1>6. /\ Rest \in Seq(Nodes) /\ Len(order) \in Nat /\ Len(Rest) = Len(order) - 1
      /\ \A k \in 1 .. Len(Rest) : Rest[k] = (IF k < i THEN order[k] ELSE order[k + 1])
  BY <1>2, <1>3, <1>4, RestFacts
<1>7. heap[cur].next \in Nodes \cup {NULL}
  BY <1>2, <1>5
<1>8. /\ heap' \in [Nodes -> Node]
      /\ \A m \in Nodes : heap'[m].prev = heap[m].prev /\ heap'[m].alive = heap[m].alive /\ heap'[m].val = heap[m].val
      /\ \A m \in Nodes : (i = 1 \/ m # order[i - 1]) => heap'[m].next = heap[m].next
      /\ i # 1 => heap'[order[i - 1]].next = NextIs(order, i) /\ head' = head
      /\ i = 1 => head' = NextIs(order, i)
  <2>1. CASE i = 1
    <3>1. heap' = heap /\ head' = heap[cur].next
      BY <1>5, <2>1 DEF UnlinkPrev
    <3> QED
      BY <1>2, <1>5, <2>1, <3>1 DEF ListTypes
  <2>2. CASE i # 1
    <3>1. PICK p \in Nodes : p = heap[cur].prev /\ p = order[i - 1] /\ p # NULL
      BY <1>2, <1>5, <2>2
    <3>2. head' = head /\ heap' = [heap EXCEPT ![p].next = heap[cur].next]
      BY <3>1 DEF UnlinkPrev
    <3>3. PICK x \in Nodes \cup {NULL} : x = heap[cur].next
      BY <1>7
    <3>4. heap' = [heap EXCEPT ![p].next = x] /\ heap \in [Nodes -> Node]
      BY <1>2, <3>2, <3>3 DEF ListTypes
    <3>5. /\ heap' \in [Nodes -> Node]
          /\ heap'[p].next = x /\ \A m \in Nodes : m # p => heap'[m].next = heap[m].next
          /\ \A m \in Nodes : heap'[m].prev = heap[m].prev /\ heap'[m].alive = heap[m].alive /\ heap'[m].val = heap[m].val
      BY <3>4, SetNext
    <3> QED
      BY <1>5, <2>2, <3>1, <3>2, <3>3, <3>5
  <2> QED
    BY <2>1, <2>2
<1>9. head' \in Nodes \cup {NULL}
  BY <1>2, <1>5, <1>8 DEF ListTypes
<1>10. ListTypes'
  BY <1>1, <1>2, <1>8, <1>9 DEF ListTypes, Distinct
<1>11. WalkInv'
  BY <1>1, <1>2 DEF WalkInv
<1>12. Allocated(In(order))'
  BY <1>1, <1>2, <1>8 DEF Allocated
<1>13. PrevLinked(heap', order)
  BY <1>2, <1>8 DEF ListIs, PrevLinked
<1>14. heap'[cur].next = NextIs(order, i)
  <2>1. cur \in Nodes /\ (i # 1 => cur # order[i - 1])
    BY <1>2, <1>5 DEF ListTypes, Distinct
  <2> QED
    BY <1>5, <1>8, <2>1
<1>15. NextLinked(heap', Rest)
  <2> SUFFICES ASSUME NEW k \in 1 .. Len(Rest) PROVE heap'[Rest[k]].next = NextIs(Rest, k)
    BY DEF NextLinked
  <2>1. CASE k < i - 1
    <3>1. k \in 1 .. Len(order) /\ k + 1 \in 1 .. Len(Rest) /\ k < i /\ k + 1 < i /\ k # i - 1 /\ i # 1
      BY <1>5, <1>6, <2>1
    <3>2. k # Len(order) /\ k # Len(Rest)
      BY <1>6, <3>1
    <3>3. i - 1 \in 1 .. Len(order)
      BY <1>5, <3>1
    <3>4. order[k] # order[i - 1] /\ order[k] \in Nodes
      BY <1>2, <3>1, <3>3 DEF ListTypes, Distinct
    <3>5. heap'[order[k]].next = order[k + 1]
      BY <1>2, <1>8, <3>1, <3>2, <3>4 DEF ListIs, NextLinked, NextIs
    <3> QED
      BY <1>6, <3>1, <3>2, <3>5 DEF NextIs
  <2>2. CASE k = i - 1
    <3>1. k < i /\ i # 1 /\ (k = Len(Rest) <=> i = Len(order)) /\ k + 1 = i /\ ~ (i < i)
      BY <1>5, <1>6, <2>2
    <3>2. heap'[Rest[k]].next = NextIs(order, i)
      BY <1>6, <1>8, <2>2, <3>1
    <3>3. i # Len(order) => i \in 1 .. Len(Rest)
      BY <1>5, <1>6
    <3>4. i # Len(order) => Rest[i] = order[i + 1]
      BY <1>6, <3>1, <3>3
    <3> QED
      BY <3>1, <3>2, <3>4 DEF NextIs
  <2>3. CASE k >= i
    <3>1. /\ k + 1 \in 1 .. Len(order) /\ ~ (k < i) /\ ~ (k + 1 < i) /\ k + 1 # i - 1
          /\ k = Len(Rest) <=> k + 1 = Len(order)
          /\ k # Len(Rest) => k + 1 \in 1 .. Len(Rest)
      BY <1>5, <1>6, <2>3
    <3>2. i # 1 => order[k + 1] # order[i - 1]
      BY <1>2, <1>5, <3>1 DEF ListTypes, Distinct
    <3>3. heap'[order[k + 1]].next = NextIs(order, k + 1)
      BY <1>2, <1>8, <3>1, <3>2 DEF ListIs, NextLinked
    <3>4. Rest[k] = order[k + 1] /\ (k # Len(Rest) => Rest[k + 1] = order[(k + 1) + 1])
      BY <1>6, <3>1
    <3> QED
      BY <3>1, <3>3, <3>4 DEF NextIs
  <2>4. k < i - 1 \/ k = i - 1 \/ k >= i
    BY <1>5, <1>6
  <2> QED
    BY <2>1, <2>2, <2>3, <2>4
<1>16. head' = First(Rest)
  <2>1. CASE i = 1
    <3>1. ~ (1 < i) /\ (Len(Rest) = 0 <=> i = Len(order)) /\ (Len(Rest) # 0 => 1 \in 1 .. Len(Rest))
      BY <1>6, <2>1
    <3> QED
      BY <1>6, <1>8, <2>1, <3>1 DEF First, NextIs
  <2>2. CASE i # 1
    <3>1. 1 < i /\ Len(Rest) # 0 /\ Len(order) # 0 /\ 1 \in 1 .. Len(Rest)
      BY <1>5, <1>6, <2>2
    <3> QED
      BY <1>2, <1>6, <1>8, <2>2, <3>1 DEF ListIs, First
  <2> QED
    BY <2>1, <2>2
<1>17. Rest' = Rest /\ IndexOf(cur)' = i
  BY <1>1, <1>4 DEF Rest, IndexOf
<1>18. RemoveInv'
  <2>1. tail' = End(order')
    BY <1>1, <1>2 DEF ListIs
  <2>2. PrevLinked(heap, order)' /\ NextIs(order, IndexOf(cur))' = NextIs(order, i)
    BY <1>1, <1>13, <1>17 DEF PrevLinked, PrevIs, NextIs
  <2> QED
    BY <1>1, <1>2, <1>3, <1>12, <1>14, <1>15, <1>16, <1>17, <2>1, <2>2 DEF RemoveInv, Idle
<1>19. IdleInv' /\ PushInv'
  BY <1>1 DEF IdleInv, Idle, PushInv
<1> QED
  BY <1>1, <1>2, <1>10, <1>11, <1>18, <1>19 DEF ListInv

LEMMA UnlinkNextStep ==
    ASSUME Serialised, ListInv, UnlinkNext
    PROVE  ListInv'
<1>1. /\ mpc = "unlink_next" /\ ppc = "idle" /\ mpc' = "free" /\ ~crashed
      /\ UNCHANGED <<head, len, next, direction, cur, ret, ppc, pnode, plen, mlen, order, crashed>>
  BY DEF UnlinkNext, MainGoto, walkVars, ListInv
<1>2. PICK i : i = IndexOf(cur)
  OBVIOUS
<1>3. /\ ListTypes /\ WalkInv /\ len = Len(order) /\ cur \in In(order)
      /\ NextLinked(heap, Rest) /\ head = First(Rest) /\ Allocated(In(order))
      /\ PrevLinked(heap, order) /\ tail = End(order) /\ heap[cur].next = NextIs(order, i)
  BY <1>1, <1>2 DEF ListInv, RemoveInv
<1>4. /\ Len(order) \in Nat /\ i \in 1 .. Len(order) /\ order[i] = cur
      /\ Rest \in Seq(Nodes) /\ Len(Rest) = Len(order) - 1
      /\ \A k \in 1 .. Len(Rest) : Rest[k] = (IF k < i THEN order[k] ELSE order[k + 1])
      /\ \A k \in 1 .. Len(order) : order[k] \in Nodes /\ (k # i => order[k] # cur)
  BY <1>2, <1>3, RestFacts
<1>5. \A k \in 1 .. Len(order) : order[k] # NULL
  BY <1>4, ListAssumption DEF Nodes, NULL
<1>6. /\ heap[cur].prev = PrevIs(order, i) /\ PrevIs(order, i) \in Nodes \cup {NULL}
  <2>1. i # 1 => i - 1 \in 1 .. Len(order)
    BY <1>4
  <2> QED
    BY <1>3, <1>4, <2>1 DEF PrevLinked, PrevIs
<1>7. i # Len(order) => i + 1 \in 1 .. Len(order)
  BY <1>4
<1>8. /\ heap' \in [Nodes -> Node]
      /\ \A m \in Nodes : heap'[m].next = heap[m].next /\ heap'[m].alive = heap[m].alive /\ heap'[m].val = heap[m].val
      /\ \A m \in Nodes : (i = Len(order) \/ m # order[i + 1]) => heap'[m].prev = heap[m].prev
      /\ i # Len(order) => heap'[order[i + 1]].prev = PrevIs(order, i) /\ tail' = tail
      /\ i = Len(order) => tail' = PrevIs(order, i)
  <2>1. CASE i = Len(order)
    <3>1. heap' = heap /\ tail' = heap[cur].prev
      BY <1>3, <2>1 DEF UnlinkNext, NextIs
    <3> QED
      BY <1>3, <1>6, <2>1, <3>1 DEF ListTypes
  <2>2. CASE i # Len(order)
    <3>1. PICK n \in Nodes : n = heap[cur].next /\ n = order[i + 1] /\ n # NULL
      BY <1>3, <1>4, <1>5, <1>7, <2>2 DEF NextIs
    <3>2. tail' = tail /\ heap' = [heap EXCEPT ![n].prev = heap[cur].prev]
      BY <3>1 DEF UnlinkNext
    <3>3. PICK x \in Nodes \cup {NULL} : x = heap[cur].prev
      BY <1>6
    <3>4. heap' = [heap EXCEPT ![n].prev = x] /\ heap \in [Nodes -> Node]
      BY <1>3, <3>2, <3>3 DEF ListTypes
    <3>5. /\ heap' \in [Nodes -> Node]
          /\ heap'[n].prev = x /\ \A m \in Nodes : m # n => heap'[m].prev = heap[m].prev
          /\ \A m \in Nodes : heap'[m].next = heap[m].next /\ heap'[m].alive = heap[m].alive /\ heap'[m].val = heap[m].val
      BY <3>4, SetPrev
    <3> QED
      BY <1>6, <2>2, <3>1, <3>2, <3>3, <3>5
  <2> QED
    BY <2>1, <2>2
<1>9. tail' \in Nodes \cup {NULL}
  BY <1>3, <1>6, <1>8 DEF ListTypes
<1>10. ListTypes'
  BY <1>1, <1>3, <1>8, <1>9 DEF ListTypes, Distinct
<1>11. WalkInv'
  BY <1>1, <1>3 DEF WalkInv
<1>12. Allocated(In(order))'
  BY <1>1, <1>3, <1>8 DEF Allocated
<1>13. NextLinked(heap', Rest)
  BY <1>3, <1>4, <1>8 DEF NextLinked
<1>14. PrevLinked(heap', Rest)
  <2> SUFFICES ASSUME NEW k \in 1 .. Len(Rest) PROVE heap'[Rest[k]].prev = PrevIs(Rest, k)
    BY DEF PrevLinked
  <2>1. CASE k < i
    <3>1. /\ k \in 1 .. Len(order) /\ k # i + 1
          /\ k # 1 => k - 1 \in 1 .. Len(Rest) /\ k - 1 < i
      BY <1>4, <2>1
    <3>2. i # Len(order) => order[k] # order[i + 1]
      BY <1>3, <1>7, <3>1 DEF ListTypes, Distinct
    <3>3. heap'[order[k]].prev = PrevIs(order, k)
      BY <1>3, <1>4, <1>8, <3>1, <3>2 DEF PrevLinked
    <3>4. Rest[k] = order[k] /\ (k # 1 => Rest[k - 1] = order[k - 1])
      BY <1>4, <2>1, <3>1
    <3> QED
      BY <3>3, <3>4 DEF PrevIs
  <2>2. CASE k = i
    <3>1. i # Len(order) /\ ~ (k < i) /\ (k # 1 => k - 1 \in 1 .. Len(Rest) /\ k - 1 < i)
      BY <1>4, <2>2
    <3>2. Rest[k] = order[i + 1] /\ (k # 1 => Rest[k - 1] = order[k - 1])
      BY <1>4, <2>2, <3>1
    <3> QED
      BY <1>8, <2>2, <3>1, <3>2 DEF PrevIs
  <2>3. CASE k > i
    <3>1. /\ k + 1 \in 1 .. Len(order) /\ k + 1 # i + 1 /\ k + 1 # 1 /\ k # 1 /\ (k + 1) - 1 = k
          /\ k - 1 \in 1 .. Len(Rest) /\ ~ (k < i) /\ ~ (k - 1 < i) /\ (k - 1) + 1 = k
      BY <1>4, <2>3
    <3>2. i # Len(order) => order[k + 1] # order[i + 1]
      BY <1>3, <1>7, <3>1 DEF ListTypes, Distinct
    <3>3. heap'[order[k + 1]].prev = PrevIs(order, k + 1)
      BY <1>3, <1>4, <1>8, <3>1, <3>2 DEF PrevLinked
    <3>4. Rest[k] = order[k + 1] /\ Rest[k - 1] = order[k]
      BY <1>4, <3>1
    <3> QED
      BY <3>1, <3>3, <3>4 DEF PrevIs
  <2>4. k < i \/ k = i \/ k > i
    BY <1>4
  <2> QED
    BY <2>1, <2>2, <2>3, <2>4
<1>15. tail' = End(Rest)
  <2>1. CASE i = Len(order)
    <3>1. /\ Len(Rest) = 0 <=> i = 1
          /\ Len(Rest) # 0 => Len(Rest) \in 1 .. Len(Rest) /\ Len(Rest) < i /\ Len(Rest) = i - 1
      BY <1>4, <2>1
    <3> QED
      BY <1>4, <1>8, <2>1, <3>1 DEF End, PrevIs
  <2>2. CASE i # Len(order)
    <3>1. /\ Len(Rest) # 0 /\ Len(order) # 0 /\ Len(Rest) \in 1 .. Len(Rest) /\ ~ (Len(Rest) < i)
          /\ Len(Rest) + 1 = Len(order)
      BY <1>4, <2>2
    <3> QED
      BY <1>3, <1>4, <1>8, <2>2, <3>1 DEF End
  <2> QED
    BY <2>1, <2>2
<1>16. Rest' = Rest
  BY <1>1 DEF Rest, IndexOf
<1>17. RemoveInv'
  BY <1>1, <1>3, <1>12, <1>13, <1>14, <1>15, <1>16 DEF RemoveInv
<1>18. IdleInv' /\ PushInv'
  BY <1>1 DEF IdleInv, Idle, PushInv
<1> QED
  BY <1>1, <1>10, <1>11, <1>17, <1>18 DEF ListInv

LEMMA FreeNodeStep ==
    ASSUME Serialised, ListInv, FreeNode
    PROVE  ListInv'
<1>1. /\ mpc = "free" /\ ppc = "idle" /\ mpc' = "count" /\ ~crashed
      /\ heap' = [heap EXCEPT ![cur].alive = FALSE] /\ mlen' = len
      /\ UNCHANGED <<head, tail, len, next, direction, cur, ret, ppc, pnode, plen, order, crashed>>
  BY DEF FreeNode, MainGoto, walkVars, ListInv
<1>2. /\ ListTypes /\ WalkInv /\ len = Len(order) /\ cur \in In(order)
      /\ NextLinked(heap, Rest) /\ head = First(Rest) /\ Allocated(In(order))
      /\ PrevLinked(heap, Rest) /\ tail = End(Rest)
  BY <1>1 DEF ListInv, RemoveInv
<1>3. PICK i : i = IndexOf(cur)
  OBVIOUS
<1>4. /\ i \in 1 .. Len(order) /\ order[i] = cur /\ Rest \in Seq(Nodes)
      /\ \A k \in 1 .. Len(order) : order[k] \in Nodes
  BY <1>2, <1>3, RestFacts
<1>5. heap \in [Nodes -> Node] /\ cur \in Nodes
  BY <1>2, <1>4 DEF ListTypes
<1>6. heap' = [heap EXCEPT ![cur].alive = FALSE]
  BY <1>1
<1>7. /\ heap' \in [Nodes -> Node]
      /\ ~heap'[cur].alive /\ \A m \in Nodes : m # cur => heap'[m].alive = heap[m].alive
      /\ \A m \in Nodes : heap'[m].next = heap[m].next /\ heap'[m].prev = heap[m].prev /\ heap'[m].val = heap[m].val
  <2> DEFINE q == [heap[cur] EXCEPT !.alive = FALSE]
  <2>1. heap[cur] \in Node /\ heap' = [heap EXCEPT ![cur] = q]
    BY <1>5, <1>6
  <2>2. ~q.alive /\ q.next = heap[cur].next /\ q.prev = heap[cur].prev /\ q.val = heap[cur].val
    BY <2>1 DEF Node, Carried
  <2>3. q \in Node
    BY <2>1 DEF Node, Carried
  <2> HIDE DEF q
  <2>4. heap' \in [Nodes -> Node] /\ heap'[cur] = q /\ \A m \in Nodes : m # cur => heap'[m] = heap[m]
    BY <1>5, <2>1, <2>3
  <2> QED
    BY <1>5, <2>2, <2>4
<1>8. ListTypes'
  BY <1>1, <1>2, <1>7 DEF ListTypes, Distinct
<1>9. WalkInv'
  BY <1>1, <1>2 DEF WalkInv
<1>10. \A m \in In(Rest) : m \in Nodes
  BY <1>4 DEF In
<1>11. NextLinked(heap', Rest) /\ PrevLinked(heap', Rest)
  BY <1>2, <1>4, <1>7, <1>10, SameLinks
<1>12. (Allocated(In(order) \ {cur}))'
  BY <1>1, <1>2, <1>7 DEF Allocated
<1>13. Rest' = Rest
  BY <1>1 DEF Rest, IndexOf
<1>14. RemoveInv'
  BY <1>1, <1>2, <1>11, <1>12, <1>13 DEF RemoveInv
<1>15. IdleInv' /\ PushInv'
  BY <1>1 DEF IdleInv, Idle, PushInv
<1> QED
  BY <1>1, <1>8, <1>9, <1>14, <1>15 DEF ListInv

LEMMA RemoveCountStep ==
    ASSUME Serialised, ListInv, RemoveCount
    PROVE  ListInv'
<1>1. /\ mpc = "count" /\ ppc = "idle" /\ mpc' = "idle" /\ ~crashed
      /\ cur' = NULL /\ mlen' = 0 /\ order' = Rest
      /\ UNCHANGED <<heap, head, tail, next, direction, ret, ppc, pnode, plen>>
  BY DEF RemoveCount, MainGoto, ListInv, Rest
<1>2. /\ ListTypes /\ WalkInv /\ len = Len(order) /\ cur \in In(order) /\ mlen = len
      /\ NextLinked(heap, Rest) /\ head = First(Rest) /\ Allocated(In(order) \ {cur})
      /\ PrevLinked(heap, Rest) /\ tail = End(Rest)
  BY <1>1 DEF ListInv, RemoveInv
<1>3. PICK i : i = IndexOf(cur)
  OBVIOUS
<1>4. /\ Len(order) \in Nat /\ i \in 1 .. Len(order) /\ Rest \in Seq(Nodes) /\ Len(Rest) = Len(order) - 1
      /\ Distinct(Rest) /\ In(Rest) = In(order) \ {cur}
  BY <1>2, <1>3, RestFacts
<1>5. mlen # 0 /\ mlen - 1 = Len(Rest) /\ mlen - 1 \in Nat
  BY <1>2, <1>4
<1>6. ~crashed' /\ len' = Len(Rest) /\ len' \in Nat
  BY <1>1, <1>5 DEF RemoveCount
<1>7. ListTypes'
  BY <1>1, <1>2, <1>4, <1>6 DEF ListTypes
<1>8. In(order') = In(order) \ {cur}
  BY <1>1, <1>4
<1>9. WalkInv'
  <2>1. next # NULL => next \in In(order')
    BY <1>2, <1>8 DEF WalkInv
  <2>2. In(order)' = In(order')
    BY DEF In
  <2> QED
    BY <1>1, <1>2, <2>1, <2>2 DEF WalkInv
<1>10. Allocated(In(order))'
  BY <1>1, <1>2, <1>8 DEF Allocated
<1>11. ListIs(order)'
  BY <1>1, <1>2 DEF ListIs
<1>12. IdleInv'
  BY <1>1, <1>6, <1>10, <1>11 DEF IdleInv
<1>13. PushInv' /\ RemoveInv'
  BY <1>1 DEF PushInv, RemoveInv
<1> QED
  BY <1>6, <1>7, <1>9, <1>12, <1>13 DEF ListInv

-----------------------------------------------------------------------------
(* The operations that are one step each.                                  *)

LEMMA ListRpush ==
    ASSUME ListInv, NEW v \in Values, list_rpush(v)
    PROVE  ListInv'
<1>1. PICK n \in Free :
          /\ heap' = [m \in Nodes |->
                IF m = n THEN [alive |-> TRUE, prev |-> tail, next |-> NULL, val |-> v]
                ELSE IF m = tail /\ len # 0 THEN [heap[m] EXCEPT !.next = n] ELSE heap[m]]
          /\ head' = IF len = 0 THEN n ELSE head
          /\ tail' = n
          /\ order' = Append(order, n)
  BY DEF list_rpush
<1>2. /\ Idle /\ len' = len + 1 /\ UNCHANGED <<next, direction, cur, ret, ppc, pnode, plen, mpc, mlen, crashed>>
  BY DEF list_rpush, Whole, Idle, walkVars
<1>3. /\ ListTypes /\ WalkInv /\ len = Len(order) /\ ListIs(order) /\ Allocated(In(order)) /\ ~crashed
      /\ order \in Seq(Nodes) /\ Len(order) \in Nat /\ Distinct(order)
      /\ \A k \in 1 .. Len(order) : order[k] \in Nodes /\ order[k] # NULL
  BY <1>2, Between
<1>4. n \in Nodes /\ n \notin In(order)
  BY <1>3 DEF Free, Allocated
<1>5. \A k \in 1 .. Len(order) : order[k] # n
  BY <1>4 DEF In
<1>6. PICK t \in Seq(Nodes) : t = Append(order, n)
  <2>1. order \in Seq(Nodes) /\ n \in Nodes
    BY <1>3, <1>4
  <2>2. Append(order, n) \in Seq(Nodes)
    BY <2>1
  <2> QED
    BY <2>2
<1>7. Len(t) = Len(order) + 1 /\ t[Len(t)] = n /\ \A k \in 1 .. Len(order) : t[k] = order[k]
  BY <1>3, <1>4, <1>6, AppendFacts
<1>8. tail \in Nodes \cup {NULL} /\ (len # 0 => tail = order[Len(order)]) /\ (len = 0 => tail = NULL)
  BY <1>3 DEF ListTypes, ListIs, End
<1>9. heap \in [Nodes -> Node]
  BY <1>3 DEF ListTypes
<1>10. heap'[n] = [alive |-> TRUE, prev |-> tail, next |-> NULL, val |-> v]
  BY <1>1, <1>4
<1>11. ASSUME NEW m \in Nodes, m # n
       PROVE  /\ heap'[m] \in Node
              /\ heap'[m].next = IF m = tail /\ len # 0 THEN n ELSE heap[m].next
              /\ heap'[m].prev = heap[m].prev /\ heap'[m].alive = heap[m].alive /\ heap'[m].val = heap[m].val
  <2>1. CASE m = tail /\ len # 0
    <3>1. heap'[m] = [heap[m] EXCEPT !.next = n] /\ heap[m] \in Node
      BY <1>1, <1>9, <1>11, <2>1
    <3> QED
      BY <1>4, <2>1, <3>1 DEF Node, Carried
  <2>2. CASE ~ (m = tail /\ len # 0)
    <3>1. heap'[m] = heap[m]
      BY <1>1, <1>11, <2>2
    <3> QED
      BY <1>9, <2>2, <3>1
  <2> QED
    BY <2>1, <2>2
<1>12. heap'[n] \in Node
  BY <1>8, <1>10 DEF Node, Carried
<1>13. heap' \in [Nodes -> Node]
  <2>1. \A m \in Nodes : heap'[m] \in Node
    BY <1>11, <1>12
  <2>2. PICK f : heap' = [m \in Nodes |-> f[m]]
    <3>1. heap' = [m \in Nodes |-> heap'[m]]
      BY <1>1
    <3> QED
      BY <3>1
  <2> QED
    BY <2>1, <2>2
<1>14. Distinct(t) /\ In(t) = In(order) \cup {n}
  <2>1. \A k \in 1 .. Len(t) : k = Len(t) \/ k \in 1 .. Len(order)
    BY <1>3, <1>7
  <2>2. Distinct(t)
    BY <1>3, <1>5, <1>7, <2>1 DEF Distinct
  <2>3. Len(t) \in 1 .. Len(t) /\ \A k \in 1 .. Len(order) : k \in 1 .. Len(t)
    BY <1>3, <1>7
  <2> QED
    BY <1>7, <2>1, <2>2, <2>3 DEF In
<1>15. head' = First(t) /\ tail' = End(t)
  <2>1. len = 0 => Len(t) = 1 /\ head' = n
    BY <1>1, <1>3, <1>7
  <2>2. len # 0 => Len(t) # 0 /\ 1 \in 1 .. Len(order) /\ head' = order[1]
    BY <1>1, <1>3, <1>7 DEF ListIs, First
  <2>3. Len(t) # 0
    BY <1>3, <1>7
  <2> QED
    BY <1>1, <1>7, <2>1, <2>2, <2>3 DEF First, End
<1>16. NextLinked(heap', t) /\ PrevLinked(heap', t)
  <2>1. ASSUME NEW k \in 1 .. Len(t) PROVE heap'[t[k]].next = NextIs(t, k) /\ heap'[t[k]].prev = PrevIs(t, k)
    <3>1. CASE k = Len(t)
      <4>1. heap'[t[k]].next = NULL /\ heap'[t[k]].prev = tail
        BY <1>7, <1>10, <3>1
      <4>2. k # 1 => len # 0 /\ k - 1 = Len(order) /\ Len(order) \in 1 .. Len(order)
        BY <1>3, <1>7, <3>1
      <4>3. k = 1 => len = 0
        BY <1>3, <1>7, <3>1
      <4>4. k # 1 => t[k - 1] = tail
        BY <1>7, <1>8, <4>2
      <4> QED
        BY <1>8, <3>1, <4>1, <4>3, <4>4 DEF NextIs, PrevIs
    <3>2. CASE k # Len(t)
      <4>1. /\ k \in 1 .. Len(order) /\ len # 0 /\ Len(order) \in 1 .. Len(order)
            /\ k # 1 => k - 1 \in 1 .. Len(order)
            /\ k # Len(order) => k + 1 \in 1 .. Len(order)
            /\ k = Len(order) => k + 1 = Len(t)
        BY <1>3, <1>7, <3>2
      <4>2. t[k] = order[k] /\ order[k] \in Nodes /\ order[k] # n
        BY <1>3, <1>5, <1>7, <4>1
      <4>3. order[k] = tail <=> k = Len(order)
        BY <1>3, <1>8, <4>1 DEF Distinct
      <4>4. heap[order[k]].next = NextIs(order, k) /\ heap[order[k]].prev = PrevIs(order, k)
        BY <1>3, <4>1 DEF ListIs, NextLinked, PrevLinked
      <4>5. heap'[t[k]].prev = PrevIs(t, k)
        BY <1>7, <1>11, <4>1, <4>2, <4>4 DEF PrevIs
      <4>6. heap'[t[k]].next = NextIs(t, k)
        <5>1. CASE k = Len(order)
          BY <1>7, <1>11, <3>2, <4>1, <4>2, <4>3, <5>1 DEF NextIs
        <5>2. CASE k # Len(order)
          BY <1>7, <1>11, <3>2, <4>1, <4>2, <4>3, <4>4, <5>2 DEF NextIs
        <5> QED
          BY <5>1, <5>2
      <4> QED
        BY <4>5, <4>6
    <3> QED
      BY <3>1, <3>2
  <2> QED
    BY <2>1 DEF NextLinked, PrevLinked
<1>17. order' = t
  BY <1>1, <1>6
<1>18. ListTypes'
  <2>1. tail' \in Nodes /\ head' \in Nodes \cup {NULL} /\ len' \in Nat
    BY <1>1, <1>2, <1>3, <1>4 DEF ListTypes
  <2> QED
    BY <1>2, <1>3, <1>13, <1>14, <1>17, <2>1 DEF ListTypes
<1>19. WalkInv'
  <2>1. In(order)' = In(order) \cup {n}
    BY <1>14, <1>17
  <2> QED
    BY <1>2, <1>3, <2>1 DEF WalkInv
<1>20. Allocated(In(order))'
  <2>1. heap'[n].alive
    BY <1>10
  <2> QED
    BY <1>3, <1>11, <1>14, <1>17, <2>1 DEF Allocated
<1>21. IdleInv'
  BY <1>2, <1>3, <1>7, <1>15, <1>16, <1>17, <1>20 DEF IdleInv, ListIs
<1>22. PushInv' /\ RemoveInv'
  BY <1>2 DEF PushInv, RemoveInv, Idle
<1> QED
  BY <1>2, <1>3, <1>18, <1>19, <1>21, <1>22 DEF ListInv

\* The nodes that the walk from the head meets.
LEMMA ForwardIs ==
    ASSUME ListInv, Idle
    PROVE  \A k \in 1 .. len : Forward[k] = order[k]
<1>1. order \in Seq(Nodes) /\ len = Len(order) /\ Len(order) \in Nat /\ ListIs(order)
  BY Between
<1> SUFFICES ASSUME NEW k \in 1 .. len PROVE Forward[k] = order[k]
  OBVIOUS
<1>2. k - 1 \in 0 .. Len(order) - 1 /\ Len(order) > 0 /\ (k - 1) + 1 = k
  BY <1>1
<1>3. NextLinked(heap, order) /\ head = order[1]
  BY <1>1, <1>2 DEF ListIs, First
<1>4. Nth(head, "next", k - 1) = order[(k - 1) + 1]
  BY <1>1, <1>2, <1>3, NthNext
<1> QED
  BY <1>2, <1>4 DEF Forward

LEMMA ListFind ==
    ASSUME ListInv, NEW v \in Values, list_find(v)
    PROVE  ListInv'
<1> DEFINE hits == {k \in 1 .. len : heap[Forward[k]].val = v}
<1>1. /\ Idle /\ direction = "none"
      /\ cur' = IF hits = {} THEN NULL
                ELSE Forward[CHOOSE k \in hits : \A j \in hits : k <= j]
      /\ UNCHANGED <<heap, head, tail, len, next, direction, ret, order, ppc, pnode, plen, mpc, mlen, crashed>>
  BY DEF list_find, Whole, listVars, Idle
<1>2. /\ ListTypes /\ WalkInv /\ len = Len(order) /\ ~crashed /\ Len(order) \in Nat
      /\ \A k \in 1 .. Len(order) : order[k] \in Nodes
  BY <1>1, Between
<1>3. hits \in SUBSET Nat /\ \A k \in hits : k \in 1 .. len
  BY <1>2
<1>4. cur' # NULL => cur' \in In(order)
  <2> SUFFICES ASSUME hits # {} PROVE cur' \in In(order)
    BY <1>1
  <2> DEFINE k == CHOOSE k \in hits : \A j \in hits : k <= j
  <2> HIDE DEF hits
  <2>1. \E x \in hits : \A y \in hits : x <= y
    BY <1>3, Least
  <2>2. k \in hits
    BY <2>1
  <2>3. k \in 1 .. len /\ cur' = Forward[k]
    BY <1>1, <1>3, <2>2
  <2> HIDE DEF k
  <2> QED
    BY <1>1, <1>2, <2>3, ForwardIs DEF In
<1> HIDE DEF hits
<1>5. ListTypes'
  <2>1. cur' \in Nodes \cup {NULL}
    BY <1>2, <1>4 DEF In
  <2> QED
    BY <1>1, <1>2, <2>1 DEF ListTypes, Distinct
<1>6. WalkInv'
  BY <1>1, <1>2, <1>4 DEF WalkInv, In
<1> QED
  BY <1>1, <1>2, <1>5, <1>6, Unmoved DEF ListInv

LEMMA ListAt ==
    ASSUME ListInv, NEW j \in Indices, list_at(j)
    PROVE  ListInv'
<1>1. /\ Idle
      /\ UNCHANGED <<heap, head, tail, len, next, direction, cur, order, ppc, pnode, plen, mpc, mlen, crashed>>
  BY DEF list_at, Whole, listVars, Idle
<1>2. ListTypes /\ WalkInv /\ ~crashed
  BY <1>1, Between
<1>3. ListTypes' /\ WalkInv'
  BY <1>1, <1>2 DEF ListTypes, WalkInv, Distinct
<1> QED
  BY <1>1, <1>2, <1>3, Unmoved DEF ListInv

LEMMA ListDestroy ==
    ASSUME ListInv, list_destroy
    PROVE  ListInv'
<1> DEFINE gone == {Forward[k] : k \in 1 .. len}
<1>1. /\ Idle /\ direction = "none"
      /\ heap' = [m \in Nodes |-> IF m \in gone THEN NoNode ELSE heap[m]]
      /\ head' = NULL /\ tail' = NULL /\ len' = 0 /\ cur' = NULL /\ order' = <<>>
      /\ UNCHANGED <<next, direction, ret, ppc, pnode, plen, mpc, mlen, crashed>>
  BY DEF list_destroy, Whole, Idle
<1>2. /\ ListTypes /\ WalkInv /\ len = Len(order) /\ ~crashed /\ Allocated(In(order))
  BY <1>1, Between
<1>3. gone = In(order)
  BY <1>1, <1>2, ForwardIs DEF In
<1> HIDE DEF gone
<1>4. NoNode \in Node /\ ~NoNode.alive
  BY DEF NoNode, Node, Carried
<1>5. heap' \in [Nodes -> Node] /\ \A m \in Nodes : ~heap'[m].alive
  BY <1>1, <1>2, <1>3, <1>4 DEF ListTypes, Allocated
<1>6. order' \in Seq(Nodes) /\ Len(order') = 0 /\ In(order') = {}
  BY <1>1 DEF In
<1>7. ListTypes'
  BY <1>1, <1>2, <1>5, <1>6 DEF ListTypes, Distinct
<1>8. WalkInv'
  BY <1>1, <1>2 DEF WalkInv
<1>9. ListIs(order)'
  BY <1>1, <1>6 DEF ListIs, First, End, NextLinked, PrevLinked
<1>10. Allocated(In(order))'
  BY <1>5, <1>6 DEF Allocated
<1>11. IdleInv'
  BY <1>1, <1>6, <1>9, <1>10 DEF IdleInv
<1>12. PushInv' /\ RemoveInv'
  BY <1>1 DEF PushInv, RemoveInv, Idle
<1> QED
  BY <1>1, <1>2, <1>7, <1>8, <1>11, <1>12 DEF ListInv

LEMMA ListLpop ==
    ASSUME ListInv, list_lpop
    PROVE  ListInv'
<1>1. /\ Idle /\ direction = "none" /\ cur = NULL
      /\ UNCHANGED <<next, direction, cur, ppc, pnode, plen, mpc, mlen, crashed>>
  BY DEF list_lpop, Pop, Whole, Idle
<1>2. /\ ListTypes /\ WalkInv /\ len = Len(order) /\ ListIs(order) /\ Allocated(In(order)) /\ ~crashed
      /\ order \in Seq(Nodes) /\ Len(order) \in Nat /\ Distinct(order)
      /\ \A k \in 1 .. Len(order) : order[k] \in Nodes /\ order[k] # NULL
  BY <1>1, Between
<1>3. next = NULL
  BY <1>1, <1>2 DEF WalkInv
<1>4. CASE len = 0
  <2>1. UNCHANGED <<heap, head, tail, len, order>>
    BY <1>4 DEF list_lpop, Pop, listVars
  <2>2. ListTypes' /\ WalkInv'
    BY <1>1, <1>2, <2>1 DEF ListTypes, WalkInv, Distinct
  <2> QED
    BY <1>1, <1>2, <2>1, <2>2, Unmoved DEF ListInv
<1>5. CASE len # 0
  <2>1. /\ heap' = [m \in Nodes |->
               IF m = head THEN [heap[m] EXCEPT !.alive = FALSE, !.prev = NULL, !.next = NULL]
               ELSE IF m = heap[head].next /\ len # 1 THEN [heap[m] EXCEPT !.prev = NULL]
               ELSE heap[m]]
        /\ len' = len - 1
        /\ head' = (IF len = 1 THEN NULL ELSE heap[head].next)
        /\ tail' = (IF len = 1 THEN NULL ELSE tail)
        /\ order' = Tail(order)
    BY <1>5 DEF list_lpop, Pop
  <2>2. /\ 1 \in 1 .. Len(order) /\ head = order[1] /\ head \in Nodes
        /\ heap[head].next = NextIs(order, 1) /\ tail = order[Len(order)]
    BY <1>2, <1>5 DEF ListIs, First, End, NextLinked
  <2>3. len # 1 => 2 \in 1 .. Len(order) /\ heap[head].next = order[2] /\ order[2] # head
    <3>1. len # 1 => 2 \in 1 .. Len(order)
      BY <1>2, <1>5
    <3> QED
      BY <1>2, <2>2, <3>1 DEF NextIs, Distinct
  <2>4. heap \in [Nodes -> Node]
    BY <1>2 DEF ListTypes
  <2>5. heap'[head] \in Node /\ ~heap'[head].alive
    <3>1. heap'[head] = [heap[head] EXCEPT !.alive = FALSE, !.prev = NULL, !.next = NULL] /\ heap[head] \in Node
      BY <2>1, <2>2, <2>4
    <3> QED
      BY <3>1 DEF Node, Carried
  <2>6. ASSUME NEW m \in Nodes, m # head
        PROVE  /\ heap'[m] \in Node
               /\ heap'[m].prev = IF len # 1 /\ m = order[2] THEN NULL ELSE heap[m].prev
               /\ heap'[m].next = heap[m].next /\ heap'[m].alive = heap[m].alive /\ heap'[m].val = heap[m].val
    <3>1. CASE len # 1 /\ m = order[2]
      <4>1. heap'[m] = [heap[m] EXCEPT !.prev = NULL] /\ heap[m] \in Node
        BY <2>1, <2>3, <2>4, <2>6, <3>1
      <4> QED
        BY <3>1, <4>1 DEF Node, Carried
    <3>2. CASE ~ (len # 1 /\ m = order[2])
      <4>1. heap'[m] = heap[m]
        BY <2>1, <2>3, <2>6, <3>2
      <4> QED
        BY <2>4, <3>2, <4>1
    <3> QED
      BY <3>1, <3>2
  <2>7. heap' \in [Nodes -> Node]
    <3>1. \A m \in Nodes : heap'[m] \in Node
      BY <2>5, <2>6
    <3>2. PICK f : heap' = [m \in Nodes |-> f[m]]
      <4>1. heap' = [m \in Nodes |-> heap'[m]]
        BY <2>1
      <4> QED
        BY <4>1
    <3> QED
      BY <3>1, <3>2
  <2>8. PICK t \in Seq(Nodes) : t = Tail(order)
    <3>1. order \in Seq(Nodes) /\ Len(order) > 0
      BY <1>2, <1>5
    <3>2. Tail(order) \in Seq(Nodes)
      BY <3>1
    <3> QED
      BY <3>2
  <2>9. Len(t) = Len(order) - 1 /\ \A k \in 1 .. Len(t) : t[k] = order[k + 1]
    BY <1>2, <1>5, <2>8, TailFacts
  <2>10. \A k \in 1 .. Len(t) : k + 1 \in 1 .. Len(order) /\ k + 1 # 1
    BY <1>2, <2>9
  <2>11. \A k \in 1 .. Len(order) : k # 1 => k - 1 \in 1 .. Len(t) /\ (k - 1) + 1 = k
    BY <1>2, <2>9
  <2>12. Distinct(t)
    <3> SUFFICES ASSUME NEW k \in 1 .. Len(t), NEW l \in 1 .. Len(t), t[k] = t[l] PROVE k = l
      BY DEF Distinct
    <3>1. k + 1 = l + 1
      BY <1>2, <2>9, <2>10 DEF Distinct
    <3> QED
      BY <2>9, <3>1
  <2>13. In(t) = In(order) \ {head}
    <3>1. \A k \in 1 .. Len(order) : order[k] = head <=> k = 1
      BY <1>2, <2>2 DEF Distinct
    <3>2. \A k \in 1 .. Len(order) : k # 1 => t[k - 1] = order[k]
      BY <2>9, <2>11
    <3> QED
      BY <2>9, <2>10, <2>11, <3>1, <3>2 DEF In
  <2>14. order' = t
    BY <2>1, <2>8
  <2>15. head' = First(t)
    <3>1. len # 1 => Len(t) # 0 /\ 1 \in 1 .. Len(t) /\ t[1] = order[2]
      BY <1>2, <1>5, <2>9
    <3>2. len = 1 => Len(t) = 0
      BY <1>2, <2>9
    <3> QED
      BY <2>1, <2>3, <3>1, <3>2 DEF First
  <2>16. tail' = End(t)
    <3>1. len # 1 => Len(t) # 0 /\ Len(t) \in 1 .. Len(t) /\ Len(t) + 1 = Len(order)
      BY <1>2, <1>5, <2>9
    <3>2. len = 1 => Len(t) = 0
      BY <1>2, <2>9
    <3> QED
      BY <2>1, <2>2, <2>9, <3>1, <3>2 DEF End
  <2>17. NextLinked(heap', t) /\ PrevLinked(heap', t)
    <3>1. ASSUME NEW k \in 1 .. Len(t) PROVE heap'[t[k]].next = NextIs(t, k) /\ heap'[t[k]].prev = PrevIs(t, k)
      <4>1. /\ k + 1 \in 1 .. Len(order) /\ k + 1 # 1 /\ (k + 1) - 1 = k /\ len # 1
            /\ k = Len(t) <=> k + 1 = Len(order)
            /\ k # Len(t) => k + 1 \in 1 .. Len(t)
            /\ k # 1 => k - 1 \in 1 .. Len(t) /\ (k - 1) + 1 = k
            /\ k = 1 <=> k + 1 = 2
        BY <1>2, <2>9
      <4>2. t[k] = order[k + 1] /\ order[k + 1] \in Nodes /\ order[k + 1] # head
        BY <1>2, <2>2, <2>9, <4>1 DEF Distinct
      <4>3. order[k + 1] = order[2] <=> k = 1
        BY <1>2, <2>3, <4>1 DEF Distinct
      <4>4. heap[order[k + 1]].next = NextIs(order, k + 1) /\ heap[order[k + 1]].prev = PrevIs(order, k + 1)
        BY <1>2, <4>1 DEF ListIs, NextLinked, PrevLinked
      <4>5. heap'[t[k]].next = NextIs(t, k)
        BY <2>6, <2>9, <4>1, <4>2, <4>4 DEF NextIs
      <4>6. heap'[t[k]].prev = PrevIs(t, k)
        <5>1. CASE k = 1
          BY <2>6, <4>1, <4>2, <4>3, <5>1 DEF PrevIs
        <5>2. CASE k # 1
          BY <2>6, <2>9, <4>1, <4>2, <4>3, <4>4, <5>2 DEF PrevIs
        <5> QED
          BY <5>1, <5>2
      <4> QED
        BY <4>5, <4>6
    <3> QED
      BY <3>1 DEF NextLinked, PrevLinked
  <2>18. ListTypes'
    <3>1. head' \in Nodes \cup {NULL} /\ tail' \in Nodes \cup {NULL}
      BY <1>2, <2>1, <2>3 DEF ListTypes
    <3>2. len' \in Nat
      <4>1. len \in Nat /\ len # 0 /\ len' = len - 1
        BY <1>2, <1>5, <2>1
      <4> QED
        BY <4>1
    <3> QED
      BY <1>1, <1>2, <2>7, <2>8, <2>12, <2>14, <3>1, <3>2 DEF ListTypes
  <2>19. WalkInv'
    BY <1>1, <1>3 DEF WalkInv
  <2>20. Allocated(In(order))'
    BY <1>2, <2>5, <2>6, <2>13, <2>14 DEF Allocated
  <2>21. IdleInv'
    BY <1>1, <1>2, <2>1, <2>9, <2>14, <2>15, <2>16, <2>17, <2>20 DEF IdleInv, ListIs
  <2>22. PushInv' /\ RemoveInv'
    BY <1>1 DEF PushInv, RemoveInv, Idle
  <2> QED
    BY <1>1, <1>2, <2>18, <2>19, <2>21, <2>22 DEF ListInv
<1> QED
  BY <1>4, <1>5

LEMMA ListRpop ==
    ASSUME ListInv, list_rpop
    PROVE  ListInv'
<1>1. /\ Idle /\ direction = "none" /\ cur = NULL
      /\ UNCHANGED <<next, direction, cur, ppc, pnode, plen, mpc, mlen, crashed>>
  BY DEF list_rpop, Pop, Whole, Idle
<1>2. /\ ListTypes /\ WalkInv /\ len = Len(order) /\ ListIs(order) /\ Allocated(In(order)) /\ ~crashed
      /\ order \in Seq(Nodes) /\ Len(order) \in Nat /\ Distinct(order)
      /\ \A k \in 1 .. Len(order) : order[k] \in Nodes /\ order[k] # NULL
  BY <1>1, Between
<1>3. next = NULL
  BY <1>1, <1>2 DEF WalkInv
<1>4. CASE len = 0
  <2>1. UNCHANGED <<heap, head, tail, len, order>>
    BY <1>4 DEF list_rpop, Pop, listVars
  <2>2. ListTypes' /\ WalkInv'
    BY <1>1, <1>2, <2>1 DEF ListTypes, WalkInv, Distinct
  <2> QED
    BY <1>1, <1>2, <2>1, <2>2, Unmoved DEF ListInv
<1>5. CASE len # 0
  <2>1. /\ heap' = [m \in Nodes |->
               IF m = tail THEN [heap[m] EXCEPT !.alive = FALSE, !.prev = NULL, !.next = NULL]
               ELSE IF m = heap[tail].prev /\ len # 1 THEN [heap[m] EXCEPT !.next = NULL]
               ELSE heap[m]]
        /\ len' = len - 1
        /\ tail' = (IF len = 1 THEN NULL ELSE heap[tail].prev)
        /\ head' = (IF len = 1 THEN NULL ELSE head)
        /\ order' = Front(order)
    BY <1>5 DEF list_rpop, Pop
  <2>2. /\ len \in 1 .. Len(order) /\ tail = order[len] /\ tail \in Nodes
        /\ heap[tail].prev = PrevIs(order, len) /\ head = order[1]
    BY <1>2, <1>5 DEF ListIs, First, End, PrevLinked
  <2>3. len # 1 => len - 1 \in 1 .. Len(order) /\ heap[tail].prev = order[len - 1] /\ order[len - 1] # tail
    <3>1. len # 1 => len - 1 \in 1 .. Len(order) /\ len - 1 # len
      BY <1>2, <1>5
    <3> QED
      BY <1>2, <2>2, <3>1 DEF PrevIs, Distinct
  <2>4. heap \in [Nodes -> Node]
    BY <1>2 DEF ListTypes
  <2>5. heap'[tail] \in Node /\ ~heap'[tail].alive
    <3>1. heap'[tail] = [heap[tail] EXCEPT !.alive = FALSE, !.prev = NULL, !.next = NULL] /\ heap[tail] \in Node
      BY <2>1, <2>2, <2>4
    <3> QED
      BY <3>1 DEF Node, Carried
  <2>6. ASSUME NEW m \in Nodes, m # tail
        PROVE  /\ heap'[m] \in Node
               /\ heap'[m].next = IF len # 1 /\ m = order[len - 1] THEN NULL ELSE heap[m].next
               /\ heap'[m].prev = heap[m].prev /\ heap'[m].alive = heap[m].alive /\ heap'[m].val = heap[m].val
    <3>1. CASE len # 1 /\ m = order[len - 1]
      <4>1. heap'[m] = [heap[m] EXCEPT !.next = NULL] /\ heap[m] \in Node
        BY <2>1, <2>3, <2>4, <2>6, <3>1
      <4> QED
        BY <3>1, <4>1 DEF Node, Carried
    <3>2. CASE ~ (len # 1 /\ m = order[len - 1])
      <4>1. heap'[m] = heap[m]
        BY <2>1, <2>3, <2>6, <3>2
      <4> QED
        BY <2>4, <3>2, <4>1
    <3> QED
      BY <3>1, <3>2
  <2>7. heap' \in [Nodes -> Node]
    <3>1. \A m \in Nodes : heap'[m] \in Node
      BY <2>5, <2>6
    <3>2. PICK f : heap' = [m \in Nodes |-> f[m]]
      <4>1. heap' = [m \in Nodes |-> heap'[m]]
        BY <2>1
      <4> QED
        BY <4>1
    <3> QED
      BY <3>1, <3>2
  <2>8. PICK t \in Seq(Nodes) : t = Front(order)
    BY <1>2, <1>5, FrontFacts
  <2>9. Len(t) = Len(order) - 1 /\ \A k \in 1 .. Len(t) : t[k] = order[k]
    BY <1>2, <1>5, <2>8, FrontFacts
  <2>10. \A k \in 1 .. Len(t) : k \in 1 .. Len(order) /\ k # len
    BY <1>2, <2>9
  <2>11. \A k \in 1 .. Len(order) : k # len => k \in 1 .. Len(t)
    BY <1>2, <2>9
  <2>12. Distinct(t)
    BY <1>2, <2>9, <2>10 DEF Distinct
  <2>13. In(t) = In(order) \ {tail}
    <3>1. \A k \in 1 .. Len(order) : order[k] = tail <=> k = len
      BY <1>2, <2>2 DEF Distinct
    <3>2. \A k \in 1 .. Len(order) : k # len => t[k] = order[k]
      BY <2>9, <2>11
    <3> QED
      BY <2>9, <2>10, <2>11, <3>1, <3>2 DEF In
  <2>14. order' = t
    BY <2>1, <2>8
  <2>15. head' = First(t)
    <3>1. len # 1 => Len(t) # 0 /\ 1 \in 1 .. Len(t)
      BY <1>2, <1>5, <2>9
    <3>2. len = 1 => Len(t) = 0
      BY <1>2, <2>9
    <3> QED
      BY <2>1, <2>2, <2>9, <3>1, <3>2 DEF First
  <2>16. tail' = End(t)
    <3>1. len # 1 => Len(t) # 0 /\ Len(t) \in 1 .. Len(t) /\ Len(t) = len - 1
      BY <1>2, <1>5, <2>9
    <3>2. len = 1 => Len(t) = 0
      BY <1>2, <2>9
    <3> QED
      BY <2>1, <2>3, <2>9, <3>1, <3>2 DEF End
  <2>17. NextLinked(heap', t) /\ PrevLinked(heap', t)
    <3>1. ASSUME NEW k \in 1 .. Len(t) PROVE heap'[t[k]].next = NextIs(t, k) /\ heap'[t[k]].prev = PrevIs(t, k)
      <4>1. /\ k \in 1 .. Len(order) /\ k # len /\ len # 1 /\ k # Len(order)
            /\ k = Len(t) <=> k = len - 1
            /\ k # Len(t) => k + 1 \in 1 .. Len(t)
            /\ k # 1 => k - 1 \in 1 .. Len(t)
        BY <1>2, <2>9
      <4>2. t[k] = order[k] /\ order[k] \in Nodes /\ order[k] # tail
        BY <1>2, <2>2, <2>9, <4>1 DEF Distinct
      <4>3. order[k] = order[len - 1] <=> k = len - 1
        BY <1>2, <2>3, <4>1 DEF Distinct
      <4>4. heap[order[k]].next = NextIs(order, k) /\ heap[order[k]].prev = PrevIs(order, k)
        BY <1>2, <4>1 DEF ListIs, NextLinked, PrevLinked
      <4>5. heap'[t[k]].prev = PrevIs(t, k)
        BY <2>6, <2>9, <4>1, <4>2, <4>4 DEF PrevIs
      <4>6. heap'[t[k]].next = NextIs(t, k)
        <5>1. CASE k = len - 1
          BY <2>6, <4>1, <4>2, <4>3, <5>1 DEF NextIs
        <5>2. CASE k # len - 1
          BY <2>6, <2>9, <4>1, <4>2, <4>3, <4>4, <5>2 DEF NextIs
        <5> QED
          BY <5>1, <5>2
      <4> QED
        BY <4>5, <4>6
    <3> QED
      BY <3>1 DEF NextLinked, PrevLinked
  <2>18. ListTypes'
    <3>1. head' \in Nodes \cup {NULL} /\ tail' \in Nodes \cup {NULL}
      BY <1>2, <2>1, <2>3 DEF ListTypes
    <3>2. len' \in Nat
      <4>1. len \in Nat /\ len # 0 /\ len' = len - 1
        BY <1>2, <1>5, <2>1
      <4> QED
        BY <4>1
    <3> QED
      BY <1>1, <1>2, <2>7, <2>8, <2>12, <2>14, <3>1, <3>2 DEF ListTypes
  <2>19. WalkInv'
    BY <1>1, <1>3 DEF WalkInv
  <2>20. Allocated(In(order))'
    BY <1>2, <2>5, <2>6, <2>13, <2>14 DEF Allocated
  <2>21. IdleInv'
    BY <1>1, <1>2, <2>1, <2>9, <2>14, <2>15, <2>16, <2>17, <2>20 DEF IdleInv, ListIs
  <2>22. PushInv' /\ RemoveInv'
    BY <1>1 DEF PushInv, RemoveInv, Idle
  <2> QED
    BY <1>1, <1>2, <2>18, <2>19, <2>21, <2>22 DEF ListInv
<1> QED
  BY <1>4, <1>5

-----------------------------------------------------------------------------
(* The list stays a list, and the walk on it.                              *)

LEMMA ListInit ==
    ASSUME Init
    PROVE  ListInv
<1>1. NoNode \in Node /\ ~NoNode.alive
  BY DEF NoNode, Node, Carried
<1>2. heap \in [Nodes -> Node] /\ \A n \in Nodes : ~heap[n].alive
  BY <1>1 DEF Init
<1>3. order \in Seq(Nodes) /\ Len(order) = 0 /\ In(order) = {}
  BY DEF Init, In
<1>4. ListTypes
  BY <1>2, <1>3 DEF Init, ListTypes, Distinct
<1>5. ListIs(order) /\ Allocated(In(order))
  BY <1>2, <1>3 DEF Init, ListIs, First, End, NextLinked, PrevLinked, Allocated
<1> QED
  BY <1>3, <1>4, <1>5 DEF Init, ListInv, WalkInv, IdleInv, PushInv, RemoveInv, Idle

LEMMA ListStep ==
    ASSUME Serialised, ListInv, [Next]_vars
    PROVE  ListInv'
<1>1. ASSUME UNCHANGED vars PROVE ListInv'
  <2>1. UNCHANGED <<heap, head, tail, len, next, direction, cur, ret, ppc, pnode, plen, mpc, mlen, order, crashed>>
    BY <1>1 DEF vars, listVars, walkVars
  <2>2. ListTypes' /\ WalkInv' /\ ~crashed'
    BY <2>1 DEF ListInv, ListTypes, Distinct, WalkInv
  <2>3. New' = New /\ Rest' = Rest /\ IndexOf(cur)' = IndexOf(cur) /\ In(order)' = In(order)
    BY <2>1 DEF New, Rest, IndexOf
  <2>4. IdleInv'
    BY <2>1 DEF ListInv, IdleInv, Idle, ListIs, Allocated
  <2>5. PushInv'
    BY <2>1, <2>3 DEF ListInv, PushInv, ListIs, Allocated
  <2>6. RemoveInv'
    <3>1. heap' = heap /\ order' = order
      BY <2>1
    <3> QED
      BY <2>1, <2>3, <3>1 DEF ListInv, RemoveInv, Allocated
  <2> QED
    BY <2>2, <2>4, <2>5, <2>6 DEF ListInv
<1>2. ASSUME NEW v \in Values, list_node_new(v) \/ list_rpush(v) \/ list_find(v) PROVE ListInv'
  BY <1>2, NewNode, ListRpush, ListFind
<1>3. ASSUME LinkNode \/ LinkHead \/ SetHead \/ LpushCount PROVE ListInv'
  BY <1>3, LinkNodeStep, LinkHeadStep, SetHeadStep, LpushCountStep
<1>4. ASSUME NEW d \in {"head", "tail"}, list_iterator_new(d) PROVE ListInv'
  BY <1>4, IteratorNew
<1>5. ASSUME list_iterator_next \/ list_iterator_destroy PROVE ListInv'
  BY <1>5, IteratorNext, IteratorDestroy
<1>6. ASSUME UnlinkPrev \/ UnlinkNext \/ FreeNode \/ RemoveCount PROVE ListInv'
  BY <1>6, UnlinkPrevStep, UnlinkNextStep, FreeNodeStep, RemoveCountStep
<1>7. ASSUME list_lpop \/ list_rpop \/ list_destroy PROVE ListInv'
  BY <1>7, ListLpop, ListRpop, ListDestroy
<1>8. ASSUME NEW j \in Indices, list_at(j) PROVE ListInv'
  BY <1>8, ListAt
<1> QED
  BY <1>1, <1>2, <1>3, <1>4, <1>5, <1>6, <1>7, <1>8 DEF Next

\* While the operations do not overlap, what ListInv says of the list in the
\* middle of one holds (src/utils/utils_list.c:68-80, :220-232).
THEOREM ListInvariant == Serialised => (Spec => []ListInv)
<1> SUFFICES ASSUME Serialised PROVE Spec => []ListInv
  OBVIOUS
<1>1. Init => ListInv
  BY ListInit
<1>2. ListInv /\ [Next]_vars => ListInv'
  BY ListStep
<1> QED
  BY <1>1, <1>2, PTL DEF Spec

\* However many nodes there are, the list between two operations is the one that
\* the operations so far leave: along next and along prev, its ends, its length,
\* and no node lost (src/utils/utils_list.c:68-153, :220-232).
THEOREM WellFormedAlways == Serialised => (Spec => []WellFormed)
<1> SUFFICES ASSUME Serialised PROVE Spec => []WellFormed
  OBVIOUS
<1>1. ListInv => WellFormed
  <2> SUFFICES ASSUME ListInv, Idle PROVE WellFormed
    BY DEF WellFormed
  <2>1. /\ ListTypes /\ len = Len(order) /\ ListIs(order) /\ Allocated(In(order))
        /\ \A k \in 1 .. Len(order) : order[k] \in Nodes
    BY Between
  <2>2. {n \in Nodes : heap[n].alive} = {order[k] : k \in 1 .. len}
    <3>1. In(order) \subseteq Nodes
      BY <2>1 DEF In
    <3>2. {n \in Nodes : heap[n].alive} = In(order)
      BY <2>1, <3>1 DEF Allocated
    <3> QED
      BY <2>1, <3>2 DEF In
  <2> QED
    BY <2>1, <2>2 DEF WellFormed, ListTypes, Distinct, ListIs, First, End, NextLinked, PrevLinked, NextIs, PrevIs
<1> QED
  BY <1>1, ListInvariant, PTL

\* A walk never holds a freed node, whatever is pushed or removed while it is
\* under way (src/utils/utils_list.c:261-268).
THEOREM WalkAlwaysSafe == Serialised => (Spec => []WalkSafe)
<1> SUFFICES ASSUME Serialised PROVE Spec => []WalkSafe
  OBVIOUS
<1>1. ListInv => WalkSafe
  <2> SUFFICES ASSUME ListInv PROVE WalkSafe
    OBVIOUS
  <2>1. ListTypes /\ WalkInv /\ ~crashed
    BY DEF ListInv
  <2>2. \A n \in In(order) : n \in Nodes
    BY <2>1 DEF In, ListTypes
  <2>3. ASSUME NEW n \in In(order), mpc = "count" => n # cur PROVE heap[n].alive
    <3>1. CASE Idle
      BY <2>2, <3>1, Between DEF Allocated
    <3>2. CASE ppc # "idle"
      BY <2>2, <3>2 DEF ListInv, PushInv, Allocated
    <3>3. CASE mpc # "idle"
      BY <2>2, <2>3, <3>3 DEF ListInv, RemoveInv, Allocated
    <3> QED
      BY <3>1, <3>2, <3>3 DEF Idle
  <2> QED
    BY <2>1, <2>3 DEF WalkSafe, WalkInv
<1> QED
  BY <1>1, ListInvariant, PTL

-----------------------------------------------------------------------------
(***************************************************************************)
(* The list implements Deque.                                              *)
(***************************************************************************)
Items(h, s) == [k \in 1 .. Len(s) |-> h[s[k]].val]
Place(s, n) == IF \E k \in 1 .. Len(s) : s[k] = n
               THEN CHOOSE k \in 1 .. Len(s) : s[k] = n ELSE 0

LEMMA ItemsFacts ==
    ASSUME NEW h \in [Nodes -> Node], NEW s \in Seq(Nodes), NEW q, q = Items(h, s)
    PROVE  /\ q \in Seq(Carried) /\ Len(q) = Len(s) /\ Len(s) \in Nat
           /\ \A k \in 1 .. Len(s) : q[k] = h[s[k]].val /\ q[k] \in Carried
<1>1. Len(s) \in Nat /\ \A k \in 1 .. Len(s) : s[k] \in Nodes
  OBVIOUS
<1>2. \A k \in 1 .. Len(s) : q[k] = h[s[k]].val /\ q[k] \in Carried
  BY <1>1 DEF Items, Carried, Node
<1>3. q \in [1 .. Len(s) -> Carried]
  BY <1>2 DEF Items
<1>4. q \in Seq(Carried)
  BY <1>1, <1>3, SeqDef
<1>5. Len(q) = Len(s)
  BY <1>1, <1>3, <1>4, LenProperties
<1> QED
  BY <1>1, <1>2, <1>4, <1>5

\* The values do not change while those of the nodes in the list do not.
LEMMA SameItems ==
    ASSUME NEW s \in Seq(Nodes), NEW h, NEW g, \A n \in Nodes : g[n].val = h[n].val
    PROVE  Items(g, s) = Items(h, s)
BY DEF Items

LEMMA PlaceFacts ==
    ASSUME NEW s \in Seq(Nodes), Distinct(s)
    PROVE  /\ \A k \in 1 .. Len(s) : Place(s, s[k]) = k
           /\ \A n : n \in In(s) => Place(s, n) \in 1 .. Len(s) /\ s[Place(s, n)] = n
           /\ \A n : n \notin In(s) => Place(s, n) = 0
           /\ Place(s, NULL) = 0
<1>1. ASSUME NEW k \in 1 .. Len(s) PROVE Place(s, s[k]) = k
  BY <1>1 DEF Place, Distinct
<1>2. ASSUME NEW n, n \notin In(s) PROVE Place(s, n) = 0
  BY <1>2 DEF Place, In
<1>3. ASSUME NEW n, n \in In(s) PROVE Place(s, n) \in 1 .. Len(s) /\ s[Place(s, n)] = n
  <2>1. PICK k \in 1 .. Len(s) : s[k] = n
    BY <1>3 DEF In
  <2> QED
    BY <1>1, <2>1
<1>4. NULL \notin In(s)
  <2>1. \A n \in In(s) : n \in Nodes
    BY DEF In
  <2> QED
    BY <2>1, ListAssumption DEF Nodes, NULL
<1> QED
  BY <1>1, <1>2, <1>3, <1>4

LEMMA InitRefines ==
    ASSUME Init
    PROVE  Abstract!Init
<1>1. order = <<>> /\ direction = "none" /\ ret = 0
  BY DEF Init, NULL
<1>2. \A n : IndexOf(n) = 0
  BY <1>1 DEF IndexOf
<1>3. [k \in 1 .. Len(order) |-> heap[order[k]].val] = <<>>
  BY <1>1
<1> QED
  BY <1>1, <1>2, <1>3 DEF Abstract!Init

\* Steps inside an operation are not seen.
LEMMA Stutter ==
    ASSUME ListTypes, UNCHANGED <<order, next, cur, direction, ret>>,
           \A n \in Nodes : n \in In(order) => heap'[n].val = heap[n].val
    PROVE  UNCHANGED Abstract!vars
<1>1. \A k \in 1 .. Len(order) : order[k] \in Nodes /\ order[k] \in In(order)
  BY DEF ListTypes, In
<1>2. [k \in 1 .. Len(order) |-> heap'[order[k]].val] = [k \in 1 .. Len(order) |-> heap[order[k]].val]
  BY <1>1
<1>3. [k \in 1 .. Len(order) |-> heap[order[k]].val]' = [k \in 1 .. Len(order) |-> heap[order[k]].val]
  BY <1>2
<1>4. IndexOf(cur)' = IndexOf(cur) /\ IndexOf(next)' = IndexOf(next)
  BY DEF IndexOf
<1> QED
  BY <1>3, <1>4 DEF Abstract!vars

\* What a node carries does not change with its links.
LEMMA Carries ==
    ASSUME NEW h, NEW g, NEW n, NEW x, h \in [Nodes -> Node],
           \/ g = [h EXCEPT ![n].next = x] \/ g = [h EXCEPT ![n].prev = x]
           \/ g = [h EXCEPT ![n].alive = x]
    PROVE  \A m \in Nodes : g[m].val = h[m].val
<1> SUFFICES ASSUME NEW m \in Nodes PROVE g[m].val = h[m].val
  OBVIOUS
<1>1. h[m] \in Node
  OBVIOUS
<1>2. \/ g[m] = h[m] \/ g[m] = [h[m] EXCEPT !.next = x]
      \/ g[m] = [h[m] EXCEPT !.prev = x] \/ g[m] = [h[m] EXCEPT !.alive = x]
  OBVIOUS
<1>3. h[m] = [alive |-> h[m].alive, prev |-> h[m].prev, next |-> h[m].next, val |-> h[m].val]
  BY <1>1 DEF Node, Carried
<1> QED
  BY <1>2, <1>3

LEMMA NewUnseen ==
    ASSUME Serialised, ListInv, NEW v \in Values, list_node_new(v)
    PROVE  UNCHANGED Abstract!vars
<1> DEFINE r == [alive |-> TRUE, prev |-> NULL, next |-> NULL, val |-> v]
<1>1. /\ Idle /\ pnode' \in Nodes /\ ~heap[pnode'].alive /\ heap' = [heap EXCEPT ![pnode'] = r]
      /\ UNCHANGED <<order, next, cur, direction, ret>>
  BY DEF list_node_new, ParserGoto, Free, Idle, walkVars
<1> HIDE DEF r
<1>2. ListTypes /\ Allocated(In(order))
  BY <1>1, Between
<1>3. \A n \in Nodes : n # pnode' => heap'[n] = heap[n]
  BY <1>1, <1>2 DEF ListTypes
<1>4. pnode' \notin In(order)
  BY <1>1, <1>2 DEF Allocated
<1> QED
  BY <1>1, <1>2, <1>3, <1>4, Stutter

LEMMA LinkUnseen ==
    ASSUME ListInv, LinkNode \/ LinkHead \/ SetHead
    PROVE  UNCHANGED Abstract!vars
<1>1. ListTypes /\ heap \in [Nodes -> Node]
  BY DEF ListInv, ListTypes
<1>2. UNCHANGED <<order, next, cur, direction, ret>>
  BY DEF LinkNode, LinkHead, SetHead, walkVars
<1>3. \A n \in Nodes : heap'[n].val = heap[n].val
  <2>1. CASE LinkNode
    <3>1. PICK g, y, z : g = [heap EXCEPT ![pnode].prev = y] /\ heap' = [g EXCEPT ![pnode].next = z]
      BY <2>1 DEF LinkNode
    <3>2. \A n \in Nodes : g[n].val = heap[n].val
      BY <1>1, <3>1, Carries
    <3>3. pnode \in Nodes /\ ppc = "link"
      BY <2>1 DEF ListInv, PushInv, LinkNode, ParserGoto
    <3>4. ASSUME NEW n \in Nodes PROVE heap'[n].val = g[n].val
      <4>1. g[n] = heap[n] \/ g[n] = [heap[n] EXCEPT !.prev = y]
        BY <1>1, <3>1
      <4>2. heap[n] = [alive |-> heap[n].alive, prev |-> heap[n].prev, next |-> heap[n].next, val |-> heap[n].val]
        BY <1>1 DEF Node, Carried
      <4>3. g[n] = [alive |-> g[n].alive, prev |-> g[n].prev, next |-> g[n].next, val |-> g[n].val]
        BY <4>1, <4>2
      <4>4. heap'[n] = g[n] \/ heap'[n] = [g[n] EXCEPT !.next = z]
        BY <1>1, <3>1
      <4> QED
        BY <4>3, <4>4
    <3> QED
      BY <3>2, <3>4
  <2>2. CASE LinkHead
    <3>1. heap' = heap \/ heap' = [heap EXCEPT ![head].prev = pnode]
      BY <2>2 DEF LinkHead
    <3> QED
      BY <1>1, <3>1, Carries
  <2>3. CASE SetHead
    BY <2>3 DEF SetHead
  <2> QED
    BY <2>1, <2>2, <2>3
<1> QED
  BY <1>1, <1>2, <1>3, Stutter

LEMMA UnlinkUnseen ==
    ASSUME ListInv, UnlinkPrev \/ UnlinkNext \/ FreeNode
    PROVE  UNCHANGED Abstract!vars
<1>1. ListTypes /\ heap \in [Nodes -> Node]
  BY DEF ListInv, ListTypes
<1>2. UNCHANGED <<order, next, cur, direction, ret>>
  BY DEF UnlinkPrev, UnlinkNext, FreeNode, walkVars
<1>3. \A n \in Nodes : heap'[n].val = heap[n].val
  <2>1. \/ heap' = heap
        \/ \E p, x : heap' = [heap EXCEPT ![p].next = x]
        \/ \E p, x : heap' = [heap EXCEPT ![p].prev = x]
        \/ \E p, x : heap' = [heap EXCEPT ![p].alive = x]
    BY DEF UnlinkPrev, UnlinkNext, FreeNode
  <2>2. \/ heap' = heap
        \/ \E p, x : \/ heap' = [heap EXCEPT ![p].next = x]
                     \/ heap' = [heap EXCEPT ![p].prev = x]
                     \/ heap' = [heap EXCEPT ![p].alive = x]
    BY <2>1
  <2>3. ASSUME NEW p, NEW x, \/ heap' = [heap EXCEPT ![p].next = x]
                             \/ heap' = [heap EXCEPT ![p].prev = x]
                             \/ heap' = [heap EXCEPT ![p].alive = x]
        PROVE  \A n \in Nodes : heap'[n].val = heap[n].val
    BY <1>1, <2>3, Carries
  <2> QED
    BY <2>2, <2>3
<1> QED
  BY <1>1, <1>2, <1>3, Stutter

LEMMA PushRefines ==
    ASSUME Serialised, ListInv, LpushCount
    PROVE  Abstract!Next
<1>1. /\ ppc = "count" /\ order' = New
      /\ UNCHANGED <<heap, next, direction, cur, ret>>
  BY DEF LpushCount, ParserGoto, walkVars, New
<1>2. /\ ListTypes /\ WalkInv /\ pnode \in Nodes /\ pnode \notin In(order) /\ heap[pnode].val \in Values
  BY <1>1 DEF ListInv, PushInv
<1>3. /\ New \in Seq(Nodes) /\ Len(order) \in Nat /\ Len(New) = Len(order) + 1 /\ New[1] = pnode
      /\ \A k \in 2 .. Len(New) : New[k] = order[k - 1]
      /\ Distinct(New) /\ In(New) = In(order) \cup {pnode}
  BY <1>2, NewFacts
<1>4. order \in Seq(Nodes) /\ Distinct(order) /\ heap \in [Nodes -> Node]
  BY <1>2 DEF ListTypes
<1>5. PICK v \in Values : v = heap[pnode].val
  BY <1>2
<1>6. PICK q : q = Items(heap, order)
  OBVIOUS
<1>7. q \in Seq(Carried) /\ Len(q) = Len(order) /\ \A k \in 1 .. Len(order) : q[k] = heap[order[k]].val
  BY <1>4, <1>6, ItemsFacts
<1>8. PICK t : t = Items(heap, New)
  OBVIOUS
<1>9. t \in Seq(Carried) /\ Len(t) = Len(New) /\ \A k \in 1 .. Len(New) : t[k] = heap[New[k]].val
  BY <1>3, <1>4, <1>8, ItemsFacts
<1>10. t = <<v>> \o q
  <2>1. PICK u : u = <<v>> \o q
    OBVIOUS
  <2>2. v \in Carried
    BY DEF Carried
  <2>3. u \in Seq(Carried) /\ Len(u) = Len(q) + 1 /\ u[1] = v /\ \A k \in 2 .. Len(u) : u[k] = q[k - 1]
    BY <1>7, <2>1, <2>2, PushFacts
  <2>4. Len(t) = Len(u)
    BY <1>3, <1>7, <1>9, <2>3
  <2>5. ASSUME NEW k \in 1 .. Len(t) PROVE t[k] = u[k]
    <3>1. CASE k = 1
      BY <1>3, <1>5, <1>9, <2>3, <2>5, <3>1
    <3>2. CASE k # 1
      <4>1. k \in 2 .. Len(New) /\ k \in 2 .. Len(u) /\ k \in 1 .. Len(New) /\ k - 1 \in 1 .. Len(order)
        BY <1>3, <1>7, <1>9, <2>3, <2>4, <3>2
      <4> QED
        BY <1>3, <1>7, <1>9, <2>3, <4>1
    <3> QED
      BY <3>1, <3>2
  <2>6. t = u
    BY <1>9, <2>3, <2>4, <2>5, SeqEqual
  <2> QED
    BY <2>1, <2>6
<1>11. ASSUME NEW n, n = NULL \/ n \in In(order)
       PROVE  Place(New, n) = Abstract!Shifted(Place(order, n))
  <2>1. CASE n = NULL
    BY <1>3, <1>4, <2>1, PlaceFacts DEF Abstract!Shifted
  <2>2. CASE n \in In(order)
    <3>1. PICK k \in 1 .. Len(order) : order[k] = n
      BY <2>2 DEF In
    <3>2. k + 1 \in 1 .. Len(New) /\ k + 1 \in 2 .. Len(New) /\ (k + 1) - 1 = k /\ k # 0
      BY <1>3
    <3>3. New[k + 1] = n
      BY <1>3, <3>1, <3>2
    <3>4. Place(New, n) = k + 1
      BY <1>3, <3>2, <3>3, PlaceFacts
    <3>5. Place(order, n) = k
      BY <1>4, <3>1, PlaceFacts
    <3> QED
      BY <3>2, <3>4, <3>5 DEF Abstract!Shifted
  <2> QED
    BY <1>11, <2>1, <2>2
<1>12. /\ IndexOf(cur)' = Abstract!Shifted(IndexOf(cur))
       /\ IndexOf(next)' = Abstract!Shifted(IndexOf(next))
  <2>1. (cur = NULL \/ cur \in In(order)) /\ (next = NULL \/ next \in In(order))
    BY <1>2 DEF WalkInv
  <2>2. /\ Place(New, cur) = Abstract!Shifted(Place(order, cur))
        /\ Place(New, next) = Abstract!Shifted(Place(order, next))
    BY <1>11, <2>1
  <2>3. IndexOf(cur)' = Place(New, cur) /\ IndexOf(next)' = Place(New, next)
    BY <1>1 DEF IndexOf, Place
  <2>4. IndexOf(cur) = Place(order, cur) /\ IndexOf(next) = Place(order, next)
    BY DEF IndexOf, Place
  <2> QED
    BY <2>2, <2>3, <2>4
<1>13. Items(heap, order)' = <<v>> \o Items(heap, order)
  BY <1>1, <1>6, <1>8, <1>10 DEF Items
<1>14. Abstract!LPush(v)
  BY <1>1, <1>12, <1>13 DEF Abstract!LPush, Items
<1> QED
  BY <1>14 DEF Abstract!Next

LEMMA RemoveRefines ==
    ASSUME Serialised, ListInv, RemoveCount
    PROVE  Abstract!Next
<1>1. /\ mpc = "count" /\ cur' = NULL /\ order' = Rest
      /\ UNCHANGED <<heap, next, direction, ret>>
  BY DEF RemoveCount, MainGoto, Rest
<1>2. ListTypes /\ WalkInv /\ cur \in In(order)
  BY <1>1 DEF ListInv, RemoveInv
<1>3. PICK i : i = IndexOf(cur)
  OBVIOUS
<1>4. /\ Len(order) \in Nat /\ i \in 1 .. Len(order) /\ order[i] = cur
      /\ Rest \in Seq(Nodes) /\ Len(Rest) = Len(order) - 1
      /\ \A k \in 1 .. Len(Rest) : Rest[k] = (IF k < i THEN order[k] ELSE order[k + 1])
      /\ Distinct(Rest)
  BY <1>2, <1>3, RestFacts
<1>5. order \in Seq(Nodes) /\ Distinct(order) /\ heap \in [Nodes -> Node]
  BY <1>2 DEF ListTypes
<1>6. PICK q : q = Items(heap, order)
  OBVIOUS
<1>7. q \in Seq(Carried) /\ Len(q) = Len(order) /\ \A k \in 1 .. Len(order) : q[k] = heap[order[k]].val
  BY <1>5, <1>6, ItemsFacts
<1>8. PICK t : t = Items(heap, Rest)
  OBVIOUS
<1>9. t \in Seq(Carried) /\ Len(t) = Len(Rest) /\ \A k \in 1 .. Len(Rest) : t[k] = heap[Rest[k]].val
  BY <1>4, <1>5, <1>8, ItemsFacts
<1>10. t = RemoveAt(q, i)
  <2>1. PICK u : u = RemoveAt(q, i)
    OBVIOUS
  <2>2. i \in 1 .. Len(q)
    BY <1>4, <1>7
  <2>3. /\ u \in Seq(Carried) /\ Len(u) = Len(q) - 1
        /\ \A k \in 1 .. Len(u) : u[k] = (IF k < i THEN q[k] ELSE q[k + 1])
    BY <1>7, <2>1, <2>2, RemoveFacts
  <2>4. Len(t) = Len(u)
    BY <1>4, <1>7, <1>9, <2>3
  <2>5. ASSUME NEW k \in 1 .. Len(t) PROVE t[k] = u[k]
    <3>1. k \in 1 .. Len(Rest) /\ k \in 1 .. Len(u) /\ k \in 1 .. Len(order) /\ k + 1 \in 1 .. Len(order)
      BY <1>4, <1>9, <2>4
    <3> QED
      BY <1>4, <1>7, <1>9, <2>3, <3>1
  <2>6. t = u
    BY <1>9, <2>3, <2>4, <2>5, SeqEqual
  <2> QED
    BY <2>1, <2>6
<1>11. IndexOf(cur)' = 0
  <2>1. IndexOf(cur)' = Place(Rest, NULL)
    BY <1>1 DEF IndexOf, Place
  <2> QED
    BY <1>4, <2>1, PlaceFacts
<1>12. IndexOf(next)' = (IF IndexOf(next) > i THEN IndexOf(next) - 1 ELSE IndexOf(next))
  <2>1. IndexOf(next)' = Place(Rest, next) /\ IndexOf(next) = Place(order, next)
    BY <1>1 DEF IndexOf, Place
  <2>2. CASE next = NULL
    <3>1. Place(Rest, next) = 0 /\ Place(order, next) = 0
      BY <1>4, <1>5, <2>2, PlaceFacts
    <3>2. ~ (0 > i)
      BY <1>4
    <3> QED
      BY <2>1, <3>1, <3>2
  <2>3. CASE next # NULL
    <3>1. next \in In(order) /\ next # cur
      BY <1>2, <2>3 DEF WalkInv
    <3>2. PICK k \in 1 .. Len(order) : order[k] = next
      BY <3>1 DEF In
    <3>3. Place(order, next) = k /\ k # i
      BY <1>4, <1>5, <3>1, <3>2, PlaceFacts
    <3>4. CASE k < i
      <4>1. k \in 1 .. Len(Rest) /\ ~ (k > i)
        BY <1>4, <3>4
      <4>2. Rest[k] = next
        BY <1>4, <3>2, <3>4, <4>1
      <4>3. Place(Rest, next) = k
        BY <1>4, <4>1, <4>2, PlaceFacts
      <4> QED
        BY <2>1, <3>3, <4>1, <4>3
    <3>5. CASE k > i
      <4>1. k - 1 \in 1 .. Len(Rest) /\ ~ (k - 1 < i) /\ (k - 1) + 1 = k
        BY <1>4, <3>5
      <4>2. Rest[k - 1] = next
        BY <1>4, <3>2, <4>1
      <4>3. Place(Rest, next) = k - 1
        BY <1>4, <4>1, <4>2, PlaceFacts
      <4> QED
        BY <2>1, <3>3, <3>5, <4>3
    <3>6. k < i \/ k > i
      BY <1>4, <3>3
    <3> QED
      BY <3>4, <3>5, <3>6
  <2> QED
    BY <2>2, <2>3
<1>13. Items(heap, order)' = RemoveAt(Items(heap, order), IndexOf(cur))
  BY <1>1, <1>3, <1>6, <1>8, <1>10 DEF Items
<1>14. IndexOf(cur) # 0
  BY <1>3, <1>4
<1>15. \A s, j : Abstract!RemoveAt(s, j) = RemoveAt(s, j)
  BY DEF RemoveAt, Abstract!RemoveAt
<1>16. Items(heap, order)' = Abstract!RemoveAt(Items(heap, order), IndexOf(cur))
  BY <1>13, <1>15
<1>17. Abstract!Drop
  BY <1>1, <1>3, <1>11, <1>12, <1>14, <1>16 DEF Abstract!Drop, Items
<1> QED
  BY <1>17 DEF Abstract!Next

LEMMA RpushRefines ==
    ASSUME ListInv, NEW v \in Values, list_rpush(v)
    PROVE  Abstract!Next
<1>1. PICK n \in Free :
          /\ heap' = [m \in Nodes |->
                IF m = n THEN [alive |-> TRUE, prev |-> tail, next |-> NULL, val |-> v]
                ELSE IF m = tail /\ len # 0 THEN [heap[m] EXCEPT !.next = n] ELSE heap[m]]
          /\ order' = Append(order, n)
  BY DEF list_rpush
<1>2. Idle /\ UNCHANGED <<next, direction, cur, ret>>
  BY DEF list_rpush, Whole, Idle, walkVars
<1>3. /\ ListTypes /\ WalkInv /\ Allocated(In(order)) /\ order \in Seq(Nodes) /\ Len(order) \in Nat
      /\ Distinct(order) /\ \A k \in 1 .. Len(order) : order[k] \in Nodes
  BY <1>2, Between
<1>4. n \in Nodes /\ n \notin In(order) /\ heap \in [Nodes -> Node]
  BY <1>3 DEF Free, Allocated, ListTypes
<1>5. \A k \in 1 .. Len(order) : order[k] # n
  BY <1>4 DEF In
<1>6. PICK s \in Seq(Nodes) : s = Append(order, n)
  <2>1. order \in Seq(Nodes) /\ n \in Nodes
    BY <1>3, <1>4
  <2>2. Append(order, n) \in Seq(Nodes)
    BY <2>1
  <2> QED
    BY <2>2
<1>7. Len(s) = Len(order) + 1 /\ s[Len(s)] = n /\ \A k \in 1 .. Len(order) : s[k] = order[k]
  BY <1>3, <1>4, <1>6, AppendFacts
<1>8. heap'[n].val = v
  BY <1>1, <1>4
<1>9. ASSUME NEW m \in Nodes, m # n PROVE heap'[m].val = heap[m].val
  <2>1. heap'[m] = heap[m] \/ heap'[m] = [heap[m] EXCEPT !.next = n]
    BY <1>1, <1>9
  <2>2. heap[m] = [alive |-> heap[m].alive, prev |-> heap[m].prev, next |-> heap[m].next, val |-> heap[m].val]
    BY <1>4 DEF Node, Carried
  <2> QED
    BY <2>1, <2>2
<1>10. ListInv'
  BY ListRpush
<1>11. order' = s
  BY <1>1, <1>6
<1>12. heap' \in [Nodes -> Node] /\ Distinct(s)
  BY <1>10, <1>11 DEF ListInv, ListTypes
<1>13. PICK q : q = Items(heap, order)
  OBVIOUS
<1>14. q \in Seq(Carried) /\ Len(q) = Len(order) /\ \A k \in 1 .. Len(order) : q[k] = heap[order[k]].val
  BY <1>3, <1>4, <1>13, ItemsFacts
<1>15. PICK t : t = Items(heap', s)
  OBVIOUS
<1>16. t \in Seq(Carried) /\ Len(t) = Len(s) /\ \A k \in 1 .. Len(s) : t[k] = heap'[s[k]].val
  BY <1>12, <1>15, ItemsFacts
<1>17. t = Append(q, v)
  <2>1. PICK u : u = Append(q, v)
    OBVIOUS
  <2>2. v \in Carried
    BY DEF Carried
  <2>3. u \in Seq(Carried) /\ Len(u) = Len(q) + 1 /\ u[Len(u)] = v /\ \A k \in 1 .. Len(q) : u[k] = q[k]
    BY <1>14, <2>1, <2>2, AppendFacts
  <2>4. Len(t) = Len(u)
    BY <1>7, <1>14, <1>16, <2>3
  <2>5. ASSUME NEW k \in 1 .. Len(t) PROVE t[k] = u[k]
    <3>1. CASE k = Len(t)
      BY <1>7, <1>8, <1>16, <2>3, <2>4, <2>5, <3>1
    <3>2. CASE k # Len(t)
      <4>1. k \in 1 .. Len(order) /\ k \in 1 .. Len(s)
        BY <1>3, <1>7, <1>16, <3>2
      <4> QED
        <5>1. t[k] = heap'[s[k]].val /\ s[k] = order[k] /\ u[k] = heap[order[k]].val
          BY <1>7, <1>14, <1>16, <2>3, <4>1
        <5>2. order[k] \in Nodes /\ order[k] # n
          BY <1>3, <1>5, <4>1
        <5> QED
          BY <1>9, <5>1, <5>2
    <3> QED
      BY <3>1, <3>2
  <2>6. t = u
    BY <1>16, <2>3, <2>4, <2>5, SeqEqual
  <2> QED
    BY <2>1, <2>6
<1>18. ASSUME NEW x, x = NULL \/ x \in In(order)
       PROVE  Place(s, x) = Place(order, x)
  <2>1. CASE x = NULL
    BY <1>3, <1>12, <2>1, PlaceFacts
  <2>2. CASE x \in In(order)
    <3>1. PICK k \in 1 .. Len(order) : order[k] = x
      BY <2>2 DEF In
    <3>2. k \in 1 .. Len(s) /\ s[k] = x
      BY <1>3, <1>7, <3>1
    <3> QED
      BY <1>3, <1>12, <3>1, <3>2, PlaceFacts
  <2> QED
    BY <1>18, <2>1, <2>2
<1>19. UNCHANGED <<IndexOf(cur), IndexOf(next)>>
  <2>1. (cur = NULL \/ cur \in In(order)) /\ (next = NULL \/ next \in In(order))
    BY <1>3 DEF WalkInv
  <2>2. Place(s, cur) = Place(order, cur) /\ Place(s, next) = Place(order, next)
    BY <1>18, <2>1
  <2>3. IndexOf(cur)' = Place(s, cur) /\ IndexOf(next)' = Place(s, next)
    BY <1>2, <1>11 DEF IndexOf, Place
  <2>4. IndexOf(cur) = Place(order, cur) /\ IndexOf(next) = Place(order, next)
    BY DEF IndexOf, Place
  <2> QED
    BY <2>2, <2>3, <2>4
<1>20. Items(heap, order)' = Append(Items(heap, order), v)
  BY <1>11, <1>13, <1>15, <1>17 DEF Items
<1>21. Abstract!RPush(v)
  BY <1>2, <1>19, <1>20 DEF Abstract!RPush, Items
<1> QED
  BY <1>21 DEF Abstract!Next

LEMMA PopRefines ==
    ASSUME ListInv, list_lpop \/ list_rpop
    PROVE  Abstract!Next
<1>1. Idle /\ direction = "none" /\ cur = NULL /\ UNCHANGED <<next, direction, cur>>
  BY DEF list_lpop, list_rpop, Pop, Whole, Idle
<1>2. /\ ListTypes /\ WalkInv /\ len = Len(order) /\ ListIs(order) /\ order \in Seq(Nodes) /\ Len(order) \in Nat
      /\ Distinct(order) /\ \A k \in 1 .. Len(order) : order[k] \in Nodes
  BY <1>1, Between
<1>3. ListInv'
  BY ListLpop, ListRpop
<1>4. heap \in [Nodes -> Node] /\ heap' \in [Nodes -> Node] /\ order' \in Seq(Nodes) /\ Distinct(order')
  BY <1>2, <1>3 DEF ListInv, ListTypes
<1>5. IndexOf(cur) = 0 /\ IndexOf(next) = 0 /\ IndexOf(cur)' = 0 /\ IndexOf(next)' = 0
  <2>1. next = NULL
    BY <1>1, <1>2 DEF WalkInv
  <2>2. Place(order, NULL) = 0 /\ Place(order', NULL) = 0
    BY <1>2, <1>4, PlaceFacts
  <2> QED
    BY <1>1, <2>1, <2>2 DEF IndexOf, Place
<1>6. PICK q : q = Items(heap, order)
  OBVIOUS
<1>7. q \in Seq(Carried) /\ Len(q) = Len(order) /\ \A k \in 1 .. Len(order) : q[k] = heap[order[k]].val
  BY <1>2, <1>4, <1>6, ItemsFacts
<1>8. PICK t : t = Items(heap', order')
  OBVIOUS
<1>9. t \in Seq(Carried) /\ Len(t) = Len(order') /\ \A k \in 1 .. Len(order') : t[k] = heap'[order'[k]].val
  BY <1>4, <1>8, ItemsFacts
<1>10. Items(heap, order)' = t
  BY <1>8 DEF Items
<1>11. CASE len = 0
  <2>1. ret' = NULL /\ UNCHANGED <<heap, order>>
    BY <1>11 DEF list_lpop, list_rpop, Pop, listVars
  <2>2. Items(heap, order) = <<>>
    BY <1>2, <1>6, <1>7, <1>11
  <2>3. Items(heap, order)' = Items(heap, order)
    BY <2>1 DEF Items
  <2>4. Abstract!LPop
    BY <1>1, <1>5, <2>1, <2>2, <2>3 DEF Abstract!LPop, Items, NULL
  <2> QED
    BY <2>4 DEF Abstract!Next
<1>12. ASSUME len # 0, NEW n \in Nodes, NEW x, NEW link \in {"prev", "next"},
              heap' = [m \in Nodes |->
                  IF m = n THEN [heap[m] EXCEPT !.alive = FALSE, !.prev = NULL, !.next = NULL]
                  ELSE IF m = x /\ len # 1 THEN [heap[m] EXCEPT ![link] = NULL]
                  ELSE heap[m]]
       PROVE  \A m \in Nodes : heap'[m].val = heap[m].val
  <2> SUFFICES ASSUME NEW m \in Nodes PROVE heap'[m].val = heap[m].val
    OBVIOUS
  <2>1. \/ heap'[m] = [heap[m] EXCEPT !.alive = FALSE, !.prev = NULL, !.next = NULL]
        \/ heap'[m] = [heap[m] EXCEPT !.prev = NULL] \/ heap'[m] = [heap[m] EXCEPT !.next = NULL]
        \/ heap'[m] = heap[m]
    BY <1>12
  <2>2. heap[m] = [alive |-> heap[m].alive, prev |-> heap[m].prev, next |-> heap[m].next, val |-> heap[m].val]
    BY <1>4 DEF Node, Carried
  <2> QED
    BY <2>1, <2>2
<1>13. CASE len # 0 /\ list_lpop
  <2>1. heap' = [m \in Nodes |->
               IF m = head THEN [heap[m] EXCEPT !.alive = FALSE, !.prev = NULL, !.next = NULL]
               ELSE IF m = heap[head].next /\ len # 1 THEN [heap[m] EXCEPT !.prev = NULL]
               ELSE heap[m]]
    BY <1>13 DEF list_lpop, Pop
  <2>12. order' = Tail(order) /\ ret' = heap[head].val
    BY <1>13 DEF list_lpop, Pop
  <2>2. 1 \in 1 .. Len(order) /\ head = order[1] /\ head \in Nodes
    BY <1>2, <1>13 DEF ListIs, First
  <2>3. PICK x : x = heap[head].next
    OBVIOUS
  <2>4. heap' = [m \in Nodes |->
               IF m = head THEN [heap[m] EXCEPT !.alive = FALSE, !.prev = NULL, !.next = NULL]
               ELSE IF m = x /\ len # 1 THEN [heap[m] EXCEPT !["prev"] = NULL]
               ELSE heap[m]]
    BY <2>1, <2>3
  <2>5. \A m \in Nodes : heap'[m].val = heap[m].val
    BY <1>12, <1>13, <2>2, <2>4
  <2>6. Len(order') = Len(order) - 1 /\ \A k \in 1 .. Len(order') : order'[k] = order[k + 1]
    <3>1. order \in Seq(Nodes) /\ Len(order) > 0 /\ order' = Tail(order)
      BY <1>2, <1>13, <2>12
    <3> QED
      BY <3>1, TailFacts
  <2>7. t = Tail(q)
    <3>1. PICK u : u = Tail(q)
      OBVIOUS
    <3>2. Len(q) > 0
      BY <1>2, <1>7, <1>13
    <3>3. u \in Seq(Carried) /\ Len(u) = Len(q) - 1 /\ \A k \in 1 .. Len(u) : u[k] = q[k + 1]
      BY <1>7, <3>1, <3>2, TailFacts
    <3>4. Len(t) = Len(u)
      BY <1>7, <1>9, <2>6, <3>3
    <3>5. ASSUME NEW k \in 1 .. Len(t) PROVE t[k] = u[k]
      <4>1. k \in 1 .. Len(order') /\ k \in 1 .. Len(u) /\ k + 1 \in 1 .. Len(order)
        BY <1>2, <1>9, <2>6, <3>4
      <4> QED
        <5>1. t[k] = heap'[order[k + 1]].val /\ u[k] = heap[order[k + 1]].val
          BY <1>7, <1>9, <2>6, <3>3, <4>1
        <5> QED
          BY <1>2, <2>5, <4>1, <5>1
    <3>6. t = u
      BY <1>9, <3>3, <3>4, <3>5, SeqEqual
    <3> QED
      BY <3>1, <3>6
  <2>8. q # <<>> /\ Head(q) = heap[head].val
    BY <1>7, <2>2
  <2>9. /\ Items(heap, order)' = Tail(Items(heap, order)) /\ Items(heap, order) # <<>>
        /\ ret' = Head(Items(heap, order))
    BY <1>6, <1>10, <2>12, <2>7, <2>8
  <2>10. Abstract!LPop
    BY <1>1, <1>5, <2>9 DEF Abstract!LPop, Items
  <2> QED
    BY <2>10 DEF Abstract!Next
<1>14. CASE len # 0 /\ list_rpop
  <2>1. heap' = [m \in Nodes |->
               IF m = tail THEN [heap[m] EXCEPT !.alive = FALSE, !.prev = NULL, !.next = NULL]
               ELSE IF m = heap[tail].prev /\ len # 1 THEN [heap[m] EXCEPT !.next = NULL]
               ELSE heap[m]]
    BY <1>14 DEF list_rpop, Pop
  <2>12. order' = Front(order) /\ ret' = heap[tail].val
    BY <1>14 DEF list_rpop, Pop
  <2>2. len \in 1 .. Len(order) /\ tail = order[len] /\ tail \in Nodes
    BY <1>2, <1>14 DEF ListIs, End
  <2>3. PICK x : x = heap[tail].prev
    OBVIOUS
  <2>4. heap' = [m \in Nodes |->
               IF m = tail THEN [heap[m] EXCEPT !.alive = FALSE, !.prev = NULL, !.next = NULL]
               ELSE IF m = x /\ len # 1 THEN [heap[m] EXCEPT !["next"] = NULL]
               ELSE heap[m]]
    BY <2>1, <2>3
  <2>5. \A m \in Nodes : heap'[m].val = heap[m].val
    BY <1>12, <1>14, <2>2, <2>4
  <2>6. Len(order') = Len(order) - 1 /\ \A k \in 1 .. Len(order') : order'[k] = order[k]
    <3>1. order \in Seq(Nodes) /\ Len(order) > 0 /\ order' = Front(order)
      BY <1>2, <1>14, <2>12
    <3> QED
      BY <3>1, FrontFacts
  <2>7. t = Front(q)
    <3>1. PICK u : u = Front(q)
      OBVIOUS
    <3>2. Len(q) > 0
      BY <1>2, <1>7, <1>14
    <3>3. u \in Seq(Carried) /\ Len(u) = Len(q) - 1 /\ \A k \in 1 .. Len(u) : u[k] = q[k]
      BY <1>7, <3>1, <3>2, FrontFacts
    <3>4. Len(t) = Len(u)
      BY <1>7, <1>9, <2>6, <3>3
    <3>5. ASSUME NEW k \in 1 .. Len(t) PROVE t[k] = u[k]
      <4>1. k \in 1 .. Len(order') /\ k \in 1 .. Len(u) /\ k \in 1 .. Len(order)
        BY <1>2, <1>9, <2>6, <3>4
      <4> QED
        <5>1. t[k] = heap'[order[k]].val /\ u[k] = heap[order[k]].val
          BY <1>7, <1>9, <2>6, <3>3, <4>1
        <5> QED
          BY <1>2, <2>5, <4>1, <5>1
    <3>6. t = u
      BY <1>9, <3>3, <3>4, <3>5, SeqEqual
    <3> QED
      BY <3>1, <3>6
  <2>8. q # <<>> /\ q[Len(q)] = heap[tail].val
    BY <1>2, <1>7, <2>2
  <2>9. \A s : Abstract!Front(s) = Front(s) /\ Abstract!Last(s) = s[Len(s)]
    BY DEF Front, Abstract!Front, Abstract!Last
  <2>10. /\ Items(heap, order)' = Abstract!Front(Items(heap, order)) /\ Items(heap, order) # <<>>
         /\ ret' = Abstract!Last(Items(heap, order))
    BY <1>6, <1>10, <2>12, <2>7, <2>8, <2>9
  <2>11. Abstract!RPop
    BY <1>1, <1>5, <2>10 DEF Abstract!RPop, Items
  <2> QED
    BY <2>11 DEF Abstract!Next
<1> QED
  BY <1>11, <1>13, <1>14

\* Steps that leave the list as it is.
LEMMA SameList ==
    ASSUME ListInv, UNCHANGED <<heap, order>>
    PROVE  /\ Items(heap, order)' = Items(heap, order)
           /\ \A k \in 1 .. Len(order) : Items(heap, order)[k] = heap[order[k]].val
           /\ Items(heap, order) \in Seq(Carried) /\ Len(Items(heap, order)) = Len(order) /\ Len(order) \in Nat
           /\ IndexOf(cur) = Place(order, cur) /\ IndexOf(next) = Place(order, next)
           /\ IndexOf(cur)' = Place(order, cur') /\ IndexOf(next)' = Place(order, next')
           /\ order \in Seq(Nodes) /\ Distinct(order)
<1>1. heap \in [Nodes -> Node] /\ order \in Seq(Nodes) /\ Distinct(order)
  BY DEF ListInv, ListTypes
<1>2. PICK q : q = Items(heap, order)
  OBVIOUS
<1>3. /\ \A k \in 1 .. Len(order) : q[k] = heap[order[k]].val
      /\ q \in Seq(Carried) /\ Len(q) = Len(order) /\ Len(order) \in Nat
  BY <1>1, <1>2, ItemsFacts
<1>4. Items(heap, order)' = Items(heap, order)
  BY DEF Items
<1>5. /\ IndexOf(cur) = Place(order, cur) /\ IndexOf(next) = Place(order, next)
      /\ IndexOf(cur)' = Place(order, cur') /\ IndexOf(next)' = Place(order, next')
  BY DEF IndexOf, Place
<1> QED
  BY <1>1, <1>2, <1>3, <1>4, <1>5

LEMMA BeginRefines ==
    ASSUME ListInv, NEW d \in {"head", "tail"}, list_iterator_new(d)
    PROVE  Abstract!Next
<1>1. /\ Idle /\ direction = "none" /\ direction' = d /\ cur' = NULL
      /\ next' = (IF d = "head" THEN head ELSE tail)
      /\ UNCHANGED <<heap, order, ret>>
  BY DEF list_iterator_new, Whole, listVars, Idle
<1>2. ListIs(order)
  BY <1>1, Between
<1>3. PICK q : q = Items(heap, order)
  OBVIOUS
<1>4. /\ q \in Seq(Carried) /\ Len(q) = Len(order) /\ Len(order) \in Nat
      /\ IndexOf(cur)' = Place(order, cur') /\ IndexOf(next)' = Place(order, next')
      /\ order \in Seq(Nodes) /\ Distinct(order) /\ Items(heap, order)' = Items(heap, order)
  BY <1>1, <1>3, SameList
<1>5. IndexOf(cur)' = 0
  BY <1>1, <1>4, PlaceFacts
<1>6. IndexOf(next)' = (IF d = "tail" THEN Len(q) ELSE IF q = <<>> THEN 0 ELSE 1)
  <2>1. CASE Len(order) = 0
    <3>1. next' = NULL
      BY <1>1, <1>2, <2>1 DEF ListIs, First, End
    <3>2. IndexOf(next)' = 0
      BY <1>4, <3>1, PlaceFacts
    <3>3. q = <<>> /\ Len(q) = 0
      BY <1>4, <2>1
    <3> QED
      BY <3>2, <3>3
  <2>2. CASE Len(order) # 0
    <3>1. 1 \in 1 .. Len(order) /\ Len(order) \in 1 .. Len(order)
      BY <1>4, <2>2
    <3>2. next' = (IF d = "head" THEN order[1] ELSE order[Len(order)])
      BY <1>1, <1>2, <2>2 DEF ListIs, First, End
    <3>3. IndexOf(next)' = (IF d = "head" THEN 1 ELSE Len(order))
      BY <1>4, <3>1, <3>2, PlaceFacts
    <3>4. q # <<>> /\ Len(q) = Len(order)
      BY <1>4, <2>2
    <3> QED
      BY <3>3, <3>4
  <2> QED
    BY <2>1, <2>2
<1>7. Abstract!Begin(d)
  BY <1>1, <1>3, <1>4, <1>5, <1>6 DEF Abstract!Begin, Items
<1> QED
  BY <1>7 DEF Abstract!Next

LEMMA VisitRefines ==
    ASSUME Serialised, ListInv, list_iterator_next
    PROVE  Abstract!Next
<1>1. /\ Idle /\ direction # "none" /\ next # NULL /\ cur' = next /\ UNCHANGED <<heap, order, direction>>
  BY DEF list_iterator_next, listVars, Idle
<1>2. /\ ListTypes /\ WalkInv /\ ~crashed /\ Allocated(In(order))
      /\ \A k \in 1 .. Len(order) : order[k] \in Nodes
  BY <1>1, Between
<1>3. next \in In(order) /\ next \in Nodes
  BY <1>1, <1>2 DEF WalkInv, In
<1>4. Usable(next)
  BY <1>1, <1>2, <1>3 DEF Usable, Allocated
<1>5. /\ next' = (IF direction = "head" THEN heap[next].next ELSE heap[next].prev)
      /\ ret' = heap[next].val
  BY <1>4 DEF list_iterator_next
<1>6. PICK i : i = IndexOf(next)
  OBVIOUS
<1>7. /\ i \in 1 .. Len(order) /\ order[i] = next
      /\ heap[next].next = NextIs(order, i) /\ heap[next].prev = PrevIs(order, i)
      /\ NextIs(order, i) # NULL => i + 1 \in 1 .. Len(order) /\ NextIs(order, i) = order[i + 1]
      /\ PrevIs(order, i) # NULL => i - 1 \in 1 .. Len(order) /\ PrevIs(order, i) = order[i - 1]
      /\ i = Len(order) <=> NextIs(order, i) = NULL
      /\ i = 1 <=> PrevIs(order, i) = NULL
  BY <1>1, <1>3, <1>6, Neighbours
<1>8. PICK q : q = Items(heap, order)
  OBVIOUS
<1>9. /\ q \in Seq(Carried) /\ Len(q) = Len(order) /\ \A k \in 1 .. Len(order) : q[k] = heap[order[k]].val
      /\ IndexOf(cur)' = Place(order, cur') /\ IndexOf(next)' = Place(order, next')
      /\ order \in Seq(Nodes) /\ Distinct(order) /\ Items(heap, order)' = Items(heap, order)
  BY <1>1, <1>8, SameList
<1>10. IndexOf(cur)' = i
  BY <1>1, <1>7, <1>9, PlaceFacts
<1>11. IndexOf(next)' = (IF direction = "tail" THEN i - 1 ELSE IF i = Len(q) THEN 0 ELSE i + 1)
  <2>1. Place(order, NULL) = 0
    BY <1>9, PlaceFacts
  <2>2. Place(order, NextIs(order, i)) = (IF i = Len(order) THEN 0 ELSE i + 1)
    BY <1>7, <1>9, <2>1, PlaceFacts
  <2>3. Place(order, PrevIs(order, i)) = (IF i = 1 THEN 0 ELSE i - 1)
    BY <1>7, <1>9, <2>1, PlaceFacts
  <2>4. direction = "head" \/ direction = "tail"
    BY <1>1, <1>2 DEF ListTypes
  <2> QED
    BY <1>5, <1>7, <1>9, <2>2, <2>3, <2>4
<1>12. ret' = q[i] /\ i # 0
  BY <1>5, <1>7, <1>9
<1>13. Abstract!Visit
  BY <1>1, <1>6, <1>8, <1>9, <1>10, <1>11, <1>12 DEF Abstract!Visit, Items
<1> QED
  BY <1>13 DEF Abstract!Next

LEMMA EndRefines ==
    ASSUME ListInv, list_iterator_destroy
    PROVE  Abstract!Next
<1>1. direction # "none" /\ direction' = "none" /\ next' = NULL /\ cur' = NULL /\ UNCHANGED <<heap, order, ret>>
  BY DEF list_iterator_destroy, listVars
<1>2. /\ IndexOf(cur)' = Place(order, cur') /\ IndexOf(next)' = Place(order, next')
      /\ order \in Seq(Nodes) /\ Distinct(order) /\ Items(heap, order)' = Items(heap, order)
  BY <1>1, SameList
<1>3. IndexOf(cur)' = 0 /\ IndexOf(next)' = 0
  BY <1>1, <1>2, PlaceFacts
<1>4. Abstract!End
  BY <1>1, <1>2, <1>3 DEF Abstract!End, Items
<1> QED
  BY <1>4 DEF Abstract!Next

LEMMA FindRefines ==
    ASSUME ListInv, NEW v \in Values, list_find(v)
    PROVE  Abstract!Next
<1> DEFINE hits == {k \in 1 .. len : heap[Forward[k]].val = v}
<1>1. /\ Idle /\ direction = "none"
      /\ cur' = IF hits = {} THEN NULL
                ELSE Forward[CHOOSE k \in hits : \A j \in hits : k <= j]
      /\ UNCHANGED <<heap, next, direction, ret, order>>
  BY DEF list_find, Whole, listVars, Idle
<1>2. len = Len(order) /\ Len(order) \in Nat
  BY <1>1, Between
<1> DEFINE q == [k \in 1 .. Len(order) |-> heap[order[k]].val]
<1>3. q = Items(heap, order)
  BY DEF Items
<1> HIDE DEF q
<1>4. /\ q \in Seq(Carried) /\ Len(q) = Len(order) /\ \A k \in 1 .. Len(order) : q[k] = heap[order[k]].val
      /\ IndexOf(cur)' = Place(order, cur') /\ UNCHANGED IndexOf(next)
      /\ order \in Seq(Nodes) /\ Distinct(order) /\ Items(heap, order)' = Items(heap, order)
  BY <1>1, <1>3, SameList
<1>5. \A k \in 1 .. Len(order) : Forward[k] = order[k]
  BY <1>1, <1>2, ForwardIs
<1>6. hits \in SUBSET Nat /\ \A k : k \in hits <=> k \in 1 .. Len(q) /\ q[k] = v
  BY <1>2, <1>4, <1>5
<1> HIDE DEF hits
<1>7. IndexOf(cur)' = IF \E k \in 1 .. Len(q) : q[k] = v
                      THEN CHOOSE k \in 1 .. Len(q) : q[k] = v /\ \A j \in 1 .. k - 1 : q[j] # v
                      ELSE 0
  <2>1. CASE hits = {}
    <3>1. IndexOf(cur)' = 0
      BY <1>1, <1>4, <2>1, PlaceFacts
    <3> QED
      BY <1>6, <2>1, <3>1
  <2>2. CASE hits # {}
    <3> DEFINE a == CHOOSE k \in hits : \A j \in hits : k <= j
               P(k) == q[k] = v /\ \A j \in 1 .. k - 1 : q[j] # v
               b == CHOOSE k \in 1 .. Len(q) : P(k)
    <3>1. \E x \in hits : \A y \in hits : x <= y
      BY <1>6, <2>2, Least
    <3>2. a \in hits /\ \A y \in hits : a <= y
      BY <3>1
    <3>3. cur' = Forward[a]
      BY <1>1, <2>2
    <3> HIDE DEF a
    <3>4. a \in 1 .. Len(q) /\ P(a)
      <4>1. a \in 1 .. Len(q) /\ q[a] = v
        BY <1>6, <3>2
      <4>2. ASSUME NEW j \in 1 .. a - 1, q[j] = v PROVE FALSE
        <5>1. j \in 1 .. Len(q) /\ j < a
          BY <1>2, <1>4, <4>1
        <5>2. j \in hits
          BY <1>6, <4>2, <5>1
        <5>3. a <= j
          BY <3>2, <5>2
        <5> QED
          BY <4>1, <5>1, <5>3
      <4> QED
        BY <4>1, <4>2
    <3>5. b \in 1 .. Len(q) /\ P(b)
      BY <3>4
    <3> HIDE DEF b
    <3>6. b = a
      <4>1. b \in hits
        BY <1>6, <3>5
      <4>2. a <= b
        BY <3>2, <4>1
      <4>3. ~ (a < b)
        <5>1. a < b => a \in 1 .. b - 1
          BY <3>4, <3>5
        <5> QED
          BY <3>4, <3>5, <5>1
      <4> QED
        BY <3>4, <3>5, <4>2, <4>3
    <3>7. cur' = order[a] /\ a \in 1 .. Len(order)
      BY <1>4, <1>5, <3>3, <3>4
    <3>8. IndexOf(cur)' = a
      BY <1>4, <3>7, PlaceFacts
    <3>9. \E k \in 1 .. Len(q) : q[k] = v
      BY <3>4
    <3> QED
      BY <3>6, <3>8, <3>9 DEF b
  <2> QED
    BY <2>1, <2>2
<1>8. Abstract!Find(v)
  <2>1. q' = q
    BY <1>1 DEF q
  <2> QED
    BY <1>1, <1>4, <1>7, <2>1 DEF q, Abstract!Find
<1> QED
  BY <1>8 DEF Abstract!Next

LEMMA NthPrev ==
    ASSUME NEW s \in Seq(Nodes), PrevLinked(heap, s), Len(s) > 0, tail = s[Len(s)],
           NEW k \in 0 .. Len(s) - 1
    PROVE  Nth(tail, "prev", k) = s[Len(s) - k]
<1> DEFINE Rec(w) == w = [i \in 0 .. k |-> IF i = 0 THEN tail ELSE heap[w[i - 1]]["prev"]]
<1> DEFINE g == [i \in 0 .. k |-> s[Len(s) - i]]
<1> DEFINE f == CHOOSE w : Rec(w)
<1>0. ASSUME NEW i \in 1 .. k
      PROVE  /\ i - 1 \in 0 .. k /\ Len(s) - (i - 1) \in 1 .. Len(s) /\ Len(s) - (i - 1) # 1
             /\ (Len(s) - (i - 1)) - 1 = Len(s) - i
             /\ heap[s[Len(s) - (i - 1)]].prev = s[Len(s) - i]
  <2>1. /\ i - 1 \in 0 .. k /\ Len(s) - (i - 1) \in 1 .. Len(s) /\ Len(s) - (i - 1) # 1
        /\ (Len(s) - (i - 1)) - 1 = Len(s) - i
    OBVIOUS
  <2>2. heap[s[Len(s) - (i - 1)]].prev = PrevIs(s, Len(s) - (i - 1))
    BY <2>1 DEF PrevLinked
  <2> QED
    BY <2>1, <2>2 DEF PrevIs
<1>1. Rec(g)
  <2>1. \A i \in 0 .. k : g[i] = IF i = 0 THEN tail ELSE heap[g[i - 1]]["prev"]
    <3> SUFFICES ASSUME NEW i \in 0 .. k PROVE g[i] = IF i = 0 THEN tail ELSE heap[g[i - 1]]["prev"]
      OBVIOUS
    <3>1. CASE i = 0
      BY <3>1
    <3>2. CASE i # 0
      <4>1. i \in 1 .. k
        BY <3>2
      <4>2. g[i - 1] = s[Len(s) - (i - 1)] /\ g[i] = s[Len(s) - i]
        BY <1>0, <4>1
      <4> QED
        BY <1>0, <3>2, <4>1, <4>2
    <3> QED
      BY <3>1, <3>2
  <2> QED
    BY <2>1
<1> HIDE DEF g
<1>2. Rec(f)
  BY <1>1
<1>3. Nth(tail, "prev", k) = f[k]
  BY DEF Nth
<1>4. \A i \in 0 .. k : f[i] = IF i = 0 THEN tail ELSE heap[f[i - 1]]["prev"]
  BY <1>2
<1> HIDE DEF f
<1> DEFINE T == {i \in 0 .. k : f[i] = s[Len(s) - i]}
<1>5. k \in T
  <2>1. 0 \in T
    BY <1>4
  <2>2. ASSUME NEW i \in T, i < k PROVE i + 1 \in T
    <3>1. i + 1 \in 0 .. k /\ i + 1 \in 1 .. k /\ i + 1 # 0 /\ (i + 1) - 1 = i
      BY <2>2
    <3>2. f[i + 1] = heap[f[i]]["prev"]
      BY <1>4, <3>1
    <3>3. heap[s[Len(s) - i]].prev = s[Len(s) - (i + 1)]
      BY <1>0, <3>1
    <3> QED
      BY <3>1, <3>2, <3>3
  <2>3. T \in SUBSET Nat /\ k \in Nat /\ k \in 0 .. k
    OBVIOUS
  <2> HIDE DEF T
  <2>4. 0 .. k \subseteq T
    BY <2>1, <2>2, <2>3, UpTo
  <2> QED
    BY <2>3, <2>4
<1> QED
  BY <1>3, <1>5

LEMMA AtRefines ==
    ASSUME ListInv, NEW j \in Indices, list_at(j)
    PROVE  Abstract!Next
<1>1. /\ Idle /\ UNCHANGED <<heap, next, direction, cur, order>>
      /\ ret' = IF j >= 0 /\ j < len THEN heap[Nth(head, "next", j)].val
                ELSE IF j < 0 /\ -j - 1 < len THEN heap[Nth(tail, "prev", -j - 1)].val
                ELSE NULL
  BY DEF list_at, Whole, listVars, Idle
<1>2. len = Len(order) /\ Len(order) \in Nat /\ ListIs(order) /\ order \in Seq(Nodes) /\ j \in Int
  BY <1>1, Between, ListAssumption
<1> DEFINE q == [k \in 1 .. Len(order) |-> heap[order[k]].val]
<1>3. q = Items(heap, order)
  BY DEF Items
<1> HIDE DEF q
<1>4. /\ q \in Seq(Carried) /\ Len(q) = Len(order) /\ \A k \in 1 .. Len(order) : q[k] = heap[order[k]].val
      /\ UNCHANGED <<IndexOf(cur), IndexOf(next)>>
  BY <1>1, <1>3, SameList
<1>5. ret' = IF j >= 0 /\ j < Len(q) THEN q[j + 1]
             ELSE IF j < 0 /\ -j <= Len(q) THEN q[Len(q) + 1 + j]
             ELSE 0
  <2>1. CASE j >= 0 /\ j < len
    <3>1. j \in 0 .. Len(order) - 1 /\ Len(order) > 0 /\ j + 1 \in 1 .. Len(order)
      BY <1>2, <2>1
    <3>2. NextLinked(heap, order) /\ head = order[1]
      BY <1>2, <3>1 DEF ListIs, First
    <3>3. Nth(head, "next", j) = order[j + 1]
      BY <1>2, <3>1, <3>2, NthNext
    <3> QED
      BY <1>1, <1>2, <1>4, <2>1, <3>1, <3>3
  <2>2. CASE j < 0 /\ -j - 1 < len
    <3>1. PICK k : k = -j - 1
      OBVIOUS
    <3>2. /\ k \in 0 .. Len(order) - 1 /\ Len(order) > 0
          /\ Len(order) - k \in 1 .. Len(order) /\ Len(order) - k = Len(order) + 1 + j
          /\ -j <= Len(order) /\ ~ (j >= 0)
      BY <1>2, <2>2, <3>1
    <3>3. PrevLinked(heap, order) /\ tail = order[Len(order)]
      BY <1>2, <3>2 DEF ListIs, End
    <3>4. Nth(tail, "prev", k) = order[Len(order) - k]
      BY <1>2, <3>2, <3>3, NthPrev
    <3>5. ret' = heap[order[Len(order) - k]].val
      BY <1>1, <2>2, <3>1, <3>2, <3>4
    <3> QED
      BY <1>4, <2>2, <3>2, <3>5
  <2>3. CASE ~ (j >= 0 /\ j < len) /\ ~ (j < 0 /\ -j - 1 < len)
    <3>1. ret' = 0
      BY <1>1, <2>3 DEF NULL
    <3>2. ~ (j >= 0 /\ j < Len(order)) /\ ~ (j < 0 /\ -j <= Len(order))
      BY <1>2, <2>3
    <3> QED
      BY <1>4, <3>1, <3>2
  <2> QED
    BY <2>1, <2>2, <2>3
<1>6. Abstract!At(j)
  <2>1. q' = q
    BY <1>1 DEF q
  <2> QED
    BY <1>1, <1>4, <1>5, <2>1 DEF q, Abstract!At
<1> QED
  BY <1>6 DEF Abstract!Next

LEMMA DestroyRefines ==
    ASSUME ListInv, list_destroy
    PROVE  Abstract!Next
<1>1. direction = "none" /\ cur' = NULL /\ order' = <<>> /\ UNCHANGED <<next, direction, ret>>
  BY DEF list_destroy
<1>2. next = NULL /\ order \in Seq(Nodes) /\ Distinct(order)
  BY <1>1 DEF ListInv, ListTypes, WalkInv
<1>3. IndexOf(next) = 0
  <2>1. IndexOf(next) = Place(order, NULL)
    BY <1>2 DEF IndexOf, Place
  <2> QED
    BY <1>2, <2>1, PlaceFacts
<1>4. Len(order') = 0
  BY <1>1
<1>5. IndexOf(next)' = 0 /\ IndexOf(cur)' = 0
  BY <1>4 DEF IndexOf
<1>6. [k \in 1 .. Len(order) |-> heap[order[k]].val]' = <<>>
  BY <1>4
<1>7. Abstract!Destroy
  BY <1>1, <1>3, <1>5, <1>6 DEF Abstract!Destroy
<1> QED
  BY <1>7 DEF Abstract!Next

LEMMA StepRefines ==
    ASSUME Serialised, ListInv, [Next]_vars
    PROVE  [Abstract!Next]_(Abstract!vars)
<1>1. ASSUME UNCHANGED vars PROVE UNCHANGED Abstract!vars
  <2>1. UNCHANGED <<heap, order, next, cur, direction, ret>>
    BY <1>1 DEF vars, listVars, walkVars
  <2> QED
    BY <2>1, Stutter DEF ListInv
<1>2. ASSUME NEW v \in Values, list_node_new(v) PROVE UNCHANGED Abstract!vars
  BY <1>2, NewUnseen
<1>3. ASSUME NEW v \in Values, list_rpush(v) \/ list_find(v) PROVE Abstract!Next
  BY <1>3, RpushRefines, FindRefines
<1>4. ASSUME LinkNode \/ LinkHead \/ SetHead PROVE UNCHANGED Abstract!vars
  BY <1>4, LinkUnseen
<1>5. ASSUME NEW d \in {"head", "tail"}, list_iterator_new(d) PROVE Abstract!Next
  BY <1>5, BeginRefines
<1>6. ASSUME LpushCount \/ list_iterator_next \/ list_iterator_destroy \/ RemoveCount PROVE Abstract!Next
  BY <1>6, PushRefines, VisitRefines, EndRefines, RemoveRefines
<1>7. ASSUME UnlinkPrev \/ UnlinkNext \/ FreeNode PROVE UNCHANGED Abstract!vars
  BY <1>7, UnlinkUnseen
<1>8. ASSUME list_lpop \/ list_rpop \/ list_destroy PROVE Abstract!Next
  BY <1>8, PopRefines, DestroyRefines
<1>9. ASSUME NEW j \in Indices, list_at(j) PROVE Abstract!Next
  BY <1>9, AtRefines
<1> QED
  BY <1>1, <1>2, <1>3, <1>4, <1>5, <1>6, <1>7, <1>8, <1>9 DEF Next

\* The list is the sequence of Deque, for any number of nodes: what is stored one
\* link at a time takes effect as a whole when it is counted, values leave in
\* their order, and a walk returns what Deque says, also after the removal of the
\* node in hand (src/utils/utils_list.c:46-269).
THEOREM ListIsADeque == Serialised => (Spec => ListSpec)
<1> SUFFICES ASSUME Serialised PROVE Spec => ListSpec
  OBVIOUS
<1>1. Init => Abstract!Init
  BY InitRefines
<1>2. ListInv /\ [Next]_vars => [Abstract!Next]_(Abstract!vars)
  BY StepRefines
<1> QED
  BY <1>1, <1>2, ListInvariant, PTL DEF Spec, ListSpec, Abstract!Spec

=============================================================================
