------------------------------ MODULE UtilsList ------------------------------
(***************************************************************************)
(* The doubly linked list of src/utils/utils_list.c, as pMsgList uses it:  *)
(* the parser thread pushes messages at the head (list_lpush in            *)
(* IOT_Template_Message_Arrived_CallBack) while another thread walks the   *)
(* list from its tail and removes what it has handled (list_remove in      *)
(* _handle_message).  These two are split at every store.  The other       *)
(* operations, by the same thread, are one step each.                      *)
(*                                                                         *)
(* Nodes are numbered and a freed number is used again, as malloc does;    *)
(* 0 is NULL.  No lock protects the list: Serialised says whether the      *)
(* scheduler nevertheless lets an operation finish before the other thread *)
(* begins one.                                                             *)
(***************************************************************************)
EXTENDS Integers, Sequences, SequencesExt

CONSTANTS
    Values,         \* what nodes carry: pointers
    MaxNodes,       \* bound on the nodes allocated at a time
    Indices,        \* the arguments of list_at
    Serialised

NULL == 0
Nodes == 1 .. MaxNodes

ASSUME ListAssumption ==
    /\ MaxNodes \in Nat /\ Indices \subseteq Int /\ Serialised \in BOOLEAN
    /\ NULL \notin Values

VARIABLES
    heap,               \* the nodes: alive, prev, next, val
    head, tail, len,    \* List
    next, direction,    \* ListIterator, direction "none" when there is none
    cur,                \* the node the walking thread has in hand
    ret,                \* the value it was given last
    ppc, pnode, plen,   \* the parser in list_lpush: place, new node, len as read
    mpc, mlen,          \* the walking thread in list_remove: place, len as read
    order,              \* history: the nodes that the operations so far leave, head first
    crashed             \* NULL or a freed node was used

listVars == <<heap, head, tail, len>>
walkVars == <<next, direction, cur, ret>>
vars == <<listVars, walkVars, ppc, pnode, plen, mpc, mlen, order, crashed>>

NoNode == [alive |-> FALSE, prev |-> NULL, next |-> NULL, val |-> CHOOSE v \in Values : TRUE]

Init ==
    /\ heap = [n \in Nodes |-> NoNode]
    /\ head = NULL /\ tail = NULL /\ len = 0
    /\ next = NULL /\ direction = "none" /\ cur = NULL /\ ret = NULL
    /\ ppc = "idle" /\ pnode = NULL /\ plen = 0
    /\ mpc = "idle" /\ mlen = 0
    /\ order = <<>>
    /\ crashed = FALSE

Usable(n) == n # NULL /\ heap[n].alive

\* Where the node n is in the list, 0 if it is not.
IndexOf(n) == IF \E k \in 1 .. Len(order) : order[k] = n
              THEN CHOOSE k \in 1 .. Len(order) : order[k] = n ELSE 0

ParserGoto(from, to) ==
    /\ ~crashed /\ ppc = from /\ ppc' = to
    /\ Serialised => mpc = "idle"
MainGoto(from, to) ==
    /\ ~crashed /\ mpc = from /\ mpc' = to
    /\ Serialised => ppc = "idle"

\* A whole operation of the walking thread.
Whole == ~crashed /\ mpc = "idle" /\ ppc = "idle" /\ UNCHANGED <<ppc, pnode, plen, mpc, mlen, crashed>>

-----------------------------------------------------------------------------
(* list_node_new, and list_lpush by the parser.                            *)

Free == {n \in Nodes : ~heap[n].alive}

list_node_new(v) ==
    /\ ParserGoto("idle", "link")
    /\ pnode' \in Free
    /\ heap' = [heap EXCEPT ![pnode'] =
                   [alive |-> TRUE, prev |-> NULL, next |-> NULL, val |-> v]]
    /\ UNCHANGED <<head, tail, len, walkVars, plen, mpc, mlen, order, crashed>>

\* if (self->len): the links of the new node.
LinkNode ==
    /\ ParserGoto("link", IF len # 0 THEN "link_head" ELSE "set_both")
    /\ heap' = [heap EXCEPT ![pnode].prev = NULL, ![pnode].next = IF len # 0 THEN head ELSE NULL]
    /\ UNCHANGED <<head, tail, len, walkVars, pnode, plen, mpc, mlen, order, crashed>>

\* self->head->prev = node.
LinkHead ==
    /\ ParserGoto("link_head", "set_head")
    /\ IF Usable(head) THEN heap' = [heap EXCEPT ![head].prev = pnode] /\ UNCHANGED crashed
                       ELSE crashed' = TRUE /\ UNCHANGED heap
    /\ UNCHANGED <<head, tail, len, walkVars, pnode, plen, mpc, mlen, order>>

SetHead ==
    /\ \/ ParserGoto("set_head", "count") /\ UNCHANGED tail
       \/ ParserGoto("set_both", "count") /\ tail' = pnode
    /\ head' = pnode
    /\ plen' = len
    /\ UNCHANGED <<heap, len, walkVars, pnode, mpc, mlen, order, crashed>>

\* ++self->len, of the value read before.
LpushCount ==
    /\ ParserGoto("count", "idle")
    /\ len' = plen + 1
    /\ pnode' = NULL /\ plen' = 0
    /\ order' = <<pnode>> \o order
    /\ UNCHANGED <<heap, head, tail, walkVars, mpc, mlen, crashed>>

-----------------------------------------------------------------------------
(* The walk, and list_remove of the node in hand.                          *)

list_iterator_new(d) ==
    /\ Whole
    /\ direction = "none"
    /\ direction' = d
    /\ next' = IF d = "head" THEN head ELSE tail
    /\ cur' = NULL
    /\ UNCHANGED <<listVars, ret, order>>

\* Mutant: the next node is looked up when it is asked for.
list_iterator_next_Late ==
    /\ ~crashed /\ mpc = "idle"
    /\ direction # "none" /\ next # NULL
    /\ cur' = IF cur = NULL THEN next
              ELSE IF direction = "head" THEN heap[cur].next ELSE heap[cur].prev
    /\ next' = cur'
    /\ ret' = IF cur' = NULL THEN NULL ELSE heap[cur'].val
    /\ UNCHANGED <<listVars, direction, ppc, pnode, plen, mpc, mlen, order, crashed>>

\* The iterator reads its node's link before it returns the node.
list_iterator_next ==
    /\ ~crashed /\ mpc = "idle" /\ (Serialised => ppc = "idle")
    /\ direction # "none" /\ next # NULL
    /\ cur' = next
    /\ IF Usable(next)
       THEN /\ next' = IF direction = "head" THEN heap[next].next ELSE heap[next].prev
            /\ ret' = heap[next].val
            /\ UNCHANGED crashed
       ELSE crashed' = TRUE /\ UNCHANGED <<next, ret>>
    /\ UNCHANGED <<listVars, direction, ppc, pnode, plen, mpc, mlen, order>>

list_iterator_destroy ==
    /\ Whole
    /\ direction # "none"
    /\ direction' = "none" /\ next' = NULL /\ cur' = NULL
    /\ UNCHANGED <<listVars, ret, order>>

\* node->prev ? (node->prev->next = node->next) : (self->head = node->next).
UnlinkPrev ==
    /\ cur # NULL
    /\ MainGoto("idle", "unlink_next")
    /\ LET p == heap[cur].prev IN
       IF p # NULL
       THEN /\ heap' = [heap EXCEPT ![p].next = heap[cur].next]
            /\ UNCHANGED head
       ELSE head' = heap[cur].next /\ UNCHANGED heap
    /\ UNCHANGED <<tail, len, walkVars, ppc, pnode, plen, mlen, order, crashed>>

\* Mutant: the tail is not moved.
UnlinkNext_TailKept ==
    /\ MainGoto("unlink_next", "free")
    /\ LET n == heap[cur].next IN
       heap' = IF n # NULL THEN [heap EXCEPT ![n].prev = heap[cur].prev] ELSE heap
    /\ UNCHANGED <<head, tail, len, walkVars, ppc, pnode, plen, mlen, order, crashed>>

UnlinkNext ==
    /\ MainGoto("unlink_next", "free")
    /\ LET n == heap[cur].next IN
       IF n # NULL
       THEN /\ heap' = [heap EXCEPT ![n].prev = heap[cur].prev]
            /\ UNCHANGED tail
       ELSE tail' = heap[cur].prev /\ UNCHANGED heap
    /\ UNCHANGED <<head, len, walkVars, ppc, pnode, plen, mlen, order, crashed>>

FreeNode ==
    /\ MainGoto("free", "count")
    /\ heap' = [heap EXCEPT ![cur].alive = FALSE]
    /\ mlen' = len
    /\ UNCHANGED <<head, tail, len, walkVars, ppc, pnode, plen, order, crashed>>

\* --self->len, unsigned.
RemoveCount ==
    /\ MainGoto("count", "idle")
    /\ IF mlen = 0 THEN crashed' = TRUE /\ UNCHANGED len ELSE len' = mlen - 1 /\ UNCHANGED crashed
    /\ cur' = NULL /\ mlen' = 0
    /\ order' = RemoveAt(order, IndexOf(cur))
    /\ UNCHANGED <<heap, head, tail, next, direction, ret, ppc, pnode, plen>>

-----------------------------------------------------------------------------
(* The operations of the lists that one thread uses at a time.             *)

list_rpush(v) ==
    /\ Whole
    /\ \E n \in Free :
          /\ heap' = [m \in Nodes |->
                IF m = n THEN [alive |-> TRUE, prev |-> tail, next |-> NULL, val |-> v]
                ELSE IF m = tail /\ len # 0 THEN [heap[m] EXCEPT !.next = n] ELSE heap[m]]
          /\ head' = IF len = 0 THEN n ELSE head
          /\ tail' = n
          /\ order' = Append(order, n)
    /\ len' = len + 1
    /\ UNCHANGED walkVars

\* The popped node goes to the caller, which reads and frees it.
Pop(end, other, link) ==
    /\ Whole
    /\ direction = "none" /\ cur = NULL
    /\ IF len = 0
       THEN ret' = NULL /\ UNCHANGED <<listVars, order>>
       ELSE /\ ret' = heap[end].val
            /\ heap' = [m \in Nodes |->
                  IF m = end THEN [heap[m] EXCEPT !.alive = FALSE, !.prev = NULL, !.next = NULL]
                  ELSE IF m = heap[end][other] /\ len # 1 THEN [heap[m] EXCEPT ![link] = NULL]
                  ELSE heap[m]]
            /\ len' = len - 1
            /\ LET e == IF len = 1 THEN NULL ELSE heap[end][other] IN
               IF link = "prev" THEN head' = e /\ tail' = (IF len = 1 THEN NULL ELSE tail)
                                ELSE tail' = e /\ head' = (IF len = 1 THEN NULL ELSE head)
            /\ order' = IF link = "prev" THEN Tail(order) ELSE Front(order)
    /\ UNCHANGED <<next, direction, cur>>

list_lpop == Pop(head, "next", "prev")
list_rpop == Pop(tail, "prev", "next")

\* The k-th node from n in the given direction.
Nth(n, link, k) ==
    LET w[i \in 0 .. k] == IF i = 0 THEN n ELSE heap[w[i - 1]][link] IN w[k]

\* The nodes as the walk from the head visits them.
Forward == [k \in 1 .. len |-> Nth(head, "next", k - 1)]

\* Mutant: the last node is not compared.
list_find_ButLast(v) ==
    /\ Whole
    /\ direction = "none"
    /\ cur' = LET hits == {k \in 1 .. len - 1 : heap[Forward[k]].val = v}
              IN IF hits = {} THEN NULL
                 ELSE Forward[CHOOSE k \in hits : \A j \in hits : k <= j]
    /\ UNCHANGED <<listVars, next, direction, ret, order>>

list_find(v) ==
    /\ Whole
    /\ direction = "none"
    /\ cur' = LET hits == {k \in 1 .. len : heap[Forward[k]].val = v}
              IN IF hits = {} THEN NULL
                 ELSE Forward[CHOOSE k \in hits : \A j \in hits : k <= j]
    /\ UNCHANGED <<listVars, next, direction, ret, order>>

\* ~index is -index - 1.
list_at(i) ==
    /\ Whole
    /\ ret' = IF i >= 0 /\ i < len THEN heap[Nth(head, "next", i)].val
              ELSE IF i < 0 /\ -i - 1 < len THEN heap[Nth(tail, "prev", -i - 1)].val
              ELSE NULL
    /\ UNCHANGED <<listVars, next, direction, cur, order>>

\* len nodes are freed, along next; the list is then made anew.
list_destroy ==
    /\ Whole
    /\ direction = "none"
    /\ LET gone == {Forward[k] : k \in 1 .. len} IN
       heap' = [m \in Nodes |-> IF m \in gone THEN NoNode ELSE heap[m]]
    /\ head' = NULL /\ tail' = NULL /\ len' = 0
    /\ cur' = NULL
    /\ order' = <<>>
    /\ UNCHANGED <<next, direction, ret>>

Next ==
    \/ \E v \in Values : list_node_new(v) \/ list_rpush(v) \/ list_find(v)
    \/ LinkNode \/ LinkHead \/ SetHead \/ LpushCount
    \/ \E d \in {"head", "tail"} : list_iterator_new(d)
    \/ list_iterator_next \/ list_iterator_destroy
    \/ UnlinkPrev \/ UnlinkNext \/ FreeNode \/ RemoveCount
    \/ list_lpop \/ list_rpop \/ list_destroy
    \/ \E i \in Indices : list_at(i)

Spec == Init /\ [][Next]_vars

-----------------------------------------------------------------------------
(* Properties.                                                             *)

Idle == ppc = "idle" /\ mpc = "idle"

\* Between two operations the links agree: along next and along prev the same
\* len nodes are reached, those that the operations so far leave, in their order,
\* different from each other, and no allocated node is outside the list
\* (src/utils/utils_list.c:68-153, :220-232).
WellFormed == Idle =>
    /\ len = Len(order)
    /\ \A k, l \in 1 .. len : order[k] = order[l] => k = l
    /\ head = (IF len = 0 THEN NULL ELSE order[1])
    /\ tail = (IF len = 0 THEN NULL ELSE order[len])
    /\ {n \in Nodes : heap[n].alive} = {order[k] : k \in 1 .. len}
    /\ \A k \in 1 .. len :
          /\ heap[order[k]].next = (IF k = len THEN NULL ELSE order[k + 1])
          /\ heap[order[k]].prev = (IF k = 1 THEN NULL ELSE order[k - 1])

\* The walk never holds a node that was freed: removing the node it returned
\* last, and adding nodes, leave the one it returns next in the list
\* (src/utils/utils_list.c:261-268 with data_template_client.c:61-75).
WalkSafe ==
    /\ ~crashed
    /\ next # NULL => heap[next].alive
    /\ cur # NULL /\ mpc # "count" => heap[cur].alive

Abstract == INSTANCE Deque WITH
    items <- [k \in 1 .. Len(order) |-> heap[order[k]].val],
    dir <- direction,
    at <- IndexOf(cur),
    nx <- IndexOf(next)

\* The list is the sequence of Deque: values come out of it in their order, a
\* walk visits what Deque says, and removal during a walk skips nothing and
\* visits nothing twice.
ListSpec == Abstract!Spec

=============================================================================
