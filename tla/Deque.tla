-------------------------------- MODULE Deque --------------------------------
(***************************************************************************)
(* What the users of src/utils/utils_list.c rely on: a sequence that grows *)
(* and shrinks at both ends, and one walk over it.  The walk knows the     *)
(* item it returned last and the one it will return next, so that the      *)
(* former may be removed, and items may be added, while it is under way;   *)
(* what is added behind its back, or after it has seen its last item, it   *)
(* does not visit.                                                         *)
(***************************************************************************)
EXTENDS Integers, Sequences, SequencesExt

CONSTANTS
    Values,
    Indices     \* the indices asked for

VARIABLES
    items,      \* the values, head first
    dir,        \* the direction of the walk, or "none"
    at, nx,     \* the index in hand and the one the walk returns next, 0 for none
    ret         \* the value the last operation returned, 0 for none

vars == <<items, dir, at, nx, ret>>

Init ==
    /\ items = <<>>
    /\ dir = "none" /\ at = 0 /\ nx = 0
    /\ ret = 0

Shifted(i) == IF i = 0 THEN 0 ELSE i + 1

LPush(v) ==
    /\ items' = <<v>> \o items
    /\ at' = Shifted(at) /\ nx' = Shifted(nx)
    /\ UNCHANGED <<dir, ret>>

RPush(v) ==
    /\ items' = Append(items, v)
    /\ UNCHANGED <<dir, at, nx, ret>>

LPop ==
    /\ dir = "none" /\ at = 0
    /\ IF items = <<>> THEN ret' = 0 /\ UNCHANGED items
                       ELSE ret' = Head(items) /\ items' = Tail(items)
    /\ UNCHANGED <<dir, at, nx>>

RPop ==
    /\ dir = "none" /\ at = 0
    /\ IF items = <<>> THEN ret' = 0 /\ UNCHANGED items
                       ELSE ret' = Last(items) /\ items' = Front(items)
    /\ UNCHANGED <<dir, at, nx>>

\* The first item with the value v, if there is one, is taken in hand.
Find(v) ==
    /\ dir = "none"
    /\ at' = IF \E k \in 1 .. Len(items) : items[k] = v
             THEN CHOOSE k \in 1 .. Len(items) :
                     items[k] = v /\ \A j \in 1 .. k - 1 : items[j] # v
             ELSE 0
    /\ UNCHANGED <<items, dir, nx, ret>>

\* Indices count from 0 at the head, or from -1 at the tail.
At(i) ==
    /\ ret' = IF i >= 0 /\ i < Len(items) THEN items[i + 1]
              ELSE IF i < 0 /\ -i <= Len(items) THEN items[Len(items) + 1 + i]
              ELSE 0
    /\ UNCHANGED <<items, dir, at, nx>>

Begin(d) ==
    /\ dir = "none"
    /\ dir' = d
    /\ at' = 0
    /\ nx' = IF d = "tail" THEN Len(items) ELSE IF items = <<>> THEN 0 ELSE 1
    /\ UNCHANGED <<items, ret>>

Visit ==
    /\ dir # "none" /\ nx # 0
    /\ at' = nx
    /\ nx' = IF dir = "tail" THEN nx - 1 ELSE IF nx = Len(items) THEN 0 ELSE nx + 1
    /\ ret' = items[nx]
    /\ UNCHANGED <<items, dir>>

End ==
    /\ dir # "none"
    /\ dir' = "none" /\ at' = 0 /\ nx' = 0
    /\ UNCHANGED <<items, ret>>

\* The item in hand, visited or found, goes.
Drop ==
    /\ at # 0
    /\ items' = RemoveAt(items, at)
    /\ at' = 0
    /\ nx' = IF nx > at THEN nx - 1 ELSE nx
    /\ UNCHANGED <<dir, ret>>

Destroy ==
    /\ dir = "none" /\ at' = 0
    /\ items' = <<>>
    /\ UNCHANGED <<dir, nx, ret>>

Next ==
    \/ \E v \in Values : LPush(v) \/ RPush(v) \/ Find(v)
    \/ \E i \in Indices : At(i)
    \/ \E d \in {"head", "tail"} : Begin(d)
    \/ LPop \/ RPop \/ Visit \/ End \/ Drop \/ Destroy

Spec == Init /\ [][Next]_vars

=============================================================================
