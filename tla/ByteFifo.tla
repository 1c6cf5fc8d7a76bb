------------------------------ MODULE ByteFifo ------------------------------
(***************************************************************************)
(* What the ring buffer of src/module_at/ringbuff.c promises its users: a  *)
(* bounded first-in first-out queue of the bytes the UART received.  A     *)
(* byte is refused only when the queue is full, when the queue does not    *)
(* exist yet, or while a flush is under way; a flush empties the queue and *)
(* may, until it ends, blank bytes that arrive meanwhile.                  *)
(***************************************************************************)
EXTENDS Integers, Sequences

CONSTANTS
    Capacity,   \* how many bytes the queue holds
    Bytes,      \* the bytes the module sends
    Zero        \* the NUL byte a flush writes, which the module never sends

VARIABLES
    q,          \* the bytes received and not yet popped, oldest first
    out,        \* the byte the last pop returned
    rc,         \* what the last push returned
    open,       \* the queue has been initialised
    flushing    \* a flush has begun and has not ended

vars == <<q, out, rc, open, flushing>>

Init ==
    /\ q = <<>>
    /\ out = Zero
    /\ rc = "OK"
    /\ open = FALSE
    /\ flushing = FALSE

\* Received bytes are appended; `rc` tells the interrupt handler so.
Push(b) ==
    /\ open
    /\ Len(q) < Capacity
    /\ q' = Append(q, b)
    /\ rc' = "OK"
    /\ UNCHANGED <<out, open, flushing>>

\* A byte is turned away because the queue is full or not there yet.
Refuse ==
    /\ \/ open /\ Len(q) = Capacity /\ rc' = "FULL"
       \/ ~open /\ rc' = "TOO_SHORT"
    /\ UNCHANGED <<q, out, open, flushing>>

\* While a flush runs a byte may vanish whatever the push returns.
LostInFlush ==
    /\ flushing
    /\ rc' \in {"OK", "FULL"}
    /\ UNCHANGED <<q, out, open, flushing>>

Pop ==
    /\ q # <<>>
    /\ ~flushing
    /\ out' = Head(q)
    /\ q' = Tail(q)
    /\ UNCHANGED <<rc, open, flushing>>

Open ==
    /\ ~open
    /\ open' = TRUE
    /\ UNCHANGED <<q, out, rc, flushing>>

BeginFlush ==
    /\ ~flushing
    /\ q' = <<>>
    /\ flushing' = TRUE
    /\ UNCHANGED <<out, rc, open>>

\* The flush blanks one of the bytes that arrived since it began.
Blank ==
    /\ flushing
    /\ \E i \in 1..Len(q) : q' = [q EXCEPT ![i] = Zero]
    /\ UNCHANGED <<out, rc, open, flushing>>

EndFlush ==
    /\ flushing
    /\ flushing' = FALSE
    /\ UNCHANGED <<q, out, rc, open>>

Next ==
    \/ \E b \in Bytes : Push(b)
    \/ Refuse
    \/ LostInFlush
    \/ Pop
    \/ Open
    \/ BeginFlush
    \/ Blank
    \/ EndFlush

Spec == Init /\ [][Next]_vars

=============================================================================
