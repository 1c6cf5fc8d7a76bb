------------------------------ MODULE RingBuff ------------------------------
(***************************************************************************)
(* The ring buffer of src/module_at/ringbuff.c with its two users: the     *)
(* UART receive interrupt (port/hal_at.c), which pushes one byte at a time *)
(* and cannot be interrupted by a thread, and the one thread that owns the *)
(* reading side: first the task that runs module_init, then the parser.    *)
(* The thread's pops and flushes are split at every store the interrupt    *)
(* can observe; memset clears the slots one at a time in any order.        *)
(***************************************************************************)
EXTENDS Integers, Sequences

CONSTANTS
    Size,       \* ring_buff->size after ring_buff_init: RING_BUFF_LEN
    Bytes,      \* the bytes the module sends
    Zero        \* the NUL byte of memset, which the module never sends

ASSUME RingAssumption ==
    /\ Size \in Nat \ {0}
    /\ Zero \notin Bytes

VARIABLES
    size,       \* ring_buff->size: 0 until ring_buff_init stores it
    readpoint,
    writepoint,
    buffer,
    full,
    pc,         \* where the reading thread is
    toClear,    \* the slots memset has not cleared yet
    out,        \* *pData of the last ring_buff_pop_data
    rc          \* the value the last ring_buff_push_data returned

vars == <<size, readpoint, writepoint, buffer, full, pc, toClear, out, rc>>

Slots == 0 .. Size - 1
Chars == Bytes \cup {Zero}

\* Mutant: the index runs past the end of the buffer.
Succ_NoWrap(i) == i + 1

\* The index after i, as both push and pop advance their index.
Succ(i) == IF i < Size - 1 THEN i + 1 ELSE 0

(***************************************************************************)
(* g_ring_buff is a zero-initialised static; the storage is malloc'ed and  *)
(* holds anything.                                                         *)
(***************************************************************************)
Init ==
    /\ size = 0
    /\ readpoint = 0
    /\ writepoint = 0
    /\ buffer \in [Slots -> Chars]
    /\ full = FALSE
    /\ pc = "boot"
    /\ toClear = {}
    /\ out = Zero
    /\ rc = "OK"

-----------------------------------------------------------------------------
(* The interrupt: ring_buff_push_data(&g_ring_buff, &ch, 1).               *)

\* Mutant: the full test forgets that the ring wraps.
IsFull_NoWrap == writepoint + 1 = readpoint

\* Mutant: the full test uses up the free slot.
IsFull_NoGap == writepoint + 1 = size /\ readpoint = 1

IsFull == (writepoint + 1) % size = readpoint

PushTooShort ==
    /\ size < 1
    /\ rc' = "TOO_SHORT"
    /\ UNCHANGED <<size, readpoint, writepoint, buffer, full, pc, toClear, out>>

PushFull ==
    /\ size >= 1
    /\ IsFull
    /\ full' = TRUE
    /\ rc' = "FULL"
    /\ UNCHANGED <<size, readpoint, writepoint, buffer, pc, toClear, out>>

\* Mutant: the byte is stored before writepoint moves.
PushOk_StoreFirst(ch) ==
    /\ size >= 1
    /\ ~IsFull
    /\ writepoint' = Succ(writepoint)
    /\ buffer' = [buffer EXCEPT ![writepoint] = ch]
    /\ rc' = "OK"
    /\ UNCHANGED <<size, readpoint, full, pc, toClear, out>>

PushOk(ch) ==
    /\ size >= 1
    /\ ~IsFull
    /\ writepoint' = Succ(writepoint)
    /\ buffer' = [buffer EXCEPT ![writepoint'] = ch]
    /\ rc' = "OK"
    /\ UNCHANGED <<size, readpoint, full, pc, toClear, out>>

AT_UART_IRQHandler == \E ch \in Bytes : PushTooShort \/ PushFull \/ PushOk(ch)

-----------------------------------------------------------------------------
(* ring_buff_pop_data(ring_buff, pch, 1), called by at_client_getchar.  An *)
(* empty ring returns 0 and changes nothing.                               *)

PopCheck ==
    /\ pc = "idle"
    /\ writepoint # readpoint
    /\ pc' = "advance"
    /\ UNCHANGED <<size, readpoint, writepoint, buffer, full, toClear, out, rc>>

PopAdvance ==
    /\ pc = "advance"
    /\ readpoint' = Succ(readpoint)
    /\ pc' = "copy"
    /\ UNCHANGED <<size, writepoint, buffer, full, toClear, out, rc>>

PopCopy ==
    /\ pc = "copy"
    /\ out' = buffer[readpoint]
    /\ pc' = "idle"
    /\ UNCHANGED <<size, readpoint, writepoint, buffer, full, toClear, rc>>

-----------------------------------------------------------------------------
(* ring_buff_init stores the size and then runs the stores of              *)
(* ring_buff_flush; the flush itself is run by at_recv_readline when a     *)
(* line does not fit, and by module_power_on, whose flush comes before     *)
(* ring_buff_init and finds a zero-sized ring with nothing to clear.       *)

RingBuffInit ==
    /\ pc = "boot"
    /\ size' = Size
    /\ pc' = "init"
    /\ UNCHANGED <<readpoint, writepoint, buffer, full, toClear, out, rc>>

ClearReadpoint ==
    /\ pc \in {"init", "idle"}
    /\ readpoint' = 0
    /\ pc' = "clear_writepoint"
    /\ UNCHANGED <<size, writepoint, buffer, full, toClear, out, rc>>

ClearWritepoint ==
    /\ pc = "clear_writepoint"
    /\ writepoint' = 0
    /\ toClear' = Slots
    /\ pc' = "memset"
    /\ UNCHANGED <<size, readpoint, buffer, full, out, rc>>

MemsetSlot(s) ==
    /\ pc = "memset"
    /\ s \in toClear
    /\ buffer' = [buffer EXCEPT ![s] = Zero]
    /\ toClear' = toClear \ {s}
    /\ UNCHANGED <<size, readpoint, writepoint, full, pc, out, rc>>

ClearFull ==
    /\ pc = "memset"
    /\ toClear = {}
    /\ full' = FALSE
    /\ pc' = "idle"
    /\ UNCHANGED <<size, readpoint, writepoint, buffer, toClear, out, rc>>

Thread ==
    \/ PopCheck
    \/ PopAdvance
    \/ PopCopy
    \/ RingBuffInit
    \/ ClearReadpoint
    \/ ClearWritepoint
    \/ \E s \in Slots : MemsetSlot(s)
    \/ ClearFull

Next == AT_UART_IRQHandler \/ Thread

Spec == Init /\ [][Next]_vars

-----------------------------------------------------------------------------
(* Properties.                                                             *)

PCs == {"boot", "idle", "advance", "copy", "init", "clear_writepoint", "memset"}

\* readpoint and writepoint stay inside the storage, and every other field keeps
\* its type.
TypeOK ==
    /\ size \in {0, Size}
    /\ readpoint \in Slots
    /\ writepoint \in Slots
    /\ buffer \in [Slots -> Chars]
    /\ full \in BOOLEAN
    /\ pc \in PCs
    /\ toClear \in SUBSET Slots
    /\ out \in Chars
    /\ rc \in {"OK", "FULL", "TOO_SHORT"}

\* The bytes between readpoint and writepoint, oldest first.  Between the
\* two index stores of a flush the indices mean nothing and the queue is
\* already empty.
Count ==
    IF pc = "clear_writepoint" THEN 0
    ELSE IF writepoint >= readpoint THEN writepoint - readpoint
    ELSE writepoint - readpoint + Size

Slot(i) == IF readpoint + i < Size THEN readpoint + i ELSE readpoint + i - Size

Queue == [i \in 1 .. Count |-> buffer[Slot(i)]]

Fifo == INSTANCE ByteFifo WITH
    Capacity <- Size - 1,
    q        <- Queue,
    out      <- IF pc = "copy" THEN buffer[readpoint] ELSE out,
    open     <- size # 0,
    flushing <- pc \in {"clear_writepoint", "memset"}

\* The ring implements a bounded FIFO: whatever the interrupt interleaves
\* with, bytes come out in the order they came in, none is lost while
\* there is room and no flush runs, and none is overwritten before
\* ring_buff_pop_data has copied it.
FifoSpec == Fifo!Spec

\* A pop that has passed the emptiness test of ring_buff_pop_data still
\* finds a byte when it moves readpoint, although the interrupt may have
\* run in between; so readpoint never overtakes writepoint.
PopHasByte == pc = "advance" => writepoint # readpoint

\* The inductive invariant: the size is stored before any index moves, and a
\* flush keeps readpoint at 0 until it ends.
IndexInv ==
    /\ TypeOK
    /\ PopHasByte
    /\ size = IF pc = "boot" THEN 0 ELSE Size
    /\ pc \in {"boot", "clear_writepoint", "memset"} => readpoint = 0
    /\ pc = "boot" => writepoint = 0

\* The slot ring_buff_pop_data is about to copy has already left the queue
\* (readpoint has moved onto it), and the interrupt may run before the copy:
\* the slot must keep its byte until the copy is done.
PoppedSlotStable ==
    [][pc = "copy" => buffer'[readpoint] = buffer[readpoint]]_vars

=============================================================================
