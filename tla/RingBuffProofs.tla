--------------------------- MODULE RingBuffProofs ---------------------------
(***************************************************************************)
(* Proofs about RingBuff, for every ring size and every set of bytes: the  *)
(* index discipline that keeps push and pop apart, and that the ring       *)
(* implements the bounded FIFO of ByteFifo.                                *)
(***************************************************************************)
EXTENDS RingBuff, TLAPS

\* The modulo of ring_buff_push_data is the successor index of Succ.
LEMMA SuccIsMod ==
    ASSUME NEW i \in Slots
    PROVE  (i + 1) % Size = Succ(i) /\ Succ(i) \in Slots
<1>1. CASE i + 1 < Size
  BY <1>1, RingAssumption, SMTT(30) DEF Slots, Succ
<1>2. CASE i + 1 = Size
  <2>1. Size % Size = 0
    BY RingAssumption, SMTT(30)
  <2> QED
    BY <1>2, <2>1, RingAssumption DEF Slots, Succ
<1> QED
  BY <1>1, <1>2, RingAssumption DEF Slots

\* The stores of push, pop, init and flush keep the index discipline,
\* wherever the interrupt falls between them.
LEMMA IndexInvInductive ==
    /\ Init => IndexInv
    /\ IndexInv /\ [Next]_vars => IndexInv'
<1> USE RingAssumption
<1>1. Init => IndexInv
  <2> SUFFICES ASSUME Init PROVE IndexInv
    OBVIOUS
  <2>1. 0 \in Slots
    BY DEF Slots
  <2>2. full \in BOOLEAN /\ toClear \in SUBSET Slots
    BY Zenon DEF Init
  <2> QED
    BY <2>1, <2>2 DEF Init, IndexInv, TypeOK, PopHasByte, Chars, PCs
<1>2. IndexInv /\ [Next]_vars => IndexInv'
  <2> SUFFICES ASSUME IndexInv, [Next]_vars PROVE IndexInv'
    OBVIOUS
  <2> USE DEF IndexInv, TypeOK, PopHasByte, Slots, Chars, PCs
  <2>1. Succ(readpoint) \in Slots /\ Succ(writepoint) \in Slots
    BY SuccIsMod
  <2>2. CASE PushTooShort
    BY <2>2 DEF PushTooShort
  <2>3. CASE PushFull
    BY <2>3 DEF PushFull
  <2>4. ASSUME NEW ch \in Bytes, PushOk(ch) PROVE IndexInv'
    <3>1. size = Size /\ pc # "boot"
      BY <2>4 DEF PushOk
    <3>2. Succ(writepoint) # readpoint
      BY <2>4, <3>1, SuccIsMod DEF PushOk, IsFull
    <3>3. buffer' \in [Slots -> Chars]
      BY <2>4 DEF PushOk
    <3> QED
      BY <2>4, <2>1, <3>1, <3>2, <3>3 DEF PushOk
  <2>5. CASE PopCheck
    BY <2>5 DEF PopCheck
  <2>6. CASE PopAdvance
    BY <2>6, <2>1 DEF PopAdvance
  <2>7. CASE PopCopy
    BY <2>7 DEF PopCopy
  <2>8. CASE RingBuffInit
    BY <2>8 DEF RingBuffInit
  <2>9. CASE ClearReadpoint
    BY <2>9 DEF ClearReadpoint
  <2>10. CASE ClearWritepoint
    BY <2>10 DEF ClearWritepoint
  <2>11. ASSUME NEW s \in Slots, MemsetSlot(s) PROVE IndexInv'
    BY <2>11 DEF MemsetSlot
  <2>12. CASE ClearFull
    BY <2>12 DEF ClearFull
  <2>13. CASE UNCHANGED vars
    BY <2>13 DEF vars
  <2> QED
    BY <2>2, <2>3, <2>4, <2>5, <2>6, <2>7, <2>8, <2>9, <2>10, <2>11, <2>12,
       <2>13 DEF Next, AT_UART_IRQHandler, Thread
<1> QED
  BY <1>1, <1>2

\* Every reachable state satisfies the invariant.
THEOREM IndexInvariance == Spec => []IndexInv
BY IndexInvInductive, PTL DEF Spec

\* The indices stay inside the buffer and every variable keeps its type.
THEOREM TypeCorrect == Spec => []TypeOK
<1>1. IndexInv => TypeOK
  BY DEF IndexInv
<1> QED
  BY <1>1, IndexInvariance, PTL

\* A pop that has found the ring non-empty still does when it advances.
THEOREM PopAlwaysHasByte == Spec => []PopHasByte
<1>1. IndexInv => PopHasByte
  BY DEF IndexInv
<1> QED
  BY <1>1, IndexInvariance, PTL

\* No step of the interrupt touches the slot a pop is about to copy: the one
\* free slot that push leaves is exactly the one readpoint stands on.
THEOREM PoppedSlotIsStable == Spec => PoppedSlotStable
<1>1. IndexInv /\ [Next]_vars =>
        [pc = "copy" => buffer'[readpoint] = buffer[readpoint]]_vars
  <2> SUFFICES ASSUME IndexInv, Next, pc = "copy"
               PROVE  buffer'[readpoint] = buffer[readpoint]
    BY DEF vars
  <2> USE RingAssumption DEF IndexInv, TypeOK, Slots, Chars
  <2>1. ASSUME NEW ch \in Bytes, PushOk(ch)
        PROVE  buffer'[readpoint] = buffer[readpoint]
    <3>1. Succ(writepoint) # readpoint
      BY <2>1, SuccIsMod DEF PushOk, IsFull
    <3> QED
      BY <2>1, <3>1 DEF PushOk
  <2>2. CASE Thread
    BY <2>2 DEF Thread, PopCheck, PopAdvance, PopCopy, RingBuffInit,
       ClearReadpoint, ClearWritepoint, MemsetSlot, ClearFull
  <2>3. CASE PushTooShort \/ PushFull
    BY <2>3 DEF PushTooShort, PushFull
  <2> QED
    BY <2>1, <2>2, <2>3 DEF Next, AT_UART_IRQHandler
<1> QED
  BY <1>1, IndexInvariance, PTL DEF Spec, PoppedSlotStable

-----------------------------------------------------------------------------
(* The ring implements the bounded FIFO.                                   *)

QueueFacts ==
    /\ Count \in 0 .. Size - 1
    /\ Queue \in Seq(Chars)
    /\ Len(Queue) = Count
    /\ \A i \in 1 .. Count : Slot(i) \in Slots /\ Queue[i] = buffer[Slot(i)]

\* The bytes between the two indices form a sequence of Count bytes.
LEMMA QueueIsSeq == IndexInv => QueueFacts
<1> SUFFICES ASSUME IndexInv PROVE QueueFacts
  OBVIOUS
<1> USE RingAssumption DEF IndexInv, TypeOK, Slots
<1>1. Count \in 0 .. Size - 1
  BY DEF Count
<1>2. \A i \in 1 .. Count : Slot(i) \in Slots
  BY <1>1 DEF Slot
<1>3. Queue \in [1 .. Count -> Chars]
  BY <1>2 DEF Queue
<1>4. Queue \in Seq(Chars) /\ Len(Queue) = Count
  BY <1>1, <1>3
<1> QED
  BY <1>1, <1>2, <1>3, <1>4 DEF Queue, QueueFacts

\* A sequence is determined by its length and its elements.
LEMMA SeqEqual ==
    ASSUME NEW S, NEW s \in Seq(S), NEW t \in Seq(S), Len(s) = Len(t),
           \A i \in 1 .. Len(s) : s[i] = t[i]
    PROVE  s = t
OBVIOUS

\* A push appends to the queue.
LEMMA PushStep ==
    ASSUME IndexInv, IndexInv', NEW ch \in Bytes, PushOk(ch)
    PROVE  Fifo!Push(ch) \/ Fifo!LostInFlush
<1> USE RingAssumption
<1>1. size = Size /\ pc # "boot" /\ pc' = pc /\ readpoint' = readpoint /\ size' = size
  BY DEF IndexInv, TypeOK, PushOk
<1>2. Succ(writepoint) # readpoint /\ writepoint' = Succ(writepoint)
  BY <1>1, SuccIsMod DEF PushOk, IsFull, IndexInv, TypeOK
<1>3. CASE pc = "clear_writepoint"
  BY <1>1, <1>3 DEF PushOk, Fifo!LostInFlush, Queue, Count
<1>4. CASE pc # "clear_writepoint"
  <2>1. Count < Size - 1 /\ Count' = Count + 1
    BY <1>1, <1>2, <1>4 DEF IndexInv, TypeOK, Count, Succ, Slots
  <2>2. \A i \in 1 .. Count : Slot(i) # writepoint' /\ Slot(i)' = Slot(i)
    BY <1>1, <1>2, <1>4 DEF IndexInv, TypeOK, Count, Succ, Slot, Slots
  <2>3. \A i : i = Count + 1 => Slot(i)' = writepoint'
    BY <1>1, <1>2, <1>4 DEF IndexInv, TypeOK, Count, Succ, Slot, Slots
  <2>4. Queue' = Append(Queue, ch)
    <3>1. /\ Queue \in Seq(Chars) /\ Len(Queue) = Count
          /\ \A i \in 1 .. Count : Queue[i] = buffer[Slot(i)] /\ Slot(i) \in Slots
      BY QueueIsSeq DEF QueueFacts
    <3>2. /\ Queue' \in Seq(Chars) /\ Len(Queue') = Count'
          /\ \A i \in 1 .. Count' : Queue'[i] = buffer'[Slot(i)']
      <4>1. QueueFacts'
        BY QueueIsSeq, PTL
      <4> QED
        BY <4>1 DEF QueueFacts
    <3>3. buffer' = [buffer EXCEPT ![writepoint'] = ch] /\ buffer \in [Slots -> Chars]
          /\ writepoint' \in Slots
      BY DEF PushOk, IndexInv, TypeOK
    <3>4. Append(Queue, ch) \in Seq(Chars) /\ Len(Append(Queue, ch)) = Count'
      BY <3>1, <2>1 DEF Chars
    <3>5. ASSUME NEW i \in 1 .. Count' PROVE Queue'[i] = Append(Queue, ch)[i]
      <4>0. Count \in Nat
        BY QueueIsSeq DEF QueueFacts
      <4>1. CASE i = Count'
        <5>1. Queue'[i] = buffer'[writepoint']
          BY <3>2, <2>1, <2>3, <4>1
        <5>2. buffer'[writepoint'] = ch
          BY <3>3
        <5> QED
          BY <4>0, <4>1, <5>1, <5>2, <2>1, <3>1
      <4>2. CASE i # Count'
        <5>1. i \in 1 .. Count
          BY <4>0, <4>2, <2>1
        <5>2. Queue'[i] = buffer'[Slot(i)]
          BY <5>1, <3>2, <2>2
        <5>3. buffer'[Slot(i)] = Queue[i]
          BY <5>1, <3>1, <3>3, <2>2
        <5> QED
          BY <5>1, <5>2, <5>3, <3>1
      <4> QED
        BY <4>1, <4>2
    <3> HIDE DEF Queue, Count, Slot
    <3> QED
      BY <3>2, <3>4, <3>5, SeqEqual
  <2>5. Len(Queue) < Size - 1
    BY <2>1, QueueIsSeq DEF QueueFacts
  <2>6. pc = "copy" => buffer'[readpoint] = buffer[readpoint]
    BY <1>2 DEF PushOk, IndexInv, TypeOK
  <2> QED
    BY <1>1, <2>4, <2>5, <2>6 DEF Fifo!Push, PushOk
<1> QED
  BY <1>3, <1>4

\* Moving readpoint takes the head off the queue.
LEMMA PopStep ==
    ASSUME IndexInv, IndexInv', PopAdvance
    PROVE  Fifo!Pop
<1> USE RingAssumption
<1>1. /\ pc = "advance" /\ pc' = "copy" /\ readpoint' = Succ(readpoint)
      /\ writepoint' = writepoint /\ buffer' = buffer /\ writepoint # readpoint
  BY DEF PopAdvance, IndexInv, PopHasByte
<1>2. Count > 0 /\ Count' = Count - 1 /\ Slot(1) = readpoint'
  BY <1>1 DEF IndexInv, TypeOK, Count, Succ, Slot, Slots
<1>3. \A i \in 1 .. Count - 1 : Slot(i)' = Slot(i + 1)
  BY <1>1, <1>2 DEF IndexInv, TypeOK, Count, Succ, Slot, Slots
<1>4. QueueFacts /\ QueueFacts'
  BY QueueIsSeq, PTL
<1>5. Queue # <<>> /\ Head(Queue) = buffer'[readpoint']
  BY <1>1, <1>2, <1>4 DEF QueueFacts
<1>6. Queue' = Tail(Queue)
  <2>1. Tail(Queue) \in Seq(Chars) /\ Len(Tail(Queue)) = Count'
    BY <1>2, <1>4, <1>5 DEF QueueFacts
  <2>2. ASSUME NEW i \in 1 .. Count' PROVE Queue'[i] = Tail(Queue)[i]
    <3>1. i \in 1 .. Count - 1 /\ i + 1 \in 1 .. Count
      BY <1>2, <1>4 DEF QueueFacts
    <3>2. Queue'[i] = buffer[Slot(i + 1)]
      BY <1>1, <1>3, <1>4, <3>1 DEF QueueFacts
    <3>3. Tail(Queue)[i] = Queue[i + 1]
      BY <3>1, <1>4, <1>5 DEF QueueFacts
    <3> QED
      BY <3>1, <3>2, <3>3, <1>4 DEF QueueFacts
  <2> QED
    BY <1>4, <2>1, <2>2, SeqEqual DEF QueueFacts
<1> QED
  BY <1>1, <1>5, <1>6 DEF Fifo!Pop, PopAdvance

\* Clearing a slot during a flush blanks at most one queued byte.
LEMMA MemsetStep ==
    ASSUME IndexInv, IndexInv', NEW s \in Slots, MemsetSlot(s)
    PROVE  Fifo!Blank \/ UNCHANGED Fifo!vars
<1> USE RingAssumption
<1>1. /\ pc = "memset" /\ pc' = pc /\ readpoint = 0 /\ readpoint' = 0
      /\ writepoint' = writepoint /\ size' = size /\ out' = out /\ rc' = rc
      /\ buffer' = [buffer EXCEPT ![s] = Zero]
  BY DEF MemsetSlot, IndexInv
<1>2. Count' = Count
  BY <1>1 DEF Count
<1>3. QueueFacts /\ QueueFacts'
  BY QueueIsSeq, PTL
<1>4. \A i \in 1 .. Count : Slot(i)' = i /\ Slot(i) = i
  BY <1>1, <1>3 DEF Slot, QueueFacts, IndexInv, TypeOK, Slots
<1>5. \A i \in 1 .. Count : Queue'[i] = IF i = s THEN Zero ELSE Queue[i]
  BY <1>1, <1>2, <1>3, <1>4 DEF QueueFacts, IndexInv, TypeOK
<1>6. CASE s \in 1 .. Count
  <2>1. Queue' = [Queue EXCEPT ![s] = Zero]
    <3>1. [Queue EXCEPT ![s] = Zero] \in Seq(Chars)
          /\ Len([Queue EXCEPT ![s] = Zero]) = Count
      BY <1>3, <1>6 DEF QueueFacts, Chars
    <3>2. \A i \in 1 .. Count : Queue'[i] = [Queue EXCEPT ![s] = Zero][i]
      BY <1>3, <1>5, <1>6 DEF QueueFacts
    <3> QED
      BY <1>2, <1>3, <3>1, <3>2, SeqEqual DEF QueueFacts
  <2> QED
    BY <1>1, <1>3, <1>6, <2>1 DEF Fifo!Blank, QueueFacts
<1>7. CASE s \notin 1 .. Count
  <2>1. Queue' = Queue
    BY <1>2, <1>3, <1>5, <1>7, SeqEqual DEF QueueFacts
  <2> QED
    BY <1>1, <2>1 DEF Fifo!vars
<1> QED
  BY <1>6, <1>7

\* Steps that move neither index nor byte leave the queue as it is.
LEMMA QueueUnchanged ==
    ASSUME UNCHANGED <<readpoint, writepoint, buffer>>,
           pc # "clear_writepoint", pc' # "clear_writepoint"
    PROVE  Queue' = Queue
<1>1. Count' = Count
  BY DEF Count
<1> QED
  BY <1>1 DEF Queue, Slot

\* Every step of the ring is a step of the bounded FIFO or a stutter.
LEMMA FifoStep ==
    ASSUME IndexInv, IndexInv', [Next]_vars
    PROVE  [Fifo!Next]_Fifo!vars
<1> USE RingAssumption
<1>1. CASE PushTooShort
  <2>1. pc = "boot" /\ pc' = pc /\ size = 0 /\ size' = 0
    BY <1>1 DEF PushTooShort, IndexInv
  <2> QED
    BY <1>1, <2>1, QueueUnchanged DEF PushTooShort, Fifo!Next, Fifo!Refuse
<1>2. CASE PushFull
  <2>1. size = Size /\ pc' = pc /\ Succ(writepoint) = readpoint
    BY <1>2, SuccIsMod DEF PushFull, IsFull, IndexInv, TypeOK
  <2>2. CASE pc = "clear_writepoint"
    <3>1. Queue' = Queue
      BY <2>2, <2>1 DEF Queue, Count
    <3> QED
      BY <1>2, <2>1, <2>2, <3>1 DEF PushFull, Fifo!Next, Fifo!LostInFlush
  <2>3. CASE pc # "clear_writepoint"
    <3>1. Count = Size - 1
      BY <2>1, <2>3 DEF Count, Succ, IndexInv, TypeOK, Slots
    <3>2. Len(Queue) = Size - 1
      BY <3>1, QueueIsSeq DEF QueueFacts
    <3>3. Queue' = Queue
      BY <1>2, <2>1, <2>3, QueueUnchanged DEF PushFull
    <3> QED
      BY <1>2, <2>1, <3>2, <3>3 DEF PushFull, Fifo!Next, Fifo!Refuse
  <2> QED
    BY <2>2, <2>3
<1>3. ASSUME NEW ch \in Bytes, PushOk(ch) PROVE [Fifo!Next]_Fifo!vars
  BY <1>3, PushStep DEF Fifo!Next
<1>4. CASE PopCheck
  BY <1>4, QueueUnchanged DEF PopCheck, Fifo!vars
<1>5. CASE PopAdvance
  BY <1>5, PopStep DEF Fifo!Next
<1>6. CASE PopCopy
  BY <1>6, QueueUnchanged DEF PopCopy, Fifo!vars
<1>7. CASE RingBuffInit
  <2>1. size = 0 /\ size' # 0 /\ Queue' = Queue
    BY <1>7, QueueUnchanged DEF RingBuffInit, IndexInv
  <2> QED
    BY <1>7, <2>1 DEF RingBuffInit, Fifo!Next, Fifo!Open
<1>8. CASE ClearReadpoint
  <2>1. Queue' = <<>>
    BY <1>8 DEF ClearReadpoint, Queue, Count
  <2> QED
    BY <1>8, <2>1 DEF ClearReadpoint, Fifo!Next, Fifo!BeginFlush
<1>9. CASE ClearWritepoint
  <2>1. Queue = <<>> /\ Queue' = <<>>
    BY <1>9 DEF ClearWritepoint, Queue, Count, IndexInv
  <2> QED
    BY <1>9, <2>1 DEF ClearWritepoint, Fifo!vars
<1>10. ASSUME NEW s \in Slots, MemsetSlot(s) PROVE [Fifo!Next]_Fifo!vars
  BY <1>10, MemsetStep DEF Fifo!Next
<1>11. CASE ClearFull
  <2>1. Queue' = Queue
    BY <1>11, QueueUnchanged DEF ClearFull
  <2> QED
    BY <1>11, <2>1 DEF ClearFull, Fifo!Next, Fifo!EndFlush
<1>12. CASE UNCHANGED vars
  <2>1. Queue' = Queue
    BY <1>12 DEF vars, Queue, Count, Slot
  <2> QED
    BY <1>12, <2>1 DEF vars, Fifo!vars
<1> QED
  BY <1>1, <1>2, <1>3, <1>4, <1>5, <1>6, <1>7, <1>8, <1>9, <1>10, <1>11,
     <1>12 DEF Next, AT_UART_IRQHandler, Thread

\* The ring buffer implements the bounded FIFO, for every size and wherever
\* the interrupt falls between the stores of pop, init and flush.
THEOREM RingImplementsFifo == Spec => FifoSpec
<1>1. Init => Fifo!Init
  <2> SUFFICES ASSUME Init PROVE Fifo!Init
    OBVIOUS
  <2>1. Queue = <<>>
    BY DEF Init, Queue, Count
  <2> QED
    BY <2>1 DEF Init, Fifo!Init
<1>2. IndexInv /\ IndexInv' /\ [Next]_vars => [Fifo!Next]_Fifo!vars
  BY FifoStep
<1> QED
  BY <1>1, <1>2, IndexInvariance, PTL DEF Spec, FifoSpec, Fifo!Spec

=============================================================================
