-------------------------- MODULE LineReaderProofs --------------------------
(***************************************************************************)
(* What at_recv_readline hands to the parser, for any size of the ring and *)
(* of the buffer, any lines and any interleaving with the interrupt.  The  *)
(* bytes between the reader's first and the interrupt's last, Unread, are  *)
(* those of recv_buffer and then those of the ring; a line that is not     *)
(* hurt lies in Unread in one piece, behind the line before it, until one  *)
(* text takes all of it (LineInv).                                         *)
(***************************************************************************)
EXTENDS LineReader, TLAPS

Bytes == {NulByte} \cup (Nat \X Nat)

\* A byte of the lines the module sent, up to the p-th of the last one.
Sent(b, lines, p) ==
    /\ b \in Nat \X Nat
    /\ b[1] \in 1 .. Len(lines)
    /\ b[2] \in 1 .. Len(lines[b[1]])
    /\ b[1] = Len(lines) => b[2] <= p

Known(s, lines, p) == \A k \in 1 .. Len(s) : s[k] = NulByte \/ Sent(s[k], lines, p)

TypeInv ==
    /\ sent \in Seq(Texts) /\ pos \in Nat
    /\ IF sent = <<>> THEN pos = 0 ELSE pos <= Len(sent[Len(sent)])
    /\ q \in Seq(Bytes) /\ Len(q) <= RingSize /\ Known(q, sent, pos)
    /\ recv_buffer \in Seq(Bytes) /\ Len(recv_buffer) <= BufSize /\ Known(recv_buffer, sent, pos)
    /\ handed \in Seq([text : Seq(Bytes), urc : BOOLEAN])
    /\ \A k \in 1 .. Len(handed) : Len(handed[k].text) \in 1 .. BufSize /\ Known(handed[k].text, sent, pos)
    /\ hurt \subseteq Nat
    /\ rpc \in {"off", "getchar", "flush", "flushing"}
    /\ last_ch \in Chars \cup {NoSign}
    /\ is_full \in BOOLEAN
    /\ end_sign \in {NoSign, ">"}

Before(a, b) == a[1] < b[1] \/ (a[1] = b[1] /\ a[2] < b[2])

Sorted(s) == \A m, n \in 1 .. Len(s) :
    s[m] # NulByte /\ s[n] # NulByte /\ m < n => Before(s[m], s[n])

AllBefore(s, t) == \A m \in 1 .. Len(s), n \in 1 .. Len(t) :
    s[m] # NulByte /\ t[n] # NulByte => Before(s[m], t[n])

\* Bytes go from the ring to the buffer to the parser and keep their order.
OrderInv ==
    /\ Sorted(q) /\ Sorted(recv_buffer) /\ AllBefore(recv_buffer, q)
    /\ \A k \in 1 .. Len(handed) :
         /\ Sorted(handed[k].text)
         /\ AllBefore(handed[k].text, recv_buffer) /\ AllBefore(handed[k].text, q)
         /\ \A j \in 1 .. k - 1 : AllBefore(handed[j].text, handed[k].text)

\* What the reader remembers.
ReaderInv ==
    /\ is_full /\ rpc # "flushing" => Len(recv_buffer) >= BufSize
    /\ recv_buffer # <<>> /\ ~is_full => last_ch = Char(recv_buffer[Len(recv_buffer)])
    /\ rpc = "flush" => LinesOf(recv_buffer) \subseteq hurt
    /\ rpc = "flushing" => recv_buffer = <<>>
    /\ flushing => rpc = "flushing"

Total(r, s) == Len(r) + Len(s)
At(r, s, m) == IF m <= Len(r) THEN r[m] ELSE s[m - Len(r)]

\* The first c bytes of line i follow the first d bytes of r and s.
Run(r, s, i, d, c) ==
    /\ d + c <= Total(r, s)
    /\ \A n \in 1 .. c : At(r, s, d + n) = <<i, n>>

Arrived(i) == IF i < Len(sent) THEN Len(sent[i]) ELSE pos
Intact(i) == i \in 1 .. Len(sent) /\ i \notin hurt /\ Arrived(i) > 0

In(b, s) == \E n \in 1 .. Len(s) : s[n] = b

\* One text has all of line i.
Taken(i) == \E k \in 1 .. Len(handed) : \A n \in 1 .. Len(sent[i]) : In(<<i, n>>, handed[k].text)

\* Line i is in Unread behind d bytes.
Waits(i, d) ==
    /\ Run(recv_buffer, q, i, d, Arrived(i))
    /\ i = 1 => d = 0
    /\ i > 1 /\ i - 1 \notin hurt =>
         \/ d = 0 /\ Taken(i - 1)
         \/ d > 0 /\ At(recv_buffer, q, d) = <<i - 1, Len(sent[i - 1])>>

\* The last line that has begun to arrive.
Tip == IF pos > 0 THEN Len(sent) ELSE Len(sent) - 1

LineInv ==
    /\ Tip < 1 => recv_buffer = <<>> /\ q = <<>>
    /\ \A i \in 1 .. Len(sent) : Intact(i) =>
         \/ Taken(i) /\ (i = Tip => recv_buffer = <<>> /\ q = <<>>)
         \/ \E d \in 0 .. Total(recv_buffer, q) :
              Waits(i, d) /\ (i = Tip => d + Arrived(i) = Total(recv_buffer, q))

\* A line feed in the buffer is that of a hurt line.
FeedInv == \A i \in 1 .. Len(sent) :
    i \notin hurt /\ In(<<i, Len(sent[i])>>, recv_buffer) => sent[i][Len(sent[i])] # "LF"

Ends(i) == sent[i][Len(sent[i])] = "LF"

\* A text with a line that ends, behind one that was separated, is that line.
AloneInv == \A k \in 1 .. Len(handed) : \A i \in LinesOf(handed[k].text) :
    (/\ i \notin hurt /\ Ends(i)
     /\ i = 1 \/ (i - 1 \notin hurt /\ Separated(i - 1)))
    => handed[k].text = TextOf(i)

UrcInv == \A k \in 1 .. Len(handed) : handed[k].urc = get_urc_obj(handed[k].text)

-----------------------------------------------------------------------------
(* Sequences of bytes.                                                     *)

LEMMA TailSeq ==
    ASSUME NEW S, NEW s \in Seq(S), s # <<>>
    PROVE  /\ Tail(s) \in Seq(S) /\ Len(s) > 0 /\ Len(Tail(s)) = Len(s) - 1
           /\ Head(s) = s[1] /\ s[1] \in S
           /\ \A k \in 1 .. Len(s) - 1 : Tail(s)[k] = s[k + 1]
  OBVIOUS

LEMMA AppendSeq ==
    ASSUME NEW S, NEW s \in Seq(S), NEW b \in S
    PROVE  /\ Append(s, b) \in Seq(S) /\ Len(Append(s, b)) = Len(s) + 1
           /\ Append(s, b)[Len(s) + 1] = b
           /\ \A k \in 1 .. Len(s) : Append(s, b)[k] = s[k]
  OBVIOUS

LEMMA EmptySeq ==
    ASSUME NEW S
    PROVE  <<>> \in Seq(S) /\ Len(<<>>) = 0
  OBVIOUS

LEMMA BlankSeq ==
    ASSUME NEW S, NEW s \in Seq(S), NEW i \in 1 .. Len(s), NEW b \in S
    PROVE  /\ [s EXCEPT ![i] = b] \in Seq(S) /\ Len([s EXCEPT ![i] = b]) = Len(s)
           /\ \A k \in 1 .. Len(s) : [s EXCEPT ![i] = b][k] = IF k = i THEN b ELSE s[k]
  OBVIOUS

LEMMA ElementSeq ==
    ASSUME NEW S, NEW s \in Seq(S), NEW k \in 1 .. Len(s)
    PROVE  s[k] \in S
  OBVIOUS

LEMMA LenSeq ==
    ASSUME NEW S, NEW s \in Seq(S)
    PROVE  Len(s) \in Nat /\ (Len(s) = 0 <=> s = <<>>)
  OBVIOUS

\* A byte that is read goes from the ring to the buffer.
LEMMA SortedRead ==
    ASSUME NEW r \in Seq(Bytes), NEW s \in Seq(Bytes), s # <<>>,
           Sorted(r), Sorted(s), AllBefore(r, s)
    PROVE  /\ Sorted(Tail(s)) /\ AllBefore(r, Tail(s))
           /\ Sorted(Append(r, Head(s))) /\ AllBefore(Append(r, Head(s)), Tail(s))
<1> DEFINE u == Tail(s)
           a == Append(r, Head(s))
<1>1. /\ Len(s) \in Nat /\ Len(s) > 0 /\ Len(u) = Len(s) - 1 /\ Head(s) = s[1] /\ s[1] \in Bytes
      /\ \A k \in 1 .. Len(s) - 1 : u[k] = s[k + 1]
  BY TailSeq, LenSeq, Zenon
<1>2. /\ Len(r) \in Nat /\ Len(a) = Len(r) + 1 /\ a[Len(r) + 1] = s[1]
      /\ \A k \in 1 .. Len(r) : a[k] = r[k]
  BY <1>1
<1> HIDE DEF u, a
<1>3. Sorted(u) /\ AllBefore(r, u)
  <2>1. \A n \in 1 .. Len(u) : n + 1 \in 1 .. Len(s) /\ u[n] = s[n + 1]
    BY <1>1
  <2>2. Sorted(u)
    <3> SUFFICES ASSUME NEW m \in 1 .. Len(u), NEW n \in 1 .. Len(u),
                        u[m] # NulByte, u[n] # NulByte, m < n
                 PROVE  Before(u[m], u[n])
      BY DEF Sorted
    <3>1. m + 1 < n + 1
      BY <1>1
    <3> QED
      BY <2>1, <3>1 DEF Sorted
  <2>3. AllBefore(r, u)
    BY <1>1, <2>1 DEF AllBefore
  <2> QED
    BY <2>2, <2>3
<1>4. Sorted(a)
  <2> SUFFICES ASSUME NEW m \in 1 .. Len(a), NEW n \in 1 .. Len(a),
                      a[m] # NulByte, a[n] # NulByte, m < n
               PROVE  Before(a[m], a[n])
    BY DEF Sorted
  <2>1. m \in 1 .. Len(r) /\ a[m] = r[m]
    BY <1>2
  <2>2. CASE n = Len(r) + 1
    BY <1>1, <1>2, <2>1, <2>2 DEF AllBefore
  <2>3. CASE n \in 1 .. Len(r)
    BY <1>2, <2>1, <2>3 DEF Sorted
  <2> QED
    BY <1>2, <2>2, <2>3
<1>5. AllBefore(a, u)
  <2> SUFFICES ASSUME NEW m \in 1 .. Len(a), NEW n \in 1 .. Len(u),
                      a[m] # NulByte, u[n] # NulByte
               PROVE  Before(a[m], u[n])
    BY DEF AllBefore
  <2>1. n + 1 \in 1 .. Len(s) /\ u[n] = s[n + 1] /\ 1 \in 1 .. Len(s) /\ 1 < n + 1
    BY <1>1
  <2>2. CASE m = Len(r) + 1
    BY <1>2, <2>1, <2>2 DEF Sorted
  <2>3. CASE m \in 1 .. Len(r)
    BY <1>2, <2>1, <2>3 DEF AllBefore
  <2> QED
    BY <1>2, <2>2, <2>3
<1> QED
  BY <1>3, <1>4, <1>5 DEF u, a

\* What is before both is before what is read.
LEMMA BeforeRead ==
    ASSUME NEW t \in Seq(Bytes), NEW r \in Seq(Bytes), NEW s \in Seq(Bytes), s # <<>>,
           AllBefore(t, r), AllBefore(t, s)
    PROVE  AllBefore(t, Append(r, Head(s))) /\ AllBefore(t, Tail(s))
<1> DEFINE u == Tail(s)
           a == Append(r, Head(s))
<1>1. /\ Len(s) \in Nat /\ Len(s) > 0 /\ Len(u) = Len(s) - 1 /\ Head(s) = s[1] /\ s[1] \in Bytes
      /\ \A k \in 1 .. Len(s) - 1 : u[k] = s[k + 1]
  BY TailSeq, LenSeq, Zenon
<1>2. /\ Len(r) \in Nat /\ Len(a) = Len(r) + 1 /\ a[Len(r) + 1] = s[1]
      /\ \A k \in 1 .. Len(r) : a[k] = r[k]
  BY <1>1
<1> HIDE DEF u, a
<1>3. AllBefore(t, u)
  BY <1>1 DEF AllBefore
<1>4. AllBefore(t, a)
  <2> SUFFICES ASSUME NEW m \in 1 .. Len(t), NEW n \in 1 .. Len(a),
                      t[m] # NulByte, a[n] # NulByte
               PROVE  Before(t[m], a[n])
    BY DEF AllBefore
  <2>2. CASE n = Len(r) + 1
    BY <1>1, <1>2, <2>2 DEF AllBefore
  <2>3. CASE n \in 1 .. Len(r)
    BY <1>2, <2>3 DEF AllBefore
  <2> QED
    BY <1>2, <2>2, <2>3
<1> QED
  BY <1>3, <1>4 DEF u, a

\* A byte that is pushed comes behind all the others.
LEMMA SortedPush ==
    ASSUME NEW r \in Seq(Bytes), NEW s \in Seq(Bytes), NEW b \in Bytes,
           \A k \in 1 .. Len(r) : r[k] # NulByte => Before(r[k], b),
           \A k \in 1 .. Len(s) : s[k] # NulByte => Before(s[k], b)
    PROVE  /\ Sorted(s) => Sorted(Append(s, b))
           /\ AllBefore(r, s) => AllBefore(r, Append(s, b))
<1> DEFINE a == Append(s, b)
<1>1. /\ Len(r) \in Nat /\ Len(s) \in Nat /\ Len(a) = Len(s) + 1 /\ a[Len(s) + 1] = b
      /\ \A k \in 1 .. Len(s) : a[k] = s[k]
  OBVIOUS
<1> HIDE DEF a
<1>2. ASSUME Sorted(s) PROVE Sorted(a)
  BY <1>1, <1>2 DEF Sorted
<1>3. ASSUME AllBefore(r, s) PROVE AllBefore(r, a)
  BY <1>1, <1>3 DEF AllBefore
<1> QED
  BY <1>2, <1>3 DEF a

LEMMA SortedBlank ==
    ASSUME NEW r \in Seq(Bytes), NEW s \in Seq(Bytes), NEW i \in 1 .. Len(s)
    PROVE  /\ Sorted(s) => Sorted([s EXCEPT ![i] = NulByte])
           /\ AllBefore(r, s) => AllBefore(r, [s EXCEPT ![i] = NulByte])
<1> DEFINE e == [s EXCEPT ![i] = NulByte]
<1>1. /\ Len(r) \in Nat /\ Len(s) \in Nat /\ Len(e) = Len(s)
      /\ \A k \in 1 .. Len(s) : e[k] = IF k = i THEN NulByte ELSE s[k]
  <2>1. NulByte \in Bytes
    BY DEF Bytes
  <2> QED
    BY <2>1
<1> HIDE DEF e
<1> QED
  <2>1. Sorted(s) => Sorted(e)
    BY <1>1 DEF Sorted
  <2>2. AllBefore(r, s) => AllBefore(r, e)
    BY <1>1 DEF AllBefore
  <2> QED
    BY <2>1, <2>2 DEF e

LEMMA SortedEmpty ==
    ASSUME NEW r \in Seq(Bytes)
    PROVE  Sorted(<<>>) /\ AllBefore(r, <<>>) /\ AllBefore(<<>>, r)
  BY EmptySeq DEF Sorted, AllBefore

-----------------------------------------------------------------------------
(* Types.                                                                  *)

\* The lines grow at their end, and what was sent stays sent.
LEMMA SentKept ==
    ASSUME TypeInv, [Next]_vars
    PROVE  /\ sent' \in Seq(Texts) /\ pos' \in Nat
           /\ IF sent' = <<>> THEN pos' = 0 ELSE pos' <= Len(sent'[Len(sent')])
           /\ Len(sent) <= Len(sent')
           /\ \A i \in 1 .. Len(sent) : sent'[i] = sent[i]
           /\ \A b : Sent(b, sent, pos) => Sent(b, sent', pos')
           /\ \A s : Known(s, sent, pos) => Known(s, sent', pos')
<1> USE LineAssumption
<1>0. /\ sent \in Seq(Texts) /\ pos \in Nat /\ Len(sent) \in Nat
      /\ IF sent = <<>> THEN pos = 0 ELSE pos <= Len(sent[Len(sent)])
  BY DEF TypeInv
<1>1. CASE SendLine
  <2> PICK t \in Texts : sent' = Append(sent, t)
    BY <1>1, Zenon DEF SendLine
  <2>1. /\ sent' \in Seq(Texts) /\ Len(sent') = Len(sent) + 1 /\ sent'[Len(sent) + 1] = t
        /\ \A k \in 1 .. Len(sent) : sent'[k] = sent[k]
    BY <1>0
  <2>2. pos' = 0 /\ Len(t) \in Nat /\ sent' # <<>>
    <3>1. pos' = 0
      BY <1>1, Zenon DEF SendLine
    <3>2. t \in Seq(Chars)
      OBVIOUS
    <3> QED
      BY <1>0, <2>1, <3>1, <3>2
  <2>3. ASSUME NEW b, Sent(b, sent, pos) PROVE Sent(b, sent', pos')
    BY <1>0, <2>1, <2>2, <2>3 DEF Sent
  <2> QED
    BY <1>0, <2>1, <2>2, <2>3 DEF Known
<1>2. CASE Receive
  <2>1. sent' = sent /\ pos' = pos + 1 /\ ~BetweenLines
    BY <1>2, Zenon DEF Receive
  <2>2. sent # <<>> /\ Len(sent) > 0 /\ Len(sent[Len(sent)]) \in Nat /\ pos' <= Len(sent[Len(sent)])
    BY <1>0, <2>1 DEF BetweenLines
  <2>3. ASSUME NEW b, Sent(b, sent, pos) PROVE Sent(b, sent', pos')
    BY <1>0, <2>1, <2>2, <2>3 DEF Sent
  <2> QED
    BY <1>0, <2>1, <2>2, <2>3 DEF Known
<1>3. ASSUME ~SendLine, ~Receive PROVE sent' = sent /\ pos' = pos
  BY <1>3, Zenon DEF Next, at_client_init, ReadChar, LineDone, LineTooLong, BeginFlush, FlushBlank, EndFlush,
          GetcharTimeout, GetcharDeadline, at_set_end_sign, vars
<1> QED
  BY <1>0, <1>1, <1>2, <1>3

\* A byte of a line is one of the characters.
LEMMA CharOf ==
    ASSUME TypeInv, NEW b, b = NulByte \/ Sent(b, sent, pos)
    PROVE  /\ b \in Bytes /\ Char(b) \in Chars \cup {NoSign}
           /\ b # NulByte => Char(b) = sent[b[1]][b[2]] /\ Char(b) \in Chars /\ Char(b) # NoSign
<1> USE LineAssumption
<1>1. CASE b = NulByte
  BY <1>1 DEF Char, Bytes
<1>2. CASE Sent(b, sent, pos)
  <2>1. sent[b[1]] \in Seq(Chars) /\ b[2] \in 1 .. Len(sent[b[1]])
    BY <1>2 DEF Sent, TypeInv
  <2>2. sent[b[1]][b[2]] \in Chars
    BY <2>1
  <2>3. b[1] # 0 /\ b \in Nat \X Nat
    BY <1>2 DEF Sent, TypeInv
  <2>4. b # NulByte
    BY <2>3 DEF NulByte
  <2> QED
    BY <2>2, <2>3, <2>4 DEF Char, Bytes, Chars, NoSign
<1> QED
  BY <1>1, <1>2

\* A pop takes the first byte of the ring.
LEMMA PopOf ==
    ASSUME TypeInv, Ring!Pop
    PROVE  /\ q # <<>> /\ ~flushing /\ flushing' = flushing
           /\ out' = Head(q) /\ q' = Tail(q) /\ out' = q[1] /\ out' \in Bytes
           /\ q' \in Seq(Bytes) /\ Len(q) > 0 /\ Len(q') = Len(q) - 1
           /\ \A k \in 1 .. Len(q) - 1 : q'[k] = q[k + 1]
           /\ Known(q', sent, pos) /\ (out' = NulByte \/ Sent(out', sent, pos))
<1>1. q # <<>> /\ ~flushing /\ flushing' = flushing /\ out' = Head(q) /\ q' = Tail(q)
  BY DEF Ring!Pop
<1>2. q \in Seq(Bytes) /\ Len(q) \in Nat /\ Known(q, sent, pos)
  BY DEF TypeInv
<1>3. /\ Tail(q) \in Seq(Bytes) /\ Len(q) > 0 /\ Len(Tail(q)) = Len(q) - 1
      /\ Head(q) = q[1] /\ q[1] \in Bytes
      /\ \A k \in 1 .. Len(q) - 1 : Tail(q)[k] = q[k + 1]
  BY <1>1, <1>2
<1>4. 1 \in 1 .. Len(q) /\ \A k \in 1 .. Len(q) - 1 : k + 1 \in 1 .. Len(q)
  BY <1>2, <1>3
<1>5. Known(q', sent, pos) /\ (out' = NulByte \/ Sent(out', sent, pos))
  <2>1. \A k \in 1 .. Len(q') : k \in 1 .. Len(q) - 1
    BY <1>1, <1>3
  <2> QED
    BY <1>1, <1>2, <1>3, <1>4, <2>1 DEF Known
<1> QED
  BY <1>1, <1>3, <1>5

\* What at_recv_readline has in its buffer after it looked at a byte.
LEMMA StoredOf ==
    ASSUME TypeInv, NEW b, b = NulByte \/ Sent(b, sent, pos)
    PROVE  /\ Stored(b) \in Seq(Bytes) /\ Len(Stored(b)) <= BufSize /\ Len(Stored(b)) > 0
           /\ Known(Stored(b), sent, pos)
           /\ Len(recv_buffer) < BufSize =>
                Stored(b) = Append(recv_buffer, b) /\ Len(Stored(b)) = Len(recv_buffer) + 1
           /\ Len(recv_buffer) >= BufSize => Stored(b) = recv_buffer
<1> USE LineAssumption
<1>1. /\ recv_buffer \in Seq(Bytes) /\ Len(recv_buffer) \in Nat /\ Len(recv_buffer) <= BufSize
      /\ Known(recv_buffer, sent, pos)
  BY DEF TypeInv
<1>2. b \in Bytes
  BY CharOf
<1>3. CASE Len(recv_buffer) < BufSize
  <2>1. Stored(b) = Append(recv_buffer, b)
    BY <1>3 DEF Stored
  <2>2. /\ Append(recv_buffer, b) \in Seq(Bytes)
        /\ Len(Append(recv_buffer, b)) = Len(recv_buffer) + 1
        /\ Append(recv_buffer, b)[Len(recv_buffer) + 1] = b
        /\ \A k \in 1 .. Len(recv_buffer) : Append(recv_buffer, b)[k] = recv_buffer[k]
    BY <1>1, <1>2
  <2>3. Known(Stored(b), sent, pos)
    BY <1>1, <2>1, <2>2 DEF Known
  <2> QED
    BY <1>1, <1>3, <2>1, <2>2, <2>3
<1>4. CASE ~(Len(recv_buffer) < BufSize)
  BY <1>1, <1>4 DEF Stored
<1> QED
  BY <1>3, <1>4

LEMMA InitTypes == Init => TypeInv
<1> SUFFICES ASSUME Init PROVE TypeInv
  OBVIOUS
<1> USE LineAssumption
<1>1. sent = <<>> /\ pos = 0 /\ q = <<>> /\ recv_buffer = <<>> /\ handed = <<>> /\ hurt = {}
  BY DEF Init, Ring!Init
<1>2. Known(<<>>, sent, pos) /\ Len(<<>>) = 0 /\ \A S : <<>> \in Seq(S)
  BY DEF Known
<1>3. /\ sent \in Seq(Texts) /\ pos \in Nat /\ handed \in Seq([text : Seq(Bytes), urc : BOOLEAN])
      /\ q \in Seq(Bytes) /\ Len(q) <= RingSize /\ Known(q, sent, pos)
      /\ recv_buffer \in Seq(Bytes) /\ Len(recv_buffer) <= BufSize /\ Known(recv_buffer, sent, pos)
      /\ Len(handed) = 0 /\ hurt \subseteq Nat
  BY <1>1, <1>2
<1>4. /\ rpc = "off" /\ last_ch = NoSign /\ is_full = FALSE /\ end_sign = NoSign
  BY DEF Init
<1>5. \A k \in 1 .. Len(handed) : Len(handed[k].text) \in 1 .. BufSize /\ Known(handed[k].text, sent, pos)
  BY <1>3
<1>6. /\ rpc \in {"off", "getchar", "flush", "flushing"} /\ last_ch \in Chars \cup {NoSign}
      /\ is_full \in BOOLEAN /\ end_sign \in {NoSign, ">"}
  BY <1>4
<1>7. IF sent = <<>> THEN pos = 0 ELSE pos <= Len(sent[Len(sent)])
  BY <1>1
<1> QED
  BY <1>3, <1>5, <1>6, <1>7, Zenon DEF TypeInv

\* No step reads or writes past the buffer or the ring.
LEMMA NextTypes == TypeInv /\ [Next]_vars => TypeInv'
<1> SUFFICES ASSUME TypeInv, [Next]_vars PROVE TypeInv'
  OBVIOUS
<1> USE LineAssumption
<1> DEFINE
      RingPart == q' \in Seq(Bytes) /\ Len(q') <= RingSize /\ Known(q', sent', pos')
      BufPart == recv_buffer' \in Seq(Bytes) /\ Len(recv_buffer') <= BufSize /\ Known(recv_buffer', sent', pos')
      HandedPart ==
        /\ handed' \in Seq([text : Seq(Bytes), urc : BOOLEAN])
        /\ \A k \in 1 .. Len(handed') :
             Len(handed'[k].text) \in 1 .. BufSize /\ Known(handed'[k].text, sent', pos')
      FlagPart ==
        /\ hurt' \subseteq Nat
        /\ rpc' \in {"off", "getchar", "flush", "flushing"}
        /\ last_ch' \in Chars \cup {NoSign}
        /\ is_full' \in BOOLEAN
        /\ end_sign' \in {NoSign, ">"}
<1>1. /\ sent' \in Seq(Texts) /\ pos' \in Nat
      /\ IF sent' = <<>> THEN pos' = 0 ELSE pos' <= Len(sent'[Len(sent')])
      /\ \A s : Known(s, sent, pos) => Known(s, sent', pos')
      /\ \A b : Sent(b, sent, pos) => Sent(b, sent', pos')
  BY SentKept
<1>2. TypeInv' <=> RingPart /\ BufPart /\ HandedPart /\ FlagPart
  BY <1>1 DEF TypeInv
<1>3. q' = q => RingPart
  BY <1>1 DEF TypeInv
<1>4. /\ recv_buffer' = recv_buffer => BufPart
      /\ recv_buffer' = <<>> => BufPart
  <2>1. Known(<<>>, sent, pos) /\ <<>> \in Seq(Bytes) /\ Len(<<>>) = 0
    BY DEF Known
  <2>2. recv_buffer' = <<>> => BufPart
    BY <1>1, <2>1
  <2> QED
    BY <1>1, <2>2 DEF TypeInv
<1>5. handed' = handed => HandedPart
  BY <1>1 DEF TypeInv
<1>6. ASSUME rpc' \in {"off", "getchar", "flush", "flushing"}, hurt' \subseteq Nat,
             \/ last_ch' = last_ch /\ is_full' = is_full
             \/ last_ch' = NoSign /\ is_full' = FALSE,
             end_sign' \in {end_sign, NoSign, ">"}
      PROVE  FlagPart
  BY <1>6 DEF TypeInv
<1>7. LinesOf(q) \subseteq Nat /\ LinesOf(recv_buffer) \subseteq Nat
  <2>1. ASSUME NEW s \in Seq(Bytes) PROVE LinesOf(s) \subseteq Nat
    BY <2>1 DEF LinesOf, Bytes, NulByte
  <2> QED
    BY <2>1 DEF TypeInv
<1>8. hurt \subseteq Nat /\ Len(sent) \in Nat /\ rpc \in {"off", "getchar", "flush", "flushing"}
  BY DEF TypeInv
<1>9. ASSUME Ring!Pop
      PROVE  /\ RingPart
             /\ LinesOf(<<out'>>) \subseteq Nat /\ LinesOf(Append(recv_buffer, out')) \subseteq Nat
             /\ out'[1] \in Nat
  <2>1. /\ q' \in Seq(Bytes) /\ Len(q') <= RingSize /\ Known(q', sent, pos) /\ out' \in Bytes
    BY <1>9, PopOf DEF TypeInv
  <2>2. ASSUME NEW s \in Seq(Bytes) PROVE LinesOf(s) \subseteq Nat
    BY <2>2 DEF LinesOf, Bytes, NulByte
  <2>3. <<out'>> \in Seq(Bytes) /\ Append(recv_buffer, out') \in Seq(Bytes) /\ out'[1] \in Nat
    BY <2>1 DEF TypeInv, Bytes, NulByte
  <2> QED
    BY <1>1, <2>1, <2>2, <2>3
<1> HIDE DEF RingPart, BufPart, HandedPart, FlagPart
<1>10. CASE SendLine
  BY <1>10, <1>2, <1>3, <1>4, <1>5, <1>6, <1>8 DEF SendLine, ringVars, readerVars
<1>11. CASE Receive
  <2>1. UNCHANGED <<readerVars, end_sign, sent, handed>> /\ pos' = pos + 1 /\ ~BetweenLines
    BY <1>11 DEF Receive
  <2>2. hurt' \subseteq Nat
    BY <1>8, <1>11 DEF Receive, Hurt
  <2>3. RingPart
    <3>1. CASE Ring!Push(NextByte)
      <4>1. Len(q) < RingSize /\ q' = Append(q, NextByte) /\ q \in Seq(Bytes) /\ Len(q) \in Nat
        BY <3>1 DEF Ring!Push, TypeInv
      <4>2. sent # <<>> /\ Len(sent) > 0 /\ sent' = sent /\ pos \in Nat
        BY <2>1, <1>8 DEF BetweenLines, TypeInv
      <4>3. pos + 1 <= Len(sent[Len(sent)])
        BY <1>1, <2>1, <4>2
      <4>4. Sent(NextByte, sent', pos') /\ NextByte \in Bytes
        BY <2>1, <4>2, <4>3, <1>8 DEF Sent, NextByte, Bytes
      <4>5. Known(q, sent', pos')
        BY <1>1 DEF TypeInv
      <4>6. /\ q' \in Seq(Bytes) /\ Len(q') = Len(q) + 1 /\ q'[Len(q) + 1] = NextByte
            /\ \A k \in 1 .. Len(q) : q'[k] = q[k]
        BY <4>1, <4>4
      <4>7. Known(q', sent', pos')
        BY <4>1, <4>4, <4>5, <4>6 DEF Known
      <4> QED
        BY <4>1, <4>6, <4>7 DEF RingPart
    <3>2. CASE Ring!Refuse \/ Ring!LostInFlush
      BY <3>2, <1>3 DEF Ring!Refuse, Ring!LostInFlush
    <3> QED
      BY <1>11, <3>1, <3>2 DEF Receive
  <2> QED
    BY <2>1, <2>2, <2>3, <1>2, <1>4, <1>5, <1>6, <1>8 DEF readerVars
<1>12. CASE at_client_init
  BY <1>12, <1>2, <1>3, <1>4, <1>5, <1>6, <1>8 DEF at_client_init, Ring!Open
<1>13. CASE ReadChar
  <2>1. /\ Ring!Pop /\ rpc' = rpc /\ end_sign' = end_sign /\ handed' = handed
        /\ recv_buffer' = Stored(out') /\ last_ch' = Char(out')
        /\ is_full' = (is_full \/ Len(recv_buffer) >= BufSize)
        /\ hurt' = hurt \cup (IF Len(recv_buffer) < BufSize THEN {} ELSE LinesOf(<<out'>>))
    BY <1>13 DEF ReadChar, Hurt
  <2>2. out' = NulByte \/ Sent(out', sent, pos)
    BY <2>1, PopOf
  <2>3. BufPart
    BY <1>1, <2>1, <2>2, StoredOf DEF BufPart
  <2>4. last_ch' \in Chars \cup {NoSign}
    BY <2>1, <2>2, CharOf
  <2>5. FlagPart
    <3>1. is_full' \in BOOLEAN
      BY <2>1
    <3>2. hurt' \subseteq Nat
      BY <2>1, <1>8, <1>9
    <3>3. end_sign' \in {NoSign, ">"}
      BY <2>1 DEF TypeInv
    <3> QED
      BY <2>1, <1>8, <2>4, <3>1, <3>2, <3>3 DEF FlagPart
  <2> QED
    BY <2>1, <2>3, <2>5, <1>2, <1>5, <1>9
<1>14. CASE LineDone
  <2>1. /\ Ring!Pop /\ rpc' = rpc /\ end_sign' = end_sign /\ Restart
        /\ handed' = Append(handed, [text |-> Stored(out'), urc |-> get_urc_obj(Stored(out'))])
    BY <1>14 DEF LineDone
  <2>2. out' = NulByte \/ Sent(out', sent, pos)
    BY <2>1, PopOf
  <2>3. /\ Stored(out') \in Seq(Bytes) /\ Len(Stored(out')) \in 1 .. BufSize
        /\ Known(Stored(out'), sent', pos')
    <3>1. /\ Stored(out') \in Seq(Bytes) /\ Len(Stored(out')) <= BufSize /\ Len(Stored(out')) > 0
          /\ Known(Stored(out'), sent, pos)
      BY <2>2, StoredOf
    <3> QED
      BY <1>1, <3>1
  <2>4. get_urc_obj(Stored(out')) \in BOOLEAN
    BY DEF get_urc_obj
  <2>5. HandedPart
    <3> DEFINE h == [text |-> Stored(out'), urc |-> get_urc_obj(Stored(out'))]
    <3>1. h \in [text : Seq(Bytes), urc : BOOLEAN] /\ h.text = Stored(out')
      BY <2>3, <2>4
    <3> HIDE DEF h
    <3>2. handed \in Seq([text : Seq(Bytes), urc : BOOLEAN]) /\ Len(handed) \in Nat
      BY DEF TypeInv
    <3>3. /\ handed' \in Seq([text : Seq(Bytes), urc : BOOLEAN]) /\ Len(handed') = Len(handed) + 1
          /\ handed'[Len(handed) + 1] = h /\ \A k \in 1 .. Len(handed) : handed'[k] = handed[k]
      <4>1. handed' = Append(handed, h)
        BY <2>1 DEF h
      <4> QED
        BY <3>1, <3>2, <4>1
    <3>4. \A k \in 1 .. Len(handed) :
            Len(handed[k].text) \in 1 .. BufSize /\ Known(handed[k].text, sent', pos')
      BY <1>1 DEF TypeInv
    <3>5. \A k \in 1 .. Len(handed') : k = Len(handed) + 1 \/ k \in 1 .. Len(handed)
      BY <3>2, <3>3
    <3> QED
      BY <2>3, <3>1, <3>3, <3>4, <3>5 DEF HandedPart
  <2>6. hurt' \subseteq Nat
    <3>1. hurt' = hurt \cup {} \/ hurt' = hurt \cup {out'[1]}
      BY <1>14, Zenon DEF LineDone, Hurt
    <3>2. out'[1] \in Nat
      BY <2>1, <1>9, Zenon
    <3> QED
      BY <3>1, <3>2, <1>8, Zenon
  <2> QED
    BY <2>1, <2>5, <2>6, <1>2, <1>4, <1>6, <1>8, <1>9 DEF Restart
<1>15. CASE LineTooLong
  <2>1. Ring!Pop /\ rpc' = "flush" /\ UNCHANGED <<recv_buffer, last_ch, is_full, end_sign, handed>>
        /\ hurt' \subseteq Nat
    BY <1>15, <1>8, <1>9 DEF LineTooLong, Hurt
  <2> QED
    BY <2>1, <1>2, <1>4, <1>5, <1>6, <1>9
<1>16. CASE BeginFlush
  <2>1. /\ q' = <<>> /\ rpc' = "flushing" /\ recv_buffer' = <<>>
        /\ UNCHANGED <<last_ch, is_full, end_sign, handed>> /\ hurt' \subseteq Nat
    BY <1>16, <1>7, <1>8 DEF BeginFlush, Ring!BeginFlush, Hurt
  <2>2. RingPart
    BY <2>1 DEF RingPart, Known
  <2> QED
    BY <2>1, <2>2, <1>2, <1>4, <1>5, <1>6
<1>17. CASE FlushBlank
  <2>1. UNCHANGED <<readerVars, end_sign, handed>> /\ Ring!Blank
    BY <1>17 DEF FlushBlank
  <2>2. q \in Seq(Bytes) /\ Len(q) \in Nat /\ Len(q) <= RingSize /\ Known(q, sent', pos')
    BY <1>1 DEF TypeInv
  <2> PICK i \in 1 .. Len(q) : q' = [q EXCEPT ![i] = NulByte]
    BY <2>1 DEF Ring!Blank
  <2>3. /\ q' \in Seq(Bytes) /\ Len(q') = Len(q)
        /\ \A k \in 1 .. Len(q) : q'[k] = IF k = i THEN NulByte ELSE q[k]
    <3>1. NulByte \in Bytes
      BY DEF Bytes
    <3> QED
      BY <2>2, <3>1
  <2>4. RingPart
    BY <2>2, <2>3 DEF RingPart, Known
  <2>5. hurt' \subseteq Nat
    <3>1. \A n \in 1 .. Len(q) : q[n][1] \in Nat
      BY <2>2 DEF Bytes, NulByte
    <3>2. hurt' = hurt \cup ({q[k][1] : k \in {n \in 1 .. Len(q) : q[n] # q'[n]}} \ {0})
      BY <1>17 DEF FlushBlank, Hurt
    <3> QED
      BY <1>8, <3>1, <3>2
  <2> QED
    BY <2>1, <2>4, <2>5, <1>2, <1>4, <1>5, <1>6, <1>8 DEF readerVars
<1>18. CASE EndFlush
  BY <1>18, <1>2, <1>3, <1>4, <1>5, <1>6, <1>8 DEF EndFlush, Ring!EndFlush, Restart
<1>19. CASE GetcharTimeout
  <2>1. UNCHANGED <<q, rpc, end_sign, handed>> /\ Restart /\ hurt' \subseteq Nat
    BY <1>19, <1>7, <1>8 DEF GetcharTimeout, ringVars, Hurt
  <2> QED
    BY <2>1, <1>2, <1>3, <1>4, <1>5, <1>6, <1>8 DEF Restart
<1>20. CASE GetcharDeadline
  <2>1. Ring!Pop /\ UNCHANGED <<rpc, end_sign, handed>> /\ Restart /\ hurt' \subseteq Nat
    BY <1>20, <1>8, <1>9 DEF GetcharDeadline, Hurt
  <2> QED
    BY <2>1, <1>2, <1>4, <1>5, <1>6, <1>8, <1>9 DEF Restart
<1>21. CASE at_set_end_sign
  <2>1. UNCHANGED <<q, readerVars, handed, hurt>> /\ end_sign' \in {NoSign, ">"}
    BY <1>21 DEF at_set_end_sign, ringVars
  <2> QED
    BY <2>1, <1>2, <1>3, <1>4, <1>5, <1>6, <1>8 DEF readerVars
<1>22. CASE UNCHANGED vars
  BY <1>22, <1>2, <1>3, <1>4, <1>5, <1>6, <1>8 DEF vars, ringVars, readerVars
<1> QED
  BY <1>10, <1>11, <1>12, <1>13, <1>14, <1>15, <1>16, <1>17, <1>18, <1>19, <1>20, <1>21, <1>22 DEF Next

\* at_recv_readline keeps what it has received inside recv_buffer, and the
\* interrupt what it pushes inside the ring, whatever the module sends.
THEOREM BufferBounds == Spec => []TypeOK
<1>1. TypeInv => TypeOK
  BY DEF TypeInv, TypeOK
<1> QED
  BY InitTypes, NextTypes, <1>1, PTL DEF Spec

-----------------------------------------------------------------------------
(* The order of the bytes.                                                 *)

LEMMA InitOrder == Init => OrderInv
<1> SUFFICES ASSUME Init PROVE OrderInv
  OBVIOUS
<1>1. q = <<>> /\ recv_buffer = <<>> /\ handed = <<>>
  BY DEF Init, Ring!Init
<1>2. Sorted(<<>>) /\ AllBefore(<<>>, <<>>) /\ Len(<<>>) = 0
  BY DEF Sorted, AllBefore
<1> QED
  BY <1>1, <1>2 DEF OrderInv

LEMMA NextOrder == TypeInv /\ OrderInv /\ [Next]_vars => OrderInv'
<1> SUFFICES ASSUME TypeInv, OrderInv, [Next]_vars PROVE OrderInv'
  OBVIOUS
<1> USE LineAssumption
<1>1. /\ q \in Seq(Bytes) /\ recv_buffer \in Seq(Bytes) /\ Len(q) \in Nat /\ Len(handed) \in Nat
      /\ handed \in Seq([text : Seq(Bytes), urc : BOOLEAN])
      /\ Known(q, sent, pos) /\ Known(recv_buffer, sent, pos)
      /\ \A k \in 1 .. Len(handed) : handed[k].text \in Seq(Bytes) /\ Known(handed[k].text, sent, pos)
  <2>1. handed \in Seq([text : Seq(Bytes), urc : BOOLEAN])
    BY DEF TypeInv
  <2>2. ASSUME NEW k \in 1 .. Len(handed) PROVE handed[k].text \in Seq(Bytes)
    <3>1. handed[k] \in [text : Seq(Bytes), urc : BOOLEAN]
      BY <2>1, ElementSeq, Zenon
    <3> QED
      BY <3>1
  <2> QED
    BY <2>1, <2>2 DEF TypeInv
<1>2. ASSUME handed' = handed, Sorted(q'), Sorted(recv_buffer'), AllBefore(recv_buffer', q'),
             \A k \in 1 .. Len(handed) :
                AllBefore(handed[k].text, recv_buffer') /\ AllBefore(handed[k].text, q')
      PROVE  OrderInv'
  BY <1>2 DEF OrderInv
<1>3. ASSUME handed' = handed, recv_buffer' \in {recv_buffer, <<>>}, q' = q PROVE OrderInv'
  <2>1. \A k \in 1 .. Len(handed) : AllBefore(handed[k].text, <<>>)
    BY <1>1, SortedEmpty
  <2>2. Sorted(<<>>) /\ AllBefore(<<>>, q)
    BY <1>1, SortedEmpty
  <2> QED
    BY <1>2, <1>3, <2>1, <2>2 DEF OrderInv
<1>4. ASSUME handed' = handed, recv_buffer' \in {recv_buffer, <<>>}, Ring!Pop PROVE OrderInv'
  <2>1. q # <<>> /\ q' = Tail(q) /\ q' \in Seq(Bytes)
    BY <1>4, PopOf
  <2>2. Sorted(q') /\ AllBefore(recv_buffer, q')
    BY <1>1, <2>1, SortedRead DEF OrderInv
  <2>3. \A k \in 1 .. Len(handed) : AllBefore(handed[k].text, q')
    BY <1>1, <2>1, BeforeRead DEF OrderInv
  <2>4. \A k \in 1 .. Len(handed) : AllBefore(handed[k].text, <<>>)
    BY <1>1, SortedEmpty
  <2>5. Sorted(<<>>) /\ AllBefore(<<>>, q')
    BY <2>1, SortedEmpty
  <2> QED
    BY <1>2, <1>4, <2>2, <2>3, <2>4, <2>5 DEF OrderInv
<1>5. ASSUME Ring!Pop
      PROVE  LET r == Append(recv_buffer, out') IN
             /\ Sorted(q') /\ Sorted(r) /\ AllBefore(r, q')
             /\ \A k \in 1 .. Len(handed) :
                  AllBefore(handed[k].text, r) /\ AllBefore(handed[k].text, q')
  <2>1. q # <<>> /\ q' = Tail(q) /\ out' = Head(q)
    BY <1>5, PopOf
  <2>2. /\ Sorted(Tail(q)) /\ Sorted(Append(recv_buffer, Head(q)))
        /\ AllBefore(Append(recv_buffer, Head(q)), Tail(q))
    BY <1>1, <2>1, SortedRead DEF OrderInv
  <2>3. \A k \in 1 .. Len(handed) :
           AllBefore(handed[k].text, Append(recv_buffer, Head(q))) /\ AllBefore(handed[k].text, Tail(q))
    BY <1>1, <2>1, BeforeRead DEF OrderInv
  <2> QED
    BY <2>1, <2>2, <2>3
<1>6. CASE SendLine
  BY <1>6, <1>3 DEF SendLine, ringVars, readerVars
<1>7. CASE Receive
  <2>1. UNCHANGED <<recv_buffer, handed>> /\ ~BetweenLines
    BY <1>7 DEF Receive, readerVars
  <2>2. CASE Ring!Push(NextByte)
    <3>1. q' = Append(q, NextByte)
      BY <2>2 DEF Ring!Push
    <3>2. Len(sent) \in Nat /\ pos \in Nat /\ Len(sent) > 0
      BY <2>1 DEF TypeInv, BetweenLines
    <3>3. NextByte \in Bytes
      BY <3>2 DEF NextByte, Bytes
    <3>4. ASSUME NEW b, Sent(b, sent, pos) PROVE Before(b, NextByte)
      BY <3>2, <3>4 DEF Sent, NextByte, Before
    <3>5. ASSUME NEW s, Known(s, sent, pos)
          PROVE  \A k \in 1 .. Len(s) : s[k] # NulByte => Before(s[k], NextByte)
      BY <3>4, <3>5 DEF Known
    <3>6. Sorted(q') /\ AllBefore(recv_buffer, q')
      BY <1>1, <3>1, <3>3, <3>5, SortedPush DEF OrderInv
    <3>7. \A k \in 1 .. Len(handed) : AllBefore(handed[k].text, q')
      BY <1>1, <3>1, <3>3, <3>5, SortedPush DEF OrderInv
    <3> QED
      BY <1>2, <2>1, <3>6, <3>7 DEF OrderInv
  <2>3. CASE Ring!Refuse \/ Ring!LostInFlush
    BY <2>1, <2>3, <1>3 DEF Ring!Refuse, Ring!LostInFlush
  <2> QED
    BY <1>7, <2>2, <2>3 DEF Receive
<1>8. CASE at_client_init
  BY <1>8, <1>3 DEF at_client_init, Ring!Open
<1>9. CASE ReadChar
  <2>1. Ring!Pop /\ recv_buffer' = Stored(out') /\ handed' = handed
    BY <1>9 DEF ReadChar
  <2>2. out' = NulByte \/ Sent(out', sent, pos)
    BY <2>1, PopOf
  <2>3. CASE Len(recv_buffer) < BufSize
    <3>1. recv_buffer' = Append(recv_buffer, out')
      BY <2>1, <2>2, <2>3, StoredOf
    <3> QED
      BY <1>2, <1>5, <2>1, <3>1
  <2>4. CASE ~(Len(recv_buffer) < BufSize)
    BY <1>4, <2>1, <2>4 DEF Stored
  <2> QED
    BY <2>3, <2>4
<1>10. CASE LineDone
  <2> DEFINE h == [text |-> Stored(out'), urc |-> get_urc_obj(Stored(out'))]
             r == Append(recv_buffer, out')
  <2>1. Ring!Pop /\ recv_buffer' = <<>> /\ Len(recv_buffer) < BufSize /\ handed' = Append(handed, h)
    BY <1>10 DEF LineDone, Restart
  <2>2. out' = NulByte \/ Sent(out', sent, pos)
    BY <2>1, PopOf
  <2>3. Stored(out') = r /\ r \in Seq(Bytes)
    BY <2>1, <2>2, StoredOf, Zenon
  <2>4. h.text = r /\ h \in [text : Seq(Bytes), urc : BOOLEAN]
    BY <2>3 DEF get_urc_obj
  <2>5. /\ Sorted(q') /\ Sorted(r) /\ AllBefore(r, q')
        /\ \A k \in 1 .. Len(handed) : AllBefore(handed[k].text, r) /\ AllBefore(handed[k].text, q')
    BY <1>5, <2>1, Zenon
  <2>6. Sorted(<<>>) /\ AllBefore(<<>>, q') /\ \A s \in Seq(Bytes) : AllBefore(s, <<>>)
    <3>1. q' \in Seq(Bytes)
      BY <2>1, PopOf
    <3> QED
      BY <3>1, SortedEmpty
  <2> HIDE DEF h, r
  <2>7. /\ Len(handed') = Len(handed) + 1 /\ handed'[Len(handed) + 1] = h
        /\ \A k \in 1 .. Len(handed) : handed'[k] = handed[k]
    BY <1>1, <2>1, <2>4
  <2>8. ASSUME NEW k \in 1 .. Len(handed')
        PROVE  /\ Sorted(handed'[k].text)
               /\ AllBefore(handed'[k].text, <<>>) /\ AllBefore(handed'[k].text, q')
               /\ \A j \in 1 .. k - 1 : AllBefore(handed'[j].text, handed'[k].text)
    <3>1. CASE k = Len(handed) + 1
      <4>1. \A j \in 1 .. k - 1 : j \in 1 .. Len(handed)
        BY <1>1, <3>1
      <4> QED
        BY <2>3, <2>4, <2>5, <2>6, <2>7, <3>1, <4>1
    <3>2. CASE k \in 1 .. Len(handed)
      <4>1. \A j \in 1 .. k - 1 : j \in 1 .. Len(handed)
        BY <1>1, <3>2
      <4> QED
        BY <1>1, <2>5, <2>6, <2>7, <3>2, <4>1 DEF OrderInv
    <3> QED
      BY <1>1, <2>7, <3>1, <3>2
  <2> QED
    BY <2>1, <2>5, <2>6, <2>8 DEF OrderInv
<1>11. CASE LineTooLong
  BY <1>11, <1>4 DEF LineTooLong
<1>12. CASE BeginFlush
  <2>1. q' = <<>> /\ recv_buffer' = <<>> /\ handed' = handed
    BY <1>12 DEF BeginFlush, Ring!BeginFlush
  <2>2. Sorted(<<>>) /\ AllBefore(<<>>, <<>>)
    BY EmptySeq, SortedEmpty
  <2>3. \A k \in 1 .. Len(handed) : AllBefore(handed[k].text, <<>>)
    BY <1>1, SortedEmpty
  <2> QED
    BY <1>2, <2>1, <2>2, <2>3, Zenon
<1>13. CASE FlushBlank
  <2>1. UNCHANGED <<recv_buffer, handed>>
    BY <1>13 DEF FlushBlank, readerVars
  <2> PICK i \in 1 .. Len(q) : q' = [q EXCEPT ![i] = NulByte]
    BY <1>13 DEF FlushBlank, Ring!Blank
  <2>2. Sorted(q') /\ AllBefore(recv_buffer, q')
    BY <1>1, SortedBlank DEF OrderInv
  <2>3. \A k \in 1 .. Len(handed) : AllBefore(handed[k].text, q')
    BY <1>1, SortedBlank DEF OrderInv
  <2> QED
    BY <1>2, <2>1, <2>2, <2>3 DEF OrderInv
<1>14. CASE EndFlush
  BY <1>14, <1>3 DEF EndFlush, Ring!EndFlush, Restart
<1>15. CASE GetcharTimeout
  BY <1>15, <1>3 DEF GetcharTimeout, ringVars, Restart
<1>16. CASE GetcharDeadline
  BY <1>16, <1>4 DEF GetcharDeadline, Restart
<1>17. CASE at_set_end_sign
  BY <1>17, <1>3 DEF at_set_end_sign, ringVars, readerVars
<1>18. CASE UNCHANGED vars
  BY <1>18, <1>3 DEF vars, ringVars, readerVars
<1> QED
  BY <1>6, <1>7, <1>8, <1>9, <1>10, <1>11, <1>12, <1>13, <1>14, <1>15, <1>16, <1>17, <1>18 DEF Next

-----------------------------------------------------------------------------
(* What the reader remembers of the last byte, and of a line too long.     *)

\* The character of a byte that was sent never changes.
LEMMA CharKept ==
    ASSUME TypeInv, [Next]_vars, NEW b, b = NulByte \/ Sent(b, sent, pos)
    PROVE  (IF b = NulByte THEN NoSign ELSE sent'[b[1]][b[2]]) = Char(b)
<1>1. \A i \in 1 .. Len(sent) : sent'[i] = sent[i]
  BY SentKept
<1> QED
  BY <1>1 DEF Char, Sent

LEMMA LinesOfAppend ==
    ASSUME NEW s \in Seq(Bytes), NEW b \in Bytes
    PROVE  /\ LinesOf(s) \subseteq LinesOf(Append(s, b))
           /\ b # NulByte /\ b[1] # 0 => b[1] \in LinesOf(Append(s, b))
           /\ LinesOf(<<b>>) = {b[1]} \ {0}
<1>1. /\ Len(s) \in Nat /\ Len(Append(s, b)) = Len(s) + 1 /\ Append(s, b)[Len(s) + 1] = b
      /\ \A k \in 1 .. Len(s) : Append(s, b)[k] = s[k]
  OBVIOUS
<1>2. \A k \in 1 .. Len(s) : k \in 1 .. Len(s) + 1
  BY <1>1
<1>3. Len(s) + 1 \in 1 .. Len(s) + 1
  BY <1>1
<1>4. LinesOf(<<b>>) = {b[1]} \ {0}
  <2>1. Len(<<b>>) = 1 /\ <<b>>[1] = b /\ 1 .. 1 = {1}
    OBVIOUS
  <2> QED
    BY <2>1 DEF LinesOf
<1> QED
  BY <1>1, <1>2, <1>3, <1>4 DEF LinesOf

LEMMA InitReader == Init => ReaderInv
<1>1. LinesOf(<<>>) = {}
  BY DEF LinesOf
<1> QED
  BY <1>1 DEF Init, Ring!Init, ReaderInv

LEMMA NextReader == TypeInv /\ ReaderInv /\ [Next]_vars => ReaderInv'
<1> SUFFICES ASSUME TypeInv, ReaderInv, [Next]_vars PROVE ReaderInv'
  OBVIOUS
<1> USE LineAssumption
<1> DEFINE LastPart == recv_buffer' # <<>> /\ ~is_full' =>
             last_ch' = IF recv_buffer'[Len(recv_buffer')] = NulByte THEN NoSign
                        ELSE sent'[recv_buffer'[Len(recv_buffer')][1]][recv_buffer'[Len(recv_buffer')][2]]
           Rest ==
             /\ is_full' /\ rpc' # "flushing" => Len(recv_buffer') >= BufSize
             /\ rpc' = "flush" => LinesOf(recv_buffer') \subseteq hurt'
             /\ rpc' = "flushing" => recv_buffer' = <<>>
             /\ flushing' => rpc' = "flushing"
<1>1. ReaderInv' <=> LastPart /\ Rest
  BY DEF ReaderInv, Char, LinesOf
<1>2. recv_buffer \in Seq(Bytes) /\ Len(recv_buffer) \in Nat /\ Known(recv_buffer, sent, pos)
  BY DEF TypeInv
<1>3. ASSUME UNCHANGED readerVars PROVE LastPart
  <2> SUFFICES ASSUME recv_buffer # <<>>, ~is_full PROVE LastPart
    BY <1>3 DEF readerVars
  <2>1. Len(recv_buffer) \in 1 .. Len(recv_buffer)
    BY <1>2
  <2> DEFINE b == recv_buffer[Len(recv_buffer)]
  <2>2. b = NulByte \/ Sent(b, sent, pos)
    BY <1>2, <2>1 DEF Known
  <2>3. last_ch = Char(b)
    BY DEF ReaderInv
  <2>4. (IF b = NulByte THEN NoSign ELSE sent'[b[1]][b[2]]) = Char(b)
    BY <2>2, CharKept
  <2>5. recv_buffer'[Len(recv_buffer')] = b /\ last_ch' = last_ch
    BY <1>3 DEF readerVars
  <2> QED
    BY <2>3, <2>4, <2>5
<1>4. ASSUME UNCHANGED readerVars, hurt \subseteq hurt', flushing' => flushing PROVE Rest
  BY <1>4 DEF readerVars, ReaderInv, LinesOf
<1>5. recv_buffer' = <<>> => LastPart
  OBVIOUS
<1>6. ASSUME recv_buffer' = <<>>, ~is_full', ~flushing', rpc' # "flushing" PROVE Rest
  <2>1. LinesOf(<<>>) = {}
    BY DEF LinesOf
  <2> QED
    BY <1>6, <2>1
<1>7. flushing => rpc = "flushing"
  BY DEF ReaderInv
<1> HIDE DEF LastPart, Rest
<1>8. CASE SendLine
  BY <1>8, <1>1, <1>3, <1>4 DEF SendLine, ringVars
<1>9. CASE Receive
  <2>1. UNCHANGED readerVars /\ hurt \subseteq hurt' /\ flushing' = flushing
    BY <1>9 DEF Receive, Hurt, Ring!Push, Ring!Refuse, Ring!LostInFlush
  <2> QED
    BY <2>1, <1>1, <1>3, <1>4
<1>10. CASE at_client_init
  <2>1. /\ recv_buffer' = recv_buffer /\ last_ch' = last_ch /\ is_full' = is_full
        /\ rpc = "off" /\ rpc' = "getchar" /\ hurt' = hurt /\ flushing' = flushing /\ sent' = sent
    BY <1>10 DEF at_client_init, Ring!Open
  <2>2. LastPart
    BY <2>1 DEF LastPart, ReaderInv, Char
  <2>3. Rest
    BY <2>1, <1>7 DEF Rest, ReaderInv
  <2> QED
    BY <1>1, <2>2, <2>3
<1>11. CASE ReadChar
  <2>1. /\ Ring!Pop /\ rpc = "getchar" /\ rpc' = rpc /\ sent' = sent
        /\ recv_buffer' = Stored(out') /\ last_ch' = Char(out')
        /\ is_full' = (is_full \/ Len(recv_buffer) >= BufSize)
    BY <1>11 DEF ReadChar
  <2>2. (out' = NulByte \/ Sent(out', sent, pos)) /\ out' \in Bytes /\ ~flushing'
    BY <2>1, PopOf
  <2>3. /\ Len(recv_buffer) < BufSize =>
             Stored(out') = Append(recv_buffer, out') /\ Len(Stored(out')) = Len(recv_buffer) + 1
        /\ Len(recv_buffer) >= BufSize => Stored(out') = recv_buffer
    BY <2>2, StoredOf
  <2>4. LastPart
    <3>1. CASE is_full'
      BY <3>1 DEF LastPart
    <3>2. CASE Len(recv_buffer) < BufSize
      <4>1. recv_buffer' = Append(recv_buffer, out') /\ Len(recv_buffer') = Len(recv_buffer) + 1
        BY <2>1, <2>3, <3>2
      <4>2. recv_buffer'[Len(recv_buffer')] = out'
        BY <1>2, <2>2, <4>1
      <4> QED
        BY <2>1, <4>2 DEF LastPart, Char
    <3>3. CASE ~is_full' /\ ~(Len(recv_buffer) < BufSize)
      <4>1. Len(recv_buffer) >= BufSize
        BY <1>2, <3>3
      <4> QED
        BY <2>1, <3>3, <4>1, Zenon
    <3> QED
      BY <3>1, <3>2, <3>3
  <2>5. Rest
    <3>1. is_full => Len(recv_buffer) >= BufSize
      BY <2>1 DEF ReaderInv
    <3> QED
      BY <1>2, <2>1, <2>2, <2>3, <3>1 DEF Rest
  <2> QED
    BY <1>1, <2>4, <2>5
<1>12. CASE LineDone
  BY <1>12, <1>1, <1>5, <1>6, PopOf DEF LineDone, Restart
<1>13. CASE LineTooLong
  <2>1. /\ Ring!Pop /\ rpc = "getchar" /\ rpc' = "flush" /\ UNCHANGED <<recv_buffer, last_ch, is_full, sent>>
        /\ hurt' = hurt \cup LinesOf(Append(recv_buffer, out'))
    BY <1>13 DEF LineTooLong, Hurt
  <2>2. out' \in Bytes /\ ~flushing'
    BY <2>1, PopOf
  <2>3. LinesOf(recv_buffer) \subseteq LinesOf(Append(recv_buffer, out'))
    BY <1>2, <2>2, LinesOfAppend
  <2>4. LastPart
    BY <2>1 DEF LastPart, ReaderInv, Char
  <2>5. Rest
    BY <2>1, <2>2, <2>3 DEF Rest, ReaderInv
  <2> QED
    BY <1>1, <2>4, <2>5
<1>14. CASE BeginFlush
  <2>1. recv_buffer' = <<>> /\ rpc' = "flushing"
    BY <1>14 DEF BeginFlush
  <2>2. Rest
    BY <2>1 DEF Rest
  <2> QED
    BY <2>1, <2>2, <1>1, <1>5
<1>15. CASE FlushBlank
  <2>1. UNCHANGED readerVars /\ hurt \subseteq hurt' /\ flushing' = flushing
    BY <1>15 DEF FlushBlank, Hurt, Ring!Blank
  <2> QED
    BY <2>1, <1>1, <1>3, <1>4
<1>16. CASE EndFlush
  BY <1>16, <1>1, <1>5, <1>6 DEF EndFlush, Restart, Ring!EndFlush
<1>17. CASE GetcharTimeout
  BY <1>17, <1>1, <1>5, <1>6, <1>7 DEF GetcharTimeout, Restart, ringVars
<1>18. CASE GetcharDeadline
  BY <1>18, <1>1, <1>5, <1>6, PopOf DEF GetcharDeadline, Restart
<1>19. CASE at_set_end_sign
  BY <1>19, <1>1, <1>3, <1>4 DEF at_set_end_sign, ringVars
<1>20. CASE UNCHANGED vars
  BY <1>20, <1>1, <1>3, <1>4 DEF vars, ringVars
<1> QED
  BY <1>8, <1>9, <1>10, <1>11, <1>12, <1>13, <1>14, <1>15, <1>16, <1>17, <1>18, <1>19, <1>20 DEF Next

-----------------------------------------------------------------------------
(* A line that is not hurt stays in one piece.                             *)

LEMMA UnreadSorted ==
    ASSUME TypeInv, OrderInv
    PROVE  /\ Total(recv_buffer, q) \in Nat
           /\ \A m \in 1 .. Total(recv_buffer, q) :
                LET b == At(recv_buffer, q, m) IN b = NulByte \/ Sent(b, sent, pos)
           /\ \A m, n \in 1 .. Total(recv_buffer, q) :
                (/\ At(recv_buffer, q, m) # NulByte /\ At(recv_buffer, q, n) # NulByte
                 /\ m < n) => Before(At(recv_buffer, q, m), At(recv_buffer, q, n))
<1>1. /\ Len(q) \in Nat /\ Len(recv_buffer) \in Nat
      /\ Known(q, sent, pos) /\ Known(recv_buffer, sent, pos)
  BY DEF TypeInv
<1>2. ASSUME NEW m \in 1 .. Total(recv_buffer, q)
      PROVE  \/ m \in 1 .. Len(recv_buffer) /\ At(recv_buffer, q, m) = recv_buffer[m]
             \/ /\ m > Len(recv_buffer) /\ m - Len(recv_buffer) \in 1 .. Len(q)
                /\ At(recv_buffer, q, m) = q[m - Len(recv_buffer)]
  BY <1>1 DEF Total, At
<1>3. ASSUME NEW m \in 1 .. Total(recv_buffer, q)
      PROVE  At(recv_buffer, q, m) = NulByte \/ Sent(At(recv_buffer, q, m), sent, pos)
  <2>1. CASE m \in 1 .. Len(recv_buffer) /\ At(recv_buffer, q, m) = recv_buffer[m]
    BY <1>1, <2>1 DEF Known
  <2>2. CASE m - Len(recv_buffer) \in 1 .. Len(q) /\ At(recv_buffer, q, m) = q[m - Len(recv_buffer)]
    BY <1>1, <2>2 DEF Known
  <2> QED
    BY <1>2, <2>1, <2>2
<1>4. ASSUME NEW m \in 1 .. Total(recv_buffer, q), NEW n \in 1 .. Total(recv_buffer, q),
             At(recv_buffer, q, m) # NulByte, At(recv_buffer, q, n) # NulByte, m < n
      PROVE  Before(At(recv_buffer, q, m), At(recv_buffer, q, n))
  <2>1. CASE n \in 1 .. Len(recv_buffer)
    <3>1. m \in 1 .. Len(recv_buffer)
      BY <1>1, <1>4, <2>1
    <3> QED
      BY <1>1, <1>4, <2>1, <3>1 DEF OrderInv, Sorted, At
  <2>2. CASE m \in 1 .. Len(recv_buffer) /\ n > Len(recv_buffer)
    <3>1. /\ n - Len(recv_buffer) \in 1 .. Len(q) /\ At(recv_buffer, q, n) = q[n - Len(recv_buffer)]
          /\ At(recv_buffer, q, m) = recv_buffer[m]
      BY <1>1, <1>2, <2>2 DEF At
    <3> QED
      BY <1>4, <2>2, <3>1 DEF OrderInv, AllBefore
  <2>3. CASE m > Len(recv_buffer) /\ n > Len(recv_buffer)
    <3>1. /\ n - Len(recv_buffer) \in 1 .. Len(q) /\ At(recv_buffer, q, n) = q[n - Len(recv_buffer)]
          /\ m - Len(recv_buffer) \in 1 .. Len(q) /\ At(recv_buffer, q, m) = q[m - Len(recv_buffer)]
      BY <1>1, <1>2, <2>3
    <3>2. m - Len(recv_buffer) < n - Len(recv_buffer)
      BY <1>1, <1>4
    <3> QED
      BY <1>4, <3>1, <3>2 DEF OrderInv, Sorted
  <2> QED
    BY <1>1, <2>1, <2>2, <2>3 DEF Total
<1> QED
  BY <1>1, <1>3, <1>4 DEF Total

LEMMA LineShape ==
    ASSUME TypeInv
    PROVE  /\ Len(sent) \in Nat /\ pos \in Nat /\ Tip \in Int
           /\ \A i \in 1 .. Len(sent) :
                /\ Len(sent[i]) \in Nat /\ Len(sent[i]) > 0
                /\ Arrived(i) \in Nat /\ Arrived(i) <= Len(sent[i])
                /\ Tip # i => Arrived(i) \in {0, Len(sent[i])}
                /\ i < Tip => Arrived(i) = Len(sent[i])
<1> USE LineAssumption
<1>1. sent \in Seq(Texts) /\ Len(sent) \in Nat /\ pos \in Nat /\ Tip \in Int
  BY DEF TypeInv, Tip
<1>2. ASSUME NEW t \in Texts PROVE Len(t) \in Nat /\ Len(t) > 0
  <2>1. t \in Seq(Chars) /\ t # <<>>
    OBVIOUS
  <2> QED
    BY <2>1
<1>3. ASSUME NEW i \in 1 .. Len(sent) PROVE sent[i] \in Texts
  BY <1>1, ElementSeq, Zenon
<1>4. sent # <<>> => pos <= Len(sent[Len(sent)])
  BY DEF TypeInv
<1>5. ASSUME NEW i \in 1 .. Len(sent)
      PROVE  Arrived(i) \in Nat /\ Arrived(i) <= Len(sent[i])
  <2>1. sent # <<>>
    BY <1>1
  <2>2. CASE i < Len(sent)
    BY <1>2, <1>3, <2>2 DEF Arrived
  <2>3. CASE i = Len(sent)
    BY <1>1, <1>4, <2>1, <2>3 DEF Arrived
  <2> QED
    BY <1>1, <2>2, <2>3
<1> QED
  BY <1>1, <1>2, <1>3, <1>5 DEF Arrived, Tip

\* Unread loses the e bytes behind its first a.  Each line with a byte among
\* them is hurt, or has been taken and has no byte left.
LEMMA LineMoved ==
    ASSUME TypeInv, LineInv, UNCHANGED <<sent, pos>>, hurt \subseteq hurt',
           NEW T \in Nat, T = Total(recv_buffer, q),
           NEW a \in Nat, NEW e \in Nat, a + e <= T, e = 0 => a = T,
           Total(recv_buffer', q') = T - e,
           recv_buffer' \in Seq(Bytes), q' \in Seq(Bytes),
           \A m \in 1 .. a : At(recv_buffer', q', m) = At(recv_buffer, q, m),
           \A m \in a + 1 .. T - e : At(recv_buffer', q', m) = At(recv_buffer, q, m + e),
           \A i \in 1 .. Len(sent) : Taken(i) => Taken(i)',
           \A i \in 1 .. Len(sent) : \A m \in a + 1 .. a + e :
              At(recv_buffer, q, m)[1] = i =>
                \/ i \in hurt'
                \/ /\ a = 0 /\ Taken(i)'
                   /\ \A n \in 1 .. T : At(recv_buffer, q, n)[1] = i => n <= e
    PROVE  LineInv'
<1> USE DEF Intact
<1>1. /\ Len(sent) \in Nat /\ Tip' = Tip /\ Tip \in Int
      /\ \A i \in 1 .. Len(sent) :
           Arrived(i)' = Arrived(i) /\ Arrived(i) \in Nat /\ Len(sent[i]) \in Nat /\ Len(sent[i]) > 0
  BY LineShape DEF Tip, Arrived
<1>2. T = 0 => recv_buffer' = <<>> /\ q' = <<>>
  <2>1. Len(recv_buffer') \in Nat /\ Len(q') \in Nat
    OBVIOUS
  <2> QED
    BY <2>1 DEF Total
<1>3. recv_buffer = <<>> /\ q = <<>> => T = 0
  BY DEF Total
<1>4. Tip < 1 => recv_buffer' = <<>> /\ q' = <<>>
  BY <1>2, <1>3 DEF LineInv
<1>5. ASSUME NEW i \in 1 .. Len(sent), Intact(i)'
      PROVE  \/ Taken(i)' /\ (i = Tip => recv_buffer' = <<>> /\ q' = <<>>)
             \/ \E d \in 0 .. Total(recv_buffer', q') :
                   Waits(i, d)' /\ (i = Tip => d + Arrived(i) = Total(recv_buffer', q'))
  <2> DEFINE c == Arrived(i)
  <2>1. i \notin hurt' /\ i \notin hurt /\ c > 0 /\ c \in Nat /\ Intact(i)
    BY <1>1, <1>5
  <2>2. CASE Taken(i) /\ (i = Tip => recv_buffer = <<>> /\ q = <<>>)
    BY <1>2, <1>3, <2>2
  <2>3. ASSUME NEW d \in 0 .. T, Waits(i, d), i = Tip => d + c = T
        PROVE  \/ Taken(i)' /\ (i = Tip => recv_buffer' = <<>> /\ q' = <<>>)
               \/ \E x \in 0 .. T - e :
                     Waits(i, x)' /\ (i = Tip => x + c = T - e)
    <3> HIDE DEF c
    <3>1. d + c <= T /\ \A n \in 1 .. c : At(recv_buffer, q, d + n) = <<i, n>>
      BY <2>3 DEF Waits, Run, c
    <3>2. CASE \E m \in a + 1 .. a + e : m \in d + 1 .. d + c
      <4> PICK m \in a + 1 .. a + e : m \in d + 1 .. d + c
        BY <3>2
      <4>1. m - d \in 1 .. c /\ d + (m - d) = m
        BY <2>1
      <4>2. At(recv_buffer, q, m) = <<i, m - d>>
        BY <3>1, <4>1
      <4>3. a = 0 /\ Taken(i)' /\ \A n \in 1 .. T : At(recv_buffer, q, n)[1] = i => n <= e
        BY <2>1, <4>2
      <4>4. ASSUME i = Tip PROVE T = e
        <5>1. d + c = T /\ c \in 1 .. c /\ T \in 1 .. T
          BY <2>1, <2>3, <4>4
        <5>2. At(recv_buffer, q, T) = <<i, c>>
          BY <3>1, <5>1
        <5> QED
          BY <4>3, <5>1, <5>2
      <4>5. T = e => recv_buffer' = <<>> /\ q' = <<>>
        <5>1. Len(recv_buffer') \in Nat /\ Len(q') \in Nat
          OBVIOUS
        <5> QED
          BY <5>1 DEF Total
      <4> QED
        BY <4>3, <4>4, <4>5
    <3>3. CASE ~ \E m \in a + 1 .. a + e : m \in d + 1 .. d + c
      <4>1. d + c <= a \/ d >= a + e
        <5>1. CASE e = 0
          BY <2>1, <3>1, <5>1
        <5>2. CASE e > 0 /\ d < a /\ d + c > a
          <6>1. a + 1 \in a + 1 .. a + e /\ a + 1 \in d + 1 .. d + c
            BY <2>1, <5>2
          <6> QED
            BY <3>3, <6>1
        <5>3. CASE e > 0 /\ d >= a /\ d < a + e
          <6>1. d + 1 \in a + 1 .. a + e /\ d + 1 \in d + 1 .. d + c
            BY <2>1, <5>3
          <6> QED
            BY <3>3, <6>1
        <5> QED
          BY <2>1, <5>1, <5>2, <5>3
      <4> DEFINE x == IF d >= a + e THEN d - e ELSE d
      <4>2. x \in 0 .. T - e /\ x + c <= T - e
        BY <2>1, <3>1, <4>1
      <4>3. \A n \in 1 .. c : At(recv_buffer', q', x + n) = <<i, n>>
        <5> SUFFICES ASSUME NEW n \in 1 .. c PROVE At(recv_buffer', q', x + n) = <<i, n>>
          OBVIOUS
        <5>1. CASE d >= a + e
          <6>1. x + n \in a + 1 .. T - e /\ (x + n) + e = d + n
            BY <2>1, <3>1, <5>1
          <6> QED
            BY <3>1, <6>1
        <5>2. CASE ~(d >= a + e)
          <6>1. x + n \in 1 .. a /\ x + n = d + n
            BY <2>1, <4>1, <5>2
          <6> QED
            BY <3>1, <6>1
        <5> QED
          BY <5>1, <5>2
      <4>4. i = Tip => x + c = T - e
        BY <2>1, <2>3, <3>1, <4>1
      <4>5. i = 1 => x = 0
        BY <2>3, <4>1 DEF Waits
      <4>6. ASSUME i > 1, i - 1 \notin hurt'
            PROVE  \/ x = 0 /\ Taken(i - 1)'
                   \/ x > 0 /\ At(recv_buffer', q', x) = <<i - 1, Len(sent[i - 1])>>
        <5>1. i - 1 \in 1 .. Len(sent) /\ i - 1 \notin hurt
          BY <1>1, <4>6
        <5>2. CASE d = 0 /\ Taken(i - 1)
          <6>1. x = 0
            BY <4>1, <5>2
          <6> QED
            BY <5>1, <5>2, <6>1
        <5>3. CASE d > 0 /\ At(recv_buffer, q, d) = <<i - 1, Len(sent[i - 1])>>
          <6>1. CASE ~(d >= a + e)
            <7>1. d \in 1 .. a
              BY <2>1, <4>1, <5>3, <6>1
            <7> QED
              BY <5>3, <6>1, <7>1
          <6>2. CASE d >= a + e /\ d - e > a
            <7>1. d - e \in a + 1 .. T - e /\ (d - e) + e = d
              BY <6>2
            <7> QED
              BY <5>3, <6>2, <7>1
          <6>3. CASE d >= a + e /\ ~(d - e > a) /\ e > 0
            <7>1. d \in a + 1 .. a + e /\ d = a + e
              BY <6>3
            <7>2. At(recv_buffer, q, d)[1] = i - 1
              BY <5>3
            <7>3. a = 0 /\ Taken(i - 1)'
              BY <4>6, <5>1, <7>1, <7>2, Zenon
            <7> QED
              BY <6>3, <7>1, <7>3
          <6>4. CASE e = 0 /\ d = a
            <7>1. d \in 1 .. a
              BY <5>3, <6>4
            <7> QED
              BY <5>3, <6>4, <7>1
          <6> QED
            BY <6>1, <6>2, <6>3, <6>4
        <5> QED
          BY <2>3, <4>6, <5>1, <5>2, <5>3 DEF Waits
      <4>7. Waits(i, x)'
        <5> HIDE DEF x
        <5>1. sent' = sent /\ Arrived(i)' = c
          BY <1>1 DEF c
        <5> QED
          BY <4>2, <4>3, <4>5, <4>6, <5>1 DEF Waits, Run
      <4> HIDE DEF x
      <4> QED
        BY <4>2, <4>4, <4>7
    <3> QED
      BY <3>2, <3>3
  <2> QED
    BY <2>1, <2>2, <2>3 DEF LineInv
<1> QED
  <2>1. sent' = sent
    OBVIOUS
  <2>2. \A i \in 1 .. Len(sent) : Arrived(i)' = Arrived(i)
    BY <1>1
  <2> QED
    BY <1>1, <1>4, <1>5, <2>1, <2>2 DEF LineInv

\* What was handed over stays handed over.
LEMMA HandedKept ==
    ASSUME TypeInv, [Next]_vars
    PROVE  /\ Len(handed) \in Nat /\ Len(handed) <= Len(handed')
           /\ \A k \in 1 .. Len(handed) : handed'[k] = handed[k]
           /\ \A i \in 1 .. Len(sent) : Taken(i) => Taken(i)'
<1>0. handed \in Seq([text : Seq(Bytes), urc : BOOLEAN]) /\ Len(handed) \in Nat
  BY DEF TypeInv
<1>1. Len(handed) <= Len(handed') /\ \A k \in 1 .. Len(handed) : handed'[k] = handed[k]
  <2>1. CASE LineDone
    <3> PICK h : handed' = Append(handed, h)
      BY <2>1 DEF LineDone
    <3>1. Len(Append(handed, h)) = Len(handed) + 1
      BY <1>0
    <3>2. \A k \in 1 .. Len(handed) : Append(handed, h)[k] = handed[k]
      BY <1>0
    <3> QED
      BY <1>0, <3>1, <3>2
  <2>2. CASE ~LineDone
    <3>1. handed' = handed
      BY <2>2 DEF Next, SendLine, Receive, at_client_init, ReadChar, LineTooLong, BeginFlush, FlushBlank,
              EndFlush, GetcharTimeout, GetcharDeadline, at_set_end_sign, vars
    <3> QED
      BY <1>0, <3>1
  <2> QED
    BY <2>1, <2>2
<1>2. \A i \in 1 .. Len(sent) : sent'[i] = sent[i]
  BY SentKept
<1>3. ASSUME NEW i \in 1 .. Len(sent), Taken(i) PROVE Taken(i)'
  <2> PICK k \in 1 .. Len(handed) : \A n \in 1 .. Len(sent[i]) : In(<<i, n>>, handed[k].text)
    BY <1>3 DEF Taken
  <2>1. k \in 1 .. Len(handed') /\ handed'[k] = handed[k] /\ sent'[i] = sent[i]
    BY <1>0, <1>1, <1>2
  <2> QED
    BY <2>1 DEF Taken, In
<1> QED
  BY <1>0, <1>1, <1>3

\* A line that was taken has arrived.
LEMMA TakenArrived ==
    ASSUME TypeInv, NEW i \in 1 .. Len(sent), Taken(i)
    PROVE  Arrived(i) = Len(sent[i])
<1>1. /\ Len(sent) \in Nat /\ pos \in Nat /\ Len(sent[i]) \in Nat /\ Len(sent[i]) > 0
      /\ Arrived(i) <= Len(sent[i])
  BY LineShape
<1> PICK k \in 1 .. Len(handed) : \A n \in 1 .. Len(sent[i]) : In(<<i, n>>, handed[k].text)
  BY DEF Taken
<1>2. Len(sent[i]) \in 1 .. Len(sent[i])
  BY <1>1
<1> PICK m \in 1 .. Len(handed[k].text) : handed[k].text[m] = <<i, Len(sent[i])>>
  BY <1>2 DEF In
<1>3. Known(handed[k].text, sent, pos)
  BY DEF TypeInv
<1>4. <<i, Len(sent[i])>> # NulByte
  BY DEF NulByte
<1>5. Sent(<<i, Len(sent[i])>>, sent, pos)
  BY <1>3, <1>4 DEF Known
<1>6. i = Len(sent) => Len(sent[i]) <= pos
  BY <1>5 DEF Sent
<1> QED
  BY <1>1, <1>6 DEF Arrived

\* A byte leaves the ring for the buffer, for nowhere, or with all of the buffer.
LEMMA UnreadPop ==
    ASSUME TypeInv, Ring!Pop, NEW T, T = Total(recv_buffer, q)
    PROVE  /\ T \in Nat /\ Len(recv_buffer) \in Nat /\ Len(recv_buffer) + 1 <= T
           /\ At(recv_buffer, q, Len(recv_buffer) + 1) = out'
           /\ \A m \in 1 .. Len(recv_buffer) : At(recv_buffer, q, m) = recv_buffer[m]
           /\ Total(Append(recv_buffer, out'), q') = T
           /\ \A m \in 1 .. T : At(Append(recv_buffer, out'), q', m) = At(recv_buffer, q, m)
           /\ Total(recv_buffer, q') = T - 1
           /\ \A m \in Len(recv_buffer) + 1 .. T - 1 : At(recv_buffer, q', m) = At(recv_buffer, q, m + 1)
           /\ \A m \in 1 .. Len(recv_buffer) : At(recv_buffer, q', m) = At(recv_buffer, q, m)
           /\ Total(<<>>, q') = T - (Len(recv_buffer) + 1)
           /\ \A m \in 1 .. T - (Len(recv_buffer) + 1) :
                At(<<>>, q', m) = At(recv_buffer, q, m + (Len(recv_buffer) + 1))
<1> DEFINE l == Len(recv_buffer)
           a == Append(recv_buffer, out')
<1>1. /\ recv_buffer \in Seq(Bytes) /\ l \in Nat /\ Len(q) \in Nat /\ Len(q) > 0 /\ Len(q') = Len(q) - 1
      /\ out' = q[1] /\ out' \in Bytes /\ \A k \in 1 .. Len(q) - 1 : q'[k] = q[k + 1]
  BY PopOf DEF TypeInv
<1>2. Len(a) = l + 1 /\ a[l + 1] = out' /\ \A k \in 1 .. l : a[k] = recv_buffer[k]
  BY <1>1
<1>3. Len(<<>>) = 0
  OBVIOUS
<1> HIDE DEF l, a
<1>4. T = l + Len(q) /\ At(recv_buffer, q, l + 1) = out' /\ \A m \in 1 .. l : At(recv_buffer, q, m) = recv_buffer[m]
  BY <1>1 DEF At, Total, l
<1>5. Total(a, q') = T /\ \A m \in 1 .. T : At(a, q', m) = At(recv_buffer, q, m)
  <2>1. Total(a, q') = T
    BY <1>1, <1>2, <1>4 DEF Total
  <2> SUFFICES ASSUME NEW m \in 1 .. T PROVE At(a, q', m) = At(recv_buffer, q, m)
    BY <2>1
  <2>2. CASE m <= l
    BY <1>1, <1>2, <2>2 DEF At, l
  <2>3. CASE m = l + 1
    BY <1>1, <1>2, <1>4, <2>3 DEF At, l
  <2>4. CASE m > l + 1
    <3>1. m - (l + 1) \in 1 .. Len(q) - 1 /\ (m - (l + 1)) + 1 = m - l
      BY <1>1, <1>4, <2>4
    <3>2. At(a, q', m) = q'[m - (l + 1)] /\ At(recv_buffer, q, m) = q[m - l]
      BY <1>1, <1>2, <2>4 DEF At, l
    <3> QED
      BY <1>1, <3>1, <3>2
  <2> QED
    BY <1>1, <2>2, <2>3, <2>4
<1>6. /\ Total(recv_buffer, q') = T - 1
      /\ \A m \in l + 1 .. T - 1 : At(recv_buffer, q', m) = At(recv_buffer, q, m + 1)
      /\ \A m \in 1 .. l : At(recv_buffer, q', m) = At(recv_buffer, q, m)
  <2>1. Total(recv_buffer, q') = T - 1
    BY <1>1, <1>4 DEF Total, l
  <2>2. ASSUME NEW m \in l + 1 .. T - 1 PROVE At(recv_buffer, q', m) = At(recv_buffer, q, m + 1)
    <3>1. m - l \in 1 .. Len(q) - 1 /\ (m - l) + 1 = (m + 1) - l
      BY <1>1, <1>4
    <3>2. At(recv_buffer, q', m) = q'[m - l] /\ At(recv_buffer, q, m + 1) = q[(m + 1) - l]
      BY <1>1 DEF At, l
    <3> QED
      BY <1>1, <3>1, <3>2
  <2>3. \A m \in 1 .. l : At(recv_buffer, q', m) = At(recv_buffer, q, m)
    BY <1>1 DEF At, l
  <2> QED
    BY <2>1, <2>2, <2>3
<1>7. /\ Total(<<>>, q') = T - (l + 1)
      /\ \A m \in 1 .. T - (l + 1) : At(<<>>, q', m) = At(recv_buffer, q, m + (l + 1))
  <2>1. Total(<<>>, q') = T - (l + 1)
    BY <1>1, <1>3, <1>4 DEF Total
  <2>2. ASSUME NEW m \in 1 .. T - (l + 1) PROVE At(<<>>, q', m) = At(recv_buffer, q, m + (l + 1))
    <3>1. m \in 1 .. Len(q) - 1 /\ (m + (l + 1)) - l = m + 1 /\ m - 0 = m
      BY <1>1, <1>4
    <3>2. At(<<>>, q', m) = q'[m] /\ At(recv_buffer, q, m + (l + 1)) = q[m + 1]
      BY <1>1, <1>3, <3>1 DEF At, l
    <3> QED
      BY <1>1, <3>1, <3>2
  <2> QED
    BY <2>1, <2>2
<1> QED
  BY <1>1, <1>4, <1>5, <1>6, <1>7 DEF l, a

\* at_recv_readline stops at the last byte of a line, or cuts the line.
LEMMA EndsLineOf ==
    ASSUME TypeInv, NEW b, b = NulByte \/ Sent(b, sent, pos),
           Len(recv_buffer) < BufSize, EndsLine(b)
    PROVE  /\ Sent(b, sent, pos)
           /\ Char(b) = "LF" => b[2] = Len(sent[b[1]])
           /\ Char(b) = "LF" \/ (end_sign # NoSign /\ Char(b) = end_sign)
<1> USE LineAssumption, TextAssumption
<1>1. Char(b) = "LF" \/ (end_sign # NoSign /\ Char(b) = end_sign)
  <2>1. CASE get_urc_obj(Stored(b))
    <3>1. Stored(b) = Append(recv_buffer, b) /\ Len(Stored(b)) = Len(recv_buffer) + 1
      BY StoredOf
    <3>2. recv_buffer \in Seq(Bytes) /\ b \in Bytes
      BY CharOf DEF TypeInv
    <3>3. Stored(b)[Len(Stored(b))] = b
      BY <3>1, <3>2
    <3> QED
      BY <2>1, <3>3 DEF get_urc_obj
  <2> QED
    BY <2>1 DEF EndsLine
<1>2. b # NulByte
  BY <1>1 DEF Char, NoSign, TypeInv
<1>3. Sent(b, sent, pos)
  BY <1>2
<1>4. Char(b) = sent[b[1]][b[2]] /\ sent[b[1]] \in Texts /\ b[2] \in 1 .. Len(sent[b[1]])
  <2>1. b[1] \in 1 .. Len(sent) /\ sent \in Seq(Texts) /\ b[2] \in 1 .. Len(sent[b[1]])
    BY <1>3 DEF Sent, TypeInv
  <2>2. sent[b[1]] \in Texts
    BY <2>1, ElementSeq, Zenon
  <2> QED
    BY <1>2, <2>1, <2>2 DEF Char
<1> QED
  BY <1>1, <1>3, <1>4

\* No byte of a line that was taken is left.
LEMMA TakenIsGone ==
    ASSUME TypeInv, OrderInv, NEW i \in 1 .. Len(sent), Taken(i),
           NEW m \in 1 .. Total(recv_buffer, q)
    PROVE  At(recv_buffer, q, m)[1] # i
<1> SUFFICES ASSUME At(recv_buffer, q, m)[1] = i PROVE FALSE
  OBVIOUS
<1> DEFINE b == At(recv_buffer, q, m)
<1>1. Len(recv_buffer) \in Nat /\ Len(q) \in Nat /\ Len(sent) \in Nat
  BY DEF TypeInv
<1>2. b # NulByte
  BY <1>1 DEF NulByte
<1>3. Sent(b, sent, pos)
  BY <1>2, UnreadSorted
<1>4. b[2] \in 1 .. Len(sent[i]) /\ b \in Nat \X Nat /\ b = <<i, b[2]>>
  BY <1>3 DEF Sent
<1> PICK k \in 1 .. Len(handed) : \A n \in 1 .. Len(sent[i]) : In(<<i, n>>, handed[k].text)
  BY DEF Taken
<1> PICK n \in 1 .. Len(handed[k].text) : handed[k].text[n] = b
  BY <1>4 DEF In
<1>5. AllBefore(handed[k].text, recv_buffer) /\ AllBefore(handed[k].text, q)
  BY DEF OrderInv
<1>6. CASE m \in 1 .. Len(recv_buffer)
  <2>1. recv_buffer[m] = b
    BY <1>1, <1>6 DEF At
  <2>2. Before(b, b)
    BY <1>2, <1>5, <1>6, <2>1 DEF AllBefore
  <2> QED
    BY <1>4, <2>2 DEF Before
<1>7. CASE ~(m \in 1 .. Len(recv_buffer))
  <2>1. m - Len(recv_buffer) \in 1 .. Len(q) /\ q[m - Len(recv_buffer)] = b
    BY <1>1, <1>7 DEF At, Total
  <2>2. Before(b, b)
    BY <1>2, <1>5, <2>1 DEF AllBefore
  <2> QED
    BY <1>4, <2>2 DEF Before
<1> QED
  BY <1>6, <1>7

\* A text that is handed over has all of each intact line it has a byte of.
LEMMA WholeLines ==
    ASSUME TypeInv, OrderInv, LineInv, LineDone, NEW i \in 1 .. Len(sent), i \notin hurt',
           NEW m \in 1 .. Len(recv_buffer) + 1, At(recv_buffer, q, m)[1] = i
    PROVE  /\ Intact(i) /\ ~Taken(i) /\ Arrived(i) = Len(sent[i])
           /\ \A n \in 1 .. Total(recv_buffer, q) :
                At(recv_buffer, q, n)[1] = i => n <= Len(recv_buffer) + 1
           /\ \E d \in 0 .. Total(recv_buffer, q) :
                Waits(i, d) /\ d + Arrived(i) <= Len(recv_buffer) + 1
<1> DEFINE T == Total(recv_buffer, q)
           l == Len(recv_buffer)
           at(n) == At(recv_buffer, q, n)
           b == out'
<1>1. /\ Ring!Pop /\ EndsLine(b) /\ l < BufSize /\ hurt \subseteq hurt'
      /\ end_sign # NoSign /\ Char(b) = end_sign /\ b[2] < Len(sent[b[1]]) => b[1] \in hurt'
  BY DEF LineDone, Hurt
<1>2. T \in Nat /\ l \in Nat /\ l + 1 <= T /\ at(l + 1) = b
  BY <1>1, UnreadPop
<1>3. b = NulByte \/ Sent(b, sent, pos)
  BY <1>1, PopOf
<1>4. /\ Sent(b, sent, pos)
      /\ Char(b) = "LF" => b[2] = Len(sent[b[1]])
      /\ Char(b) = "LF" \/ (end_sign # NoSign /\ Char(b) = end_sign)
  BY <1>1, <1>3, EndsLineOf
<1>5. b[2] = Len(sent[b[1]]) \/ b[1] \in hurt'
  <2>1. b[2] \in 1 .. Len(sent[b[1]]) /\ Len(sent[b[1]]) \in Nat
    BY <1>4, LineShape DEF Sent
  <2> QED
    BY <1>1, <1>4, <2>1
<1>6. /\ Len(sent) \in Nat /\ pos \in Nat /\ Len(sent[i]) \in Nat /\ Len(sent[i]) > 0
      /\ Arrived(i) \in Nat /\ Arrived(i) <= Len(sent[i])
  BY LineShape
<1>7. ASSUME NEW n \in 1 .. T, at(n)[1] \in 1 .. Len(sent)
      PROVE  at(n) # NulByte /\ Sent(at(n), sent, pos)
  <2>1. at(n) # NulByte
    BY <1>6, <1>7 DEF NulByte
  <2> QED
    BY <2>1, UnreadSorted
<1>8. m \in 1 .. T /\ at(m) # NulByte /\ Sent(at(m), sent, pos) /\ b # NulByte
  <2>1. m \in 1 .. T
    BY <1>2
  <2>2. b # NulByte
    BY <1>4 DEF Sent, NulByte
  <2> QED
    BY <1>7, <2>1, <2>2
<1>9. \A x, y \in 1 .. T : at(x) # NulByte /\ at(y) # NulByte /\ x < y => Before(at(x), at(y))
  BY UnreadSorted
<1> HIDE DEF T, l, at, b
<1>10. i < b[1] \/ i = b[1]
  <2>1. l + 1 \in 1 .. T
    BY <1>2
  <2>2. m < l + 1 \/ m = l + 1
    BY <1>2 DEF l
  <2>3. at(m)[1] = i
    BY DEF at
  <2>4. CASE m < l + 1
    <3>1. Before(at(m), b)
      BY <1>2, <1>8, <1>9, <2>1, <2>4
    <3> QED
      BY <2>3, <3>1 DEF Before
  <2>5. CASE m = l + 1
    BY <1>2, <2>3, <2>5
  <2> QED
    BY <2>2, <2>4, <2>5
<1>11. Intact(i)
  <2>1. i = Len(sent) => at(m)[2] <= pos /\ at(m)[2] > 0
    <3>1. at(m)[1] = i
      BY DEF at
    <3> QED
      BY <1>6, <1>8, <3>1 DEF Sent
  <2>2. Arrived(i) > 0
    BY <1>6, <1>8, <2>1 DEF Arrived, Sent
  <2> QED
    BY <1>1, <2>2 DEF Intact
<1>12. ~Taken(i)
  BY <1>8, TakenIsGone DEF T
<1>13. Arrived(i) = Len(sent[i])
  <2>1. CASE i < b[1]
    <3>1. i < Len(sent)
      BY <1>4, <1>6, <2>1 DEF Sent
    <3> QED
      BY <3>1 DEF Arrived
  <2>2. CASE i = b[1]
    <3>1. b[2] = Len(sent[i])
      BY <1>5, <2>2
    <3>2. i = Len(sent) => Len(sent[i]) <= pos
      BY <1>4, <2>2, <3>1 DEF Sent
    <3> QED
      BY <1>6, <3>2 DEF Arrived
  <2> QED
    BY <1>10, <2>1, <2>2
<1>14. ASSUME NEW n \in 1 .. T, at(n)[1] = i PROVE n <= l + 1
  <2> SUFFICES ASSUME n > l + 1 PROVE FALSE
    BY <1>2
  <2>1. at(n) # NulByte /\ Sent(at(n), sent, pos)
    BY <1>7, <1>14
  <2>2. l + 1 \in 1 .. T
    BY <1>2
  <2>3. Before(b, at(n))
    BY <1>2, <1>8, <1>9, <2>1, <2>2
  <2>4. at(n)[2] \in 1 .. Len(sent[i]) /\ b[1] \in Nat
    BY <1>4, <1>14, <2>1 DEF Sent
  <2>5. b[1] = i /\ b[2] < at(n)[2]
    BY <1>6, <1>10, <1>14, <2>3, <2>4 DEF Before
  <2>6. b[2] = Len(sent[i])
    BY <1>5, <2>5
  <2> QED
    BY <1>6, <2>4, <2>5, <2>6
<1>15. PICK d \in 0 .. T : Waits(i, d)
  BY <1>11, <1>12 DEF LineInv, T
<1>16. d + Arrived(i) <= l + 1
  <2>1. Arrived(i) > 0 /\ Arrived(i) \in 1 .. Arrived(i)
    BY <1>6, <1>13
  <2>2. d + Arrived(i) <= T /\ at(d + Arrived(i)) = <<i, Arrived(i)>>
    BY <1>15, <2>1 DEF Waits, Run, T, at
  <2>3. d + Arrived(i) \in 1 .. T
    BY <1>2, <1>6, <2>1, <2>2
  <2>4. at(d + Arrived(i))[1] = i
    BY <2>2
  <2> QED
    BY <1>14, <2>3, <2>4
<1> QED
  BY <1>11, <1>12, <1>13, <1>14, <1>15, <1>16 DEF T, l, at

LEMMA InitLine == Init => LineInv
<1> SUFFICES ASSUME Init PROVE LineInv
  OBVIOUS
<1>1. sent = <<>> /\ pos = 0 /\ recv_buffer = <<>> /\ q = <<>> /\ Len(sent) = 0
  BY DEF Init, Ring!Init
<1> QED
  BY <1>1 DEF LineInv

\* A byte is pushed: Unread grows at its end.
LEMMA LinePushed ==
    ASSUME TypeInv, LineInv, Receive, [Next]_vars, Ring!Push(NextByte),
           NEW T, T = Total(recv_buffer, q), NEW g, g = Len(sent)
    PROVE  LineInv'
<1> DEFINE at(n) == At(recv_buffer, q, n)
           at1(n) == At(recv_buffer, q', n)
<1>1. UNCHANGED <<recv_buffer, sent, hurt, handed>> /\ pos' = pos + 1 /\ ~BetweenLines
  <2>1. UNCHANGED <<recv_buffer, sent, handed>> /\ pos' = pos + 1 /\ ~BetweenLines
    BY DEF Receive, readerVars
  <2>2. hurt' = hurt
    <3>1. q' = Append(q, NextByte) /\ q \in Seq(Bytes)
      BY DEF Ring!Push, TypeInv
    <3>2. q' # q
      <4>1. NextByte \in Bytes
        BY DEF NextByte, Bytes, TypeInv
      <4>2. Len(Append(q, NextByte)) = Len(q) + 1
        BY <3>1, <4>1
      <4>3. Len(q) \in Nat
        BY <3>1
      <4> QED
        BY <3>1, <4>2, <4>3
    <3> QED
      BY <3>2 DEF Receive, Ring!Refuse, Ring!LostInFlush
  <2> QED
    BY <2>1, <2>2
<1>2. /\ g \in Nat /\ pos \in Nat /\ Tip \in Int
      /\ \A i \in 1 .. g :
           /\ Len(sent[i]) \in Nat /\ Len(sent[i]) > 0
           /\ Arrived(i) \in Nat /\ Arrived(i) <= Len(sent[i])
           /\ i < Tip => Arrived(i) = Len(sent[i])
  BY LineShape
<1>3. g > 0 /\ g \in 1 .. g /\ pos < Len(sent[g])
  <2>1. sent # <<>> /\ pos # Len(sent[g]) /\ pos <= Len(sent[g])
    BY <1>1 DEF BetweenLines, TypeInv
  <2>2. g > 0 /\ g \in 1 .. g
    BY <1>2, <2>1 DEF TypeInv
  <2> QED
    BY <1>2, <2>1, <2>2
<1>4. /\ T \in Nat /\ Total(recv_buffer, q') = T + 1
      /\ at1(T + 1) = <<g, pos + 1>> /\ \A n \in 1 .. T : at1(n) = at(n)
  <2>1. NextByte \in Bytes /\ q \in Seq(Bytes) /\ Len(q) \in Nat /\ Len(recv_buffer) \in Nat
    BY <1>2 DEF NextByte, Bytes, TypeInv
  <2>2. q' = Append(q, NextByte)
    BY DEF Ring!Push
  <2>3. /\ Len(q') = Len(q) + 1 /\ q'[Len(q) + 1] = NextByte
        /\ \A k \in 1 .. Len(q) : q'[k] = q[k]
    BY <2>1, <2>2
  <2>4. at1(T + 1) = q'[Len(q) + 1]
    BY <2>1 DEF At, Total
  <2>5. ASSUME NEW n \in 1 .. T PROVE at1(n) = at(n)
    <3>1. CASE n <= Len(recv_buffer)
      BY <3>1 DEF At
    <3>2. CASE ~(n <= Len(recv_buffer))
      <4>1. n - Len(recv_buffer) \in 1 .. Len(q)
        BY <2>1, <3>2 DEF Total
      <4> QED
        BY <2>3, <3>2, <4>1 DEF At
    <3> QED
      BY <3>1, <3>2
  <2> QED
    BY <2>1, <2>3, <2>4, <2>5 DEF Total, NextByte
<1>5. Tip' = g
  BY <1>1, <1>2 DEF Tip
<1>6. \A i \in 1 .. g : (Taken(i)' <=> Taken(i)) /\ Arrived(i)' = IF i = g THEN pos + 1 ELSE Arrived(i)
  BY <1>1, <1>2 DEF Taken, Arrived
<1>7. recv_buffer = <<>> /\ q = <<>> => T = 0
  BY DEF Total
<1> HIDE DEF at, at1
<1>8. ASSUME NEW i \in 1 .. g, Intact(i)', NEW d \in 0 .. T, Waits(i, d), i # g PROVE Waits(i, d)'
  <2>1. Arrived(i)' = Arrived(i) /\ d + Arrived(i) <= T /\ \A n \in 1 .. Arrived(i) : at(d + n) = <<i, n>>
    BY <1>6, <1>8 DEF Waits, Run, at
  <2>2. \A n \in 1 .. Arrived(i) : at1(d + n) = <<i, n>>
    <3> SUFFICES ASSUME NEW n \in 1 .. Arrived(i) PROVE at1(d + n) = <<i, n>>
      OBVIOUS
    <3>1. d + n \in 1 .. T
      BY <1>2, <1>4, <2>1
    <3> QED
      BY <1>4, <2>1, <3>1
  <2>3. i > 1 => i - 1 \in 1 .. g
    BY <1>2
  <2>4. d > 0 => at1(d) = at(d)
    BY <1>4
  <2>5. d + Arrived(i) <= Total(recv_buffer, q')
    BY <1>2, <1>4, <2>1
  <2> QED
    BY <1>1, <1>6, <1>8, <2>1, <2>2, <2>3, <2>4, <2>5 DEF Waits, Run, at, at1
<1>9. ASSUME NEW i \in 1 .. g, Intact(i)', i # g
      PROVE  \/ Taken(i)'
             \/ \E d \in 0 .. T + 1 : Waits(i, d)'
  <2>1. Intact(i)
    BY <1>1, <1>6, <1>9 DEF Intact
  <2>2. Taken(i) \/ \E d \in 0 .. T : Waits(i, d)
    BY <2>1 DEF LineInv
  <2>3. \A d \in 0 .. T : d \in 0 .. T + 1
    BY <1>4
  <2> QED
    BY <1>6, <1>8, <1>9, <2>2, <2>3
<1>10. ASSUME g \notin hurt
       PROVE  \E d \in 0 .. T + 1 : Waits(g, d)' /\ d + (pos + 1) = T + 1
  <2>1. CASE pos = 0
    <3>1. Run(recv_buffer, q', g, T, 1)
      BY <1>4, <2>1 DEF Run, at1
    <3>2. Tip = g - 1
      BY <2>1 DEF Tip
    <3>3. g = 1 => T = 0
      BY <1>7, <3>2 DEF LineInv
    <3>4. ASSUME g > 1, g - 1 \notin hurt
          PROVE  \/ T = 0 /\ Taken(g - 1)
                 \/ T > 0 /\ at(T) = <<g - 1, Len(sent[g - 1])>>
      <4>1. g - 1 \in 1 .. g /\ Arrived(g - 1) = Len(sent[g - 1]) /\ Len(sent[g - 1]) > 0 /\ Len(sent[g - 1]) \in Nat
        BY <1>2, <3>4 DEF Arrived
      <4>2. Intact(g - 1)
        BY <3>4, <4>1 DEF Intact
      <4>3. \/ Taken(g - 1) /\ recv_buffer = <<>> /\ q = <<>>
            \/ \E d \in 0 .. T : Waits(g - 1, d) /\ d + Arrived(g - 1) = T
        BY <3>2, <4>1, <4>2 DEF LineInv
      <4>4. ASSUME NEW d \in 0 .. T, Waits(g - 1, d), d + Arrived(g - 1) = T
            PROVE  T > 0 /\ at(T) = <<g - 1, Len(sent[g - 1])>>
        <5>1. T > 0 /\ Arrived(g - 1) \in 1 .. Arrived(g - 1)
          BY <4>1, <4>4
        <5> QED
          BY <4>1, <4>4, <5>1 DEF Waits, Run, at
      <4> QED
        BY <1>7, <4>3, <4>4
    <3>5. T > 0 => at1(T) = at(T)
      BY <1>4
    <3>6. g > 1 => g - 1 \in 1 .. g
      BY <1>2
    <3>7. ASSUME g > 1, g - 1 \notin hurt
          PROVE  \/ T = 0 /\ Taken(g - 1)'
                 \/ T > 0 /\ at1(T) = <<g - 1, Len(sent[g - 1])>>
      BY <1>6, <3>4, <3>5, <3>6, <3>7
    <3>8. Arrived(g)' = 1
      BY <1>3, <1>6, <2>1
    <3>9. Waits(g, T)'
      BY <1>1, <3>1, <3>3, <3>7, <3>8 DEF Waits, at1
    <3> QED
      BY <1>4, <2>1, <3>9
  <2>2. CASE pos > 0
    <3>1. Tip = g /\ Arrived(g) = pos
      BY <2>2 DEF Tip, Arrived
    <3>2. Intact(g)
      BY <1>3, <1>10, <2>2, <3>1 DEF Intact
    <3>3. ~Taken(g)
      BY <1>2, <1>3, <3>1, TakenArrived
    <3> PICK d \in 0 .. T : Waits(g, d) /\ d + pos = T
      BY <1>3, <3>1, <3>2, <3>3 DEF LineInv
    <3>4. \A n \in 1 .. pos : at(d + n) = <<g, n>>
      BY <3>1 DEF Waits, Run, at
    <3>5. \A n \in 1 .. pos + 1 : at1(d + n) = <<g, n>>
      <4> SUFFICES ASSUME NEW n \in 1 .. pos + 1 PROVE at1(d + n) = <<g, n>>
        OBVIOUS
      <4>1. CASE n = pos + 1
        <5>1. d + n = T + 1
          BY <1>2, <4>1
        <5> QED
          BY <1>4, <4>1, <5>1
      <4>2. CASE n \in 1 .. pos
        <5>1. d + n \in 1 .. T
          BY <1>2, <1>4, <4>2
        <5> QED
          BY <1>4, <3>4, <4>2, <5>1
      <4> QED
        BY <1>2, <4>1, <4>2
    <3>6. Arrived(g)' = pos + 1 /\ d + (pos + 1) = T + 1 /\ d \in 0 .. T + 1
      BY <1>2, <1>3, <1>4, <1>6
    <3>7. g > 1 => g - 1 \in 1 .. g
      BY <1>2
    <3>8. d > 0 => at1(d) = at(d)
      BY <1>4
    <3>9. Run(recv_buffer, q', g, d, pos + 1)
      BY <1>4, <3>5, <3>6 DEF Run, at1
    <3>10. Waits(g, d)'
      BY <1>1, <1>6, <3>6, <3>7, <3>8, <3>9 DEF Waits, at, at1
    <3> QED
      BY <3>6, <3>10
  <2> QED
    BY <1>2, <2>1, <2>2
<1>11. ASSUME NEW i \in 1 .. g, Intact(i)'
       PROVE  \/ Taken(i)' /\ (i = g => recv_buffer' = <<>> /\ q' = <<>>)
              \/ \E d \in 0 .. T + 1 : Waits(i, d)' /\ (i = g => d + Arrived(i)' = T + 1)
  <2>1. CASE i # g
    BY <1>9, <1>11, <2>1
  <2>2. CASE i = g
    <3>1. g \notin hurt
      BY <1>1, <1>11, <2>2 DEF Intact
    <3>2. Arrived(g)' = pos + 1
      BY <1>3, <1>6
    <3> QED
      BY <1>10, <2>2, <3>1, <3>2
  <2> QED
    BY <2>1, <2>2
<1> QED
  <2>1. sent' = sent /\ recv_buffer' = recv_buffer
    BY <1>1
  <2>2. ~(Tip' < 1)
    BY <1>2, <1>3, <1>5
  <2> QED
    BY <1>4, <1>5, <1>11, <2>1, <2>2 DEF LineInv

LEMMA NextLine == TypeInv /\ OrderInv /\ ReaderInv /\ LineInv /\ [Next]_vars => LineInv'
<1> SUFFICES ASSUME TypeInv, OrderInv, ReaderInv, LineInv, [Next]_vars,
                    NEW T, T = Total(recv_buffer, q), NEW l, l = Len(recv_buffer)
             PROVE  LineInv'
  OBVIOUS
<1> USE LineAssumption
<1>1. /\ q \in Seq(Bytes) /\ recv_buffer \in Seq(Bytes) /\ Len(q) \in Nat /\ l \in Nat /\ T \in Nat
      /\ T = l + Len(q) /\ Known(recv_buffer, sent, pos) /\ Known(q, sent, pos)
  BY DEF TypeInv, Total
<1>2. q' \in Seq(Bytes) /\ recv_buffer' \in Seq(Bytes)
  BY NextTypes DEF TypeInv
<1>3. \A i \in 1 .. Len(sent) : Taken(i) => Taken(i)'
  BY HandedKept
<1>4. Len(sent) \in Nat /\ \A m \in 1 .. l : At(recv_buffer, q, m) = recv_buffer[m]
  BY DEF At, TypeInv
\* Nothing moves.
<1>5. ASSUME UNCHANGED <<q, recv_buffer, sent, pos>>, hurt \subseteq hurt' PROVE LineInv'
  <2>1. \A m \in 1 .. T : At(recv_buffer', q', m) = At(recv_buffer, q, m)
    BY <1>5
  <2>2. T + 0 <= T /\ Total(recv_buffer', q') = T - 0 /\ T + 1 .. T - 0 = {} /\ T + 1 .. T + 0 = {}
    BY <1>1, <1>5 DEF Total
  <2> QED
    BY <1>1, <1>2, <1>3, <1>5, <2>1, <2>2, LineMoved
\* The buffer is given up, and what it holds is hurt.
<1>6. ASSUME recv_buffer' = <<>>, UNCHANGED <<q, sent, pos>>, hurt' = hurt \cup LinesOf(recv_buffer)
      PROVE  LineInv'
  <2>1. CASE l = 0
    <3>1. recv_buffer = <<>>
      BY <1>1, <2>1, LenSeq
    <3> QED
      BY <1>5, <1>6, <3>1
  <2>2. CASE l > 0
    <3>1. Len(<<>>) = 0
      OBVIOUS
    <3>2. Total(recv_buffer', q') = T - l
      BY <1>1, <1>6, <3>1 DEF Total
    <3>3. \A m \in 0 + 1 .. T - l : At(recv_buffer', q', m) = At(recv_buffer, q, m + l)
      <4> SUFFICES ASSUME NEW m \in 1 .. T - l PROVE At(recv_buffer', q', m) = At(recv_buffer, q, m + l)
        OBVIOUS
      <4>1. At(recv_buffer', q', m) = q[m] /\ At(recv_buffer, q, m + l) = q[m]
        BY <1>1, <1>6, <3>1 DEF At
      <4> QED
        BY <4>1
    <3>4. \A i \in 1 .. Len(sent) : \A m \in 0 + 1 .. 0 + l :
             At(recv_buffer, q, m)[1] = i => i \in hurt'
      BY <1>1, <1>4, <1>6 DEF LinesOf
    <3>5. 0 + l <= T /\ 0 \in Nat /\ 1 .. 0 = {} /\ l # 0 /\ hurt \subseteq hurt'
      BY <1>1, <1>6, <2>2
    <3> QED
      BY <1>1, <1>2, <1>3, <1>6, <3>2, <3>3, <3>4, <3>5, LineMoved
  <2> QED
    BY <1>1, <2>1, <2>2
\* A byte is read and not stored.
<1>7. ASSUME Ring!Pop, UNCHANGED <<recv_buffer, sent, pos>>, hurt \subseteq hurt',
             out'[1] # 0 => out'[1] \in hurt'
      PROVE  LineInv'
  <2>1. /\ l + 1 <= T /\ At(recv_buffer, q, l + 1) = out' /\ Total(recv_buffer', q') = T - 1
        /\ \A m \in l + 1 .. T - 1 : At(recv_buffer', q', m) = At(recv_buffer, q, m + 1)
        /\ \A m \in 1 .. l : At(recv_buffer', q', m) = At(recv_buffer, q, m)
    BY <1>7, UnreadPop
  <2>2. \A i \in 1 .. Len(sent) : \A m \in l + 1 .. l + 1 :
           At(recv_buffer, q, m)[1] = i => i \in hurt'
    <3> SUFFICES ASSUME NEW i \in 1 .. Len(sent), NEW m \in l + 1 .. l + 1,
                        At(recv_buffer, q, m)[1] = i
                 PROVE  i \in hurt'
      OBVIOUS
    <3>1. m = l + 1 /\ i # 0
      BY <1>1, <1>4
    <3> QED
      BY <1>7, <2>1, <3>1
  <2>3. 1 \in Nat /\ 1 # 0
    OBVIOUS
  <2> QED
    BY <1>1, <1>2, <1>3, <1>7, <2>1, <2>2, <2>3, LineMoved
\* A byte is read and all of the buffer is given up or handed over.
<1>8. ASSUME Ring!Pop, recv_buffer' = <<>>, UNCHANGED <<sent, pos>>, hurt \subseteq hurt',
             \A i \in 1 .. Len(sent) : \A m \in 1 .. l + 1 :
                At(recv_buffer, q, m)[1] = i =>
                   \/ i \in hurt'
                   \/ Taken(i)' /\ \A n \in 1 .. T : At(recv_buffer, q, n)[1] = i => n <= l + 1
      PROVE  LineInv'
  <2>1. /\ l + 1 <= T /\ Total(recv_buffer', q') = T - (l + 1)
        /\ \A m \in 1 .. T - (l + 1) : At(recv_buffer', q', m) = At(recv_buffer, q, m + (l + 1))
    BY <1>8, UnreadPop
  <2>2. 0 \in Nat /\ l + 1 \in Nat /\ 0 + (l + 1) <= T /\ l + 1 # 0 /\ 1 .. 0 = {}
    BY <1>1, <2>1
  <2>3. \A m \in 0 + 1 .. T - (l + 1) : At(recv_buffer', q', m) = At(recv_buffer, q, m + (l + 1))
    BY <2>1
  <2>4. \A i \in 1 .. Len(sent) : \A m \in 0 + 1 .. 0 + (l + 1) :
           At(recv_buffer, q, m)[1] = i =>
             \/ i \in hurt'
             \/ /\ 0 = 0 /\ Taken(i)'
                /\ \A n \in 1 .. T : At(recv_buffer, q, n)[1] = i => n <= l + 1
    <3>1. 0 + 1 .. 0 + (l + 1) = 1 .. l + 1
      BY <1>1
    <3> QED
      BY <1>8, <3>1, Zenon
  <2> QED
    BY <1>1, <1>2, <1>3, <1>8, <2>1, <2>2, <2>3, <2>4, LineMoved
\* A pop loses what the buffer holds and the byte.
<1>9. ASSUME Ring!Pop, hurt' = hurt \cup LinesOf(Append(recv_buffer, out'))
      PROVE  /\ out'[1] # 0 => out'[1] \in hurt'
             /\ \A i \in 1 .. Len(sent) : \A m \in 1 .. l + 1 :
                   At(recv_buffer, q, m)[1] = i => i \in hurt'
  <2>1. out' \in Bytes
    BY <1>9, PopOf
  <2>2. /\ LinesOf(recv_buffer) \subseteq LinesOf(Append(recv_buffer, out'))
        /\ out' # NulByte /\ out'[1] # 0 => out'[1] \in LinesOf(Append(recv_buffer, out'))
    BY <1>1, <2>1, LinesOfAppend
  <2>3. At(recv_buffer, q, l + 1) = out'
    BY <1>9, UnreadPop
  <2>4. out'[1] # 0 => out'[1] \in hurt'
    BY <1>9, <2>2 DEF NulByte
  <2>5. ASSUME NEW i \in 1 .. Len(sent), NEW m \in 1 .. l + 1, At(recv_buffer, q, m)[1] = i
        PROVE  i \in hurt'
    <3>1. i # 0
      BY <1>4
    <3>2. CASE m = l + 1
      BY <2>3, <2>4, <2>5, <3>1, <3>2
    <3>3. CASE m \in 1 .. l
      <4>1. i \in LinesOf(recv_buffer)
        BY <1>4, <2>5, <3>1, <3>3 DEF LinesOf
      <4> QED
        BY <1>9, <2>2, <4>1
    <3> QED
      BY <1>1, <3>2, <3>3
  <2> QED
    BY <2>4, <2>5
<1>10. CASE SendLine
  <2>1. UNCHANGED <<q, recv_buffer, handed, hurt>> /\ pos' = 0 /\ BetweenLines
    BY <1>10 DEF SendLine, ringVars, readerVars
  <2> PICK t \in Texts : sent' = Append(sent, t)
    BY <1>10 DEF SendLine
  <2>2. /\ Len(sent') = Len(sent) + 1 /\ \A i \in 1 .. Len(sent) : sent'[i] = sent[i]
    BY DEF TypeInv
  <2>3. /\ pos \in Nat /\ \A i \in 1 .. Len(sent) : Arrived(i) \in Nat /\ Len(sent[i]) \in Nat /\ Len(sent[i]) > 0
    BY LineShape
  <2>4. Len(sent) > 0 => pos = Len(sent[Len(sent)]) /\ pos > 0
    <3>1. Len(sent) > 0 => sent # <<>> /\ Len(sent) \in 1 .. Len(sent)
      BY <1>4 DEF TypeInv
    <3> QED
      BY <2>1, <2>3, <3>1 DEF BetweenLines
  <2>5. Len(sent) = 0 => pos = 0
    BY DEF TypeInv
  <2>6. Tip' = Len(sent) /\ (Len(sent) > 0 => Tip = Len(sent)) /\ (Len(sent) = 0 => Tip < 1)
    BY <1>4, <2>1, <2>2, <2>3, <2>4, <2>5 DEF Tip
  <2>7. \A i \in 1 .. Len(sent) : Arrived(i)' = Arrived(i)
    <3> SUFFICES ASSUME NEW i \in 1 .. Len(sent) PROVE Arrived(i)' = Arrived(i)
      OBVIOUS
    <3>1. i < Len(sent') /\ Len(sent) > 0
      BY <1>4, <2>2
    <3>2. Arrived(i)' = Len(sent[i])
      BY <2>2, <3>1 DEF Arrived
    <3>3. CASE i = Len(sent)
      BY <2>4, <3>1, <3>2, <3>3 DEF Arrived
    <3>4. CASE i < Len(sent)
      BY <3>2, <3>4 DEF Arrived
    <3> QED
      BY <1>4, <3>3, <3>4
  <2>8. ASSUME NEW i \in 1 .. Len(sent'), Intact(i)'
        PROVE  i \in 1 .. Len(sent) /\ Intact(i)
    <3>1. i # Len(sent')
      BY <1>4, <2>1, <2>2, <2>8 DEF Intact, Arrived
    <3>2. i \in 1 .. Len(sent)
      BY <1>4, <2>2, <3>1
    <3> QED
      BY <2>1, <2>7, <2>8, <3>2 DEF Intact
  <2>9. ASSUME NEW i \in 1 .. Len(sent), NEW d \in 0 .. T, Waits(i, d) PROVE Waits(i, d)'
    <3>1. i > 1 => i - 1 \in 1 .. Len(sent)
      BY <1>4
    <3> QED
      BY <1>3, <2>1, <2>2, <2>7, <2>9, <3>1 DEF Waits
  <2>10. Tip' < 1 => recv_buffer = <<>> /\ q = <<>>
    BY <1>4, <2>6 DEF LineInv
  <2>11. ASSUME NEW i \in 1 .. Len(sent), Intact(i)
         PROVE  \/ Taken(i)' /\ (i = Tip' => recv_buffer = <<>> /\ q = <<>>)
                \/ \E d \in 0 .. T : Waits(i, d)' /\ (i = Tip' => d + Arrived(i)' = T)
    <3>1. i = Tip' => i = Tip
      BY <1>4, <2>6
    <3>2. CASE Taken(i) /\ (i = Tip => recv_buffer = <<>> /\ q = <<>>)
      BY <1>3, <3>1, <3>2
    <3>3. ASSUME NEW d \in 0 .. T, Waits(i, d), i = Tip => d + Arrived(i) = T
          PROVE  Waits(i, d)' /\ (i = Tip' => d + Arrived(i)' = T)
      BY <2>7, <2>9, <3>1, <3>3
    <3> QED
      BY <2>11, <3>2, <3>3 DEF LineInv
  <2> QED
    BY <2>1, <2>8, <2>10, <2>11 DEF LineInv
<1>11. CASE Receive
  <2>1. CASE Ring!Push(NextByte)
    <3>1. \A x, y : x = Total(recv_buffer, q) /\ y = Len(sent) => LineInv'
      BY <1>11, <2>1, LinePushed
    <3> QED
      BY <3>1
  <2>2. CASE (Ring!Refuse \/ Ring!LostInFlush) /\ Hurt({Len(sent)})
    <3>1. /\ UNCHANGED <<q, recv_buffer, sent, handed>> /\ hurt' = hurt \cup {Len(sent)}
          /\ pos' = pos + 1 /\ ~BetweenLines
      BY <1>11, <2>2 DEF Receive, readerVars, Hurt, Ring!Refuse, Ring!LostInFlush
    <3>2. Len(sent) > 0 /\ pos \in Nat
      BY <1>4, <3>1 DEF BetweenLines, TypeInv
    <3>3. Tip' = Len(sent)
      BY <3>1, <3>2 DEF Tip
    <3>4. ASSUME NEW i \in 1 .. Len(sent), Intact(i)'
          PROVE  i < Len(sent) /\ Intact(i) /\ Arrived(i)' = Arrived(i) /\ i # Tip'
      <4>1. i # Len(sent)
        BY <3>1, <3>4 DEF Intact
      <4>2. i < Len(sent)
        BY <1>4, <4>1
      <4> QED
        BY <3>1, <3>3, <3>4, <4>2 DEF Intact, Arrived
    <3>5. ASSUME NEW i \in 1 .. Len(sent), Intact(i)', NEW d \in 0 .. T, Waits(i, d) PROVE Waits(i, d)'
      <4>1. i > 1 => i - 1 \in 1 .. Len(sent)
        BY <1>4
      <4> QED
        BY <1>3, <3>1, <3>4, <3>5, <4>1 DEF Waits
    <3>6. ASSUME NEW i \in 1 .. Len(sent), Intact(i)'
          PROVE  Taken(i)' \/ \E d \in 0 .. T : Waits(i, d)'
      <4>1. Taken(i) \/ \E d \in 0 .. T : Waits(i, d)
        BY <3>4, <3>6 DEF LineInv
      <4> QED
        BY <1>3, <3>5, <3>6, <4>1
    <3> QED
      BY <1>4, <3>1, <3>2, <3>3, <3>4, <3>6 DEF LineInv
  <2> QED
    BY <1>11, <2>1, <2>2 DEF Receive
<1>12. CASE at_client_init
  BY <1>5, <1>12 DEF at_client_init, Ring!Open
<1>13. CASE ReadChar
  <2>1. /\ Ring!Pop /\ recv_buffer' = Stored(out') /\ UNCHANGED <<sent, pos>>
        /\ hurt' = hurt \cup (IF l < BufSize THEN {} ELSE LinesOf(<<out'>>))
    BY <1>13 DEF ReadChar, Hurt
  <2>2. (out' = NulByte \/ Sent(out', sent, pos)) /\ out' \in Bytes
    BY <2>1, PopOf
  <2>3. CASE l < BufSize
    <3>1. recv_buffer' = Append(recv_buffer, out') /\ hurt \subseteq hurt'
      BY <2>1, <2>2, <2>3, StoredOf
    <3>2. Total(recv_buffer', q') = T /\ \A m \in 1 .. T : At(recv_buffer', q', m) = At(recv_buffer, q, m)
      BY <2>1, <3>1, UnreadPop
    <3>3. T + 0 <= T /\ T - 0 = T /\ T + 1 .. T - 0 = {} /\ T + 1 .. T + 0 = {}
      BY <1>1
    <3> QED
      BY <1>1, <1>2, <1>3, <2>1, <3>1, <3>2, <3>3, LineMoved
  <2>4. CASE ~(l < BufSize)
    <3>1. recv_buffer' = recv_buffer /\ hurt' = hurt \cup LinesOf(<<out'>>)
      BY <2>1, <2>4 DEF Stored
    <3>2. LinesOf(<<out'>>) = {out'[1]} \ {0}
      BY <1>1, <2>2, LinesOfAppend
    <3> QED
      BY <1>7, <2>1, <3>1, <3>2
  <2> QED
    BY <2>3, <2>4
<1>14. CASE LineDone
  <2>1. /\ Ring!Pop /\ recv_buffer' = <<>> /\ UNCHANGED <<sent, pos>> /\ hurt \subseteq hurt'
        /\ handed' = Append(handed, [text |-> Stored(out'), urc |-> get_urc_obj(Stored(out'))])
        /\ l < BufSize
    BY <1>14 DEF LineDone, Restart, Hurt
  <2>2. (out' = NulByte \/ Sent(out', sent, pos)) /\ out' \in Bytes
    BY <2>1, PopOf
  <2>3. Stored(out') = Append(recv_buffer, out')
    BY <2>1, <2>2, StoredOf
  <2>4. /\ Len(handed') = Len(handed) + 1 /\ Len(handed) \in Nat
        /\ handed'[Len(handed) + 1].text = Append(recv_buffer, out')
    <3> DEFINE h == [text |-> Stored(out'), urc |-> get_urc_obj(Stored(out'))]
    <3>1. h.text = Append(recv_buffer, out')
      BY <2>3
    <3> HIDE DEF h
    <3>2. handed' = Append(handed, h) /\ Len(handed) \in Nat
      BY <2>1 DEF h, TypeInv
    <3>3. Len(Append(handed, h)) = Len(handed) + 1 /\ Append(handed, h)[Len(handed) + 1] = h
      BY DEF TypeInv
    <3> QED
      BY <3>1, <3>2, <3>3
  <2>5. ASSUME NEW i \in 1 .. Len(sent), NEW m \in 1 .. l + 1, At(recv_buffer, q, m)[1] = i,
               i \notin hurt'
        PROVE  Taken(i)' /\ \A n \in 1 .. T : At(recv_buffer, q, n)[1] = i => n <= l + 1
    <3>1. /\ Arrived(i) = Len(sent[i])
          /\ \A n \in 1 .. T : At(recv_buffer, q, n)[1] = i => n <= l + 1
          /\ \E d \in 0 .. T : Waits(i, d) /\ d + Arrived(i) <= l + 1
      BY <1>14, <2>5, WholeLines
    <3> PICK d \in 0 .. T : Waits(i, d) /\ d + Arrived(i) <= l + 1
      BY <3>1
    <3>2. \A n \in 1 .. Len(sent[i]) : In(<<i, n>>, Append(recv_buffer, out'))
      <4> SUFFICES ASSUME NEW n \in 1 .. Len(sent[i]) PROVE In(<<i, n>>, Append(recv_buffer, out'))
        OBVIOUS
      <4>1. d + n \in 1 .. l + 1 /\ At(recv_buffer, q, d + n) = <<i, n>>
        <5>1. Arrived(i) \in Nat /\ n \in 1 .. Arrived(i)
          BY <3>1, LineShape
        <5> QED
          BY <1>1, <5>1 DEF Waits, Run
      <4>2. Len(Append(recv_buffer, out')) = l + 1 /\ l + 1 <= T
        BY <1>1, <2>1, <2>2, UnreadPop
      <4>3. At(Append(recv_buffer, out'), q', d + n) = <<i, n>>
        <5>1. d + n \in 1 .. T
          BY <1>1, <4>1, <4>2
        <5>2. At(Append(recv_buffer, out'), q', d + n) = At(recv_buffer, q, d + n)
          BY <2>1, <5>1, UnreadPop
        <5> QED
          BY <4>1, <5>2
      <4>4. Append(recv_buffer, out')[d + n] = <<i, n>>
        BY <4>1, <4>2, <4>3 DEF At
      <4> QED
        BY <4>1, <4>2, <4>4 DEF In
    <3>3. Len(handed) + 1 \in 1 .. Len(handed')
      BY <2>4
    <3>4. Taken(i)'
      BY <2>1, <2>4, <3>2, <3>3 DEF Taken
    <3> QED
      BY <3>1, <3>4
  <2> QED
    BY <1>8, <2>1, <2>5
<1>15. CASE LineTooLong
  <2>1. /\ Ring!Pop /\ UNCHANGED <<recv_buffer, sent, pos>>
        /\ hurt' = hurt \cup LinesOf(Append(recv_buffer, out'))
    BY <1>15 DEF LineTooLong, Hurt
  <2> QED
    BY <1>7, <1>9, <2>1
<1>16. CASE BeginFlush
  <2>1. /\ rpc = "flush" /\ q' = <<>> /\ recv_buffer' = <<>> /\ UNCHANGED <<sent, pos>>
        /\ hurt' = hurt \cup LinesOf(q)
    BY <1>16 DEF BeginFlush, Ring!BeginFlush, Hurt
  <2>2. LinesOf(recv_buffer) \subseteq hurt
    BY <2>1 DEF ReaderInv
  <2>3. ASSUME NEW i \in 1 .. Len(sent), NEW m \in 1 .. T, At(recv_buffer, q, m)[1] = i
        PROVE  i \in hurt'
    <3>1. i # 0
      BY <1>4
    <3>2. CASE m \in 1 .. l
      BY <1>4, <2>1, <2>2, <2>3, <3>1, <3>2 DEF LinesOf
    <3>3. CASE ~(m \in 1 .. l)
      <4>1. m - l \in 1 .. Len(q) /\ q[m - l][1] = i
        BY <1>1, <2>3, <3>3 DEF At
      <4> QED
        BY <2>1, <3>1, <4>1 DEF LinesOf
    <3> QED
      BY <3>2, <3>3
  <2>4. Total(recv_buffer', q') = 0
    BY <2>1 DEF Total
  <2>5. CASE T > 0
    <3>1. /\ 0 + T <= T /\ T - T = 0 /\ 0 + 1 .. T - T = {} /\ 1 .. 0 = {} /\ 0 + 1 = 1
          /\ 0 + T = T /\ 0 \in Nat /\ T # 0 /\ hurt \subseteq hurt'
      BY <1>1, <2>1, <2>5
    <3> QED
      BY <1>1, <1>2, <1>3, <2>1, <2>3, <2>4, <3>1, LineMoved
  <2>6. CASE T = 0
    <3>1. q = <<>> /\ recv_buffer = <<>>
      BY <1>1, <2>6
    <3> QED
      BY <1>5, <2>1, <3>1
  <2> QED
    BY <1>1, <2>5, <2>6
<1>17. CASE FlushBlank
  <2>1. UNCHANGED <<recv_buffer, sent, pos, handed>>
    BY <1>17 DEF FlushBlank, readerVars
  <2> PICK x \in 1 .. Len(q) : q' = [q EXCEPT ![x] = NulByte]
    BY <1>17 DEF FlushBlank, Ring!Blank
  <2>2. hurt' = hurt \cup ({q[k][1] : k \in {n \in 1 .. Len(q) : q[n] # q'[n]}} \ {0})
    BY <1>17 DEF FlushBlank, Hurt
  <2>3. Len(q') = Len(q) /\ \A k \in 1 .. Len(q) : q'[k] = IF k = x THEN NulByte ELSE q[k]
    <3>1. NulByte \in Bytes
      BY DEF Bytes
    <3> QED
      BY <1>1, <3>1
  <2>4. Total(recv_buffer, q') = T
    BY <1>1, <2>3 DEF Total
  <2>5. ASSUME NEW m \in 1 .. T, NEW i \in 1 .. Len(sent), NEW n, At(recv_buffer, q, m) = <<i, n>>, i \notin hurt'
        PROVE  At(recv_buffer, q', m) = <<i, n>>
    <3>1. CASE m \in 1 .. l
      BY <1>4, <2>5, <3>1 DEF At
    <3>2. CASE ~(m \in 1 .. l)
      <4>1. m - l \in 1 .. Len(q) /\ q[m - l] = <<i, n>> /\ At(recv_buffer, q', m) = q'[m - l]
        BY <1>1, <2>5, <3>2 DEF At
      <4>2. i # 0
        BY <1>4
      <4>3. q'[m - l] = q[m - l]
        BY <2>2, <2>5, <4>1, <4>2
      <4> QED
        BY <4>1, <4>3
    <3> QED
      BY <3>1, <3>2
  <2>6. Tip' = Tip /\ \A i \in 1 .. Len(sent) : Arrived(i)' = Arrived(i)
    BY <2>1 DEF Tip, Arrived
  <2>7. q = <<>> => q' = <<>>
    BY <1>1
  <2>8. ASSUME NEW i \in 1 .. Len(sent), Intact(i)', NEW d \in 0 .. T, Waits(i, d)
        PROVE  Waits(i, d)'
    <3>1. Arrived(i) \in Nat /\ Arrived(i)' = Arrived(i) /\ i \notin hurt'
      BY <2>6, <2>8, LineShape DEF Intact
    <3>2. d + Arrived(i) <= T /\ \A n \in 1 .. Arrived(i) : At(recv_buffer, q, d + n) = <<i, n>>
      BY <2>8 DEF Waits, Run
    <3>3. \A n \in 1 .. Arrived(i) : At(recv_buffer, q', d + n) = <<i, n>>
      <4> SUFFICES ASSUME NEW n \in 1 .. Arrived(i) PROVE At(recv_buffer, q', d + n) = <<i, n>>
        OBVIOUS
      <4>1. d + n \in 1 .. T
        BY <1>1, <3>1, <3>2
      <4> QED
        BY <2>5, <3>1, <3>2, <4>1
    <3>4. Run(recv_buffer, q', i, d, Arrived(i))
      BY <2>4, <3>2, <3>3 DEF Run
    <3>5. ASSUME i > 1, i - 1 \notin hurt'
          PROVE  \/ d = 0 /\ Taken(i - 1)'
                 \/ d > 0 /\ At(recv_buffer, q', d) = <<i - 1, Len(sent[i - 1])>>
      <4>1. i - 1 \in 1 .. Len(sent) /\ i - 1 \notin hurt
        BY <1>4, <2>2, <3>5
      <4>2. CASE d = 0 /\ Taken(i - 1)
        BY <1>3, <4>1, <4>2
      <4>3. CASE d > 0 /\ At(recv_buffer, q, d) = <<i - 1, Len(sent[i - 1])>>
        <5>1. d \in 1 .. T
          BY <1>1, <4>3
        <5> QED
          BY <2>5, <3>5, <4>1, <4>3, <5>1
      <4> QED
        BY <2>8, <3>5, <4>1, <4>2, <4>3 DEF Waits
    <3> QED
      BY <2>1, <2>8, <3>1, <3>4, <3>5 DEF Waits
  <2>9. ASSUME NEW i \in 1 .. Len(sent), Intact(i)'
        PROVE  \/ Taken(i)' /\ (i = Tip => recv_buffer = <<>> /\ q' = <<>>)
               \/ \E d \in 0 .. T : Waits(i, d)' /\ (i = Tip => d + Arrived(i) = T)
    <3>1. Intact(i)
      BY <2>2, <2>6, <2>9 DEF Intact
    <3>2. CASE Taken(i) /\ (i = Tip => recv_buffer = <<>> /\ q = <<>>)
      BY <1>3, <2>7, <3>2
    <3>3. ASSUME NEW d \in 0 .. T, Waits(i, d), i = Tip => d + Arrived(i) = T
          PROVE  Waits(i, d)' /\ (i = Tip => d + Arrived(i) = T)
      BY <2>8, <2>9, <3>3
    <3> QED
      BY <3>1, <3>2, <3>3 DEF LineInv
  <2> QED
    BY <2>1, <2>4, <2>6, <2>7, <2>9 DEF LineInv
<1>18. CASE EndFlush
  <2>1. recv_buffer = <<>>
    BY <1>18 DEF EndFlush, ReaderInv
  <2> QED
    BY <1>5, <1>18, <2>1 DEF EndFlush, Ring!EndFlush, Restart
<1>19. CASE GetcharTimeout
  BY <1>6, <1>19 DEF GetcharTimeout, ringVars, Restart, Hurt
<1>20. CASE GetcharDeadline
  <2>1. /\ Ring!Pop /\ recv_buffer' = <<>> /\ UNCHANGED <<sent, pos>> /\ hurt \subseteq hurt'
        /\ hurt' = hurt \cup LinesOf(Append(recv_buffer, out'))
    BY <1>20 DEF GetcharDeadline, Restart, Hurt
  <2> QED
    BY <1>8, <1>9, <2>1
<1>21. CASE at_set_end_sign
  BY <1>5, <1>21 DEF at_set_end_sign, ringVars, readerVars
<1>22. CASE UNCHANGED vars
  BY <1>5, <1>22 DEF vars, ringVars, readerVars
<1> QED
  BY <1>10, <1>11, <1>12, <1>13, <1>14, <1>15, <1>16, <1>17, <1>18, <1>19, <1>20, <1>21, <1>22 DEF Next

-----------------------------------------------------------------------------
(* What the texts are made of.                                             *)

\* A text that is handed over with a part of a line: the line is hurt.
WholeInv == \A k \in 1 .. Len(handed) : \A i \in LinesOf(handed[k].text) :
    i \in hurt \/ \A n \in 1 .. Len(sent[i]) : In(<<i, n>>, handed[k].text)

LEMMA LinesOfKnown ==
    ASSUME TypeInv, NEW s, Known(s, sent, pos), NEW i \in LinesOf(s)
    PROVE  /\ i \in 1 .. Len(sent)
           /\ \E n \in 1 .. Len(s) : s[n] # NulByte /\ Sent(s[n], sent, pos) /\ s[n][1] = i
<1> PICK n \in 1 .. Len(s) : s[n][1] = i /\ i # 0
  BY DEF LinesOf
<1>1. s[n] # NulByte
  BY DEF NulByte
<1>2. Sent(s[n], sent, pos)
  BY <1>1 DEF Known
<1> QED
  BY <1>1, <1>2 DEF Sent

\* The text that LineDone hands over.
LEMMA HandedOver ==
    ASSUME TypeInv, LineDone
    PROVE  /\ Len(handed) \in Nat /\ Len(handed') = Len(handed) + 1
           /\ handed'[Len(handed) + 1].text = Append(recv_buffer, out')
           /\ handed'[Len(handed) + 1].urc = get_urc_obj(Append(recv_buffer, out'))
           /\ Len(recv_buffer) \in Nat /\ Len(Append(recv_buffer, out')) = Len(recv_buffer) + 1
           /\ Known(Append(recv_buffer, out'), sent, pos)
           /\ Len(recv_buffer) + 1 <= Total(recv_buffer, q)
           /\ \A m \in 1 .. Len(recv_buffer) + 1 :
                Append(recv_buffer, out')[m] = At(recv_buffer, q, m)
           /\ sent' = sent /\ pos' = pos /\ hurt \subseteq hurt' /\ recv_buffer' = <<>>
<1> DEFINE h == [text |-> Stored(out'), urc |-> get_urc_obj(Stored(out'))]
           text == Append(recv_buffer, out')
           l == Len(recv_buffer)
<1>1. /\ Ring!Pop /\ l < BufSize /\ handed' = Append(handed, h)
      /\ sent' = sent /\ pos' = pos /\ hurt \subseteq hurt' /\ recv_buffer' = <<>>
  BY DEF LineDone, Hurt, Restart
<1>2. (out' = NulByte \/ Sent(out', sent, pos)) /\ out' \in Bytes
  BY <1>1, PopOf
<1>3. /\ Stored(out') = text /\ Len(Stored(out')) = l + 1
      /\ Known(Stored(out'), sent, pos)
  BY <1>1, <1>2, StoredOf
<1>4. h.text = text /\ h.urc = get_urc_obj(text)
  BY <1>3
<1>5. /\ l \in Nat /\ l + 1 <= Total(recv_buffer, q) /\ At(recv_buffer, q, l + 1) = out'
      /\ \A m \in 1 .. l : At(recv_buffer, q, m) = recv_buffer[m]
  BY <1>1, UnreadPop
<1>6. text[l + 1] = out' /\ \A m \in 1 .. l : text[m] = recv_buffer[m]
  BY <1>2 DEF TypeInv
<1>7. \A m \in 1 .. l + 1 : text[m] = At(recv_buffer, q, m)
  <2> HIDE DEF text, l
  <2> QED
    BY <1>5, <1>6
<1> HIDE DEF h
<1>8. Len(handed) \in Nat /\ Len(handed') = Len(handed) + 1 /\ handed'[Len(handed) + 1] = h
  BY <1>1 DEF TypeInv
<1> QED
  BY <1>1, <1>3, <1>4, <1>5, <1>7, <1>8

LEMMA InitWhole == Init => WholeInv
<1>1. Len(<<>>) = 0
  OBVIOUS
<1> QED
  BY <1>1 DEF Init, WholeInv

LEMMA NextWhole == TypeInv /\ OrderInv /\ LineInv /\ WholeInv /\ [Next]_vars => WholeInv'
<1> SUFFICES ASSUME TypeInv, OrderInv, LineInv, WholeInv, [Next]_vars,
                    NEW k \in 1 .. Len(handed'), NEW i \in LinesOf(handed'[k].text), i \notin hurt',
                    NEW n \in 1 .. Len(sent'[i])
             PROVE  In(<<i, n>>, handed'[k].text)
  BY DEF WholeInv, LinesOf, In
<1>1. Len(handed) \in Nat /\ \A x \in 1 .. Len(handed) : handed'[x] = handed[x]
  BY HandedKept
<1>2. \A x \in 1 .. Len(sent) : sent'[x] = sent[x]
  BY SentKept
<1>3. hurt \subseteq hurt'
  BY DEF Next, SendLine, Receive, at_client_init, ReadChar, LineDone, LineTooLong, BeginFlush, FlushBlank,
         EndFlush, GetcharTimeout, GetcharDeadline, at_set_end_sign, vars, Hurt
<1>4. CASE k \in 1 .. Len(handed)
  <2>1. handed'[k] = handed[k] /\ Known(handed[k].text, sent, pos)
    BY <1>1, <1>4 DEF TypeInv
  <2>2. i \in 1 .. Len(sent) /\ i \in LinesOf(handed[k].text)
    BY <2>1, LinesOfKnown
  <2> QED
    BY <1>2, <1>3, <1>4, <2>1, <2>2 DEF WholeInv
<1>5. CASE ~(k \in 1 .. Len(handed))
  <2>1. LineDone
    <3>1. handed' # handed
      BY <1>5
    <3> QED
      BY <3>1 DEF Next, SendLine, Receive, at_client_init, ReadChar, LineTooLong, BeginFlush, FlushBlank,
              EndFlush, GetcharTimeout, GetcharDeadline, at_set_end_sign, vars
  <2> DEFINE text == Append(recv_buffer, out')
             l == Len(recv_buffer)
  <2>2. /\ Len(handed') = Len(handed) + 1 /\ handed'[Len(handed) + 1].text = text
        /\ l \in Nat /\ Len(text) = l + 1 /\ Known(text, sent, pos)
        /\ l + 1 <= Total(recv_buffer, q)
        /\ \A m \in 1 .. l + 1 : text[m] = At(recv_buffer, q, m)
        /\ sent' = sent
    BY <2>1, HandedOver
  <2> HIDE DEF text, l
  <2>3. k = Len(handed) + 1 /\ handed'[k].text = text
    BY <1>1, <1>5, <2>2
  <2>4. i \in 1 .. Len(sent) /\ \E m \in 1 .. l + 1 : text[m][1] = i
    <3>1. i \in LinesOf(text)
      BY <2>3
    <3> QED
      BY <2>2, <3>1, LinesOfKnown
  <2> PICK m \in 1 .. l + 1 : At(recv_buffer, q, m)[1] = i
    BY <2>2, <2>4
  <2>5. /\ Arrived(i) = Len(sent[i])
        /\ \E d \in 0 .. Total(recv_buffer, q) : Waits(i, d) /\ d + Arrived(i) <= l + 1
    BY <2>1, <2>4, WholeLines DEF l
  <2> PICK d \in 0 .. Total(recv_buffer, q) : Waits(i, d) /\ d + Arrived(i) <= l + 1
    BY <2>5
  <2>6. d + n \in 1 .. l + 1 /\ At(recv_buffer, q, d + n) = <<i, n>>
    <3>1. Arrived(i) \in Nat /\ n \in 1 .. Arrived(i) /\ d \in Nat
      <4>1. Total(recv_buffer, q) \in Nat
        BY UnreadSorted
      <4> QED
        BY <2>2, <2>4, <2>5, <4>1, LineShape
    <3> QED
      BY <2>2, <3>1 DEF Waits, Run
  <2> QED
    BY <2>2, <2>3, <2>6 DEF In
<1> QED
  BY <1>4, <1>5

\* What the parser is handed is what was sent, in its order, nothing twice and
\* no line shortened unless it is known to be hurt.
THEOREM TextsAreAsSent == Spec => []HandedAsSent
<1>1. TypeInv /\ OrderInv /\ WholeInv => HandedAsSent
  <2> SUFFICES ASSUME TypeInv, OrderInv, WholeInv PROVE HandedAsSent
    OBVIOUS
  <2>1. ASSUME NEW j \in 1 .. Len(handed), NEW k \in 1 .. Len(handed),
               NEW m \in 1 .. Len(handed[j].text), NEW n \in 1 .. Len(handed[k].text),
               handed[j].text[m] # NulByte, handed[k].text[n] # NulByte,
               j < k \/ (j = k /\ m < n)
        PROVE  Before(handed[j].text[m], handed[k].text[n])
    <3>1. CASE j < k
      <4>1. j \in 1 .. k - 1
        BY <3>1 DEF TypeInv
      <4>2. AllBefore(handed[j].text, handed[k].text)
        BY <4>1 DEF OrderInv
      <4> QED
        BY <2>1, <4>2 DEF AllBefore
    <3>2. CASE j = k /\ m < n
      BY <2>1, <3>2 DEF OrderInv, Sorted
    <3> QED
      BY <2>1, <3>1, <3>2
  <2>2. ASSUME NEW k \in 1 .. Len(handed), NEW i \in LinesOf(handed[k].text)
        PROVE  Damaged(i) \/ \A n \in 1 .. Len(sent[i]) : \E m \in 1 .. Len(handed[k].text) :
                                handed[k].text[m] = <<i, n>>
    BY DEF WholeInv, In, Damaged
  <2>3. \A j, k \in 1 .. Len(handed) :
          \A m \in 1 .. Len(handed[j].text), n \in 1 .. Len(handed[k].text) :
             LET a == handed[j].text[m] b == handed[k].text[n] IN
             (a # NulByte /\ b # NulByte /\ (j < k \/ (j = k /\ m < n)))
             => (a[1] < b[1] \/ (a[1] = b[1] /\ a[2] < b[2]))
    <3> TAKE j, k \in 1 .. Len(handed)
    <3> TAKE m \in 1 .. Len(handed[j].text), n \in 1 .. Len(handed[k].text)
    <3> QED
      BY <2>1 DEF Before
  <2> QED
    BY <2>2, <2>3, Zenon DEF HandedAsSent
<1>2. Init => TypeInv /\ OrderInv /\ ReaderInv /\ LineInv /\ WholeInv
  BY InitTypes, InitOrder, InitReader, InitLine, InitWhole
<1>3. TypeInv /\ OrderInv /\ ReaderInv /\ LineInv /\ WholeInv /\ [Next]_vars
      => (TypeInv /\ OrderInv /\ ReaderInv /\ LineInv /\ WholeInv)'
  BY NextTypes, NextOrder, NextReader, NextLine, NextWhole
<1> QED
  BY <1>1, <1>2, <1>3, PTL DEF Spec

LEMMA InitFeed == Init => FeedInv /\ AloneInv /\ UrcInv
<1>1. Len(<<>>) = 0
  OBVIOUS
<1> QED
  BY <1>1 DEF Init, FeedInv, AloneInv, UrcInv

\* at_recv_readline does not run past the end of an intact line.
LEMMA NextFeed ==
    TypeInv /\ OrderInv /\ ReaderInv /\ LineInv /\ FeedInv /\ [Next]_vars => FeedInv'
<1> SUFFICES ASSUME TypeInv, OrderInv, ReaderInv, LineInv, FeedInv, [Next]_vars,
                    NEW i \in 1 .. Len(sent'), i \notin hurt', In(<<i, Len(sent'[i])>>, recv_buffer')
             PROVE  sent'[i][Len(sent'[i])] # "LF"
  BY DEF FeedInv, In
<1> USE LineAssumption, TextAssumption
<1>1. Len(sent) \in Nat /\ (\A x \in 1 .. Len(sent) : sent'[x] = sent[x])
  <2>1. Len(sent) \in Nat
    BY DEF TypeInv
  <2> QED
    BY <2>1, SentKept
<1>2. hurt \subseteq hurt'
  BY DEF Next, SendLine, Receive, at_client_init, ReadChar, LineDone, LineTooLong, BeginFlush, FlushBlank,
         EndFlush, GetcharTimeout, GetcharDeadline, at_set_end_sign, vars, Hurt
<1>3. recv_buffer \in Seq(Bytes) /\ Len(recv_buffer) \in Nat /\ Known(recv_buffer, sent, pos)
  BY DEF TypeInv
<1>4. recv_buffer' # <<>>
  <2>1. Len(<<>>) = 0
    OBVIOUS
  <2> QED
    BY <2>1 DEF In
<1>5. CASE recv_buffer' = recv_buffer
  <2> PICK n \in 1 .. Len(recv_buffer) : recv_buffer[n] = <<i, Len(sent'[i])>>
    BY <1>5 DEF In
  <2>1. recv_buffer[n] # NulByte
    BY <1>1 DEF NulByte
  <2>2. i \in 1 .. Len(sent)
    BY <1>3, <2>1 DEF Known, Sent
  <2> QED
    BY <1>1, <1>2, <1>5, <2>2 DEF FeedInv
<1>6. CASE recv_buffer' # recv_buffer
  <2>1. ReadChar
    BY <1>4, <1>6 DEF Next, SendLine, Receive, at_client_init, LineDone, LineTooLong, BeginFlush,
            FlushBlank, EndFlush, GetcharTimeout, GetcharDeadline, at_set_end_sign, vars, readerVars, Restart
  <2> DEFINE b == out'
             l == Len(recv_buffer)
             L == Len(sent[i])
  <2>2. /\ Ring!Pop /\ rpc = "getchar" /\ ~EndsLine(b) /\ recv_buffer' = Stored(b) /\ sent' = sent
    BY <2>1 DEF ReadChar
  <2>3. (b = NulByte \/ Sent(b, sent, pos)) /\ b \in Bytes
    BY <2>2, PopOf
  <2>4. l < BufSize /\ recv_buffer' = Append(recv_buffer, b)
    <3>1. ~(l < BufSize) => recv_buffer' = recv_buffer
      BY <2>2 DEF Stored
    <3> QED
      BY <1>6, <2>2, <2>3, <3>1, StoredOf
  <2>5. /\ Len(recv_buffer') = l + 1 /\ recv_buffer'[l + 1] = b
        /\ \A n \in 1 .. l : recv_buffer'[n] = recv_buffer[n]
    BY <1>3, <2>3, <2>4
  <2> PICK n \in 1 .. l + 1 : recv_buffer'[n] = <<i, L>>
    BY <2>2, <2>5 DEF In
  <2>6. i \in 1 .. Len(sent) /\ i \notin hurt
    BY <1>2, <2>2
  <2>7. CASE n \in 1 .. l
    <3>1. In(<<i, L>>, recv_buffer)
      BY <2>5, <2>7 DEF In
    <3> QED
      BY <2>2, <2>6, <3>1 DEF FeedInv
  <2>8. CASE n = l + 1
    <3> SUFFICES ASSUME sent[i][L] = "LF" PROVE FALSE
      BY <2>2
    <3> DEFINE T == Total(recv_buffer, q)
    <3>1. b = <<i, L>>
      BY <2>5, <2>8
    <3>2. T \in Nat /\ l + 1 <= T /\ At(recv_buffer, q, l + 1) = b
      BY <2>2, UnreadPop
    <3>3. L \in Nat /\ L > 0 /\ Arrived(i) \in Nat /\ Arrived(i) <= L /\ pos \in Nat
      BY <2>6, LineShape
    <3>4. b # NulByte /\ Sent(b, sent, pos)
      <4>1. b # NulByte
        BY <1>1, <2>6, <3>1 DEF NulByte
      <4> QED
        BY <2>3, <4>1
    <3>5. Arrived(i) = L
      BY <1>1, <2>6, <3>1, <3>3, <3>4 DEF Sent, Arrived
    <3>6. Intact(i) /\ ~Taken(i)
      <4>1. l + 1 \in 1 .. T /\ b[1] = i
        BY <1>3, <3>1, <3>2
      <4>2. ~Taken(i)
        BY <2>6, <3>2, <4>1, TakenIsGone
      <4> QED
        BY <2>6, <3>3, <3>5, <4>2 DEF Intact
    <3> PICK d \in 0 .. T : Waits(i, d)
      BY <2>6, <3>6 DEF LineInv
    <3>7. /\ d + L <= T /\ \A x \in 1 .. L : At(recv_buffer, q, d + x) = <<i, x>>
      BY <3>5 DEF Waits, Run
    <3>8. d + L = l + 1
      <4>1. l + 1 \in 1 .. T /\ d + L \in 1 .. T /\ At(recv_buffer, q, d + L) = b
        <5>1. L \in 1 .. L /\ d \in Nat
          BY <3>2, <3>3
        <5>2. At(recv_buffer, q, d + L) = b
          BY <3>1, <3>7, <5>1
        <5> HIDE DEF L, l, T
        <5>3. l + 1 \in 1 .. T /\ d + L \in 1 .. T
          BY <1>3, <3>2, <3>3, <3>7, <5>1 DEF l
        <5> QED
          BY <5>2, <5>3
      <4>2. ~Before(b, b)
        <5>1. b[1] = i /\ b[2] = L
          BY <3>1
        <5> QED
          BY <1>1, <2>6, <3>3, <5>1 DEF Before
      <4>3. \A x, y \in 1 .. T :
               (/\ At(recv_buffer, q, x) # NulByte /\ At(recv_buffer, q, y) # NulByte
                /\ x < y) => Before(At(recv_buffer, q, x), At(recv_buffer, q, y))
        BY UnreadSorted
      <4>4. ~(d + L < l + 1) /\ ~(l + 1 < d + L)
        BY <3>2, <3>4, <4>1, <4>2, <4>3
      <4>5. d + L \in Int /\ l + 1 \in Int
        BY <1>3, <3>2, <3>3
      <4> QED
        BY <4>4, <4>5
    <3>9. L > 1 /\ sent[i][L - 1] = "CR" /\ Char(b) = "LF"
      <4>1. sent[i] \in Texts
        BY <2>6, ElementSeq, Zenon DEF TypeInv
      <4>2. L \in 1 .. L
        BY <3>3
      <4>3. Char(b) = sent[b[1]][b[2]] /\ b[1] = i /\ b[2] = L
        BY <3>1, <3>4 DEF Char
      <4> QED
        BY <4>1, <4>2, <4>3
    <3>10. recv_buffer[l] = <<i, L - 1>> /\ l \in 1 .. l
      <4>1. L - 1 \in 1 .. L /\ d + (L - 1) = l /\ l \in 1 .. l
        <5> HIDE DEF L, l, T
        <5> QED
          BY <1>3, <3>2, <3>3, <3>8, <3>9 DEF l
      <4>2. At(recv_buffer, q, l) = <<i, L - 1>>
        BY <3>7, <4>1
      <4> QED
        BY <4>1, <4>2 DEF At
    <3>11. Char(recv_buffer[l]) = "CR"
      <4>1. <<i, L - 1>> # NulByte
        BY <1>1, <2>6 DEF NulByte
      <4>2. Char(<<i, L - 1>>) = sent[i][L - 1]
        BY <4>1 DEF Char
      <4> QED
        BY <3>9, <3>10, <4>2
    <3>12. last_ch = "CR"
      <4>1. ~is_full
        BY <1>3, <2>2, <2>4 DEF ReaderInv
      <4>2. recv_buffer # <<>>
        BY <1>3, <3>10
      <4> QED
        BY <3>11, <4>1, <4>2 DEF ReaderInv
    <3> QED
      BY <2>2, <3>9, <3>12 DEF EndsLine
  <2> QED
    BY <1>3, <2>7, <2>8
<1> QED
  BY <1>5, <1>6

LEMMA NextUrc == TypeInv /\ UrcInv /\ [Next]_vars => UrcInv'
<1> SUFFICES ASSUME TypeInv, UrcInv, [Next]_vars PROVE UrcInv'
  OBVIOUS
<1> DEFINE
      char(b) == IF b = NulByte THEN NoSign ELSE sent'[b[1]][b[2]]
      urc(s) ==
        /\ Len(s) >= 3
        /\ char(s[1]) = "+" /\ char(s[Len(s) - 1]) = "CR" /\ char(s[Len(s)]) = "LF"
<1>1. Len(handed) \in Nat /\ \A x \in 1 .. Len(handed) : handed'[x] = handed[x]
  BY HandedKept
<1>2. ASSUME NEW s, Len(s) \in Nat, Known(s, sent, pos) PROVE urc(s) = get_urc_obj(s)
  <2>1. ASSUME NEW n \in 1 .. Len(s) PROVE char(s[n]) = Char(s[n])
    BY <1>2, <2>1, CharKept DEF Known
  <2>2. CASE Len(s) >= 3
    <3>1. 1 \in 1 .. Len(s) /\ Len(s) - 1 \in 1 .. Len(s) /\ Len(s) \in 1 .. Len(s)
      BY <1>2, <2>2
    <3>2. char(s[1]) = Char(s[1]) /\ char(s[Len(s) - 1]) = Char(s[Len(s) - 1])
          /\ char(s[Len(s)]) = Char(s[Len(s)])
      BY <2>1, <3>1
    <3> HIDE DEF char
    <3> QED
      BY <3>2, Zenon DEF get_urc_obj
  <2>3. CASE ~(Len(s) >= 3)
    BY <2>3, Zenon DEF get_urc_obj
  <2> QED
    BY <2>2, <2>3
<1>3. UrcInv' <=> \A k \in 1 .. Len(handed') : handed'[k].urc = urc(handed'[k].text)
  BY Zenon DEF UrcInv, get_urc_obj, Char
<1> HIDE DEF urc
<1>4. ASSUME NEW k \in 1 .. Len(handed') PROVE handed'[k].urc = urc(handed'[k].text)
  <2>1. CASE k \in 1 .. Len(handed)
    <3>1. handed'[k] = handed[k] /\ Known(handed[k].text, sent, pos) /\ Len(handed[k].text) \in Nat
      <4>1. Len(handed[k].text) \in 1 .. BufSize /\ Known(handed[k].text, sent, pos)
        BY <2>1 DEF TypeInv
      <4> QED
        BY <1>1, <2>1, <4>1
    <3>2. urc(handed[k].text) = get_urc_obj(handed[k].text)
      BY <1>2, <3>1
    <3>3. handed[k].urc = get_urc_obj(handed[k].text)
      BY <2>1 DEF UrcInv
    <3> QED
      BY <3>1, <3>2, <3>3, Zenon
  <2>2. CASE ~(k \in 1 .. Len(handed))
    <3>1. LineDone
      <4>1. handed' # handed
        BY <2>2
      <4> QED
        BY <4>1 DEF Next, SendLine, Receive, at_client_init, ReadChar, LineTooLong, BeginFlush, FlushBlank,
                EndFlush, GetcharTimeout, GetcharDeadline, at_set_end_sign, vars
    <3>2. /\ Len(handed') = Len(handed) + 1
          /\ handed'[Len(handed) + 1].text = Append(recv_buffer, out')
          /\ handed'[Len(handed) + 1].urc = get_urc_obj(Append(recv_buffer, out'))
          /\ Len(Append(recv_buffer, out')) \in Nat /\ Known(Append(recv_buffer, out'), sent, pos)
      BY <3>1, HandedOver
    <3>3. k = Len(handed) + 1
      BY <1>1, <2>2, <3>2
    <3>4. urc(Append(recv_buffer, out')) = get_urc_obj(Append(recv_buffer, out'))
      BY <1>2, <3>2
    <3> QED
      BY <3>2, <3>3, <3>4, Zenon
  <2> QED
    BY <2>1, <2>2
<1> QED
  BY <1>3, <1>4

LEMMA TextIs ==
    ASSUME NEW s \in Seq(Bytes), NEW i, NEW n \in Nat, Len(s) = n,
           \A m \in 1 .. n : s[m] = <<i, m>>
    PROVE  s = [m \in 1 .. n |-> <<i, m>>]
<1>1. s = [m \in 1 .. Len(s) |-> s[m]]
  OBVIOUS
<1> QED
  BY <1>1

LEMMA NextAlone ==
    TypeInv /\ OrderInv /\ LineInv /\ FeedInv /\ AloneInv /\ [Next]_vars => AloneInv'
<1> SUFFICES ASSUME TypeInv, OrderInv, LineInv, FeedInv, AloneInv, [Next]_vars,
                    NEW k \in 1 .. Len(handed'), NEW i \in LinesOf(handed'[k].text),
                    i \notin hurt', sent'[i][Len(sent'[i])] = "LF",
                    \/ i = 1
                    \/ /\ i - 1 \notin hurt'
                       /\ \/ sent'[i - 1][Len(sent'[i - 1])] = "LF"
                          \/ \E x \in 1 .. Len(handed') :
                                handed'[x].text = [n \in 1 .. Len(sent'[i - 1]) |-> <<i - 1, n>>]
             PROVE  handed'[k].text = [n \in 1 .. Len(sent'[i]) |-> <<i, n>>]
  BY DEF AloneInv, Ends, Separated, TextOf, LinesOf
<1>1. Len(handed) \in Nat /\ \A x \in 1 .. Len(handed) : handed'[x] = handed[x]
  BY HandedKept
<1>2. \A x \in 1 .. Len(sent) : sent'[x] = sent[x]
  BY SentKept
<1>3. hurt \subseteq hurt'
  BY DEF Next, SendLine, Receive, at_client_init, ReadChar, LineDone, LineTooLong, BeginFlush, FlushBlank,
         EndFlush, GetcharTimeout, GetcharDeadline, at_set_end_sign, vars, Hurt
<1>4. Len(sent) \in Nat /\ \A x \in 1 .. Len(sent) : Len(sent[x]) \in Nat /\ Len(sent[x]) > 0
  BY LineShape
<1>5. ASSUME ~LineDone PROVE handed' = handed
  BY <1>5 DEF Next, SendLine, Receive, at_client_init, ReadChar, LineTooLong, BeginFlush, FlushBlank,
          EndFlush, GetcharTimeout, GetcharDeadline, at_set_end_sign, vars
<1>6. OrderInv' /\ TypeInv'
  BY NextOrder, NextTypes
<1> DEFINE prev == [n \in 1 .. Len(sent[i - 1]) |-> <<i - 1, n>>]
\* A later text is not the line before one that was handed over.
<1>7. CASE k \in 1 .. Len(handed)
  <2>1. handed'[k] = handed[k] /\ Known(handed[k].text, sent, pos)
    BY <1>1, <1>7 DEF TypeInv
  <2>2. i \in 1 .. Len(sent) /\ i \in LinesOf(handed[k].text)
        /\ \E m \in 1 .. Len(handed[k].text) :
              handed[k].text[m] # NulByte /\ Sent(handed[k].text[m], sent, pos) /\ handed[k].text[m][1] = i
    BY <2>1, LinesOfKnown
  <2> PICK m \in 1 .. Len(handed[k].text) :
         handed[k].text[m] # NulByte /\ Sent(handed[k].text[m], sent, pos) /\ handed[k].text[m][1] = i
    BY <2>2
  <2>3. ASSUME i > 1, NEW x \in 1 .. Len(handed'), handed'[x].text = prev
        PROVE  x \in 1 .. Len(handed)
    <3> SUFFICES ASSUME ~(x \in 1 .. Len(handed)) PROVE FALSE
      OBVIOUS
    <3>1. k \in 1 .. x - 1 /\ Len(handed') \in Nat
      BY <1>1, <1>6, <1>7 DEF TypeInv
    <3>2. AllBefore(handed'[k].text, handed'[x].text)
      BY <1>6, <3>1 DEF OrderInv
    <3>3. i - 1 \in 1 .. Len(sent) /\ 1 \in 1 .. Len(sent[i - 1])
      BY <1>4, <2>2, <2>3
    <3>4. Len(prev) = Len(sent[i - 1]) /\ prev[1] = <<i - 1, 1>> /\ prev[1] # NulByte
      <4>1. <<i - 1, 1>> # NulByte
        BY DEF NulByte
      <4>2. Len(prev) = Len(sent[i - 1])
        BY <1>4, <3>3
      <4> QED
        BY <3>3, <4>1, <4>2
    <3>5. Before(handed[k].text[m], prev[1])
      <4> HIDE DEF prev
      <4> QED
        BY <2>1, <2>3, <3>2, <3>3, <3>4 DEF AllBefore
    <3>6. prev[1][1] = i - 1 /\ prev[1][2] = 1
      BY <3>4
    <3> HIDE DEF prev
    <3> QED
      BY <1>4, <2>2, <3>5, <3>6 DEF Before
  <2>4. Ends(i)
    BY <1>2, <2>2 DEF Ends
  <2>5. i > 1 => Separated(i - 1) /\ i - 1 \notin hurt
    <3> SUFFICES ASSUME i > 1 PROVE Separated(i - 1) /\ i - 1 \notin hurt
      OBVIOUS
    <3>1. i - 1 \in 1 .. Len(sent) /\ sent'[i - 1] = sent[i - 1] /\ i # 1
      BY <1>2, <1>4, <2>2
    <3>2. CASE sent'[i - 1][Len(sent'[i - 1])] = "LF"
      BY <1>3, <3>1, <3>2 DEF Separated
    <3>3. ASSUME NEW x \in 1 .. Len(handed'), handed'[x].text = prev
          PROVE  Separated(i - 1)
      <4>1. x \in 1 .. Len(handed)
        BY <2>3, <3>3
      <4>2. handed[x].text = prev
        BY <1>1, <3>3, <4>1
      <4> QED
        BY <4>1, <4>2 DEF Separated, TextOf
    <3> QED
      BY <1>3, <3>1, <3>2, <3>3
  <2>6. handed[k].text = TextOf(i)
    <3>1. i = 1 \/ i > 1
      BY <1>4, <2>2
    <3> QED
      BY <1>3, <1>7, <2>2, <2>4, <2>5, <3>1 DEF AloneInv
  <2> QED
    BY <1>2, <2>1, <2>2, <2>6 DEF TextOf
<1>8. CASE ~(k \in 1 .. Len(handed))
  <2> DEFINE text == Append(recv_buffer, out')
             l == Len(recv_buffer)
             T == Total(recv_buffer, q)
             L == Len(sent[i])
  <2>1. LineDone
    BY <1>5, <1>8
  <2>2. /\ Len(handed') = Len(handed) + 1 /\ handed'[Len(handed) + 1].text = text
        /\ l \in Nat /\ Len(text) = l + 1 /\ Known(text, sent, pos)
        /\ l + 1 <= T /\ \A m \in 1 .. l + 1 : text[m] = At(recv_buffer, q, m)
        /\ sent' = sent /\ T \in Nat /\ text \in Seq(Bytes)
    <3>1. out' \in Bytes /\ recv_buffer \in Seq(Bytes)
      BY <2>1, PopOf DEF LineDone, TypeInv
    <3>2. text \in Seq(Bytes)
      BY <3>1
    <3> HIDE DEF text
    <3> QED
      BY <2>1, <3>2, HandedOver, UnreadSorted DEF text
  <2>3. \A m \in 1 .. l : recv_buffer[m] = At(recv_buffer, q, m)
    BY DEF At
  <2> HIDE DEF text, l, T
  <2>4. k = Len(handed) + 1 /\ handed'[k].text = text
    BY <1>1, <1>8, <2>2
  <2>5. i \in 1 .. Len(sent) /\ \E m \in 1 .. l + 1 : text[m][1] = i
    <3>1. i \in LinesOf(text)
      BY <2>4
    <3> QED
      BY <2>2, <3>1, LinesOfKnown
  <2> PICK w \in 1 .. l + 1 : At(recv_buffer, q, w)[1] = i /\ text[w][1] = i
    BY <2>2, <2>5
  <2>6. /\ Intact(i) /\ Arrived(i) = L
        /\ \E d \in 0 .. T : Waits(i, d) /\ d + Arrived(i) <= l + 1
    BY <2>1, <2>5, WholeLines DEF l, T
  <2> PICK d \in 0 .. T : Waits(i, d) /\ d + Arrived(i) <= l + 1
    BY <2>6
  <2>7. L \in Nat /\ L > 0 /\ d \in Nat /\ L \in 1 .. L
    BY <1>4, <2>2, <2>5
  <2>8. \A n \in 1 .. L : At(recv_buffer, q, d + n) = <<i, n>>
    BY <2>6 DEF Waits, Run
  <2>9. d + L = l + 1
    <3> SUFFICES ASSUME d + L <= l PROVE FALSE
      <4> HIDE DEF L
      <4> QED
        BY <2>2, <2>6, <2>7
    <3>1. d + L \in 1 .. l
      BY <2>2, <2>7
    <3>2. recv_buffer[d + L] = <<i, L>>
      BY <2>3, <2>7, <2>8, <3>1
    <3>3. In(<<i, L>>, recv_buffer)
      BY <3>1, <3>2 DEF In, l
    <3> QED
      BY <1>3, <2>2, <2>5, <3>3 DEF FeedInv
  <2>10. d = 0
    <3> SUFFICES ASSUME d > 0 PROVE FALSE
      BY <2>7
    <3>1. i > 1 /\ i # 1
      BY <1>4, <2>5 DEF Waits
    <3>2. i - 1 \in 1 .. Len(sent) /\ i - 1 \notin hurt
      BY <1>3, <1>4, <2>5, <3>1
    <3>3. At(recv_buffer, q, d) = <<i - 1, Len(sent[i - 1])>>
      BY <2>7, <3>1, <3>2 DEF Waits
    <3>4. d \in 1 .. l /\ recv_buffer[d] = <<i - 1, Len(sent[i - 1])>>
      BY <2>2, <2>3, <2>7, <2>9, <3>3
    <3>5. In(<<i - 1, Len(sent[i - 1])>>, recv_buffer)
      BY <3>4 DEF In, l
    <3>6. sent[i - 1][Len(sent[i - 1])] # "LF"
      BY <3>2, <3>5 DEF FeedInv
    <3> PICK x \in 1 .. Len(handed') : handed'[x].text = prev
      BY <2>2, <3>1, <3>6
    <3>7. /\ Len(prev) = Len(sent[i - 1])
          /\ \A n \in 1 .. Len(sent[i - 1]) : prev[n] = <<i - 1, n>>
      BY <1>4, <3>2
    <3> HIDE DEF prev
    <3>8. CASE x = Len(handed) + 1
      <4>1. text = prev
        BY <2>2, <3>8
      <4>2. w \in 1 .. Len(sent[i - 1]) /\ prev[w][1] = i - 1
        BY <2>2, <3>7, <4>1
      <4> QED
        BY <1>4, <2>5, <4>1, <4>2
    <3>9. CASE x \in 1 .. Len(handed)
      <4>1. handed[x].text = prev
        BY <1>1, <3>9
      <4>2. AllBefore(prev, recv_buffer)
        BY <3>9, <4>1 DEF OrderInv
      <4> DEFINE b == <<i - 1, Len(sent[i - 1])>>
      <4>3. Len(sent[i - 1]) \in 1 .. Len(prev) /\ prev[Len(sent[i - 1])] = b /\ recv_buffer[d] = b
        BY <1>4, <3>2, <3>4, <3>7
      <4>4. b # NulByte /\ b[1] = i - 1 /\ b[2] = Len(sent[i - 1])
        BY <1>4, <3>2 DEF NulByte
      <4> HIDE DEF b
      <4>5. Before(b, b)
        <5>1. d \in 1 .. Len(recv_buffer)
          BY <3>4 DEF l
        <5> DEFINE e == Len(sent[i - 1])
        <5> HIDE DEF e
        <5>2. e \in 1 .. Len(prev) /\ prev[e] = b
          BY <4>3 DEF e
        <5>3. prev[e] # NulByte /\ recv_buffer[d] # NulByte /\ recv_buffer[d] = b
          BY <4>3, <4>4, <5>2
        <5>4. Before(prev[e], recv_buffer[d])
          BY <4>2, <5>1, <5>2, <5>3, Zenon DEF AllBefore
        <5> QED
          BY <5>2, <5>3, <5>4
      <4> QED
        BY <1>4, <2>5, <3>2, <4>4, <4>5 DEF Before
    <3>10. Len(handed') = Len(handed) + 1 /\ Len(handed) \in Nat
      BY <1>1, <2>2
    <3>11. x = Len(handed) + 1 \/ x \in 1 .. Len(handed)
      BY <3>10
    <3> QED
      BY <3>8, <3>9, <3>11, Zenon
  <2>11. Len(text) = L /\ \A n \in 1 .. L : text[n] = <<i, n>>
    <3>1. L = l + 1
      BY <2>2, <2>7, <2>9, <2>10
    <3> HIDE DEF L
    <3>2. \A n \in 1 .. L : 0 + n = n
      BY <2>7
    <3> QED
      BY <2>2, <2>8, <2>10, <3>1, <3>2
  <2>12. text = [n \in 1 .. L |-> <<i, n>>]
    <3> HIDE DEF L
    <3> QED
      <4>1. \A s \in Seq(Bytes) : \A n \in Nat :
               (Len(s) = n /\ \A m \in 1 .. n : s[m] = <<i, m>>) => s = [m \in 1 .. n |-> <<i, m>>]
        BY TextIs
      <4> QED
        BY <2>2, <2>7, <2>11, <4>1
  <2> QED
    BY <2>2, <2>4, <2>12
<1> QED
  BY <1>7, <1>8

\* When neither a line nor the one before it is damaged, the parser is handed
\* that very line, once, and as a URC exactly if it is one.
THEOREM DamageStaysLocal == Spec => []DamageIsLocal
<1> DEFINE IInv == /\ TypeInv /\ OrderInv /\ ReaderInv /\ LineInv
                   /\ FeedInv /\ AloneInv /\ UrcInv
<1>1. IInv => DamageIsLocal
  <2> SUFFICES ASSUME IInv, NEW i \in 1 .. Len(sent), Consumed(i), ~Damaged(i), Separated(i),
                      i = 1 \/ (~Damaged(i - 1) /\ Separated(i - 1))
               PROVE  \E k \in 1 .. Len(handed) :
                        /\ handed[k] = [text |-> TextOf(i),
                                        urc |-> sent[i][1] = "+" /\ sent[i][Len(sent[i])] = "LF"]
                        /\ \A j \in 1 .. Len(handed) \ {k} : i \notin LinesOf(handed[j].text)
    BY DEF DamageIsLocal
  <2> USE LineAssumption, TextAssumption
  <2> DEFINE L == Len(sent[i])
  <2>1. /\ Len(sent) \in Nat /\ L \in Nat /\ L > 0 /\ pos \in Nat
    BY LineShape
  <2>2. /\ Len(recv_buffer) \in Nat /\ Len(q) \in Nat /\ handed \in Seq([text : Seq(Bytes), urc : BOOLEAN])
        /\ Len(handed) \in Nat
    BY DEF TypeInv
  <2>3. i \notin hurt /\ Arrived(i) = L /\ Intact(i)
    BY <2>1 DEF Consumed, Damaged, Arrived, Intact
  <2>4. Taken(i)
    <3> SUFFICES ASSUME NEW d \in 0 .. Total(recv_buffer, q), Waits(i, d) PROVE FALSE
      BY <2>3 DEF LineInv
    <3>1. d + L <= Total(recv_buffer, q) /\ At(recv_buffer, q, d + 1) = <<i, 1>>
      BY <2>1, <2>3 DEF Waits, Run
    <3>2. d \in Nat
      BY <2>2 DEF Total
    <3>3. i # 0 /\ <<i, 1>>[1] = i
      BY <2>1
    <3>4. CASE d + 1 \in 1 .. Len(recv_buffer)
      <4>1. recv_buffer[d + 1] = <<i, 1>>
        BY <3>1, <3>4 DEF At
      <4>2. i \in LinesOf(recv_buffer)
        BY <3>3, <3>4, <4>1 DEF LinesOf
      <4> QED
        BY <4>2 DEF Consumed
    <3>5. CASE ~(d + 1 \in 1 .. Len(recv_buffer))
      <4>1. (d + 1) - Len(recv_buffer) \in 1 .. Len(q) /\ q[(d + 1) - Len(recv_buffer)] = <<i, 1>>
        BY <2>1, <2>2, <3>1, <3>2, <3>5 DEF At, Total
      <4>2. i \in LinesOf(q)
        BY <3>3, <4>1 DEF LinesOf
      <4> QED
        BY <4>2 DEF Consumed
    <3> QED
      BY <3>4, <3>5
  <2>5. \E k \in 1 .. Len(handed) : handed[k].text = TextOf(i)
    <3>1. CASE Ends(i)
      <4> PICK k \in 1 .. Len(handed) : \A n \in 1 .. Len(sent[i]) : In(<<i, n>>, handed[k].text)
        BY <2>4 DEF Taken
      <4>1. 1 \in 1 .. Len(sent[i]) /\ <<i, 1>>[1] = i /\ i # 0
        BY <2>1
      <4>2. i \in LinesOf(handed[k].text)
        BY <4>1 DEF In, LinesOf
      <4>3. handed[k].text = TextOf(i)
        BY <2>3, <3>1, <4>2 DEF AloneInv, Damaged
      <4> QED
        BY <4>3
    <3>2. CASE ~Ends(i)
      BY <3>2 DEF Separated, Ends
    <3> QED
      BY <3>1, <3>2
  <2> PICK k \in 1 .. Len(handed) : handed[k].text = TextOf(i)
    BY <2>5
  <2>6. Len(TextOf(i)) = L /\ \A n \in 1 .. L : TextOf(i)[n] = <<i, n>>
    BY <2>1 DEF TextOf
  <2>7. get_urc_obj(TextOf(i)) <=> (sent[i][1] = "+" /\ sent[i][L] = "LF")
    <3>1. ASSUME NEW n \in 1 .. L PROVE Char(TextOf(i)[n]) = sent[i][n]
      <4>1. <<i, n>> # NulByte /\ <<i, n>>[1] = i /\ <<i, n>>[2] = n
        BY <2>1 DEF NulByte
      <4> QED
        BY <2>6, <4>1 DEF Char
    <3>2. sent[i] \in Texts /\ 1 \in 1 .. L /\ L \in 1 .. L
      <4>1. sent[i] \in Texts
        BY ElementSeq, Zenon DEF TypeInv
      <4> QED
        BY <2>1, <4>1
    <3>3. CASE L >= 3
      <4>1. L - 1 \in 1 .. L
        BY <2>1, <3>3
      <4>2. sent[i][L] = "LF" => sent[i][L - 1] = "CR"
        BY <3>2
      <4>3. get_urc_obj(TextOf(i)) <=> sent[i][1] = "+" /\ sent[i][L - 1] = "CR" /\ sent[i][L] = "LF"
        BY <2>6, <3>1, <3>2, <3>3, <4>1 DEF get_urc_obj
      <4> QED
        BY <4>2, <4>3
    <3>4. CASE ~(L >= 3)
      <4>1. ~get_urc_obj(TextOf(i))
        BY <2>6, <3>4 DEF get_urc_obj
      <4>2. ~(sent[i][1] = "+" /\ sent[i][L] = "LF")
        <5> SUFFICES ASSUME sent[i][1] = "+", sent[i][L] = "LF" PROVE FALSE
          OBVIOUS
        <5>1. L > 1 /\ sent[i][L - 1] = "CR"
          BY <3>2
        <5>2. L = 2
          BY <2>1, <3>4, <5>1
        <5> QED
          BY <5>1, <5>2
      <4> QED
        BY <4>1, <4>2
    <3> QED
      BY <3>3, <3>4
  <2>8. handed[k] = [text |-> TextOf(i), urc |-> sent[i][1] = "+" /\ sent[i][L] = "LF"]
    <3>1. handed[k].urc = get_urc_obj(TextOf(i))
      BY DEF UrcInv
    <3>2. handed[k] \in [text : Seq(Bytes), urc : BOOLEAN]
      BY <2>2, ElementSeq, Zenon
    <3>3. handed[k] = [text |-> handed[k].text, urc |-> handed[k].urc]
      BY <3>2
    <3>4. handed[k].urc = (sent[i][1] = "+" /\ sent[i][L] = "LF")
      <4>1. handed[k].urc = TRUE \/ handed[k].urc = FALSE
        BY <3>2
      <4>2. CASE sent[i][1] = "+" /\ sent[i][L] = "LF"
        BY <2>7, <3>1, <4>1, <4>2
      <4>3. CASE ~(sent[i][1] = "+" /\ sent[i][L] = "LF")
        BY <2>7, <3>1, <4>1, <4>3
      <4> QED
        BY <4>2, <4>3
    <3> QED
      BY <3>3, <3>4, Zenon
  <2>9. ASSUME NEW j \in 1 .. Len(handed) \ {k}, i \in LinesOf(handed[j].text) PROVE FALSE
    <3>1. Known(handed[j].text, sent, pos)
      BY DEF TypeInv
    <3> PICK m \in 1 .. Len(handed[j].text) :
           /\ handed[j].text[m] # NulByte /\ Sent(handed[j].text[m], sent, pos)
           /\ handed[j].text[m][1] = i
      BY <2>9, <3>1, LinesOfKnown
    <3> DEFINE b == handed[j].text[m]
    <3>2. b = <<i, b[2]>> /\ b[2] \in 1 .. L /\ b[1] = i
      BY DEF Sent
    <3>3. handed[k].text[b[2]] = b /\ b[2] \in 1 .. Len(handed[k].text)
      BY <2>6, <3>2
    <3>4. j \in 1 .. k - 1 \/ k \in 1 .. j - 1
      BY <2>2
    <3>5. AllBefore(handed[j].text, handed[k].text) \/ AllBefore(handed[k].text, handed[j].text)
      BY <3>4 DEF OrderInv
    <3>6. Before(b, b)
      BY <3>3, <3>5 DEF AllBefore
    <3> QED
      BY <2>1, <3>2, <3>6 DEF Before
  <2> QED
    BY <2>8, <2>9
<1>2. Init => IInv
  BY InitTypes, InitOrder, InitReader, InitLine, InitFeed
<1>3. IInv /\ [Next]_vars => IInv'
  BY NextTypes, NextOrder, NextReader, NextLine, NextFeed, NextAlone, NextUrc
<1> QED
  BY <1>1, <1>2, <1>3, PTL DEF Spec

=============================================================================
