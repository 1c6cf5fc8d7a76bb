----------------------------- MODULE LineReader -----------------------------
(***************************************************************************)
(* How client_parser of src/module_at/at_client.c gets its lines:          *)
(* at_recv_readline pops bytes of the ring one by one (at_client_getchar)  *)
(* until a line ends, while the interrupt pushes the bytes the module      *)
(* sends and a publishing thread changes the end sign.  The ring is        *)
(* ByteFifo, the contract RingBuff is proved to implement.                 *)
(*                                                                         *)
(* A byte is <<i, n>>, the n-th of the i-th line the module sent, so that  *)
(* what is handed to the parser can be compared with what was sent.        *)
(***************************************************************************)
EXTENDS Integers, Sequences

CONSTANTS
    RingSize,   \* the bytes the ring holds: RING_BUFF_LEN - 1
    BufSize,    \* recv_bufsz
    Texts,      \* the lines the module may send
    Faults,     \* "slow": a pause within a line exceeds GET_CHAR_TIMEOUT_MS,
                \* "deadline": the timer runs out as a byte is popped
    MaxLines    \* bound on the lines the module sends

\* Characters: a letter, the first letter of a URC, the prompt of a long
\* publication, carriage return and line feed.
Chars == {"x", "+", ">", "CR", "LF"}
NoSign == "NUL"

ASSUME LineAssumption ==
    /\ RingSize \in Nat \ {0} /\ BufSize \in Nat \ {0} /\ MaxLines \in Nat
    /\ Texts \subseteq Seq(Chars) /\ <<>> \notin Texts

\* What the module calls a line ends with CR LF; a prompt has neither.
ASSUME TextAssumption ==
    \A t \in Texts : \A n \in 1 .. Len(t) :
        t[n] = "LF" => n = Len(t) /\ n > 1 /\ t[n - 1] = "CR"

VARIABLES
    q, out, rc, open, flushing,     \* the ring
    rpc,                            \* place of the parser thread
    recv_buffer, last_ch, is_full,  \* at_recv_readline; cur_recv_len is the length
    end_sign,                       \* client->end_sign
    sent, pos,                      \* lines sent, bytes of the last one sent
    handed,                         \* what was handed to the parser, oldest first
    hurt                            \* lines that lost a byte, were cut or did not fit

ringVars == <<q, out, rc, open, flushing>>
readerVars == <<rpc, recv_buffer, last_ch, is_full>>
vars == <<ringVars, readerVars, end_sign, sent, pos, handed, hurt>>

NulByte == <<0, 0>>
ByteIds == (1 .. MaxLines) \X Nat

Ring == INSTANCE ByteFifo WITH
            Capacity <- RingSize, Bytes <- ByteIds, Zero <- NulByte

Char(b) == IF b = NulByte THEN NoSign ELSE sent[b[1]][b[2]]

\* The lines some byte of s belongs to, marked as damaged.
LinesOf(s) == {s[k][1] : k \in 1 .. Len(s)} \ {0}
Hurt(lines) == hurt' = hurt \cup lines

\* The module is between two lines.
BetweenLines == IF sent = <<>> THEN TRUE ELSE pos = Len(sent[Len(sent)])

Init ==
    /\ Ring!Init
    /\ rpc = "off"
    /\ recv_buffer = <<>> /\ last_ch = NoSign /\ is_full = FALSE
    /\ end_sign = NoSign
    /\ sent = <<>> /\ pos = 0
    /\ handed = <<>>
    /\ hurt = {}

-----------------------------------------------------------------------------
(* The module, and the interrupt that takes its bytes.                     *)

SendLine ==
    /\ Len(sent) < MaxLines
    /\ BetweenLines
    /\ \E t \in Texts : sent' = Append(sent, t)
    /\ pos' = 0
    /\ UNCHANGED <<ringVars, readerVars, end_sign, handed, hurt>>

NextByte == <<Len(sent), pos + 1>>

\* A line is sent without a pause unless the module may be slow, and a pause
\* then begins a timeout of the reader (GetcharTimeout).
Receive ==
    /\ ~BetweenLines
    /\ pos' = pos + 1
    /\ \/ Ring!Push(NextByte) /\ UNCHANGED hurt
       \/ Ring!Refuse /\ Hurt({Len(sent)})
       \/ Ring!LostInFlush /\ Hurt({Len(sent)})
    /\ UNCHANGED <<readerVars, end_sign, sent, handed>>

-----------------------------------------------------------------------------
(* at_client_init, then the parser thread: at_recv_readline over and over. *)

\* The ring exists before the thread that reads it.
at_client_init ==
    /\ rpc = "off"
    /\ Ring!Open
    /\ rpc' = "getchar"
    /\ UNCHANGED <<recv_buffer, last_ch, is_full, end_sign, sent, pos, handed, hurt>>

\* Mutant: it goes on behind what it has read.
Restart_Kept == UNCHANGED <<recv_buffer, last_ch, is_full>>

\* at_recv_readline is called again and forgets what it has read.
Restart == recv_buffer' = <<>> /\ last_ch' = NoSign /\ is_full' = FALSE

\* Mutant: the buffer is one byte longer than its size says.
Stored_Beyond(ch) == IF Len(recv_buffer) <= BufSize THEN Append(recv_buffer, ch) ELSE recv_buffer

Stored(ch) == IF Len(recv_buffer) < BufSize THEN Append(recv_buffer, ch) ELSE recv_buffer

\* Mutant: the suffix is not looked at.
get_urc_obj_PrefixOnly(text) == Len(text) >= 1 /\ Char(text[1]) = "+"

\* get_urc_obj: the received text begins like an entry of urc_table and ends
\* with its suffix, which is CR LF for all of them.
get_urc_obj(text) ==
    /\ Len(text) >= 3
    /\ Char(text[1]) = "+"
    /\ Char(text[Len(text) - 1]) = "CR" /\ Char(text[Len(text)]) = "LF"

EndsLine(b) ==
    \/ Char(b) = "LF" /\ last_ch = "CR"
    \/ end_sign # NoSign /\ Char(b) = end_sign
    \/ get_urc_obj(Stored(b))

ReadChar ==
    /\ rpc = "getchar"
    /\ Ring!Pop
    /\ ~EndsLine(out')
    /\ recv_buffer' = Stored(out')
    /\ is_full' = (is_full \/ Len(recv_buffer) >= BufSize)
    /\ last_ch' = Char(out')
    /\ Hurt(IF Len(recv_buffer) < BufSize THEN {} ELSE LinesOf(<<out'>>))
    /\ UNCHANGED <<rpc, end_sign, sent, pos, handed>>

\* The line is complete: client_parser runs the handler of the URC or looks
\* whether a response waits for the line.  Whatever the end sign cuts off of
\* a line comes as another line.
LineDone ==
    /\ rpc = "getchar"
    /\ Ring!Pop
    /\ EndsLine(out')
    /\ ~is_full /\ Len(recv_buffer) < BufSize
    /\ handed' = Append(handed, [text |-> Stored(out'), urc |-> get_urc_obj(Stored(out'))])
    /\ Hurt(IF end_sign # NoSign /\ Char(out') = end_sign /\ out'[2] < Len(sent[out'[1]])
            THEN {out'[1]} ELSE {})
    /\ Restart
    /\ UNCHANGED <<rpc, end_sign, sent, pos>>

\* The line did not fit.
LineTooLong ==
    /\ rpc = "getchar"
    /\ Ring!Pop
    /\ EndsLine(out')
    /\ is_full \/ Len(recv_buffer) >= BufSize
    /\ Hurt(LinesOf(Append(recv_buffer, out')))
    /\ rpc' = "flush"
    /\ UNCHANGED <<recv_buffer, last_ch, is_full, end_sign, sent, pos, handed>>

\* memset of the buffer, then ring_buff_flush, which the interrupt interleaves.
BeginFlush ==
    /\ rpc = "flush"
    /\ Ring!BeginFlush
    /\ Hurt(LinesOf(q))
    /\ rpc' = "flushing"
    /\ recv_buffer' = <<>>
    /\ UNCHANGED <<last_ch, is_full, end_sign, sent, pos, handed>>

FlushBlank ==
    /\ rpc = "flushing"
    /\ Ring!Blank
    /\ Hurt({q[k][1] : k \in {n \in 1 .. Len(q) : q[n] # q'[n]}} \ {0})
    /\ UNCHANGED <<readerVars, end_sign, sent, pos, handed>>

EndFlush ==
    /\ rpc = "flushing"
    /\ Ring!EndFlush
    /\ rpc' = "getchar"
    /\ Restart
    /\ UNCHANGED <<end_sign, sent, pos, handed, hurt>>

\* Mutant: the reader waits for the rest of a line it has begun.
GetcharTimeout_OnlyEmpty ==
    /\ rpc = "getchar"
    /\ q = <<>> /\ recv_buffer = <<>>
    /\ "slow" \in Faults \/ BetweenLines
    /\ UNCHANGED vars

\* at_client_getchar times out: at_recv_readline returns and what it has read
\* is forgotten when it is called again.
GetcharTimeout ==
    /\ rpc = "getchar"
    /\ q = <<>>
    /\ "slow" \in Faults \/ BetweenLines
    /\ Hurt(LinesOf(recv_buffer))
    /\ Restart
    /\ UNCHANGED <<ringVars, rpc, end_sign, sent, pos, handed>>

\* at_client_getchar reads the timer again after it has popped a byte.
GetcharDeadline ==
    /\ "deadline" \in Faults
    /\ rpc = "getchar"
    /\ Ring!Pop
    /\ Hurt(LinesOf(Append(recv_buffer, out')))
    /\ Restart
    /\ UNCHANGED <<rpc, end_sign, sent, pos, handed>>

\* A publishing thread, in module_mqtt_publ.
at_set_end_sign ==
    /\ rpc # "off"
    /\ end_sign' \in {NoSign, ">"} \ {end_sign}
    /\ UNCHANGED <<ringVars, readerVars, sent, pos, handed, hurt>>

Next ==
    \/ SendLine
    \/ Receive
    \/ at_client_init
    \/ ReadChar
    \/ LineDone
    \/ LineTooLong
    \/ BeginFlush
    \/ FlushBlank
    \/ EndFlush
    \/ GetcharTimeout
    \/ GetcharDeadline
    \/ at_set_end_sign

Spec == Init /\ [][Next]_vars

Reader ==
    \/ at_client_init
    \/ ReadChar
    \/ LineDone
    \/ LineTooLong
    \/ BeginFlush
    \/ EndFlush
    \/ GetcharTimeout

\* The scheduler runs the parser thread, and a line begun is sent to its end.
FairSpec == Spec /\ WF_vars(Reader) /\ WF_vars(Receive)

-----------------------------------------------------------------------------
(* Properties.                                                             *)

TextOf(i) == [n \in 1 .. Len(sent[i]) |-> <<i, n>>]

Damaged(i) == i \in hurt

\* A line that ends, or a prompt that was taken for one.
Separated(i) ==
    \/ sent[i][Len(sent[i])] = "LF"
    \/ \E k \in 1 .. Len(handed) : handed[k].text = TextOf(i)

\* Line i has nothing left to arrive or to be read.
Consumed(i) ==
    /\ i < Len(sent) \/ pos = Len(sent[i])
    /\ i \notin LinesOf(q)
    /\ i \notin LinesOf(recv_buffer)

\* Type invariant: the received bytes fit recv_buffer and the parser's write to
\* recv_buffer[cur_recv_len - 1] is inside it, whatever the module sends
\* (src/module_at/at_client.c:669, :735).
TypeOK ==
    /\ rpc \in {"off", "getchar", "flush", "flushing"}
    /\ Len(q) <= RingSize
    /\ Len(recv_buffer) <= BufSize
    /\ last_ch \in Chars \cup {NoSign}
    /\ is_full \in BOOLEAN
    /\ end_sign \in {NoSign, ">"}
    /\ \A k \in 1 .. Len(handed) : Len(handed[k].text) \in 1 .. BufSize

\* Damage stays where it happens: when neither a line nor the one before it
\* lost a byte, was cut or did not fit, at_recv_readline hands the parser that
\* very line, once, and as a URC exactly if it is one.
DamageIsLocal == \A i \in 1 .. Len(sent) :
    (/\ Consumed(i) /\ ~Damaged(i) /\ Separated(i)
     /\ i = 1 \/ (~Damaged(i - 1) /\ Separated(i - 1)))
    => \E k \in 1 .. Len(handed) :
          /\ handed[k] = [text |-> TextOf(i),
                          urc |-> sent[i][1] = "+" /\ sent[i][Len(sent[i])] = "LF"]
          /\ \A j \in 1 .. Len(handed) \ {k} : i \notin LinesOf(handed[j].text)

\* What the parser is handed is what was sent: bytes come in their order and
\* none of them twice, across flushes, timeouts and cut lines, none is made up
\* but the NULs of a flush, and a line is never silently shortened, for a line
\* that is handed over in part is known to be damaged
\* (src/module_at/at_client.c:672-690 drops a line that does not fit).
HandedAsSent ==
    /\ \A j, k \in 1 .. Len(handed) :
         \A m \in 1 .. Len(handed[j].text), n \in 1 .. Len(handed[k].text) :
            LET a == handed[j].text[m] b == handed[k].text[n] IN
            (a # NulByte /\ b # NulByte /\ (j < k \/ (j = k /\ m < n)))
            => (a[1] < b[1] \/ (a[1] = b[1] /\ a[2] < b[2]))
    /\ \A k \in 1 .. Len(handed) : \A i \in LinesOf(handed[k].text) :
         Damaged(i) \/ \A n \in 1 .. Len(sent[i]) : \E m \in 1 .. Len(handed[k].text) :
                          handed[k].text[m] = <<i, n>>

\* A line that has been sent completely is handed over, or lost for one of the
\* recorded reasons: the reader never waits for ever with a line in the ring,
\* even if the module says nothing more.
LineArrives == \A i \in 1 .. MaxLines :
    (Len(sent) > i \/ (Len(sent) = i /\ BetweenLines))
    ~> (Damaged(i) \/ \E k \in 1 .. Len(handed) : i \in LinesOf(handed[k].text))

=============================================================================
