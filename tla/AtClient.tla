------------------------------ MODULE AtClient ------------------------------
(***************************************************************************)
(* The AT client of src/module_at/at_client.c: application threads that    *)
(* execute commands under client->lock, the parser thread that feeds the   *)
(* pending response without taking that lock, and the module at the other  *)
(* end of the UART, which answers the commands it receives in order.       *)
(*                                                                         *)
(* A received line is abstracted to the command it answers and its kind.   *)
(* Steps are split wherever another thread may run between two accesses to *)
(* the shared fields of sg_at_client.                                      *)
(***************************************************************************)
EXTENDS Integers, Sequences

CONSTANTS
    Callers,    \* application threads
    None,       \* the NULL pointer, and the free mutex
    Ops,        \* the calls they make: "exec", "wait_connect"
    LineNums,   \* the line_num arguments of at_create_resp
    BufSize,    \* resp->buf_size, counted in lines
    Faults,     \* what may go wrong: "lost", "partial", "late", "no_memory"
    MaxData,    \* bound on the data lines of one answer
    MaxUrcs,    \* bound on the unsolicited lines
    MaxCmds     \* no call and no repetition begins once this many were sent

ASSUME AtAssumption ==
    /\ None \notin Callers
    /\ Ops \subseteq {"exec", "wait_connect"}
    /\ LineNums \subseteq Nat
    /\ BufSize \in Nat /\ MaxData \in Nat /\ MaxUrcs \in Nat /\ MaxCmds \in Nat

VARIABLES
    lock, resp, resp_status, resp_notice,   \* the fields of sg_at_client
    obj,                                    \* obj[c]: the at_response of c's call
    ppc, line, resp_buf_len, line_counts,   \* client_parser: place and locals
    pc, op, cmd, expired, result,           \* the callers: place and locals
    inbox, said, uart, urcs,                \* the module and the line to it
    crashed                                 \* a NULL or freed pointer was used

clientVars == <<lock, resp, resp_status, resp_notice>>
parserVars == <<ppc, line, resp_buf_len, line_counts>>
callerVars == <<pc, op, cmd, expired, result>>
moduleVars == <<inbox, said, uart, urcs>>
vars == <<clientVars, obj, parserVars, callerVars, moduleVars, crashed>>

Finals == {"ok", "error"}
Kinds == Finals \cup {"data", "urc"}
Lines == [cmd : Nat, kind : Kinds]
Blank == [cmd |-> 0, kind |-> "data"]       \* what malloc left in resp->buf

Fresh(n) ==
    [alive |-> TRUE, line_num |-> n, line_counts |-> 0,
     buf |-> [i \in 0 .. BufSize - 1 |-> Blank]]

Freed == [Fresh(0) EXCEPT !.alive = FALSE]

Init ==
    /\ lock = None
    /\ resp = None
    /\ resp_status = "OK"
    /\ resp_notice = FALSE
    /\ obj = [c \in Callers |-> Freed]
    /\ ppc = "read"
    /\ line = Blank
    /\ resp_buf_len = 0
    /\ line_counts = 0
    /\ pc = [c \in Callers |-> "idle"]
    /\ op = [c \in Callers |-> "exec"]
    /\ cmd = [c \in Callers |-> 0]
    /\ expired = [c \in Callers |-> FALSE]
    /\ result = [c \in Callers |-> "SUCCESS"]
    /\ inbox = <<>>
    /\ said = <<>>
    /\ uart = <<>>
    /\ urcs = 0
    /\ crashed = FALSE

Goto(c, from, to) == ~crashed /\ pc[c] = from /\ pc' = [pc EXCEPT ![c] = to]

ParserGoto(from, to) == ~crashed /\ ppc = from /\ ppc' = to

-----------------------------------------------------------------------------
(* at_create_resp, then at_obj_exec_cmd or at_client_wait_connect.  Only   *)
(* the latter checks that it got a response object.                        *)

Call(c) ==
    /\ Len(said) < MaxCmds
    /\ \E o \in Ops, n \in LineNums, alive \in BOOLEAN :
          /\ alive \/ "no_memory" \in Faults
          /\ o = "wait_connect" => n = 0 /\ alive
          /\ op' = [op EXCEPT ![c] = o]
          /\ obj' = [obj EXCEPT ![c] = [Fresh(n) EXCEPT !.alive = alive]]
    /\ Goto(c, "idle", "lock")
    /\ UNCHANGED <<clientVars, parserVars, cmd, expired, result, moduleVars, crashed>>

TakeLock(c) ==
    /\ lock = None
    /\ lock' = c
    /\ Goto(c, "lock", IF op[c] = "exec" THEN "prepare" ELSE "w_prepare")
    /\ UNCHANGED <<resp, resp_status, resp_notice, obj, parserVars,
                   op, cmd, expired, result, moduleVars, crashed>>

\* at_obj_exec_cmd writes resp->line_counts before it looks whether resp is
\* NULL.
Prepare(c) ==
    /\ IF obj[c].alive
       THEN /\ Goto(c, "prepare", "send")
            /\ obj' = [obj EXCEPT ![c].line_counts = 0]
            /\ resp_status' = "OK"
            /\ resp' = c
            /\ UNCHANGED crashed
       ELSE /\ Goto(c, "prepare", "prepare")
            /\ crashed' = TRUE
            /\ UNCHANGED <<obj, resp_status, resp>>
    /\ UNCHANGED <<lock, resp_notice, parserVars, op, cmd, expired, result, moduleVars>>

\* A command goes out on the UART; nothing has been said for it yet.
Transmit(c) ==
    /\ said' = Append(said, <<>>)
    /\ cmd' = [cmd EXCEPT ![c] = Len(said')]
    /\ inbox' = Append(inbox, Len(said'))
    /\ UNCHANGED <<uart, urcs>>

Send(c) ==
    /\ Goto(c, "send", "poll")
    /\ Transmit(c)
    /\ expired' = [expired EXCEPT ![c] = FALSE]
    /\ UNCHANGED <<clientVars, obj, parserVars, op, result, crashed>>

\* Mutant: the status is handed to the caller as it is.
PollNotice_RawStatus(c) ==
    /\ resp_notice
    /\ result' = [result EXCEPT ![c] = resp_status]
    /\ Goto(c, "poll", IF resp_status # "OK" THEN "clear_resp" ELSE "expiry")
    /\ UNCHANGED <<clientVars, obj, parserVars, op, cmd, expired, moduleVars, crashed>>

\* Mutant: a failed command returns without the clean-up at __exit.
PollNotice_EarlyReturn(c) ==
    /\ resp_notice
    /\ IF resp_status # "OK"
       THEN /\ result' = [result EXCEPT ![c] = "FAILURE"]
            /\ Goto(c, "poll", "return")
       ELSE /\ Goto(c, "poll", "expiry")
            /\ UNCHANGED result
    /\ UNCHANGED <<clientVars, obj, parserVars, op, cmd, expired, moduleVars, crashed>>

PollNotice(c) ==
    /\ resp_notice
    /\ IF resp_status # "OK"
       THEN /\ result' = [result EXCEPT ![c] = "FAILURE"]
            /\ Goto(c, "poll", "clear_resp")
       ELSE /\ Goto(c, "poll", "expiry")
            /\ UNCHANGED result
    /\ UNCHANGED <<clientVars, obj, parserVars, op, cmd, expired, moduleVars, crashed>>

PollExpired(c) ==
    /\ ~resp_notice
    /\ expired[c]
    /\ Goto(c, "poll", "expiry")
    /\ UNCHANGED <<clientVars, obj, parserVars, op, cmd, expired, result, moduleVars, crashed>>

\* The timer is read once more after the loop, whatever ended the loop.
CheckExpiry(c) ==
    /\ Goto(c, "expiry", "clear_resp")
    /\ resp_status' = IF expired[c] THEN "TIMEOUT" ELSE resp_status
    /\ result' = [result EXCEPT ![c] = IF expired[c] THEN "TIMEOUT" ELSE "SUCCESS"]
    /\ UNCHANGED <<lock, resp, resp_notice, obj, parserVars, op, cmd, expired,
                   moduleVars, crashed>>

\* Mutant: the response stays attached.
ClearResp_Kept(c) ==
    /\ Goto(c, "clear_resp", "clear_notice")
    /\ UNCHANGED <<clientVars, obj, parserVars, op, cmd, expired, result,
                   moduleVars, crashed>>

ClearResp(c) ==
    /\ Goto(c, "clear_resp", "clear_notice")
    /\ resp' = None
    /\ UNCHANGED <<lock, resp_status, resp_notice, obj, parserVars, op, cmd,
                   expired, result, moduleVars, crashed>>

ClearNotice(c) ==
    /\ Goto(c, "clear_notice", "unlock")
    /\ resp_notice' = FALSE
    /\ UNCHANGED <<lock, resp, resp_status, obj, parserVars, op, cmd, expired,
                   result, moduleVars, crashed>>

Unlock(c) ==
    /\ Goto(c, "unlock", "return")
    /\ lock' = None
    /\ UNCHANGED <<resp, resp_status, resp_notice, obj, parserVars, op, cmd,
                   expired, result, moduleVars, crashed>>

\* The caller reads the lines it wanted, calls at_delete_resp and leaves the
\* frame of its locals.
Return(c) ==
    /\ Goto(c, "return", "idle")
    /\ obj' = [obj EXCEPT ![c] = Freed]
    /\ cmd' = [cmd EXCEPT ![c] = 0]
    /\ expired' = [expired EXCEPT ![c] = FALSE]
    /\ result' = [result EXCEPT ![c] = "SUCCESS"]
    /\ UNCHANGED <<clientVars, parserVars, op, moduleVars, crashed>>

-----------------------------------------------------------------------------
(* at_client_wait_connect: "AT" is sent again and again until resp_notice  *)
(* or the timer, and the response object is deleted before it is detached. *)

WaitPrepare(c) ==
    /\ Goto(c, "w_prepare", "w_send")
    /\ resp' = c
    /\ obj' = [obj EXCEPT ![c].line_counts = 0]
    /\ expired' = [expired EXCEPT ![c] = FALSE]
    /\ UNCHANGED <<lock, resp_status, resp_notice, parserVars, op, cmd, result,
                   moduleVars, crashed>>

WaitSend(c) ==
    /\ Goto(c, "w_send", "w_check")
    /\ Transmit(c)
    /\ UNCHANGED <<clientVars, obj, parserVars, op, expired, result, crashed>>

WaitCheck(c) ==
    /\ IF resp_notice \/ expired[c]
       THEN Goto(c, "w_check", "w_expiry")
       ELSE Len(said) < MaxCmds /\ Goto(c, "w_check", "w_send")
    /\ UNCHANGED <<clientVars, obj, parserVars, op, cmd, expired, result, moduleVars, crashed>>

WaitExpiry(c) ==
    /\ Goto(c, "w_expiry", "w_delete")
    /\ result' = [result EXCEPT ![c] = IF expired[c] THEN "TIMEOUT" ELSE "SUCCESS"]
    /\ UNCHANGED <<clientVars, obj, parserVars, op, cmd, expired, moduleVars, crashed>>

WaitDelete(c) ==
    /\ Goto(c, "w_delete", "w_clear_resp")
    /\ obj' = [obj EXCEPT ![c] = Freed]
    /\ UNCHANGED <<clientVars, parserVars, op, cmd, expired, result, moduleVars, crashed>>

\* Mutant: the deleted response stays attached.
WaitClearResp_Kept(c) ==
    /\ Goto(c, "w_clear_resp", "unlock")
    /\ UNCHANGED <<clientVars, obj, parserVars, op, cmd, expired, result,
                   moduleVars, crashed>>

WaitClearResp(c) ==
    /\ Goto(c, "w_clear_resp", "unlock")
    /\ resp' = None
    /\ UNCHANGED <<lock, resp_status, resp_notice, obj, parserVars, op, cmd,
                   expired, result, moduleVars, crashed>>

\* Nothing of c's command is on its way to the caller any more.
Quiet(c) ==
    /\ \A i \in 1 .. Len(inbox) : inbox[i] # cmd[c]
    /\ \A i \in 1 .. Len(uart) : uart[i].cmd # cmd[c]
    /\ ppc = "read"
    /\ ~resp_notice

\* The deadline passes: at any time if answers may be late, otherwise only
\* when the answer is not coming.
TimerExpires(c) ==
    /\ pc[c] \in {"poll", "expiry", "w_send", "w_check", "w_expiry"}
    /\ ~expired[c]
    /\ "late" \in Faults \/ (pc[c] \in {"poll", "w_check"} /\ Quiet(c))
    /\ expired' = [expired EXCEPT ![c] = TRUE]
    /\ UNCHANGED <<clientVars, obj, parserVars, pc, op, cmd, result, moduleVars, crashed>>

-----------------------------------------------------------------------------
(* client_parser.  client->resp is read afresh at every use.  Going back   *)
(* to "read" clears recv_buffer, as at_recv_readline does on entry.        *)

Dangling == resp = None \/ ~obj[resp].alive

\* A line is read.  A URC runs its handler, which leaves the response alone.
ReadLine ==
    /\ uart # <<>>
    /\ uart' = Tail(uart)
    /\ IF Head(uart).kind = "urc"
       THEN ParserGoto("read", "read") /\ line' = Blank
       ELSE ParserGoto("read", "check") /\ line' = Head(uart)
    /\ UNCHANGED <<clientVars, obj, resp_buf_len, line_counts, callerVars,
                   inbox, said, urcs, crashed>>

CheckResp ==
    /\ IF resp # None
       THEN ParserGoto("check", "copy") /\ line' = line
       ELSE ParserGoto("check", "read") /\ line' = Blank
    /\ UNCHANGED <<clientVars, obj, resp_buf_len, line_counts, callerVars,
                   moduleVars, crashed>>

Fits == resp_buf_len + 1 < BufSize

CopyLine ==
    /\ ParserGoto("copy", "classify")
    /\ IF Dangling
       THEN /\ crashed' = TRUE
            /\ UNCHANGED <<obj, resp_buf_len, line_counts, resp_status>>
       ELSE /\ UNCHANGED crashed
            /\ IF Fits
               THEN /\ obj' = [obj EXCEPT ![resp].buf[resp_buf_len] = line]
                    /\ resp_buf_len' = resp_buf_len + 1
                    /\ line_counts' = line_counts + 1
                    /\ UNCHANGED resp_status
               ELSE /\ resp_status' = "BUFF_FULL"
                    /\ UNCHANGED <<obj, resp_buf_len, line_counts>>
    /\ UNCHANGED <<lock, resp, resp_notice, line, callerVars, moduleVars>>

\* The status a line gives the response, or "more" if more lines follow.
Verdict(l, n) ==
    IF l.kind = "ok" /\ n = 0 THEN "OK"
    ELSE IF l.kind = "error" THEN "ERROR"
    ELSE IF n # 0 /\ line_counts = n THEN "OK"
    ELSE "more"

\* Mutant: the notice is raised before the line count is stored.
Classify_NoticeFirst ==
    /\ LET v == Verdict(line, obj[resp].line_num) IN
          /\ resp # None
          /\ ParserGoto("classify", IF v = "more" THEN "read" ELSE "store")
          /\ resp_status' = IF v = "more" THEN resp_status ELSE v
          /\ resp_notice' = (v # "more" \/ resp_notice)
          /\ line' = IF v = "more" THEN Blank ELSE line
    /\ UNCHANGED <<lock, resp, obj, resp_buf_len, line_counts, callerVars,
                   moduleVars, crashed>>

Classify ==
    /\ IF Dangling
       THEN /\ ParserGoto("classify", "classify")
            /\ crashed' = TRUE
            /\ UNCHANGED <<line, resp_status>>
       ELSE LET v == Verdict(line, obj[resp].line_num) IN
            /\ UNCHANGED crashed
            /\ IF v = "more"
               THEN /\ ParserGoto("classify", "read")
                    /\ line' = Blank
                    /\ UNCHANGED resp_status
               ELSE /\ ParserGoto("classify", "store")
                    /\ resp_status' = v
                    /\ UNCHANGED line
    /\ UNCHANGED <<lock, resp, resp_notice, obj, resp_buf_len, line_counts,
                   callerVars, moduleVars>>

StoreCounts ==
    /\ ParserGoto("store", "detach")
    /\ IF Dangling
       THEN /\ crashed' = TRUE
            /\ UNCHANGED obj
       ELSE /\ obj' = [obj EXCEPT ![resp].line_counts = line_counts]
            /\ UNCHANGED crashed
    /\ UNCHANGED <<clientVars, line, resp_buf_len, line_counts, callerVars, moduleVars>>

Detach ==
    /\ ParserGoto("detach", "notify")
    /\ resp' = None
    /\ UNCHANGED <<lock, resp_status, resp_notice, obj, line, resp_buf_len,
                   line_counts, callerVars, moduleVars, crashed>>

\* Mutant: the line count of this response is left for the next.
Notify_CountKept ==
    /\ ParserGoto("notify", "read")
    /\ line' = Blank
    /\ resp_notice' = TRUE
    /\ resp_buf_len' = 0
    /\ UNCHANGED <<lock, resp, resp_status, obj, line_counts, callerVars,
                   moduleVars, crashed>>

Notify ==
    /\ ParserGoto("notify", "read")
    /\ line' = Blank
    /\ resp_notice' = TRUE
    /\ resp_buf_len' = 0
    /\ line_counts' = 0
    /\ UNCHANGED <<lock, resp, resp_status, obj, callerVars, moduleVars, crashed>>

-----------------------------------------------------------------------------
(* The module: it answers the commands it received in order, each with     *)
(* some data lines and a final OK or ERROR, and says URCs when it likes.   *)

Emit(kind) ==
    /\ inbox # <<>>
    /\ uart' = Append(uart, [cmd |-> Head(inbox), kind |-> kind])
    /\ said' = [said EXCEPT ![Head(inbox)] = Append(@, kind)]

EmitData ==
    /\ Emit("data")
    /\ Len(said[Head(inbox)]) < MaxData
    /\ UNCHANGED <<clientVars, obj, parserVars, callerVars, inbox, urcs, crashed>>

EmitFinal ==
    /\ \E kind \in Finals : Emit(kind)
    /\ inbox' = Tail(inbox)
    /\ UNCHANGED <<clientVars, obj, parserVars, callerVars, urcs, crashed>>

EmitUrc ==
    /\ urcs < MaxUrcs
    /\ urcs' = urcs + 1
    /\ uart' = Append(uart, [cmd |-> 0, kind |-> "urc"])
    /\ UNCHANGED <<clientVars, obj, parserVars, callerVars, inbox, said, crashed>>

\* A command, or the rest of its answer, never comes.
LoseCommand ==
    /\ inbox # <<>>
    /\ IF said[Head(inbox)] = <<>> THEN "lost" \in Faults ELSE "partial" \in Faults
    /\ inbox' = Tail(inbox)
    /\ UNCHANGED <<clientVars, obj, parserVars, callerVars, said, uart, urcs, crashed>>

-----------------------------------------------------------------------------

ExecStep(c) ==
    \/ TakeLock(c)
    \/ Prepare(c)
    \/ Send(c)
    \/ PollNotice(c)
    \/ PollExpired(c)
    \/ CheckExpiry(c)
    \/ ClearResp(c)
    \/ ClearNotice(c)
    \/ Unlock(c)
    \/ Return(c)

WaitStep(c) ==
    \/ WaitPrepare(c)
    \/ WaitSend(c)
    \/ WaitCheck(c)
    \/ WaitExpiry(c)
    \/ WaitDelete(c)
    \/ WaitClearResp(c)

Parser ==
    \/ ReadLine
    \/ CheckResp
    \/ CopyLine
    \/ Classify
    \/ StoreCounts
    \/ Detach
    \/ Notify

Module ==
    \/ EmitData
    \/ EmitFinal
    \/ EmitUrc
    \/ LoseCommand

Next ==
    \/ \E c \in Callers : Call(c) \/ ExecStep(c) \/ WaitStep(c) \/ TimerExpires(c)
    \/ Parser
    \/ Module

Spec == Init /\ [][Next]_vars

(***************************************************************************)
(* The scheduler runs every thread, a free mutex goes to a thread that     *)
(* keeps asking for it, the deadline passes once it may.  Nothing is asked *)
(* of the module: it need not answer.                                      *)
(***************************************************************************)
Fairness ==
    /\ WF_vars(Parser)
    /\ \A c \in Callers :
          /\ WF_vars(ExecStep(c) \/ WaitStep(c))
          /\ SF_vars(TakeLock(c))
          /\ WF_vars(TimerExpires(c))

FairSpec == Spec /\ Fairness

-----------------------------------------------------------------------------
(* Properties.                                                             *)

Holding == {"prepare", "send", "poll", "expiry", "clear_resp", "clear_notice", "unlock",
            "w_prepare", "w_send", "w_check", "w_expiry", "w_delete", "w_clear_resp"}

Attached == {"send", "poll", "expiry", "clear_resp",
             "w_send", "w_check", "w_expiry", "w_delete", "w_clear_resp"}

Responses ==
    [alive : BOOLEAN, line_num : Nat, line_counts : Nat,
     buf : [0 .. BufSize - 1 -> Lines]]

\* The fields of sg_at_client, the locals of the threads and the responses
\* keep their types, whatever the module says and whenever timers run out.
TypeOK ==
    /\ lock \in Callers \cup {None}
    /\ resp \in Callers \cup {None}
    /\ resp_status \in {"OK", "ERROR", "TIMEOUT", "BUFF_FULL"}
    /\ resp_notice \in BOOLEAN
    /\ obj \in [Callers -> Responses]
    /\ ppc \in {"read", "check", "copy", "classify", "store", "detach", "notify"}
    /\ line \in Lines
    /\ resp_buf_len \in Nat
    /\ line_counts \in Nat
    /\ pc \in [Callers -> Holding \cup {"idle", "lock", "return"}]
    /\ op \in [Callers -> {"exec", "wait_connect"}]
    /\ cmd \in [Callers -> Nat]
    /\ expired \in [Callers -> BOOLEAN]
    /\ result \in [Callers -> {"SUCCESS", "FAILURE", "TIMEOUT"}]
    /\ inbox \in Seq(Nat)
    /\ said \in Seq(Seq(Kinds))
    /\ uart \in Seq(Lines)
    /\ urcs \in Nat
    /\ crashed \in BOOLEAN

\* at_client.h on client->lock: "pre cmd take the lock wait for resp ,
\* another cmd need wait for unlock".  Only the thread that holds the lock
\* has a response attached, so the parser, which takes no lock, never feeds
\* the response of a thread that is not the one being served.
RespOwned == resp # None => lock = resp

\* A response stays allocated for as long as client->resp points to it, but
\* for the gap in at_client_wait_connect between deleting and detaching it.
RespAllocated ==
    resp # None => obj[resp].alive \/ pc[resp] = "w_clear_resp"

\* The inductive invariant behind both: exactly the lock holder is between
\* taking and releasing the lock, a response is attached only in the middle
\* of that stretch, and the object exists for as long as it may be attached.
LockInv ==
    /\ TypeOK
    /\ \A c \in Callers : pc[c] \in Holding <=> lock = c
    /\ resp # None => pc[resp] \in Attached
    /\ \A c \in Callers :
          \/ pc[c] \in Attached \ {"w_clear_resp"}
          \/ pc[c] = "w_prepare"
          \/ pc[c] = "lock" /\ op[c] = "wait_connect"
          => obj[c].alive

\* The parser never uses a NULL or freed client->resp.
NoCrash == ~crashed

Last(s) == s[Len(s)]

\* The lines at_resp_get_line finds in the response of c.
Received(c) == [i \in 1 .. obj[c].line_counts |-> obj[c].buf[i - 1]]

Returned(c, r) == pc[c] = "return" /\ op[c] = "exec" /\ result[c] = r

\* at_obj_exec_cmd: "Send commands to AT server and wait response";
\* "@return 0 : success".  A success is the module's OK for the very command
\* the caller sent.
SuccessIsOwn ==
    \A c \in Callers : Returned(c, "SUCCESS") =>
        said[cmd[c]] # <<>> /\ Last(said[cmd[c]]) = "ok"

\* Every call gets the lock and comes back, even if the module never answers
\* or answers in part (unless the parser has used a dead response).
CallReturns == \A c \in Callers : pc[c] = "lock" ~> (pc[c] = "idle" \/ crashed)

\* The contract of AtCommand: the phase of each call, the command served and
\* what the module said for it, and what the call handed back.
Phase(c) ==
    CASE pc[c] = "idle"      -> "idle"
      [] pc[c] = "lock"      -> "waiting"
      [] pc[c] \in Holding   -> "serving"
      [] OTHER               -> "done"

Sent(c) == pc[c] \notin {"prepare", "send", "w_prepare"}

Contract == INSTANCE AtCommand WITH
    phase  <- [c \in Callers |-> Phase(c)],
    owner  <- lock,
    said   <- IF lock # None /\ Sent(lock) THEN said[cmd[lock]] ELSE <<>>,
    result <- [c \in Callers |-> IF pc[c] = "return" THEN result[c] ELSE "SUCCESS"],
    got    <- [c \in Callers |->
                 IF pc[c] = "return" THEN [i \in DOMAIN Received(c) |-> Received(c)[i].kind]
                 ELSE <<>>]

\* at_obj_exec_cmd implements the contract of AtCommand: one command at a time,
\* and a command that is not given up hands back the module's verdict on it and
\* every line of its answer and no other, line_counts being "the count of
\* received response lines" (at_client.h:64).
ContractSpec == Contract!Spec

=============================================================================
