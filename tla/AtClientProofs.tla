--------------------------- MODULE AtClientProofs ---------------------------
(***************************************************************************)
(* Proofs about AtClient.  For every set of callers, every combination of  *)
(* calls and faults and every bound: types, and the discipline of          *)
(* client->lock and client->resp.  For commands executed one by one and    *)
(* answered in time or not at all (Prompt): the parser uses no dead        *)
(* response, and at_obj_exec_cmd implements AtCommand.                     *)
(***************************************************************************)
EXTENDS AtClient, TLAPS

\* at_create_resp returns an allocated response.
LEMMA FreshType ==
    ASSUME NEW n \in Nat
    PROVE  Fresh(n) \in Responses /\ Fresh(n).alive = TRUE
BY AtAssumption DEF Fresh, Responses, Blank, Lines, Kinds, Finals

\* Updating one field of a response object keeps its type and its others.
LEMMA SetAlive ==
    ASSUME NEW r \in Responses, NEW b \in BOOLEAN
    PROVE  /\ [r EXCEPT !.alive = b] \in Responses
           /\ [r EXCEPT !.alive = b].alive = b
BY DEF Responses

\* The same for the count of lines.
LEMMA SetCounts ==
    ASSUME NEW r \in Responses, NEW n \in Nat
    PROVE  /\ [r EXCEPT !.line_counts = n] \in Responses
           /\ [r EXCEPT !.line_counts = n].alive = r.alive
<1>1. r.alive \in BOOLEAN
  BY Zenon DEF Responses
<1> QED
  BY <1>1 DEF Responses

SameObjects(o, p) ==
    /\ p \in [Callers -> Responses]
    /\ \A d \in Callers : o[d].alive => p[d].alive

\* The parser storing the count in a response leaves which responses are allocated.
LEMMA SetObjCounts ==
    ASSUME NEW o \in [Callers -> Responses], NEW c \in Callers, NEW n \in Nat,
           NEW p, p = [o EXCEPT ![c].line_counts = n]
    PROVE  SameObjects(o, p)
<1> USE DEF SameObjects
<1>1. p = [o EXCEPT ![c] = [o[c] EXCEPT !.line_counts = n]]
  OBVIOUS
<1>2. o[c] \in Responses
  OBVIOUS
<1> QED
  BY <1>1, <1>2, SetCounts

\* So does the parser copying a line into its buffer.
LEMMA SetObjBuf ==
    ASSUME NEW o \in [Callers -> Responses], NEW c \in Callers, NEW i \in Nat,
           NEW l \in Lines, NEW p, p = [o EXCEPT ![c].buf[i] = l]
    PROVE  SameObjects(o, p)
<1> USE DEF SameObjects
<1> DEFINE r == o[c]
<1> DEFINE b == [r.buf EXCEPT ![i] = l]
<1>1. r \in Responses /\ p = [o EXCEPT ![c] = [r EXCEPT !.buf = b]]
  OBVIOUS
<1>2. r.alive \in BOOLEAN
  BY <1>1, Zenon DEF Responses
<1>3. b \in [0 .. BufSize - 1 -> Lines]
  BY <1>1 DEF Responses
<1> HIDE DEF b, r
<1>4. [r EXCEPT !.buf = b] \in Responses /\ [r EXCEPT !.buf = b].alive = r.alive
  BY <1>1, <1>2, <1>3 DEF Responses
<1> QED
  BY <1>1, <1>4 DEF r

\* A response that at_delete_resp freed is still of the type.
LEMMA FreedType == Freed \in Responses
BY FreshType, AtAssumption DEF Freed, Fresh, Responses, Blank, Lines, Kinds, Finals

\* The state at_client_para_init leaves is type correct.
LEMMA InitType == Init => TypeOK
<1> SUFFICES ASSUME Init PROVE TypeOK
  OBVIOUS
<1> USE DEF Init
<1>1. obj \in [Callers -> Responses]
  BY FreedType
<1>2. line \in Lines
  BY DEF Lines, Blank, Kinds
<1>3. resp_notice \in BOOLEAN /\ crashed \in BOOLEAN /\ expired \in [Callers -> BOOLEAN]
  BY Zenon
<1>4. inbox \in Seq(Nat) /\ said \in Seq(Seq(Kinds)) /\ uart \in Seq(Lines)
  OBVIOUS
<1> QED
  BY <1>1, <1>2, <1>3, <1>4 DEF TypeOK

\* What Transmit does to the module's side keeps its types.
LEMMA TransmitType ==
    ASSUME TypeOK, NEW c \in Callers, Transmit(c)
    PROVE  /\ said' \in Seq(Seq(Kinds))
           /\ inbox' \in Seq(Nat)
           /\ cmd' \in [Callers -> Nat]
           /\ uart' = uart /\ urcs' = urcs
<1>1. said' \in Seq(Seq(Kinds)) /\ Len(said') \in Nat
  BY DEF TypeOK, Transmit
<1> QED
  BY <1>1 DEF TypeOK, Transmit

\* What the module says keeps its types.
LEMMA EmitType ==
    ASSUME TypeOK, NEW kind \in Kinds, Emit(kind)
    PROVE  uart' \in Seq(Lines) /\ said' \in Seq(Seq(Kinds))
<1>1. Head(inbox) \in Nat
  BY DEF TypeOK, Emit
<1>2. [cmd |-> Head(inbox), kind |-> kind] \in Lines
  BY <1>1 DEF Lines
<1>3. uart' \in Seq(Lines)
  BY <1>2 DEF TypeOK, Emit
<1>4. said' \in Seq(Seq(Kinds))
  <2> DEFINE k == Head(inbox)
  <2>1. CASE k \in 1 .. Len(said)
    <3>1. said[k] \in Seq(Kinds)
      BY <2>1 DEF TypeOK
    <3>2. Append(said[k], kind) \in Seq(Kinds)
      BY <3>1
    <3> QED
      BY <2>1, <3>2 DEF TypeOK, Emit
  <2>2. CASE k \notin 1 .. Len(said)
    <3>1. said \in [1 .. Len(said) -> Seq(Kinds)]
      BY DEF TypeOK
    <3>2. said' = said
      BY <2>2, <3>1 DEF Emit
    <3> QED
      BY <3>2 DEF TypeOK
  <2> QED
    BY <2>1, <2>2
<1> QED
  BY <1>3, <1>4

\* Call creates a response, or fails to.
LEMMA CallEffect ==
    ASSUME TypeOK, NEW c \in Callers, Call(c)
    PROVE  /\ op' \in [Callers -> {"exec", "wait_connect"}]
           /\ obj' \in [Callers -> Responses]
           /\ op'[c] = "wait_connect" => obj'[c].alive
           /\ \A d \in Callers \ {c} : op'[d] = op[d] /\ obj'[d] = obj[d]
<1>0. op \in [Callers -> {"exec", "wait_connect"}] /\ obj \in [Callers -> Responses]
  BY DEF TypeOK
<1>1. PICK o \in Ops, n \in LineNums, alive \in BOOLEAN :
        /\ o = "wait_connect" => alive
        /\ op' = [op EXCEPT ![c] = o]
        /\ obj' = [obj EXCEPT ![c] = [Fresh(n) EXCEPT !.alive = alive]]
  BY Zenon DEF Call
<1>2. n \in Nat /\ o \in {"exec", "wait_connect"}
  BY AtAssumption
<1> DEFINE r == [Fresh(n) EXCEPT !.alive = alive]
<1>3. r \in Responses /\ r.alive = alive
  BY <1>2, FreshType, SetAlive, Zenon
<1> HIDE DEF r
<1>4. obj' = [obj EXCEPT ![c] = r]
  BY <1>1 DEF r
<1> QED
  BY <1>0, <1>1, <1>2, <1>3, <1>4

\* Attaching a response resets its count of lines.
LEMMA ResetCounts ==
    ASSUME TypeOK, NEW c \in Callers, obj' = [obj EXCEPT ![c].line_counts = 0]
    PROVE  SameObjects(obj, obj')
<1>1. obj \in [Callers -> Responses] /\ 0 \in Nat
  BY DEF TypeOK
<1> QED
  BY <1>1, SetObjCounts, Zenon

Places == Holding \cup {"idle", "lock", "return"}

\* A thread that goes somewhere is at a place.
LEMMA PlaceType ==
    ASSUME pc \in [Callers -> Places], NEW c \in Callers, NEW from, NEW to \in Places,
           Goto(c, from, to)
    PROVE  pc' \in [Callers -> Places]
BY DEF Goto

\* The callers' steps keep the types.
LEMMA CallerTypes ==
    ASSUME TypeOK, NEW c \in Callers,
           Call(c) \/ ExecStep(c) \/ WaitStep(c) \/ TimerExpires(c)
    PROVE  TypeOK'
<1> USE DEF TypeOK, Goto, Holding
<1>1. CASE Call(c)
  BY <1>1, CallEffect DEF Call, clientVars, parserVars, moduleVars
<1>2. CASE TakeLock(c)
  BY <1>2 DEF TakeLock, parserVars, moduleVars
<1>3. CASE Prepare(c)
  <2>1. CASE obj[c].alive
    <3>1. SameObjects(obj, obj')
      BY <1>3, <2>1, ResetCounts DEF Prepare
    <3> QED
      BY <1>3, <2>1, <3>1 DEF Prepare, parserVars, moduleVars, SameObjects
  <2>2. CASE ~obj[c].alive
    BY <1>3, <2>2 DEF Prepare, parserVars, moduleVars
  <2> QED
    BY <2>1, <2>2
<1>4. CASE Send(c)
  BY <1>4, TransmitType DEF Send, clientVars, parserVars
<1>5. CASE PollNotice(c)
  <2>1. result' \in [Callers -> {"SUCCESS", "FAILURE", "TIMEOUT"}]
    BY <1>5 DEF PollNotice
  <2>2. pc' \in [Callers -> Holding \cup {"idle", "lock", "return"}]
    <3>1. Goto(c, "poll", "clear_resp") \/ Goto(c, "poll", "expiry")
      BY <1>5, Zenon DEF PollNotice
    <3> QED
      BY <3>1, PlaceType DEF Places
  <2>3. UNCHANGED <<clientVars, obj, parserVars, op, cmd, expired, moduleVars, crashed>>
    BY <1>5 DEF PollNotice
  <2> QED
    BY <2>1, <2>2, <2>3 DEF clientVars, parserVars, moduleVars
<1>6. CASE PollExpired(c)
  BY <1>6 DEF PollExpired, clientVars, parserVars, moduleVars
<1>7. CASE CheckExpiry(c)
  BY <1>7 DEF CheckExpiry, parserVars, moduleVars
<1>8. CASE ClearResp(c)
  BY <1>8 DEF ClearResp, parserVars, moduleVars
<1>9. CASE ClearNotice(c)
  BY <1>9 DEF ClearNotice, parserVars, moduleVars
<1>10. CASE Unlock(c)
  BY <1>10 DEF Unlock, parserVars, moduleVars
<1>11. CASE Return(c)
  BY <1>11, FreedType DEF Return, clientVars, parserVars, moduleVars
<1>12. CASE WaitPrepare(c)
  <2>1. SameObjects(obj, obj')
    BY <1>12, ResetCounts DEF WaitPrepare
  <2> QED
    BY <1>12, <2>1 DEF WaitPrepare, parserVars, moduleVars, SameObjects
<1>13. CASE WaitSend(c)
  BY <1>13, TransmitType DEF WaitSend, clientVars, parserVars
<1>14. CASE WaitCheck(c)
  <2>1. pc' \in [Callers -> Holding \cup {"idle", "lock", "return"}]
    <3>1. Goto(c, "w_check", "w_expiry") \/ Goto(c, "w_check", "w_send")
      BY <1>14, Zenon DEF WaitCheck
    <3> QED
      BY <3>1, PlaceType DEF Places
  <2>2. UNCHANGED <<clientVars, obj, parserVars, op, cmd, expired, result, moduleVars, crashed>>
    BY <1>14 DEF WaitCheck
  <2> QED
    BY <2>1, <2>2 DEF clientVars, parserVars, moduleVars
<1>15. CASE WaitExpiry(c)
  BY <1>15 DEF WaitExpiry, clientVars, parserVars, moduleVars
<1>16. CASE WaitDelete(c)
  BY <1>16, FreedType DEF WaitDelete, clientVars, parserVars, moduleVars
<1>17. CASE WaitClearResp(c)
  BY <1>17 DEF WaitClearResp, parserVars, moduleVars
<1>18. CASE TimerExpires(c)
  BY <1>18 DEF TimerExpires, clientVars, parserVars, moduleVars
<1> QED
  BY <1>1, <1>2, <1>3, <1>4, <1>5, <1>6, <1>7, <1>8, <1>9, <1>10, <1>11, <1>12,
     <1>13, <1>14, <1>15, <1>16, <1>17, <1>18 DEF ExecStep, WaitStep

\* What the discipline is about.
OwnerTypes ==
    /\ lock \in Callers \cup {None}
    /\ resp \in Callers \cup {None}
    /\ obj \in [Callers -> Responses]
    /\ pc \in [Callers -> Holding \cup {"idle", "lock", "return"}]
    /\ op \in [Callers -> {"exec", "wait_connect"}]

\* Only the thread at a place may take or release the lock, attach or detach.
Discipline ==
    /\ \A c \in Callers : pc[c] \in Holding <=> lock = c
    /\ resp # None => pc[resp] \in Attached
    /\ \A c \in Callers :
          \/ pc[c] \in Attached \ {"w_clear_resp"}
          \/ pc[c] = "w_prepare"
          \/ pc[c] = "lock" /\ op[c] = "wait_connect"
          => obj[c].alive

LEMMA Split == LockInv <=> TypeOK /\ Discipline
BY DEF LockInv, Discipline

\* The callers' steps keep the discipline.
LEMMA CallerDiscipline ==
    ASSUME TypeOK, Discipline, NEW c \in Callers,
           Call(c) \/ ExecStep(c) \/ WaitStep(c) \/ TimerExpires(c)
    PROVE  Discipline'
<1>0. OwnerTypes
  BY DEF TypeOK, OwnerTypes
<1> USE <1>0, AtAssumption DEF OwnerTypes, Discipline, Goto, Holding, Attached
<1>1. CASE Call(c)
  BY <1>1, CallEffect DEF Call, clientVars
<1>2. CASE TakeLock(c)
  BY <1>2 DEF TakeLock
<1>3. CASE Prepare(c)
  <2>1. CASE obj[c].alive
    <3>1. SameObjects(obj, obj')
      BY <1>3, <2>1, ResetCounts DEF Prepare
    <3> QED
      BY <1>3, <2>1, <3>1 DEF Prepare, SameObjects
  <2>2. CASE ~obj[c].alive
    BY <1>3, <2>2 DEF Prepare
  <2> QED
    BY <2>1, <2>2
<1>4. CASE Send(c)
  BY <1>4 DEF Send, clientVars
<1>5. CASE PollNotice(c)
  BY <1>5 DEF PollNotice, clientVars
<1>6. CASE PollExpired(c)
  BY <1>6 DEF PollExpired, clientVars
<1>7. CASE CheckExpiry(c)
  BY <1>7 DEF CheckExpiry
<1>8. CASE ClearResp(c)
  BY <1>8 DEF ClearResp
<1>9. CASE ClearNotice(c)
  BY <1>9 DEF ClearNotice
<1>10. CASE Unlock(c)
  BY <1>10 DEF Unlock
<1>11. CASE Return(c)
  BY <1>11 DEF Return, clientVars
<1>12. CASE WaitPrepare(c)
  <2>1. SameObjects(obj, obj')
    BY <1>12, ResetCounts DEF WaitPrepare
  <2> QED
    BY <1>12, <2>1 DEF WaitPrepare, SameObjects
<1>13. CASE WaitSend(c)
  BY <1>13 DEF WaitSend, clientVars
<1>14. CASE WaitCheck(c)
  BY <1>14 DEF WaitCheck, clientVars
<1>15. CASE WaitExpiry(c)
  BY <1>15 DEF WaitExpiry, clientVars
<1>16. CASE WaitDelete(c)
  BY <1>16 DEF WaitDelete, clientVars
<1>17. CASE WaitClearResp(c)
  BY <1>17 DEF WaitClearResp
<1>18. CASE TimerExpires(c)
  BY <1>18 DEF TimerExpires, clientVars
<1> QED
  BY <1>1, <1>2, <1>3, <1>4, <1>5, <1>6, <1>7, <1>8, <1>9, <1>10, <1>11, <1>12,
     <1>13, <1>14, <1>15, <1>16, <1>17, <1>18 DEF ExecStep, WaitStep

\* The callers' steps keep the invariant.
LEMMA CallerStep ==
    ASSUME LockInv, NEW c \in Callers,
           Call(c) \/ ExecStep(c) \/ WaitStep(c) \/ TimerExpires(c)
    PROVE  LockInv'
BY Split, CallerTypes, CallerDiscipline DEF LockInv, Discipline

\* The parser's steps keep the invariant: it detaches responses, and writes
\* to none that is not attached.
LEMMA ParserStep ==
    ASSUME LockInv, Parser
    PROVE  LockInv'
<1> USE AtAssumption DEF LockInv, TypeOK, ParserGoto
<1>0. Blank \in Lines
  BY DEF Blank, Lines, Kinds
<1>1. CASE ReadLine
  <2>1. Head(uart) \in Lines /\ uart' \in Seq(Lines)
    BY <1>1 DEF ReadLine
  <2> QED
    BY <1>0, <1>1, <2>1 DEF ReadLine, clientVars, callerVars
<1>2. CASE CheckResp
  BY <1>0, <1>2 DEF CheckResp, clientVars, callerVars, moduleVars
<1>3. CASE CopyLine
  <2>1. CASE Dangling
    BY <1>3, <2>1 DEF CopyLine, callerVars, moduleVars
  <2>2. CASE ~Dangling /\ Fits
    <3>0. /\ obj' = [obj EXCEPT ![resp].buf[resp_buf_len] = line]
          /\ obj \in [Callers -> Responses] /\ resp \in Callers
          /\ resp_buf_len \in Nat /\ line \in Lines
      BY <1>3, <2>2 DEF CopyLine, Dangling
    <3>1. SameObjects(obj, obj')
      BY <3>0, SetObjBuf, Zenon
    <3> QED
      BY <1>3, <2>2, <3>1 DEF CopyLine, callerVars, moduleVars, SameObjects
  <2>3. CASE ~Dangling /\ ~Fits
    BY <1>3, <2>3 DEF CopyLine, callerVars, moduleVars
  <2> QED
    BY <2>1, <2>2, <2>3
<1>4. CASE Classify
  <2>1. CASE Dangling
    BY <1>4, <2>1 DEF Classify, callerVars, moduleVars
  <2>2. CASE ~Dangling
    <3> DEFINE v == Verdict(line, obj[resp].line_num)
    <3>1. v \in {"OK", "ERROR", "more"}
      BY DEF Verdict
    <3> HIDE DEF v
    <3>2. CASE v = "more"
      BY <1>0, <1>4, <2>2, <3>2 DEF Classify, callerVars, moduleVars, v
    <3>3. CASE v # "more"
      BY <1>4, <2>2, <3>1, <3>3 DEF Classify, callerVars, moduleVars, v
    <3> QED
      BY <3>2, <3>3
  <2> QED
    BY <2>1, <2>2
<1>5. CASE StoreCounts
  <2>1. CASE Dangling
    BY <1>5, <2>1 DEF StoreCounts, clientVars, callerVars, moduleVars
  <2>2. CASE ~Dangling
    <3>0. /\ obj' = [obj EXCEPT ![resp].line_counts = line_counts]
          /\ obj \in [Callers -> Responses] /\ resp \in Callers /\ line_counts \in Nat
      BY <1>5, <2>2 DEF StoreCounts, Dangling
    <3>1. SameObjects(obj, obj')
      BY <3>0, SetObjCounts, Zenon
    <3> QED
      BY <1>5, <2>2, <3>1 DEF StoreCounts, clientVars, callerVars, moduleVars, SameObjects
  <2> QED
    BY <2>1, <2>2
<1>6. CASE Detach
  BY <1>6 DEF Detach, callerVars, moduleVars
<1>7. CASE Notify
  BY <1>0, <1>7 DEF Notify, callerVars, moduleVars
<1> QED
  BY <1>1, <1>2, <1>3, <1>4, <1>5, <1>6, <1>7 DEF Parser

\* The module's steps keep the invariant.
LEMMA ModuleStep ==
    ASSUME LockInv, Module
    PROVE  LockInv'
<1> USE AtAssumption DEF LockInv, TypeOK
<1>1. CASE EmitData
  <2>1. uart' \in Seq(Lines) /\ said' \in Seq(Seq(Kinds))
    BY <1>1, EmitType DEF EmitData, Kinds
  <2> QED
    BY <1>1, <2>1 DEF EmitData, clientVars, parserVars, callerVars
<1>2. CASE EmitFinal
  <2>1. uart' \in Seq(Lines) /\ said' \in Seq(Seq(Kinds)) /\ inbox # <<>>
    BY <1>2, EmitType DEF EmitFinal, Kinds, Emit
  <2>2. inbox' \in Seq(Nat)
    BY <1>2, <2>1 DEF EmitFinal
  <2> QED
    BY <1>2, <2>1, <2>2 DEF EmitFinal, clientVars, parserVars, callerVars
<1>3. CASE EmitUrc
  <2>1. [cmd |-> 0, kind |-> "urc"] \in Lines
    BY DEF Lines, Kinds
  <2>2. uart' \in Seq(Lines)
    BY <1>3, <2>1 DEF EmitUrc
  <2> QED
    BY <1>3, <2>2 DEF EmitUrc, clientVars, parserVars, callerVars
<1>4. CASE LoseCommand
  <2>1. inbox' \in Seq(Nat)
    BY <1>4 DEF LoseCommand
  <2> QED
    BY <1>4, <2>1 DEF LoseCommand, clientVars, parserVars, callerVars
<1> QED
  BY <1>1, <1>2, <1>3, <1>4 DEF Module

\* The discipline of client->lock and client->resp holds whatever the module
\* does and whenever the timers fire.
THEOREM LockInvariance == Spec => []LockInv
<1>1. Init => LockInv
  BY InitType, AtAssumption DEF Init, LockInv, Holding, Attached
<1>2. LockInv /\ [Next]_vars => LockInv'
  <2> SUFFICES ASSUME LockInv, [Next]_vars PROVE LockInv'
    OBVIOUS
  <2>1. CASE UNCHANGED vars
    BY <2>1 DEF LockInv, TypeOK, vars, clientVars, parserVars, callerVars, moduleVars
  <2> QED
    BY <2>1, CallerStep, ParserStep, ModuleStep DEF Next
<1> QED
  BY <1>1, <1>2, PTL DEF Spec

\* Every variable keeps its type.
THEOREM AtTypeCorrect == Spec => []TypeOK
<1>1. LockInv => TypeOK
  BY DEF LockInv
<1> QED
  BY <1>1, LockInvariance, PTL

\* Only the lock holder has a response attached.
THEOREM RespIsOwned == Spec => []RespOwned
<1>1. LockInv => RespOwned
  BY DEF LockInv, TypeOK, RespOwned, Attached, Holding
<1> QED
  BY <1>1, LockInvariance, PTL

\* An attached response is allocated, but for the gap in
\* at_client_wait_connect.
THEOREM RespIsAllocated == Spec => []RespAllocated
<1>1. LockInv => RespAllocated
  BY DEF LockInv, TypeOK, RespAllocated
<1> QED
  BY <1>1, LockInvariance, PTL

-----------------------------------------------------------------------------
(* at_obj_exec_cmd implements AtCommand.                                   *)

Serving == {"poll", "expiry", "clear_resp", "clear_notice", "unlock"}
Closing == {"clear_resp", "clear_notice", "unlock"}
ExecPlaces == Serving \cup {"idle", "lock", "prepare", "send", "return"}

Answer(c) == said[cmd[c]]

Final(c) == Len(Answer(c)) > 0 /\ Last(Answer(c)) \in Finals

\* The lines of the answer that the parser has taken from the UART.
Taken == IF ppc \in {"check", "copy"} THEN resp_buf_len + 1 ELSE resp_buf_len

\* at[i] is the line of the answer that is next when i - 1 lines of the UART are read.
Follows(c, at) ==
    /\ at[1] = Taken + 1
    /\ at[Len(uart) + 1] = Len(Answer(c)) + 1
    /\ \A i, j \in 1 .. Len(uart) + 1 : i <= j => at[i] <= at[j]
    /\ \A i \in 1 .. Len(uart) :
          IF uart[i].kind = "urc" THEN at[i + 1] = at[i]
          ELSE /\ at[i + 1] = at[i] + 1
               /\ uart[i].cmd = cmd[c] /\ uart[i].kind = Answer(c)[at[i]]

\* The response holds what was said.
Holds(c, n) == \A i \in 1 .. n : obj[c].buf[i - 1].kind = Answer(c)[i]

\* Nothing is on its way to the caller that is served.
Still ==
    /\ Len(inbox) = 0 /\ \A i \in 1 .. Len(uart) : uart[i].kind = "urc"
    /\ ppc = "read" /\ resp_buf_len = 0 /\ line_counts = 0

\* The module has more to say, or has concluded, or has lost the command.
Source(c) ==
    \/ Len(inbox) = 1 /\ inbox[1] = cmd[c] /\ ~Final(c) /\ Len(Answer(c)) <= MaxData
    \/ Len(inbox) = 0 /\ (Len(Answer(c)) = 0 \/ Final(c))

\* The line the parser is at.
Reading(c) ==
    /\ ppc # "read" => Taken > 0 /\ line.kind = Answer(c)[Taken]
    /\ ppc = "read" /\ Taken > 0 => Answer(c)[Taken] = "data"
    /\ ppc \in {"store", "detach", "notify"} =>
          line.kind \in Finals /\ (resp_status = "OK" <=> line.kind = "ok")

\* The module or the parser is at work on the answer.
Open(c) ==
    /\ ~resp_notice /\ resp = (IF ppc = "notify" THEN None ELSE c)
    /\ \E at \in [1 .. Len(uart) + 1 -> Nat] : Follows(c, at)
    /\ line_counts = resp_buf_len /\ Holds(c, resp_buf_len)
    /\ obj[c].line_counts = (IF ppc \in {"detach", "notify"} THEN line_counts ELSE 0)
    /\ Source(c) /\ Reading(c)
    /\ Final(c) /\ Taken < Len(Answer(c)) => \E i \in 1 .. Len(uart) : uart[i].kind \in Finals

Complete(c) == Final(c) /\ obj[c].line_counts = Len(Answer(c)) /\ Holds(c, Len(Answer(c)))

Heard(c) ==
    /\ Still /\ Complete(c) /\ resp = None /\ resp_notice
    /\ resp_status = "OK" <=> Last(Answer(c)) = "ok"

Lost(c) == Still /\ ~resp_notice /\ Len(Answer(c)) = 0 /\ obj[c].line_counts = 0

Outcome(c) ==
    \/ result[c] = "TIMEOUT" /\ obj[c].line_counts = 0
    \/ result[c] = (IF Last(Answer(c)) = "ok" THEN "SUCCESS" ELSE "FAILURE") /\ Complete(c)

\* Lines of data, and then at most one final.
Shaped(c) ==
    /\ Len(Answer(c)) <= MaxData + 1
    /\ \A i \in 1 .. Len(Answer(c)) : Answer(c)[i] \in Finals \cup {"data"}
    /\ \A i \in 1 .. Len(Answer(c)) - 1 : Answer(c)[i] = "data"

Served(c) ==
    /\ pc[c] \in {"prepare", "send"} => Still /\ ~resp_notice
    /\ pc[c] = "send" => resp = c /\ obj[c].line_counts = 0
    /\ pc[c] \in Serving => cmd[c] = Len(said) /\ Len(said) > 0 /\ Shaped(c)
    /\ pc[c] = "poll" => IF expired[c] THEN Lost(c) ELSE Open(c) \/ Heard(c)
    /\ pc[c] = "expiry" => IF expired[c] THEN Lost(c) ELSE Heard(c) /\ resp_status = "OK"
    /\ pc[c] \in Closing => Still /\ Outcome(c)
    /\ pc[c] \in {"prepare", "clear_notice", "unlock"} => resp = None
    /\ pc[c] = "unlock" => ~resp_notice

ExecInv ==
    /\ ~crashed
    /\ \A c \in Callers : /\ op[c] = "exec" /\ pc[c] \in ExecPlaces /\ obj[c].line_num = 0
                          /\ pc[c] # "idle" => obj[c].alive

ServeInv ==
    /\ lock = None => Still /\ ~resp_notice /\ resp = None
    /\ lock # None => Served(lock)

\* Commands are executed one by one; the module answers in time or not at all, and
\* its answers fit the responses.
Prompt ==
    /\ Faults \subseteq {"lost"} /\ Ops \subseteq {"exec"} /\ LineNums \subseteq {0}
    /\ MaxData + 1 < BufSize

\* Storing the count, or a line, in a response leaves the rest of it alone.
LEMMA CountsEffect ==
    ASSUME NEW o \in [Callers -> Responses], NEW c \in Callers, NEW n \in Nat,
           NEW p, p = [o EXCEPT ![c].line_counts = n]
    PROVE  /\ p[c].line_counts = n /\ p[c].alive = o[c].alive
           /\ p[c].line_num = o[c].line_num /\ p[c].buf = o[c].buf
           /\ \A d \in Callers : d # c => p[d] = o[d]
<1>1. p[c] = [o[c] EXCEPT !.line_counts = n] /\ \A d \in Callers : d # c => p[d] = o[d]
  OBVIOUS
<1>2. \A r \in Responses : LET q == [r EXCEPT !.line_counts = n] IN
        q.line_counts = n /\ q.alive = r.alive /\ q.line_num = r.line_num /\ q.buf = r.buf
  BY DEF Responses
<1> QED
  BY <1>1, <1>2

LEMMA BufEffect ==
    ASSUME NEW o \in [Callers -> Responses], NEW c \in Callers, NEW i \in 0 .. BufSize - 1,
           NEW l \in Lines, NEW p, p = [o EXCEPT ![c].buf[i] = l]
    PROVE  /\ p[c].line_counts = o[c].line_counts /\ p[c].alive = o[c].alive
           /\ p[c].line_num = o[c].line_num
           /\ p[c].buf = [o[c].buf EXCEPT ![i] = l]
           /\ \A d \in Callers : d # c => p[d] = o[d]
<1> DEFINE r == o[c]
           b == [r.buf EXCEPT ![i] = l]
           q == [r EXCEPT !.buf = b]
<1>1. r \in Responses /\ p[c] = q /\ \A d \in Callers : d # c => p[d] = o[d]
  OBVIOUS
<1> HIDE DEF b, r
<1>2. q.line_counts = r.line_counts /\ q.alive = r.alive /\ q.line_num = r.line_num /\ q.buf = b
  BY <1>1 DEF Responses
<1> HIDE DEF q
<1>3. /\ p[c].line_counts = r.line_counts /\ p[c].alive = r.alive
      /\ p[c].line_num = r.line_num /\ p[c].buf = b
  BY <1>1, <1>2
<1> QED
  BY <1>1, <1>3 DEF r, b

\* The queue of commands, and what is known of the caller that is served.
LEMMA OwnFacts ==
    ASSUME LockInv, ExecInv, ServeInv, NEW c \in Callers, pc[c] \notin {"idle", "lock", "return"}
    PROVE  lock = c /\ Served(c) /\ c # None /\ pc[c] \in {"prepare", "send"} \cup Serving
<1>1. pc[c] \in Holding
  BY DEF LockInv, TypeOK
<1>2. lock = c /\ c # None
  BY <1>1, AtAssumption DEF LockInv
<1> QED
  BY <1>2 DEF ServeInv, ExecInv, ExecPlaces

\* The steps of the others leave the caller that is served alone.
LEMMA Undisturbed ==
    ASSUME NEW c \in Callers, Served(c), UNCHANGED <<clientVars, parserVars, inbox, said, uart>>,
           pc'[c] = pc[c], obj'[c] = obj[c], cmd'[c] = cmd[c], expired'[c] = expired[c],
           result'[c] = result[c]
    PROVE  Served(c)'
<1> USE DEF clientVars, parserVars
<1>1. Answer(c)' = Answer(c)
  BY DEF Answer
<1>2. /\ Still' <=> Still
      /\ Final(c)' <=> Final(c)
      /\ Shaped(c)' <=> Shaped(c)
      /\ Taken' = Taken
      /\ \A n : Holds(c, n)' <=> Holds(c, n)
  BY <1>1 DEF Still, Final, Shaped, Taken, Holds, Last
<1>3. (Complete(c)' <=> Complete(c)) /\ (Heard(c)' <=> Heard(c)) /\ (Lost(c)' <=> Lost(c))
      /\ (Outcome(c)' <=> Outcome(c))
  BY <1>1, <1>2 DEF Complete, Heard, Lost, Outcome, Last
<1>4. Open(c) => Open(c)'
  <2>1. \A at : Follows(c, at) => Follows(c, at)'
    BY <1>1, <1>2 DEF Follows
  <2>2. (Source(c)' <=> Source(c)) /\ (Reading(c)' <=> Reading(c))
    BY <1>1, <1>2 DEF Source, Reading
  <2> QED
    BY <1>1, <1>2, <2>1, <2>2 DEF Open
<1> QED
  BY <1>2, <1>3, <1>4 DEF Served

\* A step of a caller that is not served.
LEMMA OtherServe ==
    ASSUME LockInv, ServeInv, NEW c \in Callers, lock # c,
           UNCHANGED <<clientVars, parserVars, inbox, said, uart>>,
           \A d \in Callers : d # c => /\ pc'[d] = pc[d] /\ obj'[d] = obj[d] /\ cmd'[d] = cmd[d]
                                       /\ expired'[d] = expired[d] /\ result'[d] = result[d]
    PROVE  ServeInv'
<1>1. CASE lock = None
  BY <1>1 DEF ServeInv, Still, clientVars, parserVars
<1>2. CASE lock # None
  <2>1. lock \in Callers /\ Served(lock) /\ lock' = lock
    BY <1>2 DEF LockInv, TypeOK, ServeInv, clientVars
  <2> SUFFICES ASSUME NEW d \in Callers, lock = d, d # c, Served(d) PROVE Served(d)'
    BY <1>2, <2>1 DEF ServeInv
  <2> QED
    BY Undisturbed
<1> QED
  BY <1>1, <1>2

\* No call crashes: a response exists while its call does.
LEMMA CallerExec ==
    ASSUME Prompt, LockInv, ExecInv, ServeInv, NEW c \in Callers,
           Call(c) \/ ExecStep(c) \/ WaitStep(c) \/ TimerExpires(c)
    PROVE  ExecInv'
<1>0. /\ TypeOK /\ obj \in [Callers -> Responses] /\ op \in [Callers -> {"exec", "wait_connect"}]
      /\ pc \in [Callers -> Holding \cup {"idle", "lock", "return"}]
      /\ \A d \in Callers : op[d] = "exec" /\ pc[d] \in ExecPlaces /\ obj[d].line_num = 0
                            /\ (pc[d] # "idle" => obj[d].alive)
  BY DEF LockInv, TypeOK, ExecInv
<1>1. CASE Call(c)
  <2>1. PICK o \in Ops, n \in LineNums, alive \in BOOLEAN :
          /\ alive \/ "no_memory" \in Faults
          /\ op' = [op EXCEPT ![c] = o]
          /\ obj' = [obj EXCEPT ![c] = [Fresh(n) EXCEPT !.alive = alive]]
    BY <1>1, Zenon DEF Call
  <2>2. o = "exec" /\ n = 0 /\ n \in Nat /\ alive = TRUE
    BY <2>1 DEF Prompt
  <2>3. [Fresh(n) EXCEPT !.alive = alive].line_num = n /\ [Fresh(n) EXCEPT !.alive = alive].alive = alive
    BY DEF Fresh
  <2>4. obj'[c].line_num = 0 /\ obj'[c].alive /\ \A d \in Callers : d # c => obj'[d] = obj[d]
    BY <1>0, <2>1, <2>2, <2>3
  <2>5. pc'[c] = "lock" /\ ~crashed' /\ \A d \in Callers : d # c => pc'[d] = pc[d]
    BY <1>0, <1>1 DEF Call, Goto
  <2> QED
    BY <1>0, <2>1, <2>2, <2>4, <2>5 DEF ExecInv, ExecPlaces
<1>2. CASE Prepare(c)
  <2>1. pc[c] = "prepare" /\ obj[c].alive
    BY <1>0, <1>2 DEF Prepare, Goto
  <2>2. obj' = [obj EXCEPT ![c].line_counts = 0] /\ Goto(c, "prepare", "send") /\ crashed' = crashed /\ op' = op
    BY <1>2, <2>1 DEF Prepare
  <2>3. /\ obj'[c].line_num = obj[c].line_num /\ obj'[c].alive = obj[c].alive
        /\ \A d \in Callers : d # c => obj'[d] = obj[d]
    BY <1>0, <2>2, CountsEffect
  <2> QED
    BY <1>0, <2>1, <2>2, <2>3 DEF ExecInv, ExecPlaces, Goto
<1>3. CASE Return(c)
  <2>1. Freed.line_num = 0
    BY DEF Freed, Fresh
  <2>2. pc'[c] = "idle" /\ ~crashed' /\ obj'[c] = Freed /\ op' = op
        /\ \A d \in Callers : d # c => pc'[d] = pc[d] /\ obj'[d] = obj[d]
    BY <1>0, <1>3 DEF Return, Goto
  <2> QED
    BY <1>0, <2>1, <2>2 DEF ExecInv, ExecPlaces
<1>4. ASSUME NEW from, NEW to \in ExecPlaces, from # "idle", Goto(c, from, to), UNCHANGED <<obj, op, crashed>>
      PROVE  ExecInv'
  BY <1>0, <1>4 DEF ExecInv, Goto
<1>5. CASE TakeLock(c)
  <2>1. Goto(c, "lock", "prepare") /\ UNCHANGED <<obj, op, crashed>>
    BY <1>0, <1>5 DEF TakeLock
  <2> QED
    BY <1>4, <2>1 DEF ExecPlaces, Serving
<1>6. CASE Send(c) \/ PollNotice(c) \/ PollExpired(c) \/ CheckExpiry(c) \/ ClearResp(c) \/ ClearNotice(c) \/ Unlock(c)
  <2>1. /\ \/ Goto(c, "send", "poll") \/ Goto(c, "poll", "clear_resp") \/ Goto(c, "poll", "expiry")
           \/ Goto(c, "expiry", "clear_resp") \/ Goto(c, "clear_resp", "clear_notice")
           \/ Goto(c, "clear_notice", "unlock") \/ Goto(c, "unlock", "return")
        /\ UNCHANGED <<obj, op, crashed>>
    BY <1>6 DEF Send, PollNotice, PollExpired, CheckExpiry, ClearResp, ClearNotice, Unlock
  <2> QED
    BY <1>4, <2>1 DEF ExecPlaces, Serving
<1>7. CASE WaitStep(c)
  BY <1>0, <1>7 DEF WaitStep, WaitPrepare, WaitSend, WaitCheck, WaitExpiry, WaitDelete,
                    WaitClearResp, Goto, ExecPlaces, Serving
<1>8. CASE TimerExpires(c)
  BY <1>8 DEF TimerExpires, ExecInv
<1> QED
  BY <1>1, <1>2, <1>3, <1>5, <1>6, <1>7, <1>8 DEF ExecStep

\* What is on its way stays as it is.
LEMMA StillStays ==
    ASSUME Still, UNCHANGED <<parserVars, inbox, uart>>
    PROVE  Still'
BY DEF Still, parserVars

\* A step of the caller that is served, after which it is served or the lock is free.
LEMMA OwnServe ==
    ASSUME Prompt, LockInv, ExecInv, ServeInv, NEW c \in Callers, ExecStep(c), ~Return(c)
    PROVE  ServeInv'
<1>0. /\ TypeOK /\ obj \in [Callers -> Responses] /\ cmd \in [Callers -> Nat]
      /\ pc \in [Callers -> Holding \cup {"idle", "lock", "return"}]
      /\ expired \in [Callers -> BOOLEAN] /\ result \in [Callers -> {"SUCCESS", "FAILURE", "TIMEOUT"}]
      /\ said \in Seq(Seq(Kinds)) /\ inbox \in Seq(Nat) /\ uart \in Seq(Lines)
      /\ c # None
  BY AtAssumption DEF LockInv, TypeOK
<1>a. pc[c] \notin {"idle", "lock", "return"} => lock = c /\ Served(c)
  BY OwnFacts
<1> USE DEF parserVars
<1>1. CASE TakeLock(c)
  <2>1. lock = None /\ lock' = c /\ pc'[c] = "prepare" /\ Still /\ ~resp_notice /\ resp = None
    BY <1>0, <1>1 DEF TakeLock, Goto, ServeInv, ExecInv
  <2>2. Still' /\ ~resp_notice' /\ resp' = None
    BY <1>1, <2>1, StillStays DEF TakeLock, moduleVars
  <2> QED
    BY <1>0, <2>1, <2>2 DEF ServeInv, Served, Serving, Closing
<1>2. CASE Prepare(c)
  <2>1. pc[c] = "prepare" /\ lock = c /\ Served(c) /\ obj[c].alive
    BY <1>a, <1>2 DEF Prepare, Goto, ExecInv
  <2>2. /\ obj' = [obj EXCEPT ![c].line_counts = 0] /\ pc'[c] = "send" /\ resp' = c /\ lock' = lock
        /\ UNCHANGED <<resp_notice, parserVars, inbox, uart>>
    BY <1>0, <1>2, <2>1 DEF Prepare, Goto, moduleVars
  <2>3. obj'[c].line_counts = 0
    BY <1>0, <2>2, CountsEffect
  <2>4. Still' /\ ~resp_notice'
    BY <2>1, <2>2, StillStays DEF Served
  <2> QED
    BY <1>0, <2>1, <2>2, <2>3, <2>4 DEF ServeInv, Served, Serving, Closing
<1>3. CASE Send(c)
  <2>1. /\ pc[c] = "send" /\ pc'[c] = "poll" /\ lock = c /\ lock' = c /\ resp' = resp /\ obj' = obj
        /\ Still /\ ~resp_notice /\ resp_notice' = resp_notice /\ resp = c /\ obj[c].line_counts = 0
        /\ UNCHANGED <<parserVars, uart>> /\ expired'[c] = FALSE
    BY <1>0, <1>a, <1>3 DEF Send, Goto, Served, clientVars, Transmit
  <2>2. /\ said' = Append(said, <<>>) /\ cmd'[c] = Len(said') /\ inbox' = Append(inbox, Len(said'))
    BY <1>0, <1>3 DEF Send, Transmit
  <2>3. /\ Len(said') = Len(said) + 1 /\ said'[Len(said')] = <<>> /\ Len(said') > 0 /\ Len(said') \in Nat
    BY <1>0, <2>2
  <2>4. Answer(c)' = <<>> /\ Len(Answer(c)') = 0
    BY <2>2, <2>3 DEF Answer
  <2>5. Len(inbox') = 1 /\ inbox'[1] = cmd'[c]
    BY <1>0, <2>1, <2>2, <2>3 DEF Still
  <2>6. Source(c)'
    BY <2>4, <2>5, AtAssumption DEF Source, Final
  <2>7. Shaped(c)'
    BY <2>4, AtAssumption DEF Shaped
  <2>8. /\ ppc' = "read" /\ resp_buf_len' = 0 /\ line_counts' = 0 /\ Taken' = 0
        /\ \A i \in 1 .. Len(uart') : uart'[i].kind = "urc"
    BY <2>1 DEF Still, Taken
  <2>9. \E at \in [1 .. Len(uart') + 1 -> Nat] : Follows(c, at)'
    <3>1. Len(uart') \in Nat
      BY <1>0, <2>1
    <3>2. PICK n \in Nat : n = Len(uart')
      BY <3>1
    <3>3. PICK at \in [1 .. n + 1 -> Nat] : at = [i \in 1 .. n + 1 |-> 1]
      OBVIOUS
    <3>4. \A i \in 1 .. n + 1 : at[i] = 1
      BY <3>3
    <3>5. Follows(c, at)'
      BY <2>4, <2>8, <3>2, <3>4 DEF Follows
    <3> QED
      BY <3>2, <3>5
  <2>10. Holds(c, resp_buf_len)' /\ Reading(c)' /\ ~Final(c)'
    BY <2>4, <2>8 DEF Holds, Reading, Final
  <2>11. Open(c)'
    BY <1>0, <2>1, <2>6, <2>8, <2>9, <2>10 DEF Open
  <2> QED
    BY <1>0, <2>1, <2>2, <2>3, <2>7, <2>11 DEF ServeInv, Served, Serving, Closing
<1>b. ASSUME pc[c] \in Serving, UNCHANGED <<lock, parserVars, obj, cmd, inbox, said, uart>>
      PROVE  /\ Answer(c)' = Answer(c) /\ (Shaped(c)' <=> Shaped(c)) /\ (Complete(c)' <=> Complete(c))
             /\ (Still' <=> Still) /\ lock = c /\ lock' = c /\ Served(c)
             /\ cmd'[c] = Len(said') /\ Len(said') > 0 /\ Shaped(c)'
             /\ obj'[c] = obj[c]
  <2>1. lock = c /\ Served(c) /\ Answer(c)' = Answer(c) /\ (Still' <=> Still)
    BY <1>a, <1>b DEF Serving, Answer, Still
  <2>2. (Shaped(c)' <=> Shaped(c)) /\ (Complete(c)' <=> Complete(c))
    BY <1>b, <2>1 DEF Shaped, Complete, Final, Last, Holds
  <2> QED
    BY <1>b, <2>1, <2>2 DEF Served
<1>4. CASE PollNotice(c)
  <2>1. /\ pc[c] = "poll" /\ resp_notice
        /\ UNCHANGED <<lock, resp, resp_notice, resp_status, parserVars, obj, cmd, expired, inbox, said, uart>>
        /\ \/ resp_status # "OK" /\ result'[c] = "FAILURE" /\ pc'[c] = "clear_resp"
           \/ resp_status = "OK" /\ pc'[c] = "expiry"
    BY <1>0, <1>4 DEF PollNotice, Goto, clientVars, moduleVars
  <2>2. Heard(c) /\ ~expired[c]
    BY <1>a, <2>1 DEF Served, Open, Lost
  <2>3. pc[c] \in Serving
    BY <2>1 DEF Serving
  <2>4. CASE resp_status # "OK"
    <3>1. Outcome(c)' /\ Still'
      BY <1>b, <2>1, <2>2, <2>3, <2>4 DEF Heard, Outcome
    <3> QED
      BY <1>0, <1>b, <2>1, <2>3, <2>4, <3>1 DEF ServeInv, Served, Serving, Closing
  <2>5. CASE resp_status = "OK"
    <3>1. Heard(c)'
      BY <1>b, <2>1, <2>2, <2>3 DEF Heard
    <3> QED
      BY <1>0, <1>b, <2>1, <2>2, <2>3, <2>5, <3>1 DEF ServeInv, Served, Serving, Closing
  <2> QED
    BY <2>4, <2>5
<1>5. CASE PollExpired(c)
  <2>1. /\ pc[c] = "poll" /\ pc'[c] = "expiry" /\ expired[c] /\ pc[c] \in Serving
        /\ UNCHANGED <<lock, resp, resp_notice, resp_status, parserVars, obj, cmd, expired, inbox, said, uart>>
    BY <1>0, <1>5 DEF PollExpired, Goto, clientVars, moduleVars, Serving
  <2>2. Lost(c)
    BY <1>a, <2>1 DEF Served
  <2>3. Lost(c)'
    BY <1>b, <2>1, <2>2 DEF Lost
  <2> QED
    BY <1>0, <1>b, <2>1, <2>3 DEF ServeInv, Served, Serving, Closing
<1>6. CASE CheckExpiry(c)
  <2>1. /\ pc[c] = "expiry" /\ pc'[c] = "clear_resp" /\ pc[c] \in Serving
        /\ result'[c] = (IF expired[c] THEN "TIMEOUT" ELSE "SUCCESS")
        /\ UNCHANGED <<lock, resp, resp_notice, parserVars, obj, cmd, expired, inbox, said, uart>>
    BY <1>0, <1>6 DEF CheckExpiry, Goto, moduleVars, Serving
  <2>2. IF expired[c] THEN Lost(c) ELSE Heard(c) /\ resp_status = "OK"
    BY <1>a, <2>1 DEF Served
  <2>3. Still' /\ Outcome(c)'
    <3>1. CASE expired[c]
      BY <1>b, <2>1, <2>2, <3>1 DEF Lost, Outcome
    <3>2. CASE ~expired[c]
      BY <1>b, <2>1, <2>2, <3>2 DEF Heard, Outcome
    <3> QED
      BY <3>1, <3>2
  <2> QED
    BY <1>0, <1>b, <2>1, <2>3 DEF ServeInv, Served, Serving, Closing
<1>7. CASE ClearResp(c) \/ ClearNotice(c)
  <2>1. /\ pc[c] \in {"clear_resp", "clear_notice"} /\ pc[c] \in Serving
        /\ \/ pc[c] = "clear_resp" /\ pc'[c] = "clear_notice" /\ resp' = None
           \/ pc[c] = "clear_notice" /\ pc'[c] = "unlock" /\ resp' = resp /\ ~resp_notice'
        /\ UNCHANGED <<lock, parserVars, obj, cmd, result, inbox, said, uart>>
    BY <1>0, <1>7 DEF ClearResp, ClearNotice, Goto, moduleVars, Serving
  <2>2. Still /\ Outcome(c) /\ (pc[c] = "clear_notice" => resp = None)
    BY <1>a, <2>1 DEF Served, Closing
  <2>3. Still' /\ Outcome(c)'
    BY <1>b, <2>1, <2>2 DEF Outcome
  <2> QED
    BY <1>0, <1>b, <2>1, <2>2, <2>3 DEF ServeInv, Served, Serving, Closing
<1>8. CASE Unlock(c)
  <2>1. /\ pc[c] = "unlock" /\ lock' = None
        /\ UNCHANGED <<resp, resp_notice, parserVars, inbox, uart>>
    BY <1>8 DEF Unlock, Goto, moduleVars
  <2>2. Still /\ ~resp_notice /\ resp = None
    BY <1>a, <2>1 DEF Served, Closing
  <2> QED
    BY <2>1, <2>2, StillStays DEF ServeInv
<1> QED
  BY <1>1, <1>2, <1>3, <1>4, <1>5, <1>6, <1>7, <1>8 DEF ExecStep

\* The deadline passes only when nothing is coming any more.
LEMMA ExpiryServe ==
    ASSUME Prompt, LockInv, ExecInv, ServeInv, NEW c \in Callers, TimerExpires(c)
    PROVE  ServeInv'
<1>0. /\ TypeOK /\ expired \in [Callers -> BOOLEAN] /\ said \in Seq(Seq(Kinds)) /\ inbox \in Seq(Nat)
      /\ resp_buf_len \in Nat
  BY DEF LockInv, TypeOK
<1>1. /\ pc[c] = "poll" /\ Quiet(c) /\ ~expired[c] /\ pc' = pc /\ expired'[c] = TRUE
      /\ UNCHANGED <<clientVars, obj, parserVars, cmd, inbox, said, uart>>
  <2>1. pc[c] \in ExecPlaces
    BY DEF ExecInv
  <2> QED
    BY <1>0, <2>1 DEF TimerExpires, Prompt, ExecPlaces, Serving, moduleVars
<1>2. lock = c /\ c # None /\ Served(c) /\ ~resp_notice
  BY <1>1, OwnFacts DEF Quiet
<1>3. Open(c) /\ cmd[c] = Len(said) /\ Len(said) > 0 /\ Shaped(c) /\ ppc = "read"
  BY <1>1, <1>2 DEF Served, Heard, Serving, Quiet
<1>4. Answer(c) \in Seq(Kinds)
  BY <1>0, <1>3 DEF Answer
<1>5. Len(inbox) = 0 /\ \A i \in 1 .. Len(uart) : uart[i].kind = "urc"
  <2>1. PICK at \in [1 .. Len(uart) + 1 -> Nat] : Follows(c, at)
    BY <1>3 DEF Open
  <2>2. ASSUME NEW i \in 1 .. Len(uart), uart[i].kind # "urc" PROVE FALSE
    <3>1. uart[i].cmd = cmd[c]
      BY <2>1, <2>2 DEF Follows
    <3> QED
      BY <1>1, <3>1 DEF Quiet
  <2>3. Len(inbox) = 0
    BY <1>1, <1>3 DEF Quiet, Open, Source
  <2> QED
    BY <2>2, <2>3
<1>6. Taken = resp_buf_len /\ Taken <= Len(Answer(c))
  <2>1. PICK at \in [1 .. Len(uart) + 1 -> Nat] : Follows(c, at)
    BY <1>3 DEF Open
  <2>2. Len(uart) \in Nat
    BY DEF LockInv, TypeOK
  <2>3. at[1] <= Len(Answer(c)) + 1 /\ at[1] = Taken + 1 /\ Taken = resp_buf_len
    BY <1>3, <2>1, <2>2 DEF Follows, Taken
  <2> QED
    BY <1>0, <1>4, <2>3
<1>7. Len(Answer(c)) = 0
  <2> SUFFICES ASSUME Final(c) PROVE FALSE
    BY <1>3, <1>5 DEF Open, Source
  <2>1. Taken = Len(Answer(c))
    <3>1. ~ \E i \in 1 .. Len(uart) : uart[i].kind \in Finals
      BY <1>5 DEF Finals
    <3>2. ~ (Taken < Len(Answer(c)))
      BY <1>3, <3>1 DEF Open
    <3> QED
      BY <1>0, <1>4, <1>6, <3>2
  <2>2. Answer(c)[Taken] = "data"
    BY <1>3, <2>1 DEF Open, Reading, Final
  <2> QED
    BY <2>1, <2>2 DEF Final, Last, Finals
<1>8. Lost(c)
  BY <1>0, <1>2, <1>3, <1>5, <1>6, <1>7 DEF Lost, Still, Open
<1>9. Lost(c)' /\ Shaped(c)' /\ cmd'[c] = Len(said') /\ Len(said') > 0
  BY <1>1, <1>3, <1>8 DEF Lost, Still, Shaped, Answer, clientVars, parserVars
<1> QED
  BY <1>1, <1>2, <1>9 DEF ServeInv, Served, Serving, Closing, clientVars

\* The callers' steps keep what is known of the caller that is served.
LEMMA CallerServe ==
    ASSUME Prompt, LockInv, ExecInv, ServeInv, NEW c \in Callers,
           Call(c) \/ ExecStep(c) \/ WaitStep(c) \/ TimerExpires(c)
    PROVE  ServeInv'
<1>0. /\ TypeOK /\ obj \in [Callers -> Responses] /\ cmd \in [Callers -> Nat] /\ pc[c] \in ExecPlaces
      /\ pc \in [Callers -> Holding \cup {"idle", "lock", "return"}]
      /\ expired \in [Callers -> BOOLEAN] /\ result \in [Callers -> {"SUCCESS", "FAILURE", "TIMEOUT"}]
  BY DEF LockInv, TypeOK, ExecInv
<1>1. CASE Call(c) \/ Return(c)
  <2>1. pc[c] \in {"idle", "return"}
    BY <1>1 DEF Call, Return, Goto
  <2>2. lock # c
    BY <2>1 DEF LockInv, Holding
  <2>3. UNCHANGED <<clientVars, parserVars, inbox, said, uart>>
    BY <1>1 DEF Call, Return, moduleVars
  <2>4. \A d \in Callers : d # c => /\ pc'[d] = pc[d] /\ obj'[d] = obj[d] /\ cmd'[d] = cmd[d]
                                    /\ expired'[d] = expired[d] /\ result'[d] = result[d]
    BY <1>0, <1>1 DEF Call, Return, Goto
  <2> QED
    BY <2>2, <2>3, <2>4, OtherServe
<1>2. CASE WaitStep(c)
  BY <1>0, <1>2 DEF WaitStep, WaitPrepare, WaitSend, WaitCheck, WaitExpiry, WaitDelete,
                    WaitClearResp, Goto, ExecPlaces, Serving
<1> QED
  BY <1>1, <1>2, OwnServe, ExpiryServe

\* While something is on its way, the lock holder polls, and the answer is at work on.
LEMMA AtWork ==
    ASSUME LockInv, ExecInv, ServeInv, ~Still
    PROVE  /\ lock \in Callers /\ lock # None /\ pc[lock] = "poll" /\ ~expired[lock]
           /\ Open(lock) /\ Shaped(lock) /\ cmd[lock] = Len(said) /\ Len(said) > 0
           /\ obj[lock].alive /\ obj[lock].line_num = 0
<1>1. lock \in Callers /\ lock # None /\ Served(lock)
  BY DEF LockInv, TypeOK, ServeInv
<1>2. pc[lock] \in {"prepare", "send"} \cup Serving
  <2>1. pc[lock] \in Holding \cap ExecPlaces
    BY <1>1 DEF LockInv, ExecInv
  <2> QED
    BY <2>1 DEF Holding, ExecPlaces
<1>3. pc[lock] = "poll" /\ ~expired[lock] /\ Open(lock)
  BY <1>1, <1>2 DEF Served, Serving, Closing, Lost, Heard
<1> QED
  BY <1>1, <1>3 DEF Served, Serving, ExecInv

\* How far the parser has got in the answer.
LEMMA OpenFacts ==
    ASSUME LockInv, NEW c \in Callers, cmd[c] = Len(said), Len(said) > 0, Open(c)
    PROVE  /\ Answer(c) \in Seq(Kinds) /\ Len(Answer(c)) \in Nat
           /\ Len(uart) \in Nat /\ resp_buf_len \in Nat /\ Taken \in Nat
           /\ Taken <= Len(Answer(c)) /\ resp_buf_len <= Taken
<1>1. /\ said \in Seq(Seq(Kinds)) /\ Len(uart) \in Nat /\ resp_buf_len \in Nat
  BY DEF LockInv, TypeOK
<1>2. Answer(c) \in Seq(Kinds) /\ Len(Answer(c)) \in Nat
  BY <1>1 DEF Answer
<1>3. Taken \in Nat /\ resp_buf_len <= Taken
  BY <1>1 DEF Taken
<1>4. PICK at \in [1 .. Len(uart) + 1 -> Nat] : Follows(c, at)
  BY DEF Open
<1>5. at[1] <= at[Len(uart) + 1]
  BY <1>1, <1>4 DEF Follows
<1> QED
  BY <1>1, <1>2, <1>3, <1>4, <1>5 DEF Follows

\* Where the lines of the UART are in the answer.
LEMMA Positions ==
    ASSUME LockInv, NEW c \in Callers, cmd[c] = Len(said), Len(said) > 0, Open(c),
           NEW at \in [1 .. Len(uart) + 1 -> Nat], Follows(c, at)
    PROVE  /\ \A i \in 1 .. Len(uart) + 1 :
                 at[i] \in Nat /\ Taken + 1 <= at[i] /\ at[i] <= Len(Answer(c)) + 1
           /\ \A i \in 1 .. Len(uart) : uart[i].kind # "urc" => at[i] \in 1 .. Len(Answer(c))
<1>0. /\ Len(uart) \in Nat /\ Len(Answer(c)) \in Nat /\ Taken \in Nat
  BY OpenFacts
<1>1. ASSUME NEW i \in 1 .. Len(uart) + 1
      PROVE  at[i] \in Nat /\ Taken + 1 <= at[i] /\ at[i] <= Len(Answer(c)) + 1
  <2>1. 1 \in 1 .. Len(uart) + 1 /\ Len(uart) + 1 \in 1 .. Len(uart) + 1 /\ 1 <= i /\ i <= Len(uart) + 1
    BY <1>0
  <2>2. at[1] <= at[i] /\ at[i] <= at[Len(uart) + 1]
    BY <2>1 DEF Follows
  <2> QED
    BY <1>0, <2>2 DEF Follows
<1>2. ASSUME NEW i \in 1 .. Len(uart), uart[i].kind # "urc"
      PROVE  at[i] \in 1 .. Len(Answer(c))
  <2>1. i \in 1 .. Len(uart) + 1 /\ i + 1 \in 1 .. Len(uart) + 1
    BY <1>0
  <2>2. at[i + 1] = at[i] + 1
    BY <1>2 DEF Follows
  <2> QED
    BY <1>0, <1>1, <2>1, <2>2
<1> QED
  BY <1>1, <1>2

\* The parser's and the module's steps when nothing is on its way.
LEMMA QuietStep ==
    ASSUME LockInv, ServeInv, Still, Still', UNCHANGED <<clientVars, callerVars, obj, said>>,
           ~ (lock # None /\ pc[lock] = "poll" /\ ~expired[lock] /\ Open(lock))
    PROVE  ServeInv'
<1> USE DEF clientVars, callerVars
<1>1. CASE lock = None
  BY <1>1 DEF ServeInv
<1>2. CASE lock # None
  <2>1. lock \in Callers /\ Served(lock) /\ lock' = lock
    BY <1>2 DEF LockInv, TypeOK, ServeInv
  <2> SUFFICES ASSUME NEW c \in Callers, lock = c, Served(c),
                      ~ (pc[c] = "poll" /\ ~expired[c] /\ Open(c))
               PROVE  Served(c)'
    BY <1>2, <2>1 DEF ServeInv
  <2>2. Answer(c)' = Answer(c)
    BY DEF Answer
  <2>3. (Final(c)' <=> Final(c)) /\ (Shaped(c)' <=> Shaped(c)) /\ \A n : Holds(c, n)' <=> Holds(c, n)
    BY <2>2 DEF Final, Shaped, Holds, Last
  <2>4. (Complete(c)' <=> Complete(c)) /\ (Outcome(c)' <=> Outcome(c))
    BY <2>2, <2>3 DEF Complete, Outcome, Last
  <2>5. (Heard(c)' <=> Heard(c)) /\ (Lost(c)' <=> Lost(c))
    BY <2>2, <2>4 DEF Heard, Lost, Last
  <2> QED
    BY <2>3, <2>4, <2>5 DEF Served
<1> QED
  BY <1>1, <1>2

\* Their steps while the answer is at work on.
LEMMA OpenStep ==
    ASSUME NEW c \in Callers, c # None, lock = c, pc[c] = "poll", ~expired[c],
           UNCHANGED <<lock, callerVars>>, cmd[c] = Len(said'), Len(said') > 0,
           Shaped(c)', Open(c)' \/ Heard(c)'
    PROVE  ServeInv'
BY DEF ServeInv, Served, Serving, Closing, callerVars

\* The parser never uses a response that is gone, and changes nothing else in one.
LEMMA ParserExec ==
    ASSUME Prompt, LockInv, ExecInv, ServeInv, Parser
    PROVE  ExecInv'
<1>0. /\ obj \in [Callers -> Responses] /\ resp_buf_len \in Nat /\ line_counts \in Nat
      /\ line \in Lines /\ BufSize \in Nat
      /\ resp \in Callers \cup {None}
  BY AtAssumption DEF LockInv, TypeOK
<1>1. ASSUME ppc \in {"copy", "classify", "store"} PROVE resp \in Callers /\ ~Dangling
  <2>1. ~Still
    BY <1>1 DEF Still
  <2> QED
    BY <1>1, <2>1, AtWork DEF Open, Dangling
<1>2. ASSUME UNCHANGED <<obj, callerVars, crashed>> PROVE ExecInv'
  BY <1>2 DEF ExecInv, callerVars
<1>3. CASE ReadLine \/ CheckResp \/ Detach \/ Notify
  BY <1>2, <1>3 DEF ReadLine, CheckResp, Detach, Notify
<1>4. CASE CopyLine
  <2>1. ~Dangling /\ resp \in Callers
    BY <1>1, <1>4 DEF CopyLine, ParserGoto
  <2>2. UNCHANGED <<callerVars, crashed>>
    BY <1>4, <2>1 DEF CopyLine
  <2>3. CASE Fits
    <3>1. obj' = [obj EXCEPT ![resp].buf[resp_buf_len] = line]
      BY <1>4, <2>1, <2>3 DEF CopyLine
    <3>2. resp_buf_len \in 0 .. BufSize - 1
      BY <1>0, <2>3 DEF Fits
    <3>3. \A d \in Callers : obj'[d].alive = obj[d].alive /\ obj'[d].line_num = obj[d].line_num
      BY <1>0, <2>1, <3>1, <3>2, BufEffect
    <3> QED
      BY <2>2, <3>3 DEF ExecInv, callerVars
  <2>4. CASE ~Fits
    BY <1>2, <1>4, <2>1, <2>2, <2>4 DEF CopyLine
  <2> QED
    BY <2>3, <2>4
<1>5. CASE Classify
  BY <1>1, <1>2, <1>5 DEF Classify, ParserGoto
<1>6. CASE StoreCounts
  <2>1. ~Dangling /\ resp \in Callers
    BY <1>1, <1>6 DEF StoreCounts, ParserGoto
  <2>2. UNCHANGED <<callerVars, crashed>> /\ obj' = [obj EXCEPT ![resp].line_counts = line_counts]
    BY <1>6, <2>1 DEF StoreCounts
  <2>3. \A d \in Callers : obj'[d].alive = obj[d].alive /\ obj'[d].line_num = obj[d].line_num
    BY <1>0, <2>1, <2>2, CountsEffect
  <2> QED
    BY <2>2, <2>3 DEF ExecInv, callerVars
<1> QED
  BY <1>3, <1>4, <1>5, <1>6 DEF Parser

\* The parser takes a line from the UART.
LEMMA ReadServe ==
    ASSUME LockInv, ExecInv, ServeInv, ReadLine
    PROVE  ServeInv'
<1>0. /\ uart \in Seq(Lines) /\ uart # <<>> /\ uart' = Tail(uart) /\ ppc = "read"
      /\ UNCHANGED <<clientVars, obj, resp_buf_len, line_counts, callerVars, inbox, said>>
      /\ Len(uart) \in Nat \ {0} /\ Len(uart') = Len(uart) - 1
      /\ \A i \in 1 .. Len(uart') : uart'[i] = uart[i + 1] /\ i + 1 \in 1 .. Len(uart)
      /\ Head(uart) = uart[1]
      /\ IF uart[1].kind = "urc" THEN ppc' = "read" /\ line' = Blank ELSE ppc' = "check" /\ line' = uart[1]
  BY DEF ReadLine, LockInv, TypeOK, ParserGoto
<1> USE DEF clientVars, callerVars
<1>1. CASE ~ (lock # None /\ pc[lock] = "poll" /\ ~expired[lock] /\ Open(lock))
  <2>1. Still
    BY <1>1, AtWork
  <2>2. Still'
    BY <1>0, <2>1 DEF Still
  <2> QED
    BY <1>0, <1>1, <2>1, <2>2, QuietStep
<1>2. CASE lock # None /\ pc[lock] = "poll" /\ ~expired[lock] /\ Open(lock)
  <2>1. /\ lock \in Callers /\ Shaped(lock) /\ cmd[lock] = Len(said) /\ Len(said) > 0
    BY <1>2 DEF LockInv, TypeOK, ServeInv, Served, Serving
  <2> SUFFICES ASSUME NEW c \in Callers, lock = c, c # None, pc[c] = "poll", ~expired[c], Open(c),
                      Shaped(c), cmd[c] = Len(said), Len(said) > 0
               PROVE  ServeInv'
    BY <1>2, <2>1
  <2>2. /\ Answer(c) \in Seq(Kinds) /\ Len(Answer(c)) \in Nat
        /\ resp_buf_len \in Nat /\ Taken = resp_buf_len
    BY <1>0, OpenFacts DEF Taken
  <2>3. Answer(c)' = Answer(c)
    BY <1>0 DEF Answer
  <2>4. /\ Shaped(c)' /\ (Final(c)' <=> Final(c)) /\ Source(c)'
        /\ \A n : Holds(c, n)' <=> Holds(c, n)
    BY <1>0, <2>3 DEF Shaped, Final, Source, Holds, Open, Last
  <2>5. PICK at \in [1 .. Len(uart) + 1 -> Nat] : Follows(c, at)
    BY DEF Open
  <2>6. /\ at[1] = Taken + 1
        /\ uart[1].kind # "urc" => at[1] \in 1 .. Len(Answer(c))
        /\ 1 \in 1 .. Len(uart)
    <3>1. \A i \in 1 .. Len(uart) : uart[i].kind # "urc" => at[i] \in 1 .. Len(Answer(c))
      BY <2>5, Positions
    <3>2. at[1] = Taken + 1
      BY <2>5 DEF Follows
    <3> QED
      BY <1>0, <3>1, <3>2
  <2>7. IF uart[1].kind = "urc" THEN at[2] = at[1]
        ELSE at[2] = at[1] + 1 /\ uart[1].kind = Answer(c)[at[1]]
    BY <2>5, <2>6 DEF Follows
  <2>8. Taken' = IF uart[1].kind = "urc" THEN Taken ELSE Taken + 1
    BY <1>0, <2>2 DEF Taken
  <2>9. \E next \in [1 .. Len(uart') + 1 -> Nat] : Follows(c, next)'
    <3>0. Len(uart') \in Nat /\ Len(uart) = Len(uart') + 1
      BY <1>0
    <3>1. PICK n \in Nat : n = Len(uart') /\ Len(uart) = n + 1
      BY <3>0
    <3>a. \A i \in 1 .. n + 1 : i + 1 \in 1 .. Len(uart) + 1
      BY <3>1
    <3>b. \A i \in 1 .. n + 1 : at[i + 1] \in Nat
      BY <3>a
    <3>2. PICK next \in [1 .. n + 1 -> Nat] : next = [i \in 1 .. n + 1 |-> at[i + 1]]
      BY <3>b
    <3>3. \A i \in 1 .. n + 1 : next[i] = at[i + 1] /\ i + 1 \in 1 .. Len(uart) + 1
      BY <3>a, <3>2
    <3>4. next[1] = Taken' + 1
      BY <2>2, <2>6, <2>7, <2>8, <3>3
    <3>5. next[n + 1] = Len(Answer(c)') + 1
      BY <2>3, <2>5, <3>1, <3>3 DEF Follows
    <3>6. \A i, j \in 1 .. n + 1 : i <= j => next[i] <= next[j]
      <4> TAKE i, j \in 1 .. n + 1
      <4>0. /\ i + 1 \in 1 .. Len(uart) + 1 /\ j + 1 \in 1 .. Len(uart) + 1
            /\ i <= j => i + 1 <= j + 1
        BY <3>3
      <4>1. i <= j => at[i + 1] <= at[j + 1]
        BY <2>5, <4>0 DEF Follows
      <4> QED
        BY <3>3, <4>1
    <3>7. ASSUME NEW i \in 1 .. n
          PROVE  IF uart'[i].kind = "urc" THEN next[i + 1] = next[i]
                 ELSE /\ next[i + 1] = next[i] + 1
                      /\ uart'[i].cmd = cmd'[c] /\ uart'[i].kind = Answer(c)'[next[i]]
      <4>1. /\ uart'[i] = uart[i + 1] /\ i + 1 \in 1 .. Len(uart)
            /\ next[i] = at[i + 1] /\ next[i + 1] = at[(i + 1) + 1]
        BY <1>0, <3>1, <3>3
      <4>2. IF uart[i + 1].kind = "urc" THEN at[(i + 1) + 1] = at[i + 1]
            ELSE /\ at[(i + 1) + 1] = at[i + 1] + 1
                 /\ uart[i + 1].cmd = cmd[c] /\ uart[i + 1].kind = Answer(c)[at[i + 1]]
        BY <2>5, <4>1 DEF Follows
      <4> QED
        BY <1>0, <2>3, <4>1, <4>2
    <3> QED
      BY <3>1, <3>4, <3>5, <3>6, <3>7 DEF Follows
  <2>10. Reading(c)'
    BY <1>0, <2>2, <2>3, <2>6, <2>7, <2>8 DEF Reading, Open
  <2>11. Final(c)' /\ Taken' < Len(Answer(c)') => \E i \in 1 .. Len(uart') : uart'[i].kind \in Finals
    <3> SUFFICES ASSUME Final(c), Taken' < Len(Answer(c))
                 PROVE  \E i \in 1 .. Len(uart') : uart'[i].kind \in Finals
      BY <2>3, <2>4
    <3>1. Taken < Len(Answer(c))
      BY <2>2, <2>8
    <3>2. PICK i \in 1 .. Len(uart) : uart[i].kind \in Finals
      BY <3>1 DEF Open
    <3>3. uart[1].kind \notin Finals
      <4>1. CASE uart[1].kind = "urc"
        BY <4>1 DEF Finals
      <4>2. CASE uart[1].kind # "urc"
        <5>1. at[1] \in 1 .. Len(Answer(c)) - 1
          BY <2>2, <2>6, <2>8, <4>2
        <5>2. uart[1].kind = "data"
          BY <2>7, <4>2, <5>1 DEF Shaped
        <5> QED
          BY <5>2 DEF Finals
      <4> QED
        BY <4>1, <4>2
    <3>4. i # 1
      BY <3>2, <3>3
    <3>5. i - 1 \in 1 .. Len(uart') /\ i = (i - 1) + 1
      BY <1>0, <3>4
    <3>6. uart'[i - 1] = uart[i]
      BY <1>0, <3>5
    <3> QED
      BY <3>2, <3>5, <3>6
  <2>12. Open(c)'
    BY <1>0, <2>4, <2>9, <2>10, <2>11 DEF Open
  <2> QED
    BY <1>0, <2>4, <2>12, OpenStep
<1> QED
  BY <1>1, <1>2

\* The parser puts the line in the response and looks at what it says.
LEMMA LineServe ==
    ASSUME Prompt, LockInv, ExecInv, ServeInv, CheckResp \/ CopyLine \/ Classify \/ StoreCounts \/ Detach
    PROVE  ServeInv'
<1>0. /\ obj \in [Callers -> Responses] /\ resp_buf_len \in Nat /\ line_counts \in Nat
      /\ line \in Lines /\ BufSize \in Nat /\ MaxData \in Nat
  BY AtAssumption DEF LockInv, TypeOK
<1>1. ppc \in {"check", "copy", "classify", "store", "detach"}
  BY DEF CheckResp, CopyLine, Classify, StoreCounts, Detach, ParserGoto
<1>2. ~Still
  BY <1>1 DEF Still
<1>3. lock \in Callers /\ resp = lock /\ ~ (resp = None \/ ~obj[resp].alive)
  BY <1>1, <1>2, AtWork DEF Open
<1> SUFFICES ASSUME NEW c \in Callers, c = lock, c # None, pc[c] = "poll", ~expired[c], Open(c),
                    Shaped(c), cmd[c] = Len(said), Len(said) > 0, resp = c, ~Dangling,
                    obj[c].line_num = 0
             PROVE  ServeInv'
  BY <1>2, <1>3, AtWork DEF Dangling
<1>4. /\ Answer(c) \in Seq(Kinds) /\ Len(Answer(c)) \in Nat /\ Taken \in Nat
      /\ Taken <= Len(Answer(c)) /\ resp_buf_len <= Taken
  BY OpenFacts
<1>5. Taken > 0 /\ line.kind = Answer(c)[Taken]
  BY <1>1 DEF Open, Reading
<1>6. UNCHANGED <<lock, callerVars, resp_notice, inbox, said, uart>>
  BY DEF CheckResp, CopyLine, Classify, StoreCounts, Detach, clientVars, moduleVars
<1> USE DEF callerVars
<1>7. Answer(c)' = Answer(c) /\ (Final(c)' <=> Final(c)) /\ Shaped(c)' /\ Source(c)'
  BY <1>6 DEF Answer, Final, Shaped, Source, Open, Last
<1>8. ASSUME Taken' = Taken PROVE \E at \in [1 .. Len(uart') + 1 -> Nat] : Follows(c, at)'
  <2>1. PICK at \in [1 .. Len(uart) + 1 -> Nat] : Follows(c, at)
    BY DEF Open
  <2>2. Follows(c, at)'
    BY <1>6, <1>7, <1>8, <2>1 DEF Follows
  <2> QED
    BY <1>6, <2>2
<1>9. ASSUME Taken' = Taken, resp' = (IF ppc' = "notify" THEN None ELSE c),
             line_counts' = resp_buf_len', Holds(c, resp_buf_len)', Reading(c)',
             obj'[c].line_counts = (IF ppc' \in {"detach", "notify"} THEN line_counts' ELSE 0)
      PROVE  ServeInv'
  <2>1. Final(c)' /\ Taken' < Len(Answer(c)') => \E i \in 1 .. Len(uart') : uart'[i].kind \in Finals
    BY <1>6, <1>7, <1>9 DEF Open
  <2>2. Open(c)'
    BY <1>6, <1>7, <1>8, <1>9, <2>1 DEF Open
  <2> QED
    BY <1>6, <1>7, <2>2, OpenStep
<1>10. ASSUME obj' = obj, resp_buf_len' = resp_buf_len PROVE Holds(c, resp_buf_len)'
  BY <1>6, <1>7, <1>10 DEF Holds, Open
<1>11. CASE CheckResp
  <2>1. /\ ppc = "check" /\ ppc' = "copy" /\ line' = line
        /\ UNCHANGED <<obj, resp, resp_status, resp_buf_len, line_counts>>
    BY <1>11 DEF CheckResp, ParserGoto, clientVars
  <2>2. Taken' = Taken
    BY <2>1 DEF Taken
  <2>3. Reading(c)'
    BY <1>5, <1>7, <2>1, <2>2 DEF Reading
  <2> QED
    BY <1>9, <1>10, <2>1, <2>2, <2>3 DEF Open
<1>12. CASE CopyLine
  <2>1. ppc = "copy" /\ ppc' = "classify" /\ line' = line /\ resp' = resp /\ Taken = resp_buf_len + 1
    BY <1>12 DEF CopyLine, ParserGoto, Taken
  <2>2. Fits
    BY <1>0, <1>4, <2>1 DEF Fits, Shaped, Prompt
  <2>3. /\ obj' = [obj EXCEPT ![c].buf[resp_buf_len] = line]
        /\ resp_buf_len' = resp_buf_len + 1 /\ line_counts' = line_counts + 1
    BY <1>12, <2>2 DEF CopyLine
  <2>4. resp_buf_len \in 0 .. BufSize - 1
    BY <1>0, <2>2 DEF Fits
  <2>5. /\ obj'[c].line_counts = obj[c].line_counts
        /\ obj'[c].buf[resp_buf_len] = line
        /\ \A j \in 0 .. BufSize - 1 : j # resp_buf_len => obj'[c].buf[j] = obj[c].buf[j]
    <3>1. obj[c].buf \in [0 .. BufSize - 1 -> Lines]
      BY <1>0 DEF Responses
    <3>2. obj'[c].line_counts = obj[c].line_counts /\ obj'[c].buf = [obj[c].buf EXCEPT ![resp_buf_len] = line]
      BY <1>0, <2>3, <2>4, BufEffect
    <3> QED
      BY <2>4, <3>1, <3>2
  <2>6. Taken' = Taken
    BY <2>1, <2>3 DEF Taken
  <2>7. Holds(c, resp_buf_len)'
    <3> SUFFICES ASSUME NEW i \in 1 .. resp_buf_len + 1
                 PROVE  obj'[c].buf[i - 1].kind = Answer(c)[i]
      BY <1>7, <2>3 DEF Holds
    <3>1. CASE i = resp_buf_len + 1
      <4>1. i - 1 = resp_buf_len
        BY <1>0, <3>1
      <4> QED
        BY <1>5, <2>1, <2>5, <3>1, <4>1
    <3>2. CASE i # resp_buf_len + 1
      <4>1. i \in 1 .. resp_buf_len /\ i - 1 \in 0 .. BufSize - 1 /\ i - 1 # resp_buf_len
        BY <1>0, <2>4, <3>2
      <4> QED
        BY <2>5, <4>1 DEF Open, Holds
    <3> QED
      BY <3>1, <3>2
  <2>8. Reading(c)'
    BY <1>5, <1>7, <2>1, <2>6 DEF Reading
  <2>9. line_counts' = resp_buf_len' /\ obj'[c].line_counts = 0
    BY <2>1, <2>3, <2>5 DEF Open
  <2> QED
    BY <1>9, <2>1, <2>6, <2>7, <2>8, <2>9
<1>13. CASE Classify
  <2>0. line.kind \in Finals \cup {"data"}
    BY <1>4, <1>5 DEF Shaped
  <2>1. Verdict(line, obj[c].line_num) =
          IF line.kind = "ok" THEN "OK" ELSE IF line.kind = "error" THEN "ERROR" ELSE "more"
    BY DEF Verdict
  <2>2. /\ ppc = "classify" /\ UNCHANGED <<obj, resp, resp_buf_len, line_counts>>
        /\ IF line.kind \in Finals
           THEN /\ ppc' = "store" /\ line' = line
                /\ resp_status' = (IF line.kind = "ok" THEN "OK" ELSE "ERROR")
           ELSE ppc' = "read"
    BY <1>13, <2>1 DEF Classify, ParserGoto, Finals
  <2>3. Taken' = Taken
    BY <2>2 DEF Taken
  <2>4. Reading(c)'
    BY <1>5, <1>7, <2>0, <2>2, <2>3 DEF Reading
  <2> QED
    BY <1>9, <1>10, <2>2, <2>3, <2>4 DEF Open
<1>14. CASE StoreCounts
  <2>1. /\ ppc = "store" /\ ppc' = "detach"
        /\ UNCHANGED <<line, resp, resp_status, resp_buf_len, line_counts>>
        /\ obj' = [obj EXCEPT ![c].line_counts = line_counts]
    BY <1>14 DEF StoreCounts, ParserGoto, clientVars
  <2>2. obj'[c].line_counts = line_counts /\ obj'[c].buf = obj[c].buf
    BY <1>0, <2>1, CountsEffect
  <2>3. Taken' = Taken
    BY <2>1 DEF Taken
  <2>4. Reading(c)' /\ Holds(c, resp_buf_len)'
    BY <1>5, <1>7, <2>1, <2>2, <2>3 DEF Reading, Holds, Open
  <2> QED
    BY <1>9, <2>1, <2>2, <2>3, <2>4 DEF Open
<1>15. CASE Detach
  <2>1. /\ ppc = "detach" /\ ppc' = "notify" /\ resp' = None
        /\ UNCHANGED <<line, obj, resp_status, resp_buf_len, line_counts>>
    BY <1>15 DEF Detach, ParserGoto
  <2>2. Taken' = Taken
    BY <2>1 DEF Taken
  <2>3. Reading(c)'
    BY <1>5, <1>7, <2>1, <2>2 DEF Reading, Open
  <2> QED
    BY <1>9, <1>10, <2>1, <2>2, <2>3 DEF Open
<1> QED
  BY <1>11, <1>12, <1>13, <1>14, <1>15

\* The parser reports a complete answer.
LEMMA NotifyServe ==
    ASSUME LockInv, ExecInv, ServeInv, Notify
    PROVE  ServeInv'
<1>0. /\ ppc = "notify" /\ ppc' = "read" /\ resp_notice' = TRUE /\ resp_buf_len' = 0 /\ line_counts' = 0
      /\ UNCHANGED <<lock, resp, resp_status, obj, callerVars, inbox, said, uart>>
  BY DEF Notify, ParserGoto, moduleVars
<1>1. ~Still
  BY <1>0 DEF Still
<1> SUFFICES ASSUME NEW c \in Callers, c = lock, c # None, pc[c] = "poll", ~expired[c], Open(c),
                    Shaped(c), cmd[c] = Len(said), Len(said) > 0
             PROVE  ServeInv'
  BY <1>1, AtWork
<1> USE DEF callerVars
<1>2. /\ Answer(c) \in Seq(Kinds) /\ Len(Answer(c)) \in Nat /\ Taken \in Nat /\ Len(uart) \in Nat
      /\ Taken <= Len(Answer(c)) /\ Taken = resp_buf_len
  BY <1>0, OpenFacts DEF Taken
<1>3. /\ Taken > 0 /\ line.kind = Answer(c)[Taken] /\ line.kind \in Finals
      /\ (resp_status = "OK" <=> line.kind = "ok") /\ resp = None
  BY <1>0 DEF Open, Reading
<1>4. Taken = Len(Answer(c))
  <2> SUFFICES ASSUME Taken # Len(Answer(c)) PROVE FALSE
    OBVIOUS
  <2>1. Taken \in 1 .. Len(Answer(c)) - 1
    BY <1>2, <1>3
  <2>2. Answer(c)[Taken] = "data"
    BY <2>1 DEF Shaped
  <2> QED
    BY <1>3, <2>2 DEF Finals
<1>5. Final(c) /\ Last(Answer(c)) = line.kind
  BY <1>3, <1>4 DEF Final, Last
<1>6. Len(inbox) = 0
  BY <1>3, <1>4, <1>5 DEF Open, Source
<1>7. ASSUME NEW i \in 1 .. Len(uart), uart[i].kind # "urc" PROVE FALSE
  <2>1. PICK at \in [1 .. Len(uart) + 1 -> Nat] : Follows(c, at)
    BY DEF Open
  <2>2. at[i] \in 1 .. Len(Answer(c))
    BY <1>7, <2>1, Positions
  <2>3. i \in 1 .. Len(uart) + 1
    BY <1>2
  <2>4. Taken + 1 <= at[i]
    BY <2>1, <2>3, Positions
  <2> QED
    BY <1>2, <1>4, <2>2, <2>4
<1>8. Answer(c)' = Answer(c)
  BY <1>0 DEF Answer
<1>9. Still'
  BY <1>0, <1>6, <1>7 DEF Still
<1>10. Complete(c)'
  <2>1. obj[c].line_counts = Len(Answer(c)) /\ Holds(c, Len(Answer(c)))
    BY <1>0, <1>2, <1>4 DEF Open
  <2> QED
    BY <1>0, <1>5, <1>8, <2>1 DEF Complete, Final, Holds, Last
<1>11. Heard(c)' /\ Shaped(c)'
  BY <1>0, <1>3, <1>5, <1>8, <1>9, <1>10 DEF Heard, Shaped, Last
<1> QED
  BY <1>0, <1>11, OpenStep

\* What the module says, it says for the lock holder's command.
LEMMA EmitEffect ==
    ASSUME LockInv, ExecInv, ServeInv, NEW kind \in Finals \cup {"data"}, Emit(kind),
           cmd' = cmd, lock' = lock
    PROVE  /\ ~Still /\ Len(inbox) = 1 /\ Head(inbox) = cmd[lock]
           /\ ~Final(lock) /\ Len(Answer(lock)) <= MaxData
           /\ Len(said') = Len(said) /\ Answer(lock)' = Append(Answer(lock), kind)
<1>0. inbox \in Seq(Nat) /\ inbox # <<>> /\ said \in Seq(Seq(Kinds)) /\ kind \in Kinds
  BY DEF LockInv, TypeOK, Emit, Kinds
<1>1. ~Still
  BY <1>0 DEF Still
<1> SUFFICES ASSUME NEW c \in Callers, c = lock, Open(c), cmd[c] = Len(said), Len(said) > 0
             PROVE  /\ Len(inbox) = 1 /\ Head(inbox) = cmd[c] /\ ~Final(c) /\ Len(Answer(c)) <= MaxData
                    /\ Len(said') = Len(said) /\ said'[cmd[c]] = Append(said[cmd[c]], kind)
                    /\ lock' = lock
  BY <1>1, AtWork DEF Answer
<1>2. Len(inbox) = 1 /\ Head(inbox) = cmd[c] /\ ~Final(c) /\ Len(Answer(c)) <= MaxData
  BY <1>0 DEF Open, Source
<1>3. cmd[c] \in 1 .. Len(said) /\ said[cmd[c]] \in Seq(Kinds)
  BY <1>0
<1>4. said' = [said EXCEPT ![cmd[c]] = Append(said[cmd[c]], kind)]
  BY <1>2 DEF Emit
<1>5. Len(said') = Len(said) /\ said'[cmd[c]] = Append(said[cmd[c]], kind)
  BY <1>0, <1>3, <1>4
<1> QED
  BY <1>2, <1>5

\* It is the next line of the answer.
LEMMA EmitServe ==
    ASSUME LockInv, ExecInv, ServeInv, NEW kind \in Finals \cup {"data"}, Emit(kind),
           UNCHANGED <<clientVars, obj, parserVars, callerVars>>,
           IF kind \in Finals THEN inbox' = Tail(inbox)
           ELSE inbox' = inbox /\ Len(said[Head(inbox)]) < MaxData
    PROVE  ServeInv'
<1>0. /\ inbox \in Seq(Nat) /\ uart \in Seq(Lines) /\ MaxData \in Nat /\ kind \in Kinds
      /\ cmd' = cmd /\ lock' = lock
  BY AtAssumption DEF LockInv, TypeOK, Kinds, callerVars, clientVars
<1>1. ~Still
  BY <1>0, EmitEffect
<1> SUFFICES ASSUME NEW c \in Callers, c = lock, c # None, pc[c] = "poll", ~expired[c], Open(c),
                    Shaped(c), cmd[c] = Len(said), Len(said) > 0
             PROVE  ServeInv'
  BY <1>1, AtWork
<1>2. /\ Answer(c) \in Seq(Kinds) /\ Len(Answer(c)) \in Nat /\ Taken \in Nat /\ Len(uart) \in Nat
      /\ Taken <= Len(Answer(c)) /\ resp_buf_len <= Taken /\ resp_buf_len \in Nat
  BY OpenFacts
<1>3. /\ Len(inbox) = 1 /\ Head(inbox) = cmd[c] /\ ~Final(c) /\ Len(Answer(c)) <= MaxData
      /\ Len(said') = Len(said)
  BY <1>0, EmitEffect
<1>4. Answer(c)' = Append(Answer(c), kind)
  <2>1. Answer(lock)' = Append(Answer(lock), kind)
    BY <1>0, EmitEffect
  <2> QED
    BY <1>0, <2>1 DEF Answer
<1> USE DEF clientVars, parserVars, callerVars
<1>5. /\ Len(Answer(c)') = Len(Answer(c)) + 1 /\ Answer(c)'[Len(Answer(c)')] = kind
      /\ \A i \in 1 .. Len(Answer(c)) : Answer(c)'[i] = Answer(c)[i]
  BY <1>2, <1>4
<1>6. uart' = Append(uart, [cmd |-> cmd[c], kind |-> kind])
  BY <1>3 DEF Emit
<1>7. /\ Len(uart') = Len(uart) + 1 /\ uart'[Len(uart) + 1] = [cmd |-> cmd[c], kind |-> kind]
      /\ \A i \in 1 .. Len(uart) : uart'[i] = uart[i]
  BY <1>0, <1>2, <1>6
<1>8. \A i \in 1 .. Len(Answer(c)) : Answer(c)[i] = "data"
  <2> SUFFICES ASSUME NEW i \in 1 .. Len(Answer(c)) PROVE Answer(c)[i] = "data"
    OBVIOUS
  <2>1. CASE i = Len(Answer(c))
    BY <1>2, <1>3, <2>1 DEF Shaped, Final, Last
  <2>2. CASE i # Len(Answer(c))
    <3>1. i \in 1 .. Len(Answer(c)) - 1
      BY <1>2, <2>2
    <3> QED
      BY <3>1 DEF Shaped
  <2> QED
    BY <2>1, <2>2
<1>9. Shaped(c)'
  <2>1. \A i \in 1 .. Len(Answer(c)') - 1 : i \in 1 .. Len(Answer(c)) /\ Answer(c)'[i] = "data"
    BY <1>2, <1>5, <1>8
  <2>2. \A i \in 1 .. Len(Answer(c)') : Answer(c)'[i] \in Finals \cup {"data"}
    BY <1>2, <1>5, <1>8
  <2> QED
    BY <1>0, <1>2, <1>3, <1>5, <2>1, <2>2 DEF Shaped
<1>10. Final(c)' <=> kind \in Finals
  BY <1>2, <1>5 DEF Final, Last
<1>11. Source(c)'
  <2>1. CASE kind \in Finals
    <3>1. Len(Tail(inbox)) = 0
      BY <1>0, <1>3
    <3>2. inbox' = Tail(inbox)
      BY <2>1
    <3> QED
      BY <1>10, <2>1, <3>1, <3>2 DEF Source
  <2>2. CASE kind \notin Finals
    <3>1. inbox' = inbox /\ Len(Answer(c)) < MaxData
      BY <1>3, <2>2 DEF Answer
    <3> QED
      BY <1>0, <1>2, <1>3, <1>5, <1>10, <2>2, <3>1 DEF Source
  <2> QED
    BY <2>1, <2>2
<1>12. Taken' = Taken
  BY DEF Taken
<1>13. \E next \in [1 .. Len(uart') + 1 -> Nat] : Follows(c, next)'
  <2>1. PICK at \in [1 .. Len(uart) + 1 -> Nat] : Follows(c, at)
    BY DEF Open
  <2>2. PICK n \in Nat : n = Len(uart)
    BY <1>2
  <2>3. PICK m \in Nat : m = Len(Answer(c))
    BY <1>2
  <2>4. \A i \in 1 .. n + 1 : at[i] \in Nat
    BY <2>2
  <2>5. PICK next \in [1 .. n + 2 -> Nat] :
          next = [i \in 1 .. n + 2 |-> IF i = n + 2 THEN m + 2 ELSE at[i]]
    <3>1. m + 2 \in Nat /\ \A i \in 1 .. n + 2 : i # n + 2 => at[i] \in Nat
      BY <2>4
    <3> QED
      BY <3>1
  <2>6. next[n + 2] = m + 2 /\ \A i \in 1 .. n + 1 : next[i] = at[i]
    BY <2>5
  <2>7. /\ \A i \in 1 .. n + 1 : at[i] \in Nat /\ at[i] <= m + 1
        /\ \A i \in 1 .. n : uart[i].kind # "urc" => at[i] \in 1 .. m
    BY <2>1, <2>2, <2>3, Positions
  <2>8. at[1] = Taken + 1 /\ at[n + 1] = m + 1 /\ \A i, j \in 1 .. n + 1 : i <= j => at[i] <= at[j]
    BY <2>1, <2>2, <2>3 DEF Follows
  <2>9. next[1] = Taken + 1
    BY <2>6, <2>8
  <2>10. \A i, j \in 1 .. n + 2 : i <= j => next[i] <= next[j]
    <3> SUFFICES ASSUME NEW i \in 1 .. n + 2, NEW j \in 1 .. n + 2, i <= j PROVE next[i] <= next[j]
      OBVIOUS
    <3>1. CASE j = n + 2 /\ i # n + 2
      <4>1. i \in 1 .. n + 1
        BY <3>1
      <4>2. next[i] = at[i] /\ at[i] \in Nat /\ at[i] <= m + 1
        BY <2>6, <2>7, <4>1
      <4> QED
        BY <2>6, <3>1, <4>2
    <3>2. CASE j # n + 2
      <4>1. i \in 1 .. n + 1 /\ j \in 1 .. n + 1
        BY <3>2
      <4> QED
        BY <2>6, <2>8, <4>1
    <3>3. CASE i = n + 2
      BY <2>6, <3>3
    <3> QED
      BY <3>1, <3>2, <3>3
  <2>11. ASSUME NEW i \in 1 .. n + 1
         PROVE  IF uart'[i].kind = "urc" THEN next[i + 1] = next[i]
                ELSE /\ next[i + 1] = next[i] + 1
                     /\ uart'[i].cmd = cmd'[c] /\ uart'[i].kind = Answer(c)'[next[i]]
    <3>1. CASE i = n + 1
      <4>1. uart'[i].cmd = cmd[c] /\ uart'[i].kind = kind
        BY <1>7, <2>2, <3>1
      <4>2. next[i] = m + 1 /\ next[i + 1] = m + 2
        BY <2>6, <2>8, <3>1
      <4> QED
        BY <1>5, <2>3, <4>1, <4>2 DEF Finals
    <3>2. CASE i # n + 1
      <4>1. i \in 1 .. n /\ i \in 1 .. n + 1 /\ i + 1 \in 1 .. n + 1
        BY <3>2
      <4>2. uart'[i] = uart[i] /\ next[i] = at[i] /\ next[i + 1] = at[i + 1]
        BY <1>7, <2>2, <2>6, <4>1
      <4>3. IF uart[i].kind = "urc" THEN at[i + 1] = at[i]
            ELSE /\ at[i + 1] = at[i] + 1
                 /\ uart[i].cmd = cmd[c] /\ uart[i].kind = Answer(c)[at[i]]
        BY <2>1, <2>2, <4>1 DEF Follows
      <4>4. uart[i].kind # "urc" => Answer(c)'[at[i]] = Answer(c)[at[i]]
        BY <1>5, <2>3, <2>7, <4>1
      <4> QED
        BY <4>2, <4>3, <4>4
    <3> QED
      BY <3>1, <3>2
  <2>12. Len(uart') = n + 1 /\ Len(Answer(c)') = m + 1 /\ (n + 1) + 1 = n + 2 /\ (m + 1) + 1 = m + 2
    BY <1>5, <1>7, <2>2, <2>3
  <2>13. Follows(c, next)'
    BY <1>12, <2>6, <2>9, <2>10, <2>11, <2>12 DEF Follows
  <2> QED
    BY <2>12, <2>13
<1>14. Holds(c, resp_buf_len)'
  <2>1. \A i \in 1 .. resp_buf_len : i \in 1 .. Len(Answer(c))
    BY <1>2
  <2> QED
    BY <1>5, <2>1 DEF Open, Holds
<1>15. Reading(c)'
  <2>1. Taken > 0 => Answer(c)'[Taken] = Answer(c)[Taken]
    BY <1>2, <1>5
  <2> QED
    BY <1>12, <2>1 DEF Open, Reading
<1>16. Final(c)' => \E i \in 1 .. Len(uart') : uart'[i].kind \in Finals
  <2>1. Len(uart) + 1 \in 1 .. Len(uart')
    BY <1>2, <1>7
  <2> QED
    BY <1>7, <1>10, <2>1
<1>17. Open(c)'
  BY <1>11, <1>12, <1>13, <1>14, <1>15, <1>16 DEF Open
<1> QED
  BY <1>3, <1>9, <1>17, OpenStep

\* A URC is no part of any answer.
LEMMA UrcServe ==
    ASSUME LockInv, ExecInv, ServeInv, EmitUrc
    PROVE  ServeInv'
<1>0. /\ uart \in Seq(Lines) /\ uart' = Append(uart, [cmd |-> 0, kind |-> "urc"])
      /\ UNCHANGED <<clientVars, obj, parserVars, callerVars, inbox, said>>
      /\ Len(uart) \in Nat /\ Len(uart') = Len(uart) + 1
      /\ \A i \in 1 .. Len(uart) : uart'[i] = uart[i]
      /\ uart'[Len(uart) + 1].kind = "urc"
  BY DEF EmitUrc, LockInv, TypeOK
<1> USE DEF clientVars, parserVars, callerVars
<1>1. CASE ~ (lock # None /\ pc[lock] = "poll" /\ ~expired[lock] /\ Open(lock))
  <2>1. Still
    BY <1>1, AtWork
  <2>2. \A i \in 1 .. Len(uart') : uart'[i].kind = "urc"
    BY <1>0, <2>1 DEF Still
  <2>3. Still'
    BY <1>0, <2>1, <2>2 DEF Still
  <2> QED
    BY <1>0, <1>1, <2>1, <2>3, QuietStep
<1>2. CASE lock # None /\ pc[lock] = "poll" /\ ~expired[lock] /\ Open(lock)
  <2>1. /\ lock \in Callers /\ Shaped(lock) /\ cmd[lock] = Len(said) /\ Len(said) > 0
    BY <1>2 DEF LockInv, TypeOK, ServeInv, Served, Serving
  <2> SUFFICES ASSUME NEW c \in Callers, lock = c, c # None, pc[c] = "poll", ~expired[c], Open(c),
                      Shaped(c), cmd[c] = Len(said), Len(said) > 0
               PROVE  ServeInv'
    BY <1>2, <2>1
  <2>2. Answer(c)' = Answer(c) /\ Taken' = Taken
    BY <1>0 DEF Answer, Taken
  <2>3. /\ Shaped(c)' /\ (Final(c)' <=> Final(c)) /\ Source(c)' /\ Reading(c)'
        /\ Holds(c, resp_buf_len)'
    BY <1>0, <2>2 DEF Shaped, Final, Source, Reading, Holds, Open, Last
  <2>4. \E next \in [1 .. Len(uart') + 1 -> Nat] : Follows(c, next)'
    <3>1. PICK at \in [1 .. Len(uart) + 1 -> Nat] : Follows(c, at)
      BY DEF Open
    <3>2. PICK n \in Nat : n = Len(uart)
      BY <1>0
    <3>3. /\ at[1] = Taken + 1 /\ at[n + 1] = Len(Answer(c)) + 1 /\ at[n + 1] \in Nat
          /\ \A i, j \in 1 .. n + 1 : i <= j => at[i] <= at[j]
      <4>1. n + 1 \in 1 .. Len(uart) + 1
        BY <3>2
      <4> QED
        BY <3>1, <3>2, <4>1 DEF Follows
    <3>4. PICK next \in [1 .. n + 2 -> Nat] :
            next = [i \in 1 .. n + 2 |-> IF i = n + 2 THEN at[n + 1] ELSE at[i]]
      <4>1. \A i \in 1 .. n + 2 : i # n + 2 => at[i] \in Nat
        BY <3>2
      <4> QED
        BY <3>3, <4>1
    <3>5. next[n + 2] = at[n + 1] /\ \A i \in 1 .. n + 1 : next[i] = at[i]
      BY <3>4
    <3>6. \A i, j \in 1 .. n + 2 : i <= j => next[i] <= next[j]
      <4> SUFFICES ASSUME NEW i \in 1 .. n + 2, NEW j \in 1 .. n + 2, i <= j PROVE next[i] <= next[j]
        OBVIOUS
      <4>1. CASE j # n + 2
        <5>1. i \in 1 .. n + 1 /\ j \in 1 .. n + 1
          BY <4>1
        <5> QED
          BY <3>3, <3>5, <5>1
      <4>2. CASE j = n + 2 /\ i # n + 2
        <5>1. i \in 1 .. n + 1 /\ n + 1 \in 1 .. n + 1 /\ i <= n + 1
          BY <4>2
        <5> QED
          BY <3>3, <3>5, <4>2, <5>1
      <4>3. CASE i = n + 2
        BY <3>3, <3>5, <4>3
      <4> QED
        BY <4>1, <4>2, <4>3
    <3>7. ASSUME NEW i \in 1 .. n + 1
          PROVE  IF uart'[i].kind = "urc" THEN next[i + 1] = next[i]
                 ELSE /\ next[i + 1] = next[i] + 1
                      /\ uart'[i].cmd = cmd'[c] /\ uart'[i].kind = Answer(c)'[next[i]]
      <4>1. CASE i = n + 1
        BY <1>0, <3>2, <3>5, <4>1
      <4>2. CASE i # n + 1
        <5>1. i \in 1 .. n /\ i + 1 \in 1 .. n + 1
          BY <4>2
        <5>2. uart'[i] = uart[i] /\ next[i] = at[i] /\ next[i + 1] = at[i + 1]
          BY <1>0, <3>2, <3>5, <5>1
        <5> QED
          BY <1>0, <2>2, <3>1, <3>2, <5>1, <5>2 DEF Follows
      <4> QED
        BY <4>1, <4>2
    <3>8. Len(uart') = n + 1 /\ (n + 1) + 1 = n + 2
      BY <1>0, <3>2
    <3>9. next[1] = Taken + 1 /\ next[n + 2] = Len(Answer(c)) + 1
      BY <3>3, <3>5
    <3>10. Follows(c, next)'
      BY <2>2, <3>6, <3>7, <3>8, <3>9 DEF Follows
    <3> QED
      BY <3>8, <3>10
  <2>5. Final(c)' /\ Taken' < Len(Answer(c)') => \E i \in 1 .. Len(uart') : uart'[i].kind \in Finals
    <3>1. \A i \in 1 .. Len(uart) : i \in 1 .. Len(uart')
      BY <1>0
    <3> QED
      BY <1>0, <2>2, <2>3, <3>1 DEF Open
  <2>6. Open(c)'
    BY <1>0, <2>3, <2>4, <2>5 DEF Open
  <2> QED
    BY <1>0, <2>3, <2>6, OpenStep
<1> QED
  BY <1>1, <1>2

\* A command is lost before anything is said for it.
LEMMA LoseServe ==
    ASSUME Prompt, LockInv, ExecInv, ServeInv, LoseCommand
    PROVE  ServeInv'
<1>0. /\ inbox \in Seq(Nat) /\ inbox # <<>> /\ inbox' = Tail(inbox) /\ said[Head(inbox)] = <<>>
      /\ UNCHANGED <<clientVars, obj, parserVars, callerVars, said, uart>>
  BY DEF LoseCommand, LockInv, TypeOK, Prompt
<1>1. ~Still
  BY <1>0 DEF Still
<1> SUFFICES ASSUME NEW c \in Callers, c = lock, c # None, pc[c] = "poll", ~expired[c], Open(c),
                    Shaped(c), cmd[c] = Len(said), Len(said) > 0
             PROVE  ServeInv'
  BY <1>1, AtWork
<1> USE DEF clientVars, parserVars, callerVars
<1>2. Len(inbox') = 0 /\ Len(Answer(c)) = 0
  BY <1>0 DEF Open, Source, Answer
<1>3. Answer(c)' = Answer(c) /\ Taken' = Taken
  BY <1>0 DEF Answer, Taken
<1>4. /\ Source(c)' /\ (Final(c)' <=> Final(c)) /\ Shaped(c)' /\ Reading(c)'
      /\ Holds(c, resp_buf_len)'
  BY <1>0, <1>2, <1>3 DEF Source, Final, Shaped, Reading, Holds, Open, Last
<1>5. \A at : Follows(c, at) => Follows(c, at)'
  BY <1>0, <1>3 DEF Follows
<1>6. Open(c)'
  BY <1>0, <1>3, <1>4, <1>5 DEF Open
<1> QED
  BY <1>0, <1>4, <1>6, OpenStep

\* Where a call is is known at any time: it holds the lock and has a response attached
\* only while it is served, and what is on its way is the next of its answer.
LEMMA ServiceInvariant ==
    ASSUME Prompt
    PROVE  Spec => [](LockInv /\ ExecInv /\ ServeInv)
<1>1. Init => ExecInv /\ ServeInv
  <2> SUFFICES ASSUME Init PROVE ExecInv /\ ServeInv
    OBVIOUS
  <2>1. Freed.line_num = 0
    BY DEF Freed, Fresh
  <2>2. ExecInv
    BY <2>1 DEF Init, ExecInv, ExecPlaces
  <2>3. ServeInv
    BY DEF Init, ServeInv, Still
  <2> QED
    BY <2>2, <2>3
<1>2. LockInv /\ ExecInv /\ ServeInv /\ [Next]_vars => ExecInv' /\ ServeInv'
  <2> SUFFICES ASSUME LockInv, ExecInv, ServeInv, [Next]_vars PROVE ExecInv' /\ ServeInv'
    OBVIOUS
  <2>1. ASSUME NEW c \in Callers, Call(c) \/ ExecStep(c) \/ WaitStep(c) \/ TimerExpires(c)
        PROVE  ExecInv' /\ ServeInv'
    BY <2>1, CallerExec, CallerServe
  <2>2. CASE Parser
    BY <2>2, ParserExec, ReadServe, LineServe, NotifyServe DEF Parser
  <2>3. CASE Module
    <3>1. ExecInv'
      BY <2>3 DEF Module, EmitData, EmitFinal, EmitUrc, LoseCommand, ExecInv, callerVars
    <3>2. CASE EmitData
      <4>1. "data" \in Finals \cup {"data"} /\ "data" \notin Finals
        BY DEF Finals
      <4>2. /\ Emit("data") /\ inbox' = inbox /\ Len(said[Head(inbox)]) < MaxData
            /\ UNCHANGED <<clientVars, obj, parserVars, callerVars>>
        BY <3>2 DEF EmitData
      <4> QED
        BY <3>1, <4>1, <4>2, EmitServe
    <3>3. CASE EmitFinal
      <4>1. PICK kind \in Finals : Emit(kind)
        BY <3>3 DEF EmitFinal
      <4>2. inbox' = Tail(inbox) /\ UNCHANGED <<clientVars, obj, parserVars, callerVars>>
        BY <3>3 DEF EmitFinal
      <4> QED
        BY <3>1, <4>1, <4>2, EmitServe
    <3> QED
      BY <2>3, <3>1, <3>2, <3>3, UrcServe, LoseServe DEF Module
  <2>4. CASE UNCHANGED vars
    <3>1. ExecInv'
      BY <2>4 DEF ExecInv, vars, callerVars
    <3>2. ServeInv'
      <4>1. CASE lock = None
        BY <2>4, <4>1 DEF ServeInv, Still, vars, clientVars, parserVars, moduleVars
      <4>2. CASE lock # None
        <5>1. lock \in Callers /\ Served(lock) /\ lock' = lock
          BY <2>4, <4>2 DEF LockInv, TypeOK, ServeInv, vars, clientVars
        <5> SUFFICES ASSUME NEW c \in Callers, lock = c, Served(c) PROVE Served(c)'
          BY <4>2, <5>1 DEF ServeInv
        <5> QED
          BY <2>4, Undisturbed DEF vars, callerVars, moduleVars
      <4> QED
        BY <4>1, <4>2
    <3> QED
      BY <3>1, <3>2
  <2> QED
    BY <2>1, <2>2, <2>3, <2>4 DEF Next
<1> QED
  BY <1>1, <1>2, LockInvariance, PTL DEF Spec

\* The parser of a client whose commands are executed one by one, answered in time or
\* not at all, never uses a NULL or freed client->resp.
THEOREM PromptNoCrash ==
    ASSUME Prompt
    PROVE  Spec => []NoCrash
<1>1. ExecInv => NoCrash
  BY DEF ExecInv, NoCrash
<1> QED
  BY <1>1, ServiceInvariant, PTL

\* The calls as AtCommand sees them.
PhaseOf == [c \in Callers |-> Phase(c)]
SaidOf == IF lock # None /\ Sent(lock) THEN said[cmd[lock]] ELSE <<>>
ResultOf == [c \in Callers |-> IF pc[c] = "return" THEN result[c] ELSE "SUCCESS"]
Handed(c) == [i \in DOMAIN Received(c) |-> Received(c)[i].kind]
GotOf == [c \in Callers |-> IF pc[c] = "return" THEN Handed(c) ELSE <<>>]

\* A step that leaves all but one call alone changes them at that call only.
LEMMA OneCall ==
    ASSUME NEW c \in Callers,
           \A d \in Callers : d # c => pc'[d] = pc[d] /\ result'[d] = result[d] /\ obj'[d] = obj[d]
    PROVE  /\ PhaseOf' = [PhaseOf EXCEPT ![c] = Phase(c)']
           /\ ResultOf' = [ResultOf EXCEPT ![c] = IF pc'[c] = "return" THEN result'[c] ELSE "SUCCESS"]
           /\ GotOf' = [GotOf EXCEPT ![c] = IF pc'[c] = "return" THEN Handed(c)' ELSE <<>>]
           /\ PhaseOf[c] = Phase(c)
           /\ pc[c] # "return" => ResultOf[c] = "SUCCESS" /\ GotOf[c] = <<>>
<1>1. ASSUME NEW d \in Callers, d # c
      PROVE  Phase(d)' = Phase(d) /\ Handed(d)' = Handed(d) /\ pc'[d] = pc[d] /\ result'[d] = result[d]
  BY <1>1 DEF Phase, Handed, Received
<1>2. PhaseOf' = [PhaseOf EXCEPT ![c] = Phase(c)'] /\ PhaseOf[c] = Phase(c)
  BY <1>1 DEF PhaseOf
<1>3. ResultOf' = [ResultOf EXCEPT ![c] = IF pc'[c] = "return" THEN result'[c] ELSE "SUCCESS"]
  BY <1>1 DEF ResultOf
<1>4. GotOf' = [GotOf EXCEPT ![c] = IF pc'[c] = "return" THEN Handed(c)' ELSE <<>>]
  BY <1>1 DEF GotOf
<1>5. pc[c] # "return" => ResultOf[c] = "SUCCESS" /\ GotOf[c] = <<>>
  BY DEF ResultOf, GotOf
<1> QED
  BY <1>2, <1>3, <1>4, <1>5

\* A step within a call is none of the contract.
LEMMA CallGoesOn ==
    ASSUME NEW c \in Callers,
           \A d \in Callers : d # c => pc'[d] = pc[d] /\ result'[d] = result[d] /\ obj'[d] = obj[d],
           pc[c] # "return", pc'[c] # "return", Phase(c)' = Phase(c), lock' = lock, SaidOf' = SaidOf
    PROVE  UNCHANGED Contract!vars
<1>1. /\ PhaseOf' = [PhaseOf EXCEPT ![c] = PhaseOf[c]]
      /\ ResultOf' = [ResultOf EXCEPT ![c] = ResultOf[c]]
      /\ GotOf' = [GotOf EXCEPT ![c] = GotOf[c]]
  BY OneCall
<1>2. PhaseOf' = PhaseOf /\ ResultOf' = ResultOf /\ GotOf' = GotOf
  BY <1>1 DEF PhaseOf, ResultOf, GotOf
<1> QED
  BY <1>2 DEF Contract!vars, PhaseOf, SaidOf, ResultOf, GotOf, Handed

\* What the calls of one thread are to the contract.
LEMMA CallStep ==
    ASSUME Prompt, LockInv, ExecInv, ServeInv, NEW c \in Callers,
           Call(c) \/ ExecStep(c) \/ WaitStep(c) \/ TimerExpires(c)
    PROVE  Contract!Next \/ UNCHANGED Contract!vars
<1>0. /\ pc \in [Callers -> Holding \cup {"idle", "lock", "return"}] /\ pc[c] \in ExecPlaces
      /\ obj \in [Callers -> Responses] /\ cmd \in [Callers -> Nat] /\ op[c] = "exec"
      /\ result \in [Callers -> {"SUCCESS", "FAILURE", "TIMEOUT"}]
      /\ said \in Seq(Seq(Kinds)) /\ c # None
      /\ lock = c <=> pc[c] \in Holding
      /\ lock \in Callers \cup {None}
  BY AtAssumption DEF LockInv, TypeOK, ExecInv
<1>1. \A d \in Callers : d # c => pc'[d] = pc[d] /\ result'[d] = result[d] /\ obj'[d] = obj[d]
                                  /\ cmd'[d] = cmd[d]
  <2>1. CASE Call(c) \/ TimerExpires(c)
    BY <1>0, <2>1 DEF Call, TimerExpires, Goto
  <2>2. CASE ExecStep(c)
    BY <1>0, <2>2 DEF ExecStep, TakeLock, Prepare, Send, Transmit, PollNotice, PollExpired, CheckExpiry,
                      ClearResp, ClearNotice, Unlock, Return, Goto
  <2>3. CASE WaitStep(c)
    BY <1>0, <2>3 DEF WaitStep, WaitPrepare, WaitSend, WaitCheck, WaitExpiry, WaitDelete,
                      WaitClearResp, Goto, ExecPlaces, Serving
  <2> QED
    BY <2>1, <2>2, <2>3
<1>2. /\ PhaseOf' = [PhaseOf EXCEPT ![c] = Phase(c)']
      /\ ResultOf' = [ResultOf EXCEPT ![c] = IF pc'[c] = "return" THEN result'[c] ELSE "SUCCESS"]
      /\ GotOf' = [GotOf EXCEPT ![c] = IF pc'[c] = "return" THEN Handed(c)' ELSE <<>>]
      /\ PhaseOf[c] = Phase(c)
      /\ pc[c] # "return" => ResultOf[c] = "SUCCESS" /\ GotOf[c] = <<>>
  BY <1>1, OneCall
<1>3. /\ [ResultOf EXCEPT ![c] = ResultOf[c]] = ResultOf
      /\ [GotOf EXCEPT ![c] = GotOf[c]] = GotOf
  BY DEF ResultOf, GotOf
<1>4. ASSUME lock # c, lock' = lock, UNCHANGED said PROVE SaidOf' = SaidOf
  BY <1>0, <1>1, <1>4 DEF SaidOf, Sent
<1>5. CASE Call(c)
  <2>1. pc[c] = "idle" /\ pc'[c] = "lock" /\ UNCHANGED <<lock, said>>
    BY <1>0, <1>5 DEF Call, Goto, clientVars, moduleVars
  <2>2. lock # c
    BY <1>0, <2>1 DEF Holding
  <2>3. Phase(c) = "idle" /\ Phase(c)' = "waiting"
    BY <2>1 DEF Phase, Holding
  <2>4. PhaseOf' = [PhaseOf EXCEPT ![c] = "waiting"] /\ ResultOf' = ResultOf /\ GotOf' = GotOf /\ PhaseOf[c] = "idle"
    BY <1>2, <1>3, <2>1, <2>3
  <2>5. SaidOf' = SaidOf
    BY <1>4, <2>1, <2>2
  <2>6. Contract!Call(c)
    BY <2>1, <2>4, <2>5 DEF Contract!Call, PhaseOf, SaidOf, ResultOf, GotOf, Handed
  <2> QED
    BY <2>6 DEF Contract!Next
<1>6. CASE TakeLock(c)
  <2>1. pc[c] = "lock" /\ pc'[c] = "prepare" /\ lock = None /\ lock' = c
    BY <1>0, <1>6 DEF TakeLock, Goto
  <2>2. Phase(c) = "waiting" /\ Phase(c)' = "serving"
    BY <2>1 DEF Phase, Holding
  <2>3. PhaseOf' = [PhaseOf EXCEPT ![c] = "serving"] /\ ResultOf' = ResultOf /\ GotOf' = GotOf /\ PhaseOf[c] = "waiting"
    BY <1>2, <1>3, <2>1, <2>2
  <2>4. SaidOf = <<>> /\ SaidOf' = <<>>
    BY <2>1 DEF SaidOf, Sent
  <2>5. Contract!Start(c)
    BY <2>1, <2>3, <2>4 DEF Contract!Start, PhaseOf, SaidOf, ResultOf, GotOf, Handed
  <2> QED
    BY <2>5 DEF Contract!Next
<1>7. ASSUME pc[c] # "return", pc'[c] # "return", Phase(c)' = Phase(c), lock' = lock, SaidOf' = SaidOf
      PROVE  UNCHANGED Contract!vars
  BY <1>1, <1>7, CallGoesOn
<1>8. CASE Prepare(c) \/ Send(c)
  <2>1. pc[c] \in {"prepare", "send"} /\ pc'[c] \in {"prepare", "send", "poll"} /\ lock = c /\ lock' = c
    BY <1>0, <1>8 DEF Prepare, Send, Goto, Holding, clientVars
  <2>2. SaidOf = <<>>
    BY <2>1 DEF SaidOf, Sent
  <2>3. SaidOf' = <<>>
    <3>1. CASE Prepare(c)
      <4>1. pc'[c] # "poll"
        BY <1>0, <3>1 DEF Prepare, Goto
      <4> QED
        BY <2>1, <4>1 DEF SaidOf, Sent
    <3>2. CASE Send(c)
      <4>1. said' = Append(said, <<>>) /\ cmd' = [cmd EXCEPT ![c] = Len(said')]
        BY <3>2 DEF Send, Transmit
      <4>2. said'[Len(said')] = <<>> /\ cmd'[c] = Len(said')
        BY <1>0, <4>1
      <4> QED
        BY <2>1, <4>2 DEF SaidOf
    <3> QED
      BY <1>8, <3>1, <3>2
  <2>4. Phase(c) = "serving" /\ Phase(c)' = "serving"
    BY <2>1 DEF Phase, Holding
  <2> QED
    BY <1>7, <2>1, <2>2, <2>3, <2>4
<1>9. ASSUME pc[c] \in Serving, pc'[c] \in Serving, UNCHANGED <<lock, said, cmd>>
      PROVE  UNCHANGED Contract!vars
  <2>1. Phase(c) = "serving" /\ Phase(c)' = "serving" /\ pc[c] # "return" /\ pc'[c] # "return"
    BY <1>9 DEF Phase, Holding, Serving
  <2>2. lock = c /\ Sent(c) /\ Sent(c)'
    BY <1>0, <1>9 DEF Serving, Holding, Sent
  <2>3. SaidOf' = SaidOf
    BY <1>0, <1>9, <2>2 DEF SaidOf
  <2> QED
    BY <1>7, <1>9, <2>1, <2>3
<1>10. CASE PollNotice(c) \/ PollExpired(c) \/ CheckExpiry(c) \/ ClearResp(c) \/ ClearNotice(c)
  <2>1. pc[c] \in Serving /\ pc'[c] \in Serving /\ UNCHANGED <<lock, said, cmd>>
    BY <1>0, <1>10 DEF PollNotice, PollExpired, CheckExpiry, ClearResp, ClearNotice, Goto, Serving,
                       clientVars, moduleVars
  <2> QED
    BY <1>9, <2>1
<1>11. CASE TimerExpires(c)
  <2>1. pc[c] \in Serving /\ pc' = pc /\ UNCHANGED <<lock, said, cmd>>
    BY <1>0, <1>11 DEF TimerExpires, ExecPlaces, Serving, clientVars, moduleVars
  <2> QED
    BY <1>9, <2>1
<1>12. CASE Unlock(c)
  <2>1. /\ pc[c] = "unlock" /\ pc'[c] = "return" /\ lock' = None
        /\ UNCHANGED <<result, obj, cmd, said>>
    BY <1>0, <1>12 DEF Unlock, Goto, moduleVars
  <2>2. lock = c /\ Served(c)
    BY <2>1, OwnFacts
  <2>3. Outcome(c) /\ cmd[c] = Len(said) /\ Len(said) > 0
    BY <2>1, <2>2 DEF Served, Serving, Closing
  <2>4. Answer(c) \in Seq(Kinds)
    BY <1>0, <2>3 DEF Answer
  <2>5. SaidOf = Answer(c) /\ SaidOf' = <<>>
    BY <1>0, <2>1, <2>2 DEF SaidOf, Sent, Answer
  <2>6. Phase(c) = "serving" /\ Phase(c)' = "done"
    BY <2>1 DEF Phase, Holding
  <2>7. Handed(c)' = [i \in 1 .. obj[c].line_counts |-> obj[c].buf[i - 1].kind]
    <3>1. obj'[c] = obj[c]
      BY <2>1
    <3> QED
      BY <3>1 DEF Handed, Received
  <2>8. /\ PhaseOf' = [PhaseOf EXCEPT ![c] = "done"]
        /\ ResultOf' = [ResultOf EXCEPT ![c] = result[c]]
        /\ GotOf' = [GotOf EXCEPT ![c] = Handed(c)']
    BY <1>2, <2>1, <2>6
  <2>9. \/ result[c] = "TIMEOUT" /\ Handed(c)' = <<>>
        \/ /\ SaidOf # <<>> /\ SaidOf[Len(SaidOf)] \in Finals
           /\ result[c] = (IF SaidOf[Len(SaidOf)] = "ok" THEN "SUCCESS" ELSE "FAILURE")
           /\ Handed(c)' = SaidOf
    <3>1. CASE result[c] = "TIMEOUT" /\ obj[c].line_counts = 0
      BY <2>7, <3>1
    <3>2. CASE result[c] = (IF Last(Answer(c)) = "ok" THEN "SUCCESS" ELSE "FAILURE") /\ Complete(c)
      <4>1. Handed(c)' = Answer(c)
        <5>1. Handed(c)' = [i \in 1 .. Len(Answer(c)) |-> Answer(c)[i]]
          BY <2>7, <3>2 DEF Complete, Holds
        <5> QED
          BY <2>4, <5>1
      <4>2. Len(Answer(c)) > 0 /\ Answer(c)[Len(Answer(c))] \in Finals
        BY <3>2 DEF Complete, Final, Last
      <4> QED
        BY <2>4, <2>5, <3>2, <4>1, <4>2 DEF Last
    <3> QED
      BY <2>3, <3>1, <3>2 DEF Outcome
  <2>10. Contract!Finish(c)
    <3>1. CASE result[c] = "TIMEOUT" /\ Handed(c)' = <<>>
      <4>1. ResultOf' = [ResultOf EXCEPT ![c] = "TIMEOUT"] /\ GotOf' = [GotOf EXCEPT ![c] = <<>>]
        BY <2>8, <3>1
      <4> QED
        BY <2>1, <2>2, <2>5, <2>8, <4>1 DEF Contract!Finish, PhaseOf, SaidOf, ResultOf, GotOf, Handed
    <3>2. CASE /\ SaidOf # <<>> /\ SaidOf[Len(SaidOf)] \in Finals
               /\ result[c] = (IF SaidOf[Len(SaidOf)] = "ok" THEN "SUCCESS" ELSE "FAILURE")
               /\ Handed(c)' = SaidOf
      <4>1. /\ ResultOf' = [ResultOf EXCEPT ![c] =
                              IF SaidOf[Len(SaidOf)] = "ok" THEN "SUCCESS" ELSE "FAILURE"]
            /\ GotOf' = [GotOf EXCEPT ![c] = SaidOf]
        BY <2>8, <3>2
      <4> QED
        BY <2>1, <2>2, <2>5, <2>8, <3>2, <4>1
           DEF Contract!Finish, Contract!Concluded, Contract!Finals, Finals,
               PhaseOf, SaidOf, ResultOf, GotOf, Handed
    <3> QED
      BY <2>9, <3>1, <3>2
  <2> QED
    BY <2>10 DEF Contract!Next
<1>13. CASE Return(c)
  <2>1. pc[c] = "return" /\ pc'[c] = "idle" /\ UNCHANGED <<lock, said>>
    BY <1>0, <1>13 DEF Return, Goto, clientVars, moduleVars
  <2>2. lock # c
    BY <1>0, <2>1 DEF Holding
  <2>3. Phase(c) = "done" /\ Phase(c)' = "idle"
    BY <2>1 DEF Phase, Holding
  <2>4. /\ PhaseOf' = [PhaseOf EXCEPT ![c] = "idle"] /\ PhaseOf[c] = "done"
        /\ ResultOf' = [ResultOf EXCEPT ![c] = "SUCCESS"] /\ GotOf' = [GotOf EXCEPT ![c] = <<>>]
    BY <1>2, <2>1, <2>3
  <2>5. SaidOf' = SaidOf
    BY <1>4, <2>1, <2>2
  <2>6. Contract!Return(c)
    BY <2>1, <2>4, <2>5 DEF Contract!Return, PhaseOf, SaidOf, ResultOf, GotOf, Handed
  <2> QED
    BY <2>6 DEF Contract!Next
<1>14. CASE WaitStep(c)
  BY <1>0, <1>14 DEF WaitStep, WaitPrepare, WaitSend, WaitCheck, WaitExpiry, WaitDelete,
                     WaitClearResp, Goto, ExecPlaces, Serving
<1> QED
  BY <1>5, <1>6, <1>8, <1>10, <1>11, <1>12, <1>13, <1>14 DEF ExecStep

\* The parser does nothing the contract speaks of.
LEMMA ParserHidden ==
    ASSUME LockInv, Parser
    PROVE  UNCHANGED Contract!vars
<1>1. UNCHANGED <<lock, callerVars, said>>
  BY DEF Parser, ReadLine, CheckResp, CopyLine, Classify, StoreCounts, Detach, Notify,
         clientVars, moduleVars
<1> USE DEF callerVars
<1>2. ASSUME NEW c \in Callers, pc[c] = "return" PROVE obj'[c] = obj[c]
  <2>1. resp # c
    BY <1>2, AtAssumption DEF LockInv, Attached
  <2>2. obj \in [Callers -> Responses] /\ resp \in Callers \cup {None}
    BY DEF LockInv, TypeOK
  <2>3. CASE CopyLine
    <3>1. obj' = obj \/ obj' = [obj EXCEPT ![resp].buf[resp_buf_len] = line]
      BY <2>3 DEF CopyLine
    <3> QED
      BY <2>1, <2>2, <3>1
  <2>4. CASE StoreCounts
    <3>1. obj' = obj \/ obj' = [obj EXCEPT ![resp].line_counts = line_counts]
      BY <2>4 DEF StoreCounts
    <3> QED
      BY <2>1, <2>2, <3>1
  <2>5. CASE ReadLine \/ CheckResp \/ Classify \/ Detach \/ Notify
    BY <2>5 DEF ReadLine, CheckResp, Classify, Detach, Notify
  <2> QED
    BY <2>3, <2>4, <2>5 DEF Parser
<1>3. SaidOf' = SaidOf
  BY <1>1 DEF SaidOf, Sent
<1>4. PhaseOf' = PhaseOf /\ ResultOf' = ResultOf
  BY <1>1 DEF PhaseOf, Phase, ResultOf
<1>5. GotOf' = GotOf
  <2>1. ASSUME NEW c \in Callers, pc[c] = "return" PROVE Handed(c)' = Handed(c)
    BY <1>2, <2>1 DEF Handed, Received
  <2> QED
    BY <1>1, <2>1 DEF GotOf
<1> QED
  BY <1>1, <1>3, <1>4, <1>5 DEF Contract!vars, PhaseOf, SaidOf, ResultOf, GotOf, Handed

\* A step that changes neither the calls nor what is said for the one that is served.
LEMMA Unsaid ==
    ASSUME UNCHANGED <<lock, callerVars, obj>>, SaidOf' = SaidOf
    PROVE  UNCHANGED Contract!vars
<1>1. PhaseOf' = PhaseOf /\ ResultOf' = ResultOf
  BY DEF PhaseOf, Phase, ResultOf, callerVars
<1>2. GotOf' = GotOf
  BY DEF GotOf, Handed, Received, callerVars
<1> QED
  BY <1>1, <1>2 DEF Contract!vars, PhaseOf, SaidOf, ResultOf, GotOf, Handed

\* The module says a line of the answer, or nothing the contract speaks of.
LEMMA ModuleSays ==
    ASSUME LockInv, ExecInv, ServeInv, Module
    PROVE  Contract!Next \/ UNCHANGED Contract!vars
<1>0. UNCHANGED <<lock, callerVars, obj>>
  BY DEF Module, EmitData, EmitFinal, EmitUrc, LoseCommand, clientVars
<1> USE DEF callerVars
<1>1. ASSUME NEW kind \in Finals \cup {"data"}, Emit(kind) PROVE Contract!Next
  <2>1. /\ ~Still /\ ~Final(lock) /\ Answer(lock)' = Append(Answer(lock), kind)
    BY <1>0, <1>1, EmitEffect
  <2>2. lock # None /\ pc[lock] = "poll" /\ cmd[lock] = Len(said) /\ Len(said) > 0
    BY <2>1, AtWork
  <2>3. SaidOf = Answer(lock) /\ SaidOf' = Answer(lock)'
    BY <1>0, <2>2 DEF SaidOf, Sent, Answer
  <2>4. SaidOf' = Append(SaidOf, kind)
    BY <2>1, <2>3
  <2>5. ~ (SaidOf # <<>> /\ SaidOf[Len(SaidOf)] \in Finals)
    <3>1. said \in Seq(Seq(Kinds))
      BY DEF LockInv, TypeOK
    <3>2. Answer(lock) \in Seq(Kinds)
      BY <2>2, <3>1 DEF Answer
    <3> QED
      BY <2>1, <2>3, <3>2 DEF Final, Last
  <2>6. PhaseOf' = PhaseOf /\ ResultOf' = ResultOf
    BY <1>0 DEF PhaseOf, Phase, ResultOf
  <2>7. GotOf' = GotOf
    BY <1>0 DEF GotOf, Handed, Received
  <2>8. Contract!Say(kind)
    BY <1>0, <2>2, <2>4, <2>5, <2>6, <2>7
       DEF Contract!Say, Contract!Concluded, Contract!Finals, Finals,
           PhaseOf, SaidOf, ResultOf, GotOf, Handed
  <2> QED
    BY <2>8 DEF Contract!Next, Contract!Finals, Finals
<1>2. CASE EmitData
  BY <1>1, <1>2 DEF EmitData
<1>3. CASE EmitFinal
  BY <1>1, <1>3 DEF EmitFinal
<1>4. CASE EmitUrc \/ LoseCommand
  <2>1. said' = said
    BY <1>4 DEF EmitUrc, LoseCommand
  <2>2. SaidOf' = SaidOf
    BY <1>0, <2>1 DEF SaidOf, Sent
  <2> QED
    BY <1>0, <2>2, Unsaid
<1> QED
  BY <1>2, <1>3, <1>4 DEF Module

\* at_obj_exec_cmd implements AtCommand when commands are executed one by one and
\* answered in time or not at all: a call is served at a time, and a call that is not
\* given up hands back the module's verdict on its command and the lines of its answer.
THEOREM ExecImplementsContract ==
    ASSUME Prompt
    PROVE  Spec => ContractSpec
<1>1. Init => Contract!Init
  <2> SUFFICES ASSUME Init PROVE Contract!Init
    OBVIOUS
  <2>1. PhaseOf = [c \in Callers |-> "idle"] /\ ResultOf = [c \in Callers |-> "SUCCESS"]
        /\ GotOf = [c \in Callers |-> <<>>] /\ SaidOf = <<>> /\ lock = None
    BY DEF Init, PhaseOf, Phase, Holding, ResultOf, GotOf, SaidOf
  <2> QED
    BY <2>1 DEF Contract!Init, PhaseOf, SaidOf, ResultOf, GotOf, Handed
<1>2. LockInv /\ ExecInv /\ ServeInv /\ [Next]_vars => [Contract!Next]_(Contract!vars)
  <2> SUFFICES ASSUME LockInv, ExecInv, ServeInv, [Next]_vars
               PROVE  Contract!Next \/ UNCHANGED Contract!vars
    OBVIOUS
  <2>1. CASE UNCHANGED vars
    <3>1. SaidOf' = SaidOf
      BY <2>1 DEF vars, clientVars, callerVars, moduleVars, SaidOf, Sent
    <3>2. UNCHANGED <<lock, callerVars, obj>>
      BY <2>1 DEF vars, clientVars
    <3> QED
      BY <3>1, <3>2, Unsaid
  <2> QED
    BY <2>1, CallStep, ParserHidden, ModuleSays DEF Next
<1> QED
  BY <1>1, <1>2, ServiceInvariant, PTL DEF Spec, ContractSpec, Contract!Spec

=============================================================================
