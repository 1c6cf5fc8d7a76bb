-------------------------- MODULE ModuleApiProofs --------------------------
(***************************************************************************)
(* Proofs about ModuleApi, for any number of threads, calls, topics and    *)
(* messages: who holds sg_mqtt_lock, and what the calls may conclude from  *)
(* the flags and answers the parser thread leaves them.                    *)
(***************************************************************************)
EXTENDS ModuleApi, FiniteSetTheorems, WellFoundedInduction, TLAPS

-----------------------------------------------------------------------------
(* The scripts.                                                            *)

Modules == {"ESP8266", "N21", "L206D", "any"}

\* A step that repeats the one before it has one, a step that skips the next as well.
WellScripted(s) ==
    /\ Len(s) \in Nat \ {0}
    /\ \A k \in 1 .. Len(s) :
          /\ s[k].fail = "again" => k > 1
          /\ s[k].fail = "else" => k < Len(s)

LEMMA Scripts ==
    ASSUME NEW m \in Modules, NEW o \in Calls
    PROVE  WellScripted(Script(m, o))
<1> USE DEF WellScripted, Script, Clear, Exec, Wait, Do
<1>1. CASE o \in {"handshake", "info_set", "conn", "discon", "pub"}
  BY <1>1 DEF module_handshake, module_info_set, module_mqtt_conn, module_mqtt_discon, module_mqtt_pub
<1>2. CASE o \in {"publ", "sub", "unsub", "is_connected"}
  BY <1>2 DEF module_mqtt_publ, module_mqtt_sub, module_mqtt_unsub, IOT_MQTT_IsConnected
<1>3. CASE o \in {"server", "cwmod", "log", "deliver"}
  BY <1>3 DEF wifi_set_test_server_ip, wifi_set_cwmod, wifi_set_debug_level, deliver_message
<1>4. CASE o = "net"
  <2>1. Script(m, o) = module_register_network(m)
    BY <1>4
  <2>2. WellScripted(N21_net_reg)
    BY DEF N21_net_reg
  <2>3. WellScripted(L206_net_reg)
    BY DEF L206_net_reg
  <2>4. WellScripted(<<Clear("WIFI"), Exec("CWMODE", "ignore")>> \o wifi_connect)
    BY DEF wifi_connect
  <2> HIDE DEF WellScripted, Script, Clear, Exec, Wait, Do
  <2>5. \/ module_register_network(m) = N21_net_reg \/ module_register_network(m) = L206_net_reg
        \/ module_register_network(m) = <<Clear("WIFI"), Exec("CWMODE", "ignore")>> \o wifi_connect
    BY DEF module_register_network, Modules
  <2> QED
    BY <2>1, <2>2, <2>3, <2>4, <2>5, Zenon
<1> QED
  BY <1>1, <1>2, <1>3, <1>4 DEF Calls

-----------------------------------------------------------------------------
(* Where a thread can be, and what moves it.                               *)

Phases == {"idle", "step", "rmw", "sent", "tested", "locked"}

PhaseInv == phase \in [Threads -> Phases]

\* What the parser, the module and module_init do leaves the threads alone.
Outside == module_init \/ UrcRead \/ UrcStore \/ ParseLine \/ SendUrc \/ DropConnection \/ ForwardMessage

LEMMA OutsideThreads ==
    ASSUME Outside \/ UNCHANGED vars
    PROVE  UNCHANGED <<threadVars, sg_msg_handlers, sg_mqtt_lock, end_sign, module_type, calls>>
<1> USE DEF flagVars, tableVars, lineVars, modVars, ghostVars
<1>1. CASE module_init
  BY <1>1 DEF module_init
<1>2. CASE UrcRead
  BY <1>2 DEF UrcRead
<1>3. CASE UrcStore
  BY <1>3 DEF UrcStore
<1>4. CASE ParseLine
  BY <1>4 DEF ParseLine
<1>5. CASE SendUrc
  BY <1>5 DEF SendUrc
<1>6. CASE DropConnection
  BY <1>6 DEF DropConnection
<1>7. CASE ForwardMessage
  BY <1>7 DEF ForwardMessage
<1>8. CASE UNCHANGED vars
  BY <1>8 DEF vars
<1> QED
  BY <1>1, <1>2, <1>3, <1>4, <1>5, <1>6, <1>7, <1>8 DEF Outside

\* A step is one of a thread or one from outside.
LEMMA StepKinds ==
    ASSUME [Next]_vars
    PROVE  \/ Outside \/ UNCHANGED vars
           \/ \E t \in Threads : Call(t) \/ ThreadSteps(t)
BY DEF Next, Outside, ThreadSteps

\* Where a step of a thread leads.  Only TestLock and SetLock lead to the lock.
LEMMA PhaseMoves ==
    ASSUME NEW t \in Threads, PhaseInv, Call(t) \/ ThreadSteps(t), ~TestLock(t), ~SetLock(t)
    PROVE  /\ phase[t] # "tested"
           /\ \E p \in {"idle", "step", "rmw", "sent"} : phase' = [phase EXCEPT ![t] = p]
<1> USE DEF Is, At, Succeed, Fail, Advance
<1>1. CASE Call(t)
  BY <1>1 DEF Call
<1>2. CASE Return(t)
  BY <1>2 DEF Return, Ended
<1>3. CASE ClearRead(t)
  BY <1>3 DEF ClearRead
<1>4. CASE clearFlag(t)
  BY <1>4 DEF clearFlag
<1>5. CASE waitFlag(t)
  BY <1>5 DEF waitFlag
<1>6. CASE WaitExpired(t)
  BY <1>6 DEF WaitExpired
<1>7. CASE ExecSend(t)
  BY <1>7 DEF ExecSend
<1>8. CASE ExecDone(t)
  BY <1>8 DEF ExecDone
<1>9. CASE SendPayload(t)
  BY <1>9 DEF SendPayload
<1>10. CASE SetEndSign(t)
  BY <1>10 DEF SetEndSign
<1>11. CASE ReadState(t)
  BY <1>11 DEF ReadState
<1>12. CASE register_sub_topic(t)
  BY <1>12 DEF register_sub_topic
<1>13. CASE Dispatch(t)
  BY <1>13 DEF Dispatch
<1> QED
  BY <1>1, <1>2, <1>3, <1>4, <1>5, <1>6, <1>7, <1>8, <1>9, <1>10, <1>11, <1>12, <1>13 DEF ThreadSteps

\* The lock changes hands in SetLock and is given back where a thread inside leaves.
LEMMA LockMoves ==
    ASSUME NEW t \in Threads, PhaseInv, Call(t) \/ ThreadSteps(t), ~TestLock(t), ~SetLock(t)
    PROVE  /\ phase[t] = "locked" => sg_mqtt_lock' = FALSE
           /\ phase[t] # "locked" => sg_mqtt_lock' = sg_mqtt_lock
<1> USE DEF Is, At, tableVars
<1>1. CASE Call(t)
  BY <1>1 DEF Call
<1>2. CASE Return(t)
  BY <1>2 DEF Return, Ended
<1>3. CASE ClearRead(t) \/ clearFlag(t) \/ waitFlag(t) \/ WaitExpired(t)
  BY <1>3 DEF ClearRead, clearFlag, waitFlag, WaitExpired
<1>7. CASE ExecSend(t) \/ ExecDone(t) \/ SendPayload(t) \/ SetEndSign(t) \/ ReadState(t)
  BY <1>7 DEF ExecSend, ExecDone, SendPayload, SetEndSign, ReadState
<1>12. CASE register_sub_topic(t) \/ Dispatch(t)
  BY <1>12 DEF register_sub_topic, Dispatch
<1> QED
  BY <1>1, <1>2, <1>3, <1>7, <1>12 DEF ThreadSteps

\* What the threads leave alone: the parser thread and, but for clearFlag, the flags.
LEMMA ThreadLeaves ==
    ASSUME NEW t \in Threads, Call(t) \/ ThreadSteps(t)
    PROVE  /\ status' = status /\ storing' = storing
           /\ sg_flags' = sg_flags \/ clearFlag(t)
           /\ ~UrcStore
           /\ ThreadSteps(t) => phase[t] # "idle"
<1> USE DEF flagVars
<1>1. status' = status /\ storing' = storing /\ (sg_flags' = sg_flags \/ clearFlag(t))
  <2>1. CASE Call(t) \/ Return(t)
    BY <2>1 DEF Call, Return
  <2>2. CASE ClearRead(t) \/ clearFlag(t) \/ waitFlag(t) \/ WaitExpired(t)
    BY <2>2 DEF ClearRead, clearFlag, waitFlag, WaitExpired
  <2>3. CASE ExecSend(t) \/ ExecDone(t) \/ SendPayload(t) \/ SetEndSign(t) \/ ReadState(t)
    BY <2>3 DEF ExecSend, ExecDone, SendPayload, SetEndSign, ReadState
  <2>4. CASE TestLock(t) \/ SetLock(t) \/ register_sub_topic(t) \/ Dispatch(t)
    BY <2>4 DEF TestLock, SetLock, register_sub_topic, Dispatch
  <2> QED
    BY <2>1, <2>2, <2>3, <2>4 DEF ThreadSteps
<1>2. ~UrcStore
  BY <1>1 DEF UrcStore
<1>3. ThreadSteps(t) => phase[t] # "idle"
  BY DEF ThreadSteps, Return, Ended, ClearRead, clearFlag, waitFlag, WaitExpired, ExecSend, ExecDone,
     SendPayload, SetEndSign, ReadState, TestLock, Needs, SetLock, register_sub_topic, Dispatch, Is, At
<1> QED
  BY <1>1, <1>2, <1>3

\* Races are never forgotten.
LEMMA RacesGrow == [Next]_vars => races \subseteq races'
<1> SUFFICES ASSUME [Next]_vars PROVE races \subseteq races'
  OBVIOUS
<1> USE DEF ghostVars, Lossy
<1>1. CASE Outside \/ UNCHANGED vars
  BY <1>1 DEF Outside, vars, module_init, UrcRead, UrcStore, ParseLine, SendUrc, DropConnection, ForwardMessage
<1>2. ASSUME NEW t \in Threads, Call(t) \/ ThreadSteps(t)
      PROVE  races \subseteq races'
  <2>1. CASE Call(t) \/ Return(t)
    BY <2>1 DEF Call, Return
  <2>2. CASE ClearRead(t) \/ clearFlag(t) \/ waitFlag(t) \/ WaitExpired(t)
    BY <2>2 DEF ClearRead, clearFlag, waitFlag, WaitExpired
  <2>3. CASE ExecSend(t) \/ ExecDone(t) \/ SendPayload(t) \/ SetEndSign(t) \/ ReadState(t)
    BY <2>3 DEF ExecSend, ExecDone, SendPayload, SetEndSign, ReadState
  <2>4. CASE TestLock(t) \/ SetLock(t) \/ register_sub_topic(t) \/ Dispatch(t)
    BY <2>4 DEF TestLock, SetLock, register_sub_topic, Dispatch
  <2> QED
    BY <1>2, <2>1, <2>2, <2>3, <2>4 DEF ThreadSteps
<1> QED
  BY <1>1, <1>2, StepKinds

-----------------------------------------------------------------------------
(* sg_mqtt_lock.                                                           *)

\* Unless two threads tested the lock at the same time, at most one is beyond
\* the test, and the lock is taken exactly if it is inside.
LockInv ==
    /\ PhaseInv
    /\ sg_mqtt_lock \in BOOLEAN
    /\ "lock" \notin races =>
          /\ \A s, t \in Threads : {phase[s], phase[t]} \subseteq {"tested", "locked"} => s = t
          /\ sg_mqtt_lock <=> \E t \in Threads : phase[t] = "locked"

LEMMA LockNext == LockInv /\ [Next]_vars => LockInv'
<1> SUFFICES ASSUME LockInv, [Next]_vars PROVE LockInv'
  OBVIOUS
<1>0. races \subseteq races'
  BY RacesGrow
<1> USE DEF LockInv, PhaseInv, Phases
<1>1. CASE Outside \/ UNCHANGED vars
  BY <1>0, <1>1, OutsideThreads DEF threadVars
<1>2. ASSUME NEW t \in Threads, Call(t) \/ ThreadSteps(t), ~TestLock(t), ~SetLock(t)
      PROVE  LockInv'
  <2>1. PICK p \in {"idle", "step", "rmw", "sent"} : phase' = [phase EXCEPT ![t] = p]
    BY <1>2, PhaseMoves
  <2>2. /\ phase[t] # "tested"
        /\ phase[t] = "locked" => sg_mqtt_lock' = FALSE
        /\ phase[t] # "locked" => sg_mqtt_lock' = sg_mqtt_lock
    BY <1>2, PhaseMoves, LockMoves
  <2>3. phase' \in [Threads -> Phases]
    BY <2>1
  <2>4. sg_mqtt_lock' \in BOOLEAN
    BY <2>2, Zenon
  <2>5. ASSUME "lock" \notin races'
        PROVE  /\ \A r, s \in Threads : {phase'[r], phase'[s]} \subseteq {"tested", "locked"} => r = s
               /\ sg_mqtt_lock' <=> \E s \in Threads : phase'[s] = "locked"
    <3>1. \A s \in Threads : phase'[s] \in {"tested", "locked"} => phase'[s] = phase[s] /\ s # t
      BY <2>1
    <3>2. \A s \in Threads : s # t => phase'[s] = phase[s]
      BY <2>1
    <3>3. \A r, s \in Threads : {phase[r], phase[s]} \subseteq {"tested", "locked"} => r = s
      BY <1>0, <2>5
    <3>4. sg_mqtt_lock <=> \E s \in Threads : phase[s] = "locked"
      BY <1>0, <2>5, Zenon
    <3>5. CASE phase[t] = "locked"
      <4>1. \A s \in Threads : phase'[s] # "locked"
        BY <3>1, <3>3, <3>5
      <4>2. sg_mqtt_lock' = FALSE
        BY <2>2, <3>5
      <4> QED
        BY <3>1, <3>3, <4>1, <4>2
    <3>6. CASE phase[t] # "locked"
      <4>1. (\E s \in Threads : phase[s] = "locked") <=> (\E s \in Threads : phase'[s] = "locked")
        BY <3>1, <3>2, <3>6
      <4>2. sg_mqtt_lock' = sg_mqtt_lock
        BY <2>2, <3>6
      <4>3. sg_mqtt_lock' <=> \E s \in Threads : phase'[s] = "locked"
        BY <3>4, <4>1, <4>2, Zenon
      <4> QED
        BY <3>1, <3>3, <4>3
    <3> QED
      BY <3>5, <3>6
  <2> QED
    BY <2>3, <2>4, <2>5
<1>3. ASSUME NEW t \in Threads, TestLock(t)
      PROVE  LockInv'
  <2>1. sg_mqtt_lock' = sg_mqtt_lock /\ phase[t] = "step"
    BY <1>3 DEF TestLock, tableVars, Needs, Is, At
  <2>2. CASE sg_mqtt_lock
    <3>1. phase' = [phase EXCEPT ![t] = "step"]
      BY <1>3, <2>2 DEF TestLock, Fail, Advance
    <3> QED
      BY <1>0, <2>1, <2>2, <3>1
  <2>3. CASE ~sg_mqtt_lock
    <3>1. /\ phase' = [phase EXCEPT ![t] = "tested"]
          /\ races' = IF \E s \in Threads : phase[s] = "tested" THEN races \cup {"lock"} ELSE races
      BY <1>3, <2>3 DEF TestLock
    <3> QED
      BY <1>0, <2>1, <2>3, <3>1
  <2> QED
    BY <2>2, <2>3
<1>4. ASSUME NEW t \in Threads, SetLock(t)
      PROVE  LockInv'
  <2>1. sg_mqtt_lock' = TRUE /\ phase[t] = "tested" /\ phase' = [phase EXCEPT ![t] = "locked"]
    BY <1>4 DEF SetLock, At
  <2> QED
    BY <1>0, <2>1
<1> QED
  BY <1>1, <1>2, <1>3, <1>4, StepKinds

LEMMA LockAlways == Spec => []LockInv
<1>1. Init => LockInv
  <2>1. Init => phase \in [Threads -> Phases] /\ \A t \in Threads : phase[t] = "idle"
    BY DEF Init, Phases
  <2>2. Init => sg_mqtt_lock = FALSE
    BY DEF Init
  <2> QED
    BY <2>1, <2>2 DEF LockInv, PhaseInv
<1> QED
  BY <1>1, LockNext, PTL DEF Spec

\* sg_mqtt_lock is taken exactly while one thread is inside, on every path out.
THEOREM LockIsBracketed == Spec => []LockBracketed
<1>1. LockInv => LockBracketed
  <2> SUFFICES ASSUME LockInv, "lock" \notin races
               PROVE  LET inside == {t \in Threads : phase[t] = "locked"}
                      IN Cardinality(inside) <= 1 /\ (sg_mqtt_lock <=> inside # {})
    BY DEF LockBracketed
  <2> DEFINE inside == {t \in Threads : phase[t] = "locked"}
  <2>1. inside = {} \/ \E t : inside = {t}
    BY DEF LockInv
  <2>2. Cardinality(inside) <= 1
    <3>1. Cardinality({}) = 0 /\ \A t : Cardinality({t}) = 1
      BY FS_EmptySet, FS_Singleton, Zenon
    <3>2. Cardinality(inside) = 0 \/ Cardinality(inside) = 1
      BY <2>1, <3>1, Zenon
    <3> QED
      BY <3>2
  <2>3. inside # {} <=> \E t \in Threads : phase[t] = "locked"
    OBVIOUS
  <2>4. sg_mqtt_lock <=> \E t \in Threads : phase[t] = "locked"
    BY Zenon DEF LockInv
  <2> HIDE DEF inside
  <2>5. sg_mqtt_lock <=> inside # {}
    BY <2>3, <2>4, Zenon
  <2> QED
    BY <2>2, <2>5 DEF inside
<1> QED
  BY <1>1, LockAlways, PTL

-----------------------------------------------------------------------------
(* The threads and their calls.                                            *)

Results == {"SUCCESS", "FAILURE", "TRUE", "FALSE"}

ThreadTypes ==
    /\ PhaseInv
    /\ op \in [Threads -> Calls \cup {"none"}]
    /\ topic \in [Threads -> Topics \cup {None}]
    /\ ip \in [Threads -> Nat]
    /\ id \in [Threads -> Nat]
    /\ result \in [Threads -> Results]
    /\ module_type \in Modules
    /\ calls \in Nat

\* A call is at a step of its script that fits its place in it.
Placed(t) ==
    /\ phase[t] = "idle" => id[t] = 0 /\ op[t] = "none"
    /\ phase[t] # "idle" => /\ op[t] \in Calls /\ id[t] \in 1 .. calls
                            /\ ip[t] \in 1 .. Len(Script(module_type, op[t])) + 1
    /\ phase[t] = "rmw" => Is(t, "rmw", "clear")
    /\ phase[t] = "sent" => Is(t, "sent", "exec")
    /\ phase[t] \in {"tested", "locked"} => At(t, phase[t]) /\ Step(t).do \in {"register", "deliver"}
    /\ op[t] = "sub" => topic[t] \in Topics

\* Calls have numbers of their own, one command is under way at a time, and the
\* calls that configure the module are alone.
ThreadInv ==
    /\ ThreadTypes
    /\ \A t \in Threads : Placed(t)
    /\ \A t \in Threads : phase[t] = "sent" <=> busy = t
    /\ busy \in Threads \cup {None}
    /\ \A s, t \in Threads : (s # t /\ phase[s] # "idle" /\ phase[t] # "idle")
                             => id[s] # id[t] /\ {op[s], op[t]} \cap Setup = {}

\* What a step of one thread may touch of the variables of the threads.
Own(t) ==
    /\ phase' = [phase EXCEPT ![t] = phase'[t]]
    /\ op' = [op EXCEPT ![t] = op'[t]]
    /\ topic' = [topic EXCEPT ![t] = topic'[t]]
    /\ ip' = [ip EXCEPT ![t] = ip'[t]]
    /\ id' = [id EXCEPT ![t] = id'[t]]
    /\ result' = [result EXCEPT ![t] = result'[t]]

LEMMA OwnStep ==
    ASSUME ThreadTypes, NEW t \in Threads, Call(t) \/ ThreadSteps(t)
    PROVE  Own(t)
<1> USE DEF ThreadTypes, PhaseInv, Own, Succeed, Fail, Advance
<1>1. CASE Call(t)
  BY <1>1 DEF Call
<1>2. CASE Return(t)
  BY <1>2 DEF Return
<1>3. CASE ClearRead(t)
  BY <1>3 DEF ClearRead
<1>4. CASE clearFlag(t)
  BY <1>4 DEF clearFlag
<1>5. CASE waitFlag(t)
  BY <1>5 DEF waitFlag
<1>6. CASE WaitExpired(t)
  BY <1>6 DEF WaitExpired
<1>7. CASE ExecSend(t)
  BY <1>7 DEF ExecSend
<1>8. CASE ExecDone(t)
  BY <1>8 DEF ExecDone
<1>9. CASE SendPayload(t)
  BY <1>9 DEF SendPayload
<1>10. CASE SetEndSign(t)
  BY <1>10 DEF SetEndSign
<1>11. CASE ReadState(t)
  BY <1>11 DEF ReadState
<1>12. CASE TestLock(t)
  BY <1>12 DEF TestLock
<1>13. CASE SetLock(t)
  BY <1>13 DEF SetLock
<1>14. CASE register_sub_topic(t)
  BY <1>14 DEF register_sub_topic
<1>15. CASE Dispatch(t)
  BY <1>15 DEF Dispatch
<1> QED
  BY <1>1, <1>2, <1>3, <1>4, <1>5, <1>6, <1>7, <1>8, <1>9, <1>10, <1>11, <1>12, <1>13, <1>14, <1>15
     DEF ThreadSteps

\* Within a call the step stays within the script.
LEMMA StepStays ==
    ASSUME ThreadTypes, NEW t \in Threads, Placed(t), NEW place, At(t, place),
           Succeed(t) \/ Fail(t)
    PROVE  /\ ip'[t] \in 1 .. Len(Script(module_type, op[t])) + 1
           /\ phase'[t] = "step" /\ result'[t] \in Results
<1> DEFINE s == Script(module_type, op[t])
           n == ip[t]
<1>1. phase[t] # "idle" /\ op[t] \in Calls /\ n \in 1 .. Len(s) /\ Step(t) = s[n]
  BY DEF At, Placed, Step, ThreadTypes
<1>2. WellScripted(s)
  BY <1>1, Scripts DEF ThreadTypes
<1>3. Len(s) \in Nat \ {0} /\ (s[n].fail = "again" => n > 1) /\ (s[n].fail = "else" => n < Len(s))
  BY <1>1, <1>2 DEF WellScripted
<1> HIDE DEF s
<1>4. CASE Succeed(t)
  <2>1. \/ ip' = [ip EXCEPT ![t] = n + 1]
        \/ s[n].fail = "else" /\ ip' = [ip EXCEPT ![t] = n + 2]
    BY <1>1, <1>4 DEF Succeed, Advance
  <2>2. ip'[t] \in 1 .. Len(s) + 1
    BY <1>1, <1>3, <2>1 DEF ThreadTypes
  <2> QED
    BY <1>4, <2>2 DEF Succeed, Advance, ThreadTypes, PhaseInv, s
<1>5. CASE Fail(t)
  <2>1. \/ ip' = [ip EXCEPT ![t] = n + 1]
        \/ s[n].fail = "again" /\ ip' = [ip EXCEPT ![t] = n - 1]
        \/ ip' = [ip EXCEPT ![t] = Len(s) + 1]
        \/ ip' = [ip EXCEPT ![t] = Len(s)]
    BY <1>1, <1>5 DEF Fail, Advance, s
  <2>2. ip'[t] \in 1 .. Len(s) + 1
    BY <1>1, <1>3, <2>1 DEF ThreadTypes
  <2>3. result'[t] \in Results /\ phase'[t] = "step"
    BY <1>5 DEF Fail, Failure, Advance, ThreadTypes, PhaseInv, Results
  <2> QED
    BY <2>2, <2>3 DEF s
<1> QED
  BY <1>4, <1>5

\* The call goes on: which it is stays as it is, and its place fits again.
GoesOn(t) ==
    /\ phase[t] # "idle" /\ phase'[t] # "idle"
    /\ op'[t] = op[t] /\ id'[t] = id[t] /\ topic'[t] = topic[t]
    /\ module_type' = module_type /\ calls' = calls
    /\ result'[t] \in Results
    /\ Placed(t)'
    /\ \/ phase'[t] = "sent" /\ busy = None /\ busy' = t
       \/ phase[t] = "sent" /\ phase'[t] # "sent" /\ busy' = None
       \/ phase[t] # "sent" /\ phase'[t] # "sent" /\ busy' = busy

\* The steps that end with the next step of the script,
LEMMA MovesOn ==
    ASSUME ThreadInv, NEW t \in Threads, NEW place, At(t, place), Succeed(t) \/ Fail(t),
           UNCHANGED <<op, id, topic, module_type, calls>>,
           \/ phase[t] = "sent" /\ busy' = None
           \/ phase[t] # "sent" /\ busy' = busy
    PROVE  GoesOn(t)
<1>1. /\ ip'[t] \in 1 .. Len(Script(module_type, op[t])) + 1
      /\ phase'[t] = "step" /\ result'[t] \in Results
  BY StepStays DEF ThreadInv
<1> QED
  BY <1>1 DEF GoesOn, ThreadInv, Placed, At

\* and those that stay at theirs.
LEMMA StaysAt ==
    ASSUME ThreadInv, NEW t \in Threads, NEW p \in {"rmw", "sent", "tested", "locked"},
           phase[t] # "idle", ip[t] <= Len(Script(module_type, op[t])),
           phase' = [phase EXCEPT ![t] = p],
           p = "rmw" => Step(t).do = "clear",
           p = "sent" => Step(t).do = "exec",
           p \in {"tested", "locked"} => Step(t).do \in {"register", "deliver"},
           UNCHANGED <<op, id, topic, ip, result, module_type, calls>>,
           \/ phase[t] # "sent" /\ p = "sent" /\ busy = None /\ busy' = t
           \/ phase[t] # "sent" /\ p # "sent" /\ busy' = busy
    PROVE  GoesOn(t)
<1>1. phase'[t] = p
  BY DEF ThreadInv, ThreadTypes, PhaseInv
<1>2. /\ op'[t] = op[t] /\ id'[t] = id[t] /\ topic'[t] = topic[t] /\ ip'[t] = ip[t]
      /\ result'[t] \in Results
  BY DEF ThreadInv, ThreadTypes
<1>3. Step(t)' = Step(t)
  BY DEF Step
<1>4. Placed(t)'
  <2>1. phase'[t] # "idle" /\ (op'[t] = "sub" => topic'[t] \in Topics)
    BY <1>1, <1>2 DEF ThreadInv, Placed
  <2>2. op'[t] \in Calls /\ id'[t] \in 1 .. calls' /\ ip'[t] \in 1 .. Len(Script(module_type', op'[t])) + 1
    BY <1>2 DEF ThreadInv, Placed
  <2>3. At(t, p)'
    BY <1>1 DEF At
  <2>4. Is(t, p, Step(t).do)'
    BY <1>3, <2>3 DEF Is
  <2> QED
    BY <1>1, <1>3, <2>1, <2>2, <2>3, <2>4 DEF Placed, Is
<1> QED
  BY <1>1, <1>2, <1>4 DEF GoesOn

LEMMA CallGoesOn ==
    ASSUME ThreadInv, NEW t \in Threads, ThreadSteps(t), ~Return(t)
    PROVE  GoesOn(t)
<1> USE DEF Is, lineVars
<1>1. CASE ClearRead(t)
  BY <1>1, StaysAt DEF ClearRead, At
<1>2. CASE clearFlag(t)
  BY <1>2, MovesOn DEF clearFlag, At
<1>3. CASE waitFlag(t)
  BY <1>3, MovesOn DEF waitFlag, At
<1>4. CASE WaitExpired(t)
  BY <1>4, MovesOn DEF WaitExpired, At
<1>5. CASE ExecSend(t)
  BY <1>5, StaysAt DEF ExecSend, At
<1>6. CASE ExecDone(t)
  <2>1. Succeed(t) \/ Fail(t)
    BY <1>6 DEF ExecDone
  <2>2. /\ At(t, "sent") /\ phase[t] = "sent" /\ busy' = None
        /\ UNCHANGED <<op, id, topic, module_type, calls>>
    BY <1>6 DEF ExecDone, At
  <2> QED
    BY <2>1, <2>2, MovesOn
<1>7. CASE SendPayload(t)
  BY <1>7, MovesOn DEF SendPayload, At
<1>8. CASE SetEndSign(t)
  BY <1>8, MovesOn DEF SetEndSign, At
<1>9. CASE ReadState(t)
  <2>1. /\ phase[t] = "step" /\ ip[t] <= Len(Script(module_type, op[t]))
        /\ ip' = [ip EXCEPT ![t] = ip[t] + 1] /\ phase' = [phase EXCEPT ![t] = "step"]
        /\ result' = [result EXCEPT ![t] = IF "STATE" \in sg_flags THEN "TRUE" ELSE "FALSE"]
        /\ UNCHANGED <<op, id, topic, module_type, calls, busy>>
    BY <1>9 DEF ReadState, At, Advance
  <2>2. phase'[t] = "step" /\ ip'[t] = ip[t] + 1 /\ result'[t] \in Results
    BY <2>1 DEF ThreadInv, ThreadTypes, PhaseInv, Results
  <2>3. op[t] \in Calls /\ module_type \in Modules
    BY <2>1 DEF ThreadInv, Placed, ThreadTypes
  <2>4. Len(Script(module_type, op[t])) \in Nat
    BY <2>3, Scripts DEF WellScripted
  <2>5. Placed(t)'
    BY <2>1, <2>2, <2>4 DEF ThreadInv, Placed
  <2> QED
    BY <2>1, <2>2, <2>5 DEF GoesOn
<1>10. CASE TestLock(t)
  <2>1. /\ At(t, "step") /\ phase[t] = "step" /\ Step(t).do \in {"register", "deliver"}
        /\ UNCHANGED <<op, id, topic, module_type, calls, busy>>
    BY <1>10 DEF TestLock, Needs, At
  <2>2. CASE Fail(t)
    BY <2>1, <2>2, MovesOn
  <2>3. CASE phase' = [phase EXCEPT ![t] = "tested"] /\ UNCHANGED <<ip, result>>
    BY <2>1, <2>3, StaysAt DEF At
  <2> QED
    BY <1>10, <2>2, <2>3 DEF TestLock
<1>11. CASE SetLock(t)
  <2>1. Step(t).do \in {"register", "deliver"}
    BY <1>11 DEF SetLock, ThreadInv, Placed, At
  <2> QED
    BY <1>11, <2>1, StaysAt DEF SetLock, At
<1>12. CASE register_sub_topic(t)
  BY <1>12, MovesOn DEF register_sub_topic, At
<1>13. CASE Dispatch(t)
  BY <1>13, MovesOn DEF Dispatch, At
<1> QED
  BY <1>1, <1>2, <1>3, <1>4, <1>5, <1>6, <1>7, <1>8, <1>9, <1>10, <1>11, <1>12, <1>13 DEF ThreadSteps

\* The other threads are where they were.
LEMMA OthersPlaced ==
    ASSUME ThreadInv, NEW t \in Threads, Own(t), calls' \in Nat, calls' >= calls,
           module_type' = module_type \/ \A s \in Threads \ {t} : phase[s] = "idle"
    PROVE  \A s \in Threads \ {t} :
              /\ Placed(s)'
              /\ phase'[s] = phase[s] /\ op'[s] = op[s] /\ id'[s] = id[s]
              /\ topic'[s] = topic[s] /\ ip'[s] = ip[s] /\ result'[s] = result[s]
<1> SUFFICES ASSUME NEW s \in Threads \ {t}
             PROVE  /\ Placed(s)'
                    /\ phase'[s] = phase[s] /\ op'[s] = op[s] /\ id'[s] = id[s]
                    /\ topic'[s] = topic[s] /\ ip'[s] = ip[s] /\ result'[s] = result[s]
  OBVIOUS
<1>1. /\ phase'[s] = phase[s] /\ op'[s] = op[s] /\ id'[s] = id[s]
      /\ topic'[s] = topic[s] /\ ip'[s] = ip[s] /\ result'[s] = result[s]
  BY DEF Own, ThreadInv, ThreadTypes, PhaseInv
<1>2. CASE phase[s] = "idle"
  BY <1>1, <1>2, ApiAssumption DEF ThreadInv, Placed
<1>3. CASE phase[s] # "idle"
  <2>1. module_type' = module_type
    BY <1>3
  <2>2. Step(s)' = Step(s) /\ \A p : At(s, p)' <=> At(s, p)
    BY <1>1, <2>1 DEF Step, At
  <2>3. Is(s, "rmw", "clear")' <=> Is(s, "rmw", "clear")
    BY <2>2 DEF Is
  <2>4. Is(s, "sent", "exec")' <=> Is(s, "sent", "exec")
    BY <2>2 DEF Is
  <2>5. id[s] \in 1 .. calls => id[s] \in 1 .. calls'
    BY DEF ThreadInv, ThreadTypes
  <2>6. At(s, phase[s])' <=> At(s, phase[s])
    BY <1>1, <2>1 DEF At
  <2> QED
    BY <1>1, <2>1, <2>2, <2>3, <2>4, <2>5, <2>6 DEF ThreadInv, Placed
<1> QED
  BY <1>1, <1>2, <1>3

\* What is left to show of a step of a thread.
LEMMA ThreadKeeps ==
    ASSUME ThreadInv, NEW t \in Threads, Own(t), calls' \in Nat, calls' >= calls,
           module_type' \in Modules,
           module_type' = module_type \/ \A s \in Threads \ {t} : phase[s] = "idle",
           phase'[t] \in Phases, op'[t] \in Calls \cup {"none"}, topic'[t] \in Topics \cup {None},
           ip'[t] \in Nat, id'[t] \in Nat, result'[t] \in Results,
           Placed(t)',
           \/ phase'[t] = "sent" /\ busy = None /\ busy' = t
           \/ phase[t] = "sent" /\ phase'[t] # "sent" /\ busy' = None
           \/ phase[t] # "sent" /\ phase'[t] # "sent" /\ busy' = busy,
           \A s \in Threads \ {t} : (phase[s] # "idle" /\ phase'[t] # "idle")
                                    => id'[t] # id[s] /\ {op'[t], op[s]} \cap Setup = {}
    PROVE  ThreadInv'
<1>1. \A s \in Threads \ {t} :
         /\ Placed(s)'
         /\ phase'[s] = phase[s] /\ op'[s] = op[s] /\ id'[s] = id[s]
         /\ topic'[s] = topic[s] /\ ip'[s] = ip[s] /\ result'[s] = result[s]
  BY OthersPlaced
<1>2. ThreadTypes'
  BY DEF ThreadInv, ThreadTypes, PhaseInv, Own
<1>3. \A s \in Threads : Placed(s)'
  BY <1>1
<1>4. \A s \in Threads : phase'[s] = "sent" <=> busy' = s
  BY <1>1, ApiAssumption DEF ThreadInv
<1>5. busy' \in Threads \cup {None}
  BY DEF ThreadInv
<1>6. \A r, s \in Threads : (r # s /\ phase'[r] # "idle" /\ phase'[s] # "idle")
                             => id'[r] # id'[s] /\ {op'[r], op'[s]} \cap Setup = {}
  BY <1>1 DEF ThreadInv
<1> QED
  BY <1>2, <1>3, <1>4, <1>5, <1>6 DEF ThreadInv

LEMMA ThreadNext == ThreadInv /\ [Next]_vars => ThreadInv'
<1> SUFFICES ASSUME ThreadInv, [Next]_vars PROVE ThreadInv'
  OBVIOUS
<1>1. CASE Outside \/ UNCHANGED vars
  <2>1. UNCHANGED <<threadVars, module_type, calls>>
    BY <1>1, OutsideThreads
  <2>2. busy' = busy
    BY <1>1 DEF Outside, vars, lineVars, module_init, UrcRead, UrcStore, ParseLine, SendUrc,
       DropConnection, ForwardMessage
  <2>3. \A t \in Threads : Placed(t)' <=> Placed(t)
    BY <2>1 DEF threadVars, Placed, Is, At, Step
  <2> QED
    BY <2>1, <2>2, <2>3 DEF ThreadInv, ThreadTypes, PhaseInv, threadVars
<1>2. ASSUME NEW t \in Threads, Call(t)
      PROVE  ThreadInv'
  <2>1. Own(t)
    BY <1>2, OwnStep DEF ThreadInv
  <2>2. PICK o \in Calls :
          /\ MayMeet(o, t)
          /\ op' = [op EXCEPT ![t] = o]
          /\ module_type' \in IF o = "net" /\ module_type = "any" THEN ModuleTypes ELSE {module_type}
          /\ \E x \in IF o \in {"sub", "unsub"} THEN Topics ELSE {None} :
                topic' = [topic EXCEPT ![t] = x]
    BY <1>2, ApiAssumption DEF Call
  <2>3. /\ phase[t] = "idle" /\ calls' = calls + 1 /\ id' = [id EXCEPT ![t] = calls + 1]
        /\ ip' = [ip EXCEPT ![t] = 1] /\ phase' = [phase EXCEPT ![t] = "step"]
        /\ UNCHANGED <<result, busy>>
    BY <1>2 DEF Call, Advance, lineVars
  <2>4. /\ phase'[t] = "step" /\ ip'[t] = 1 /\ id'[t] = calls + 1 /\ op'[t] = o
        /\ topic'[t] \in Topics \cup {None} /\ (o = "sub" => topic'[t] \in Topics)
        /\ result'[t] \in Results /\ calls \in Nat
    BY <2>2, <2>3 DEF ThreadInv, ThreadTypes, PhaseInv
  <2>5. module_type' \in Modules
    BY <2>2, ApiAssumption DEF ThreadInv, ThreadTypes, Modules
  <2>6. module_type' = module_type \/ \A s \in Threads \ {t} : phase[s] = "idle"
    BY <2>2 DEF MayMeet, Setup
  <2>7. Placed(t)'
    <3>1. Len(Script(module_type', op'[t])) \in Nat \ {0}
      BY <2>4, <2>5, Scripts DEF WellScripted
    <3> QED
      BY <2>3, <2>4, <3>1 DEF Placed
  <2>8. \A s \in Threads \ {t} : phase[s] # "idle" => id'[t] # id[s] /\ {op'[t], op[s]} \cap Setup = {}
    BY <2>2, <2>4 DEF ThreadInv, Placed, MayMeet
  <2> QED
    BY <2>1, <2>3, <2>4, <2>5, <2>6, <2>7, <2>8, ThreadKeeps DEF Phases
<1>3. ASSUME NEW t \in Threads, Return(t)
      PROVE  ThreadInv'
  <2>1. Own(t)
    BY <1>3, OwnStep DEF ThreadInv, ThreadSteps
  <2>2. /\ phase[t] = "step"
        /\ phase' = [phase EXCEPT ![t] = "idle"] /\ op' = [op EXCEPT ![t] = "none"]
        /\ topic' = [topic EXCEPT ![t] = None] /\ result' = [result EXCEPT ![t] = "SUCCESS"]
        /\ ip' = [ip EXCEPT ![t] = 1] /\ id' = [id EXCEPT ![t] = 0]
        /\ UNCHANGED <<module_type, busy, calls>>
    BY <1>3 DEF Return, Ended, lineVars
  <2>3. /\ phase'[t] = "idle" /\ op'[t] = "none" /\ topic'[t] = None /\ result'[t] = "SUCCESS"
        /\ ip'[t] = 1 /\ id'[t] = 0 /\ calls \in Nat /\ module_type \in Modules
    BY <2>2 DEF ThreadInv, ThreadTypes, PhaseInv
  <2>4. Placed(t)'
    BY <2>3 DEF Placed
  <2> QED
    BY <2>1, <2>2, <2>3, <2>4, ThreadKeeps DEF Phases, Results
<1>4. ASSUME NEW t \in Threads, ThreadSteps(t), ~Return(t)
      PROVE  ThreadInv'
  <2>1. Own(t) /\ GoesOn(t)
    BY <1>4, OwnStep, CallGoesOn DEF ThreadInv
  <2>2. phase'[t] \in Phases
    <3>1. CASE TestLock(t) \/ SetLock(t)
      BY <3>1 DEF ThreadInv, ThreadTypes, PhaseInv, Phases, TestLock, SetLock, Fail, Advance
    <3> QED
      BY <1>4, <3>1, PhaseMoves DEF ThreadInv, ThreadTypes, PhaseInv, Phases
  <2>3. /\ op[t] \in Calls \cup {"none"} /\ topic[t] \in Topics \cup {None} /\ id[t] \in Nat
        /\ calls \in Nat /\ module_type \in Modules
    BY DEF ThreadInv, ThreadTypes
  <2>4. ip'[t] \in Nat
    BY <2>1 DEF GoesOn, Placed
  <2>5. \A s \in Threads \ {t} : phase[s] # "idle" => id'[t] # id[s] /\ {op'[t], op[s]} \cap Setup = {}
    BY <2>1 DEF GoesOn, ThreadInv
  <2> QED
    BY <2>1, <2>2, <2>3, <2>4, <2>5, ThreadKeeps DEF GoesOn
<1> QED
  BY <1>1, <1>2, <1>3, <1>4, StepKinds

LEMMA ThreadInit == Init => ThreadInv
BY ApiAssumption DEF Init, ThreadInv, ThreadTypes, PhaseInv, Phases, Results, Modules, Placed

-----------------------------------------------------------------------------
(* The line between the module and the parser.                             *)

\* Only one call uses each of these commands and waits for these flags.
Exclusive(o, s) == \A k \in 1 .. Len(s) :
    /\ s[k].do = "exec" /\ s[k].arg = "SUB" => o = "sub" /\ k = 3
    /\ s[k].do = "exec" /\ s[k].arg = "PUBL" => o = "publ" /\ k = 2
    /\ s[k].do = "exec" /\ s[k].arg = "STATE" => o = "is_connected" /\ k = 1
    /\ s[k].do = "exec" /\ s[k].arg = "CREG" => o = "net"
    /\ s[k].do = "clear" /\ s[k].arg = "SUB" => o = "sub" /\ k \in {2, 5}
    /\ s[k].do = "clear" => s[k].arg # "STATE"
    /\ s[k].do = "wait" /\ s[k].arg = "SUB" => o = "sub" /\ k = 4
    /\ s[k].do = "register" => o = "sub" /\ k = 1
    /\ s[k].do = "deliver" => o = "deliver" /\ k = 1
    /\ s[k].do = "payload" => o = "publ" /\ k = 3
    /\ s[k].do = "state" => o = "is_connected" /\ k = 2

LEMMA ExclusiveSteps ==
    ASSUME NEW m \in Modules, NEW o \in Calls
    PROVE  Exclusive(o, Script(m, o))
<1> USE DEF Exclusive, Clear, Exec, Wait, Do
<1>1. Exclusive("handshake", module_handshake)
  BY DEF module_handshake
<1>2. Exclusive("info_set", module_info_set)
  BY DEF module_info_set
<1>3. Exclusive("conn", module_mqtt_conn)
  BY DEF module_mqtt_conn
<1>4. Exclusive("discon", module_mqtt_discon)
  BY DEF module_mqtt_discon
<1>5. Exclusive("pub", module_mqtt_pub)
  BY DEF module_mqtt_pub
<1>6. Exclusive("publ", module_mqtt_publ)
  BY DEF module_mqtt_publ
<1>7. Exclusive("sub", module_mqtt_sub)
  BY DEF module_mqtt_sub
<1>8. Exclusive("unsub", module_mqtt_unsub)
  BY DEF module_mqtt_unsub
<1>9. Exclusive("is_connected", IOT_MQTT_IsConnected)
  BY DEF IOT_MQTT_IsConnected
<1>10. Exclusive("server", wifi_set_test_server_ip)
  BY DEF wifi_set_test_server_ip
<1>11. Exclusive("cwmod", wifi_set_cwmod)
  BY DEF wifi_set_cwmod
<1>12. Exclusive("log", wifi_set_debug_level)
  BY DEF wifi_set_debug_level
<1>13. Exclusive("deliver", deliver_message)
  BY DEF deliver_message
<1>14. Exclusive("net", N21_net_reg)
  BY DEF N21_net_reg
<1>15. Exclusive("net", L206_net_reg)
  BY DEF L206_net_reg
<1>16. Exclusive("net", <<Clear("WIFI"), Exec("CWMODE", "ignore")>> \o wifi_connect)
  BY DEF wifi_connect
<1> HIDE DEF Exclusive, Clear, Exec, Wait, Do
<1>17. o = "net" => \/ Script(m, o) = N21_net_reg \/ Script(m, o) = L206_net_reg
                    \/ Script(m, o) = <<Clear("WIFI"), Exec("CWMODE", "ignore")>> \o wifi_connect
  BY DEF Script, module_register_network, Modules
<1>18. o = "net" => Exclusive(o, Script(m, o))
  BY <1>14, <1>15, <1>16, <1>17, Zenon
<1> QED
  BY <1>1, <1>2, <1>3, <1>4, <1>5, <1>6, <1>7, <1>8, <1>9, <1>10, <1>11, <1>12, <1>13, <1>18
     DEF Script, Calls

\* The same, of the step a thread is at.
LEMMA AtStep ==
    ASSUME ThreadInv, NEW t \in Threads, NEW place, At(t, place)
    PROVE  /\ op[t] \in Calls /\ ip[t] \in 1 .. Len(Script(module_type, op[t]))
           /\ Step(t).do = "exec" /\ Step(t).arg = "SUB" => op[t] = "sub" /\ ip[t] = 3
           /\ Step(t).do = "exec" /\ Step(t).arg = "PUBL" => op[t] = "publ" /\ ip[t] = 2
           /\ Step(t).do = "exec" /\ Step(t).arg = "STATE" => op[t] = "is_connected" /\ ip[t] = 1
           /\ Step(t).do = "exec" /\ Step(t).arg = "CREG" => op[t] = "net"
           /\ Step(t).do = "clear" /\ Step(t).arg = "SUB" => op[t] = "sub" /\ ip[t] \in {2, 5}
           /\ Step(t).do = "clear" => Step(t).arg # "STATE"
           /\ Step(t).do = "wait" /\ Step(t).arg = "SUB" => op[t] = "sub" /\ ip[t] = 4
           /\ Step(t).do = "register" => op[t] = "sub" /\ ip[t] = 1
           /\ Step(t).do = "deliver" => op[t] = "deliver" /\ ip[t] = 1
           /\ Step(t).do = "payload" => op[t] = "publ" /\ ip[t] = 3
           /\ Step(t).do = "state" => op[t] = "is_connected" /\ ip[t] = 2
<1>1. op[t] \in Calls /\ module_type \in Modules /\ ip[t] \in 1 .. Len(Script(module_type, op[t]))
  BY DEF ThreadInv, ThreadTypes, Placed, At
<1>2. Exclusive(op[t], Script(module_type, op[t]))
  BY <1>1, ExclusiveSteps
<1> QED
  BY <1>1, <1>2 DEF Exclusive, Step

Nets == {"none", "attached", "ready"}
Words == {"ok", "error", "done", "refused", "0", "1"} \cup Nets
AllLines == [kind : FlagUrcs \cup {"ANSWER", "PUB", "DISCON"}, who : Nat, what : Topics \cup Words]

\* What each kind of line says.
Lines == {u \in AllLines :
    /\ u.kind = "ANSWER" => u.what \in {"ok", "error"}
    /\ u.kind = "PUB" => u.what \in Topics
    /\ u.kind = "SUB" => u.what \in Topics \cup {"refused"}
    /\ u.kind = "NET" => u.what \in Nets
    /\ u.kind = "STATE" => u.what \in {"0", "1"}}

\* The module takes on a topic.
Grants(u) == u.kind = "SUB" /\ u.what # "refused"

\* Lines carry numbers of calls that were made.
LineInv ==
    /\ uart \in Seq(Lines) /\ owed \in SUBSET Lines
    /\ \A k \in 1 .. Len(uart) : uart[k].who <= calls
    /\ \A u \in owed : u.who <= calls /\ u.kind \in {"CON", "SUB", "REG", "DISCON"}
    /\ net \in Nets /\ up \in BOOLEAN /\ subs \in SUBSET Topics
    /\ answer \in {"none", "ok", "error"}
    /\ msgs \in Seq(Topics)

\* The parser that stores has read the line it stores, and who delivers has
\* something to deliver.
ReadyInv ==
    /\ storing => uart # <<>> /\ Head(uart).kind \in FlagUrcs /\ status = "on"
    /\ \A t \in Threads : op[t] = "deliver" => t = Main /\ (ip[t] = 1 => msgs # <<>>)

\* A line at the end of the queue, and the first line taken from it.
LEMMA AppendLine ==
    ASSUME NEW S, NEW s \in Seq(S), NEW e \in S
    PROVE  /\ Append(s, e) \in Seq(S) /\ Len(Append(s, e)) = Len(s) + 1 /\ Len(s) \in Nat
           /\ \A k \in 1 .. Len(s) : Append(s, e)[k] = s[k]
           /\ Append(s, e)[Len(s) + 1] = e
OBVIOUS

LEMMA TailLine ==
    ASSUME NEW S, NEW s \in Seq(S), s # <<>>
    PROVE  /\ Tail(s) \in Seq(S) /\ Len(Tail(s)) = Len(s) - 1 /\ Len(s) \in Nat \ {0}
           /\ Head(s) = s[1] /\ Head(s) \in S
           /\ \A k \in 1 .. Len(s) - 1 : Tail(s)[k] = s[k + 1]
OBVIOUS

LEMMA ConcatLines ==
    ASSUME NEW S, NEW s \in Seq(S), NEW e \in S, NEW l \in S
    PROVE  s \o <<>> \o <<e>> = Append(s, e) /\ s \o <<l>> \o <<e>> = Append(Append(s, l), e)
<1>1. s \o <<>> = s
  OBVIOUS
<1>2. s \o <<l>> = Append(s, l) /\ s \o <<l>> \in Seq(S)
  OBVIOUS
<1>3. s \o <<e>> = Append(s, e)
  OBVIOUS
<1>4. ASSUME NEW r \in Seq(S) PROVE r \o <<e>> = Append(r, e)
  OBVIOUS
<1> QED
  BY <1>1, <1>2, <1>3, <1>4

\* The line a command makes the module send before its answer.
Before(t, n) ==
    CASE Step(t).arg = "STATE" -> Urc("STATE", id[t], IF up THEN "1" ELSE "0")
      [] Step(t).arg = "CREG" -> Urc("NET", id[t], n)
      [] OTHER -> Urc("WIFI", id[t], "done")
Answer(t, w) == Urc("ANSWER", id[t], w)

LEMMA ExecLines ==
    ASSUME ThreadInv, LineInv, NEW t \in Threads, Is(t, "step", "exec"), NEW n \in Nets
    PROVE  /\ Before(t, n) \in Lines /\ Answer(t, "ok") \in Lines /\ Answer(t, "error") \in Lines
           /\ \A good \in BOOLEAN : UrcsAfter(Step(t).arg, t, good) \in SUBSET Lines
           /\ \A good \in BOOLEAN : \A u \in UrcsAfter(Step(t).arg, t, good) :
                 /\ u.who = id[t] /\ u.kind \in {"CON", "SUB", "REG", "DISCON"}
                 /\ u.kind = "SUB" => op[t] = "sub" /\ ip[t] = 3 /\ (Grants(u) => u.what = topic[t])
           /\ id[t] \in 1 .. calls
           /\ uart \o LinesBefore(Step(t).arg, t, n) \o <<Answer(t, "ok")>>
              = IF Step(t).arg \in {"STATE", "CREG", "CWJAP"}
                THEN Append(Append(uart, Before(t, n)), Answer(t, "ok"))
                ELSE Append(uart, Answer(t, "ok"))
<1>1. id[t] \in 1 .. calls /\ calls \in Nat /\ (op[t] = "sub" => topic[t] \in Topics)
  BY DEF ThreadInv, ThreadTypes, Placed, Is, At
<1>2. Step(t).arg = "SUB" => op[t] = "sub" /\ ip[t] = 3
  BY AtStep DEF Is
<1>3. Before(t, n) \in Lines
  BY <1>1 DEF Before, Urc, Lines, AllLines, FlagUrcs, Words, Nets
<1>4. Answer(t, "ok") \in Lines /\ Answer(t, "error") \in Lines
  BY <1>1 DEF Answer, Urc, Lines, AllLines, FlagUrcs, Words
<1>5. ASSUME NEW good \in BOOLEAN
      PROVE  /\ UrcsAfter(Step(t).arg, t, good) \in SUBSET Lines
             /\ \A u \in UrcsAfter(Step(t).arg, t, good) :
                   /\ u.who = id[t] /\ u.kind \in {"CON", "SUB", "REG", "DISCON"}
                   /\ u.kind = "SUB" => op[t] = "sub" /\ ip[t] = 3 /\ (Grants(u) => u.what = topic[t])
  BY <1>1, <1>2 DEF UrcsAfter, Urc, Lines, AllLines, FlagUrcs, Words, Grants
<1>6. LinesBefore(Step(t).arg, t, n)
      = IF Step(t).arg \in {"STATE", "CREG", "CWJAP"} THEN <<Before(t, n)>> ELSE <<>>
  BY DEF LinesBefore, Before
<1>7. uart \in Seq(Lines)
  BY DEF LineInv
<1>8. /\ uart \o <<>> \o <<Answer(t, "ok")>> = Append(uart, Answer(t, "ok"))
      /\ uart \o <<Before(t, n)>> \o <<Answer(t, "ok")>> = Append(Append(uart, Before(t, n)), Answer(t, "ok"))
  BY <1>3, <1>4, <1>7, ConcatLines
<1>9. uart \o LinesBefore(Step(t).arg, t, n) \o <<Answer(t, "ok")>>
      = IF Step(t).arg \in {"STATE", "CREG", "CWJAP"}
        THEN Append(Append(uart, Before(t, n)), Answer(t, "ok"))
        ELSE Append(uart, Answer(t, "ok"))
  BY <1>6, <1>8, Zenon
<1> QED
  BY <1>1, <1>3, <1>4, <1>5, <1>9

\* Lines that are added keep the invariant of the line, and so does taking one.
LEMMA LineAdded ==
    ASSUME NEW s \in Seq(Lines), NEW c \in Nat, \A k \in 1 .. Len(s) : s[k].who <= c,
           NEW u \in Lines, u.who <= c
    PROVE  Append(s, u) \in Seq(Lines) /\ \A k \in 1 .. Len(Append(s, u)) : Append(s, u)[k].who <= c
<1>1. /\ Append(s, u) \in Seq(Lines) /\ Len(Append(s, u)) = Len(s) + 1 /\ Len(s) \in Nat
      /\ \A k \in 1 .. Len(s) : Append(s, u)[k] = s[k]
      /\ Append(s, u)[Len(s) + 1] = u
  BY AppendLine
<1>2. \A k \in 1 .. Len(s) + 1 : k \in 1 .. Len(s) \/ k = Len(s) + 1
  BY <1>1
<1> QED
  BY <1>1, <1>2

LEMMA LineTaken ==
    ASSUME NEW s \in Seq(Lines), NEW c \in Nat, \A k \in 1 .. Len(s) : s[k].who <= c, s # <<>>
    PROVE  Tail(s) \in Seq(Lines) /\ \A k \in 1 .. Len(Tail(s)) : Tail(s)[k].who <= c
<1>1. /\ Tail(s) \in Seq(Lines) /\ Len(Tail(s)) = Len(s) - 1 /\ Len(s) \in Nat \ {0}
      /\ \A k \in 1 .. Len(s) - 1 : Tail(s)[k] = s[k + 1]
  BY TailLine
<1> QED
  BY <1>1

LEMMA ExecLineInv ==
    ASSUME ThreadInv, LineInv, NEW t \in Threads, ExecSend(t)
    PROVE  LineInv'
<1> DEFINE c == Step(t).arg
<1>1. Is(t, "step", "exec") /\ answer' = "none" /\ UNCHANGED <<calls, msgs, up>>
  BY DEF ExecSend
<1>2. /\ uart \in Seq(Lines) /\ owed \in SUBSET Lines /\ calls \in Nat
      /\ \A k \in 1 .. Len(uart) : uart[k].who <= calls
      /\ \A u \in owed : u.who <= calls /\ u.kind \in {"CON", "SUB", "REG", "DISCON"}
      /\ net \in Nets /\ up \in BOOLEAN /\ subs \in SUBSET Topics /\ msgs \in Seq(Topics)
  BY DEF LineInv, ThreadInv, ThreadTypes
<1>3. id[t] \in 1 .. calls /\ Answer(t, "ok") \in Lines /\ Answer(t, "error") \in Lines
  BY <1>1, <1>2, ExecLines
<1>4. Answer(t, "ok").who <= calls /\ Answer(t, "error").who <= calls
  BY <1>2, <1>3 DEF Answer, Urc
<1>5. ASSUME NEW n \in Nets, n \in Network(c), net' = n, NEW good \in BOOLEAN,
             uart' = uart \o LinesBefore(c, t, n) \o <<Answer(t, "ok")>>,
             owed' = owed \cup UrcsAfter(c, t, good), subs' \in SUBSET subs
      PROVE  LineInv'
  <2>1. Before(t, n).who = id[t]
    BY DEF Before, Urc
  <2>2. Before(t, n) \in Lines
    BY <1>1, <1>5, ExecLines
  <2>3. uart' = Append(Append(uart, Before(t, n)), Answer(t, "ok")) \/ uart' = Append(uart, Answer(t, "ok"))
    BY <1>1, <1>5, ExecLines
  <2>4. /\ Append(uart, Before(t, n)) \in Seq(Lines)
        /\ \A k \in 1 .. Len(Append(uart, Before(t, n))) : Append(uart, Before(t, n))[k].who <= calls
    BY <1>2, <1>3, <2>1, <2>2, LineAdded
  <2>5. uart' \in Seq(Lines) /\ \A k \in 1 .. Len(uart') : uart'[k].who <= calls
    <3>1. CASE uart' = Append(uart, Answer(t, "ok"))
      BY <1>2, <1>3, <1>4, <3>1, LineAdded
    <3>2. CASE uart' = Append(Append(uart, Before(t, n)), Answer(t, "ok"))
      BY <1>2, <1>3, <1>4, <2>4, <3>2, LineAdded
    <3> QED
      BY <2>3, <3>1, <3>2
  <2>6. owed' \in SUBSET Lines /\ \A u \in owed' : u.who <= calls /\ u.kind \in {"CON", "SUB", "REG", "DISCON"}
    <3>1. /\ UrcsAfter(c, t, good) \in SUBSET Lines
          /\ \A u \in UrcsAfter(c, t, good) : u.who = id[t] /\ u.kind \in {"CON", "SUB", "REG", "DISCON"}
      BY <1>1, <1>5, ExecLines
    <3> QED
      BY <1>2, <1>3, <1>5, <3>1
  <2> QED
    BY <1>1, <1>2, <1>5, <2>5, <2>6 DEF LineInv
<1>6. CASE uart' = Append(uart, Answer(t, "error")) /\ UNCHANGED <<owed, net, subs>>
  <2>1. uart' \in Seq(Lines) /\ \A k \in 1 .. Len(uart') : uart'[k].who <= calls
    BY <1>2, <1>3, <1>4, <1>6, LineAdded
  <2> QED
    BY <1>1, <1>2, <1>6, <2>1 DEF LineInv
<1>7. CASE UNCHANGED <<uart, owed, net, subs>>
  BY <1>1, <1>2, <1>7 DEF LineInv
<1>8. \/ /\ net' \in Network(c)
         /\ uart' = uart \o LinesBefore(c, t, net') \o <<Answer(t, "ok")>>
         /\ \E good \in BOOLEAN : owed' = owed \cup UrcsAfter(c, t, good)
         /\ subs' \in SUBSET subs
      \/ uart' = Append(uart, Answer(t, "error")) /\ UNCHANGED <<owed, net, subs>>
      \/ UNCHANGED <<uart, owed, net, subs>>
  BY DEF ExecSend, Answer
<1>9. Network(c) \subseteq Nets
  BY <1>2 DEF Network, Nets
<1> HIDE DEF c
<1> QED
  BY <1>5, <1>6, <1>7, <1>8, <1>9

LEMMA LineNext == ThreadInv /\ LineInv /\ ReadyInv /\ [Next]_vars => LineInv'
<1> SUFFICES ASSUME ThreadInv, LineInv, ReadyInv, [Next]_vars PROVE LineInv'
  OBVIOUS
<1>0. /\ uart \in Seq(Lines) /\ owed \in SUBSET Lines /\ calls \in Nat
      /\ \A k \in 1 .. Len(uart) : uart[k].who <= calls
      /\ \A u \in owed : u.who <= calls /\ u.kind \in {"CON", "SUB", "REG", "DISCON"}
      /\ net \in Nets /\ up \in BOOLEAN /\ subs \in SUBSET Topics /\ msgs \in Seq(Topics)
      /\ answer \in {"none", "ok", "error"}
  BY DEF LineInv, ThreadInv, ThreadTypes
<1>1. CASE UNCHANGED <<uart, owed, net, up, subs, calls, msgs>> /\ answer' \in {"none", answer}
  BY <1>0, <1>1 DEF LineInv
<1>2. CASE module_init \/ UrcRead \/ UNCHANGED vars
  BY <1>1, <1>2 DEF module_init, UrcRead, vars, lineVars, modVars
<1>3. CASE UrcStore
  <2>1. storing /\ uart' = Tail(uart) /\ UNCHANGED <<owed, net, up, subs, calls, msgs, answer>>
    BY <1>3 DEF UrcStore, modVars
  <2>2. uart # <<>>
    BY <2>1 DEF ReadyInv
  <2> QED
    BY <1>0, <2>1, <2>2, LineTaken DEF LineInv
<1>4. CASE ParseLine
  <2>1. /\ uart # <<>> /\ uart' = Tail(uart) /\ UNCHANGED <<owed, net, up, subs, calls>>
        /\ answer' \in {answer, Head(uart).what} /\ (answer' = answer \/ Head(uart).kind = "ANSWER")
        /\ msgs' = msgs \/ (Head(uart).kind = "PUB" /\ msgs' = Append(msgs, Head(uart).what))
    BY <1>4 DEF ParseLine, modVars
  <2>2. Head(uart) \in Lines
    BY <1>0, <2>1, TailLine
  <2>3. /\ Head(uart).kind = "PUB" => Head(uart).what \in Topics
        /\ Head(uart).kind = "ANSWER" => Head(uart).what \in {"ok", "error"}
    BY <2>2 DEF Lines
  <2>4. msgs' \in Seq(Topics)
    <3>1. ASSUME NEW x \in Topics PROVE Append(msgs, x) \in Seq(Topics)
      BY <1>0
    <3> QED
      BY <1>0, <2>1, <2>3, <3>1
  <2>5. answer' \in {"none", "ok", "error"}
    BY <1>0, <2>1, <2>3
  <2>6. uart' \in Seq(Lines) /\ \A k \in 1 .. Len(uart') : uart'[k].who <= calls
    BY <1>0, <2>1, LineTaken
  <2> QED
    BY <1>0, <2>1, <2>4, <2>5, <2>6 DEF LineInv
<1>5. CASE SendUrc
  <2>1. PICK u \in owed :
          /\ owed' = owed \ {u} /\ uart' = Append(uart, u)
          /\ up' \in {TRUE, FALSE, up} /\ net' \in {"ready", net}
          /\ subs' = IF Grants(u) THEN subs \cup {u.what} ELSE subs
          /\ UNCHANGED <<calls, msgs, answer>>
    BY <1>5 DEF SendUrc, Grants
  <2>2. u \in Lines /\ u.who <= calls /\ (Grants(u) => u.what \in Topics)
    BY <1>0 DEF Lines, Grants
  <2>3. uart' \in Seq(Lines) /\ \A k \in 1 .. Len(uart') : uart'[k].who <= calls
    BY <1>0, <2>1, <2>2, LineAdded
  <2> QED
    BY <1>0, <2>1, <2>2, <2>3 DEF LineInv, Nets
<1>6. CASE DropConnection
  <2>1. /\ uart' = Append(uart, Urc("DISCON", 0, "done")) /\ up' = FALSE
        /\ UNCHANGED <<owed, net, subs, calls, msgs, answer>>
    BY <1>6 DEF DropConnection
  <2>2. Urc("DISCON", 0, "done") \in Lines /\ Urc("DISCON", 0, "done").who <= calls
    BY <1>0 DEF Urc, Lines, AllLines, FlagUrcs, Words
  <2>3. uart' \in Seq(Lines) /\ \A k \in 1 .. Len(uart') : uart'[k].who <= calls
    BY <1>0, <2>1, <2>2, LineAdded
  <2> QED
    BY <1>0, <2>1, <2>3 DEF LineInv
<1>7. CASE ForwardMessage
  <2>1. PICK x \in subs : uart' = Append(uart, Urc("PUB", 0, x))
    BY <1>7 DEF ForwardMessage
  <2>2. UNCHANGED <<owed, net, up, subs, calls, msgs, answer>>
    BY <1>7 DEF ForwardMessage, modVars
  <2>3. Urc("PUB", 0, x) \in Lines /\ Urc("PUB", 0, x).who <= calls
    BY <1>0, <2>1 DEF Urc, Lines, AllLines, FlagUrcs, Words
  <2>4. uart' \in Seq(Lines) /\ \A k \in 1 .. Len(uart') : uart'[k].who <= calls
    BY <1>0, <2>1, <2>3, LineAdded
  <2> QED
    BY <1>0, <2>2, <2>4 DEF LineInv
<1>8. ASSUME NEW t \in Threads, Call(t) \/ ThreadSteps(t)
      PROVE  LineInv'
  <2> USE DEF lineVars, modVars
  <2>1. CASE Call(t)
    <3>1. calls' = calls + 1 /\ UNCHANGED <<uart, owed, net, up, subs, msgs, answer>>
      BY <2>1 DEF Call
    <3>2. \A k \in 1 .. Len(uart) : uart[k].who \in Nat /\ uart[k].who <= calls'
      BY <1>0, <3>1 DEF Lines, AllLines
    <3>3. \A u \in owed : u.who \in Nat /\ u.who <= calls'
      BY <1>0, <3>1 DEF Lines, AllLines
    <3> QED
      BY <1>0, <3>1, <3>2, <3>3 DEF LineInv
  <2>2. CASE ExecSend(t)
    BY <2>2, ExecLineInv
  <2>3. CASE TestLock(t) \/ Dispatch(t)
    <3>1. /\ UNCHANGED <<uart, owed, net, up, subs, calls, answer>>
          /\ msgs' = msgs \/ (op[t] = "deliver" /\ ip[t] = 1 /\ msgs' = Tail(msgs))
      <4>1. CASE TestLock(t)
        <5>1. Needs(t) /\ UNCHANGED <<uart, owed, net, up, subs, calls, answer>>
          BY <4>1 DEF TestLock
        <5>2. op[t] = "deliver" => ip[t] = 1
          BY <5>1, AtStep DEF Needs, Is
        <5>3. msgs' = msgs \/ (op[t] = "deliver" /\ msgs' = Tail(msgs))
          BY <4>1 DEF TestLock
        <5> QED
          BY <5>1, <5>2, <5>3
      <4>2. CASE Dispatch(t)
        BY <4>2, AtStep DEF Dispatch, Is
      <4> QED
        BY <2>3, <4>1, <4>2
    <3>2. msgs' \in Seq(Topics)
      <4>1. op[t] = "deliver" /\ ip[t] = 1 => msgs # <<>>
        BY DEF ReadyInv
      <4> QED
        BY <1>0, <3>1, <4>1, TailLine
    <3> QED
      BY <1>0, <3>1, <3>2 DEF LineInv
  <2>4. CASE Return(t) \/ ClearRead(t) \/ clearFlag(t) \/ waitFlag(t) \/ WaitExpired(t)
    BY <1>1, <2>4 DEF Return, ClearRead, clearFlag, waitFlag, WaitExpired
  <2>5. CASE ExecDone(t) \/ SendPayload(t) \/ SetEndSign(t) \/ ReadState(t)
    BY <1>1, <2>5 DEF ExecDone, SendPayload, SetEndSign, ReadState
  <2>6. CASE SetLock(t) \/ register_sub_topic(t)
    BY <1>1, <2>6 DEF SetLock, register_sub_topic
  <2> QED
    BY <1>8, <2>1, <2>2, <2>3, <2>4, <2>5, <2>6 DEF ThreadSteps
<1> QED
  BY <1>2, <1>3, <1>4, <1>5, <1>6, <1>7, <1>8, StepKinds DEF Outside

\* A message is taken from the queue by the call that delivers it, which is over then.
LEMMA DeliverTakes ==
    ASSUME ThreadInv, NEW t \in Threads, TestLock(t) \/ Dispatch(t), op[t] = "deliver"
    PROVE  \/ ip'[t] = 2
           \/ ip' = ip /\ msgs' = msgs
<1>1. At(t, phase[t]) /\ ip[t] = 1 /\ Step(t).do = "deliver"
  BY AtStep DEF TestLock, Dispatch, Needs, Is, At
<1>2. Len(Script(module_type, op[t])) = 1 /\ Step(t).fail = "exit"
  BY <1>1 DEF Script, Step, deliver_message, Do
<1>3. Succeed(t) => ip'[t] = 2
  BY <1>1, <1>2 DEF Succeed, Advance, ThreadInv, ThreadTypes
<1>4. Fail(t) => ip'[t] = 2
  BY <1>1, <1>2 DEF Fail, Advance, ThreadInv, ThreadTypes
<1> QED
  BY <1>3, <1>4 DEF TestLock, Dispatch

LEMMA ReadyNext == ThreadInv /\ LineInv /\ ReadyInv /\ [Next]_vars => ReadyInv'
<1> SUFFICES ASSUME ThreadInv, LineInv, ReadyInv, [Next]_vars PROVE ReadyInv'
  OBVIOUS
<1>0. uart \in Seq(Lines) /\ msgs \in Seq(Topics)
  BY DEF LineInv
<1>1. ASSUME NEW u \in Lines, uart # <<>> PROVE Append(uart, u) # <<>> /\ Head(Append(uart, u)) = Head(uart)
  BY <1>0, <1>1
<1>2. CASE Outside \/ UNCHANGED vars
  <2>1. UNCHANGED <<op, ip>>
    BY <1>2, OutsideThreads DEF threadVars
  <2>2. CASE module_init \/ UrcRead \/ UNCHANGED vars
    BY <2>1, <2>2 DEF module_init, UrcRead, vars, lineVars, flagVars, ReadyInv
  <2>3. CASE UrcStore
    BY <2>1, <2>3 DEF UrcStore, ReadyInv
  <2>4. CASE ParseLine
    <3>1. /\ ~storing /\ storing' = storing
          /\ msgs' = msgs \/ (Head(uart).kind = "PUB" /\ msgs' = Append(msgs, Head(uart).what))
      BY <2>4 DEF ParseLine, flagVars
    <3>2. Head(uart).kind = "PUB" => Head(uart).what \in Topics
      BY <1>0, <2>4, TailLine DEF ParseLine, Lines
    <3>3. msgs # <<>> => msgs' # <<>>
      BY <1>0, <3>1, <3>2
    <3> QED
      BY <2>1, <3>1, <3>3 DEF ReadyInv
  <2>5. CASE SendUrc
    <3>1. PICK u \in owed : uart' = Append(uart, u)
      BY <2>5 DEF SendUrc
    <3>2. UNCHANGED <<storing, status, msgs>> /\ u \in Lines
      BY <2>5 DEF SendUrc, flagVars, LineInv
    <3> QED
      BY <1>1, <2>1, <3>1, <3>2 DEF ReadyInv
  <2>6. CASE DropConnection
    <3>1. UNCHANGED <<storing, status, msgs>> /\ uart' = Append(uart, Urc("DISCON", 0, "done"))
      BY <2>6 DEF DropConnection, flagVars
    <3>2. Urc("DISCON", 0, "done") \in Lines
      BY DEF Urc, Lines, AllLines, FlagUrcs, Words
    <3> QED
      BY <1>1, <2>1, <3>1, <3>2 DEF ReadyInv
  <2>7. CASE ForwardMessage
    <3>1. PICK x \in subs : uart' = Append(uart, Urc("PUB", 0, x))
      BY <2>7 DEF ForwardMessage
    <3>2. UNCHANGED <<storing, status, msgs>> /\ Urc("PUB", 0, x) \in Lines
      BY <2>7 DEF ForwardMessage, flagVars, Urc, Lines, AllLines, FlagUrcs, Words, LineInv
    <3> QED
      BY <1>1, <2>1, <3>1, <3>2 DEF ReadyInv
  <2> QED
    BY <1>2, <2>2, <2>3, <2>4, <2>5, <2>6, <2>7 DEF Outside
<1>3. ASSUME NEW t \in Threads, Call(t) \/ ThreadSteps(t)
      PROVE  ReadyInv'
  <2> USE DEF lineVars, flagVars
  <2>0. Own(t)
    BY <1>3, OwnStep DEF ThreadInv
  <2>1. \A s \in Threads \ {t} : op'[s] = op[s] /\ ip'[s] = ip[s]
    BY <2>0 DEF Own, ThreadInv, ThreadTypes
  <2>2. storing' => uart' # <<>> /\ Head(uart').kind \in FlagUrcs /\ status' = "on"
    <3>1. CASE ExecSend(t)
      <4>1. Is(t, "step", "exec") /\ UNCHANGED <<storing, status>>
        BY <3>1 DEF ExecSend
      <4>2. \/ net' \in Nets /\ uart' = uart \o LinesBefore(Step(t).arg, t, net') \o <<Answer(t, "ok")>>
            \/ uart' = Append(uart, Answer(t, "error"))
            \/ uart' = uart
        BY <3>1 DEF ExecSend, Answer, Network, Nets, LineInv
      <4>3. Answer(t, "ok") \in Lines /\ Answer(t, "error") \in Lines /\ (net' \in Nets => Before(t, net') \in Lines)
        BY <4>1, ExecLines DEF Nets
      <4>4. \/ net' \in Nets /\ uart' = Append(Append(uart, Before(t, net')), Answer(t, "ok"))
            \/ uart' = Append(uart, Answer(t, "ok"))
            \/ uart' = Append(uart, Answer(t, "error"))
            \/ uart' = uart
        BY <4>1, <4>2, ExecLines
      <4>5. uart # <<>> => uart' # <<>> /\ Head(uart') = Head(uart)
        BY <1>0, <4>3, <4>4
      <4> QED
        BY <4>1, <4>5 DEF ReadyInv
    <3>2. CASE UNCHANGED <<uart, storing, status>>
      BY <3>2 DEF ReadyInv
    <3>3. CASE Call(t) \/ Return(t) \/ ClearRead(t) \/ clearFlag(t) \/ waitFlag(t) \/ WaitExpired(t)
      BY <3>2, <3>3 DEF Call, Return, ClearRead, clearFlag, waitFlag, WaitExpired
    <3>4. CASE ExecDone(t) \/ SendPayload(t) \/ SetEndSign(t) \/ ReadState(t)
      BY <3>2, <3>4 DEF ExecDone, SendPayload, SetEndSign, ReadState
    <3>5. CASE TestLock(t) \/ Dispatch(t) \/ SetLock(t) \/ register_sub_topic(t)
      BY <3>2, <3>5 DEF TestLock, Dispatch, SetLock, register_sub_topic
    <3> QED
      BY <1>3, <3>1, <3>3, <3>4, <3>5 DEF ThreadSteps
  <2>3. \A s \in Threads : op'[s] = "deliver" => s = Main /\ (ip'[s] = 1 => msgs' # <<>>)
    <3>1. CASE Call(t)
      <4>1. msgs' = msgs
        BY <3>1 DEF Call
      <4>2. PICK o \in IF t = Main THEN Ops ELSE WorkerOps :
              (o = "deliver" => msgs # <<>>) /\ op' = [op EXCEPT ![t] = o]
        BY <3>1 DEF Call
      <4>3. op'[t] = "deliver" => t = Main /\ msgs # <<>>
        BY <4>2, ApiAssumption DEF ThreadInv, ThreadTypes
      <4> QED
        BY <2>1, <4>1, <4>3 DEF ReadyInv
    <3>2. CASE Return(t)
      BY <2>1, <3>2 DEF Return, ReadyInv, ThreadInv, ThreadTypes
    <3>3. CASE (TestLock(t) \/ Dispatch(t)) /\ op[t] = "deliver"
      <4>1. op' = op
        BY <3>3 DEF TestLock, Dispatch
      <4>2. ip'[t] = 2 \/ (ip' = ip /\ msgs' = msgs)
        BY <3>3, DeliverTakes
      <4> QED
        BY <2>1, <3>3, <4>1, <4>2 DEF ReadyInv
    <3>4. CASE op' = op /\ msgs' = msgs /\ (op[t] = "deliver" => ip'[t] = ip[t])
      BY <2>1, <3>4 DEF ReadyInv
    <3>5. CASE (TestLock(t) \/ Dispatch(t)) /\ op[t] # "deliver"
      BY <3>4, <3>5, AtStep DEF TestLock, Dispatch, Is
    <3>6. CASE ClearRead(t) \/ clearFlag(t) \/ waitFlag(t) \/ WaitExpired(t)
      <4>1. At(t, phase[t]) /\ Step(t).do # "deliver" /\ op' = op /\ msgs' = msgs
        BY <3>6 DEF ClearRead, clearFlag, waitFlag, WaitExpired, Is, At
      <4>2. op[t] # "deliver"
        BY <4>1 DEF Script, deliver_message, Do, Step, At, ThreadInv, Placed, ThreadTypes
      <4> QED
        BY <3>4, <4>1, <4>2
    <3>7. CASE ExecSend(t) \/ ExecDone(t) \/ SendPayload(t) \/ SetEndSign(t) \/ ReadState(t)
      <4>1. At(t, phase[t]) /\ Step(t).do # "deliver" /\ op' = op /\ msgs' = msgs
        BY <3>7 DEF ExecSend, ExecDone, SendPayload, SetEndSign, ReadState, Is, At
      <4>2. op[t] # "deliver"
        BY <4>1 DEF Script, deliver_message, Do, Step, At, ThreadInv, Placed, ThreadTypes
      <4> QED
        BY <3>4, <4>1, <4>2
    <3>8. CASE SetLock(t)
      BY <3>4, <3>8 DEF SetLock
    <3>9. CASE register_sub_topic(t)
      BY <3>4, <3>9, AtStep DEF register_sub_topic, Is
    <3> QED
      BY <1>3, <3>1, <3>2, <3>3, <3>5, <3>6, <3>7, <3>8, <3>9 DEF ThreadSteps
  <2> QED
    BY <2>2, <2>3 DEF ReadyInv
<1> QED
  BY <1>2, <1>3, StepKinds

-----------------------------------------------------------------------------
(* The table of handlers.                                                  *)

Handled(x) == \E i \in 1 .. MaxTopics : sg_msg_handlers[i] = x

\* Whatever may still bring a message of a topic was asked for after its handler
\* was registered.
HandlerInv ==
    /\ sg_msg_handlers \in [1 .. MaxTopics -> Topics \cup {None}]
    /\ \A t \in Threads : op[t] = "sub" /\ ip[t] \in 2 .. 5 => Handled(topic[t])
    /\ \A u \in owed : Grants(u) => Handled(u.what)
    /\ \A x \in subs : Handled(x)
    /\ \A k \in 1 .. Len(uart) : uart[k].kind = "PUB" => Handled(uart[k].what)
    /\ \A k \in 1 .. Len(msgs) : Handled(msgs[k])

\* The smallest entry of a set of entries is one of them.
LEMMA FirstEntry ==
    ASSUME NEW S \in SUBSET (1 .. MaxTopics), S # {}
    PROVE  First(S) \in S
<1>1. S \subseteq Nat
  OBVIOUS
<1>2. PICK i \in S : \A j \in S : ~ (<<j, i>> \in OpToRel(<, Nat))
  BY <1>1, NatLessThanWellFounded, WFMin
<1>3. \E k \in S : \A j \in S : k <= j
  <2>1. \A j \in S : ~(j < i)
    BY <1>1, <1>2 DEF OpToRel
  <2> QED
    BY <1>1, <2>1
<1> QED
  BY <1>3, Zenon DEF First

\* A registration takes a free entry or the topic's own: no handler is lost.
LEMMA HandlersKept ==
    ASSUME ThreadInv, HandlerInv, NEW t \in Threads, register_sub_topic(t)
    PROVE  /\ sg_msg_handlers' \in [1 .. MaxTopics -> Topics \cup {None}]
           /\ \A x \in Topics : Handled(x) => Handled(x)'
           /\ (UNCHANGED sg_msg_handlers /\ Fail(t)) \/ (Handled(topic[t])' /\ Succeed(t))
<1> DEFINE S == IF Slots(topic[t]) # {} THEN Slots(topic[t]) ELSE Slots(None)
<1>1. Is(t, "locked", "register") /\ topic[t] \in Topics
  BY AtStep DEF register_sub_topic, Is, ThreadInv, Placed
<1>2. CASE UNCHANGED sg_msg_handlers /\ Fail(t)
  BY <1>2 DEF HandlerInv, Handled
<1>3. CASE S # {} /\ sg_msg_handlers' = [sg_msg_handlers EXCEPT ![First(S)] = topic[t]] /\ Succeed(t)
  <2>1. First(S) \in S /\ S \in SUBSET (1 .. MaxTopics)
    BY <1>3, FirstEntry DEF Slots
  <2>2. sg_msg_handlers[First(S)] \in {topic[t], None}
    BY <2>1 DEF Slots
  <2> DEFINE f == First(S)
  <2>3. f \in 1 .. MaxTopics /\ sg_msg_handlers' = [sg_msg_handlers EXCEPT ![f] = topic[t]]
    BY <1>3, <2>1
  <2>4. sg_msg_handlers[f] \in {topic[t], None}
    BY <2>2
  <2> HIDE DEF f, S
  <2>5. /\ sg_msg_handlers' \in [1 .. MaxTopics -> Topics \cup {None}]
        /\ sg_msg_handlers'[f] = topic[t]
        /\ \A i \in 1 .. MaxTopics : i # f => sg_msg_handlers'[i] = sg_msg_handlers[i]
    BY <1>1, <2>3 DEF HandlerInv
  <2>6. \A x \in Topics : Handled(x) => Handled(x)'
    BY <2>3, <2>4, <2>5, ApiAssumption DEF Handled
  <2>7. Handled(topic[t])'
    <3>1. topic' = topic
      BY DEF register_sub_topic
    <3> QED
      BY <2>3, <2>5, <3>1 DEF Handled
  <2> QED
    BY <1>3, <2>5, <2>6, <2>7
<1> QED
  BY <1>2, <1>3 DEF register_sub_topic

LEMMA SubScript ==
    ASSUME NEW m
    PROVE  /\ Len(Script(m, "sub")) = 5
           /\ Script(m, "sub")[1] = Do("register")
           /\ Script(m, "sub")[2] = Clear("SUB")
           /\ Script(m, "sub")[3] = Exec("SUB", "mark")
           /\ Script(m, "sub")[4] = Wait("SUB", "mark")
           /\ Script(m, "sub")[5] = Clear("SUB")
BY DEF Script, module_mqtt_sub

\* What the length of the script says of a thread's place, and of where it goes.
LEMMA ByLength ==
    ASSUME ThreadInv, NEW t \in Threads, NEW n \in Nat, Len(Script(module_type, op[t])) = n
    PROVE  /\ \A p : At(t, p) => ip[t] <= n
           /\ \A p : p # "idle" /\ phase[t] = p /\ ip[t] <= n => At(t, p)
           /\ Ended(t) => ip[t] > n
           /\ Succeed(t) /\ Step(t).fail # "else" => ip'[t] = ip[t] + 1
           /\ Fail(t) /\ Step(t).fail = "exit" => ip'[t] = n + 1 /\ result'[t] = Failure(t)
           /\ Fail(t) /\ Step(t).fail = "mark" => ip'[t] = ip[t] + 1 /\ result'[t] = Failure(t)
           /\ Fail(t) /\ Step(t).fail = "last" => ip'[t] = n
<1> USE DEF ThreadInv, ThreadTypes, Advance
<1>1. \A p : At(t, p) => ip[t] <= n
  BY DEF At
<1>2. Ended(t) => ip[t] > n
  BY DEF Ended
<1>3. Succeed(t) /\ Step(t).fail # "else" => ip'[t] = ip[t] + 1
  BY DEF Succeed
<1>4. Fail(t) /\ Step(t).fail = "exit" => ip'[t] = n + 1 /\ result'[t] = Failure(t)
  BY DEF Fail
<1>5. Fail(t) /\ Step(t).fail = "mark" => ip'[t] = ip[t] + 1 /\ result'[t] = Failure(t)
  BY DEF Fail
<1>6. Fail(t) /\ Step(t).fail = "last" => ip'[t] = n
  BY DEF Fail
<1>7. \A p : p # "idle" /\ phase[t] = p /\ ip[t] <= n => At(t, p)
  BY DEF At
<1> QED
  BY <1>1, <1>2, <1>3, <1>4, <1>5, <1>6, <1>7

LEMMA AtSub ==
    ASSUME ThreadInv, NEW t \in Threads, op[t] = "sub"
    PROVE  /\ phase[t] # "idle" /\ Len(Script(module_type, op[t])) = 5 /\ ip[t] \in 1 .. 6
           /\ topic[t] \in Topics
           /\ ip[t] = 1 => Step(t).do = "register" /\ Step(t).fail = "exit"
           /\ ip[t] \in {2, 5} => Step(t).do = "clear" /\ Step(t).arg = "SUB" /\ Step(t).fail = "ignore"
           /\ ip[t] = 3 => Step(t).do = "exec" /\ Step(t).arg = "SUB" /\ Step(t).fail = "mark"
           /\ ip[t] = 4 => Step(t).do = "wait" /\ Step(t).arg = "SUB" /\ Step(t).fail = "mark"
           /\ \A p : At(t, p) => ip[t] <= 5
           /\ Ended(t) => ip[t] > 5
           /\ Fail(t) /\ ip[t] = 1 => ip'[t] = 6 /\ result'[t] = "FAILURE"
           /\ Fail(t) /\ ip[t] \in {3, 4} => ip'[t] = ip[t] + 1 /\ result'[t] = "FAILURE"
           /\ Succeed(t) /\ ip[t] <= 5 => ip'[t] = ip[t] + 1
<1> DEFINE s == Script(module_type, op[t])
<1>1. /\ Len(s) = 5 /\ s[1] = Do("register") /\ s[2] = Clear("SUB") /\ s[3] = Exec("SUB", "mark")
      /\ s[4] = Wait("SUB", "mark") /\ s[5] = Clear("SUB")
  BY SubScript
<1>2. Step(t) = s[ip[t]]
  BY DEF Step
<1>3. phase[t] # "idle" /\ ip[t] \in 1 .. Len(s) + 1 /\ topic[t] \in Topics
  BY DEF ThreadInv, Placed
<1> HIDE DEF s
<1>4. ip[t] \in 1 .. 6
  BY <1>1, <1>3
<1>5. ip[t] = 1 => Step(t).do = "register" /\ Step(t).fail = "exit"
  BY <1>1, <1>2 DEF Do
<1>6. ip[t] \in {2, 5} => Step(t).do = "clear" /\ Step(t).arg = "SUB" /\ Step(t).fail = "ignore"
  BY <1>1, <1>2 DEF Clear
<1>7. ip[t] = 3 => Step(t).do = "exec" /\ Step(t).arg = "SUB" /\ Step(t).fail = "mark"
  BY <1>1, <1>2 DEF Exec
<1>8. ip[t] = 4 => Step(t).do = "wait" /\ Step(t).arg = "SUB" /\ Step(t).fail = "mark"
  BY <1>1, <1>2 DEF Wait
<1>9. 5 \in Nat /\ Len(Script(module_type, op[t])) = 5
  BY <1>1 DEF s
<1>10. /\ \A p : At(t, p) => ip[t] <= 5
       /\ Ended(t) => ip[t] > 5
       /\ Fail(t) /\ Step(t).fail = "exit" => ip'[t] = 5 + 1 /\ result'[t] = "FAILURE"
       /\ Fail(t) /\ Step(t).fail = "mark" => ip'[t] = ip[t] + 1 /\ result'[t] = "FAILURE"
       /\ Succeed(t) /\ Step(t).fail # "else" => ip'[t] = ip[t] + 1
  <2>1. Failure(t) = "FAILURE"
    BY DEF Failure
  <2> QED
    BY <1>9, <2>1, ByLength, Zenon
<1>11. Succeed(t) /\ ip[t] <= 5 => ip'[t] = ip[t] + 1
  BY <1>4, <1>5, <1>6, <1>7, <1>8, <1>10
<1>12. Fail(t) /\ ip[t] \in {3, 4} => ip'[t] = ip[t] + 1 /\ result'[t] = "FAILURE"
  BY <1>7, <1>8, <1>10
<1> QED
  BY <1>3, <1>4, <1>5, <1>6, <1>7, <1>8, <1>9, <1>10, <1>11, <1>12

\* A subscription gets past its first step only with its handler.
LEMMA SubEnters ==
    ASSUME ThreadInv, NEW t \in Threads, ThreadSteps(t), op[t] = "sub", ip'[t] \in 2 .. 5
    PROVE  ip[t] \in 2 .. 5 \/ (register_sub_topic(t) /\ ~Fail(t))
<1>1. phase[t] # "idle" /\ ip[t] \in 1 .. 6 /\ Len(Script(module_type, op[t])) = 5
  BY AtSub
<1>2. CASE ip[t] = 1
  <2>2. Step(t).do = "register" /\ Step(t).fail = "exit"
    BY <1>2, AtSub
  <2>3. ~Fail(t)
    BY <1>2, AtSub
  <2>4. TestLock(t) \/ SetLock(t) \/ register_sub_topic(t)
    <3>1. ~Return(t)
      BY <1>2, AtSub DEF Return
    <3> QED
      BY <2>2, <3>1 DEF ThreadSteps, ClearRead, clearFlag, waitFlag, WaitExpired, ExecSend, ExecDone,
         SendPayload, SetEndSign, ReadState, Dispatch, Is
  <2>5. ip' # ip
    BY <1>2
  <2>6. register_sub_topic(t)
    BY <2>3, <2>4, <2>5 DEF TestLock, SetLock
  <2> QED
    BY <2>3, <2>6
<1>3. CASE ip[t] = 6
  <2>1. \A p : ~At(t, p)
    BY <1>3, AtSub
  <2>2. Return(t)
    BY <2>1 DEF ThreadSteps, ClearRead, clearFlag, waitFlag, WaitExpired, ExecSend, ExecDone,
       SendPayload, SetEndSign, ReadState, TestLock, Needs, SetLock, register_sub_topic, Dispatch, Is
  <2>3. ip'[t] = 1
    BY <2>2 DEF Return, ThreadInv, ThreadTypes
  <2> QED
    BY <2>3
<1> QED
  BY <1>1, <1>2, <1>3

\* The table is all that a registration changes of what HandlerInv is about.
LEMMA HandlerSame ==
    ASSUME sg_msg_handlers' = sg_msg_handlers
    PROVE  \A x : Handled(x)' <=> Handled(x)
BY DEF Handled

LEMMA HandlerTable ==
    ASSUME ThreadInv, LineInv, HandlerInv, NEW t \in Threads, register_sub_topic(t)
    PROVE  HandlerInv'
<1>1. /\ sg_msg_handlers' \in [1 .. MaxTopics -> Topics \cup {None}]
      /\ \A x \in Topics : Handled(x) => Handled(x)'
      /\ (UNCHANGED sg_msg_handlers /\ Fail(t)) \/ (Handled(topic[t])' /\ Succeed(t))
  BY HandlersKept
<1>2. UNCHANGED <<op, topic, owed, subs, uart, msgs>>
  BY DEF register_sub_topic, lineVars, modVars
<1>3. op[t] = "sub" /\ ip[t] = 1 /\ Own(t)
  BY AtStep, OwnStep DEF register_sub_topic, Is, ThreadSteps, ThreadInv
<1>4. ASSUME NEW s \in Threads, op[s] = "sub", ip'[s] \in 2 .. 5
      PROVE  Handled(topic[s])'
  <2>1. topic[s] \in Topics
    BY <1>4 DEF ThreadInv, Placed
  <2>2. CASE s # t
    <3>1. ip'[s] = ip[s]
      BY <1>3, <2>2 DEF Own, ThreadInv, ThreadTypes
    <3>2. Handled(topic[s])
      BY <1>4, <3>1 DEF HandlerInv
    <3>3. \A x \in Topics : Handled(x) => (\E i \in 1 .. MaxTopics : sg_msg_handlers'[i] = x)
      BY <1>1 DEF Handled
    <3> QED
      BY <1>2, <2>1, <3>2, <3>3 DEF Handled
  <2>3. CASE s = t
    <3>1. Fail(t) => ip'[t] = 6
      BY <1>3, AtSub
    <3> QED
      BY <1>1, <1>4, <2>3, <3>1
  <2> QED
    BY <2>2, <2>3
<1>5. \A u \in owed : Grants(u) => Handled(u.what)'
  BY <1>1 DEF HandlerInv, LineInv, Lines, Handled, Grants
<1>6. \A x \in subs : Handled(x)'
  BY <1>1 DEF HandlerInv, LineInv, Handled
<1>7. \A k \in 1 .. Len(uart) : uart[k].kind = "PUB" => uart[k].what \in Topics
  BY DEF LineInv, Lines
<1>8. \A k \in 1 .. Len(msgs) : msgs[k] \in Topics
  BY DEF LineInv
<1>9. \A x \in Topics : Handled(x) => (\E i \in 1 .. MaxTopics : sg_msg_handlers'[i] = x)
  BY <1>1 DEF Handled
<1> QED
  BY <1>1, <1>2, <1>4, <1>5, <1>6, <1>7, <1>8, <1>9 DEF HandlerInv, Handled

\* Lines and messages that come and go.
PubsHandled(s) == \A k \in 1 .. Len(s) : s[k].kind = "PUB" => Handled(s[k].what)
MsgsHandled(s) == \A k \in 1 .. Len(s) : Handled(s[k])

LEMMA PubAdded ==
    ASSUME NEW s \in Seq(Lines), PubsHandled(s), NEW u \in Lines, u.kind = "PUB" => Handled(u.what)
    PROVE  PubsHandled(Append(s, u))
<1>1. /\ Len(Append(s, u)) = Len(s) + 1 /\ Len(s) \in Nat
      /\ \A k \in 1 .. Len(s) : Append(s, u)[k] = s[k]
      /\ Append(s, u)[Len(s) + 1] = u
  BY AppendLine
<1>2. \A k \in 1 .. Len(s) + 1 : k \in 1 .. Len(s) \/ k = Len(s) + 1
  BY <1>1
<1> QED
  BY <1>1, <1>2, Zenon DEF PubsHandled

LEMMA PubTaken ==
    ASSUME NEW s \in Seq(Lines), s # <<>>, PubsHandled(s)
    PROVE  PubsHandled(Tail(s)) /\ (Head(s).kind = "PUB" => Handled(Head(s).what))
<1>1. /\ Len(Tail(s)) = Len(s) - 1 /\ Len(s) \in Nat \ {0} /\ Head(s) = s[1]
      /\ \A k \in 1 .. Len(s) - 1 : Tail(s)[k] = s[k + 1]
  BY TailLine
<1>2. 1 \in 1 .. Len(s) /\ \A k \in 1 .. Len(s) - 1 : k + 1 \in 1 .. Len(s)
  BY <1>1
<1> QED
  BY <1>1, <1>2, Zenon DEF PubsHandled

LEMMA MsgAdded ==
    ASSUME NEW s \in Seq(Topics), MsgsHandled(s), NEW x \in Topics, Handled(x)
    PROVE  MsgsHandled(Append(s, x))
<1>1. /\ Len(Append(s, x)) = Len(s) + 1 /\ Len(s) \in Nat
      /\ \A k \in 1 .. Len(s) : Append(s, x)[k] = s[k]
      /\ Append(s, x)[Len(s) + 1] = x
  BY AppendLine
<1>2. \A k \in 1 .. Len(s) + 1 : k \in 1 .. Len(s) \/ k = Len(s) + 1
  BY <1>1
<1> QED
  BY <1>1, <1>2, Zenon DEF MsgsHandled

LEMMA MsgTaken ==
    ASSUME NEW s \in Seq(Topics), s # <<>>, MsgsHandled(s)
    PROVE  MsgsHandled(Tail(s)) /\ Handled(Head(s))
<1>1. /\ Len(Tail(s)) = Len(s) - 1 /\ Len(s) \in Nat \ {0} /\ Head(s) = s[1]
      /\ \A k \in 1 .. Len(s) - 1 : Tail(s)[k] = s[k + 1]
  BY TailLine
<1>2. 1 \in 1 .. Len(s) /\ \A k \in 1 .. Len(s) - 1 : k + 1 \in 1 .. Len(s)
  BY <1>1
<1> QED
  BY <1>1, <1>2, Zenon DEF MsgsHandled

\* What is left to show of a step that leaves the table alone.
LEMMA HandlerKeeps ==
    ASSUME HandlerInv, sg_msg_handlers' = sg_msg_handlers,
           \A t \in Threads : op'[t] = "sub" /\ ip'[t] \in 2 .. 5
                              => op[t] = "sub" /\ ip[t] \in 2 .. 5 /\ topic'[t] = topic[t],
           \A u \in owed' : Grants(u) => Handled(u.what),
           \A x \in subs' : Handled(x),
           PubsHandled(uart'), MsgsHandled(msgs')
    PROVE  HandlerInv'
<1>1. \A t \in Threads : op'[t] = "sub" /\ ip'[t] \in 2 .. 5 => Handled(topic'[t])
  BY DEF HandlerInv
<1> QED
  BY <1>1 DEF HandlerInv, Handled, PubsHandled, MsgsHandled

LEMMA HandlerOutside ==
    ASSUME ThreadInv, LineInv, ReadyInv, HandlerInv, Outside \/ UNCHANGED vars
    PROVE  HandlerInv'
<1>0. /\ uart \in Seq(Lines) /\ owed \in SUBSET Lines /\ subs \in SUBSET Topics /\ msgs \in Seq(Topics)
  BY DEF LineInv
<1>1. UNCHANGED <<op, ip, topic, sg_msg_handlers>>
  BY OutsideThreads DEF threadVars
<1>2. /\ \A u \in owed : Grants(u) => Handled(u.what)
      /\ \A x \in subs : Handled(x)
      /\ PubsHandled(uart) /\ MsgsHandled(msgs)
  BY DEF HandlerInv, PubsHandled, MsgsHandled
<1>3. SUFFICES /\ \A u \in owed' : Grants(u) => Handled(u.what)
               /\ \A x \in subs' : Handled(x)
               /\ PubsHandled(uart') /\ MsgsHandled(msgs')
  BY <1>1, HandlerKeeps
<1>4. CASE module_init \/ UrcRead \/ UNCHANGED vars
  <2>1. UNCHANGED <<uart, owed, subs, msgs>>
    BY <1>4 DEF module_init, UrcRead, vars, lineVars, modVars
  <2> QED
    BY <1>2, <2>1
<1>5. CASE UrcStore
  <2>1. uart' = Tail(uart) /\ uart # <<>> /\ UNCHANGED <<owed, subs, msgs>>
    BY <1>5 DEF UrcStore, modVars, ReadyInv
  <2>2. PubsHandled(Tail(uart))
    BY <1>0, <1>2, <2>1, PubTaken
  <2> QED
    BY <1>2, <2>1, <2>2
<1>6. CASE ParseLine
  <2>1. /\ uart' = Tail(uart) /\ uart # <<>> /\ UNCHANGED <<owed, subs>>
        /\ msgs' = msgs \/ (Head(uart).kind = "PUB" /\ msgs' = Append(msgs, Head(uart).what))
    BY <1>6 DEF ParseLine, modVars
  <2>2. PubsHandled(Tail(uart)) /\ (Head(uart).kind = "PUB" => Handled(Head(uart).what))
    BY <1>0, <1>2, <2>1, PubTaken
  <2>3. Head(uart).kind = "PUB" => Head(uart).what \in Topics
    BY <1>0, <2>1, TailLine DEF Lines
  <2>4. MsgsHandled(msgs')
    BY <1>0, <1>2, <2>1, <2>2, <2>3, MsgAdded
  <2> QED
    BY <1>2, <2>1, <2>2, <2>4
<1>7. CASE SendUrc
  <2>1. PICK u \in owed :
          /\ owed' = owed \ {u} /\ uart' = Append(uart, u)
          /\ subs' = IF Grants(u) THEN subs \cup {u.what} ELSE subs
          /\ UNCHANGED msgs
    BY <1>7 DEF SendUrc, Grants
  <2>2. u \in Lines /\ u.kind # "PUB"
    BY <1>0, <2>1 DEF LineInv
  <2>3. PubsHandled(Append(uart, u))
    BY <1>0, <1>2, <2>2, PubAdded
  <2> QED
    BY <1>2, <2>1, <2>3
<1>8. CASE DropConnection
  <2>1. uart' = Append(uart, Urc("DISCON", 0, "done")) /\ UNCHANGED <<owed, subs, msgs>>
    BY <1>8 DEF DropConnection
  <2>2. Urc("DISCON", 0, "done") \in Lines /\ Urc("DISCON", 0, "done").kind # "PUB"
    BY DEF Urc, Lines, AllLines, FlagUrcs, Words
  <2>3. PubsHandled(uart')
    BY <1>0, <1>2, <2>1, <2>2, PubAdded
  <2> QED
    BY <1>2, <2>1, <2>3
<1>9. CASE ForwardMessage
  <2>1. PICK x \in subs : uart' = Append(uart, Urc("PUB", 0, x))
    BY <1>9 DEF ForwardMessage
  <2>2. UNCHANGED <<owed, subs, msgs>>
    BY <1>9 DEF ForwardMessage, modVars
  <2>3. Urc("PUB", 0, x) \in Lines /\ Urc("PUB", 0, x).what = x
    BY <1>0, <2>1 DEF Urc, Lines, AllLines, FlagUrcs, Words
  <2>4. PubsHandled(uart')
    BY <1>0, <1>2, <2>1, <2>3, PubAdded
  <2> QED
    BY <1>2, <2>2, <2>4
<1> QED
  BY <1>4, <1>5, <1>6, <1>7, <1>8, <1>9 DEF Outside

LEMMA HandlerNext == ThreadInv /\ LineInv /\ ReadyInv /\ HandlerInv /\ [Next]_vars => HandlerInv'
<1> SUFFICES ASSUME ThreadInv, LineInv, ReadyInv, HandlerInv, [Next]_vars PROVE HandlerInv'
  OBVIOUS
<1>0. /\ uart \in Seq(Lines) /\ owed \in SUBSET Lines /\ subs \in SUBSET Topics /\ msgs \in Seq(Topics)
  BY DEF LineInv
<1>1. /\ \A u \in owed : Grants(u) => Handled(u.what)
      /\ \A x \in subs : Handled(x)
      /\ PubsHandled(uart) /\ MsgsHandled(msgs)
  BY DEF HandlerInv, PubsHandled, MsgsHandled
<1>2. ASSUME NEW t \in Threads, Call(t) \/ ThreadSteps(t), ~register_sub_topic(t)
      PROVE  HandlerInv'
  <2> USE DEF lineVars, modVars, tableVars
  <2>0. Own(t)
    BY <1>2, OwnStep DEF ThreadInv
  <2>1. ASSUME NEW s \in Threads, op'[s] = "sub", ip'[s] \in 2 .. 5
        PROVE  op[s] = "sub" /\ ip[s] \in 2 .. 5 /\ topic'[s] = topic[s]
    <3>1. CASE s # t
      BY <2>0, <2>1, <3>1 DEF Own, ThreadInv, ThreadTypes
    <3>2. CASE s = t /\ Call(t)
      <4>1. ip'[t] = 1
        BY <3>2 DEF Call, Advance, ThreadInv, ThreadTypes
      <4> QED
        BY <2>1, <3>2, <4>1
    <3>3. CASE s = t /\ Return(t)
      <4>1. ip'[t] = 1
        BY <3>3 DEF Return, ThreadInv, ThreadTypes
      <4> QED
        BY <2>1, <3>3, <4>1
    <3>4. CASE s = t /\ ThreadSteps(t) /\ ~Return(t)
      <4>1. op'[t] = op[t] /\ topic'[t] = topic[t]
        BY <3>4, CallGoesOn DEF GoesOn
      <4> QED
        BY <1>2, <2>1, <3>4, <4>1, SubEnters
    <3> QED
      BY <1>2, <3>1, <3>2, <3>3, <3>4
  <2>2. sg_msg_handlers' = sg_msg_handlers
    <3>1. CASE Call(t) \/ Return(t) \/ ClearRead(t) \/ clearFlag(t) \/ waitFlag(t) \/ WaitExpired(t)
      BY <3>1 DEF Call, Return, ClearRead, clearFlag, waitFlag, WaitExpired
    <3>2. CASE ExecSend(t) \/ ExecDone(t) \/ SendPayload(t) \/ SetEndSign(t) \/ ReadState(t)
      BY <3>2 DEF ExecSend, ExecDone, SendPayload, SetEndSign, ReadState
    <3>3. CASE TestLock(t) \/ SetLock(t) \/ Dispatch(t)
      BY <3>3 DEF TestLock, SetLock, Dispatch
    <3> QED
      BY <1>2, <3>1, <3>2, <3>3 DEF ThreadSteps
  <2>3. /\ \A u \in owed' : Grants(u) => Handled(u.what)
        /\ \A x \in subs' : Handled(x)
        /\ PubsHandled(uart') /\ MsgsHandled(msgs')
    <3>1. CASE UNCHANGED <<owed, subs, uart, msgs>>
      BY <1>1, <3>1
    <3>2. CASE Call(t) \/ Return(t) \/ ClearRead(t) \/ clearFlag(t) \/ waitFlag(t) \/ WaitExpired(t)
      BY <3>1, <3>2 DEF Call, Return, ClearRead, clearFlag, waitFlag, WaitExpired
    <3>3. CASE ExecDone(t) \/ SendPayload(t) \/ SetEndSign(t) \/ ReadState(t)
      BY <3>1, <3>3 DEF ExecDone, SendPayload, SetEndSign, ReadState
    <3>4. CASE TestLock(t) \/ Dispatch(t)
      <4>1. UNCHANGED <<owed, subs, uart>>
        BY <3>4 DEF TestLock, Dispatch
      <4>2. msgs' = msgs \/ (msgs # <<>> /\ msgs' = Tail(msgs))
        <5>1. At(t, phase[t]) /\ (Dispatch(t) => Step(t).do = "deliver")
          BY <3>4 DEF TestLock, Dispatch, Needs, Is, At
        <5>2. op[t] = "deliver" => ip[t] = 1
          BY <3>4, AtStep DEF TestLock, Dispatch, Needs, Is
        <5>3. Dispatch(t) => op[t] = "deliver"
          BY <5>1, AtStep
        <5>4. msgs' = msgs \/ (op[t] = "deliver" /\ msgs' = Tail(msgs))
          BY <3>4, <5>3 DEF TestLock, Dispatch
        <5> QED
          BY <5>2, <5>4 DEF ReadyInv
      <4>3. MsgsHandled(msgs')
        BY <1>0, <1>1, <4>2, MsgTaken
      <4> QED
        BY <1>1, <4>1, <4>3
    <3>5. CASE SetLock(t)
      BY <3>1, <3>5 DEF SetLock
    <3>6. CASE ExecSend(t)
      <4>1. Is(t, "step", "exec") /\ msgs' = msgs /\ subs' \in SUBSET subs
        BY <3>6 DEF ExecSend
      <4>2. owed' = owed \/ \E good \in BOOLEAN : owed' = owed \cup UrcsAfter(Step(t).arg, t, good)
        BY <3>6 DEF ExecSend
      <4>3. "none" \in Nets
        BY DEF Nets
      <4>4. \A good \in BOOLEAN : \A u \in UrcsAfter(Step(t).arg, t, good) :
               Grants(u) => op[t] = "sub" /\ ip[t] = 3 /\ u.what = topic[t]
        BY <4>1, <4>3, ExecLines DEF Grants
      <4>5. op[t] = "sub" /\ ip[t] = 3 => Handled(topic[t])
        BY DEF HandlerInv
      <4>6. \A u \in owed' : Grants(u) => Handled(u.what)
        BY <1>1, <4>2, <4>4, <4>5
      <4>7. \/ net' \in Nets /\ uart' = uart \o LinesBefore(Step(t).arg, t, net') \o <<Answer(t, "ok")>>
            \/ uart' = Append(uart, Answer(t, "error"))
            \/ uart' = uart
        BY <3>6 DEF ExecSend, Answer, Network, Nets, LineInv
      <4>8. /\ Answer(t, "ok") \in Lines /\ Answer(t, "error") \in Lines
            /\ Answer(t, "ok").kind = "ANSWER" /\ Answer(t, "error").kind = "ANSWER"
        BY <4>1, <4>3, ExecLines DEF Answer, Urc
      <4>9. CASE \/ uart' = Append(uart, Answer(t, "ok"))
                 \/ uart' = Append(uart, Answer(t, "error"))
                 \/ uart' = uart
        <5>1. PubsHandled(uart')
          BY <1>0, <1>1, <4>8, <4>9, PubAdded
        <5> QED
          BY <1>1, <4>1, <4>6, <5>1
      <4>10. CASE net' \in Nets /\ uart' = Append(Append(uart, Before(t, net')), Answer(t, "ok"))
        <5>1. Before(t, net') \in Lines /\ Before(t, net').kind # "PUB"
          BY <4>1, <4>10, ExecLines DEF Before, Urc
        <5>2. Append(uart, Before(t, net')) \in Seq(Lines) /\ PubsHandled(Append(uart, Before(t, net')))
          BY <1>0, <1>1, <5>1, PubAdded, AppendLine
        <5>3. PubsHandled(uart')
          BY <4>8, <4>10, <5>2, PubAdded
        <5> QED
          BY <1>1, <4>1, <4>6, <5>3
      <4> QED
        BY <4>1, <4>7, <4>9, <4>10, ExecLines
    <3> QED
      BY <1>2, <3>2, <3>3, <3>4, <3>5, <3>6 DEF ThreadSteps
  <2> QED
    BY <2>1, <2>2, <2>3, HandlerKeeps
<1>3. ASSUME NEW t \in Threads, register_sub_topic(t) PROVE HandlerInv'
  BY <1>3, HandlerTable
<1> QED
  BY <1>2, <1>3, HandlerOutside, StepKinds

LEMMA LineInit == Init => LineInv /\ ReadyInv /\ HandlerInv
<1> SUFFICES ASSUME Init PROVE LineInv /\ ReadyInv /\ HandlerInv
  OBVIOUS
<1>1. LineInv
  <2>1. <<>> \in Seq(Lines) /\ <<>> \in Seq(Topics)
    OBVIOUS
  <2>2. \A k \in 1 .. Len(uart) : FALSE
    BY DEF Init
  <2>3. uart = <<>> /\ owed = {} /\ net = "none" /\ up = FALSE /\ subs = {} /\ answer = "none" /\ msgs = <<>>
    BY DEF Init
  <2> QED
    BY <2>1, <2>2, <2>3 DEF LineInv, Nets
<1>2. ReadyInv
  BY DEF Init, ReadyInv
<1>3. HandlerInv
  BY DEF Init, HandlerInv
<1> QED
  BY <1>1, <1>2, <1>3

LEMMA HandlerAlways == Spec => [](ThreadInv /\ LineInv /\ ReadyInv /\ HandlerInv)
<1> DEFINE Inv == ThreadInv /\ LineInv /\ ReadyInv /\ HandlerInv
<1>1. Init => Inv
  BY ThreadInit, LineInit
<1>2. Inv /\ [Next]_vars => Inv'
  BY ThreadNext, LineNext, ReadyNext, HandlerNext
<1> QED
  BY <1>1, <1>2, PTL DEF Spec

\* Whatever the threads, the module and the parser do, a message that is delivered
\* finds the handler of its topic in the table of sg_msg_handlers.
THEOREM HandlerIsReady == Spec => []HandlerReady
<1>1. ThreadInv /\ LineInv /\ ReadyInv /\ HandlerInv => HandlerReady
  <2> SUFFICES ASSUME ThreadInv, LineInv, ReadyInv, HandlerInv, NEW t \in Threads, Is(t, "locked", "deliver")
               PROVE  Slots(Head(msgs)) # {}
    BY DEF HandlerReady
  <2>1. msgs # <<>>
    BY AtStep DEF Is, ReadyInv
  <2>2. MsgsHandled(msgs) /\ msgs \in Seq(Topics)
    BY DEF HandlerInv, MsgsHandled, LineInv
  <2>3. Handled(Head(msgs))
    BY <2>1, <2>2, MsgTaken
  <2> QED
    BY <2>3 DEF Handled, Slots
<1> QED
  BY <1>1, HandlerAlways, PTL

-----------------------------------------------------------------------------
(* The payload of a long publication.                                      *)

\* An answer to command n is on the line.
AnswerIn(s, n, W) == \E k \in 1 .. Len(s) : s[k].kind = "ANSWER" /\ s[k].who = n /\ s[k].what \in W
Verdicts == {"ok", "error"}

\* The module waits for t's payload, or another thread has spoilt it.
Expects(t) == data_mode = t \/ "payload" \in races

\* From the module's prompt to the payload, the module waits for it.
PublInv == \A t \in Threads : op[t] = "publ" =>
    /\ phase[t] = "step" /\ ip[t] \in {1, 2} => ~AnswerIn(uart, id[t], Verdicts)
    /\ phase[t] = "sent" /\ (answer = "ok" \/ AnswerIn(uart, id[t], {"ok"})) => Expects(t)
    /\ phase[t] = "step" /\ ip[t] = 3 => Expects(t)

LEMMA AnswerAdded ==
    ASSUME NEW s \in Seq(Lines), NEW u \in Lines, NEW n, NEW W, AnswerIn(Append(s, u), n, W)
    PROVE  AnswerIn(s, n, W) \/ (u.kind = "ANSWER" /\ u.who = n /\ u.what \in W)
<1>1. /\ Len(Append(s, u)) = Len(s) + 1 /\ Len(s) \in Nat
      /\ \A k \in 1 .. Len(s) : Append(s, u)[k] = s[k]
      /\ Append(s, u)[Len(s) + 1] = u
  BY AppendLine
<1>2. \A k \in 1 .. Len(s) + 1 : k \in 1 .. Len(s) \/ k = Len(s) + 1
  BY <1>1
<1> QED
  BY <1>1, <1>2, Zenon DEF AnswerIn

LEMMA AnswerTaken ==
    ASSUME NEW s \in Seq(Lines), s # <<>>, NEW n, NEW W
    PROVE  /\ AnswerIn(Tail(s), n, W) => AnswerIn(s, n, W)
           /\ Head(s).kind = "ANSWER" /\ Head(s).who = n /\ Head(s).what \in W => AnswerIn(s, n, W)
<1>1. /\ Len(Tail(s)) = Len(s) - 1 /\ Len(s) \in Nat \ {0} /\ Head(s) = s[1]
      /\ \A k \in 1 .. Len(s) - 1 : Tail(s)[k] = s[k + 1]
  BY TailLine
<1>2. 1 \in 1 .. Len(s) /\ \A k \in 1 .. Len(s) - 1 : k + 1 \in 1 .. Len(s)
  BY <1>1
<1> QED
  BY <1>1, <1>2, Zenon DEF AnswerIn

\* Only these steps of a thread touch the line, the verdict or the module.
LEMMA QuietStep ==
    ASSUME NEW t \in Threads, Call(t) \/ ThreadSteps(t), ~ExecSend(t), ~ExecDone(t), ~SendPayload(t)
    PROVE  UNCHANGED <<busy, answer, uart, owed, up, net, subs, data_mode>>
<1> USE DEF lineVars, modVars
<1>1. CASE Call(t) \/ Return(t) \/ ClearRead(t) \/ clearFlag(t) \/ waitFlag(t) \/ WaitExpired(t)
  BY <1>1 DEF Call, Return, ClearRead, clearFlag, waitFlag, WaitExpired
<1>2. CASE SetEndSign(t) \/ ReadState(t)
  BY <1>2 DEF SetEndSign, ReadState
<1>3. CASE TestLock(t) \/ SetLock(t) \/ register_sub_topic(t) \/ Dispatch(t)
  BY <1>3 DEF TestLock, SetLock, register_sub_topic, Dispatch
<1> QED
  BY <1>1, <1>2, <1>3 DEF ThreadSteps

LEMMA PublScript ==
    ASSUME NEW m
    PROVE  /\ Len(Script(m, "publ")) = 4
           /\ Script(m, "publ")[1] = Do("sign")
           /\ Script(m, "publ")[2] = Exec("PUBL", "last")
           /\ Script(m, "publ")[3] = Do("payload")
           /\ Script(m, "publ")[4] = Do("unsign")
BY DEF Script, module_mqtt_publ

LEMMA AtPubl ==
    ASSUME ThreadInv, NEW t \in Threads, op[t] = "publ"
    PROVE  /\ phase[t] # "idle" /\ ip[t] \in 1 .. 5
           /\ ip[t] = 1 => Step(t).do = "sign" /\ Step(t).fail = "exit"
           /\ ip[t] = 2 => Step(t).do = "exec" /\ Step(t).arg = "PUBL" /\ Step(t).fail = "last"
           /\ ip[t] = 3 => Step(t).do = "payload" /\ Step(t).fail = "exit"
           /\ ip[t] = 4 => Step(t).do = "unsign" /\ Step(t).fail = "exit"
           /\ \A p : At(t, p) => ip[t] <= 4
           /\ Fail(t) /\ ip[t] = 2 => ip'[t] = 4
           /\ Succeed(t) /\ ip[t] <= 4 => ip'[t] = ip[t] + 1
           /\ phase[t] = "step" /\ ip[t] = 3 => Is(t, "step", "payload")
           /\ phase[t] = "sent" => ip[t] = 2
<1> DEFINE s == Script(module_type, op[t])
<1>1. /\ Len(s) = 4 /\ s[1] = Do("sign") /\ s[2] = Exec("PUBL", "last") /\ s[3] = Do("payload")
      /\ s[4] = Do("unsign")
  BY PublScript
<1>2. Step(t) = s[ip[t]]
  BY DEF Step
<1>3. phase[t] # "idle" /\ ip[t] \in 1 .. Len(s) + 1
  BY DEF ThreadInv, Placed
<1> HIDE DEF s
<1>4. ip[t] \in 1 .. 5
  BY <1>1, <1>3
<1>5. ip[t] = 1 => Step(t).do = "sign" /\ Step(t).fail = "exit"
  BY <1>1, <1>2 DEF Do
<1>6. ip[t] = 2 => Step(t).do = "exec" /\ Step(t).arg = "PUBL" /\ Step(t).fail = "last"
  BY <1>1, <1>2 DEF Exec
<1>7. ip[t] = 3 => Step(t).do = "payload" /\ Step(t).fail = "exit"
  BY <1>1, <1>2 DEF Do
<1>8. ip[t] = 4 => Step(t).do = "unsign" /\ Step(t).fail = "exit"
  BY <1>1, <1>2 DEF Do
<1>9. 4 \in Nat /\ Len(Script(module_type, op[t])) = 4
  BY <1>1 DEF s
<1>10. /\ \A p : At(t, p) => ip[t] <= 4
       /\ Fail(t) /\ Step(t).fail = "last" => ip'[t] = 4
       /\ Succeed(t) /\ Step(t).fail # "else" => ip'[t] = ip[t] + 1
  BY <1>9, ByLength, Zenon
<1>11. Succeed(t) /\ ip[t] <= 4 => ip'[t] = ip[t] + 1
  BY <1>4, <1>5, <1>6, <1>7, <1>8, <1>10
<1>12. phase[t] = "step" /\ ip[t] = 3 => Is(t, "step", "payload")
  <2>1. ip[t] <= 4 /\ phase[t] = "step" => At(t, "step")
    <3>1. \A p : p # "idle" /\ phase[t] = p /\ ip[t] <= 4 => At(t, p)
      BY <1>9, ByLength, Zenon
    <3> QED
      BY <3>1
  <2> QED
    BY <1>7, <2>1 DEF Is
<1>13. phase[t] = "sent" => ip[t] = 2
  <2>1. phase[t] = "sent" => Is(t, "sent", "exec")
    BY DEF ThreadInv, Placed
  <2>2. phase[t] = "sent" => Step(t).do = "exec" /\ ip[t] <= 4
    BY <1>10, <2>1, Zenon DEF Is
  <2> QED
    BY <1>4, <1>5, <1>7, <1>8, <2>2
<1> QED
  BY <1>3, <1>4, <1>5, <1>6, <1>7, <1>8, <1>10, <1>11, <1>12, <1>13

LEMMA PublOutside ==
    ASSUME ThreadInv, LineInv, ReadyInv, PublInv, Outside \/ UNCHANGED vars
    PROVE  PublInv'
<1>0. uart \in Seq(Lines) /\ owed \in SUBSET Lines /\ \A u \in owed : u.kind # "ANSWER"
  BY DEF LineInv
<1>1. UNCHANGED <<op, ip, phase, id, data_mode>>
  <2>1. UNCHANGED <<op, ip, phase, id>>
    BY OutsideThreads DEF threadVars
  <2>2. UNCHANGED data_mode
    BY DEF Outside, vars, modVars, module_init, UrcRead, UrcStore, ParseLine, SendUrc, DropConnection,
       ForwardMessage
  <2> QED
    BY <2>1, <2>2
<1>2. races \subseteq races'
  BY RacesGrow DEF Outside, Next
<1>3. ASSUME NEW n, NEW W PROVE AnswerIn(uart', n, W) => AnswerIn(uart, n, W)
  <2>1. CASE module_init \/ UrcRead \/ UNCHANGED vars
    BY <2>1 DEF module_init, UrcRead, vars, lineVars
  <2>2. CASE UrcStore \/ ParseLine
    <3>1. uart' = Tail(uart) /\ uart # <<>>
      BY <2>2 DEF UrcStore, ParseLine, ReadyInv
    <3> QED
      BY <1>0, <3>1, AnswerTaken
  <2>3. CASE SendUrc
    <3>1. PICK u \in owed : uart' = Append(uart, u)
      BY <2>3 DEF SendUrc
    <3> QED
      BY <1>0, <3>1, AnswerAdded
  <2>4. CASE DropConnection
    <3>1. Urc("DISCON", 0, "done") \in Lines /\ Urc("DISCON", 0, "done").kind # "ANSWER"
      BY DEF Urc, Lines, AllLines, FlagUrcs, Words
    <3>2. uart' = Append(uart, Urc("DISCON", 0, "done"))
      BY <2>4 DEF DropConnection
    <3> QED
      BY <1>0, <3>1, <3>2, AnswerAdded
  <2>5. CASE ForwardMessage
    <3>1. PICK x \in subs : uart' = Append(uart, Urc("PUB", 0, x))
      BY <2>5 DEF ForwardMessage
    <3>2. Urc("PUB", 0, x) \in Lines /\ Urc("PUB", 0, x).kind # "ANSWER"
      BY <3>1 DEF Urc, Lines, AllLines, FlagUrcs, Words, LineInv
    <3> QED
      BY <1>0, <3>1, <3>2, AnswerAdded
  <2> QED
    BY <2>1, <2>2, <2>3, <2>4, <2>5 DEF Outside
<1>4. answer' = "ok" => answer = "ok" \/ (busy # None /\ AnswerIn(uart, id[busy], {"ok"}))
  <2>1. CASE ParseLine
    <3>1. /\ uart # <<>>
          /\ answer' = IF Head(uart).kind = "ANSWER" /\ busy # None /\ Head(uart).who = id[busy]
                       THEN Head(uart).what ELSE answer
      BY <2>1 DEF ParseLine
    <3>2. Head(uart).kind = "ANSWER" /\ Head(uart).who = id[busy] /\ Head(uart).what = "ok"
          => AnswerIn(uart, id[busy], {"ok"})
      BY <1>0, <3>1, AnswerTaken
    <3> QED
      BY <3>1, <3>2
  <2>2. CASE ~ParseLine
    BY <2>2 DEF Outside, vars, lineVars, module_init, UrcRead, UrcStore, SendUrc, DropConnection, ForwardMessage
  <2> QED
    BY <2>1, <2>2
<1>5. SUFFICES ASSUME NEW t \in Threads, op[t] = "publ"
               PROVE  /\ phase[t] = "step" /\ ip[t] \in {1, 2} => ~AnswerIn(uart', id[t], Verdicts)
                      /\ phase[t] = "sent" /\ (answer' = "ok" \/ AnswerIn(uart', id[t], {"ok"})) => Expects(t)
                      /\ phase[t] = "step" /\ ip[t] = 3 => Expects(t)
  <2>1. \A t \in Threads : Expects(t) => Expects(t)'
    BY <1>1, <1>2 DEF Expects
  <2> QED
    BY <1>1, <2>1 DEF PublInv, AnswerIn
<1>6. phase[t] = "sent" => busy = t
  BY DEF ThreadInv
<1> QED
  BY <1>3, <1>4, <1>5, <1>6 DEF PublInv

\* The line after a command.
LEMMA ExecAnswers ==
    ASSUME ThreadInv, LineInv, NEW t \in Threads, ExecSend(t), NEW n, NEW W, AnswerIn(uart', n, W)
    PROVE  AnswerIn(uart, n, W) \/ n = id[t]
<1>0. uart \in Seq(Lines) /\ Is(t, "step", "exec") /\ "none" \in Nets
  BY DEF LineInv, ExecSend, Nets
<1>1. \/ net' \in Nets /\ uart' = uart \o LinesBefore(Step(t).arg, t, net') \o <<Answer(t, "ok")>>
      \/ uart' = Append(uart, Answer(t, "error"))
      \/ uart' = uart
  BY DEF ExecSend, Answer, Network, Nets, LineInv
<1>2. /\ Answer(t, "ok") \in Lines /\ Answer(t, "error") \in Lines
      /\ Answer(t, "ok").who = id[t] /\ Answer(t, "error").who = id[t]
  BY <1>0, ExecLines DEF Answer, Urc
<1>3. CASE uart' = Append(uart, Answer(t, "ok"))
  BY <1>0, <1>2, <1>3, AnswerAdded
<1>4. CASE uart' = Append(uart, Answer(t, "error"))
  BY <1>0, <1>2, <1>4, AnswerAdded
<1>5. CASE net' \in Nets /\ uart' = Append(Append(uart, Before(t, net')), Answer(t, "ok"))
  <2>1. Before(t, net') \in Lines /\ Before(t, net').who = id[t]
    BY <1>0, <1>5, ExecLines DEF Before, Urc
  <2>2. Append(uart, Before(t, net')) \in Seq(Lines)
    BY <1>0, <2>1, AppendLine
  <2>3. AnswerIn(Append(uart, Before(t, net')), n, W) \/ n = id[t]
    BY <1>2, <1>5, <2>2, AnswerAdded
  <2> QED
    BY <1>0, <2>1, <2>3, AnswerAdded
<1> QED
  BY <1>0, <1>1, <1>3, <1>4, <1>5, ExecLines

\* The publication itself.
LEMMA PublOwn ==
    ASSUME ThreadInv, LineInv, PublInv, NEW t \in Threads, Call(t) \/ ThreadSteps(t), op'[t] = "publ"
    PROVE  /\ phase'[t] = "step" /\ ip'[t] \in {1, 2} => ~AnswerIn(uart', id'[t], Verdicts)
           /\ phase'[t] = "sent" /\ (answer' = "ok" \/ AnswerIn(uart', id'[t], {"ok"}))
              => data_mode' = t \/ "payload" \in races'
           /\ phase'[t] = "step" /\ ip'[t] = 3 => data_mode' = t \/ "payload" \in races'
<1>0. races \subseteq races' /\ Own(t)
  BY RacesGrow, OwnStep DEF Next, ThreadSteps, ThreadInv
<1>1. CASE Call(t)
  <2>1. phase'[t] = "step" /\ ip'[t] = 1 /\ id'[t] = calls + 1 /\ uart' = uart /\ calls \in Nat
    BY <1>1 DEF Call, Advance, ThreadInv, ThreadTypes, PhaseInv, lineVars
  <2>2. ASSUME NEW k \in 1 .. Len(uart) PROVE uart[k].who # calls + 1
    <3>1. uart[k] \in Lines /\ uart[k].who <= calls
      BY DEF LineInv
    <3>2. uart[k].who \in Nat
      BY <3>1 DEF Lines, AllLines
    <3> QED
      BY <2>1, <3>1, <3>2
  <2> QED
    BY <2>1, <2>2 DEF AnswerIn
<1>2. CASE Return(t)
  BY <1>2 DEF Return, ThreadInv, ThreadTypes
<1>3. CASE ThreadSteps(t) /\ ~Return(t)
  <2>1. op[t] = "publ" /\ id'[t] = id[t]
    BY <1>3, CallGoesOn DEF GoesOn
  <2>2. /\ phase[t] # "idle" /\ ip[t] \in 1 .. 5
        /\ ip[t] = 1 => Step(t).do = "sign"
        /\ ip[t] = 2 => Step(t).do = "exec" /\ Step(t).arg = "PUBL"
        /\ ip[t] = 3 => Step(t).do = "payload"
        /\ ip[t] = 4 => Step(t).do = "unsign"
        /\ \A p : At(t, p) => ip[t] <= 4
        /\ Fail(t) /\ ip[t] = 2 => ip'[t] = 4
        /\ Succeed(t) /\ ip[t] <= 4 => ip'[t] = ip[t] + 1
    BY <2>1, AtPubl
  <2>3. CASE ExecSend(t)
    <3>1. /\ ip[t] = 2 /\ phase[t] = "step" /\ phase'[t] = "sent" /\ answer' = "none"
      BY <2>2, <2>3 DEF ExecSend, Is, At, ThreadInv, ThreadTypes, PhaseInv
    <3>2. ~AnswerIn(uart, id[t], Verdicts)
      BY <2>1, <3>1 DEF PublInv
    <3>3. ~AnswerIn(uart, id[t], {"ok"})
      BY <3>2 DEF AnswerIn, Verdicts
    <3>4. \/ data_mode' = t
          \/ uart' = Append(uart, Answer(t, "error"))
          \/ uart' = uart
      BY <2>2, <2>3, <3>1 DEF ExecSend, Answer
    <3>5. uart' = Append(uart, Answer(t, "error")) => ~AnswerIn(uart', id[t], {"ok"})
      <4>1. uart \in Seq(Lines) /\ "none" \in Nets /\ Is(t, "step", "exec")
        BY <2>3 DEF LineInv, Nets, ExecSend
      <4>2. Answer(t, "error") \in Lines /\ Answer(t, "error").what = "error"
        BY <4>1, ExecLines DEF Answer, Urc
      <4> QED
        BY <3>3, <4>1, <4>2, AnswerAdded
    <3> QED
      BY <2>1, <3>1, <3>3, <3>4, <3>5
  <2>4. CASE ExecDone(t)
    <3>1. /\ phase[t] = "sent" /\ ip[t] = 2 /\ UNCHANGED data_mode /\ phase'[t] = "step"
      BY <2>2, <2>4 DEF ExecDone, Is, At, modVars, Succeed, Fail, Advance, ThreadInv, ThreadTypes, PhaseInv
    <3>2. (answer = "ok" /\ Succeed(t)) \/ Fail(t)
      BY <2>4 DEF ExecDone
    <3>3. (answer = "ok" /\ ip'[t] = 3) \/ ip'[t] = 4
      BY <2>2, <3>1, <3>2
    <3>4. answer = "ok" => data_mode = t \/ "payload" \in races
      BY <2>1, <3>1 DEF PublInv, Expects
    <3> QED
      BY <1>0, <3>1, <3>3, <3>4
  <2>5. CASE SendPayload(t)
    <3>1. ip[t] = 3 /\ Succeed(t) /\ phase'[t] = "step"
      BY <2>2, <2>5 DEF SendPayload, Is, Succeed, Advance, ThreadInv, ThreadTypes, PhaseInv
    <3>2. ip'[t] = 4
      BY <2>2, <3>1
    <3> QED
      BY <3>1, <3>2
  <2>6. CASE SetEndSign(t)
    <3>1. /\ ip[t] \in {1, 4} /\ Succeed(t) /\ phase'[t] = "step" /\ uart' = uart /\ phase[t] = "step"
      BY <2>2, <2>6 DEF SetEndSign, Is, At, Succeed, Advance, ThreadInv, ThreadTypes, PhaseInv, lineVars
    <3>2. (ip[t] = 1 /\ ip'[t] = 2) \/ ip'[t] = 5
      BY <2>2, <3>1
    <3>3. ip[t] = 1 => ~AnswerIn(uart, id[t], Verdicts)
      BY <2>1, <3>1 DEF PublInv
    <3> QED
      BY <2>1, <3>1, <3>2, <3>3
  <2>7. Step(t).do \in {"sign", "exec", "payload", "unsign"} \/ \A p : ~At(t, p)
    BY <2>2
  <2>8. \/ ExecSend(t) \/ ExecDone(t) \/ SendPayload(t) \/ SetEndSign(t)
        \/ SetLock(t)
    BY <1>3, <2>7 DEF ThreadSteps, ClearRead, clearFlag, waitFlag, WaitExpired,
       ReadState, TestLock, Needs, register_sub_topic, Dispatch, Is
  <2>9. ~SetLock(t)
    <3>1. SetLock(t) => At(t, "tested") /\ phase[t] = "tested"
      BY DEF SetLock, At
    <3>2. SetLock(t) => Step(t).do \in {"register", "deliver"}
      BY <3>1 DEF ThreadInv, Placed
    <3> QED
      BY <2>7, <3>1, <3>2
  <2> QED
    BY <2>3, <2>4, <2>5, <2>6, <2>8, <2>9
<1> QED
  BY <1>1, <1>2, <1>3

\* The other threads.
LEMMA PublOther ==
    ASSUME ThreadInv, LineInv, PublInv, NEW s \in Threads, Call(s) \/ ThreadSteps(s),
           NEW t \in Threads \ {s}, op[t] = "publ"
    PROVE  /\ phase[t] = "step" /\ ip[t] \in {1, 2} => ~AnswerIn(uart', id[t], Verdicts)
           /\ phase[t] = "sent" /\ (answer' = "ok" \/ AnswerIn(uart', id[t], {"ok"}))
              => data_mode' = t \/ "payload" \in races'
           /\ phase[t] = "step" /\ ip[t] = 3 => data_mode' = t \/ "payload" \in races'
<1>0. races \subseteq races'
  BY RacesGrow DEF Next, ThreadSteps
<1>1. /\ phase[t] = "step" /\ ip[t] \in {1, 2} => ~AnswerIn(uart, id[t], Verdicts)
      /\ phase[t] = "sent" /\ (answer = "ok" \/ AnswerIn(uart, id[t], {"ok"}))
         => data_mode = t \/ "payload" \in races
      /\ phase[t] = "step" /\ ip[t] = 3 => data_mode = t \/ "payload" \in races
  BY DEF PublInv, Expects
<1>2. CASE ExecSend(s)
  <2>1. /\ busy = None /\ phase[s] = "step"
        /\ races' = IF \E r \in Threads : Is(r, "step", "payload") THEN races \cup {"payload"} ELSE races
    BY <1>2 DEF ExecSend, Is, At
  <2>2. phase[t] # "sent" /\ id[t] # id[s]
    <3>1. phase[t] # "idle" /\ phase[t] # "sent"
      BY <2>1, AtPubl, ApiAssumption DEF ThreadInv
    <3> QED
      BY <2>1, <3>1 DEF ThreadInv
  <2>3. AnswerIn(uart', id[t], Verdicts) => AnswerIn(uart, id[t], Verdicts)
    BY <1>2, <2>2, ExecAnswers
  <2>4. phase[t] = "step" /\ ip[t] = 3 => Is(t, "step", "payload")
    BY AtPubl
  <2> QED
    BY <1>1, <2>1, <2>2, <2>3, <2>4
<1>3. CASE ExecDone(s)
  <2>1. phase[s] = "sent" /\ UNCHANGED <<uart, data_mode>>
    BY <1>3 DEF ExecDone, Is, At, modVars
  <2>2. phase[t] # "sent"
    BY <2>1 DEF ThreadInv
  <2> QED
    BY <1>0, <1>1, <2>1, <2>2
<1>4. CASE SendPayload(s)
  <2>1. Is(s, "step", "payload") /\ UNCHANGED <<uart, answer>>
    BY <1>4 DEF SendPayload, lineVars
  <2>2. op[s] = "publ" /\ ip[s] = 3 /\ phase[s] = "step"
    BY <2>1, AtStep DEF Is, At
  <2>3. data_mode = s \/ "payload" \in races
    BY <2>2 DEF PublInv, Expects
  <2> QED
    BY <1>0, <1>1, <2>1, <2>3
<1>5. CASE ~ExecSend(s) /\ ~ExecDone(s) /\ ~SendPayload(s)
  <2>1. UNCHANGED <<uart, answer, data_mode>>
    BY <1>5, QuietStep
  <2> QED
    BY <1>0, <1>1, <2>1
<1> QED
  BY <1>2, <1>3, <1>4, <1>5

LEMMA PublNext == ThreadInv /\ LineInv /\ ReadyInv /\ PublInv /\ [Next]_vars => PublInv'
<1> SUFFICES ASSUME ThreadInv, LineInv, ReadyInv, PublInv, [Next]_vars PROVE PublInv'
  OBVIOUS
<1>1. ASSUME NEW s \in Threads, Call(s) \/ ThreadSteps(s)
      PROVE  PublInv'
  <2>1. SUFFICES ASSUME NEW t \in Threads, op'[t] = "publ"
                 PROVE  /\ phase'[t] = "step" /\ ip'[t] \in {1, 2} => ~AnswerIn(uart', id'[t], Verdicts)
                        /\ phase'[t] = "sent" /\ (answer' = "ok" \/ AnswerIn(uart', id'[t], {"ok"}))
                           => data_mode' = t \/ "payload" \in races'
                        /\ phase'[t] = "step" /\ ip'[t] = 3 => data_mode' = t \/ "payload" \in races'
    BY DEF PublInv, Expects, AnswerIn
  <2>2. CASE t = s
    BY <1>1, <2>1, <2>2, PublOwn
  <2>3. CASE t # s
    <3>1. op[t] = op'[t] /\ phase[t] = phase'[t] /\ ip[t] = ip'[t] /\ id[t] = id'[t]
      BY <1>1, <2>3, OwnStep DEF Own, ThreadInv, ThreadTypes, PhaseInv
    <3> QED
      BY <1>1, <2>1, <2>3, <3>1, PublOther
  <2> QED
    BY <2>2, <2>3
<1> QED
  BY <1>1, PublOutside, StepKinds

\* The payload of module_mqtt_publ goes to a module that waits for it, for any
\* number of threads, unless another thread sends a command between the two.
THEOREM PayloadIsExpected == Spec => []PayloadExpected
<1> DEFINE Inv == ThreadInv /\ LineInv /\ ReadyInv /\ PublInv
<1>1. Init => Inv
  <2>1. Init => PublInv
    BY DEF Init, PublInv
  <2> QED
    BY <2>1, ThreadInit, LineInit
<1>2. Inv /\ [Next]_vars => Inv'
  BY ThreadNext, LineNext, ReadyNext, PublNext
<1>3. Inv => PayloadExpected
  <2> SUFFICES ASSUME ThreadInv, PublInv, NEW t \in Threads, Is(t, "step", "payload")
               PROVE  Expects(t)
    BY DEF PayloadExpected, Expects
  <2>1. op[t] = "publ" /\ ip[t] = 3 /\ phase[t] = "step"
    BY AtStep DEF Is, At
  <2> QED
    BY <2>1 DEF PublInv
<1> QED
  BY <1>1, <1>2, <1>3, PTL DEF Spec

-----------------------------------------------------------------------------
(* What happened during a call, and the flags.                             *)

Signs == {"up", "down", "attached", "ready", "granted", "refused", "failed"}
DuringInv == during \in [Threads -> SUBSET Signs]

\* A call under way forgets nothing.
LEMMA DuringNext ==
    ASSUME ThreadInv, LineInv, DuringInv, [Next]_vars
    PROVE  /\ DuringInv'
           /\ \A t \in Threads : phase[t] # "idle" /\ phase'[t] # "idle" => during[t] \subseteq during'[t]
<1>0. \A n \in Nets : \A u : Facts(u, n) \in SUBSET Signs
  BY DEF Nets, Facts, Signs
<1>1. ASSUME NEW u, NEW n \in Nets, Witness(u, n)
      PROVE  /\ DuringInv'
             /\ \A t \in Threads : phase[t] # "idle" /\ phase'[t] # "idle" => during[t] \subseteq during'[t]
  BY <1>0, <1>1 DEF Witness, DuringInv
<1>2. CASE during' = during
  BY <1>2 DEF DuringInv
<1>3. CASE Outside \/ UNCHANGED vars
  <2>1. CASE SendUrc
    <3>1. Witness(up', net') /\ net' \in {"ready", net}
      BY <2>1 DEF SendUrc
    <3> QED
      BY <1>1, <3>1 DEF LineInv, Nets
  <2>2. CASE DropConnection
    <3>1. Witness(FALSE, net)
      BY <2>2 DEF DropConnection
    <3> QED
      BY <1>1, <3>1 DEF LineInv
  <2>3. CASE UrcStore
    <3>1. during' = [t \in Threads |-> IF Head(uart).kind = "SUB" /\ Head(uart).who = id[t]
                                       THEN during[t] \cup {Verdict(Head(uart))} ELSE during[t]]
      BY <2>3 DEF UrcStore
    <3> QED
      BY <3>1 DEF DuringInv, Signs, Verdict
  <2>4. CASE module_init \/ UrcRead \/ ParseLine \/ ForwardMessage \/ UNCHANGED vars
    BY <1>2, <2>4 DEF module_init, UrcRead, ParseLine, ForwardMessage, vars, ghostVars
  <2> QED
    BY <1>3, <2>1, <2>2, <2>3, <2>4 DEF Outside
<1>4. ASSUME NEW s \in Threads, Call(s) \/ ThreadSteps(s)
      PROVE  /\ DuringInv'
             /\ \A t \in Threads : phase[t] # "idle" /\ phase'[t] # "idle" => during[t] \subseteq during'[t]
  <2> USE DEF ghostVars
  <2>1. CASE Call(s)
    <3>1. phase[s] = "idle" /\ during' = [during EXCEPT ![s] = Facts(up, net)]
      BY <2>1 DEF Call
    <3> QED
      BY <1>0, <3>1 DEF DuringInv, LineInv
  <2>2. CASE Return(s)
    <3>1. phase'[s] = "idle" /\ during' = [during EXCEPT ![s] = {}]
      BY <2>2 DEF Return, ThreadInv, ThreadTypes, PhaseInv
    <3> QED
      BY <3>1 DEF DuringInv
  <2>3. CASE ExecSend(s)
    <3>1. (net' \in Network(Step(s).arg) /\ Witness(up, net')) \/ during' = during
      BY <2>3 DEF ExecSend
    <3>2. Network(Step(s).arg) \subseteq Nets
      BY DEF Network, Nets, LineInv
    <3> QED
      BY <1>1, <1>2, <3>1, <3>2
  <2>4. CASE ClearRead(s) \/ clearFlag(s) \/ waitFlag(s) \/ WaitExpired(s)
    BY <1>2, <2>4 DEF ClearRead, clearFlag, waitFlag, WaitExpired
  <2>5. CASE SendPayload(s) \/ SetEndSign(s) \/ ReadState(s)
    BY <1>2, <2>5 DEF SendPayload, SetEndSign, ReadState
  <2>7. CASE ExecDone(s)
    <3>1. during' = during \/ during' = [during EXCEPT ![s] = @ \cup {"failed"}]
      BY <2>7 DEF ExecDone
    <3> QED
      BY <3>1 DEF DuringInv, Signs
  <2>6. CASE TestLock(s) \/ SetLock(s) \/ register_sub_topic(s) \/ Dispatch(s)
    BY <1>2, <2>6 DEF TestLock, SetLock, register_sub_topic, Dispatch
  <2> QED
    BY <1>4, <2>1, <2>2, <2>3, <2>4, <2>5, <2>6, <2>7 DEF ThreadSteps
<1> QED
  BY <1>3, <1>4, StepKinds

\* Without a lost update the flags change by the line or the step that changes them.
LEMMA FlagMoves ==
    ASSUME [Next]_vars, "flags" \notin races'
    PROVE  \/ sg_flags' = sg_flags /\ ~UrcStore /\ \A t \in Threads : ~clearFlag(t)
           \/ UrcStore /\ sg_flags' = AfterUrc(sg_flags, Head(uart))
           \/ \E t \in Threads : clearFlag(t) /\ sg_flags' = sg_flags \ {Step(t).arg}
<1> USE DEF flagVars
<1>1. CASE UrcStore
  BY <1>1 DEF UrcStore, Lossy
<1>2. ASSUME NEW t \in Threads, clearFlag(t)
      PROVE  sg_flags' = sg_flags \ {Step(t).arg}
  BY <1>2 DEF clearFlag, Lossy
<1>3. CASE ~UrcStore /\ \A t \in Threads : ~clearFlag(t)
  <2>1. CASE Outside \/ UNCHANGED vars
    BY <1>3, <2>1 DEF Outside, module_init, UrcRead, ParseLine, SendUrc, DropConnection, ForwardMessage, vars
  <2>2. ASSUME NEW t \in Threads, Call(t) \/ ThreadSteps(t)
        PROVE  sg_flags' = sg_flags
    BY <1>3, <2>2, ThreadLeaves
  <2> QED
    BY <1>3, <2>1, <2>2, StepKinds
<1> QED
  BY <1>1, <1>2, <1>3

-----------------------------------------------------------------------------
(* The verdict on a subscription.                                           *)

\* Nothing has happened that excuses a wrong verdict.
Clean == "sub" \notin races /\ "flags" \notin races /\ ~gaveup

\* u answers a subscription and is on its way: sent, or still owed.
InFlight(s, O, u) == u.kind = "SUB" /\ (u \in O \/ \E k \in 1 .. Len(s) : s[k] = u)

OneSub(s, O) ==
    /\ \A j, k \in 1 .. Len(s) : s[j].kind = "SUB" /\ s[k].kind = "SUB" => j = k
    /\ \A u, v \in O : u.kind = "SUB" /\ v.kind = "SUB" => u = v
    /\ \A u \in O : u.kind = "SUB" => \A k \in 1 .. Len(s) : s[k].kind # "SUB"

\* The module gave its verdict.
Heard(D) == {"granted", "refused"} \cap D # {}

\* Where the subscription t is, the flag says what it has heard.
SubFlag(t) ==
    /\ phase[t] = "step" /\ ip[t] = 3 => "SUB" \notin sg_flags
    /\ ip[t] \in {3, 4} /\ "SUB" \in sg_flags => Heard(during[t])
    /\ ip[t] \in {5, 6} /\ result[t] = "SUCCESS" => Heard(during[t])

\* The thread whose subscription u answers still waits for it.
Waits(u) == \E t \in Threads : op[t] = "sub" /\ id[t] = u.who /\ (phase[t] = "sent" \/ ip[t] = 4)

\* One subscription at a time, and one verdict on its way, which belongs to it
\* and which the flag does not announce.
SubInv == Clean =>
    /\ \A s, t \in Threads : op[s] = "sub" /\ op[t] = "sub" => s = t
    /\ OneSub(uart, owed)
    /\ \A u : InFlight(uart, owed, u) => "SUB" \notin sg_flags /\ Waits(u)
    /\ \A t \in Threads : op[t] = "sub" => SubFlag(t)

LEMMA FlightAdded ==
    ASSUME NEW s \in Seq(Lines), NEW O \in SUBSET Lines, OneSub(s, O), NEW e \in Lines, e.kind # "SUB"
    PROVE  OneSub(Append(s, e), O) /\ \A u : InFlight(Append(s, e), O, u) => InFlight(s, O, u)
<1>1. /\ Len(Append(s, e)) = Len(s) + 1 /\ Len(s) \in Nat
      /\ \A k \in 1 .. Len(s) : Append(s, e)[k] = s[k]
      /\ Append(s, e)[Len(s) + 1] = e
  BY AppendLine
<1>2. \A k \in 1 .. Len(s) + 1 : k \in 1 .. Len(s) \/ k = Len(s) + 1
  BY <1>1
<1>3. \A k \in 1 .. Len(Append(s, e)) : Append(s, e)[k].kind = "SUB" => k \in 1 .. Len(s)
  BY <1>1, <1>2
<1> QED
  BY <1>1, <1>3, Zenon DEF OneSub, InFlight

LEMMA FlightTaken ==
    ASSUME NEW s \in Seq(Lines), s # <<>>, NEW O \in SUBSET Lines, OneSub(s, O)
    PROVE  /\ OneSub(Tail(s), O) /\ \A u : InFlight(Tail(s), O, u) => InFlight(s, O, u)
           /\ Head(s).kind = "SUB" => InFlight(s, O, Head(s)) /\ \A u : ~InFlight(Tail(s), O, u)
<1>1. /\ Len(Tail(s)) = Len(s) - 1 /\ Len(s) \in Nat \ {0} /\ Head(s) = s[1]
      /\ \A k \in 1 .. Len(s) - 1 : Tail(s)[k] = s[k + 1]
  BY TailLine
<1>2. 1 \in 1 .. Len(s) /\ \A k \in 1 .. Len(s) - 1 : k + 1 \in 1 .. Len(s) /\ k + 1 # 1
  BY <1>1
<1>3. \A j, k \in 1 .. Len(s) - 1 : j + 1 = k + 1 => j = k
  BY <1>1
<1>4. OneSub(Tail(s), O)
  BY <1>1, <1>2, <1>3 DEF OneSub
<1>5. \A u : InFlight(Tail(s), O, u) => InFlight(s, O, u)
  BY <1>1, <1>2, Zenon DEF InFlight
<1>6. Head(s).kind = "SUB" => InFlight(s, O, Head(s))
  BY <1>1, <1>2, Zenon DEF InFlight
<1>7. ASSUME NEW u, Head(s).kind = "SUB", InFlight(Tail(s), O, u) PROVE FALSE
  <2>1. u \notin O
    BY <1>1, <1>2, <1>7, Zenon DEF InFlight, OneSub
  <2>2. PICK k \in 1 .. Len(s) - 1 : Tail(s)[k] = u
    BY <1>1, <1>7, <2>1, Zenon DEF InFlight
  <2>3. s[k + 1].kind = "SUB" /\ s[1].kind = "SUB" /\ k + 1 \in 1 .. Len(s) /\ 1 \in 1 .. Len(s)
    BY <1>1, <1>2, <1>7, <2>2 DEF InFlight
  <2>4. k + 1 = 1
    BY <2>3, Zenon DEF OneSub
  <2> QED
    BY <2>4
<1> QED
  BY <1>4, <1>5, <1>6, <1>7

\* A URC that was owed and is sent.
LEMMA FlightSent ==
    ASSUME NEW s \in Seq(Lines), NEW O \in SUBSET Lines, OneSub(s, O), NEW e \in O
    PROVE  OneSub(Append(s, e), O \ {e}) /\ \A u : InFlight(Append(s, e), O \ {e}, u) => InFlight(s, O, u)
<1>1. /\ Len(Append(s, e)) = Len(s) + 1 /\ Len(s) \in Nat
      /\ \A k \in 1 .. Len(s) : Append(s, e)[k] = s[k]
      /\ Append(s, e)[Len(s) + 1] = e
  BY AppendLine
<1>2. \A k \in 1 .. Len(s) + 1 : k \in 1 .. Len(s) \/ k = Len(s) + 1
  BY <1>1
<1>3. \A u : InFlight(Append(s, e), O \ {e}, u) => InFlight(s, O, u)
  BY <1>1, <1>2, Zenon DEF InFlight
<1>4. CASE e.kind # "SUB"
  <2>1. \A k \in 1 .. Len(Append(s, e)) : Append(s, e)[k].kind = "SUB" => k \in 1 .. Len(s)
    BY <1>1, <1>2, <1>4
  <2>2. OneSub(Append(s, e), O \ {e})
    BY <1>1, <2>1, Zenon DEF OneSub
  <2> QED
    BY <1>3, <2>2
<1>5. CASE e.kind = "SUB"
  <2>1. \A k \in 1 .. Len(s) : s[k].kind # "SUB"
    BY <1>5, Zenon DEF OneSub
  <2>2. \A k \in 1 .. Len(Append(s, e)) : Append(s, e)[k].kind = "SUB" => k = Len(s) + 1
    BY <1>1, <1>2, <2>1
  <2>3. \A u \in O \ {e} : u.kind # "SUB"
    BY <1>5, Zenon DEF OneSub
  <2>4. OneSub(Append(s, e), O \ {e})
    BY <2>2, <2>3, Zenon DEF OneSub
  <2> QED
    BY <1>3, <2>4
<1> QED
  BY <1>4, <1>5

LEMMA SubMoves ==
    ASSUME ThreadInv, NEW t \in Threads, ThreadSteps(t), ~Return(t), op[t] = "sub"
    PROVE  /\ ip[t] = 1 => ip'[t] \in {1, 2} \/ (ip'[t] = 6 /\ result'[t] = "FAILURE")
           /\ ip[t] = 2 => (ClearRead(t) /\ ip'[t] = 2 /\ phase'[t] = "rmw") \/ (clearFlag(t) /\ ip'[t] = 3)
           /\ ip[t] = 3 => \/ ExecSend(t) /\ phase[t] = "step" /\ ip'[t] = 3 /\ phase'[t] = "sent"
                           \/ ExecDone(t) /\ phase[t] = "sent" /\ ip'[t] = 4
           /\ ip[t] = 4 => (waitFlag(t) /\ "SUB" \in sg_flags /\ ip'[t] = 5) \/ gaveup'
           /\ ip[t] = 5 => ip'[t] \in {5, 6} /\ result' = result
           /\ ip[t] \in 1 .. 5
<1> DEFINE do == Step(t).do
<1>0. ip[t] \in 1 .. 6
  BY AtSub
<1>1. ip[t] # 6
  <2>1. ip[t] = 6 => \A p : ~At(t, p)
    BY AtSub
  <2> QED
    BY <2>1 DEF ThreadSteps, ClearRead, clearFlag, waitFlag, WaitExpired, ExecSend, ExecDone,
       SendPayload, SetEndSign, ReadState, TestLock, Needs, SetLock, register_sub_topic, Dispatch, Is
<1>2. CASE ip[t] = 1
  <2>1. do = "register"
    BY <1>2, AtSub
  <2>2. TestLock(t) \/ SetLock(t) \/ register_sub_topic(t)
    BY <2>1 DEF ThreadSteps, ClearRead, clearFlag, waitFlag, WaitExpired, ExecSend, ExecDone,
         SendPayload, SetEndSign, ReadState, Dispatch, Is
  <2>3. ip' = ip \/ Fail(t) \/ Succeed(t)
    BY <2>2 DEF TestLock, SetLock, register_sub_topic
  <2>4. /\ Fail(t) => ip'[t] = 6 /\ result'[t] = "FAILURE"
        /\ Succeed(t) => ip'[t] = 2
    BY <1>2, AtSub
  <2> QED
    BY <1>2, <2>3, <2>4
<1>3. CASE ip[t] \in {2, 5}
  <2>1. do = "clear"
    BY <1>3, AtSub
  <2>2. ClearRead(t) \/ clearFlag(t) \/ SetLock(t)
    BY <2>1 DEF ThreadSteps, waitFlag, WaitExpired, ExecSend, ExecDone,
         SendPayload, SetEndSign, ReadState, TestLock, Needs, register_sub_topic, Dispatch, Is
  <2>3. ~SetLock(t)
    <3>1. SetLock(t) => phase[t] = "tested"
      BY DEF SetLock, At
    <3> QED
      BY <2>1, <3>1 DEF ThreadInv, Placed
  <2>4. /\ ClearRead(t) => ip' = ip /\ result' = result /\ phase'[t] = "rmw"
        /\ clearFlag(t) => Succeed(t) /\ result' = result
    BY DEF ClearRead, clearFlag, Succeed, ThreadInv, ThreadTypes, PhaseInv
  <2>5. Succeed(t) => ip'[t] = ip[t] + 1
    BY <1>3, AtSub
  <2> QED
    BY <1>3, <2>2, <2>3, <2>4, <2>5
<1>4. CASE ip[t] = 3
  <2>1. do = "exec"
    BY <1>4, AtSub
  <2>2. ExecSend(t) \/ ExecDone(t) \/ SetLock(t)
    BY <2>1 DEF ThreadSteps, ClearRead, clearFlag, waitFlag, WaitExpired,
         SendPayload, SetEndSign, ReadState, TestLock, Needs, register_sub_topic, Dispatch, Is
  <2>3. ~SetLock(t)
    <3>1. SetLock(t) => phase[t] = "tested"
      BY DEF SetLock, At
    <3> QED
      BY <2>1, <3>1 DEF ThreadInv, Placed
  <2>4. ExecSend(t) => phase[t] = "step" /\ ip' = ip /\ phase'[t] = "sent"
    BY DEF ExecSend, Is, At, ThreadInv, ThreadTypes, PhaseInv
  <2>5. ExecDone(t) => phase[t] = "sent" /\ (Succeed(t) \/ Fail(t))
    BY DEF ExecDone, Is, At
  <2>6. Succeed(t) \/ Fail(t) => ip'[t] = 4
    BY <1>4, AtSub
  <2> QED
    BY <1>4, <2>2, <2>3, <2>4, <2>5, <2>6
<1>5. CASE ip[t] = 4
  <2>1. do = "wait" /\ Step(t).arg = "SUB"
    BY <1>5, AtSub
  <2>2. waitFlag(t) \/ WaitExpired(t) \/ SetLock(t)
    BY <2>1 DEF ThreadSteps, ClearRead, clearFlag, ExecSend, ExecDone,
         SendPayload, SetEndSign, ReadState, TestLock, Needs, register_sub_topic, Dispatch, Is
  <2>3. ~SetLock(t)
    <3>1. SetLock(t) => phase[t] = "tested"
      BY DEF SetLock, At
    <3> QED
      BY <2>1, <3>1 DEF ThreadInv, Placed
  <2>4. WaitExpired(t) => gaveup'
    <3>1. WaitExpired(t) => gaveup' = (gaveup \/ Step(t).arg = "SUB")
      BY DEF WaitExpired
    <3> QED
      BY <2>1, <3>1, Zenon
  <2>5. waitFlag(t) => "SUB" \in sg_flags /\ Succeed(t)
    BY <2>1 DEF waitFlag
  <2>6. Succeed(t) => ip'[t] = 5
    BY <1>5, AtSub
  <2> QED
    BY <1>5, <2>2, <2>3, <2>4, <2>5, <2>6
<1> QED
  BY <1>0, <1>1, <1>2, <1>3, <1>4, <1>5

LEMMA CleanBefore == [Next]_vars /\ Clean' => Clean
<1> SUFFICES ASSUME [Next]_vars, Clean' PROVE Clean
  OBVIOUS
<1>1. races \subseteq races'
  BY RacesGrow
<1>2. gaveup => gaveup'
  <2> USE DEF ghostVars
  <2>1. CASE Outside \/ UNCHANGED vars
    BY <2>1 DEF Outside, vars, module_init, UrcRead, UrcStore, ParseLine, SendUrc, DropConnection, ForwardMessage
  <2>2. ASSUME NEW t \in Threads, Call(t) \/ ThreadSteps(t)
        PROVE  gaveup => gaveup'
    <3>1. CASE WaitExpired(t)
      <4>1. gaveup' = (gaveup \/ Step(t).arg = "SUB")
        BY <3>1 DEF WaitExpired
      <4> QED
        BY <4>1, Zenon
    <3>2. CASE Call(t) \/ Return(t) \/ ClearRead(t) \/ clearFlag(t) \/ waitFlag(t)
      BY <3>2 DEF Call, Return, ClearRead, clearFlag, waitFlag
    <3>3. CASE ExecSend(t) \/ ExecDone(t) \/ SendPayload(t) \/ SetEndSign(t) \/ ReadState(t)
      BY <3>3 DEF ExecSend, ExecDone, SendPayload, SetEndSign, ReadState
    <3>4. CASE TestLock(t) \/ SetLock(t) \/ register_sub_topic(t) \/ Dispatch(t)
      BY <3>4 DEF TestLock, SetLock, register_sub_topic, Dispatch
    <3> QED
      BY <2>2, <3>1, <3>2, <3>3, <3>4 DEF ThreadSteps
  <2> QED
    BY <2>1, <2>2, StepKinds
<1> QED
  BY <1>1, <1>2 DEF Clean

LEMMA SubOutside ==
    ASSUME ThreadInv, LineInv, ReadyInv, DuringInv, SubInv, Outside \/ UNCHANGED vars
    PROVE  SubInv'
<1> SUFFICES ASSUME Clean' PROVE SubInv'
  BY DEF SubInv
<1>0. [Next]_vars
  BY DEF Next, Outside
<1>1. /\ Clean
      /\ \A s, t \in Threads : op[s] = "sub" /\ op[t] = "sub" => s = t
      /\ OneSub(uart, owed)
      /\ \A u : InFlight(uart, owed, u) => "SUB" \notin sg_flags /\ Waits(u)
      /\ \A t \in Threads : op[t] = "sub" => SubFlag(t)
  BY <1>0, CleanBefore DEF SubInv
<1>2. UNCHANGED <<op, ip, phase, id, result>>
  BY OutsideThreads DEF threadVars
<1>3. \A t \in Threads : op[t] = "sub" => during[t] \subseteq during'[t]
  BY <1>0, <1>2, DuringNext, AtSub
<1>4. "flags" \notin races'
  BY DEF Clean
<1>5. uart \in Seq(Lines) /\ owed \in SUBSET Lines
  BY DEF LineInv
<1>6. ASSUME OneSub(uart', owed'),
             \A u : InFlight(uart', owed', u) => InFlight(uart, owed, u),
             "SUB" \in sg_flags' => "SUB" \in sg_flags
      PROVE  SubInv'
  <2>1. \A t \in Threads : op[t] = "sub" => SubFlag(t)'
    BY <1>1, <1>2, <1>3, <1>6 DEF SubFlag, Heard
  <2>2. \A u : InFlight(uart', owed', u) => "SUB" \notin sg_flags' /\ Waits(u)'
    BY <1>1, <1>2, <1>6 DEF Waits
  <2> QED
    BY <1>1, <1>2, <1>6, <2>1, <2>2 DEF SubInv
<1>7. CASE ~UrcStore
  <2>1. sg_flags' = sg_flags
    <3>1. \A t \in Threads : ~clearFlag(t) \/ sg_flags' = sg_flags
      BY <1>7 DEF Outside, vars, flagVars, module_init, UrcRead, ParseLine, SendUrc, DropConnection, ForwardMessage
    <3> QED
      BY <1>0, <1>4, <1>7, <3>1, FlagMoves
  <2>2. CASE UNCHANGED <<uart, owed>>
    BY <1>1, <1>6, <2>1, <2>2
  <2>3. CASE module_init \/ UrcRead \/ UNCHANGED vars
    BY <2>2, <2>3 DEF module_init, UrcRead, vars, lineVars
  <2>4. CASE ParseLine
    <3>1. uart # <<>> /\ uart' = Tail(uart) /\ owed' = owed
      BY <2>4 DEF ParseLine
    <3>2. OneSub(Tail(uart), owed) /\ \A u : InFlight(Tail(uart), owed, u) => InFlight(uart, owed, u)
      BY <1>1, <1>5, <3>1, FlightTaken
    <3> QED
      BY <1>6, <2>1, <3>1, <3>2
  <2>5. CASE SendUrc
    <3>1. PICK e \in owed : owed' = owed \ {e} /\ uart' = Append(uart, e)
      BY <2>5 DEF SendUrc
    <3>2. /\ OneSub(Append(uart, e), owed \ {e})
          /\ \A u : InFlight(Append(uart, e), owed \ {e}, u) => InFlight(uart, owed, u)
      BY <1>1, <1>5, FlightSent
    <3> QED
      BY <1>6, <2>1, <3>1, <3>2
  <2>6. CASE DropConnection \/ ForwardMessage
    <3>1. PICK e \in Lines : e.kind # "SUB" /\ uart' = Append(uart, e)
      BY <2>6 DEF DropConnection, ForwardMessage, Urc, Lines, AllLines, FlagUrcs, Words, LineInv
    <3>2. owed' = owed
      BY <2>6 DEF DropConnection, ForwardMessage
    <3>3. OneSub(Append(uart, e), owed) /\ \A u : InFlight(Append(uart, e), owed, u) => InFlight(uart, owed, u)
      BY <1>1, <1>5, <3>1, FlightAdded
    <3> QED
      BY <1>6, <2>1, <3>1, <3>2, <3>3
  <2> QED
    BY <1>7, <2>3, <2>4, <2>5, <2>6 DEF Outside
<1>8. CASE UrcStore
  <2>1. /\ uart # <<>> /\ Head(uart).kind \in FlagUrcs /\ uart' = Tail(uart) /\ owed' = owed
        /\ during' = [t \in Threads |-> IF Head(uart).kind = "SUB" /\ Head(uart).who = id[t]
                                        THEN during[t] \cup {Verdict(Head(uart))} ELSE during[t]]
    BY <1>8 DEF UrcStore, ReadyInv
  <2>2. sg_flags' = AfterUrc(sg_flags, Head(uart))
    BY <1>4, <1>8 DEF UrcStore, Lossy
  <2>3. /\ OneSub(Tail(uart), owed) /\ \A u : InFlight(Tail(uart), owed, u) => InFlight(uart, owed, u)
        /\ Head(uart).kind = "SUB" => InFlight(uart, owed, Head(uart)) /\ \A u : ~InFlight(Tail(uart), owed, u)
    BY <1>1, <1>5, <2>1, FlightTaken
  <2>4. CASE Head(uart).kind # "SUB"
    <3>1. "SUB" \in sg_flags' => "SUB" \in sg_flags
      BY <2>1, <2>2, <2>4 DEF AfterUrc, FlagUrcs
    <3> QED
      BY <1>6, <2>1, <2>3, <3>1
  <2>5. CASE Head(uart).kind = "SUB"
    <3>1. Waits(Head(uart))
      BY <1>1, <2>3, <2>5
    <3>2. PICK t \in Threads : op[t] = "sub" /\ id[t] = Head(uart).who /\ (phase[t] = "sent" \/ ip[t] = 4)
      BY <3>1 DEF Waits
    <3>3. Heard(during'[t])
      BY <2>1, <2>5, <3>2 DEF Heard, Verdict
    <3>4. SubFlag(t)'
      BY <1>2, <3>2, <3>3 DEF SubFlag
    <3>5. \A s \in Threads : op[s] = "sub" => SubFlag(s)'
      BY <1>1, <3>2, <3>4
    <3> QED
      BY <1>1, <1>2, <2>1, <2>3, <2>5, <3>5 DEF SubInv
  <2> QED
    BY <2>4, <2>5
<1> QED
  BY <1>7, <1>8

\* A command that asks for a subscription adds the one verdict.
LEMMA FlightAsked ==
    ASSUME ThreadInv, LineInv, OneSub(uart, owed), NEW s \in Threads, ExecSend(s),
           op[s] = "sub" /\ phase[s] = "step" /\ ip[s] = 3 => \A u : ~InFlight(uart, owed, u)
    PROVE  /\ OneSub(uart', owed')
           /\ \A u : InFlight(uart', owed', u) =>
                 InFlight(uart, owed, u) \/ (op[s] = "sub" /\ ip[s] = 3 /\ phase[s] = "step" /\ u.who = id[s])
<1>0. uart \in Seq(Lines) /\ owed \in SUBSET Lines /\ Is(s, "step", "exec") /\ "none" \in Nets /\ phase[s] = "step"
  BY DEF LineInv, ExecSend, Nets, Is, At
<1>1. PICK V \in SUBSET Lines :
        /\ owed' = owed \/ owed' = owed \cup V
        /\ \A u \in V : u.kind = "SUB" => op[s] = "sub" /\ ip[s] = 3 /\ u.who = id[s]
        /\ \A u, v \in V : u = v
  <2>1. owed' = owed \/ \E good \in BOOLEAN : owed' = owed \cup UrcsAfter(Step(s).arg, s, good)
    BY DEF ExecSend
  <2>2. ASSUME NEW good \in BOOLEAN
        PROVE  /\ UrcsAfter(Step(s).arg, s, good) \in SUBSET Lines
               /\ \A u \in UrcsAfter(Step(s).arg, s, good) :
                     u.who = id[s] /\ (u.kind = "SUB" => op[s] = "sub" /\ ip[s] = 3)
    BY <1>0, ExecLines
  <2>3. \A good \in BOOLEAN : UrcsAfter(Step(s).arg, s, good) = {}
                             \/ \E w : UrcsAfter(Step(s).arg, s, good) = {w}
    BY Zenon DEF UrcsAfter
  <2>4. CASE owed' = owed
    <3>1. {} \in SUBSET Lines
      OBVIOUS
    <3> QED
      BY <2>4, <3>1
  <2>5. ASSUME NEW good \in BOOLEAN, owed' = owed \cup UrcsAfter(Step(s).arg, s, good)
        PROVE  \E V \in SUBSET Lines :
                  /\ owed' = owed \/ owed' = owed \cup V
                  /\ \A u \in V : u.kind = "SUB" => op[s] = "sub" /\ ip[s] = 3 /\ u.who = id[s]
                  /\ \A u, v \in V : u = v
    <3> DEFINE V == UrcsAfter(Step(s).arg, s, good)
    <3>1. \A u, v \in V : u = v
      BY <2>3
    <3>2. V \in SUBSET Lines /\ \A u \in V : u.kind = "SUB" => op[s] = "sub" /\ ip[s] = 3 /\ u.who = id[s]
      BY <2>2
    <3>3. owed' = owed \cup V
      BY <2>5
    <3> HIDE DEF V
    <3> QED
      BY <3>1, <3>2, <3>3
  <2> QED
    BY <2>1, <2>4, <2>5
<1>2. /\ owed' = owed \/ owed' = owed \cup V
      /\ \/ net' \in Nets /\ uart' = uart \o LinesBefore(Step(s).arg, s, net') \o <<Answer(s, "ok")>>
         \/ uart' = Append(uart, Answer(s, "error"))
         \/ uart' = uart
  BY <1>1 DEF ExecSend, Answer, Network, Nets, LineInv
<1>3. /\ Answer(s, "ok") \in Lines /\ Answer(s, "error") \in Lines
      /\ Answer(s, "ok").kind # "SUB" /\ Answer(s, "error").kind # "SUB"
  BY <1>0, ExecLines DEF Answer, Urc
<1>4. /\ uart' \in Seq(Lines) /\ OneSub(uart', owed)
      /\ \A u : InFlight(uart', owed, u) => InFlight(uart, owed, u)
  <2>1. CASE uart' = Append(uart, Answer(s, "ok")) \/ uart' = Append(uart, Answer(s, "error")) \/ uart' = uart
    <3>1. ASSUME NEW e \in Lines, e.kind # "SUB", uart' = Append(uart, e)
          PROVE  /\ uart' \in Seq(Lines) /\ OneSub(uart', owed)
                 /\ \A u : InFlight(uart', owed, u) => InFlight(uart, owed, u)
      BY <1>0, <3>1, FlightAdded, AppendLine
    <3>2. CASE uart' = uart
      BY <1>0, <3>2
    <3> QED
      BY <1>3, <2>1, <3>1, <3>2
  <2>2. CASE net' \in Nets /\ uart' = Append(Append(uart, Before(s, net')), Answer(s, "ok"))
    <3>1. Before(s, net') \in Lines /\ Before(s, net').kind # "SUB"
      BY <1>0, <2>2, ExecLines DEF Before, Urc
    <3>2. /\ Append(uart, Before(s, net')) \in Seq(Lines) /\ OneSub(Append(uart, Before(s, net')), owed)
          /\ \A u : InFlight(Append(uart, Before(s, net')), owed, u) => InFlight(uart, owed, u)
      BY <1>0, <3>1, FlightAdded, AppendLine
    <3> QED
      BY <1>0, <1>3, <2>2, <3>2, FlightAdded, AppendLine
  <2> QED
    BY <1>0, <1>2, <2>1, <2>2, ExecLines
<1>5. \A u : InFlight(uart', owed \cup V, u) => InFlight(uart, owed, u) \/ (u \in V /\ u.kind = "SUB")
  BY <1>4, Zenon DEF InFlight
<1>6. OneSub(uart', owed \cup V)
  <2>1. CASE \A u \in V : u.kind # "SUB"
    BY <1>4, <2>1, Zenon DEF OneSub
  <2>2. CASE \E u \in V : u.kind = "SUB"
    <3>1. \A u : ~InFlight(uart, owed, u)
      BY <1>0, <1>1, <2>2
    <3>2. \A u : ~InFlight(uart', owed, u)
      BY <1>4, <3>1
    <3>3. (\A u \in owed : u.kind # "SUB") /\ \A k \in 1 .. Len(uart') : uart'[k].kind # "SUB"
      BY <3>2, Zenon DEF InFlight
    <3> QED
      BY <1>1, <3>3, Zenon DEF OneSub
  <2> QED
    BY <2>1, <2>2
<1> QED
  BY <1>0, <1>1, <1>2, <1>4, <1>5, <1>6

LEMMA SubCall ==
    ASSUME ThreadInv, LineInv, DuringInv, SubInv, NEW s \in Threads, Call(s) \/ Return(s)
    PROVE  SubInv'
<1> SUFFICES ASSUME Clean' PROVE SubInv'
  BY DEF SubInv
<1>0. [Next]_vars /\ Own(s)
  BY OwnStep DEF Next, ThreadSteps, ThreadInv
<1>1. /\ Clean
      /\ \A r, t \in Threads : op[r] = "sub" /\ op[t] = "sub" => r = t
      /\ OneSub(uart, owed)
      /\ \A u : InFlight(uart, owed, u) => "SUB" \notin sg_flags /\ Waits(u)
      /\ \A t \in Threads : op[t] = "sub" => SubFlag(t)
  BY <1>0, CleanBefore DEF SubInv
<1>2. UNCHANGED <<sg_flags, uart, owed>>
  BY DEF Call, Return, flagVars, lineVars
<1>3. \A t \in Threads \ {s} : /\ op'[t] = op[t] /\ ip'[t] = ip[t] /\ phase'[t] = phase[t] /\ id'[t] = id[t]
                               /\ result'[t] = result[t]
  BY <1>0 DEF Own, ThreadInv, ThreadTypes, PhaseInv
<1>4. \A t \in Threads \ {s} : op[t] = "sub" => during[t] \subseteq during'[t]
  BY <1>0, <1>3, DuringNext, AtSub
<1>5. \A t \in Threads \ {s} : op[t] = "sub" => SubFlag(t)'
  BY <1>1, <1>2, <1>3, <1>4 DEF SubFlag, Heard
<1>6. ASSUME NEW u, InFlight(uart, owed, u)
      PROVE  \E t \in Threads \ {s} : op[t] = "sub" /\ id[t] = u.who /\ (phase[t] = "sent" \/ ip[t] = 4)
  <2>1. PICK t \in Threads : op[t] = "sub" /\ id[t] = u.who /\ (phase[t] = "sent" \/ ip[t] = 4)
    BY <1>1, <1>6 DEF Waits
  <2>2. CASE Call(s)
    <3>1. op[s] = "none"
      BY <2>2 DEF Call, ThreadInv, Placed
    <3> QED
      BY <2>1, <3>1
  <2>3. CASE Return(s)
    <3>1. phase[s] = "step" /\ (op[s] = "sub" => ip[s] > 5)
      BY <2>3, AtSub DEF Return, Ended
    <3> QED
      BY <2>1, <3>1
  <2> QED
    BY <2>1, <2>2, <2>3
<1>7. \A u : InFlight(uart', owed', u) => "SUB" \notin sg_flags' /\ Waits(u)'
  BY <1>1, <1>2, <1>3, <1>6 DEF Waits
<1>8. CASE op'[s] # "sub"
  <2>1. \A r, t \in Threads : op'[r] = "sub" /\ op'[t] = "sub" => r = t
    BY <1>1, <1>3, <1>8
  <2>2. \A t \in Threads : op'[t] = "sub" => SubFlag(t)'
    BY <1>3, <1>5, <1>8
  <2> QED
    BY <1>1, <1>2, <1>7, <2>1, <2>2 DEF SubInv
<1>9. CASE op'[s] = "sub"
  <2>1. Call(s)
    <3>1. Return(s) => op'[s] = "none"
      BY DEF Return, ThreadInv, ThreadTypes
    <3> QED
      BY <1>9, <3>1
  <2>2. PICK o : /\ op' = [op EXCEPT ![s] = o]
                 /\ races' = IF o = "sub" /\ \E r \in Threads : Subscribing(r)
                             THEN races \cup {"sub"} ELSE races
    BY <2>1 DEF Call
  <2>3. \A r \in Threads : op[r] # "sub"
    <3>1. o = "sub"
      BY <1>9, <2>2 DEF ThreadInv, ThreadTypes
    <3>2. \A r \in Threads : ~Subscribing(r)
      BY <2>2, <3>1 DEF Clean
    <3> QED
      BY <3>2, AtSub DEF Subscribing
  <2>4. phase'[s] = "step" /\ ip'[s] = 1
    BY <2>1 DEF Call, Advance, ThreadInv, ThreadTypes, PhaseInv
  <2>5. SubFlag(s)'
    BY <2>4 DEF SubFlag
  <2>6. \A r, t \in Threads : op'[r] = "sub" /\ op'[t] = "sub" => r = t
    BY <1>3, <2>3
  <2>7. \A t \in Threads : op'[t] = "sub" => SubFlag(t)'
    BY <1>3, <1>5, <2>5
  <2> QED
    BY <1>1, <1>2, <1>7, <2>6, <2>7 DEF SubInv
<1> QED
  BY <1>8, <1>9

LEMMA SubThread ==
    ASSUME ThreadInv, LineInv, DuringInv, SubInv, NEW s \in Threads, ThreadSteps(s), ~Return(s)
    PROVE  SubInv'
<1> SUFFICES ASSUME Clean' PROVE SubInv'
  BY DEF SubInv
<1>0. [Next]_vars /\ Own(s) /\ GoesOn(s)
  BY OwnStep, CallGoesOn DEF Next, ThreadSteps, ThreadInv
<1>1. /\ Clean
      /\ \A r, t \in Threads : op[r] = "sub" /\ op[t] = "sub" => r = t
      /\ OneSub(uart, owed)
      /\ \A u : InFlight(uart, owed, u) => "SUB" \notin sg_flags /\ Waits(u)
      /\ \A t \in Threads : op[t] = "sub" => SubFlag(t)
  BY <1>0, CleanBefore DEF SubInv
<1>2. \A t \in Threads \ {s} : /\ op'[t] = op[t] /\ ip'[t] = ip[t] /\ phase'[t] = phase[t] /\ id'[t] = id[t]
                               /\ result'[t] = result[t]
  BY <1>0 DEF Own, ThreadInv, ThreadTypes, PhaseInv
<1>3. op'[s] = op[s] /\ id'[s] = id[s] /\ phase[s] # "idle" /\ phase'[s] # "idle"
  BY <1>0 DEF GoesOn
<1>4. \A t \in Threads : op[t] = "sub" => during[t] \subseteq during'[t]
  BY <1>0, <1>2, <1>3, DuringNext, AtSub
<1>5. "SUB" \in sg_flags' => "SUB" \in sg_flags
  BY ThreadLeaves DEF clearFlag, Lossy, Clean
<1>6. \A t \in Threads \ {s} : op[t] = "sub" => SubFlag(t)'
  BY <1>1, <1>2, <1>4, <1>5 DEF SubFlag, Heard
<1>7. op[s] = "sub" => SubFlag(s)'
  <2> SUFFICES ASSUME op[s] = "sub" PROVE SubFlag(s)'
    OBVIOUS
  <2>0. ip[s] \in 1 .. 5 /\ during[s] \subseteq during'[s] /\ SubFlag(s)
    BY <1>1, <1>4, SubMoves
  <2>1. CASE ip[s] = 1
    <3>1. ip'[s] \in {1, 2} \/ (ip'[s] = 6 /\ result'[s] = "FAILURE")
      BY <2>1, SubMoves
    <3> QED
      BY <3>1 DEF SubFlag
  <2>2. CASE ip[s] = 2
    <3>1. (ClearRead(s) /\ ip'[s] = 2 /\ phase'[s] = "rmw") \/ (clearFlag(s) /\ ip'[s] = 3)
      BY <2>2, SubMoves
    <3>2. Step(s).arg = "SUB"
      BY <2>2, AtSub
    <3>3. clearFlag(s) => "SUB" \notin sg_flags'
      BY <3>2 DEF clearFlag
    <3> QED
      BY <3>1, <3>3 DEF SubFlag
  <2>3. CASE ip[s] = 3
    <3>1. \/ ExecSend(s) /\ phase[s] = "step" /\ ip'[s] = 3 /\ phase'[s] = "sent"
          \/ ExecDone(s) /\ phase[s] = "sent" /\ ip'[s] = 4
      BY <2>3, SubMoves
    <3> QED
      BY <1>5, <2>0, <2>3, <3>1 DEF SubFlag, Heard
  <2>4. CASE ip[s] = 4
    <3>1. "SUB" \in sg_flags /\ ip'[s] = 5
      BY <2>4, SubMoves DEF Clean
    <3> QED
      BY <2>0, <2>4, <3>1 DEF SubFlag, Heard
  <2>5. CASE ip[s] = 5
    <3>1. ip'[s] \in {5, 6} /\ result' = result
      BY <2>5, SubMoves
    <3> QED
      BY <2>0, <2>5, <3>1 DEF SubFlag, Heard
  <2> QED
    BY <2>0, <2>1, <2>2, <2>3, <2>4, <2>5
<1>8. ASSUME NEW u, InFlight(uart, owed, u)
      PROVE  Waits(u)'
  <2>1. PICK t \in Threads : op[t] = "sub" /\ id[t] = u.who /\ (phase[t] = "sent" \/ ip[t] = 4)
    BY <1>1, <1>8 DEF Waits
  <2>2. CASE t # s
    BY <1>2, <2>1, <2>2 DEF Waits
  <2>3. CASE t = s
    <3>1. ip[s] \in 1 .. 5 /\ phase[s] = "sent" => Step(s).do = "exec"
      BY DEF ThreadInv, Placed, Is
    <3>2. ip[s] \in {3, 4}
      BY <2>1, <2>3, <3>1, AtSub, SubMoves
    <3>3. ip[s] # 4
      BY <1>1, <1>8, <2>1, <2>3, SubMoves DEF Clean
    <3>4. ip'[s] = 4
      BY <2>1, <2>3, <3>2, <3>3, SubMoves
    <3> QED
      BY <1>3, <2>1, <2>3, <3>4 DEF Waits
  <2> QED
    BY <2>2, <2>3
<1>9. /\ OneSub(uart', owed')
      /\ \A u : InFlight(uart', owed', u) => "SUB" \notin sg_flags' /\ Waits(u)'
  <2>1. CASE ExecSend(s)
    <3>1. op[s] = "sub" /\ phase[s] = "step" /\ ip[s] = 3 => \A u : ~InFlight(uart, owed, u)
      BY <1>1 DEF Waits
    <3>2. /\ OneSub(uart', owed')
          /\ \A u : InFlight(uart', owed', u) =>
                InFlight(uart, owed, u) \/ (op[s] = "sub" /\ ip[s] = 3 /\ phase[s] = "step" /\ u.who = id[s])
      BY <1>1, <2>1, <3>1, FlightAsked
    <3>3. op[s] = "sub" /\ ip[s] = 3 /\ phase[s] = "step" => "SUB" \notin sg_flags
      BY <1>1 DEF SubFlag
    <3>4. phase'[s] = "sent"
      BY <2>1 DEF ExecSend, ThreadInv, ThreadTypes, PhaseInv
    <3>5. \A u : op[s] = "sub" /\ u.who = id[s] => Waits(u)'
      BY <1>3, <3>4 DEF Waits
    <3> QED
      BY <1>1, <1>5, <1>8, <3>2, <3>3, <3>5
  <2>2. CASE ~ExecSend(s)
    <3>1. UNCHANGED <<uart, owed>>
      <4>1. CASE ExecDone(s) \/ SendPayload(s)
        BY <4>1 DEF ExecDone, SendPayload, lineVars
      <4> QED
        BY <2>2, <4>1, QuietStep
    <3> QED
      BY <1>1, <1>5, <1>8, <3>1
  <2> QED
    BY <2>1, <2>2
<1>10. \A r, t \in Threads : op'[r] = "sub" /\ op'[t] = "sub" => r = t
  BY <1>1, <1>2, <1>3
<1>11. \A t \in Threads : op'[t] = "sub" => SubFlag(t)'
  BY <1>2, <1>3, <1>6, <1>7
<1> QED
  BY <1>9, <1>10, <1>11 DEF SubInv

\* The invariants of the threads and the line, and what happened during a call.
CoreInv == ThreadInv /\ LineInv /\ ReadyInv /\ DuringInv

LEMMA CoreInit == Init => CoreInv
<1>1. Init => DuringInv
  BY DEF Init, DuringInv
<1> QED
  BY <1>1, ThreadInit, LineInit DEF CoreInv

LEMMA CoreNext == CoreInv /\ [Next]_vars => CoreInv'
BY ThreadNext, LineNext, ReadyNext, DuringNext DEF CoreInv

\* module_mqtt_sub reports success only for a subscription on which the module
\* has given its verdict, granted or refused, for any number of threads and
\* calls, up to the excuses of SubAnswered.
THEOREM SubscriptionAnswered == Spec => []SubAnswered
<1>1. Init => CoreInv /\ SubInv
  <2>1. Init => SubInv
    <3> SUFFICES ASSUME Init PROVE SubInv
      OBVIOUS
    <3>1. /\ uart = <<>> /\ owed = {} /\ \A t \in Threads : op[t] = "none"
      BY DEF Init
    <3> QED
      BY <3>1 DEF SubInv, OneSub, InFlight
  <2> QED
    BY <2>1, CoreInit
<1>2. CoreInv /\ SubInv /\ [Next]_vars => (CoreInv /\ SubInv)'
  BY CoreNext, StepKinds, SubOutside, SubCall, SubThread DEF CoreInv, ThreadSteps
<1>3. CoreInv /\ SubInv => SubAnswered
  <2> SUFFICES ASSUME ThreadInv, SubInv, NEW t \in Threads, Ended(t), op[t] = "sub", result[t] = "SUCCESS",
                      {"sub", "flags"} \cap races = {}, ~gaveup
               PROVE  Heard(during[t])
    BY DEF SubAnswered, CoreInv, Heard
  <2>1. Clean
    BY DEF Clean
  <2>2. ip[t] = 6
    BY AtSub
  <2>3. SubFlag(t)
    BY <2>1 DEF SubInv
  <2> QED
    BY <2>2, <2>3 DEF SubFlag
<1> QED
  BY <1>1, <1>2, <1>3, PTL DEF Spec

-----------------------------------------------------------------------------
(* What IOT_MQTT_IsConnected answers.                                      *)

Fact(w) == IF w = "1" THEN "up" ELSE "down"
Shown == IF "STATE" \in sg_flags THEN "up" ELSE "down"

\* Reports of the connection that were true during a call that witnessed D, or not.
Good(u, D) == u.kind = "STATE" /\ Fact(u.what) \in D
Bad(u, D) == u.kind = "STATE" /\ Fact(u.what) \notin D

\* Once the lines before k are handled, the flag says something that was true
\* during the call, whatever it is now.
Fresh(s, f, D, k) ==
    /\ \A j \in 1 .. Len(s) : Bad(s[j], D) => \E i \in 1 .. Len(s) : j < i /\ i < k /\ Good(s[i], D)
    /\ f \notin D => \E i \in 1 .. Len(s) : i < k /\ Good(s[i], D)

AllGood(s, f, D) == f \in D /\ \A j \in 1 .. Len(s) : ~Bad(s[j], D)

AnswerAt(s, k, n) == s[k].kind = "ANSWER" /\ s[k].who = n

\* What IOT_MQTT_IsConnected returns, and what happened during its call.
Said(r, D) == IF r = "TRUE" THEN "up" \in D ELSE {"down", "failed"} \cap D # {}

LEMMA SaidMore ==
    ASSUME NEW r, NEW D, NEW E, D \subseteq E, Said(r, D)
    PROVE  Said(r, E)
BY DEF Said

StateOf(t) ==
    /\ phase[t] = "sent" =>
          /\ \A k \in 1 .. Len(uart) : AnswerAt(uart, k, id[t]) /\ uart[k].what = "ok"
                                       => Fresh(uart, Shown, during[t], k)
          /\ answer = "ok" => AllGood(uart, Shown, during[t])
    /\ phase[t] = "step" /\ ip[t] = 1 => ~AnswerIn(uart, id[t], Verdicts)
    /\ ip[t] = 2 => AllGood(uart, Shown, during[t])
    /\ ip[t] = 3 => Said(result[t], during[t])

\* The module reports its connection before it answers, and every later report is
\* of a moment of the call.
StateInv == "flags" \notin races => \A t \in Threads : op[t] = "is_connected" => StateOf(t)

LEMMA FreshMore ==
    ASSUME NEW s, NEW f, NEW D, NEW E, D \subseteq E
    PROVE  /\ \A k : Fresh(s, f, D, k) => Fresh(s, f, E, k)
           /\ AllGood(s, f, D) => AllGood(s, f, E)
<1>1. \A u : (Bad(u, E) => Bad(u, D)) /\ (Good(u, D) => Good(u, E))
  BY DEF Good, Bad
<1> QED
  BY <1>1 DEF Fresh, AllGood

LEMMA FreshAdded ==
    ASSUME NEW s \in Seq(Lines), NEW e \in Lines, NEW f, NEW D, ~Bad(e, D)
    PROVE  /\ \A k \in 1 .. Len(s) : Fresh(s, f, D, k) => Fresh(Append(s, e), f, D, k)
           /\ AllGood(s, f, D) => AllGood(Append(s, e), f, D)
           /\ Good(e, D) => Fresh(Append(s, e), f, D, Len(s) + 2)
<1>1. /\ Len(Append(s, e)) = Len(s) + 1 /\ Len(s) \in Nat
      /\ \A k \in 1 .. Len(s) : Append(s, e)[k] = s[k]
      /\ Append(s, e)[Len(s) + 1] = e
  BY AppendLine
<1>2. \A k \in 1 .. Len(s) + 1 : k \in 1 .. Len(s) \/ k = Len(s) + 1
  BY <1>1
<1>3. \A k \in 1 .. Len(s) : k \in 1 .. Len(s) + 1 /\ k < Len(s) + 1 /\ k < Len(s) + 2
  BY <1>1
<1>4. Len(s) + 1 \in 1 .. Len(s) + 1 /\ Len(s) + 1 < Len(s) + 2
  BY <1>1
<1>5. ASSUME NEW k \in 1 .. Len(s), Fresh(s, f, D, k) PROVE Fresh(Append(s, e), f, D, k)
  BY <1>1, <1>2, <1>3, <1>5, Zenon DEF Fresh
<1>6. AllGood(s, f, D) => AllGood(Append(s, e), f, D)
  BY <1>1, <1>2, Zenon DEF AllGood
<1>7. ASSUME Good(e, D) PROVE Fresh(Append(s, e), f, D, Len(s) + 2)
  BY <1>1, <1>2, <1>3, <1>4, <1>7, Zenon DEF Fresh
<1> QED
  BY <1>5, <1>6, <1>7

\* The flag after the first line.
Next1(s, f) == IF Head(s).kind = "STATE" THEN Fact(Head(s).what) ELSE f

LEMMA FreshTaken ==
    ASSUME NEW s \in Seq(Lines), s # <<>>, NEW f, NEW D
    PROVE  /\ \A k \in 1 .. Len(s) - 1 : Fresh(s, f, D, k + 1) => Fresh(Tail(s), Next1(s, f), D, k)
           /\ AllGood(s, f, D) => AllGood(Tail(s), Next1(s, f), D)
           /\ Fresh(s, f, D, 1) => AllGood(s, f, D)
<1>1. /\ Len(Tail(s)) = Len(s) - 1 /\ Len(s) \in Nat \ {0} /\ Head(s) = s[1]
      /\ \A k \in 1 .. Len(s) - 1 : Tail(s)[k] = s[k + 1]
  BY TailLine
<1>2. 1 \in 1 .. Len(s) /\ \A k \in 1 .. Len(s) - 1 : k + 1 \in 1 .. Len(s)
  BY <1>1
<1>3. ASSUME NEW k \in 1 .. Len(s) - 1, Fresh(s, f, D, k + 1)
      PROVE  Fresh(Tail(s), Next1(s, f), D, k)
  <2>0. ASSUME NEW i \in 1 .. Len(s), i > 1, i < k + 1, Good(s[i], D)
        PROVE  i - 1 \in 1 .. Len(s) - 1 /\ i - 1 < k /\ Good(Tail(s)[i - 1], D)
    <3>1. i - 1 \in 1 .. Len(s) - 1 /\ i - 1 < k /\ (i - 1) + 1 = i
      BY <1>1, <2>0
    <3>2. Tail(s)[i - 1] = s[(i - 1) + 1]
      BY <1>1, <3>1, Zenon
    <3> QED
      BY <2>0, <3>1, <3>2
  <2>1. ASSUME NEW j \in 1 .. Len(s) - 1, Bad(Tail(s)[j], D)
        PROVE  \E i \in 1 .. Len(s) - 1 : j < i /\ i < k /\ Good(Tail(s)[i], D)
    <3>1. Bad(s[j + 1], D) /\ j + 1 \in 1 .. Len(s)
      BY <1>1, <1>2, <2>1, Zenon
    <3>2. PICK i \in 1 .. Len(s) : j + 1 < i /\ i < k + 1 /\ Good(s[i], D)
      BY <1>3, <3>1, Zenon DEF Fresh
    <3>3. i > 1 /\ j < i - 1
      BY <1>1, <3>2
    <3> QED
      BY <2>0, <3>2, <3>3
  <2>2. ASSUME Next1(s, f) \notin D
        PROVE  \E i \in 1 .. Len(s) - 1 : i < k /\ Good(Tail(s)[i], D)
    <3>1. PICK i \in 1 .. Len(s) : i > 1 /\ i < k + 1 /\ Good(s[i], D)
      <4>1. CASE Head(s).kind = "STATE"
        <5>1. Bad(s[1], D)
          BY <1>1, <2>2, <4>1 DEF Next1, Bad
        <5>2. PICK i \in 1 .. Len(s) : 1 < i /\ i < k + 1 /\ Good(s[i], D)
          BY <1>2, <1>3, <5>1, Zenon DEF Fresh
        <5> QED
          BY <5>2
      <4>2. CASE Head(s).kind # "STATE"
        <5>1. f \notin D
          BY <2>2, <4>2 DEF Next1
        <5>2. PICK i \in 1 .. Len(s) : i < k + 1 /\ Good(s[i], D)
          BY <1>3, <5>1, Zenon DEF Fresh
        <5>3. i # 1
          BY <1>1, <4>2, <5>2 DEF Good
        <5> QED
          BY <5>2, <5>3
      <4> QED
        BY <4>1, <4>2
    <3> QED
      BY <2>0, <3>1
  <2> QED
    BY <1>1, <2>1, <2>2 DEF Fresh
<1>4. AllGood(s, f, D) => AllGood(Tail(s), Next1(s, f), D)
  <2>1. AllGood(s, f, D) => Next1(s, f) \in D
    BY <1>1, <1>2 DEF AllGood, Next1, Bad
  <2> QED
    BY <1>1, <1>2, <2>1, Zenon DEF AllGood
<1>5. ASSUME Fresh(s, f, D, 1) PROVE AllGood(s, f, D)
  <2>1. \A i \in 1 .. Len(s) : ~(i < 1)
    BY <1>1
  <2> QED
    BY <1>5, <2>1, Zenon DEF Fresh, AllGood
<1> QED
  BY <1>3, <1>4, <1>5

\* The flag STATE is changed by the reports alone.
LEMMA ShownMoves ==
    ASSUME ThreadInv, LineInv, ReadyInv, [Next]_vars, "flags" \notin races'
    PROVE  /\ UrcStore => Shown' = Next1(uart, Shown)
           /\ ~UrcStore => Shown' = Shown
<1>1. CASE UrcStore
  <2>1. sg_flags' = AfterUrc(sg_flags, Head(uart))
    BY <1>1 DEF UrcStore, Lossy
  <2>2. Head(uart).kind \in FlagUrcs
    BY <1>1 DEF UrcStore, ReadyInv
  <2>3. CASE Head(uart).kind = "STATE"
    <3>1. sg_flags' = IF Head(uart).what = "1" THEN sg_flags \cup {"STATE"} ELSE sg_flags \ {"STATE"}
      BY <2>1, <2>3 DEF AfterUrc
    <3> QED
      BY <1>1, <2>3, <3>1 DEF Shown, Next1, Fact
  <2>4. CASE Head(uart).kind # "STATE"
    <3>1. "STATE" \in sg_flags' <=> "STATE" \in sg_flags
      BY <2>1, <2>2, <2>4 DEF AfterUrc, FlagUrcs
    <3> QED
      BY <1>1, <2>4, <3>1 DEF Shown, Next1
  <2> QED
    BY <2>3, <2>4
<1>2. ASSUME NEW t \in Threads, clearFlag(t) PROVE Shown' = Shown
  <2>1. sg_flags' = sg_flags \ {Step(t).arg}
    BY <1>2 DEF clearFlag, Lossy
  <2>2. Step(t).arg # "STATE"
    BY <1>2, AtStep DEF clearFlag, Is
  <2> QED
    BY <2>1, <2>2 DEF Shown
<1>3. sg_flags' = sg_flags => Shown' = Shown
  BY DEF Shown
<1> QED
  BY <1>1, <1>2, <1>3, FlagMoves

LEMMA StateScript ==
    ASSUME NEW m
    PROVE  /\ Len(Script(m, "is_connected")) = 2
           /\ Script(m, "is_connected")[1] = Exec("STATE", "exit")
           /\ Script(m, "is_connected")[2] = Do("state")
BY DEF Script, IOT_MQTT_IsConnected

LEMMA AtState ==
    ASSUME ThreadInv, NEW t \in Threads, op[t] = "is_connected"
    PROVE  /\ phase[t] # "idle" /\ ip[t] \in 1 .. 3
           /\ ip[t] = 1 => Step(t).do = "exec" /\ Step(t).arg = "STATE" /\ Step(t).fail = "exit"
           /\ ip[t] = 2 => Step(t).do = "state"
           /\ \A p : At(t, p) => ip[t] <= 2
           /\ Ended(t) => ip[t] > 2
           /\ Fail(t) /\ ip[t] = 1 => ip'[t] = 3 /\ result'[t] = "FALSE"
           /\ Succeed(t) /\ ip[t] = 1 => ip'[t] = 2
           /\ phase[t] = "sent" => ip[t] = 1
<1> DEFINE s == Script(module_type, op[t])
<1>1. Len(s) = 2 /\ s[1] = Exec("STATE", "exit") /\ s[2] = Do("state")
  BY StateScript
<1>2. Step(t) = s[ip[t]]
  BY DEF Step
<1>3. phase[t] # "idle" /\ ip[t] \in 1 .. Len(s) + 1
  BY DEF ThreadInv, Placed
<1> HIDE DEF s
<1>4. ip[t] \in 1 .. 3
  BY <1>1, <1>3
<1>5. ip[t] = 1 => Step(t).do = "exec" /\ Step(t).arg = "STATE" /\ Step(t).fail = "exit"
  BY <1>1, <1>2 DEF Exec
<1>6. ip[t] = 2 => Step(t).do = "state"
  BY <1>1, <1>2 DEF Do
<1>7. 2 \in Nat /\ Len(Script(module_type, op[t])) = 2
  BY <1>1 DEF s
<1>8. /\ \A p : At(t, p) => ip[t] <= 2
      /\ Ended(t) => ip[t] > 2
      /\ Fail(t) /\ Step(t).fail = "exit" => ip'[t] = 2 + 1 /\ result'[t] = "FALSE"
      /\ Succeed(t) /\ Step(t).fail # "else" => ip'[t] = ip[t] + 1
  <2>1. Failure(t) = "FALSE"
    BY DEF Failure
  <2> QED
    BY <1>7, <2>1, ByLength, Zenon
<1>9. phase[t] = "sent" => ip[t] = 1
  <2>1. phase[t] = "sent" => Is(t, "sent", "exec")
    BY DEF ThreadInv, Placed
  <2>2. phase[t] = "sent" => Step(t).do = "exec" /\ ip[t] <= 2
    BY <1>8, <2>1, Zenon DEF Is
  <2> QED
    BY <1>4, <1>6, <2>2
<1> QED
  BY <1>3, <1>4, <1>5, <1>6, <1>8, <1>9

LEMMA StateOutside ==
    ASSUME CoreInv, StateInv, Outside \/ UNCHANGED vars
    PROVE  StateInv'
<1> USE DEF CoreInv
<1>0. [Next]_vars /\ uart \in Seq(Lines) /\ owed \in SUBSET Lines
  BY DEF Next, Outside, LineInv
<1>1. UNCHANGED <<op, ip, phase, id, result>>
  BY OutsideThreads DEF threadVars
<1> SUFFICES ASSUME "flags" \notin races', NEW t \in Threads, op[t] = "is_connected"
             PROVE  StateOf(t)'
  BY <1>1 DEF StateInv
<1>2. StateOf(t) /\ during[t] \subseteq during'[t] /\ phase[t] # "idle"
  BY <1>0, <1>1, AtState, RacesGrow, DuringNext DEF StateInv
<1>3. ASSUME AllGood(uart, Shown, during[t]) => AllGood(uart', Shown', during[t]),
             phase[t] = "sent" => \A k \in 1 .. Len(uart') :
                AnswerAt(uart', k, id[t]) /\ uart'[k].what = "ok" => Fresh(uart', Shown', during[t], k),
             phase[t] = "sent" /\ answer' = "ok" => AllGood(uart', Shown', during[t]),
             AnswerIn(uart', id[t], Verdicts) => AnswerIn(uart, id[t], Verdicts)
      PROVE  StateOf(t)'
  <2>1. \A k : Fresh(uart', Shown', during[t], k) => Fresh(uart', Shown', during'[t], k)
    BY <1>2, FreshMore
  <2>2. AllGood(uart', Shown', during[t]) => AllGood(uart', Shown', during'[t])
    BY <1>2, FreshMore
  <2>3. phase'[t] = "sent" =>
          /\ \A k \in 1 .. Len(uart') : AnswerAt(uart', k, id'[t]) /\ uart'[k].what = "ok"
                                       => Fresh(uart', Shown', during'[t], k)
          /\ answer' = "ok" => AllGood(uart', Shown', during'[t])
    BY <1>1, <1>3, <2>1, <2>2
  <2>4. /\ phase'[t] = "step" /\ ip'[t] = 1 => ~AnswerIn(uart', id'[t], Verdicts)
        /\ ip'[t] = 2 => AllGood(uart', Shown', during'[t])
        /\ ip'[t] = 3 => Said(result'[t], during'[t])
    BY <1>1, <1>2, <1>3, <2>2, SaidMore DEF StateOf
  <2> QED
    BY <2>3, <2>4 DEF StateOf, AnswerAt, AnswerIn, Fresh, AllGood
<1>4. CASE UrcStore \/ ParseLine
  <2>1. uart # <<>> /\ uart' = Tail(uart)
    BY <1>4 DEF UrcStore, ParseLine, ReadyInv
  <2>2. Shown' = Next1(uart, Shown)
    <3>1. CASE UrcStore
      BY <1>0, <3>1, ShownMoves
    <3>2. CASE ~UrcStore
      <4>1. Head(uart).kind # "STATE"
        BY <1>4, <3>2 DEF ParseLine, FlagUrcs
      <4> QED
        BY <1>0, <3>2, <4>1, ShownMoves DEF Next1
    <3> QED
      BY <3>1, <3>2
  <2>3. /\ Len(Tail(uart)) = Len(uart) - 1 /\ Len(uart) \in Nat \ {0} /\ Head(uart) = uart[1]
        /\ \A k \in 1 .. Len(uart) - 1 : Tail(uart)[k] = uart[k + 1] /\ k + 1 \in 1 .. Len(uart)
    BY <1>0, <2>1, TailLine
  <2>4. /\ \A k \in 1 .. Len(uart) - 1 :
              Fresh(uart, Shown, during[t], k + 1) => Fresh(Tail(uart), Next1(uart, Shown), during[t], k)
        /\ AllGood(uart, Shown, during[t]) => AllGood(Tail(uart), Next1(uart, Shown), during[t])
        /\ Fresh(uart, Shown, during[t], 1) => AllGood(uart, Shown, during[t])
    BY <1>0, <2>1, FreshTaken
  <2>5. AnswerIn(uart', id[t], Verdicts) => AnswerIn(uart, id[t], Verdicts)
    BY <1>0, <2>1, AnswerTaken
  <2>6. ASSUME phase[t] = "sent", NEW k \in 1 .. Len(uart'),
               AnswerAt(uart', k, id[t]), uart'[k].what = "ok"
        PROVE  Fresh(uart', Shown', during[t], k)
    <3>1. k \in 1 .. Len(uart) - 1 /\ uart'[k] = uart[k + 1] /\ k + 1 \in 1 .. Len(uart)
      BY <2>1, <2>3, <2>6
    <3>2. Fresh(uart, Shown, during[t], k + 1)
      BY <1>2, <2>6, <3>1 DEF StateOf, AnswerAt
    <3> QED
      BY <2>1, <2>2, <2>4, <3>1, <3>2
  <2>7. ASSUME phase[t] = "sent", answer' = "ok" PROVE AllGood(uart', Shown', during[t])
    <3>1. answer = "ok" \/ (Head(uart).kind = "ANSWER" /\ busy # None /\ Head(uart).who = id[busy] /\ Head(uart).what = "ok")
      BY <1>4, <2>7 DEF UrcStore, ParseLine
    <3>2. busy = t
      BY <2>7 DEF ThreadInv
    <3>3. answer = "ok" \/ (AnswerAt(uart, 1, id[t]) /\ uart[1].what = "ok" /\ 1 \in 1 .. Len(uart))
      BY <2>3, <3>1, <3>2 DEF AnswerAt
    <3>4. AllGood(uart, Shown, during[t])
      BY <1>2, <2>4, <2>7, <3>3 DEF StateOf
    <3> QED
      BY <2>1, <2>2, <2>4, <3>4
  <2> QED
    BY <1>3, <2>1, <2>2, <2>4, <2>5, <2>6, <2>7
<1>5. CASE SendUrc \/ DropConnection \/ ForwardMessage
  <2>1. PICK e \in Lines : e.kind \notin {"STATE", "ANSWER"} /\ uart' = Append(uart, e)
    <3>1. CASE SendUrc
      BY <1>0, <3>1 DEF SendUrc, LineInv
    <3>2. CASE DropConnection \/ ForwardMessage
      BY <3>2 DEF DropConnection, ForwardMessage, Urc, Lines, AllLines, FlagUrcs, Words, LineInv
    <3> QED
      BY <1>5, <3>1, <3>2
  <2>2. answer' = answer /\ sg_flags' = sg_flags
    BY <1>5 DEF SendUrc, DropConnection, ForwardMessage, flagVars
  <2>3. Shown' = Shown
    BY <2>2 DEF Shown
  <2>4. /\ Len(Append(uart, e)) = Len(uart) + 1 /\ Len(uart) \in Nat
        /\ \A k \in 1 .. Len(uart) : Append(uart, e)[k] = uart[k]
        /\ Append(uart, e)[Len(uart) + 1] = e
    BY <1>0, AppendLine
  <2>5. ~Bad(e, during[t])
    BY <2>1 DEF Bad
  <2>6. /\ \A k \in 1 .. Len(uart) :
              Fresh(uart, Shown, during[t], k) => Fresh(Append(uart, e), Shown, during[t], k)
        /\ AllGood(uart, Shown, during[t]) => AllGood(Append(uart, e), Shown, during[t])
    BY <1>0, <2>5, FreshAdded
  <2>7. AnswerIn(uart', id[t], Verdicts) => AnswerIn(uart, id[t], Verdicts)
    BY <1>0, <2>1, AnswerAdded
  <2>8. ASSUME phase[t] = "sent", NEW k \in 1 .. Len(uart'),
               AnswerAt(uart', k, id[t]), uart'[k].what = "ok"
        PROVE  Fresh(uart', Shown', during[t], k)
    <3>1. k \in 1 .. Len(uart) \/ k = Len(uart) + 1
      BY <2>1, <2>4
    <3>2. k # Len(uart) + 1
      BY <2>1, <2>4, <2>8 DEF AnswerAt
    <3>3. Fresh(uart, Shown, during[t], k)
      BY <1>2, <2>1, <2>4, <2>8, <3>1, <3>2 DEF StateOf, AnswerAt
    <3> QED
      BY <2>1, <2>3, <2>6, <3>1, <3>2, <3>3
  <2>9. phase[t] = "sent" /\ answer' = "ok" => AllGood(uart, Shown, during[t])
    BY <1>2, <2>2 DEF StateOf
  <2> QED
    BY <1>3, <2>1, <2>3, <2>6, <2>7, <2>8, <2>9
<1>6. CASE module_init \/ UrcRead \/ UNCHANGED vars
  <2>1. UNCHANGED <<uart, answer, sg_flags>>
    BY <1>6 DEF module_init, UrcRead, vars, lineVars, flagVars
  <2>2. Shown' = Shown
    BY <2>1 DEF Shown
  <2> QED
    BY <1>2, <1>3, <2>1, <2>2 DEF StateOf
<1> QED
  BY <1>4, <1>5, <1>6 DEF Outside

\* A command adds reports of this moment, which every call under way witnesses.
LEMMA ExecReports ==
    ASSUME CoreInv, NEW s \in Threads, ExecSend(s), NEW t \in Threads, phase[t] # "idle"
    PROVE  /\ AllGood(uart, Shown, during[t]) => AllGood(uart', Shown, during'[t])
           /\ s = t /\ Step(t).arg = "STATE" /\ ~AnswerIn(uart, id[t], Verdicts) =>
                 \A k \in 1 .. Len(uart') : AnswerAt(uart', k, id[t]) /\ uart'[k].what = "ok"
                                            => Fresh(uart', Shown, during'[t], k)
<1> USE DEF CoreInv
<1> DEFINE D == during'[t]
<1>0. uart \in Seq(Lines) /\ Is(s, "step", "exec") /\ "none" \in Nets /\ [Next]_vars /\ up \in BOOLEAN
  BY DEF LineInv, ExecSend, Nets, Next
<1>1. \/ /\ net' \in Nets /\ Witness(up, net')
         /\ uart' = uart \o LinesBefore(Step(s).arg, s, net') \o <<Answer(s, "ok")>>
      \/ uart' = Append(uart, Answer(s, "error"))
      \/ uart' = uart
  BY DEF ExecSend, Answer, Network, Nets, LineInv
<1>2. /\ Answer(s, "ok") \in Lines /\ Answer(s, "error") \in Lines
      /\ Answer(s, "ok").kind = "ANSWER" /\ Answer(s, "error").kind = "ANSWER"
      /\ Answer(s, "ok").who = id[s] /\ Answer(s, "error").who = id[s] /\ Answer(s, "error").what = "error"
  BY <1>0, ExecLines DEF Answer, Urc
<1>3. during[t] \subseteq D
  <2>1. phase'[t] # "idle"
    BY <1>0 DEF ExecSend, ThreadInv, ThreadTypes, PhaseInv
  <2> QED
    BY <1>0, <2>1, DuringNext
<1>4. AllGood(uart, Shown, during[t]) => AllGood(uart, Shown, D)
  BY <1>3, FreshMore
<1> HIDE DEF D
<1>5. \A w : ~Bad(Answer(s, w), D)
  BY DEF Answer, Urc, Bad
<1>6. ASSUME net' \in Nets, Witness(up, net')
      PROVE  /\ Before(s, net') \in Lines /\ Before(s, net').kind # "ANSWER" /\ ~Bad(Before(s, net'), D)
             /\ Step(s).arg = "STATE" => Good(Before(s, net'), D)
  <2>1. Facts(up, net') \subseteq D
    BY <1>6 DEF Witness, D
  <2>2. Fact(IF up THEN "1" ELSE "0") \in D
    BY <1>0, <2>1 DEF Facts, Fact
  <2>3. Before(s, net') \in Lines /\ Before(s, net').kind # "ANSWER"
    BY <1>0, <1>6, ExecLines DEF Before, Urc
  <2>4. Before(s, net').kind = "STATE" => Before(s, net').what = IF up THEN "1" ELSE "0"
    BY DEF Before, Urc
  <2>5. Step(s).arg = "STATE" => Before(s, net').kind = "STATE"
    BY DEF Before, Urc
  <2> QED
    BY <2>2, <2>3, <2>4, <2>5 DEF Bad, Good
<1>7. AllGood(uart, Shown, D) => AllGood(uart', Shown, D)
  <2>1. CASE uart' = Append(uart, Answer(s, "ok")) \/ uart' = Append(uart, Answer(s, "error")) \/ uart' = uart
    BY <1>0, <1>2, <1>5, <2>1, FreshAdded
  <2>2. CASE net' \in Nets /\ Witness(up, net') /\ uart' = Append(Append(uart, Before(s, net')), Answer(s, "ok"))
    <3>1. Before(s, net') \in Lines /\ ~Bad(Before(s, net'), D)
      BY <1>6, <2>2
    <3>2. /\ Append(uart, Before(s, net')) \in Seq(Lines)
          /\ AllGood(uart, Shown, D) => AllGood(Append(uart, Before(s, net')), Shown, D)
      BY <1>0, <3>1, FreshAdded, AppendLine
    <3>3. AllGood(Append(uart, Before(s, net')), Shown, D) => AllGood(uart', Shown, D)
      BY <1>2, <1>5, <2>2, <3>2, FreshAdded
    <3> QED
      BY <3>2, <3>3
  <2> QED
    BY <1>0, <1>1, <2>1, <2>2, ExecLines
<1>8. ASSUME s = t, Step(t).arg = "STATE", ~AnswerIn(uart, id[t], Verdicts),
             NEW k \in 1 .. Len(uart'), AnswerAt(uart', k, id[t]), uart'[k].what = "ok"
      PROVE  Fresh(uart', Shown, D, k)
  <2>0. \A j \in 1 .. Len(uart) : ~(AnswerAt(uart, j, id[t]) /\ uart[j].what = "ok")
    BY <1>8, Zenon DEF AnswerIn, AnswerAt, Verdicts
  <2>1. uart' # uart
    BY <1>8, <2>0
  <2>2. uart' # Append(uart, Answer(s, "error"))
    <3> SUFFICES ASSUME uart' = Append(uart, Answer(s, "error")) PROVE FALSE
      OBVIOUS
    <3>1. /\ Len(uart') = Len(uart) + 1 /\ Len(uart) \in Nat
          /\ \A j \in 1 .. Len(uart) : uart'[j] = uart[j]
          /\ uart'[Len(uart) + 1] = Answer(s, "error")
      BY <1>0, <1>2, AppendLine
    <3>2. k \in 1 .. Len(uart) \/ k = Len(uart) + 1
      BY <3>1
    <3> QED
      BY <1>2, <1>8, <2>0, <3>1, <3>2 DEF AnswerAt
  <2>3. net' \in Nets /\ Witness(up, net') /\ uart' = Append(Append(uart, Before(s, net')), Answer(s, "ok"))
    BY <1>0, <1>1, <1>8, <2>1, <2>2, ExecLines
  <2> DEFINE b == Before(s, net')
             v == Append(uart, b)
  <2>4. b \in Lines /\ b.kind # "ANSWER" /\ Good(b, D) /\ ~Bad(b, D)
    BY <1>6, <1>8, <2>3
  <2> HIDE DEF b
  <2>5. /\ v \in Seq(Lines) /\ Len(v) = Len(uart) + 1 /\ Len(uart) \in Nat
        /\ \A j \in 1 .. Len(uart) : v[j] = uart[j]
        /\ v[Len(uart) + 1] = b
    BY <1>0, <2>4, AppendLine
  <2>6. Fresh(v, Shown, D, Len(uart) + 2)
    BY <1>0, <2>4, FreshAdded
  <2>7. uart' = Append(v, Answer(s, "ok"))
    BY <2>3 DEF b
  <2> HIDE DEF v
  <2>8. /\ Len(uart') = Len(uart) + 2
        /\ \A j \in 1 .. Len(v) : uart'[j] = v[j]
    BY <1>2, <2>5, <2>7, AppendLine
  <2>9. k = Len(uart) + 2
    <3>1. k \in 1 .. Len(uart) \/ k = Len(uart) + 1 \/ k = Len(uart) + 2
      BY <2>5, <2>8
    <3>2. k \in 1 .. Len(uart) => uart'[k] = uart[k]
      BY <2>5, <2>8
    <3>3. k = Len(uart) + 1 => uart'[k] = b
      BY <2>5, <2>8
    <3> QED
      BY <1>8, <2>0, <2>4, <3>1, <3>2, <3>3 DEF AnswerAt
  <2>10. Fresh(uart', Shown, D, Len(uart) + 2)
    <3>1. /\ \A j \in 1 .. Len(uart') : Bad(uart'[j], D) => j \in 1 .. Len(uart) + 1 /\ Bad(v[j], D)
      <4>1. \A j \in 1 .. Len(uart) + 2 : j \in 1 .. Len(uart) + 1 \/ j = Len(uart) + 2
        BY <2>5
      <4>2. uart'[Len(uart) + 2] = Answer(s, "ok")
        BY <1>2, <2>5, <2>7, AppendLine
      <4> QED
        BY <1>5, <2>5, <2>8, <4>1, <4>2
    <3>2. \A i \in 1 .. Len(v) : i \in 1 .. Len(uart') /\ uart'[i] = v[i]
      BY <2>5, <2>8
    <3> QED
      BY <2>5, <2>6, <3>1, <3>2, Zenon DEF Fresh
  <2> QED
    BY <2>9, <2>10
<1> QED
  BY <1>4, <1>7, <1>8 DEF D

\* No line carries the number of a call that begins.
LEMMA NewNumber ==
    ASSUME ThreadInv, LineInv, NEW t \in Threads, Call(t)
    PROVE  /\ phase'[t] = "step" /\ ip'[t] = 1 /\ uart' = uart
           /\ \A k \in 1 .. Len(uart) : uart[k].who # id'[t]
           /\ \A W : ~AnswerIn(uart', id'[t], W)
<1>1. phase'[t] = "step" /\ ip'[t] = 1 /\ id'[t] = calls + 1 /\ uart' = uart /\ calls \in Nat
  BY DEF Call, Advance, ThreadInv, ThreadTypes, PhaseInv, lineVars
<1>2. ASSUME NEW k \in 1 .. Len(uart) PROVE uart[k].who # calls + 1
  <2>1. uart[k] \in Lines /\ uart[k].who <= calls
    BY DEF LineInv
  <2>2. uart[k].who \in Nat
    BY <2>1 DEF Lines, AllLines
  <2> QED
    BY <1>1, <2>1, <2>2
<1> QED
  BY <1>1, <1>2 DEF AnswerIn

LEMMA StateOwn ==
    ASSUME CoreInv, StateInv, NEW t \in Threads, Call(t) \/ ThreadSteps(t),
           op'[t] = "is_connected", "flags" \notin races'
    PROVE  StateOf(t)'
<1> USE DEF CoreInv
<1>0. [Next]_vars /\ Own(t)
  BY OwnStep DEF Next, ThreadSteps, ThreadInv
<1>1. CASE Call(t)
  <2>1. phase'[t] = "step" /\ ip'[t] = 1 /\ ~AnswerIn(uart', id'[t], Verdicts)
    BY <1>1, NewNumber
  <2> QED
    BY <2>1 DEF StateOf, AnswerIn
<1>2. CASE Return(t)
  BY <1>2 DEF Return, ThreadInv, ThreadTypes
<1>3. CASE ThreadSteps(t) /\ ~Return(t)
  <2>0. op[t] = "is_connected" /\ id'[t] = id[t] /\ phase[t] # "idle" /\ phase'[t] # "idle"
    BY <1>3, CallGoesOn DEF GoesOn
  <2>1. StateOf(t) /\ during[t] \subseteq during'[t]
    BY <1>0, <2>0, RacesGrow, DuringNext DEF StateInv
  <2>2. /\ ip[t] \in 1 .. 3
        /\ ip[t] = 1 => Step(t).do = "exec" /\ Step(t).arg = "STATE"
        /\ ip[t] = 2 => Step(t).do = "state"
        /\ \A p : At(t, p) => ip[t] <= 2
        /\ Fail(t) /\ ip[t] = 1 => ip'[t] = 3 /\ result'[t] = "FALSE"
        /\ Succeed(t) /\ ip[t] = 1 => ip'[t] = 2
    BY <2>0, AtState
  <2>3. CASE ExecSend(t)
    <3>1. phase[t] = "step" /\ ip[t] = 1 /\ phase'[t] = "sent" /\ ip'[t] = 1 /\ answer' = "none" /\ sg_flags' = sg_flags
      BY <2>2, <2>3 DEF ExecSend, Is, At, ThreadInv, ThreadTypes, PhaseInv, flagVars
    <3>2. ~AnswerIn(uart, id[t], Verdicts) /\ Step(t).arg = "STATE"
      BY <2>1, <2>2, <3>1 DEF StateOf
    <3>3. \A k \in 1 .. Len(uart') : AnswerAt(uart', k, id[t]) /\ uart'[k].what = "ok"
                                     => Fresh(uart', Shown, during'[t], k)
      BY <2>0, <2>3, <3>2, ExecReports
    <3>4. Shown' = Shown
      BY <3>1 DEF Shown
    <3> QED
      BY <2>0, <3>1, <3>3, <3>4 DEF StateOf, AnswerAt, Fresh
  <2>4. CASE ExecDone(t)
    <3>1. phase[t] = "sent" /\ ip[t] = 1 /\ phase'[t] = "step" /\ uart' = uart /\ sg_flags' = sg_flags
      BY <2>2, <2>4 DEF ExecDone, Is, At, Succeed, Fail, Advance, ThreadInv, ThreadTypes, PhaseInv, flagVars
    <3>2. (answer = "ok" /\ Succeed(t)) \/ (Fail(t) /\ during' = [during EXCEPT ![t] = @ \cup {"failed"}])
      BY <2>4 DEF ExecDone
    <3>3. (answer = "ok" /\ ip'[t] = 2) \/ (ip'[t] = 3 /\ Said(result'[t], during'[t]))
      BY <2>2, <3>1, <3>2 DEF Said, DuringInv
    <3>4. answer = "ok" => AllGood(uart', Shown', during'[t])
      <4>1. Shown' = Shown
        BY <3>1 DEF Shown
      <4>2. answer = "ok" => AllGood(uart, Shown, during[t])
        BY <2>1, <3>1 DEF StateOf
      <4> QED
        BY <2>1, <3>1, <4>1, <4>2, FreshMore
    <3> QED
      BY <3>1, <3>3, <3>4 DEF StateOf, AllGood
  <2>5. CASE ReadState(t)
    <3>1. /\ ip[t] = 2 /\ ip'[t] = 3 /\ phase'[t] = "step"
          /\ result'[t] = IF "STATE" \in sg_flags THEN "TRUE" ELSE "FALSE"
      BY <2>2, <2>5 DEF ReadState, Is, Advance, ThreadInv, ThreadTypes, PhaseInv
    <3>2. Shown \in during[t]
      BY <2>1, <3>1 DEF StateOf, AllGood
    <3>3. Said(result'[t], during'[t])
      BY <2>1, <3>1, <3>2 DEF Said, Shown
    <3> QED
      BY <3>1, <3>3 DEF StateOf
  <2>6. Step(t).do \in {"exec", "state"} \/ \A p : ~At(t, p)
    BY <2>2
  <2>7. ExecSend(t) \/ ExecDone(t) \/ ReadState(t) \/ SetLock(t)
    BY <1>3, <2>6 DEF ThreadSteps, ClearRead, clearFlag, waitFlag, WaitExpired,
       SendPayload, SetEndSign, TestLock, Needs, register_sub_topic, Dispatch, Is
  <2>8. ~SetLock(t)
    <3>1. SetLock(t) => At(t, "tested") /\ phase[t] = "tested"
      BY DEF SetLock, At
    <3>2. SetLock(t) => Step(t).do \in {"register", "deliver"}
      BY <3>1 DEF ThreadInv, Placed
    <3> QED
      BY <2>6, <3>1, <3>2
  <2> QED
    BY <2>3, <2>4, <2>5, <2>7, <2>8
<1> QED
  BY <1>1, <1>2, <1>3

LEMMA StateOther ==
    ASSUME CoreInv, StateInv, NEW s \in Threads, Call(s) \/ ThreadSteps(s),
           NEW t \in Threads \ {s}, op[t] = "is_connected", "flags" \notin races'
    PROVE  StateOf(t)'
<1> USE DEF CoreInv
<1>0. [Next]_vars /\ Own(s)
  BY OwnStep DEF Next, ThreadSteps, ThreadInv
<1>1. /\ op'[t] = op[t] /\ ip'[t] = ip[t] /\ phase'[t] = phase[t] /\ id'[t] = id[t] /\ result'[t] = result[t]
  BY <1>0 DEF Own, ThreadInv, ThreadTypes, PhaseInv
<1>2. StateOf(t) /\ phase[t] # "idle"
  BY <1>0, AtState, RacesGrow DEF StateInv
<1>3. during[t] \subseteq during'[t]
  BY <1>0, <1>1, <1>2, DuringNext
<1>4. Shown' = Shown
  BY <1>0, ThreadLeaves, ShownMoves
<1>5. CASE ExecSend(s)
  <2>1. phase[t] # "sent" /\ id[t] # id[s]
    <3>1. busy = None /\ phase[s] = "step"
      BY <1>5 DEF ExecSend, Is, At
    <3>2. phase[t] # "sent"
      BY <3>1, ApiAssumption DEF ThreadInv
    <3> QED
      BY <1>2, <3>1, <3>2 DEF ThreadInv
  <2>2. AnswerIn(uart', id[t], Verdicts) => AnswerIn(uart, id[t], Verdicts)
    BY <1>5, <2>1, ExecAnswers
  <2>3. AllGood(uart, Shown, during[t]) => AllGood(uart', Shown, during'[t])
    BY <1>2, <1>5, ExecReports
  <2>4. /\ phase'[t] # "sent"
        /\ phase'[t] = "step" /\ ip'[t] = 1 => ~AnswerIn(uart', id'[t], Verdicts)
        /\ ip'[t] = 2 => AllGood(uart', Shown', during'[t])
        /\ ip'[t] = 3 => Said(result'[t], during'[t])
    BY <1>1, <1>2, <1>3, <1>4, <2>1, <2>2, <2>3, SaidMore DEF StateOf
  <2> QED
    BY <2>4 DEF StateOf, AnswerIn, AllGood
<1>6. CASE ~ExecSend(s)
  <2>1. uart' = uart /\ (phase[t] = "sent" => answer' = answer)
    <3>1. CASE ExecDone(s)
      <4>1. phase[s] = "sent" /\ uart' = uart
        BY <3>1 DEF ExecDone, Is, At
      <4> QED
        BY <4>1 DEF ThreadInv
    <3>2. CASE SendPayload(s)
      BY <3>2 DEF SendPayload, lineVars
    <3> QED
      BY <1>6, <3>1, <3>2, QuietStep
  <2>2. \A k : Fresh(uart, Shown, during[t], k) => Fresh(uart, Shown, during'[t], k)
    BY <1>3, FreshMore
  <2>3. AllGood(uart, Shown, during[t]) => AllGood(uart, Shown, during'[t])
    BY <1>3, FreshMore
  <2>4. phase'[t] = "sent" =>
          /\ \A k \in 1 .. Len(uart') : AnswerAt(uart', k, id'[t]) /\ uart'[k].what = "ok"
                                       => Fresh(uart', Shown', during'[t], k)
          /\ answer' = "ok" => AllGood(uart', Shown', during'[t])
    BY <1>1, <1>2, <1>4, <2>1, <2>2, <2>3 DEF StateOf
  <2>5. /\ phase'[t] = "step" /\ ip'[t] = 1 => ~AnswerIn(uart', id'[t], Verdicts)
        /\ ip'[t] = 2 => AllGood(uart', Shown', during'[t])
        /\ ip'[t] = 3 => Said(result'[t], during'[t])
    BY <1>1, <1>2, <1>3, <1>4, <2>1, <2>3, SaidMore DEF StateOf
  <2> QED
    BY <2>4, <2>5 DEF StateOf, AnswerAt, AnswerIn, Fresh, AllGood
<1> QED
  BY <1>5, <1>6

LEMMA StateNext == CoreInv /\ StateInv /\ [Next]_vars => StateInv'
<1> SUFFICES ASSUME CoreInv, StateInv, [Next]_vars PROVE StateInv'
  OBVIOUS
<1>1. ASSUME NEW s \in Threads, Call(s) \/ ThreadSteps(s) PROVE StateInv'
  <2> SUFFICES ASSUME "flags" \notin races', NEW t \in Threads, op'[t] = "is_connected" PROVE StateOf(t)'
    BY DEF StateInv
  <2>1. t # s => op[t] = "is_connected"
    BY <1>1, OwnStep DEF Own, CoreInv, ThreadInv, ThreadTypes
  <2> QED
    BY <1>1, <2>1, StateOwn, StateOther
<1> QED
  BY <1>1, StateOutside, StepKinds

-----------------------------------------------------------------------------
(* The answer to a command, and what module_register_network concludes.    *)

OneAnswer(s, n) == \A j, k \in 1 .. Len(s) : AnswerAt(s, j, n) /\ AnswerAt(s, k, n) => j = k

\* While the parser runs, an answer on the line is the one its call waits for.
AnswerInv == status # "dead" => \A t \in Threads : phase[t] # "idle" =>
    /\ phase[t] # "sent" \/ answer # "none" => ~AnswerIn(uart, id[t], Verdicts)
    /\ OneAnswer(uart, id[t])

LEMMA OneAdded ==
    ASSUME NEW s \in Seq(Lines), NEW e \in Lines, NEW n,
           OneAnswer(s, n), e.kind = "ANSWER" /\ e.who = n => ~AnswerIn(s, n, Verdicts)
    PROVE  OneAnswer(Append(s, e), n)
<1>1. /\ Len(Append(s, e)) = Len(s) + 1 /\ Len(s) \in Nat
      /\ \A k \in 1 .. Len(s) : Append(s, e)[k] = s[k]
      /\ Append(s, e)[Len(s) + 1] = e
  BY AppendLine
<1>2. \A k \in 1 .. Len(s) + 1 : k \in 1 .. Len(s) \/ k = Len(s) + 1
  BY <1>1
<1>3. \A k \in 1 .. Len(s) : AnswerAt(s, k, n) => AnswerIn(s, n, Verdicts)
  BY DEF AnswerAt, AnswerIn, Verdicts, Lines
<1> QED
  BY <1>1, <1>2, <1>3, Zenon DEF OneAnswer, AnswerAt

LEMMA OneTaken ==
    ASSUME NEW s \in Seq(Lines), s # <<>>, NEW n, OneAnswer(s, n)
    PROVE  /\ OneAnswer(Tail(s), n)
           /\ Head(s).kind = "ANSWER" /\ Head(s).who = n => ~AnswerIn(Tail(s), n, Verdicts)
<1>1. /\ Len(Tail(s)) = Len(s) - 1 /\ Len(s) \in Nat \ {0} /\ Head(s) = s[1]
      /\ \A k \in 1 .. Len(s) - 1 : Tail(s)[k] = s[k + 1]
  BY TailLine
<1>2. 1 \in 1 .. Len(s) /\ \A k \in 1 .. Len(s) - 1 : k + 1 \in 1 .. Len(s) /\ k + 1 # 1
  BY <1>1
<1>3. \A j, k \in 1 .. Len(s) - 1 : j + 1 = k + 1 => j = k
  BY <1>1
<1>4. OneAnswer(Tail(s), n)
  <2> SUFFICES ASSUME NEW j \in 1 .. Len(s) - 1, NEW k \in 1 .. Len(s) - 1,
                      AnswerAt(Tail(s), j, n), AnswerAt(Tail(s), k, n)
               PROVE  j = k
    BY <1>1, Zenon DEF OneAnswer
  <2>1. Tail(s)[j] = s[j + 1] /\ Tail(s)[k] = s[k + 1]
    BY <1>1, Zenon
  <2>2. AnswerAt(s, j + 1, n) /\ AnswerAt(s, k + 1, n)
    BY <2>1 DEF AnswerAt
  <2>3. j + 1 = k + 1
    BY <1>2, <2>2, Zenon DEF OneAnswer
  <2> QED
    BY <1>3, <2>3, Zenon
<1>5. ASSUME Head(s).kind = "ANSWER", Head(s).who = n PROVE ~AnswerIn(Tail(s), n, Verdicts)
  <2> SUFFICES ASSUME NEW k \in 1 .. Len(s) - 1, Tail(s)[k].kind = "ANSWER", Tail(s)[k].who = n PROVE FALSE
    BY <1>1, Zenon DEF AnswerIn
  <2>1. Tail(s)[k] = s[k + 1]
    BY <1>1, Zenon
  <2>2. AnswerAt(s, 1, n) /\ AnswerAt(s, k + 1, n)
    BY <1>1, <1>5, <2>1 DEF AnswerAt
  <2> QED
    BY <1>2, <2>2, Zenon DEF OneAnswer
<1> QED
  BY <1>4, <1>5

\* The lines a command adds: its answer at the end, a report before it or none.
LEMMA ExecLine ==
    ASSUME CoreInv, NEW t \in Threads, ExecSend(t)
    PROVE  \/ uart' = uart
           \/ \E a \in Lines : /\ a.kind = "ANSWER" /\ a.who = id[t]
                               /\ uart' = Append(uart, a)
           \/ \E a, b \in Lines : /\ a.kind = "ANSWER" /\ a.who = id[t]
                                  /\ b.kind # "ANSWER"
                                  /\ b.kind = "NET" => Step(t).arg = "CREG" /\ b.what = net' /\ Witness(up, net')
                                  /\ uart' = Append(Append(uart, b), a)
<1> USE DEF CoreInv
<1>0. Is(t, "step", "exec") /\ "none" \in Nets
  BY DEF ExecSend, Nets
<1>1. \/ /\ net' \in Nets /\ Witness(up, net')
         /\ uart' = uart \o LinesBefore(Step(t).arg, t, net') \o <<Answer(t, "ok")>>
      \/ uart' = Append(uart, Answer(t, "error"))
      \/ uart' = uart
  BY DEF ExecSend, Answer, Network, Nets, LineInv
<1>2. /\ Answer(t, "ok") \in Lines /\ Answer(t, "error") \in Lines
      /\ Answer(t, "ok").kind = "ANSWER" /\ Answer(t, "error").kind = "ANSWER"
      /\ Answer(t, "ok").who = id[t] /\ Answer(t, "error").who = id[t]
  BY <1>0, ExecLines DEF Answer, Urc
<1>3. CASE uart' = uart \/ uart' = Append(uart, Answer(t, "error")) \/ uart' = Append(uart, Answer(t, "ok"))
  BY <1>2, <1>3
<1>4. CASE net' \in Nets /\ Witness(up, net') /\ uart' = Append(Append(uart, Before(t, net')), Answer(t, "ok"))
  <2>1. /\ Before(t, net') \in Lines /\ Before(t, net').kind # "ANSWER"
        /\ Before(t, net').kind = "NET" => Step(t).arg = "CREG" /\ Before(t, net').what = net'
    BY <1>0, <1>4, ExecLines DEF Before, Urc
  <2> QED
    BY <1>2, <1>4, <2>1
<1> QED
  BY <1>0, <1>1, <1>3, <1>4, ExecLines

LEMMA AnswerOutside ==
    ASSUME CoreInv, AnswerInv, Outside \/ UNCHANGED vars
    PROVE  AnswerInv'
<1> USE DEF CoreInv
<1>0. uart \in Seq(Lines) /\ owed \in SUBSET Lines
  BY DEF LineInv
<1>1. UNCHANGED <<phase, id>>
  BY OutsideThreads DEF threadVars
<1>2. status = "dead" => status' = "dead"
  BY DEF Outside, vars, module_init, UrcRead, UrcStore, ParseLine, SendUrc, DropConnection, ForwardMessage
<1> SUFFICES ASSUME status # "dead", NEW t \in Threads, phase[t] # "idle"
             PROVE  /\ phase[t] # "sent" \/ answer' # "none" => ~AnswerIn(uart', id[t], Verdicts)
                    /\ OneAnswer(uart', id[t])
  BY <1>1, <1>2 DEF AnswerInv, AnswerIn, OneAnswer, AnswerAt
<1>3. /\ phase[t] # "sent" \/ answer # "none" => ~AnswerIn(uart, id[t], Verdicts)
      /\ OneAnswer(uart, id[t])
  BY DEF AnswerInv
<1>4. CASE UrcStore \/ ParseLine
  <2>1. uart # <<>> /\ uart' = Tail(uart)
    BY <1>4 DEF UrcStore, ParseLine, ReadyInv
  <2>2. /\ OneAnswer(Tail(uart), id[t])
        /\ Head(uart).kind = "ANSWER" /\ Head(uart).who = id[t] => ~AnswerIn(Tail(uart), id[t], Verdicts)
    BY <1>0, <1>3, <2>1, OneTaken
  <2>3. AnswerIn(Tail(uart), id[t], Verdicts) => AnswerIn(uart, id[t], Verdicts)
    BY <1>0, <2>1, AnswerTaken
  <2>4. answer' = answer \/ (Head(uart).kind = "ANSWER" /\ busy # None /\ Head(uart).who = id[busy])
    BY <1>4 DEF UrcStore, ParseLine
  <2>5. phase[t] = "sent" => busy = t
    BY DEF ThreadInv
  <2> QED
    BY <1>3, <2>1, <2>2, <2>3, <2>4, <2>5
<1>5. CASE SendUrc \/ DropConnection \/ ForwardMessage
  <2>1. PICK e \in Lines : e.kind # "ANSWER" /\ uart' = Append(uart, e)
    <3>1. CASE SendUrc
      BY <1>0, <3>1 DEF SendUrc, LineInv
    <3>2. CASE DropConnection \/ ForwardMessage
      BY <3>2 DEF DropConnection, ForwardMessage, Urc, Lines, AllLines, FlagUrcs, Words, LineInv
    <3> QED
      BY <1>5, <3>1, <3>2
  <2>2. answer' = answer
    BY <1>5 DEF SendUrc, DropConnection, ForwardMessage
  <2>3. AnswerIn(uart', id[t], Verdicts) => AnswerIn(uart, id[t], Verdicts)
    BY <1>0, <2>1, AnswerAdded
  <2>4. OneAnswer(uart', id[t])
    BY <1>0, <1>3, <2>1, OneAdded
  <2> QED
    BY <1>3, <2>2, <2>3, <2>4
<1>6. CASE module_init \/ UrcRead \/ UNCHANGED vars
  <2>1. UNCHANGED <<uart, answer>>
    BY <1>6 DEF module_init, UrcRead, vars, lineVars
  <2> QED
    BY <1>3, <2>1
<1> QED
  BY <1>4, <1>5, <1>6 DEF Outside

LEMMA AnswerThread ==
    ASSUME CoreInv, AnswerInv, NEW s \in Threads, Call(s) \/ ThreadSteps(s)
    PROVE  AnswerInv'
<1> USE DEF CoreInv
<1>0. uart \in Seq(Lines) /\ Own(s) /\ status' = status
  BY ThreadLeaves, OwnStep DEF LineInv, ThreadInv
<1> SUFFICES ASSUME status # "dead", NEW t \in Threads, phase'[t] # "idle"
             PROVE  /\ phase'[t] # "sent" \/ answer' # "none" => ~AnswerIn(uart', id'[t], Verdicts)
                    /\ OneAnswer(uart', id'[t])
  BY <1>0 DEF AnswerInv, AnswerIn, OneAnswer, AnswerAt
<1>1. phase[t] # "idle" =>
        /\ phase[t] # "sent" \/ answer # "none" => ~AnswerIn(uart, id[t], Verdicts)
        /\ OneAnswer(uart, id[t])
  BY DEF AnswerInv
<1>2. CASE t # s
  <2>1. phase'[t] = phase[t] /\ id'[t] = id[t]
    BY <1>0, <1>2 DEF Own, ThreadInv, ThreadTypes, PhaseInv
  <2>2. CASE ExecSend(s)
    <3>1. busy = None /\ phase[s] = "step" /\ answer' = "none"
      BY <2>2 DEF ExecSend, Is, At
    <3>2. phase[t] # "sent"
      BY <3>1, ApiAssumption DEF ThreadInv
    <3>3. id[t] # id[s]
      BY <1>2, <2>1, <3>1 DEF ThreadInv
    <3>4. AnswerIn(uart', id[t], Verdicts) => AnswerIn(uart, id[t], Verdicts)
      BY <2>2, <3>3, ExecAnswers
    <3>5. OneAnswer(uart', id[t])
      <4>1. CASE uart' = uart
        BY <1>1, <2>1, <4>1
      <4>2. ASSUME NEW a \in Lines, a.who = id[s], uart' = Append(uart, a)
            PROVE  OneAnswer(uart', id[t])
        BY <1>0, <1>1, <2>1, <3>3, <4>2, OneAdded
      <4>3. ASSUME NEW a \in Lines, NEW b \in Lines, a.who = id[s], b.kind # "ANSWER", uart' = Append(Append(uart, b), a)
            PROVE  OneAnswer(uart', id[t])
        <5>1. Append(uart, b) \in Seq(Lines) /\ OneAnswer(Append(uart, b), id[t])
          BY <1>0, <1>1, <2>1, <4>3, OneAdded, AppendLine
        <5> QED
          BY <3>3, <4>3, <5>1, OneAdded
      <4> QED
        BY <2>2, <4>1, <4>2, <4>3, ExecLine
    <3> QED
      BY <1>1, <2>1, <3>2, <3>4, <3>5
  <2>3. CASE ExecDone(s)
    <3>1. phase[s] = "sent" /\ uart' = uart
      BY <2>3 DEF ExecDone, Is, At
    <3>2. phase[t] # "sent"
      BY <1>2, <3>1 DEF ThreadInv
    <3> QED
      BY <1>1, <2>1, <3>1, <3>2
  <2>4. CASE ~ExecSend(s) /\ ~ExecDone(s)
    <3>1. UNCHANGED <<uart, answer>>
      <4>1. CASE SendPayload(s)
        BY <4>1 DEF SendPayload, lineVars
      <4> QED
        BY <2>4, <4>1, QuietStep
    <3> QED
      BY <1>1, <2>1, <3>1
  <2> QED
    BY <2>2, <2>3, <2>4
<1>3. CASE t = s
  <2>1. CASE Call(s)
    <3>1. ~AnswerIn(uart', id'[s], Verdicts) /\ uart' = uart /\ \A k \in 1 .. Len(uart) : uart[k].who # id'[s]
      BY <2>1, NewNumber
    <3>2. OneAnswer(uart', id'[s])
      BY <3>1 DEF OneAnswer, AnswerAt
    <3> QED
      BY <1>3, <3>1, <3>2
  <2>2. CASE Return(s)
    BY <1>3, <2>2 DEF Return, ThreadInv, ThreadTypes, PhaseInv
  <2>3. CASE ThreadSteps(s) /\ ~Return(s)
    <3>0. phase[s] # "idle" /\ id'[s] = id[s]
      BY <2>3, CallGoesOn DEF GoesOn
    <3>1. CASE ExecSend(s)
      <4>1. phase[s] = "step" /\ phase'[s] = "sent" /\ answer' = "none"
        BY <3>1 DEF ExecSend, Is, At, ThreadInv, ThreadTypes, PhaseInv
      <4>2. ~AnswerIn(uart, id[s], Verdicts) /\ OneAnswer(uart, id[s])
        BY <1>1, <1>3, <3>0, <4>1
      <4>3. OneAnswer(uart', id[s])
        <5>1. CASE uart' = uart
          BY <4>2, <5>1
        <5>2. ASSUME NEW a \in Lines, uart' = Append(uart, a)
              PROVE  OneAnswer(uart', id[s])
          BY <1>0, <4>2, <5>2, OneAdded
        <5>3. ASSUME NEW a \in Lines, NEW b \in Lines, b.kind # "ANSWER", uart' = Append(Append(uart, b), a)
              PROVE  OneAnswer(uart', id[s])
          <6>1. Append(uart, b) \in Seq(Lines) /\ OneAnswer(Append(uart, b), id[s])
            BY <1>0, <4>2, <5>3, OneAdded, AppendLine
          <6>2. ~AnswerIn(Append(uart, b), id[s], Verdicts)
            BY <1>0, <4>2, <5>3, AnswerAdded
          <6> QED
            BY <5>3, <6>1, <6>2, OneAdded
        <5> QED
          BY <3>1, <5>1, <5>2, <5>3, ExecLine
      <4> QED
        BY <1>3, <3>0, <4>1, <4>3
    <3>2. CASE ExecDone(s)
      <4>1. /\ phase[s] = "sent" /\ uart' = uart
            /\ \/ answer # "none"
               \/ \A k \in 1 .. Len(uart) : ~(uart[k].kind = "ANSWER" /\ uart[k].who = id[s])
        BY <3>2 DEF ExecDone, Silent, Is, At
      <4>2. ~AnswerIn(uart, id[s], Verdicts)
        BY <1>1, <1>3, <4>1 DEF AnswerIn
      <4> QED
        BY <1>1, <1>3, <3>0, <4>1, <4>2
    <3>3. CASE ~ExecSend(s) /\ ~ExecDone(s)
      <4>1. UNCHANGED <<uart, answer, busy>>
        <5>1. CASE SendPayload(s)
          BY <5>1 DEF SendPayload, lineVars
        <5> QED
          BY <2>3, <3>3, <5>1, QuietStep
      <4>2. phase[s] # "sent"
        <5>1. phase[s] = "sent" => busy = s /\ busy # None
          BY ApiAssumption DEF ThreadInv
        <5>2. phase[s] = "sent" => Step(s).do = "exec"
          BY DEF ThreadInv, Placed, Is
        <5>3. phase[s] = "sent" => ExecDone(s) \/ ExecSend(s)
          BY <2>3, <5>2 DEF ThreadSteps, ClearRead, clearFlag, waitFlag, WaitExpired,
             SendPayload, SetEndSign, ReadState, TestLock, Needs, SetLock, register_sub_topic, Dispatch, Is, At
        <5> QED
          BY <3>3, <5>3
      <4> QED
        BY <1>1, <1>3, <3>0, <4>1, <4>2
    <3> QED
      BY <3>1, <3>2, <3>3
  <2> QED
    BY <2>1, <2>2, <2>3
<1> QED
  BY <1>2, <1>3

\* The steps of a thread, as far as its place and result are concerned.
LEMMA StepMoves ==
    ASSUME ThreadInv, NEW t \in Threads, ThreadSteps(t), ~Return(t), Step(t).do # "state"
    PROVE  /\ At(t, phase[t])
           /\ \/ ip' = ip /\ result' = result
              \/ Succeed(t) /\ (Step(t).do = "wait" => Step(t).arg \in sg_flags)
                            /\ (Step(t).do = "clear" => Step(t).arg \notin sg_flags')
              \/ Fail(t) /\ Step(t).do # "clear"
<1> USE DEF Is
<1>1. CASE ClearRead(t) \/ clearFlag(t) \/ waitFlag(t) \/ WaitExpired(t)
  BY <1>1 DEF ClearRead, clearFlag, waitFlag, WaitExpired, At
<1>2. CASE ExecSend(t) \/ ExecDone(t) \/ SendPayload(t) \/ SetEndSign(t)
  BY <1>2 DEF ExecSend, ExecDone, SendPayload, SetEndSign, At
<1>3. CASE TestLock(t) \/ SetLock(t)
  BY <1>3 DEF TestLock, SetLock, Needs, At
<1>4. CASE register_sub_topic(t) \/ Dispatch(t)
  BY <1>4 DEF register_sub_topic, Dispatch, At
<1> QED
  BY <1>1, <1>2, <1>3, <1>4 DEF ThreadSteps, ReadState

LEMMA WhereTo ==
    ASSUME ThreadInv, NEW t \in Threads
    PROVE  /\ Succeed(t) => /\ ip'[t] = ip[t] + (IF Step(t).fail = "else" THEN 2 ELSE 1)
                            /\ result'[t] = result[t]
           /\ Fail(t) => /\ Step(t).fail = "exit" => result'[t] = Failure(t)
                         /\ Step(t).fail \notin {"exit", "last"} => ip'[t] \in {ip[t] - 1, ip[t] + 1}
                         /\ result'[t] \in {result[t], Failure(t)}
<1> USE DEF ThreadInv, ThreadTypes, Advance
<1>1. Succeed(t) => /\ ip'[t] = ip[t] + (IF Step(t).fail = "else" THEN 2 ELSE 1)
                    /\ result'[t] = result[t]
  BY DEF Succeed
<1>2. Fail(t) => /\ Step(t).fail = "exit" => result'[t] = Failure(t)
                 /\ Step(t).fail \notin {"exit", "last"} => ip'[t] \in {ip[t] - 1, ip[t] + 1}
                 /\ result'[t] \in {result[t], Failure(t)}
  BY DEF Fail
<1> QED
  BY <1>1, <1>2

\* The step behind the wait for READY that must succeed.
Past == IF module_type = "N21" THEN 6 ELSE 7
Registered(t) == {"attached", "ready"} \cap during[t] # {}

\* What the scripts of the two network modules have in common.
NetScripted(s, p) ==
    /\ Len(s) \in Nat /\ p < Len(s) + 1
    /\ s[1] = Clear("READY")
    /\ s[p - 1] = Wait("READY", "exit")
    /\ \A k \in 2 .. p - 2 : s[k].fail \notin {"else", "last"}
    /\ \A k \in 1 .. Len(s) : s[k].do # "state"

LEMMA NetScript ==
    ASSUME module_type \in {"N21", "L206D"}
    PROVE  NetScripted(Script(module_type, "net"), Past) /\ Past \in 6 .. 7
<1> USE DEF Script, module_register_network, NetScripted, Clear, Wait, Exec, Past
<1>1. CASE module_type = "N21"
  BY <1>1 DEF N21_net_reg
<1>2. CASE module_type = "L206D"
  BY <1>2 DEF L206_net_reg
<1> QED
  BY <1>1, <1>2

\* The step of a registration.
LEMMA AtNet ==
    ASSUME ThreadInv, NEW t \in Threads, op[t] = "net", module_type \in {"N21", "L206D"}
    PROVE  /\ phase[t] # "idle" /\ ip[t] \in Nat \ {0} /\ Past \in 6 .. 7
           /\ ip[t] = 1 => Step(t).do = "clear" /\ Step(t).arg = "READY" /\ Step(t).fail = "ignore"
           /\ ip[t] \in 2 .. Past - 2 => Step(t).fail \notin {"else", "last"}
           /\ ip[t] = Past - 1 => Step(t).do = "wait" /\ Step(t).arg = "READY" /\ Step(t).fail = "exit"
           /\ \A p : At(t, p) => Step(t).do # "state"
           /\ Ended(t) => ip[t] >= Past
<1> DEFINE s == Script(module_type, op[t])
<1>1. NetScripted(s, Past) /\ Past \in 6 .. 7
  BY NetScript
<1>2. Step(t) = s[ip[t]]
  BY DEF Step
<1>3. phase[t] # "idle" /\ ip[t] \in 1 .. Len(s) + 1
  BY DEF ThreadInv, Placed
<1> HIDE DEF s
<1>4. Len(s) \in Nat /\ Past < Len(s) + 1
  BY <1>1 DEF NetScripted
<1>5. Len(s) \in Nat /\ Len(Script(module_type, op[t])) = Len(s)
  BY <1>4 DEF s
<1>6. /\ \A p : At(t, p) => ip[t] <= Len(s)
      /\ Ended(t) => ip[t] > Len(s)
  BY <1>5, ByLength, Zenon
<1>7. ip[t] \in 1 .. Len(s) => Step(t).do # "state"
  BY <1>1, <1>2, Zenon DEF NetScripted
<1>8. \A p : At(t, p) => Step(t).do # "state"
  <2>1. ip[t] <= Len(s) => ip[t] \in 1 .. Len(s)
    BY <1>3, <1>4
  <2> QED
    BY <1>6, <1>7, <2>1, Zenon
<1>9. Ended(t) => ip[t] >= Past
  BY <1>1, <1>3, <1>4, <1>6
<1>10. ip[t] = 1 => Step(t).do = "clear" /\ Step(t).arg = "READY" /\ Step(t).fail = "ignore"
  BY <1>1, <1>2 DEF NetScripted, Clear
<1>11. ip[t] = Past - 1 => Step(t).do = "wait" /\ Step(t).arg = "READY" /\ Step(t).fail = "exit"
  BY <1>1, <1>2 DEF NetScripted, Wait
<1>12. ip[t] \in 2 .. Past - 2 => Step(t).fail \notin {"else", "last"}
  BY <1>1, <1>2, Zenon DEF NetScripted
<1>13. ip[t] \in Nat \ {0}
  BY <1>3, <1>4
<1> QED
  BY <1>1, <1>3, <1>8, <1>9, <1>10, <1>11, <1>12, <1>13

\* A registration gets past its first step with READY cleared, and past the last wait
\* for READY with success only if the flag is set.
LEMMA NetMoves ==
    ASSUME ThreadInv, NEW t \in Threads, ThreadSteps(t), ~Return(t), op[t] = "net",
           module_type \in {"N21", "L206D"}
    PROVE  /\ ip'[t] >= 2 => ip[t] >= 2 \/ "READY" \notin sg_flags'
           /\ ip'[t] >= Past /\ result'[t] = "SUCCESS" =>
                 (ip[t] >= Past /\ result[t] = "SUCCESS") \/ (ip[t] >= 2 /\ "READY" \in sg_flags)
<1>1. /\ ip[t] \in Nat \ {0} /\ Past \in 6 .. 7
      /\ ip[t] = 1 => Step(t).do = "clear" /\ Step(t).arg = "READY" /\ Step(t).fail = "ignore"
      /\ ip[t] \in 2 .. Past - 2 => Step(t).fail \notin {"else", "last"}
      /\ ip[t] = Past - 1 => Step(t).do = "wait" /\ Step(t).arg = "READY" /\ Step(t).fail = "exit"
      /\ \A p : At(t, p) => Step(t).do # "state"
  BY AtNet
<1>2. Step(t).do # "state"
  <2>1. \E p : At(t, p)
    BY DEF ThreadSteps, ClearRead, clearFlag, waitFlag, WaitExpired, ExecSend, ExecDone,
       SendPayload, SetEndSign, ReadState, TestLock, Needs, SetLock, register_sub_topic, Dispatch, Is
  <2> QED
    BY <1>1, <2>1
<1>3. ip[t] = 1 \/ ip[t] \in 2 .. Past - 2 \/ ip[t] = Past - 1 \/ ip[t] >= Past
  BY <1>1
<1>4. CASE ip' = ip /\ result' = result
  BY <1>4
<1>5. CASE Succeed(t) /\ (Step(t).do = "wait" => Step(t).arg \in sg_flags)
                      /\ (Step(t).do = "clear" => Step(t).arg \notin sg_flags')
  <2>1. ip'[t] = ip[t] + (IF Step(t).fail = "else" THEN 2 ELSE 1) /\ result'[t] = result[t]
    BY <1>5, WhereTo
  <2>2. CASE ip[t] = 1
    BY <1>1, <1>5, <2>1, <2>2
  <2>3. CASE ip[t] \in 2 .. Past - 2
    <3>1. ip'[t] = ip[t] + 1
      BY <1>1, <2>1, <2>3
    <3> QED
      BY <1>1, <2>3, <3>1
  <2>4. CASE ip[t] = Past - 1
    BY <1>1, <1>5, <2>1, <2>4
  <2>5. CASE ip[t] >= Past
    BY <1>1, <2>1, <2>5
  <2> QED
    BY <1>3, <2>2, <2>3, <2>4, <2>5
<1>6. CASE Fail(t) /\ Step(t).do # "clear"
  <2>1. /\ Step(t).fail = "exit" => result'[t] = "FAILURE"
        /\ Step(t).fail \notin {"exit", "last"} => ip'[t] \in {ip[t] - 1, ip[t] + 1}
        /\ result'[t] \in {result[t], "FAILURE"}
    BY <1>6, WhereTo DEF Failure
  <2>2. ip[t] # 1 /\ ip[t] >= 2
    BY <1>1, <1>6
  <2>3. CASE ip[t] \in 2 .. Past - 2
    <3>1. result'[t] = "FAILURE" \/ ip'[t] \in {ip[t] - 1, ip[t] + 1}
      BY <1>1, <2>1, <2>3
    <3> QED
      BY <1>1, <2>2, <2>3, <3>1
  <2>4. CASE ip[t] = Past - 1
    BY <1>1, <2>1, <2>2, <2>4
  <2>5. CASE ip[t] >= Past
    BY <2>1, <2>2, <2>5
  <2> QED
    BY <1>3, <2>2, <2>3, <2>4, <2>5
<1> QED
  BY <1>2, <1>4, <1>5, <1>6, StepMoves

\* The report at j is followed by the answer to the registration that asked for it,
\* which still waits.
NetLine(j) == \E t \in Threads :
    /\ op[t] = "net" /\ phase[t] = "sent" /\ answer = "none"
    /\ \E k \in 1 .. Len(uart) : j < k /\ AnswerAt(uart, k, id[t])
    /\ uart[j].what # "none" => Registered(t)

NetOf(t) ==
    /\ ip[t] >= 2 /\ "READY" \in sg_flags => Registered(t)
    /\ ip[t] >= Past /\ result[t] = "SUCCESS" => Registered(t)

NetInv ==
    /\ status # "dead" => \A j \in 1 .. Len(uart) : uart[j].kind = "NET" => NetLine(j)
    /\ \A t \in Threads : op[t] = "net" => module_type # "any"
    /\ "flags" \notin races => \A t \in Threads : op[t] = "net" /\ module_type # "ESP8266" => NetOf(t)

\* While a registration runs no other call does.
LEMMA NetAlone ==
    ASSUME ThreadInv, NEW s \in Threads, Call(s) \/ ThreadSteps(s), NEW t \in Threads, op[t] = "net"
    PROVE  s = t /\ ThreadSteps(t)
<1>1. phase[t] # "idle" /\ "net" \in Setup
  BY DEF ThreadInv, Placed, Setup
<1>2. ~Call(s)
  <2> SUFFICES ASSUME Call(s) PROVE FALSE
    OBVIOUS
  <2>1. phase[s] = "idle" /\ \E o : MayMeet(o, s)
    BY DEF Call
  <2> QED
    BY <1>1, <2>1 DEF MayMeet
<1>3. phase[s] # "idle"
  BY <1>2, ThreadLeaves
<1> QED
  BY <1>1, <1>2, <1>3 DEF ThreadInv

\* A call that waits for an answer goes on by taking it.
LEMMA SentWaits ==
    ASSUME ThreadInv, NEW s \in Threads, phase[s] = "sent", Call(s) \/ ThreadSteps(s)
    PROVE  ExecDone(s)
<1>1. Step(s).do = "exec"
  BY DEF ThreadInv, Placed, Is
<1> QED
  BY <1>1 DEF Call, ThreadSteps, Return, Ended, ClearRead, clearFlag, waitFlag, WaitExpired, ExecSend,
     SendPayload, SetEndSign, ReadState, TestLock, Needs, SetLock, register_sub_topic, Dispatch, Is, At

\* The reports, when the parser or the module moves.
LEMMA NetLinesOutside ==
    ASSUME CoreInv, AnswerInv, NetInv, Outside \/ UNCHANGED vars, status' # "dead",
           NEW j \in 1 .. Len(uart'), uart'[j].kind = "NET"
    PROVE  NetLine(j)'
<1> USE DEF CoreInv
<1>0. [Next]_vars /\ uart \in Seq(Lines) /\ owed \in SUBSET Lines
  BY DEF Next, Outside, LineInv
<1>1. UNCHANGED <<op, ip, phase, id, result>>
  BY OutsideThreads DEF threadVars
<1>2. status # "dead"
  BY DEF Outside, vars, module_init, UrcRead, UrcStore, ParseLine, SendUrc, DropConnection, ForwardMessage
<1>3. \A t \in Threads : phase[t] # "idle" /\ Registered(t) => Registered(t)'
  BY <1>0, <1>1, DuringNext DEF Registered
<1>4. ASSUME NEW i \in 1 .. Len(uart), uart[i].kind = "NET", uart'[j] = uart[i],
             \A t \in Threads : phase[t] = "sent" /\ answer = "none" /\ (\E k \in 1 .. Len(uart) : i < k /\ AnswerAt(uart, k, id[t]))
                 => answer' = "none" /\ (\E k \in 1 .. Len(uart') : j < k /\ AnswerAt(uart', k, id[t]))
      PROVE  NetLine(j)'
  <2>1. PICK t \in Threads : /\ op[t] = "net" /\ phase[t] = "sent" /\ answer = "none"
                             /\ \E k \in 1 .. Len(uart) : i < k /\ AnswerAt(uart, k, id[t])
                             /\ uart[i].what # "none" => Registered(t)
    BY <1>2, <1>4, Zenon DEF NetInv, NetLine
  <2>2. answer' = "none" /\ \E k \in 1 .. Len(uart') : j < k /\ AnswerAt(uart', k, id[t])
    BY <1>4, <2>1, Zenon
  <2>3. uart'[j].what # "none" => Registered(t)'
    BY <1>3, <1>4, <2>1
  <2> QED
    BY <1>1, <2>1, <2>2, <2>3 DEF NetLine, AnswerAt
<1>5. CASE UrcStore \/ ParseLine
  <2>1. uart # <<>> /\ uart' = Tail(uart)
    BY <1>5 DEF UrcStore, ParseLine, ReadyInv
  <2>2. /\ Len(Tail(uart)) = Len(uart) - 1 /\ Len(uart) \in Nat \ {0} /\ Head(uart) = uart[1]
        /\ \A k \in 1 .. Len(uart) - 1 : Tail(uart)[k] = uart[k + 1] /\ k + 1 \in 1 .. Len(uart)
    BY <1>0, <2>1, TailLine
  <2>3. j \in 1 .. Len(uart) - 1 /\ j + 1 \in 1 .. Len(uart) /\ uart'[j] = uart[j + 1]
    BY <2>1, <2>2
  <2>4. ASSUME NEW t \in Threads, phase[t] = "sent", answer = "none",
               NEW k \in 1 .. Len(uart), j + 1 < k, AnswerAt(uart, k, id[t])
        PROVE  answer' = "none" /\ \E i \in 1 .. Len(uart') : j < i /\ AnswerAt(uart', i, id[t])
    <3>1. k - 1 \in 1 .. Len(uart) - 1 /\ j < k - 1 /\ (k - 1) + 1 = k /\ 1 # k /\ 1 \in 1 .. Len(uart)
      BY <2>2, <2>3, <2>4
    <3>2. Tail(uart)[k - 1] = uart[k]
      BY <2>2, <3>1, Zenon
    <3>3. k - 1 \in 1 .. Len(uart') /\ AnswerAt(uart', k - 1, id[t])
      BY <2>1, <2>2, <2>4, <3>1, <3>2 DEF AnswerAt
    <3>4. ~AnswerAt(uart, 1, id[t])
      BY <1>2, <2>4, <3>1, Zenon DEF AnswerInv, OneAnswer
    <3>5. busy = t
      BY <2>4 DEF ThreadInv
    <3>6. answer' = "none"
      BY <1>5, <2>2, <2>4, <3>4, <3>5 DEF UrcStore, ParseLine, AnswerAt
    <3> QED
      BY <3>1, <3>3, <3>6
  <2> QED
    BY <1>4, <2>3, <2>4
<1>6. CASE SendUrc \/ DropConnection \/ ForwardMessage
  <2>1. PICK e \in Lines : e.kind # "NET" /\ uart' = Append(uart, e)
    <3>1. CASE SendUrc
      BY <1>0, <3>1 DEF SendUrc, LineInv
    <3>2. CASE DropConnection \/ ForwardMessage
      BY <3>2 DEF DropConnection, ForwardMessage, Urc, Lines, AllLines, FlagUrcs, Words, LineInv
    <3> QED
      BY <1>6, <3>1, <3>2
  <2>2. answer' = answer
    BY <1>6 DEF SendUrc, DropConnection, ForwardMessage
  <2>3. /\ Len(Append(uart, e)) = Len(uart) + 1 /\ Len(uart) \in Nat
        /\ \A k \in 1 .. Len(uart) : Append(uart, e)[k] = uart[k] /\ k \in 1 .. Len(uart) + 1
        /\ Append(uart, e)[Len(uart) + 1] = e
    BY <1>0, AppendLine
  <2>4. j \in 1 .. Len(uart) \/ j = Len(uart) + 1
    BY <2>1, <2>3
  <2>5. j \in 1 .. Len(uart) /\ uart'[j] = uart[j]
    BY <2>1, <2>3, <2>4
  <2>6. \A k \in 1 .. Len(uart) : \A n : AnswerAt(uart, k, n) => k \in 1 .. Len(uart') /\ AnswerAt(uart', k, n)
    BY <2>1, <2>3 DEF AnswerAt
  <2> QED
    BY <1>4, <2>2, <2>5, <2>6
<1>7. CASE module_init \/ UrcRead \/ UNCHANGED vars
  <2>1. UNCHANGED <<uart, answer>>
    BY <1>7 DEF module_init, UrcRead, vars, lineVars
  <2> QED
    BY <1>4, <2>1
<1> QED
  BY <1>5, <1>6, <1>7 DEF Outside

\* The reports, when a thread moves.
LEMMA NetLinesThread ==
    ASSUME CoreInv, AnswerInv, NetInv, NEW s \in Threads, Call(s) \/ ThreadSteps(s), status # "dead",
           NEW j \in 1 .. Len(uart'), uart'[j].kind = "NET"
    PROVE  NetLine(j)'
<1> USE DEF CoreInv
<1>0. [Next]_vars /\ Own(s) /\ uart \in Seq(Lines)
  BY OwnStep DEF Next, ThreadSteps, ThreadInv, LineInv
<1>1. CASE ExecSend(s)
  <2>0. phase[s] = "step" /\ busy = None /\ phase'[s] = "sent" /\ answer' = "none"
    BY <1>1 DEF ExecSend, Is, At, ThreadInv, ThreadTypes, PhaseInv
  <2>1. \A k \in 1 .. Len(uart) : uart[k].kind # "NET"
    BY <2>0, ApiAssumption DEF NetInv, NetLine, ThreadInv
  <2>2. ASSUME NEW a \in Lines, a.kind = "ANSWER", uart' = Append(uart, a)
        PROVE  FALSE
    <3>1. j \in 1 .. Len(uart) \/ j = Len(uart) + 1
      BY <1>0, <2>2, AppendLine
    <3> QED
      BY <1>0, <2>1, <2>2, <3>1, AppendLine
  <2>3. ASSUME NEW a \in Lines, NEW b \in Lines, a.kind = "ANSWER", a.who = id[s], b.kind # "ANSWER",
               b.kind = "NET" => Step(s).arg = "CREG" /\ b.what = net' /\ Witness(up, net'),
               uart' = Append(Append(uart, b), a)
        PROVE  NetLine(j)'
    <3> DEFINE v == Append(uart, b)
    <3>1. /\ v \in Seq(Lines) /\ Len(v) = Len(uart) + 1 /\ Len(uart) \in Nat
          /\ \A k \in 1 .. Len(uart) : v[k] = uart[k]
          /\ v[Len(uart) + 1] = b
      BY <1>0, AppendLine
    <3>2. uart' = Append(v, a)
      BY <2>3
    <3> HIDE DEF v
    <3>3. /\ Len(uart') = Len(v) + 1
          /\ \A k \in 1 .. Len(v) : uart'[k] = v[k]
          /\ uart'[Len(v) + 1] = a
      BY <3>1, <3>2, AppendLine
    <3>4. j \in 1 .. Len(uart) \/ j = Len(uart) + 1 \/ j = Len(uart) + 2
      BY <3>1, <3>3
    <3>5. j = Len(uart) + 1 /\ b.kind = "NET" /\ uart'[j] = b
      <4>1. j # Len(uart) + 2
        BY <2>3, <3>1, <3>3
      <4>2. j \in 1 .. Len(uart) => uart'[j] = uart[j]
        BY <3>1, <3>3
      <4>3. uart'[Len(uart) + 1] = b
        BY <3>1, <3>3
      <4> QED
        BY <2>1, <3>4, <4>1, <4>2, <4>3
    <3>6. op[s] = "net" /\ op'[s] = "net" /\ id'[s] = id[s]
      <4>1. Is(s, "step", "exec")
        BY <1>1 DEF ExecSend
      <4>2. op[s] = "net"
        BY <2>3, <3>5, <4>1, AtStep DEF Is
      <4> QED
        BY <1>1, <4>2 DEF ExecSend
    <3>7. Len(uart) + 2 \in 1 .. Len(uart') /\ j < Len(uart) + 2 /\ AnswerAt(uart', Len(uart) + 2, id[s])
      BY <2>3, <3>1, <3>3, <3>5 DEF AnswerAt
    <3>8. uart'[j].what # "none" => Registered(s)'
      <4>1. during'[s] = during[s] \cup Facts(up, net')
        BY <2>0, <2>3, <3>5 DEF Witness
      <4>2. b.what = net' /\ b.what \in Nets
        BY <2>3, <3>5 DEF Lines
      <4> QED
        BY <3>5, <4>1, <4>2 DEF Registered, Facts, Nets
    <3> QED
      BY <2>0, <3>6, <3>7, <3>8 DEF NetLine, AnswerAt
  <2> QED
    BY <1>1, <2>1, <2>2, <2>3, ExecLine
<1>2. CASE ~ExecSend(s)
  <2>1. uart' = uart
    <3>1. CASE ExecDone(s) \/ SendPayload(s)
      BY <3>1 DEF ExecDone, SendPayload, lineVars
    <3> QED
      BY <1>2, <3>1, QuietStep
  <2>2. PICK t \in Threads : /\ op[t] = "net" /\ phase[t] = "sent" /\ answer = "none"
                             /\ \E k \in 1 .. Len(uart) : j < k /\ AnswerAt(uart, k, id[t])
    BY <2>1, Zenon DEF NetInv, NetLine
  <2>3. s = t /\ ExecDone(s)
    BY <2>2, NetAlone, SentWaits
  <2> QED
    BY <2>2, <2>3 DEF ExecDone, Silent, AnswerAt
<1> QED
  BY <1>1, <1>2

LEMMA NetOutside ==
    ASSUME CoreInv, AnswerInv, NetInv, Outside \/ UNCHANGED vars
    PROVE  NetInv'
<1> USE DEF CoreInv
<1>0. [Next]_vars /\ uart \in Seq(Lines)
  BY DEF Next, Outside, LineInv
<1>1. UNCHANGED <<op, ip, phase, id, result, module_type>>
  BY OutsideThreads DEF threadVars
<1>2. status' # "dead" => \A j \in 1 .. Len(uart') : uart'[j].kind = "NET" => NetLine(j)'
  BY NetLinesOutside
<1>3. ASSUME "flags" \notin races', NEW t \in Threads, op[t] = "net", module_type # "ESP8266"
      PROVE  NetOf(t)'
  <2>1. NetOf(t) /\ phase[t] # "idle"
    BY <1>0, <1>3, RacesGrow DEF NetInv, ThreadInv, Placed
  <2>2. Registered(t) => Registered(t)'
    BY <1>0, <1>1, <2>1, DuringNext DEF Registered
  <2>3. Past' = Past
    BY <1>1 DEF Past
  <2>4. "READY" \in sg_flags' => "READY" \in sg_flags \/ Registered(t)
    <3>1. CASE UrcStore
      <4>1. uart # <<>> /\ status # "dead" /\ Head(uart).kind \in FlagUrcs /\ sg_flags' = AfterUrc(sg_flags, Head(uart))
        BY <1>3, <3>1 DEF UrcStore, ReadyInv, Lossy
      <4>2. CASE Head(uart).kind = "NET" /\ Head(uart).what # "none"
        <5>1. Head(uart) = uart[1] /\ 1 \in 1 .. Len(uart)
          BY <1>0, <4>1, TailLine
        <5>2. PICK r \in Threads : op[r] = "net" /\ Registered(r)
          BY <4>1, <4>2, <5>1 DEF NetInv, NetLine
        <5>3. r = t
          <6>1. phase[r] # "idle" /\ "net" \in Setup
            BY <5>2 DEF ThreadInv, Placed, Setup
          <6> QED
            BY <1>3, <2>1, <5>2, <6>1 DEF ThreadInv
        <5> QED
          BY <5>2, <5>3
      <4>3. CASE Head(uart).kind = "NET" /\ Head(uart).what = "none"
        BY <4>1, <4>3 DEF AfterUrc
      <4>4. CASE Head(uart).kind # "NET"
        BY <4>1, <4>4 DEF AfterUrc, FlagUrcs
      <4> QED
        BY <4>2, <4>3, <4>4
    <3>2. CASE ~UrcStore
      BY <3>2 DEF Outside, module_init, UrcRead, ParseLine, SendUrc, DropConnection, ForwardMessage, vars, flagVars
    <3> QED
      BY <3>1, <3>2
  <2> QED
    BY <1>1, <2>1, <2>2, <2>3, <2>4 DEF NetOf
<1> QED
  BY <1>1, <1>2, <1>3 DEF NetInv

LEMMA NetThread ==
    ASSUME CoreInv, AnswerInv, NetInv, NEW s \in Threads, Call(s) \/ ThreadSteps(s)
    PROVE  NetInv'
<1> USE DEF CoreInv
<1>0. [Next]_vars /\ Own(s)
  BY OwnStep DEF Next, ThreadSteps, ThreadInv
<1>1. status' = status
  BY ThreadLeaves
<1>2. status' # "dead" => \A j \in 1 .. Len(uart') : uart'[j].kind = "NET" => NetLine(j)'
  BY <1>1, NetLinesThread
<1>3. \A t \in Threads : op'[t] = "net" /\ op[t] # "net" => Call(t) /\ t = s
  <2>1. \A t \in Threads \ {s} : op'[t] = op[t]
    BY <1>0 DEF Own, ThreadInv, ThreadTypes
  <2>2. ThreadSteps(s) /\ ~Return(s) => op'[s] = op[s]
    BY CallGoesOn DEF GoesOn
  <2>3. Return(s) => op'[s] = "none"
    BY DEF Return, ThreadInv, ThreadTypes
  <2> QED
    BY <2>1, <2>2, <2>3
<1>4. ASSUME Call(s)
      PROVE  (op'[s] = "net" => module_type' # "any" /\ ip'[s] = 1) /\ \A t \in Threads : op'[t] = "net" => t = s
  <2>1. op'[s] = "net" => module_type' # "any"
    BY <1>4, ApiAssumption DEF Call, ThreadInv, ThreadTypes
  <2>2. ip'[s] = 1
    BY <1>4 DEF Call, Advance, ThreadInv, ThreadTypes
  <2>3. \A t \in Threads : op[t] # "net"
    BY <1>4, NetAlone, SentWaits DEF ThreadInv, Placed, Call
  <2> QED
    BY <1>3, <2>1, <2>2, <2>3
<1>5. ASSUME ThreadSteps(s), NEW t \in Threads, op'[t] = "net"
      PROVE  t = s /\ op[s] = "net" /\ ~Return(s) /\ module_type' = module_type
  <2>0. phase[s] # "idle"
    BY <1>5, ThreadLeaves
  <2>1. op[t] = "net"
    BY <1>3, <1>5, <2>0 DEF Call
  <2>2. t = s
    BY <1>5, <2>1, NetAlone
  <2>3. ~Return(s)
    BY <1>5, <2>2 DEF Return, ThreadInv, ThreadTypes
  <2> QED
    BY <1>5, <2>1, <2>2, <2>3, CallGoesOn DEF GoesOn
<1>6. \A t \in Threads : op'[t] = "net" => module_type' # "any"
  BY <1>4, <1>5 DEF NetInv
<1>7. ASSUME "flags" \notin races', NEW t \in Threads, op'[t] = "net", module_type' # "ESP8266"
      PROVE  NetOf(t)'
  <2>1. CASE Call(s)
    <3>1. ip'[t] = 1 /\ Past' \in 6 .. 7
      BY <1>4, <1>7, <2>1 DEF Past
    <3> QED
      BY <3>1 DEF NetOf
  <2>2. CASE ThreadSteps(s)
    <3>1. t = s /\ op[t] = "net" /\ ~Return(t) /\ module_type' = module_type /\ ThreadSteps(t)
      BY <1>5, <1>7, <2>2
    <3>2. module_type \in {"N21", "L206D"}
      BY <1>7, <3>1 DEF NetInv, ThreadInv, ThreadTypes, Modules
    <3>3. /\ ip'[t] >= 2 => ip[t] >= 2 \/ "READY" \notin sg_flags'
          /\ ip'[t] >= Past /\ result'[t] = "SUCCESS" =>
                (ip[t] >= Past /\ result[t] = "SUCCESS") \/ (ip[t] >= 2 /\ "READY" \in sg_flags)
      BY <3>1, <3>2, NetMoves
    <3>4. NetOf(t)
      BY <1>0, <1>7, <3>1, RacesGrow DEF NetInv
    <3>5. Registered(t) => Registered(t)'
      <4>1. phase[t] # "idle" /\ phase'[t] # "idle"
        BY <3>1, CallGoesOn DEF GoesOn
      <4> QED
        BY <1>0, <4>1, DuringNext DEF Registered
    <3>6. "READY" \in sg_flags' => "READY" \in sg_flags
        BY <1>0, <1>7, <2>2, ThreadLeaves, FlagMoves
    <3>7. Past' = Past
      BY <3>1 DEF Past
    <3> QED
      BY <3>3, <3>4, <3>5, <3>6, <3>7 DEF NetOf
  <2> QED
    BY <2>1, <2>2
<1> QED
  BY <1>2, <1>6, <1>7 DEF NetInv

\* What IOT_MQTT_IsConnected and module_register_network answer was true at some
\* moment of the call, or is the false of a query that failed in it, unless an update
\* of sg_flags was lost.
THEOREM AnswersAreOfTheCall == Spec => []AnswersFromTheCall
<1> DEFINE Inv == CoreInv /\ StateInv /\ AnswerInv /\ NetInv
<1>1. Init => Inv
  <2> SUFFICES ASSUME Init PROVE StateInv /\ AnswerInv /\ NetInv
    BY CoreInit
  <2>1. /\ uart = <<>> /\ \A t \in Threads : op[t] = "none" /\ phase[t] = "idle"
    BY DEF Init
  <2> QED
    BY <2>1 DEF StateInv, AnswerInv, NetInv
<1>2. Inv /\ [Next]_vars => Inv'
  BY CoreNext, StateNext, StepKinds, AnswerOutside, AnswerThread, NetOutside, NetThread
<1>3. Inv => AnswersFromTheCall
  <2> SUFFICES ASSUME Inv, NEW t \in Threads, Ended(t), "flags" \notin races
               PROVE  /\ (op[t] = "is_connected" /\ result[t] = "TRUE") => "up" \in during[t]
                      /\ (op[t] = "is_connected" /\ result[t] # "TRUE") => {"down", "failed"} \cap during[t] # {}
                      /\ (op[t] = "net" /\ result[t] = "SUCCESS" /\ module_type # "ESP8266") => Registered(t)
    BY DEF AnswersFromTheCall, Registered
  <2>1. ASSUME op[t] = "is_connected"
        PROVE  /\ result[t] = "TRUE" => "up" \in during[t]
               /\ result[t] # "TRUE" => {"down", "failed"} \cap during[t] # {}
    <3>1. ip[t] = 3
      BY <2>1, AtState DEF CoreInv
    <3>2. StateOf(t)
      BY <2>1 DEF StateInv
    <3> QED
      BY <3>1, <3>2 DEF StateOf, Said
  <2>2. ASSUME op[t] = "net", result[t] = "SUCCESS", module_type # "ESP8266"
        PROVE  Registered(t)
    <3>1. module_type \in {"N21", "L206D"}
      BY <2>2 DEF NetInv, CoreInv, ThreadInv, ThreadTypes, Modules
    <3>2. ip[t] >= Past
      BY <2>2, <3>1, AtNet DEF CoreInv
    <3>3. NetOf(t)
      BY <2>2 DEF NetInv
    <3> QED
      BY <2>2, <3>2, <3>3 DEF NetOf
  <2> QED
    BY <2>1, <2>2
<1> QED
  BY <1>1, <1>2, <1>3, PTL DEF Spec

=============================================================================
