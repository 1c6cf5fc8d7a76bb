------------------------------ MODULE ModuleApi ------------------------------
(***************************************************************************)
(* The calls of src/module_at/module_api_inf.c and the table of handlers   *)
(* of src/mqtt/mqtt.c: threads send commands and wait for flags, which the *)
(* parser thread sets when it meets the URC of the outcome.                *)
(*                                                                         *)
(* Every call is a script, a sequence of the few things these functions    *)
(* do: change a flag, execute a command, wait for a flag, register a       *)
(* handler.  A command obeys AtCommand: one at a time, and its own verdict *)
(* or a timeout.  URCs and answers share one line, so that a URC sent      *)
(* before an answer is handled before it.                                  *)
(***************************************************************************)
EXTENDS Integers, Sequences, SequencesExt, FiniteSets

CONSTANTS
    Threads,        \* the threads of the application
    Main,           \* the one that delivers messages
    None,           \* nobody
    Topics,
    MaxTopics,      \* QCLOUD_IOT_MAX_SUB_TOPIC
    RetryTimes,     \* RETRY_TIMES
    ModuleTypes,    \* the modules the SDK is built for
    Ops,            \* the calls Main makes
    WorkerOps,      \* the calls of the other threads
    Faults,         \* "lost": commands; "late": URCs; "discon": the connection drops,
                    \* "power": the module does not power on;
                    \* "nomem": memory is exhausted
    MaxCalls, MaxMsgs   \* bounds on calls and on messages

Calls == {"handshake", "info_set", "conn", "discon", "pub", "publ", "sub", "unsub",
          "is_connected", "net", "server", "cwmod", "log", "deliver"}

ASSUME ApiAssumption ==
    /\ Main \in Threads /\ None \notin Threads
    /\ MaxTopics \in Nat /\ RetryTimes \in Nat /\ MaxCalls \in Nat /\ MaxMsgs \in Nat
    /\ None \notin Topics /\ "refused" \notin Topics
    /\ Ops \cup WorkerOps \subseteq Calls /\ "deliver" \notin WorkerOps
    /\ ModuleTypes \subseteq {"ESP8266", "N21", "L206D"}

-----------------------------------------------------------------------------
(* The scripts.  `fail` says what follows when a command fails or a wait   *)
(* times out: "mark" notes the failure and goes on, "exit" returns it,     *)
(* "ignore" goes on, "again" repeats the step before up to RetryTimes,     *)
(* "else" takes the next step, which success skips, and "last" goes to the *)
(* last step without noting a failure.                                     *)

Clear(f) == [do |-> "clear", arg |-> f, fail |-> "ignore"]
Exec(c, fail) == [do |-> "exec", arg |-> c, fail |-> fail]
Wait(f, fail) == [do |-> "wait", arg |-> f, fail |-> fail]
Do(what) == [do |-> what, arg |-> "none", fail |-> "exit"]

module_handshake == <<Exec("ATE0", "mark"), Exec("GMR", "mark")>>
module_info_set == <<Exec("DEVINFOSET", "mark")>>
module_mqtt_conn == <<Clear("CON"), Exec("CONN", "mark"), Wait("CON", "mark")>>
module_mqtt_discon == <<Exec("DISCONN", "mark")>>
module_mqtt_pub == <<Exec("PUB", "mark")>>

\* Mutant: the payload is sent whatever became of the command.
module_mqtt_publ_Always == <<Do("sign"), Exec("PUBL", "ignore"), Do("payload"), Do("unsign")>>

\* module_mqtt_publ reports success whatever happens.
module_mqtt_publ == <<Do("sign"), Exec("PUBL", "last"), Do("payload"), Do("unsign")>>

\* Mutant: the handler is registered once the subscription is confirmed.
module_mqtt_sub_RegisterLast ==
    <<Clear("SUB"), Exec("SUB", "mark"), Wait("SUB", "mark"), Do("register"), Clear("SUB")>>

\* Mutant: the command is taken for the subscription.
module_mqtt_sub_NoWait == <<Do("register"), Clear("SUB"), Exec("SUB", "mark"), Clear("SUB")>>

module_mqtt_sub ==
    <<Do("register"), Clear("SUB"), Exec("SUB", "mark"), Wait("SUB", "mark"), Clear("SUB")>>

module_mqtt_unsub == <<Exec("UNSUB", "mark")>>

IOT_MQTT_IsConnected == <<Exec("STATE", "exit"), Do("state")>>
wifi_set_test_server_ip == <<Clear("WIFI"), Exec("SRV", "mark")>>
wifi_set_cwmod == <<Clear("WIFI"), Exec("CWMODE", "mark")>>
wifi_set_debug_level == <<Clear("WIFI"), Exec("LOG", "mark")>>
wifi_connect == <<Clear("WIFI"), Exec("CWJAP", "ignore"), Wait("WIFI", "mark")>>

N21_net_reg ==
    <<Clear("READY"), Exec("CREG", "exit"), Wait("READY", "again"),
      Exec("CREG", "exit"), Wait("READY", "exit"), Exec("XIIC", "mark")>>

L206_net_reg ==
    <<Clear("READY"), Clear("REG"), Exec("CREG", "exit"), Wait("READY", "again"),
      Exec("CREG", "exit"), Wait("READY", "exit"),
      Wait("REG", "else"), Exec("REGNET", "mark"), Wait("REG", "exit")>>

\* For the ESP8266 the result of wifi_set_cwmod is overwritten.
module_register_network(m) ==
    CASE m = "N21" -> N21_net_reg
      [] m = "L206D" -> L206_net_reg
      [] OTHER -> <<Clear("WIFI"), Exec("CWMODE", "ignore")>> \o wifi_connect

deliver_message == <<Do("deliver")>>

Script(m, o) ==
    CASE o = "handshake" -> module_handshake
      [] o = "info_set" -> module_info_set
      [] o = "conn" -> module_mqtt_conn
      [] o = "discon" -> module_mqtt_discon
      [] o = "pub" -> module_mqtt_pub
      [] o = "publ" -> module_mqtt_publ
      [] o = "sub" -> module_mqtt_sub
      [] o = "unsub" -> module_mqtt_unsub
      [] o = "is_connected" -> IOT_MQTT_IsConnected
      [] o = "net" -> module_register_network(m)
      [] o = "server" -> wifi_set_test_server_ip
      [] o = "cwmod" -> wifi_set_cwmod
      [] o = "log" -> wifi_set_debug_level
      [] o = "deliver" -> deliver_message

-----------------------------------------------------------------------------
VARIABLES
    module_type,                \* "any" until a call depends on it
    sg_flags, end_sign,         \* the flags that are set; a prompt is awaited
    sg_msg_handlers,            \* the topics of the table, None where it is free
    sg_mqtt_lock,
    status,                     \* "off", "on" or, once the parser has ended, "dead"
    op, topic, ip, phase,       \* the threads: call, its topic, step, place in it
    id, result, reg, tries,     \* its number, result, flags as read, retries
    busy, answer,               \* the command under way, the verdict received
    preg, storing,              \* the parser between reading and storing sg_flags
    msgs,                       \* pMsgList
    uart, owed,                 \* what the module has sent, and what it will send
    up, net, subs, data_mode,   \* the module: connection, network, topics, publication
    calls, sent,                \* calls and messages so far
    during,                     \* during[t]: what happened during t's call
    gaveup, races               \* a subscription timed out; accesses that overlapped

flagVars == <<sg_flags, preg, storing>>
tableVars == <<sg_msg_handlers, sg_mqtt_lock>>
threadVars == <<op, topic, ip, phase, id, result, reg, tries>>
lineVars == <<busy, answer, uart, owed>>
modVars == <<up, net, subs, data_mode>>
ghostVars == <<during, gaveup, races>>
vars == <<module_type, flagVars, end_sign, tableVars, status, threadVars, lineVars, modVars,
          msgs, calls, sent, ghostVars>>

Init ==
    /\ module_type = "any"
    /\ sg_flags = {} /\ preg = {} /\ storing = FALSE
    /\ end_sign = FALSE
    /\ sg_msg_handlers = [i \in 1 .. MaxTopics |-> None]
    /\ sg_mqtt_lock = FALSE
    /\ status = "off"
    /\ op = [t \in Threads |-> "none"]
    /\ topic = [t \in Threads |-> None]
    /\ ip = [t \in Threads |-> 1]
    /\ phase = [t \in Threads |-> "idle"]
    /\ id = [t \in Threads |-> 0]
    /\ result = [t \in Threads |-> "SUCCESS"]
    /\ reg = [t \in Threads |-> {}]
    /\ tries = [t \in Threads |-> 0]
    /\ busy = None /\ answer = "none" /\ uart = <<>> /\ owed = {}
    /\ up = FALSE /\ net = "none" /\ subs = {} /\ data_mode = None
    /\ msgs = <<>> /\ calls = 0 /\ sent = 0
    /\ during = [t \in Threads |-> {}]
    /\ gaveup = FALSE /\ races = {}

Urc(kind, who, what) == [kind |-> kind, who |-> who, what |-> what]

Facts(u, n) == (IF u THEN {"up"} ELSE {"down"}) \cup (IF n # "none" THEN {n} ELSE {})

\* Every call under way witnesses what the module becomes.
Witness(u, n) ==
    during' = [t \in Threads |-> IF phase[t] = "idle" THEN {} ELSE during[t] \cup Facts(u, n)]

At(t, place) ==
    phase[t] # "idle" /\ phase[t] = place /\ ip[t] <= Len(Script(module_type, op[t]))
Step(t) == Script(module_type, op[t])[ip[t]]
Is(t, place, do) == At(t, place) /\ Step(t).do = do

Advance(t, n) ==
    /\ ip' = [ip EXCEPT ![t] = n]
    /\ phase' = [phase EXCEPT ![t] = "step"]

Succeed(t) ==
    /\ Advance(t, ip[t] + (IF Step(t).fail = "else" THEN 2 ELSE 1))
    /\ UNCHANGED <<result, tries>>

\* What a call that fails returns.  IOT_MQTT_IsConnected answers false, as if
\* the module had said that it is not connected.
Failure(t) == IF op[t] = "is_connected" THEN "FALSE" ELSE "FAILURE"

\* Mutant: the failure of a wait is not noted.
Fail_WaitIgnored(t) ==
    /\ Advance(t, ip[t] + 1)
    /\ result' = [result EXCEPT ![t] = IF Step(t).do = "wait" THEN @ ELSE Failure(t)]
    /\ UNCHANGED tries

Fail(t) ==
    LET end == Len(Script(module_type, op[t])) f == Step(t).fail
        again == f = "again" /\ tries[t] + 1 < RetryTimes
    IN /\ Advance(t, IF again THEN ip[t] - 1
                     ELSE IF f = "exit" THEN end + 1
                     ELSE IF f = "last" THEN end
                     ELSE ip[t] + 1)
       /\ tries' = [tries EXCEPT ![t] = IF f = "again" THEN @ + 1 ELSE @]
       /\ result' = [result EXCEPT ![t] = IF f \in {"mark", "exit"} THEN Failure(t) ELSE @]

-----------------------------------------------------------------------------
(* module_init, calls and returns.                                         *)

\* When the module does not power on, the result is what the stack holds.
module_init ==
    /\ status = "off"
    /\ \/ status' = "on"
       \/ "power" \in Faults /\ status' = "dead"
    /\ UNCHANGED <<module_type, flagVars, end_sign, tableVars, threadVars, lineVars, modVars,
                   msgs, calls, sent, ghostVars>>

Subscribing(t) == phase[t] # "idle" /\ op[t] = "sub"

\* The samples configure the module (net_prepare) in one thread, while no other
\* uses it.
Setup == {"handshake", "info_set", "net", "server", "cwmod", "log"}
MayMeet(o, t) == \A s \in Threads \ {t} : phase[s] # "idle" => {o, op[s]} \cap Setup = {}

Call(t) ==
    /\ status # "off"
    /\ phase[t] = "idle" /\ calls < MaxCalls
    /\ \E o \in IF t = Main THEN Ops ELSE WorkerOps :
          /\ MayMeet(o, t) /\ (o = "deliver" => msgs # <<>>)
          /\ op' = [op EXCEPT ![t] = o]
          /\ module_type' \in IF o = "net" /\ module_type = "any" THEN ModuleTypes ELSE {module_type}
          /\ \E x \in IF o \in {"sub", "unsub"} THEN Topics ELSE {None} :
                topic' = [topic EXCEPT ![t] = x]
          /\ races' = IF o = "sub" /\ \E s \in Threads : Subscribing(s)
                      THEN races \cup {"sub"} ELSE races
    /\ calls' = calls + 1
    /\ id' = [id EXCEPT ![t] = calls + 1]
    /\ Advance(t, 1)
    /\ during' = [during EXCEPT ![t] = Facts(up, net)]
    /\ UNCHANGED <<flagVars, end_sign, tableVars, status, result, reg, tries,
                   lineVars, modVars, msgs, sent, gaveup>>

\* The call is about to return result[t].
Ended(t) == phase[t] = "step" /\ ip[t] > Len(Script(module_type, op[t]))

Return(t) ==
    /\ Ended(t)
    /\ phase' = [phase EXCEPT ![t] = "idle"]
    /\ op' = [op EXCEPT ![t] = "none"]
    /\ topic' = [topic EXCEPT ![t] = None]
    /\ result' = [result EXCEPT ![t] = "SUCCESS"]
    /\ tries' = [tries EXCEPT ![t] = 0]
    /\ ip' = [ip EXCEPT ![t] = 1]
    /\ id' = [id EXCEPT ![t] = 0]
    /\ during' = [during EXCEPT ![t] = {}]
    /\ UNCHANGED <<module_type, flagVars, end_sign, tableVars, status, reg, lineVars, modVars,
                   msgs, calls, sent, gaveup, races>>

-----------------------------------------------------------------------------
(* clearFlag and waitFlag in the threads.  The store uses the flags read   *)
(* before it.                                                              *)

\* A store over flags that changed since they were read undoes that change.
Lossy(f) == races' = IF f # sg_flags THEN races \cup {"flags"} ELSE races

ClearRead(t) ==
    /\ Is(t, "step", "clear")
    /\ reg' = [reg EXCEPT ![t] = sg_flags]
    /\ phase' = [phase EXCEPT ![t] = "rmw"]
    /\ UNCHANGED <<module_type, flagVars, end_sign, tableVars, status, op, topic, ip, id, result,
                   tries, lineVars, modVars, msgs, calls, sent, ghostVars>>

clearFlag(t) ==
    /\ Is(t, "rmw", "clear")
    /\ sg_flags' = reg[t] \ {Step(t).arg}
    /\ Lossy(reg[t])
    /\ reg' = [reg EXCEPT ![t] = {}]
    /\ Succeed(t)
    /\ UNCHANGED <<module_type, preg, storing, end_sign, tableVars, status, op, topic, id,
                   lineVars, modVars, msgs, calls, sent, during, gaveup>>

waitFlag(t) ==
    /\ Is(t, "step", "wait")
    /\ Step(t).arg \in sg_flags
    /\ Succeed(t)
    /\ UNCHANGED <<module_type, flagVars, end_sign, tableVars, status, op, topic, id, reg,
                   lineVars, modVars, msgs, calls, sent, ghostVars>>

\* The URC that sets flag f is still to come.
Coming(f) == \E u \in owed \cup {uart[k] : k \in 1 .. Len(uart)} :
    u.kind = f \/ (f \in {"READY", "REG"} /\ u.kind = "NET")

\* Mutant: there is no timer.
WaitExpired_Never(t) == FALSE /\ UNCHANGED vars

WaitExpired(t) ==
    /\ Is(t, "step", "wait")
    /\ \/ "late" \in Faults \/ status = "dead"
       \/ Step(t).arg \notin sg_flags /\ ~Coming(Step(t).arg)
    /\ gaveup' = (gaveup \/ Step(t).arg = "SUB")
    /\ Fail(t)
    /\ UNCHANGED <<module_type, flagVars, end_sign, tableVars, status, op, topic, id, reg,
                   lineVars, modVars, msgs, calls, sent, during, races>>

-----------------------------------------------------------------------------
(* at_exec_cmd, by its contract, and the module that takes the command.    *)

\* What a command makes the module do: the lines before its answer, the URCs
\* that follow when the outcome is known.
LinesBefore(c, t, n) ==
    CASE c = "STATE" -> <<Urc("STATE", id[t], IF up THEN "1" ELSE "0")>>
      [] c = "CREG" -> <<Urc("NET", id[t], n)>>
      [] c = "CWJAP" -> <<Urc("WIFI", id[t], "done")>>
      [] OTHER -> <<>>

\* The network the module has found or lost by the time it is asked for it.
Network(c) ==
    IF c # "CREG" THEN {net}
    ELSE IF module_type = "N21" THEN {"none", "attached"} ELSE {"none", "attached", "ready"}

\* A connection or a subscription may be refused, which its URC says.
UrcsAfter(c, t, good) ==
    CASE c = "CONN" -> {Urc("CON", id[t], IF good THEN "done" ELSE "refused")}
      [] c = "SUB" -> {Urc("SUB", id[t], IF good THEN topic[t] ELSE "refused")}
      [] c = "REGNET" -> {Urc("REG", id[t], "done")}
      [] c = "DISCONN" -> {Urc("DISCON", id[t], "done")}
      [] OTHER -> {}

ExecSend(t) ==
    /\ Is(t, "step", "exec")
    /\ busy = None
    /\ races' = IF \E s \in Threads : Is(s, "step", "payload") THEN races \cup {"payload"} ELSE races
    /\ busy' = t /\ answer' = "none"
    /\ phase' = [phase EXCEPT ![t] = "sent"]
    /\ LET c == Step(t).arg IN
       \/ /\ data_mode = None
          /\ net' \in Network(c)
          /\ Witness(up, net')
          /\ uart' = uart \o LinesBefore(c, t, net') \o <<Urc("ANSWER", id[t], "ok")>>
          /\ \E good \in IF c \in {"CONN", "SUB"} THEN BOOLEAN ELSE {TRUE} :
                owed' = owed \cup UrcsAfter(c, t, good)
          /\ data_mode' = IF c = "PUBL" THEN t ELSE None
          /\ subs' = IF c = "UNSUB" THEN subs \ {topic[t]} ELSE subs
       \/ /\ data_mode = None
          /\ uart' = Append(uart, Urc("ANSWER", id[t], "error"))
          /\ UNCHANGED <<owed, net, data_mode, subs, during>>
       \/ /\ data_mode = None /\ "lost" \in Faults
          /\ UNCHANGED <<uart, owed, net, data_mode, subs, during>>
       \/ /\ data_mode # None       \* the module takes the command for the payload
          /\ data_mode' = None
          /\ UNCHANGED <<uart, owed, net, subs, during>>
    /\ UNCHANGED <<module_type, flagVars, end_sign, tableVars, status, op, topic, ip, id, result,
                   reg, tries, up, msgs, calls, sent, gaveup>>

\* The answer can no longer come.
Silent(t) == status = "dead" \/ \A k \in 1 .. Len(uart) :
                                   ~(uart[k].kind = "ANSWER" /\ uart[k].who = id[t])

ExecDone(t) ==
    /\ Is(t, "sent", "exec")
    /\ \/ answer = "ok" /\ Succeed(t) /\ UNCHANGED during
       \/ /\ answer = "error" \/ (answer = "none" /\ Silent(t))      \* or the deadline
          /\ Fail(t)
          /\ during' = [during EXCEPT ![t] = @ \cup {"failed"}]
    /\ busy' = None /\ answer' = "none"
    /\ UNCHANGED <<module_type, flagVars, end_sign, tableVars, status, op, topic, id, reg,
                   uart, owed, modVars, msgs, calls, sent, gaveup, races>>

\* at_client_send of the payload, without the lock of the command.
SendPayload(t) ==
    /\ Is(t, "step", "payload")
    /\ data_mode' = None
    /\ Succeed(t)
    /\ UNCHANGED <<module_type, flagVars, end_sign, tableVars, status, op, topic, id, reg,
                   lineVars, up, net, subs, msgs, calls, sent, ghostVars>>

SetEndSign(t) ==
    /\ \/ Is(t, "step", "sign") /\ end_sign' = TRUE
       \/ Is(t, "step", "unsign") /\ end_sign' = FALSE
    /\ Succeed(t)
    /\ UNCHANGED <<module_type, flagVars, tableVars, status, op, topic, id, reg, lineVars,
                   modVars, msgs, calls, sent, ghostVars>>

ReadState(t) ==
    /\ Is(t, "step", "state")
    /\ result' = [result EXCEPT ![t] = IF "STATE" \in sg_flags THEN "TRUE" ELSE "FALSE"]
    /\ Advance(t, ip[t] + 1)
    /\ UNCHANGED <<module_type, flagVars, end_sign, tableVars, status, op, topic, id, reg, tries,
                   lineVars, modVars, msgs, calls, sent, ghostVars>>

-----------------------------------------------------------------------------
(* sg_mqtt_lock, register_sub_topic and deliver_message.                   *)

Needs(t) == Is(t, "step", "register") \/ Is(t, "step", "deliver")

\* A thread that finds the lock taken gives up: the subscription fails, or the
\* message is dropped.
TestLock(t) ==
    /\ Needs(t)
    /\ IF sg_mqtt_lock
       THEN /\ Fail(t)
            /\ msgs' = IF op[t] = "deliver" THEN Tail(msgs) ELSE msgs
            /\ UNCHANGED races
       ELSE /\ phase' = [phase EXCEPT ![t] = "tested"]
            /\ races' = IF \E s \in Threads : phase[s] = "tested" THEN races \cup {"lock"} ELSE races
            /\ UNCHANGED <<ip, result, tries, msgs>>
    /\ UNCHANGED <<module_type, flagVars, end_sign, tableVars, status, op, topic, id, reg,
                   lineVars, modVars, calls, sent, during, gaveup>>

SetLock(t) ==
    /\ At(t, "tested")
    /\ sg_mqtt_lock' = TRUE
    /\ phase' = [phase EXCEPT ![t] = "locked"]
    /\ UNCHANGED <<module_type, flagVars, end_sign, sg_msg_handlers, status, op, topic, ip, id,
                   result, reg, tries, lineVars, modVars, msgs, calls, sent, ghostVars>>

Slots(x) == {i \in 1 .. MaxTopics : sg_msg_handlers[i] = x}
First(S) == CHOOSE i \in S : \A j \in S : i <= j

\* Mutant: a full table is reported before the lock is released.
register_sub_topic_KeepsLock(t) ==
    /\ Is(t, "locked", "register")
    /\ LET S == IF Slots(topic[t]) # {} THEN Slots(topic[t]) ELSE Slots(None) IN
       IF S = {} THEN Fail(t) /\ UNCHANGED <<sg_msg_handlers, sg_mqtt_lock>>
       ELSE /\ sg_msg_handlers' = [sg_msg_handlers EXCEPT ![First(S)] = topic[t]]
            /\ sg_mqtt_lock' = FALSE
            /\ Succeed(t)
    /\ UNCHANGED <<module_type, flagVars, end_sign, status, op, topic, id, reg,
                   lineVars, modVars, msgs, calls, sent, ghostVars>>

\* The entry of the topic, or a free one; the table may be full, and the copy of
\* the topic may find no memory.  No caller passes a null handler.
register_sub_topic(t) ==
    /\ Is(t, "locked", "register")
    /\ LET S == IF Slots(topic[t]) # {} THEN Slots(topic[t]) ELSE Slots(None) IN
       \/ (S = {} \/ "nomem" \in Faults) /\ Fail(t) /\ UNCHANGED sg_msg_handlers
       \/ /\ S # {}
          /\ sg_msg_handlers' = [sg_msg_handlers EXCEPT ![First(S)] = topic[t]]
          /\ Succeed(t)
    /\ sg_mqtt_lock' = FALSE
    /\ UNCHANGED <<module_type, flagVars, end_sign, status, op, topic, id, reg,
                   lineVars, modVars, msgs, calls, sent, ghostVars>>

\* The first handler that matches is called; without one the message is
\* dropped, with success.
Dispatch(t) ==
    /\ Is(t, "locked", "deliver")
    /\ msgs' = Tail(msgs)
    /\ sg_mqtt_lock' = FALSE
    /\ Succeed(t)
    /\ UNCHANGED <<module_type, flagVars, end_sign, sg_msg_handlers, status, op, topic, id, reg,
                   lineVars, modVars, calls, sent, ghostVars>>

-----------------------------------------------------------------------------
(* The parser thread: answers, and the handlers of the URCs.               *)

FlagUrcs == {"CON", "SUB", "STATE", "NET", "WIFI", "REG"}

\* The flags after the handler of u, from the flags it read.
AfterUrc(f, u) ==
    CASE u.kind \in {"CON", "SUB", "WIFI", "REG"} -> f \cup {u.kind}
      [] u.kind = "STATE" -> IF u.what = "1" THEN f \cup {"STATE"} ELSE f \ {"STATE"}
      [] u.kind = "NET" -> CASE u.what = "ready" -> f \cup {"READY", "REG"}
                             [] u.what = "attached" -> f \cup {"READY"}
                             [] OTHER -> f \ {"READY", "REG"}

UrcRead ==
    /\ status = "on" /\ ~storing
    /\ uart # <<>> /\ Head(uart).kind \in FlagUrcs
    /\ preg' = sg_flags
    /\ storing' = TRUE
    /\ UNCHANGED <<module_type, sg_flags, end_sign, tableVars, status, threadVars, lineVars,
                   modVars, msgs, calls, sent, ghostVars>>

Verdict(u) == IF u.what = "refused" THEN "refused" ELSE "granted"

\* The handlers of a connection and of a subscription set the flag whatever the
\* URC says.
UrcStore ==
    /\ storing
    /\ sg_flags' = AfterUrc(preg, Head(uart))
    /\ Lossy(preg)
    /\ during' = [t \in Threads |-> IF Head(uart).kind = "SUB" /\ Head(uart).who = id[t]
                                    THEN during[t] \cup {Verdict(Head(uart))} ELSE during[t]]
    /\ preg' = {} /\ storing' = FALSE
    /\ uart' = Tail(uart)
    /\ UNCHANGED <<module_type, end_sign, tableVars, status, threadVars, busy, answer, owed,
                   modVars, msgs, calls, sent, gaveup>>

\* The disconnect handler destroys the thread that runs it.
ParseLine ==
    /\ status = "on" /\ ~storing
    /\ uart # <<>> /\ Head(uart).kind \notin FlagUrcs
    /\ LET u == Head(uart) IN
       /\ answer' = IF u.kind = "ANSWER" /\ busy # None /\ u.who = id[busy] THEN u.what ELSE answer
       /\ msgs' = IF u.kind = "PUB" THEN Append(msgs, u.what) ELSE msgs
       /\ status' = IF u.kind = "DISCON" THEN "dead" ELSE "on"
    /\ uart' = Tail(uart)
    /\ UNCHANGED <<module_type, flagVars, end_sign, tableVars, threadVars, busy, owed, modVars,
                   calls, sent, ghostVars>>

-----------------------------------------------------------------------------
(* The module on its own.                                                  *)

SendUrc == \E u \in owed :
    /\ data_mode = None
    /\ owed' = owed \ {u}
    /\ uart' = Append(uart, u)
    /\ up' = CASE u.kind = "CON" /\ u.what # "refused" -> TRUE
              [] u.kind = "DISCON" -> FALSE
              [] OTHER -> up
    /\ net' = IF u.kind = "REG" THEN "ready" ELSE net
    /\ subs' = IF u.kind = "SUB" /\ u.what # "refused" THEN subs \cup {u.what} ELSE subs
    /\ Witness(up', net')
    /\ UNCHANGED <<module_type, flagVars, end_sign, tableVars, status, threadVars, busy, answer,
                   data_mode, msgs, calls, sent, gaveup, races>>

DropConnection ==
    /\ "discon" \in Faults /\ up
    /\ up' = FALSE
    /\ uart' = Append(uart, Urc("DISCON", 0, "done"))
    /\ Witness(FALSE, net)
    /\ UNCHANGED <<module_type, flagVars, end_sign, tableVars, status, threadVars, busy, answer,
                   owed, net, subs, data_mode, msgs, calls, sent,
                   gaveup, races>>

ForwardMessage ==
    /\ sent < MaxMsgs
    /\ sent' = sent + 1
    /\ \E x \in subs : uart' = Append(uart, Urc("PUB", 0, x))
    /\ UNCHANGED <<module_type, flagVars, end_sign, tableVars, status, threadVars, busy, answer,
                   owed, modVars, msgs, calls, ghostVars>>

Next ==
    \/ module_init
    \/ \E t \in Threads :
          \/ Call(t) \/ Return(t)
          \/ ClearRead(t) \/ clearFlag(t) \/ waitFlag(t) \/ WaitExpired(t)
          \/ ExecSend(t) \/ ExecDone(t) \/ SendPayload(t) \/ SetEndSign(t) \/ ReadState(t)
          \/ TestLock(t) \/ SetLock(t) \/ register_sub_topic(t) \/ Dispatch(t)
    \/ UrcRead \/ UrcStore \/ ParseLine
    \/ SendUrc \/ DropConnection \/ ForwardMessage

Spec == Init /\ [][Next]_vars

ThreadSteps(t) ==
    \/ Return(t)
    \/ ClearRead(t) \/ clearFlag(t) \/ waitFlag(t) \/ WaitExpired(t)
    \/ ExecSend(t) \/ ExecDone(t) \/ SendPayload(t) \/ SetEndSign(t) \/ ReadState(t)
    \/ TestLock(t) \/ SetLock(t) \/ register_sub_topic(t) \/ Dispatch(t)

\* Threads run and timers expire, and so does the parser thread until it ends.
\* Nothing is assumed of the module.
FairSpec ==
    /\ Spec
    /\ WF_vars(UrcRead \/ UrcStore \/ ParseLine)
    /\ \A t \in Threads : WF_vars(ThreadSteps(t))

-----------------------------------------------------------------------------
(* Properties.                                                             *)

\* A subscription succeeds only when the module gave its verdict on this very
\* subscription, unless two threads subscribed at the same time or an earlier
\* subscription was given up and its URC came late: MQTT_SUB_FLAG does not say
\* whose it is (module_api_inf.c:276-280, :589-604).  The verdict may be a
\* refusal: urc_mqtt_sub_func sets the flag for +TCMQTTSUB:FAIL too, and the
\* refused subscription returns QCLOUD_RET_SUCCESS.  A lost update of sg_flags
\* breaks the property: a thread that read the flags while an earlier
\* subscription was being answered, and stores them late, sets the flag again.
SubAnswered == \A t \in Threads :
    (Ended(t) /\ op[t] = "sub" /\ result[t] = "SUCCESS")
    => ({"granted", "refused"} \cap during[t] # {} \/ {"sub", "flags"} \cap races # {} \/ gaveup)

\* No call answers from the past, although the flags it reads are set by the
\* parser and survive calls: when IOT_MQTT_IsConnected returns true the module
\* was connected at some moment of the call; when it returns false the module
\* was disconnected at some moment of it, or the query failed in this very call,
\* which callers cannot tell from a disconnection (:670-674).
\* module_register_network succeeds only if the module was registered at some
\* moment of the call (module_api_inf.c:99-156, :184-253, :283-295, :664-681).
\* Only a lost update of sg_flags breaks it.
AnswersFromTheCall == \A t \in Threads :
    (Ended(t) /\ "flags" \notin races)
    => /\ (op[t] = "is_connected" /\ result[t] = "TRUE") => "up" \in during[t]
       /\ (op[t] = "is_connected" /\ result[t] # "TRUE") => {"down", "failed"} \cap during[t] # {}
       /\ (op[t] = "net" /\ result[t] = "SUCCESS" /\ module_type # "ESP8266")
          => {"attached", "ready"} \cap during[t] # {}

\* sg_mqtt_lock is taken exactly while one thread is between taking and
\* releasing it: no path, a full table included, leaves it taken, which would
\* stop every later delivery and subscription.  Two threads are inside only if
\* both tested it before either set it (src/mqtt/mqtt.c:31-98, :196-240).
LockBracketed ==
    LET inside == {t \in Threads : phase[t] = "locked"}
    IN "lock" \notin races => Cardinality(inside) <= 1 /\ (sg_mqtt_lock <=> inside # {})

\* No message of a topic the module subscribed to meets a table without its
\* handler: it is registered before the module hears of the subscription and
\* stays registered (module_api_inf.c:583, src/mqtt/mqtt.c:217-236).
HandlerReady == \A t \in Threads :
    Is(t, "locked", "deliver") => Slots(Head(msgs)) # {} \/ "lock" \in races

\* The payload of a long publication is sent only while the module waits for it,
\* whatever became of the command: else the module takes it for a command.
\* Only a command sent by another thread between the two breaks it
\* (module_api_inf.c:533-567).
PayloadExpected == \A t \in Threads :
    Is(t, "step", "payload") => data_mode = t \/ "payload" \in races

\* Every call returns, though the module may stay silent and though the parser
\* thread has ended (module_api_inf.c:55-74, :270-274).
CallsReturn == \A t \in Threads : phase[t] # "idle" ~> phase[t] = "idle"

=============================================================================
