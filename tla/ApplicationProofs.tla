------------------------- MODULE ApplicationProofs -------------------------
(***************************************************************************)
(* Proofs about Application, for every set of tasks, properties, actions   *)
(* and events and every bound: where the setup has got to when a message   *)
(* may arrive, and what the loop keeps of changes, controls and inputs.    *)
(***************************************************************************)
EXTENDS Application, TLAPS

-----------------------------------------------------------------------------
(* The setup of the tasks, step by step.                                   *)

Templates == {"light", "usr_logic"}

\* The tasks on the data template register last, and only then issue requests.
LEMMA TemplateSetup ==
    ASSUME NEW a \in Templates
    PROVE  /\ Len(Setup(a)) = 16
           /\ Setup(a)[1] = Do("HAL_GetDevInfo", "end")
           /\ Setup(a)[2] = Do("module_init", "no_parser")
           /\ Setup(a)[3] = Do("module_handshake", "end")
           /\ Setup(a)[4] = Do("iot_device_info_init", "end")
           /\ Setup(a)[5] = Do("module_info_set", "end")
           /\ Setup(a)[6] = Do("module_register_network", "end")
           /\ Setup(a)[7] = Do("module_mqtt_conn", "end")
           /\ Setup(a)[8] = Do("IsConnected", "end")
           /\ Setup(a)[9] = Do("init", "partial")
           /\ Setup(a)[10] = Do("subscribe", "on")
           /\ Setup(a)[11] = Do("event_init", "on")
           /\ Setup(a)[12] = Do("action_init", "end")
           /\ Setup(a)[13] = Do("register_property", "destroy")
           /\ Setup(a)[14] = Do("register_action", "destroy")
           /\ Setup(a)[15] = Do("sysinfo", "end")
           /\ Setup(a)[16] = Do("get_status", "end")
<1> USE DEF Setup, net_prepare, Connect, IOT_Template_Construct, register_data_template_property,
            register_data_template_action, Synchronous
<1>1. CASE a = "light"
  BY <1>1 DEF light_data_template_demo_task
<1>2. CASE a = "usr_logic"
  BY <1>2 DEF data_template_demo_task
<1> QED
  BY <1>1, <1>2 DEF Templates

\* mqtt_demo_task subscribes last.
LEMMA MqttSetup ==
    /\ Len(Setup("mqtt")) = 8
    /\ Setup("mqtt")[1] = Do("HAL_GetDevInfo", "end")
    /\ Setup("mqtt")[2] = Do("module_init", "no_parser")
    /\ Setup("mqtt")[3] = Do("module_handshake", "end")
    /\ Setup("mqtt")[4] = Do("iot_device_info_init", "end")
    /\ Setup("mqtt")[5] = Do("module_info_set", "end")
    /\ Setup("mqtt")[6] = Do("module_register_network", "end")
    /\ Setup("mqtt")[7] = Do("module_mqtt_conn", "end")
    /\ Setup("mqtt")[8] = Do("sub_data", "end")
BY DEF Setup, mqtt_demo_task, net_prepare, Connect

\* The parts of a client: what is missing, and that all are there.
LEMMA PartsMade ==
    ASSUME built \in 0 .. 6
    PROVE  /\ Len(Parts) = 6
           /\ built = 6 => {"pMsgList", "property_handle_list", "action_handle_list"} \subseteq Built
           /\ {"action_handle_list"} \subseteq Built => built = 6
<1>1. /\ Len(Parts) = 6
      /\ Parts[1] = "mutex" /\ Parts[2] = "pMsgList" /\ Parts[3] = "property_handle_list"
      /\ Parts[4] = "reply_list" /\ Parts[5] = "event_list" /\ Parts[6] = "action_handle_list"
  BY DEF Parts
<1>2. ASSUME built = 6
      PROVE  {"pMsgList", "property_handle_list", "action_handle_list"} \subseteq Built
  <2>1. 2 \in 1 .. built /\ 3 \in 1 .. built /\ 6 \in 1 .. built
    BY <1>2
  <2>2. Parts[2] \in Built /\ Parts[3] \in Built /\ Parts[6] \in Built
    BY <2>1, Zenon DEF Built
  <2> QED
    BY <1>1, <2>2
<1>3. ASSUME "action_handle_list" \in Built
      PROVE  built = 6
  <2>1. PICK n \in 1 .. built : Parts[n] = "action_handle_list"
    BY <1>3, Zenon DEF Built
  <2>2. n \in 1 .. 6 /\ n # 1 /\ n # 2 /\ n # 3 /\ n # 4 /\ n # 5
    BY <1>1, <2>1
  <2> QED
    BY <2>2
<1> QED
  BY <1>1, <1>2, <1>3

-----------------------------------------------------------------------------
(* The setup.                                                              *)

InTemplate == {"request", "yield", "expire", "wait", "control", "report", "cycle", "event"}
Stops == {"ended", "blocked", "faulted", "crashed"}

\* Where a task can be and what it has set up there.  Nothing reaches the parser
\* before the task has subscribed, which it does once it has made its lists;
\* nothing is handled before the last registration, unless one has failed.
SetupInv ==
    /\ app \in Apps /\ step \in Nat /\ built \in 0 .. 6
    /\ pc \in InTemplate \cup {"setup", "publish"} \cup Stops
    /\ app = "mqtt" => /\ pc \notin InTemplate
                       /\ pc = "setup" => step \in 1 .. 8
    /\ app # "mqtt" => /\ pc # "publish"
                       /\ pc = "crashed" => (step > 9 /\ built < 6) \/ destroyed
                       /\ pc = "setup" => step \in 1 .. 14
                       /\ pc \in InTemplate => step \in 15 .. 17
                       /\ pc \in {"request", "wait"} => step \in 15 .. 16
                       /\ ~Stopped => /\ step <= 9 => subscribed = {}
                                      /\ ~destroyed /\ step > 13 => property_handle_list = Props
                                      /\ ~destroyed /\ step > 14 => /\ built = 6
                                                                    /\ action_handle_list = Actions

\* What a step of the setup of a data template task leaves.
LEMMA TemplateEnter ==
    ASSUME NEW n \in 2 .. 17, app \in Templates, Enter(n)
    PROVE  /\ step' = n /\ app' = app
           /\ n <= 14 => pc' = "setup"
           /\ n \in 15 .. 16 => pc' = "request"
           /\ n = 17 => pc' \in {"yield", "faulted"}
<1>1. n <= 14 => Setup(app)[n].what \notin {"sysinfo", "get_status"}
  BY TemplateSetup DEF Do
<1>2. n \in 15 .. 16 => Setup(app)[n].what \in {"sysinfo", "get_status"}
  BY TemplateSetup DEF Do
<1>3. Len(Setup(app)) = 16 /\ app # "mqtt"
  BY TemplateSetup DEF Templates
<1>4. n <= 16 => pc' = IF Setup(app)[n].what \in {"sysinfo", "get_status"} THEN "request" ELSE "setup"
  BY <1>3 DEF Enter
<1>5. n = 17 => pc' = IF destroyed THEN "faulted" ELSE "yield"
  BY <1>3 DEF Enter
<1> QED
  BY <1>1, <1>2, <1>4, <1>5 DEF Enter

\* The same for mqtt_demo_task.
LEMMA MqttEnter ==
    ASSUME NEW n \in 2 .. 9, app = "mqtt", Enter(n)
    PROVE  /\ step' = n /\ app' = app
           /\ n <= 8 => pc' = "setup"
           /\ n = 9 => pc' = "publish"
<1>1. n <= 8 => Setup(app)[n].what \notin {"sysinfo", "get_status"}
  BY MqttSetup DEF Do
<1>2. Len(Setup(app)) = 8
  BY MqttSetup
<1>3. n <= 8 => pc' = IF Setup(app)[n].what \in {"sysinfo", "get_status"} THEN "request" ELSE "setup"
  BY <1>2 DEF Enter
<1>4. n = 9 => pc' = "publish"
  BY <1>2 DEF Enter
<1> QED
  BY <1>1, <1>3, <1>4 DEF Enter

\* What the steps of the setup do, where it matters.
LEMMA TemplateStep ==
    ASSUME app \in Templates, step \in 1 .. 14
    PROVE  /\ step <= 9 => Topic(Current.what) = {}
           /\ Current.what = "init" <=> step = 9
           /\ Current.what = "register_property" <=> step = 13
           /\ Current.what = "register_action" <=> step = 14
           /\ step < 13 => Needs(Current.what) = {}
           /\ step = 14 => Needs(Current.what) = {"action_handle_list"}
           /\ Needs(Current.what) \subseteq {"property_handle_list", "action_handle_list"}
           /\ Current.fail = "on" => step \in 10 .. 11
           /\ Current.fail = "partial" => step = 9
           /\ Current.fail = "destroy" => step \in 13 .. 14
<1> USE TemplateSetup DEF Current, Do, Topic, Needs
<1>1. step <= 9 => Topic(Current.what) = {}
  OBVIOUS
<1>2. Current.what = "init" <=> step = 9
  OBVIOUS
<1>3. Current.what = "register_property" <=> step = 13
  OBVIOUS
<1>4. Current.what = "register_action" <=> step = 14
  OBVIOUS
<1>5. /\ step < 13 => Needs(Current.what) = {}
      /\ step = 14 => Needs(Current.what) = {"action_handle_list"}
      /\ Needs(Current.what) \subseteq {"property_handle_list", "action_handle_list"}
  BY <1>3, <1>4
<1>6. Current.fail = "on" => step \in 10 .. 11
  OBVIOUS
<1>7. Current.fail = "partial" => step = 9
  OBVIOUS
<1>8. Current.fail = "destroy" => step \in 13 .. 14
  OBVIOUS
<1> QED
  BY <1>1, <1>2, <1>3, <1>4, <1>5, <1>6, <1>7, <1>8

\* Enter never leads to the report.
LEMMA EnterPlaces ==
    ASSUME SetupInv, NEW n, Enter(n), n = step + 1,
           pc = "setup" \/ (pc = "wait" /\ app # "mqtt")
    PROVE  pc' \in {"publish", "yield", "request", "setup", "faulted"}
<1>1. app \in Apps /\ step \in Nat
  BY DEF SetupInv
<1>2. CASE app = "mqtt"
  <2>1. n \in 2 .. 9
    BY <1>1, <1>2 DEF SetupInv
  <2> QED
    BY <1>2, <2>1, MqttEnter
<1>3. CASE app # "mqtt"
  <2>1. app \in Templates /\ n \in 2 .. 17
    BY <1>1, <1>3, ApplicationAssumption DEF SetupInv, Templates
  <2> QED
    BY <2>1, TemplateEnter
<1> QED
  BY <1>2, <1>3

LEMMA MqttStep ==
    ASSUME app = "mqtt", step \in 1 .. 8
    PROVE  /\ Current.fail \in {"end", "no_parser"}
           /\ Needs(Current.what) = {}
BY MqttSetup DEF Current, Do, Needs

LEMMA SetupInit == Init => SetupInv
BY ApplicationAssumption DEF Init, SetupInv, InTemplate, Stops, Stopped

\* The setup keeps its invariant when a step succeeds,
LEMMA SetupOkInv ==
    ASSUME SetupInv, SetupOk
    PROVE  SetupInv'
<1>0. /\ app \in Apps /\ app' \in Apps /\ step \in Nat /\ built \in 0 .. 6 /\ Len(Parts) = 6
      /\ pc = "setup" /\ Enter(step + 1) /\ app' = app /\ step' = step + 1
      /\ Needs(Current.what) \subseteq Built /\ destroyed' = destroyed
  BY PartsMade DEF SetupInv, SetupOk, Enter
<1>1. built' \in 0 .. 6 /\ (built = 6 => built' = 6)
  BY <1>0 DEF SetupOk
<1>2. CASE app = "mqtt"
  <2>1. step + 1 \in 2 .. 9
    BY <1>0, <1>2 DEF SetupInv
  <2>2. /\ step + 1 <= 8 => pc' = "setup"
        /\ step + 1 = 9 => pc' = "publish"
    BY <1>0, <1>2, <2>1, MqttEnter
  <2> QED
    BY <1>0, <1>1, <1>2, <2>1, <2>2 DEF SetupInv, InTemplate
<1>3. CASE app # "mqtt"
  <2>1. app \in Templates /\ step \in 1 .. 14 /\ step + 1 \in 2 .. 17
    BY <1>0, <1>3, ApplicationAssumption DEF Templates, SetupInv
  <2>2. /\ step + 1 <= 14 => pc' = "setup"
        /\ step + 1 \in 15 .. 16 => pc' = "request"
    BY <1>0, <2>1, TemplateEnter
  <2>3. /\ step <= 9 => subscribed = {}
        /\ ~destroyed /\ step > 13 => property_handle_list = Props
    BY <1>0, <1>3 DEF SetupInv, Stopped
  <2>4. step + 1 <= 9 => subscribed' = {}
    BY <2>1, <2>3, TemplateStep DEF SetupOk
  <2>5. ~destroyed /\ step + 1 > 13 => property_handle_list' = Props
    BY <2>1, <2>3, TemplateStep DEF SetupOk
  <2>6. step + 1 > 14 => built' = 6 /\ action_handle_list' = Actions
    <3>1. CASE step = 14
      <4>1. built = 6
        BY <1>0, <2>1, <3>1, TemplateStep, PartsMade
      <4> QED
        BY <1>1, <2>1, <3>1, <4>1, TemplateStep DEF SetupOk
    <3> QED
      BY <2>1, <3>1
  <2> QED
    BY <1>0, <1>1, <1>3, <2>1, <2>2, <2>4, <2>5, <2>6 DEF SetupInv, Stopped, InTemplate, Stops
<1> QED
  BY <1>2, <1>3

\* and when one fails and the task ends, waits for ever or passes it over,
LEMMA SetupFailInv ==
    ASSUME SetupInv, SetupFail
    PROVE  SetupInv'
<1> USE ApplicationAssumption DEF SetupInv, SetupFail, InTemplate, Stops, Stopped, clientVars
<1>1. CASE Goto("ended") \/ Goto("blocked")
  BY <1>1 DEF Goto
<1>2. CASE Current.fail = "on" /\ Enter(step + 1)
  <2>1. app \in Templates /\ step \in 10 .. 11
    BY <1>2, MqttStep, TemplateStep DEF Templates
  <2>2. step' = step + 1 /\ app' = app /\ pc' = "setup"
    BY <1>2, <2>1, TemplateEnter
  <2> QED
    BY <2>1, <2>2 DEF Templates
<1> QED
  BY <1>1, <1>2

\* or goes on with some of its lists,
LEMMA InitFailInv ==
    ASSUME SetupInv, InitFail
    PROVE  SetupInv'
<1>0. pc = "setup" /\ Current.fail = "partial" /\ built \in 0 .. 6 /\ app \in Apps
  BY DEF SetupInv, InitFail
<1>1. app \in Templates /\ step = 9
  <2>1. app # "mqtt"
    BY <1>0, MqttStep DEF SetupInv
  <2>2. app \in Templates /\ step \in 1 .. 14
    BY <1>0, <2>1, ApplicationAssumption DEF SetupInv, Templates
  <2> QED
    BY <1>0, <2>2, TemplateStep
<1>2. step' = 10 /\ app' = app /\ pc' = "setup"
  <2>1. Enter(10) /\ 10 \in 2 .. 17
    BY <1>1 DEF InitFail
  <2> QED
    BY <1>1, <2>1, TemplateEnter
<1>3. built' \in 0 .. 6
  <2>1. Len(Parts) = 6
    BY <1>0, PartsMade
  <2> QED
    BY <2>1 DEF InitFail
<1> QED
  BY <1>0, <1>1, <1>2, <1>3 DEF SetupInv, InTemplate, Stops, Stopped, Templates

\* or with a client it has destroyed.
LEMMA RegisterFailInv ==
    ASSUME SetupInv, RegisterFail
    PROVE  SetupInv'
<1> USE ApplicationAssumption DEF SetupInv, RegisterFail, InTemplate, Stops, Stopped
<1>1. app \in Templates /\ step \in 13 .. 14
  BY MqttStep, TemplateStep DEF Templates
<1>2. step' = step + 1 /\ app' = app /\ pc' = IF step = 13 THEN "setup" ELSE "request"
  BY <1>1, TemplateEnter
<1> QED
  BY <1>1, <1>2 DEF Templates

\* A pointer is followed to a list that is not there only after a failure.
LEMMA CrashInv ==
    ASSUME SetupInv, Crash
    PROVE  SetupInv'
<1> USE ApplicationAssumption DEF SetupInv, Crash, InTemplate, Stops, Stopped, clientVars, cloudVars, Goto
<1>1. CASE destroyed
  BY <1>1
<1>2. CASE pc = "setup" /\ ~(Needs(Current.what) \subseteq Built)
  <2>1. app \in Templates /\ step \in 1 .. 14
    BY <1>2, MqttStep DEF Templates
  <2>2. step >= 13
    BY <1>2, <2>1, TemplateStep
  <2>3. built # 6
    BY <1>2, <2>1, TemplateStep, PartsMade
  <2> QED
    BY <1>2, <2>1, <2>2, <2>3 DEF Templates
<1> QED
  BY <1>1, <1>2

\* The task moves on without touching what the setup is about.
LEMMA SetupKept ==
    ASSUME SetupInv, UNCHANGED <<clientVars, subscribed>>, UNCHANGED taskVars
    PROVE  SetupInv'
BY DEF SetupInv, Stopped, clientVars, taskVars

LEMMA SetupMove ==
    ASSUME SetupInv, UNCHANGED <<clientVars, subscribed>>,
           pc \in InTemplate, NEW p \in InTemplate \cup {"ended", "blocked", "faulted"}, Goto(p),
           p \in {"request", "wait"} => step <= 16
    PROVE  SetupInv'
BY DEF SetupInv, Stopped, Stops, clientVars, Goto, InTemplate

\* Every other step of the task.
LEMMA SetupTask ==
    ASSUME SetupInv, Task, ~SetupOk, ~SetupFail, ~InitFail, ~RegisterFail, ~Crash
    PROVE  SetupInv'
<1> USE DEF InTemplate, cloudVars
<1>1. CASE SyncSend
  BY <1>1, SetupMove DEF SyncSend
<1>2. CASE SyncDone
  <2>1. app \in Templates /\ step \in 15 .. 16 /\ step + 1 \in 2 .. 17
    BY <1>2, ApplicationAssumption DEF SyncDone, SetupInv, Templates
  <2>2. CASE Enter(step + 1)
    <3>1. step' = step + 1 /\ app' = app /\ pc' \in IF step = 15 THEN {"request"} ELSE {"yield", "faulted"}
      BY <2>1, <2>2, TemplateEnter
    <3> QED
      BY <1>2, <2>1, <3>1 DEF SyncDone, SetupInv, Stopped, Stops, clientVars, Templates
  <2>3. CASE Goto("ended") \/ Goto("blocked") \/ Goto("faulted") \/ Goto("yield")
    BY <1>2, <2>3, SetupMove DEF SyncDone
  <2> QED
    BY <1>2, <2>2, <2>3 DEF SyncDone
<1>3. CASE HandleMessage
  BY <1>3, SetupMove, SetupKept DEF HandleMessage
<1>4. CASE NoMessage
  BY <1>4, SetupMove DEF NoMessage
<1>5. CASE Expire
  <2>1. app \in Templates
    BY <1>5, ApplicationAssumption DEF Expire, SetupInv, Templates
  <2>2. InLoop <=> step > 16
    BY <2>1, TemplateSetup DEF InLoop
  <2>3. step \in Nat
    BY DEF SetupInv
  <2> QED
    BY <1>5, <2>2, <2>3, SetupMove DEF Expire
<1>6. CASE ControlReply
  BY <1>6, SetupMove DEF ControlReply
<1>7. CASE NoControl
  BY <1>7, SetupMove DEF NoControl
<1>8. CASE Report
  BY <1>8, SetupMove DEF Report, AfterReport
<1>9. CASE NoReport
  BY <1>9, SetupMove DEF NoReport, AfterReport
<1>10. CASE CycleReport
  BY <1>10, SetupMove DEF CycleReport
<1>11. CASE eventPostCheck
  BY <1>11, SetupMove DEF eventPostCheck
<1>12. CASE Publish
  BY <1>12 DEF Publish, SetupInv, Stopped, Stops, Goto, clientVars
<1> QED
  BY <1>1, <1>2, <1>3, <1>4, <1>5, <1>6, <1>7, <1>8, <1>9, <1>10, <1>11, <1>12 DEF Task

\* The parser: a message that comes before the list is made breaks the program,
\* and can come only where nothing has made it, or not all of it.
LEMMA SetupCloud ==
    ASSUME SetupInv,
           \/ CloudSends("control", "property") \/ CloudSends("call", "action")
           \/ CloudSends("data", "data") \/ CloudReplies
    PROVE  SetupInv'
<1>1. PICK m : Arrive(m) /\ subscribed # {}
  BY DEF CloudSends, CloudReplies
<1>2. CASE "pMsgList" \in Built
  BY <1>1, <1>2, SetupKept DEF Arrive
<1>3. CASE "pMsgList" \notin Built
  <2>1. app # "mqtt" => step > 9 /\ built < 6
    BY <1>1, <1>3, PartsMade DEF SetupInv, Arrive
  <2> QED
    BY <1>1, <1>3, <2>1 DEF Arrive, SetupInv, InTemplate, Stops, Stopped, Goto, clientVars
<1> QED
  BY <1>2, <1>3

LEMMA SetupNext == SetupInv /\ [Next]_vars => SetupInv'
<1> SUFFICES ASSUME SetupInv, [Next]_vars PROVE SetupInv'
  OBVIOUS
<1>1. CASE Task
  BY <1>1, SetupOkInv, SetupFailInv, InitFailInv, RegisterFailInv, CrashInv, SetupTask
<1>2. CASE TimerExpires
  BY <1>2, SetupKept DEF TimerExpires, cloudVars
<1>3. CASE ReplyLost
  BY <1>3, SetupKept DEF ReplyLost
<1>4. CASE UNCHANGED vars
  BY <1>4, SetupKept DEF vars, cloudVars
<1> QED
  BY <1>1, <1>2, <1>3, <1>4, SetupCloud DEF Next

\* Messages find the list they are pushed to and the handlers they are for, except
\* in mqtt_sample.c, which makes no list: a task of the data template crashes only
\* after qcloud_iot_template_init or a registration has failed, and after the
\* former it crashes before it handles any message.
THEOREM MessagesFindTheirPlace == Spec => []ReadyForMessages
<1>1. SetupInv => ReadyForMessages
  <2> SUFFICES ASSUME SetupInv PROVE ReadyForMessages
    OBVIOUS
  <2> USE ApplicationAssumption DEF SetupInv, Stopped
  <2>1. Len(Parts) = 6
    BY PartsMade
  <2>2. ASSUME pc = "crashed" PROVE app = "mqtt" \/ InitFailed \/ destroyed
    <3> SUFFICES ASSUME app # "mqtt", ~destroyed PROVE InitFailed
      OBVIOUS
    <3>1. app \in Templates /\ step > 9 /\ built < 6
      BY <2>2 DEF Templates
    <3>2. 9 \in 1 .. step - 1 /\ Setup(app)[9].what = "init"
      BY <3>1, TemplateSetup DEF Do
    <3> QED
      BY <2>1, <3>1, <3>2 DEF InitFailed
  <2>3. ASSUME pc = "yield", ~destroyed
        PROVE  built = Len(Parts) /\ property_handle_list = Props /\ action_handle_list = Actions
    BY <2>1, <2>3 DEF InTemplate
  <2> QED
    BY <2>2, <2>3 DEF ReadyForMessages
<1> QED
  BY <1>1, SetupInit, SetupNext, PTL DEF Spec

-----------------------------------------------------------------------------
(* Queues.                                                                 *)

\* What Append and Head do to a sequence of anything.
LEMMA AppendAny ==
    ASSUME NEW s, NEW m, \E M : s \in Seq(M)
    PROVE  /\ \E M : Append(s, m) \in Seq(M)
           /\ Len(s) \in Nat
           /\ Len(Append(s, m)) = Len(s) + 1
           /\ \A k \in 1 .. Len(s) : Append(s, m)[k] = s[k]
           /\ Append(s, m)[Len(s) + 1] = m
<1> PICK M : s \in Seq(M)
  OBVIOUS
<1>1. SUFFICES ASSUME NEW N, m \in N, s \in Seq(N)
              PROVE  /\ Append(s, m) \in Seq(N)
                     /\ Len(s) \in Nat
                     /\ Len(Append(s, m)) = Len(s) + 1
                     /\ \A k \in 1 .. Len(s) : Append(s, m)[k] = s[k]
                     /\ Append(s, m)[Len(s) + 1] = m
  <2>1. m \in M \cup {m} /\ s \in Seq(M \cup {m})
    OBVIOUS
  <2> QED
    BY <2>1
<1> QED
  BY <1>1

LEMMA TailAny ==
    ASSUME NEW s, \E M : s \in Seq(M), s # <<>>
    PROVE  /\ \E M : Tail(s) \in Seq(M)
           /\ Len(s) \in Nat \ {0}
           /\ Head(s) = s[1]
           /\ Len(Tail(s)) = Len(s) - 1
           /\ \A k \in 1 .. Len(s) - 1 : Tail(s)[k] = s[k + 1]
<1> PICK M : s \in Seq(M)
  OBVIOUS
<1> QED
  OBVIOUS

-----------------------------------------------------------------------------
(* Changes and controls.                                                   *)

\* Where a step of the task that leaves the controls alone leads.
LEMMA QuietTask ==
    ASSUME SetupInv, Task, ~HandleMessage, ~ControlReply, ~Report, ~CycleReport
    PROVE  /\ ~Stopped
           /\ \/ SyncDone
              \/ UNCHANGED controlVars /\ (pc' = "report" => NoControl)
<1> USE DEF Goto, Stopped
<1>1. CASE SetupOk
  BY <1>1, EnterPlaces DEF SetupOk
<1>2. CASE SetupFail
  <2>1. CASE Goto("ended") \/ Goto("blocked")
    BY <1>2, <2>1 DEF SetupFail
  <2>2. CASE Enter(step + 1)
    BY <1>2, <2>2, EnterPlaces DEF SetupFail
  <2> QED
    BY <1>2, <2>1, <2>2 DEF SetupFail
<1>3. CASE InitFail
  BY <1>3, EnterPlaces DEF InitFail
<1>4. CASE RegisterFail
  BY <1>4, EnterPlaces DEF RegisterFail
<1>5. CASE Crash
  BY <1>5 DEF Crash
<1>6. CASE SyncSend
  BY <1>6 DEF SyncSend
<1>7. CASE SyncDone
  BY <1>7 DEF SyncDone
<1>8. CASE NoMessage
  BY <1>8 DEF NoMessage
<1>9. CASE Expire
  BY <1>9 DEF Expire
<1>10. CASE NoControl
  BY <1>10 DEF NoControl
<1>11. CASE NoReport
  BY <1>11 DEF NoReport, AfterReport
<1>12. CASE eventPostCheck
  BY <1>12 DEF eventPostCheck
<1>13. CASE Publish
  BY <1>13 DEF Publish
<1> QED
  BY <1>1, <1>2, <1>3, <1>4, <1>5, <1>6, <1>7, <1>8, <1>9, <1>10, <1>11, <1>12, <1>13 DEF Task

\* The steps of the cloud, of the parser and of the timers leave the controls alone.
LEMMA OutsideControls ==
    ASSUME [Next]_vars, ~Task
    PROVE  /\ UNCHANGED controlVars
           /\ pc' = pc \/ pc' = "crashed"
<1>1. CASE UNCHANGED vars
  BY <1>1 DEF vars, taskVars
<1>2. CASE TimerExpires
  BY <1>2 DEF TimerExpires, taskVars
<1>3. CASE ReplyLost
  BY <1>3 DEF ReplyLost, taskVars
<1>4. CASE \E m : Arrive(m)
  BY <1>4 DEF Arrive, taskVars, Goto
<1>5. CASE CloudReplies
  BY <1>4, <1>5 DEF CloudReplies
<1>6. CASE CloudSends("control", "property") \/ CloudSends("call", "action") \/ CloudSends("data", "data")
  BY <1>4, <1>6 DEF CloudSends
<1> QED
  BY <1>1, <1>2, <1>3, <1>5, <1>6 DEF Next

\* Past the setup the task stays past it.
LEMMA StepsOn ==
    ASSUME SetupInv, [Next]_vars
    PROVE  /\ Stopped => Stopped' /\ UNCHANGED owing
           /\ step' = step \/ step' = step + 1
<1> USE DEF Stopped, Goto
<1>1. CASE Task
  BY <1>1 DEF Task, SetupOk, SetupFail, InitFail, RegisterFail, Crash, SyncSend, SyncDone, HandleMessage,
     NoMessage, Expire, ControlReply, NoControl, Report, NoReport, CycleReport, eventPostCheck, Publish,
     Enter, taskVars
<1>2. CASE ~Task
  <2>1. UNCHANGED owing
    BY <1>2, OutsideControls DEF controlVars
  <2>2. CASE UNCHANGED taskVars
    BY <2>1, <2>2 DEF taskVars
  <2>3. CASE \E m : Arrive(m)
    BY <2>1, <2>3 DEF Arrive, taskVars
  <2> QED
    BY <1>2, <2>1, <2>2, <2>3 DEF Next, TimerExpires, ReplyLost, CloudReplies, CloudSends, vars, taskVars
<1> QED
  BY <1>1, <1>2

IsControl(m) == m.kind = "control"

\* Each control has a token of its own: those that wait are not owed an answer yet,
\* and the token of get_status is none of theirs.
TokensInv ==
    /\ sent \in [Kinds -> Nat] /\ sent["control"] <= MaxSent
    /\ \E M : pMsgList \in Seq(M)
    /\ owing \subseteq (1 .. sent["control"]) \cup {GetToken}
    /\ GetToken \in owing => Stopped \/ step > 16
    /\ \A k \in 1 .. Len(pMsgList) : IsControl(pMsgList[k]) =>
          /\ pMsgList[k].token \in 1 .. sent["control"]
          /\ pMsgList[k].token \notin owing
          /\ \A j \in 1 .. Len(pMsgList) :
                j < k /\ IsControl(pMsgList[j]) => pMsgList[j].token # pMsgList[k].token

\* A message at the end of the queue: a control has the next token.
LEMMA TokensArrive ==
    ASSUME TokensInv, NEW m, pMsgList' = Append(pMsgList, m), owing' = owing,
           GetToken \in owing' => Stopped' \/ step' > 16,
           sent' \in [Kinds -> Nat], sent'["control"] >= sent["control"], sent'["control"] <= MaxSent,
           IsControl(m) => m.token = sent["control"] + 1 /\ m.token = sent'["control"]
    PROVE  TokensInv'
<1>0. \E M : pMsgList \in Seq(M)
  BY DEF TokensInv
<1> DEFINE n == Len(pMsgList)
<1>1. /\ \E M : pMsgList' \in Seq(M)
      /\ n \in Nat
      /\ Len(pMsgList') = n + 1
      /\ \A k \in 1 .. n : pMsgList'[k] = pMsgList[k]
      /\ pMsgList'[n + 1] = m
  <2>1. /\ \E M : Append(pMsgList, m) \in Seq(M)
        /\ n \in Nat
        /\ Len(Append(pMsgList, m)) = n + 1
        /\ \A k \in 1 .. n : Append(pMsgList, m)[k] = pMsgList[k]
        /\ Append(pMsgList, m)[n + 1] = m
    BY <1>0, AppendAny, Zenon
  <2> QED
    BY <2>1, Zenon
<1>2. sent["control"] \in Nat /\ sent'["control"] \in Nat
  BY DEF TokensInv, Kinds
<1>3. /\ \A j \in 1 .. n : IsControl(pMsgList[j]) => pMsgList[j].token \in 1 .. sent["control"]
      /\ owing \subseteq (1 .. sent["control"]) \cup {GetToken}
      /\ MaxSent \in Nat /\ GetToken = MaxSent + 1
  BY ApplicationAssumption DEF TokensInv, n, GetToken
<1> HIDE DEF n
<1>4. ASSUME NEW k \in 1 .. n + 1, IsControl(pMsgList'[k])
      PROVE  /\ pMsgList'[k].token \in 1 .. sent'["control"]
             /\ pMsgList'[k].token \notin owing
             /\ \A j \in 1 .. n + 1 :
                   j < k /\ IsControl(pMsgList'[j]) => pMsgList'[j].token # pMsgList'[k].token
  <2>1. CASE k \in 1 .. n
    <3>1. k \in 1 .. Len(pMsgList) /\ pMsgList'[k] = pMsgList[k] /\ IsControl(pMsgList[k])
      BY <1>1, <1>4, <2>1 DEF n
    <3>2. /\ pMsgList[k].token \in 1 .. sent["control"] /\ pMsgList[k].token \notin owing
          /\ \A j \in 1 .. n : j < k /\ IsControl(pMsgList[j]) => pMsgList[j].token # pMsgList[k].token
      BY <3>1 DEF TokensInv, n
    <3>3. pMsgList[k].token \in 1 .. sent'["control"]
      BY <1>2, <3>2
    <3>4. \A j \in 1 .. n + 1 : j < k => j \in 1 .. n /\ pMsgList'[j] = pMsgList[j]
      BY <1>1, <2>1
    <3>5. \A j \in 1 .. n + 1 :
             j < k /\ IsControl(pMsgList'[j]) => pMsgList'[j].token # pMsgList'[k].token
      BY <3>1, <3>2, <3>4, Zenon
    <3> QED
      BY <3>1, <3>2, <3>3, <3>5
  <2>2. CASE k = n + 1
    <3>1. pMsgList'[k] = m /\ m.token = sent["control"] + 1 /\ m.token = sent'["control"]
      BY <1>1, <1>4, <2>2
    <3>2. \A j \in 1 .. n + 1 : j < k => j \in 1 .. n /\ pMsgList'[j] = pMsgList[j]
      BY <1>1, <2>2
    <3>3. m.token \in 1 .. sent'["control"]
      BY <1>2, <3>1
    <3>4. m.token \notin owing
      BY <1>2, <1>3, <3>1
    <3>5. ASSUME NEW j \in 1 .. n + 1, j < k, IsControl(pMsgList'[j])
          PROVE  pMsgList'[j].token # m.token
      <4>1. pMsgList'[j].token \in 1 .. sent["control"]
        BY <1>3, <3>2, <3>5, Zenon
      <4>2. \A t \in 1 .. sent["control"] : t # sent["control"] + 1
        BY <1>2
      <4> QED
        BY <3>1, <4>1, <4>2, Zenon
    <3> QED
      BY <3>1, <3>3, <3>4, <3>5
  <2>3. k \in 1 .. n \/ k = n + 1
    BY <1>1
  <2> QED
    BY <2>1, <2>2, <2>3, Zenon
<1>5. owing' \subseteq (1 .. sent'["control"]) \cup {GetToken}
  BY <1>2, <1>3
<1> QED
  BY <1>1, <1>4, <1>5 DEF TokensInv

\* The first message is taken from the queue; a control is owed an answer.
LEMMA TokensTaken ==
    ASSUME TokensInv, pMsgList # <<>>, pMsgList' = Tail(pMsgList), sent' = sent,
           GetToken \in owing => Stopped' \/ step' > 16,
           owing' \subseteq owing \cup {h.token : h \in {x \in {Head(pMsgList)} : IsControl(x)}}
    PROVE  TokensInv'
<1> DEFINE n == Len(pMsgList)
           h == Head(pMsgList)
<1>0. \E M : pMsgList \in Seq(M)
  BY DEF TokensInv
<1>1. /\ \E M : pMsgList' \in Seq(M)
      /\ n \in Nat \ {0}
      /\ h = pMsgList[1]
      /\ Len(pMsgList') = n - 1
      /\ \A k \in 1 .. n - 1 : pMsgList'[k] = pMsgList[k + 1]
  BY <1>0, TailAny, Zenon
<1>2. sent["control"] \in Nat /\ sent["control"] <= MaxSent /\ MaxSent \in Nat /\ GetToken = MaxSent + 1
  BY ApplicationAssumption DEF TokensInv, Kinds, GetToken
<1>3. \A t \in owing' : t \in owing \/ (IsControl(h) /\ t = h.token)
  BY DEF h
<1>4. IsControl(h) => h.token \in 1 .. sent["control"]
  BY <1>1 DEF TokensInv
<1> HIDE DEF n, h
<1>5. ASSUME NEW k \in 1 .. n - 1, IsControl(pMsgList'[k])
      PROVE  /\ pMsgList'[k].token \in 1 .. sent["control"]
             /\ pMsgList'[k].token \notin owing'
             /\ \A j \in 1 .. n - 1 :
                   j < k /\ IsControl(pMsgList'[j]) => pMsgList'[j].token # pMsgList'[k].token
  <2>1. k + 1 \in 1 .. n /\ 1 \in 1 .. n /\ 1 < k + 1 /\ pMsgList'[k] = pMsgList[k + 1] /\ IsControl(pMsgList[k + 1])
    BY <1>1, <1>5
  <2>2. /\ pMsgList[k + 1].token \in 1 .. sent["control"] /\ pMsgList[k + 1].token \notin owing
        /\ \A j \in 1 .. n : j < k + 1 /\ IsControl(pMsgList[j]) => pMsgList[j].token # pMsgList[k + 1].token
    BY <2>1 DEF TokensInv, n
  <2>3. IsControl(h) => h.token # pMsgList[k + 1].token
    BY <1>1, <2>1, <2>2, Zenon
  <2>4. pMsgList[k + 1].token \notin owing'
    BY <1>3, <2>2, <2>3, Zenon
  <2>5. ASSUME NEW j \in 1 .. n - 1, j < k, IsControl(pMsgList'[j])
        PROVE  pMsgList'[j].token # pMsgList[k + 1].token
    <3>1. j + 1 \in 1 .. n /\ j + 1 < k + 1 /\ pMsgList'[j] = pMsgList[j + 1]
      BY <1>1, <2>5
    <3> QED
      BY <2>2, <2>5, <3>1, Zenon
  <2> QED
    BY <2>1, <2>2, <2>4, <2>5
<1>6. owing' \subseteq (1 .. sent["control"]) \cup {GetToken}
  BY <1>3, <1>4 DEF TokensInv
<1>7. GetToken \in owing' => GetToken \in owing
  BY <1>2, <1>3, <1>4
<1> QED
  BY <1>1, <1>5, <1>6, <1>7 DEF TokensInv

\* What is owed shrinks, or nothing happens to it.
LEMMA TokensKept ==
    ASSUME TokensInv, owing' \subseteq owing, UNCHANGED <<pMsgList, sent>>,
           GetToken \in owing => Stopped' \/ step' > 16
    PROVE  TokensInv'
BY DEF TokensInv

LEMMA TokensNext == SetupInv /\ TokensInv /\ [Next]_vars => TokensInv'
<1> SUFFICES ASSUME SetupInv, TokensInv, [Next]_vars PROVE TokensInv'
  OBVIOUS
<1> USE DEF controlVars, cloudVars
<1>0. GetToken \in owing => Stopped' \/ step' > 16
  BY StepsOn DEF TokensInv, SetupInv
<1>1. CASE owing' \subseteq owing /\ UNCHANGED <<pMsgList, sent>>
  BY <1>0, <1>1, TokensKept
<1>2. CASE HandleMessage
  <2>1. pMsgList # <<>> /\ pMsgList' = Tail(pMsgList) /\ sent' = sent
    BY <1>2 DEF HandleMessage
  <2>2. \/ UNCHANGED owing
        \/ /\ IsControl(Head(pMsgList))
           /\ owing' \subseteq owing \cup {Head(pMsgList).token}
    BY <1>2, Zenon DEF HandleMessage, ControlMessage, Apply, IsControl
  <2>3. owing' \subseteq owing \cup {h.token : h \in {x \in {Head(pMsgList)} : IsControl(x)}}
    BY <2>2
  <2> QED
    BY <1>0, <2>1, <2>3, TokensTaken
<1>3. CASE SyncDone
  <2>1. CASE UNCHANGED controlVars
    BY <1>1, <1>3, <2>1 DEF SyncDone
  <2>2. CASE /\ Current.what = "get_status"
             /\ \E keys \in (SUBSET Props) \ {{}} : Apply(GetToken, keys)
             /\ Enter(step + 1) \/ Goto("blocked")
    <3>1. app \in Templates /\ step \in 15 .. 16 /\ UNCHANGED <<pMsgList, sent>>
      BY <1>3, ApplicationAssumption DEF SyncDone, SetupInv, InTemplate, Templates
    <3>2. step = 16
      BY <2>2, <3>1, TemplateSetup DEF Current, Do
    <3>3. Stopped' \/ step' > 16
      BY <2>2, <3>2 DEF Enter, Goto, Stopped
    <3>4. owing' \subseteq owing \cup {GetToken}
      BY <2>2 DEF Apply
    <3>5. /\ sent["control"] \in Nat /\ sent["control"] <= MaxSent
          /\ MaxSent \in Nat /\ GetToken = MaxSent + 1
      BY ApplicationAssumption DEF TokensInv, Kinds, GetToken
    <3>6. ASSUME NEW k \in 1 .. Len(pMsgList), IsControl(pMsgList[k])
          PROVE  pMsgList[k].token \notin owing'
      <4>1. pMsgList[k].token \in 1 .. sent["control"] /\ pMsgList[k].token \notin owing
        BY <3>6 DEF TokensInv
      <4> QED
        BY <3>4, <3>5, <4>1
    <3>7. owing' \subseteq (1 .. sent["control"]) \cup {GetToken}
      BY <3>4 DEF TokensInv
    <3> QED
      BY <3>1, <3>3, <3>6, <3>7 DEF TokensInv
  <2> QED
    BY <1>3, <2>1, <2>2, Zenon DEF SyncDone
<1>4. ASSUME NEW m, Arrive(m), sent' \in [Kinds -> Nat], sent'["control"] >= sent["control"],
             sent'["control"] <= MaxSent,
             IsControl(m) => m.token = sent["control"] + 1 /\ m.token = sent'["control"]
      PROVE  TokensInv'
  <2>1. owing' = owing
    BY <1>4 DEF Arrive
  <2>2. CASE pMsgList' = Append(pMsgList, m)
    BY <1>0, <1>4, <2>1, <2>2, TokensArrive
  <2>3. CASE UNCHANGED pMsgList
    <3>1. sent["control"] \in Nat /\ sent'["control"] \in Nat
      BY <1>4 DEF TokensInv, Kinds
    <3>2. owing' \subseteq (1 .. sent'["control"]) \cup {GetToken}
      BY <1>4, <2>1, <3>1 DEF TokensInv
    <3>3. \A k \in 1 .. Len(pMsgList) :
             IsControl(pMsgList[k]) => pMsgList[k].token \in 1 .. sent'["control"]
      BY <1>4, <3>1 DEF TokensInv
    <3> QED
      BY <1>0, <1>4, <2>1, <2>3, <3>2, <3>3, Zenon DEF TokensInv
  <2> QED
    BY <1>4, <2>2, <2>3 DEF Arrive
<1>5. CASE CloudReplies
  <2>1. PICK m : Arrive(m) /\ m.kind = "reply" /\ sent' = sent
    BY <1>5 DEF CloudReplies
  <2>2. sent["control"] \in Nat
    BY DEF TokensInv, Kinds
  <2> QED
    BY <1>4, <2>1, <2>2 DEF TokensInv, IsControl
<1>6. ASSUME NEW kind \in Kinds, NEW topic, CloudSends(kind, topic)
      PROVE  TokensInv'
  <2>1. PICK keys, readable :
            Arrive([kind |-> kind, token |-> sent[kind] + 1, keys |-> keys, readable |-> readable])
    BY <1>6, Zenon DEF CloudSends
  <2>2. /\ sent' = [sent EXCEPT ![kind] = @ + 1]
        /\ sent \in [Kinds -> Nat]
        /\ sent["control"] + sent["call"] + sent["data"] < MaxSent /\ MaxSent \in Nat
    BY <1>6, ApplicationAssumption DEF CloudSends, TokensInv
  <2>3. /\ sent' \in [Kinds -> Nat] /\ sent'["control"] >= sent["control"]
        /\ sent'["control"] <= MaxSent
        /\ kind = "control" => sent'["control"] = sent["control"] + 1
    BY <2>2 DEF Kinds
  <2> QED
    BY <1>4, <2>1, <2>3 DEF IsControl
<1>7. CASE CloudSends("control", "property") \/ CloudSends("call", "action") \/ CloudSends("data", "data")
  BY <1>6, <1>7 DEF Kinds
<1>8. CASE Task
  BY <1>1, <1>2, <1>3, <1>8 DEF Task, SetupOk, SetupFail, InitFail, RegisterFail, Crash, SyncSend, NoMessage,
     Expire, ControlReply, NoControl, Report, NoReport, CycleReport, eventPostCheck, Publish
<1>9. CASE TimerExpires \/ ReplyLost \/ UNCHANGED vars
  BY <1>1, <1>9 DEF TimerExpires, ReplyLost, vars
<1> QED
  BY <1>5, <1>7, <1>8, <1>9 DEF Next

\* A change that was not reported is still marked; when the control whose token the
\* task holds is owed an acknowledgement, the task knows of it.
ControlInv ==
    /\ ChangeKept
    /\ clientToken \in owing => sg_control_msg_arrived
    /\ ControlAcked

\* A control that is applied marks what it changes and is owed an answer.
LEMMA ApplyControl ==
    ASSUME ControlInv, ~Stopped, NEW token, NEW keys, Apply(token, keys),
           token \notin owing, pc' # "report"
    PROVE  ControlInv'
<1>1. ChangeKept'
  BY DEF ControlInv, Apply, ChangeKept
<1>2. clientToken' \in owing' => sg_control_msg_arrived'
  BY DEF Apply
<1> QED
  BY <1>1, <1>2 DEF ControlInv, ControlAcked

LEMMA ControlNext == SetupInv /\ TokensInv /\ ControlInv /\ [Next]_vars => ControlInv'
<1> SUFFICES ASSUME SetupInv, TokensInv, ControlInv, [Next]_vars PROVE ControlInv'
  OBVIOUS
<1> USE DEF ControlInv, ChangeKept, ControlAcked, Stopped, controlVars
<1>1. CASE ~Task
  BY <1>1, OutsideControls
<1>2. CASE HandleMessage
  <2>1. pc = "yield" /\ pc' \in {"yield", "expire"} /\ pMsgList # <<>>
    BY <1>2 DEF HandleMessage, Goto, taskVars
  <2>2. CASE ControlMessage(Head(pMsgList))
    <3>1. Len(pMsgList) \in Nat \ {0} /\ Head(pMsgList) = pMsgList[1]
      BY <2>1, TailAny, Zenon DEF TokensInv
    <3>2. Head(pMsgList).token \notin owing
      BY <2>2, <3>1 DEF TokensInv, ControlMessage, IsControl
    <3> QED
      BY <2>1, <2>2, <3>2, ApplyControl DEF ControlMessage
  <2>3. CASE UNCHANGED controlVars
    BY <2>1, <2>3
  <2> QED
    BY <1>2, <2>2, <2>3 DEF HandleMessage
<1>3. CASE ControlReply
  BY <1>3 DEF ControlReply, Goto
<1>4. CASE Report
  BY <1>4 DEF Report, Goto, AfterReport
<1>5. CASE CycleReport
  BY <1>5 DEF CycleReport, Goto
<1>6. CASE SyncDone
  <2>1. pc = "wait" /\ pc' # "report"
    <3>1. app # "mqtt" /\ pc = "wait"
      BY <1>6 DEF SyncDone, SetupInv, InTemplate
    <3>2. Enter(step + 1) => pc' # "report"
      BY <3>1, EnterPlaces
    <3> QED
      BY <1>6, <3>1, <3>2 DEF SyncDone, Goto
  <2>2. CASE Current.what = "get_status" /\ \E keys \in (SUBSET Props) \ {{}} : Apply(GetToken, keys)
    <3>1. app \in Templates /\ step \in 15 .. 16
      BY <1>6, ApplicationAssumption DEF SyncDone, SetupInv, InTemplate, Templates
    <3>2. GetToken \notin owing
      BY <2>1, <3>1 DEF TokensInv
    <3> QED
      BY <2>1, <2>2, <3>2, ApplyControl
  <2>3. CASE UNCHANGED controlVars
    BY <2>1, <2>3
  <2> QED
    BY <1>6, <2>2, <2>3, Zenon DEF SyncDone
<1>7. CASE /\ ~Stopped /\ UNCHANGED controlVars
           /\ pc' = "report" => NoControl
  BY <1>7 DEF NoControl
<1> QED
  BY <1>1, <1>2, <1>3, <1>4, <1>5, <1>6, <1>7, QuietTask

\* Both are what the task may rely on, whatever the cloud sends.
LEMMA ControlAlways == Spec => []ControlInv
<1>1. Init => ControlInv
  BY DEF Init, ControlInv, ChangeKept, ControlAcked
<1>2. Init => TokensInv
  <2>1. <<>> \in Seq({})
    OBVIOUS
  <2> QED
    BY <2>1, ApplicationAssumption DEF Init, TokensInv, Kinds
<1> QED
  BY <1>1, <1>2, SetupInit, SetupNext, TokensNext, ControlNext, PTL DEF Spec

\* While the task lives no change made by a control is forgotten.
THEOREM NoChangeForgotten == Spec => []ChangeKept
BY ControlAlways, PTL DEF ControlInv

\* A task that gets past the controls has acknowledged the last one it received,
\* under that control's own token; an earlier one may stay unacknowledged.
THEOREM LastControlAcknowledged == Spec => []ControlAcked
BY ControlAlways, PTL DEF ControlInv

-----------------------------------------------------------------------------
(* The flags of the lamp.                                                  *)

\* One step: only the reply to a posting that still waits clears them.
LEMMA FlagStep ==
    ASSUME [Next]_vars, app = "light", eventflags # {}, eventflags' = {}
    PROVE  /\ pMsgList # <<>> /\ pMsgList' = Tail(pMsgList)
           /\ Head(pMsgList).kind = "reply" /\ WaitsFor(Head(pMsgList).token)
<1> USE DEF eventVars
<1>1. CASE HandleMessage
  <2>1. Head(pMsgList).kind = "reply" /\ WaitsFor(Head(pMsgList).token)
    BY <1>1 DEF HandleMessage, ReplyMessage, EventReply
  <2> QED
    BY <1>1, <2>1 DEF HandleMessage
<1>2. CASE ControlReply
  BY <1>2 DEF ControlReply, DealDown
<1>3. CASE eventPostCheck
  BY <1>3 DEF eventPostCheck, LightEventPostCheck
<1>4. CASE UNCHANGED eventflags
  BY <1>4
<1>5. CASE Task
  BY <1>1, <1>2, <1>3, <1>4, <1>5 DEF Task, SetupOk, SetupFail, InitFail, RegisterFail, Crash, SyncSend,
     SyncDone, NoMessage, Expire, NoControl, Report, NoReport, CycleReport, Publish
<1>6. CASE TimerExpires \/ ReplyLost \/ UNCHANGED vars
  BY <1>4, <1>6 DEF TimerExpires, ReplyLost, vars
<1>7. CASE \E m : Arrive(m)
  BY <1>4, <1>7 DEF Arrive
<1> QED
  BY <1>5, <1>6, <1>7 DEF Next, CloudReplies, CloudSends

\* The lamp forgets an event only when a reply arrives for a posting that still waits.
THEOREM EventKeptUntilReply == Spec => FlagUntilReply
BY FlagStep, PTL DEF Spec, FlagUntilReply

-----------------------------------------------------------------------------
(* The inputs of the actions.                                              *)

IsCall(m) == m.kind = "call"

\* The calls wait in the order in which the cloud sent them, behind every call
\* whose values the inputs hold and every call that ran.
CallsInv ==
    /\ sent \in [Kinds -> Nat]
    /\ \E M : pMsgList \in Seq(M)
    /\ input \in [1 .. Inputs -> Nat]
    /\ \A i \in 1 .. Inputs : input[i] <= sent["call"]
    /\ \A r \in ran : r.token \in Nat /\ r.token <= sent["call"]
    /\ \A k \in 1 .. Len(pMsgList) : IsCall(pMsgList[k]) =>
          /\ pMsgList[k].token \in 1 .. sent["call"] /\ pMsgList[k].readable \in 0 .. Inputs
          /\ \A i \in 1 .. Inputs : input[i] < pMsgList[k].token
          /\ \A r \in ran : r.token < pMsgList[k].token
          /\ \A j \in 1 .. Len(pMsgList) :
                j < k /\ IsCall(pMsgList[j]) => pMsgList[j].token < pMsgList[k].token
    /\ OwnInput

\* A message at the end of the queue: a call is newer than all the others.
LEMMA CallsArrive ==
    ASSUME CallsInv, NEW m, pMsgList' = Append(pMsgList, m), UNCHANGED <<input, ran>>,
           sent' \in [Kinds -> Nat], sent'["call"] >= sent["call"],
           IsCall(m) => /\ m.token = sent["call"] + 1 /\ m.token = sent'["call"]
                        /\ m.readable \in 0 .. Inputs
    PROVE  CallsInv'
<1>0. \E M : pMsgList \in Seq(M)
  BY DEF CallsInv
<1> DEFINE n == Len(pMsgList)
<1>1. /\ \E M : pMsgList' \in Seq(M)
      /\ n \in Nat
      /\ Len(pMsgList') = n + 1
      /\ \A k \in 1 .. n : pMsgList'[k] = pMsgList[k]
      /\ pMsgList'[n + 1] = m
  <2>1. /\ \E M : Append(pMsgList, m) \in Seq(M)
        /\ n \in Nat
        /\ Len(Append(pMsgList, m)) = n + 1
        /\ \A k \in 1 .. n : Append(pMsgList, m)[k] = pMsgList[k]
        /\ Append(pMsgList, m)[n + 1] = m
    BY <1>0, AppendAny, Zenon
  <2> QED
    BY <2>1, Zenon
<1>2. sent["call"] \in Nat /\ sent'["call"] \in Nat
  BY DEF CallsInv, Kinds
<1> HIDE DEF n
<1>3. ASSUME NEW k \in 1 .. n + 1, IsCall(pMsgList'[k])
      PROVE  /\ pMsgList'[k].token \in 1 .. sent'["call"] /\ pMsgList'[k].readable \in 0 .. Inputs
             /\ \A i \in 1 .. Inputs : input[i] < pMsgList'[k].token
             /\ \A r \in ran : r.token < pMsgList'[k].token
             /\ \A j \in 1 .. n + 1 :
                   j < k /\ IsCall(pMsgList'[j]) => pMsgList'[j].token < pMsgList'[k].token
  <2>0. /\ \A r \in ran : r.token \in Nat /\ r.token <= sent["call"]
        /\ \A i \in 1 .. Inputs : input[i] \in Nat /\ input[i] <= sent["call"]
        /\ \A j \in 1 .. n : IsCall(pMsgList[j]) => pMsgList[j].token \in 1 .. sent["call"]
    BY DEF CallsInv, n
  <2>1. CASE k \in 1 .. n
    BY <1>1, <1>2, <1>3, <2>1 DEF CallsInv, n
  <2>2. CASE k = n + 1
    <3>1. pMsgList'[k] = m /\ m.token = sent["call"] + 1 /\ m.token = sent'["call"] /\ m.readable \in 0 .. Inputs
      BY <1>1, <1>3, <2>2
    <3>2. \A j \in 1 .. n + 1 : j < k => j \in 1 .. n /\ pMsgList'[j] = pMsgList[j]
      BY <1>1, <2>2
    <3>3. pMsgList'[k].token \in 1 .. sent'["call"] /\ pMsgList'[k].readable \in 0 .. Inputs
      BY <1>2, <3>1
    <3>4. \A i \in 1 .. Inputs : input[i] < m.token
      BY <1>2, <2>0, <3>1
    <3>5. \A r \in ran : r.token < m.token
      BY <1>2, <2>0, <3>1
    <3>6. \A j \in 1 .. n : IsCall(pMsgList[j]) => pMsgList[j].token < m.token
      BY <1>2, <2>0, <3>1
    <3>7. ASSUME NEW j \in 1 .. n + 1, j < k, IsCall(pMsgList'[j])
          PROVE  pMsgList'[j].token < m.token
      BY <3>2, <3>6, <3>7
    <3> QED
      BY <3>1, <3>3, <3>4, <3>5, <3>7
  <2>3. k \in 1 .. n \/ k = n + 1
    BY <1>1
  <2> QED
    BY <2>1, <2>2, <2>3, Zenon
<1>4. /\ input' \in [1 .. Inputs -> Nat]
      /\ \A i \in 1 .. Inputs : input'[i] <= sent'["call"]
  <2>1. input' = input /\ input \in [1 .. Inputs -> Nat]
    BY DEF CallsInv
  <2>2. \A i \in 1 .. Inputs : input[i] \in Nat /\ input[i] <= sent["call"]
    BY <2>1 DEF CallsInv
  <2> QED
    BY <1>2, <2>1, <2>2
<1>5. \A r \in ran' : r.token \in Nat /\ r.token <= sent'["call"]
  BY <1>2 DEF CallsInv
<1>6. OwnInput'
  <2>1. ran' = ran /\ OwnInput
    BY DEF CallsInv
  <2> QED
    BY <2>1, Zenon DEF OwnInput
<1> QED
  BY <1>1, <1>3, <1>4, <1>5, <1>6 DEF CallsInv

\* The first message is taken from the queue; a call leaves its token where it ran.
LEMMA CallsTaken ==
    ASSUME CallsInv, pMsgList # <<>>, pMsgList' = Tail(pMsgList), sent' = sent,
           input' \in [1 .. Inputs -> Nat],
           \A i \in 1 .. Inputs :
              \/ input'[i] = input[i] \/ input'[i] = NoToken
              \/ IsCall(Head(pMsgList)) /\ input'[i] = Head(pMsgList).token,
           \A r \in ran' : r \in ran \/ (IsCall(Head(pMsgList)) /\ r.token = Head(pMsgList).token),
           OwnInput'
    PROVE  CallsInv'
<1> DEFINE n == Len(pMsgList)
           h == Head(pMsgList)
<1>0. \E M : pMsgList \in Seq(M)
  BY DEF CallsInv
<1>1. /\ \E M : pMsgList' \in Seq(M)
      /\ n \in Nat \ {0}
      /\ h = pMsgList[1]
      /\ Len(pMsgList') = n - 1
      /\ \A k \in 1 .. n - 1 : pMsgList'[k] = pMsgList[k + 1]
  BY <1>0, TailAny, Zenon
<1>2. sent["call"] \in Nat
  BY DEF CallsInv, Kinds
<1>3. /\ \A i \in 1 .. Inputs : input[i] \in Nat /\ input[i] <= sent["call"]
      /\ \A r \in ran : r.token \in Nat /\ r.token <= sent["call"]
  BY DEF CallsInv
<1>4. IsCall(h) => h.token \in 1 .. sent["call"]
  BY <1>1 DEF CallsInv
<1> HIDE DEF n, h
<1>5. ASSUME NEW k \in 1 .. n - 1, IsCall(pMsgList'[k])
      PROVE  /\ pMsgList'[k].token \in 1 .. sent["call"] /\ pMsgList'[k].readable \in 0 .. Inputs
             /\ \A i \in 1 .. Inputs : input'[i] < pMsgList'[k].token
             /\ \A r \in ran' : r.token < pMsgList'[k].token
             /\ \A j \in 1 .. n - 1 :
                   j < k /\ IsCall(pMsgList'[j]) => pMsgList'[j].token < pMsgList'[k].token
  <2>1. k + 1 \in 1 .. n /\ 1 \in 1 .. n /\ 1 < k + 1 /\ pMsgList'[k] = pMsgList[k + 1] /\ IsCall(pMsgList[k + 1])
    BY <1>1, <1>5
  <2>2. /\ pMsgList[k + 1].token \in 1 .. sent["call"] /\ pMsgList[k + 1].readable \in 0 .. Inputs
        /\ \A i \in 1 .. Inputs : input[i] < pMsgList[k + 1].token
        /\ \A r \in ran : r.token < pMsgList[k + 1].token
        /\ \A j \in 1 .. n : j < k + 1 /\ IsCall(pMsgList[j]) => pMsgList[j].token < pMsgList[k + 1].token
    BY <2>1 DEF CallsInv, n
  <2>3. IsCall(h) => h.token < pMsgList[k + 1].token
    BY <1>1, <2>1, <2>2, Zenon
  <2>4. \A i \in 1 .. Inputs : input'[i] < pMsgList[k + 1].token
    <3>1. NoToken < pMsgList[k + 1].token
      BY <1>2, <2>2 DEF NoToken
    <3> QED
      BY <2>2, <2>3, <3>1, Zenon DEF h
  <2>5. \A r \in ran' : r.token < pMsgList[k + 1].token
    BY <2>2, <2>3, Zenon DEF h
  <2>6. ASSUME NEW j \in 1 .. n - 1, j < k, IsCall(pMsgList'[j])
        PROVE  pMsgList'[j].token < pMsgList[k + 1].token
    <3>1. j + 1 \in 1 .. n /\ j + 1 < k + 1 /\ pMsgList'[j] = pMsgList[j + 1]
      BY <1>1, <2>6
    <3> QED
      BY <2>2, <2>6, <3>1, Zenon
  <2> QED
    BY <2>1, <2>2, <2>4, <2>5, <2>6
<1>6. \A i \in 1 .. Inputs : input'[i] <= sent["call"]
  BY <1>2, <1>3, <1>4 DEF h, NoToken
<1>7. \A r \in ran' : r.token \in Nat /\ r.token <= sent["call"]
  BY <1>2, <1>3, <1>4 DEF h
<1>8. sent \in [Kinds -> Nat]
  BY DEF CallsInv
<1> QED
  BY <1>1, <1>5, <1>6, <1>7, <1>8 DEF CallsInv

\* An action that runs: what its call brought, and what earlier calls left.
LEMMA CallRuns ==
    ASSUME CallsInv, pMsgList # <<>>, IsCall(Head(pMsgList)), ActionCall(Head(pMsgList))
    PROVE  /\ input' \in [1 .. Inputs -> Nat]
           /\ \A i \in 1 .. Inputs :
                 input'[i] = input[i] \/ input'[i] = NoToken \/ input'[i] = Head(pMsgList).token
           /\ \A r \in ran' : r \in ran \/ r.token = Head(pMsgList).token
           /\ OwnInput'
<1> DEFINE h == Head(pMsgList)
           new == [token |-> h.token, readable |-> h.readable, input |-> input']
<1>0. \E M : pMsgList \in Seq(M)
  BY DEF CallsInv
<1>1. Len(pMsgList) \in Nat \ {0} /\ h = pMsgList[1]
  BY <1>0, TailAny, Zenon
<1>2. /\ h.token \in Nat /\ h.readable \in Nat
      /\ \A i \in 1 .. Inputs : input[i] < h.token
      /\ \A r \in ran : r.token < h.token
      /\ NoToken < h.token /\ NoToken \in Nat
  <2>1. sent["call"] \in Nat
    BY DEF CallsInv, Kinds
  <2> QED
    BY <1>1, <2>1 DEF CallsInv, NoToken
<1>3. /\ input \in [1 .. Inputs -> Nat]
      /\ \A r \in ran : r.token \in Nat
      /\ OwnInput
  BY DEF CallsInv
<1>4. /\ input' = [i \in 1 .. Inputs |->
                     IF i <= h.readable THEN h.token
                     ELSE IF i = h.readable + 1 /\ i \in StringInputs THEN NoToken
                     ELSE input[i]]
      /\ ran' \subseteq ran \cup {new}
  <2>1. input' = Parsed(h) /\ ActionReply(h, input')
    BY DEF ActionCall
  <2> QED
    BY <2>1 DEF Parsed, ActionReply
<1> HIDE DEF h
<1>5. /\ input' \in [1 .. Inputs -> Nat]
      /\ \A i \in 1 .. Inputs : input'[i] = input[i] \/ input'[i] = NoToken \/ input'[i] = h.token
      /\ \A i \in 1 .. Inputs :
            IF i <= h.readable THEN input'[i] = h.token
            ELSE IF i = h.readable + 1 /\ i \in StringInputs THEN input'[i] = NoToken
            ELSE input'[i] < h.token
  BY <1>2, <1>3, <1>4, ApplicationAssumption
<1>6. new.token = h.token /\ new.readable = h.readable /\ new.input = input'
  OBVIOUS
<1> HIDE DEF new
<1>7. \A r \in ran : r.token # new.token
  BY <1>2, <1>3, <1>6
<1>8. ASSUME NEW r \in ran \cup {new}
      PROVE  \A i \in 1 .. Inputs :
                IF i <= r.readable THEN r.input[i] = r.token
                ELSE IF i = r.readable + 1 /\ i \in StringInputs THEN r.input[i] = NoToken
                ELSE r.input[i] < r.token
  BY <1>3, <1>5, <1>6, <1>8, Zenon DEF OwnInput
<1>9. ASSUME NEW r \in ran \cup {new}, NEW q \in ran \cup {new}, q.token = r.token
      PROVE  q = r
  BY <1>3, <1>7, <1>9, Zenon DEF OwnInput
<1>10. OwnInput'
  BY <1>4, <1>8, <1>9, Zenon DEF OwnInput
<1>11. \A r \in ran' : r \in ran \/ r.token = h.token
  BY <1>4, <1>6
<1> QED
  BY <1>5, <1>10, <1>11 DEF h

LEMMA CallsNext == CallsInv /\ [Next]_vars => CallsInv'
<1> SUFFICES ASSUME CallsInv, [Next]_vars PROVE CallsInv'
  OBVIOUS
<1> USE DEF actionVars, cloudVars
<1>0. CASE UNCHANGED <<input, ran, pMsgList, sent>>
  BY <1>0 DEF CallsInv, OwnInput
<1>1. CASE HandleMessage
  <2>1. /\ pMsgList # <<>> /\ pMsgList' = Tail(pMsgList) /\ sent' = sent
        /\ \/ UNCHANGED <<input, ran>>
           \/ IsCall(Head(pMsgList)) /\ ActionCall(Head(pMsgList))
    BY <1>1, Zenon DEF HandleMessage, CallMessage, IsCall
  <2>2. CASE UNCHANGED <<input, ran>>
    <3>1. input' \in [1 .. Inputs -> Nat] /\ OwnInput /\ input' = input /\ ran' = ran
      BY <2>2 DEF CallsInv
    <3>2. OwnInput'
      BY <3>1, Zenon DEF OwnInput
    <3> QED
      BY <2>1, <3>1, <3>2, CallsTaken
  <2>3. CASE IsCall(Head(pMsgList)) /\ ActionCall(Head(pMsgList))
    BY <2>1, <2>3, CallRuns, CallsTaken
  <2> QED
    BY <2>1, <2>2, <2>3
<1>2. CASE CloudReplies
  <2>1. PICK m : Arrive(m) /\ m.kind = "reply" /\ sent' = sent
    BY <1>2 DEF CloudReplies
  <2>2. CASE pMsgList' = Append(pMsgList, m)
    BY <2>1, <2>2, CallsArrive DEF Arrive, CallsInv, IsCall, Kinds
  <2> QED
    BY <1>0, <2>1, <2>2 DEF Arrive
<1>3. ASSUME NEW kind \in Kinds, NEW topic, CloudSends(kind, topic)
      PROVE  CallsInv'
  <2>1. PICK keys, readable :
            /\ kind = "call" => readable \in 0 .. Inputs
            /\ Arrive([kind |-> kind, token |-> sent[kind] + 1, keys |-> keys, readable |-> readable])
    BY <1>3, Zenon DEF CloudSends
  <2> DEFINE m == [kind |-> kind, token |-> sent[kind] + 1, keys |-> keys, readable |-> readable]
  <2>2. /\ sent' = [sent EXCEPT ![kind] = @ + 1]
        /\ sent \in [Kinds -> Nat]
    BY <1>3 DEF CloudSends, CallsInv
  <2>3. /\ sent' \in [Kinds -> Nat] /\ sent'["call"] >= sent["call"]
        /\ kind = "call" => sent'["call"] = sent["call"] + 1
    BY <2>2 DEF Kinds
  <2>4. m.kind = kind /\ m.token = sent[kind] + 1 /\ m.readable = readable
    OBVIOUS
  <2>5. UNCHANGED <<input, ran>> /\ (pMsgList' = Append(pMsgList, m) \/ UNCHANGED pMsgList)
    BY <2>1 DEF Arrive
  <2> HIDE DEF m
  <2>6. CASE pMsgList' = Append(pMsgList, m)
    BY <2>1, <2>3, <2>4, <2>5, <2>6, CallsArrive DEF IsCall
  <2>7. CASE UNCHANGED pMsgList
    <3>1. sent["call"] \in Nat /\ sent'["call"] \in Nat
      BY <2>2, <2>3 DEF Kinds
    <3>2. input' = input /\ ran' = ran /\ pMsgList' = pMsgList /\ OwnInput
      BY <2>5, <2>7 DEF CallsInv
    <3>3. \A i \in 1 .. Inputs : input[i] <= sent'["call"]
      <4>1. \A i \in 1 .. Inputs : input[i] \in Nat /\ input[i] <= sent["call"]
        BY DEF CallsInv
      <4> QED
        BY <2>3, <3>1, <4>1
    <3>4. \A r \in ran : r.token \in Nat /\ r.token <= sent'["call"]
      BY <2>3, <3>1 DEF CallsInv
    <3>5. \A k \in 1 .. Len(pMsgList) :
             IsCall(pMsgList[k]) => pMsgList[k].token \in 1 .. sent'["call"]
      BY <2>3, <3>1 DEF CallsInv
    <3>6. OwnInput'
      BY <3>2, Zenon DEF OwnInput
    <3> QED
      BY <2>3, <3>2, <3>3, <3>4, <3>5, <3>6, Zenon DEF CallsInv
  <2> QED
    BY <2>5, <2>6, <2>7
<1>4. CASE CloudSends("control", "property") \/ CloudSends("call", "action") \/ CloudSends("data", "data")
  BY <1>3, <1>4 DEF Kinds
<1>5. CASE Task
  BY <1>0, <1>1, <1>5 DEF Task, SetupOk, SetupFail, InitFail, RegisterFail, Crash, SyncSend, SyncDone,
     NoMessage, Expire, ControlReply, NoControl, Report, NoReport, CycleReport, eventPostCheck, Publish
<1>6. CASE TimerExpires \/ ReplyLost \/ UNCHANGED vars
  BY <1>0, <1>6 DEF TimerExpires, ReplyLost, vars
<1> QED
  BY <1>2, <1>4, <1>5, <1>6 DEF Next

\* An action that runs has every input its call brought in readable form, what is
\* missing comes from earlier calls only or is a string known to be missing, and
\* each call is answered once.
THEOREM ActionsHaveTheirInput == Spec => []OwnInput
<1>1. Init => CallsInv
  <2>1. <<>> \in Seq({})
    OBVIOUS
  <2> QED
    BY <2>1, ApplicationAssumption DEF Init, CallsInv, OwnInput, Kinds, NoToken
<1>2. CallsInv => OwnInput
  BY DEF CallsInv
<1> QED
  BY <1>1, <1>2, CallsNext, PTL DEF Spec

====
