----------------------------- MODULE Application -----------------------------
(***************************************************************************)
(* The application tasks of sample/ and usr_logic/, on top of the data     *)
(* template: setup, then a loop that yields, acknowledges controls,        *)
(* reports properties and posts events; with the events                    *)
(* (data_template_event.c), the properties and the actions                 *)
(* (data_template_client_common.c, data_template_aciton.c) they use.       *)
(*                                                                         *)
(* One thread runs the task.  The parser thread queues what the cloud      *)
(* sends.  Calls of the layers below succeed or fail as the environment    *)
(* likes: ModuleApi and Template are about them.                           *)
(***************************************************************************)
EXTENDS Naturals, Sequences, SequencesExt, FiniteSets, FiniteSetsExt

CONSTANTS
    Apps,           \* the tasks: "light", "usr_logic", "mqtt"
    Props, Switch,  \* the properties, and the one whose change is an event
    Actions, Inputs,  \* the actions, and how many inputs they have
    StringInputs,   \* the inputs of type JSTRING
    Events,
    MaxEvents,      \* MAX_EVENT_WAIT_REPLY
    MaxInFlight, MaxQueue, MaxSent  \* bounds on the cloud

ASSUME ApplicationAssumption ==
    /\ Apps \subseteq {"light", "usr_logic", "mqtt"}
    /\ Switch \in Props /\ Actions # {} /\ Events # {}
    /\ StringInputs \subseteq 1 .. Inputs
    /\ {Inputs, MaxEvents, MaxInFlight, MaxQueue, MaxSent} \subseteq Nat

-----------------------------------------------------------------------------
(* Setup: what each task does before its loop, and what a failure leads to. *)
(* "end": the task ends.  "on": it goes on.  "no_parser": it goes on to the  *)
(* next command, or waits for the parser.  "partial": it goes on with some   *)
(* of its lists.  "destroy": it goes on with a client it has destroyed.      *)

Do(what, fail) == [what |-> what, fail |-> fail]

\* net_prepare returns the success of HAL_GetDevInfo when module_init fails, and
\* the commands that follow find no parser; a failure to power on the module is
\* returned as what happens to be on the stack.
net_prepare ==
    <<Do("HAL_GetDevInfo", "end"), Do("module_init", "no_parser"), Do("module_handshake", "end"),
      Do("iot_device_info_init", "end"), Do("module_info_set", "end")>>

Connect == <<Do("module_register_network", "end"), Do("module_mqtt_conn", "end")>>

\* Only the result of the last subscription is returned; what the others and the
\* initialisation return is logged.
IOT_Template_Construct ==
    <<Do("init", "partial"), Do("subscribe", "on"), Do("event_init", "on"), Do("action_init", "end")>>

\* When a registration fails the client is destroyed, and the result is that of
\* IOT_Template_Destroy: the task goes on with it.
register_data_template_property == <<Do("register_property", "destroy")>>
register_data_template_action == <<Do("register_action", "destroy")>>

Synchronous == <<Do("sysinfo", "end"), Do("get_status", "end")>>

\* Mutant: the data missed while offline are fetched before anything is registered.
light_data_template_demo_task_SyncFirst ==
    net_prepare \o Connect \o <<Do("IsConnected", "end")>> \o IOT_Template_Construct
    \o Synchronous \o register_data_template_property \o register_data_template_action

light_data_template_demo_task ==
    net_prepare \o Connect \o <<Do("IsConnected", "end")>> \o IOT_Template_Construct
    \o register_data_template_property \o register_data_template_action \o Synchronous

data_template_demo_task ==
    net_prepare \o Connect \o <<Do("IsConnected", "end")>> \o IOT_Template_Construct
    \o register_data_template_property \o register_data_template_action \o Synchronous

mqtt_demo_task == net_prepare \o Connect \o <<Do("sub_data", "end")>>

Setup(a) ==
    CASE a = "light" -> light_data_template_demo_task
      [] a = "usr_logic" -> data_template_demo_task
      [] a = "mqtt" -> mqtt_demo_task

\* What qcloud_iot_template_init makes, in this order.
Parts == <<"mutex", "pMsgList", "property_handle_list", "reply_list", "event_list", "action_handle_list">>

-----------------------------------------------------------------------------
VARIABLES
    app, pc, step,          \* the task, where it is, its step of the setup
    built, destroyed,       \* how many of the parts exist; IOT_Template_Destroy ran
    pMsgList,               \* the messages that wait
    property_handle_list, action_handle_list,
    changed,                \* the properties whose state is eCHANGED
    sg_control_msg_arrived, clientToken,
    input,                  \* the calls the values of an action's inputs come from
    eventflags, event_list, \* events to post; postings that wait for a reply
    subscribed,             \* the topics the cloud knows of
    posts,                  \* postings the cloud has and may answer
    sent,                   \* how many messages the cloud has sent, by kind
    unreported,             \* changed by a control, and in no report since
    owing,                  \* the controls that changed something and were not acknowledged
    ran                     \* the calls that were run and answered, with their input

taskVars == <<app, pc, step>>
clientVars == <<built, destroyed, property_handle_list, action_handle_list>>
controlVars == <<changed, sg_control_msg_arrived, clientToken, unreported, owing>>
eventVars == <<eventflags, event_list>>
actionVars == <<input, ran>>
cloudVars == <<subscribed, posts, sent>>
vars == <<taskVars, clientVars, pMsgList, controlVars, eventVars, actionVars, cloudVars>>

Kinds == {"control", "call", "data"}
NoToken == 0
GetToken == MaxSent + 1     \* the token of get_status; controls have 1, 2, ...
Tokens == 1 .. MaxEvents + MaxInFlight + MaxQueue + 1

Init ==
    /\ app \in Apps /\ pc = "setup" /\ step = 1
    /\ built = 0 /\ destroyed = FALSE /\ pMsgList = <<>>
    /\ property_handle_list = {} /\ action_handle_list = {}
    /\ changed = {} /\ sg_control_msg_arrived = FALSE /\ clientToken = NoToken
    /\ eventflags = {} /\ event_list = <<>>
    /\ subscribed = {} /\ posts = {} /\ sent = [k \in Kinds |-> 0]
    /\ unreported = {} /\ owing = {}
    /\ input = [i \in 1 .. Inputs |-> NoToken] /\ ran = {}

\* Nothing is followed after this.  The task has ended; or it waits for ever, for
\* the parser or for the mutex it holds; or a late answer was stored through a
\* stray pointer, or its loop begins with a client it has destroyed; or it followed
\* a pointer to a list that is not there.
Stopped == pc \in {"ended", "blocked", "faulted", "crashed"}
Goto(p) == pc' = p /\ UNCHANGED <<app, step>>

-----------------------------------------------------------------------------
(* The setup.                                                              *)

Current == Setup(app)[step]

\* Where the task is once step n of the setup is done.
Enter(n) ==
    /\ step' = n /\ UNCHANGED app
    /\ pc' = CASE n <= Len(Setup(app)) ->
                   IF Setup(app)[n].what \in {"sysinfo", "get_status"} THEN "request" ELSE "setup"
               [] n > Len(Setup(app)) ->
                   IF app = "mqtt" THEN "publish" ELSE IF destroyed THEN "faulted" ELSE "yield"

Topic(what) ==
    CASE what = "subscribe" -> {"property"} [] what = "event_init" -> {"event"}
      [] what = "action_init" -> {"action"} [] what = "sub_data" -> {"data"}
      [] OTHER -> {}

\* The parts of the client that exist, and those a step of the setup uses.
Built == {Parts[n] : n \in 1 .. built}
Needs(what) ==
    CASE what = "register_property" -> {"property_handle_list"}
      [] what = "register_action" -> {"action_handle_list"}
      [] OTHER -> {}

SetupOk ==
    /\ pc = "setup" /\ Needs(Current.what) \subseteq Built
    /\ subscribed' = subscribed \cup Topic(Current.what)
    /\ built' = IF Current.what = "init" THEN Len(Parts) ELSE built
    /\ property_handle_list' = IF Current.what = "register_property" THEN Props ELSE property_handle_list
    /\ action_handle_list' = IF Current.what = "register_action" THEN Actions ELSE action_handle_list
    /\ Enter(step + 1)
    /\ UNCHANGED <<destroyed, pMsgList, actionVars, controlVars, eventVars, posts, sent>>

\* A subscription that fails may have reached the cloud.
SetupFail ==
    /\ pc = "setup"
    /\ \/ Current.fail \in {"end", "no_parser"} /\ Goto("ended")
       \/ Current.fail = "no_parser" /\ Goto("blocked")
       \/ Current.fail = "on" /\ Enter(step + 1)
    /\ subscribed' \in {subscribed, subscribed \cup Topic(Current.what)}
    /\ UNCHANGED <<clientVars, actionVars, pMsgList, controlVars, eventVars, posts, sent>>

\* qcloud_iot_template_init gives up at the first part there is no memory for.
InitFail ==
    /\ pc = "setup" /\ Current.fail = "partial"
    /\ built' \in 0 .. Len(Parts) - 1
    /\ Enter(step + 1)
    /\ UNCHANGED <<destroyed, property_handle_list, action_handle_list,
                   pMsgList, actionVars, controlVars, eventVars, cloudVars>>

\* A registration fails at one of its properties or actions, before or after it
\* has looked at the list.  IOT_Template_Destroy frees the client and three of its
\* lists, unsubscribes from the properties and disconnects if the module lets it;
\* the result of the registration is its success.
RegisterFail ==
    /\ pc = "setup" /\ Current.fail = "destroy"
    /\ IF Current.what = "register_property"
       THEN property_handle_list' \in (SUBSET Props) \ {Props} /\ UNCHANGED action_handle_list
       ELSE action_handle_list' \in (SUBSET Actions) \ {Actions} /\ UNCHANGED property_handle_list
    /\ destroyed' = TRUE
    /\ subscribed' \in {subscribed, subscribed \ {"property"}, {}}
    /\ Enter(step + 1)
    /\ UNCHANGED <<built, pMsgList, actionVars, controlVars, eventVars, posts, sent>>

\* The task follows a pointer to a list that was never made.  What was freed may
\* be found intact, or not.
Crash ==
    /\ ~Stopped
    /\ destroyed \/ (pc = "setup" /\ ~(Needs(Current.what) \subseteq Built))
    /\ Goto("crashed")
    /\ UNCHANGED <<clientVars, actionVars, pMsgList, controlVars, eventVars, cloudVars>>

-----------------------------------------------------------------------------
(* Controls, calls of actions and replies to events, as IOT_Template_Yield *)
(* hands them over.                                                        *)

\* _handle_control: the registered properties the control names.  Without one
\* nothing changes, but the token is kept.
Apply(token, keys) ==
    LET hit == keys \cap property_handle_list IN
    /\ clientToken' = token
    /\ changed' = changed \cup hit
    /\ sg_control_msg_arrived' = (sg_control_msg_arrived \/ hit # {})
    /\ unreported' = unreported \cup hit
    /\ owing' = IF hit # {} THEN owing \cup {token} ELSE owing

event_post_cb == eventflags' = {}

WaitsFor(token) == \E k \in DOMAIN event_list : event_list[k].token = token

\* _traverse_event_list for a reply: the posting with its token, if it still waits.
EventReply(token) ==
    /\ event_list' = SelectSeq(event_list, LAMBDA e : e.token # token)
    /\ IF WaitsFor(token) THEN event_post_cb ELSE UNCHANGED eventflags

\* _parse_action_input: the inputs in their order, up to one that is missing or
\* unreadable.  A string that is missing is lost; the other inputs keep the values
\* of earlier calls, a string a pointer that OnActionCallback has freed.
Parsed(m) == [i \in 1 .. Inputs |->
    IF i <= m.readable THEN m.token
    ELSE IF i = m.readable + 1 /\ i \in StringInputs THEN NoToken
    ELSE input[i]]

\* OnActionCallback and IOT_ACTION_REPLY: the reply may not fit its buffer or not
\* be published.
ActionReply(m, in) == ran' \in {ran, ran \cup {[token |-> m.token, readable |-> m.readable, input |-> in]}}

\* Mutant: the action runs before its input is read.
ActionCall_InputLate(m) == input' = Parsed(m) /\ ActionReply(m, input)

\* _handle_aciton.  _parse_action_input returns -1 whether it succeeds or fails:
\* an action whose input is incomplete runs with what an earlier call left.
ActionCall(m) == input' = Parsed(m) /\ ActionReply(m, input')

\* The handlers of the three topics.  A reply or a call may be unreadable, and a
\* call may be of an action nobody registered.
ControlMessage(m) == m.kind = "control" /\ Apply(m.token, m.keys)
ReplyMessage(m) == m.kind = "reply" /\ (EventReply(m.token) \/ UNCHANGED eventVars)
CallMessage(m) ==
    /\ m.kind = "call"
    /\ (action_handle_list # {} /\ ActionCall(m)) \/ UNCHANGED actionVars

\* _handle_message: one message.  The next is known before this one is handled,
\* so that one that comes meanwhile waits for the next yield.
HandleMessage ==
    /\ pc = "yield" /\ pMsgList # <<>>
    /\ LET m == Head(pMsgList) IN
       \/ ControlMessage(m) /\ UNCHANGED <<eventVars, actionVars>>
       \/ ReplyMessage(m) /\ UNCHANGED <<controlVars, actionVars>>
       \/ CallMessage(m) /\ UNCHANGED <<controlVars, eventVars>>
    /\ pMsgList' = Tail(pMsgList)
    /\ IF Len(pMsgList) = 1 THEN Goto("expire") ELSE UNCHANGED taskVars
    /\ UNCHANGED <<clientVars, cloudVars>>

NoMessage ==
    /\ pc = "yield" /\ pMsgList = <<>>
    /\ Goto("expire")
    /\ UNCHANGED <<clientVars, actionVars, pMsgList, controlVars, eventVars, cloudVars>>

InLoop == step > Len(Setup(app))

\* Mutant: the timers of the postings are never looked at.
Expire_Never ==
    /\ pc = "expire"
    /\ Goto(IF InLoop THEN "control" ELSE "wait")
    /\ UNCHANGED <<clientVars, actionVars, pMsgList, controlVars, eventVars, cloudVars>>

\* handle_template_expired_event, at the end of IOT_Template_Yield.
Expire ==
    /\ pc = "expire"
    /\ event_list' = SelectSeq(event_list, LAMBDA e : ~e.expired)
    /\ Goto(IF InLoop THEN "control" ELSE "wait")
    /\ UNCHANGED <<clientVars, actionVars, pMsgList, controlVars, eventflags, cloudVars>>

\* All timers are set for the same time, and expire in the order of the list.
TimerExpires ==
    LET waiting == {k \in DOMAIN event_list : ~event_list[k].expired} IN
    /\ ~Stopped /\ waiting # {}
    /\ event_list' = [event_list EXCEPT ![Min(waiting)].expired = TRUE]
    /\ UNCHANGED <<taskVars, clientVars, actionVars, pMsgList, controlVars, eventflags, cloudVars>>

\* IOT_Template_Report_SysInfo_Sync and IOT_Template_GetStatus_sync: the request,
\* then yields until it is answered.
SyncSend ==
    /\ pc = "request"
    /\ ("event_list" \in Built /\ Goto("yield")) \/ Goto("ended")
    /\ UNCHANGED <<clientVars, actionVars, pMsgList, controlVars, eventVars, cloudVars>>

\* Accepted, with controls that wait for the device or without; rejected; timed
\* out, which writes through a stray pointer; or not answered yet.  Clearing the
\* controls blocks on a mutex that is not recursive (Template, for both).
SyncDone ==
    /\ pc = "wait"
    /\ \/ Enter(step + 1) /\ UNCHANGED controlVars
       \/ /\ Current.what = "get_status"
          /\ \E keys \in (SUBSET Props) \ {{}} : Apply(GetToken, keys)
          /\ Enter(step + 1) \/ Goto("blocked")
       \/ (Goto("ended") \/ Goto("faulted") \/ Goto("yield")) /\ UNCHANGED controlVars
    /\ UNCHANGED <<clientVars, actionVars, pMsgList, eventVars, cloudVars>>

-----------------------------------------------------------------------------
(* The loop.                                                               *)

\* deal_down_stream_user_logic: the lamp's switch is an event.
DealDown ==
    eventflags' = IF app = "light" /\ Switch \in changed
                  THEN eventflags \cup {CHOOSE e \in Events : TRUE} ELSE eventflags

\* Mutant: the task goes on although the control was not acknowledged.
ControlReply_GoesOn ==
    /\ pc = "control"
    /\ sg_control_msg_arrived
    /\ DealDown
    /\ Goto("report")
    /\ \/ sg_control_msg_arrived' = FALSE /\ owing' = owing \ {clientToken}
       \/ UNCHANGED <<sg_control_msg_arrived, owing>>
    /\ UNCHANGED <<clientVars, actionVars, pMsgList, changed, clientToken, unreported, event_list, cloudVars>>

\* IOT_Template_ControlReply carries the token of the last control.
ControlReply ==
    /\ pc = "control"
    /\ sg_control_msg_arrived
    /\ DealDown
    /\ \/ /\ Goto("report")
          /\ sg_control_msg_arrived' = FALSE
          /\ owing' = owing \ {clientToken}
       \/ Goto("ended") /\ UNCHANGED <<sg_control_msg_arrived, owing>>
    /\ UNCHANGED <<clientVars, actionVars, pMsgList, changed, clientToken, unreported, event_list, cloudVars>>

NoControl ==
    /\ pc = "control" /\ ~sg_control_msg_arrived
    /\ Goto("report")
    /\ UNCHANGED <<clientVars, actionVars, pMsgList, controlVars, eventVars, cloudVars>>

AfterReport == IF app = "light" THEN "cycle" ELSE "event"

\* Mutant: a report that fails is forgotten.
Report_GoesOn ==
    /\ pc = "report" /\ changed # {}
    /\ changed' = {}
    /\ unreported' \in {{}, unreported}
    /\ Goto(AfterReport)
    /\ UNCHANGED <<clientVars, actionVars, pMsgList, sg_control_msg_arrived, clientToken, owing, eventVars, cloudVars>>

\* deal_up_stream_user_logic marks the properties unchanged before they are sent.
Report ==
    /\ pc = "report" /\ changed # {}
    /\ changed' = {}
    /\ \/ unreported' = unreported \ changed /\ Goto(AfterReport)
       \/ UNCHANGED unreported /\ Goto("ended")
    /\ UNCHANGED <<clientVars, actionVars, pMsgList, sg_control_msg_arrived, clientToken, owing, eventVars, cloudVars>>

NoReport ==
    /\ pc = "report" /\ changed = {}
    /\ Goto(AfterReport)
    /\ UNCHANGED <<clientVars, actionVars, pMsgList, controlVars, eventVars, cloudVars>>

\* cycle_report: all properties, when the timer has expired.  A failure to send
\* is ignored, one to build the document ends the task.
CycleReport ==
    /\ pc = "cycle"
    /\ \/ unreported' = {} /\ Goto("event")
       \/ UNCHANGED unreported /\ (Goto("event") \/ Goto("ended"))
    /\ UNCHANGED <<clientVars, actionVars, pMsgList, changed, sg_control_msg_arrived, clientToken, owing,
                   eventVars, cloudVars>>

\* token_num never repeats: a token nobody holds.
Fresh == Min(Tokens \ ({event_list[k].token : k \in DOMAIN event_list} \cup posts
                       \cup {pMsgList[k].token : k \in {n \in DOMAIN pMsgList : pMsgList[n].kind = "reply"}}))

\* _create_event_add_to_list, if there is room.
CreateEvent ==
    /\ Len(event_list) < MaxEvents
    /\ event_list' = Append(event_list, [token |-> Fresh, expired |-> FALSE])

\* The document may not fit its buffer, or not be published.
PublishEvent ==
    posts' \in {posts} \cup {posts \cup {Fresh} : i \in 1 .. MaxInFlight - Cardinality(posts)}

\* IOT_Post_Event: the posting is listed before the document is built; one that
\* fails stays in the list.  There may be no room, or no memory.
Post ==
    \/ CreateEvent /\ PublishEvent
    \/ UNCHANGED <<event_list, posts>>

\* Mutant: the lamp clears the flags as it collects the events, like usr_logic.
LightEventPostCheck_ClearsFirst ==
    /\ eventflags # {} /\ Post
    /\ eventflags' = {}

\* The lamp posts until a reply clears the flags.
LightEventPostCheck ==
    /\ IF eventflags # {} THEN Post ELSE UNCHANGED <<event_list, posts>>
    /\ UNCHANGED eventflags

\* usr_logic sets all flags, and clears them as it collects the events.
UsrEventPostCheck ==
    /\ Post
    /\ eventflags' = {}

eventPostCheck ==
    /\ pc = "event"
    /\ \/ app = "light" /\ LightEventPostCheck
       \/ app = "usr_logic" /\ UsrEventPostCheck
    /\ Goto("yield")
    /\ UNCHANGED <<clientVars, actionVars, pMsgList, controlVars, subscribed, sent>>

\* The loop of mqtt_sample.c, which never yields.
Publish ==
    /\ pc = "publish"
    /\ Goto("publish") \/ Goto("ended")
    /\ UNCHANGED <<clientVars, actionVars, pMsgList, controlVars, eventVars, cloudVars>>

-----------------------------------------------------------------------------
(* The cloud, and IOT_Template_Message_Arrived_CallBack in the parser.     *)

\* Without the list the parser pushes through a null pointer.
Arrive(m) ==
    /\ ~Stopped /\ Len(pMsgList) < MaxQueue
    /\ IF "pMsgList" \in Built
       THEN pMsgList' = Append(pMsgList, m) /\ UNCHANGED taskVars
       ELSE Goto("crashed") /\ UNCHANGED pMsgList
    /\ UNCHANGED <<clientVars, actionVars, controlVars, eventVars, subscribed>>

\* A control names properties; of the inputs of a call some can be read.
CloudSends(kind, topic) ==
    /\ topic \in subscribed /\ sent["control"] + sent["call"] + sent["data"] < MaxSent
    /\ sent' = [sent EXCEPT ![kind] = @ + 1]
    /\ \E keys \in IF kind = "control" THEN SUBSET Props ELSE {{}} :
       \E readable \in IF kind = "call" THEN 0 .. Inputs ELSE {0} :
          Arrive([kind |-> kind, token |-> sent[kind] + 1, keys |-> keys, readable |-> readable])
    /\ UNCHANGED posts

CloudReplies == \E p \in posts :
    /\ posts' = posts \ {p}
    /\ "event" \in subscribed
    /\ Arrive([kind |-> "reply", token |-> p, keys |-> {}, readable |-> 0])
    /\ UNCHANGED sent

ReplyLost == \E p \in posts :
    /\ ~Stopped
    /\ posts' = posts \ {p}
    /\ UNCHANGED <<taskVars, clientVars, actionVars, pMsgList, controlVars, eventVars, subscribed, sent>>

Task ==
    \/ SetupOk \/ SetupFail \/ InitFail \/ RegisterFail \/ Crash \/ SyncSend \/ SyncDone
    \/ HandleMessage \/ NoMessage \/ Expire
    \/ ControlReply \/ NoControl \/ Report \/ NoReport \/ CycleReport
    \/ eventPostCheck \/ Publish

Next ==
    \/ Task
    \/ TimerExpires
    \/ CloudSends("control", "property") \/ CloudSends("call", "action") \/ CloudSends("data", "data")
    \/ CloudReplies \/ ReplyLost

Spec == Init /\ [][Next]_vars

\* The task runs, timers expire.  Nothing is assumed of the cloud.
FairSpec == Spec /\ WF_vars(Task) /\ WF_vars(TimerExpires)

-----------------------------------------------------------------------------
(* Properties.                                                             *)

\* qcloud_iot_template_init was called and made only some of the parts.
InitFailed == built < Len(Parts) /\ \E n \in 1 .. step - 1 : Setup(app)[n].what = "init"

\* Messages arrive as soon as the topics are subscribed and find what they need,
\* unless making the lists or registering fails.  The parser gets none before
\* IOT_Template_Construct has made the list it pushes them to, and none is handled
\* before every property and action is registered, when a control would match
\* nothing and be dropped (data_template_client.c:726-757,
\* light_data_template_sample.c:566-622, data_template_client_manager.c:419).  The
\* task goes on from two failures: a list that could not be made, which only breaks
\* the program, at the first message or at a registration, before any message is
\* handled (data_template_client.c:726-732), and a registration, after which it
\* yields with the client it destroyed (light_data_template_sample.c:280-283).
\* mqtt_sample.c makes no list, and its first message is pushed through a null
\* pointer (data_template_client.c:96).
ReadyForMessages ==
    /\ pc = "crashed" => app = "mqtt" \/ InitFailed \/ destroyed
    /\ pc = "yield" => \/ destroyed
                       \/ /\ built = Len(Parts)
                          /\ property_handle_list = Props /\ action_handle_list = Actions

\* While the task lives no change made by a control is forgotten: what has been
\* in no report since is still marked eCHANGED, though the marks are removed
\* before the report is sent (light_data_template_sample.c:359-373, :666-682).
ChangeKept == ~Stopped => unreported \subseteq changed

\* A task that gets past the controls has acknowledged the last one it received,
\* under that control's own token, the ones get_status found included
\* (light_data_template_sample.c:643-663, data_template_client_manager.c:143-150).
\* A control that another one follows in the same yield is never acknowledged: it
\* stays in owing, and the server keeps it (light_data_template_sample.c:646).
ControlAcked == pc = "report" => clientToken \notin owing

\* An action that runs has every input its call brought in readable form, and
\* answers that call once: the inputs live in one place that outlives the calls,
\* what a call leaves out comes from an earlier one, never from a later, and only
\* a string that ends the parsing is known to be missing
\* (data_template_aciton.c:33-77, :107-110).
OwnInput == \A r \in ran :
    /\ \A i \in 1 .. Inputs :
          IF i <= r.readable THEN r.input[i] = r.token
          ELSE IF i = r.readable + 1 /\ i \in StringInputs THEN r.input[i] = NoToken
          ELSE r.input[i] < r.token
    /\ \A q \in ran : q.token = r.token => q = r

\* The lamp forgets an event only when a reply arrives for a posting that still
\* waits: neither a failed posting, nor a timeout, nor a reply that comes after
\* the timeout clears its flag (light_data_template_sample.c:161-165, :436-474,
\* data_template_event.c:60-112).
FlagUntilReply == [][
    (app = "light" /\ eventflags # {} /\ eventflags' = {})
    => /\ pMsgList # <<>> /\ pMsgList' = Tail(pMsgList)
       /\ Head(pMsgList).kind = "reply" /\ WaitsFor(Head(pMsgList).token)]_vars

\* A list of postings that is full does not stay full while the task runs,
\* though every reply may be lost and failed postings stay in it
\* (data_template_event.c:60-121, :171, :496).
RoomAgain == Len(event_list) = MaxEvents ~> (Len(event_list) < MaxEvents \/ Stopped)

=============================================================================
