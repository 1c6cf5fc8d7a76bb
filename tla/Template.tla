------------------------------ MODULE Template ------------------------------
(***************************************************************************)
(* The requests of the data template (data_template_client_manager.c and   *)
(* data_template_client.c).  Any thread may issue a request: it is         *)
(* published and then entered in reply_list under the mutex.  One thread,  *)
(* Main, also makes the synchronous calls and runs IOT_Template_Yield,     *)
(* which hands the messages of pMsgList to their requests, and expires the *)
(* requests, with the mutex held while callbacks run.                      *)
(*                                                                         *)
(* pMsgList is taken here to be a FIFO queue.  A document is abstracted to *)
(* its method, clientToken, code and whether it has control data.          *)
(***************************************************************************)
EXTENDS Integers, Sequences, SequencesExt

CONSTANTS
    Main,           \* the thread that yields
    Workers,        \* the threads that only issue requests
    None,           \* the free mutex
    Calls,          \* the API calls Main makes
    WorkerCalls,    \* the asynchronous calls the workers make
    Timeouts,       \* the kinds of request whose timer may run out
    Faults,         \* "pub_fail", "garbled", "early_reply", "token_race", "sub_fail",
                    \* "null_context"
    RecursiveMutex, \* whether the owner may lock the mutex of the port again
    Capacity,       \* MAX_APPENDING_REQUEST_AT_ANY_GIVEN_TIME
    MaxReqs,        \* bound on the calls
    MaxControls     \* bound on the control messages

Threads == Workers \cup {Main}
SyncKinds == {"report_sync", "get_sync"}
Kinds == SyncKinds \cup {"report", "get", "control_reply", "clear"}
GetKinds == {"get", "get_sync"}
MuteKinds == {"control_reply", "clear"}     \* those without a callback

ASSUME TemplateAssumption ==
    /\ Main \notin Workers /\ None \notin Threads
    /\ Calls \subseteq Kinds \ {"clear"}
    /\ WorkerCalls \subseteq Kinds \ (SyncKinds \cup {"clear"})
    /\ RecursiveMutex \in BOOLEAN
    /\ Capacity \in Nat /\ MaxReqs \in Nat /\ MaxControls \in Nat

\* The clear_control that a GET may cause has the number of the GET plus
\* MaxReqs.
Ids == 1 .. 2 * MaxReqs

NoToken == -1           \* the empty token; device tokens are 0, 1, ...
ControlToken(k) == -1 - k

VARIABLES
    reply_list, mutex, token_num, sync_status,  \* Qcloud_IoT_Template
    clientToken,                    \* sg_template_clientToken
    pMsgList,                       \* the messages not yet handled, oldest first
    pc, req, result,                \* the threads: place, request, return code
    ack,                            \* ack_report or ack_request of Main's call
    iter,                           \* the walk Main is on, and where it returns to
    issued, up, told,               \* calls begun, what was published, callbacks run
    subscribed, attempts, controls, \* the subscription and the cloud
    wild, crashed                   \* undefined behaviour: a stray store, a NULL store

templateVars == <<reply_list, mutex, token_num, sync_status, clientToken>>
threadVars == <<pc, req, result, ack, iter>>
cloudVars == <<subscribed, attempts, controls>>
vars == <<templateVars, pMsgList, threadVars, issued, up, told, cloudVars, wild, crashed>>

NoReq == [id |-> 0, kind |-> "none", token |-> NoToken]
NotSent == [kind |-> "none", token |-> NoToken, answer |-> "none", control |-> FALSE]

Init ==
    /\ reply_list = <<>>
    /\ mutex = None
    /\ token_num = 0
    /\ sync_status = 0
    /\ clientToken = NoToken
    /\ pMsgList = <<>>
    /\ pc = [t \in Threads |-> IF t = Main THEN "construct" ELSE "idle"]
    /\ req = [t \in Threads |-> NoReq]
    /\ result = [t \in Threads |-> "SUCCESS"]
    /\ ack = "none"
    /\ iter = [mode |-> "expired", at |-> 0, more |-> FALSE, back |-> "idle"]
    /\ issued = 0
    /\ up = [i \in Ids |-> NotSent]
    /\ told = [i \in Ids |-> <<>>]
    /\ subscribed = FALSE
    /\ attempts = 0
    /\ controls = 0
    /\ wild = FALSE
    /\ crashed = FALSE

Goto(t, from, to) == ~crashed /\ pc[t] = from /\ pc' = [pc EXCEPT ![t] = to]

\* The application hears of request i: a callback, or the return of the call.
Hear(i, what) == told' = [told EXCEPT ![i] = Append(@, what)]

-----------------------------------------------------------------------------
(* IOT_Template_Construct, and the calls that issue a request.             *)

Subscribe(ok) ==
    /\ ok \/ "sub_fail" \in Faults
    /\ subscribed' = (subscribed \/ ok)
    /\ attempts' = attempts + 1

\* sync_status is only assigned when the subscription has succeeded.
IOT_Template_Construct == \E ok \in BOOLEAN :
    /\ Goto(Main, "construct", "idle")
    /\ Subscribe(ok)
    /\ sync_status' = IF ok THEN 0 ELSE sync_status
    /\ UNCHANGED <<reply_list, mutex, token_num, clientToken, pMsgList, req, result,
                   ack, iter, issued, up, told, controls, wild, crashed>>

\* The calls check sync_status and subscribe again if it is negative.  Those
\* that build their document take a token; a control reply carries the token
\* of the last control.
Begin(t, kind) ==
    /\ pc[Main] # "construct"
    /\ issued < MaxReqs
    /\ kind \in IF t = Main THEN Calls ELSE WorkerCalls
    /\ kind = "control_reply" => clientToken # NoToken
    /\ Goto(t, "idle", IF kind = "control_reply" THEN "publish" ELSE "token")
    /\ issued' = issued + 1
    /\ req' = [req EXCEPT ![t] = [id |-> issued', kind |-> kind, token |-> clientToken]]
    /\ IF sync_status < 0 THEN \E ok \in BOOLEAN : Subscribe(ok)
                          ELSE UNCHANGED <<subscribed, attempts>>
    /\ UNCHANGED <<templateVars, pMsgList, result, ack, iter, up, told, controls, wild, crashed>>

IOT_Template_Report(t) == Begin(t, "report")
IOT_Template_GetStatus(t) == Begin(t, "get")
IOT_Template_ControlReply(t) == Begin(t, "control_reply")
IOT_Template_Report_Sync == Begin(Main, "report_sync")
IOT_Template_GetStatus_sync == Begin(Main, "get_sync")

\* build_empty_json: (*tokenNumber)++ on a counter the threads share.
ReadToken(t) ==
    /\ "token_race" \in Faults \/ \A s \in Threads : pc[s] # "store_token"
    /\ Goto(t, "token", "store_token")
    /\ req' = [req EXCEPT ![t].token = token_num]
    /\ UNCHANGED <<templateVars, pMsgList, result, ack, iter, issued, up, told,
                   cloudVars, wild, crashed>>

StoreToken(t) ==
    /\ Goto(t, "store_token", "publish")
    /\ token_num' = req[t].token + 1
    /\ UNCHANGED <<reply_list, mutex, sync_status, clientToken, pMsgList, req, result,
                   ack, iter, issued, up, told, cloudVars, wild, crashed>>

Send(r) == up' = [up EXCEPT ![r.id] = [@ EXCEPT !.kind = r.kind, !.token = r.token]]

PublishOk(t) ==
    /\ Goto(t, "publish", "add")
    /\ Send(req[t])
    /\ UNCHANGED <<templateVars, pMsgList, req, result, ack, iter, issued, told,
                   cloudVars, wild, crashed>>

\* module_mqtt_pub failed: the device is offline, or the module answered with
\* an error or too late, in which case the document may be on its way.
PublishFail(t) ==
    /\ "pub_fail" \in Faults
    /\ Goto(t, "publish", "return")
    /\ result' = [result EXCEPT ![t] = "FAILURE"]
    /\ Hear(req[t].id, "failed")
    /\ Send(req[t]) \/ UNCHANGED up
    /\ UNCHANGED <<templateVars, pMsgList, req, ack, iter, issued, cloudVars, wild, crashed>>

CanLock(t) == mutex = None \/ (mutex = t /\ RecursiveMutex)

Entry(r) == [id |-> r.id, kind |-> r.kind, token |-> r.token, expired |-> FALSE]

\* _add_request_to_template_list between lock and unlock.
Enlist(r) ==
    IF Len(reply_list) >= Capacity
    THEN Hear(r.id, "failed") /\ UNCHANGED reply_list
    ELSE reply_list' = Append(reply_list, Entry(r)) /\ UNCHANGED told

AddRequest(t) ==
    /\ pc[t] = "add" /\ CanLock(t)
    /\ Enlist(req[t])
    /\ LET full == told' # told IN
          /\ Goto(t, "add", IF ~full /\ req[t].kind \in SyncKinds THEN "wait" ELSE "return")
          /\ result' = [result EXCEPT ![t] = IF full THEN "MAX_APPENDING" ELSE "SUCCESS"]
    /\ UNCHANGED <<mutex, token_num, sync_status, clientToken, pMsgList, req, ack, iter,
                   issued, up, cloudVars, wild, crashed>>

\* The caller leaves the frame of its locals.
Return(t) ==
    /\ Goto(t, "return", "idle")
    /\ req' = [req EXCEPT ![t] = NoReq]
    /\ result' = [result EXCEPT ![t] = "SUCCESS"]
    /\ ack' = IF t = Main THEN "none" ELSE ack
    /\ UNCHANGED <<templateVars, pMsgList, iter, issued, up, told, cloudVars, wild, crashed>>

-----------------------------------------------------------------------------
(* The loop of the synchronous calls, and IOT_Template_Yield.              *)

\* Mutant: the acknowledgement is returned as it is.
ResultOf_Raw(a) == a

\* Mutant: rc keeps its initial value when the cloud rejected the document.
ResultOf_NoRejected(a) ==
    CASE a = "timeout" -> "TIMEOUT" [] OTHER -> "SUCCESS"

ResultOf(a) ==
    CASE a = "accepted" -> "SUCCESS" [] a = "timeout" -> "TIMEOUT" [] OTHER -> "REJECTED"

\* Mutant: the call does not wait for its acknowledgement.
SyncDone_NoWait ==
    /\ Goto(Main, "wait", "return")
    /\ result' = [result EXCEPT ![Main] = ResultOf(ack)]
    /\ UNCHANGED <<templateVars, pMsgList, req, ack, iter, issued, up, told,
                   cloudVars, wild, crashed>>

SyncDone ==
    /\ ack # "none"
    /\ Goto(Main, "wait", "return")
    /\ result' = [result EXCEPT ![Main] = ResultOf(ack)]
    /\ UNCHANGED <<templateVars, pMsgList, req, ack, iter, issued, up, told,
                   cloudVars, wild, crashed>>

\* Called by the application or by the loop of a synchronous call.
IOT_Template_Yield ==
    /\ pc[Main] = "wait" => ack = "none"
    /\ \/ Goto(Main, "idle", IF pMsgList = <<>> THEN "lock" ELSE "message")
       \/ Goto(Main, "wait", IF pMsgList = <<>> THEN "lock" ELSE "message")
    /\ iter' = [iter EXCEPT !.mode = "expired", !.back = pc[Main]]
    /\ UNCHANGED <<templateVars, pMsgList, req, result, ack, issued, up, told,
                   cloudVars, wild, crashed>>

Message == Head(pMsgList)

\* _on_template_downstream_topic_handler.  The iterator has already moved past
\* the message: one that arrives meanwhile waits for the next yield.
HandleMessage ==
    /\ Goto(Main, "message",
            CASE Message.method = "none" -> "free"
              [] Message.method = "control" -> "control"
              [] OTHER -> "lock")
    /\ iter' = [iter EXCEPT !.mode = "reply", !.more = Len(pMsgList) > 1]
    /\ UNCHANGED <<templateVars, pMsgList, req, result, ack, issued, up, told,
                   cloudVars, wild, crashed>>

\* The property callbacks run with the mutex held.
HandleControl ==
    /\ CanLock(Main)
    /\ Goto(Main, "control", "free")
    /\ clientToken' = Message.token
    /\ UNCHANGED <<reply_list, mutex, token_num, sync_status, pMsgList, req, result,
                   ack, iter, issued, up, told, cloudVars, wild, crashed>>

FreeMessage ==
    /\ Goto(Main, "free", IF iter.more THEN "message" ELSE "lock")
    /\ pMsgList' = Tail(pMsgList)
    /\ iter' = [iter EXCEPT !.mode = "expired", !.more = FALSE]
    /\ UNCHANGED <<templateVars, req, result, ack, issued, up, told, cloudVars,
                   wild, crashed>>

-----------------------------------------------------------------------------
(* _traverse_template_list, from the tail, with one of two handlers.       *)

\* Mutant: the walk leaves out the tail.
TraverseLock_SkipsTail ==
    /\ CanLock(Main)
    /\ Goto(Main, "lock", "walk")
    /\ mutex' = Main
    /\ iter' = [iter EXCEPT !.at = IF reply_list = <<>> THEN 0 ELSE Len(reply_list) - 1]
    /\ UNCHANGED <<reply_list, token_num, sync_status, clientToken, pMsgList, req,
                   result, ack, issued, up, told, cloudVars, wild, crashed>>

TraverseLock ==
    /\ CanLock(Main)
    /\ Goto(Main, "lock", "walk")
    /\ mutex' = Main
    /\ iter' = [iter EXCEPT !.at = Len(reply_list)]
    /\ UNCHANGED <<reply_list, token_num, sync_status, clientToken, pMsgList, req,
                   result, ack, issued, up, told, cloudVars, wild, crashed>>

TraverseEnd ==
    /\ iter.at = 0
    /\ Goto(Main, "walk", IF iter.mode = "reply" THEN "free" ELSE iter.back)
    /\ mutex' = None
    /\ iter' = IF iter.mode = "reply" THEN iter ELSE [iter EXCEPT !.back = "idle"]
    /\ UNCHANGED <<reply_list, token_num, sync_status, clientToken, pMsgList, req,
                   result, ack, issued, up, told, cloudVars, wild, crashed>>

Current == reply_list[iter.at]

\* Whether the handler of this walk has something to do with an entry.
Concerned(e) ==
    IF iter.mode = "reply" THEN e.token = Message.token ELSE e.expired

TraverseSkip ==
    /\ iter.at > 0
    /\ ~Concerned(Current)
    /\ Goto(Main, "walk", "walk")
    /\ iter' = [iter EXCEPT !.at = @ - 1]
    /\ UNCHANGED <<templateVars, pMsgList, req, result, ack, issued, up, told,
                   cloudVars, wild, crashed>>

AtEntry(mode) == iter.at > 0 /\ iter.mode = mode /\ Concerned(Current)

RemoveCurrent ==
    /\ reply_list' = RemoveAt(reply_list, iter.at)
    /\ iter' = [iter EXCEPT !.at = @ - 1]

\* _handle_template_expired_reply_callback.  The callback is given the user
\* context, where _reply_ack_cb and _get_status_reply_ack_cb take their
\* argument for a Request: they store through whatever pointer lies behind
\* the acknowledgement on the stack.  Either the acknowledgement stays as it
\* is, or the store faults.
ExpireEntry ==
    LET stray == Current.kind \in SyncKinds
        silent == stray \/ Current.kind \in MuteKinds IN
    /\ AtEntry("expired")
    /\ Goto(Main, "walk", "walk")
    /\ wild' = (wild \/ stray)
    /\ \/ /\ RemoveCurrent
          /\ Hear(Current.id, IF silent THEN "silent" ELSE "timeout")
          /\ UNCHANGED crashed
       \/ /\ stray
          /\ crashed' = TRUE
          /\ UNCHANGED <<reply_list, iter, told>>
    /\ UNCHANGED <<mutex, token_num, sync_status, clientToken, pMsgList, req, result,
                   ack, issued, up, cloudVars>>

HasControl == Message.method = "get_status_reply" /\ Message.code = "accepted" /\ Message.control

\* _handle_template_reply_callback when the code cannot be read: no callback.
ReplyGarbled ==
    /\ AtEntry("reply")
    /\ Message.code = "garbled"
    /\ Goto(Main, "walk", "walk")
    /\ RemoveCurrent
    /\ Hear(Current.id, "silent")
    /\ UNCHANGED <<mutex, token_num, sync_status, clientToken, pMsgList, req, result,
                   ack, issued, up, cloudVars, wild, crashed>>

\* _reply_ack_cb and _get_status_reply_ack_cb.
AckAfter(e, status) == IF e.kind \in SyncKinds THEN status ELSE ack

\* Mutant: the entry stays in the list.
ReplyVerdict_Kept ==
    /\ AtEntry("reply")
    /\ Message.code # "garbled"
    /\ ~HasControl
    /\ Goto(Main, "walk", "walk")
    /\ iter' = [iter EXCEPT !.at = @ - 1]
    /\ ack' = AckAfter(Current, Message.code)
    /\ Hear(Current.id, IF Current.kind \in MuteKinds THEN "silent" ELSE Message.code)
    /\ UNCHANGED <<templateVars, pMsgList, req, result, issued, up, cloudVars, wild, crashed>>

\* The callback is given the Request, and sets the acknowledgement.
ReplyVerdict ==
    /\ AtEntry("reply")
    /\ Message.code # "garbled"
    /\ ~HasControl
    /\ Goto(Main, "walk", "walk")
    /\ RemoveCurrent
    /\ ack' = AckAfter(Current, Message.code)
    /\ Hear(Current.id, IF Current.kind \in MuteKinds THEN "silent" ELSE Message.code)
    /\ UNCHANGED <<mutex, token_num, sync_status, clientToken, pMsgList, req, result,
                   issued, up, cloudVars, wild, crashed>>

\* Mutant: the control data is not cleared.
ReplyControl_NoClear ==
    /\ AtEntry("reply")
    /\ HasControl
    /\ Goto(Main, "walk", "remove")
    /\ clientToken' = Message.token
    /\ ack' = "accepted"
    /\ Hear(Current.id, "accepted")
    /\ UNCHANGED <<reply_list, mutex, token_num, sync_status, pMsgList, req, result, iter,
                   issued, up, cloudVars, wild, crashed>>

HasContext(kind) == kind \in SyncKinds \/ (kind = "get" /\ "null_context" \notin Faults)

\* Control data came with the status.  The acknowledgement is set through
\* user_context before the callback runs, whatever the request was: without a
\* context that is a store through NULL.
ReplyControl ==
    /\ AtEntry("reply")
    /\ HasControl
    /\ clientToken' = Message.token
    /\ IF HasContext(Current.kind)
       THEN /\ ack' = AckAfter(Current, "accepted")
            /\ Hear(Current.id, "accepted")
            /\ Goto(Main, "walk", IF Current.kind = "get_sync" THEN "clear_publish" ELSE "remove")
            /\ UNCHANGED crashed
       ELSE /\ Goto(Main, "walk", "walk")
            /\ crashed' = TRUE
            /\ UNCHANGED <<ack, told>>
    /\ UNCHANGED <<reply_list, mutex, token_num, sync_status, pMsgList, req, result, iter,
                   issued, up, cloudVars, wild>>

\* IOT_Template_ClearControl, called by _get_status_reply_ack_cb with the
\* mutex still held; its return code is ignored.
ClearReq == [id |-> Current.id + MaxReqs, kind |-> "clear", token |-> Current.token]

ClearPublish ==
    /\ \/ /\ Goto(Main, "clear_publish", "clear_add")
          /\ Send(ClearReq)
          /\ UNCHANGED told
       \/ /\ "pub_fail" \in Faults
          /\ Goto(Main, "clear_publish", "remove")
          /\ Hear(ClearReq.id, "failed")
          /\ Send(ClearReq) \/ UNCHANGED up
    /\ UNCHANGED <<templateVars, pMsgList, req, result, ack, iter, issued, cloudVars,
                   wild, crashed>>

ClearAdd ==
    /\ CanLock(Main)
    /\ Goto(Main, "clear_add", "remove")
    /\ Enlist(ClearReq)
    /\ UNCHANGED <<mutex, token_num, sync_status, clientToken, pMsgList, req, result,
                   ack, iter, issued, up, cloudVars, wild, crashed>>

RemoveEntry ==
    /\ Goto(Main, "remove", "walk")
    /\ RemoveCurrent
    /\ UNCHANGED <<mutex, token_num, sync_status, clientToken, pMsgList, req, result,
                   ack, issued, up, told, cloudVars, wild, crashed>>

-----------------------------------------------------------------------------
(* Time and the cloud.                                                     *)

TimerExpires(i) ==
    /\ ~crashed
    /\ \E k \in DOMAIN reply_list :
          /\ reply_list[k].id = i
          /\ reply_list[k].kind \in Timeouts
          /\ ~reply_list[k].expired
          /\ reply_list' = [reply_list EXCEPT ![k].expired = TRUE]
    /\ UNCHANGED <<mutex, token_num, sync_status, clientToken, pMsgList, threadVars,
                   issued, up, told, cloudVars, wild, crashed>>

Arrive(m) == pMsgList' = Append(pMsgList, m)

Entering(i) == \E t \in Threads : pc[t] = "add" /\ req[t].id = i

CloudAnswer(i) ==
    /\ ~crashed /\ subscribed
    /\ up[i].kind \in Kinds \ {"control_reply"}
    /\ up[i].answer = "none"
    /\ "early_reply" \in Faults \/ ~Entering(i)
    /\ \E code \in {"accepted", "rejected", "garbled"}, control \in BOOLEAN :
          /\ code = "garbled" => "garbled" \in Faults
          /\ control => code = "accepted" /\ up[i].kind \in GetKinds
          /\ up' = [up EXCEPT ![i].answer = code, ![i].control = control]
          /\ Arrive([method |-> IF up[i].kind \in GetKinds THEN "get_status_reply" ELSE "reply",
                     token |-> up[i].token, code |-> code, control |-> control])
    /\ UNCHANGED <<templateVars, threadVars, issued, told, cloudVars, wild, crashed>>

CloudControl ==
    /\ ~crashed /\ subscribed
    /\ controls < MaxControls
    /\ controls' = controls + 1
    /\ \E method \in {"control", "none"} :
          /\ method = "none" => "garbled" \in Faults
          /\ Arrive([method |-> method, token |-> ControlToken(controls'),
                     code |-> "garbled", control |-> FALSE])
    /\ UNCHANGED <<templateVars, threadVars, issued, up, told, subscribed, attempts,
                   wild, crashed>>

-----------------------------------------------------------------------------
Call(t) ==
    \/ IOT_Template_Report(t)
    \/ IOT_Template_GetStatus(t)
    \/ IOT_Template_ControlReply(t)

RequestStep(t) ==
    \/ ReadToken(t)
    \/ StoreToken(t)
    \/ PublishOk(t)
    \/ PublishFail(t)
    \/ AddRequest(t)
    \/ Return(t)

MainStep ==
    \/ IOT_Template_Construct
    \/ SyncDone
    \/ IOT_Template_Yield
    \/ HandleMessage
    \/ HandleControl
    \/ FreeMessage
    \/ TraverseLock
    \/ TraverseEnd
    \/ TraverseSkip
    \/ ExpireEntry
    \/ ReplyGarbled
    \/ ReplyVerdict
    \/ ReplyControl
    \/ ClearPublish
    \/ ClearAdd
    \/ RemoveEntry

Cloud ==
    \/ \E i \in Ids : CloudAnswer(i)
    \/ CloudControl

Next ==
    \/ \E t \in Threads : Call(t) \/ RequestStep(t)
    \/ IOT_Template_Report_Sync
    \/ IOT_Template_GetStatus_sync
    \/ MainStep
    \/ \E i \in Ids : TimerExpires(i)
    \/ Cloud

Spec == Init /\ [][Next]_vars

(***************************************************************************)
(* The threads run, Main goes on yielding as the loop of the samples does, *)
(* and timers run out.  Nothing is asked of the cloud.                     *)
(***************************************************************************)
Fairness ==
    /\ WF_vars(MainStep)
    /\ \A t \in Threads : WF_vars(RequestStep(t))
    /\ \A i \in Ids : WF_vars(TimerExpires(i))

FairSpec == Spec /\ Fairness

-----------------------------------------------------------------------------
(* Properties.                                                             *)

Verdicts == {"accepted", "rejected"}
Outcomes == Verdicts \cup {"timeout", "silent", "failed"}
Places == {"construct", "idle", "token", "store_token", "publish", "add", "return", "wait",
           "message", "control", "free", "lock", "walk", "clear_publish", "clear_add", "remove"}
Results == {"SUCCESS", "FAILURE", "MAX_APPENDING", "TIMEOUT", "REJECTED"}
Entries == [id : Ids, kind : Kinds, token : Int, expired : BOOLEAN]
Messages == [method : {"none", "control", "get_status_reply", "reply"}, token : Int,
             code : Verdicts \cup {"garbled"}, control : BOOLEAN]
Requests == [id : Ids \cup {0}, kind : Kinds \cup {"none"}, token : Int]
Published == [kind : Kinds \cup {"none"}, token : Int, control : BOOLEAN,
              answer : Verdicts \cup {"none", "garbled"}]
Iters == [mode : {"reply", "expired"}, at : Nat, more : BOOLEAN, back : {"idle", "wait"}]

\* Every variable keeps its type: in particular the lists hold requests and
\* messages only, and a call returns one of the codes of the interface.
TypeOK ==
    /\ reply_list \in Seq(Entries)
    /\ mutex \in {None, Main}
    /\ token_num \in Nat
    /\ sync_status \in Int
    /\ clientToken \in Int
    /\ pMsgList \in Seq(Messages)
    /\ pc \in [Threads -> Places]
    /\ req \in [Threads -> Requests]
    /\ result \in [Threads -> Results]
    /\ ack \in Verdicts \cup {"none", "timeout"}
    /\ iter \in Iters
    /\ issued \in 0 .. MaxReqs
    /\ up \in [Ids -> Published]
    /\ told \in [Ids -> Seq(Outcomes)]
    /\ subscribed \in BOOLEAN /\ attempts \in Nat /\ controls \in 0 .. MaxControls
    /\ wild \in BOOLEAN /\ crashed \in BOOLEAN

\* The callbacks of the synchronous calls store into a variable of the caller.
\* A request of theirs is in the list only while that very call is waiting,
\* so the store never hits the frame of a call that has returned.
FrameAlive == \A k \in DOMAIN reply_list :
    reply_list[k].kind \in SyncKinds =>
        /\ req[Main].id = reply_list[k].id
        /\ pc[Main] \notin {"idle", "return"}

\* IOT_Template_GetStatus_sync, IOT_Template_Report_Sync: "returns SUCCESS" is
\* the cloud's acceptance of the document this call published.
SyncSuccessIsClouds ==
    pc[Main] = "return" /\ req[Main].kind \in SyncKinds /\ result[Main] = "SUCCESS" =>
        up[req[Main].id].answer = "accepted"

\* "prepare for clear_control": when a get_status_reply brought control data,
\* the call returns only after the cloud was asked to clear it, with the token
\* of that very reply, or the publication of that request failed.
ControlCleared ==
    LET r == req[Main] IN
    /\ pc[Main] = "return" /\ result[Main] = "SUCCESS"
    /\ r.kind = "get_sync" /\ up[r.id].control
    =>  \/ up[r.id + MaxReqs].kind = "clear" /\ up[r.id + MaxReqs].token = r.token
        \/ told[r.id + MaxReqs] = <<"failed">>

\* "在这个回调函数中, 解析出各个设备影子文档操作的结果" (the handler works out the
\* result of each operation): the answer of a request that still waits is yet
\* to come or still queued, so no answer passes its request by.
AnswerReaches == \A k \in DOMAIN reply_list :
    up[reply_list[k].id].answer # "none" =>
        \E m \in DOMAIN pMsgList : pMsgList[m].token = reply_list[k].token

\* RequestParams: user_context is "用户数据, 会通过回调方法OnRequestCallback返回"
\* (user data, returned through the callback).  A callback that gets anything
\* else stores through a pointer that is not one.
ContextReturned == ~wild

Enlisted == {reply_list[k].id : k \in DOMAIN reply_list}

\* One test after the other: they overlap, so a CASE would leave the choice open.
Fate(i) ==
    IF Len(told[i]) = 1 THEN told[i][1]
    ELSE IF Len(told[i]) > 1 THEN "told twice"
    ELSE IF i \in Enlisted THEN "pending"
    ELSE IF up[i].kind # "none" THEN "sent"
    ELSE "new"

Request == INSTANCE TemplateRequest WITH
    fate   <- [i \in Ids |-> Fate(i)],
    answer <- [i \in Ids |-> up[i].answer],
    mute   <- {i \in Ids : up[i].kind \in MuteKinds}

\* The requests of the data template behave as TemplateRequest says.
RequestSpec == Request!Spec

\* RequestParams gives every request a timeout_sec: as long as the application
\* keeps yielding, one whose timer can run out leaves the list.  Whether it does
\* depends on the mutex.  A status with control data, "通过Get status命令可以得到未删除的
\* Control数据" (get status obtains the control data not yet deleted,
\* light_data_template_sample.c:646), is handled with the mutex held, and its
\* callback asks for the data to be cleared, which takes the mutex again
\* (data_template_client.c:196, data_template_client_manager.c:321).
RequestsResolved == \A i \in Ids :
    Fate(i) = "pending" /\ up[i].kind \in Timeouts ~> Fate(i) # "pending" \/ crashed

=============================================================================
