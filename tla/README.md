# A TLA+ model of qcloud-iot-sdk-tencent-at-based

The SDK runs on an MCU that reaches the Tencent IoT cloud through a modem
("module") speaking MQTT-over-AT commands on a UART.  Three kinds of actors run
concurrently:

* the UART **receive interrupt** (`port/hal_at.c`) pushes bytes into a ring buffer;
* the **parser thread** (`client_parser`, `src/module_at/at_client.c`) pops bytes,
  assembles lines and either runs a URC handler or feeds the pending response;
* one or more **application threads** send AT commands (`at_obj_exec_cmd`), wait for
  flags set by URC handlers (`module_api_inf.c`), and drive the data template
  (`data_template/*.c`) by calling `IOT_Template_Yield`.

Everything but the order of bytes on the UART is nondeterministic: when the module
answers, when a timer expires, which thread runs.

## 1. Inventory

| component | source | state | operations | what is hard |
|---|---|---|---|---|
| ring buffer | `src/module_at/ringbuff.c`, `port/hal_at.c` | `size readpoint writepoint buffer full` | init, flush, push (ISR), pop (parser) | pop and flush are several steps the ISR interleaves with; full at `size-1` |
| line reader | `at_client.c` `at_client_getchar`, `at_recv_readline`, `get_urc_obj` | `recv_buffer cur_recv_len end_sign` | read a line, time out, overflow, change of the end sign | a byte popped at the deadline is dropped; an overlong line flushes the ring; the end sign changes in the middle of a line |
| AT client | `at_client.c` | `lock resp resp_status resp_notice`, the parser's locals `resp_buf_len line_counts` | `at_obj_exec_cmd`, `at_client_wait_connect`, `client_parser`, create/delete response | one lock on the command side, none towards the parser; late answers; stale notice and stale locals |
| module API | `module_api_inf.c` | `sg_flags`, `end_sign` | conn, sub, unsub, pub, publ, state, wifi, network registration, URC handlers | flags set by the parser and cleared by the caller (read-modify-write), late URCs, the disconnect URC ends the parser thread |
| MQTT dispatch | `src/mqtt/mqtt.c` | `sg_msg_handlers`, `sg_mqtt_lock` | `register_sub_topic`, `deliver_message`, topic matching | a Boolean used as a lock; a table of 5 entries that nothing empties; wildcard matching |
| downstream queue | `data_template_client.c` `_handle_message`, `IOT_Template_Message_Arrived_CallBack`, `utils_list.c` | `pMsgList` | push by the parser, drain by the application | no lock on either side |
| data template requests | `data_template_client_manager.c`, `data_template_client.c` | `reply_list mutex token_num sync_status` | report, get status, sysinfo, clear control, control reply, the `_sync` variants, expiry | replies by token, duplicates, loss, timeouts; callbacks run under the mutex |
| events | `data_template_event.c` | `event_list` | post, reply, expiry | table limit, the unit of the timeout, a failed publish |
| properties, actions | `data_template_client_common.c`, `data_template_aciton.c` | `property_handle_list action_handle_list` | register, remove, dispatch | the existence check compares different pointers |
| list | `src/utils/utils_list.c` | `head tail len`, `prev next` | push, pop, find, remove, iterate | removal during iteration |
| timers | `at_timer.c`, `utils_timer.c` | `end_time` (uint32) | countdown, expired, remain | wrap-around of the millisecond tick |
| samples | `sample/*.c`, `usr_logic/*.c` | changed flags, event flags, the token of a control | setup, yield, acknowledge, report, post | messages arrive during setup; marks are removed before the report that may fail |
| JSON, strings, logging, device info | `json_*.c`, `string_utils.c`, `at_utils.c`, `iot_device.c`, `at_log.c` | buffers | formatting and parsing | data only |
| HAL, OS port | `port/hal_os.c`, `port/hal_at.c` | - | mutex, threads, UART | the RTOS decides whether a mutex may be locked twice |

What makes each part correct:

* ring buffer: received bytes come out once, in order, and are lost only when the ring is
  full or flushed;
* line reader: lines come out as the module sent them;
* AT client: a command gets the verdict and the lines of that very command, one command at
  a time, no response is used after it was freed, every call returns;
* module API: a call answers with what the module said of it, during that call;
* MQTT dispatch: a message goes to the handlers whose filter covers its topic, and to no
  other; no message is dropped;
* data template: each request is answered once, with the cloud's verdict on it, or
  expires; a synchronous call returns; the table of pending requests empties;
* list: a sequence that may be walked and changed at the same time;
* events: as requests, and a posting that failed does not block later ones for good;
* tasks: no change, control or event is forgotten because a call failed; an action runs with
  the input of its call;
* timers: they expire after the time they were given.

## 2. Plan

| step | modules | composes | status |
|---|---|---|---|
| 1 | `RingBuff`, abstract `ByteFifo` | | checked, refinement proved |
| 2 | `AtClient`, abstract `AtCommand` | | checked, every safety property of `exec` proved, refinement included |
| 3 | `Template`, abstract `TemplateRequest` | | checked, every safety property proved, refinement included |
| 4 | `TopicMatch` | | checked, every safety property proved |
| 5 | `ModuleApi` | what `AtCommand` promises of a command; the handlers of `mqtt.c` | checked, every invariant proved |
| 6 | `LineReader` | `ByteFifo` as its input | checked, every safety property proved |
| 7 | `UtilsList`, abstract `Deque` | the queue `Template` takes for granted | checked, every safety property proved, refinement included |
| 8 | `Application` | events, properties, actions and the three tasks, over what steps 3 and 5 promise | checked, every safety property proved |
| 9 | ticks | | not begun: the 32-bit tick of `at_timer.c`, seconds and milliseconds |

The first four carry the logic of the SDK: whatever an application does ends in a command
of step 2 or in a request of step 3.  Steps 5 to 8 are the layers around them.

## 3. The modules and the code

`PROJECT.json` maps every definition to its lines.  Actions have the names of the C
functions where one action is one function, and otherwise the name of what the step does.

**RingBuff.**  The interrupt (`AT_UART_IRQHandler`, one `ring_buff_push_data`) is atomic,
since nothing on the MCU interrupts it but it interrupts every thread.  The reading thread
is split at each store: a pop tests, advances `readpoint` and copies
(`PopCheck`, `PopAdvance`, `PopCopy`), a flush stores `readpoint`, `writepoint`, each slot
of the `memset` and `full`.  The buffer starts with arbitrary contents and the ring
refuses bytes until `ring_buff_init`.  `ByteFifo` is what the users of the ring may rely
on.

**LineReader.**  `at_recv_readline` byte by byte over `ByteFifo` (instantiated, so that it
relies on nothing but what `RingBuffProofs` proves), while the module sends lines and a
publishing thread changes `end_sign` at any time.  A byte is the line it belongs to and its
position there, so that the lines handed to the parser can be compared with those sent.
`hurt` records the lines something happened to that the code cannot undo: a byte refused by
a full ring, a pause longer than `GET_CHAR_TIMEOUT_MS`, a byte popped at the deadline, a
flush, a line that does not fit, an end sign that cuts a line.

**AtClient.**  Callers run `at_obj_exec_cmd` (`Call` ... `Return`) or
`at_client_wait_connect` (`Wait...`), the parser runs `client_parser` (`ReadLine` ...
`Notify`), each split where the other side can interfere: the parser takes no lock.  A
line is the command it answers and its kind (data, ok, error, URC); a response object
knows whether it is allocated.  The module answers commands in order.  `Faults` says what
may go wrong: `lost` commands, `partial` answers, `late` answers (without it a timer runs
out only when nothing of the command's answer is on its way), `no_memory`.
`AtCommand` is the contract of a command.

**ModuleApi.**  Each function of `module_api_inf.c` is a script of the few things they all
do: change a flag, execute a command, wait for a flag, register a handler, send a payload.
One interpreter runs the scripts of all threads, with `sg_flags` as read-modify-write (a
load, then a store) in the callers and in the parser.  A command takes the lock, is
answered or times out, as `AtCommand` says.  Answers and URCs share one line, in order.
The URC of a disconnection ends the parser thread, as `hal_thread_destroy(NULL)` of the running
thread does.  `register_sub_topic` and `deliver_message` test and set `sg_mqtt_lock` in two
steps.  A call returns what the code returns: a status query that fails answers `FALSE`, the
same as a disconnection, and a subscription the module refuses succeeds, since
`urc_mqtt_sub_func` sets the flag for either verdict.  Two history variables let a property
tell them apart: `during` has what happened in each call (the verdict of the module, its
connection, a failed command), `races` which overlaps of the threads, so that a property
can say exactly which of them it needs not to happen.

**TopicMatch.**  `_is_topic_matched`, one step per turn of either loop, on every filter in
the format its comment assumes and every name.  `Covers` is the reference: levels compared
one by one, `+` any level, a final `#` the parent and all below.

**UtilsList.**  A heap of numbered nodes, reused once freed, with `prev`, `next` and `val`;
`list_lpush` by the parser and `list_remove` by the walking thread are split at every
store, the other operations are one step each.  `Serialised` says whether the two overlap.
`Deque` is a sequence with one walk over it.  `order`, a history variable, is the sequence of
nodes that the operations so far leave; it takes no part in a guard, and gives the refinement
mapping.

**Template.**  Threads issue requests (`Begin`, `ReadToken`, `StoreToken`, `PublishOk` or
`PublishFail`, `AddRequest`, `Return`); `Main` also makes synchronous calls and runs
`IOT_Template_Yield`: the messages of `pMsgList` one after the other, then the expired
requests, each a walk over `reply_list` from the tail with the mutex held
(`TraverseLock`, then one step per entry).  `_reply_ack_cb` and
`_get_status_reply_ack_cb` are inlined in the steps that call them;
`IOT_Template_ClearControl`, called inside a walk, is the steps `ClearPublish` and
`ClearAdd`.  A document is its method, token, code and whether it has control data.
An offline device (`IOT_MQTT_IsConnected`) is a failed publication.  `RecursiveMutex` says
whether the owner of the mutex may take it again (`CanLock`): the port in the repository
makes a mutex that it may not (`port/hal_os.c:127-130`).  `TemplateRequest` is
the life of a request.

**Application.**  The tasks of `sample/light_data_template_sample.c`,
`usr_logic/data_template_usr_logic.c` and `sample/mqtt_sample.c`: setup is a sequence of
calls with what a failure of each leads to, and the loop is yield (every queued message),
acknowledge, report, post events.  `qcloud_iot_template_init` makes its parts one after the
other and gives up at the first it cannot (`InitFail`: `built` counts them); the setup goes on,
and `Crash` and `Arrive` are where the task or the parser follows a pointer to a part that is
not there.  A registration that fails destroys the client (`RegisterFail`); the setup goes on
with it and is followed up to the loop.  The parser queues messages between any two steps.
Controls, calls of actions and replies to events are handled inside the yield as
`data_template_event.c`, `data_template_aciton.c` and `data_template_client_common.c` do.
A message carries a token, the properties it names, or how many of an action's inputs are
readable; an input that is not keeps the value of an earlier call, but a string that is missing
becomes NULL.  History variables: `unreported` (changes in no report yet), `owing` (all the
controls that changed something and were not acknowledged), `ran` (actions run, with their
inputs).

## 4. Runs

| run | question | result |
|---|---|---|
| `ring_fifo` | is the ring a FIFO with the interrupt between any two stores? | holds; refinement of `ByteFifo` |
| `line_reader` | do lines come out as they were sent, and is damage confined to the line it hits and the next? | holds, liveness included |
| `at_exec` | does a command get its own answer while commands may be lost but answers are in time? | holds; refinement of `AtCommand` |
| `at_races` | with answers and deadlines in any order, and connection probes: who may touch a response, and does every call return? | holds, liveness included |
| `at_late_answer` | is success the answer of this command, even after a timeout? | violated: the late answer of one command completes the next |
| `module_api` | does a call answer from what happened during it, although the parser sets the flags at any time? | holds, except after the overlaps each property names; a refusal counts as a success and a failed query as a disconnection, as in the code; every call returns |
| `topic_match` | does matching end, inside its strings, missing nothing? | holds |
| `utils_list` | does the list stay a list while it is walked, pushed to and removed from? | holds with operations serialised; refinement of `Deque` |
| `template` | on a mutex its owner may take again: do requests follow `TemplateRequest`, do synchronous calls tell the truth? | holds |
| `template_self_lock` | on the port's mutex: does every request leave the list? | violated: a status with control data blocks the thread that yields |
| `template_sync_timeout` | does the callback get its user context on expiry? | violated: the two paths pass different pointers |
| `application` | what does a task keep when calls fail: messages find what they need, changes are reported, the last control is acknowledged, an action has its own input as far as it was readable, an event stays until a reply | holds, with the exceptions each property names |

**Bounds.**  `ring_fifo`: four slots and two bytes, so that the ring wraps, fills and is
flushed in every position.  `line_reader`: a ring and a buffer of four bytes and two lines
out of a reply, a URC, a URC that contains the prompt, the prompt alone and a line that
does not fit: two, because the question is what one line can do to the next.  `at_exec`:
two callers and two commands (one may lose, one may get, the other's answer), answers of up
to two data lines and one URC, a buffer that holds them.  `at_races`: the same without data
lines, since what is asked is about the response and the lock.  `module_api`: two threads
with two calls in all, of every pair of operations on every module type, two topics for a
table of one entry, so that it overflows, one message, two retries.  `topic_match`: two
letters and five characters, enough for three levels and a wildcard in each place; the
theorems cover all lengths.  `utils_list`: three nodes (a middle one exists, and both of its
neighbours are ends) with two values, so that equal values meet; indices past both ends.
`template`: two requests and a control message, a table of two, so that a synchronous call,
its clear request and a GET of another thread meet in a full table; synchronous calls do not
expire in it, which is the subject of `template_sync_timeout`.  `template_self_lock`: one
synchronous GET and a report that waits behind it.
`application`: two properties of which one raises an event, two messages of any kinds (two
controls may meet in one yield, and the second call of an action find the inputs of the
first), an action with two inputs of which the first is a string, a list of two postings with
a reply on its way.
`MaxReqs`, `MaxControls`, `MaxCmds`, `MaxData`, `MaxUrcs`, `MaxLines`, `MaxCalls`, `MaxMsgs`,
`MaxSent`, `MaxInFlight` and `MaxQueue` only stop the environment.

**Deadlock** is checked in `ring_fifo`, `utils_list`, `template` and
`template_sync_timeout`.  Callers of `AtClient` and `ModuleApi` may stop for good after their
last call, the module after `MaxLines`, a task of `Application` after a failed setup;
`_is_topic_matched` returns, and in `template_self_lock` the blocked thread stands still.

**Fairness.**  `LineReader`: the parser thread runs, and the module finishes a line it has
begun.  `AtClient`: the scheduler runs the parser and every caller (weak), a caller
waiting for the mutex gets it when it is free again and again (strong, `osWaitForever` on
an RTOS mutex with a queue), time passes; nothing is assumed of the module.  `ModuleApi`:
the parser, as long as it exists, and every thread run, and timers run out; nothing is
assumed of the module.  `Template`: threads run, `Main` keeps yielding
(`sample/light_data_template_sample.c:637-640`), timers run out; nothing is assumed of the
cloud.  `Application`: the task runs and the timers of postings run out; nothing is assumed
of the cloud.  `TopicMatch`: the function keeps running.

## 5. What the other faults show

Three disagreements are runs of their own: `at_late_answer`, `template_sync_timeout` and
`template_self_lock`.  The models, some of them with other constants,
also show the following; none is part of a passing run's claims.

Ring, lines and commands:

* A byte pushed between the flush's `writepoint = 0` and the `memset` that follows comes out
  as NUL (`ringbuff.c:30`); `ByteFifo` says so, and `LineReader` inherits it.  The flush is
  reached by a line that is too long; the repository's `README.md:85` says that the parser gets
  what the interrupt stores.
* The prompt `>` that arrives after `module_mqtt_publ` has reset `end_sign` does not end a
  line: it is glued to the next one, which is then no URC, or dropped with it at the next
  timeout.  `module_mqtt_publ` sends its payload without waiting for the prompt.

* `late` in `at_exec`: the parser uses `client->resp` after the caller cleared and freed it
  (`at_client.c:736`; violates `NoCrash`).
* `no_memory`: `at_create_resp` may fail, and `at_exec_cmd` with NULL dereferences it
  (`:338`), where the comment at `:311` reads "using NULL when you don't care response".
* `wait_connect` before `exec`: the stale `resp_notice` of the probe (`:450`) ends the
  next command at once (`SuccessIsOwn`).
* `partial`, or a buffer too small: the parser's `line_counts` survive into the next
  response, against `at_client.h:64` (`ContractSpec`).
* An answer that comes just before the deadline is reported as a timeout, since the timer
  is read twice (`:364`); the contract allows it.
* Bytes that arrive before `ring_buff_init` are refused, and `module_init` powers the
  module on first (`module_api_inf.c:348`), contrary to the comment above it.

Module API and dispatch:

* `+TCMQTTSUB:FAIL` sets `MQTT_SUB_FLAG` as `OK` does (`module_api_inf.c:276-280`): a
  subscription the module refused returns success.  `SubAnswered` therefore asks for a verdict,
  not for a grant.
* `IOT_MQTT_IsConnected` returns false when its query fails or times out (`:670-674`), which
  callers read as a disconnection.
* `MQTT_SUB_FLAG` does not say whose subscription was answered: the late URC of one that
  was given up answers the next, and so does that of another thread.
* `setFlag` and `clearFlag` overlap in two threads and one update is lost: an answer may then
  come from before the call, and a subscription may be taken for answered that is not, since
  a thread that read `sg_flags` while an earlier one was being answered stores the flag again; two threads that
  test `sg_mqtt_lock` before either sets it are both in the table of handlers; a message that
  finds the lock taken is dropped.
* The payload of a long publication follows its command outside the lock: the command of
  another thread in between is taken for the payload.  `module_mqtt_publ` always returns
  success, and the verdict in a URC (`FAIL`) is not read.
* The URC of a disconnection ends the parser thread, and nothing creates it again: every
  later command times out (`module_api_inf.c:273`).
* `module_init` returns an uninitialised value when the module does not power on
  (`module_api_inf.c:328-351`).
* `register_sub_topic` allocates one byte too few for the copy of a topic (`mqtt.c:72`) and
  leaks the old copy of one that is registered again; a failed subscription keeps its entry.
* `_is_topic_matched` accepts more than a filter covers: `/#` accepts `b`, `a/#` accepts
  `ab`, `a/+/b` accepts `a/` (`mqtt.c:168`).

Queue and requests:

* `Serialised = FALSE`: `list_lpush` and `list_remove`, which no lock separates, break the
  list and the walk uses a freed node (`WalkSafe`, `WellFormed`).
* `early_reply`: a request is published before it is in `reply_list`
  (`data_template_client_manager.c:395`, `:402`).  An answer that another thread handles
  in between passes it by (`AnswerReaches`), and the request times out.
* `token_race`: `(*tokenNumber)++` on a shared counter can give two requests one token, and
  an answer then reaches both (`SyncSuccessIsClouds`).
* `RecursiveMutex = FALSE`, the port's own mutex: the callback of a GET whose answer has
  control data calls `IOT_Template_ClearControl`, which takes the mutex that the walk of the
  same thread holds, and the thread waits for itself (`template_self_lock`).  What the run
  `template` and the theorems on `Template` say of such answers needs a port with a mutex
  that may be taken twice; the theorems hold for either, since blocked threads do nothing.
* `sub_fail`: `sync_status` is never negative, so that no call subscribes again, against
  the comment at `data_template_client.c:327`.
* `null_context`: an asynchronous GET without a user context stores through NULL when its
  reply has control data (`data_template_client_manager.c:497`).
* A synchronous call whose answer has no readable code is dropped from the list without a
  callback and waits for ever; a full table fails a request that was already published.

Tasks, events and actions:

* `mqtt_sample.c` builds no `pMsgList`: its first message is pushed through NULL, and
  `dataTopic_cb` is never called, against the repository's `README.md:32`
  and `:178`.
* `net_prepare` returns success when `module_init` fails; a failed registration returns the
  success of `IOT_Template_Destroy`, and the task goes on, up to its loop, with a client that
  is gone (`light_data_template_sample.c:280-283`).
* `IOT_Template_Construct` returns the result of its last subscription only.  When
  `qcloud_iot_template_init` cannot make its lists, it only logs it and subscribes all the same
  (`data_template_client.c:726-732`): the first message, or a registration, then follows a null
  pointer.  `ReadyForMessages` names this failure and the one before as its exceptions.
* The timeout of a posting is given to `countdown` in milliseconds where it takes seconds
  (`data_template_event.c:189`): lost replies fill the list for hours.  The lamp posts its
  event in every round until a reply comes, and a reply that finds its
  posting still waiting clears all flags, the one of a newer event too.
* `_parse_action_input` fails on every path (`data_template_aciton.c:33-77`), and its caller
  does not look: an action whose input cannot be read runs with the input of an earlier call,
  for a string a pointer to what `OnActionCallback` has freed or NULL, and is answered with
  success.
* The existence checks of properties and actions compare a handler with what it holds, and
  never find anything: a second registration adds a second entry.
* Two controls in one yield get one reply, with the last token, even if the last of them
  matched no property: the first stays in `owing` and the server keeps it, against
  `light_data_template_sample.c:646`.

## 6. Proofs

All proofs are for every value of the constants, from the assumptions named in the modules.
`RingAssumption`: a positive size, NUL not among the bytes sent.  `AtAssumption`,
`TopicAssumption`, `ApplicationAssumption`, `TemplateAssumption`: the constants are sets and
numbers of the right kind and, in the last, the threads that do not yield make no synchronous
call.
`ApiAssumption`: also, only the thread that yields delivers messages, and the calls are those
of `module_api_inf.h`.  `LineAssumption`: there is room for a byte, lines are not empty;
`TextAssumption`: a line feed only ends a line and follows a carriage return, so that a line
of the module is one line to the reader.  Each proof module states an invariant as a conjunction of named
parts, one lemma per part shows that a step keeps it, and the theorems follow from the
conjunction.

* `RingBuffProofs`.  `IndexInv` adds to the types what each place of the
  reading thread knows: a pop that has found the ring non-empty still does when it
  advances, the size is stored once the ring exists, and a flush has its indices where it
  put them.  It is needed because the emptiness test is separate from its use, with the
  interrupt in between.  From it: `TypeCorrect`, `PopAlwaysHasByte`, `PoppedSlotIsStable`, and
  `RingImplementsFifo`, where the queue is the sequence of slots from `readpoint` to
  `writepoint` and each step maps to one of `ByteFifo` or to a
  stutter; a pushed byte always lands behind the last one because one slot stays free.
* `AtClientProofs`.  `LockInv`: the lock holder is exactly the caller whose place is inside
  the critical section, a response is attached only at the places between attaching and
  detaching, and an object is allocated as long as it can be attached.  It implies
  `AtTypeCorrect`, `RespIsOwned` and `RespIsAllocated`, with all faults allowed.
  `PromptNoCrash` and `ExecImplementsContract` need `Prompt`, the conditions of `at_exec`:
  commands are executed one by one with `line_num` 0 (as every caller in `src/` does), may be
  lost but are not answered in part or late, and the answer fits the response.  Section 5 has
  what happens without each of them.  `ServeInv` says for each place of the lock holder what
  is on its way to it: nothing (`Still`) when it begins and once it closes; while it polls,
  either what is left of its answer (`Open`), or the whole of it is in its response (`Heard`).
  `Follows` is its core: it numbers the lines on the UART so that, URCs aside, each is the
  next line of the answer after those the parser has taken.  It is needed because the parser
  knows no command: that a line belongs to the response it is stored in follows only from
  nothing being left of the command before.  `ExecInv` (a response exists while its call
  does) keeps the parser from crashing.  A step is then `Start`, `Say` or `Finish` of the
  contract (`CallStep`, `ModuleSays`) or hidden (`ParserHidden`).  TLC checked `ServeInv` on the
  constants of `at_exec`, but no run lists it: it asks for a function on the natural numbers.
* `TopicMatchProofs`.  `CursorInv` (inside the inner loop both cursors are strictly inside)
  gives `CursorsInside`; `LiteralInv` (for a filter without wildcards the cursors are equal
  and everything before them agrees) gives `LiteralFilterIsExact`.  `Covers` compares levels and
  the code walks characters, so `NoTopicMissed` first says where the levels are
  (`RankFacts`, `BoundaryFacts`, `LevelFacts`: a level is what lies between two neighbouring
  separators); `MissInv` is then that the walk over a covered name is in step with them: at
  the start of a `+`, at equal distances inside a literal level, at the end of the same level
  of both, or at the final `#`.
* `TemplateProofs`, for any number of threads, requests and control messages and any capacity.
  `TypeInv` (types, where Main is in its walk, the numbers of the requests) gives `TypesKept`.
  `FrameInv`: the list has at most one synchronous request, the one of the call Main waits in,
  and once its acknowledgement is set it is the entry the walk is about to remove; this is
  more than `FramesAlive` says, and needed because the acknowledgement, not the list, ends
  the call.  `NumberInv`: what was published under the number of a request is that request,
  and a request that clears control data is not made twice.  `ReachInv`: the answer to an
  entry is in the queue, and behind the message at hand once the walk for that one has passed
  the entry; with `DataInv` (tokens of the device and of control messages differ) it gives
  `AnswersReach`, on condition that no answer comes before its request is in the list
  (`early_reply`, which breaks it, section 5).  `TokenInv` (no token is given to two requests)
  and `MessageInv` (an answer in the queue says what the cloud answered to some request) show
  that the message that acknowledges a synchronous request is the answer to that request;
  `SyncInv` carries it to the return of the call: `SuccessIsClouds` and `ControlIsCleared`, on
  condition that two threads never take a token at the same moment (`token_race`, which
  breaks them).
* In its last section, `Template` implements `TemplateRequest` (`RequestsAsPromised`), on
  condition that no token is taken twice and that no synchronous call is timed out by the list,
  which drops a request that has a callback without a word (section 5).  `FateInv`, with the
  invariants above: a request is in the list once and the application has heard nothing of
  it, but for the entry whose control data Main is clearing, which was told and is still
  listed.  Each step of `Template` is then the step of one request (`ThreadMoves`, `MainMoves`,
  `ClearMoves`, `AnswerMoves`) or of none (`Quiet`).  The verdict that is told is that of the
  cloud since the message at hand answers the entry (`OwnVerdict`), and there is room in the
  abstract table since the waiting requests are the image of the list (`RoomLeft`).
* `ModuleApiProofs`, for any threads, calls and modules.  `LockInv`: unless two tests of
  `sg_mqtt_lock` overlapped, one thread at most is past the test, and the lock is set exactly
  while it is inside (`LockIsBracketed`).  `LineInv`, `ReadyInv` and `HandlerInv` follow a
  subscription from the registration of its handler to the messages: a topic the module
  knows or is being told of, a message on the line and one being delivered have a handler in
  the table (`HandlerIsReady`).  `PublInv`: from the prompt of a long publication to its payload
  the module waits for it (`PayloadIsExpected`).  `CoreInv`, `SubInv`: but for the overlaps
  the property names, a verdict on its way is the only one, belongs to the one
  subscription that waits, and finds its flag clear (`SubscriptionAnswered`).  `StateInv`: the
  module reports its connection before it answers the query, and every report after it is of
  a moment of the call; `AnswerInv`, `NetInv`: the answer on the line is the one its call
  waits for, and the registration it announces lies within the call, as does the failure of a
  query that answers false (`AnswersAreOfTheCall`).  The attempt to prove `SubAnswered` showed that a lost
  update of `sg_flags` breaks it too, which takes three calls; the property says so now.
* `LineReaderProofs`, for any sizes of ring and buffer, any lines, pauses, deadlines and changes
  of the end sign.  `OrderInv`: what was handed over, the buffer and the ring, one after the
  other, hold bytes in the order in which they were sent (`TextsAreAsSent`, with `WholeInv`: a
  line that is handed over in part is hurt).  `LineInv`: a line that is not hurt, up to its
  last byte that has arrived, lies in one piece in buffer and ring together, or has been handed
  over in one text; behind it comes only what was sent later.  With `FeedInv` (the buffer never
  holds the line feed of an intact line: it would have been handed over), `AloneInv` (an
  intact line shares its text with no other, if the one before it is intact and ended) and
  `UrcInv` this is `DamageStaysLocal`.  `ReaderInv` gives what the reader knows across a flush,
  `BufferBounds` the bounds.
* `ApplicationProofs`, for all sequences of failures.  `SetupInv`: how far the setup has come
  tells what it has built and registered, nothing is subscribed before
  `qcloud_iot_template_init` was called, and what is missing is owed to that call or to a
  registration that failed (`MessagesFindTheirPlace`).  `ControlInv`: while the control whose
  token the task holds is owed, the task knows that one arrived (`NoChangeForgotten`,
  `LastControlAcknowledged`).  A control that follows has a token that none before it had
  (`TokensInv`: the controls that wait in the queue have different tokens, none of them owed), so
  that what `owing` keeps of overtaken controls does not touch it.
  `CallsInv`: the queued calls are newer than each input that is
  kept and each call that ran, and come in the order of their tokens
  (`ActionsHaveTheirInput`).  `EventKeptUntilReply` is an action property, proved step by step
  without an invariant.

* `UtilsListProofs`, for any number of nodes and any values, on condition that an operation is
  over before another thread begins one (`Serialised`).  That is so for `reply_list` and
  `event_list`, which a mutex guards; for `pMsgList` nothing ensures it, and section 5 has what
  happens then.  `ListInv` follows an operation through its stores (`PushInv`, `RemoveInv`): the
  links along `next`, those along `prev`, the two ends and the length are one after the
  other those of the list with the node that comes (`New`) or without the one that leaves
  (`Rest`); `WalkInv` says that what the walk has in hand and what it is given next are two
  nodes of the list.  This gives `WellFormedAlways` and `WalkAlwaysSafe`, and with `order` as
  the items `ListIsADeque`: an operation takes effect where it stores `len`, its other stores
  are not seen.  What `list_find`, `list_at` and `list_destroy` reach along the links is a
  recursive function; `NthNext` and `NthPrev` find it by induction up to the length (`UpTo`),
  which the well-foundedness of the numbers gives.

**Only model-checked:** liveness (`CallReturns`, `CallsReturn`,
`LineArrives`, `RoomAgain`, `Terminates`), which is out of the prover's reach.

## 7. Not modelled

* Text: JSON, string helpers, formatting, logging; the models use what the parsers return.
  Device information, constants set once.
* The arithmetic on the 32-bit tick: timers expire at any time, so too early is covered and
  never is not.
* What nothing in the repository calls: `at_client_obj_recv`, `IOT_Post_Event_Raw`, the
  functions that unregister properties and actions.  `IOT_Template_Destroy` appears in
  `Application` only as what a failed registration leaves behind: what a task that yields with
  the freed client does is not followed, the model stops at `faulted`.
* Two threads that yield at once.
* The build without an OS, where the parser is called in the foreground and responses are
  static.
