--------------------------- MODULE TemplateProofs ---------------------------
(***************************************************************************)
(* The safety of the requests of the data template, for any number of      *)
(* threads, requests and control messages and any capacity of reply_list.  *)
(* Each conjunct of the argument is kept by a step that finds the earlier  *)
(* ones:                                                                   *)
(*   TypeInv     types, and what Main's place says of its walk             *)
(*   FrameInv    the one synchronous request in the list is that of the    *)
(*               call Main waits in, and leaves once it is acknowledged    *)
(*   NumberInv   what was published under a request's number is its own    *)
(*   DataInv, ReachInv    the answer to an entry is still before the walk  *)
(*   TokenInv    a token is given to one request                           *)
(*   MessageInv  an answer in the queue is that of a request               *)
(*   SyncInv     an acknowledgement is the cloud's answer to the call      *)
(***************************************************************************)
EXTENDS Template, FiniteSetTheorems, TLAPS

\* Taking an entry out of a sequence.
LEMMA RemoveAtSeq ==
    ASSUME NEW S, NEW s \in Seq(S), NEW i \in 1 .. Len(s)
    PROVE  /\ RemoveAt(s, i) \in Seq(S) /\ Len(RemoveAt(s, i)) = Len(s) - 1
           /\ \A k \in 1 .. Len(s) - 1 : RemoveAt(s, i)[k] = IF k < i THEN s[k] ELSE s[k + 1]
<1> DEFINE a == SubSeq(s, 1, i - 1)
           b == SubSeq(s, i + 1, Len(s))
<1>1. a \in Seq(S) /\ Len(a) = i - 1 /\ \A k \in 1 .. i - 1 : a[k] = s[k]
  OBVIOUS
<1>2. b \in Seq(S) /\ Len(b) = Len(s) - i /\ \A k \in 1 .. Len(s) - i : b[k] = s[i + k]
  OBVIOUS
<1>3. RemoveAt(s, i) = a \o b
  BY DEF RemoveAt
<1> HIDE DEF a, b
<1>4. a \o b \in Seq(S) /\ Len(a \o b) = Len(s) - 1
  <2>1. ASSUME NEW x \in Seq(S), NEW y \in Seq(S)
        PROVE  x \o y \in Seq(S) /\ Len(x \o y) = Len(x) + Len(y)
    OBVIOUS
  <2>2. a \o b \in Seq(S) /\ Len(a \o b) = Len(a) + Len(b)
    BY <1>1, <1>2, <2>1, Zenon
  <2>3. Len(s) \in Nat /\ i \in Int
    OBVIOUS
  <2>4. Len(a) + Len(b) = Len(s) - 1
    BY <1>1, <1>2, <2>3
  <2> QED
    BY <2>2, <2>4, Zenon
<1>5. ASSUME NEW k \in 1 .. Len(s) - 1 PROVE (a \o b)[k] = IF k < i THEN s[k] ELSE s[k + 1]
  <2>1. CASE k < i
    BY <1>1, <1>2, <2>1
  <2>2. CASE ~(k < i)
    <3>1. (a \o b)[k] = b[k - (i - 1)]
      BY <1>1, <1>2, <2>2
    <3>2. b[k - (i - 1)] = s[i + (k - (i - 1))]
      BY <1>2, <2>2
    <3>3. i + (k - (i - 1)) = k + 1
      OBVIOUS
    <3> QED
      BY <2>2, <3>1, <3>2, <3>3
  <2> QED
    BY <2>1, <2>2
<1> QED
  BY <1>3, <1>4, <1>5

-----------------------------------------------------------------------------
(* Types, and where Main is.                                               *)

Walking == {"walk", "clear_publish", "clear_add", "remove"}
Clearing == {"clear_publish", "clear_add", "remove"}
Yielding == Walking \cup {"message", "control", "free", "lock"}
Issuing == {"token", "store_token", "publish", "add"}
Answering == {"reply", "get_status_reply"}

\* Main holds the mutex exactly while it walks the list, on an entry of it or past
\* its end, with the message it handles at the head of pMsgList.
PlaceInv ==
    /\ mutex = Main <=> pc[Main] \in Walking
    /\ pc[Main] \in Walking => iter.at <= Len(reply_list)
    /\ pc[Main] \in Clearing => iter.at > 0 /\ iter.mode = "reply"
    /\ pc[Main] \in {"clear_publish", "clear_add"} => Current.kind = "get_sync"
    /\ pc[Main] = "message" \/ iter.mode = "reply" => pMsgList # <<>>
    /\ pc[Main] \in {"control", "free"} => iter.mode = "reply"
    /\ iter.more => Len(pMsgList) > 1

\* The requests have numbers and kinds.
ReqInv ==
    /\ \A t \in Workers : pc[t] \in Issuing \cup {"idle", "return"} /\ req[t].kind \notin SyncKinds
    /\ \A t \in Threads : pc[t] \in Issuing => req[t].id \in 1 .. MaxReqs /\ req[t].kind \in Kinds \ {"clear"}
    /\ \A t \in Threads : pc[t] = "store_token" => req[t].token \in Nat
    /\ \A k \in 1 .. Len(reply_list) : reply_list[k].kind # "clear" => reply_list[k].id \in 1 .. MaxReqs

TypeInv == TypeOK /\ PlaceInv /\ ReqInv

LEMMA TypeInit == Init => TypeInv
<1> SUFFICES ASSUME Init PROVE TypeInv
  OBVIOUS
<1>1. MaxReqs \in Nat /\ MaxControls \in Nat /\ None # Main
  BY TemplateAssumption DEF Threads
<1>2. TypeOK
  <2>1. reply_list \in Seq(Entries) /\ pMsgList \in Seq(Messages) /\ mutex \in {None, Main}
    BY DEF Init
  <2>2. /\ token_num \in Nat /\ sync_status \in Int /\ clientToken \in Int
        /\ ack \in Verdicts \cup {"none", "timeout"} /\ issued \in 0 .. MaxReqs
        /\ attempts \in Nat /\ controls \in 0 .. MaxControls
    BY <1>1 DEF Init, NoToken
  <2>3. /\ pc \in [Threads -> Places] /\ result \in [Threads -> Results]
        /\ iter \in Iters
    BY DEF Init, Places, Results, Iters
  <2>4. req \in [Threads -> Requests]
    BY DEF Init, NoReq, NoToken, Requests
  <2>5. up \in [Ids -> Published]
    BY DEF Init, NotSent, NoToken, Published
  <2>6. told \in [Ids -> Seq(Outcomes)]
    BY DEF Init
  <2>7. subscribed \in BOOLEAN /\ wild \in BOOLEAN /\ crashed \in BOOLEAN
    BY DEF Init
  <2> QED
    BY <2>1, <2>2, <2>3, <2>4, <2>5, <2>6, <2>7 DEF TypeOK
<1>3. PlaceInv
  BY <1>1 DEF Init, PlaceInv, Walking, Clearing, Threads
<1>4. ReqInv
  BY TemplateAssumption DEF Init, ReqInv, Issuing, NoReq, SyncKinds, Threads
<1> QED
  BY <1>2, <1>3, <1>4 DEF TypeInv

-----------------------------------------------------------------------------
(* What the steps are made of.                                             *)

\* A move of a thread.
LEMMA GotoTyped ==
    ASSUME TypeOK, NEW t \in Threads, NEW from, NEW to \in Places, Goto(t, from, to)
    PROVE  /\ pc' \in [Threads -> Places] /\ pc[t] = from /\ pc'[t] = to /\ ~crashed
           /\ \A s \in Threads : s # t => pc'[s] = pc[s]
BY DEF TypeOK, Goto

\* The application hears of a request.
LEMMA HearTyped ==
    ASSUME TypeOK, NEW i \in Ids, NEW what \in Outcomes, Hear(i, what)
    PROVE  /\ told' \in [Ids -> Seq(Outcomes)] /\ told'[i] = Append(told[i], what)
           /\ \A j \in Ids : j # i => told'[j] = told[j]
           /\ told' # told
<1>1. told \in [Ids -> Seq(Outcomes)] /\ told[i] \in Seq(Outcomes)
  BY DEF TypeOK
<1>2. told' = [told EXCEPT ![i] = Append(told[i], what)]
  BY DEF Hear
<1>3. \A s \in Seq(Outcomes) : Append(s, what) \in Seq(Outcomes) /\ Append(s, what) # s
  <2> TAKE s \in Seq(Outcomes)
  <2>1. Append(s, what) \in Seq(Outcomes) /\ Len(Append(s, what)) = Len(s) + 1
    OBVIOUS
  <2>2. Len(s) + 1 # Len(s)
    OBVIOUS
  <2> QED
    BY <2>1, <2>2
<1>4. Append(told[i], what) \in Seq(Outcomes) /\ Append(told[i], what) # told[i]
  BY <1>1, <1>3, Zenon
<1> HIDE DEF Outcomes, Ids
<1> QED
  BY <1>1, <1>2, <1>4, Zenon

\* A document is published.
LEMMA SendTyped ==
    ASSUME TypeOK, NEW r, r.id \in Ids, r.kind \in Kinds, r.token \in Int, Send(r)
    PROVE  /\ up' \in [Ids -> Published]
           /\ up'[r.id].kind = r.kind /\ up'[r.id].token = r.token
           /\ up'[r.id].answer = up[r.id].answer /\ up'[r.id].control = up[r.id].control
           /\ \A j \in Ids : j # r.id => up'[j] = up[j]
<1>1. up \in [Ids -> Published] /\ up[r.id] \in Published
  BY DEF TypeOK
<1>2. up' = [up EXCEPT ![r.id] = [up[r.id] EXCEPT !.kind = r.kind, !.token = r.token]]
  BY DEF Send
<1> DEFINE p == [up[r.id] EXCEPT !.kind = r.kind, !.token = r.token]
<1>3. p \in Published /\ p.kind = r.kind /\ p.token = r.token
        /\ p.answer = up[r.id].answer /\ p.control = up[r.id].control
  BY <1>1 DEF Published
<1>4. up' = [up EXCEPT ![r.id] = p]
  BY <1>2
<1> HIDE DEF p
<1>5. up' \in [Ids -> Published] /\ up'[r.id] = p /\ \A j \in Ids : j # r.id => up'[j] = up[j]
  BY <1>1, <1>3, <1>4, Zenon
<1> QED
  BY <1>3, <1>5

\* The entries and the messages of the lists.
LEMMA EntryTyped ==
    ASSUME TypeOK, NEW k \in 1 .. Len(reply_list)
    PROVE  /\ reply_list[k] \in Entries
           /\ reply_list[k].id \in Ids /\ reply_list[k].kind \in Kinds
           /\ reply_list[k].token \in Int /\ reply_list[k].expired \in BOOLEAN
<1>1. reply_list[k] \in Entries
  BY DEF TypeOK
<1> QED
  BY <1>1 DEF Entries

LEMMA MessageTyped ==
    ASSUME TypeOK, pMsgList # <<>>
    PROVE  /\ Message \in Messages
           /\ Message.method \in {"none", "control", "get_status_reply", "reply"}
           /\ Message.token \in Int /\ Message.code \in Verdicts \cup {"garbled"}
           /\ Message.control \in BOOLEAN
           /\ Message = pMsgList[1] /\ 1 \in 1 .. Len(pMsgList)
<1>1. pMsgList \in Seq(Messages)
  BY DEF TypeOK
<1>2. Message \in Messages /\ Message = pMsgList[1] /\ 1 \in 1 .. Len(pMsgList)
  BY <1>1 DEF Message
<1> QED
  BY <1>2 DEF Messages

\* The entry of the walk is removed.
LEMMA RemoveTyped ==
    ASSUME TypeOK, iter.at \in 1 .. Len(reply_list), RemoveCurrent
    PROVE  /\ reply_list' \in Seq(Entries) /\ Len(reply_list') = Len(reply_list) - 1
           /\ \A k \in 1 .. Len(reply_list) - 1 :
                reply_list'[k] = IF k < iter.at THEN reply_list[k] ELSE reply_list[k + 1]
           /\ iter' \in Iters /\ iter' = [iter EXCEPT !.at = iter.at - 1]
           /\ iter'.at = iter.at - 1 /\ iter'.mode = iter.mode /\ iter'.more = iter.more
           /\ iter'.back = iter.back
<1>1. reply_list \in Seq(Entries) /\ iter \in Iters
  BY DEF TypeOK
<1>2. reply_list' = RemoveAt(reply_list, iter.at) /\ iter' = [iter EXCEPT !.at = iter.at - 1]
  BY DEF RemoveCurrent
<1>3. /\ reply_list' \in Seq(Entries) /\ Len(reply_list') = Len(reply_list) - 1
      /\ \A k \in 1 .. Len(reply_list) - 1 :
            reply_list'[k] = IF k < iter.at THEN reply_list[k] ELSE reply_list[k + 1]
  <2> DEFINE i == iter.at
  <2>1. reply_list' = RemoveAt(reply_list, i) /\ i \in 1 .. Len(reply_list)
    BY <1>2
  <2> HIDE DEF i
  <2>2. /\ reply_list' \in Seq(Entries) /\ Len(reply_list') = Len(reply_list) - 1
        /\ \A k \in 1 .. Len(reply_list) - 1 :
            reply_list'[k] = IF k < i THEN reply_list[k] ELSE reply_list[k + 1]
    BY <1>1, <2>1, RemoveAtSeq, Zenon
  <2> QED
    BY <2>2 DEF i
<1>4. /\ iter' \in Iters /\ iter'.at = iter.at - 1 /\ iter'.mode = iter.mode /\ iter'.more = iter.more
      /\ iter'.back = iter.back
  <2>1. iter.at \in Nat /\ iter.at > 0
    BY <1>1 DEF Iters
  <2>2. iter.at - 1 \in Nat
    BY <2>1
  <2> HIDE DEF Iters
  <2> QED
    BY <1>1, <1>2, <2>1, <2>2 DEF Iters
<1> QED
  BY <1>2, <1>3, <1>4

\* The request is entered in the list, or the application is told that it is full.
LEMMA EnlistTyped ==
    ASSUME TypeOK, NEW r, r.id \in Ids, r.kind \in Kinds, r.token \in Int, Enlist(r)
    PROVE  \/ /\ reply_list' = reply_list /\ told' \in [Ids -> Seq(Outcomes)] /\ told' # told
              /\ told'[r.id] = Append(told[r.id], "failed")
              /\ \A j \in Ids : j # r.id => told'[j] = told[j]
           \/ /\ told' = told
              /\ reply_list' \in Seq(Entries) /\ Len(reply_list') = Len(reply_list) + 1
              /\ \A k \in 1 .. Len(reply_list) : reply_list'[k] = reply_list[k]
              /\ reply_list'[Len(reply_list) + 1] = Entry(r)
<1>1. CASE Len(reply_list) >= Capacity
  <2>1. Hear(r.id, "failed") /\ reply_list' = reply_list
    BY <1>1 DEF Enlist
  <2>2. "failed" \in Outcomes
    BY DEF Outcomes
  <2> QED
    BY <2>1, <2>2, HearTyped
<1>2. CASE ~(Len(reply_list) >= Capacity)
  <2>1. reply_list' = Append(reply_list, Entry(r)) /\ told' = told
    BY <1>2 DEF Enlist
  <2>2. Entry(r) \in Entries
    BY DEF Entry, Entries
  <2>3. reply_list \in Seq(Entries)
    BY DEF TypeOK
  <2>4. ASSUME NEW e \in Entries, reply_list' = Append(reply_list, e)
        PROVE  /\ reply_list' \in Seq(Entries) /\ Len(reply_list') = Len(reply_list) + 1
               /\ \A k \in 1 .. Len(reply_list) : reply_list'[k] = reply_list[k]
               /\ reply_list'[Len(reply_list) + 1] = e
    BY <2>3, <2>4
  <2> QED
    BY <2>1, <2>2, <2>4, Zenon
<1> QED
  BY <1>1, <1>2

\* What is left after a removal was there before.
LEMMA RemovedFrom ==
    ASSUME TypeOK, iter.at \in 1 .. Len(reply_list), RemoveCurrent
    PROVE  \A k \in 1 .. Len(reply_list') : \E j \in 1 .. Len(reply_list) :
              reply_list'[k] = reply_list[j] /\ j # iter.at /\ (k < iter.at => j = k)
                /\ (k >= iter.at => j = k + 1)
<1>1. reply_list \in Seq(Entries)
  BY DEF TypeOK
<1>2. Len(reply_list) \in Nat /\ iter.at \in Int
  BY <1>1
<1> TAKE k \in 1 .. Len(reply_list')
<1>3. k \in 1 .. Len(reply_list) - 1
  BY RemoveTyped
<1>4. CASE k < iter.at
  <2>1. reply_list'[k] = reply_list[k] /\ k \in 1 .. Len(reply_list) /\ k # iter.at
    BY <1>2, <1>3, <1>4, RemoveTyped
  <2> QED
    BY <1>2, <1>3, <1>4, <2>1
<1>5. CASE ~(k < iter.at)
  <2>1. reply_list'[k] = reply_list[k + 1] /\ k + 1 \in 1 .. Len(reply_list) /\ k + 1 # iter.at
    BY <1>2, <1>3, <1>5, RemoveTyped
  <2> QED
    BY <1>2, <1>3, <1>5, <2>1
<1> QED
  BY <1>4, <1>5

\* The timer of an entry runs out: nothing else of the list changes.
LEMMA ExpiredTyped ==
    ASSUME TypeOK, NEW i, TimerExpires(i)
    PROVE  /\ reply_list' \in Seq(Entries) /\ Len(reply_list') = Len(reply_list)
           /\ \A k \in 1 .. Len(reply_list) :
                /\ reply_list'[k].kind = reply_list[k].kind /\ reply_list'[k].id = reply_list[k].id
                /\ reply_list'[k].token = reply_list[k].token
<1>1. reply_list \in Seq(Entries)
  BY DEF TypeOK
<1>2. PICK k \in 1 .. Len(reply_list) : reply_list' = [reply_list EXCEPT ![k].expired = TRUE]
  <2>1. DOMAIN reply_list = 1 .. Len(reply_list)
    BY <1>1
  <2>2. \E k \in DOMAIN reply_list : reply_list' = [reply_list EXCEPT ![k].expired = TRUE]
    BY DEF TimerExpires
  <2> QED
    BY <2>1, <2>2, Zenon
<1> DEFINE e == [reply_list[k] EXCEPT !.expired = TRUE]
<1>3. /\ reply_list[k] \in Entries /\ e \in Entries /\ e.kind = reply_list[k].kind
      /\ e.id = reply_list[k].id /\ e.token = reply_list[k].token
  <2>1. reply_list[k] \in Entries
    BY <1>1
  <2>2. ASSUME NEW x \in Entries
        PROVE  LET y == [x EXCEPT !.expired = TRUE] IN
                  y \in Entries /\ y.kind = x.kind /\ y.id = x.id /\ y.token = x.token
    BY DEF Entries
  <2> QED
    BY <2>1, <2>2
<1>4. reply_list' = [reply_list EXCEPT ![k] = e]
  BY <1>2
<1> HIDE DEF e
<1>5. reply_list' \in Seq(Entries) /\ Len(reply_list') = Len(reply_list)
  BY <1>1, <1>3, <1>4
<1>6. \A j \in 1 .. Len(reply_list) : reply_list'[j] = IF j = k THEN e ELSE reply_list[j]
  BY <1>1, <1>4
<1> QED
  BY <1>3, <1>5, <1>6

-----------------------------------------------------------------------------
(* The types are kept.                                                     *)

\* A step of Main that begins no request.
LEMMA ReqKept ==
    ASSUME ReqInv, req' = req, pc'[Main] \notin Issuing,
           \A s \in Threads : s # Main => pc'[s] = pc[s],
           \A k \in 1 .. Len(reply_list') :
              reply_list'[k].kind # "clear" => reply_list'[k].id \in 1 .. MaxReqs
    PROVE  ReqInv'
<1>1. \A t \in Workers : t \in Threads /\ t # Main
  BY TemplateAssumption DEF Threads
<1>2. \A t \in Workers : pc'[t] \in Issuing \cup {"idle", "return"} /\ req'[t].kind \notin SyncKinds
  BY <1>1 DEF ReqInv
<1>3. \A t \in Threads :
        pc'[t] \in Issuing => req'[t].id \in 1 .. MaxReqs /\ req'[t].kind \in Kinds \ {"clear"}
  BY DEF ReqInv
<1>4. \A t \in Threads : pc'[t] = "store_token" => req'[t].token \in Nat
  BY DEF ReqInv, Issuing
<1> QED
  BY <1>2, <1>3, <1>4 DEF ReqInv

LEMMA TypeMain == TypeInv /\ MainStep => TypeInv'
<1> SUFFICES ASSUME TypeInv, MainStep PROVE TypeInv'
  OBVIOUS
<1>0. TypeOK /\ PlaceInv /\ ReqInv /\ Main \in Threads
  BY DEF TypeInv, Threads
<1>a. /\ iter \in Iters /\ iter.at \in Nat /\ iter.mode \in {"reply", "expired"}
      /\ iter.more \in BOOLEAN /\ iter.back \in {"idle", "wait"}
  BY <1>0 DEF TypeOK, Iters
<1>b. pMsgList \in Seq(Messages) /\ reply_list \in Seq(Entries)
  BY <1>0 DEF TypeOK
<1>c. \A k \in 1 .. Len(reply_list) : reply_list[k].kind # "clear" => reply_list[k].id \in 1 .. MaxReqs
  BY <1>0 DEF ReqInv
<1>1. CASE IOT_Template_Construct
  <2>1. /\ pc[Main] = "construct" /\ pc'[Main] = "idle" /\ pc' \in [Threads -> Places]
        /\ \A s \in Threads : s # Main => pc'[s] = pc[s]
    BY <1>0, <1>1, GotoTyped DEF IOT_Template_Construct, Places
  <2>2. sync_status' \in Int /\ subscribed' \in BOOLEAN /\ attempts' \in Nat
    BY <1>0, <1>1 DEF IOT_Template_Construct, Subscribe, TypeOK
  <2>3. TypeOK'
    BY <1>0, <1>1, <2>1, <2>2 DEF IOT_Template_Construct, TypeOK, cloudVars
  <2>4. PlaceInv'
    BY <1>0, <1>1, <2>1 DEF IOT_Template_Construct, PlaceInv, Walking, Clearing
  <2>5. ReqInv'
    BY <1>0, <1>c, <1>1, <2>1, ReqKept DEF IOT_Template_Construct, Issuing
  <2> QED
    BY <2>3, <2>4, <2>5 DEF TypeInv
<1>2. CASE SyncDone
  <2>1. /\ pc[Main] = "wait" /\ pc'[Main] = "return" /\ pc' \in [Threads -> Places]
        /\ \A s \in Threads : s # Main => pc'[s] = pc[s]
    BY <1>0, <1>2, GotoTyped DEF SyncDone, Places
  <2>2. result' \in [Threads -> Results]
    <3>1. ResultOf(ack) \in Results
      BY DEF ResultOf, Results
    <3> QED
      BY <1>0, <1>2, <3>1 DEF SyncDone, TypeOK
  <2>3. TypeOK'
    BY <1>0, <1>2, <2>1, <2>2 DEF SyncDone, TypeOK, templateVars, cloudVars
  <2>4. PlaceInv'
    BY <1>0, <1>2, <2>1 DEF SyncDone, PlaceInv, Walking, Clearing, templateVars
  <2>5. ReqInv'
    BY <1>0, <1>c, <1>2, <2>1, ReqKept DEF SyncDone, Issuing, templateVars
  <2> QED
    BY <2>3, <2>4, <2>5 DEF TypeInv
<1>3. CASE IOT_Template_Yield
  <2>1. /\ pc[Main] \in {"idle", "wait"} /\ pc'[Main] = (IF pMsgList = <<>> THEN "lock" ELSE "message")
        /\ pc' \in [Threads -> Places]
        /\ \A s \in Threads : s # Main => pc'[s] = pc[s]
    <3>1. (IF pMsgList = <<>> THEN "lock" ELSE "message") \in Places
      BY DEF Places
    <3> QED
      BY <1>0, <1>3, <3>1, GotoTyped DEF IOT_Template_Yield
  <2>2. iter' \in Iters /\ iter'.mode = "expired" /\ iter'.at = iter.at /\ iter'.more = iter.more
    BY <1>a, <1>3, <2>1 DEF IOT_Template_Yield, Iters
  <2>3. TypeOK'
    BY <1>0, <1>3, <2>1, <2>2 DEF IOT_Template_Yield, TypeOK, templateVars, cloudVars
  <2>4. PlaceInv'
    BY <1>0, <1>3, <2>1, <2>2 DEF IOT_Template_Yield, PlaceInv, Walking, Clearing, templateVars
  <2>5. ReqInv'
    BY <1>0, <1>c, <1>3, <2>1, ReqKept DEF IOT_Template_Yield, Issuing, templateVars
  <2> QED
    BY <2>3, <2>4, <2>5 DEF TypeInv
<1>4. CASE HandleMessage
  <2>1. /\ pc[Main] = "message" /\ pc'[Main] \in {"free", "control", "lock"}
        /\ pc' \in [Threads -> Places]
        /\ \A s \in Threads : s # Main => pc'[s] = pc[s]
    <3> DEFINE to == CASE Message.method = "none" -> "free"
                       [] Message.method = "control" -> "control"
                       [] OTHER -> "lock"
    <3>1. to \in {"free", "control", "lock"} /\ to \in Places
      BY DEF Places
    <3>2. Goto(Main, "message", to)
      BY <1>4 DEF HandleMessage
    <3> HIDE DEF to
    <3> QED
      BY <1>0, <3>1, <3>2, GotoTyped
  <2>2. /\ iter' \in Iters /\ iter'.mode = "reply" /\ iter'.at = iter.at
        /\ iter'.more = (Len(pMsgList) > 1)
    <3>1. (Len(pMsgList) > 1) \in BOOLEAN
      OBVIOUS
    <3> QED
      BY <1>a, <1>4, <3>1 DEF HandleMessage, Iters
  <2>3. TypeOK'
    BY <1>0, <1>4, <2>1, <2>2 DEF HandleMessage, TypeOK, templateVars, cloudVars
  <2>4. PlaceInv'
    BY <1>0, <1>4, <2>1, <2>2 DEF HandleMessage, PlaceInv, Walking, Clearing, templateVars
  <2>5. ReqInv'
    BY <1>0, <1>c, <1>4, <2>1, ReqKept DEF HandleMessage, Issuing, templateVars
  <2> QED
    BY <2>3, <2>4, <2>5 DEF TypeInv
<1>5. CASE HandleControl
  <2>1. /\ pc[Main] = "control" /\ pc'[Main] = "free" /\ pc' \in [Threads -> Places]
        /\ \A s \in Threads : s # Main => pc'[s] = pc[s]
    BY <1>0, <1>5, GotoTyped DEF HandleControl, Places
  <2>2. clientToken' \in Int
    BY <1>0, <1>5, <2>1, MessageTyped DEF HandleControl, PlaceInv
  <2>3. TypeOK'
    BY <1>0, <1>5, <2>1, <2>2 DEF HandleControl, TypeOK, cloudVars
  <2>4. PlaceInv'
    BY <1>0, <1>5, <2>1 DEF HandleControl, PlaceInv, Walking, Clearing
  <2>5. ReqInv'
    BY <1>0, <1>c, <1>5, <2>1, ReqKept DEF HandleControl, Issuing
  <2> QED
    BY <2>3, <2>4, <2>5 DEF TypeInv
<1>6. CASE FreeMessage
  <2>1. /\ pc[Main] = "free" /\ pc'[Main] = (IF iter.more THEN "message" ELSE "lock")
        /\ pc' \in [Threads -> Places]
        /\ \A s \in Threads : s # Main => pc'[s] = pc[s]
    <3>1. (IF iter.more THEN "message" ELSE "lock") \in Places
      BY DEF Places
    <3> QED
      BY <1>0, <1>6, <3>1, GotoTyped DEF FreeMessage
  <2>2. pMsgList # <<>> /\ pMsgList' \in Seq(Messages) /\ Len(pMsgList') = Len(pMsgList) - 1
    <3>1. pMsgList # <<>> /\ pMsgList' = Tail(pMsgList)
      BY <1>0, <1>6, <2>1 DEF FreeMessage, PlaceInv
    <3> QED
      BY <1>b, <3>1
  <2>3. iter' \in Iters /\ iter'.mode = "expired" /\ iter'.more = FALSE /\ iter'.at = iter.at
    BY <1>a, <1>6 DEF FreeMessage, Iters
  <2>4. TypeOK'
    BY <1>0, <1>6, <2>1, <2>2, <2>3 DEF FreeMessage, TypeOK, templateVars, cloudVars
  <2>5. PlaceInv'
    <3>1. iter.more => Len(pMsgList) > 1
      BY <1>0 DEF PlaceInv
    <3>2. iter.more => pMsgList' # <<>>
      BY <1>b, <2>2, <3>1
    <3> QED
      BY <1>0, <1>6, <2>1, <2>3, <3>2 DEF FreeMessage, PlaceInv, Walking, Clearing, templateVars
  <2>6. ReqInv'
    BY <1>0, <1>c, <1>6, <2>1, ReqKept DEF FreeMessage, Issuing, templateVars
  <2> QED
    BY <2>4, <2>5, <2>6 DEF TypeInv
<1>7. CASE TraverseLock
  <2>1. /\ pc[Main] = "lock" /\ pc'[Main] = "walk" /\ pc' \in [Threads -> Places]
        /\ \A s \in Threads : s # Main => pc'[s] = pc[s]
    BY <1>0, <1>7, GotoTyped DEF TraverseLock, Places
  <2>2. /\ iter' \in Iters /\ iter'.mode = iter.mode /\ iter'.more = iter.more
        /\ iter'.at = Len(reply_list)
    BY <1>a, <1>b, <1>7 DEF TraverseLock, Iters
  <2>3. TypeOK'
    BY <1>0, <1>7, <2>1, <2>2 DEF TraverseLock, TypeOK, cloudVars
  <2>4. PlaceInv'
    BY <1>0, <1>b, <1>7, <2>1, <2>2 DEF TraverseLock, PlaceInv, Walking, Clearing
  <2>5. ReqInv'
    BY <1>0, <1>c, <1>7, <2>1, ReqKept DEF TraverseLock, Issuing
  <2> QED
    BY <2>3, <2>4, <2>5 DEF TypeInv
<1>8. CASE TraverseEnd
  <2>1. /\ pc[Main] = "walk" /\ pc'[Main] = (IF iter.mode = "reply" THEN "free" ELSE iter.back)
        /\ pc' \in [Threads -> Places]
        /\ \A s \in Threads : s # Main => pc'[s] = pc[s]
    <3>1. (IF iter.mode = "reply" THEN "free" ELSE iter.back) \in Places
      BY <1>a DEF Places
    <3> QED
      BY <1>0, <1>8, <3>1, GotoTyped DEF TraverseEnd
  <2>2. iter' \in Iters /\ iter'.mode = iter.mode /\ iter'.more = iter.more /\ iter'.at = iter.at
    BY <1>a, <1>8 DEF TraverseEnd, Iters
  <2>3. TypeOK'
    BY <1>0, <1>8, <2>1, <2>2 DEF TraverseEnd, TypeOK, cloudVars
  <2>4. PlaceInv'
    <3>1. None # Main
      BY TemplateAssumption DEF Threads
    <3> QED
      BY <1>0, <1>a, <1>8, <2>1, <2>2, <3>1 DEF TraverseEnd, PlaceInv, Walking, Clearing
  <2>5. ReqInv'
    BY <1>0, <1>a, <1>c, <1>8, <2>1, ReqKept DEF TraverseEnd, Issuing
  <2> QED
    BY <2>3, <2>4, <2>5 DEF TypeInv
<1>9. CASE TraverseSkip
  <2>1. /\ pc[Main] = "walk" /\ pc'[Main] = "walk" /\ pc' \in [Threads -> Places]
        /\ \A s \in Threads : s # Main => pc'[s] = pc[s]
    BY <1>0, <1>9, GotoTyped DEF TraverseSkip, Places
  <2>2. /\ iter' \in Iters /\ iter'.mode = iter.mode /\ iter'.more = iter.more
        /\ iter'.at = iter.at - 1
    BY <1>a, <1>9 DEF TraverseSkip, Iters
  <2>3. TypeOK'
    BY <1>0, <1>9, <2>1, <2>2 DEF TraverseSkip, TypeOK, templateVars, cloudVars
  <2>4. PlaceInv'
    <3>1. iter'.at <= Len(reply_list)
      BY <1>0, <1>a, <1>b, <2>1, <2>2 DEF PlaceInv, Walking
    <3> QED
      BY <1>0, <1>9, <2>1, <2>2, <3>1 DEF TraverseSkip, PlaceInv, Walking, Clearing, templateVars
  <2>5. ReqInv'
    BY <1>0, <1>c, <1>9, <2>1, ReqKept DEF TraverseSkip, Issuing, templateVars
  <2> QED
    BY <2>3, <2>4, <2>5 DEF TypeInv
<1>d. pc[Main] \in Walking => iter.at <= Len(reply_list)
  BY <1>0 DEF PlaceInv
<1>e. pc[Main] \in Walking /\ iter.at > 0 =>
        /\ iter.at \in 1 .. Len(reply_list)
        /\ Current.id \in Ids /\ Current.kind \in Kinds /\ Current.token \in Int
        /\ (Current.kind # "clear" => Current.id \in 1 .. MaxReqs)
  <2>1. pc[Main] \in Walking /\ iter.at > 0 => iter.at \in 1 .. Len(reply_list)
    BY <1>a, <1>b, <1>d
  <2> QED
    BY <1>0, <1>c, <2>1, EntryTyped DEF Current
<1>f. RemoveCurrent /\ iter.at \in 1 .. Len(reply_list) =>
        \A k \in 1 .. Len(reply_list') :
              reply_list'[k].kind # "clear" => reply_list'[k].id \in 1 .. MaxReqs
  BY <1>0, <1>c, RemovedFrom
<1>10. CASE ExpireEntry
  <2>1. /\ pc[Main] = "walk" /\ pc'[Main] = "walk" /\ pc' \in [Threads -> Places]
        /\ \A s \in Threads : s # Main => pc'[s] = pc[s]
    BY <1>0, <1>10, GotoTyped DEF ExpireEntry, Places
  <2>2. iter.at \in 1 .. Len(reply_list) /\ Current.id \in Ids /\ iter.at <= Len(reply_list)
    BY <1>10, <1>d, <1>e, <2>1 DEF ExpireEntry, AtEntry, Walking
  <2>3. /\ reply_list' \in Seq(Entries) /\ iter' \in Iters /\ told' \in [Ids -> Seq(Outcomes)]
        /\ iter'.mode = iter.mode /\ iter'.more = iter.more /\ iter'.at <= Len(reply_list')
        /\ \A k \in 1 .. Len(reply_list') :
              reply_list'[k].kind # "clear" => reply_list'[k].id \in 1 .. MaxReqs
        /\ crashed' \in BOOLEAN
    <3> DEFINE what == IF Current.kind \in SyncKinds \/ Current.kind \in MuteKinds THEN "silent" ELSE "timeout"
    <3>1. what \in Outcomes
      BY DEF Outcomes
    <3>2. \/ RemoveCurrent /\ Hear(Current.id, what) /\ crashed' = crashed
          \/ reply_list' = reply_list /\ iter' = iter /\ told' = told /\ crashed' = TRUE
      BY <1>10 DEF ExpireEntry
    <3> HIDE DEF what
    <3>3. CASE RemoveCurrent /\ Hear(Current.id, what) /\ crashed' = crashed
      <4>1. told' \in [Ids -> Seq(Outcomes)]
        BY <1>0, <2>2, <3>1, <3>3, HearTyped
      <4>2. /\ reply_list' \in Seq(Entries) /\ iter' \in Iters
            /\ iter'.mode = iter.mode /\ iter'.more = iter.more
            /\ iter'.at = iter.at - 1 /\ Len(reply_list') = Len(reply_list) - 1
        BY <1>0, <2>2, <3>3, RemoveTyped
      <4>3. iter'.at <= Len(reply_list')
        BY <1>a, <1>b, <2>2, <4>2
      <4>4. crashed' \in BOOLEAN
        BY <1>0, <3>3 DEF TypeOK
      <4> QED
        BY <1>f, <2>2, <3>3, <4>1, <4>2, <4>3, <4>4
    <3>4. CASE reply_list' = reply_list /\ iter' = iter /\ told' = told /\ crashed' = TRUE
      BY <1>0, <1>a, <1>b, <1>c, <2>2, <3>4 DEF TypeOK
    <3> QED
      BY <3>2, <3>3, <3>4
  <2>4. wild' \in BOOLEAN
    BY <1>0, <1>10 DEF ExpireEntry, TypeOK
  <2>5. TypeOK'
    BY <1>0, <1>10, <2>1, <2>3, <2>4 DEF ExpireEntry, TypeOK, cloudVars
  <2>6. PlaceInv'
    BY <1>0, <1>10, <2>1, <2>3 DEF ExpireEntry, PlaceInv, Walking, Clearing
  <2>7. ReqInv'
    BY <1>0, <1>10, <2>1, <2>3, ReqKept DEF ExpireEntry, Issuing
  <2> QED
    BY <2>5, <2>6, <2>7 DEF TypeInv
<1>11. CASE ReplyGarbled
  <2>1. /\ pc[Main] = "walk" /\ pc'[Main] = "walk" /\ pc' \in [Threads -> Places]
        /\ \A s \in Threads : s # Main => pc'[s] = pc[s]
    BY <1>0, <1>11, GotoTyped DEF ReplyGarbled, Places
  <2>2. iter.at \in 1 .. Len(reply_list) /\ Current.id \in Ids
    BY <1>11, <1>d, <1>e, <2>1 DEF ReplyGarbled, AtEntry, Walking
  <2>3. told' \in [Ids -> Seq(Outcomes)]
    <3>1. Hear(Current.id, "silent") /\ "silent" \in Outcomes
      BY <1>11 DEF ReplyGarbled, Outcomes
    <3> QED
      BY <1>0, <2>2, <3>1, HearTyped
  <2>4. /\ reply_list' \in Seq(Entries) /\ iter' \in Iters
        /\ iter'.mode = iter.mode /\ iter'.more = iter.more
        /\ iter'.at = iter.at - 1 /\ Len(reply_list') = Len(reply_list) - 1
        /\ RemoveCurrent
    BY <1>0, <1>11, <2>2, RemoveTyped DEF ReplyGarbled
  <2>5. iter'.at <= Len(reply_list')
    BY <1>a, <1>b, <2>2, <2>4
  <2>6. TypeOK'
    BY <1>0, <1>11, <2>1, <2>3, <2>4 DEF ReplyGarbled, TypeOK, cloudVars
  <2>7. PlaceInv'
    BY <1>0, <1>11, <2>1, <2>4, <2>5 DEF ReplyGarbled, PlaceInv, Walking, Clearing
  <2>8. ReqInv'
    BY <1>0, <1>f, <1>11, <2>1, <2>2, <2>4, ReqKept DEF ReplyGarbled, Issuing
  <2> QED
    BY <2>6, <2>7, <2>8 DEF TypeInv
<1>12. CASE ReplyVerdict
  <2>1. /\ pc[Main] = "walk" /\ pc'[Main] = "walk" /\ pc' \in [Threads -> Places]
        /\ \A s \in Threads : s # Main => pc'[s] = pc[s]
    BY <1>0, <1>12, GotoTyped DEF ReplyVerdict, Places
  <2>2. iter.at \in 1 .. Len(reply_list) /\ Current.id \in Ids
    BY <1>12, <1>d, <1>e, <2>1 DEF ReplyVerdict, AtEntry, Walking
  <2>3. Message.code \in Verdicts
    <3>1. pMsgList # <<>> /\ Message.code # "garbled"
      BY <1>0, <1>12 DEF ReplyVerdict, AtEntry, PlaceInv
    <3> QED
      BY <1>0, <3>1, MessageTyped
  <2>4. told' \in [Ids -> Seq(Outcomes)]
    <3> DEFINE what == IF Current.kind \in MuteKinds THEN "silent" ELSE Message.code
    <3>1. Hear(Current.id, what) /\ what \in Outcomes
      BY <1>12, <2>3 DEF ReplyVerdict, Outcomes
    <3> HIDE DEF what
    <3> QED
      BY <1>0, <2>2, <3>1, HearTyped
  <2>5. ack' \in Verdicts \cup {"none", "timeout"}
    BY <1>0, <1>12, <2>3 DEF ReplyVerdict, AckAfter, TypeOK
  <2>6. /\ reply_list' \in Seq(Entries) /\ iter' \in Iters
        /\ iter'.mode = iter.mode /\ iter'.more = iter.more
        /\ iter'.at = iter.at - 1 /\ Len(reply_list') = Len(reply_list) - 1
        /\ RemoveCurrent
    BY <1>0, <1>12, <2>2, RemoveTyped DEF ReplyVerdict
  <2>7. iter'.at <= Len(reply_list')
    BY <1>a, <1>b, <2>2, <2>6
  <2>8. TypeOK'
    BY <1>0, <1>12, <2>1, <2>4, <2>5, <2>6 DEF ReplyVerdict, TypeOK, cloudVars
  <2>9. PlaceInv'
    BY <1>0, <1>12, <2>1, <2>6, <2>7 DEF ReplyVerdict, PlaceInv, Walking, Clearing
  <2>10. ReqInv'
    BY <1>0, <1>f, <1>12, <2>1, <2>2, <2>6, ReqKept DEF ReplyVerdict, Issuing
  <2> QED
    BY <2>8, <2>9, <2>10 DEF TypeInv
<1>13. CASE ReplyControl
  <2>1. /\ pc[Main] = "walk" /\ pc'[Main] \in {"walk", "clear_publish", "remove"}
        /\ pc' \in [Threads -> Places]
        /\ pc'[Main] = "clear_publish" => Current.kind = "get_sync"
        /\ \A s \in Threads : s # Main => pc'[s] = pc[s]
    <3> DEFINE to == IF HasContext(Current.kind)
                     THEN IF Current.kind = "get_sync" THEN "clear_publish" ELSE "remove"
                     ELSE "walk"
    <3>1. to \in Places /\ to \in {"walk", "clear_publish", "remove"}
            /\ (to = "clear_publish" => Current.kind = "get_sync")
      BY DEF Places
    <3>2. Goto(Main, "walk", to)
      BY <1>13 DEF ReplyControl
    <3> HIDE DEF to
    <3> QED
      BY <1>0, <3>1, <3>2, GotoTyped
  <2>2. iter.at \in 1 .. Len(reply_list) /\ Current.id \in Ids /\ iter.mode = "reply" /\ pMsgList # <<>>
    BY <1>0, <1>13, <1>d, <1>e, <2>1 DEF ReplyControl, AtEntry, Walking, PlaceInv
  <2>3. clientToken' \in Int
    BY <1>0, <1>13, <2>2, MessageTyped DEF ReplyControl
  <2>4. told' \in [Ids -> Seq(Outcomes)]
    <3>1. "accepted" \in Outcomes
      BY DEF Outcomes, Verdicts
    <3>2. Hear(Current.id, "accepted") \/ told' = told
      BY <1>13 DEF ReplyControl
    <3>3. told \in [Ids -> Seq(Outcomes)]
      BY <1>0 DEF TypeOK
    <3> QED
      BY <1>0, <2>2, <3>1, <3>2, <3>3, HearTyped, Zenon
  <2>5. ack' \in Verdicts \cup {"none", "timeout"} /\ crashed' \in BOOLEAN
    BY <1>0, <1>13 DEF ReplyControl, AckAfter, TypeOK, Verdicts
  <2>6. TypeOK'
    BY <1>0, <1>13, <2>1, <2>3, <2>4, <2>5 DEF ReplyControl, TypeOK, cloudVars
  <2>7. PlaceInv'
    <3>1. iter.at > 0 /\ iter.at <= Len(reply_list) /\ Current' = Current
      BY <1>a, <1>b, <1>13, <2>2 DEF ReplyControl, Current
    <3> QED
      BY <1>0, <1>13, <2>1, <2>2, <3>1 DEF ReplyControl, PlaceInv, Walking, Clearing
  <2>8. ReqInv'
    BY <1>0, <1>c, <1>13, <2>1, ReqKept DEF ReplyControl, Issuing
  <2> QED
    BY <2>6, <2>7, <2>8 DEF TypeInv
<1>14. CASE ClearPublish
  <2>1. /\ pc[Main] = "clear_publish" /\ pc'[Main] \in {"clear_add", "remove"}
        /\ pc' \in [Threads -> Places]
        /\ \A s \in Threads : s # Main => pc'[s] = pc[s]
    <3>1. \E to \in {"clear_add", "remove"} : Goto(Main, "clear_publish", to)
      BY <1>14 DEF ClearPublish
    <3>2. PICK to \in {"clear_add", "remove"} : Goto(Main, "clear_publish", to)
      BY <3>1
    <3>3. to \in Places
      BY DEF Places
    <3> QED
      BY <1>0, <3>2, <3>3, GotoTyped
  <2>2. /\ iter.at \in 1 .. Len(reply_list) /\ iter.mode = "reply" /\ Current.kind = "get_sync"
        /\ ClearReq.id \in Ids /\ ClearReq.kind \in Kinds /\ ClearReq.token \in Int
    <3>1. iter.at > 0 /\ iter.mode = "reply" /\ Current.kind = "get_sync"
      BY <1>0, <2>1 DEF PlaceInv, Clearing
    <3>2. iter.at \in 1 .. Len(reply_list) /\ Current.token \in Int /\ Current.id \in 1 .. MaxReqs
      BY <1>e, <2>1, <3>1 DEF Walking
    <3>3. MaxReqs \in Nat
      BY TemplateAssumption
    <3>4. Current.id + MaxReqs \in Ids
      BY <3>2, <3>3 DEF Ids
    <3> QED
      BY <3>1, <3>2, <3>4 DEF ClearReq, Kinds
  <2>3. told' \in [Ids -> Seq(Outcomes)]
    <3>1. "failed" \in Outcomes
      BY DEF Outcomes
    <3>2. Hear(ClearReq.id, "failed") \/ told' = told
      BY <1>14 DEF ClearPublish
    <3>3. told \in [Ids -> Seq(Outcomes)]
      BY <1>0 DEF TypeOK
    <3> QED
      BY <1>0, <2>2, <3>1, <3>2, <3>3, HearTyped, Zenon
  <2>4. up' \in [Ids -> Published]
    <3>1. Send(ClearReq) \/ up' = up
      BY <1>14 DEF ClearPublish
    <3>2. up \in [Ids -> Published]
      BY <1>0 DEF TypeOK
    <3> QED
      BY <1>0, <2>2, <3>1, <3>2, SendTyped, Zenon
  <2>5. TypeOK'
    BY <1>0, <1>14, <2>1, <2>3, <2>4 DEF ClearPublish, TypeOK, templateVars, cloudVars
  <2>6. PlaceInv'
    <3>1. iter.at > 0 /\ iter.at <= Len(reply_list) /\ Current' = Current
      BY <1>a, <1>b, <1>14, <2>2 DEF ClearPublish, Current, templateVars
    <3> QED
      BY <1>0, <1>14, <2>1, <2>2, <3>1 DEF ClearPublish, PlaceInv, Walking, Clearing, templateVars
  <2>7. ReqInv'
    BY <1>0, <1>c, <1>14, <2>1, ReqKept DEF ClearPublish, Issuing, templateVars
  <2> QED
    BY <2>5, <2>6, <2>7 DEF TypeInv
<1>15. CASE ClearAdd
  <2>1. /\ pc[Main] = "clear_add" /\ pc'[Main] = "remove" /\ pc' \in [Threads -> Places]
        /\ \A s \in Threads : s # Main => pc'[s] = pc[s]
    BY <1>0, <1>15, GotoTyped DEF ClearAdd, Places
  <2>2. /\ iter.at \in 1 .. Len(reply_list) /\ iter.mode = "reply"
        /\ ClearReq.id \in Ids /\ ClearReq.kind = "clear" /\ ClearReq.token \in Int
    <3>1. iter.at > 0 /\ iter.mode = "reply" /\ Current.kind = "get_sync"
      BY <1>0, <2>1 DEF PlaceInv, Clearing
    <3>2. iter.at \in 1 .. Len(reply_list) /\ Current.token \in Int /\ Current.id \in 1 .. MaxReqs
      BY <1>e, <2>1, <3>1 DEF Walking
    <3>3. MaxReqs \in Nat
      BY TemplateAssumption
    <3>4. Current.id + MaxReqs \in Ids
      BY <3>2, <3>3 DEF Ids
    <3> QED
      BY <3>1, <3>2, <3>4 DEF ClearReq
  <2>3. Enlist(ClearReq) /\ "clear" \in Kinds
    BY <1>15 DEF ClearAdd, Kinds
  <2>4. /\ told' \in [Ids -> Seq(Outcomes)] /\ reply_list' \in Seq(Entries)
        /\ Len(reply_list') >= Len(reply_list)
        /\ \A k \in 1 .. Len(reply_list') :
              reply_list'[k].kind # "clear" => reply_list'[k].id \in 1 .. MaxReqs
    <3>1. told \in [Ids -> Seq(Outcomes)] /\ Len(reply_list) \in Nat
      BY <1>0, <1>b DEF TypeOK
    <3>2. CASE reply_list' = reply_list /\ told' \in [Ids -> Seq(Outcomes)]
      BY <1>b, <1>c, <3>1, <3>2
    <3>3. CASE /\ told' = told /\ reply_list' \in Seq(Entries) /\ Len(reply_list') = Len(reply_list) + 1
               /\ \A k \in 1 .. Len(reply_list) : reply_list'[k] = reply_list[k]
               /\ reply_list'[Len(reply_list) + 1] = Entry(ClearReq)
      <4>1. Entry(ClearReq).kind = "clear"
        BY <2>2 DEF Entry
      <4>2. ASSUME NEW k \in 1 .. Len(reply_list')
            PROVE  reply_list'[k].kind # "clear" => reply_list'[k].id \in 1 .. MaxReqs
        <5>1. k \in 1 .. Len(reply_list) \/ k = Len(reply_list) + 1
          BY <3>1, <3>3
        <5> QED
          BY <1>c, <3>3, <4>1, <5>1
      <4> QED
        BY <3>1, <3>3, <4>2
    <3> QED
      BY <1>0, <2>2, <2>3, <3>2, <3>3, EnlistTyped
  <2>5. TypeOK'
    BY <1>0, <1>15, <2>1, <2>4 DEF ClearAdd, TypeOK, cloudVars
  <2>6. PlaceInv'
    <3>1. iter.at > 0 /\ iter.at <= Len(reply_list')
      BY <1>a, <1>b, <2>2, <2>4
    <3> QED
      BY <1>0, <1>15, <2>1, <2>2, <3>1 DEF ClearAdd, PlaceInv, Walking, Clearing
  <2>7. ReqInv'
    BY <1>0, <1>15, <2>1, <2>4, ReqKept DEF ClearAdd, Issuing
  <2> QED
    BY <2>5, <2>6, <2>7 DEF TypeInv
<1>16. CASE RemoveEntry
  <2>1. /\ pc[Main] = "remove" /\ pc'[Main] = "walk" /\ pc' \in [Threads -> Places]
        /\ \A s \in Threads : s # Main => pc'[s] = pc[s]
    BY <1>0, <1>16, GotoTyped DEF RemoveEntry, Places
  <2>2. iter.at \in 1 .. Len(reply_list)
    BY <1>0, <1>e, <2>1 DEF Walking, Clearing, PlaceInv
  <2>3. /\ reply_list' \in Seq(Entries) /\ iter' \in Iters
        /\ iter'.mode = iter.mode /\ iter'.more = iter.more
        /\ iter'.at = iter.at - 1 /\ Len(reply_list') = Len(reply_list) - 1
        /\ RemoveCurrent
    BY <1>0, <1>16, <2>2, RemoveTyped DEF RemoveEntry
  <2>4. iter'.at <= Len(reply_list')
    BY <1>a, <1>b, <2>2, <2>3
  <2>5. TypeOK'
    BY <1>0, <1>16, <2>1, <2>3 DEF RemoveEntry, TypeOK, cloudVars
  <2>6. PlaceInv'
    BY <1>0, <1>16, <2>1, <2>3, <2>4 DEF RemoveEntry, PlaceInv, Walking, Clearing
  <2>7. ReqInv'
    BY <1>0, <1>f, <1>16, <2>1, <2>2, <2>3, ReqKept DEF RemoveEntry, Issuing
  <2> QED
    BY <2>5, <2>6, <2>7 DEF TypeInv
<1> QED
  BY <1>1, <1>2, <1>3, <1>4, <1>5, <1>6, <1>7, <1>8, <1>9, <1>10, <1>11, <1>12, <1>13, <1>14,
     <1>15, <1>16 DEF MainStep

\* A step of a thread outside the walk, or of the world: the lists do not shrink.
LEMMA PlaceKept ==
    ASSUME TypeOK, PlaceInv, mutex' = mutex, iter' = iter,
           \/ pc'[Main] = pc[Main]
           \/ /\ pc[Main] \notin Walking \cup {"message", "control", "free"}
              /\ pc'[Main] \notin Walking \cup {"message", "control", "free"},
           Len(reply_list') \in Nat, Len(reply_list') >= Len(reply_list),
           \A k \in 1 .. Len(reply_list) : reply_list'[k].kind = reply_list[k].kind,
           Len(pMsgList') \in Nat, Len(pMsgList') >= Len(pMsgList)
    PROVE  PlaceInv'
<1>1. Len(reply_list) \in Nat /\ Len(pMsgList) \in Nat /\ iter.at \in Nat
  BY DEF TypeOK, Iters
<1>2. pMsgList # <<>> => pMsgList' # <<>>
  <2>1. pMsgList # <<>> => Len(pMsgList) > 0
    BY DEF TypeOK
  <2>2. pMsgList' = <<>> => Len(pMsgList') = 0
    OBVIOUS
  <2> QED
    BY <1>1, <2>1, <2>2
<1>3. pc[Main] \in Clearing => Current'.kind = Current.kind
  <2>1. pc[Main] \in Clearing => iter.at \in 1 .. Len(reply_list)
    BY <1>1 DEF PlaceInv, Clearing, Walking
  <2> QED
    BY <2>1 DEF Current
<1> QED
  BY <1>1, <1>2, <1>3 DEF PlaceInv, Walking, Clearing

LEMMA TypeBegin ==
    ASSUME TypeInv, NEW t \in Threads, NEW kind, Begin(t, kind) PROVE TypeInv'
<1>0. TypeOK /\ PlaceInv /\ ReqInv
  BY DEF TypeInv
<1>1. kind \in Kinds \ {"clear"} /\ (t # Main => kind \notin SyncKinds)
  <2>1. kind \in IF t = Main THEN Calls ELSE WorkerCalls
    BY DEF Begin
  <2> QED
    BY <2>1, TemplateAssumption
<1>2. /\ pc[t] = "idle" /\ pc'[t] \in {"publish", "token"} /\ pc' \in [Threads -> Places]
      /\ \A s \in Threads : s # t => pc'[s] = pc[s]
  <2> DEFINE to == IF kind = "control_reply" THEN "publish" ELSE "token"
  <2>1. to \in Places /\ to \in {"publish", "token"}
    BY DEF Places
  <2>2. Goto(t, "idle", to)
    BY DEF Begin
  <2> HIDE DEF to
  <2> QED
    BY <1>0, <2>1, <2>2, GotoTyped
<1>3. issued' \in 1 .. MaxReqs /\ issued' = issued + 1
  BY <1>0, TemplateAssumption DEF Begin, TypeOK
<1>4. /\ req' \in [Threads -> Requests] /\ req'[t].id = issued' /\ req'[t].kind = kind
      /\ \A s \in Threads : s # t => req'[s] = req[s]
  <2> DEFINE r == [id |-> issued', kind |-> kind, token |-> clientToken]
  <2>1. r \in Requests /\ r.id = issued' /\ r.kind = kind
    <3>1. issued' \in Ids
      BY <1>3, TemplateAssumption DEF Ids
    <3> QED
      BY <1>0, <1>1, <3>1 DEF TypeOK, Requests
  <2>2. req' = [req EXCEPT ![t] = r] /\ req \in [Threads -> Requests]
    BY <1>0 DEF Begin, TypeOK
  <2> HIDE DEF r
  <2> QED
    BY <2>1, <2>2
<1>5. subscribed' \in BOOLEAN /\ attempts' \in Nat
  BY <1>0 DEF Begin, Subscribe, TypeOK
<1>6. TypeOK'
  <2>1. issued' \in 0 .. MaxReqs
    BY <1>3, TemplateAssumption
  <2> QED
    BY <1>0, <1>2, <2>1, <1>4, <1>5 DEF Begin, TypeOK, templateVars
<1>7. PlaceInv'
  <2>1. Len(reply_list) \in Nat /\ Len(pMsgList) \in Nat
    BY <1>0 DEF TypeOK
  <2> QED
    BY <1>0, <1>2, <2>1, PlaceKept DEF Begin, templateVars, Walking, Threads
<1>8. ReqInv'
  <2>1. \A s \in Workers : s \in Threads /\ s # Main
    BY TemplateAssumption DEF Threads
  <2>2. \A s \in Workers : pc'[s] \in Issuing \cup {"idle", "return"} /\ req'[s].kind \notin SyncKinds
    BY <1>0, <1>1, <1>2, <1>4, <2>1 DEF ReqInv, Issuing
  <2>3. \A s \in Threads :
          pc'[s] \in Issuing => req'[s].id \in 1 .. MaxReqs /\ req'[s].kind \in Kinds \ {"clear"}
    BY <1>0, <1>1, <1>2, <1>3, <1>4 DEF ReqInv
  <2>4. \A s \in Threads : pc'[s] = "store_token" => req'[s].token \in Nat
    BY <1>0, <1>2, <1>4 DEF ReqInv
  <2>5. reply_list' = reply_list
    BY DEF Begin, templateVars
  <2> QED
    BY <1>0, <2>2, <2>3, <2>4, <2>5 DEF ReqInv
<1> QED
  BY <1>6, <1>7, <1>8 DEF TypeInv

LEMMA TypeRequest ==
    ASSUME TypeInv, NEW t \in Threads, RequestStep(t) PROVE TypeInv'
<1>0. TypeOK /\ PlaceInv /\ ReqInv
  BY DEF TypeInv
<1>a. \A s \in Workers : s \in Threads /\ s # Main
  BY TemplateAssumption DEF Threads
<1>b. Len(reply_list) \in Nat /\ Len(pMsgList) \in Nat
  BY <1>0 DEF TypeOK
<1>c. \A s \in Threads : req[s] \in Requests /\ req[s].token \in Int
  BY <1>0 DEF TypeOK, Requests
<1>d. \A s \in Threads : pc[s] \in Issuing =>
        req[s].id \in Ids /\ req[s].id \in 1 .. MaxReqs /\ req[s].kind \in Kinds \ {"clear"}
          /\ req[s].kind \in Kinds
  BY <1>0, TemplateAssumption DEF ReqInv, Ids
<1>1. CASE ReadToken(t)
  <2>1. /\ pc[t] = "token" /\ pc'[t] = "store_token" /\ pc' \in [Threads -> Places]
        /\ \A s \in Threads : s # t => pc'[s] = pc[s]
    BY <1>0, <1>1, GotoTyped DEF ReadToken, Places
  <2>2. /\ req' \in [Threads -> Requests] /\ req'[t].id = req[t].id /\ req'[t].kind = req[t].kind
        /\ req'[t].token \in Nat /\ \A s \in Threads : s # t => req'[s] = req[s]
    <3> DEFINE r == [req[t] EXCEPT !.token = token_num]
    <3>1. r \in Requests /\ r.id = req[t].id /\ r.kind = req[t].kind /\ r.token \in Nat
      <4>1. req[t] \in Requests /\ token_num \in Nat
        BY <1>0, <1>c DEF TypeOK
      <4>2. ASSUME NEW x \in Requests, NEW n \in Nat
            PROVE  LET y == [x EXCEPT !.token = n] IN
                      y \in Requests /\ y.id = x.id /\ y.kind = x.kind /\ y.token \in Nat
        BY DEF Requests
      <4> QED
        BY <4>1, <4>2
    <3>2. req' = [req EXCEPT ![t] = r] /\ req \in [Threads -> Requests]
      BY <1>0, <1>1 DEF ReadToken, TypeOK
    <3> HIDE DEF r
    <3> QED
      BY <3>1, <3>2
  <2>3. TypeOK'
    BY <1>0, <1>1, <2>1, <2>2 DEF ReadToken, TypeOK, templateVars, cloudVars
  <2>4. PlaceInv'
    BY <1>0, <1>b, <1>1, <2>1, PlaceKept DEF ReadToken, templateVars, Walking, Threads
  <2>5. ReqInv'
    <3>1. \A s \in Workers : pc'[s] \in Issuing \cup {"idle", "return"} /\ req'[s].kind \notin SyncKinds
      BY <1>0, <1>a, <2>1, <2>2 DEF ReqInv, Issuing
    <3>2. \A s \in Threads :
          pc'[s] \in Issuing => req'[s].id \in 1 .. MaxReqs /\ req'[s].kind \in Kinds \ {"clear"}
      BY <1>0, <2>1, <2>2 DEF ReqInv, Issuing
    <3>3. \A s \in Threads : pc'[s] = "store_token" => req'[s].token \in Nat
      BY <1>0, <2>1, <2>2 DEF ReqInv
    <3> QED
      BY <1>0, <1>1, <3>1, <3>2, <3>3 DEF ReqInv, ReadToken, templateVars
  <2> QED
    BY <2>3, <2>4, <2>5 DEF TypeInv
<1>2. CASE StoreToken(t)
  <2>1. /\ pc[t] = "store_token" /\ pc'[t] = "publish" /\ pc' \in [Threads -> Places]
        /\ \A s \in Threads : s # t => pc'[s] = pc[s]
    BY <1>0, <1>2, GotoTyped DEF StoreToken, Places
  <2>2. token_num' \in Nat
    BY <1>0, <1>2, <2>1 DEF StoreToken, ReqInv
  <2>3. TypeOK'
    BY <1>0, <1>2, <2>1, <2>2 DEF StoreToken, TypeOK, cloudVars
  <2>4. PlaceInv'
    BY <1>0, <1>b, <1>2, <2>1, PlaceKept DEF StoreToken, Walking, Threads
  <2>5. ReqInv'
    BY <1>0, <1>a, <1>2, <2>1 DEF ReqInv, StoreToken, Issuing
  <2> QED
    BY <2>3, <2>4, <2>5 DEF TypeInv
<1>3. CASE PublishOk(t)
  <2>1. /\ pc[t] = "publish" /\ pc'[t] = "add" /\ pc' \in [Threads -> Places]
        /\ \A s \in Threads : s # t => pc'[s] = pc[s]
    BY <1>0, <1>3, GotoTyped DEF PublishOk, Places
  <2>2. up' \in [Ids -> Published]
    BY <1>0, <1>c, <1>d, <1>3, <2>1, SendTyped DEF PublishOk, Issuing
  <2>3. TypeOK'
    BY <1>0, <1>3, <2>1, <2>2 DEF PublishOk, TypeOK, templateVars, cloudVars
  <2>4. PlaceInv'
    BY <1>0, <1>b, <1>3, <2>1, PlaceKept DEF PublishOk, templateVars, Walking, Threads
  <2>5. ReqInv'
    BY <1>0, <1>a, <1>3, <2>1 DEF ReqInv, PublishOk, Issuing, templateVars
  <2> QED
    BY <2>3, <2>4, <2>5 DEF TypeInv
<1>4. CASE PublishFail(t)
  <2>1. /\ pc[t] = "publish" /\ pc'[t] = "return" /\ pc' \in [Threads -> Places]
        /\ \A s \in Threads : s # t => pc'[s] = pc[s]
    BY <1>0, <1>4, GotoTyped DEF PublishFail, Places
  <2>2. up' \in [Ids -> Published]
    <3>1. Send(req[t]) \/ up' = up
      BY <1>4 DEF PublishFail
    <3>2. up \in [Ids -> Published] /\ pc[t] \in Issuing
      BY <1>0, <2>1 DEF TypeOK, Issuing
    <3> QED
      BY <1>0, <1>c, <1>d, <3>1, <3>2, SendTyped
  <2>3. told' \in [Ids -> Seq(Outcomes)]
    <3>1. Hear(req[t].id, "failed") /\ "failed" \in Outcomes /\ pc[t] \in Issuing
      BY <1>4, <2>1 DEF PublishFail, Outcomes, Issuing
    <3> QED
      BY <1>0, <1>d, <3>1, HearTyped
  <2>4. result' \in [Threads -> Results]
    BY <1>0, <1>4 DEF PublishFail, TypeOK, Results
  <2>5. TypeOK'
    BY <1>0, <1>4, <2>1, <2>2, <2>3, <2>4 DEF PublishFail, TypeOK, templateVars, cloudVars
  <2>6. PlaceInv'
    BY <1>0, <1>b, <1>4, <2>1, PlaceKept DEF PublishFail, templateVars, Walking, Threads
  <2>7. ReqInv'
    BY <1>0, <1>a, <1>4, <2>1 DEF ReqInv, PublishFail, Issuing, templateVars
  <2> QED
    BY <2>5, <2>6, <2>7 DEF TypeInv
<1>5. CASE AddRequest(t)
  <2>1. /\ pc[t] = "add" /\ pc'[t] \in {"wait", "return"} /\ pc' \in [Threads -> Places]
        /\ pc'[t] = "wait" => req[t].kind \in SyncKinds
        /\ \A s \in Threads : s # t => pc'[s] = pc[s]
    <3> DEFINE to == IF ~(told' # told) /\ req[t].kind \in SyncKinds THEN "wait" ELSE "return"
    <3>1. to \in Places /\ to \in {"wait", "return"} /\ (to = "wait" => req[t].kind \in SyncKinds)
      BY DEF Places
    <3>2. Goto(t, "add", to)
      BY <1>5 DEF AddRequest
    <3> HIDE DEF to
    <3> QED
      BY <1>0, <3>1, <3>2, GotoTyped
  <2>2. t # Main => pc'[t] = "return"
    <3>1. t # Main => t \in Workers
      BY DEF Threads
    <3> QED
      BY <1>0, <2>1, <3>1 DEF ReqInv
  <2>3. result' \in [Threads -> Results]
    BY <1>0, <1>5 DEF AddRequest, TypeOK, Results
  <2>4. /\ told' \in [Ids -> Seq(Outcomes)] /\ reply_list' \in Seq(Entries)
        /\ Len(reply_list') >= Len(reply_list)
        /\ \A k \in 1 .. Len(reply_list) : reply_list'[k] = reply_list[k]
        /\ \A k \in 1 .. Len(reply_list') :
              reply_list'[k].kind # "clear" => reply_list'[k].id \in 1 .. MaxReqs
    <3>1. told \in [Ids -> Seq(Outcomes)] /\ reply_list \in Seq(Entries)
      BY <1>0 DEF TypeOK
    <3>2. \A k \in 1 .. Len(reply_list) :
              reply_list[k].kind # "clear" => reply_list[k].id \in 1 .. MaxReqs
      BY <1>0 DEF ReqInv
    <3>3. Enlist(req[t]) /\ pc[t] \in Issuing
      BY <1>5, <2>1 DEF AddRequest, Issuing
    <3>4. CASE reply_list' = reply_list /\ told' \in [Ids -> Seq(Outcomes)]
      BY <1>b, <3>1, <3>2, <3>4
    <3>5. CASE /\ told' = told /\ reply_list' \in Seq(Entries) /\ Len(reply_list') = Len(reply_list) + 1
               /\ \A k \in 1 .. Len(reply_list) : reply_list'[k] = reply_list[k]
               /\ reply_list'[Len(reply_list) + 1] = Entry(req[t])
      <4>1. Entry(req[t]).id \in 1 .. MaxReqs
        BY <1>d, <3>3 DEF Entry
      <4>2. ASSUME NEW k \in 1 .. Len(reply_list')
            PROVE  reply_list'[k].kind # "clear" => reply_list'[k].id \in 1 .. MaxReqs
        <5>1. k \in 1 .. Len(reply_list) \/ k = Len(reply_list) + 1
          BY <1>b, <3>5
        <5> QED
          BY <3>2, <3>5, <4>1, <5>1
      <4> QED
        BY <1>b, <3>1, <3>5, <4>2
    <3> QED
      BY <1>0, <1>c, <1>d, <3>3, <3>4, <3>5, EnlistTyped
  <2>5. TypeOK'
    BY <1>0, <1>5, <2>1, <2>3, <2>4 DEF AddRequest, TypeOK, cloudVars
  <2>6. PlaceInv'
    <3>1. Len(reply_list') \in Nat
      BY <2>4
    <3>2. mutex' = mutex /\ iter' = iter /\ pMsgList' = pMsgList
      BY <1>5 DEF AddRequest
    <3>3. \/ pc'[Main] = pc[Main]
          \/ /\ pc[Main] \notin Walking \cup {"message", "control", "free"}
             /\ pc'[Main] \notin Walking \cup {"message", "control", "free"}
      BY <2>1 DEF Walking, Threads
    <3> QED
      BY <1>0, <1>b, <2>4, <3>1, <3>2, <3>3, PlaceKept
  <2>7. ReqInv'
    BY <1>0, <1>a, <1>5, <2>1, <2>2, <2>4 DEF ReqInv, AddRequest, Issuing
  <2> QED
    BY <2>5, <2>6, <2>7 DEF TypeInv
<1>6. CASE Return(t)
  <2>1. /\ pc[t] = "return" /\ pc'[t] = "idle" /\ pc' \in [Threads -> Places]
        /\ \A s \in Threads : s # t => pc'[s] = pc[s]
    BY <1>0, <1>6, GotoTyped DEF Return, Places
  <2>2. NoReq \in Requests /\ NoReq.kind = "none"
    BY DEF NoReq, Requests, NoToken
  <2>3. /\ req' \in [Threads -> Requests] /\ req'[t] = NoReq
        /\ \A s \in Threads : s # t => req'[s] = req[s]
    BY <1>0, <1>6, <2>2 DEF Return, TypeOK
  <2>4. result' \in [Threads -> Results] /\ ack' \in Verdicts \cup {"none", "timeout"}
    BY <1>0, <1>6 DEF Return, TypeOK, Results
  <2>5. TypeOK'
    BY <1>0, <1>6, <2>1, <2>3, <2>4 DEF Return, TypeOK, templateVars, cloudVars
  <2>6. PlaceInv'
    BY <1>0, <1>b, <1>6, <2>1, PlaceKept DEF Return, templateVars, Walking, Threads
  <2>7. ReqInv'
    <3>1. \A s \in Workers : pc'[s] \in Issuing \cup {"idle", "return"} /\ req'[s].kind \notin SyncKinds
      BY <1>0, <1>a, <2>1, <2>2, <2>3 DEF ReqInv, SyncKinds
    <3>2. \A s \in Threads :
          pc'[s] \in Issuing => req'[s].id \in 1 .. MaxReqs /\ req'[s].kind \in Kinds \ {"clear"}
      BY <1>0, <2>1, <2>3 DEF ReqInv, Issuing
    <3>3. \A s \in Threads : pc'[s] = "store_token" => req'[s].token \in Nat
      BY <1>0, <2>1, <2>3 DEF ReqInv
    <3> QED
      BY <1>0, <1>6, <3>1, <3>2, <3>3 DEF ReqInv, Return, templateVars
  <2> QED
    BY <2>5, <2>6, <2>7 DEF TypeInv
<1> QED
  BY <1>1, <1>2, <1>3, <1>4, <1>5, <1>6 DEF RequestStep

\* What arrives is a message.
LEMMA ArriveTyped ==
    ASSUME TypeOK, NEW m \in Messages, Arrive(m)
    PROVE  /\ pMsgList' \in Seq(Messages) /\ Len(pMsgList') = Len(pMsgList) + 1
           /\ Len(pMsgList') \in Nat /\ Len(pMsgList') >= Len(pMsgList)
           /\ \A k \in 1 .. Len(pMsgList) : pMsgList'[k] = pMsgList[k]
           /\ pMsgList'[Len(pMsgList) + 1] = m
<1>1. pMsgList \in Seq(Messages) /\ pMsgList' = Append(pMsgList, m)
  BY DEF TypeOK, Arrive
<1> QED
  BY <1>1

LEMMA TypeWorld ==
    ASSUME TypeInv, Cloud \/ \E i \in Ids : TimerExpires(i) PROVE TypeInv'
<1>0. TypeOK /\ PlaceInv /\ ReqInv
  BY DEF TypeInv
<1>b. Len(reply_list) \in Nat /\ Len(pMsgList) \in Nat /\ reply_list \in Seq(Entries)
  BY <1>0 DEF TypeOK
<1>1. ASSUME NEW i \in Ids, CloudAnswer(i) PROVE TypeInv'
  <2>1. PICK code \in {"accepted", "rejected", "garbled"}, control \in BOOLEAN :
          /\ up' = [up EXCEPT ![i].answer = code, ![i].control = control]
          /\ Arrive([method |-> IF up[i].kind \in GetKinds THEN "get_status_reply" ELSE "reply",
                     token |-> up[i].token, code |-> code, control |-> control])
    BY <1>1 DEF CloudAnswer
  <2>2. up \in [Ids -> Published] /\ up[i] \in Published /\ up[i].token \in Int
    BY <1>0 DEF TypeOK, Published
  <2>3. up' \in [Ids -> Published]
    <3> DEFINE p == [up[i] EXCEPT !.answer = code, !.control = control]
    <3>1. p \in Published
      BY <2>2 DEF Published, Verdicts
    <3>2. up' = [up EXCEPT ![i] = p]
      BY <2>1, <2>2
    <3> HIDE DEF p
    <3> QED
      BY <2>2, <3>1, <3>2
  <2>4. /\ pMsgList' \in Seq(Messages) /\ Len(pMsgList') \in Nat
        /\ Len(pMsgList') >= Len(pMsgList)
    <3> DEFINE m == [method |-> IF up[i].kind \in GetKinds THEN "get_status_reply" ELSE "reply",
                     token |-> up[i].token, code |-> code, control |-> control]
    <3>1. m \in Messages
      BY <2>2 DEF Messages, Verdicts
    <3>2. Arrive(m)
      BY <2>1
    <3> HIDE DEF m
    <3> QED
      BY <1>0, <3>1, <3>2, ArriveTyped
  <2>5. TypeOK'
    BY <1>0, <1>1, <2>3, <2>4 DEF CloudAnswer, TypeOK, templateVars, threadVars, cloudVars
  <2>6. PlaceInv'
    BY <1>0, <1>b, <1>1, <2>4, PlaceKept DEF CloudAnswer, templateVars, threadVars
  <2>7. ReqInv'
    BY <1>0, <1>1 DEF ReqInv, CloudAnswer, templateVars, threadVars
  <2> QED
    BY <2>5, <2>6, <2>7 DEF TypeInv
<1>2. CASE CloudControl
  <2>1. controls' \in 0 .. MaxControls
    BY <1>0, <1>2, TemplateAssumption DEF CloudControl, TypeOK
  <2>2. /\ pMsgList' \in Seq(Messages) /\ Len(pMsgList') \in Nat
        /\ Len(pMsgList') >= Len(pMsgList)
    <3>1. PICK method \in {"control", "none"} :
             Arrive([method |-> method, token |-> ControlToken(controls'),
                     code |-> "garbled", control |-> FALSE])
      BY <1>2 DEF CloudControl
    <3> DEFINE m == [method |-> method, token |-> ControlToken(controls'),
                     code |-> "garbled", control |-> FALSE]
    <3>2. m \in Messages
      BY <2>1 DEF Messages, ControlToken
    <3> HIDE DEF m
    <3>3. Arrive(m)
      BY <3>1 DEF m
    <3> QED
      BY <1>0, <3>2, <3>3, ArriveTyped
  <2>3. TypeOK'
    BY <1>0, <1>2, <2>1, <2>2 DEF CloudControl, TypeOK, templateVars, threadVars
  <2>4. PlaceInv'
    BY <1>0, <1>b, <1>2, <2>2, PlaceKept DEF CloudControl, templateVars, threadVars
  <2>5. ReqInv'
    BY <1>0, <1>2 DEF ReqInv, CloudControl, templateVars, threadVars
  <2> QED
    BY <2>3, <2>4, <2>5 DEF TypeInv
<1>3. ASSUME NEW i \in Ids, TimerExpires(i) PROVE TypeInv'
  <2>1. /\ reply_list' \in Seq(Entries) /\ Len(reply_list') = Len(reply_list)
        /\ \A k \in 1 .. Len(reply_list) :
              reply_list'[k].kind = reply_list[k].kind /\ reply_list'[k].id = reply_list[k].id
    BY <1>0, <1>b, <1>3, ExpiredTyped
  <2>2. TypeOK'
    BY <1>0, <1>3, <2>1 DEF TimerExpires, TypeOK, threadVars, cloudVars
  <2>3. PlaceInv'
    BY <1>0, <1>b, <1>3, <2>1, PlaceKept DEF TimerExpires, threadVars
  <2>4. ReqInv'
    BY <1>0, <1>3, <2>1 DEF ReqInv, TimerExpires, threadVars
  <2> QED
    BY <2>2, <2>3, <2>4 DEF TypeInv
<1> QED
  BY <1>1, <1>2, <1>3 DEF Cloud

LEMMA TypeNext == TypeInv /\ [Next]_vars => TypeInv'
<1> SUFFICES ASSUME TypeInv, [Next]_vars PROVE TypeInv'
  OBVIOUS
<1>1. ASSUME NEW t \in Threads, Call(t) PROVE TypeInv'
  BY <1>1, TypeBegin DEF Call, IOT_Template_Report, IOT_Template_GetStatus, IOT_Template_ControlReply
<1>2. CASE IOT_Template_Report_Sync \/ IOT_Template_GetStatus_sync
  BY <1>2, TypeBegin DEF IOT_Template_Report_Sync, IOT_Template_GetStatus_sync, Threads
<1>3. CASE UNCHANGED vars
  BY <1>3 DEF vars, templateVars, threadVars, cloudVars, TypeInv, TypeOK, PlaceInv, ReqInv, Current
<1> QED
  BY <1>1, <1>2, <1>3, TypeRequest, TypeMain, TypeWorld DEF Next

\* Every variable keeps its type, whatever the threads, the cloud and the timers
\* do: the lists hold requests and messages only, and a call returns one of the
\* codes of the interface.
THEOREM TypesKept == Spec => []TypeOK
<1>1. Spec => []TypeInv
  BY TypeInit, TypeNext, PTL DEF Spec
<1>2. TypeInv => TypeOK
  BY DEF TypeInv
<1> QED
  BY <1>1, <1>2, PTL

-----------------------------------------------------------------------------
(* The frames of the synchronous calls.                                    *)

Waits == pc[Main] = "wait" \/ (pc[Main] \in Yielding /\ iter.back = "wait")

\* There is at most one synchronous request in the list, that of the call Main
\* waits in.  Once its acknowledgement is set, the request is the one the walk is
\* about to remove.
FrameInv ==
    /\ \A j, k \in 1 .. Len(reply_list) :
          reply_list[j].kind \in SyncKinds /\ reply_list[k].kind \in SyncKinds => j = k
    /\ \A k \in 1 .. Len(reply_list) : reply_list[k].kind \in SyncKinds =>
          /\ Waits
          /\ reply_list[k].id = req[Main].id
          /\ ack # "none" => pc[Main] \in Clearing /\ k = iter.at
    /\ ack # "none" => pc[Main] = "return" \/ Waits

LEMMA FrameInit == Init => FrameInv
BY DEF Init, FrameInv

\* The list has no synchronous request.
LEMMA FrameNone ==
    ASSUME \A k \in 1 .. Len(reply_list') : reply_list'[k].kind \notin SyncKinds,
           ack' # "none" => pc'[Main] = "return" \/ Waits'
    PROVE  FrameInv'
BY DEF FrameInv

\* The list and the acknowledgement stay.
LEMMA FrameStay ==
    ASSUME FrameInv, Len(reply_list') = Len(reply_list), ack' = ack, req'[Main] = req[Main],
           \A k \in 1 .. Len(reply_list) :
              reply_list'[k].kind = reply_list[k].kind /\ reply_list'[k].id = reply_list[k].id,
           Waits => Waits', pc[Main] = "return" => pc'[Main] = "return" \/ ack = "none",
           pc[Main] \in Clearing => pc'[Main] \in Clearing /\ iter'.at = iter.at
    PROVE  FrameInv'
<1>1. \A j, k \in 1 .. Len(reply_list') :
        reply_list'[j].kind \in SyncKinds /\ reply_list'[k].kind \in SyncKinds => j = k
  BY DEF FrameInv
<1>2. \A k \in 1 .. Len(reply_list') : reply_list'[k].kind \in SyncKinds =>
          /\ Waits'
          /\ reply_list'[k].id = req'[Main].id
          /\ ack' # "none" => pc'[Main] \in Clearing /\ k = iter'.at
  BY DEF FrameInv
<1>3. ack' # "none" => pc'[Main] = "return" \/ Waits'
  BY DEF FrameInv
<1> QED
  BY <1>1, <1>2, <1>3 DEF FrameInv

\* An entry is removed, and its acknowledgement set if it is a synchronous one.
LEMMA FrameRemove ==
    ASSUME TypeOK, FrameInv, iter.at \in 1 .. Len(reply_list), RemoveCurrent,
           req'[Main] = req[Main], pc[Main] \in {"walk", "remove"}, pc'[Main] = "walk",
           ack' = ack \/ Current.kind \in SyncKinds
    PROVE  FrameInv'
<1>1. Waits => Waits'
  BY RemoveTyped DEF Waits, Yielding, Walking
<1>2. \A k \in 1 .. Len(reply_list') : \E j \in 1 .. Len(reply_list) :
              reply_list'[k] = reply_list[j] /\ j # iter.at /\ (k < iter.at => j = k)
                /\ (k >= iter.at => j = k + 1)
  BY RemovedFrom
<1>3. iter.at \in Nat /\ Len(reply_list') \in Nat
  BY RemoveTyped DEF TypeOK, Iters
<1>4. ASSUME NEW j \in 1 .. Len(reply_list'), NEW k \in 1 .. Len(reply_list'),
             reply_list'[j].kind \in SyncKinds, reply_list'[k].kind \in SyncKinds
      PROVE  j = k
  <2>1. PICK a \in 1 .. Len(reply_list) : reply_list'[j] = reply_list[a]
              /\ (j < iter.at => a = j) /\ (j >= iter.at => a = j + 1)
    BY <1>2
  <2>2. PICK b \in 1 .. Len(reply_list) : reply_list'[k] = reply_list[b]
              /\ (k < iter.at => b = k) /\ (k >= iter.at => b = k + 1)
    BY <1>2
  <2>3. a = b
    BY <1>4, <2>1, <2>2 DEF FrameInv
  <2> QED
    BY <1>3, <2>1, <2>2, <2>3
<1>5. ASSUME NEW k \in 1 .. Len(reply_list'), reply_list'[k].kind \in SyncKinds
      PROVE  Waits' /\ reply_list'[k].id = req'[Main].id /\ ack' = "none"
  <2>1. PICK j \in 1 .. Len(reply_list) : reply_list'[k] = reply_list[j] /\ j # iter.at
    BY <1>2
  <2>2. Waits /\ reply_list[j].id = req[Main].id /\ ack = "none"
    BY <1>5, <2>1 DEF FrameInv
  <2>3. Current.kind \notin SyncKinds
    BY <1>5, <2>1 DEF FrameInv, Current
  <2> QED
    BY <1>1, <2>1, <2>2, <2>3
<1>6. ack' # "none" => Waits'
  <2>1. ack # "none" => Waits
    BY DEF FrameInv
  <2>2. Current.kind \in SyncKinds => Waits
    BY DEF FrameInv, Current
  <2> QED
    BY <1>1, <2>1, <2>2
<1> QED
  BY <1>4, <1>5, <1>6 DEF FrameInv

LEMMA FrameThread ==
    ASSUME TypeInv, FrameInv, NEW t \in Threads, RequestStep(t) \/ \E kind : Begin(t, kind)
    PROVE  FrameInv'
<1>0. TypeOK /\ PlaceInv /\ ReqInv /\ reply_list \in Seq(Entries)
  BY DEF TypeInv, TypeOK
<1>1. CASE pc[t] # "add"
  <2>1. /\ reply_list' = reply_list /\ iter' = iter
        /\ ack' = (IF pc[t] = "return" /\ t = Main THEN "none" ELSE ack)
        /\ pc[t] \in Issuing \cup {"idle", "return"} /\ pc'[t] \in Issuing \cup {"idle", "return"}
        /\ \A s \in Threads : s # t => pc'[s] = pc[s] /\ req'[s] = req[s]
    <3>1. CASE \E kind : Begin(t, kind)
      BY <1>0, <3>1 DEF Begin, Goto, TypeOK, templateVars, Issuing
    <3>2. CASE ReadToken(t)
      BY <1>0, <3>2 DEF ReadToken, Goto, TypeOK, templateVars, Issuing
    <3>3. CASE StoreToken(t)
      BY <1>0, <3>3 DEF StoreToken, Goto, TypeOK, Issuing
    <3>4. CASE PublishOk(t)
      BY <1>0, <3>4 DEF PublishOk, Goto, TypeOK, templateVars, Issuing
    <3>5. CASE PublishFail(t)
      BY <1>0, <3>5 DEF PublishFail, Goto, TypeOK, templateVars, Issuing
    <3>6. CASE Return(t)
      BY <1>0, <3>6 DEF Return, Goto, TypeOK, templateVars, Issuing
    <3>7. CASE AddRequest(t)
      BY <1>1, <3>7 DEF AddRequest
    <3> QED
      BY <3>1, <3>2, <3>3, <3>4, <3>5, <3>6, <3>7 DEF RequestStep
  <2>2. CASE t = Main
    <3>1. ~Waits
      BY <2>1, <2>2 DEF Waits, Issuing, Yielding, Walking
    <3>2. \A k \in 1 .. Len(reply_list') : reply_list'[k].kind \notin SyncKinds
      BY <2>1, <3>1 DEF FrameInv
    <3>3. ack' = "none"
      BY <2>1, <2>2, <3>1 DEF FrameInv
    <3> QED
      BY <3>2, <3>3, FrameNone
  <2>3. CASE t # Main
    <3>1. Main \in Threads
      BY DEF Threads
    <3> QED
      BY <2>1, <2>3, <3>1, FrameStay DEF Waits
  <2> QED
    BY <2>2, <2>3
<1>2. CASE pc[t] = "add"
  <2>1. AddRequest(t)
    BY <1>2 DEF RequestStep, Begin, ReadToken, StoreToken, PublishOk, PublishFail, Return, Goto
  <2>2. Enlist(req[t]) /\ iter' = iter /\ ack' = ack /\ req' = req
    BY <2>1 DEF AddRequest
  <2>3. /\ pc'[t] = (IF ~(told' # told) /\ req[t].kind \in SyncKinds THEN "wait" ELSE "return")
        /\ \A s \in Threads : s # t => pc'[s] = pc[s]
    BY <1>0, <2>1 DEF AddRequest, Goto, TypeOK
  <2>4. req[t].id \in Ids /\ req[t].kind \in Kinds /\ req[t].token \in Int
    <3>1. req[t] \in Requests /\ req[t].id \in 1 .. MaxReqs /\ req[t].kind \in Kinds
      BY <1>0, <1>2 DEF ReqInv, Issuing, TypeOK
    <3> QED
      BY <3>1, TemplateAssumption DEF Ids, Requests
  <2>5. CASE reply_list' = reply_list /\ told' # told
    <3>1. CASE t = Main
      <4>1. ~Waits
        BY <1>2, <3>1 DEF Waits, Yielding, Walking
      <4>2. \A k \in 1 .. Len(reply_list') : reply_list'[k].kind \notin SyncKinds
        BY <2>5, <4>1 DEF FrameInv
      <4>3. ack' = "none"
        BY <1>2, <2>2, <3>1, <4>1 DEF FrameInv
      <4> QED
        BY <4>2, <4>3, FrameNone
    <3>2. CASE t # Main
      BY <2>2, <2>3, <2>5, <3>2, FrameStay DEF Waits, Threads
    <3> QED
      BY <3>1, <3>2
  <2>6. CASE /\ told' = told
             /\ reply_list' \in Seq(Entries) /\ Len(reply_list') = Len(reply_list) + 1
             /\ \A k \in 1 .. Len(reply_list) : reply_list'[k] = reply_list[k]
             /\ reply_list'[Len(reply_list) + 1] = Entry(req[t])
    <3> DEFINE n == Len(reply_list)
    <3>1. \A k \in 1 .. Len(reply_list') : k \in 1 .. n \/ k = n + 1
      BY <1>0, <2>6
    <3>2. reply_list'[n + 1].kind = req[t].kind /\ reply_list'[n + 1].id = req[t].id
      BY <2>6 DEF Entry
    <3> HIDE DEF n
    <3>3. CASE t = Main
      <4>1. ~Waits
        BY <1>2, <3>3 DEF Waits, Yielding, Walking
      <4>2. \A k \in 1 .. n : reply_list'[k].kind \notin SyncKinds
        BY <2>6, <4>1 DEF FrameInv, n
      <4>3. ack' = "none"
        BY <1>2, <2>2, <3>3, <4>1 DEF FrameInv
      <4>4. CASE req[t].kind \in SyncKinds
        <5>1. Waits'
          BY <2>3, <2>6, <3>3, <4>4 DEF Waits
        <5> QED
          BY <2>2, <3>1, <3>2, <3>3, <4>2, <4>3, <5>1 DEF FrameInv
      <4>5. CASE req[t].kind \notin SyncKinds
        BY <3>1, <3>2, <4>2, <4>3, <4>5, FrameNone
      <4> QED
        BY <4>4, <4>5
    <3>4. CASE t # Main
      <4>1. req[t].kind \notin SyncKinds /\ pc'[Main] = pc[Main]
        BY <1>0, <2>3, <3>4 DEF ReqInv, Threads
      <4>2. Waits' <=> Waits
        BY <2>2, <4>1 DEF Waits
      <4>3. \A k \in 1 .. Len(reply_list') : reply_list'[k].kind \in SyncKinds =>
              k \in 1 .. n /\ reply_list'[k] = reply_list[k] /\ reply_list[k].kind \in SyncKinds
        BY <2>6, <3>1, <3>2, <4>1 DEF n
      <4>4. \A j, k \in 1 .. Len(reply_list') :
              reply_list'[j].kind \in SyncKinds /\ reply_list'[k].kind \in SyncKinds => j = k
        BY <4>3 DEF FrameInv, n
      <4>5. \A k \in 1 .. Len(reply_list') : reply_list'[k].kind \in SyncKinds =>
              /\ Waits'
              /\ reply_list'[k].id = req'[Main].id
              /\ ack' # "none" => pc'[Main] \in Clearing /\ k = iter'.at
        BY <2>2, <4>1, <4>2, <4>3 DEF FrameInv, n
      <4>6. ack' # "none" => pc'[Main] = "return" \/ Waits'
        BY <2>2, <4>1, <4>2 DEF FrameInv
      <4> QED
        BY <4>4, <4>5, <4>6 DEF FrameInv
    <3> QED
      BY <3>3, <3>4
  <2> QED
    BY <1>0, <2>2, <2>4, <2>5, <2>6, EnlistTyped
<1> QED
  BY <1>1, <1>2

LEMMA FrameMain == TypeInv /\ FrameInv /\ MainStep => FrameInv'
<1> SUFFICES ASSUME TypeInv, FrameInv, MainStep PROVE FrameInv'
  OBVIOUS
<1>0. TypeOK /\ PlaceInv /\ ReqInv /\ reply_list \in Seq(Entries) /\ pc \in [Threads -> Places]
        /\ Main \in Threads /\ iter \in Iters /\ iter.at \in Nat
  BY DEF TypeInv, TypeOK, Iters, Threads
<1>a. pc[Main] \in Walking /\ iter.at > 0 => iter.at \in 1 .. Len(reply_list)
  BY <1>0 DEF PlaceInv
<1>1. CASE IOT_Template_Construct
  BY <1>0, <1>1, FrameStay DEF IOT_Template_Construct, Goto, Waits, Yielding, Walking, Clearing
<1>2. CASE SyncDone
  <2>1. pc[Main] = "wait" /\ pc'[Main] = "return" /\ ack # "none" /\ reply_list' = reply_list
    BY <1>0, <1>2 DEF SyncDone, Goto, templateVars
  <2>2. \A k \in 1 .. Len(reply_list') : reply_list'[k].kind \notin SyncKinds
    BY <2>1 DEF FrameInv, Clearing
  <2> QED
    BY <2>1, <2>2, FrameNone
<1>3. CASE IOT_Template_Yield
  <2>1. /\ pc[Main] \in {"idle", "wait"} /\ pc'[Main] \in {"lock", "message"}
        /\ iter'.back = pc[Main] /\ reply_list' = reply_list /\ ack' = ack /\ req' = req
    BY <1>0, <1>3 DEF IOT_Template_Yield, Goto, templateVars, Iters
  <2> QED
    BY <2>1, FrameStay DEF Waits, Yielding, Walking, Clearing
<1>4. CASE HandleMessage
  <2>1. /\ pc[Main] = "message" /\ pc'[Main] \in {"free", "control", "lock"}
        /\ iter'.back = iter.back /\ reply_list' = reply_list /\ ack' = ack /\ req' = req
    BY <1>0, <1>4 DEF HandleMessage, Goto, templateVars, Iters
  <2> QED
    BY <2>1, FrameStay DEF Waits, Yielding, Walking, Clearing
<1>5. CASE HandleControl
  BY <1>0, <1>5, FrameStay DEF HandleControl, Goto, Waits, Yielding, Walking, Clearing
<1>6. CASE FreeMessage
  <2>1. /\ pc[Main] = "free" /\ pc'[Main] \in {"message", "lock"}
        /\ iter'.back = iter.back /\ reply_list' = reply_list /\ ack' = ack /\ req' = req
    BY <1>0, <1>6 DEF FreeMessage, Goto, templateVars, Iters
  <2> QED
    BY <2>1, FrameStay DEF Waits, Yielding, Walking, Clearing
<1>7. CASE TraverseLock
  <2>1. /\ pc[Main] = "lock" /\ pc'[Main] = "walk"
        /\ iter'.back = iter.back /\ reply_list' = reply_list /\ ack' = ack /\ req' = req
    BY <1>0, <1>7 DEF TraverseLock, Goto, Iters
  <2> QED
    BY <2>1, FrameStay DEF Waits, Yielding, Walking, Clearing
<1>8. CASE TraverseEnd
  <2>1. /\ pc[Main] = "walk" /\ reply_list' = reply_list /\ ack' = ack /\ req' = req
        /\ \/ pc'[Main] = "free" /\ iter'.back = iter.back
           \/ pc'[Main] = iter.back
    BY <1>0, <1>8 DEF TraverseEnd, Goto
  <2>2. Waits => Waits'
    BY <2>1 DEF Waits, Yielding
  <2> QED
    BY <2>1, <2>2, FrameStay DEF Clearing
<1>9. CASE TraverseSkip
  <2>1. /\ pc[Main] = "walk" /\ pc'[Main] = "walk"
        /\ iter'.back = iter.back /\ reply_list' = reply_list /\ ack' = ack /\ req' = req
    BY <1>0, <1>9 DEF TraverseSkip, Goto, Iters, templateVars
  <2> QED
    BY <2>1, FrameStay DEF Waits, Yielding, Walking, Clearing
<1>10. CASE ExpireEntry
  <2>1. /\ pc[Main] = "walk" /\ pc'[Main] = "walk" /\ ack' = ack /\ req' = req
        /\ iter.at > 0 /\ \/ RemoveCurrent
                          \/ reply_list' = reply_list /\ iter' = iter
    BY <1>0, <1>10 DEF ExpireEntry, Goto, AtEntry
  <2>2. CASE RemoveCurrent
    BY <1>0, <1>a, <2>1, <2>2, FrameRemove DEF Walking
  <2>3. CASE reply_list' = reply_list /\ iter' = iter
    BY <2>1, <2>3, FrameStay DEF Waits
  <2> QED
    BY <2>1, <2>2, <2>3
<1>11. CASE ReplyGarbled
  <2>1. /\ pc[Main] = "walk" /\ pc'[Main] = "walk" /\ ack' = ack /\ req' = req
        /\ iter.at > 0 /\ RemoveCurrent
    BY <1>0, <1>11 DEF ReplyGarbled, Goto, AtEntry
  <2> QED
    BY <1>0, <1>a, <2>1, FrameRemove DEF Walking
<1>12. CASE ReplyVerdict
  <2>1. /\ pc[Main] = "walk" /\ pc'[Main] = "walk" /\ req' = req
        /\ iter.at > 0 /\ RemoveCurrent /\ (ack' = ack \/ Current.kind \in SyncKinds)
    BY <1>0, <1>12 DEF ReplyVerdict, Goto, AtEntry, AckAfter
  <2> QED
    BY <1>0, <1>a, <2>1, FrameRemove DEF Walking
<1>13. CASE ReplyControl
  <2>1. /\ pc[Main] = "walk" /\ req' = req /\ iter.at > 0 /\ iter' = iter /\ reply_list' = reply_list
        /\ \/ pc'[Main] \in Clearing /\ ack' = AckAfter(Current, "accepted")
           \/ pc'[Main] = "walk" /\ ack' = ack
    BY <1>0, <1>13 DEF ReplyControl, Goto, AtEntry, Clearing
  <2>2. Waits => Waits'
    BY <2>1 DEF Waits, Yielding, Walking, Clearing
  <2>3. CASE ack' = ack
    BY <2>1, <2>2, <2>3, FrameStay DEF Clearing
  <2>4. CASE ack' # ack
    <3>1. Current.kind \in SyncKinds /\ iter.at \in 1 .. Len(reply_list) /\ pc'[Main] \in Clearing
      BY <1>a, <2>1, <2>4 DEF AckAfter, Walking
    <3>2. \A k \in 1 .. Len(reply_list) : reply_list[k].kind \in SyncKinds => k = iter.at
      BY <3>1 DEF FrameInv, Current
    <3>3. Waits'
      BY <2>2, <3>1 DEF FrameInv, Current
    <3>4. \A k \in 1 .. Len(reply_list') : reply_list'[k].kind \in SyncKinds =>
            reply_list'[k].id = req'[Main].id
      BY <2>1 DEF FrameInv
    <3> QED
      BY <2>1, <3>1, <3>2, <3>3, <3>4 DEF FrameInv
  <2> QED
    BY <2>3, <2>4
<1>14. CASE ClearPublish
  <2>1. /\ pc[Main] = "clear_publish" /\ pc'[Main] \in {"clear_add", "remove"}
        /\ iter' = iter /\ reply_list' = reply_list /\ ack' = ack /\ req' = req
    BY <1>0, <1>14 DEF ClearPublish, Goto, templateVars
  <2> QED
    BY <2>1, FrameStay DEF Waits, Yielding, Walking, Clearing
<1>15. CASE ClearAdd
  <2>1. /\ pc[Main] = "clear_add" /\ pc'[Main] = "remove"
        /\ iter' = iter /\ ack' = ack /\ req' = req /\ Enlist(ClearReq)
    BY <1>0, <1>15 DEF ClearAdd, Goto
  <2>2. CASE reply_list' = reply_list
    BY <2>1, <2>2, FrameStay DEF Waits, Yielding, Walking, Clearing
  <2>3. CASE reply_list' # reply_list
    <3> DEFINE n == Len(reply_list)
    <3>1. /\ Len(reply_list') = n + 1
          /\ \A k \in 1 .. n : reply_list'[k] = reply_list[k]
          /\ reply_list'[n + 1] = Entry(ClearReq)
      BY <1>0, <2>1, <2>3 DEF Enlist
    <3>2. \A k \in 1 .. Len(reply_list') : k \in 1 .. n \/ k = n + 1
      BY <1>0, <3>1
    <3>3. reply_list'[n + 1].kind \notin SyncKinds
      BY <3>1 DEF Entry, ClearReq, SyncKinds
    <3> HIDE DEF n
    <3>4. \A k \in 1 .. Len(reply_list') : reply_list'[k].kind \in SyncKinds =>
            k \in 1 .. n /\ reply_list'[k] = reply_list[k] /\ reply_list[k].kind \in SyncKinds
      BY <3>1, <3>2, <3>3
    <3>5. Waits' <=> Waits
      BY <2>1 DEF Waits, Yielding, Walking
    <3>6. \A j, k \in 1 .. Len(reply_list') :
            reply_list'[j].kind \in SyncKinds /\ reply_list'[k].kind \in SyncKinds => j = k
      BY <3>4 DEF FrameInv, n
    <3>7. \A k \in 1 .. Len(reply_list') : reply_list'[k].kind \in SyncKinds =>
            /\ Waits'
            /\ reply_list'[k].id = req'[Main].id
            /\ ack' # "none" => pc'[Main] \in Clearing /\ k = iter'.at
      BY <2>1, <3>4, <3>5 DEF FrameInv, n, Clearing
    <3>8. ack' # "none" => pc'[Main] = "return" \/ Waits'
      BY <2>1, <3>5 DEF FrameInv
    <3> QED
      BY <3>6, <3>7, <3>8 DEF FrameInv
  <2> QED
    BY <2>2, <2>3
<1>16. CASE RemoveEntry
  <2>1. /\ pc[Main] = "remove" /\ pc'[Main] = "walk" /\ ack' = ack /\ req' = req
        /\ iter.at > 0 /\ RemoveCurrent
    BY <1>0, <1>16 DEF RemoveEntry, Goto, PlaceInv, Clearing
  <2> QED
    BY <1>0, <1>a, <2>1, FrameRemove DEF Walking
<1> QED
  BY <1>1, <1>2, <1>3, <1>4, <1>5, <1>6, <1>7, <1>8, <1>9, <1>10, <1>11, <1>12, <1>13, <1>14,
     <1>15, <1>16 DEF MainStep

LEMMA FrameNext == TypeInv /\ FrameInv /\ [Next]_vars => FrameInv'
<1> SUFFICES ASSUME TypeInv, FrameInv, [Next]_vars PROVE FrameInv'
  OBVIOUS
<1>1. ASSUME NEW t \in Threads, Call(t) PROVE FrameInv'
  BY <1>1, FrameThread DEF Call, IOT_Template_Report, IOT_Template_GetStatus, IOT_Template_ControlReply
<1>2. CASE IOT_Template_Report_Sync \/ IOT_Template_GetStatus_sync
  BY <1>2, FrameThread DEF IOT_Template_Report_Sync, IOT_Template_GetStatus_sync, Threads
<1>3. CASE Cloud \/ UNCHANGED vars
  <2>1. /\ reply_list' = reply_list /\ pc' = pc /\ iter' = iter /\ ack' = ack /\ req' = req
    BY <1>3 DEF Cloud, CloudAnswer, CloudControl, vars, templateVars, threadVars
  <2> QED
    BY <2>1, FrameStay DEF Waits
<1>4. ASSUME NEW i \in Ids, TimerExpires(i) PROVE FrameInv'
  <2>1. TypeOK /\ pc' = pc /\ iter' = iter /\ ack' = ack /\ req' = req
    BY <1>4 DEF TypeInv, TimerExpires, threadVars
  <2> QED
    BY <1>4, <2>1, ExpiredTyped, FrameStay DEF Waits
<1> QED
  BY <1>1, <1>2, <1>3, <1>4, FrameThread, FrameMain DEF Next

\* The callbacks of the synchronous calls never store into the frame of a call that
\* has returned: their request is in the list only while that call waits.
THEOREM FramesAlive == Spec => []FrameAlive
<1>1. Spec => [](TypeInv /\ FrameInv)
  BY TypeInit, TypeNext, FrameInit, FrameNext, PTL DEF Spec
<1>2. TypeInv /\ FrameInv => FrameAlive
  <2> SUFFICES ASSUME TypeInv, FrameInv PROVE FrameAlive
    OBVIOUS
  <2>1. DOMAIN reply_list = 1 .. Len(reply_list)
    BY DEF TypeInv, TypeOK
  <2>2. Waits => pc[Main] \notin {"idle", "return"}
    BY DEF Waits, Yielding, Walking
  <2>3. ASSUME NEW k \in DOMAIN reply_list, reply_list[k].kind \in SyncKinds
        PROVE  req[Main].id = reply_list[k].id /\ pc[Main] \notin {"idle", "return"}
    <3>1. k \in 1 .. Len(reply_list)
      BY <2>1, <2>3
    <3>2. Waits /\ reply_list[k].id = req[Main].id
      BY <2>3, <3>1 DEF FrameInv
    <3> QED
      BY <2>2, <3>2
  <2> QED
    BY <2>3 DEF FrameAlive
<1> QED
  BY <1>1, <1>2, PTL

-----------------------------------------------------------------------------
(* The numbers of the requests.                                            *)

\* What was published under the number of r is r.
Sent(r) == up[r.id].kind = r.kind /\ up[r.id].token = r.token

NotCleared(i) == up[i + MaxReqs].kind = "none" /\ told[i + MaxReqs] = <<>>

Unsent == {"token", "store_token", "publish"}

\* Each request has a number of its own: nothing is published under it before the
\* request is sent, and what was published stays.
NumberInv ==
    /\ \A t \in Threads : pc[t] \in Issuing => req[t].id <= issued
    /\ \A s, t \in Threads : pc[s] \in Issuing /\ pc[t] \in Issuing /\ req[s].id = req[t].id => s = t
    /\ \A t \in Threads : pc[t] \in Unsent => up[req[t].id].kind = "none"
    /\ \A i \in 1 .. MaxReqs : i > issued => up[i].kind = "none" /\ NotCleared(i)
    /\ \A i \in Ids : up[i].kind = "none" => up[i].answer = "none"
    /\ \A t \in Threads : pc[t] = "add" => Sent(req[t])
    /\ \A k \in 1 .. Len(reply_list) : Sent(reply_list[k])
    /\ \A k \in 1 .. Len(reply_list) : reply_list[k].kind = "get_sync" =>
          \/ NotCleared(reply_list[k].id)
          \/ pc[Main] \in {"clear_add", "remove"} /\ k = iter.at
    /\ pc[Main] \in Issuing => NotCleared(req[Main].id)
    /\ pc[Main] = "clear_add" => Sent(ClearReq)

LEMMA IdFacts ==
    /\ MaxReqs \in Nat /\ Main \in Threads
    /\ \A i \in 1 .. MaxReqs : i \in Ids /\ i + MaxReqs \in Ids
    /\ \A i, j \in 1 .. MaxReqs : i # j + MaxReqs /\ (i + MaxReqs = j + MaxReqs => i = j)
    /\ \A t \in Workers : t \in Threads /\ t # Main
BY TemplateAssumption DEF Ids, Threads

LEMMA NumberInit == Init => NumberInv
<1> SUFFICES ASSUME Init PROVE NumberInv
  OBVIOUS
<1>1. pc[Main] = "construct" /\ \A t \in Threads : pc[t] \in {"construct", "idle"}
  BY IdFacts DEF Init
<1>2. \A i \in Ids : up[i].kind = "none" /\ up[i].answer = "none" /\ told[i] = <<>>
  BY DEF Init, NotSent
<1>3. Len(reply_list) = 0
  BY DEF Init
<1> QED
  BY <1>1, <1>2, <1>3, IdFacts DEF NumberInv, Issuing, Unsent, NotCleared

-----------------------------------------------------------------------------
(* What the steps of the threads do.                                       *)

LEMMA BeginEffect ==
    ASSUME TypeInv, NEW t \in Threads, NEW kind, Begin(t, kind)
    PROVE  /\ pc[t] = "idle" /\ pc'[t] = (IF kind = "control_reply" THEN "publish" ELSE "token")
           /\ issued' = issued + 1 /\ issued' \in 1 .. MaxReqs
           /\ kind \in Kinds \ {"clear"} /\ (t # Main => kind \notin SyncKinds)
           /\ req'[t] = [id |-> issued', kind |-> kind, token |-> clientToken]
           /\ \A s \in Threads : s # t => pc'[s] = pc[s] /\ req'[s] = req[s]
           /\ UNCHANGED <<reply_list, mutex, token_num, pMsgList, up, told, iter, ack, result, clientToken>>
<1>0. TypeOK
  BY DEF TypeInv
<1>1. kind \in Kinds \ {"clear"} /\ (t # Main => kind \notin SyncKinds)
  <2>1. kind \in IF t = Main THEN Calls ELSE WorkerCalls
    BY DEF Begin
  <2> QED
    BY <2>1, TemplateAssumption
<1>2. issued' = issued + 1 /\ issued' \in 1 .. MaxReqs
  BY <1>0, TemplateAssumption DEF Begin, TypeOK
<1>3. /\ pc[t] = "idle" /\ pc'[t] = (IF kind = "control_reply" THEN "publish" ELSE "token")
      /\ req'[t] = [id |-> issued', kind |-> kind, token |-> clientToken]
      /\ \A s \in Threads : s # t => pc'[s] = pc[s] /\ req'[s] = req[s]
  BY <1>0 DEF Begin, Goto, TypeOK
<1> QED
  BY <1>1, <1>2, <1>3 DEF Begin, templateVars

LEMMA ReadEffect ==
    ASSUME TypeInv, NEW t \in Threads, ReadToken(t)
    PROVE  /\ pc[t] = "token" /\ pc'[t] = "store_token"
           /\ "token_race" \in Faults \/ \A s \in Threads : pc[s] # "store_token"
           /\ req'[t].id = req[t].id /\ req'[t].kind = req[t].kind /\ req'[t].token = token_num
           /\ \A s \in Threads : s # t => pc'[s] = pc[s] /\ req'[s] = req[s]
           /\ UNCHANGED <<reply_list, mutex, token_num, pMsgList, issued, up, told, iter, ack, result>>
<1>0. req \in [Threads -> Requests] /\ pc \in [Threads -> Places]
  BY DEF TypeInv, TypeOK
<1>1. req'[t] = [req[t] EXCEPT !.token = token_num]
  BY <1>0 DEF ReadToken
<1>2. req'[t].id = req[t].id /\ req'[t].kind = req[t].kind /\ req'[t].token = token_num
  <2>1. \A x \in Requests : LET y == [x EXCEPT !.token = token_num] IN
          y.id = x.id /\ y.kind = x.kind /\ y.token = token_num
    BY DEF Requests
  <2> QED
    BY <1>0, <1>1, <2>1
<1>3. \A s \in Threads : s # t => pc'[s] = pc[s] /\ req'[s] = req[s]
  BY <1>0 DEF ReadToken, Goto
<1> QED
  BY <1>0, <1>2, <1>3 DEF ReadToken, Goto, templateVars

LEMMA StoreEffect ==
    ASSUME TypeInv, NEW t \in Threads, StoreToken(t)
    PROVE  /\ pc[t] = "store_token" /\ pc'[t] = "publish" /\ token_num' = req[t].token + 1
           /\ \A s \in Threads : s # t => pc'[s] = pc[s]
           /\ UNCHANGED <<reply_list, mutex, pMsgList, req, issued, up, told, iter, ack, result>>
BY DEF TypeInv, TypeOK, StoreToken, Goto

LEMMA ReqTyped ==
    ASSUME TypeInv, NEW t \in Threads, pc[t] \in Issuing
    PROVE  /\ req[t].id \in 1 .. MaxReqs /\ req[t].id \in Ids /\ req[t].token \in Int
           /\ req[t].kind \in Kinds \ {"clear"} /\ req[t].kind \in Kinds /\ req[t].kind # "none"
<1>1. req[t] \in Requests /\ req[t].id \in 1 .. MaxReqs /\ req[t].kind \in Kinds \ {"clear"}
  BY DEF TypeInv, TypeOK, ReqInv
<1> QED
  BY <1>1, IdFacts DEF Requests, Kinds, SyncKinds

LEMMA PublishEffect ==
    ASSUME TypeInv, NEW t \in Threads, PublishOk(t)
    PROVE  /\ pc[t] = "publish" /\ pc'[t] = "add"
           /\ \A s \in Threads : s # t => pc'[s] = pc[s]
           /\ up'[req[t].id].kind = req[t].kind /\ up'[req[t].id].token = req[t].token
           /\ up'[req[t].id].answer = up[req[t].id].answer
           /\ up'[req[t].id].control = up[req[t].id].control
           /\ \A j \in Ids : j # req[t].id => up'[j] = up[j]
           /\ UNCHANGED <<reply_list, mutex, token_num, pMsgList, req, issued, told, iter, ack, result>>
<1>1. TypeOK /\ pc[t] = "publish" /\ pc'[t] = "add" /\ \A s \in Threads : s # t => pc'[s] = pc[s]
  BY DEF TypeInv, TypeOK, PublishOk, Goto
<1>2. Send(req[t]) /\ pc[t] \in Issuing
  BY <1>1 DEF PublishOk, Issuing
<1> QED
  BY <1>1, <1>2, ReqTyped, SendTyped DEF PublishOk, templateVars

LEMMA FailEffect ==
    ASSUME TypeInv, NEW t \in Threads, PublishFail(t)
    PROVE  /\ pc[t] = "publish" /\ pc'[t] = "return" /\ result'[t] = "FAILURE"
           /\ \A s \in Threads : s # t => pc'[s] = pc[s] /\ result'[s] = result[s]
           /\ \A j \in Ids : j # req[t].id => up'[j] = up[j]
           /\ \/ up' = up
              \/ /\ up'[req[t].id].kind = req[t].kind /\ up'[req[t].id].token = req[t].token
                 /\ up'[req[t].id].answer = up[req[t].id].answer
                 /\ up'[req[t].id].control = up[req[t].id].control
           /\ \A j \in Ids : j # req[t].id => told'[j] = told[j]
           /\ UNCHANGED <<reply_list, mutex, token_num, pMsgList, req, issued, iter, ack>>
<1>1. /\ TypeOK /\ pc[t] = "publish" /\ pc'[t] = "return" /\ result'[t] = "FAILURE"
      /\ \A s \in Threads : s # t => pc'[s] = pc[s] /\ result'[s] = result[s]
  BY DEF TypeInv, TypeOK, PublishFail, Goto
<1>2. pc[t] \in Issuing
  BY <1>1 DEF Issuing
<1>3. \A j \in Ids : j # req[t].id => told'[j] = told[j]
  <2>1. Hear(req[t].id, "failed") /\ "failed" \in Outcomes
    BY DEF PublishFail, Outcomes
  <2> QED
    BY <1>1, <1>2, <2>1, ReqTyped, HearTyped
<1>4. \/ up' = up
      \/ /\ up'[req[t].id].kind = req[t].kind /\ up'[req[t].id].token = req[t].token
         /\ up'[req[t].id].answer = up[req[t].id].answer
         /\ up'[req[t].id].control = up[req[t].id].control
         /\ \A j \in Ids : j # req[t].id => up'[j] = up[j]
  <2>1. Send(req[t]) \/ up' = up
    BY DEF PublishFail
  <2> QED
    BY <1>1, <1>2, <2>1, ReqTyped, SendTyped
<1> QED
  BY <1>1, <1>3, <1>4 DEF PublishFail, templateVars

\* The request is entered at the end of the list, or the list is full.
LEMMA AddEffect ==
    ASSUME TypeInv, NEW t \in Threads, AddRequest(t)
    PROVE  /\ pc[t] = "add" /\ CanLock(t)
           /\ \A s \in Threads : s # t => pc'[s] = pc[s] /\ result'[s] = result[s]
           /\ \A j \in Ids : j # req[t].id => told'[j] = told[j]
           /\ \/ /\ reply_list' = reply_list /\ pc'[t] = "return" /\ result'[t] = "MAX_APPENDING"
              \/ /\ pc'[t] = (IF req[t].kind \in SyncKinds THEN "wait" ELSE "return")
                 /\ result'[t] = "SUCCESS"
                 /\ Len(reply_list') = Len(reply_list) + 1
                 /\ \A k \in 1 .. Len(reply_list) : reply_list'[k] = reply_list[k]
                 /\ reply_list'[Len(reply_list) + 1] = Entry(req[t])
           /\ UNCHANGED <<mutex, token_num, pMsgList, req, issued, up, iter, ack>>
<1>0. TypeOK /\ pc[t] = "add" /\ pc \in [Threads -> Places] /\ result \in [Threads -> Results]
  BY DEF TypeInv, TypeOK, AddRequest
<1>1. req[t].id \in Ids /\ req[t].kind \in Kinds /\ req[t].token \in Int
  BY <1>0, ReqTyped DEF Issuing
<1>2. /\ pc'[t] = (IF ~(told' # told) /\ req[t].kind \in SyncKinds THEN "wait" ELSE "return")
      /\ result'[t] = (IF told' # told THEN "MAX_APPENDING" ELSE "SUCCESS")
      /\ \A s \in Threads : s # t => pc'[s] = pc[s] /\ result'[s] = result[s]
  BY <1>0 DEF AddRequest, Goto
<1>3. Enlist(req[t]) /\ CanLock(t)
  BY DEF AddRequest
<1>4. UNCHANGED <<mutex, token_num, pMsgList, req, issued, up, iter, ack>>
  BY DEF AddRequest
<1> QED
  BY <1>0, <1>1, <1>2, <1>3, <1>4, EnlistTyped

LEMMA ReturnEffect ==
    ASSUME TypeInv, NEW t \in Threads, Return(t)
    PROVE  /\ pc[t] = "return" /\ pc'[t] = "idle" /\ req'[t] = NoReq
           /\ ack' = (IF t = Main THEN "none" ELSE ack)
           /\ \A s \in Threads : s # t => pc'[s] = pc[s] /\ req'[s] = req[s] /\ result'[s] = result[s]
           /\ UNCHANGED <<reply_list, mutex, token_num, pMsgList, issued, up, told, iter>>
BY DEF TypeInv, TypeOK, Return, Goto, templateVars

-----------------------------------------------------------------------------
(* The numbers are kept.                                                   *)

\* A step of Main outside a call: the published documents stay, entries may leave,
\* and the application hears of requests that were sent.
LEMMA NumberQuiet ==
    ASSUME TypeInv, NumberInv, issued' = issued, req' = req, up' = up,
           \A i \in Ids : up[i].kind = "none" => told'[i] = told[i],
           \A s \in Threads : s # Main => pc'[s] = pc[s],
           pc'[Main] \notin Issuing \cup {"clear_add"},
           \A k \in 1 .. Len(reply_list') : \E j \in 1 .. Len(reply_list) :
              /\ reply_list'[k] = reply_list[j]
              /\ pc[Main] \in {"clear_add", "remove"} => j # iter.at
    PROVE  NumberInv'
<1>1. \A t \in Threads : pc'[t] \in Issuing => t # Main /\ pc'[t] = pc[t]
  OBVIOUS
<1>2. \A t \in Threads : pc'[t] \in Unsent \cup {"add"} => pc'[t] \in Issuing
  BY DEF Unsent, Issuing
<1>3. \A i \in 1 .. MaxReqs : NotCleared(i) => NotCleared(i)'
  BY IdFacts DEF NotCleared
<1>4. \A t \in Threads : pc'[t] \in Issuing => req'[t].id <= issued'
  BY <1>1 DEF NumberInv
<1>5. \A s, t \in Threads : pc'[s] \in Issuing /\ pc'[t] \in Issuing /\ req'[s].id = req'[t].id => s = t
  BY <1>1 DEF NumberInv
<1>6. \A t \in Threads : pc'[t] \in Unsent => up'[req'[t].id].kind = "none"
  BY <1>1, <1>2 DEF NumberInv
<1>7. \A i \in 1 .. MaxReqs : i > issued' => up'[i].kind = "none" /\ NotCleared(i)'
  BY <1>3 DEF NumberInv
<1>8. \A i \in Ids : up'[i].kind = "none" => up'[i].answer = "none"
  BY DEF NumberInv
<1>9. \A t \in Threads : pc'[t] = "add" => Sent(req[t])'
  BY <1>1, <1>2 DEF NumberInv, Sent
<1>10. \A k \in 1 .. Len(reply_list') : Sent(reply_list[k])'
  BY DEF NumberInv, Sent
<1>11. ASSUME NEW k \in 1 .. Len(reply_list'), reply_list'[k].kind = "get_sync"
       PROVE  NotCleared(reply_list[k].id)'
  <2>1. PICK j \in 1 .. Len(reply_list) : /\ reply_list'[k] = reply_list[j]
                                          /\ pc[Main] \in {"clear_add", "remove"} => j # iter.at
    OBVIOUS
  <2>2. NotCleared(reply_list[j].id)
    BY <1>11, <2>1 DEF NumberInv
  <2>3. reply_list[j].id \in 1 .. MaxReqs
    BY <1>11, <2>1 DEF TypeInv, ReqInv
  <2>4. reply_list[j].id + MaxReqs \in Ids
    BY <2>3, IdFacts
  <2> QED
    BY <2>1, <2>2, <2>4 DEF NotCleared
<1> QED
  BY <1>4, <1>5, <1>6, <1>7, <1>8, <1>9, <1>10, <1>11 DEF NumberInv, NotCleared

\* A step of the world: no document is published.
LEMMA NumberWorld ==
    ASSUME NumberInv, issued' = issued, req' = req, pc' = pc, iter' = iter, told' = told,
           \A i \in Ids : up'[i].kind = up[i].kind /\ up'[i].token = up[i].token
                            /\ (up[i].kind = "none" => up'[i].answer = up[i].answer),
           Len(reply_list') = Len(reply_list),
           \A k \in 1 .. Len(reply_list) :
              /\ reply_list'[k].kind = reply_list[k].kind /\ reply_list'[k].id = reply_list[k].id
              /\ reply_list'[k].token = reply_list[k].token,
           TypeInv
    PROVE  NumberInv'
<1>1. \A t \in Threads : pc[t] \in Issuing => req[t].id \in Ids
  BY ReqTyped
<1>2. \A k \in 1 .. Len(reply_list) : reply_list[k].id \in Ids
  BY EntryTyped DEF TypeInv
<1>3. \A i \in 1 .. MaxReqs : NotCleared(i)' <=> NotCleared(i)
  BY IdFacts DEF NotCleared
<1>4. \A t \in Threads : pc'[t] \in Unsent => up'[req'[t].id].kind = "none"
  BY <1>1 DEF NumberInv, Unsent, Issuing
<1>5. \A i \in 1 .. MaxReqs : i > issued' => up'[i].kind = "none" /\ NotCleared(i)'
  BY <1>3, IdFacts DEF NumberInv
<1>6. \A t \in Threads : pc'[t] = "add" => Sent(req[t])'
  BY <1>1 DEF NumberInv, Sent, Issuing
<1>7. \A k \in 1 .. Len(reply_list') : Sent(reply_list[k])'
  BY <1>2 DEF NumberInv, Sent
<1>8. \A k \in 1 .. Len(reply_list') : reply_list'[k].kind = "get_sync" =>
          \/ NotCleared(reply_list[k].id)'
          \/ pc'[Main] \in {"clear_add", "remove"} /\ k = iter'.at
  <2> TAKE k \in 1 .. Len(reply_list')
  <2> HAVE reply_list'[k].kind = "get_sync"
  <2>1. reply_list[k].kind = "get_sync" /\ reply_list'[k].id = reply_list[k].id /\ k \in 1 .. Len(reply_list)
    OBVIOUS
  <2>2. reply_list[k].id \in 1 .. MaxReqs
    BY <2>1 DEF TypeInv, ReqInv
  <2>3. \/ NotCleared(reply_list[k].id)
        \/ pc[Main] \in {"clear_add", "remove"} /\ k = iter.at
    BY <2>1 DEF NumberInv
  <2> QED
    BY <1>3, <2>1, <2>2, <2>3 DEF NotCleared
<1>9. pc'[Main] \in Issuing => NotCleared(req[Main].id)'
  <2>1. pc[Main] \in Issuing => req[Main].id \in 1 .. MaxReqs
    BY ReqTyped, IdFacts
  <2> QED
    BY <1>3, <2>1 DEF NumberInv, NotCleared
<1>10. pc'[Main] = "clear_add" => Sent(ClearReq)'
  <2>1. pc[Main] = "clear_add" => /\ iter.at \in 1 .. Len(reply_list) /\ Current.kind = "get_sync"
                                  /\ Current.id \in 1 .. MaxReqs
    BY DEF TypeInv, PlaceInv, ReqInv, TypeOK, Clearing, Walking, Current, Iters
  <2>2. pc[Main] = "clear_add" => ClearReq.id \in Ids /\ ClearReq' = ClearReq
    BY <2>1, IdFacts DEF ClearReq, Current
  <2> QED
    BY <2>2 DEF NumberInv, Sent
<1> QED
  BY <1>4, <1>5, <1>6, <1>7, <1>8, <1>9, <1>10 DEF NumberInv

\* A step of a thread leaves alone what the clearing of control data needs.
LEMMA NumberOthers ==
    ASSUME TypeInv, NumberInv, NEW t \in Threads,
           pc[t] \in Issuing \cup {"idle", "return"}, pc'[t] \in Issuing \cup {"idle", "return", "wait"},
           \A s \in Threads : s # t => pc'[s] = pc[s], iter' = iter,
           \A k \in 1 .. Len(reply_list) : reply_list'[k] = reply_list[k],
           \A i \in 1 .. MaxReqs : up'[i + MaxReqs] = up[i + MaxReqs] /\ told'[i + MaxReqs] = told[i + MaxReqs]
    PROVE  /\ \A i \in 1 .. MaxReqs : NotCleared(i) => NotCleared(i)'
           /\ pc'[Main] = "clear_add" => Sent(ClearReq)'
           /\ \A k \in 1 .. Len(reply_list) : reply_list[k].kind = "get_sync" =>
                \/ NotCleared(reply_list[k].id)'
                \/ pc'[Main] \in {"clear_add", "remove"} /\ k = iter'.at
<1>1. \A i \in 1 .. MaxReqs : NotCleared(i) => NotCleared(i)'
  BY DEF NotCleared
<1>2. pc'[Main] \in {"clear_add", "remove"} <=> pc[Main] \in {"clear_add", "remove"}
  BY IdFacts DEF Issuing
<1>3. pc'[Main] = "clear_add" => Sent(ClearReq)'
  <2>1. pc'[Main] = "clear_add" => pc[Main] = "clear_add"
    BY IdFacts DEF Issuing
  <2>2. pc[Main] = "clear_add" => /\ iter.at \in 1 .. Len(reply_list) /\ Current.kind = "get_sync"
                                  /\ Current.id \in 1 .. MaxReqs
    BY DEF TypeInv, PlaceInv, ReqInv, TypeOK, Clearing, Walking, Current, Iters
  <2>3. pc[Main] = "clear_add" => ClearReq' = ClearReq /\ up'[ClearReq.id] = up[ClearReq.id]
    BY <2>2 DEF ClearReq, Current
  <2> QED
    BY <2>1, <2>3 DEF NumberInv, Sent
<1>4. ASSUME NEW k \in 1 .. Len(reply_list), reply_list[k].kind = "get_sync"
      PROVE  \/ NotCleared(reply_list[k].id)'
             \/ pc'[Main] \in {"clear_add", "remove"} /\ k = iter'.at
  <2>1. reply_list[k].id \in 1 .. MaxReqs
    BY <1>4 DEF TypeInv, ReqInv
  <2>2. \/ NotCleared(reply_list[k].id)
        \/ pc[Main] \in {"clear_add", "remove"} /\ k = iter.at
    BY <1>4 DEF NumberInv
  <2>3. CASE NotCleared(reply_list[k].id)
    BY <2>1, <2>3 DEF NotCleared
  <2>4. CASE pc[Main] \in {"clear_add", "remove"} /\ k = iter.at
    BY <1>2, <2>4
  <2> QED
    BY <2>2, <2>3, <2>4
<1> QED
  BY <1>1, <1>3, <1>4

\* What was sent is not published again under the same number.
LEMMA SentStays ==
    ASSUME NEW r, r.id \in Ids, r.kind # "none", Sent(r), NEW i \in Ids, up[i].kind = "none",
           \A j \in Ids : j # i => up'[j] = up[j], r' = r
    PROVE  Sent(r)'
BY DEF Sent

LEMMA NumberThread ==
    ASSUME TypeInv, NumberInv, NEW t \in Threads, RequestStep(t) \/ \E kind : Begin(t, kind)
    PROVE  NumberInv'
<1>0. /\ TypeOK /\ issued \in 0 .. MaxReqs
      /\ \A s \in Threads : pc[s] \in Unsent \cup {"add"} => pc[s] \in Issuing
  BY DEF TypeInv, TypeOK, Unsent, Issuing
<1>a. \A k \in 1 .. Len(reply_list) : reply_list[k].id \in Ids /\ reply_list[k].kind # "none"
  <2>1. "none" \notin Kinds
    BY DEF Kinds, SyncKinds
  <2> QED
    BY <1>0, <2>1, EntryTyped
<1>b. \A s \in Threads : pc[s] \in Issuing => /\ req[s].id \in 1 .. MaxReqs /\ req[s].id \in Ids
                                              /\ req[s].kind # "none"
  BY ReqTyped
<1>1. ASSUME NEW kind, Begin(t, kind) PROVE NumberInv'
  <2>1. /\ pc[t] = "idle" /\ pc'[t] \in {"publish", "token"}
        /\ issued' = issued + 1 /\ issued' \in 1 .. MaxReqs
        /\ req'[t].id = issued'
        /\ \A s \in Threads : s # t => pc'[s] = pc[s] /\ req'[s] = req[s]
        /\ UNCHANGED <<reply_list, up, told, iter>>
    <3>1. req'[t] = [id |-> issued', kind |-> kind, token |-> clientToken]
      BY <1>1, BeginEffect
    <3>2. req'[t].id = issued'
      BY <3>1
    <3> QED
      BY <1>1, <3>2, BeginEffect
  <2>2. /\ \A i \in 1 .. MaxReqs : NotCleared(i) => NotCleared(i)'
        /\ pc'[Main] = "clear_add" => Sent(ClearReq)'
        /\ \A k \in 1 .. Len(reply_list) : reply_list[k].kind = "get_sync" =>
             \/ NotCleared(reply_list[k].id)'
             \/ pc'[Main] \in {"clear_add", "remove"} /\ k = iter'.at
    BY <2>1, NumberOthers DEF Issuing
  <2>3. issued' > issued
    BY <1>0, <2>1
  <2>4. \A s \in Threads : pc'[s] \in Issuing => req'[s].id <= issued'
    BY <1>0, <1>b, <2>1 DEF NumberInv
  <2>5. ASSUME NEW r \in Threads, NEW s \in Threads, pc'[r] \in Issuing, pc'[s] \in Issuing,
               req'[r].id = req'[s].id
        PROVE  r = s
    <3>1. \A x \in Threads : x # t /\ pc'[x] \in Issuing => req'[x].id # issued'
      BY <1>0, <1>b, <2>1, <2>3 DEF NumberInv
    <3> QED
      BY <2>1, <2>5, <3>1 DEF NumberInv
  <2>6. \A s \in Threads : pc'[s] \in Unsent => up'[req'[s].id].kind = "none"
    BY <2>1, <2>3 DEF NumberInv
  <2>7. \A i \in 1 .. MaxReqs : i > issued' => up'[i].kind = "none" /\ NotCleared(i)'
    BY <1>0, <2>1, <2>2, <2>3 DEF NumberInv
  <2>8. \A i \in Ids : up'[i].kind = "none" => up'[i].answer = "none"
    BY <2>1 DEF NumberInv
  <2>9. \A s \in Threads : pc'[s] = "add" => Sent(req[s])'
    BY <2>1 DEF NumberInv, Sent
  <2>10. \A k \in 1 .. Len(reply_list') : Sent(reply_list[k])'
    BY <2>1 DEF NumberInv, Sent
  <2>11. pc'[Main] \in Issuing => NotCleared(req[Main].id)'
    <3>1. NotCleared(issued)'
      BY <2>1, <2>2, <2>3 DEF NumberInv, NotCleared
    <3>2. Main # t => (pc[Main] \in Issuing => NotCleared(req[Main].id)')
      BY <1>b, <2>2, IdFacts, <2>1 DEF NumberInv, NotCleared
    <3> QED
      BY <2>1, <3>1, <3>2, IdFacts DEF NotCleared
  <2> QED
    BY <2>1, <2>2, <2>4, <2>5, <2>6, <2>7, <2>8, <2>9, <2>10, <2>11 DEF NumberInv
<1>2. ASSUME /\ pc[t] \in Issuing \cup {"return"}
             /\ pc'[t] \in Issuing \cup {"return", "idle"} /\ pc'[t] # "add"
             /\ pc'[t] \in Issuing => pc[t] \in Issuing
             /\ pc'[t] \in Unsent => pc[t] \in Unsent
             /\ pc'[t] \in Issuing => req'[t].id = req[t].id
             /\ \A s \in Threads : s # t => pc'[s] = pc[s] /\ req'[s] = req[s]
             /\ \A i \in 1 .. MaxReqs : told'[i + MaxReqs] = told[i + MaxReqs]
             /\ UNCHANGED <<reply_list, up, issued, iter>>
      PROVE  NumberInv'
  <2>2. /\ \A i \in 1 .. MaxReqs : NotCleared(i) => NotCleared(i)'
        /\ pc'[Main] = "clear_add" => Sent(ClearReq)'
        /\ \A k \in 1 .. Len(reply_list) : reply_list[k].kind = "get_sync" =>
             \/ NotCleared(reply_list[k].id)'
             \/ pc'[Main] \in {"clear_add", "remove"} /\ k = iter'.at
    BY <1>2, NumberOthers
  <2>3. \A s \in Threads : pc'[s] \in Issuing => pc[s] \in Issuing /\ req'[s].id = req[s].id
    BY <1>2
  <2>4. \A s \in Threads : pc'[s] \in Issuing => req'[s].id <= issued'
    BY <1>2, <2>3 DEF NumberInv
  <2>5. \A r, s \in Threads : pc'[r] \in Issuing /\ pc'[s] \in Issuing /\ req'[r].id = req'[s].id => r = s
    BY <1>2, <2>3 DEF NumberInv
  <2>6. \A s \in Threads : pc'[s] \in Unsent => up'[req'[s].id].kind = "none"
    <3>1. \A s \in Threads : pc'[s] \in Unsent => pc[s] \in Unsent /\ pc'[s] \in Issuing
      BY <1>2 DEF Unsent, Issuing
    <3> QED
      BY <1>2, <2>3, <3>1 DEF NumberInv
  <2>7. \A i \in 1 .. MaxReqs : i > issued' => up'[i].kind = "none" /\ NotCleared(i)'
    BY <1>2, <2>2 DEF NumberInv
  <2>8. \A i \in Ids : up'[i].kind = "none" => up'[i].answer = "none"
    BY <1>2 DEF NumberInv
  <2>9. \A s \in Threads : pc'[s] = "add" => Sent(req[s])'
    BY <1>2 DEF NumberInv, Sent
  <2>10. \A k \in 1 .. Len(reply_list') : Sent(reply_list[k])'
    BY <1>2 DEF NumberInv, Sent
  <2>11. pc'[Main] \in Issuing => NotCleared(req[Main].id)'
    <3>1. pc'[Main] \in Issuing => req[Main].id \in 1 .. MaxReqs /\ NotCleared(req[Main].id)
      BY <1>b, <2>3, IdFacts DEF NumberInv
    <3> QED
      BY <2>2, <2>3, <3>1, IdFacts DEF NotCleared
  <2> QED
    BY <1>2, <2>2, <2>4, <2>5, <2>6, <2>7, <2>8, <2>9, <2>10, <2>11 DEF NumberInv
<1>3. ASSUME /\ pc[t] = "publish" /\ pc'[t] \in {"add", "return"}
             /\ \A s \in Threads : s # t => pc'[s] = pc[s]
             /\ up'[req[t].id].kind = req[t].kind /\ up'[req[t].id].token = req[t].token
             /\ \A j \in Ids : j # req[t].id => up'[j] = up[j] /\ told'[j] = told[j]
             /\ UNCHANGED <<reply_list, req, issued, iter>>
      PROVE  NumberInv'
  <2>1. pc[t] \in Issuing /\ pc[t] \in Unsent /\ req[t].id \in Ids /\ req[t].id \in 1 .. MaxReqs
          /\ req[t].kind # "none" /\ up[req[t].id].kind = "none" /\ req[t].id <= issued
    BY <1>3, <1>b DEF Issuing, Unsent, NumberInv
  <2>2. /\ \A i \in 1 .. MaxReqs : NotCleared(i) => NotCleared(i)'
        /\ pc'[Main] = "clear_add" => Sent(ClearReq)'
        /\ \A k \in 1 .. Len(reply_list) : reply_list[k].kind = "get_sync" =>
             \/ NotCleared(reply_list[k].id)'
             \/ pc'[Main] \in {"clear_add", "remove"} /\ k = iter'.at
    <3>1. \A i \in 1 .. MaxReqs : up'[i + MaxReqs] = up[i + MaxReqs] /\ told'[i + MaxReqs] = told[i + MaxReqs]
      BY <1>3, <2>1, IdFacts
    <3>2. pc'[t] \in Issuing \cup {"idle", "return", "wait"}
      BY <1>3 DEF Issuing
    <3> QED
      BY <1>3, <2>1, <3>1, <3>2, NumberOthers
  <2>3. \A s \in Threads : pc'[s] \in Issuing => pc[s] \in Issuing
    BY <1>3, <2>1
  <2>4. \A s \in Threads : pc'[s] \in Issuing => req'[s].id <= issued'
    BY <1>3, <2>3 DEF NumberInv
  <2>5. \A r, s \in Threads : pc'[r] \in Issuing /\ pc'[s] \in Issuing /\ req'[r].id = req'[s].id => r = s
    BY <1>3, <2>3 DEF NumberInv
  <2>6. ASSUME NEW s \in Threads, pc'[s] \in Unsent PROVE up'[req'[s].id].kind = "none"
    <3>1. s # t /\ pc[s] \in Unsent /\ pc[s] \in Issuing
      BY <1>0, <1>3, <2>6 DEF Unsent
    <3>2. req[s].id # req[t].id /\ req[s].id \in Ids
      BY <1>b, <2>1, <3>1 DEF NumberInv
    <3> QED
      BY <1>3, <3>1, <3>2 DEF NumberInv
  <2>7. \A i \in 1 .. MaxReqs : i > issued' => up'[i].kind = "none" /\ NotCleared(i)'
    BY <1>0, <1>3, <2>1, <2>2, IdFacts DEF NumberInv
  <2>8. \A i \in Ids : up'[i].kind = "none" => up'[i].answer = "none"
    BY <1>3, <2>1 DEF NumberInv
  <2>9. ASSUME NEW s \in Threads, pc'[s] = "add" PROVE Sent(req[s])'
    <3>1. CASE s = t
      BY <1>3, <3>1 DEF Sent
    <3>2. CASE s # t
      <4>1. pc[s] = "add" /\ Sent(req[s]) /\ req[s].id \in Ids /\ req[s].kind # "none"
        BY <1>0, <1>3, <1>b, <2>9, <3>2 DEF NumberInv
      <4>2. req[s].id # req[t].id
        BY <2>1, <4>1 DEF Sent
      <4> QED
        BY <1>3, <4>1, <4>2 DEF Sent
    <3> QED
      BY <3>1, <3>2
  <2>10. ASSUME NEW k \in 1 .. Len(reply_list') PROVE Sent(reply_list[k])'
    <3>1. k \in 1 .. Len(reply_list) /\ Sent(reply_list[k]) /\ reply_list[k].id # req[t].id
      BY <1>3, <1>a, <2>1 DEF NumberInv, Sent
    <3> QED
      BY <1>3, <1>a, <3>1 DEF Sent
  <2>11. pc'[Main] \in Issuing => NotCleared(req[Main].id)'
    <3>1. pc'[Main] \in Issuing => req[Main].id \in 1 .. MaxReqs /\ NotCleared(req[Main].id)
      BY <1>b, <2>3, IdFacts DEF NumberInv
    <3> QED
      BY <1>3, <2>2, <3>1, IdFacts DEF NotCleared
  <2> QED
    BY <1>3, <2>2, <2>4, <2>5, <2>6, <2>7, <2>8, <2>9, <2>10, <2>11 DEF NumberInv
<1>4. CASE ReadToken(t)
  <2>1. pc[t] = "token" /\ pc'[t] = "store_token"
    BY <1>4, ReadEffect
  <2> QED
    BY <1>2, <1>4, <2>1, ReadEffect DEF Issuing, Unsent
<1>5. CASE StoreToken(t)
  <2>1. pc[t] = "store_token" /\ pc'[t] = "publish"
    BY <1>5, StoreEffect
  <2> QED
    BY <1>2, <1>5, <2>1, StoreEffect DEF Issuing, Unsent
<1>6. CASE PublishOk(t)
  BY <1>3, <1>6, PublishEffect
<1>7. CASE PublishFail(t)
  <2>1. /\ pc[t] = "publish" /\ pc'[t] = "return" /\ pc[t] \in Issuing
    BY <1>7, FailEffect DEF Issuing
  <2>2. CASE up' = up
    <3>1. \A i \in 1 .. MaxReqs : told'[i + MaxReqs] = told[i + MaxReqs]
      BY <1>7, <1>b, <2>1, FailEffect, IdFacts
    <3> QED
      BY <1>2, <1>7, <2>1, <2>2, <3>1, FailEffect DEF Issuing, Unsent
  <2>3. CASE up' # up
    BY <1>3, <1>7, <2>1, <2>3, FailEffect
  <2> QED
    BY <2>2, <2>3
<1>8. CASE Return(t)
  <2>1. pc[t] = "return" /\ pc'[t] = "idle"
    BY <1>8, ReturnEffect
  <2> QED
    BY <1>2, <1>8, <2>1, ReturnEffect DEF Issuing, Unsent
<1>9. CASE AddRequest(t)
  <2>1. /\ pc[t] = "add" /\ pc[t] \in Issuing /\ pc'[t] \in {"wait", "return"} /\ pc'[t] \notin Issuing
        /\ pc'[t] # "add" /\ pc'[t] \notin Unsent
        /\ \A s \in Threads : s # t => pc'[s] = pc[s]
        /\ \A j \in Ids : j # req[t].id => told'[j] = told[j]
        /\ UNCHANGED <<req, issued, up, iter>>
    BY <1>9, AddEffect DEF Issuing, Unsent
  <2>2. \/ reply_list' = reply_list
        \/ /\ Len(reply_list') = Len(reply_list) + 1
           /\ \A k \in 1 .. Len(reply_list) : reply_list'[k] = reply_list[k]
           /\ reply_list'[Len(reply_list) + 1] = Entry(req[t])
    BY <1>9, AddEffect
  <2>3. Len(reply_list) \in Nat /\ \A k \in 1 .. Len(reply_list) : reply_list'[k] = reply_list[k]
    BY <1>0, <2>2 DEF TypeOK
  <2>4. /\ \A i \in 1 .. MaxReqs : NotCleared(i) => NotCleared(i)'
        /\ pc'[Main] = "clear_add" => Sent(ClearReq)'
        /\ \A k \in 1 .. Len(reply_list) : reply_list[k].kind = "get_sync" =>
             \/ NotCleared(reply_list[k].id)'
             \/ pc'[Main] \in {"clear_add", "remove"} /\ k = iter'.at
    <3>1. \A i \in 1 .. MaxReqs : up'[i + MaxReqs] = up[i + MaxReqs] /\ told'[i + MaxReqs] = told[i + MaxReqs]
      BY <1>b, <2>1, IdFacts
    <3> QED
      BY <2>1, <2>3, <3>1, NumberOthers
  <2>5. \A s \in Threads : pc'[s] \in Issuing => s # t /\ pc[s] \in Issuing
    BY <2>1
  <2>6. \A s \in Threads : pc'[s] \in Issuing => req'[s].id <= issued'
    BY <2>1, <2>5 DEF NumberInv
  <2>7. \A r, s \in Threads : pc'[r] \in Issuing /\ pc'[s] \in Issuing /\ req'[r].id = req'[s].id => r = s
    BY <2>1, <2>5 DEF NumberInv
  <2>8. \A s \in Threads : pc'[s] \in Unsent => up'[req'[s].id].kind = "none"
    BY <2>1 DEF NumberInv
  <2>9. \A i \in 1 .. MaxReqs : i > issued' => up'[i].kind = "none" /\ NotCleared(i)'
    BY <2>1, <2>4 DEF NumberInv
  <2>10. \A i \in Ids : up'[i].kind = "none" => up'[i].answer = "none"
    BY <2>1 DEF NumberInv
  <2>11. \A s \in Threads : pc'[s] = "add" => Sent(req[s])'
    BY <2>1 DEF NumberInv, Sent
  <2>12. /\ \A k \in 1 .. Len(reply_list') : Sent(reply_list[k])'
         /\ \A k \in 1 .. Len(reply_list') : reply_list'[k].kind = "get_sync" =>
              \/ NotCleared(reply_list[k].id)'
              \/ pc'[Main] \in {"clear_add", "remove"} /\ k = iter'.at
    <3>1. ASSUME NEW k \in 1 .. Len(reply_list)
          PROVE  /\ Sent(reply_list[k])'
                 /\ reply_list'[k].kind = "get_sync" =>
                      \/ NotCleared(reply_list[k].id)'
                      \/ pc'[Main] \in {"clear_add", "remove"} /\ k = iter'.at
      BY <2>1, <2>3, <2>4 DEF NumberInv, Sent
    <3>2. CASE reply_list' = reply_list
      BY <3>1, <3>2
    <3>3. CASE Len(reply_list') = Len(reply_list) + 1 /\ reply_list'[Len(reply_list) + 1] = Entry(req[t])
      <4>0. PICK n \in Nat : n = Len(reply_list) + 1
        BY <2>3
      <4>1. /\ reply_list'[n].id = req[t].id /\ reply_list'[n].kind = req[t].kind
            /\ reply_list'[n].token = req[t].token
        BY <3>3, <4>0 DEF Entry
      <4>2. \A k \in 1 .. Len(reply_list') : k \in 1 .. Len(reply_list) \/ k = n
        BY <2>3, <3>3, <4>0
      <4>3. Sent(reply_list[n])'
        BY <2>1, <4>1 DEF NumberInv, Sent
      <4>4. reply_list'[n].kind = "get_sync" => NotCleared(reply_list[n].id)'
        <5>1. req[t].kind = "get_sync" => t = Main
          BY <2>1, IdFacts DEF TypeInv, ReqInv, SyncKinds, Threads
        <5>2. t = Main => req[t].id \in 1 .. MaxReqs /\ NotCleared(req[t].id)
          BY <1>b, <2>1 DEF NumberInv
        <5> QED
          BY <2>1, <2>4, <4>1, <5>1, <5>2 DEF NotCleared
      <4> QED
        BY <3>1, <4>2, <4>3, <4>4
    <3> QED
      BY <2>2, <3>2, <3>3
  <2>13. pc'[Main] \in Issuing => NotCleared(req[Main].id)'
    <3>1. pc'[Main] \in Issuing => req[Main].id \in 1 .. MaxReqs /\ NotCleared(req[Main].id)
      BY <1>b, <2>5, IdFacts DEF NumberInv
    <3> QED
      BY <2>1, <2>4, <3>1 DEF NotCleared
  <2> QED
    BY <2>1, <2>4, <2>6, <2>7, <2>8, <2>9, <2>10, <2>11, <2>12, <2>13 DEF NumberInv
<1> QED
  BY <1>1, <1>4, <1>5, <1>6, <1>7, <1>8, <1>9 DEF RequestStep

\* Main asks the cloud to clear the control data.
LEMMA ClearFacts ==
    ASSUME TypeInv, FrameInv, NumberInv, pc[Main] \in {"clear_publish", "clear_add"}
    PROVE  /\ iter.at \in 1 .. Len(reply_list) /\ Current.kind = "get_sync"
           /\ Current.id \in 1 .. MaxReqs /\ ClearReq.id = Current.id + MaxReqs /\ ClearReq.id \in Ids
           /\ ClearReq.kind = "clear" /\ ClearReq.token = Current.token /\ ClearReq.token \in Int
           /\ Sent(Current) /\ Waits
           /\ pc[Main] = "clear_publish" => NotCleared(Current.id)
           /\ \A k \in 1 .. Len(reply_list) : reply_list[k].kind = "get_sync" => k = iter.at
           /\ \A i \in 1 .. MaxReqs : i # Current.id => i + MaxReqs # ClearReq.id
           /\ \A i \in 1 .. MaxReqs : i # ClearReq.id
<1>1. iter.at \in 1 .. Len(reply_list) /\ Current.kind = "get_sync"
  BY DEF TypeInv, TypeOK, PlaceInv, Walking, Clearing, Iters
<1>2. Current.id \in 1 .. MaxReqs /\ Current.token \in Int
  BY <1>1, EntryTyped DEF TypeInv, ReqInv, Current
<1>3. /\ ClearReq.id = Current.id + MaxReqs /\ ClearReq.kind = "clear"
      /\ ClearReq.token = Current.token
  BY DEF ClearReq
<1>4. Sent(Current) /\ Waits
  BY <1>1 DEF NumberInv, FrameInv, Current, SyncKinds
<1>5. pc[Main] = "clear_publish" => NotCleared(Current.id)
  BY <1>1 DEF NumberInv, Current
<1>6. \A k \in 1 .. Len(reply_list) : reply_list[k].kind = "get_sync" => k = iter.at
  BY <1>1 DEF FrameInv, SyncKinds, Current
<1>7. ClearReq.id \in Ids
  BY <1>2, <1>3, IdFacts
<1>8. /\ \A i \in 1 .. MaxReqs : i # Current.id => i + MaxReqs # ClearReq.id
      /\ \A i \in 1 .. MaxReqs : i # ClearReq.id
  BY <1>2, <1>3, IdFacts
<1> QED
  BY <1>1, <1>2, <1>3, <1>4, <1>5, <1>6, <1>7, <1>8

LEMMA NumberMain == TypeInv /\ FrameInv /\ NumberInv /\ MainStep => NumberInv'
<1> SUFFICES ASSUME TypeInv, FrameInv, NumberInv, MainStep PROVE NumberInv'
  OBVIOUS
<1>0. /\ TypeOK /\ PlaceInv /\ pc \in [Threads -> Places] /\ Main \in Threads /\ issued \in 0 .. MaxReqs
      /\ Len(reply_list) \in Nat
  BY IdFacts DEF TypeInv, TypeOK
<1>a. pc[Main] \in Walking /\ iter.at > 0 =>
        /\ iter.at \in 1 .. Len(reply_list)
        /\ Current.id \in Ids /\ up[Current.id].kind # "none"
  <2>1. pc[Main] \in Walking /\ iter.at > 0 => iter.at \in 1 .. Len(reply_list)
    BY <1>0 DEF PlaceInv, TypeOK, Iters
  <2>2. "none" \notin Kinds
    BY DEF Kinds, SyncKinds
  <2> QED
    BY <1>0, <2>1, <2>2, EntryTyped DEF Current, NumberInv, Sent
<1>b. ASSUME NEW what \in Outcomes, Hear(Current.id, what), pc[Main] \in Walking, iter.at > 0
      PROVE  \A i \in Ids : up[i].kind = "none" => told'[i] = told[i]
  BY <1>0, <1>a, <1>b, HearTyped
<1>c. ASSUME RemoveCurrent, pc[Main] \in Walking, iter.at > 0
      PROVE  \A k \in 1 .. Len(reply_list') : \E j \in 1 .. Len(reply_list) :
                reply_list'[k] = reply_list[j] /\ j # iter.at
  BY <1>0, <1>a, <1>c, RemovedFrom
<1>1. CASE IOT_Template_Construct \/ SyncDone \/ IOT_Template_Yield \/ HandleMessage \/ HandleControl
           \/ FreeMessage \/ TraverseLock \/ TraverseEnd \/ TraverseSkip
  <2>1. /\ UNCHANGED <<reply_list, issued, req, up, told>>
        /\ \E from, to \in Places : /\ Goto(Main, from, to) /\ from \notin {"clear_add", "remove"}
                                    /\ to \notin Issuing \cup {"clear_add"}
    <3>0. \A from, to : Goto(Main, from, to) => from \in Places /\ to \in Places /\ pc'[Main] = to
      <4>1. TypeOK'
        BY TypeMain DEF TypeInv
      <4> QED
        BY <1>0, <4>1 DEF Goto, TypeOK
    <3>1. CASE IOT_Template_Construct
      BY <3>0, <3>1 DEF IOT_Template_Construct, Issuing
    <3>2. CASE SyncDone
      BY <3>0, <3>2 DEF SyncDone, Issuing, templateVars
    <3>3. CASE IOT_Template_Yield
      BY <3>0, <3>3 DEF IOT_Template_Yield, Issuing, templateVars
    <3>4. CASE HandleMessage
      BY <3>0, <3>4 DEF HandleMessage, Issuing, templateVars
    <3>5. CASE HandleControl
      BY <3>0, <3>5 DEF HandleControl, Issuing
    <3>6. CASE FreeMessage
      BY <3>0, <3>6 DEF FreeMessage, Issuing, templateVars
    <3>7. CASE TraverseLock
      BY <3>0, <3>7 DEF TraverseLock, Issuing
    <3>8. CASE TraverseEnd
      <4>1. iter.back \in {"idle", "wait"}
        BY <1>0 DEF TypeOK, Iters
      <4> QED
        BY <3>0, <3>8, <4>1 DEF TraverseEnd, Issuing
    <3>9. CASE TraverseSkip
      BY <3>0, <3>9 DEF TraverseSkip, Issuing, templateVars
    <3> QED
      BY <1>1, <3>1, <3>2, <3>3, <3>4, <3>5, <3>6, <3>7, <3>8, <3>9
  <2>2. /\ \A s \in Threads : s # Main => pc'[s] = pc[s]
        /\ pc'[Main] \notin Issuing \cup {"clear_add"} /\ pc[Main] \notin {"clear_add", "remove"}
    BY <1>0, <2>1, GotoTyped
  <2> QED
    BY <2>1, <2>2, NumberQuiet
<1>2. CASE ExpireEntry \/ ReplyGarbled \/ ReplyVerdict
  <2>1. /\ pc[Main] = "walk" /\ pc'[Main] = "walk" /\ \A s \in Threads : s # Main => pc'[s] = pc[s]
        /\ UNCHANGED <<issued, req, up>> /\ iter.at > 0
        /\ \/ RemoveCurrent /\ \E what \in Outcomes : Hear(Current.id, what)
           \/ UNCHANGED <<reply_list, told>>
    <3>1. CASE ExpireEntry
      BY <1>0, <3>1, GotoTyped DEF ExpireEntry, AtEntry, Outcomes, Places
    <3>2. CASE ReplyGarbled
      BY <1>0, <3>2, GotoTyped DEF ReplyGarbled, AtEntry, Outcomes, Places
    <3>3. CASE ReplyVerdict
      <4>1. Message.code \in Verdicts
        BY <1>0, <3>3, MessageTyped DEF ReplyVerdict, AtEntry, PlaceInv
      <4> QED
        BY <1>0, <3>3, <4>1, GotoTyped DEF ReplyVerdict, AtEntry, Outcomes, Places
    <3> QED
      BY <1>2, <3>1, <3>2, <3>3
  <2>2. pc[Main] \in Walking /\ pc'[Main] \notin Issuing \cup {"clear_add"}
    BY <2>1 DEF Walking, Issuing
  <2>3. CASE RemoveCurrent /\ \E what \in Outcomes : Hear(Current.id, what)
    <3>1. \A i \in Ids : up[i].kind = "none" => told'[i] = told[i]
      BY <1>b, <2>1, <2>2, <2>3
    <3>2. \A k \in 1 .. Len(reply_list') : \E j \in 1 .. Len(reply_list) :
                reply_list'[k] = reply_list[j] /\ j # iter.at
      BY <1>c, <2>1, <2>2, <2>3
    <3> QED
      BY <2>1, <2>2, <3>1, <3>2, NumberQuiet
  <2>4. CASE UNCHANGED <<reply_list, told>>
    BY <2>1, <2>2, <2>4, NumberQuiet
  <2> QED
    BY <2>1, <2>3, <2>4
<1>3. CASE ReplyControl
  <2>1. /\ pc[Main] = "walk" /\ pc'[Main] \in {"walk", "clear_publish", "remove"}
        /\ \A s \in Threads : s # Main => pc'[s] = pc[s]
        /\ UNCHANGED <<issued, req, up, reply_list>> /\ iter.at > 0
        /\ (Hear(Current.id, "accepted") \/ told' = told)
    BY <1>0, <1>3 DEF ReplyControl, AtEntry, Goto
  <2>2. pc[Main] \in Walking /\ pc'[Main] \notin Issuing \cup {"clear_add"} /\ "accepted" \in Outcomes
    BY <2>1 DEF Walking, Issuing, Outcomes, Verdicts
  <2>3. \A i \in Ids : up[i].kind = "none" => told'[i] = told[i]
    BY <1>b, <2>1, <2>2
  <2> QED
    BY <2>1, <2>2, <2>3, NumberQuiet
<1>4. CASE RemoveEntry
  <2>1. /\ pc[Main] = "remove" /\ pc'[Main] = "walk" /\ \A s \in Threads : s # Main => pc'[s] = pc[s]
        /\ UNCHANGED <<issued, req, up, told>> /\ iter.at > 0 /\ RemoveCurrent
    BY <1>0, <1>4 DEF RemoveEntry, Goto, PlaceInv, Clearing
  <2>2. pc[Main] \in Walking /\ pc'[Main] \notin Issuing \cup {"clear_add"}
    BY <2>1 DEF Walking, Issuing
  <2>3. \A k \in 1 .. Len(reply_list') : \E j \in 1 .. Len(reply_list) :
                reply_list'[k] = reply_list[j] /\ j # iter.at
    BY <1>c, <2>1, <2>2
  <2> QED
    BY <2>1, <2>2, <2>3, NumberQuiet
<1>5. CASE ClearPublish
  <2>1. /\ pc[Main] = "clear_publish" /\ pc'[Main] \in {"clear_add", "remove"}
        /\ \A s \in Threads : s # Main => pc'[s] = pc[s]
        /\ UNCHANGED <<issued, req, reply_list, iter>>
    BY <1>0, <1>5 DEF ClearPublish, Goto, templateVars
  <2>2. /\ \A j \in Ids : j # ClearReq.id => up'[j] = up[j]
        /\ \/ up' = up /\ pc'[Main] = "remove"
           \/ /\ up'[ClearReq.id].kind = "clear" /\ up'[ClearReq.id].token = ClearReq.token
              /\ up'[ClearReq.id].answer = up[ClearReq.id].answer
    <3>1. "clear" \in Kinds
      BY DEF Kinds
    <3>2. Send(ClearReq) \/ (up' = up /\ pc'[Main] = "remove")
      BY <1>0, <1>5 DEF ClearPublish, Goto
    <3> QED
      BY <1>0, <2>1, <3>1, <3>2, ClearFacts, SendTyped
  <2>3. \A j \in Ids : j # ClearReq.id => told'[j] = told[j]
    <3>1. Hear(ClearReq.id, "failed") \/ told' = told
      BY <1>5 DEF ClearPublish
    <3>2. "failed" \in Outcomes
      BY DEF Outcomes
    <3> QED
      BY <1>0, <2>1, <3>1, <3>2, ClearFacts, HearTyped
  <2>4. up[ClearReq.id].kind = "none"
    BY <2>1, ClearFacts DEF NotCleared
  <2>5. \A s \in Threads : pc'[s] \in Issuing => s # Main /\ pc[s] \in Issuing /\ pc'[s] = pc[s]
    BY <2>1 DEF Issuing
  <2>6. \A s \in Threads : pc[s] \in Unsent \cup {"add"} => pc[s] \in Issuing
    BY DEF Unsent, Issuing
  <2>7. \A s \in Threads : pc[s] \in Issuing =>
          req[s].id \in Ids /\ req[s].id # ClearReq.id /\ req[s].kind # "none"
    BY <2>1, ReqTyped, ClearFacts
  <2>8. \A s \in Threads : pc'[s] \in Unsent \cup {"add"} => pc'[s] \in Issuing
    BY DEF Unsent, Issuing
  <2>9. \A s \in Threads : pc'[s] \in Issuing => req'[s].id <= issued'
    BY <2>1, <2>5 DEF NumberInv
  <2>10. \A r, s \in Threads : pc'[r] \in Issuing /\ pc'[s] \in Issuing /\ req'[r].id = req'[s].id => r = s
    BY <2>1, <2>5 DEF NumberInv
  <2>11. \A s \in Threads : pc'[s] \in Unsent => up'[req'[s].id].kind = "none"
    BY <2>1, <2>2, <2>5, <2>7, <2>8 DEF NumberInv
  <2>12. ASSUME NEW i \in 1 .. MaxReqs, i > issued' PROVE up'[i].kind = "none" /\ NotCleared(i)'
    <3>1. up[i].kind = "none" /\ NotCleared(i) /\ i \in Ids /\ i + MaxReqs \in Ids /\ i # ClearReq.id
      BY <2>1, <2>12, IdFacts, ClearFacts DEF NumberInv
    <3>2. i # Current.id
      <4>1. up[Current.id].kind = "get_sync"
        BY <2>1, ClearFacts DEF Sent
      <4> QED
        BY <3>1, <4>1
    <3>3. i + MaxReqs # ClearReq.id
      BY <2>1, <3>2, ClearFacts
    <3> QED
      BY <2>2, <2>3, <3>1, <3>3 DEF NotCleared
  <2>13. \A i \in Ids : up'[i].kind = "none" => up'[i].answer = "none"
    BY <2>2, <2>4 DEF NumberInv
  <2>14. \A s \in Threads : pc'[s] = "add" => Sent(req[s])'
    BY <2>1, <2>2, <2>5, <2>7, <2>8 DEF NumberInv, Sent
  <2>15. ASSUME NEW k \in 1 .. Len(reply_list') PROVE Sent(reply_list[k])'
    <3>1. k \in 1 .. Len(reply_list) /\ Sent(reply_list[k])
      BY <2>1 DEF NumberInv
    <3>2. reply_list[k].id \in Ids /\ reply_list[k].kind # "none"
      <4>1. "none" \notin Kinds
        BY DEF Kinds, SyncKinds
      <4> QED
        BY <1>0, <3>1, <4>1, EntryTyped
    <3>3. reply_list[k].id # ClearReq.id
      BY <2>4, <3>1, <3>2 DEF Sent
    <3> QED
      BY <2>1, <2>2, <3>1, <3>2, <3>3 DEF Sent
  <2>16. \A k \in 1 .. Len(reply_list') : reply_list'[k].kind = "get_sync" =>
            \/ NotCleared(reply_list[k].id)'
            \/ pc'[Main] \in {"clear_add", "remove"} /\ k = iter'.at
    BY <2>1, ClearFacts
  <2>17. pc'[Main] \notin Issuing
    BY <2>1 DEF Issuing
  <2>18. pc'[Main] = "clear_add" => Sent(ClearReq)'
    <3>1. ClearReq' = ClearReq /\ ClearReq.kind = "clear"
      BY <2>1 DEF ClearReq, Current
    <3> QED
      BY <2>2, <3>1 DEF Sent
  <2> QED
    BY <2>9, <2>10, <2>11, <2>12, <2>13, <2>14, <2>15, <2>16, <2>17, <2>18 DEF NumberInv
<1>6. CASE ClearAdd
  <2>1. /\ pc[Main] = "clear_add" /\ pc'[Main] = "remove"
        /\ \A s \in Threads : s # Main => pc'[s] = pc[s]
        /\ UNCHANGED <<issued, req, up, iter>> /\ Enlist(ClearReq)
    BY <1>0, <1>6 DEF ClearAdd, Goto
  <2>2. /\ \A j \in Ids : j # ClearReq.id => told'[j] = told[j]
        /\ \/ reply_list' = reply_list
           \/ /\ Len(reply_list') = Len(reply_list) + 1
              /\ \A k \in 1 .. Len(reply_list) : reply_list'[k] = reply_list[k]
              /\ reply_list'[Len(reply_list) + 1] = Entry(ClearReq)
    <3>1. "clear" \in Kinds
      BY DEF Kinds
    <3> QED
      BY <1>0, <2>1, <3>1, ClearFacts, EnlistTyped
  <2>3. Sent(ClearReq) /\ up[ClearReq.id].kind = "clear"
    BY <2>1, ClearFacts DEF NumberInv, Sent
  <2>4. \A i \in 1 .. MaxReqs : NotCleared(i) => NotCleared(i)'
    BY <2>1, <2>2, <2>3, IdFacts DEF NotCleared
  <2>5. \A s \in Threads : pc'[s] \in Issuing => s # Main /\ pc[s] \in Issuing /\ pc'[s] = pc[s]
    BY <2>1 DEF Issuing
  <2>6. \A s \in Threads : pc'[s] \in Unsent \cup {"add"} => pc'[s] \in Issuing
    BY DEF Unsent, Issuing
  <2>7. \A s \in Threads : pc'[s] \in Issuing => req'[s].id <= issued'
    BY <2>1, <2>5 DEF NumberInv
  <2>8. \A r, s \in Threads : pc'[r] \in Issuing /\ pc'[s] \in Issuing /\ req'[r].id = req'[s].id => r = s
    BY <2>1, <2>5 DEF NumberInv
  <2>9. \A s \in Threads : pc'[s] \in Unsent => up'[req'[s].id].kind = "none"
    BY <2>1, <2>5, <2>6 DEF NumberInv
  <2>10. \A i \in 1 .. MaxReqs : i > issued' => up'[i].kind = "none" /\ NotCleared(i)'
    BY <2>1, <2>4 DEF NumberInv
  <2>11. \A i \in Ids : up'[i].kind = "none" => up'[i].answer = "none"
    BY <2>1 DEF NumberInv
  <2>12. \A s \in Threads : pc'[s] = "add" => Sent(req[s])'
    BY <2>1, <2>5, <2>6 DEF NumberInv, Sent
  <2>13. /\ \A k \in 1 .. Len(reply_list') : Sent(reply_list[k])'
         /\ \A k \in 1 .. Len(reply_list') : reply_list'[k].kind = "get_sync" => k = iter'.at
    <3>1. \A k \in 1 .. Len(reply_list) : reply_list'[k] = reply_list[k]
      BY <2>2
    <3>2. \A k \in 1 .. Len(reply_list) : Sent(reply_list[k])'
                                          /\ (reply_list'[k].kind = "get_sync" => k = iter'.at)
      BY <2>1, <3>1, ClearFacts DEF NumberInv, Sent
    <3>3. CASE reply_list' = reply_list
      BY <3>2, <3>3
    <3>4. CASE Len(reply_list') = Len(reply_list) + 1 /\ reply_list'[Len(reply_list) + 1] = Entry(ClearReq)
      <4>1. PICK n \in Nat : n = Len(reply_list) + 1
        BY <1>0
      <4>2. /\ reply_list'[n].id = ClearReq.id /\ reply_list'[n].kind = "clear"
            /\ reply_list'[n].token = ClearReq.token
        BY <2>1, <3>4, <4>1, ClearFacts DEF Entry
      <4>3. \A k \in 1 .. Len(reply_list') : k \in 1 .. Len(reply_list) \/ k = n
        BY <1>0, <3>4, <4>1
      <4>4. Sent(reply_list[n])' /\ reply_list'[n].kind # "get_sync"
        BY <2>1, <2>3, <4>2 DEF Sent
      <4> QED
        BY <3>2, <4>3, <4>4
    <3> QED
      BY <2>2, <3>3, <3>4
  <2>14. pc'[Main] \notin Issuing
    BY <2>1 DEF Issuing
  <2> QED
    BY <2>1, <2>7, <2>8, <2>9, <2>10, <2>11, <2>12, <2>13, <2>14 DEF NumberInv
<1> QED
  BY <1>1, <1>2, <1>3, <1>4, <1>5, <1>6 DEF MainStep

LEMMA AnswerEffect ==
    ASSUME TypeInv, NEW i \in Ids, CloudAnswer(i)
    PROVE  /\ up[i].kind \in Kinds \ {"control_reply"} /\ up[i].answer = "none"
           /\ "early_reply" \in Faults \/ ~Entering(i)
           /\ up'[i].kind = up[i].kind /\ up'[i].token = up[i].token
           /\ up'[i].answer \in Verdicts \cup {"garbled"} /\ up'[i].control \in BOOLEAN
           /\ up'[i].control => up'[i].answer = "accepted" /\ up[i].kind \in GetKinds
           /\ \A j \in Ids : j # i => up'[j] = up[j]
           /\ \E m \in Messages :
                /\ Arrive(m) /\ m.token = up[i].token /\ m.code = up'[i].answer
                /\ m.control = up'[i].control
                /\ m.method = (IF up[i].kind \in GetKinds THEN "get_status_reply" ELSE "reply")
           /\ UNCHANGED <<reply_list, mutex, token_num, pc, req, result, ack, iter, issued, told>>
<1>1. up \in [Ids -> Published] /\ up[i] \in Published
  BY DEF TypeInv, TypeOK
<1>2. PICK code \in {"accepted", "rejected", "garbled"}, control \in BOOLEAN :
        /\ control => code = "accepted" /\ up[i].kind \in GetKinds
        /\ up' = [up EXCEPT ![i].answer = code, ![i].control = control]
        /\ Arrive([method |-> IF up[i].kind \in GetKinds THEN "get_status_reply" ELSE "reply",
                   token |-> up[i].token, code |-> code, control |-> control])
  BY DEF CloudAnswer
<1> DEFINE m == [method |-> IF up[i].kind \in GetKinds THEN "get_status_reply" ELSE "reply",
                 token |-> up[i].token, code |-> code, control |-> control]
           p == [up[i] EXCEPT !.answer = code, !.control = control]
<1>3. /\ m \in Messages /\ m.token = up[i].token /\ m.code = code /\ m.control = control
      /\ m.method = (IF up[i].kind \in GetKinds THEN "get_status_reply" ELSE "reply")
  BY <1>1 DEF Messages, Published, Verdicts
<1>4. p.kind = up[i].kind /\ p.token = up[i].token /\ p.answer = code /\ p.control = control
  <2>1. ASSUME NEW x \in Published
        PROVE  LET y == [x EXCEPT !.answer = code, !.control = control] IN
                  y.kind = x.kind /\ y.token = x.token /\ y.answer = code /\ y.control = control
    BY DEF Published
  <2> QED
    BY <1>1, <2>1
<1>5. up' = [up EXCEPT ![i] = p]
  BY <1>1, <1>2
<1>6. Arrive(m)
  BY <1>2
<1> HIDE DEF m, p
<1>7. up'[i] = p /\ \A j \in Ids : j # i => up'[j] = up[j]
  BY <1>1, <1>5
<1>8. code \in Verdicts \cup {"garbled"}
  BY DEF Verdicts
<1> QED
  BY <1>2, <1>3, <1>4, <1>6, <1>7, <1>8 DEF CloudAnswer, templateVars, threadVars

LEMMA NumberNext == TypeInv /\ FrameInv /\ NumberInv /\ [Next]_vars => NumberInv'
<1> SUFFICES ASSUME TypeInv, FrameInv, NumberInv, [Next]_vars PROVE NumberInv'
  OBVIOUS
<1>0. TypeOK /\ "none" \notin Kinds
  BY DEF TypeInv, Kinds, SyncKinds
<1>1. ASSUME NEW t \in Threads, Call(t) PROVE NumberInv'
  BY <1>1, NumberThread DEF Call, IOT_Template_Report, IOT_Template_GetStatus, IOT_Template_ControlReply
<1>2. CASE IOT_Template_Report_Sync \/ IOT_Template_GetStatus_sync
  BY <1>2, NumberThread DEF IOT_Template_Report_Sync, IOT_Template_GetStatus_sync, Threads
<1>3. CASE CloudControl \/ UNCHANGED vars
  <2>1. UNCHANGED <<reply_list, pc, req, iter, issued, up, told>>
    BY <1>3 DEF CloudControl, vars, templateVars, threadVars
  <2> QED
    BY <2>1, NumberWorld
<1>4. ASSUME NEW i \in Ids, CloudAnswer(i) PROVE NumberInv'
  <2>1. up[i].kind # "none"
    BY <1>0, <1>4, AnswerEffect
  <2> QED
    BY <1>4, <2>1, AnswerEffect, NumberWorld
<1>5. ASSUME NEW i \in Ids, TimerExpires(i) PROVE NumberInv'
  <2>1. UNCHANGED <<pc, req, iter, issued, up, told>>
    BY <1>5 DEF TimerExpires, threadVars
  <2> QED
    BY <1>0, <1>5, <2>1, ExpiredTyped, NumberWorld
<1> QED
  BY <1>1, <1>2, <1>3, <1>4, <1>5, NumberThread, NumberMain DEF Next, Cloud

-----------------------------------------------------------------------------
(* The answers find their requests.                                        *)

Answered == Kinds \ {"control_reply"}

\* The tokens of the device are natural numbers, those of the control messages are
\* not: they are not answers to a request.
DataInv ==
    /\ \A i \in Ids : up[i].kind \in Answered => up[i].token \in Nat
    /\ \A i \in Ids : up[i].kind = "control_reply" => up[i].answer = "none"
    /\ \A t \in Threads : pc[t] = "publish" /\ req[t].kind # "control_reply" => req[t].token \in Nat
    /\ \A m \in 1 .. Len(pMsgList) :
          pMsgList[m].method \in {"none", "control"} => pMsgList[m].token < 0
    /\ pc[Main] = "control" => Message.method = "control"

LEMMA DataInit == Init => DataInv
<1> SUFFICES ASSUME Init PROVE DataInv
  OBVIOUS
<1>1. pc[Main] = "construct" /\ \A t \in Threads : pc[t] \in {"construct", "idle"}
  BY IdFacts DEF Init
<1>2. \A i \in Ids : up[i].kind = "none"
  BY DEF Init, NotSent
<1>3. Len(pMsgList) = 0 /\ "none" \notin Kinds
  BY DEF Init, Kinds, SyncKinds
<1> QED
  BY <1>1, <1>2, <1>3 DEF DataInv, Answered

LEMMA DataThread ==
    ASSUME TypeInv, NumberInv, DataInv, NEW t \in Threads, RequestStep(t) \/ \E kind : Begin(t, kind)
    PROVE  DataInv'
<1>a. \A s \in Threads : pc[s] \in Issuing => req[s].id \in Ids /\ req[s].kind \in Kinds /\ req[s].kind # "none"
  BY ReqTyped
<1>1. ASSUME /\ \A i \in Ids : up'[i] = up[i]
             /\ \A s \in Threads : pc'[s] = "publish" /\ req'[s].kind # "control_reply" => req'[s].token \in Nat
             /\ pMsgList' = pMsgList /\ (pc'[Main] = "control" => pc[Main] = "control")
      PROVE  DataInv'
  BY <1>1 DEF DataInv, Message
<1>2. ASSUME NEW kind, Begin(t, kind) PROVE DataInv'
  <2>1. /\ pc'[t] = (IF kind = "control_reply" THEN "publish" ELSE "token")
        /\ \A s \in Threads : s # t => pc'[s] = pc[s] /\ req'[s] = req[s]
        /\ UNCHANGED <<pMsgList, up>>
    BY <1>2, BeginEffect
  <2>2. req'[t].kind = kind
    <3>1. req'[t] = [id |-> issued', kind |-> kind, token |-> clientToken]
      BY <1>2, BeginEffect
    <3> QED
      BY <3>1
  <2>3. pc'[Main] = "control" => pc[Main] = "control"
    BY <2>1, IdFacts
  <2>4. \A s \in Threads : pc'[s] = "publish" /\ req'[s].kind # "control_reply" => req'[s].token \in Nat
    BY <2>1, <2>2 DEF DataInv
  <2> QED
    BY <1>1, <2>1, <2>3, <2>4
<1>3. CASE ReadToken(t)
  <2>1. /\ pc'[t] = "store_token" /\ UNCHANGED <<pMsgList, up>>
        /\ \A s \in Threads : s # t => pc'[s] = pc[s] /\ req'[s] = req[s]
    BY <1>3, ReadEffect
  <2> QED
    BY <1>1, <2>1, IdFacts DEF DataInv
<1>4. CASE StoreToken(t)
  <2>1. /\ pc[t] = "store_token" /\ pc'[t] = "publish" /\ UNCHANGED <<pMsgList, up, req>>
        /\ \A s \in Threads : s # t => pc'[s] = pc[s]
    BY <1>4, StoreEffect
  <2>2. req[t].token \in Nat
    BY <2>1 DEF TypeInv, ReqInv
  <2> QED
    BY <1>1, <2>1, <2>2, IdFacts DEF DataInv
<1>5. CASE PublishOk(t) \/ PublishFail(t)
  <2>1. /\ pc[t] = "publish" /\ pc[t] \in Issuing /\ pc'[t] \in {"add", "return"}
        /\ \A s \in Threads : s # t => pc'[s] = pc[s]
        /\ \A j \in Ids : j # req[t].id => up'[j] = up[j]
        /\ \/ up' = up
           \/ /\ up'[req[t].id].kind = req[t].kind /\ up'[req[t].id].token = req[t].token
              /\ up'[req[t].id].answer = up[req[t].id].answer
        /\ UNCHANGED <<pMsgList, req>>
    BY <1>5, PublishEffect, FailEffect DEF Issuing
  <2>2. CASE up' = up
    BY <1>1, <2>1, <2>2, IdFacts DEF DataInv
  <2>3. CASE up' # up
    <3>1. up[req[t].id].kind = "none" /\ up[req[t].id].answer = "none" /\ req[t].id \in Ids
      BY <1>a, <2>1 DEF NumberInv, Unsent
    <3>2. req[t].kind # "control_reply" => req[t].token \in Nat
      BY <2>1 DEF DataInv
    <3>3. \A i \in Ids : up'[i].kind \in Answered => up'[i].token \in Nat
      BY <2>1, <2>3, <3>2 DEF DataInv, Answered
    <3>4. \A i \in Ids : up'[i].kind = "control_reply" => up'[i].answer = "none"
      BY <2>1, <2>3, <3>1 DEF DataInv
    <3>5. \A s \in Threads : pc'[s] = "publish" /\ req'[s].kind # "control_reply" => req'[s].token \in Nat
      BY <2>1 DEF DataInv
    <3>6. pc'[Main] = "control" => pc[Main] = "control"
      BY <2>1, IdFacts
    <3> QED
      BY <2>1, <3>3, <3>4, <3>5, <3>6 DEF DataInv, Message
  <2> QED
    BY <2>2, <2>3
<1>6. CASE AddRequest(t)
  <2>1. /\ pc'[t] \in {"wait", "return"} /\ UNCHANGED <<pMsgList, up, req>>
        /\ \A s \in Threads : s # t => pc'[s] = pc[s]
    BY <1>6, AddEffect
  <2> QED
    BY <1>1, <2>1, IdFacts DEF DataInv
<1>7. CASE Return(t)
  <2>1. /\ pc'[t] = "idle" /\ UNCHANGED <<pMsgList, up>>
        /\ \A s \in Threads : s # t => pc'[s] = pc[s] /\ req'[s] = req[s]
    BY <1>7, ReturnEffect
  <2> QED
    BY <1>1, <2>1, IdFacts DEF DataInv
<1> QED
  BY <1>2, <1>3, <1>4, <1>5, <1>6, <1>7 DEF RequestStep

\* What the steps of Main leave alone.
LEMMA MainEffect ==
    ASSUME TypeInv, MainStep
    PROVE  /\ \A s \in Threads : s # Main => pc'[s] = pc[s]
           /\ pc'[Main] \notin Issuing /\ UNCHANGED <<req, issued, token_num>>
           /\ (pc'[Main] = "clear_add" => ClearPublish)
           /\ (pMsgList' # pMsgList => FreeMessage) /\ (up' # up => ClearPublish)
           /\ (pc'[Main] = "control" => HandleMessage)
<1>0. /\ pc \in [Threads -> Places] /\ Main \in Threads /\ iter.back \in {"idle", "wait"}
  BY IdFacts DEF TypeInv, TypeOK, Iters
<1>1. CASE IOT_Template_Construct
  BY <1>0, <1>1 DEF IOT_Template_Construct, Goto, Issuing
<1>2. CASE SyncDone
  BY <1>0, <1>2 DEF SyncDone, Goto, Issuing, templateVars
<1>3. CASE IOT_Template_Yield
  BY <1>0, <1>3 DEF IOT_Template_Yield, Goto, Issuing, templateVars
<1>4. CASE HandleMessage
  <2> DEFINE to == CASE Message.method = "none" -> "free"
                     [] Message.method = "control" -> "control"
                     [] OTHER -> "lock"
  <2>1. to \in {"free", "control", "lock"}
    OBVIOUS
  <2>2. Goto(Main, "message", to)
    BY <1>4 DEF HandleMessage
  <2> HIDE DEF to
  <2> QED
    BY <1>0, <1>4, <2>1, <2>2 DEF HandleMessage, Goto, Issuing, templateVars
<1>5. CASE HandleControl
  BY <1>0, <1>5 DEF HandleControl, Goto, Issuing
<1>6. CASE FreeMessage
  BY <1>0, <1>6 DEF FreeMessage, Goto, Issuing, templateVars
<1>7. CASE TraverseLock
  BY <1>0, <1>7 DEF TraverseLock, Goto, Issuing
<1>8. CASE TraverseEnd
  BY <1>0, <1>8 DEF TraverseEnd, Goto, Issuing
<1>9. CASE TraverseSkip
  BY <1>0, <1>9 DEF TraverseSkip, Goto, Issuing, templateVars
<1>10. CASE ExpireEntry
  BY <1>0, <1>10 DEF ExpireEntry, Goto, Issuing
<1>11. CASE ReplyGarbled
  BY <1>0, <1>11 DEF ReplyGarbled, Goto, Issuing
<1>12. CASE ReplyVerdict
  BY <1>0, <1>12 DEF ReplyVerdict, Goto, Issuing
<1>13. CASE ReplyControl
  BY <1>0, <1>13 DEF ReplyControl, Goto, Issuing
<1>14. CASE ClearPublish
  BY <1>0, <1>14 DEF ClearPublish, Goto, Issuing, templateVars
<1>15. CASE ClearAdd
  BY <1>0, <1>15 DEF ClearAdd, Goto, Issuing
<1>16. CASE RemoveEntry
  BY <1>0, <1>16 DEF RemoveEntry, Goto, Issuing
<1> QED
  BY <1>1, <1>2, <1>3, <1>4, <1>5, <1>6, <1>7, <1>8, <1>9, <1>10, <1>11, <1>12, <1>13, <1>14,
     <1>15, <1>16 DEF MainStep

\* The document that clears the control data.
LEMMA ClearEffect ==
    ASSUME TypeInv, FrameInv, NumberInv, ClearPublish
    PROVE  /\ pc[Main] = "clear_publish" /\ pc'[Main] \in {"clear_add", "remove"}
           /\ UNCHANGED <<reply_list, pMsgList, iter, mutex, ack, result>>
           /\ \A j \in Ids : j # ClearReq.id => up'[j] = up[j] /\ told'[j] = told[j]
           /\ up[ClearReq.id].kind = "none" /\ up[ClearReq.id].answer = "none"
           /\ \/ up' = up
              \/ /\ up'[ClearReq.id].kind = "clear" /\ up'[ClearReq.id].token = ClearReq.token
                 /\ up'[ClearReq.id].answer = "none"
                 /\ up'[ClearReq.id].control = up[ClearReq.id].control
           /\ \/ /\ pc'[Main] = "clear_add" /\ told' = told /\ up'[ClearReq.id].kind = "clear"
                 /\ up'[ClearReq.id].token = ClearReq.token
              \/ /\ pc'[Main] = "remove" /\ told'[ClearReq.id] = Append(told[ClearReq.id], "failed")
           /\ ClearReq' = ClearReq
<1>0. TypeOK /\ Main \in Threads /\ pc \in [Threads -> Places]
  BY IdFacts DEF TypeInv, TypeOK
<1>1. /\ pc[Main] = "clear_publish" /\ pc'[Main] \in {"clear_add", "remove"}
      /\ UNCHANGED <<reply_list, pMsgList, iter, mutex, ack, result>>
  BY <1>0 DEF ClearPublish, Goto, templateVars
<1>2. /\ ClearReq.id \in Ids /\ ClearReq.kind = "clear" /\ ClearReq.kind \in Kinds
      /\ ClearReq.token \in Int /\ up[ClearReq.id].kind = "none" /\ up[ClearReq.id].answer = "none"
  BY <1>1, ClearFacts DEF NotCleared, NumberInv, Kinds
<1>3. \/ Send(ClearReq) /\ told' = told /\ pc'[Main] = "clear_add"
      \/ Hear(ClearReq.id, "failed") /\ (Send(ClearReq) \/ up' = up) /\ pc'[Main] = "remove"
  BY <1>0 DEF ClearPublish, Goto
<1>4. Send(ClearReq) =>
        /\ up'[ClearReq.id].kind = "clear" /\ up'[ClearReq.id].token = ClearReq.token
        /\ up'[ClearReq.id].answer = "none" /\ up'[ClearReq.id].control = up[ClearReq.id].control
        /\ \A j \in Ids : j # ClearReq.id => up'[j] = up[j]
  BY <1>0, <1>2, SendTyped
<1>5. Hear(ClearReq.id, "failed") =>
        /\ told'[ClearReq.id] = Append(told[ClearReq.id], "failed")
        /\ \A j \in Ids : j # ClearReq.id => told'[j] = told[j]
  <2>1. "failed" \in Outcomes
    BY DEF Outcomes
  <2> QED
    BY <1>0, <1>2, <2>1, HearTyped
<1>6. ClearReq' = ClearReq
  BY <1>1 DEF ClearReq, Current
<1> QED
  BY <1>1, <1>2, <1>3, <1>4, <1>5, <1>6

LEMMA DataMain == TypeInv /\ FrameInv /\ NumberInv /\ DataInv /\ MainStep => DataInv'
<1> SUFFICES ASSUME TypeInv, FrameInv, NumberInv, DataInv, MainStep PROVE DataInv'
  OBVIOUS
<1>1. \A t \in Threads : pc'[t] = "publish" => t # Main /\ pc'[t] = pc[t] /\ req'[t] = req[t]
  BY MainEffect DEF Issuing
<1>2. \A t \in Threads : pc'[t] = "publish" /\ req'[t].kind # "control_reply" => req'[t].token \in Nat
  BY <1>1 DEF DataInv
<1>3. \A m \in 1 .. Len(pMsgList') :
          pMsgList'[m].method \in {"none", "control"} => pMsgList'[m].token < 0
  <2>1. CASE pMsgList' = pMsgList
    BY <2>1 DEF DataInv
  <2>2. CASE pMsgList' # pMsgList
    <3>1. FreeMessage
      BY <2>2, MainEffect
    <3>2. /\ pMsgList' = Tail(pMsgList) /\ pMsgList # <<>> /\ pMsgList \in Seq(Messages)
      BY <3>1 DEF FreeMessage, Goto, TypeInv, TypeOK, PlaceInv
    <3>3. \A m \in 1 .. Len(pMsgList') : m + 1 \in 1 .. Len(pMsgList) /\ pMsgList'[m] = pMsgList[m + 1]
      BY <3>2
    <3> QED
      BY <3>3 DEF DataInv
  <2> QED
    BY <2>1, <2>2
<1>4. /\ \A i \in Ids : up'[i].kind \in Answered => up'[i].token \in Nat
      /\ \A i \in Ids : up'[i].kind = "control_reply" => up'[i].answer = "none"
  <2>1. CASE up' = up
    BY <2>1 DEF DataInv
  <2>2. CASE up' # up
    <3>1. ClearPublish
      BY <2>2, MainEffect
    <3>2. ClearReq.token \in Nat
      <4>1. Sent(Current) /\ Current.kind = "get_sync" /\ Current.id \in Ids
              /\ ClearReq.token = Current.token
        BY <3>1, ClearEffect, ClearFacts, IdFacts
      <4> QED
        BY <4>1 DEF DataInv, Sent, Answered, Kinds, SyncKinds
    <3> QED
      BY <2>2, <3>1, <3>2, ClearEffect DEF DataInv
  <2> QED
    BY <2>1, <2>2
<1>5. pc'[Main] = "control" => Message'.method = "control"
  <2>1. SUFFICES ASSUME pc'[Main] = "control" PROVE Message.method = "control" /\ Message' = Message
    OBVIOUS
  <2>2. HandleMessage
    BY <2>1, MainEffect
  <2>3. Message' = Message
    BY <2>2 DEF HandleMessage, Message
  <2>4. Message.method = "control"
    BY <2>1, <2>2, IdFacts DEF HandleMessage, Goto, TypeInv, TypeOK
  <2> QED
    BY <2>3, <2>4
<1> QED
  BY <1>2, <1>3, <1>4, <1>5 DEF DataInv

LEMMA DataNext == TypeInv /\ FrameInv /\ NumberInv /\ DataInv /\ [Next]_vars => DataInv'
<1> SUFFICES ASSUME TypeInv, FrameInv, NumberInv, DataInv, [Next]_vars PROVE DataInv'
  OBVIOUS
<1>0. /\ TypeOK /\ pMsgList \in Seq(Messages)
      /\ pc[Main] = "control" => pMsgList # <<>>
  BY DEF TypeInv, TypeOK, PlaceInv
<1>1. ASSUME NEW t \in Threads, Call(t) PROVE DataInv'
  BY <1>1, DataThread DEF Call, IOT_Template_Report, IOT_Template_GetStatus, IOT_Template_ControlReply
<1>2. CASE IOT_Template_Report_Sync \/ IOT_Template_GetStatus_sync
  BY <1>2, DataThread DEF IOT_Template_Report_Sync, IOT_Template_GetStatus_sync, Threads
<1>3. CASE UNCHANGED vars \/ \E i \in Ids : TimerExpires(i)
  <2>1. UNCHANGED <<pc, req, up, pMsgList>>
    BY <1>3 DEF TimerExpires, vars, threadVars
  <2> QED
    BY <2>1 DEF DataInv, Message
<1>4. ASSUME NEW m \in Messages, Arrive(m), m.method \in {"none", "control"} => m.token < 0,
             pc' = pc, req' = req,
             \A i \in Ids : up'[i].kind = up[i].kind /\ up'[i].token = up[i].token
                /\ (up[i].kind = "control_reply" => up'[i].answer = up[i].answer)
      PROVE  DataInv'
  <2>1. \A k \in 1 .. Len(pMsgList') : k \in 1 .. Len(pMsgList) \/ k = Len(pMsgList) + 1
    BY <1>0, <1>4, ArriveTyped
  <2>2. \A k \in 1 .. Len(pMsgList') :
          pMsgList'[k].method \in {"none", "control"} => pMsgList'[k].token < 0
    BY <1>0, <1>4, <2>1, ArriveTyped DEF DataInv
  <2>3. pc'[Main] = "control" => Message'.method = "control"
    <3>1. SUFFICES ASSUME pc[Main] = "control" PROVE Message' = Message
      BY <1>4 DEF DataInv
    <3>2. pMsgList # <<>> /\ 1 \in 1 .. Len(pMsgList) /\ Message = pMsgList[1]
      BY <1>0, <3>1, MessageTyped
    <3>3. pMsgList' = Append(pMsgList, m)
      BY <1>4 DEF Arrive
    <3>4. Head(pMsgList') = pMsgList[1]
      BY <1>0, <3>2, <3>3
    <3> QED
      BY <3>2, <3>4 DEF Message
  <2>4. \A i \in Ids : up'[i].kind \in Answered => up'[i].token \in Nat
    BY <1>4 DEF DataInv
  <2>5. \A i \in Ids : up'[i].kind = "control_reply" => up'[i].answer = "none"
    BY <1>4 DEF DataInv
  <2>6. \A t \in Threads : pc'[t] = "publish" /\ req'[t].kind # "control_reply" => req'[t].token \in Nat
    BY <1>4 DEF DataInv
  <2> QED
    BY <2>2, <2>3, <2>4, <2>5, <2>6 DEF DataInv
<1>5. ASSUME NEW i \in Ids, CloudAnswer(i) PROVE DataInv'
  <2>1. PICK m \in Messages : Arrive(m) /\ m.method \notin {"none", "control"}
    BY <1>5, AnswerEffect
  <2>2. up[i].kind # "control_reply" /\ UNCHANGED <<pc, req>>
    BY <1>5, AnswerEffect
  <2>3. \A j \in Ids : up'[j].kind = up[j].kind /\ up'[j].token = up[j].token
                /\ (up[j].kind = "control_reply" => up'[j].answer = up[j].answer)
    BY <1>5, <2>2, AnswerEffect
  <2> QED
    BY <1>4, <2>1, <2>2, <2>3
<1>6. CASE CloudControl
  <2>1. PICK method \in {"control", "none"} :
             Arrive([method |-> method, token |-> ControlToken(controls'),
                     code |-> "garbled", control |-> FALSE])
    BY <1>6 DEF CloudControl
  <2> DEFINE m == [method |-> method, token |-> ControlToken(controls'),
                   code |-> "garbled", control |-> FALSE]
  <2>2. m \in Messages /\ m.token < 0
    <3>1. controls' \in Nat
      BY <1>0, <1>6 DEF CloudControl, TypeOK
    <3>2. \A c \in Nat : ControlToken(c) \in Int /\ ControlToken(c) < 0
      BY DEF ControlToken
    <3> QED
      BY <3>1, <3>2 DEF Messages
  <2>3. Arrive(m)
    BY <2>1
  <2> HIDE DEF m
  <2>4. UNCHANGED <<pc, req, up>>
    BY <1>6 DEF CloudControl, threadVars
  <2> QED
    BY <1>4, <2>2, <2>3, <2>4
<1> QED
  BY <1>1, <1>2, <1>3, <1>5, <1>6, DataThread, DataMain DEF Next, Cloud

\* The walk has passed the entry, or ended.
Past(k) == pc[Main] = "free" \/ (pc[Main] \in Walking /\ iter.mode = "reply" /\ k > iter.at)

\* An answer to the entry waits in the queue, behind the message at hand if the walk
\* for that one has passed the entry.
Coming(k) ==
    \E m \in 1 .. Len(pMsgList) : pMsgList[m].token = reply_list[k].token /\ (m = 1 => ~Past(k))

ReachInv ==
    /\ \A t \in Threads : pc[t] = "add" => up[req[t].id].answer = "none"
    /\ pc[Main] = "clear_add" /\ up[ClearReq.id].answer # "none" =>
          \E m \in 1 .. Len(pMsgList) : m # 1 /\ pMsgList[m].token = ClearReq.token
    /\ \A k \in 1 .. Len(reply_list) : up[reply_list[k].id].answer # "none" => Coming(k)

LEMMA ReachInit == Init => ReachInv
<1> SUFFICES ASSUME Init PROVE ReachInv
  OBVIOUS
<1>1. pc[Main] = "construct" /\ \A t \in Threads : pc[t] \in {"construct", "idle"}
  BY IdFacts DEF Init
<1>2. Len(reply_list) = 0
  BY DEF Init
<1> QED
  BY <1>1, <1>2 DEF ReachInv

\* An answered entry has the token of its document, a natural number.
LEMMA AnsweredEntry ==
    ASSUME TypeInv, NumberInv, DataInv, NEW k \in 1 .. Len(reply_list),
           up[reply_list[k].id].answer # "none"
    PROVE  /\ reply_list[k].id \in Ids /\ reply_list[k].token = up[reply_list[k].id].token
           /\ reply_list[k].token \in Nat
<1>1. reply_list[k].id \in Ids /\ reply_list[k].kind \in Kinds /\ Sent(reply_list[k])
  BY EntryTyped DEF TypeInv, NumberInv
<1>2. up[reply_list[k].id].kind \in Answered
  BY <1>1 DEF DataInv, Sent, Answered
<1> QED
  BY <1>1, <1>2 DEF DataInv, Sent

LEMMA ReachThread ==
    ASSUME TypeInv, NumberInv, DataInv, ReachInv, NEW t \in Threads,
           RequestStep(t) \/ \E kind : Begin(t, kind)
    PROVE  ReachInv'
<1>0. /\ TypeOK /\ Len(reply_list) \in Nat
      /\ \A s \in Threads : pc[s] \in Issuing => req[s].id \in Ids
      /\ \A k \in 1 .. Len(reply_list) : reply_list[k].id \in Ids
  BY ReqTyped, EntryTyped DEF TypeInv, TypeOK
<1>1. ASSUME /\ \A i \in Ids : up'[i].answer = up[i].answer
             /\ pc[t] \in Issuing \cup {"idle", "return"} /\ pc'[t] \in Issuing \cup {"idle", "return", "wait"}
             /\ \A s \in Threads : s # t => pc'[s] = pc[s] /\ req'[s] = req[s]
             /\ pc'[t] = "add" => up[req'[t].id].answer = "none" /\ req'[t].id \in Ids
             /\ UNCHANGED <<pMsgList, iter>>
             /\ \A k \in 1 .. Len(reply_list) : reply_list'[k] = reply_list[k]
             /\ \/ reply_list' = reply_list
                \/ /\ Len(reply_list') = Len(reply_list) + 1
                   /\ reply_list'[Len(reply_list) + 1].id \in Ids
                   /\ up[reply_list'[Len(reply_list) + 1].id].answer = "none"
      PROVE  ReachInv'
  <2>1. \A k \in 1 .. Len(reply_list) : Past(k)' <=> Past(k)
    BY <1>1, IdFacts DEF Past, Issuing, Walking
  <2>2. \A s \in Threads : pc'[s] = "add" => up'[req'[s].id].answer = "none"
    BY <1>0, <1>1 DEF ReachInv, Issuing
  <2>3. pc'[Main] = "clear_add" /\ up'[ClearReq'.id].answer # "none" =>
          \E m \in 1 .. Len(pMsgList') : m # 1 /\ pMsgList'[m].token = ClearReq'.token
    <3>1. SUFFICES ASSUME pc'[Main] = "clear_add", up'[ClearReq'.id].answer # "none"
                   PROVE \E m \in 1 .. Len(pMsgList') : m # 1 /\ pMsgList'[m].token = ClearReq'.token
      OBVIOUS
    <3>2. pc[Main] = "clear_add"
      BY <1>1, <3>1, IdFacts DEF Issuing
    <3>3. iter.at \in 1 .. Len(reply_list) /\ Current.kind = "get_sync"
      BY <3>2 DEF TypeInv, TypeOK, PlaceInv, Walking, Clearing, Iters
    <3>4. Current.id \in 1 .. MaxReqs
      BY <3>3 DEF TypeInv, ReqInv, Current
    <3>5. ClearReq' = ClearReq /\ ClearReq.id \in Ids
      BY <1>1, <3>3, <3>4, IdFacts DEF ClearReq, Current
    <3> QED
      BY <1>1, <3>1, <3>2, <3>5 DEF ReachInv
  <2>4. ASSUME NEW k \in 1 .. Len(reply_list'), up'[reply_list'[k].id].answer # "none"
        PROVE  Coming(k)'
    <3>1. k \in 1 .. Len(reply_list)
      <4>1. CASE reply_list' = reply_list
        BY <4>1
      <4>2. CASE /\ Len(reply_list') = Len(reply_list) + 1
                 /\ up[reply_list'[Len(reply_list) + 1].id].answer = "none"
                 /\ reply_list'[Len(reply_list) + 1].id \in Ids
        <5>1. k \in 1 .. Len(reply_list) \/ k = Len(reply_list) + 1
          BY <1>0, <4>2
        <5> QED
          BY <1>1, <2>4, <4>2, <5>1
      <4> QED
        BY <1>1, <4>1, <4>2
    <3>2. Coming(k)
      BY <1>0, <1>1, <2>4, <3>1 DEF ReachInv
    <3> QED
      BY <1>1, <2>1, <3>1, <3>2 DEF Coming
  <2> QED
    BY <2>2, <2>3, <2>4 DEF ReachInv
<1>2. ASSUME NEW kind, Begin(t, kind) PROVE ReachInv'
  <2>1. pc[t] = "idle" /\ pc'[t] \in {"publish", "token"}
    BY <1>2, BeginEffect
  <2> QED
    BY <1>1, <1>2, <2>1, BeginEffect DEF Issuing
<1>3. CASE ReadToken(t)
  <2>1. pc[t] = "token" /\ pc'[t] = "store_token"
    BY <1>3, ReadEffect
  <2> QED
    BY <1>1, <1>3, <2>1, ReadEffect DEF Issuing
<1>4. CASE StoreToken(t)
  <2>1. pc[t] = "store_token" /\ pc'[t] = "publish"
    BY <1>4, StoreEffect
  <2> QED
    BY <1>1, <1>4, <2>1, StoreEffect DEF Issuing
<1>5. CASE PublishOk(t) \/ PublishFail(t)
  <2>1. /\ pc[t] = "publish" /\ pc[t] \in Issuing /\ pc'[t] \in {"add", "return"}
        /\ \A s \in Threads : s # t => pc'[s] = pc[s]
        /\ \A j \in Ids : up'[j].answer = up[j].answer
        /\ UNCHANGED <<pMsgList, req, iter, reply_list>>
    BY <1>5, PublishEffect, FailEffect DEF Issuing
  <2>2. req[t].id \in Ids /\ up[req[t].id].answer = "none"
    BY <1>0, <2>1 DEF NumberInv, Unsent
  <2> QED
    BY <1>1, <2>1, <2>2 DEF Issuing
<1>6. CASE AddRequest(t)
  <2>1. /\ pc[t] = "add" /\ pc[t] \in Issuing /\ pc'[t] \in {"wait", "return"}
        /\ \A s \in Threads : s # t => pc'[s] = pc[s]
        /\ UNCHANGED <<pMsgList, req, iter, up>>
        /\ \/ reply_list' = reply_list
           \/ /\ Len(reply_list') = Len(reply_list) + 1
              /\ \A k \in 1 .. Len(reply_list) : reply_list'[k] = reply_list[k]
              /\ reply_list'[Len(reply_list) + 1] = Entry(req[t])
    BY <1>6, AddEffect DEF Issuing
  <2>2. Entry(req[t]).id = req[t].id /\ req[t].id \in Ids /\ up[req[t].id].answer = "none"
    BY <1>0, <2>1 DEF ReachInv, Entry
  <2> QED
    BY <1>1, <2>1, <2>2
<1>7. CASE Return(t)
  <2>1. pc[t] = "return" /\ pc'[t] = "idle"
    BY <1>7, ReturnEffect
  <2> QED
    BY <1>1, <1>7, <2>1, ReturnEffect
<1> QED
  BY <1>2, <1>3, <1>4, <1>5, <1>6, <1>7 DEF RequestStep

\* A step of Main that leaves the queue and the documents as they are: an entry that
\* is passed has no answer, or its answer is not the message at hand.
LEMMA ReachQuiet ==
    ASSUME TypeInv, ReachInv, MainStep, pMsgList' = pMsgList, up' = up, ~ClearPublish,
           \A k \in 1 .. Len(reply_list') : \E j \in 1 .. Len(reply_list) :
              /\ reply_list'[k] = reply_list[j]
              /\ Past(k)' => \/ Past(j)
                             \/ up[reply_list[j].id].answer = "none"
                             \/ pMsgList[1].token # reply_list[j].token
    PROVE  ReachInv'
<1>1. \A s \in Threads : pc'[s] = "add" => up'[req'[s].id].answer = "none"
  BY MainEffect DEF ReachInv, Issuing
<1>2. pc'[Main] # "clear_add"
  BY MainEffect
<1>3. ASSUME NEW k \in 1 .. Len(reply_list'), up'[reply_list'[k].id].answer # "none"
      PROVE  Coming(k)'
  <2>1. PICK j \in 1 .. Len(reply_list) :
              /\ reply_list'[k] = reply_list[j]
              /\ Past(k)' => \/ Past(j)
                             \/ up[reply_list[j].id].answer = "none"
                             \/ pMsgList[1].token # reply_list[j].token
    OBVIOUS
  <2>2. Coming(j)
    BY <1>3, <2>1 DEF ReachInv
  <2>3. PICK m \in 1 .. Len(pMsgList) :
           pMsgList[m].token = reply_list[j].token /\ (m = 1 => ~Past(j))
    BY <2>2 DEF Coming
  <2>4. m = 1 => ~Past(k)'
    BY <1>3, <2>1, <2>3
  <2> QED
    BY <2>1, <2>3, <2>4 DEF Coming
<1> QED
  BY <1>1, <1>2, <1>3 DEF ReachInv

LEMMA ReachMain == TypeInv /\ FrameInv /\ NumberInv /\ DataInv /\ ReachInv /\ MainStep => ReachInv'
<1> SUFFICES ASSUME TypeInv, FrameInv, NumberInv, DataInv, ReachInv, MainStep PROVE ReachInv'
  OBVIOUS
<1>0. /\ TypeOK /\ PlaceInv /\ pc \in [Threads -> Places] /\ Main \in Threads /\ Len(reply_list) \in Nat
      /\ iter \in Iters /\ iter.at \in Nat /\ iter.back \in {"idle", "wait"}
      /\ iter.mode \in {"reply", "expired"}
  BY IdFacts DEF TypeInv, TypeOK, Iters
<1>a. pc[Main] \in Walking /\ iter.at > 0 => iter.at \in 1 .. Len(reply_list)
  BY <1>0 DEF PlaceInv
<1>1. CASE IOT_Template_Construct \/ SyncDone \/ IOT_Template_Yield
  <2>1. /\ UNCHANGED <<reply_list, pMsgList, up>> /\ ~ClearPublish
        /\ pc'[Main] \in {"idle", "return", "lock", "message"}
    <3>1. CASE IOT_Template_Construct
      BY <1>0, <3>1 DEF IOT_Template_Construct, ClearPublish, Goto
    <3>2. CASE SyncDone
      BY <1>0, <3>2 DEF SyncDone, ClearPublish, Goto, templateVars
    <3>3. CASE IOT_Template_Yield
      BY <1>0, <3>3 DEF IOT_Template_Yield, ClearPublish, Goto, templateVars
    <3> QED
      BY <1>1, <3>1, <3>2, <3>3
  <2>2. \A k : ~Past(k)'
    BY <2>1 DEF Past, Walking
  <2> QED
    BY <2>1, <2>2, ReachQuiet
<1>2. CASE HandleMessage \/ HandleControl
  <2>1. /\ UNCHANGED <<reply_list, pMsgList, up>> /\ ~ClearPublish
        /\ pc[Main] \in {"message", "control"}
        /\ pc'[Main] = "free" => Message.method \in {"none", "control"}
        /\ pc'[Main] \in {"free", "lock", "control"}
    <3>1. CASE HandleMessage
      BY <1>0, <3>1 DEF HandleMessage, ClearPublish, Goto, templateVars
    <3>2. CASE HandleControl
      BY <1>0, <3>2 DEF HandleControl, ClearPublish, Goto, DataInv
    <3> QED
      BY <1>2, <3>1, <3>2
  <2>2. ASSUME NEW k \in 1 .. Len(reply_list), Past(k)', up[reply_list[k].id].answer # "none"
        PROVE  pMsgList[1].token # reply_list[k].token
    <3>1. Message.method \in {"none", "control"}
      BY <2>1, <2>2 DEF Past, Walking
    <3>2. pMsgList # <<>> /\ Message = pMsgList[1] /\ 1 \in 1 .. Len(pMsgList) /\ pMsgList[1].token \in Int
      BY <1>0, <2>1, MessageTyped DEF PlaceInv
    <3>3. pMsgList[1].token < 0
      BY <3>1, <3>2 DEF DataInv
    <3>4. reply_list[k].token \in Nat
      BY <2>2, AnsweredEntry
    <3> QED
      BY <3>2, <3>3, <3>4
  <2>3. \A k \in 1 .. Len(reply_list') : \E j \in 1 .. Len(reply_list) :
              /\ reply_list'[k] = reply_list[j]
              /\ Past(k)' => \/ Past(j)
                             \/ up[reply_list[j].id].answer = "none"
                             \/ pMsgList[1].token # reply_list[j].token
    BY <2>1, <2>2
  <2> QED
    BY <2>1, <2>3, ReachQuiet
<1>3. CASE FreeMessage
  <2>1. /\ UNCHANGED <<reply_list, up, req>> /\ pc[Main] = "free" /\ pc'[Main] \in {"message", "lock"}
        /\ pMsgList' = Tail(pMsgList) /\ iter'.mode = "expired"
    BY <1>0, <1>3 DEF FreeMessage, Goto, templateVars, Iters
  <2>2. \A s \in Threads : pc'[s] = "add" => up'[req'[s].id].answer = "none"
    BY <2>1, MainEffect DEF ReachInv, Issuing
  <2>3. ASSUME NEW k \in 1 .. Len(reply_list'), up'[reply_list'[k].id].answer # "none"
        PROVE  Coming(k)'
    <3>1. PICK m \in 1 .. Len(pMsgList) : pMsgList[m].token = reply_list[k].token /\ m # 1
      BY <2>1, <2>3 DEF ReachInv, Coming, Past
    <3>2. m - 1 \in 1 .. Len(pMsgList') /\ pMsgList'[m - 1] = pMsgList[m]
      <4>1. pMsgList \in Seq(Messages)
        BY <1>0 DEF TypeOK
      <4> QED
        BY <2>1, <3>1, <4>1
    <3>3. ~Past(k)'
      BY <2>1 DEF Past
    <3> QED
      BY <2>1, <3>1, <3>2, <3>3 DEF Coming
  <2> QED
    BY <2>1, <2>2, <2>3 DEF ReachInv
<1>4. CASE TraverseLock \/ TraverseEnd \/ TraverseSkip
  <2>1. /\ UNCHANGED <<reply_list, pMsgList, up>> /\ ~ClearPublish
    BY <1>0, <1>4 DEF TraverseLock, TraverseEnd, TraverseSkip, ClearPublish, Goto, templateVars
  <2>2. ASSUME NEW k \in 1 .. Len(reply_list), Past(k)', ~Past(k)
        PROVE  pMsgList[1].token # reply_list[k].token
    <3>1. CASE TraverseLock
      <4>1. pc'[Main] = "walk" /\ iter'.at = Len(reply_list)
        BY <1>0, <3>1 DEF TraverseLock, Goto, Iters
      <4> QED
        BY <1>0, <2>2, <4>1 DEF Past
    <3>2. CASE TraverseEnd
      <4>1. /\ iter.at = 0 /\ pc[Main] = "walk"
            /\ pc'[Main] = (IF iter.mode = "reply" THEN "free" ELSE iter.back)
        BY <1>0, <3>2 DEF TraverseEnd, Goto
      <4>2. iter.mode = "reply"
        BY <1>0, <2>2, <4>1 DEF Past, Walking
      <4> QED
        BY <2>2, <4>1, <4>2 DEF Past, Walking
    <3>3. CASE TraverseSkip
      <4>1. /\ iter.at > 0 /\ pc[Main] = "walk" /\ pc'[Main] = "walk" /\ ~Concerned(Current)
            /\ iter'.at = iter.at - 1 /\ iter'.mode = iter.mode
        BY <1>0, <3>3 DEF TraverseSkip, Goto, Iters
      <4>2. iter.mode = "reply" /\ k = iter.at
        BY <1>0, <2>2, <4>1 DEF Past, Walking
      <4>3. reply_list[k].token # Message.token
        BY <4>1, <4>2 DEF Concerned, Current
      <4>4. Message = pMsgList[1]
        BY <1>0, <4>2, MessageTyped DEF PlaceInv
      <4> QED
        BY <4>3, <4>4
    <3> QED
      BY <1>4, <3>1, <3>2, <3>3
  <2>3. \A k \in 1 .. Len(reply_list') : \E j \in 1 .. Len(reply_list) :
              /\ reply_list'[k] = reply_list[j]
              /\ Past(k)' => \/ Past(j)
                             \/ up[reply_list[j].id].answer = "none"
                             \/ pMsgList[1].token # reply_list[j].token
    BY <2>1, <2>2
  <2> QED
    BY <2>1, <2>3, ReachQuiet
<1>b. ASSUME RemoveCurrent, pc[Main] \in Walking, pc'[Main] = "walk", iter.at > 0,
             NEW k \in 1 .. Len(reply_list')
      PROVE  \E j \in 1 .. Len(reply_list) : reply_list'[k] = reply_list[j] /\ (Past(k)' => Past(j))
  <2>1. iter.at \in 1 .. Len(reply_list)
    BY <1>a, <1>b
  <2>2. PICK j \in 1 .. Len(reply_list) : /\ reply_list'[k] = reply_list[j]
                                          /\ (k < iter.at => j = k) /\ (k >= iter.at => j = k + 1)
    BY <1>0, <1>b, <2>1, RemovedFrom
  <2>3. iter'.at = iter.at - 1 /\ iter'.mode = iter.mode /\ Len(reply_list') \in Nat
    BY <1>0, <1>b, <2>1, RemoveTyped
  <2>4. Past(k)' => iter.mode = "reply" /\ k >= iter.at
    BY <1>0, <1>b, <2>3 DEF Past
  <2>5. k >= iter.at => j > iter.at
    BY <1>0, <2>2, <2>3
  <2> QED
    BY <1>b, <2>2, <2>4, <2>5 DEF Past
<1>5. CASE ExpireEntry \/ ReplyGarbled \/ ReplyVerdict \/ ReplyControl \/ RemoveEntry
  <2>1. /\ UNCHANGED <<pMsgList, up>> /\ ~ClearPublish
        /\ pc[Main] \in Walking /\ pc'[Main] \in Walking /\ iter.at > 0
        /\ \/ RemoveCurrent /\ pc'[Main] = "walk"
           \/ UNCHANGED <<reply_list, iter>>
    <3>1. CASE ExpireEntry
      BY <1>0, <3>1 DEF ExpireEntry, AtEntry, ClearPublish, Goto, Walking
    <3>2. CASE ReplyGarbled
      BY <1>0, <3>2 DEF ReplyGarbled, AtEntry, ClearPublish, Goto, Walking
    <3>3. CASE ReplyVerdict
      BY <1>0, <3>3 DEF ReplyVerdict, AtEntry, ClearPublish, Goto, Walking
    <3>4. CASE ReplyControl
      BY <1>0, <3>4 DEF ReplyControl, AtEntry, ClearPublish, Goto, Walking
    <3>5. CASE RemoveEntry
      BY <1>0, <3>5 DEF RemoveEntry, PlaceInv, ClearPublish, Goto, Walking, Clearing
    <3> QED
      BY <1>5, <3>1, <3>2, <3>3, <3>4, <3>5
  <2>2. \A k \in 1 .. Len(reply_list') : \E j \in 1 .. Len(reply_list) :
              reply_list'[k] = reply_list[j] /\ (Past(k)' => Past(j))
    <3>1. CASE RemoveCurrent /\ pc'[Main] = "walk"
      BY <1>b, <2>1, <3>1
    <3>2. CASE UNCHANGED <<reply_list, iter>>
      BY <2>1, <3>2 DEF Past, Walking
    <3> QED
      BY <2>1, <3>1, <3>2
  <2> QED
    BY <2>1, <2>2, ReachQuiet
<1>6. CASE ClearPublish
  <2>1. /\ pc[Main] = "clear_publish" /\ pc'[Main] \in {"clear_add", "remove"}
        /\ UNCHANGED <<reply_list, pMsgList, iter, req>>
        /\ \A j \in Ids : up'[j].answer = up[j].answer
        /\ up'[ClearReq.id].answer = "none" /\ ClearReq' = ClearReq
    BY <1>6, ClearEffect, ClearFacts, MainEffect
  <2>2. \A s \in Threads : pc'[s] = "add" => up'[req'[s].id].answer = "none"
    <3>1. \A s \in Threads : pc'[s] = "add" => pc[s] = "add" /\ req'[s] = req[s] /\ req[s].id \in Ids
      BY <2>1, MainEffect, ReqTyped DEF Issuing
    <3> QED
      BY <2>1, <3>1 DEF ReachInv
  <2>3. \A k \in 1 .. Len(reply_list) : reply_list[k].id \in Ids /\ (Past(k)' <=> Past(k))
    BY <1>0, <2>1, EntryTyped DEF Past, Walking
  <2>4. \A k \in 1 .. Len(reply_list') : up'[reply_list'[k].id].answer # "none" => Coming(k)'
    BY <2>1, <2>3 DEF ReachInv, Coming
  <2> QED
    BY <2>1, <2>2, <2>4 DEF ReachInv
<1>7. CASE ClearAdd
  <2>1. /\ pc[Main] = "clear_add" /\ pc'[Main] = "remove"
        /\ UNCHANGED <<pMsgList, up, iter>> /\ Enlist(ClearReq) /\ ~ClearPublish
    BY <1>0, <1>7 DEF ClearAdd, Goto, ClearPublish
  <2>2. \/ reply_list' = reply_list
        \/ /\ Len(reply_list') = Len(reply_list) + 1
           /\ \A k \in 1 .. Len(reply_list) : reply_list'[k] = reply_list[k]
           /\ reply_list'[Len(reply_list) + 1] = Entry(ClearReq)
    <3>1. "clear" \in Kinds
      BY DEF Kinds
    <3> QED
      BY <1>0, <2>1, <3>1, ClearFacts, EnlistTyped
  <2>3. \A s \in Threads : pc'[s] = "add" => up'[req'[s].id].answer = "none"
    BY <2>1, MainEffect DEF ReachInv, Issuing
  <2>4. \A k : Past(k)' <=> Past(k)
    BY <2>1 DEF Past, Walking
  <2>5. \A k \in 1 .. Len(reply_list) :
          reply_list'[k] = reply_list[k] /\ (up[reply_list[k].id].answer # "none" => Coming(k)')
    BY <2>1, <2>2, <2>4 DEF ReachInv, Coming
  <2>6. \A k \in 1 .. Len(reply_list') : up'[reply_list'[k].id].answer # "none" => Coming(k)'
    <3>1. CASE reply_list' = reply_list
      BY <2>1, <2>5, <3>1
    <3>2. CASE Len(reply_list') = Len(reply_list) + 1 /\ reply_list'[Len(reply_list) + 1] = Entry(ClearReq)
      <4>1. PICK n \in Nat : n = Len(reply_list) + 1
        BY <1>0
      <4>2. reply_list'[n].id = ClearReq.id /\ reply_list'[n].token = ClearReq.token
        BY <3>2, <4>1 DEF Entry
      <4>3. \A k \in 1 .. Len(reply_list') : k \in 1 .. Len(reply_list) \/ k = n
        BY <1>0, <3>2, <4>1
      <4>4. up'[reply_list'[n].id].answer # "none" => Coming(n)'
        BY <2>1, <4>2 DEF ReachInv, Coming
      <4> QED
        BY <2>1, <2>5, <4>3, <4>4
    <3> QED
      BY <2>2, <3>1, <3>2
  <2> QED
    BY <2>1, <2>3, <2>6 DEF ReachInv
<1> QED
  BY <1>1, <1>2, <1>3, <1>4, <1>5, <1>6, <1>7 DEF MainStep

LEMMA ReachNext ==
    ASSUME "early_reply" \notin Faults
    PROVE  TypeInv /\ FrameInv /\ NumberInv /\ DataInv /\ ReachInv /\ [Next]_vars => ReachInv'
<1> SUFFICES ASSUME TypeInv, FrameInv, NumberInv, DataInv, ReachInv, [Next]_vars PROVE ReachInv'
  OBVIOUS
<1>0. /\ TypeOK /\ PlaceInv /\ pMsgList \in Seq(Messages)
      /\ \A s \in Threads : pc[s] = "add" => req[s].id \in Ids
      /\ \A k \in 1 .. Len(reply_list) : reply_list[k].id \in Ids
  BY ReqTyped, EntryTyped DEF TypeInv, TypeOK, Issuing
<1>1. ASSUME NEW t \in Threads, Call(t) PROVE ReachInv'
  BY <1>1, ReachThread DEF Call, IOT_Template_Report, IOT_Template_GetStatus, IOT_Template_ControlReply
<1>2. CASE IOT_Template_Report_Sync \/ IOT_Template_GetStatus_sync
  BY <1>2, ReachThread DEF IOT_Template_Report_Sync, IOT_Template_GetStatus_sync, Threads
<1>3. CASE UNCHANGED vars
  <2>1. UNCHANGED <<reply_list, pc, req, up, pMsgList, iter>>
    BY <1>3 DEF vars, templateVars, threadVars
  <2> QED
    BY <2>1 DEF ReachInv, Coming, Past, ClearReq, Current
<1>4. ASSUME NEW i \in Ids, TimerExpires(i) PROVE ReachInv'
  <2>1. UNCHANGED <<pc, req, up, pMsgList, iter>>
    BY <1>4 DEF TimerExpires, threadVars
  <2>2. /\ Len(reply_list') = Len(reply_list)
        /\ \A k \in 1 .. Len(reply_list) : reply_list'[k].id = reply_list[k].id
                                           /\ reply_list'[k].token = reply_list[k].token
    BY <1>0, <1>4, ExpiredTyped
  <2>3. pc[Main] = "clear_add" => ClearReq' = ClearReq
    <3>1. pc[Main] = "clear_add" => iter.at \in 1 .. Len(reply_list)
      BY ClearFacts
    <3> QED
      BY <2>1, <2>2, <3>1 DEF ClearReq, Current
  <2> QED
    BY <2>1, <2>2, <2>3 DEF ReachInv, Coming, Past
<1>5. ASSUME NEW m \in Messages, Arrive(m), UNCHANGED <<reply_list, pc, req, iter>>,
             NEW i, \A j \in Ids : j # i => up'[j] = up[j],
             i \in Ids => m.token = up[i].token /\ ~Entering(i)
      PROVE  ReachInv'
  <2> DEFINE n == Len(pMsgList) + 1
  <2>1. /\ Len(pMsgList') = n /\ n \in Nat /\ n \in 1 .. Len(pMsgList')
        /\ pMsgList'[n] = m
        /\ \A k \in 1 .. Len(pMsgList) : pMsgList'[k] = pMsgList[k] /\ k \in 1 .. Len(pMsgList')
    BY <1>0, <1>5, ArriveTyped
  <2> HIDE DEF n
  <2>2. n = 1 => pMsgList = <<>>
    BY <1>0 DEF n
  <2>3. \A k : Past(k)' <=> Past(k)
    BY <1>5 DEF Past
  <2>4. \A k : Past(k) => n # 1
    BY <1>0, <2>2 DEF Past, PlaceInv
  <2>5. \A s \in Threads : pc'[s] = "add" => up'[req'[s].id].answer = "none"
    <3>1. \A s \in Threads : pc[s] = "add" => req[s].id # i
      BY <1>0, <1>5 DEF Entering
    <3> QED
      BY <1>0, <1>5, <3>1 DEF ReachInv
  <2>6. ASSUME pc'[Main] = "clear_add", up'[ClearReq'.id].answer # "none"
        PROVE  \E k \in 1 .. Len(pMsgList') : k # 1 /\ pMsgList'[k].token = ClearReq'.token
    <3>1. ClearReq' = ClearReq /\ pc[Main] = "clear_add"
      BY <1>5, <2>6 DEF ClearReq, Current
    <3>2. ClearReq.id \in Ids /\ Sent(ClearReq) /\ pMsgList # <<>>
      BY <1>0, <3>1, ClearFacts DEF NumberInv, PlaceInv, Clearing
    <3>3. CASE ClearReq.id = i
      <4>1. m.token = ClearReq.token
        BY <1>5, <3>2, <3>3 DEF Sent
      <4> QED
        BY <2>1, <2>2, <3>1, <3>2, <4>1
    <3>4. CASE ClearReq.id # i
      BY <1>5, <2>1, <2>6, <3>1, <3>2, <3>4 DEF ReachInv
    <3> QED
      BY <3>3, <3>4
  <2>7. ASSUME NEW k \in 1 .. Len(reply_list'), up'[reply_list'[k].id].answer # "none"
        PROVE  Coming(k)'
    <3>1. k \in 1 .. Len(reply_list) /\ reply_list[k].id \in Ids /\ Sent(reply_list[k])
      BY <1>0, <1>5 DEF NumberInv
    <3>2. CASE reply_list[k].id = i
      <4>1. m.token = reply_list[k].token
        BY <1>5, <3>1, <3>2 DEF Sent
      <4> QED
        BY <1>5, <2>1, <2>3, <2>4, <4>1 DEF Coming
    <3>3. CASE reply_list[k].id # i
      <4>1. Coming(k)
        BY <1>5, <2>7, <3>1, <3>3 DEF ReachInv
      <4> QED
        BY <1>5, <2>1, <2>3, <4>1 DEF Coming
    <3> QED
      BY <3>2, <3>3
  <2> QED
    BY <2>5, <2>6, <2>7 DEF ReachInv
<1>6. ASSUME NEW i \in Ids, CloudAnswer(i) PROVE ReachInv'
  <2>1. PICK m \in Messages : Arrive(m) /\ m.token = up[i].token
    BY <1>6, AnswerEffect
  <2> QED
    BY <1>5, <1>6, <2>1, AnswerEffect
<1>7. CASE CloudControl
  <2>1. UNCHANGED <<reply_list, pc, req, iter, up>>
    BY <1>7 DEF CloudControl, templateVars, threadVars
  <2>2. PICK method \in {"control", "none"} :
             Arrive([method |-> method, token |-> ControlToken(controls'),
                     code |-> "garbled", control |-> FALSE])
    BY <1>7 DEF CloudControl
  <2> DEFINE m == [method |-> method, token |-> ControlToken(controls'),
                   code |-> "garbled", control |-> FALSE]
  <2>3. m \in Messages
    <3>1. controls' \in Nat
      BY <1>0, <1>7 DEF CloudControl, TypeOK
    <3>2. \A c \in Nat : ControlToken(c) \in Int
      BY DEF ControlToken
    <3> QED
      BY <3>1, <3>2 DEF Messages
  <2>4. Arrive(m)
    BY <2>2
  <2> HIDE DEF m
  <2>5. 0 \notin Ids
    BY IdFacts DEF Ids
  <2> QED
    BY <1>5, <2>1, <2>3, <2>4, <2>5
<1> QED
  BY <1>1, <1>2, <1>4, <1>3, <1>6, <1>7, ReachThread, ReachMain DEF Next, Cloud

\* The answer of a request that still waits is yet to come or still queued: no answer
\* passes its request by, as long as none arrives before its request is in the list.
THEOREM AnswersReach ==
    ASSUME "early_reply" \notin Faults PROVE Spec => []AnswerReaches
<1> DEFINE Inv == TypeInv /\ FrameInv /\ NumberInv /\ DataInv /\ ReachInv
<1>1. Init => Inv
  BY TypeInit, FrameInit, NumberInit, DataInit, ReachInit
<1>2. Inv /\ [Next]_vars => Inv'
  BY TypeNext, FrameNext, NumberNext, DataNext, ReachNext
<1>3. Inv => AnswerReaches
  <2> SUFFICES ASSUME Inv PROVE AnswerReaches
    OBVIOUS
  <2>1. DOMAIN reply_list = 1 .. Len(reply_list) /\ DOMAIN pMsgList = 1 .. Len(pMsgList)
    BY DEF TypeInv, TypeOK
  <2> QED
    BY <2>1 DEF AnswerReaches, ReachInv, Coming
<1> HIDE DEF Inv
<1> QED
  BY <1>1, <1>2, <1>3, PTL DEF Spec

-----------------------------------------------------------------------------
(* The tokens.                                                             *)

Tokened == Kinds \ MuteKinds    \* the requests that take a token of their own

\* A token is taken by one request.  A clear_control has the token of its GET.
TokenInv ==
    /\ \A s, t \in Threads : pc[s] = "store_token" /\ pc[t] = "store_token" => s = t
    /\ \A t \in Threads : pc[t] = "store_token" => req[t].token = token_num
    /\ \A t \in Threads : pc[t] = "publish" /\ req[t].kind \in Tokened => req[t].token < token_num
    /\ \A s, t \in Threads :
          /\ pc[s] = "publish" /\ req[s].kind \in Tokened
          /\ pc[t] = "publish" /\ req[t].kind \in Tokened
          /\ req[s].token = req[t].token
          => s = t
    /\ \A i \in Ids : up[i].kind \in Tokened => up[i].token < token_num
    /\ \A i, j \in Ids :
          up[i].kind \in Tokened /\ up[j].kind \in Tokened /\ up[i].token = up[j].token => i = j
    /\ \A t \in Threads, i \in Ids :
          pc[t] = "publish" /\ req[t].kind \in Tokened /\ up[i].kind \in Tokened =>
             up[i].token # req[t].token
    /\ \A i \in 1 .. MaxReqs : up[i].kind # "clear" /\ up[i + MaxReqs].kind \in {"none", "clear"}
    /\ \A i \in 1 .. MaxReqs : up[i + MaxReqs].kind = "clear" =>
          up[i].kind = "get_sync" /\ up[i + MaxReqs].token = up[i].token

LEMMA TokenInit == Init => TokenInv
<1> SUFFICES ASSUME Init PROVE TokenInv
  OBVIOUS
<1>1. \A t \in Threads : pc[t] \in {"construct", "idle"}
  BY IdFacts DEF Init
<1>2. \A i \in Ids : up[i].kind = "none"
  BY DEF Init, NotSent
<1>3. "none" \notin Tokened
  BY DEF Kinds, SyncKinds, Tokened
<1> QED
  BY <1>1, <1>2, <1>3, IdFacts DEF TokenInv

\* A step that publishes nothing, stores no token and begins none.
LEMMA TokenQuiet ==
    ASSUME TokenInv, token_num' = token_num,
           \A t \in Threads : pc'[t] = "store_token" =>
              pc[t] = "store_token" /\ req'[t].token = req[t].token,
           \A t \in Threads : pc'[t] = "publish" /\ req'[t].kind \in Tokened =>
              pc[t] = "publish" /\ req'[t] = req[t],
           \A i \in Ids : up'[i].kind = up[i].kind /\ up'[i].token = up[i].token
    PROVE  TokenInv'
<1>1. /\ \A s, t \in Threads : pc'[s] = "store_token" /\ pc'[t] = "store_token" => s = t
      /\ \A t \in Threads : pc'[t] = "store_token" => req'[t].token = token_num'
      /\ \A t \in Threads : pc'[t] = "publish" /\ req'[t].kind \in Tokened => req'[t].token < token_num'
  BY DEF TokenInv
<1>2. \A s, t \in Threads :
          /\ pc'[s] = "publish" /\ req'[s].kind \in Tokened
          /\ pc'[t] = "publish" /\ req'[t].kind \in Tokened
          /\ req'[s].token = req'[t].token
          => s = t
  BY DEF TokenInv
<1>3. /\ \A i \in Ids : up'[i].kind \in Tokened => up'[i].token < token_num'
      /\ \A i, j \in Ids :
          up'[i].kind \in Tokened /\ up'[j].kind \in Tokened /\ up'[i].token = up'[j].token => i = j
  BY DEF TokenInv
<1>4. \A t \in Threads, i \in Ids :
          pc'[t] = "publish" /\ req'[t].kind \in Tokened /\ up'[i].kind \in Tokened =>
             up'[i].token # req'[t].token
  BY DEF TokenInv
<1>5. /\ \A i \in 1 .. MaxReqs : up'[i].kind # "clear" /\ up'[i + MaxReqs].kind \in {"none", "clear"}
      /\ \A i \in 1 .. MaxReqs : up'[i + MaxReqs].kind = "clear" =>
          up'[i].kind = "get_sync" /\ up'[i + MaxReqs].token = up'[i].token
  BY IdFacts DEF TokenInv
<1> QED
  BY <1>1, <1>2, <1>3, <1>4, <1>5 DEF TokenInv

LEMMA TokenThread ==
    ASSUME "token_race" \notin Faults, TypeInv, NumberInv, TokenInv, NEW t \in Threads,
           RequestStep(t) \/ \E kind : Begin(t, kind)
    PROVE  TokenInv'
<1>0. /\ token_num \in Nat /\ "control_reply" \notin Tokened /\ "none" \notin Tokened
      /\ \A s \in Threads : pc[s] = "publish" => req[s].token \in Int
      /\ \A i \in Ids : up[i].token \in Int
  <2>1. token_num \in Nat /\ up \in [Ids -> Published]
    BY DEF TypeInv, TypeOK
  <2>2. \A i \in Ids : up[i].token \in Int
    BY <2>1 DEF Published
  <2> QED
    BY <2>1, <2>2, ReqTyped DEF Tokened, MuteKinds, Kinds, SyncKinds, Issuing
<1>1. ASSUME NEW kind, Begin(t, kind) PROVE TokenInv'
  <2>1. /\ pc'[t] = (IF kind = "control_reply" THEN "publish" ELSE "token")
        /\ \A s \in Threads : s # t => pc'[s] = pc[s] /\ req'[s] = req[s]
        /\ UNCHANGED <<token_num, up>>
    BY <1>1, BeginEffect
  <2>2. req'[t].kind = kind
    <3>1. req'[t] = [id |-> issued', kind |-> kind, token |-> clientToken]
      BY <1>1, BeginEffect
    <3> QED
      BY <3>1
  <2> QED
    BY <1>0, <2>1, <2>2, TokenQuiet
<1>2. CASE ReadToken(t)
  <2>1. /\ pc'[t] = "store_token" /\ req'[t].token = token_num
        /\ \A s \in Threads : pc[s] # "store_token"
        /\ \A s \in Threads : s # t => pc'[s] = pc[s] /\ req'[s] = req[s]
        /\ UNCHANGED <<token_num, up>>
    BY <1>2, ReadEffect
  <2>2. \A s \in Threads : pc'[s] = "publish" => s # t /\ pc[s] = "publish" /\ req'[s] = req[s]
    BY <2>1
  <2>3. /\ \A r, s \in Threads : pc'[r] = "store_token" /\ pc'[s] = "store_token" => r = s
        /\ \A s \in Threads : pc'[s] = "store_token" => req'[s].token = token_num'
    BY <2>1
  <2>4. \A s \in Threads : pc'[s] = "publish" /\ req'[s].kind \in Tokened => req'[s].token < token_num'
    BY <2>1, <2>2 DEF TokenInv
  <2>5. \A r, s \in Threads :
          /\ pc'[r] = "publish" /\ req'[r].kind \in Tokened
          /\ pc'[s] = "publish" /\ req'[s].kind \in Tokened
          /\ req'[r].token = req'[s].token
          => r = s
    BY <2>1, <2>2 DEF TokenInv
  <2>6. \A s \in Threads, i \in Ids :
          pc'[s] = "publish" /\ req'[s].kind \in Tokened /\ up'[i].kind \in Tokened =>
             up'[i].token # req'[s].token
    BY <2>1, <2>2 DEF TokenInv
  <2> QED
    BY <2>1, <2>3, <2>4, <2>5, <2>6 DEF TokenInv
<1>3. CASE StoreToken(t)
  <2>1. /\ pc[t] = "store_token" /\ pc'[t] = "publish" /\ token_num' = req[t].token + 1
        /\ \A s \in Threads : s # t => pc'[s] = pc[s]
        /\ UNCHANGED <<req, up>>
    BY <1>3, StoreEffect
  <2>2. req[t].token = token_num /\ token_num' = token_num + 1 /\ token_num' > token_num
    BY <1>0, <2>1 DEF TokenInv
  <2>3. \A s \in Threads : pc'[s] # "store_token"
    BY <2>1 DEF TokenInv
  <2>4. \A s \in Threads : pc'[s] = "publish" /\ req'[s].kind \in Tokened => req'[s].token < token_num'
    BY <1>0, <2>1, <2>2 DEF TokenInv
  <2>5. \A s \in Threads : s # t /\ pc'[s] = "publish" /\ req'[s].kind \in Tokened =>
          req'[s].token # req'[t].token
    BY <1>0, <2>1, <2>2 DEF TokenInv
  <2>6. \A r, s \in Threads :
          /\ pc'[r] = "publish" /\ req'[r].kind \in Tokened
          /\ pc'[s] = "publish" /\ req'[s].kind \in Tokened
          /\ req'[r].token = req'[s].token
          => r = s
    BY <2>1, <2>5 DEF TokenInv
  <2>7. \A i \in Ids : up'[i].kind \in Tokened => up'[i].token < token_num' /\ up'[i].token # req'[t].token
    BY <1>0, <2>1, <2>2 DEF TokenInv
  <2>8. \A s \in Threads, i \in Ids :
          pc'[s] = "publish" /\ req'[s].kind \in Tokened /\ up'[i].kind \in Tokened =>
             up'[i].token # req'[s].token
    BY <2>1, <2>7 DEF TokenInv
  <2> QED
    BY <2>1, <2>3, <2>4, <2>6, <2>7, <2>8 DEF TokenInv
<1>4. CASE PublishOk(t) \/ PublishFail(t)
  <2>1. /\ pc[t] = "publish" /\ pc[t] \in Issuing /\ pc'[t] \in {"add", "return"}
        /\ \A s \in Threads : s # t => pc'[s] = pc[s]
        /\ \A j \in Ids : j # req[t].id => up'[j] = up[j]
        /\ \/ up' = up
           \/ /\ up'[req[t].id].kind = req[t].kind /\ up'[req[t].id].token = req[t].token
        /\ UNCHANGED <<req, token_num>>
    BY <1>4, PublishEffect, FailEffect DEF Issuing
  <2>2. CASE up' = up
    BY <2>1, <2>2, TokenQuiet
  <2>3. CASE up' # up
    <3>1. /\ up[req[t].id].kind = "none" /\ req[t].id \in 1 .. MaxReqs /\ req[t].id \in Ids
          /\ req[t].kind # "clear"
      BY <2>1, ReqTyped DEF NumberInv, Unsent
    <3>2. up'[req[t].id].kind = req[t].kind /\ up'[req[t].id].token = req[t].token
      BY <2>1, <2>3
    <3>3. \A s \in Threads : pc'[s] \in {"publish", "store_token"} => s # t /\ pc'[s] = pc[s]
      BY <2>1
    <3>4. /\ \A r, s \in Threads : pc'[r] = "store_token" /\ pc'[s] = "store_token" => r = s
          /\ \A s \in Threads : pc'[s] = "store_token" => req'[s].token = token_num'
          /\ \A s \in Threads : pc'[s] = "publish" /\ req'[s].kind \in Tokened => req'[s].token < token_num'
      BY <2>1, <3>3 DEF TokenInv
    <3>5. \A r, s \in Threads :
          /\ pc'[r] = "publish" /\ req'[r].kind \in Tokened
          /\ pc'[s] = "publish" /\ req'[s].kind \in Tokened
          /\ req'[r].token = req'[s].token
          => r = s
      BY <2>1, <3>3 DEF TokenInv
    <3>6. \A i \in Ids : up'[i].kind \in Tokened => up'[i].token < token_num'
      BY <2>1, <3>2 DEF TokenInv
    <3>7. \A i \in Ids : i # req[t].id /\ up'[i].kind \in Tokened /\ req[t].kind \in Tokened =>
            up'[i].token # req[t].token
      BY <2>1 DEF TokenInv
    <3>8. \A i, j \in Ids :
          up'[i].kind \in Tokened /\ up'[j].kind \in Tokened /\ up'[i].token = up'[j].token => i = j
      BY <2>1, <3>2, <3>7 DEF TokenInv
    <3>9. \A s \in Threads, i \in Ids :
          pc'[s] = "publish" /\ req'[s].kind \in Tokened /\ up'[i].kind \in Tokened =>
             up'[i].token # req'[s].token
      BY <2>1, <3>2, <3>3 DEF TokenInv
    <3>10. \A i \in 1 .. MaxReqs : up'[i].kind # "clear" /\ up'[i + MaxReqs].kind \in {"none", "clear"}
      BY <2>1, <3>1, <3>2, IdFacts DEF TokenInv
    <3>11. \A i \in 1 .. MaxReqs : up'[i + MaxReqs].kind = "clear" =>
          up'[i].kind = "get_sync" /\ up'[i + MaxReqs].token = up'[i].token
      BY <2>1, <3>1, IdFacts DEF TokenInv
    <3> QED
      BY <3>4, <3>5, <3>6, <3>8, <3>9, <3>10, <3>11 DEF TokenInv
  <2> QED
    BY <2>2, <2>3
<1>5. CASE AddRequest(t)
  <2>1. /\ pc'[t] \in {"wait", "return"} /\ \A s \in Threads : s # t => pc'[s] = pc[s]
        /\ UNCHANGED <<req, token_num, up>>
    BY <1>5, AddEffect
  <2> QED
    BY <2>1, TokenQuiet
<1>6. CASE Return(t)
  <2>1. /\ pc'[t] = "idle" /\ \A s \in Threads : s # t => pc'[s] = pc[s] /\ req'[s] = req[s]
        /\ UNCHANGED <<token_num, up>>
    BY <1>6, ReturnEffect
  <2> QED
    BY <2>1, TokenQuiet
<1> QED
  BY <1>1, <1>2, <1>3, <1>4, <1>5, <1>6 DEF RequestStep

LEMMA TokenMain == TypeInv /\ FrameInv /\ NumberInv /\ TokenInv /\ MainStep => TokenInv'
<1> SUFFICES ASSUME TypeInv, FrameInv, NumberInv, TokenInv, MainStep PROVE TokenInv'
  OBVIOUS
<1>1. \A s \in Threads : pc'[s] \in {"publish", "store_token"} => s # Main /\ pc'[s] = pc[s]
  BY MainEffect DEF Issuing
<1>2. req' = req /\ token_num' = token_num
  BY MainEffect
<1>3. CASE up' = up
  BY <1>1, <1>2, <1>3, TokenQuiet
<1>4. CASE up' # up
  <2>1. ClearPublish
    BY <1>4, MainEffect
  <2>2. /\ \A j \in Ids : j # ClearReq.id => up'[j] = up[j]
        /\ up[ClearReq.id].kind = "none" /\ up'[ClearReq.id].kind = "clear"
        /\ up'[ClearReq.id].token = ClearReq.token /\ pc[Main] = "clear_publish"
    BY <1>4, <2>1, ClearEffect
  <2>3. /\ ClearReq.id = Current.id + MaxReqs /\ Current.id \in 1 .. MaxReqs /\ ClearReq.token = Current.token
        /\ Sent(Current) /\ Current.kind = "get_sync" /\ ClearReq.id \in Ids
        /\ \A i \in 1 .. MaxReqs : i # ClearReq.id
        /\ \A i \in 1 .. MaxReqs : i # Current.id => i + MaxReqs # ClearReq.id
    BY <2>2, ClearFacts
  <2>4. "clear" \notin Tokened
    BY DEF Tokened, MuteKinds
  <2>5. \A i \in Ids : up'[i].kind \in Tokened => up'[i] = up[i]
    BY <2>2, <2>4
  <2>6. /\ \A s, t \in Threads : pc'[s] = "store_token" /\ pc'[t] = "store_token" => s = t
        /\ \A t \in Threads : pc'[t] = "store_token" => req'[t].token = token_num'
        /\ \A t \in Threads : pc'[t] = "publish" /\ req'[t].kind \in Tokened => req'[t].token < token_num'
    BY <1>1, <1>2 DEF TokenInv
  <2>7. \A s, t \in Threads :
          /\ pc'[s] = "publish" /\ req'[s].kind \in Tokened
          /\ pc'[t] = "publish" /\ req'[t].kind \in Tokened
          /\ req'[s].token = req'[t].token
          => s = t
    BY <1>1, <1>2 DEF TokenInv
  <2>8. /\ \A i \in Ids : up'[i].kind \in Tokened => up'[i].token < token_num'
        /\ \A i, j \in Ids :
          up'[i].kind \in Tokened /\ up'[j].kind \in Tokened /\ up'[i].token = up'[j].token => i = j
    BY <1>2, <2>5 DEF TokenInv
  <2>9. \A t \in Threads, i \in Ids :
          pc'[t] = "publish" /\ req'[t].kind \in Tokened /\ up'[i].kind \in Tokened =>
             up'[i].token # req'[t].token
    BY <1>1, <1>2, <2>5 DEF TokenInv
  <2>10. \A i \in 1 .. MaxReqs : up'[i].kind # "clear" /\ up'[i + MaxReqs].kind \in {"none", "clear"}
    BY <2>2, <2>3, IdFacts DEF TokenInv
  <2>11. ASSUME NEW i \in 1 .. MaxReqs, up'[i + MaxReqs].kind = "clear"
         PROVE  up'[i].kind = "get_sync" /\ up'[i + MaxReqs].token = up'[i].token
    <3>1. up'[i] = up[i]
      BY <2>2, <2>3, IdFacts
    <3>2. CASE i = Current.id
      BY <2>2, <2>3, <3>1, <3>2 DEF Sent
    <3>3. CASE i # Current.id
      BY <2>2, <2>3, <2>11, <3>1, <3>3, IdFacts DEF TokenInv
    <3> QED
      BY <3>2, <3>3
  <2> QED
    BY <2>6, <2>7, <2>8, <2>9, <2>10, <2>11 DEF TokenInv
<1> QED
  BY <1>3, <1>4

LEMMA TokenNext ==
    ASSUME "token_race" \notin Faults
    PROVE  TypeInv /\ FrameInv /\ NumberInv /\ TokenInv /\ [Next]_vars => TokenInv'
<1> SUFFICES ASSUME TypeInv, FrameInv, NumberInv, TokenInv, [Next]_vars PROVE TokenInv'
  OBVIOUS
<1>1. ASSUME NEW t \in Threads, Call(t) PROVE TokenInv'
  BY <1>1, TokenThread DEF Call, IOT_Template_Report, IOT_Template_GetStatus, IOT_Template_ControlReply
<1>2. CASE IOT_Template_Report_Sync \/ IOT_Template_GetStatus_sync
  BY <1>2, TokenThread DEF IOT_Template_Report_Sync, IOT_Template_GetStatus_sync, Threads
<1>3. CASE UNCHANGED vars \/ CloudControl \/ \E i \in Ids : TimerExpires(i)
  <2>1. UNCHANGED <<pc, req, up, token_num>>
    BY <1>3 DEF vars, templateVars, threadVars, CloudControl, TimerExpires
  <2> QED
    BY <2>1, TokenQuiet
<1>4. ASSUME NEW i \in Ids, CloudAnswer(i) PROVE TokenInv'
  BY <1>4, AnswerEffect, TokenQuiet
<1> QED
  BY <1>1, <1>2, <1>3, <1>4, TokenThread, TokenMain DEF Next, Cloud

-----------------------------------------------------------------------------
(* What the messages say.                                                  *)

\* What was answered stays as it was answered.
LEMMA AnsweredStays ==
    ASSUME TypeInv, FrameInv, NumberInv, [Next]_vars
    PROVE  \A i \in Ids : up[i].answer # "none" => up'[i] = up[i]
<1>1. \A i \in Ids : up[i].answer # "none" => up[i].kind # "none"
  BY DEF NumberInv
<1>2. ASSUME NEW t \in Threads, NEW kind, Begin(t, kind) PROVE up' = up
  BY <1>2, BeginEffect
<1>3. ASSUME NEW t \in Threads, RequestStep(t)
      PROVE  \A i \in Ids : up[i].answer # "none" => up'[i] = up[i]
  <2>1. CASE ReadToken(t) \/ StoreToken(t) \/ AddRequest(t) \/ Return(t)
    BY <2>1, ReadEffect, StoreEffect, AddEffect, ReturnEffect
  <2>2. CASE PublishOk(t) \/ PublishFail(t)
    <3>1. /\ pc[t] = "publish" /\ \A j \in Ids : j # req[t].id => up'[j] = up[j]
      BY <2>2, PublishEffect, FailEffect
    <3>2. up[req[t].id].kind = "none"
      BY <3>1 DEF NumberInv, Unsent
    <3> QED
      BY <1>1, <3>1, <3>2
  <2> QED
    BY <1>3, <2>1, <2>2 DEF RequestStep
<1>4. ASSUME MainStep PROVE \A i \in Ids : up[i].answer # "none" => up'[i] = up[i]
  BY <1>4, MainEffect, ClearEffect
<1>5. ASSUME NEW i \in Ids, CloudAnswer(i)
      PROVE  \A j \in Ids : up[j].answer # "none" => up'[j] = up[j]
  BY <1>5, AnswerEffect
<1>6. ASSUME UNCHANGED vars \/ CloudControl \/ \E i \in Ids : TimerExpires(i) PROVE up' = up
  BY <1>6 DEF vars, CloudControl, TimerExpires
<1> QED
  BY <1>2, <1>3, <1>4, <1>5, <1>6 DEF Next, Cloud, Call, IOT_Template_Report, IOT_Template_GetStatus,
     IOT_Template_ControlReply, IOT_Template_Report_Sync, IOT_Template_GetStatus_sync, Threads

\* m is the answer to a request of which p was published.
Answers(m, p) ==
    /\ p.kind \in Answered /\ p.token = m.token /\ p.answer = m.code
    /\ p.kind \in GetKinds => p.control = m.control /\ m.method = "get_status_reply"

\* An answer in the queue is that of a request, and only an answer starts a walk for
\* the requests it concerns.
MessageInv ==
    /\ \A m \in 1 .. Len(pMsgList) : pMsgList[m].method \in Answering =>
          \E i \in Ids : Answers(pMsgList[m], up[i])
    /\ iter.mode = "reply" /\ pc[Main] \in Walking \cup {"lock"} => Message.method \in Answering

LEMMA MessageInit == Init => MessageInv
<1> SUFFICES ASSUME Init PROVE MessageInv
  OBVIOUS
<1>1. Len(pMsgList) = 0 /\ iter.mode = "expired"
  BY DEF Init
<1> QED
  BY <1>1 DEF MessageInv

\* The queue afterwards: nothing in it is new, or one message arrived.
LEMMA QueueEffect ==
    ASSUME TypeInv, FrameInv, NumberInv, [Next]_vars
    PROVE  \/ pMsgList' = pMsgList
           \/ FreeMessage
           \/ CloudControl
           \/ \E i \in Ids : CloudAnswer(i)
<1>1. ASSUME NEW t \in Threads, NEW kind, Begin(t, kind) PROVE pMsgList' = pMsgList
  BY <1>1, BeginEffect
<1>2. ASSUME NEW t \in Threads, RequestStep(t) PROVE pMsgList' = pMsgList
  BY <1>2, ReadEffect, StoreEffect, PublishEffect, FailEffect, AddEffect, ReturnEffect DEF RequestStep
<1>3. ASSUME UNCHANGED vars \/ \E i \in Ids : TimerExpires(i) PROVE pMsgList' = pMsgList
  BY <1>3 DEF vars, TimerExpires
<1> QED
  BY <1>1, <1>2, <1>3, MainEffect DEF Next, Cloud, Call, IOT_Template_Report, IOT_Template_GetStatus,
     IOT_Template_ControlReply, IOT_Template_Report_Sync, IOT_Template_GetStatus_sync, Threads

\* The walk goes on with the message it started with.
LEMMA ModeMain ==
    ASSUME TypeInv, MessageInv, MainStep, iter'.mode = "reply", pc'[Main] \in Walking \cup {"lock"}
    PROVE  pMsgList' = pMsgList /\ Message.method \in Answering
<1>0. /\ TypeOK /\ PlaceInv /\ pc \in [Threads -> Places] /\ Main \in Threads
      /\ iter \in Iters /\ iter.back \in {"idle", "wait"}
  BY IdFacts DEF TypeInv, TypeOK, Iters
<1>1. CASE pc[Main] \in Walking \cup {"lock"} /\ iter.mode = "reply"
  <2>1. ~FreeMessage
    BY <1>1 DEF FreeMessage, Goto, Walking
  <2> QED
    BY <1>1, <2>1, MainEffect DEF MessageInv
<1>2. CASE HandleMessage
  <2>1. Message.method \in {"none", "control", "get_status_reply", "reply"}
    BY <1>0, <1>2, MessageTyped DEF HandleMessage, Goto, PlaceInv
  <2>2. pc'[Main] = "lock" => Message.method \notin {"none", "control"}
    BY <1>0, <1>2 DEF HandleMessage, Goto
  <2>3. pc'[Main] \in {"lock", "free", "control"}
    BY <1>0, <1>2 DEF HandleMessage, Goto
  <2> QED
    BY <1>2, <2>1, <2>2, <2>3 DEF HandleMessage, Answering, Walking
<1>3. CASE IOT_Template_Construct \/ SyncDone \/ IOT_Template_Yield \/ HandleControl \/ FreeMessage \/ TraverseEnd
  <2>1. CASE IOT_Template_Construct \/ SyncDone \/ HandleControl
    BY <1>0, <2>1 DEF IOT_Template_Construct, SyncDone, HandleControl, Goto, Walking
  <2>2. CASE IOT_Template_Yield
    BY <1>0, <2>2 DEF IOT_Template_Yield, Iters
  <2>3. CASE FreeMessage
    BY <1>0, <2>3 DEF FreeMessage, Iters
  <2>4. CASE TraverseEnd
    BY <1>0, <2>4 DEF TraverseEnd, Goto, Walking
  <2> QED
    BY <1>3, <2>1, <2>2, <2>3, <2>4
<1>4. CASE TraverseLock \/ TraverseSkip
  <2>1. CASE TraverseLock
    BY <1>0, <1>1, <2>1 DEF TraverseLock, Goto, Iters
  <2>2. CASE TraverseSkip
    BY <1>0, <1>1, <2>2 DEF TraverseSkip, Goto, Iters, Walking
  <2> QED
    BY <1>4, <2>1, <2>2
<1>5. CASE ExpireEntry \/ ReplyGarbled \/ ReplyVerdict \/ ReplyControl
  <2>1. pc[Main] = "walk" /\ (iter' = iter \/ iter' = [iter EXCEPT !.at = @ - 1])
    <3>1. CASE ExpireEntry
      BY <3>1 DEF ExpireEntry, RemoveCurrent, Goto
    <3>2. CASE ReplyGarbled
      BY <3>2 DEF ReplyGarbled, RemoveCurrent, Goto
    <3>3. CASE ReplyVerdict
      BY <3>3 DEF ReplyVerdict, RemoveCurrent, Goto
    <3>4. CASE ReplyControl
      BY <3>4 DEF ReplyControl, Goto
    <3> QED
      BY <1>5, <3>1, <3>2, <3>3, <3>4
  <2>2. iter'.mode = iter.mode
    BY <1>0, <2>1 DEF Iters
  <2> QED
    BY <1>1, <2>1, <2>2 DEF Walking
<1>6. CASE ClearPublish \/ ClearAdd \/ RemoveEntry
  <2>1. pc[Main] \in Clearing
    BY <1>6 DEF ClearPublish, ClearAdd, RemoveEntry, Goto, Clearing
  <2>2. iter.mode = "reply" /\ pc[Main] \in Walking
    BY <1>0, <2>1 DEF PlaceInv, Clearing, Walking
  <2> QED
    BY <1>1, <2>2
<1> QED
  BY <1>2, <1>3, <1>4, <1>5, <1>6 DEF MainStep

LEMMA MessageNext == TypeInv /\ FrameInv /\ NumberInv /\ MessageInv /\ [Next]_vars => MessageInv'
<1> SUFFICES ASSUME TypeInv, FrameInv, NumberInv, MessageInv, [Next]_vars PROVE MessageInv'
  OBVIOUS
<1>0. /\ TypeOK /\ PlaceInv /\ pMsgList \in Seq(Messages) /\ Len(pMsgList) \in Nat
      /\ iter \in Iters
  BY DEF TypeInv, TypeOK
<1>a. ASSUME NEW m \in 1 .. Len(pMsgList), pMsgList[m].method \in Answering
      PROVE  \E i \in Ids : Answers(pMsgList[m], up'[i])
  <2>1. PICK i \in Ids : Answers(pMsgList[m], up[i])
    BY <1>a DEF MessageInv
  <2>2. pMsgList[m] \in Messages
    BY <1>0
  <2>3. up[i].answer # "none"
    BY <2>1, <2>2 DEF Answers, Messages, Verdicts
  <2>4. up'[i] = up[i]
    BY <2>3, AnsweredStays
  <2> QED
    BY <2>1, <2>4
<1>b. pMsgList # <<>> /\ (pMsgList' = pMsgList \/ \E m \in Messages : Arrive(m)) => Message' = Message
  <2>1. ASSUME NEW m \in Messages, Arrive(m), pMsgList # <<>> PROVE Message' = Message
    <3>1. Len(pMsgList) >= 1 /\ pMsgList' \in Seq(Messages) /\ Len(pMsgList') >= 1
          /\ pMsgList'[1] = pMsgList[1]
      BY <1>0, <2>1, ArriveTyped
    <3> QED
      BY <1>0, <3>1 DEF Message
  <2>2. pMsgList' = pMsgList => Message' = Message
    BY DEF Message
  <2> QED
    BY <2>1, <2>2
\* No message arrives: the others were in the queue before.
<1>c. ASSUME \/ pMsgList' = pMsgList
             \/ FreeMessage
      PROVE  \A m \in 1 .. Len(pMsgList') : pMsgList'[m].method \in Answering =>
                \E i \in Ids : Answers(pMsgList'[m], up'[i])
  <2> SUFFICES ASSUME NEW m \in 1 .. Len(pMsgList'), pMsgList'[m].method \in Answering
               PROVE  \E i \in Ids : Answers(pMsgList'[m], up'[i])
    OBVIOUS
  <2>1. CASE pMsgList' = pMsgList
    BY <1>a, <2>1
  <2>2. CASE FreeMessage
    <3>1. pMsgList # <<>> /\ pMsgList' = Tail(pMsgList)
      BY <1>0, <2>2 DEF FreeMessage, Goto, PlaceInv
    <3>2. m + 1 \in 1 .. Len(pMsgList) /\ pMsgList'[m] = pMsgList[m + 1]
      BY <1>0, <3>1
    <3> QED
      BY <1>a, <3>2
  <2> QED
    BY <1>c, <2>1, <2>2
\* A message arrives behind the others.
<1>d. ASSUME NEW x \in Messages, Arrive(x), UNCHANGED <<pc, iter>>,
             x.method \in Answering => \E i \in Ids : Answers(x, up'[i])
      PROVE  MessageInv'
  <2>1. ASSUME NEW m \in 1 .. Len(pMsgList'), pMsgList'[m].method \in Answering
        PROVE  \E i \in Ids : Answers(pMsgList'[m], up'[i])
    <3>1. CASE m \in 1 .. Len(pMsgList)
      BY <1>0, <1>a, <1>d, <2>1, <3>1, ArriveTyped
    <3>2. CASE m \notin 1 .. Len(pMsgList)
      <4>1. pMsgList'[m] = x
        BY <1>0, <1>d, <3>2, ArriveTyped
      <4> QED
        BY <1>d, <2>1, <4>1
    <3> QED
      BY <3>1, <3>2
  <2>2. iter.mode = "reply" => Message' = Message
    BY <1>0, <1>b, <1>d DEF PlaceInv
  <2> QED
    BY <1>d, <2>1, <2>2 DEF MessageInv
\* No message arrives, and Main is where it was as far as the walk is concerned.
<1>e. ASSUME pMsgList' = pMsgList, iter' = iter,
             pc'[Main] \in Walking \cup {"lock"} => pc[Main] \in Walking \cup {"lock"}
      PROVE  MessageInv'
  <2>1. iter.mode = "reply" => Message' = Message
    BY <1>0, <1>b, <1>e DEF PlaceInv
  <2> QED
    BY <1>c, <1>e, <2>1 DEF MessageInv
<1>1. ASSUME NEW t \in Threads, NEW kind, Begin(t, kind) PROVE MessageInv'
  <2>1. pMsgList' = pMsgList /\ iter' = iter /\ pc'[t] \notin Walking \cup {"lock"}
        /\ (Main # t => pc'[Main] = pc[Main])
    BY <1>1, BeginEffect, IdFacts DEF Walking
  <2> QED
    BY <1>e, <2>1
<1>2. ASSUME NEW t \in Threads, RequestStep(t) PROVE MessageInv'
  <2>1. pMsgList' = pMsgList /\ iter' = iter /\ pc'[t] \notin Walking \cup {"lock"}
        /\ (Main # t => pc'[Main] = pc[Main])
    <3>1. CASE ReadToken(t) \/ StoreToken(t)
      BY <3>1, ReadEffect, StoreEffect, IdFacts DEF Walking
    <3>2. CASE PublishOk(t) \/ PublishFail(t)
      BY <3>2, PublishEffect, FailEffect, IdFacts DEF Walking
    <3>3. CASE AddRequest(t) \/ Return(t)
      BY <3>3, AddEffect, ReturnEffect, IdFacts DEF Walking
    <3> QED
      BY <1>2, <3>1, <3>2, <3>3 DEF RequestStep
  <2> QED
    BY <1>e, <2>1
<1>3. CASE MainStep
  <2>1. \A m \in 1 .. Len(pMsgList') : pMsgList'[m].method \in Answering =>
          \E i \in Ids : Answers(pMsgList'[m], up'[i])
    BY <1>3, <1>c, MainEffect
  <2>2. iter'.mode = "reply" /\ pc'[Main] \in Walking \cup {"lock"} => Message'.method \in Answering
    <3>1. pMsgList' = pMsgList => Message' = Message
      BY DEF Message
    <3> QED
      BY <1>3, <3>1, ModeMain
  <2> QED
    BY <2>1, <2>2 DEF MessageInv
<1>4. CASE UNCHANGED vars \/ \E i \in Ids : TimerExpires(i)
  <2>1. UNCHANGED <<pMsgList, iter, pc>>
    BY <1>4 DEF vars, threadVars, TimerExpires
  <2> QED
    BY <1>e, <2>1
<1>5. CASE CloudControl
  <2>1. PICK method \in {"control", "none"} :
          Arrive([method |-> method, token |-> ControlToken(controls'),
                  code |-> "garbled", control |-> FALSE])
    BY <1>5 DEF CloudControl
  <2> DEFINE x == [method |-> method, token |-> ControlToken(controls'),
                   code |-> "garbled", control |-> FALSE]
  <2>2. x \in Messages /\ x.method \notin Answering
    <3>1. ControlToken(controls') \in Int
      BY <1>0, <1>5, TemplateAssumption DEF CloudControl, TypeOK, ControlToken
    <3> QED
      BY <3>1 DEF Messages, Answering
  <2>3. Arrive(x) /\ UNCHANGED <<pc, iter>>
    BY <1>5, <2>1 DEF CloudControl, threadVars
  <2> HIDE DEF x
  <2> QED
    BY <1>d, <2>2, <2>3
<1>6. ASSUME NEW i \in Ids, CloudAnswer(i) PROVE MessageInv'
  <2>1. PICK x \in Messages :
          /\ Arrive(x) /\ x.token = up[i].token /\ x.code = up'[i].answer
          /\ x.control = up'[i].control
          /\ x.method = (IF up[i].kind \in GetKinds THEN "get_status_reply" ELSE "reply")
    BY <1>6, AnswerEffect
  <2>2. /\ up[i].kind \in Kinds \ {"control_reply"}
        /\ up'[i].kind = up[i].kind /\ up'[i].token = up[i].token /\ UNCHANGED <<pc, iter>>
    BY <1>6, AnswerEffect
  <2>3. Answers(x, up'[i])
    BY <2>1, <2>2 DEF Answers, Answered
  <2> QED
    BY <1>d, <2>1, <2>2, <2>3
<1> QED
  BY <1>1, <1>2, <1>3, <1>4, <1>5, <1>6 DEF Next, Cloud, Call, IOT_Template_Report, IOT_Template_GetStatus,
     IOT_Template_ControlReply, IOT_Template_Report_Sync, IOT_Template_GetStatus_sync, Threads

-----------------------------------------------------------------------------
(* What a synchronous call returns.                                        *)

\* The message that acknowledges a synchronous request is the answer to it: its
\* token is that of no other request, and it is not cleared yet.
LEMMA OwnAnswer ==
    ASSUME TypeInv, FrameInv, NumberInv, TokenInv, MessageInv,
           pc[Main] = "walk", AtEntry("reply"), Current.kind \in SyncKinds
    PROVE  /\ Current.id = req[Main].id /\ Current.id \in 1 .. MaxReqs
           /\ up[Current.id].answer = Message.code
           /\ Current.kind = "get_sync" =>
                up[Current.id].control = Message.control /\ Message.method = "get_status_reply"
<1>0. /\ TypeOK /\ PlaceInv /\ iter.at \in 1 .. Len(reply_list)
      /\ Current.token = Message.token /\ iter.mode = "reply"
  BY DEF TypeInv, TypeOK, PlaceInv, Walking, AtEntry, Concerned, Iters
<1>1. /\ Current.id = req[Main].id /\ Current.id \in 1 .. MaxReqs /\ Current.id \in Ids
      /\ up[Current.id].kind = Current.kind /\ up[Current.id].token = Message.token
  <2>1. Current.id = req[Main].id /\ Sent(Current)
    BY <1>0 DEF FrameInv, NumberInv, Current
  <2>2. Current.id \in 1 .. MaxReqs
    BY <1>0 DEF TypeInv, ReqInv, Current, SyncKinds
  <2> QED
    BY <1>0, <2>1, <2>2, IdFacts DEF Sent
<1>2. PICK i \in Ids : Answers(Message, up[i])
  <2>1. pMsgList # <<>> /\ Message = pMsgList[1] /\ 1 \in 1 .. Len(pMsgList)
    BY <1>0, MessageTyped DEF PlaceInv
  <2>2. Message.method \in Answering
    BY <1>0 DEF MessageInv, Walking
  <2> QED
    BY <2>1, <2>2 DEF MessageInv
<1>3. Current.kind \in Tokened
  BY DEF Tokened, Kinds, MuteKinds, SyncKinds
<1>4. i = Current.id
  <2>1. CASE up[i].kind \in Tokened
    BY <1>1, <1>2, <1>3, <2>1 DEF TokenInv, Answers
  <2>2. CASE up[i].kind = "clear"
    <3>1. PICK j \in 1 .. MaxReqs : i = j + MaxReqs
      <4>1. i \notin 1 .. MaxReqs
        BY <2>2 DEF TokenInv
      <4>2. i - MaxReqs \in 1 .. MaxReqs /\ i = (i - MaxReqs) + MaxReqs
        BY <4>1, IdFacts DEF Ids
      <4> QED
        BY <4>2
    <3>2. up[j].kind = "get_sync" /\ up[j].token = Message.token /\ j \in Ids
      BY <1>2, <2>2, <3>1, IdFacts DEF TokenInv, Answers
    <3>3. "get_sync" \in Tokened
      BY DEF Tokened, Kinds, MuteKinds, SyncKinds
    <3>4. j = Current.id
      BY <1>1, <1>3, <3>2, <3>3 DEF TokenInv
    <3>5. NotCleared(Current.id)
      BY <1>0, <1>1, <3>2, <3>4 DEF NumberInv, Current
    <3> QED
      BY <2>2, <3>1, <3>4, <3>5 DEF NotCleared
  <2>3. up[i].kind \in Tokened \cup {"clear"}
    BY <1>2 DEF Answers, Answered, Tokened, MuteKinds
  <2> QED
    BY <2>1, <2>2, <2>3
<1> QED
  BY <1>1, <1>2, <1>4 DEF Answers, GetKinds

\* The cloud was asked to clear the control data that came with the status r asked
\* for, Main is about to ask, or that failed.
Cleared(r) ==
    \/ pc[Main] = "clear_publish"
    \/ up[r.id + MaxReqs].kind = "clear" /\ up[r.id + MaxReqs].token = r.token
    \/ up[r.id + MaxReqs].kind = "none" /\ told[r.id + MaxReqs] = <<"failed">>

\* The acknowledgement of a synchronous call is what the cloud said of its request,
\* and the call succeeds with it only.
SyncInv ==
    /\ \A k \in 1 .. Len(reply_list) : reply_list[k].kind \in SyncKinds =>
          reply_list[k].kind = req[Main].kind /\ reply_list[k].token = req[Main].token
    /\ req[Main].kind \in SyncKinds /\ ack = "accepted" =>
          /\ req[Main].id \in 1 .. MaxReqs
          /\ up[req[Main].id].answer = "accepted"
          /\ req[Main].kind = "get_sync" /\ up[req[Main].id].control => Cleared(req[Main])
    /\ req[Main].kind \in SyncKinds /\ pc[Main] = "return" /\ result[Main] = "SUCCESS" =>
          ack = "accepted"

LEMMA SyncInit == Init => SyncInv
<1> SUFFICES ASSUME Init PROVE SyncInv
  OBVIOUS
<1>1. req[Main].kind = "none" /\ Len(reply_list) = 0
  BY IdFacts DEF Init, NoReq
<1> QED
  BY <1>1 DEF SyncInv, SyncKinds

\* What Main's steps other than ClearPublish leave of the requests, and how the
\* acknowledgement and the return code come about.
LEMMA SyncEffect ==
    ASSUME TypeInv, FrameInv, NumberInv, MainStep, ~ClearPublish
    PROVE  /\ up' = up /\ pc[Main] # "clear_publish"
           /\ \A i \in Ids : up[i].kind = "none" => told'[i] = told[i]
           /\ \A k \in 1 .. Len(reply_list') : reply_list'[k].kind \in SyncKinds =>
                 \E j \in 1 .. Len(reply_list) :
                    reply_list'[k].kind = reply_list[j].kind /\ reply_list'[k].token = reply_list[j].token
           /\ \/ ack' = ack
              \/ ReplyVerdict /\ Current.kind \in SyncKinds /\ ack' = Message.code
              \/ ReplyControl /\ Current.kind \in SyncKinds /\ ack' = "accepted"
           /\ pc'[Main] = "return" => SyncDone
<1>0. /\ TypeOK /\ PlaceInv /\ pc \in [Threads -> Places] /\ Main \in Threads
      /\ Len(reply_list) \in Nat /\ iter.back \in {"idle", "wait"} /\ up' = up
  BY IdFacts, MainEffect DEF TypeInv, TypeOK, Iters
<1>a. pc[Main] \in Walking /\ iter.at > 0 =>
        /\ iter.at \in 1 .. Len(reply_list)
        /\ Current.id \in Ids /\ up[Current.id].kind # "none"
  <2>1. pc[Main] \in Walking /\ iter.at > 0 => iter.at \in 1 .. Len(reply_list)
    BY <1>0 DEF PlaceInv, TypeOK, Iters
  <2>2. "none" \notin Kinds
    BY DEF Kinds, SyncKinds
  <2> QED
    BY <1>0, <2>1, <2>2, EntryTyped DEF Current, NumberInv, Sent
<1>b. ASSUME NEW what \in Outcomes, Hear(Current.id, what), pc[Main] \in Walking, iter.at > 0
      PROVE  \A i \in Ids : up[i].kind = "none" => told'[i] = told[i]
  BY <1>0, <1>a, <1>b, HearTyped
<1>c. ASSUME RemoveCurrent, pc[Main] \in Walking, iter.at > 0
      PROVE  \A k \in 1 .. Len(reply_list') : \E j \in 1 .. Len(reply_list) :
                reply_list'[k] = reply_list[j]
  BY <1>0, <1>a, <1>c, RemovedFrom
<1>1. CASE IOT_Template_Construct \/ IOT_Template_Yield \/ HandleMessage \/ HandleControl
           \/ FreeMessage \/ TraverseLock \/ TraverseEnd \/ TraverseSkip
  <2>1. /\ UNCHANGED <<reply_list, told, ack>> /\ pc[Main] # "clear_publish" /\ pc'[Main] # "return"
    <3>1. CASE IOT_Template_Construct
      BY <1>0, <3>1 DEF IOT_Template_Construct, Goto
    <3>2. CASE IOT_Template_Yield
      BY <1>0, <3>2 DEF IOT_Template_Yield, templateVars, Goto
    <3>3. CASE HandleMessage
      BY <1>0, <3>3 DEF HandleMessage, templateVars, Goto
    <3>4. CASE HandleControl
      BY <1>0, <3>4 DEF HandleControl, Goto
    <3>5. CASE FreeMessage
      BY <1>0, <3>5 DEF FreeMessage, templateVars, Goto
    <3>6. CASE TraverseLock
      BY <1>0, <3>6 DEF TraverseLock, Goto
    <3>7. CASE TraverseEnd
      BY <1>0, <3>7 DEF TraverseEnd, Goto
    <3>8. CASE TraverseSkip
      BY <1>0, <3>8 DEF TraverseSkip, templateVars, Goto
    <3> QED
      BY <1>1, <3>1, <3>2, <3>3, <3>4, <3>5, <3>6, <3>7, <3>8
  <2> QED
    BY <1>0, <2>1
<1>2. CASE SyncDone
  BY <1>0, <1>2 DEF SyncDone, templateVars, Goto
<1>3. CASE ExpireEntry \/ ReplyGarbled \/ ReplyVerdict
  <2>1. /\ pc[Main] = "walk" /\ pc'[Main] = "walk" /\ iter.at > 0
        /\ \/ RemoveCurrent /\ \E what \in Outcomes : Hear(Current.id, what)
           \/ UNCHANGED <<reply_list, told>>
        /\ \/ ack' = ack
           \/ ReplyVerdict /\ Current.kind \in SyncKinds /\ ack' = Message.code
    <3>1. CASE ExpireEntry
      BY <1>0, <3>1, GotoTyped DEF ExpireEntry, AtEntry, Outcomes, Places
    <3>2. CASE ReplyGarbled
      BY <1>0, <3>2, GotoTyped DEF ReplyGarbled, AtEntry, Outcomes, Places
    <3>3. CASE ReplyVerdict
      <4>1. Message.code \in Verdicts
        BY <1>0, <3>3, MessageTyped DEF ReplyVerdict, AtEntry, PlaceInv
      <4> QED
        BY <1>0, <3>3, <4>1, GotoTyped DEF ReplyVerdict, AtEntry, Outcomes, Places, AckAfter
    <3> QED
      BY <1>3, <3>1, <3>2, <3>3
  <2>2. pc[Main] \in Walking
    BY <2>1 DEF Walking
  <2>3. CASE RemoveCurrent /\ \E what \in Outcomes : Hear(Current.id, what)
    <3>1. \A i \in Ids : up[i].kind = "none" => told'[i] = told[i]
      BY <1>b, <2>1, <2>2, <2>3
    <3>2. \A k \in 1 .. Len(reply_list') : \E j \in 1 .. Len(reply_list) : reply_list'[k] = reply_list[j]
      BY <1>c, <2>1, <2>2, <2>3
    <3>3. \A k \in 1 .. Len(reply_list') : \E j \in 1 .. Len(reply_list) :
            reply_list'[k].kind = reply_list[j].kind /\ reply_list'[k].token = reply_list[j].token
      BY <3>2
    <3> QED
      BY <1>0, <2>1, <3>1, <3>3
  <2>4. CASE UNCHANGED <<reply_list, told>>
    BY <1>0, <2>1, <2>4
  <2> QED
    BY <2>1, <2>3, <2>4
<1>4. CASE ReplyControl
  <2>1. /\ pc[Main] = "walk" /\ pc'[Main] \in {"walk", "clear_publish", "remove"} /\ iter.at > 0
        /\ reply_list' = reply_list
        /\ (Hear(Current.id, "accepted") \/ told' = told)
        /\ \/ ack' = ack
           \/ ReplyControl /\ Current.kind \in SyncKinds /\ ack' = "accepted"
    BY <1>0, <1>4 DEF ReplyControl, AtEntry, Goto, AckAfter
  <2>2. pc[Main] \in Walking /\ "accepted" \in Outcomes
    BY <2>1 DEF Walking, Outcomes, Verdicts
  <2>3. \A i \in Ids : up[i].kind = "none" => told'[i] = told[i]
    BY <1>b, <2>1, <2>2
  <2> QED
    BY <1>0, <2>1, <2>3
<1>5. CASE RemoveEntry
  <2>1. /\ pc[Main] = "remove" /\ pc'[Main] = "walk" /\ iter.at > 0 /\ RemoveCurrent
        /\ UNCHANGED <<told, ack>>
    BY <1>0, <1>5 DEF RemoveEntry, Goto, PlaceInv, Clearing
  <2>2. \A k \in 1 .. Len(reply_list') : \E j \in 1 .. Len(reply_list) : reply_list'[k] = reply_list[j]
    BY <1>c, <2>1 DEF Walking
  <2>3. \A k \in 1 .. Len(reply_list') : \E j \in 1 .. Len(reply_list) :
          reply_list'[k].kind = reply_list[j].kind /\ reply_list'[k].token = reply_list[j].token
    BY <2>2
  <2> QED
    BY <1>0, <2>1, <2>3
<1>6. CASE ClearAdd
  <2>1. pc[Main] = "clear_add" /\ pc'[Main] = "remove" /\ ack' = ack /\ Enlist(ClearReq)
    BY <1>0, <1>6 DEF ClearAdd, Goto
  <2>2. up[ClearReq.id].kind = "clear"
    BY <2>1, ClearFacts DEF NumberInv, Sent
  <2>3. "clear" \in Kinds /\ "clear" \notin SyncKinds
    BY DEF Kinds, SyncKinds
  <2>4. \/ /\ reply_list' = reply_list /\ \A j \in Ids : j # ClearReq.id => told'[j] = told[j]
        \/ /\ told' = told /\ Len(reply_list') = Len(reply_list) + 1
           /\ \A k \in 1 .. Len(reply_list) : reply_list'[k] = reply_list[k]
           /\ reply_list'[Len(reply_list) + 1] = Entry(ClearReq)
    BY <1>0, <2>1, <2>3, ClearFacts, EnlistTyped
  <2>5. Entry(ClearReq).kind = "clear"
    BY DEF Entry, ClearReq
  <2>6. ASSUME NEW k \in 1 .. Len(reply_list'), reply_list'[k].kind \in SyncKinds
        PROVE  k \in 1 .. Len(reply_list) /\ reply_list'[k] = reply_list[k]
    BY <1>0, <2>3, <2>4, <2>5, <2>6
  <2> QED
    BY <1>0, <2>1, <2>2, <2>4, <2>6
<1> QED
  BY <1>1, <1>2, <1>3, <1>4, <1>5, <1>6 DEF MainStep

\* A step that is none of Main's.
LEMMA SyncOthers ==
    ASSUME TypeInv, FrameInv, NumberInv, SyncInv, [Next]_vars,
           UNCHANGED <<ack, req[Main], pc[Main], result[Main]>>,
           \A i \in 1 .. MaxReqs :
              /\ up'[i + MaxReqs].kind = up[i + MaxReqs].kind
              /\ up'[i + MaxReqs].token = up[i + MaxReqs].token
              /\ told'[i + MaxReqs] = told[i + MaxReqs],
           \A k \in 1 .. Len(reply_list') : reply_list'[k].kind \in SyncKinds =>
              \E j \in 1 .. Len(reply_list) :
                 reply_list'[k].kind = reply_list[j].kind /\ reply_list'[k].token = reply_list[j].token
    PROVE  SyncInv'
<1>1. \A k \in 1 .. Len(reply_list') : reply_list'[k].kind \in SyncKinds =>
         reply_list'[k].kind = req'[Main].kind /\ reply_list'[k].token = req'[Main].token
  BY DEF SyncInv
<1>2. ASSUME req'[Main].kind \in SyncKinds, ack' = "accepted"
      PROVE  /\ req'[Main].id \in 1 .. MaxReqs
             /\ up'[req'[Main].id].answer = "accepted"
             /\ req'[Main].kind = "get_sync" /\ up'[req'[Main].id].control => Cleared(req[Main])'
  <2>1. /\ req[Main].id \in 1 .. MaxReqs /\ up[req[Main].id].answer = "accepted"
        /\ req[Main].kind = "get_sync" /\ up[req[Main].id].control => Cleared(req[Main])
    BY <1>2 DEF SyncInv
  <2>2. up'[req[Main].id] = up[req[Main].id]
    BY <2>1, IdFacts, AnsweredStays
  <2> QED
    BY <2>1, <2>2 DEF Cleared
<1>3. req'[Main].kind \in SyncKinds /\ pc'[Main] = "return" /\ result'[Main] = "SUCCESS" => ack' = "accepted"
  BY DEF SyncInv
<1> QED
  BY <1>1, <1>2, <1>3 DEF SyncInv

\* A step of Main's own call: nothing is acknowledged.
LEMMA SyncCalls ==
    ASSUME ack' # "accepted",
           \A k \in 1 .. Len(reply_list') : reply_list'[k].kind \in SyncKinds =>
              reply_list'[k].kind = req'[Main].kind /\ reply_list'[k].token = req'[Main].token,
           pc'[Main] = "return" => req'[Main].kind \notin SyncKinds \/ result'[Main] # "SUCCESS"
    PROVE  SyncInv'
BY DEF SyncInv

LEMMA SyncThread ==
    ASSUME TypeInv, FrameInv, NumberInv, SyncInv, [Next]_vars, NEW t \in Threads,
           RequestStep(t) \/ \E kind : Begin(t, kind)
    PROVE  SyncInv'
<1>0. TypeOK /\ Len(reply_list) \in Nat /\ \A i \in 1 .. MaxReqs : i + MaxReqs \in Ids
  <2>1. TypeOK /\ Len(reply_list) \in Nat
    BY DEF TypeInv, TypeOK
  <2> QED
    BY <2>1, IdFacts
<1>a. \A s \in Threads : pc[s] \in Issuing =>
        req[s].id \in 1 .. MaxReqs /\ \A i \in 1 .. MaxReqs : i + MaxReqs # req[s].id
  BY ReqTyped, IdFacts
<1>b. /\ Main \in Threads
      /\ pc[Main] \in Issuing \cup {"idle"} =>
           ack = "none" /\ \A k \in 1 .. Len(reply_list) : reply_list[k].kind \notin SyncKinds
      /\ pc[Main] = "return" => \A k \in 1 .. Len(reply_list) : reply_list[k].kind \notin SyncKinds
  BY IdFacts DEF FrameInv, Waits, Issuing, Yielding, Walking
<1>1. ASSUME NEW kind, Begin(t, kind) PROVE SyncInv'
  <2>1. /\ pc[t] = "idle" /\ pc'[t] # "return"
        /\ \A s \in Threads : s # t => pc'[s] = pc[s] /\ req'[s] = req[s]
        /\ UNCHANGED <<reply_list, up, told, ack, result>>
    BY <1>1, BeginEffect
  <2>2. CASE t = Main
    BY <1>b, <2>1, <2>2, SyncCalls
  <2>3. CASE t # Main
    BY <1>b, <2>1, <2>3, SyncOthers
  <2> QED
    BY <2>2, <2>3
<1>2. CASE ReadToken(t) \/ StoreToken(t)
  <2>1. /\ pc[t] \in Issuing /\ pc'[t] # "return"
        /\ \A s \in Threads : s # t => pc'[s] = pc[s] /\ req'[s] = req[s]
        /\ UNCHANGED <<reply_list, up, told, ack, result>>
    BY <1>2, ReadEffect, StoreEffect DEF Issuing
  <2>2. CASE t = Main
    BY <1>b, <2>1, <2>2, SyncCalls
  <2>3. CASE t # Main
    BY <1>b, <2>1, <2>3, SyncOthers
  <2> QED
    BY <2>2, <2>3
<1>3. CASE PublishOk(t) \/ PublishFail(t)
  <2>1. /\ pc[t] \in Issuing /\ (pc'[t] = "return" => result'[t] = "FAILURE")
        /\ \A s \in Threads : s # t => pc'[s] = pc[s] /\ result'[s] = result[s]
        /\ \A j \in Ids : j # req[t].id => up'[j] = up[j] /\ told'[j] = told[j]
        /\ UNCHANGED <<reply_list, req, ack>>
    BY <1>3, PublishEffect, FailEffect DEF Issuing
  <2>2. CASE t = Main
    BY <1>b, <2>1, <2>2, SyncCalls
  <2>3. CASE t # Main
    <3>1. \A i \in 1 .. MaxReqs : up'[i + MaxReqs] = up[i + MaxReqs] /\ told'[i + MaxReqs] = told[i + MaxReqs]
      BY <1>0, <1>a, <2>1
    <3> QED
      BY <1>b, <2>1, <2>3, <3>1, SyncOthers
  <2> QED
    BY <2>2, <2>3
<1>4. CASE AddRequest(t)
  <2>1. /\ pc[t] \in Issuing /\ \A s \in Threads : s # t => pc'[s] = pc[s] /\ result'[s] = result[s]
        /\ \A j \in Ids : j # req[t].id => told'[j] = told[j]
        /\ UNCHANGED <<up, req, ack>>
        /\ pc'[t] = "return" => req[t].kind \notin SyncKinds \/ result'[t] = "MAX_APPENDING"
    BY <1>4, AddEffect DEF Issuing
  <2>2. \A k \in 1 .. Len(reply_list') :
          \/ k \in 1 .. Len(reply_list) /\ reply_list'[k] = reply_list[k]
          \/ reply_list'[k] = Entry(req[t])
    BY <1>0, <1>4, AddEffect
  <2>3. Entry(req[t]).kind = req[t].kind /\ Entry(req[t]).token = req[t].token
    BY DEF Entry
  <2>4. CASE t = Main
    <3>1. \A k \in 1 .. Len(reply_list') : reply_list'[k].kind \in SyncKinds =>
            reply_list'[k].kind = req'[Main].kind /\ reply_list'[k].token = req'[Main].token
      BY <1>b, <2>1, <2>2, <2>3, <2>4
    <3> QED
      BY <1>b, <2>1, <2>4, <3>1, SyncCalls
  <2>5. CASE t # Main
    <3>1. req[t].kind \notin SyncKinds
      BY <2>5 DEF TypeInv, ReqInv, Threads
    <3>2. \A k \in 1 .. Len(reply_list') : reply_list'[k].kind \in SyncKinds =>
            k \in 1 .. Len(reply_list) /\ reply_list'[k] = reply_list[k]
      BY <2>2, <2>3, <3>1
    <3>3. \A i \in 1 .. MaxReqs : told'[i + MaxReqs] = told[i + MaxReqs]
      BY <1>0, <1>a, <2>1
    <3> QED
      BY <1>b, <2>1, <2>5, <3>2, <3>3, SyncOthers
  <2> QED
    BY <2>4, <2>5
<1>5. CASE Return(t)
  <2>1. /\ pc[t] = "return" /\ pc'[t] = "idle" /\ ack' = (IF t = Main THEN "none" ELSE ack)
        /\ \A s \in Threads : s # t => pc'[s] = pc[s] /\ req'[s] = req[s] /\ result'[s] = result[s]
        /\ UNCHANGED <<reply_list, up, told>>
    BY <1>5, ReturnEffect
  <2>2. CASE t = Main
    BY <1>b, <2>1, <2>2, SyncCalls
  <2>3. CASE t # Main
    BY <1>b, <2>1, <2>3, SyncOthers
  <2> QED
    BY <2>2, <2>3
<1> QED
  BY <1>1, <1>2, <1>3, <1>4, <1>5 DEF RequestStep

LEMMA SyncMain ==
    TypeInv /\ FrameInv /\ NumberInv /\ TokenInv /\ MessageInv /\ SyncInv /\ MainStep => SyncInv'
<1> SUFFICES ASSUME TypeInv, FrameInv, NumberInv, TokenInv, MessageInv, SyncInv, MainStep PROVE SyncInv'
  OBVIOUS
<1>0. /\ TypeOK /\ PlaceInv /\ pc \in [Threads -> Places] /\ Main \in Threads /\ req' = req
      /\ result \in [Threads -> Results] /\ [Next]_vars /\ ack \in Verdicts \cup {"none", "timeout"}
  BY IdFacts, MainEffect DEF TypeInv, TypeOK, Next
<1>1. CASE ClearPublish
  <2>1. /\ pc[Main] = "clear_publish" /\ pc'[Main] \in {"clear_add", "remove"}
        /\ UNCHANGED <<reply_list, ack>>
    BY <1>1, ClearEffect
  <2>2. /\ Current.kind = "get_sync" /\ Current.id = req[Main].id /\ Current.token = req[Main].token
        /\ iter.at \in 1 .. Len(reply_list) /\ ClearReq.id = req[Main].id + MaxReqs
        /\ ClearReq.token = req[Main].token
    BY <2>1, ClearFacts DEF FrameInv, SyncInv, Current, SyncKinds
  <2>3. Cleared(req[Main])'
    <3>1. told[ClearReq.id] = <<>>
      BY <2>1, ClearFacts DEF NotCleared
    <3>2. told'[ClearReq.id] = Append(told[ClearReq.id], "failed") => told'[ClearReq.id] = <<"failed">>
      BY <3>1
    <3>3. up[ClearReq.id].kind = "none"
      BY <1>1, ClearEffect
    <3>4. \/ up'[ClearReq.id].kind = "clear" /\ up'[ClearReq.id].token = ClearReq.token
          \/ up'[ClearReq.id].kind = "none" /\ told'[ClearReq.id] = <<"failed">>
      BY <1>1, <3>2, <3>3, ClearEffect
    <3> QED
      BY <1>0, <2>2, <3>4 DEF Cleared
  <2>4. ack = "accepted" => /\ req[Main].id \in 1 .. MaxReqs
                            /\ up'[req[Main].id].answer = "accepted"
    <3>1. ASSUME ack = "accepted"
          PROVE  req[Main].id \in 1 .. MaxReqs /\ up[req[Main].id].answer = "accepted"
      <4>1. req[Main].kind \in SyncKinds
        BY <2>2 DEF SyncInv, Current, SyncKinds
      <4> QED
        BY <3>1, <4>1 DEF SyncInv
    <3> QED
      BY <1>0, <3>1, IdFacts, AnsweredStays
  <2> QED
    BY <1>0, <2>1, <2>3, <2>4 DEF SyncInv
<1>2. CASE ~ClearPublish
  <2>1. /\ up' = up /\ pc[Main] # "clear_publish"
        /\ \A i \in Ids : up[i].kind = "none" => told'[i] = told[i]
        /\ \A k \in 1 .. Len(reply_list') : reply_list'[k].kind \in SyncKinds =>
              \E j \in 1 .. Len(reply_list) :
                 reply_list'[k].kind = reply_list[j].kind /\ reply_list'[k].token = reply_list[j].token
        /\ \/ ack' = ack
           \/ ReplyVerdict /\ Current.kind \in SyncKinds /\ ack' = Message.code
           \/ ReplyControl /\ Current.kind \in SyncKinds /\ ack' = "accepted"
        /\ pc'[Main] = "return" => SyncDone
    BY <1>2, SyncEffect
  <2>2. \A k \in 1 .. Len(reply_list') : reply_list'[k].kind \in SyncKinds =>
          reply_list'[k].kind = req'[Main].kind /\ reply_list'[k].token = req'[Main].token
    BY <1>0, <2>1 DEF SyncInv
  <2>3. ASSUME req[Main].kind \in SyncKinds, ack' = "accepted"
        PROVE  /\ req[Main].id \in 1 .. MaxReqs
               /\ up'[req[Main].id].answer = "accepted"
               /\ req[Main].kind = "get_sync" /\ up'[req[Main].id].control => Cleared(req[Main])'
    <3>1. CASE ack' = ack
      <4>1. /\ req[Main].id \in 1 .. MaxReqs /\ up[req[Main].id].answer = "accepted"
            /\ req[Main].kind = "get_sync" /\ up[req[Main].id].control => Cleared(req[Main])
        BY <2>3, <3>1 DEF SyncInv
      <4>2. req[Main].id + MaxReqs \in Ids
        BY <4>1, IdFacts
      <4>3. Cleared(req[Main]) => Cleared(req[Main])'
        BY <1>0, <2>1, <4>2 DEF Cleared
      <4> QED
        BY <2>1, <4>1, <4>3
    <3>2. CASE ReplyVerdict /\ Current.kind \in SyncKinds /\ ack' = Message.code
      <4>1. pc[Main] = "walk" /\ AtEntry("reply") /\ ~HasControl
        BY <3>2 DEF ReplyVerdict, Goto
      <4>2. /\ req[Main].id \in 1 .. MaxReqs /\ up[req[Main].id].answer = Message.code
            /\ Current.id = req[Main].id
            /\ Current.kind = "get_sync" =>
                up[Current.id].control = Message.control /\ Message.method = "get_status_reply"
        BY <3>2, <4>1, OwnAnswer
      <4>3. Current.kind = req[Main].kind
        BY <1>0, <3>2, <4>1 DEF SyncInv, Current, AtEntry, PlaceInv, Walking, TypeOK, Iters
      <4>4. req[Main].kind = "get_sync" => ~up[req[Main].id].control
        BY <2>3, <3>2, <4>1, <4>2, <4>3, MessageTyped, <1>0 DEF HasControl, PlaceInv, AtEntry
      <4> QED
        BY <2>1, <2>3, <3>2, <4>2, <4>4
    <3>3. CASE ReplyControl /\ Current.kind \in SyncKinds /\ ack' = "accepted"
      <4>1. pc[Main] = "walk" /\ AtEntry("reply") /\ HasControl
        BY <3>3 DEF ReplyControl, Goto
      <4>2. /\ req[Main].id \in 1 .. MaxReqs /\ up[req[Main].id].answer = Message.code
            /\ Current.id = req[Main].id
        BY <3>3, <4>1, OwnAnswer
      <4>3. Current.kind = req[Main].kind
        BY <1>0, <3>3, <4>1 DEF SyncInv, Current, AtEntry, PlaceInv, Walking, TypeOK, Iters
      <4>4. Message.code = "accepted"
        BY <4>1 DEF HasControl
      <4>5. Current.kind = "get_sync" => pc'[Main] = "clear_publish"
        BY <1>0, <3>3 DEF ReplyControl, HasContext, Goto, SyncKinds
      <4> QED
        BY <1>0, <2>1, <4>2, <4>3, <4>4, <4>5 DEF Cleared
    <3> QED
      BY <2>1, <3>1, <3>2, <3>3
  <2>4. pc'[Main] = "return" /\ result'[Main] = "SUCCESS" => ack' = "accepted"
    <3>1. SyncDone => ack' = ack /\ result'[Main] = ResultOf(ack)
      BY <1>0 DEF SyncDone
    <3>2. ResultOf(ack) = "SUCCESS" => ack = "accepted"
      BY <1>0 DEF ResultOf
    <3> QED
      BY <2>1, <3>1, <3>2
  <2> QED
    BY <1>0, <2>2, <2>3, <2>4 DEF SyncInv
<1> QED
  BY <1>1, <1>2

LEMMA SyncNext ==
    TypeInv /\ FrameInv /\ NumberInv /\ TokenInv /\ MessageInv /\ SyncInv /\ [Next]_vars => SyncInv'
<1> SUFFICES ASSUME TypeInv, FrameInv, NumberInv, TokenInv, MessageInv, SyncInv, [Next]_vars PROVE SyncInv'
  OBVIOUS
<1>0. TypeOK /\ Len(reply_list) \in Nat /\ \A i \in 1 .. MaxReqs : i + MaxReqs \in Ids
  <2>1. TypeOK /\ Len(reply_list) \in Nat
    BY DEF TypeInv, TypeOK
  <2> QED
    BY <2>1, IdFacts
<1>1. ASSUME NEW t \in Threads, Call(t) PROVE SyncInv'
  BY <1>1, SyncThread DEF Call, IOT_Template_Report, IOT_Template_GetStatus, IOT_Template_ControlReply
<1>2. CASE IOT_Template_Report_Sync \/ IOT_Template_GetStatus_sync
  BY <1>2, SyncThread DEF IOT_Template_Report_Sync, IOT_Template_GetStatus_sync, Threads
<1>3. CASE UNCHANGED vars \/ CloudControl
  <2>1. UNCHANGED <<pc, req, result, ack, reply_list, up, told>>
    BY <1>3 DEF vars, templateVars, threadVars, CloudControl
  <2> QED
    BY <1>0, <2>1, SyncOthers
<1>4. ASSUME NEW i \in Ids, CloudAnswer(i) PROVE SyncInv'
  <2>1. /\ up'[i].kind = up[i].kind /\ up'[i].token = up[i].token /\ \A j \in Ids : j # i => up'[j] = up[j]
        /\ UNCHANGED <<pc, req, result, ack, reply_list, told>>
    BY <1>4, AnswerEffect
  <2> QED
    BY <1>0, <2>1, SyncOthers
<1>5. ASSUME NEW i \in Ids, TimerExpires(i) PROVE SyncInv'
  <2>1. UNCHANGED <<pc, req, result, ack, up, told>>
    BY <1>5 DEF TimerExpires, threadVars
  <2>2. \A k \in 1 .. Len(reply_list') : k \in 1 .. Len(reply_list)
          /\ reply_list'[k].kind = reply_list[k].kind /\ reply_list'[k].token = reply_list[k].token
    BY <1>0, <1>5, ExpiredTyped
  <2> QED
    BY <1>0, <2>1, <2>2, SyncOthers
<1> QED
  BY <1>1, <1>2, <1>3, <1>4, <1>5, SyncThread, SyncMain DEF Next, Cloud

CallInv == TypeInv /\ FrameInv /\ NumberInv /\ TokenInv /\ MessageInv /\ SyncInv

LEMMA CallKept == ASSUME "token_race" \notin Faults PROVE Spec => []CallInv
<1>1. Init => CallInv
  BY TypeInit, FrameInit, NumberInit, TokenInit, MessageInit, SyncInit DEF CallInv
<1>2. CallInv /\ [Next]_vars => CallInv'
  BY TypeNext, FrameNext, NumberNext, TokenNext, MessageNext, SyncNext DEF CallInv
<1> QED
  BY <1>1, <1>2, PTL DEF Spec

\* Where tokens are given to one request only, a synchronous call that returns
\* SUCCESS published a document the cloud accepted, however its answer, those to the
\* other requests and the control messages come together, and whatever was lost,
\* garbled or timed out before (IOT_Template_Report_Sync, IOT_Template_GetStatus_sync).
THEOREM SuccessIsClouds ==
    ASSUME "token_race" \notin Faults PROVE Spec => []SyncSuccessIsClouds
<1>1. CallInv => SyncSuccessIsClouds
  BY DEF CallInv, SyncInv, SyncSuccessIsClouds
<1> QED
  BY <1>1, CallKept, PTL

\* There too, a GET that brought control data with it returns SUCCESS only after the
\* cloud was asked to clear just that data, or the asking failed
\* (_get_status_reply_ack_cb, IOT_Template_ClearControl).
THEOREM ControlIsCleared ==
    ASSUME "token_race" \notin Faults PROVE Spec => []ControlCleared
<1>1. CallInv => ControlCleared
  BY DEF CallInv, SyncInv, ControlCleared, Cleared, SyncKinds
<1> QED
  BY <1>1, CallKept, PTL

-----------------------------------------------------------------------------
(***************************************************************************)
(* The requests of the data template behave as TemplateRequest says, for   *)
(* any number of threads, requests and control messages and any capacity   *)
(* of reply_list.  FateInv says what the application has heard of a        *)
(* request while it is on its way and while it is in the list: nothing,    *)
(* but for the entry whose control data Main is clearing.  With it each    *)
(* step of Template maps to the life of one request or leaves all of them  *)
(* where they are.                                                         *)
(***************************************************************************)

Unheard(i) == Len(told[i]) = 0

Listed(i) == \E k \in 1 .. Len(reply_list) : reply_list[k].id = i

\* A request is told of once, and leaves the list when it is; it is in the list once.
FateInv ==
    /\ \A i \in Ids : Len(told[i]) <= 1
    /\ \A i \in 1 .. MaxReqs : i > issued => Unheard(i)
    /\ \A t \in Threads : pc[t] \in Issuing => Unheard(req[t].id) /\ ~Listed(req[t].id)
    /\ \A j, k \in 1 .. Len(reply_list) : reply_list[j].id = reply_list[k].id => j = k
    /\ \A k \in 1 .. Len(reply_list) :
          (pc[Main] \in Clearing /\ k = iter.at) \/ Unheard(reply_list[k].id)
    /\ pc[Main] \in Clearing => Len(told[Current.id]) = 1
    /\ pc[Main] = "clear_add" => Unheard(ClearReq.id) /\ ~Listed(ClearReq.id)
    /\ \A k \in 1 .. Len(reply_list) : reply_list[k].expired => reply_list[k].kind \in Timeouts

LEMMA FateInit == Init => FateInv
<1> SUFFICES ASSUME Init PROVE FateInv
  OBVIOUS
<1>1. \A t \in Threads : pc[t] \in {"construct", "idle"}
  BY DEF Init
<1>2. \A i \in Ids : Len(told[i]) = 0
  BY DEF Init
<1>3. Len(reply_list) = 0
  BY DEF Init
<1> QED
  BY <1>1, <1>2, <1>3, IdFacts DEF FateInv, Issuing, Clearing, Unheard

-----------------------------------------------------------------------------
(* What the steps do to the list and to what was told.                     *)

\* The application hears of a request it had not heard of.
LEMMA HearEffect ==
    ASSUME TypeOK, NEW i \in Ids, NEW what \in Outcomes, Hear(i, what), Unheard(i)
    PROVE  /\ Len(told'[i]) = 1 /\ told'[i][1] = what
           /\ \A j \in Ids : j # i => told'[j] = told[j]
<1>1. told'[i] = Append(told[i], what) /\ \A j \in Ids : j # i => told'[j] = told[j]
  BY HearTyped
<1>2. told[i] \in Seq(Outcomes)
  BY DEF TypeOK
<1>3. \A s \in Seq(Outcomes) : Len(s) = 0 => Len(Append(s, what)) = 1 /\ Append(s, what)[1] = what
  OBVIOUS
<1>4. Len(Append(told[i], what)) = 1 /\ Append(told[i], what)[1] = what
  BY <1>2, <1>3, Zenon DEF Unheard
<1> QED
  BY <1>1, <1>4

\* The request is entered in the list, or fails as the list is full.
LEMMA EnlistEffect ==
    ASSUME TypeOK, NEW r, r.id \in Ids, r.kind \in Kinds, r.token \in Int, Enlist(r), Unheard(r.id)
    PROVE  \/ /\ reply_list' = reply_list /\ Len(told'[r.id]) = 1 /\ told'[r.id][1] = "failed"
              /\ \A j \in Ids : j # r.id => told'[j] = told[j]
              /\ told' # told
           \/ /\ told' = told /\ Len(reply_list) < Capacity
              /\ Len(reply_list') = Len(reply_list) + 1
              /\ \A k \in 1 .. Len(reply_list) : reply_list'[k] = reply_list[k]
              /\ reply_list'[Len(reply_list) + 1] = Entry(r)
              /\ \A k \in 1 .. Len(reply_list') : k \in 1 .. Len(reply_list) \/ k = Len(reply_list) + 1
<1>0. Len(reply_list) \in Nat /\ Capacity \in Nat
  BY TemplateAssumption DEF TypeOK
<1>1. CASE Len(reply_list) >= Capacity
  <2>1. Hear(r.id, "failed") /\ reply_list' = reply_list
    BY <1>1 DEF Enlist
  <2>2. "failed" \in Outcomes
    BY DEF Outcomes
  <2> QED
    BY <2>1, <2>2, HearEffect, HearTyped
<1>2. CASE ~(Len(reply_list) >= Capacity)
  <2>1. told' = told /\ Len(reply_list) < Capacity
    BY <1>0, <1>2 DEF Enlist
  <2>2. /\ Len(reply_list') = Len(reply_list) + 1
        /\ \A k \in 1 .. Len(reply_list) : reply_list'[k] = reply_list[k]
        /\ reply_list'[Len(reply_list) + 1] = Entry(r)
    BY <2>1, EnlistTyped
  <2> QED
    BY <1>0, <2>1, <2>2
<1> QED
  BY <1>1, <1>2

\* Who is listed after an entry was added, or the one of the walk removed.
LEMMA ListedAdd ==
    ASSUME TypeOK, NEW r, Len(reply_list') = Len(reply_list) + 1,
           \A k \in 1 .. Len(reply_list) : reply_list'[k] = reply_list[k],
           reply_list'[Len(reply_list) + 1] = Entry(r)
    PROVE  \A i : Listed(i)' <=> Listed(i) \/ i = r.id
<1>1. Len(reply_list) \in Nat /\ Entry(r).id = r.id
  BY DEF TypeOK, Entry
<1> QED
  BY <1>1 DEF Listed

LEMMA ListedRemove ==
    ASSUME TypeOK, FateInv, iter.at \in 1 .. Len(reply_list), RemoveCurrent
    PROVE  \A i : Listed(i)' <=> Listed(i) /\ i # Current.id
<1>1. /\ Len(reply_list') = Len(reply_list) - 1 /\ Len(reply_list) \in Nat
      /\ \A k \in 1 .. Len(reply_list) - 1 :
            reply_list'[k] = IF k < iter.at THEN reply_list[k] ELSE reply_list[k + 1]
  BY RemoveTyped DEF TypeOK
<1>2. \A j, k \in 1 .. Len(reply_list) : reply_list[j].id = reply_list[k].id => j = k
  BY DEF FateInv
<1> TAKE i
<1>3. ASSUME Listed(i)' PROVE Listed(i) /\ i # Current.id
  <2>1. PICK k \in 1 .. Len(reply_list') : reply_list'[k].id = i
    BY <1>3 DEF Listed
  <2>2. PICK j \in 1 .. Len(reply_list) : reply_list'[k] = reply_list[j] /\ j # iter.at
    BY RemovedFrom
  <2> QED
    BY <1>2, <2>1, <2>2 DEF Listed, Current
<1>4. ASSUME Listed(i), i # Current.id PROVE Listed(i)'
  <2>1. PICK j \in 1 .. Len(reply_list) : reply_list[j].id = i
    BY <1>4 DEF Listed
  <2>2. j # iter.at /\ j \in Int /\ iter.at \in Int
    BY <1>4, <2>1 DEF Current
  <2>3. CASE j < iter.at
    <3>1. j \in 1 .. Len(reply_list')
      BY <1>1, <2>2, <2>3
    <3>2. reply_list'[j] = reply_list[j]
      BY <1>1, <2>3, <3>1
    <3> QED
      BY <2>1, <3>1, <3>2 DEF Listed
  <2>4. CASE j > iter.at
    <3>1. j - 1 \in 1 .. Len(reply_list')
      BY <1>1, <2>2, <2>4
    <3>2. ~(j - 1 < iter.at) /\ (j - 1) + 1 = j
      BY <2>2, <2>4
    <3>3. reply_list'[j - 1] = reply_list[j]
      BY <1>1, <3>1, <3>2
    <3> QED
      BY <2>1, <3>1, <3>3 DEF Listed
  <2> QED
    BY <2>2, <2>3, <2>4
<1> QED
  BY <1>3, <1>4

-----------------------------------------------------------------------------
(* What Main does to the requests.                                         *)

\* The message that concerns a request with a token of its own is the answer to it.
LEMMA OwnVerdict ==
    ASSUME TypeInv, NumberInv, TokenInv, MessageInv,
           pc[Main] = "walk", AtEntry("reply"), Current.kind \in Tokened
    PROVE  up[Current.id].answer = Message.code
<1>0. /\ PlaceInv /\ TypeOK /\ iter.at \in 1 .. Len(reply_list)
      /\ Current.token = Message.token /\ iter.mode = "reply"
  BY DEF TypeInv, TypeOK, PlaceInv, Walking, AtEntry, Concerned, Iters
<1>1. /\ Current.id \in 1 .. MaxReqs /\ Current.id \in Ids
      /\ up[Current.id].kind = Current.kind /\ up[Current.id].token = Message.token
  <2>1. Sent(Current)
    BY <1>0 DEF NumberInv, Current
  <2>2. Current.kind # "clear"
    BY DEF Tokened, MuteKinds
  <2>3. Current.id \in 1 .. MaxReqs
    BY <1>0, <2>2 DEF TypeInv, ReqInv, Current
  <2> QED
    BY <1>0, <2>1, <2>3, IdFacts DEF Sent
<1>2. PICK i \in Ids : Answers(Message, up[i])
  <2>1. Message = pMsgList[1] /\ 1 \in 1 .. Len(pMsgList)
    BY <1>0, MessageTyped DEF PlaceInv
  <2>2. Message.method \in Answering
    BY <1>0 DEF MessageInv, Walking
  <2> QED
    BY <2>1, <2>2 DEF MessageInv
<1>3. i = Current.id
  <2>1. CASE up[i].kind \in Tokened
    BY <1>1, <1>2, <2>1 DEF TokenInv, Answers
  <2>2. CASE up[i].kind = "clear"
    <3>1. PICK j \in 1 .. MaxReqs : i = j + MaxReqs
      <4>1. i \notin 1 .. MaxReqs
        BY <2>2 DEF TokenInv
      <4>2. i - MaxReqs \in 1 .. MaxReqs /\ i = (i - MaxReqs) + MaxReqs
        BY <4>1, IdFacts DEF Ids
      <4> QED
        BY <4>2
    <3>2. up[j].kind = "get_sync" /\ up[j].token = Message.token /\ j \in Ids
      BY <1>2, <2>2, <3>1, IdFacts DEF TokenInv, Answers
    <3>3. "get_sync" \in Tokened
      BY DEF Tokened, Kinds, MuteKinds, SyncKinds
    <3>4. j = Current.id /\ Current.kind = "get_sync"
      BY <1>1, <3>2, <3>3 DEF TokenInv
    <3>5. NotCleared(Current.id)
      BY <1>0, <3>4 DEF NumberInv, Current
    <3> QED
      BY <2>2, <3>1, <3>4, <3>5 DEF NotCleared
  <2>3. up[i].kind \in Tokened \cup {"clear"}
    BY <1>2 DEF Answers, Answered, Tokened, MuteKinds
  <2> QED
    BY <2>1, <2>2, <2>3
<1> QED
  BY <1>2, <1>3 DEF Answers

\* What the application may be told of the entry of the walk.
Settles(what) ==
    \/ what = "silent" /\ (Current.kind \in MuteKinds \/ up[Current.id].answer = "garbled")
    \/ /\ Current.kind \notin MuteKinds
       /\ what = "timeout" \/ (what \in Verdicts /\ what = up[Current.id].answer)

Stays ==
    /\ told' = told /\ reply_list' = reply_list
    /\ pc[Main] \notin Clearing /\ pc'[Main] \notin Clearing

Removes ==
    /\ pc[Main] = "walk" /\ pc'[Main] = "walk"
    /\ iter.at \in 1 .. Len(reply_list) /\ RemoveCurrent
    /\ \E what \in Outcomes : Hear(Current.id, what) /\ Settles(what)

FindsControl ==
    /\ pc[Main] = "walk" /\ pc'[Main] \in {"clear_publish", "remove"}
    /\ iter.at \in 1 .. Len(reply_list) /\ iter' = iter /\ reply_list' = reply_list
    /\ Hear(Current.id, "accepted") /\ Settles("accepted")

Leaves ==
    /\ pc[Main] = "remove" /\ pc'[Main] = "walk"
    /\ iter.at \in 1 .. Len(reply_list) /\ RemoveCurrent
    /\ told' = told

LEMMA MainShape ==
    ASSUME TypeInv, FrameInv, NumberInv, TokenInv, MessageInv, FateInv,
           Timeouts \cap SyncKinds = {}, MainStep, ~ClearPublish, ~ClearAdd
    PROVE  up' = up /\ (Stays \/ Removes \/ FindsControl \/ Leaves)
<1>0. /\ TypeOK /\ PlaceInv /\ pc \in [Threads -> Places] /\ Main \in Threads
      /\ iter.back \in {"idle", "wait"} /\ iter.at \in Nat
  BY DEF TypeInv, TypeOK, Iters, Threads
<1>a. pc[Main] \in Walking /\ iter.at > 0 => iter.at \in 1 .. Len(reply_list)
  BY <1>0 DEF PlaceInv
<1>u. up' = up
  BY MainEffect
<1>1. CASE IOT_Template_Construct
  BY <1>0, <1>u, <1>1 DEF IOT_Template_Construct, Goto, Stays, Clearing
<1>2. CASE SyncDone
  BY <1>0, <1>u, <1>2 DEF SyncDone, Goto, Stays, Clearing, templateVars
<1>3. CASE IOT_Template_Yield
  <2>1. pc[Main] \in {"idle", "wait"} /\ pc'[Main] \in {"lock", "message"}
    BY <1>0, <1>3 DEF IOT_Template_Yield, Goto
  <2> QED
    BY <1>u, <1>3, <2>1 DEF IOT_Template_Yield, Stays, Clearing, templateVars
<1>4. CASE HandleMessage
  <2>1. pc[Main] = "message" /\ pc'[Main] \in {"free", "control", "lock"}
    BY <1>0, <1>4 DEF HandleMessage, Goto
  <2> QED
    BY <1>u, <1>4, <2>1 DEF HandleMessage, Stays, Clearing, templateVars
<1>5. CASE HandleControl
  BY <1>0, <1>u, <1>5 DEF HandleControl, Goto, Stays, Clearing
<1>6. CASE FreeMessage
  <2>1. pc[Main] = "free" /\ pc'[Main] \in {"message", "lock"}
    BY <1>0, <1>6 DEF FreeMessage, Goto
  <2> QED
    BY <1>u, <1>6, <2>1 DEF FreeMessage, Stays, Clearing, templateVars
<1>7. CASE TraverseLock
  BY <1>0, <1>u, <1>7 DEF TraverseLock, Goto, Stays, Clearing
<1>8. CASE TraverseEnd
  <2>1. pc[Main] = "walk" /\ pc'[Main] \in {"free", "idle", "wait"}
    BY <1>0, <1>8 DEF TraverseEnd, Goto
  <2> QED
    BY <1>u, <1>8, <2>1 DEF TraverseEnd, Stays, Clearing
<1>9. CASE TraverseSkip
  BY <1>0, <1>u, <1>9 DEF TraverseSkip, Goto, Stays, Clearing, templateVars
<1>10. CASE ExpireEntry
  <2>1. pc[Main] = "walk" /\ pc'[Main] = "walk" /\ iter.at \in 1 .. Len(reply_list) /\ Current.expired
    <3>1. pc[Main] = "walk" /\ pc'[Main] = "walk" /\ iter.at > 0 /\ Current.expired
      BY <1>0, <1>10 DEF ExpireEntry, Goto, AtEntry, Concerned
    <3> QED
      BY <1>a, <3>1 DEF Walking
  <2>2. Current.kind \notin SyncKinds
    BY <2>1 DEF FateInv, Current
  <2>3. RemoveCurrent /\ Hear(Current.id, IF Current.kind \in MuteKinds THEN "silent" ELSE "timeout")
    BY <1>10, <2>2 DEF ExpireEntry
  <2>4. CASE Current.kind \in MuteKinds
    <3>1. Hear(Current.id, "silent") /\ Settles("silent") /\ "silent" \in Outcomes
      BY <2>3, <2>4 DEF Settles, Outcomes
    <3> QED
      BY <1>u, <2>1, <2>3, <3>1 DEF Removes
  <2>5. CASE Current.kind \notin MuteKinds
    <3>1. Hear(Current.id, "timeout") /\ Settles("timeout") /\ "timeout" \in Outcomes
      BY <2>3, <2>5 DEF Settles, Outcomes
    <3> QED
      BY <1>u, <2>1, <2>3, <3>1 DEF Removes
  <2> QED
    BY <2>4, <2>5
<1>11. CASE ReplyGarbled \/ ReplyVerdict
  <2>1. /\ pc[Main] = "walk" /\ pc'[Main] = "walk" /\ iter.at \in 1 .. Len(reply_list)
        /\ AtEntry("reply") /\ RemoveCurrent
    <3>1. /\ pc[Main] = "walk" /\ pc'[Main] = "walk" /\ iter.at > 0
          /\ AtEntry("reply") /\ RemoveCurrent
      BY <1>0, <1>11 DEF ReplyGarbled, ReplyVerdict, Goto, AtEntry
    <3> QED
      BY <1>a, <3>1 DEF Walking
  <2>2. Current.kind \notin MuteKinds => up[Current.id].answer = Message.code
    <3>1. Current.kind \in Kinds
      BY <1>0, <2>1, EntryTyped DEF Current
    <3> QED
      BY <2>1, <3>1, OwnVerdict DEF Tokened
  <2>3. Message.code \in Verdicts \cup {"garbled"}
    BY <1>0, <2>1, MessageTyped DEF PlaceInv, AtEntry
  <2>4. CASE ReplyGarbled
    <3>1. Hear(Current.id, "silent") /\ Message.code = "garbled"
      BY <2>4 DEF ReplyGarbled
    <3>2. Settles("silent") /\ "silent" \in Outcomes
      BY <2>2, <3>1 DEF Settles, Outcomes
    <3> QED
      BY <1>u, <2>1, <3>1, <3>2 DEF Removes
  <2>5. CASE ReplyVerdict /\ Current.kind \in MuteKinds
    <3>1. Hear(Current.id, "silent")
      BY <2>5 DEF ReplyVerdict
    <3>2. Settles("silent") /\ "silent" \in Outcomes
      BY <2>5 DEF Settles, Outcomes
    <3> QED
      BY <1>u, <2>1, <3>1, <3>2 DEF Removes
  <2>6. CASE ReplyVerdict /\ Current.kind \notin MuteKinds
    <3>1. Hear(Current.id, Message.code) /\ Message.code # "garbled"
      BY <2>6 DEF ReplyVerdict
    <3>2. Settles(Message.code) /\ Message.code \in Outcomes
      BY <2>2, <2>3, <2>6, <3>1 DEF Settles, Outcomes
    <3> QED
      BY <1>u, <2>1, <3>1, <3>2 DEF Removes
  <2> QED
    BY <1>11, <2>4, <2>5, <2>6
<1>12. CASE ReplyControl
  <2>1. /\ pc[Main] = "walk" /\ iter.at \in 1 .. Len(reply_list) /\ AtEntry("reply")
        /\ iter' = iter /\ reply_list' = reply_list /\ Message.code = "accepted"
    <3>1. /\ pc[Main] = "walk" /\ iter.at > 0 /\ AtEntry("reply")
          /\ iter' = iter /\ reply_list' = reply_list /\ Message.code = "accepted"
      BY <1>0, <1>12 DEF ReplyControl, Goto, AtEntry, HasControl
    <3> QED
      BY <1>a, <3>1 DEF Walking
  <2>2. CASE HasContext(Current.kind)
    <3>1. Hear(Current.id, "accepted") /\ pc'[Main] \in {"clear_publish", "remove"}
      BY <1>0, <1>12, <2>2 DEF ReplyControl, Goto
    <3>2. Current.kind \in Tokened
      BY <2>2 DEF HasContext, Tokened, Kinds, MuteKinds, SyncKinds
    <3>3. Settles("accepted")
      BY <2>1, <3>2, OwnVerdict DEF Settles, Tokened, Verdicts
    <3> QED
      BY <1>u, <2>1, <3>1, <3>3 DEF FindsControl
  <2>3. CASE ~HasContext(Current.kind)
    <3>1. told' = told /\ pc'[Main] = "walk"
      BY <1>0, <1>12, <2>3 DEF ReplyControl, Goto
    <3> QED
      BY <1>u, <2>1, <3>1 DEF Stays, Clearing
  <2> QED
    BY <2>2, <2>3
<1>13. CASE RemoveEntry
  <2>1. pc[Main] = "remove" /\ pc'[Main] = "walk" /\ RemoveCurrent /\ told' = told
    BY <1>0, <1>13 DEF RemoveEntry, Goto
  <2>2. iter.at \in 1 .. Len(reply_list)
    BY <1>0, <1>a, <2>1 DEF PlaceInv, Clearing, Walking
  <2> QED
    BY <1>u, <2>1, <2>2 DEF Leaves
<1> QED
  BY <1>1, <1>2, <1>3, <1>4, <1>5, <1>6, <1>7, <1>8, <1>9, <1>10, <1>11, <1>12, <1>13 DEF MainStep

-----------------------------------------------------------------------------
(* FateInv is kept.                                                        *)

\* The application hears of nothing that is not yet begun or on its way.
LEMMA EntryKnown ==
    ASSUME TypeInv, NumberInv, NEW k \in 1 .. Len(reply_list)
    PROVE  /\ reply_list[k].id \in Ids /\ up[reply_list[k].id].kind = reply_list[k].kind
           /\ up[reply_list[k].id].kind # "none" /\ reply_list[k].kind \in Kinds
           /\ reply_list[k].id \in 1 .. MaxReqs => reply_list[k].id <= issued
<1>1. reply_list[k].id \in Ids /\ reply_list[k].kind \in Kinds /\ "none" \notin Kinds
  BY EntryTyped DEF TypeInv, Kinds, SyncKinds
<1>2. up[reply_list[k].id].kind = reply_list[k].kind
  BY DEF NumberInv, Sent
<1>3. issued \in Nat /\ MaxReqs \in Nat
  BY IdFacts DEF TypeInv, TypeOK
<1>4. reply_list[k].id \in 1 .. MaxReqs => ~(reply_list[k].id > issued)
  BY <1>1, <1>2 DEF NumberInv
<1> QED
  BY <1>1, <1>2, <1>3, <1>4

LEMMA FateShape ==
    ASSUME TypeInv, FrameInv, NumberInv, TokenInv, MessageInv, FateInv,
           Timeouts \cap SyncKinds = {}, MainStep, ~ClearPublish, ~ClearAdd
    PROVE  FateInv'
<1>0. /\ TypeOK /\ issued' = issued /\ Len(reply_list) \in Nat /\ issued \in Int
  BY MainEffect DEF TypeInv, TypeOK
<1>1. \A t \in Threads : pc'[t] \in Issuing => pc[t] \in Issuing /\ req'[t] = req[t]
  BY MainEffect
<1>2. \A t \in Threads : pc[t] \in Issuing => req[t].id \in Ids
  BY ReqTyped
<1>3. \A i \in 1 .. MaxReqs : i \in Ids
  BY IdFacts
<1>4. CASE Stays
  <2>1. pc'[Main] # "clear_add"
    BY <1>4 DEF Stays, Clearing
  <2> QED
    BY <1>0, <1>1, <1>4, <2>1 DEF Stays, FateInv, Listed, Unheard
<1>5. CASE Removes \/ FindsControl \/ Leaves
  <2> SUFFICES ASSUME NEW e, e = Current.id PROVE FateInv'
    OBVIOUS
  <2>1. iter.at \in 1 .. Len(reply_list) /\ iter.at \in Int /\ Current = reply_list[iter.at]
    BY <1>5 DEF Removes, FindsControl, Leaves, Current
  <2>2. e \in Ids /\ (e \in 1 .. MaxReqs => e <= issued) /\ Listed(e)
    BY <2>1, EntryKnown DEF Listed
  <2>3. /\ \A j \in Ids : j # e => told'[j] = told[j]
        /\ Len(told'[e]) = 1
    <3>1. CASE Removes \/ FindsControl
      <4>1. PICK what \in Outcomes : Hear(e, what)
        BY <3>1 DEF Removes, FindsControl, Outcomes, Verdicts
      <4>2. Unheard(e)
        BY <2>1, <3>1 DEF FateInv, Removes, FindsControl, Clearing
      <4> QED
        BY <1>0, <2>2, <4>1, <4>2, HearEffect
    <3>2. CASE Leaves
      BY <3>2 DEF Leaves, FateInv, Clearing
    <3> QED
      BY <1>5, <3>1, <3>2
  <2>4. \A i \in Ids : Len(told'[i]) <= 1
    <3> TAKE i \in Ids
    <3>1. CASE i = e
      <4>1. Len(told'[i]) = 1
        BY <2>3, <3>1, Zenon
      <4>2. \A n : n = 1 => n <= 1
        OBVIOUS
      <4> QED
        BY <4>1, <4>2, Zenon
    <3>2. CASE i # e
      BY <2>3, <3>2 DEF FateInv
    <3> QED
      BY <3>1, <3>2
  <2>5. \A i \in 1 .. MaxReqs : i > issued' => Unheard(i)'
    <3> TAKE i \in 1 .. MaxReqs
    <3>1. i > issued => i # e
      BY <1>0, <2>2
    <3> QED
      BY <1>0, <1>3, <2>3, <3>1 DEF FateInv, Unheard
  <2>6. pc'[Main] # "clear_add"
    BY <1>5 DEF Removes, FindsControl, Leaves
  <2>7. CASE Removes \/ Leaves
    <3>1. RemoveCurrent /\ pc'[Main] = "walk"
      BY <2>7 DEF Removes, Leaves
    <3>2. \A k \in 1 .. Len(reply_list') : \E j \in 1 .. Len(reply_list) :
             reply_list'[k] = reply_list[j] /\ j # iter.at /\ (k < iter.at => j = k)
                /\ (k >= iter.at => j = k + 1)
      BY <1>0, <2>1, <3>1, RemovedFrom
    <3>3. \A t \in Threads : pc'[t] \in Issuing => Unheard(req[t].id)' /\ ~Listed(req[t].id)'
      <4> TAKE t \in Threads
      <4>1. pc'[t] \in Issuing => Unheard(req[t].id) /\ ~Listed(req[t].id) /\ req[t].id # e
        BY <1>1, <2>2 DEF FateInv
      <4>2. \A i : ~Listed(i) => ~Listed(i)'
        BY <1>0, <2>1, <3>1, ListedRemove
      <4>3. pc'[t] \in Issuing => Unheard(req[t].id)'
        BY <1>1, <1>2, <2>3, <4>1 DEF Unheard
      <4> QED
        BY <1>1, <4>1, <4>2, <4>3 DEF Listed
    <3>4. \A j, k \in 1 .. Len(reply_list') : reply_list'[j].id = reply_list'[k].id => j = k
      <4> TAKE j, k \in 1 .. Len(reply_list')
      <4>1. PICK m \in 1 .. Len(reply_list) :
               reply_list'[j] = reply_list[m] /\ (j < iter.at => m = j) /\ (j >= iter.at => m = j + 1)
        BY <3>2
      <4>2. PICK n \in 1 .. Len(reply_list) :
               reply_list'[k] = reply_list[n] /\ (k < iter.at => n = k) /\ (k >= iter.at => n = k + 1)
        BY <3>2
      <4>3. reply_list'[j].id = reply_list'[k].id => m = n
        BY <4>1, <4>2 DEF FateInv
      <4>4. j \in Int /\ k \in Int
        OBVIOUS
      <4>5. m = n => j = k
        BY <2>1, <4>1, <4>2, <4>4
      <4> QED
        BY <4>3, <4>5
    <3>5. \A k \in 1 .. Len(reply_list') :
            Unheard(reply_list[k].id)' /\ (reply_list'[k].expired => reply_list'[k].kind \in Timeouts)
      <4> TAKE k \in 1 .. Len(reply_list')
      <4>1. PICK j \in 1 .. Len(reply_list) : reply_list'[k] = reply_list[j] /\ j # iter.at
        BY <3>2
      <4>2. Unheard(reply_list[j].id) /\ reply_list[j].id # e /\ reply_list[j].id \in Ids
        BY <2>1, <4>1, EntryKnown DEF FateInv
      <4> QED
        BY <2>3, <4>1, <4>2 DEF FateInv, Unheard
    <3>6. pc'[Main] \notin Clearing
      BY <3>1 DEF Clearing
    <3>7. \A t \in Threads : pc'[t] \in Issuing => Unheard(req[t].id)' /\ ~Listed(req[t].id)'
      BY <3>3
    <3> QED
      BY <2>4, <2>5, <2>6, <3>4, <3>5, <3>6, <3>7 DEF FateInv
  <2>8. CASE FindsControl
    <3>1. /\ iter' = iter /\ reply_list' = reply_list /\ pc'[Main] \in Clearing
          /\ Current' = Current /\ \A i : Listed(i)' <=> Listed(i)
      BY <2>8 DEF FindsControl, Current, Clearing, Listed
    <3>2. \A t \in Threads : pc'[t] \in Issuing => Unheard(req[t].id)' /\ ~Listed(req[t].id)'
      <4> TAKE t \in Threads
      <4>1. pc'[t] \in Issuing => Unheard(req[t].id) /\ ~Listed(req[t].id) /\ req[t].id # e
        BY <1>1, <2>2 DEF FateInv
      <4>2. \A i : ~Listed(i) => ~Listed(i)'
        BY <3>1
      <4>3. pc'[t] \in Issuing => Unheard(req[t].id)'
        BY <1>1, <1>2, <2>3, <4>1 DEF Unheard
      <4> QED
        BY <1>1, <4>1, <4>2, <4>3 DEF Listed
    <3>3. \A k \in 1 .. Len(reply_list') : k = iter'.at \/ Unheard(reply_list[k].id)'
      <4> TAKE k \in 1 .. Len(reply_list')
      <4>1. k \in 1 .. Len(reply_list)
        BY <3>1
      <4>2. k # iter.at => reply_list[k].id # e /\ reply_list[k].id \in Ids /\ Unheard(reply_list[k].id)
        BY <2>1, <4>1, EntryKnown DEF FateInv
      <4> QED
        BY <2>3, <3>1, <4>2 DEF Unheard
    <3>4. Len(told'[Current'.id]) = 1
      BY <2>3, <3>1
    <3> QED
      BY <2>4, <2>5, <2>6, <3>1, <3>2, <3>3, <3>4 DEF FateInv
  <2> QED
    BY <1>5, <2>7, <2>8
<1> QED
  BY <1>4, <1>5, MainShape

LEMMA FateClear ==
    ASSUME TypeInv, FrameInv, NumberInv, FateInv, ClearPublish \/ ClearAdd
    PROVE  FateInv'
<1> SUFFICES ASSUME NEW c, c = ClearReq.id PROVE FateInv'
  OBVIOUS
<1>0. /\ TypeOK /\ issued' = issued /\ Len(reply_list) \in Nat /\ issued \in Int
      /\ pc \in [Threads -> Places] /\ Main \in Threads
  BY MainEffect, IdFacts DEF TypeInv, TypeOK, MainStep
<1>1. pc[Main] \in {"clear_publish", "clear_add"}
  BY DEF ClearPublish, ClearAdd, Goto
<1>2. /\ iter.at \in 1 .. Len(reply_list) /\ Current.id \in 1 .. MaxReqs /\ Current.id \in Ids
      /\ c \in Ids /\ \A i \in 1 .. MaxReqs : i # c /\ i \in Ids
  BY <1>1, ClearFacts, IdFacts
<1>3. \A t \in Threads : pc'[t] \in Issuing => pc[t] \in Issuing /\ req'[t] = req[t] /\ req[t].id \in 1 .. MaxReqs
  <2>1. \A t \in Threads : pc'[t] \in Issuing => pc[t] \in Issuing /\ req'[t] = req[t]
    BY MainEffect DEF MainStep
  <2> QED
    BY <2>1, ReqTyped
<1>4. ~Listed(c) /\ Unheard(c)
  <2>1. CASE pc[Main] = "clear_publish"
    <3>1. up[c].kind = "none" /\ told[c] = <<>>
      BY <2>1, ClearFacts DEF NotCleared
    <3> QED
      BY <3>1, EntryKnown DEF Listed, Unheard
  <2>2. CASE pc[Main] = "clear_add"
    BY <2>2 DEF FateInv
  <2> QED
    BY <1>1, <2>1, <2>2
<1>5. /\ iter' = iter /\ pc'[Main] \in {"clear_add", "remove"} /\ pc'[Main] \in Clearing
      /\ \A j \in Ids : j # c => told'[j] = told[j]
      /\ Len(told'[c]) = 0 \/ Len(told'[c]) = 1
      /\ \/ reply_list' = reply_list /\ (pc'[Main] = "clear_add" => ClearReq' = ClearReq /\ told' = told)
         \/ /\ pc'[Main] = "remove" /\ told' = told
            /\ Len(reply_list') = Len(reply_list) + 1
            /\ \A k \in 1 .. Len(reply_list) : reply_list'[k] = reply_list[k]
            /\ reply_list'[Len(reply_list) + 1] = Entry(ClearReq)
            /\ \A k \in 1 .. Len(reply_list') : k \in 1 .. Len(reply_list) \/ k = Len(reply_list) + 1
  <2>1. CASE ClearPublish
    <3>1. /\ iter' = iter /\ reply_list' = reply_list /\ pc'[Main] \in {"clear_add", "remove"}
          /\ \A j \in Ids : j # c => told'[j] = told[j]
          /\ \/ told' = told
             \/ pc'[Main] = "remove" /\ told'[c] = Append(told[c], "failed")
          /\ ClearReq' = ClearReq /\ pc[Main] = "clear_publish"
      BY <2>1, ClearEffect
    <3>2. told[c] = <<>>
      BY <3>1, ClearFacts DEF NotCleared
    <3>3. Len(told[c]) = 0 /\ Len(Append(told[c], "failed")) = 1
      BY <3>2
    <3>4. Len(told'[c]) = 0 \/ Len(told'[c]) = 1
      BY <3>1, <3>3, Zenon
    <3> QED
      BY <3>1, <3>4, Zenon DEF Clearing, ClearPublish
  <2>2. CASE ClearAdd
    <3>1. Enlist(ClearReq) /\ iter' = iter /\ pc[Main] = "clear_add" /\ pc'[Main] = "remove"
      BY <1>0, <2>2 DEF ClearAdd, Goto
    <3>2. ClearReq.id \in Ids /\ ClearReq.kind \in Kinds /\ ClearReq.token \in Int
      BY <3>1, ClearFacts DEF Kinds
    <3>3. Len(told[c]) = 0
      BY <1>4 DEF Unheard
    <3> QED
      BY <1>0, <1>4, <3>1, <3>2, <3>3, EnlistEffect DEF Clearing
  <2> QED
    BY <2>1, <2>2
<1>6. \A i \in Ids : Len(told'[i]) <= 1
  <2> TAKE i \in Ids
  <2>1. CASE i = c
    <3>1. Len(told'[i]) = 0 \/ Len(told'[i]) = 1
      BY <1>5, <2>1, Zenon
    <3>2. \A n : n = 0 \/ n = 1 => n <= 1
      OBVIOUS
    <3> QED
      BY <3>1, <3>2, Zenon
  <2>2. CASE i # c
    BY <1>5, <2>2 DEF FateInv
  <2> QED
    BY <2>1, <2>2
<1>7. \A i \in 1 .. MaxReqs : told'[i] = told[i]
  BY <1>2, <1>5
<1>8. \A i \in 1 .. MaxReqs : i > issued' => Unheard(i)'
  BY <1>0, <1>7 DEF FateInv, Unheard
<1>9. Current' = Current /\ Len(told'[Current.id]) = 1
  <2>1. Len(told[Current.id]) = 1
    BY <1>1 DEF FateInv, Clearing
  <2> QED
    BY <1>2, <1>5, <1>7, <2>1 DEF Current
<1>10. \A i : i # c => (Listed(i)' <=> Listed(i))
  <2>1. CASE reply_list' = reply_list
    BY <2>1 DEF Listed
  <2>2. CASE reply_list' # reply_list
    <3>1. \A i : Listed(i)' <=> Listed(i) \/ i = ClearReq.id
      BY <1>0, <1>5, <2>2, ListedAdd
    <3> QED
      BY <3>1
  <2> QED
    BY <2>1, <2>2
<1>11. \A t \in Threads : pc'[t] \in Issuing => Unheard(req[t].id)' /\ ~Listed(req[t].id)'
  <2> TAKE t \in Threads
  <2>1. pc'[t] \in Issuing => Unheard(req[t].id) /\ ~Listed(req[t].id) /\ req[t].id # c
    BY <1>2, <1>3 DEF FateInv
  <2>2. pc'[t] \in Issuing => Unheard(req[t].id)'
    BY <1>3, <1>7, <2>1 DEF Unheard
  <2> QED
    BY <1>3, <1>10, <2>1, <2>2 DEF Listed
<1>12. \A k \in 1 .. Len(reply_list) :
         /\ k = iter.at \/ Len(told'[reply_list[k].id]) = 0
         /\ reply_list[k].id # c /\ (reply_list[k].expired => reply_list[k].kind \in Timeouts)
  <2> TAKE k \in 1 .. Len(reply_list)
  <2>1. reply_list[k].id # c /\ reply_list[k].id \in Ids
    BY <1>4, EntryKnown DEF Listed
  <2> QED
    BY <1>1, <1>5, <2>1 DEF FateInv, Clearing, Unheard
<1>13. CASE reply_list' = reply_list
  <2>1. pc'[Main] = "clear_add" => Unheard(ClearReq.id)' /\ ~Listed(ClearReq.id)'
    <3>1. pc'[Main] = "clear_add" => ClearReq' = ClearReq /\ told' = told
      BY <1>5, <1>13
    <3> QED
      BY <1>4, <1>13, <3>1 DEF Unheard, Listed
  <2>2. \A k \in 1 .. Len(reply_list') : k = iter'.at \/ Unheard(reply_list[k].id)'
    BY <1>5, <1>12, <1>13 DEF Unheard
  <2>3. Len(told'[Current'.id]) = 1
    BY <1>9
  <2>4. \A j, k \in 1 .. Len(reply_list') : reply_list'[j].id = reply_list'[k].id => j = k
    BY <1>13 DEF FateInv
  <2>5. \A k \in 1 .. Len(reply_list') : reply_list'[k].expired => reply_list'[k].kind \in Timeouts
    BY <1>12, <1>13
  <2> QED
    BY <1>5, <1>6, <1>8, <1>11, <2>1, <2>2, <2>3, <2>4, <2>5 DEF FateInv
<1>14. CASE reply_list' # reply_list
  <2> SUFFICES ASSUME NEW n, n = Len(reply_list) PROVE FateInv'
    OBVIOUS
  <2>1. /\ pc'[Main] = "remove" /\ told' = told /\ n \in Nat
        /\ Len(reply_list') = n + 1
        /\ \A k \in 1 .. n : reply_list'[k] = reply_list[k]
        /\ \A k \in 1 .. Len(reply_list') : k \in 1 .. n \/ k = n + 1
        /\ reply_list'[n + 1].id = c /\ ~reply_list'[n + 1].expired
    BY <1>0, <1>5, <1>14 DEF Entry
  <2>2. \A k \in 1 .. Len(reply_list') : k = iter'.at \/ Unheard(reply_list[k].id)'
    <3> TAKE k \in 1 .. Len(reply_list')
    <3>1. CASE k \in 1 .. n
      BY <1>5, <1>12, <2>1, <3>1 DEF Unheard
    <3>2. CASE k = n + 1
      BY <1>4, <2>1, <3>2 DEF Unheard
    <3> QED
      BY <2>1, <3>1, <3>2
  <2>3. \A j, k \in 1 .. Len(reply_list') : reply_list'[j].id = reply_list'[k].id => j = k
    <3>1. \A j \in 1 .. n : reply_list'[j].id # c
      BY <1>12, <2>1
    <3>2. \A j, k \in 1 .. n : reply_list'[j].id = reply_list'[k].id => j = k
      BY <2>1 DEF FateInv
    <3> QED
      BY <2>1, <3>1, <3>2
  <2>4. \A k \in 1 .. Len(reply_list') : reply_list'[k].expired => reply_list'[k].kind \in Timeouts
    BY <1>12, <2>1
  <2>5. Len(told'[Current'.id]) = 1
    BY <1>9
  <2> QED
    BY <1>5, <1>6, <1>8, <1>11, <2>1, <2>2, <2>3, <2>4, <2>5 DEF FateInv
<1> QED
  BY <1>13, <1>14

\* A step of a thread that leaves the list, and tells nothing of what is in it, keeps
\* what FateInv says of the list.
LEMMA FateList ==
    ASSUME TypeInv, FrameInv, NumberInv, FateInv, NEW t \in Threads,
           pc[t] \notin Clearing, pc'[t] \notin Clearing,
           \A s \in Threads : s # t => pc'[s] = pc[s],
           iter' = iter, reply_list' = reply_list,
           \A j \in Ids : Listed(j) \/ j \notin 1 .. MaxReqs => told'[j] = told[j]
    PROVE  /\ \A i : Listed(i)' <=> Listed(i)
           /\ \A j, k \in 1 .. Len(reply_list') : reply_list'[j].id = reply_list'[k].id => j = k
           /\ \A k \in 1 .. Len(reply_list') :
                (pc'[Main] \in Clearing /\ k = iter'.at) \/ Unheard(reply_list[k].id)'
           /\ pc'[Main] \in Clearing => Len(told'[Current'.id]) = 1
           /\ pc'[Main] = "clear_add" => Unheard(ClearReq.id)' /\ ~Listed(ClearReq.id)'
           /\ \A k \in 1 .. Len(reply_list') : reply_list'[k].expired => reply_list'[k].kind \in Timeouts
<1>0. (pc'[Main] \in Clearing => pc'[Main] = pc[Main]) /\ (pc[Main] \in Clearing => pc'[Main] = pc[Main])
  BY IdFacts
<1>1. \A i : Listed(i)' <=> Listed(i)
  BY DEF Listed
<1>2. \A k \in 1 .. Len(reply_list) : reply_list[k].id \in Ids /\ Listed(reply_list[k].id)
  BY EntryKnown DEF Listed
<1>3. ASSUME NEW k \in 1 .. Len(reply_list')
      PROVE  (pc'[Main] \in Clearing /\ k = iter'.at) \/ Unheard(reply_list[k].id)'
  BY <1>0, <1>2, <1>3 DEF FateInv, Unheard
<1>4. ASSUME pc'[Main] \in Clearing PROVE Len(told'[Current'.id]) = 1
  <2>1. pc[Main] \in Clearing
    BY <1>0, <1>4
  <2>2. iter.at \in 1 .. Len(reply_list)
    BY <2>1 DEF TypeInv, TypeOK, PlaceInv, Iters, Clearing, Walking
  <2>3. Current' = Current /\ told'[Current.id] = told[Current.id]
    BY <1>2, <2>2 DEF Current
  <2> QED
    BY <2>1, <2>3 DEF FateInv
<1>5. ASSUME pc'[Main] = "clear_add" PROVE Unheard(ClearReq.id)' /\ ~Listed(ClearReq.id)'
  <2>1. pc[Main] = "clear_add"
    BY <1>0, <1>5 DEF Clearing
  <2>2. ClearReq.id \in Ids /\ ClearReq.id \notin 1 .. MaxReqs
    BY <2>1, ClearFacts
  <2>3. ClearReq' = ClearReq /\ told'[ClearReq.id] = told[ClearReq.id]
    BY <2>2 DEF ClearReq, Current
  <2> QED
    BY <2>1, <2>3 DEF FateInv, Unheard, Listed
<1>6. /\ \A j, k \in 1 .. Len(reply_list') : reply_list'[j].id = reply_list'[k].id => j = k
      /\ \A k \in 1 .. Len(reply_list') : reply_list'[k].expired => reply_list'[k].kind \in Timeouts
  BY DEF FateInv
<1> QED
  BY <1>1, <1>3, <1>4, <1>5, <1>6

LEMMA FateThread ==
    ASSUME TypeInv, FrameInv, NumberInv, FateInv, NEW t \in Threads,
           RequestStep(t) \/ \E kind : Begin(t, kind)
    PROVE  FateInv'
<1>0. TypeOK /\ Len(reply_list) \in Nat /\ issued \in Int /\ \A i \in 1 .. MaxReqs : i \in Ids
  BY IdFacts DEF TypeInv, TypeOK
<1>a. \A s \in Threads : pc[s] \in Issuing =>
        req[s].id \in 1 .. MaxReqs /\ req[s].id \in Ids /\ Unheard(req[s].id) /\ ~Listed(req[s].id)
          /\ req[s].id <= issued
  BY ReqTyped DEF FateInv, NumberInv
<1>1. ASSUME NEW kind, Begin(t, kind) PROVE FateInv'
  <2>1. /\ pc[t] = "idle" /\ pc'[t] \in {"publish", "token"}
        /\ issued' = issued + 1 /\ issued' \in 1 .. MaxReqs
        /\ \A s \in Threads : s # t => pc'[s] = pc[s] /\ req'[s] = req[s]
        /\ UNCHANGED <<reply_list, up, told, iter>>
    BY <1>1, BeginEffect
  <2>2. req'[t].id = issued'
    <3>1. req'[t] = [id |-> issued', kind |-> kind, token |-> clientToken]
      BY <1>1, BeginEffect
    <3> QED
      BY <3>1
  <2>3. issued' > issued
    BY <1>0, <2>1
  <2>4. Unheard(issued')
    BY <2>1, <2>3 DEF FateInv
  <2>5. ~Listed(issued')
    <3>1. up[issued'].kind = "none"
      BY <2>1, <2>3 DEF NumberInv
    <3> QED
      BY <3>1, EntryKnown DEF Listed
  <2>6. \A s \in Threads : pc'[s] \in Issuing => Unheard(req[s].id)' /\ ~Listed(req[s].id)'
    <3> TAKE s \in Threads
    <3>1. CASE s = t
      BY <2>1, <2>2, <2>4, <2>5, <3>1 DEF Unheard, Listed
    <3>2. CASE s # t
      BY <1>a, <2>1, <3>2 DEF Unheard, Listed
    <3> QED
      BY <3>1, <3>2
  <2>7. \A i \in 1 .. MaxReqs : i > issued' => Unheard(i)'
    BY <1>0, <2>1, <2>3 DEF FateInv, Unheard
  <2>8. \A i \in Ids : Len(told'[i]) <= 1
    BY <2>1 DEF FateInv
  <2>9. pc[t] \notin Clearing /\ pc'[t] \notin Clearing
    BY <2>1 DEF Clearing
  <2> QED
    BY <2>1, <2>6, <2>7, <2>8, <2>9, FateList DEF FateInv
<1>2. ASSUME ReadToken(t) \/ StoreToken(t) \/ Return(t) \/ PublishOk(t) PROVE FateInv'
  <2>1. /\ pc'[t] \in Issuing => pc[t] \in Issuing /\ req'[t].id = req[t].id
        /\ pc[t] \notin Clearing /\ pc'[t] \notin Clearing
        /\ \A s \in Threads : s # t => pc'[s] = pc[s] /\ req'[s] = req[s]
        /\ UNCHANGED <<reply_list, told, iter, issued>>
    BY <1>2, ReadEffect, StoreEffect, ReturnEffect, PublishEffect DEF Issuing, Clearing
  <2>2. \A s \in Threads : pc'[s] \in Issuing => pc[s] \in Issuing /\ req'[s].id = req[s].id
    BY <2>1
  <2>3. \A s \in Threads : pc'[s] \in Issuing => Unheard(req[s].id)' /\ ~Listed(req[s].id)'
    BY <1>a, <2>1, <2>2 DEF Unheard, Listed
  <2>4. \A i \in 1 .. MaxReqs : i > issued' => Unheard(i)'
    BY <2>1 DEF FateInv, Unheard
  <2>5. \A i \in Ids : Len(told'[i]) <= 1
    BY <2>1 DEF FateInv
  <2> QED
    BY <2>1, <2>3, <2>4, <2>5, FateList DEF FateInv
<1>3. ASSUME PublishFail(t) \/ AddRequest(t) PROVE FateInv'
  <2> SUFFICES ASSUME NEW d, d = req[t].id PROVE FateInv'
    OBVIOUS
  <2>1. /\ pc[t] \in {"publish", "add"} /\ pc[t] \in Issuing /\ pc'[t] \in {"return", "wait"}
        /\ pc'[t] \notin Issuing
        /\ \A s \in Threads : s # t => pc'[s] = pc[s]
        /\ UNCHANGED <<req, iter, issued>>
    BY <1>3, FailEffect, AddEffect DEF Issuing
  <2>2. d \in 1 .. MaxReqs /\ d \in Ids /\ Unheard(d) /\ ~Listed(d) /\ d <= issued
    BY <1>a, <2>1
  <2>3. \A s \in Threads : pc'[s] \in Issuing => pc[s] \in Issuing /\ s # t /\ req[s].id # d /\ req[s].id \in Ids
                                                  /\ Unheard(req[s].id) /\ ~Listed(req[s].id)
    BY <1>a, <2>1 DEF NumberInv
  <2>4. CASE reply_list' = reply_list /\ Len(told'[d]) = 1 /\ \A j \in Ids : j # d => told'[j] = told[j]
    <3>1. \A i \in Ids : Len(told'[i]) <= 1
      <4> TAKE i \in Ids
      <4>1. CASE i = d
        <5>1. Len(told'[i]) = 1
          BY <2>4, <4>1, Zenon
        <5>2. \A n : n = 1 => n <= 1
          OBVIOUS
        <5> QED
          BY <5>1, <5>2, Zenon
      <4>2. CASE i # d
        BY <2>4, <4>2 DEF FateInv
      <4> QED
        BY <4>1, <4>2
    <3>2. \A i \in 1 .. MaxReqs : i > issued' => Unheard(i)'
      <4> TAKE i \in 1 .. MaxReqs
      <4>1. i > issued => i # d
        BY <1>0, <2>2
      <4> QED
        BY <1>0, <2>1, <2>4, <4>1 DEF FateInv, Unheard
    <3>3. \A s \in Threads : pc'[s] \in Issuing => Unheard(req[s].id)' /\ ~Listed(req[s].id)'
      BY <2>1, <2>3, <2>4 DEF Unheard, Listed
    <3>4. \A j \in Ids : Listed(j) \/ j \notin 1 .. MaxReqs => told'[j] = told[j]
      BY <2>2, <2>4
    <3>5. pc[t] \notin Clearing /\ pc'[t] \notin Clearing
      BY <2>1 DEF Clearing
    <3> QED
      BY <2>1, <2>4, <3>1, <3>2, <3>3, <3>4, <3>5, FateList DEF FateInv
  <2>5. CASE /\ AddRequest(t) /\ told' = told
             /\ Len(reply_list') = Len(reply_list) + 1
             /\ \A k \in 1 .. Len(reply_list) : reply_list'[k] = reply_list[k]
             /\ reply_list'[Len(reply_list) + 1] = Entry(req[t])
             /\ \A k \in 1 .. Len(reply_list') : k \in 1 .. Len(reply_list) \/ k = Len(reply_list) + 1
    <3>1. pc[Main] \notin Clearing /\ pc'[Main] \notin Clearing
      <4>1. CASE t = Main
        BY <2>1, <4>1 DEF Clearing
      <4>2. CASE t # Main
        <5>1. CanLock(t)
          BY <2>5, AddEffect
        <5>2. mutex # Main
          BY <4>2, <5>1, TemplateAssumption DEF CanLock, Threads
        <5> QED
          BY <2>1, <4>2, <5>2, IdFacts DEF TypeInv, PlaceInv, Clearing, Walking
      <4> QED
        BY <4>1, <4>2
    <3>2. \A i : Listed(i)' <=> Listed(i) \/ i = d
      BY <1>0, <2>5, ListedAdd
    <3>3. \A s \in Threads : pc'[s] \in Issuing => Unheard(req[s].id)' /\ ~Listed(req[s].id)'
      <4> TAKE s \in Threads
      <4>1. pc'[s] \in Issuing => Unheard(req[s].id)'
        BY <2>1, <2>3, <2>5 DEF Unheard
      <4> QED
        BY <2>1, <2>3, <3>2, <4>1 DEF Listed
    <3> SUFFICES ASSUME NEW n, n = Len(reply_list) PROVE FateInv'
      OBVIOUS
    <3>4. /\ n \in Nat /\ Len(reply_list') = n + 1
          /\ \A k \in 1 .. n : reply_list'[k] = reply_list[k]
          /\ \A k \in 1 .. Len(reply_list') : k \in 1 .. n \/ k = n + 1
          /\ reply_list'[n + 1].id = d /\ ~reply_list'[n + 1].expired
      BY <1>0, <2>5 DEF Entry
    <3>5. \A j \in 1 .. n : reply_list[j].id # d /\ Unheard(reply_list[j].id)
                              /\ (reply_list[j].expired => reply_list[j].kind \in Timeouts)
      BY <2>2, <3>1 DEF FateInv, Listed
    <3>6. \A j, k \in 1 .. n : reply_list[j].id = reply_list[k].id => j = k
      BY DEF FateInv
    <3>7. \A j, k \in 1 .. Len(reply_list') : reply_list'[j].id = reply_list'[k].id => j = k
      BY <3>4, <3>5, <3>6
    <3>8. \A k \in 1 .. Len(reply_list') :
            Unheard(reply_list[k].id)' /\ (reply_list'[k].expired => reply_list'[k].kind \in Timeouts)
      <4> TAKE k \in 1 .. Len(reply_list')
      <4>1. CASE k \in 1 .. n
        BY <2>5, <3>4, <3>5, <4>1 DEF Unheard
      <4>2. CASE k = n + 1
        BY <2>2, <2>5, <3>4, <4>2 DEF Unheard
      <4> QED
        BY <3>4, <4>1, <4>2
    <3>9. \A i \in 1 .. MaxReqs : i > issued' => Unheard(i)'
      BY <2>1, <2>5 DEF FateInv, Unheard
    <3>10. \A i \in Ids : Len(told'[i]) <= 1
      BY <2>5 DEF FateInv
    <3>11. pc'[Main] # "clear_add"
      BY <3>1 DEF Clearing
    <3> QED
      BY <3>1, <3>3, <3>7, <3>8, <3>9, <3>10, <3>11 DEF FateInv
  <2>6. CASE PublishFail(t)
    <3>1. Hear(d, "failed") /\ reply_list' = reply_list /\ "failed" \in Outcomes
      BY <2>6, FailEffect DEF PublishFail, Outcomes
    <3> QED
      BY <1>0, <2>2, <2>4, <3>1, HearEffect
  <2>7. CASE AddRequest(t)
    <3>1. Enlist(req[t]) /\ req[t].kind \in Kinds /\ req[t].token \in Int
      BY <2>1, <2>7, ReqTyped DEF AddRequest
    <3> QED
      BY <1>0, <2>2, <2>4, <2>5, <2>7, <3>1, EnlistEffect
  <2> QED
    BY <1>3, <2>6, <2>7
<1> QED
  BY <1>1, <1>2, <1>3 DEF RequestStep

LEMMA FateWorld ==
    ASSUME TypeInv, NumberInv, FateInv,
           Cloud \/ UNCHANGED vars \/ \E i \in Ids : TimerExpires(i)
    PROVE  FateInv'
<1>0. TypeOK /\ reply_list \in Seq(Entries)
  BY DEF TypeInv, TypeOK
<1>1. UNCHANGED <<pc, req, iter, issued, told>>
  BY DEF Cloud, CloudAnswer, CloudControl, TimerExpires, vars, threadVars
<1>2. /\ Len(reply_list') = Len(reply_list)
      /\ \A k \in 1 .. Len(reply_list) :
           /\ reply_list'[k].id = reply_list[k].id /\ reply_list'[k].token = reply_list[k].token
           /\ reply_list'[k].expired => reply_list'[k].kind \in Timeouts
  <2>1. CASE Cloud \/ UNCHANGED vars
    <3>1. reply_list' = reply_list
      BY <2>1 DEF Cloud, CloudAnswer, CloudControl, vars, templateVars
    <3> QED
      BY <3>1 DEF FateInv
  <2>2. ASSUME NEW i \in Ids, TimerExpires(i)
        PROVE \A k \in 1 .. Len(reply_list) : reply_list'[k].expired => reply_list'[k].kind \in Timeouts
    <3>1. PICK n \in DOMAIN reply_list :
             reply_list[n].kind \in Timeouts /\ reply_list' = [reply_list EXCEPT ![n].expired = TRUE]
      BY <2>2 DEF TimerExpires
    <3> TAKE k \in 1 .. Len(reply_list)
    <3>2. CASE k = n
      <4>1. reply_list'[k].kind = reply_list[k].kind
        BY <1>0, <2>2, ExpiredTyped
      <4> QED
        BY <3>1, <3>2, <4>1
    <3>3. CASE k # n
      BY <1>0, <3>1, <3>3 DEF FateInv
    <3> QED
      BY <3>2, <3>3
  <2> QED
    BY <1>0, <2>1, <2>2, ExpiredTyped
<1>3. \A i : Listed(i)' <=> Listed(i)
  BY <1>2 DEF Listed
<1>4. pc[Main] \in Clearing => Current'.id = Current.id /\ ClearReq'.id = ClearReq.id
  <2> SUFFICES ASSUME pc[Main] \in Clearing PROVE Current'.id = Current.id /\ ClearReq'.id = ClearReq.id
    OBVIOUS
  <2>1. iter.at \in 1 .. Len(reply_list)
    BY <1>0 DEF TypeInv, TypeOK, PlaceInv, Iters, Clearing, Walking
  <2>2. Current'.id = Current.id
    BY <1>1, <1>2, <2>1 DEF Current
  <2> QED
    BY <2>2 DEF ClearReq
<1>5. pc'[Main] = "clear_add" => Unheard(ClearReq.id)' /\ ~Listed(ClearReq.id)'
  BY <1>1, <1>3, <1>4 DEF FateInv, Clearing, Unheard, Listed
<1>6. pc'[Main] \in Clearing => Len(told'[Current'.id]) = 1
  BY <1>1, <1>4 DEF FateInv
<1>7. \A t \in Threads : pc'[t] \in Issuing => Unheard(req[t].id)' /\ ~Listed(req[t].id)'
  BY <1>1, <1>2 DEF FateInv, Unheard, Listed
<1>8. \A k \in 1 .. Len(reply_list') :
        (pc'[Main] \in Clearing /\ k = iter'.at) \/ Unheard(reply_list[k].id)'
  BY <1>1, <1>2 DEF FateInv, Unheard
<1>9. \A j, k \in 1 .. Len(reply_list') : reply_list'[j].id = reply_list'[k].id => j = k
  BY <1>2 DEF FateInv
<1>10. /\ \A i \in Ids : Len(told'[i]) <= 1
       /\ \A i \in 1 .. MaxReqs : i > issued' => Unheard(i)'
       /\ \A k \in 1 .. Len(reply_list') : reply_list'[k].expired => reply_list'[k].kind \in Timeouts
  BY <1>1, <1>2 DEF FateInv, Unheard
<1> QED
  BY <1>5, <1>6, <1>7, <1>8, <1>9, <1>10 DEF FateInv

LEMMA FateNext ==
    ASSUME TypeInv, FrameInv, NumberInv, TokenInv, MessageInv, FateInv,
           Timeouts \cap SyncKinds = {}, [Next]_vars
    PROVE  FateInv'
<1>1. ASSUME NEW t \in Threads, Call(t) PROVE FateInv'
  BY <1>1, FateThread DEF Call, IOT_Template_Report, IOT_Template_GetStatus, IOT_Template_ControlReply
<1>2. CASE IOT_Template_Report_Sync \/ IOT_Template_GetStatus_sync
  BY <1>2, FateThread DEF IOT_Template_Report_Sync, IOT_Template_GetStatus_sync, Threads
<1>3. CASE MainStep
  BY <1>3, FateShape, FateClear
<1> QED
  BY <1>1, <1>2, <1>3, FateThread, FateWorld DEF Next

-----------------------------------------------------------------------------
(* The life of the requests.                                               *)

FateMap == [i \in Ids |-> Fate(i)]
AnswerMap == [i \in Ids |-> up[i].answer]
Mute == {i \in Ids : up[i].kind \in MuteKinds}

\* How far a request has come, before and after a step.
LEMMA FateNow ==
    ASSUME TypeOK, NEW i \in Ids
    PROVE  /\ Len(told[i]) = 1 => Fate(i) = told[i][1]
           /\ Unheard(i) /\ Listed(i) => Fate(i) = "pending"
           /\ Unheard(i) /\ ~Listed(i) /\ up[i].kind # "none" => Fate(i) = "sent"
           /\ Unheard(i) /\ ~Listed(i) /\ up[i].kind = "none" => Fate(i) = "new"
<1>1. DOMAIN reply_list = 1 .. Len(reply_list)
  BY DEF TypeOK
<1>2. i \in Enlisted <=> Listed(i)
  BY <1>1 DEF Enlisted, Listed
<1>3. CASE Len(told[i]) = 1
  BY <1>3 DEF Fate, Unheard
<1>4. CASE Len(told[i]) = 0
  <2>1. Len(told[i]) # 1 /\ ~(Len(told[i]) > 1)
    BY <1>4
  <2> QED
    BY <1>2, <2>1 DEF Fate
<1> QED
  BY <1>3, <1>4 DEF Unheard

LEMMA FateThen ==
    ASSUME TypeOK', NEW i \in Ids
    PROVE  /\ Len(told'[i]) = 1 => Fate(i)' = told'[i][1]
           /\ Unheard(i)' /\ Listed(i)' => Fate(i)' = "pending"
           /\ Unheard(i)' /\ ~Listed(i)' /\ up'[i].kind # "none" => Fate(i)' = "sent"
           /\ Unheard(i)' /\ ~Listed(i)' /\ up'[i].kind = "none" => Fate(i)' = "new"
<1>1. DOMAIN reply_list' = 1 .. Len(reply_list')
  BY DEF TypeOK
<1>2. (i \in Enlisted)' <=> Listed(i)'
  BY <1>1 DEF Enlisted, Listed
<1>3. CASE Len(told'[i]) = 1
  BY <1>3 DEF Fate, Unheard
<1>4. CASE Len(told'[i]) = 0
  <2>1. Len(told'[i]) # 1 /\ ~(Len(told'[i]) > 1)
    BY <1>4
  <2> QED
    BY <1>2, <2>1 DEF Fate
<1> QED
  BY <1>3, <1>4 DEF Unheard

LEMMA HeardOnce ==
    ASSUME TypeOK, FateInv, NEW i \in Ids
    PROVE  Len(told[i]) = 1 \/ Unheard(i)
<1>1. Len(told[i]) \in Nat /\ Len(told[i]) <= 1
  BY DEF TypeOK, FateInv
<1>2. \A n \in Nat : n <= 1 => n = 1 \/ n = 0
  OBVIOUS
<1> QED
  BY <1>1, <1>2, Zenon DEF Unheard

LEMMA FateStays ==
    ASSUME TypeOK, TypeOK', FateInv, NEW i \in Ids,
           told'[i] = told[i], Len(told[i]) = 1 \/ (Listed(i)' <=> Listed(i)),
           up'[i].kind = up[i].kind
    PROVE  Fate(i)' = Fate(i)
<1>2. Len(told[i]) = 1 \/ Unheard(i)
  BY HeardOnce
<1>3. Unheard(i)' <=> Unheard(i)
  BY DEF Unheard
<1> QED
  BY <1>2, <1>3, FateNow, FateThen

\* A step of one request.
LEMMA OneFate ==
    ASSUME TypeOK, TypeOK', FateInv, NEW i \in Ids,
           \A j \in Ids : j # i =>
              told'[j] = told[j] /\ (Listed(j)' <=> Listed(j)) /\ up'[j].kind = up[j].kind
    PROVE  FateMap' = [FateMap EXCEPT ![i] = Fate(i)'] /\ FateMap[i] = Fate(i)
<1>1. \A j \in Ids : j # i => Fate(j)' = Fate(j)
  BY FateStays
<1> QED
  BY <1>1 DEF FateMap

LEMMA OneAnswer ==
    ASSUME NEW i \in Ids,
           \A j \in Ids : up'[j].answer = up[j].answer /\ (j # i => up'[j].kind = up[j].kind),
           up[i].kind = "none" \/ up'[i].kind = up[i].kind
    PROVE  /\ AnswerMap' = AnswerMap /\ Mute' \in {Mute, Mute \cup {i}}
           /\ up'[i].kind = up[i].kind => Mute' = Mute
<1>1. "none" \notin MuteKinds
  BY DEF MuteKinds
<1>2. AnswerMap' = AnswerMap
  BY DEF AnswerMap
<1>3. CASE up'[i].kind = up[i].kind
  BY <1>2, <1>3 DEF Mute
<1>4. CASE up[i].kind = "none" /\ up'[i].kind \notin MuteKinds
  <2>1. Mute' = Mute
    BY <1>1, <1>4 DEF Mute
  <2> QED
    BY <1>2, <2>1
<1>5. CASE up[i].kind = "none" /\ up'[i].kind \in MuteKinds
  <2>1. Mute' = Mute \cup {i}
    BY <1>5 DEF Mute
  <2> QED
    BY <1>1, <1>2, <1>5, <2>1
<1> QED
  BY <1>3, <1>4, <1>5

\* The steps of TemplateRequest, in terms of the three maps.
LEMMA Moves ==
    ASSUME NEW i \in Ids, NEW from, NEW to,
           FateMap[i] = from, FateMap' = [FateMap EXCEPT ![i] = to],
           AnswerMap' = AnswerMap, Mute' \in {Mute, Mute \cup {i}}
    PROVE  /\ from = "new" /\ to = "sent" => Request!Next
           /\ from \in {"new", "sent"} /\ to = "failed" => Request!Next
           /\ /\ from = "sent" /\ to = "pending" /\ Mute' = Mute
              /\ Cardinality({j \in Ids : FateMap[j] = "pending"}) < Capacity
              => Request!Next
           /\ /\ from = "pending" /\ i \notin Mute /\ Mute' = Mute
              /\ to = "timeout" \/ (to \in Verdicts /\ AnswerMap[i] = to)
              => Request!Next
           /\ /\ from = "pending" /\ to = "silent" /\ Mute' = Mute
              /\ i \in Mute \/ AnswerMap[i] = "garbled"
              => Request!Next
<1>1. Request!Become(i, from, to)
  BY DEF Request!Become, FateMap
<1>2. ASSUME from = "new", to = "sent" PROVE Request!Next
  <2>1. Request!Publish(i)
    BY <1>1, <1>2 DEF Request!Publish, AnswerMap, Mute
  <2> QED
    BY <2>1 DEF Request!Next
<1>3. ASSUME from \in {"new", "sent"}, to = "failed" PROVE Request!Next
  <2>1. Request!Fail(i)
    BY <1>1, <1>3 DEF Request!Fail, AnswerMap, Mute
  <2> QED
    BY <2>1 DEF Request!Next
<1>4. ASSUME from = "sent", to = "pending", Mute' = Mute,
             Cardinality({j \in Ids : FateMap[j] = "pending"}) < Capacity
      PROVE  Request!Next
  <2>1. Request!Register(i)
    <3>1. Request!Pending = {j \in Ids : FateMap[j] = "pending"}
      BY DEF Request!Pending, FateMap
    <3>2. Request!Cardinality(Request!Pending) < Capacity
      <4>1. Request!Cardinality(Request!Pending) = Cardinality(Request!Pending)
        BY DEF Cardinality, Request!Cardinality
      <4> QED
        BY <1>4, <3>1, <4>1
    <3> QED
      BY <1>1, <1>4, <3>2 DEF Request!Register, AnswerMap, Mute
  <2> QED
    BY <2>1 DEF Request!Next
<1>5. ASSUME from = "pending", i \notin Mute, Mute' = Mute,
             to = "timeout" \/ (to \in Verdicts /\ AnswerMap[i] = to)
      PROVE  Request!Next
  <2>1. Request!Tell(i)
    BY <1>1, <1>5 DEF Request!Tell, Request!Verdicts, Verdicts, AnswerMap, Mute
  <2> QED
    BY <2>1 DEF Request!Next
<1>6. ASSUME from = "pending", to = "silent", Mute' = Mute, i \in Mute \/ AnswerMap[i] = "garbled"
      PROVE  Request!Next
  <2>1. Request!Vanish(i)
    BY <1>1, <1>6 DEF Request!Vanish, AnswerMap, Mute
  <2> QED
    BY <2>1 DEF Request!Next
<1> QED
  BY <1>2, <1>3, <1>4, <1>5, <1>6

\* The requests that wait for their answer are in the list, which is not full.
LEMMA RoomLeft ==
    ASSUME TypeOK, FateInv, Len(reply_list) < Capacity
    PROVE  Cardinality({j \in Ids : FateMap[j] = "pending"}) < Capacity
<1> DEFINE P == {j \in Ids : FateMap[j] = "pending"}
           D == 1 .. Len(reply_list)
           f == [k \in D |-> reply_list[k].id]
<1>0. Len(reply_list) \in Nat /\ Capacity \in Nat
  BY TemplateAssumption DEF TypeOK
<1>1. IsFiniteSet(D) /\ Cardinality(D) = Len(reply_list)
  <2>1. \A n \in Nat : IsFiniteSet(1 .. n) /\ Cardinality(1 .. n) = n
    <3> TAKE n \in Nat
    <3>1. 1 \in Int /\ n \in Int
      OBVIOUS
    <3>2. IsFiniteSet(1 .. n) /\ Cardinality(1 .. n) = IF 1 > n THEN 0 ELSE n - 1 + 1
      BY <3>1, FS_Interval
    <3>3. (IF 1 > n THEN 0 ELSE n - 1 + 1) = n
      OBVIOUS
    <3> QED
      BY <3>2, <3>3
  <2> QED
    BY <1>0, <2>1, Zenon
<1>2. DOMAIN f = D /\ \A k \in D : f[k] = reply_list[k].id
  OBVIOUS
<1>3. P \subseteq {f[k] : k \in D}
  <2> SUFFICES ASSUME NEW j \in Ids, FateMap[j] = "pending" PROVE j \in {f[k] : k \in D}
    OBVIOUS
  <2>1. Len(told[j]) = 1 \/ Unheard(j)
    BY HeardOnce
  <2>2. Len(told[j]) = 1 => told[j][1] # "pending"
    <3>1. told[j] \in Seq(Outcomes)
      BY DEF TypeOK
    <3>2. \A s \in Seq(Outcomes) : Len(s) = 1 => s[1] \in Outcomes
      OBVIOUS
    <3>3. "pending" \notin Outcomes
      BY DEF Outcomes, Verdicts
    <3> QED
      BY <3>1, <3>2, <3>3, Zenon
  <2>3. Listed(j)
    BY <2>1, <2>2, FateNow DEF FateMap
  <2> QED
    BY <1>2, <2>3 DEF Listed
<1> HIDE DEF P, D
<1> DEFINE R == {f[k] : k \in D}
<1> HIDE DEF f
<1>4. f \in Surjection(D, R)
  BY <1>2 DEF Surjection, f
<1>5. IsFiniteSet(R) /\ Cardinality(R) <= Cardinality(D)
  BY <1>1, <1>4, FS_Surjection
<1>6. P \in SUBSET R
  BY <1>3
<1>7. IsFiniteSet(P) /\ Cardinality(P) <= Cardinality(R)
  <2> HIDE DEF R
  <2> QED
    BY <1>5, <1>6, FS_Subset
<1>8. Cardinality(P) \in Nat /\ Cardinality(R) \in Nat
  BY <1>5, <1>7, FS_CardinalityType
<1>9. Cardinality(P) < Capacity
  BY <1>0, <1>1, <1>5, <1>7, <1>8
<1> QED
  BY <1>9 DEF P

-----------------------------------------------------------------------------
(* Each step of Template is one of TemplateRequest, or none.               *)

\* A step that leaves the life of every request as it is.
LEMMA Quiet ==
    ASSUME TypeOK, TypeOK', FateInv,
           \A j \in Ids : /\ told'[j] = told[j] /\ up'[j].kind = up[j].kind
                          /\ up'[j].answer = up[j].answer
                          /\ Len(told[j]) = 1 \/ (Listed(j)' <=> Listed(j))
    PROVE  UNCHANGED Request!vars
<1>1. \A j \in Ids : Fate(j)' = Fate(j)
  BY FateStays
<1>2. FateMap' = FateMap
  BY <1>1 DEF FateMap
<1>3. AnswerMap' = AnswerMap /\ Mute' = Mute
  BY DEF AnswerMap, Mute
<1> QED
  BY <1>2, <1>3 DEF Request!vars, FateMap, AnswerMap, Mute

\* A request that was published is entered in the list, or fails.
LEMMA EnlistMoves ==
    ASSUME TypeOK, TypeOK', FateInv, NEW r, r.id \in Ids, r.kind \in Kinds, r.token \in Int,
           Enlist(r), Unheard(r.id), ~Listed(r.id), up[r.id].kind # "none", up' = up
    PROVE  Request!Next
<1> SUFFICES ASSUME NEW i \in Ids, i = r.id PROVE Request!Next
  OBVIOUS
<1>1. Fate(i) = "sent"
  BY FateNow
<1>2. AnswerMap' = AnswerMap /\ Mute' = Mute
  BY OneAnswer
<1>3. CASE /\ reply_list' = reply_list /\ Len(told'[i]) = 1 /\ told'[i][1] = "failed"
           /\ \A j \in Ids : j # i => told'[j] = told[j]
  <2>1. Fate(i)' = "failed"
    BY <1>3, FateThen
  <2>2. \A j : Listed(j)' <=> Listed(j)
    BY <1>3 DEF Listed
  <2>3. FateMap[i] = "sent" /\ FateMap' = [FateMap EXCEPT ![i] = "failed"]
    BY <1>1, <1>3, <2>1, <2>2, OneFate
  <2> QED
    BY <1>2, <2>3, Moves
<1>4. CASE /\ told' = told /\ Len(reply_list) < Capacity
           /\ \A j : Listed(j)' <=> Listed(j) \/ j = i
  <2>1. Fate(i)' = "pending"
    BY <1>4, FateThen DEF Unheard
  <2>2. FateMap[i] = "sent" /\ FateMap' = [FateMap EXCEPT ![i] = "pending"]
    BY <1>1, <1>4, <2>1, OneFate
  <2>3. Cardinality({j \in Ids : FateMap[j] = "pending"}) < Capacity
    BY <1>4, RoomLeft
  <2> QED
    BY <1>2, <2>2, <2>3, Moves
<1> QED
  BY <1>3, <1>4, EnlistEffect, ListedAdd

\* The caller's request is published, and fails or is entered in the list.
LEMMA ThreadMoves ==
    ASSUME TypeInv, TypeInv', NumberInv, FateInv, NEW t \in Threads,
           RequestStep(t) \/ \E kind : Begin(t, kind)
    PROVE  [Request!Next]_(Request!vars)
<1>0. TypeOK /\ TypeOK'
  BY DEF TypeInv
<1>1. CASE ReadToken(t) \/ StoreToken(t) \/ Return(t) \/ \E kind : Begin(t, kind)
  <2>1. UNCHANGED <<reply_list, told, up>>
    BY <1>1, ReadEffect, StoreEffect, ReturnEffect, BeginEffect
  <2> QED
    BY <1>0, <2>1, Quiet DEF Listed
<1>2. ASSUME PublishOk(t) \/ PublishFail(t) \/ AddRequest(t) PROVE Request!Next
  <2> SUFFICES ASSUME NEW i, i = req[t].id PROVE Request!Next
    OBVIOUS
  <2>1. pc[t] \in {"publish", "add"} /\ pc[t] \in Issuing
    BY <1>2, PublishEffect, FailEffect, AddEffect DEF Issuing
  <2>2. i \in Ids /\ Unheard(i) /\ ~Listed(i) /\ req[t].kind # "none" /\ req[t].kind \in Kinds /\ req[t].token \in Int
    BY <2>1, ReqTyped DEF FateInv
  <2>3. CASE PublishOk(t)
    <3>1. /\ pc[t] = "publish" /\ up'[i].kind = req[t].kind /\ up'[i].answer = up[i].answer
          /\ \A j \in Ids : j # i => up'[j] = up[j]
          /\ told' = told /\ reply_list' = reply_list
      BY <2>3, PublishEffect
    <3>2. up[i].kind = "none"
      BY <3>1 DEF NumberInv, Unsent
    <3>3. \A j : Listed(j)' <=> Listed(j)
      BY <3>1 DEF Listed
    <3>4. Fate(i) = "new"
      BY <1>0, <2>2, <3>2, FateNow
    <3>5. Fate(i)' = "sent"
      BY <1>0, <2>2, <3>1, <3>3, FateThen DEF Unheard
    <3>6. FateMap[i] = "new" /\ FateMap' = [FateMap EXCEPT ![i] = "sent"]
      BY <1>0, <2>2, <3>1, <3>3, <3>4, <3>5, OneFate
    <3>7. AnswerMap' = AnswerMap /\ Mute' \in {Mute, Mute \cup {i}}
      BY <2>2, <3>1, <3>2, OneAnswer
    <3> QED
      BY <2>2, <3>6, <3>7, Moves
  <2>4. CASE PublishFail(t)
    <3>1. /\ pc[t] = "publish" /\ reply_list' = reply_list
          /\ \A j \in Ids : j # i => up'[j] = up[j] /\ told'[j] = told[j]
          /\ up'[i].answer = up[i].answer
      BY <2>4, FailEffect
    <3>2. up[i].kind = "none"
      BY <3>1 DEF NumberInv, Unsent
    <3>3. \A j : Listed(j)' <=> Listed(j)
      BY <3>1 DEF Listed
    <3>4. Fate(i) = "new"
      BY <1>0, <2>2, <3>2, FateNow
    <3>5. Fate(i)' = "failed"
      <4>1. Hear(i, "failed") /\ "failed" \in Outcomes
        BY <2>4 DEF PublishFail, Outcomes
      <4> QED
        BY <1>0, <2>2, <4>1, HearEffect, FateThen
    <3>6. FateMap[i] = "new" /\ FateMap' = [FateMap EXCEPT ![i] = "failed"]
      BY <1>0, <2>2, <3>1, <3>3, <3>4, <3>5, OneFate
    <3>7. AnswerMap' = AnswerMap /\ Mute' \in {Mute, Mute \cup {i}}
      BY <2>2, <3>1, <3>2, OneAnswer
    <3> QED
      BY <2>2, <3>6, <3>7, Moves
  <2>5. CASE AddRequest(t)
    <3>1. up' = up /\ pc[t] = "add" /\ Enlist(req[t])
      BY <2>5, AddEffect DEF AddRequest
    <3>2. up[i].kind # "none"
      BY <2>2, <3>1 DEF NumberInv, Sent
    <3> QED
      BY <1>0, <2>2, <3>1, <3>2, EnlistMoves
  <2> QED
    BY <1>2, <2>3, <2>4, <2>5
<1> QED
  BY <1>1, <1>2 DEF RequestStep

\* What Main does to a request with an entry in the list.
LEMMA MainMoves ==
    ASSUME TypeInv, TypeInv', FrameInv, NumberInv, TokenInv, MessageInv, FateInv,
           Timeouts \cap SyncKinds = {}, MainStep, ~ClearPublish, ~ClearAdd
    PROVE  [Request!Next]_(Request!vars)
<1>0. TypeOK /\ TypeOK' /\ up' = up
  BY MainShape DEF TypeInv
<1>1. CASE Stays
  <2>1. told' = told /\ reply_list' = reply_list
    BY <1>1 DEF Stays
  <2> QED
    BY <1>0, <2>1, Quiet DEF Listed
<1>2. CASE Leaves
  <2>1. told' = told /\ iter.at \in 1 .. Len(reply_list) /\ RemoveCurrent /\ Len(told[Current.id]) = 1
    BY <1>2 DEF Leaves, FateInv, Clearing
  <2>2. \A i : Listed(i)' <=> Listed(i) /\ i # Current.id
    BY <1>0, <2>1, ListedRemove
  <2>3. \A j \in Ids : Len(told[j]) = 1 \/ (Listed(j)' <=> Listed(j))
    BY <2>1, <2>2
  <2> QED
    BY <1>0, <2>1, <2>3, Quiet
<1>3. CASE Removes \/ FindsControl
  <2> SUFFICES ASSUME NEW i, i = Current.id PROVE Request!Next
    OBVIOUS
  <2>1. PICK what \in Outcomes : Hear(i, what) /\ Settles(what)
    BY <1>3 DEF Removes, FindsControl, Outcomes, Verdicts
  <2>2. /\ pc[Main] = "walk" /\ iter.at \in 1 .. Len(reply_list)
        /\ RemoveCurrent \/ reply_list' = reply_list
    BY <1>3 DEF Removes, FindsControl
  <2>3. i \in Ids /\ Listed(i) /\ Unheard(i) /\ up[i].kind = Current.kind
    BY <2>2, EntryKnown DEF FateInv, Listed, Current, Clearing
  <2>4. \A j \in Ids : j # i => told'[j] = told[j] /\ (Listed(j)' <=> Listed(j))
    <3>1. \A j \in Ids : j # i => told'[j] = told[j]
      BY <1>0, <2>1, <2>3, HearEffect
    <3>2. \A j : j # i => (Listed(j)' <=> Listed(j))
      <4>1. CASE RemoveCurrent
        BY <1>0, <2>2, <4>1, ListedRemove
      <4>2. CASE reply_list' = reply_list
        BY <4>2 DEF Listed
      <4> QED
        BY <2>2, <4>1, <4>2
    <3> QED
      BY <3>1, <3>2
  <2>5. Fate(i) = "pending"
    BY <1>0, <2>3, FateNow
  <2>6. Fate(i)' = what
    BY <1>0, <2>1, <2>3, HearEffect, FateThen
  <2>7. FateMap[i] = "pending" /\ FateMap' = [FateMap EXCEPT ![i] = what]
    BY <1>0, <2>3, <2>4, <2>5, <2>6, OneFate
  <2>8. AnswerMap' = AnswerMap /\ Mute' = Mute
    BY <1>0, <2>3, OneAnswer
  <2>9. (i \in Mute <=> Current.kind \in MuteKinds) /\ AnswerMap[i] = up[i].answer
    BY <2>3 DEF Mute, AnswerMap
  <2>10. CASE what = "silent" /\ (Current.kind \in MuteKinds \/ up[i].answer = "garbled")
    BY <2>3, <2>7, <2>8, <2>9, <2>10, Moves
  <2>11. CASE /\ Current.kind \notin MuteKinds
              /\ what = "timeout" \/ (what \in Verdicts /\ what = up[i].answer)
    BY <2>3, <2>7, <2>8, <2>9, <2>11, Moves
  <2> QED
    BY <2>1, <2>10, <2>11 DEF Settles
<1> QED
  BY <1>1, <1>2, <1>3, MainShape

\* The request that clears the control data is published, and fails or is listed.
LEMMA ClearMoves ==
    ASSUME TypeInv, TypeInv', FrameInv, NumberInv, FateInv, ClearPublish \/ ClearAdd
    PROVE  Request!Next
<1> SUFFICES ASSUME NEW i, i = ClearReq.id PROVE Request!Next
  OBVIOUS
<1>0. /\ TypeOK /\ TypeOK' /\ pc \in [Threads -> Places]
      /\ pc[Main] \in {"clear_publish", "clear_add"}
  BY DEF TypeInv, TypeOK, ClearPublish, ClearAdd, Goto
<1>1. i \in Ids /\ ClearReq.kind = "clear" /\ ClearReq.token \in Int /\ i = Current.id + MaxReqs
  BY <1>0, ClearFacts
<1>2. CASE ClearPublish
  <2>1. /\ pc[Main] = "clear_publish" /\ reply_list' = reply_list
        /\ \A j \in Ids : j # i => up'[j] = up[j] /\ told'[j] = told[j]
        /\ up[i].kind = "none" /\ up'[i].answer = up[i].answer
    BY <1>2, ClearEffect
  <2>2. ~Listed(i) /\ Unheard(i)
    <3>1. ~Listed(i)
      BY <2>1, EntryKnown DEF Listed
    <3>2. told[i] = <<>>
      BY <1>1, <2>1, ClearFacts DEF NotCleared
    <3> QED
      BY <3>1, <3>2 DEF Unheard
  <2>3. \A j : Listed(j)' <=> Listed(j)
    BY <2>1 DEF Listed
  <2>4. Fate(i) = "new"
    BY <1>0, <1>1, <2>1, <2>2, FateNow
  <2>5. AnswerMap' = AnswerMap /\ Mute' \in {Mute, Mute \cup {i}}
    BY <1>1, <2>1, OneAnswer
  <2>6. CASE told' = told /\ up'[i].kind = "clear"
    <3>1. Fate(i)' = "sent"
      BY <1>0, <1>1, <2>2, <2>3, <2>6, FateThen DEF Unheard
    <3>2. FateMap[i] = "new" /\ FateMap' = [FateMap EXCEPT ![i] = "sent"]
      BY <1>0, <1>1, <2>1, <2>3, <2>4, <3>1, OneFate
    <3> QED
      BY <1>1, <2>5, <3>2, Moves
  <2>7. CASE Hear(i, "failed")
    <3>1. Fate(i)' = "failed"
      <4>1. "failed" \in Outcomes
        BY DEF Outcomes
      <4> QED
        BY <1>0, <1>1, <2>2, <2>7, <4>1, HearEffect, FateThen
    <3>2. FateMap[i] = "new" /\ FateMap' = [FateMap EXCEPT ![i] = "failed"]
      BY <1>0, <1>1, <2>1, <2>3, <2>4, <3>1, OneFate
    <3> QED
      BY <1>1, <2>5, <3>2, Moves
  <2>8. Hear(i, "failed") \/ (told' = told /\ up'[i].kind = "clear")
    <3>1. Hear(i, "failed") \/ pc'[Main] = "clear_add"
      BY <1>0, <1>2, IdFacts DEF ClearPublish, Goto
    <3>2. \/ pc'[Main] = "clear_add" /\ told' = told /\ up'[i].kind = "clear"
          \/ pc'[Main] = "remove"
      BY <1>2, ClearEffect
    <3> QED
      BY <3>1, <3>2
  <2> QED
    BY <2>6, <2>7, <2>8
<1>3. CASE ClearAdd
  <2>1. pc[Main] = "clear_add" /\ Enlist(ClearReq) /\ up' = up
    BY <1>3 DEF ClearAdd, Goto
  <2>2. Unheard(i) /\ ~Listed(i) /\ up[i].kind = "clear"
    BY <1>1, <2>1 DEF FateInv, NumberInv, Sent
  <2>3. "clear" \in Kinds
    BY DEF Kinds
  <2> QED
    BY <1>0, <1>1, <2>1, <2>2, <2>3, EnlistMoves
<1> QED
  BY <1>2, <1>3

\* The cloud answers a request that was published, once.
LEMMA AnswerMoves ==
    ASSUME TypeInv, TypeInv', FateInv, NEW i \in Ids, CloudAnswer(i)
    PROVE  Request!Next
<1>0. TypeOK /\ TypeOK'
  BY DEF TypeInv
<1>1. /\ up[i].kind \in Kinds /\ up[i].answer = "none" /\ up'[i].answer \in Verdicts \cup {"garbled"}
      /\ up'[i].kind = up[i].kind /\ \A j \in Ids : j # i => up'[j] = up[j]
      /\ UNCHANGED <<reply_list, told>>
  BY AnswerEffect
<1>2. up[i].kind # "none"
  BY <1>1 DEF Kinds, SyncKinds
<1>3. Fate(i) # "new"
  <2>1. told[i] \in Seq(Outcomes)
    BY <1>0 DEF TypeOK
  <2>2. \A s \in Seq(Outcomes) : Len(s) = 1 => s[1] \in Outcomes
    OBVIOUS
  <2>3. Len(told[i]) = 1 => told[i][1] \in Outcomes
    BY <2>1, <2>2, Zenon
  <2>4. "new" \notin Outcomes
    BY DEF Outcomes, Verdicts
  <2> QED
    BY <1>0, <1>2, <2>3, <2>4, HeardOnce, FateNow
<1>4. \A j \in Ids : Fate(j)' = Fate(j)
  <2>1. \A j : Listed(j)' <=> Listed(j)
    BY <1>1 DEF Listed
  <2> QED
    BY <1>0, <1>1, <2>1, FateStays
<1>5. FateMap' = FateMap /\ FateMap[i] # "new"
  BY <1>3, <1>4 DEF FateMap
<1>6. Mute' = Mute /\ AnswerMap[i] = "none" /\ AnswerMap' = [AnswerMap EXCEPT ![i] = up'[i].answer]
  BY <1>1 DEF Mute, AnswerMap
<1>7. up'[i].answer \in Request!Answers
  BY <1>1 DEF Request!Answers, Request!Verdicts, Verdicts
<1>8. Request!Answer(i)
  BY <1>5, <1>6, <1>7 DEF Request!Answer, FateMap, AnswerMap, Mute
<1> QED
  BY <1>8 DEF Request!Next

\* The passing of time and the control messages.
LEMMA WorldQuiet ==
    ASSUME TypeInv, TypeInv', FateInv,
           CloudControl \/ UNCHANGED vars \/ \E i \in Ids : TimerExpires(i)
    PROVE  UNCHANGED Request!vars
<1>0. TypeOK /\ TypeOK'
  BY DEF TypeInv
<1>1. UNCHANGED <<told, up>>
  BY DEF CloudControl, TimerExpires, vars
<1>2. \A j : Listed(j)' <=> Listed(j)
  <2>1. CASE CloudControl \/ UNCHANGED vars
    <3>1. reply_list' = reply_list
      BY <2>1 DEF CloudControl, vars, templateVars
    <3> QED
      BY <3>1 DEF Listed
  <2>2. CASE \E i \in Ids : TimerExpires(i)
    <3>1. /\ Len(reply_list') = Len(reply_list)
          /\ \A k \in 1 .. Len(reply_list) : reply_list'[k].id = reply_list[k].id
      BY <1>0, <2>2, ExpiredTyped
    <3> QED
      BY <3>1 DEF Listed
  <2> QED
    BY <2>1, <2>2
<1> QED
  BY <1>0, <1>1, <1>2, Quiet

-----------------------------------------------------------------------------
LifeInv == TypeInv /\ FrameInv /\ NumberInv /\ TokenInv /\ MessageInv /\ FateInv

LEMMA RequestsBegin == Init => Request!Init
<1> SUFFICES ASSUME Init PROVE Request!Init
  OBVIOUS
<1>1. TypeOK
  BY TypeInit DEF TypeInv
<1>2. \A i \in Ids : up[i].kind = "none" /\ up[i].answer = "none" /\ Len(told[i]) = 0
  BY DEF Init, NotSent
<1>3. \A i \in Ids : ~Listed(i)
  <2>1. Len(reply_list) = 0
    BY DEF Init
  <2> QED
    BY <2>1 DEF Listed
<1>4. \A i \in Ids : Fate(i) = "new"
  BY <1>1, <1>2, <1>3, FateNow DEF Unheard
<1>5. FateMap = [i \in Ids |-> "new"]
  BY <1>4 DEF FateMap
<1>6. AnswerMap = [i \in Ids |-> "none"] /\ Mute = {}
  BY <1>2 DEF AnswerMap, Mute, MuteKinds
<1> QED
  BY <1>5, <1>6 DEF Request!Init, FateMap, AnswerMap, Mute

LEMMA RequestsMove ==
    ASSUME LifeInv, LifeInv', Timeouts \cap SyncKinds = {}, [Next]_vars
    PROVE  [Request!Next]_(Request!vars)
<1> USE DEF LifeInv
<1>1. ASSUME NEW t \in Threads, Call(t) PROVE [Request!Next]_(Request!vars)
  BY <1>1, ThreadMoves DEF Call, IOT_Template_Report, IOT_Template_GetStatus, IOT_Template_ControlReply
<1>2. CASE IOT_Template_Report_Sync \/ IOT_Template_GetStatus_sync
  BY <1>2, ThreadMoves DEF IOT_Template_Report_Sync, IOT_Template_GetStatus_sync, Threads
<1>3. CASE MainStep
  BY <1>3, MainMoves, ClearMoves
<1>4. ASSUME NEW t \in Threads, RequestStep(t) PROVE [Request!Next]_(Request!vars)
  BY <1>4, ThreadMoves
<1>5. ASSUME NEW i \in Ids, CloudAnswer(i) PROVE [Request!Next]_(Request!vars)
  BY <1>5, AnswerMoves
<1> QED
  BY <1>1, <1>2, <1>3, <1>4, <1>5, WorldQuiet DEF Next, Cloud

\* Where tokens are given to one request only and a synchronous call is not timed out
\* by the table, the requests of the data template behave as TemplateRequest says: at
\* most Capacity wait at a time, the application is told of each at most once, and a
\* verdict it is told is the one the cloud gave to that very request
\* (_add_request_to_template_list, _handle_template_reply_callback,
\* _handle_template_expired_reply_callback).
THEOREM RequestsAsPromised ==
    ASSUME Timeouts \cap SyncKinds = {}, "token_race" \notin Faults
    PROVE  Spec => RequestSpec
<1>1. Init => LifeInv
  BY TypeInit, FrameInit, NumberInit, TokenInit, MessageInit, FateInit DEF LifeInv
<1>2. LifeInv /\ [Next]_vars => LifeInv'
  BY TypeNext, FrameNext, NumberNext, TokenNext, MessageNext, FateNext DEF LifeInv
<1>3. LifeInv /\ LifeInv' /\ [Next]_vars => [Request!Next]_(Request!vars)
  BY RequestsMove
<1> QED
  BY <1>1, <1>2, <1>3, RequestsBegin, PTL DEF Spec, RequestSpec, Request!Spec
=============================================================================
