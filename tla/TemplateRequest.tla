--------------------------- MODULE TemplateRequest --------------------------
(***************************************************************************)
(* What the data template promises about the requests it sends to the      *)
(* cloud: a request is published, waits in a table of bounded size, and    *)
(* its outcome is told to the application at most once; a verdict is the   *)
(* one the cloud gave to this very request.  Only a request that has no    *)
(* callback, or whose answer carries no readable code, disappears without  *)
(* a word.                                                                 *)
(***************************************************************************)
EXTENDS Naturals, FiniteSets

CONSTANTS
    Ids,        \* the requests
    Capacity    \* how many may wait for their answer at a time

VARIABLES
    fate,       \* fate[i]: how far request i has come
    answer,     \* answer[i]: what the cloud replied to request i
    mute        \* the requests that have no callback

vars == <<fate, answer, mute>>

Verdicts == {"accepted", "rejected"}
Answers == Verdicts \cup {"garbled"}
Fates == Verdicts \cup {"new", "sent", "pending", "timeout", "silent", "failed"}

Init ==
    /\ fate = [i \in Ids |-> "new"]
    /\ answer = [i \in Ids |-> "none"]
    /\ mute = {}

Pending == {i \in Ids : fate[i] = "pending"}

Become(i, from, to) ==
    /\ fate[i] = from
    /\ fate' = [fate EXCEPT ![i] = to]

Publish(i) ==
    /\ Become(i, "new", "sent")
    /\ mute' \in {mute, mute \cup {i}}
    /\ UNCHANGED answer

\* The caller is told that the request failed.  It may have been published.
Fail(i) ==
    /\ Become(i, "new", "failed") \/ Become(i, "sent", "failed")
    /\ mute' \in {mute, mute \cup {i}}
    /\ UNCHANGED answer

Register(i) ==
    /\ Cardinality(Pending) < Capacity
    /\ Become(i, "sent", "pending")
    /\ UNCHANGED <<answer, mute>>

Answer(i) ==
    /\ fate[i] # "new"
    /\ answer[i] = "none"
    /\ \E a \in Answers : answer' = [answer EXCEPT ![i] = a]
    /\ UNCHANGED <<fate, mute>>

\* The callback runs, with the cloud's verdict or with a timeout.
Tell(i) ==
    /\ i \notin mute
    /\ \E v \in Verdicts \cup {"timeout"} :
          /\ v \in Verdicts => answer[i] = v
          /\ Become(i, "pending", v)
    /\ UNCHANGED <<answer, mute>>

Vanish(i) ==
    /\ i \in mute \/ answer[i] = "garbled"
    /\ Become(i, "pending", "silent")
    /\ UNCHANGED <<answer, mute>>

Next == \E i \in Ids :
    \/ Publish(i)
    \/ Fail(i)
    \/ Register(i)
    \/ Answer(i)
    \/ Tell(i)
    \/ Vanish(i)

Spec == Init /\ [][Next]_vars

=============================================================================
