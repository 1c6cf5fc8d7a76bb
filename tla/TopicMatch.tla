----------------------------- MODULE TopicMatch -----------------------------
(***************************************************************************)
(* _is_topic_matched of src/mqtt/mqtt.c: the walk over a topic filter and  *)
(* a topic name that decides whether a subscription gets a message.  One   *)
(* step is one turn of the loop; the cursors count from 0 as in the code.  *)
(***************************************************************************)
EXTENDS Integers, Sequences, FiniteSets

CONSTANTS
    Letters,    \* the characters of a level
    MaxLen      \* bound on the lengths of filters and names

ASSUME TopicAssumption ==
    /\ Letters \cap {"/", "+", "#", "NUL"} = {}
    /\ MaxLen \in Nat

VARIABLES
    topic_filter, topicName,    \* the arguments
    curf, curn,                 \* the cursors
    phase,                      \* "loop", "skip", "end" or "done"
    matched                     \* the value returned

vars == <<topic_filter, topicName, curf, curn, phase, matched>>

Strings(chars) == UNION {[1 .. n -> chars] : n \in 1 .. MaxLen}

\* "assume topic filter and name is in correct format; # can only be at end;
\* + and # can only be next to separator".  A level that has a wildcard is
\* nothing but the wildcard.
ValidFilter(f) == \A i \in 1 .. Len(f) : f[i] \in {"+", "#"} =>
    /\ i = 1 \/ f[i - 1] = "/"
    /\ i = Len(f) \/ (f[i] = "+" /\ f[i + 1] = "/")

Filters == {f \in Strings(Letters \cup {"/", "+", "#"}) : ValidFilter(f)}
Names == Strings(Letters \cup {"/"})

Init ==
    /\ topic_filter \in Filters
    /\ topicName \in Names
    /\ curf = 0 /\ curn = 0
    /\ phase = "loop"
    /\ matched = FALSE

\* The character at a cursor, the terminating NUL included.
F(i) == IF i < Len(topic_filter) THEN topic_filter[i + 1] ELSE "NUL"
N(i) == topicName[i + 1]

Looping == phase = "loop" /\ F(curf) # "NUL" /\ curn < Len(topicName)

EmptyLevel == F(curf) = "+" /\ N(curn) = "/"

Mismatch ==
    \/ N(curn) = "/" /\ F(curf) # "/"
    \/ F(curf) \notin {"+", "#"} /\ F(curf) # N(curn)

\* Mutant: the filter stays at the wildcard.
PlusAtSeparator_Stays ==
    /\ Looping /\ EmptyLevel
    /\ UNCHANGED vars

PlusAtSeparator ==
    /\ Looping /\ EmptyLevel
    /\ curf' = curf + 1
    /\ UNCHANGED <<topic_filter, topicName, curn, phase, matched>>

Break ==
    /\ Looping /\ ~EmptyLevel /\ Mismatch
    /\ phase' = "end"
    /\ UNCHANGED <<topic_filter, topicName, curf, curn, matched>>

Advance ==
    /\ Looping /\ ~EmptyLevel /\ ~Mismatch
    /\ F(curf) # "+"
    /\ curf' = curf + 1
    /\ curn' = IF F(curf) = "#" THEN Len(topicName) ELSE curn + 1
    /\ UNCHANGED <<topic_filter, topicName, phase, matched>>

\* "skip until we meet the next separator, or end of string": the inner loop.
EnterLevel ==
    /\ Looping /\ ~EmptyLevel /\ ~Mismatch
    /\ F(curf) = "+"
    /\ phase' = "skip"
    /\ UNCHANGED <<topic_filter, topicName, curf, curn, matched>>

\* Mutant: the end of the name is tested one character late.
AtLevelEnd_Late ==
    curn + 1 <= Len(topicName) => curn + 1 < Len(topicName) /\ N(curn + 1) = "/"

AtLevelEnd == curn + 1 < Len(topicName) => N(curn + 1) = "/"

SkipChar ==
    /\ phase = "skip" /\ ~AtLevelEnd
    /\ curn' = curn + 1
    /\ UNCHANGED <<topic_filter, topicName, curf, phase, matched>>

LeaveLevel ==
    /\ phase = "skip" /\ AtLevelEnd
    /\ curf' = curf + 1
    /\ curn' = curn + 1
    /\ phase' = "loop"
    /\ UNCHANGED <<topic_filter, topicName, matched>>

\* Mutant: a filter that is used up matches whatever is left of the name.
Verdict_Prefix ==
    \/ F(curf) = "NUL"
    \/ F(curf) = "#"
    \/ F(curf) # "NUL" /\ F(curf + 1) = "#"
    \/ F(curf) = "+" /\ N(curn - 1) = "/"

\* Mutant: the parent level of "/#" is forgotten.
Verdict_NoParent ==
    IF F(curf) = "NUL" THEN curn = Len(topicName)
    ELSE F(curf) = "#" \/ (F(curf) = "+" /\ N(curn - 1) = "/")

Verdict ==
    IF F(curf) = "NUL" THEN curn = Len(topicName)
    ELSE F(curf) = "#" \/ F(curf + 1) = "#" \/ (F(curf) = "+" /\ N(curn - 1) = "/")

Finish ==
    /\ phase \in {"loop", "end"} /\ ~Looping
    /\ phase' = "done"
    /\ matched' = Verdict
    /\ UNCHANGED <<topic_filter, topicName, curf, curn>>

Next ==
    \/ PlusAtSeparator
    \/ Break
    \/ Advance
    \/ EnterLevel
    \/ SkipChar
    \/ LeaveLevel
    \/ Finish

Spec == Init /\ [][Next]_vars

\* The function runs to its end.
FairSpec == Spec /\ WF_vars(Next)

-----------------------------------------------------------------------------
(* What a filter matches: level by level, "+" any level, a final "#" the   *)
(* parent and everything below it.                                         *)

Separators(s) == {i \in 1 .. Len(s) : s[i] = "/"}
LevelCount(s) == Cardinality(Separators(s)) + 1

\* Where the k-th separator of s is, position 0 and the end included.
Boundary(s, k) ==
    CASE k = 0             -> 0
      [] k = LevelCount(s) -> Len(s) + 1
      [] OTHER             -> CHOOSE i \in Separators(s) :
                                 Cardinality({j \in Separators(s) : j <= i}) = k

Level(s, k) == SubSeq(s, Boundary(s, k - 1) + 1, Boundary(s, k) - 1)

LevelsAgree(f, n, count) ==
    \A k \in 1 .. count : Level(f, k) \in {<<"+">>, Level(n, k)}

Covers(f, n) ==
    IF f[Len(f)] = "#"
    THEN LevelCount(n) >= LevelCount(f) - 1 /\ LevelsAgree(f, n, LevelCount(f) - 1)
    ELSE LevelCount(n) = LevelCount(f) /\ LevelsAgree(f, n, LevelCount(f))

-----------------------------------------------------------------------------
(* Properties.                                                             *)

\* The cursors stay on their strings: neither passes the terminating NUL.
TypeOK ==
    /\ curf \in 0 .. Len(topic_filter)
    /\ curn \in 0 .. Len(topicName)
    /\ phase \in {"loop", "skip", "end", "done"}
    /\ matched \in BOOLEAN

\* deliver_message: "传递消息给消息回调处理函数" (passes the message to its
\* handler).  No message a filter covers is kept from its handler.
NoneMissed == phase = "done" /\ Covers(topic_filter, topicName) => matched

\* A filter without wildcards gets its own topic only.
LiteralExact ==
    phase = "done" /\ (\A i \in 1 .. Len(topic_filter) : topic_filter[i] \notin {"+", "#"}) =>
        (matched <=> topic_filter = topicName)

\* The function returns.
Terminates == <>(phase = "done")

=============================================================================
