-------------------------- MODULE TopicMatchProofs --------------------------
(***************************************************************************)
(* For filters and names of every length and depth: the cursors never      *)
(* leave their strings, a filter without wildcards gets its own topic      *)
(* only, and no topic a filter covers level by level is missed.            *)
(***************************************************************************)
EXTENDS TopicMatch, FiniteSetTheorems, WellFoundedInduction, TLAPS

Chars == Letters \cup {"/", "+", "#"}

\* The arguments are strings of characters, and are never assigned.
Arguments ==
    /\ topic_filter \in Filters /\ topicName \in Names
    /\ topic_filter \in Seq(Chars) /\ topicName \in Seq(Chars)

\* Inside the inner loop there is a character under both cursors.
CursorInv ==
    /\ Arguments
    /\ TypeOK
    /\ phase = "skip" => curf < Len(topic_filter) /\ curn < Len(topicName)

\* A string of bounded length is a sequence.
LEMMA StringsAreSeqs ==
    ASSUME NEW C, NEW s \in Strings(C)
    PROVE  s \in Seq(C)
<1>1. PICK n \in 1 .. MaxLen : s \in [1 .. n -> C]
  BY DEF Strings
<1>2. n \in Nat
  BY TopicAssumption
<1>3. Seq(C) = UNION {[1 .. m -> C] : m \in Nat}
  OBVIOUS
<1> QED
  BY <1>1, <1>2, <1>3

\* The arguments of the call are sequences of characters.
LEMMA ArgumentsInit == Init => Arguments
<1> SUFFICES ASSUME Init PROVE Arguments
  OBVIOUS
<1>1. topic_filter \in Filters /\ topicName \in Names
  BY DEF Init
<1>2. topic_filter \in Seq(Chars)
  BY <1>1, StringsAreSeqs DEF Filters, Chars
<1>3. topicName \in Seq(Letters \cup {"/"})
  BY <1>1, StringsAreSeqs DEF Names
<1>4. topicName \in Seq(Chars)
  BY <1>3 DEF Chars
<1> QED
  BY <1>1, <1>2, <1>4 DEF Arguments

\* Every step of the walk preserves CursorInv.
LEMMA CursorInvInductive == CursorInv /\ [Next]_vars => CursorInv'
<1> SUFFICES ASSUME CursorInv, [Next]_vars PROVE CursorInv'
  OBVIOUS
<1>1. Len(topic_filter) \in Nat /\ Len(topicName) \in Nat
  BY DEF CursorInv, Arguments
<1>2. CASE PlusAtSeparator
  BY <1>1, <1>2 DEF PlusAtSeparator, Looping, F, CursorInv, Arguments, TypeOK
<1>3. CASE Break
  BY <1>1, <1>3 DEF Break, Looping, F, CursorInv, Arguments, TypeOK
<1>4. CASE Advance
  BY <1>1, <1>4 DEF Advance, Looping, F, CursorInv, Arguments, TypeOK
<1>5. CASE EnterLevel
  BY <1>1, <1>5 DEF EnterLevel, Looping, F, CursorInv, Arguments, TypeOK
<1>6. CASE SkipChar
  BY <1>1, <1>6 DEF SkipChar, AtLevelEnd, CursorInv, Arguments, TypeOK
<1>7. CASE LeaveLevel
  BY <1>1, <1>7 DEF LeaveLevel, CursorInv, Arguments, TypeOK
<1>8. CASE Finish
  <2>1. Verdict \in BOOLEAN
    BY DEF Verdict
  <2> QED
    BY <1>1, <1>8, <2>1 DEF Finish, CursorInv, Arguments, TypeOK
<1>9. CASE UNCHANGED vars
  BY <1>9 DEF vars, CursorInv, Arguments, TypeOK
<1> QED
  BY <1>2, <1>3, <1>4, <1>5, <1>6, <1>7, <1>8, <1>9 DEF Next

\* The walk begins with CursorInv.
LEMMA CursorInit == Init => CursorInv
<1> SUFFICES ASSUME Init PROVE CursorInv
  OBVIOUS
<1>1. Arguments
  BY ArgumentsInit
<1>2. Len(topic_filter) \in Nat /\ Len(topicName) \in Nat
  BY <1>1 DEF Arguments
<1>3. curf = 0 /\ curn = 0 /\ phase = "loop"
  BY DEF Init
<1>4. matched \in BOOLEAN
  BY DEF Init
<1> QED
  BY <1>1, <1>2, <1>3, <1>4 DEF CursorInv, TypeOK

\* CursorInv holds throughout the walk.
LEMMA CursorsAlways == Spec => []CursorInv
BY CursorInit, CursorInvInductive, PTL DEF Spec

\* The cursors of _is_topic_matched never pass the end of their strings, for
\* filters and names of every length.
THEOREM CursorsInside == Spec => []TypeOK
<1>1. CursorInv => TypeOK
  BY DEF CursorInv
<1> QED
  BY <1>1, CursorsAlways, PTL

-----------------------------------------------------------------------------
Literal == \A i \in 1 .. Len(topic_filter) : topic_filter[i] \notin {"+", "#"}

Agree(n) == \A i \in 1 .. n : topic_filter[i] = topicName[i]

\* Without wildcards the cursors move together over equal characters, and
\* the loop is left early only where the strings differ.
LiteralInv ==
    /\ CursorInv
    /\ Literal =>
          /\ phase # "skip"
          /\ curf = curn
          /\ Agree(curf)
          /\ phase = "end" =>
                /\ curf < Len(topic_filter) /\ curn < Len(topicName)
                /\ topic_filter[curf + 1] # topicName[curf + 1]
          /\ phase = "done" => (matched <=> topic_filter = topicName)

\* Strings of one length that agree everywhere are equal.
LEMMA EqualStrings ==
    ASSUME NEW C, NEW s \in Seq(C), NEW t \in Seq(C), Len(s) = Len(t),
           \A i \in 1 .. Len(s) : s[i] = t[i]
    PROVE  s = t
OBVIOUS

\* Every step of the walk preserves LiteralInv.
LEMMA LiteralInvInductive == LiteralInv /\ [Next]_vars => LiteralInv'
<1> SUFFICES ASSUME LiteralInv, [Next]_vars PROVE LiteralInv'
  OBVIOUS
<1>1. CursorInv'
  BY CursorInvInductive DEF LiteralInv
<1>2. /\ Len(topic_filter) \in Nat /\ Len(topicName) \in Nat
      /\ curf \in 0 .. Len(topic_filter) /\ curn \in 0 .. Len(topicName)
      /\ topic_filter \in Seq(Chars) /\ topicName \in Seq(Chars)
  BY DEF LiteralInv, CursorInv, Arguments, TypeOK
<1>3. topic_filter' = topic_filter /\ topicName' = topicName
  BY DEF Next, vars, PlusAtSeparator, Break, Advance, EnterLevel, SkipChar, LeaveLevel, Finish
<1> SUFFICES ASSUME Literal
    PROVE /\ phase' # "skip"
          /\ curf' = curn'
          /\ \A i \in 1 .. curf' : topic_filter[i] = topicName[i]
          /\ phase' = "end" =>
                /\ curf' < Len(topic_filter) /\ curn' < Len(topicName)
                /\ topic_filter[curf' + 1] # topicName[curf' + 1]
          /\ phase' = "done" => (matched' <=> topic_filter = topicName)
  BY <1>1, <1>3 DEF LiteralInv, Literal, Agree
<1>4. /\ phase # "skip"
      /\ curf = curn
      /\ \A i \in 1 .. curf : topic_filter[i] = topicName[i]
      /\ phase = "end" =>
            /\ curf < Len(topic_filter) /\ curn < Len(topicName)
            /\ topic_filter[curf + 1] # topicName[curf + 1]
      /\ phase = "done" => (matched <=> topic_filter = topicName)
  BY DEF LiteralInv, Agree
<1>5. \A i \in 0 .. Len(topic_filter) + 1 : F(i) \notin {"+", "#"}
  BY <1>2 DEF Literal, F
<1>6. CASE Break
  <2>1. curf < Len(topic_filter) /\ curn < Len(topicName)
    BY <1>2, <1>6 DEF Break, Looping, F
  <2>2. F(curf) # N(curn)
    BY <1>2, <1>5, <1>6 DEF Break, Mismatch
  <2>3. topic_filter[curf + 1] # topicName[curf + 1]
    BY <1>2, <1>4, <2>1, <2>2 DEF F, N
  <2> QED
    BY <1>2, <1>4, <1>6, <2>1, <2>3 DEF Break
<1>7. CASE Advance
  <2>1. curf < Len(topic_filter) /\ curn < Len(topicName)
    BY <1>2, <1>7 DEF Advance, Looping, F
  <2>2. F(curf) = N(curn)
    BY <1>2, <1>5, <1>7 DEF Advance, Mismatch
  <2>3. topic_filter[curf + 1] = topicName[curf + 1]
    BY <1>2, <1>4, <2>1, <2>2 DEF F, N
  <2>4. curf' = curf + 1 /\ curn' = curn + 1 /\ phase' = "loop"
    BY <1>2, <1>5, <1>7 DEF Advance, Looping
  <2> QED
    BY <1>2, <1>4, <2>3, <2>4
<1>8. CASE Finish
  <2>1. CASE phase = "end"
    <3>1. F(curf) # "NUL" => Verdict = FALSE
      BY <1>2, <1>5 DEF Verdict
    <3>2. F(curf) # "NUL"
      BY <1>2, <1>4, <2>1, TopicAssumption DEF F, Chars
    <3>3. topic_filter # topicName
      BY <1>4, <2>1
    <3> QED
      BY <1>2, <1>4, <1>8, <3>1, <3>2, <3>3 DEF Finish
  <2>2. CASE phase = "loop" /\ curf < Len(topic_filter)
    <3>1. F(curf) # "NUL"
      BY <1>2, <2>2, TopicAssumption DEF F, Chars
    <3>2. curn = Len(topicName)
      BY <1>2, <1>8, <2>2, <3>1 DEF Finish, Looping
    <3>3. Verdict = FALSE
      BY <1>2, <1>5, <3>1 DEF Verdict
    <3>4. topic_filter # topicName
      BY <1>2, <1>4, <2>2, <3>2
    <3> QED
      BY <1>2, <1>4, <1>8, <3>3, <3>4 DEF Finish
  <2>3. CASE phase = "loop" /\ curf = Len(topic_filter)
    <3>1. Verdict = (curn = Len(topicName))
      BY <1>2, <2>3 DEF Verdict, F
    <3>2. curn = Len(topicName) => topic_filter = topicName
      BY <1>2, <1>4, <2>3, EqualStrings
    <3>3. topic_filter = topicName => curn = Len(topicName)
      BY <1>4, <2>3
    <3> QED
      BY <1>2, <1>4, <1>8, <3>1, <3>2, <3>3 DEF Finish
  <2> QED
    BY <1>2, <1>8, <2>1, <2>2, <2>3 DEF Finish
<1>9. CASE PlusAtSeparator \/ EnterLevel \/ SkipChar \/ LeaveLevel
  BY <1>2, <1>4, <1>5, <1>9 DEF PlusAtSeparator, EmptyLevel, EnterLevel, SkipChar, LeaveLevel
<1>10. CASE UNCHANGED vars
  BY <1>4, <1>10 DEF vars
<1> QED
  BY <1>6, <1>7, <1>8, <1>9, <1>10 DEF Next

\* A subscription without wildcards is handed the messages of its own topic
\* and no others, whatever the lengths.
THEOREM LiteralFilterIsExact == Spec => []LiteralExact
<1>1. Init => LiteralInv
  <2> SUFFICES ASSUME Init PROVE LiteralInv
    OBVIOUS
  <2>1. curf = 0 /\ curn = 0 /\ phase = "loop"
    BY DEF Init
  <2> QED
    BY <2>1, CursorInit DEF LiteralInv, Agree
<1>2. LiteralInv => LiteralExact
  BY DEF LiteralInv, LiteralExact, Literal
<1> QED
  BY <1>1, <1>2, LiteralInvInductive, PTL DEF Spec

-----------------------------------------------------------------------------
Less == {p \in Nat \X Nat : p[1] < p[2]}

\* A set of numbers that is not empty has a least one.
LEMMA Least ==
    ASSUME NEW T \in SUBSET Nat, T # {}
    PROVE  \E x \in T : \A y \in T : x <= y
<1>1. OpToRel(<, Nat) = Less
  BY DEF OpToRel, Less
<1>2. IsWellFoundedOn(Less, Nat)
  BY <1>1, NatLessThanWellFounded
<1>3. PICK x \in T : \A y \in T : ~ (<<y, x>> \in Less)
  BY <1>2, WFMin
<1>4. ASSUME NEW y \in T PROVE x <= y
  <2>1. y < x => <<y, x>> \in Less
    BY DEF Less
  <2> QED
    BY <1>3, <2>1
<1> QED
  BY <1>4

\* How many separators there are up to a position.
Rank(s, i) == Cardinality({j \in Separators(s) : j <= i})

LEMMA RankFacts ==
    ASSUME NEW C, NEW s \in Seq(C)
    PROVE  /\ Len(s) \in Nat /\ IsFiniteSet(Separators(s)) /\ Cardinality(Separators(s)) \in Nat
           /\ Rank(s, 0) = 0 /\ Rank(s, Len(s)) = Cardinality(Separators(s))
           /\ \A i \in 0 .. Len(s) : Rank(s, i) \in Nat
           /\ \A i \in 1 .. Len(s) : Rank(s, i) = IF s[i] = "/" THEN Rank(s, i - 1) + 1 ELSE Rank(s, i - 1)
           /\ \A i, j \in 0 .. Len(s) : i <= j => Rank(s, i) <= Rank(s, j)
<1> DEFINE S == Separators(s)
           U(i) == {j \in S : j <= i}
<1>1. Len(s) \in Nat /\ S \subseteq 1 .. Len(s)
  BY DEF Separators
<1>2. IsFiniteSet(S) /\ Cardinality(S) \in Nat
  <2>1. IsFiniteSet(1 .. Len(s))
    BY <1>1, FS_Interval
  <2> HIDE DEF S
  <2>2. IsFiniteSet(S)
    BY <1>1, <2>1, FS_Subset
  <2> QED
    BY <2>2, FS_CardinalityType
<1>3. \A i : IsFiniteSet(U(i)) /\ Cardinality(U(i)) \in Nat
  <2> SUFFICES ASSUME NEW i PROVE IsFiniteSet(U(i)) /\ Cardinality(U(i)) \in Nat
    OBVIOUS
  <2>1. U(i) \subseteq S
    OBVIOUS
  <2>2. PICK V : V = U(i)
    OBVIOUS
  <2> HIDE DEF S, U
  <2>3. IsFiniteSet(V)
    BY <1>2, <2>1, <2>2, FS_Subset
  <2> QED
    BY <2>2, <2>3, FS_CardinalityType
<1>4. U(0) = {} /\ U(Len(s)) = S
  BY <1>1
<1>5. \A i : Rank(s, i) = Cardinality(U(i))
  BY DEF Rank
<1>6. ASSUME NEW i \in 1 .. Len(s)
      PROVE  Rank(s, i) = IF s[i] = "/" THEN Rank(s, i - 1) + 1 ELSE Rank(s, i - 1)
  <2>1. CASE s[i] = "/"
    <3>1. U(i) = U(i - 1) \cup {i} /\ i \notin U(i - 1)
      BY <1>1, <2>1 DEF Separators
    <3>2. PICK V : V = U(i - 1)
      OBVIOUS
    <3> HIDE DEF S, U
    <3>3. IsFiniteSet(V) /\ i \notin V
      BY <1>3, <3>1, <3>2
    <3>4. Cardinality(V \cup {i}) = Cardinality(V) + 1
      BY <3>3, FS_AddElement
    <3> QED
      BY <1>5, <2>1, <3>1, <3>2, <3>4
  <2>2. CASE s[i] # "/"
    <3>1. U(i) = U(i - 1)
      BY <1>1, <2>2 DEF Separators
    <3> QED
      BY <1>5, <2>2, <3>1
  <2> QED
    BY <2>1, <2>2
<1>7. ASSUME NEW i \in 0 .. Len(s), NEW j \in 0 .. Len(s), i <= j
      PROVE  Rank(s, i) <= Rank(s, j)
  <2>1. U(i) \subseteq U(j)
    BY <1>1, <1>7
  <2>2. PICK V, W : V = U(i) /\ W = U(j)
    OBVIOUS
  <2> HIDE DEF S, U
  <2>3. V \in SUBSET W /\ IsFiniteSet(W)
    BY <1>3, <2>1, <2>2
  <2>4. Cardinality(V) <= Cardinality(W)
    BY <2>3, FS_Subset
  <2> QED
    BY <1>5, <2>2, <2>4
<1> QED
  <2>1. Rank(s, 0) = 0
    BY <1>4, <1>5, FS_EmptySet
  <2>2. Rank(s, Len(s)) = Cardinality(Separators(s))
    BY <1>4, <1>5
  <2>3. \A i \in 0 .. Len(s) : Rank(s, i) \in Nat
    BY <1>3, <1>5
  <2> QED
    BY <1>1, <1>2, <1>6, <1>7, <2>1, <2>2, <2>3

\* The k-th level of s lies between two positions, without a separator in between.
LEMMA BoundaryFacts ==
    ASSUME NEW C, NEW s \in Seq(C)
    PROVE  /\ LevelCount(s) \in Nat \ {0} /\ Boundary(s, 0) = 0 /\ Boundary(s, LevelCount(s)) = Len(s) + 1
           /\ \A k \in 1 .. LevelCount(s) - 1 :
                 /\ Boundary(s, k) \in 1 .. Len(s) /\ s[Boundary(s, k)] = "/"
                 /\ Rank(s, Boundary(s, k)) = k
<1> DEFINE c == Cardinality(Separators(s))
<1>1. /\ Len(s) \in Nat /\ c \in Nat
      /\ Rank(s, 0) = 0 /\ Rank(s, Len(s)) = c
      /\ \A i \in 0 .. Len(s) : Rank(s, i) \in Nat
      /\ \A i \in 1 .. Len(s) : Rank(s, i) = IF s[i] = "/" THEN Rank(s, i - 1) + 1 ELSE Rank(s, i - 1)
  BY RankFacts
<1>2. LevelCount(s) = c + 1
  BY DEF LevelCount
<1> HIDE DEF c
<1>3. LevelCount(s) \in Nat \ {0} /\ LevelCount(s) # 0
  BY <1>1, <1>2
<1>4. Boundary(s, 0) = 0
  BY <1>3 DEF Boundary
<1>5. Boundary(s, LevelCount(s)) = Len(s) + 1
  BY <1>3 DEF Boundary
<1>6. ASSUME NEW k \in 1 .. LevelCount(s) - 1
      PROVE  /\ Boundary(s, k) \in 1 .. Len(s) /\ s[Boundary(s, k)] = "/"
             /\ Rank(s, Boundary(s, k)) = k
  <2>1. k # 0 /\ k # LevelCount(s) /\ k \in 1 .. c
    BY <1>1, <1>2
  <2>2. Boundary(s, k) = CHOOSE i \in Separators(s) : Rank(s, i) = k
    BY <2>1 DEF Boundary, Rank
  <2> DEFINE T == {i \in 0 .. Len(s) : Rank(s, i) >= k}
  <2>3. T \in SUBSET Nat /\ T # {}
    <3>1. Len(s) \in T
      BY <1>1, <2>1
    <3> QED
      BY <3>1
  <2>4. PICK i \in T : \A j \in T : i <= j
    <3> HIDE DEF T
    <3> QED
      BY <2>3, Least
  <2>5. i \in 1 .. Len(s) /\ Rank(s, i) >= k
    BY <1>1, <2>1, <2>4
  <2>6. i - 1 \in 0 .. Len(s) /\ Rank(s, i - 1) < k /\ Rank(s, i - 1) \in Nat
    <3>1. i - 1 \in 0 .. Len(s) /\ ~ (i <= i - 1)
      BY <2>5
    <3>2. i - 1 \notin T
      BY <2>4, <3>1
    <3> QED
      BY <1>1, <2>1, <3>1, <3>2
  <2>7. s[i] = "/" /\ Rank(s, i) = k
    BY <1>1, <2>1, <2>5, <2>6
  <2>8. \E x \in Separators(s) : Rank(s, x) = k
    BY <2>5, <2>7 DEF Separators
  <2>9. Boundary(s, k) \in Separators(s) /\ Rank(s, Boundary(s, k)) = k
    BY <2>2, <2>8
  <2> QED
    BY <2>9 DEF Separators
<1> QED
  BY <1>3, <1>4, <1>5, <1>6

\* The cursors of level k, counted from 0: where it starts, and where it ends.
Start(s, k) == Boundary(s, k)
Stop(s, k) == Boundary(s, k + 1) - 1

LEMMA LevelFacts ==
    ASSUME NEW C, NEW s \in Seq(C), NEW k \in 0 .. LevelCount(s) - 1
    PROVE  /\ LevelCount(s) \in Nat
           /\ Start(s, k) \in 0 .. Len(s) /\ Stop(s, k) \in 0 .. Len(s) /\ Start(s, k) <= Stop(s, k)
           /\ \A i \in Start(s, k) .. Stop(s, k) - 1 : i + 1 \in 1 .. Len(s) /\ s[i + 1] # "/"
           /\ Stop(s, k) = Len(s) <=> k = LevelCount(s) - 1
           /\ k # LevelCount(s) - 1 => /\ k + 1 \in 0 .. LevelCount(s) - 1 /\ s[Stop(s, k) + 1] = "/"
                                       /\ Start(s, k + 1) = Stop(s, k) + 1
           /\ k = 0 => Start(s, k) = 0
           /\ k # 0 => Start(s, k) # 0 /\ s[Start(s, k)] = "/"
           /\ Len(Level(s, k + 1)) = Stop(s, k) - Start(s, k)
           /\ \A i \in Start(s, k) .. Stop(s, k) - 1 : Level(s, k + 1)[i + 1 - Start(s, k)] = s[i + 1]
<1> DEFINE a == Boundary(s, k)
           b == Boundary(s, k + 1)
<1>1. /\ Len(s) \in Nat /\ Rank(s, 0) = 0 /\ Rank(s, Len(s)) = LevelCount(s) - 1
      /\ \A i \in 0 .. Len(s) : Rank(s, i) \in Nat
      /\ \A i \in 1 .. Len(s) : Rank(s, i) = IF s[i] = "/" THEN Rank(s, i - 1) + 1 ELSE Rank(s, i - 1)
      /\ \A i, j \in 0 .. Len(s) : i <= j => Rank(s, i) <= Rank(s, j)
  <2>1. LevelCount(s) - 1 = Cardinality(Separators(s))
    BY RankFacts DEF LevelCount
  <2> QED
    BY <2>1, RankFacts
<1>2. /\ LevelCount(s) \in Nat \ {0} /\ Boundary(s, 0) = 0 /\ Boundary(s, LevelCount(s)) = Len(s) + 1
      /\ \A j \in 1 .. LevelCount(s) - 1 :
            /\ Boundary(s, j) \in 1 .. Len(s) /\ s[Boundary(s, j)] = "/"
            /\ Rank(s, Boundary(s, j)) = j
  BY BoundaryFacts
<1>3. a \in 0 .. Len(s) /\ Rank(s, a) = k /\ (k # 0 => a # 0 /\ s[a] = "/") /\ (k = 0 => a = 0)
  <2>1. k = 0 \/ k \in 1 .. LevelCount(s) - 1
    BY <1>2
  <2> QED
    BY <1>1, <1>2, <2>1
<1>4. \/ k = LevelCount(s) - 1 /\ b = Len(s) + 1
      \/ k # LevelCount(s) - 1 /\ k + 1 \in 1 .. LevelCount(s) - 1 /\ b \in 1 .. Len(s) /\ s[b] = "/" /\ Rank(s, b) = k + 1
  <2>1. k = LevelCount(s) - 1 \/ k + 1 \in 1 .. LevelCount(s) - 1
    BY <1>2
  <2>2. k = LevelCount(s) - 1 => k + 1 = LevelCount(s)
    BY <1>2
  <2>3. k + 1 \in 1 .. LevelCount(s) - 1 => k # LevelCount(s) - 1
    BY <1>2
  <2> QED
    BY <1>2, <2>1, <2>2, <2>3
<1> HIDE DEF a, b
<1>5. a < b
  <2>1. CASE b = Len(s) + 1
    BY <1>1, <1>3, <2>1
  <2>2. CASE b \in 1 .. Len(s) /\ Rank(s, b) = k + 1
    <3>1. ~ (b <= a)
      BY <1>1, <1>3, <2>2
    <3> QED
      BY <1>3, <2>2, <3>1
  <2> QED
    BY <1>4, <2>1, <2>2
<1>6. ASSUME NEW i \in 1 .. Len(s), a < i, i < b, s[i] = "/" PROVE FALSE
  <2>1. i - 1 \in 0 .. Len(s) /\ a <= i - 1 /\ i \in 0 .. Len(s)
    BY <1>3, <1>6
  <2>2. Rank(s, a) <= Rank(s, i - 1)
    BY <1>1, <1>3, <2>1
  <2>3. Rank(s, i) >= k + 1
    BY <1>1, <1>3, <1>6, <2>1, <2>2
  <2>4. CASE b = Len(s) + 1 /\ k = LevelCount(s) - 1
    <3>1. Rank(s, i) <= Rank(s, Len(s))
      BY <1>1, <2>1
    <3> QED
      BY <1>1, <1>2, <2>1, <2>3, <2>4, <3>1
  <2>5. CASE b \in 1 .. Len(s) /\ s[b] = "/" /\ Rank(s, b) = k + 1
    <3>1. b - 1 \in 0 .. Len(s) /\ i <= b - 1
      BY <1>6, <2>5
    <3>2. Rank(s, i) <= Rank(s, b - 1)
      BY <1>1, <2>1, <3>1
    <3>3. Rank(s, b) = Rank(s, b - 1) + 1
      BY <1>1, <2>5
    <3>4. Rank(s, i) \in Nat /\ Rank(s, b - 1) \in Nat
      BY <1>1, <2>1, <3>1
    <3> HIDE DEF Rank
    <3> QED
      BY <2>3, <2>5, <3>2, <3>3, <3>4
  <2> QED
    BY <1>4, <2>4, <2>5
<1>7. b \in 1 .. Len(s) + 1
  BY <1>1, <1>4
<1>8. \A i \in a .. b - 2 : i + 1 \in 1 .. Len(s) /\ s[i + 1] # "/"
  <2> SUFFICES ASSUME NEW i \in a .. b - 2 PROVE i + 1 \in 1 .. Len(s) /\ s[i + 1] # "/"
    OBVIOUS
  <2>1. i + 1 \in 1 .. Len(s) /\ a < i + 1 /\ i + 1 < b
    BY <1>1, <1>3, <1>7
  <2> QED
    BY <1>6, <2>1
<1>9. Level(s, k + 1) = SubSeq(s, a + 1, b - 1)
  <2>1. (k + 1) - 1 = k
    OBVIOUS
  <2> QED
    BY <2>1 DEF Level, a, b
<1>10. Len(Level(s, k + 1)) = b - 1 - a /\ \A i \in a .. b - 2 : Level(s, k + 1)[i + 1 - a] = s[i + 1]
  <2>1. a + 1 \in 1 .. Len(s) + 1 /\ b - 1 \in a .. Len(s)
    BY <1>1, <1>3, <1>5, <1>7
  <2>2. Len(Level(s, k + 1)) = b - 1 - a
    BY <1>1, <1>3, <1>9, <2>1
  <2>3. \A j \in 1 .. b - 1 - a : Level(s, k + 1)[j] = s[a + j]
    BY <1>1, <1>3, <1>9, <2>1
  <2>4. \A i \in a .. b - 2 : i + 1 - a \in 1 .. b - 1 - a /\ a + (i + 1 - a) = i + 1
    BY <1>1, <1>3, <1>7
  <2> QED
    BY <2>2, <2>3, <2>4
<1>11. Start(s, k) = a /\ Stop(s, k) = b - 1 /\ Stop(s, k) - 1 = b - 2 /\ Start(s, k + 1) = b
  BY <1>7 DEF Start, Stop, a, b
<1>12. b - 1 \in 0 .. Len(s) /\ a <= b - 1 /\ (b - 1) + 1 = b
  BY <1>1, <1>3, <1>5, <1>7
<1>13. b - 1 = Len(s) <=> k = LevelCount(s) - 1
  BY <1>1, <1>4, <1>7
<1>14. k # LevelCount(s) - 1 => k + 1 \in 0 .. LevelCount(s) - 1 /\ s[b] = "/"
  BY <1>4
<1> QED
  BY <1>2, <1>3, <1>8, <1>10, <1>11, <1>12, <1>13, <1>14

-----------------------------------------------------------------------------
\* How many levels of a filter are compared: a final "#" is not.
Compared(f) == IF f[Len(f)] = "#" THEN LevelCount(f) - 1 ELSE LevelCount(f)

\* Level k of the filter is "+", or it is level k of the name.
PlusLevel(f, k) == Stop(f, k) = Start(f, k) + 1 /\ f[Start(f, k) + 1] = "+"

SameLevel(f, n, k) ==
    /\ Stop(f, k) - Start(f, k) = Stop(n, k) - Start(n, k)
    /\ \A i \in Start(n, k) .. Stop(n, k) - 1 : f[i - Start(n, k) + Start(f, k) + 1] = n[i + 1]

\* What the characters under the cursors can be.
LEMMA CharFacts ==
    ASSUME Arguments
    PROVE  /\ Len(topic_filter) \in Nat \ {0} /\ Len(topicName) \in Nat \ {0}
           /\ \A i \in 0 .. Len(topic_filter) - 1 : F(i) = topic_filter[i + 1] /\ F(i) # "NUL"
           /\ \A i \in 0 .. Len(topicName) - 1 : N(i) = topicName[i + 1] /\ N(i) \notin {"+", "#", "NUL"}
<1>1. /\ topic_filter \in Seq(Chars) /\ topicName \in Seq(Chars)
      /\ Len(topic_filter) \in Nat /\ Len(topicName) \in Nat
  BY DEF Arguments
<1>2. topic_filter \in Strings(Chars) /\ topicName \in Strings(Letters \cup {"/"})
  BY DEF Arguments, Filters, Names, Chars
<1>3. ASSUME NEW C, NEW s \in Strings(C) PROVE Len(s) \in 1 .. MaxLen /\ \A i \in 1 .. Len(s) : s[i] \in C
  <2>1. PICK m \in 1 .. MaxLen : s \in [1 .. m -> C]
    BY <1>3 DEF Strings
  <2>2. s \in Seq(C) /\ m \in Nat
    BY StringsAreSeqs, TopicAssumption
  <2>3. Len(s) = m
    BY <2>1, <2>2
  <2> QED
    BY <2>1, <2>3
<1>4. /\ Len(topic_filter) # 0 /\ Len(topicName) # 0
      /\ \A i \in 1 .. Len(topic_filter) : topic_filter[i] \in Chars
      /\ \A i \in 1 .. Len(topicName) : topicName[i] \in Letters \cup {"/"}
  BY <1>2, <1>3, TopicAssumption
<1>5. \A i \in 0 .. Len(topic_filter) - 1 : F(i) = topic_filter[i + 1] /\ F(i) # "NUL"
  <2> SUFFICES ASSUME NEW i \in 0 .. Len(topic_filter) - 1 PROVE F(i) = topic_filter[i + 1] /\ F(i) # "NUL"
    OBVIOUS
  <2>1. i < Len(topic_filter) /\ i + 1 \in 1 .. Len(topic_filter)
    BY <1>1
  <2> QED
    BY <1>4, <2>1, TopicAssumption DEF F, Chars
<1>6. \A i \in 0 .. Len(topicName) - 1 : N(i) = topicName[i + 1] /\ N(i) \notin {"+", "#", "NUL"}
  <2> SUFFICES ASSUME NEW i \in 0 .. Len(topicName) - 1
      PROVE N(i) = topicName[i + 1] /\ N(i) \notin {"+", "#", "NUL"}
    OBVIOUS
  <2>1. i + 1 \in 1 .. Len(topicName)
    BY <1>1
  <2> QED
    BY <1>4, <2>1, TopicAssumption DEF N
<1> QED
  BY <1>1, <1>4, <1>5, <1>6

\* The cursors of a level of the filter, and where a final "#" is.
LEMMA FilterLevel ==
    ASSUME Arguments, NEW k \in 0 .. LevelCount(topic_filter) - 1
    PROVE  /\ LevelCount(topic_filter) \in Nat
           /\ Start(topic_filter, k) \in 0 .. Len(topic_filter) /\ Stop(topic_filter, k) \in 0 .. Len(topic_filter)
           /\ Start(topic_filter, k) <= Stop(topic_filter, k)
           /\ Stop(topic_filter, k) = Len(topic_filter) <=> k = LevelCount(topic_filter) - 1
           /\ k # LevelCount(topic_filter) - 1 =>
                 /\ k + 1 \in 0 .. LevelCount(topic_filter) - 1
                 /\ F(Stop(topic_filter, k)) = "/"
                 /\ Start(topic_filter, k + 1) = Stop(topic_filter, k) + 1
           /\ k = 0 => Start(topic_filter, k) = 0
           /\ k = LevelCount(topic_filter) - 1 /\ topic_filter[Len(topic_filter)] = "#" =>
                 Start(topic_filter, k) = Len(topic_filter) - 1
<1> DEFINE f == topic_filter
           a == Start(f, k)
           b == Stop(f, k)
<1>1. /\ f \in Seq(Chars) /\ Len(f) \in Nat \ {0}
      /\ \A i \in 0 .. Len(f) - 1 : F(i) = f[i + 1]
  BY CharFacts DEF Arguments
<1>2. /\ LevelCount(f) \in Nat
      /\ a \in 0 .. Len(f) /\ b \in 0 .. Len(f) /\ a <= b
      /\ \A i \in a .. b - 1 : i + 1 \in 1 .. Len(f) /\ f[i + 1] # "/"
      /\ b = Len(f) <=> k = LevelCount(f) - 1
      /\ k # LevelCount(f) - 1 => k + 1 \in 0 .. LevelCount(f) - 1 /\ f[b + 1] = "/" /\ Start(f, k + 1) = b + 1
      /\ k = 0 => a = 0
      /\ k # 0 => a # 0 /\ f[a] = "/"
  BY <1>1, LevelFacts
<1>3. ValidFilter(f)
  BY DEF Arguments, Filters
<1> HIDE DEF f, a, b
<1>4. k # LevelCount(f) - 1 => F(b) = "/"
  <2> SUFFICES ASSUME k # LevelCount(f) - 1 PROVE F(b) = "/"
    OBVIOUS
  <2>1. b \in 0 .. Len(f) - 1
    BY <1>1, <1>2
  <2> QED
    BY <1>1, <1>2, <2>1
<1>5. ASSUME k = LevelCount(f) - 1, f[Len(f)] = "#" PROVE a = Len(f) - 1
  <2>1. Len(f) = 1 \/ f[Len(f) - 1] = "/"
    <3>1. Len(f) \in 1 .. Len(f) /\ f[Len(f)] \in {"+", "#"}
      BY <1>1, <1>5
    <3> QED
      BY <1>3, <3>1 DEF ValidFilter
  <2>2. a # Len(f)
    BY <1>1, <1>2, <1>5
  <2>3. CASE a < Len(f) - 1
    <3>1. Len(f) - 2 \in a .. b - 1 /\ Len(f) - 2 + 1 = Len(f) - 1
      BY <1>1, <1>2, <1>5, <2>3
    <3>2. f[Len(f) - 1] # "/"
      BY <1>2, <3>1
    <3> QED
      BY <1>1, <1>2, <2>1, <2>3, <3>2
  <2> QED
    BY <1>1, <1>2, <2>2, <2>3
<1> QED
  BY <1>2, <1>4, <1>5 DEF f, a, b

\* The cursors of a level of the name.
LEMMA NameLevel ==
    ASSUME Arguments, NEW k \in 0 .. LevelCount(topicName) - 1
    PROVE  /\ LevelCount(topicName) \in Nat
           /\ Start(topicName, k) \in 0 .. Len(topicName) /\ Stop(topicName, k) \in 0 .. Len(topicName)
           /\ Start(topicName, k) <= Stop(topicName, k)
           /\ \A i \in Start(topicName, k) .. Stop(topicName, k) - 1 : i \in 0 .. Len(topicName) - 1 /\ N(i) # "/"
           /\ Stop(topicName, k) = Len(topicName) <=> k = LevelCount(topicName) - 1
           /\ k # LevelCount(topicName) - 1 =>
                 /\ k + 1 \in 0 .. LevelCount(topicName) - 1
                 /\ N(Stop(topicName, k)) = "/"
                 /\ Start(topicName, k + 1) = Stop(topicName, k) + 1
           /\ k = 0 => Start(topicName, k) = 0
           /\ k # 0 => Start(topicName, k) # 0 /\ N(Start(topicName, k) - 1) = "/"
<1> DEFINE n == topicName
           a == Start(n, k)
           b == Stop(n, k)
<1>1. /\ n \in Seq(Chars) /\ Len(n) \in Nat \ {0}
      /\ \A i \in 0 .. Len(n) - 1 : N(i) = n[i + 1]
  BY CharFacts DEF Arguments
<1>2. /\ LevelCount(n) \in Nat
      /\ a \in 0 .. Len(n) /\ b \in 0 .. Len(n) /\ a <= b
      /\ \A i \in a .. b - 1 : i + 1 \in 1 .. Len(n) /\ n[i + 1] # "/"
      /\ b = Len(n) <=> k = LevelCount(n) - 1
      /\ k # LevelCount(n) - 1 => k + 1 \in 0 .. LevelCount(n) - 1 /\ n[b + 1] = "/" /\ Start(n, k + 1) = b + 1
      /\ k = 0 => a = 0
      /\ k # 0 => a # 0 /\ n[a] = "/"
  BY <1>1, LevelFacts
<1> HIDE DEF n, a, b
<1>3. k # LevelCount(n) - 1 => N(b) = "/"
  <2> SUFFICES ASSUME k # LevelCount(n) - 1 PROVE N(b) = "/"
    OBVIOUS
  <2>1. b \in 0 .. Len(n) - 1
    BY <1>1, <1>2
  <2> QED
    BY <1>1, <1>2, <2>1
<1>4. k # 0 => N(a - 1) = "/"
  <2> SUFFICES ASSUME k # 0 PROVE N(a - 1) = "/"
    OBVIOUS
  <2>1. a - 1 \in 0 .. Len(n) - 1 /\ (a - 1) + 1 = a
    BY <1>1, <1>2
  <2> QED
    BY <1>1, <1>2, <2>1
<1>5. \A i \in a .. b - 1 : i \in 0 .. Len(n) - 1 /\ N(i) # "/"
  <2> SUFFICES ASSUME NEW i \in a .. b - 1 PROVE i \in 0 .. Len(n) - 1 /\ N(i) # "/"
    OBVIOUS
  <2>1. i \in 0 .. Len(n) - 1
    BY <1>1, <1>2
  <2> QED
    BY <1>1, <1>2, <2>1
<1> QED
  BY <1>2, <1>3, <1>4, <1>5 DEF n, a, b

\* The levels of a filter that covers the name, as the walk compares them.
LEMMA CoveredLevel ==
    ASSUME Arguments, Covers(topic_filter, topicName), NEW k \in 0 .. Compared(topic_filter) - 1
    PROVE  /\ k \in 0 .. LevelCount(topic_filter) - 1 /\ k \in 0 .. LevelCount(topicName) - 1
           /\ PlusLevel(topic_filter, k) \/ SameLevel(topic_filter, topicName, k)
<1> DEFINE f == topic_filter
           n == topicName
<1>1. f \in Seq(Chars) /\ n \in Seq(Chars)
  BY DEF Arguments
<1>2. LevelCount(f) \in Nat \ {0} /\ LevelCount(n) \in Nat \ {0}
  BY <1>1, BoundaryFacts
<1>3. k \in 0 .. LevelCount(f) - 1 /\ k \in 0 .. LevelCount(n) - 1
  BY <1>2 DEF Compared, Covers
<1>4. Level(f, k + 1) = <<"+">> \/ Level(f, k + 1) = Level(n, k + 1)
  <2>1. k + 1 \in 1 .. Compared(f)
    BY <1>2 DEF Compared
  <2>2. Covers(f, n) => LevelsAgree(f, n, Compared(f))
    BY DEF Covers, Compared
  <2> QED
    BY <2>1, <2>2 DEF LevelsAgree
<1>5. /\ Start(f, k) \in 0 .. Len(f) /\ Stop(f, k) \in 0 .. Len(f) /\ Start(f, k) <= Stop(f, k)
      /\ Len(Level(f, k + 1)) = Stop(f, k) - Start(f, k)
      /\ \A i \in Start(f, k) .. Stop(f, k) - 1 : Level(f, k + 1)[i + 1 - Start(f, k)] = f[i + 1]
  BY <1>1, <1>3, LevelFacts
<1>6. /\ Start(n, k) \in 0 .. Len(n) /\ Stop(n, k) \in 0 .. Len(n) /\ Start(n, k) <= Stop(n, k)
      /\ Len(Level(n, k + 1)) = Stop(n, k) - Start(n, k)
      /\ \A i \in Start(n, k) .. Stop(n, k) - 1 : Level(n, k + 1)[i + 1 - Start(n, k)] = n[i + 1]
  BY <1>1, <1>3, LevelFacts
<1>7. Len(f) \in Nat /\ Len(n) \in Nat
  BY <1>1
<1> HIDE DEF f, n
<1>8. CASE Level(f, k + 1) = <<"+">>
  <2>1. Len(<<"+">>) = 1 /\ <<"+">>[1] = "+"
    OBVIOUS
  <2>2. Stop(f, k) - Start(f, k) = 1
    BY <1>5, <1>8, <2>1
  <2>3. Stop(f, k) = Start(f, k) + 1 /\ Start(f, k) \in Start(f, k) .. Stop(f, k) - 1 /\ Start(f, k) + 1 - Start(f, k) = 1
    BY <1>5, <1>7, <2>2
  <2>4. f[Start(f, k) + 1] = "+"
    BY <1>5, <1>8, <2>1, <2>3
  <2>5. PlusLevel(f, k)
    BY <2>3, <2>4 DEF PlusLevel
  <2> QED
    BY <1>3, <2>5 DEF f, n
<1>9. CASE Level(f, k + 1) = Level(n, k + 1)
  <2>1. Stop(f, k) - Start(f, k) = Stop(n, k) - Start(n, k)
    BY <1>5, <1>6, <1>9
  <2>2. ASSUME NEW i \in Start(n, k) .. Stop(n, k) - 1
        PROVE f[i - Start(n, k) + Start(f, k) + 1] = n[i + 1]
    <3>1. /\ i - Start(n, k) + Start(f, k) \in Start(f, k) .. Stop(f, k) - 1
          /\ (i - Start(n, k) + Start(f, k)) + 1 - Start(f, k) = i + 1 - Start(n, k)
      <4>1. PICK a, b, c, d \in Nat : a = Start(n, k) /\ b = Stop(n, k) /\ c = Start(f, k) /\ d = Stop(f, k)
        BY <1>5, <1>6, <1>7
      <4>2. i \in a .. b - 1 /\ d - c = b - a
        BY <2>1, <2>2, <4>1
      <4>3. i - a + c \in c .. d - 1 /\ (i - a + c) + 1 - c = i + 1 - a
        BY <4>2
      <4> QED
        BY <4>1, <4>3
    <3>2. Level(n, k + 1)[i + 1 - Start(n, k)] = n[i + 1]
      BY <1>6
    <3>3. Level(f, k + 1)[(i - Start(n, k) + Start(f, k)) + 1 - Start(f, k)] = f[(i - Start(n, k) + Start(f, k)) + 1]
      BY <1>5, <3>1
    <3> QED
      BY <1>9, <3>1, <3>2, <3>3
  <2>3. SameLevel(f, n, k)
    BY <2>1, <2>2 DEF SameLevel
  <2> QED
    BY <1>3, <2>3 DEF f, n
<1> QED
  BY <1>4, <1>8, <1>9 DEF f, n

\* Where the cursors are, c on the filter f and d on the name n, when f covers
\* n: at a "+" level, inside a literal level, at the end of a level, at the
\* final "#", or at the ends of both strings.
AtPlus(f, n, c, d, ph, k) ==
    /\ PlusLevel(f, k) /\ c = Start(f, k)
    /\ d \in Start(n, k) .. Stop(n, k)
    /\ \/ ph = "loop" /\ d = Start(n, k)
       \/ ph = "skip" /\ d < Stop(n, k)

InSame(f, n, c, d, ph, k) ==
    /\ SameLevel(f, n, k) /\ ph = "loop"
    /\ d \in Start(n, k) .. Stop(n, k) - 1
    /\ c = d - Start(n, k) + Start(f, k)

AtStop(f, n, c, d, ph, k) == ph = "loop" /\ c = Stop(f, k) /\ d = Stop(n, k)

AtHash(f, c, ph) ==
    /\ ph \in {"loop", "end"}
    /\ c = Len(f) - 1 /\ f[Len(f)] = "#"

AtEnds(f, n, c, d, ph) == ph = "loop" /\ c = Len(f) /\ d = Len(n)

InLevel(f, n, c, d, ph, k) ==
    AtPlus(f, n, c, d, ph, k) \/ InSame(f, n, c, d, ph, k) \/ AtStop(f, n, c, d, ph, k)

WalkAt(f, n, c, d, ph) ==
    \/ AtHash(f, c, ph)
    \/ AtEnds(f, n, c, d, ph)
    \/ \E k \in 0 .. Compared(f) - 1 : InLevel(f, n, c, d, ph, k)

\* A covered name is never given up: the walk is in step with the levels, and
\* when it is done it matched.
MissInv ==
    /\ CursorInv
    /\ Covers(topic_filter, topicName) =>
          IF phase = "done" THEN matched ELSE WalkAt(topic_filter, topicName, curf, curn, phase)

\* A walk that enters a level of both strings is in step with it.
LEMMA LevelEntered ==
    ASSUME Arguments, Covers(topic_filter, topicName), NEW k \in 0 .. LevelCount(topic_filter) - 1,
           k < Compared(topic_filter) \/ topic_filter[Len(topic_filter)] = "#"
    PROVE  WalkAt(topic_filter, topicName, Start(topic_filter, k), Start(topicName, k), "loop")
<1> DEFINE f == topic_filter
           n == topicName
<1>1. LevelCount(f) \in Nat
  BY FilterLevel
<1>2. CASE k < Compared(f)
  <2>1. k \in 0 .. Compared(f) - 1
    BY <1>1, <1>2 DEF Compared
  <2>2. k \in 0 .. LevelCount(n) - 1 /\ (PlusLevel(f, k) \/ SameLevel(f, n, k))
    BY <2>1, CoveredLevel
  <2>3. Start(n, k) \in Nat /\ Stop(n, k) \in Nat /\ Start(n, k) <= Stop(n, k)
    BY <2>2, NameLevel
  <2>4. Start(f, k) \in Nat /\ Stop(f, k) \in Nat
    BY FilterLevel
  <2> SUFFICES InLevel(f, n, Start(f, k), Start(n, k), "loop", k)
    BY <2>1 DEF WalkAt
  <2> HIDE DEF f, n
  <2>5. CASE PlusLevel(f, k)
    BY <2>3, <2>5 DEF InLevel, AtPlus
  <2>6. CASE SameLevel(f, n, k) /\ Start(n, k) < Stop(n, k)
    <3>1. Start(n, k) \in Start(n, k) .. Stop(n, k) - 1 /\ Start(f, k) = Start(n, k) - Start(n, k) + Start(f, k)
      BY <2>3, <2>4, <2>6
    <3> QED
      BY <2>6, <3>1 DEF InLevel, InSame
  <2>7. CASE SameLevel(f, n, k) /\ Start(n, k) = Stop(n, k)
    <3>1. Stop(f, k) - Start(f, k) = Stop(n, k) - Start(n, k)
      BY <2>7 DEF SameLevel
    <3>2. Start(f, k) = Stop(f, k)
      BY <2>3, <2>4, <2>7, <3>1
    <3> QED
      BY <2>7, <3>2 DEF InLevel, AtStop
  <2> QED
    BY <2>2, <2>3, <2>5, <2>6, <2>7
<1>3. CASE ~ (k < Compared(f))
  <2>1. f[Len(f)] = "#" /\ k = LevelCount(f) - 1
    BY <1>1, <1>3 DEF Compared
  <2>2. Start(f, k) = Len(f) - 1
    BY <2>1, FilterLevel
  <2> QED
    BY <2>1, <2>2 DEF WalkAt, AtHash
<1> QED
  BY <1>2, <1>3

\* The walk over a covered name begins in step.
LEMMA MissInit == Init => MissInv
<1> SUFFICES ASSUME Init, Covers(topic_filter, topicName)
    PROVE phase # "done" /\ WalkAt(topic_filter, topicName, curf, curn, phase)
  BY CursorInit DEF MissInv
<1>1. Arguments
  BY ArgumentsInit
<1>2. curf = 0 /\ curn = 0 /\ phase = "loop"
  BY DEF Init
<1>3. 0 \in 0 .. LevelCount(topic_filter) - 1 /\ 0 \in 0 .. LevelCount(topicName) - 1
      /\ LevelCount(topic_filter) \in Nat
  BY <1>1, BoundaryFacts DEF Arguments
<1>4. Start(topic_filter, 0) = 0 /\ Start(topicName, 0) = 0
  BY <1>1, <1>3, FilterLevel, NameLevel
<1>5. 0 < Compared(topic_filter) \/ topic_filter[Len(topic_filter)] = "#"
  BY <1>3 DEF Compared
<1> QED
  BY <1>1, <1>2, <1>3, <1>4, <1>5, LevelEntered

\* A step of the walk from inside a covered level.
LEMMA LevelStep ==
    ASSUME CursorInv, Covers(topic_filter, topicName), NEW k \in 0 .. Compared(topic_filter) - 1,
           InLevel(topic_filter, topicName, curf, curn, phase, k), Next
    PROVE  IF phase' = "done" THEN matched'
           ELSE WalkAt(topic_filter, topicName, curf', curn', phase')
<1> DEFINE f == topic_filter
           n == topicName
           Goal == IF phase' = "done" THEN matched' ELSE WalkAt(f, n, curf', curn', phase')
           a == Start(f, k)
           b == Stop(f, k)
           s == Start(n, k)
           e == Stop(n, k)
           cf == LevelCount(f)
           cn == LevelCount(n)
<1>1. Arguments /\ curf \in 0 .. Len(f) /\ curn \in 0 .. Len(n)
  BY DEF CursorInv, TypeOK
<1>2. /\ Len(f) \in Nat \ {0} /\ Len(n) \in Nat \ {0}
      /\ \A i \in 0 .. Len(f) - 1 : F(i) = f[i + 1] /\ F(i) # "NUL"
      /\ \A i \in 0 .. Len(n) - 1 : N(i) = n[i + 1] /\ N(i) \notin {"+", "#", "NUL"}
  BY <1>1, CharFacts
<1>3. k \in 0 .. cf - 1 /\ k \in 0 .. cn - 1
  BY <1>1, CoveredLevel
<1>4. /\ cf \in Nat
      /\ a \in 0 .. Len(f) /\ b \in 0 .. Len(f) /\ a <= b
      /\ b = Len(f) <=> k = cf - 1
      /\ k # cf - 1 => k + 1 \in 0 .. cf - 1 /\ F(b) = "/" /\ Start(f, k + 1) = b + 1
  BY <1>1, <1>3, FilterLevel
<1>5. /\ cn \in Nat
      /\ s \in 0 .. Len(n) /\ e \in 0 .. Len(n) /\ s <= e
      /\ \A i \in s .. e - 1 : i \in 0 .. Len(n) - 1 /\ N(i) # "/"
      /\ e = Len(n) <=> k = cn - 1
      /\ k # cn - 1 => k + 1 \in 0 .. cn - 1 /\ N(e) = "/" /\ Start(n, k + 1) = e + 1
      /\ k = 0 => s = 0
      /\ k # 0 => s # 0 /\ N(s - 1) = "/"
  BY <1>1, <1>3, NameLevel
<1>6. F(Len(f)) = "NUL"
  BY <1>2 DEF F
<1> SUFFICES Goal
  OBVIOUS
<1> HIDE DEF f, n, a, b, s, e, cf, cn, Goal
<1>7. ASSUME InLevel(f, n, curf', curn', phase', k), phase' \in {"loop", "skip"} PROVE Goal
  BY <1>7 DEF WalkAt, Goal, f, n
<1>8. CASE AtPlus(f, n, curf, curn, phase, k)
  <2>1. PlusLevel(f, k) /\ b = a + 1 /\ curf = a /\ F(curf) = "+" /\ F(curf) # "NUL"
        /\ curn \in s .. e /\ phase \in {"loop", "skip"}
    <3>1. PlusLevel(f, k) /\ b = a + 1 /\ curf = a /\ f[a + 1] = "+" /\ curn \in s .. e
          /\ phase \in {"loop", "skip"}
      BY <1>8 DEF AtPlus, PlusLevel, a, b, s, e
    <3>2. a \in 0 .. Len(f) - 1
      BY <1>2, <1>4, <3>1
    <3> QED
      BY <1>2, <3>1, <3>2
  <2>2. phase = "loop" => curn = s
    BY <1>8 DEF AtPlus, s
  <2>3. phase = "skip" => curn < e
    BY <1>8 DEF AtPlus, e
  <2>4. CASE phase = "loop" /\ s = Len(n)
    <3>1. k # 0
      BY <1>2, <1>5, <2>4
    <3>2. Verdict
      BY <1>5, <2>1, <2>2, <2>4, <3>1 DEF Verdict
    <3>3. ~ Looping
      BY <1>5, <2>2, <2>4 DEF Looping, n
    <3>4. Finish
      BY <2>4, <3>3 DEF Next, PlusAtSeparator, Break, Advance, EnterLevel, SkipChar, LeaveLevel
    <3> QED
      BY <3>2, <3>4 DEF Finish, Goal
  <2>5. CASE phase = "loop" /\ s # Len(n) /\ N(curn) = "/"
    <3>1. s = e
      BY <1>5, <2>2, <2>5
    <3>2. Looping /\ EmptyLevel
      BY <1>1, <1>5, <2>1, <2>2, <2>5 DEF Looping, EmptyLevel, n
    <3>3. PlusAtSeparator
      BY <2>5, <3>2 DEF Next, Break, Advance, EnterLevel, SkipChar, LeaveLevel, Finish
    <3>4. curf' = b /\ curn' = e /\ phase' = "loop"
      BY <2>1, <2>2, <2>5, <3>1, <3>3 DEF PlusAtSeparator
    <3>5. InLevel(f, n, curf', curn', phase', k)
      BY <3>4 DEF InLevel, AtStop, b, e
    <3> QED
      BY <1>7, <3>4, <3>5
  <2>6. CASE phase = "loop" /\ s # Len(n) /\ N(curn) # "/"
    <3>1. s < e
      BY <1>5, <2>2, <2>6
    <3>2. Looping /\ ~ EmptyLevel /\ ~ Mismatch
      BY <1>1, <1>2, <1>5, <2>1, <2>2, <2>6 DEF Looping, EmptyLevel, Mismatch, n
    <3>3. EnterLevel
      BY <2>1, <2>6, <3>2 DEF Next, PlusAtSeparator, Break, Advance, SkipChar, LeaveLevel, Finish
    <3>4. curf' = a /\ curn' = s /\ phase' = "skip"
      BY <2>1, <2>2, <2>6, <3>3 DEF EnterLevel
    <3>5. InLevel(f, n, curf', curn', phase', k)
      BY <1>5, <2>1, <3>1, <3>4 DEF InLevel, AtPlus, a, s, e
    <3> QED
      BY <1>7, <3>4, <3>5
  <2>7. CASE phase = "skip" /\ ~ AtLevelEnd
    <3>1. curn + 1 < e
      <4>1. curn + 1 < Len(n) /\ N(curn + 1) # "/"
        BY <2>7 DEF AtLevelEnd, n
      <4>2. curn + 1 # e
        BY <1>2, <1>5, <4>1
      <4> QED
        BY <1>5, <2>1, <2>3, <2>7, <4>2
    <3>2. SkipChar
      BY <2>7 DEF Next, PlusAtSeparator, Break, Advance, EnterLevel, LeaveLevel, Finish, Looping
    <3>3. curf' = a /\ curn' = curn + 1 /\ phase' = "skip" /\ curn' \in s .. e
      BY <1>5, <2>1, <2>7, <3>1, <3>2 DEF SkipChar
    <3>4. InLevel(f, n, curf', curn', phase', k)
      BY <2>1, <3>1, <3>3 DEF InLevel, AtPlus, a, s, e
    <3> QED
      BY <1>7, <3>3, <3>4
  <2>8. CASE phase = "skip" /\ AtLevelEnd
    <3>1. curn + 1 = e
      <4>1. CASE curn + 1 < e
        <5>1. curn + 1 \in s .. e - 1
          BY <1>5, <2>1, <4>1
        <5>2. curn + 1 < Len(n) /\ N(curn + 1) # "/"
          BY <1>2, <1>5, <5>1
        <5> QED
          BY <2>8, <5>2 DEF AtLevelEnd, n
      <4> QED
        BY <1>5, <2>1, <2>3, <2>8, <4>1
    <3>2. LeaveLevel
      BY <2>8 DEF Next, PlusAtSeparator, Break, Advance, EnterLevel, SkipChar, Finish, Looping
    <3>3. curf' = b /\ curn' = e /\ phase' = "loop"
      BY <2>1, <3>1, <3>2 DEF LeaveLevel
    <3>4. InLevel(f, n, curf', curn', phase', k)
      BY <3>3 DEF InLevel, AtStop, b, e
    <3> QED
      BY <1>7, <3>3, <3>4
  <2> QED
    BY <2>1, <2>4, <2>5, <2>6, <2>7, <2>8
<1>9. CASE InSame(f, n, curf, curn, phase, k)
  <2>1. SameLevel(f, n, k) /\ phase = "loop" /\ curn \in s .. e - 1 /\ curf = curn - s + a /\ b - a = e - s
        /\ \A i \in s .. e - 1 : f[i - s + a + 1] = n[i + 1]
    BY <1>9 DEF InSame, SameLevel, a, b, s, e
  <2>2. curf \in 0 .. Len(f) - 1 /\ curn \in 0 .. Len(n) - 1 /\ curf + 1 = curn - s + a + 1
    BY <1>2, <1>4, <1>5, <2>1
  <2>3. F(curf) = N(curn)
    BY <1>2, <2>1, <2>2
  <2>4. F(curf) \notin {"+", "#", "NUL", "/"}
    BY <1>2, <1>5, <2>1, <2>2, <2>3
  <2>5. Looping /\ ~ EmptyLevel /\ ~ Mismatch
    BY <1>2, <2>1, <2>2, <2>3, <2>4 DEF Looping, EmptyLevel, Mismatch, n
  <2>6. Advance
    BY <2>1, <2>4, <2>5 DEF Next, PlusAtSeparator, Break, EnterLevel, SkipChar, LeaveLevel, Finish
  <2>7. curf' = curf + 1 /\ curn' = curn + 1 /\ phase' = "loop"
    BY <2>1, <2>4, <2>6 DEF Advance
  <2>8. CASE curn + 1 = e
    <3>1. curf' = b /\ curn' = e
      BY <1>4, <1>5, <2>1, <2>7, <2>8
    <3>2. InLevel(f, n, curf', curn', phase', k)
      BY <2>7, <3>1 DEF InLevel, AtStop, b, e
    <3> QED
      BY <1>7, <2>7, <3>2
  <2>9. CASE curn + 1 # e
    <3>1. curn' \in s .. e - 1 /\ curf' = curn' - s + a
      BY <1>4, <1>5, <2>1, <2>7, <2>9
    <3>2. InLevel(f, n, curf', curn', phase', k)
      BY <2>1, <2>7, <3>1 DEF InLevel, InSame, a, s, e
    <3> QED
      BY <1>7, <2>7, <3>2
  <2> QED
    BY <2>8, <2>9
<1>10. CASE AtStop(f, n, curf, curn, phase, k)
  <2>1. phase = "loop" /\ curf = b /\ curn = e
    BY <1>10 DEF AtStop, b, e
  <2>2. /\ f[Len(f)] = "#" => Compared(f) = cf - 1
        /\ f[Len(f)] # "#" => Compared(f) = cf /\ cn = cf
    BY DEF Compared, Covers, f, n, cf, cn
  <2>3. k < Compared(f)
    BY <1>4, <2>2 DEF f
  <2>4. CASE k = cf - 1
    <3>1. curf = Len(f) /\ curn = Len(n)
      BY <1>4, <1>5, <2>1, <2>2, <2>3, <2>4
    <3>2. ~ Looping /\ Verdict
      BY <1>6, <3>1 DEF Looping, Verdict, n
    <3>3. Finish
      BY <2>1, <3>2 DEF Next, PlusAtSeparator, Break, Advance, EnterLevel, SkipChar, LeaveLevel
    <3> QED
      BY <3>2, <3>3 DEF Finish, Goal
  <2>5. CASE k # cf - 1 /\ k = cn - 1
    <3>1. curn = Len(n) /\ F(curf) = "/"
      BY <1>4, <1>5, <2>1, <2>5
    <3>2. f[Len(f)] = "#" /\ k + 1 \in 0 .. cf - 1
      BY <1>4, <2>2, <2>5
    <3>3. cf - 1 <= cn
      BY <3>2 DEF Covers, f, n, cf, cn
    <3>4. k + 1 = cf - 1
      BY <1>4, <1>5, <2>5, <3>2, <3>3
    <3>5. Start(f, k + 1) = Len(f) - 1
      BY <1>1, <3>2, <3>4, FilterLevel DEF f, cf
    <3>6. curf + 1 = Len(f) - 1 /\ curf + 1 \in 0 .. Len(f) - 1 /\ (curf + 1) + 1 = Len(f)
      BY <1>2, <1>4, <2>1, <2>5, <3>5
    <3>7. F(curf + 1) = "#"
      BY <1>2, <3>2, <3>6
    <3>8. ~ Looping /\ Verdict
      BY <3>1, <3>7 DEF Looping, Verdict, n
    <3>9. Finish
      BY <2>1, <3>8 DEF Next, PlusAtSeparator, Break, Advance, EnterLevel, SkipChar, LeaveLevel
    <3> QED
      BY <3>8, <3>9 DEF Finish, Goal
  <2>6. CASE k # cf - 1 /\ k # cn - 1
    <3>1. /\ F(curf) = "/" /\ N(curn) = "/" /\ curn < Len(n)
          /\ Start(f, k + 1) = b + 1 /\ Start(n, k + 1) = e + 1 /\ k + 1 \in 0 .. cf - 1
      BY <1>4, <1>5, <2>1, <2>6
    <3>2. Looping /\ ~ EmptyLevel /\ ~ Mismatch
      BY <2>1, <3>1 DEF Looping, EmptyLevel, Mismatch, n
    <3>3. Advance
      BY <2>1, <3>1, <3>2 DEF Next, PlusAtSeparator, Break, EnterLevel, SkipChar, LeaveLevel, Finish
    <3>4. curf' = Start(f, k + 1) /\ curn' = Start(n, k + 1) /\ phase' = "loop"
      BY <2>1, <3>1, <3>3 DEF Advance
    <3>5. k + 1 < Compared(f) \/ f[Len(f)] = "#"
      BY <1>4, <2>2, <2>6
    <3>6. WalkAt(f, n, Start(f, k + 1), Start(n, k + 1), "loop")
      BY <1>1, <3>1, <3>5, LevelEntered DEF f, n, cf
    <3> QED
      BY <3>4, <3>6 DEF Goal
  <2> QED
    BY <2>4, <2>5, <2>6
<1>11. InLevel(f, n, curf, curn, phase, k)
  BY DEF f, n
<1> QED
  BY <1>8, <1>9, <1>10, <1>11 DEF InLevel

\* Every step of the walk preserves MissInv.
LEMMA MissInvInductive == MissInv /\ [Next]_vars => MissInv'
<1> SUFFICES ASSUME MissInv, [Next]_vars PROVE MissInv'
  OBVIOUS
<1>1. CursorInv /\ CursorInv' /\ Arguments /\ curn \in 0 .. Len(topicName)
  BY CursorInvInductive DEF MissInv, CursorInv, TypeOK
<1>2. topic_filter' = topic_filter /\ topicName' = topicName
  BY DEF Next, vars, PlusAtSeparator, Break, Advance, EnterLevel, SkipChar, LeaveLevel, Finish
<1> SUFFICES ASSUME Covers(topic_filter, topicName)
    PROVE IF phase' = "done" THEN matched' ELSE WalkAt(topic_filter, topicName, curf', curn', phase')
  BY <1>1, <1>2 DEF MissInv
<1>3. IF phase = "done" THEN matched ELSE WalkAt(topic_filter, topicName, curf, curn, phase)
  BY DEF MissInv
<1>4. CASE UNCHANGED vars
  <2>1. curf' = curf /\ curn' = curn /\ phase' = phase /\ matched' = matched
    BY <1>4 DEF vars
  <2> QED
    BY <1>3, <2>1
<1>5. CASE Next /\ phase = "done"
  BY <1>5 DEF Next, PlusAtSeparator, Break, Advance, EnterLevel, SkipChar, LeaveLevel, Finish, Looping
<1>6. /\ Len(topic_filter) \in Nat \ {0} /\ Len(topicName) \in Nat \ {0}
      /\ \A i \in 0 .. Len(topic_filter) - 1 : F(i) = topic_filter[i + 1] /\ F(i) # "NUL"
  BY <1>1, CharFacts
<1>7. CASE Next /\ AtHash(topic_filter, curf, phase)
  <2>1. phase \in {"loop", "end"} /\ curf = Len(topic_filter) - 1 /\ topic_filter[Len(topic_filter)] = "#"
    BY <1>7 DEF AtHash
  <2>2. curf \in 0 .. Len(topic_filter) - 1 /\ curf + 1 = Len(topic_filter)
    BY <1>6, <2>1
  <2>3. F(curf) = "#"
    BY <1>6, <2>1, <2>2
  <2>4. Verdict
    BY <2>3 DEF Verdict
  <2>5. CASE Break
    <3>1. curf' = curf /\ phase' = "end"
      BY <2>5 DEF Break
    <3> QED
      BY <2>1, <3>1 DEF WalkAt, AtHash
  <2>6. CASE Advance
    <3>1. curf' = Len(topic_filter) /\ curn' = Len(topicName) /\ phase' = "loop"
      BY <2>2, <2>3, <2>6 DEF Advance, Looping
    <3> QED
      BY <3>1 DEF WalkAt, AtEnds
  <2>7. CASE Finish
    BY <2>4, <2>7 DEF Finish
  <2> QED
    BY <1>7, <2>1, <2>3, <2>5, <2>6, <2>7
       DEF Next, PlusAtSeparator, EmptyLevel, EnterLevel, SkipChar, LeaveLevel
<1>8. CASE Next /\ AtEnds(topic_filter, topicName, curf, curn, phase)
  <2>1. phase = "loop" /\ curf = Len(topic_filter) /\ curn = Len(topicName)
    BY <1>8 DEF AtEnds
  <2>2. F(curf) = "NUL"
    BY <1>6, <2>1 DEF F
  <2>3. ~ Looping /\ Verdict
    BY <2>1, <2>2 DEF Looping, Verdict
  <2>4. Finish
    BY <1>8, <2>1, <2>3 DEF Next, PlusAtSeparator, Break, Advance, EnterLevel, SkipChar, LeaveLevel
  <2> QED
    BY <2>3, <2>4 DEF Finish
<1>9. CASE /\ Next
           /\ \E k \in 0 .. Compared(topic_filter) - 1 : InLevel(topic_filter, topicName, curf, curn, phase, k)
  BY <1>1, <1>9, LevelStep
<1> QED
  BY <1>3, <1>4, <1>5, <1>7, <1>8, <1>9 DEF WalkAt

\* No message whose topic a subscription's filter covers, level by level, is
\* kept from its handler, for filters and names of every length and depth.
THEOREM NoTopicMissed == Spec => []NoneMissed
<1>1. MissInv => NoneMissed
  BY DEF MissInv, NoneMissed
<1> QED
  BY <1>1, MissInit, MissInvInductive, PTL DEF Spec

=============================================================================
