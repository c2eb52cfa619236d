---------------------------- MODULE FramingProofs ----------------------------
(***************************************************************************)
(* The socket layer is a channel: for any messages without a newline, any  *)
(* buffer, any number of messages and any way of cutting the stream.       *)
(*                                                                         *)
(* What the reader has collected, what is in the connection and what the   *)
(* writer still holds is, at any moment, the undelivered messages one      *)
(* after another, each with its break (Layout).                            *)
(***************************************************************************)
EXTENDS NetworkFraming, FiniteSetTheorems, SequenceTheorems, WellFoundedInduction, TLAPS

-----------------------------------------------------------------------------
(* Induction over positions, as facts about sets of numbers.               *)

LEMMA LeastPosition ==
    ASSUME NEW S \in SUBSET Nat, S # {}
    PROVE  \E i \in S : \A j \in S : i <= j
<1> DEFINE Segments == {0..i : i \in S}
<1>1. Segments \subseteq FiniteSubsetsOf(Nat) /\ Segments # {}
  <2>1. ASSUME NEW i \in S PROVE 0..i \in FiniteSubsetsOf(Nat)
    <3>1. IsFiniteSet(0..i)
      BY FS_Interval
    <3> QED
      BY <3>1 DEF FiniteSubsetsOf
  <2> QED
    BY <2>1
<1>2. PICK s \in Segments : \A t \in Segments : <<t, s>> \notin StrictSubsetOrdering(Nat)
  <2>1. IsWellFoundedOn(StrictSubsetOrdering(Nat), FiniteSubsetsOf(Nat))
    BY FS_StrictSubsetOrderingWellFounded
  <2> HIDE DEF Segments
  <2> QED
    BY <1>1, <2>1, WFMin
<1>3. PICK i \in S : s = 0..i
  OBVIOUS
<1>4. ASSUME NEW j \in S, ~(i <= j) PROVE FALSE
  <2>1. 0..j \in Segments
    OBVIOUS
  <2>2. 0..j \subseteq 0..i /\ 0..j # 0..i /\ 0..j \subseteq Nat /\ 0..i \subseteq Nat
    BY <1>4
  <2> QED
    BY <1>2, <1>3, <2>1, <2>2 DEF StrictSubsetOrdering
<1> QED
  BY <1>4

LEMMA GreatestPosition ==
    ASSUME NEW n \in Nat, NEW S \in SUBSET (0..n), S # {}
    PROVE  \E i \in S : \A j \in S : j <= i
<1> DEFINE Mirror == {n - i : i \in S}
<1>1. Mirror \in SUBSET Nat /\ Mirror # {}
  <2>1. ASSUME NEW i \in S PROVE n - i \in Nat
    OBVIOUS
  <2> QED
    BY <2>1
<1>2. PICK k \in Mirror : \A j \in Mirror : k <= j
  <2> HIDE DEF Mirror
  <2> QED
    BY <1>1, LeastPosition
<1>3. PICK i \in S : k = n - i
  OBVIOUS
<1>4. ASSUME NEW j \in S PROVE j <= i
  <2>1. n - j \in Mirror
    OBVIOUS
  <2> QED
    BY <1>2, <1>3, <2>1
<1> QED
  BY <1>4

-----------------------------------------------------------------------------
(* Messages one after another.  at[j] is where the j-th one ends, its      *)
(* break included.                                                         *)

Layout(at, data, ms) ==
    /\ at \in [0..Len(ms) -> Nat]
    /\ at[0] = 0 /\ at[Len(ms)] = Len(data)
    /\ \A j \in 1..Len(ms) :
        /\ at[j] = at[j - 1] + Len(ms[j]) + 2
        /\ \A i \in 1..Len(ms[j]) : data[at[j - 1] + i] = ms[j][i]
        /\ data[at[j] - 1] = NL /\ data[at[j]] = NL

Laid(data, ms) == \E at : Layout(at, data, ms)

LEMMA NothingLaid == Laid(<<>>, <<>>)
<1>1. Layout([j \in 0..0 |-> 0], <<>>, <<>>)
  BY DEF Layout
<1> QED
  BY <1>1 DEF Laid

\* The places of one message.
LEMMA PlaceOf ==
    ASSUME NEW ms \in Seq(Plain), NEW data, NEW at, Layout(at, data, ms),
           NEW j \in 1..Len(ms)
    PROVE  /\ at[j - 1] \in Nat /\ at[j] \in Nat
           /\ ms[j] \in Plain /\ Len(ms[j]) \in Nat \ {0}
           /\ at[j] = at[j - 1] + Len(ms[j]) + 2
           /\ \A i \in 1..Len(ms[j]) : data[at[j - 1] + i] = ms[j][i]
           /\ data[at[j] - 1] = NL /\ data[at[j]] = NL
<1>1. ms[j] \in Plain
  OBVIOUS
<1>2. Len(ms[j]) \in Nat \ {0}
  BY <1>1 DEF Plain, Text
<1>3. j \in 0..Len(ms) /\ j - 1 \in 0..Len(ms)
  OBVIOUS
<1>4. at[j - 1] \in Nat /\ at[j] \in Nat
  BY <1>3 DEF Layout
<1> QED
  BY <1>1, <1>2, <1>4 DEF Layout

LEMMA PlaceOfAll ==
    ASSUME NEW ms \in Seq(Plain), NEW data, NEW at, Layout(at, data, ms)
    PROVE  /\ Len(ms) \in Nat /\ at[0] = 0 /\ at[Len(ms)] = Len(data)
           /\ \A j \in 0..Len(ms) : at[j] \in Nat
<1>1. Len(ms) \in Nat
  OBVIOUS
<1>2. at \in [0..Len(ms) -> Nat] /\ at[0] = 0 /\ at[Len(ms)] = Len(data)
  BY DEF Layout
<1> QED
  BY <1>1, <1>2

\* Every position is in some message or its break.
LEMMA Within ==
    ASSUME NEW ms \in Seq(Plain), NEW data \in Text, NEW at, Layout(at, data, ms),
           NEW i \in 1..Len(data)
    PROVE  \E j \in 1..Len(ms) : at[j - 1] < i /\ i <= at[j]
<1> DEFINE S == {j \in 0..Len(ms) : i <= at[j]}
<1>1. S \in SUBSET Nat /\ Len(ms) \in S
  BY DEF Layout
<1>2. PICK j \in S : \A k \in S : j <= k
  <2> HIDE DEF S
  <2> QED
    BY <1>1, LeastPosition
<1>3. j \in 1..Len(ms)
  BY DEF Layout
<1>4. j - 1 \in 0..Len(ms) /\ j - 1 \notin S
  BY <1>2, <1>3
<1>5. at[j - 1] \in Nat
  BY <1>4 DEF Layout
<1> QED
  BY <1>3, <1>4, <1>5

LEMMA LaterEnds ==
    ASSUME NEW ms \in Seq(Plain), NEW data, NEW at, Layout(at, data, ms),
           NEW j \in 0..Len(ms), NEW k \in j..Len(ms)
    PROVE  at[j] <= at[k]
<1> DEFINE S == {l \in j..Len(ms) : ~(at[j] <= at[l])}
<1> SUFFICES ASSUME S # {} PROVE FALSE
  OBVIOUS
<1>1. S \in SUBSET Nat
  OBVIOUS
<1>2. PICK l \in S : \A o \in S : l <= o
  <2> HIDE DEF S
  <2> QED
    BY <1>1, LeastPosition
<1>3. \A o \in 0..Len(ms) : at[o] \in Nat
  BY DEF Layout
<1>4. l # j
  BY <1>3
<1>5. l \in 1..Len(ms) /\ l - 1 \in j..Len(ms) /\ l - 1 \notin S
  BY <1>2, <1>4
<1>6. at[l] = at[l - 1] + Len(ms[l]) + 2 /\ Len(ms[l]) \in Nat
  BY <1>5 DEF Layout, Plain, Text
<1>7. at[j] <= at[l - 1] /\ ~(at[j] <= at[l])
  BY <1>5
<1>8. at[j] \in Nat /\ at[l - 1] \in Nat /\ at[l] \in Nat
  BY <1>3, <1>5
<1> HIDE DEF S
<1> QED
  BY <1>6, <1>7, <1>8

\* The breaks are the ends of messages.
LEMMA BreaksAreEnds ==
    ASSUME NEW ms \in Seq(Plain), NEW data \in Text, NEW at, Layout(at, data, ms),
           NEW i \in 1..Len(data) - 1
    PROVE  data[i] = NL /\ data[i + 1] = NL <=> \E j \in 1..Len(ms) : i = at[j] - 1
<1>place. Len(data) \in Nat /\ i \in 1..Len(data)
  BY DEF Text
<1>1. ASSUME NEW j \in 1..Len(ms), i = at[j] - 1
      PROVE  data[i] = NL /\ data[i + 1] = NL
  <2>1. at[j] \in Nat /\ i + 1 = at[j]
    BY <1>1, PlaceOf
  <2> QED
    BY <1>1, <2>1, PlaceOf
<1>2. ASSUME data[i] = NL, data[i + 1] = NL
      PROVE  \E j \in 1..Len(ms) : i = at[j] - 1
  <2>1. PICK j \in 1..Len(ms) : at[j - 1] < i /\ i <= at[j]
    BY <1>place, Within
  <2>2. /\ at[j] = at[j - 1] + Len(ms[j]) + 2 /\ Len(ms[j]) \in Nat
        /\ at[j] \in Nat /\ at[j - 1] \in Nat
    BY PlaceOf
  <2>3. ASSUME i <= at[j - 1] + Len(ms[j]) PROVE FALSE
    <3>1. i - at[j - 1] \in 1..Len(ms[j]) /\ at[j - 1] + (i - at[j - 1]) = i
      BY <1>place, <2>1, <2>2, <2>3
    <3>2. data[i] = ms[j][i - at[j - 1]]
      BY <3>1, PlaceOf
    <3>3. ms[j][i - at[j - 1]] # NL
      BY <3>1, PlaceOf DEF Plain
    <3> QED
      BY <1>2, <3>2, <3>3
  <2>4. ASSUME i = at[j] PROVE FALSE
    <3>1. j # Len(ms)
      BY <1>place, <2>4, PlaceOfAll
    <3>2. j + 1 \in 1..Len(ms) /\ (j + 1) - 1 = j
      BY <3>1
    <3>3. ms[j + 1] \in Plain /\ 1 \in 1..Len(ms[j + 1])
      BY <3>2, PlaceOf
    <3>4. ms[j + 1][1] # NL
      BY <3>3 DEF Plain
    <3>5. data[at[(j + 1) - 1] + 1] = ms[j + 1][1]
      BY <3>2, <3>3, PlaceOf
    <3> QED
      BY <1>2, <2>4, <3>2, <3>4, <3>5
  <2>5. i = at[j] - 1
    BY <1>place, <2>1, <2>2, <2>3, <2>4
  <2> QED
    BY <2>5
<1> QED
  BY <1>1, <1>2

-----------------------------------------------------------------------------
(* What split makes of whole messages: the messages.                       *)

Breaks(data, p) == {i \in p..Len(data) - 1 : data[i] = NL /\ data[i + 1] = NL}
FirstBreak(data, p) == CHOOSE i \in Breaks(data, p) : \A j \in Breaks(data, p) : i <= j

\* The recursion of split.
PiecesFrom(data, f, p) ==
    IF Breaks(data, p) = {} THEN IF p > Len(data) THEN <<>>
                                 ELSE <<SubSeq(data, p, Len(data))>>
    ELSE LET e == FirstBreak(data, p)
         IN  (IF e = p THEN <<>> ELSE <<SubSeq(data, p, e - 1)>>) \o f[e + 2]

IsPieces(data, f) == f = [p \in 1..Len(data) + 1 |-> PiecesFrom(data, f, p)]

LEMMA SplitIsPieces == \A data : split(data) = (CHOOSE f : IsPieces(data, f))[1]
BY DEF split, IsPieces, PiecesFrom, FirstBreak, Breaks

\* Where the first break after a position is.
LEMMA FirstBreakIs ==
    ASSUME NEW data \in Text, NEW p \in 1..Len(data) + 1, Breaks(data, p) # {}
    PROVE  /\ FirstBreak(data, p) \in p..Len(data) - 1
           /\ \A i \in Breaks(data, p) : FirstBreak(data, p) <= i
           /\ FirstBreak(data, p) \in Breaks(data, p)
<1>1. Breaks(data, p) \in SUBSET Nat
  BY DEF Breaks, Text
<1>2. \E i \in Breaks(data, p) : \A j \in Breaks(data, p) : i <= j
  BY <1>1, LeastPosition
<1>3. /\ FirstBreak(data, p) \in Breaks(data, p)
      /\ \A i \in Breaks(data, p) : FirstBreak(data, p) <= i
  BY <1>2 DEF FirstBreak
<1> QED
  BY <1>3 DEF Breaks

\* The recursion determines what it defines.
LEMMA PiecesUnique ==
    ASSUME NEW data \in Text, NEW f, NEW g, IsPieces(data, f), IsPieces(data, g)
    PROVE  \A p \in 1..Len(data) + 1 : f[p] = g[p]
<1> DEFINE Wrong == {p \in 1..Len(data) + 1 : f[p] # g[p]}
<1> SUFFICES ASSUME Wrong # {} PROVE FALSE
  OBVIOUS
<1>1. Len(data) \in Nat
  BY DEF Text
<1>2. Len(data) + 1 \in Nat /\ Wrong \in SUBSET (0..Len(data) + 1)
  BY <1>1
<1>3. PICK p \in Wrong : \A o \in Wrong : o <= p
  <2> HIDE DEF Wrong
  <2> QED
    BY <1>2, GreatestPosition
<1>4. p \in 1..Len(data) + 1
  OBVIOUS
<1>5. f[p] = PiecesFrom(data, f, p) /\ g[p] = PiecesFrom(data, g, p)
  BY <1>4 DEF IsPieces
<1>6. CASE Breaks(data, p) = {}
  BY <1>3, <1>5, <1>6 DEF PiecesFrom
<1>7. CASE Breaks(data, p) # {}
  <2>1. FirstBreak(data, p) \in p..Len(data) - 1
    BY <1>4, <1>7, FirstBreakIs
  <2>2. FirstBreak(data, p) + 2 \in 1..Len(data) + 1 /\ FirstBreak(data, p) + 2 \notin Wrong
    BY <1>1, <1>3, <1>4, <2>1
  <2>3. f[FirstBreak(data, p) + 2] = g[FirstBreak(data, p) + 2]
    BY <2>2
  <2> QED
    BY <1>3, <1>5, <1>7, <2>3 DEF PiecesFrom
<1> QED
  BY <1>6, <1>7

\* The first message that ends at or after a position.
LEMMA NextMessage ==
    ASSUME NEW ms \in Seq(Plain), NEW data \in Text, NEW at, Layout(at, data, ms),
           NEW p \in 1..Len(data) + 1, Breaks(data, p) # {}
    PROVE  \E j \in 1..Len(ms) :
                /\ FirstBreak(data, p) = at[j] - 1
                /\ FirstBreak(data, p) + 2 = at[j] + 1
<1>1. FirstBreak(data, p) \in Breaks(data, p)
  BY FirstBreakIs
<1>2. FirstBreak(data, p) \in 1..Len(data) - 1
  BY <1>1 DEF Breaks, Text
<1>3. PICK j \in 1..Len(ms) : FirstBreak(data, p) = at[j] - 1
  BY <1>1, <1>2, BreaksAreEnds DEF Breaks
<1>4. at[j] \in Nat
  BY PlaceOf
<1> QED
  BY <1>3, <1>4

\* From the end of a message on, its successors are found.
LEMMA NextBreak ==
    ASSUME NEW ms \in Seq(Plain), NEW data \in Text, NEW at, Layout(at, data, ms),
           NEW j \in 1..Len(ms)
    PROVE  /\ Breaks(data, at[j - 1] + 1) # {}
           /\ FirstBreak(data, at[j - 1] + 1) = at[j] - 1
           /\ at[j - 1] + 1 \in 1..Len(data)
<1> DEFINE p == at[j - 1] + 1
<1>1. /\ at[j - 1] \in Nat /\ at[j] \in Nat /\ Len(ms[j]) \in Nat \ {0}
      /\ at[j] = at[j - 1] + Len(ms[j]) + 2
  BY PlaceOf
<1>2. Len(data) \in Nat /\ at[j] <= Len(data)
  <2>1. at[j] <= at[Len(ms)]
    BY LaterEnds
  <2> QED
    BY <2>1, PlaceOfAll DEF Text
<1>3. p \in 1..Len(data) /\ at[j] - 1 \in p..Len(data) - 1 /\ at[j] - 1 \in 1..Len(data) - 1
  <2> DEFINE a == at[j - 1]
             b == at[j]
             l == Len(ms[j])
             n == Len(data)
  <2>1. a \in Nat /\ l \in Nat \ {0} /\ b = a + l + 2 /\ n \in Nat /\ b <= n
    BY <1>1, <1>2
  <2> HIDE DEF a, b, l, n
  <2>2. a + 1 \in 1..n /\ b - 1 \in a + 1..n - 1 /\ b - 1 \in 1..n - 1
    BY <2>1
  <2> QED
    BY <2>2 DEF a, b, n
<1>4. at[j] - 1 \in Breaks(data, p)
  <2>1. data[at[j] - 1] = NL /\ data[(at[j] - 1) + 1] = NL
    BY <1>3, BreaksAreEnds
  <2> QED
    BY <1>3, <2>1 DEF Breaks
<1>5. ASSUME NEW i \in Breaks(data, p) PROVE at[j] - 1 <= i
  <2>1. i \in 1..Len(data) - 1 /\ p <= i /\ data[i] = NL /\ data[i + 1] = NL
    BY <1>1, <1>2 DEF Breaks
  <2>2. PICK k \in 1..Len(ms) : i = at[k] - 1
    BY <2>1, BreaksAreEnds
  <2>3. CASE k >= j
    <3>1. at[j] <= at[k]
      BY <2>3, LaterEnds
    <3> QED
      BY <1>1, <2>2, <3>1, PlaceOf
  <2>4. CASE k < j
    <3>1. at[k] <= at[j - 1]
      BY <2>4, LaterEnds
    <3>2. at[j - 1] \in Nat /\ at[k] \in Nat /\ i \in Nat
      BY <1>1, <2>1, PlaceOf
    <3>3. at[j - 1] + 1 <= i /\ i = at[k] - 1
      BY <2>1, <2>2
    <3>4. FALSE
      BY <3>1, <3>2, <3>3
    <3> QED
      BY <3>4
  <2> QED
    BY <2>3, <2>4
<1>6. /\ FirstBreak(data, p) \in p..Len(data) - 1
      /\ FirstBreak(data, p) <= at[j] - 1 /\ at[j] - 1 <= FirstBreak(data, p)
  BY <1>3, <1>4, <1>5, FirstBreakIs
<1>7. FirstBreak(data, p) = at[j] - 1
  BY <1>1, <1>3, <1>6
<1> QED
  BY <1>3, <1>4, <1>7

LEMMA EndsDiffer ==
    ASSUME NEW ms \in Seq(Plain), NEW data, NEW at, Layout(at, data, ms),
           NEW j \in 1..Len(ms), NEW k \in 1..Len(ms), at[j] = at[k]
    PROVE  j = k
<1>1. ASSUME NEW a \in 1..Len(ms), NEW b \in 1..Len(ms), a < b PROVE at[a] < at[b]
  <2>1. b - 1 \in a..Len(ms) /\ a \in 0..Len(ms)
    BY <1>1
  <2>2. at[a] <= at[b - 1]
    BY <2>1, LaterEnds
  <2>3. at[b] = at[b - 1] + Len(ms[b]) + 2 /\ at[b - 1] \in Nat /\ Len(ms[b]) \in Nat
    BY PlaceOf
  <2>4. at[a] \in Nat /\ at[b] \in Nat
    BY PlaceOf
  <2> QED
    BY <2>2, <2>3, <2>4
<1>2. at[j] \in Nat /\ at[k] \in Nat
  BY PlaceOf
<1> QED
  BY <1>1, <1>2

LEMMA SplitLaid ==
    ASSUME NEW ms \in Seq(Plain), NEW data \in Text, Laid(data, ms)
    PROVE  split(data) = ms
<1>1. PICK at : Layout(at, data, ms)
  BY DEF Laid
<1> DEFINE n == Len(data)
           After(i) == CHOOSE j \in 1..Len(ms) : i = at[j] - 1
           rest(j) == SubSeq(ms, j + 1, Len(ms))
           g == [p \in 1..n + 1 |->
                    IF Breaks(data, p) = {} THEN IF p > n THEN <<>> ELSE <<SubSeq(data, p, n)>>
                    ELSE LET e == FirstBreak(data, p)
                         IN  (IF e = p THEN <<>> ELSE <<SubSeq(data, p, e - 1)>>) \o rest(After(e))]
<1>2. n \in Nat /\ Len(ms) \in Nat /\ at[0] = 0 /\ at[Len(ms)] = n
  BY <1>1, PlaceOfAll DEF Text
<1>3. ASSUME NEW j \in 1..Len(ms) PROVE After(at[j] - 1) = j
  <2>1. \A k \in 1..Len(ms) : at[j] - 1 = at[k] - 1 => k = j
    <3>1. ASSUME NEW k \in 1..Len(ms), at[j] - 1 = at[k] - 1 PROVE k = j
      <4>1. at[j] \in Nat /\ at[k] \in Nat
        BY <1>1, PlaceOf
      <4>2. at[j] = at[k]
        BY <3>1, <4>1
      <4> QED
        BY <1>1, <4>2, EndsDiffer
    <3> QED
      BY <3>1
  <2> QED
    BY <2>1
<1> HIDE DEF After
<1>4. ASSUME NEW j \in 0..Len(ms) PROVE at[j] + 1 \in 1..n + 1 /\ g[at[j] + 1] = rest(j)
  <2>1. CASE j = Len(ms)
    <3>1. at[j] + 1 = n + 1 /\ n + 1 \in 1..n + 1 /\ n + 1 > n
      BY <1>2, <2>1
    <3>2. Breaks(data, n + 1) = {}
      BY <1>2 DEF Breaks
    <3>3. g[n + 1] = <<>>
      BY <3>1, <3>2
    <3>4. rest(j) = <<>>
      BY <1>2, <2>1, SubSeqEmpty
    <3> QED
      BY <3>1, <3>3, <3>4
  <2>2. CASE j # Len(ms)
    <3> DEFINE k == j + 1
               p == at[j] + 1
               e == at[k] - 1
    <3>1. k \in 1..Len(ms) /\ k - 1 = j
      BY <1>2, <2>2
    <3>2. Breaks(data, p) # {} /\ FirstBreak(data, p) = e /\ p \in 1..n
      BY <1>1, <3>1, NextBreak
    <3>3. /\ at[j] \in Nat /\ at[k] \in Nat /\ Len(ms[k]) \in Nat \ {0}
          /\ at[k] = at[j] + Len(ms[k]) + 2 /\ ms[k] \in Plain
      BY <1>1, <3>1, PlaceOf
    <3>4. at[k] <= n
      BY <1>1, <1>2, <3>1, LaterEnds
    <3>5. /\ e # p /\ e - 1 \in p..n /\ (e - 1) - p + 1 = Len(ms[k]) /\ p \in 1..n + 1
          /\ \A i \in 1..Len(ms[k]) : p + i - 1 = at[j] + i
      <4> DEFINE a == at[j]
                 b == at[k]
                 l == Len(ms[k])
      <4>1. a \in Nat /\ b \in Nat /\ l \in Nat \ {0} /\ b = a + l + 2 /\ b <= n /\ n \in Nat
        BY <1>2, <3>3, <3>4
      <4> HIDE DEF a, b, l, n
      <4>2. /\ b - 1 # a + 1 /\ (b - 1) - 1 \in a + 1..n /\ ((b - 1) - 1) - (a + 1) + 1 = l
            /\ a + 1 \in 1..n + 1 /\ \A i \in 1..l : (a + 1) + i - 1 = a + i
        BY <4>1
      <4> QED
        BY <4>2 DEF a, b, l
    <3> HIDE DEF e, p, k
    <3>6. SubSeq(data, p, e - 1) = ms[k]
      <4>1. p \in 1..Len(data) + 1 /\ e - 1 \in p - 1..Len(data) /\ data \in Seq(Char)
        BY <1>2, <3>2, <3>5 DEF Text
      <4> DEFINE q == e - 1
      <4> HIDE DEF q
      <4>5. p \in 1..Len(data) + 1 /\ q \in p - 1..Len(data)
        BY <4>1 DEF q
      <4>6. /\ SubSeq(data, p, q) \in Seq(Char)
            /\ Len(SubSeq(data, p, q)) = q - p + 1
            /\ \A i \in 1..q - p + 1 : SubSeq(data, p, q)[i] = data[p + i - 1]
        BY <4>1, <4>5, SubSeqProperties
      <4>2. /\ SubSeq(data, p, e - 1) \in Seq(Char)
            /\ Len(SubSeq(data, p, e - 1)) = Len(ms[k])
            /\ \A i \in 1..Len(ms[k]) : SubSeq(data, p, e - 1)[i] = data[p + i - 1]
        BY <3>5, <4>6 DEF q
      <4>3. \A i \in 1..Len(ms[k]) : SubSeq(data, p, e - 1)[i] = ms[k][i]
        <5>1. \A i \in 1..Len(ms[k]) : data[at[j] + i] = ms[k][i]
          BY <1>1, <3>1, PlaceOf
        <5> QED
          BY <3>5, <4>2, <5>1
      <4>4. ms[k] \in Seq(Char)
        BY <3>3 DEF Plain, Text
      <4> QED
        BY <4>2, <4>3, <4>4, SeqEqual
    <3>7. g[p] = <<ms[k]>> \o rest(k)
      <4>1. After(e) = k
        BY <1>3, <3>1 DEF e
      <4>2. g[p] = (IF FirstBreak(data, p) = p THEN <<>> ELSE <<SubSeq(data, p, FirstBreak(data, p) - 1)>>)
                     \o rest(After(FirstBreak(data, p)))
        BY <3>2, <3>5
      <4> QED
        BY <3>2, <3>5, <3>6, <4>1, <4>2
    <3>8. rest(j) = <<ms[k]>> \o rest(k)
      BY <1>2, <3>1, SubSeqRecursiveFirst DEF k
    <3> QED
      BY <3>5, <3>7, <3>8 DEF p
  <2> QED
    BY <2>1, <2>2
<1>5. IsPieces(data, g)
  <2>1. ASSUME NEW p \in 1..n + 1 PROVE g[p] = PiecesFrom(data, g, p)
    <3>1. CASE Breaks(data, p) = {}
      BY <3>1 DEF PiecesFrom
    <3>2. CASE Breaks(data, p) # {}
      <4> DEFINE e == FirstBreak(data, p)
      <4>1. PICK j \in 1..Len(ms) : e = at[j] - 1 /\ e + 2 = at[j] + 1
        BY <1>1, <3>2, NextMessage
      <4> HIDE DEF e, g
      <4>2. After(e) = j
        BY <1>3, <4>1
      <4>3. j \in 0..Len(ms)
        BY <4>1
      <4>4. g[e + 2] = rest(j)
        BY <1>4, <4>1, <4>3
      <4>5. g[p] = (IF e = p THEN <<>> ELSE <<SubSeq(data, p, e - 1)>>) \o rest(After(e))
        BY <2>1, <3>2 DEF g, e
      <4>6. PiecesFrom(data, g, p)
              = (IF e = p THEN <<>> ELSE <<SubSeq(data, p, e - 1)>>) \o g[e + 2]
        BY <3>2 DEF PiecesFrom, e
      <4> QED
        BY <4>2, <4>4, <4>5, <4>6
    <3> QED
      BY <3>1, <3>2
  <2> QED
    BY <2>1 DEF IsPieces
<1>6. split(data) = g[1]
  <2>1. IsPieces(data, CHOOSE f : IsPieces(data, f))
    BY <1>5
  <2>2. 1 \in 1..Len(data) + 1
    BY <1>2
  <2> HIDE DEF g
  <2> QED
    BY <1>5, <2>1, <2>2, SplitIsPieces, PiecesUnique
<1>7. g[1] = rest(0)
  <2>1. 0 \in 0..Len(ms) /\ at[0] + 1 = 1
    BY <1>2
  <2> HIDE DEF g, rest
  <2> QED
    BY <1>4, <2>1
<1>8. rest(0) = ms
  BY SubSeqFull
<1> QED
  BY <1>6, <1>7, <1>8

-----------------------------------------------------------------------------
(* How laid-out messages grow at the end, and where they may be cut.       *)

\* What two texts put together hold.
LEMMA JoinedTexts ==
    ASSUME NEW a \in Text, NEW b \in Text
    PROVE  /\ a \o b \in Text /\ Len(a) \in Nat /\ Len(b) \in Nat
           /\ Len(a \o b) = Len(a) + Len(b)
           /\ \A i \in 1..Len(a) : (a \o b)[i] = a[i]
           /\ \A i \in 1..Len(b) : (a \o b)[Len(a) + i] = b[i]
<1>1. /\ a \o b \in Text /\ Len(a) \in Nat /\ Len(b) \in Nat
      /\ Len(a \o b) = Len(a) + Len(b)
      /\ \A i \in 1..Len(a) + Len(b) : (a \o b)[i] = IF i <= Len(a) THEN a[i] ELSE b[i - Len(a)]
  BY ConcatProperties DEF Text
<1>2. ASSUME NEW i \in 1..Len(a) PROVE (a \o b)[i] = a[i]
  BY <1>1
<1>3. ASSUME NEW i \in 1..Len(b) PROVE (a \o b)[Len(a) + i] = b[i]
  <2>1. Len(a) + i \in 1..Len(a) + Len(b) /\ ~(Len(a) + i <= Len(a)) /\ (Len(a) + i) - Len(a) = i
    BY <1>1
  <2> QED
    BY <1>1, <2>1
<1> QED
  BY <1>1, <1>2, <1>3

\* A message and its break lie inside what they are part of.
LEMMA Inside ==
    ASSUME NEW x \in Nat, NEW y \in Nat, NEW l \in Nat, NEW n \in Nat,
           y = x + l + 2, y <= n
    PROVE  (\A c \in 1..l : x + c \in 1..n) /\ y - 1 \in 1..n /\ y \in 1..n
OBVIOUS

LEMMA InsideAfter ==
    ASSUME NEW x \in Nat, NEW y \in Nat, NEW l \in Nat, NEW n \in Nat, NEW r \in Nat,
           y = x + l + 2, n <= x, y <= n + r
    PROVE  /\ y - n = (x - n) + l + 2
           /\ \A c \in 1..l : (x - n) + c \in 1..r /\ n + ((x - n) + c) = x + c
           /\ (y - n) - 1 \in 1..r /\ n + ((y - n) - 1) = y - 1
           /\ y - n \in 1..r /\ n + (y - n) = y
OBVIOUS

LEMMA OneMoreLaid ==
    ASSUME NEW ms \in Seq(Plain), NEW data \in Text, Laid(data, ms), NEW m \in Plain
    PROVE  /\ m \o <<NL, NL>> \in Text
           /\ Laid(data \o (m \o <<NL, NL>>), Append(ms, m))
<1>1. PICK at : Layout(at, data, ms)
  BY DEF Laid
<1> DEFINE k == Len(ms)
           l == Len(m)
           n == Len(data)
           tail == m \o <<NL, NL>>
           all == data \o tail
           more == Append(ms, m)
           to == [j \in 0..k + 1 |-> IF j <= k THEN at[j] ELSE n + l + 2]
<1>2. m \in Text /\ <<NL, NL>> \in Text /\ Len(<<NL, NL>>) = 2
  <2>1. NL \in Char
    BY DEF Char
  <2>2. <<NL, NL>> \in Seq(Char)
    BY <2>1
  <2> QED
    BY <2>2 DEF Plain, Text
<1>3. /\ tail \in Text /\ l \in Nat /\ n \in Nat /\ Len(tail) = l + 2
      /\ \A i \in 1..l : tail[i] = m[i]
      /\ tail[l + 1] = NL /\ tail[l + 2] = NL
  <2>1. 1 \in 1..2 /\ 2 \in 1..2 /\ <<NL, NL>>[1] = NL /\ <<NL, NL>>[2] = NL
    OBVIOUS
  <2> QED
    BY <1>2, <2>1, JoinedTexts DEF Text
<1> HIDE DEF tail
<1>4. /\ all \in Text /\ Len(all) = n + (l + 2)
      /\ \A i \in 1..n : all[i] = data[i]
      /\ \A i \in 1..l + 2 : all[n + i] = tail[i]
  <2>1. Len(all) = n + Len(tail) /\ all \in Text
    BY <1>3, JoinedTexts
  <2>2. \A i \in 1..n : all[i] = data[i]
    BY <1>3, JoinedTexts
  <2>3. \A i \in 1..Len(tail) : all[n + i] = tail[i]
    BY <1>3, JoinedTexts
  <2> HIDE DEF all, n, l
  <2> QED
    BY <1>3, <2>1, <2>2, <2>3
<1>5. /\ more \in Seq(Plain) /\ Len(more) = k + 1 /\ more[k + 1] = m
      /\ \A j \in 1..k : more[j] = ms[j]
  BY AppendProperties
<1>6. k \in Nat /\ at[0] = 0 /\ at[k] = n /\ \A j \in 0..k : at[j] \in Nat
  BY <1>1, PlaceOfAll
<1> HIDE DEF all, more, k, l, n
<1>7. /\ to \in [0..k + 1 -> Nat] /\ to[0] = 0 /\ to[k + 1] = n + l + 2
      /\ \A j \in 0..k : to[j] = at[j]
  BY <1>3, <1>6
<1> HIDE DEF to
<1>8. ASSUME NEW j \in 1..k + 1
      PROVE  /\ to[j] = to[j - 1] + Len(more[j]) + 2
             /\ \A i \in 1..Len(more[j]) : all[to[j - 1] + i] = more[j][i]
             /\ all[to[j] - 1] = NL /\ all[to[j]] = NL
  <2>1. CASE j = k + 1
    <3>1. to[j - 1] = n /\ to[j] = n + l + 2 /\ more[j] = m /\ Len(more[j]) = l
      BY <1>5, <1>6, <1>7, <2>1 DEF l
    <3>2. /\ \A i \in 1..l : all[n + i] = m[i]
          /\ all[n + (l + 1)] = NL /\ all[n + (l + 2)] = NL
      BY <1>3, <1>4
    <3>3. n + l + 2 = n + (l + 2) /\ (n + l + 2) - 1 = n + (l + 1)
      BY <1>3
    <3> QED
      BY <3>1, <3>2, <3>3
  <2>2. CASE j # k + 1
    <3>1. j \in 1..k /\ j \in 0..k /\ j - 1 \in 0..k
      BY <1>6, <2>2
    <3>2. to[j] = at[j] /\ to[j - 1] = at[j - 1] /\ more[j] = ms[j]
      BY <1>5, <1>7, <3>1
    <3>3. /\ at[j - 1] \in Nat /\ at[j] \in Nat /\ Len(ms[j]) \in Nat \ {0}
          /\ at[j] = at[j - 1] + Len(ms[j]) + 2
          /\ \A i \in 1..Len(ms[j]) : data[at[j - 1] + i] = ms[j][i]
          /\ data[at[j] - 1] = NL /\ data[at[j]] = NL
      BY <1>1, <3>1, PlaceOf DEF k
    <3>4. at[j] <= n
      BY <1>1, <1>6, <3>1, LaterEnds DEF k
    <3>5. /\ \A i \in 1..Len(ms[j]) : at[j - 1] + i \in 1..n
          /\ at[j] - 1 \in 1..n /\ at[j] \in 1..n
      BY <1>3, <3>3, <3>4, Inside
    <3> QED
      BY <1>4, <3>2, <3>3, <3>5
  <2> QED
    BY <2>1, <2>2
<1>9. Layout(to, all, more)
  <2>1. n + l + 2 = n + (l + 2)
    BY <1>3
  <2> QED
    BY <1>4, <1>5, <1>7, <1>8, <2>1 DEF Layout
<1>10. Laid(all, more)
  BY <1>9 DEF Laid
<1> QED
  BY <1>3, <1>10 DEF all, more, tail

LEMMA CutLaid ==
    ASSUME NEW ms \in Seq(Plain), NEW a \in Text, NEW b \in Text,
           NEW at, Layout(at, a \o b, ms),
           NEW j \in 0..Len(ms), at[j] = Len(a)
    PROVE  /\ Laid(a, SubSeq(ms, 1, j))
           /\ Laid(b, SubSeq(ms, j + 1, Len(ms)))
<1> DEFINE k == Len(ms)
           n == Len(a)
           l == Len(b)
           all == a \o b
           front == SubSeq(ms, 1, j)
           back == SubSeq(ms, j + 1, k)
           atF == [i \in 0..j |-> at[i]]
           atB == [i \in 0..k - j |-> at[j + i] - n]
<1>1. /\ all \in Text /\ n \in Nat /\ l \in Nat /\ Len(all) = n + l
      /\ \A i \in 1..n : all[i] = a[i]
      /\ \A i \in 1..l : all[n + i] = b[i]
  BY JoinedTexts
<1>2. k \in Nat /\ at[0] = 0 /\ at[k] = n + l /\ \A i \in 0..k : at[i] \in Nat
  BY <1>1, PlaceOfAll
<1>3. Len(front) = j /\ \A i \in 1..j : front[i] = ms[i]
  BY <1>2
<1>4. Len(back) = k - j /\ \A i \in 1..k - j : back[i] = ms[j + i]
  BY <1>2
<1>5. ASSUME NEW i \in 1..k
      PROVE  /\ at[i - 1] \in Nat /\ at[i] \in Nat /\ Len(ms[i]) \in Nat \ {0}
             /\ at[i] = at[i - 1] + Len(ms[i]) + 2
             /\ \A c \in 1..Len(ms[i]) : all[at[i - 1] + c] = ms[i][c]
             /\ all[at[i] - 1] = NL /\ all[at[i]] = NL
  <2>1. Layout(at, all, ms) /\ i \in 1..Len(ms)
    OBVIOUS
  <2> HIDE DEF all, k, n, l, front, back, atF, atB
  <2> QED
    BY <2>1, PlaceOf
<1>6. ASSUME NEW i \in 0..k, i <= j PROVE at[i] <= n
  BY <1>2, <1>6, LaterEnds
<1>7. ASSUME NEW i \in 0..k, j <= i PROVE n <= at[i] /\ at[i] <= n + l
  <2>1. at[j] <= at[i]
    BY <1>2, <1>7, LaterEnds
  <2>2. at[i] <= at[k]
    BY <1>2, LaterEnds
  <2> QED
    BY <1>2, <2>1, <2>2
<1> HIDE DEF all, front, back, k, n, l
<1>8. Layout(atF, a, front)
  <2>1. atF \in [0..j -> Nat] /\ atF[0] = 0 /\ atF[j] = n
    BY <1>2 DEF n, k
  <2>2. ASSUME NEW i \in 1..j
        PROVE  /\ atF[i] = atF[i - 1] + Len(front[i]) + 2
               /\ \A c \in 1..Len(front[i]) : a[atF[i - 1] + c] = front[i][c]
               /\ a[atF[i] - 1] = NL /\ a[atF[i]] = NL
    <3>1. i \in 1..k /\ i \in 0..k /\ i <= j /\ i \in 0..j /\ i - 1 \in 0..j
      BY <1>2 DEF k
    <3>2. atF[i] = at[i] /\ atF[i - 1] = at[i - 1] /\ front[i] = ms[i]
      BY <1>3, <3>1
    <3>3. at[i] <= n
      BY <1>6, <3>1
    <3>4. /\ \A c \in 1..Len(ms[i]) : at[i - 1] + c \in 1..n
          /\ at[i] - 1 \in 1..n /\ at[i] \in 1..n
      <4>1. /\ at[i - 1] \in Nat /\ at[i] \in Nat /\ Len(ms[i]) \in Nat
            /\ at[i] = at[i - 1] + Len(ms[i]) + 2 /\ n \in Nat
        BY <1>1, <1>5, <3>1
      <4> QED
        BY <3>3, <4>1, Inside
    <3>5. /\ at[i] = at[i - 1] + Len(ms[i]) + 2
          /\ \A c \in 1..Len(ms[i]) : all[at[i - 1] + c] = ms[i][c]
          /\ all[at[i] - 1] = NL /\ all[at[i]] = NL
      BY <1>5, <3>1
    <3>6. /\ \A c \in 1..Len(ms[i]) : a[at[i - 1] + c] = ms[i][c]
          /\ a[at[i] - 1] = NL /\ a[at[i]] = NL
      BY <1>1, <3>4, <3>5
    <3> HIDE DEF atF
    <3> QED
      BY <3>2, <3>5, <3>6
  <2> HIDE DEF atF
  <2> QED
    BY <1>3, <2>1, <2>2 DEF Layout, n
<1>9. Layout(atB, b, back)
  <2>1. atB \in [0..k - j -> Nat] /\ atB[0] = 0 /\ atB[k - j] = l
    <3>1. ASSUME NEW i \in 0..k - j PROVE at[j + i] - n \in Nat
      <4>1. j + i \in 0..k /\ j <= j + i
        BY <1>2 DEF k
      <4> QED
        BY <1>1, <1>2, <1>7, <4>1
    <3>2. j + 0 = j /\ j + (k - j) = k /\ 0 \in 0..k - j /\ k - j \in 0..k - j
      BY <1>2 DEF k
    <3>3. at[j] = n
      BY DEF n
    <3>4. at[j + 0] - n = 0 /\ at[j + (k - j)] - n = l
      BY <1>1, <1>2, <3>2, <3>3
    <3> QED
      BY <3>1, <3>2, <3>4
  <2>2. ASSUME NEW i \in 1..k - j
        PROVE  /\ atB[i] = atB[i - 1] + Len(back[i]) + 2
               /\ \A c \in 1..Len(back[i]) : b[atB[i - 1] + c] = back[i][c]
               /\ b[atB[i] - 1] = NL /\ b[atB[i]] = NL
    <3> DEFINE q == j + i
    <3>1. /\ q \in 1..k /\ q - 1 \in 0..k /\ j <= q - 1 /\ q \in 0..k /\ j <= q
          /\ q - 1 = j + (i - 1) /\ i \in 0..k - j /\ i - 1 \in 0..k - j
      BY <1>2 DEF k
    <3>2. atB[i] = at[q] - n /\ atB[i - 1] = at[q - 1] - n /\ back[i] = ms[q]
      BY <1>4, <3>1
    <3>3. n <= at[q - 1] /\ at[q] <= n + l
      BY <1>7, <3>1
    <3> HIDE DEF q, atB
    <3>4. /\ at[q - 1] \in Nat /\ at[q] \in Nat /\ Len(ms[q]) \in Nat \ {0}
          /\ at[q] = at[q - 1] + Len(ms[q]) + 2
          /\ \A c \in 1..Len(ms[q]) : all[at[q - 1] + c] = ms[q][c]
          /\ all[at[q] - 1] = NL /\ all[at[q]] = NL
      BY <1>5, <3>1
    <3>5. /\ at[q] - n = (at[q - 1] - n) + Len(ms[q]) + 2
          /\ \A c \in 1..Len(ms[q]) :
                (at[q - 1] - n) + c \in 1..l /\ n + ((at[q - 1] - n) + c) = at[q - 1] + c
          /\ (at[q] - n) - 1 \in 1..l /\ n + ((at[q] - n) - 1) = at[q] - 1
          /\ at[q] - n \in 1..l /\ n + (at[q] - n) = at[q]
      <4> DEFINE x == at[q - 1]
                 y == at[q]
                 w == Len(ms[q])
      <4>1. /\ x \in Nat /\ y \in Nat /\ w \in Nat /\ n \in Nat /\ l \in Nat
            /\ y = x + w + 2 /\ n <= x /\ y <= n + l
        BY <1>1, <3>3, <3>4
      <4> HIDE DEF x, y, w
      <4>2. /\ y - n = (x - n) + w + 2
            /\ \A c \in 1..w : (x - n) + c \in 1..l /\ n + ((x - n) + c) = x + c
            /\ (y - n) - 1 \in 1..l /\ n + ((y - n) - 1) = y - 1
            /\ y - n \in 1..l /\ n + (y - n) = y
        BY <4>1, InsideAfter
      <4> QED
        BY <4>2 DEF x, y, w
    <3>7. \A c \in 1..Len(ms[q]) : b[(at[q - 1] - n) + c] = ms[q][c]
      BY <1>1, <3>4, <3>5
    <3>8. b[(at[q] - n) - 1] = NL /\ b[at[q] - n] = NL
      BY <1>1, <3>4, <3>5
    <3> QED
      BY <3>2, <3>5, <3>7, <3>8
  <2> HIDE DEF atB
  <2> QED
    BY <1>4, <2>1, <2>2 DEF Layout, l
<1> QED
  BY <1>8, <1>9 DEF Laid, front, back, k

\* Laid-out messages begin with a character and end with a break.
LEMMA LaidEdges ==
    ASSUME NEW ms \in Seq(Plain), NEW data \in Text, Laid(data, ms), data # <<>>
    PROVE  /\ data[1] # NL
           /\ Len(data) >= 2 /\ data[Len(data)] = NL /\ data[Len(data) - 1] = NL
<1>1. PICK at : Layout(at, data, ms)
  BY DEF Laid
<1>2. Len(data) \in Nat \ {0}
  BY DEF Text
<1>3. Len(ms) \in Nat \ {0} /\ at[0] = 0 /\ at[Len(ms)] = Len(data)
  BY <1>1, <1>2, PlaceOfAll
<1>4. 1 \in 1..Len(ms) /\ Len(ms) \in 1..Len(ms) /\ 1 - 1 = 0
  BY <1>3
<1>5. /\ ms[1] \in Plain /\ 1 \in 1..Len(ms[1])
      /\ \A i \in 1..Len(ms[1]) : data[0 + i] = ms[1][i]
  BY <1>1, <1>3, <1>4, PlaceOf
<1>6. data[1] = ms[1][1] /\ ms[1][1] # NL
  BY <1>5 DEF Plain
<1>7. /\ at[Len(ms)] = at[Len(ms) - 1] + Len(ms[Len(ms)]) + 2
      /\ at[Len(ms) - 1] \in Nat /\ Len(ms[Len(ms)]) \in Nat
      /\ data[Len(data) - 1] = NL /\ data[Len(data)] = NL
  BY <1>1, <1>3, <1>4, PlaceOf
<1> QED
  BY <1>3, <1>6, <1>7

LEMMA NothingLeft ==
    ASSUME NEW ms \in Seq(Plain), Laid(<<>>, ms)
    PROVE  ms = <<>>
<1>1. PICK at : Layout(at, <<>>, ms)
  BY DEF Laid
<1>2. Len(ms) \in Nat /\ at[Len(ms)] = 0
  BY <1>1, PlaceOfAll
<1>3. ASSUME Len(ms) # 0 PROVE FALSE
  <2>1. Len(ms) \in 1..Len(ms)
    BY <1>2, <1>3
  <2>2. /\ at[Len(ms)] = at[Len(ms) - 1] + Len(ms[Len(ms)]) + 2
        /\ at[Len(ms) - 1] \in Nat /\ Len(ms[Len(ms)]) \in Nat
    BY <1>1, <2>1, PlaceOf
  <2> QED
    BY <1>2, <2>2
<1> QED
  BY <1>3

\* A prefix that ends in a break ends a message.
LEMMA PrefixEndsMessage ==
    ASSUME NEW ms \in Seq(Plain), NEW a \in Text, NEW b \in Text,
           NEW at, Layout(at, a \o b, ms),
           Len(a) >= 2, a[Len(a)] = NL, a[Len(a) - 1] = NL
    PROVE  \E j \in 1..Len(ms) : at[j] = Len(a)
<1> DEFINE n == Len(a)
<1>1. /\ a \o b \in Text /\ n \in Nat /\ Len(b) \in Nat /\ Len(a \o b) = n + Len(b)
      /\ \A i \in 1..n : (a \o b)[i] = a[i]
  BY JoinedTexts
<1>2. n - 1 \in 1..Len(a \o b) - 1 /\ n - 1 \in 1..n /\ n \in 1..n /\ (n - 1) + 1 = n
  BY <1>1
<1>3. (a \o b)[n - 1] = NL /\ (a \o b)[(n - 1) + 1] = NL
  BY <1>1, <1>2
<1>4. PICK j \in 1..Len(ms) : n - 1 = at[j] - 1
  <2> DEFINE all == a \o b
  <2>1. all \in Text /\ Layout(at, all, ms) /\ n - 1 \in 1..Len(all) - 1
    BY <1>1, <1>2
  <2>2. all[n - 1] = NL /\ all[(n - 1) + 1] = NL
    BY <1>3
  <2> DEFINE i == n - 1
  <2> HIDE DEF all, n
  <2>3. i \in 1..Len(all) - 1 /\ all[i] = NL /\ all[i + 1] = NL
    BY <2>1, <2>2
  <2> HIDE DEF i
  <2>4. \E j \in 1..Len(ms) : i = at[j] - 1
    BY <2>1, <2>3, BreaksAreEnds
  <2> QED
    BY <2>4 DEF i
<1>5. at[j] \in Nat
  BY PlaceOf
<1> QED
  BY <1>1, <1>4, <1>5

-----------------------------------------------------------------------------
(* The inductive invariant.                                                *)

EndsInBreak(data) == Len(data) >= 2 /\ data[Len(data)] = NL /\ data[Len(data) - 1] = NL

\* All that is under way, from the reader's end.
Flow == rxData \o (stream \o unsent)

TextInv ==
    /\ rxData \in Text /\ stream \in Text /\ unsent \in Text
    /\ written \in Seq(Plain) /\ delivered \in Seq(Plain)

\* What was written is what was delivered and what is under way.
FlowInv == \E ms \in Seq(Plain) : written = delivered \o ms /\ Laid(Flow, ms)

FramingInv == TextInv /\ FlowInv /\ ~EndsInBreak(rxData)

LEMMA TextParts ==
    ASSUME NEW s \in Text, NEW n \in 1..Len(s)
    PROVE  /\ SubSeq(s, 1, n) \in Text /\ SubSeq(s, n + 1, Len(s)) \in Text
           /\ SubSeq(s, 1, n) \o SubSeq(s, n + 1, Len(s)) = s
           /\ Len(SubSeq(s, 1, n)) = n
<1>1. Len(s) \in Nat /\ \A i \in 1..Len(s) : s[i] \in Char
  BY DEF Text
<1>2. /\ 1 \in 1..Len(s) + 1 /\ n \in 1 - 1..Len(s) /\ Len(s) \in n..Len(s)
      /\ n \in Int /\ n + 1 \in Int /\ Len(s) \in Int
  BY <1>1
<1>3. SubSeq(s, 1, n) \in Seq(Char) /\ Len(SubSeq(s, 1, n)) = n
  <2>1. \A i \in 1..n : s[i] \in Char
    BY <1>1
  <2> QED
    BY <1>2, <2>1, SubSeqProperties
<1>4. SubSeq(s, n + 1, Len(s)) \in Seq(Char)
  <2>1. \A i \in n + 1..Len(s) : s[i] \in Char
    BY <1>1
  <2> QED
    BY <1>2, <2>1, SubSeqProperties
<1>5. SubSeq(s, 1, n) \o SubSeq(s, n + 1, Len(s)) = SubSeq(s, 1, Len(s))
  BY <1>2, ConcatAdjacentSubSeq DEF Text
<1>6. SubSeq(s, 1, Len(s)) = s
  BY SubSeqFull DEF Text
<1> QED
  BY <1>3, <1>4, <1>5, <1>6 DEF Text

LEMMA Regroup ==
    ASSUME NEW a \in Text, NEW b \in Text, NEW c \in Text
    PROVE  a \o (b \o c) = (a \o b) \o c
BY ConcatAssociative DEF Text

LEMMA RegroupMessages ==
    ASSUME NEW a \in Seq(Plain), NEW b \in Seq(Plain), NEW c \in Seq(Plain)
    PROVE  a \o (b \o c) = (a \o b) \o c
BY ConcatAssociative

LEMMA FramingInit == Init => FramingInv
<1> SUFFICES ASSUME Init PROVE FramingInv
  OBVIOUS
<1>1. <<>> \in Text /\ <<>> \in Seq(Plain)
  BY DEF Text
<1>2. Flow = <<>> /\ written = delivered \o <<>>
  BY <1>1, ConcatEmptySeq DEF Init, Flow, Text
<1>3. Laid(Flow, <<>>)
  BY <1>2, NothingLaid
<1>4. ~EndsInBreak(rxData)
  BY DEF Init, EndsInBreak
<1> QED
  BY <1>1, <1>2, <1>3, <1>4 DEF Init, FramingInv, TextInv, FlowInv

LEMMA StartWriteStep ==
    ASSUME FramingInv, NEW m \in Plain, StartWrite(m)
    PROVE  FramingInv'
<1>1. PICK ms \in Seq(Plain) : written = delivered \o ms /\ Laid(Flow, ms)
  BY DEF FramingInv, FlowInv
<1> DEFINE tail == m \o <<NL, NL>>
<1>2. /\ unsent = <<>> /\ unsent' = tail /\ written' = Append(written, m)
      /\ stream' = stream /\ rxData' = rxData /\ delivered' = delivered
  BY DEF StartWrite
<1>3. /\ rxData \in Text /\ stream \in Text /\ unsent \in Text
      /\ written \in Seq(Plain) /\ delivered \in Seq(Plain) /\ Flow \in Text
  BY JoinedTexts DEF FramingInv, TextInv, Flow
<1>4. tail \in Text /\ Laid(Flow \o tail, Append(ms, m))
  BY <1>1, <1>3, OneMoreLaid
<1> HIDE DEF tail
<1>5. stream \o unsent = stream
  BY <1>2, <1>3, ConcatEmptySeq DEF Text
<1>6. Flow' = Flow \o tail
  <2>1. Flow = rxData \o stream
    BY <1>5 DEF Flow
  <2>2. Flow' = rxData \o (stream \o tail)
    BY <1>2 DEF Flow
  <2> QED
    BY <1>3, <1>4, <2>1, <2>2, Regroup
<1>7. Append(ms, m) \in Seq(Plain) /\ Append(written, m) \in Seq(Plain)
  BY <1>3, AppendProperties
<1>8. Append(written, m) = delivered \o Append(ms, m)
  <2>1. <<m>> \in Seq(Plain)
    OBVIOUS
  <2>2. Append(written, m) = (delivered \o ms) \o <<m>>
    BY <1>1, <1>3, AppendIsConcat
  <2>3. Append(ms, m) = ms \o <<m>>
    BY AppendIsConcat
  <2> QED
    BY <1>3, <2>1, <2>2, <2>3, ConcatAssociative
<1>9. TextInv'
  BY <1>2, <1>3, <1>4, <1>7 DEF TextInv
<1>10. FlowInv'
  <2>1. written' = delivered' \o Append(ms, m) /\ Laid(Flow', Append(ms, m))
    BY <1>2, <1>4, <1>6, <1>8
  <2> QED
    BY <1>7, <2>1 DEF FlowInv
<1>11. (~EndsInBreak(rxData))'
  BY <1>2 DEF FramingInv, EndsInBreak
<1> QED
  BY <1>9, <1>10, <1>11 DEF FramingInv

LEMMA WriteSomeStep == FramingInv /\ WriteSome => FramingInv'
<1> SUFFICES ASSUME FramingInv, WriteSome PROVE FramingInv'
  OBVIOUS
<1>1. PICK n \in 1..Len(unsent) :
        /\ stream' = stream \o SubSeq(unsent, 1, n)
        /\ unsent' = SubSeq(unsent, n + 1, Len(unsent))
  BY DEF WriteSome
<1>2. rxData' = rxData /\ written' = written /\ delivered' = delivered
  BY DEF WriteSome
<1>3. /\ rxData \in Text /\ stream \in Text /\ unsent \in Text
      /\ written \in Seq(Plain) /\ delivered \in Seq(Plain)
  BY DEF FramingInv, TextInv
<1>4. /\ SubSeq(unsent, 1, n) \in Text /\ unsent' \in Text
      /\ SubSeq(unsent, 1, n) \o unsent' = unsent
  BY <1>1, <1>3, TextParts
<1>5. stream' \in Text
  BY <1>1, <1>3, <1>4, JoinedTexts
<1>6. stream' \o unsent' = stream \o unsent
  <2> DEFINE part == SubSeq(unsent, 1, n)
  <2>1. /\ part \in Text /\ unsent' \in Text /\ stream \in Text
        /\ stream' = stream \o part /\ part \o unsent' = unsent
    BY <1>1, <1>3, <1>4
  <2> HIDE DEF part
  <2>2. stream \o (part \o unsent') = (stream \o part) \o unsent'
    BY <2>1, Regroup
  <2> QED
    BY <2>1, <2>2
<1>7. Flow' = Flow
  BY <1>2, <1>6 DEF Flow
<1>8. TextInv'
  BY <1>2, <1>3, <1>4, <1>5 DEF TextInv
<1>9. FlowInv'
  BY <1>2, <1>7 DEF FramingInv, FlowInv
<1>10. (~EndsInBreak(rxData))'
  BY <1>2 DEF FramingInv, EndsInBreak
<1> QED
  BY <1>8, <1>9, <1>10 DEF FramingInv

\* What has come in, in one piece.
LEMMA ChunkTaken ==
    ASSUME NEW rx \in Text, NEW chunk \in Text, NEW rest \in Text, NEW un \in Text,
           Len(chunk) \in Nat \ {0}
    PROVE  rx \o chunk \in Text /\ Len(rx \o chunk) \in Nat \ {0} /\ rest \o un \in Text
<1>1. rest \o un \in Text /\ rx \o chunk \in Text
  BY JoinedTexts
<1>2. Len(rx \o chunk) = Len(rx) + Len(chunk) /\ Len(rx) \in Nat
  BY JoinedTexts
<1> QED
  BY <1>1, <1>2

LEMMA EndsIsBreak ==
    ASSUME NEW data \in Text, Len(data) \in Nat \ {0}, data[1] # NL, NEW ends \in EndsMessage(data)
    PROVE  ends = EndsInBreak(data)
<1>1. CASE Len(data) = 1
  BY <1>1 DEF EndsMessage, EndsInBreak
<1>2. CASE Len(data) # 1
  <2>1. Len(data) >= 2
    <3> DEFINE l == Len(data)
    <3>1. l \in Nat \ {0} /\ l # 1
      BY <1>2
    <3> HIDE DEF l
    <3>2. l >= 2
      BY <3>1
    <3> QED
      BY <3>2 DEF l
  <2>2. ends = (data[Len(data)] = NL /\ data[Len(data) - 1] = NL)
    BY <1>2 DEF EndsMessage
  <2> QED
    BY <2>1, <2>2 DEF EndsInBreak
<1> QED
  BY <1>1, <1>2

\* The messages of one more part are the next ones.
LEMMA PartsOfMessages ==
    ASSUME NEW ms \in Seq(Plain), NEW j \in 1..Len(ms)
    PROVE  /\ SubSeq(ms, 1, j) \in Seq(Plain) /\ Len(SubSeq(ms, 1, j)) = j
           /\ SubSeq(ms, j + 1, Len(ms)) \in Seq(Plain)
           /\ SubSeq(ms, 1, j) \o SubSeq(ms, j + 1, Len(ms)) = ms
<1>1. /\ 1 \in 1..Len(ms) + 1 /\ j \in 1 - 1..Len(ms) /\ Len(ms) \in j..Len(ms)
      /\ j \in Int /\ j + 1 \in Int /\ Len(ms) \in Int
  OBVIOUS
<1>2. SubSeq(ms, 1, j) \in Seq(Plain) /\ Len(SubSeq(ms, 1, j)) = j
  <2>1. \A i \in 1..j : ms[i] \in Plain
    BY <1>1
  <2> QED
    BY <1>1, <2>1, SubSeqProperties
<1>3. SubSeq(ms, j + 1, Len(ms)) \in Seq(Plain)
  <2>1. \A i \in j + 1..Len(ms) : ms[i] \in Plain
    BY <1>1
  <2> QED
    BY <1>1, <2>1, SubSeqProperties
<1>4. SubSeq(ms, 1, j) \o SubSeq(ms, j + 1, Len(ms)) = SubSeq(ms, 1, Len(ms))
  BY <1>1, ConcatAdjacentSubSeq
<1>5. SubSeq(ms, 1, Len(ms)) = ms
  BY SubSeqFull
<1> QED
  BY <1>2, <1>3, <1>4, <1>5

LEMMA PrefixOfJoined ==
    ASSUME NEW a \in Seq(Plain), NEW b \in Seq(Plain)
    PROVE  /\ SubSeq(a \o b, 1, Len(a)) = a
           /\ a \o b \in Seq(Plain)
           /\ Len(a \o b) = Len(a) + Len(b) /\ Len(a) \in Nat /\ Len(b) \in Nat
<1> DEFINE n == Len(a)
           w == a \o b
<1>1. /\ w \in Seq(Plain) /\ Len(w) = n + Len(b) /\ n \in Nat /\ Len(b) \in Nat
      /\ \A i \in 1..n + Len(b) : w[i] = IF i <= n THEN a[i] ELSE b[i - n]
  BY ConcatProperties
<1> HIDE DEF w, n
<1>2. n \in 0..Len(w) /\ \A i \in 1..n : w[i] = a[i] /\ w[i] \in Plain
  BY <1>1
<1>3. /\ SubSeq(w, 1, n) \in Seq(Plain) /\ Len(SubSeq(w, 1, n)) = n
      /\ \A i \in 1..n : SubSeq(w, 1, n)[i] = a[i]
  BY <1>1, <1>2
<1>4. SubSeq(w, 1, n) = a
  BY <1>3, SeqEqual DEF n
<1> QED
  BY <1>1, <1>4 DEF w, n

\* What a read() leaves: either it does not end a message, or it ends one
\* and split returns whole messages.
LEMMA ReadChunkMeans ==
    ASSUME FramingInv, ReadChunk
    PROVE  /\ FramingInv'
           /\ delivered' # delivered =>
                \E j \in Len(delivered) + 1 .. Len(written) : delivered' = SubSeq(written, 1, j)
<1>1. PICK ms \in Seq(Plain) : written = delivered \o ms /\ Laid(Flow, ms)
  BY DEF FramingInv, FlowInv
<1>2. PICK n \in 1..Len(stream) :
        /\ stream' = SubSeq(stream, n + 1, Len(stream))
        /\ LET data == rxData \o SubSeq(stream, 1, n)
           IN  \E ends \in EndsMessage(data) :
                IF ends THEN delivered' = delivered \o split(data) /\ rxData' = <<>>
                        ELSE rxData' = data /\ UNCHANGED delivered
  BY DEF ReadChunk
<1> DEFINE data == rxData \o SubSeq(stream, 1, n)
           later == stream' \o unsent
<1>3. PICK ends \in EndsMessage(data) :
        IF ends THEN delivered' = delivered \o split(data) /\ rxData' = <<>>
                ELSE rxData' = data /\ UNCHANGED delivered
  BY <1>2
<1>4. unsent' = unsent /\ written' = written
  BY DEF ReadChunk
<1>5. /\ rxData \in Text /\ stream \in Text /\ unsent \in Text /\ <<>> \in Text
      /\ written \in Seq(Plain) /\ delivered \in Seq(Plain)
  BY DEF FramingInv, TextInv, Text
<1>6. data \in Text /\ Len(data) \in Nat \ {0} /\ later \in Text /\ stream' \in Text /\ Flow = data \o later
  <2> DEFINE chunk == SubSeq(stream, 1, n)
             rest == SubSeq(stream, n + 1, Len(stream))
  <2>1. /\ chunk \in Text /\ Len(chunk) = n /\ n \in Nat \ {0} /\ rest \in Text
        /\ chunk \o rest = stream
    BY <1>5, TextParts
  <2>2. stream' = rest /\ data = rxData \o chunk /\ later = rest \o unsent
    BY <1>2
  <2> HIDE DEF chunk, rest, data, later
  <2>3. Len(chunk) \in Nat \ {0} /\ chunk \in Text /\ rest \in Text
    BY <2>1
  <2>4. rxData \o chunk \in Text /\ Len(rxData \o chunk) \in Nat \ {0} /\ rest \o unsent \in Text
    BY <1>5, <2>3, ChunkTaken
  <2>5. later \in Text
    BY <2>2, <2>4
  <2>texts. /\ rxData \in Text /\ chunk \in Text /\ rest \in Text /\ unsent \in Text
        /\ later \in Text
    BY <1>5, <2>3, <2>5
  <2>6. chunk \o (rest \o unsent) = (chunk \o rest) \o unsent
    BY <2>texts, Regroup
  <2>7. rxData \o (chunk \o later) = (rxData \o chunk) \o later
    BY <2>texts, Regroup
  <2>8. rxData \o (stream \o unsent) = (rxData \o chunk) \o later
    BY <2>1, <2>2, <2>6, <2>7
  <2> QED
    BY <2>1, <2>2, <2>4, <2>5, <2>8 DEF Flow
<1> HIDE DEF data, later
<1>7. data[1] # NL
  <2>1. /\ 1 \in 1..Len(data) /\ Flow \in Text /\ Flow # <<>> /\ Flow[1] = data[1]
    <3>2. /\ Len(Flow) = Len(data) + Len(later) /\ Len(later) \in Nat /\ Flow \in Text
          /\ \A i \in 1..Len(data) : Flow[i] = data[i]
      BY <1>6, JoinedTexts
    <3>3. 1 \in 1..Len(data) /\ Len(Flow) # 0
      BY <1>6, <3>2
    <3> QED
      BY <3>2, <3>3
  <2> QED
    BY <1>1, <2>1, LaidEdges
<1>8. ends = EndsInBreak(data)
  BY <1>3, <1>6, <1>7, EndsIsBreak
<1>9. CASE ~EndsInBreak(data)
  <2>1. rxData' = data /\ delivered' = delivered
    BY <1>3, <1>8, <1>9
  <2>2. Flow' = Flow
    BY <1>4, <1>6, <2>1 DEF Flow, later
  <2>3. TextInv'
    BY <1>4, <1>5, <1>6, <2>1 DEF TextInv
  <2>4. FlowInv'
    BY <1>1, <1>4, <2>1, <2>2 DEF FlowInv
  <2>5. (~EndsInBreak(rxData))'
    BY <1>9, <2>1 DEF EndsInBreak
  <2> QED
    BY <2>1, <2>3, <2>4, <2>5 DEF FramingInv
<1>10. CASE EndsInBreak(data)
  <2>1. delivered' = delivered \o split(data) /\ rxData' = <<>>
    BY <1>3, <1>8, <1>10
  <2>2. PICK at : Layout(at, data \o later, ms)
    BY <1>1, <1>6 DEF Laid
  <2>3. PICK j \in 1..Len(ms) : at[j] = Len(data)
    BY <1>6, <1>10, <2>2, PrefixEndsMessage DEF EndsInBreak
  <2> DEFINE front == SubSeq(ms, 1, j)
             back == SubSeq(ms, j + 1, Len(ms))
  <2>cut. front = SubSeq(ms, 1, j) /\ back = SubSeq(ms, j + 1, Len(ms))
    OBVIOUS
  <2>parts. front \in Seq(Plain) /\ Len(front) = j /\ back \in Seq(Plain) /\ front \o back = ms
    BY PartsOfMessages
  <2> HIDE DEF front, back
  <2>types. /\ delivered \in Seq(Plain) /\ front \in Seq(Plain) /\ back \in Seq(Plain)
            /\ Len(front) # 0
    BY <1>5, <2>parts
  <2>regrouped. delivered \o (front \o back) = (delivered \o front) \o back
    BY <2>types, RegroupMessages
  <2>joined. /\ delivered \o front \in Seq(Plain)
             /\ Len(delivered \o front) = Len(delivered) + j /\ Len(delivered) \in Nat
    <3>1. /\ delivered \o front \in Seq(Plain) /\ Len(delivered) \in Nat
          /\ Len(delivered \o front) = Len(delivered) + Len(front)
      BY <2>types, PrefixOfJoined
    <3> QED
      BY <2>parts, <3>1
  <2> DEFINE all == delivered \o front
  <2>more. all \in Seq(Plain) /\ written = all \o back
    BY <1>1, <2>parts, <2>regrouped, <2>joined
  <2> HIDE DEF all
  <2>prefix. all = SubSeq(written, 1, Len(all)) /\ Len(written) = Len(all) + Len(back) /\ Len(back) \in Nat
    BY <2>types, <2>more, PrefixOfJoined
  <2>4. /\ front \in Seq(Plain) /\ back \in Seq(Plain) /\ delivered \o front \in Seq(Plain)
        /\ written = (delivered \o front) \o back
        /\ Len(delivered \o front) \in Len(delivered) + 1 .. Len(written)
        /\ delivered \o front = SubSeq(written, 1, Len(delivered \o front))
    <3>1. Len(all) \in Len(delivered) + 1 .. Len(written)
      BY <2>joined, <2>prefix DEF all
    <3> QED
      BY <2>types, <2>joined, <2>more, <2>prefix, <3>1 DEF all
  <2>5. Laid(data, front) /\ Laid(later, back)
    <3>1. j \in 0..Len(ms)
      OBVIOUS
    <3> QED
      BY <1>6, <2>2, <2>3, <2>cut, <3>1, CutLaid
  <2>6. delivered' = delivered \o front
    BY <1>6, <2>1, <2>4, <2>5, SplitLaid
  <2>7. Flow' = later
    <3>1. Flow' = <<>> \o later
      BY <1>4, <2>1 DEF Flow, later
    <3> QED
      BY <1>6, <3>1, ConcatEmptySeq DEF Text
  <2>8. TextInv'
    BY <1>4, <1>5, <1>6, <2>1, <2>4, <2>6 DEF TextInv
  <2>9. FlowInv'
    BY <1>4, <2>4, <2>5, <2>6, <2>7 DEF FlowInv
  <2>10. (~EndsInBreak(rxData))'
    BY <2>1 DEF EndsInBreak
  <2> QED
    BY <2>4, <2>6, <2>8, <2>9, <2>10 DEF FramingInv
<1> QED
  BY <1>9, <1>10

LEMMA FramingStep ==
    ASSUME PlainMessages, FramingInv, [Next]_vars
    PROVE  FramingInv'
<1>1. ASSUME NEW m \in Message, StartWrite(m) PROVE FramingInv'
  BY <1>1, StartWriteStep DEF PlainMessages
<1>2. CASE WriteSome
  BY <1>2, WriteSomeStep
<1>3. CASE ReadChunk
  BY <1>3, ReadChunkMeans
<1>4. CASE UNCHANGED vars
  BY <1>4 DEF vars, FramingInv, TextInv, FlowInv, Flow, EndsInBreak
<1> QED
  BY <1>1, <1>2, <1>3, <1>4 DEF Next, Idle

LEMMA FramingHolds ==
    ASSUME PlainMessages
    PROVE  Spec => []FramingInv
<1>1. FramingInv /\ [Next]_vars => FramingInv'
  BY FramingStep
<1> QED
  BY FramingInit, <1>1, PTL DEF Spec

-----------------------------------------------------------------------------
(* The theorems.                                                           *)

(***************************************************************************)
(* Once the writer and the connection are empty, the reader holds no tail  *)
(* of a message and everything written has been returned by split: the     *)
(* server's thread never waits in read() for the rest of a message already *)
(* sent (readFromSock, writeToSock and split of network_serializer.cpp).   *)
(***************************************************************************)
THEOREM NoTailWaits ==
    ASSUME PlainMessages
    PROVE  Spec => []NothingHeldBack
<1>1. FramingInv => NothingHeldBack
  <2> SUFFICES ASSUME FramingInv, unsent = <<>>, stream = <<>>
               PROVE  rxData = <<>> /\ delivered = written
    BY DEF NothingHeldBack
  <2>1. PICK ms \in Seq(Plain) : written = delivered \o ms /\ Laid(Flow, ms)
    BY DEF FramingInv, FlowInv
  <2>2. rxData \in Text /\ delivered \in Seq(Plain) /\ <<>> \in Text
    BY DEF FramingInv, TextInv, Text
  <2>3. Flow = rxData
    BY <2>2, ConcatEmptySeq DEF Flow, Text
  <2>4. rxData = <<>>
    BY <2>1, <2>2, <2>3, LaidEdges DEF FramingInv, EndsInBreak
  <2>5. ms = <<>>
    BY <2>1, <2>3, <2>4, NothingLeft
  <2> QED
    BY <2>1, <2>2, <2>4, <2>5, ConcatEmptySeq
<1> QED
  BY FramingHolds, <1>1, PTL

(***************************************************************************)
(* The two halves of the protocol implement the channel, all but its       *)
(* liveness: writeToSock writes a message to it, a read() that ends one    *)
(* delivers one or more in the order written, whole and once, and every    *)
(* other step leaves it alone.                                             *)
(***************************************************************************)
THEOREM FramingIsAChannel ==
    ASSUME PlainMessages
    PROVE  Spec => Channel!Init /\ [][Channel!Next]_(Channel!chanVars)
<1>1. Init => Channel!Init
  BY DEF Init, Channel!Init
<1>2. FramingInv /\ [Next]_vars => [Channel!Next]_(Channel!chanVars)
  <2> SUFFICES ASSUME FramingInv, [Next]_vars
               PROVE  Channel!Next \/ UNCHANGED <<written, delivered>>
    BY DEF Channel!chanVars
  <2>1. ASSUME NEW m \in Message, StartWrite(m) PROVE Channel!Next
    BY <2>1 DEF StartWrite, Channel!Next, Channel!Write
  <2>2. CASE WriteSome
    BY <2>2 DEF WriteSome
  <2>3. CASE ReadChunk
    <3>1. written' = written
      BY <2>3 DEF ReadChunk
    <3>2. delivered' # delivered =>
            \E j \in Len(delivered) + 1 .. Len(written) : delivered' = SubSeq(written, 1, j)
      BY <2>3, ReadChunkMeans
    <3> QED
      BY <3>1, <3>2 DEF Channel!Next, Channel!Deliver
  <2>4. CASE UNCHANGED vars
    BY <2>4 DEF vars
  <2> QED
    BY <2>1, <2>2, <2>3, <2>4 DEF Next, Idle
<1> QED
  BY FramingHolds, <1>1, <1>2, PTL DEF Spec
=============================================================================
