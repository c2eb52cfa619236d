-------------------------- MODULE MotorWireProofs --------------------------
(***************************************************************************)
(* What UserCore::moving encodes is what parseMotorData reads, for every   *)
(* width of the words, any number of motors and any integers in them: each *)
(* field arrives as far as a word holds it.                                *)
(***************************************************************************)
EXTENDS MotorWire, FiniteSetTheorems, WellFoundedInduction, TLAPS

-----------------------------------------------------------------------------
(* Induction over the places of a word, as a fact about sets.              *)

\* Of the natural numbers missing from a set one is the least.
LEMMA LeastMissing ==
    ASSUME NEW S \in SUBSET Nat, S # {}
    PROVE  \E i \in S : \A j \in S : i <= j
<1> DEFINE Below == {0..i : i \in S}
<1>1. Below \subseteq FiniteSubsetsOf(Nat) /\ Below # {}
  <2>1. ASSUME NEW i \in S PROVE 0..i \in FiniteSubsetsOf(Nat)
    <3>1. IsFiniteSet(0..i)
      BY FS_Interval
    <3> QED
      BY <3>1 DEF FiniteSubsetsOf
  <2> QED
    BY <2>1
<1>2. PICK s \in Below : \A t \in Below : <<t, s>> \notin StrictSubsetOrdering(Nat)
  <2>1. IsWellFoundedOn(StrictSubsetOrdering(Nat), FiniteSubsetsOf(Nat))
    BY FS_StrictSubsetOrderingWellFounded
  <2> HIDE DEF Below
  <2> QED
    BY <1>1, <2>1, WFMin
<1>3. PICK i \in S : s = 0..i
  OBVIOUS
<1>4. ASSUME NEW j \in S, ~(i <= j) PROVE FALSE
  <2>1. 0..j \in Below
    OBVIOUS
  <2>2. 0..j \subseteq 0..i /\ 0..j # 0..i /\ 0..j \subseteq Nat /\ 0..i \subseteq Nat
    BY <1>4
  <2> QED
    BY <1>2, <1>3, <2>1, <2>2 DEF StrictSubsetOrdering
<1> QED
  BY <1>4

LEMMA UpTo ==
    ASSUME NEW n \in Nat, NEW S,
           0 \in S,
           \A k \in 1..n : k - 1 \in S => k \in S
    PROVE  0..n \subseteq S
<1> SUFFICES ASSUME (0..n) \ S # {} PROVE FALSE
  OBVIOUS
<1>a. (0..n) \ S \in SUBSET Nat
  OBVIOUS
<1>1. PICK i \in (0..n) \ S : \A j \in (0..n) \ S : i <= j
  BY <1>a, LeastMissing
<1>2. i \in 1..n /\ i - 1 \in 0..n /\ ~(i <= i - 1)
  BY <1>1
<1> QED
  BY <1>1, <1>2

-----------------------------------------------------------------------------
(* The worth of the places.                                                *)

LEMMA PlacesType == ParamBytes \in Nat /\ ParamBytes >= 1
BY ParamBytesAssumption

\* A table of the worths of the places up to n.
Weights(f, n) == f = [k \in 0..n |-> IF k = 0 THEN 1 ELSE 256 * f[k - 1]]

LEMMA WeightsExist == \E f : Weights(f, ParamBytes)
<1> DEFINE S == {n \in 0..ParamBytes : \E f : Weights(f, n)}
<1>1. 0 \in S
  <2>1. Weights([k \in 0..0 |-> 1], 0)
    BY DEF Weights
  <2> QED
    BY <2>1, PlacesType
<1>2. ASSUME NEW n \in 1..ParamBytes, n - 1 \in S PROVE n \in S
  <2>1. PICK f : Weights(f, n - 1)
    BY <1>2
  <2> DEFINE g == [k \in 0..n |-> IF k = n THEN 256 * f[n - 1] ELSE f[k]]
  <2>2. ASSUME NEW k \in 0..n PROVE g[k] = IF k = 0 THEN 1 ELSE 256 * g[k - 1]
    <3>1. CASE k = n
      BY <3>1, PlacesType
    <3>2. CASE k # n
      <4>1. k \in 0..(n - 1)
        BY <3>2, PlacesType
      <4>2. f[k] = IF k = 0 THEN 1 ELSE 256 * f[k - 1]
        BY <2>1, <4>1 DEF Weights
      <4>3. k # 0 => k - 1 \in 0..n /\ k - 1 # n
        BY <4>1, PlacesType
      <4> QED
        BY <3>2, <4>2, <4>3
    <3> QED
      BY <3>1, <3>2
  <2>3. g = [k \in 0..n |-> IF k = 0 THEN 1 ELSE 256 * g[k - 1]]
    BY <2>2
  <2> HIDE DEF g
  <2> QED
    BY <2>3 DEF Weights
<1> HIDE DEF S
<1>3. 0..ParamBytes \subseteq S
  BY <1>1, <1>2, UpTo, PlacesType
<1>4. ParamBytes \in S
  BY <1>3, PlacesType
<1> QED
  BY <1>4 DEF S

LEMMA WeightAt ==
    \A k \in 0..ParamBytes : Weight[k] = IF k = 0 THEN 1 ELSE 256 * Weight[k - 1]
<1>1. Weights(Weight, ParamBytes)
  BY WeightsExist DEF Weight, Weights
<1> QED
  BY <1>1 DEF Weights

LEMMA WeightType == \A k \in 0..ParamBytes : Weight[k] \in Nat /\ Weight[k] >= 1
<1> DEFINE S == {k \in 0..ParamBytes : Weight[k] \in Nat /\ Weight[k] >= 1}
<1>1. 0 \in S
  BY WeightAt, PlacesType
<1>2. ASSUME NEW k \in 1..ParamBytes, k - 1 \in S PROVE k \in S
  <2>1. Weight[k] = 256 * Weight[k - 1]
    BY WeightAt, PlacesType
  <2> QED
    BY <1>2, <2>1, PlacesType
<1> HIDE DEF S
<1>3. 0..ParamBytes \subseteq S
  BY <1>1, <1>2, UpTo, PlacesType
<1> QED
  BY <1>3 DEF S

\* A word holds a byte at the least.
LEMMA SpanType == Span \in Nat /\ Span >= 256
<1>1. Span = 256 * Weight[ParamBytes - 1]
  BY WeightAt, PlacesType DEF Span
<1>2. Weight[ParamBytes - 1] \in Nat /\ Weight[ParamBytes - 1] >= 1
  BY WeightType, PlacesType
<1> QED
  BY <1>1, <1>2

-----------------------------------------------------------------------------
(* Division.                                                               *)

LEMMA Division ==
    ASSUME NEW n \in Nat, NEW d \in Nat, d >= 1
    PROVE  /\ n \div d \in Nat
           /\ n % d \in 0..(d - 1)
           /\ n = d * (n \div d) + (n % d)
OBVIOUS

LEMMA DivisionUnique ==
    ASSUME NEW d \in Nat, d >= 1, NEW q \in Nat, NEW r \in 0..(d - 1)
    PROVE  (d * q + r) \div d = q /\ (d * q + r) % d = r
OBVIOUS

\* The next byte of a word adds what it is worth.
LEMMA NextByte ==
    ASSUME NEW u \in Nat, NEW w \in Nat, w >= 1
    PROVE  u % (256 * w) = (u % w) + ((u \div w) % 256) * w
<1> DEFINE q == u \div w
           r == u % w
           p == q \div 256
           b == q % 256
<1>1. q \in Nat /\ r \in 0..(w - 1) /\ u = w * q + r
  BY Division
<1> HIDE DEF q, r
<1>2. p \in Nat /\ b \in 0..255 /\ q = 256 * p + b
  BY <1>1
<1> HIDE DEF p, b
<1>3. u = (256 * w) * p + (b * w + r)
  BY <1>1, <1>2
<1>4. b * w + r \in 0..(256 * w - 1)
  <2>1. b * w <= 255 * w /\ b * w >= 0
    BY <1>2
  <2>2. b * w \in Int
    BY <1>2
  <2> QED
    BY <1>1, <2>1, <2>2
<1> DEFINE d == 256 * w
           c == b * w + r
<1>5. d \in Nat /\ d >= 1 /\ c \in 0..(d - 1) /\ u = d * p + c
  BY <1>3, <1>4
<1> HIDE DEF d, c
<1>6. u % d = c
  BY <1>2, <1>5, DivisionUnique
<1> QED
  BY <1>1, <1>2, <1>6 DEF q, r, b, c, d

LEMMA UnsignedType == \A v \in Int : Unsigned(v) \in 0..(Span - 1)
BY SpanType DEF Unsigned

\* What fits is not changed.
LEMMA UnsignedFits == \A v \in 0..(Span - 1) : Unsigned(v) = v
BY SpanType DEF Unsigned

\* Reading a word as signed loses nothing of it.
LEMMA UnsignedSigned == \A v \in 0..(Span - 1) : Signed(v) \in Int /\ Unsigned(Signed(v)) = v
<1> TAKE v \in 0..(Span - 1)
<1>1. CASE 2 * v >= Span
  <2>1. Unsigned(v - Span) = v
    BY SpanType DEF Unsigned
  <2> QED
    BY <1>1, <2>1, SpanType DEF Signed
<1>2. CASE ~(2 * v >= Span)
  BY <1>2, UnsignedFits, SpanType DEF Signed
<1> QED
  BY <1>1, <1>2

LEMMA SignedFits == \A v \in 0..127 : Signed(v) = v /\ v \in 0..(Span - 1)
BY SpanType DEF Signed

LEMMA ByteOfType ==
    ASSUME NEW v \in Int, NEW k \in 0..(ParamBytes - 1)
    PROVE  ByteOf(v, k) \in 0..255
<1>1. Unsigned(v) \in Nat
  BY UnsignedType, SpanType
<1>2. Weight[k] \in Nat /\ Weight[k] >= 1
  BY WeightType, PlacesType
<1>3. Unsigned(v) \div Weight[k] \in Nat
  BY <1>1, <1>2, Division
<1> QED
  BY <1>3 DEF ByteOf

-----------------------------------------------------------------------------
(* A word.                                                                 *)

(***************************************************************************)
(* Bytes that are those of a number add up to it again.                    *)
(***************************************************************************)
LEMMA WordBack ==
    ASSUME NEW v \in Int, NEW data, NEW w \in Nat,
           \A k \in 0..(ParamBytes - 1) : data[w * ParamBytes + (k + 1)] = ByteOf(v, k)
    PROVE  WordAt(data, w) = Unsigned(v)
<1> DEFINE u == Unsigned(v)
           sum == [k \in 0..ParamBytes |-> u % Weight[k]]
           Sums(f) == f = [k \in 0..ParamBytes |->
                              IF k = 0 THEN 0
                              ELSE f[k - 1] + data[w * ParamBytes + k] * Weight[k - 1]]
<1>1. u \in 0..(Span - 1) /\ u \in Nat
  BY UnsignedType, SpanType
<1>a. \A x \in Nat : x >= 1 => u % (256 * x) = (u % x) + ((u \div x) % 256) * x
  <2> HIDE DEF u
  <2> QED
    BY <1>1, NextByte
<1>2. ASSUME NEW k \in 0..ParamBytes
      PROVE  sum[k] = IF k = 0 THEN 0
                      ELSE sum[k - 1] + data[w * ParamBytes + k] * Weight[k - 1]
  <2>1. CASE k = 0
    <3>1. Weight[0] = 1
      BY WeightAt, PlacesType
    <3>2. u % 1 = 0
      BY <1>1
    <3> QED
      BY <2>1, <3>1, <3>2
  <2>2. CASE k # 0
    <3>1. k - 1 \in 0..(ParamBytes - 1) /\ k - 1 \in 0..ParamBytes /\ (k - 1) + 1 = k
      BY <2>2, PlacesType
    <3> DEFINE j == k - 1
    <3>2. data[w * ParamBytes + k] = (u \div Weight[j]) % 256
      BY <3>1 DEF ByteOf
    <3>3. Weight[k] = 256 * Weight[j] /\ Weight[j] \in Nat /\ Weight[j] >= 1
      BY <2>2, <3>1, WeightAt, WeightType
    <3>4. u % (256 * Weight[j]) = (u % Weight[j]) + ((u \div Weight[j]) % 256) * Weight[j]
      BY <1>a, <3>3, Zenon
    <3>5. sum[k] = u % Weight[k] /\ sum[k - 1] = u % Weight[j]
      BY <3>1
    <3> HIDE DEF sum, j, u
    <3>6. sum[k] = sum[k - 1] + ((u \div Weight[j]) % 256) * Weight[j]
      BY <3>3, <3>4, <3>5
    <3> QED
      BY <2>2, <3>2, <3>6 DEF j
  <2> QED
    BY <2>1, <2>2
<1> HIDE DEF u
<1>3. Sums(sum)
  <2>1. sum = [k \in 0..ParamBytes |-> sum[k]]
    OBVIOUS
  <2> HIDE DEF sum
  <2> QED
    BY <1>2, <2>1
<1> HIDE DEF sum
<1>4. ASSUME NEW f, Sums(f) PROVE f = sum
  <2> DEFINE S == {k \in 0..ParamBytes : f[k] = sum[k]}
  <2>a. \A k \in 0..ParamBytes : f[k] = IF k = 0 THEN 0
                      ELSE f[k - 1] + data[w * ParamBytes + k] * Weight[k - 1]
    BY <1>4, Zenon
  <2>1. 0 \in S
    BY <1>2, <2>a, PlacesType
  <2>2. ASSUME NEW k \in 1..ParamBytes, k - 1 \in S PROVE k \in S
    <3>1. k \in 0..ParamBytes /\ k # 0 /\ f[k - 1] = sum[k - 1]
      BY <2>2, PlacesType
    <3> QED
      BY <1>2, <2>a, <3>1
  <2> HIDE DEF S
  <2>3. 0..ParamBytes \subseteq S
    BY <2>1, <2>2, UpTo, PlacesType
  <2>4. \A k \in 0..ParamBytes : f[k] = sum[k]
    BY <2>3 DEF S
  <2>5. f = [k \in 0..ParamBytes |-> f[k]]
    BY <1>4, Zenon
  <2>6. sum = [k \in 0..ParamBytes |-> sum[k]]
    BY DEF sum
  <2> QED
    BY <2>4, <2>5, <2>6
<1>5. (CHOOSE f : Sums(f)) = sum
  <2> HIDE DEF Sums
  <2> QED
    BY <1>3, <1>4
<1>6. WordAt(data, w) = sum[ParamBytes]
  BY <1>5 DEF WordAt
<1>7. sum[ParamBytes] = u % Span
  BY PlacesType DEF sum, Span
<1> QED
  BY <1>1, <1>6, <1>7, SpanType DEF u

-----------------------------------------------------------------------------
(* The block.                                                              *)

MotorType == [number : Int, acceleration : Int, maxSpeed : Int, step : Int]

\* The w-th word of a motor.
Word(m, w) == <<m.number, m.acceleration, m.maxSpeed, m.step>>[w + 1]

LEMMA WordType == \A m \in MotorType, w \in 0..3 : Word(m, w) \in Int
BY DEF MotorType, Word

\* The place of byte k of word w of the motor that i others precede.
Address(i, w, k) == (4 * i + w) * ParamBytes + k

Tells(n, count, i, w, k) ==
    /\ n \in 0..(count * MotorBytes - 1)
    /\ n \div MotorBytes = i
    /\ (n \div ParamBytes) % 4 = w
    /\ n % ParamBytes = k

(***************************************************************************)
(* A place tells the motor, the word and the byte.                         *)
(***************************************************************************)
LEMMA Place ==
    ASSUME NEW count \in Nat, NEW i \in 0..(count - 1), NEW w \in 0..3,
           NEW k \in 0..(ParamBytes - 1)
    PROVE  Tells(Address(i, w, k), count, i, w, k)
<1> DEFINE n == Address(i, w, k)
<1>n. n = (4 * i + w) * ParamBytes + k
  BY DEF Address
<1> HIDE DEF n
<1> DEFINE r == w * ParamBytes + k
<1>a. ParamBytes \in Nat /\ ParamBytes >= 1 /\ MotorBytes \in Nat /\ MotorBytes >= 1
  BY PlacesType DEF MotorBytes
<1>b. i \in Nat /\ 4 * i + w \in Nat
  OBVIOUS
<1>1. r \in 0..(MotorBytes - 1)
  <2>1. w * ParamBytes <= 3 * ParamBytes /\ w * ParamBytes \in Nat
    BY PlacesType
  <2> QED
    BY <2>1, PlacesType DEF MotorBytes
<1>2. n = MotorBytes * i + r
  <2>1. (4 * i + w) * ParamBytes = (4 * ParamBytes) * i + w * ParamBytes
    BY PlacesType
  <2>2. w * ParamBytes \in Nat /\ (4 * ParamBytes) * i \in Nat
    BY PlacesType
  <2> QED
    BY <1>n, <2>1, <2>2 DEF MotorBytes
<1>3. n = ParamBytes * (4 * i + w) + k
  BY <1>n, PlacesType
<1> HIDE DEF r
<1>4. n \div MotorBytes = i
  BY <1>a, <1>b, <1>1, <1>2, DivisionUnique
<1>5. n \div ParamBytes = 4 * i + w /\ n % ParamBytes = k
  <2> DEFINE q == 4 * i + w
  <2>1. q \in Nat /\ n = ParamBytes * q + k
    BY <1>b, <1>3
  <2> HIDE DEF q
  <2>2. n \div ParamBytes = q /\ n % ParamBytes = k
    BY <1>a, <2>1, DivisionUnique
  <2> QED
    BY <2>2 DEF q
<1>6. (4 * i + w) % 4 = w
  OBVIOUS
<1>7. n \in 0..(count * MotorBytes - 1)
  <2>1. MotorBytes * i <= MotorBytes * (count - 1) /\ MotorBytes * i \in Nat
    BY <1>a
  <2>2. MotorBytes * (count - 1) = count * MotorBytes - MotorBytes
    BY <1>a
  <2> QED
    BY <1>a, <1>1, <1>2, <2>1, <2>2
<1> QED
  BY <1>4, <1>5, <1>6, <1>7 DEF n, Tells

LEMMA EncodedByte ==
    ASSUME NEW all \in Seq(MotorType), NEW i \in 1..Len(all), NEW w \in 0..3,
           NEW k \in 0..(ParamBytes - 1)
    PROVE  EncodeMotors(all)[Address(i - 1, w, k) + 1] = ByteOf(Word(all[i], w), k)
<1> DEFINE c == Len(all)
           j == i - 1
           n == Address(j, w, k)
<1>1. c \in Nat /\ j \in 0..(c - 1) /\ j + 1 = i
  OBVIOUS
<1>3. Address(i - 1, w, k) = n
  OBVIOUS
<1> HIDE DEF c, j
<1>2. /\ n \in 0..(c * MotorBytes - 1)
      /\ n \div MotorBytes = j
      /\ (n \div ParamBytes) % 4 = w
      /\ n % ParamBytes = k
  <2>1. Tells(n, c, j, w, k)
    BY <1>1, Place
  <2> QED
    BY <2>1 DEF Tells
<1> HIDE DEF n
<1>4. n + 1 \in 1..(Len(all) * MotorBytes) /\ (n + 1) - 1 = n
  <2>1. n + 1 \in 1..(c * MotorBytes) /\ (n + 1) - 1 = n
    BY <1>1, <1>2, PlacesType DEF MotorBytes
  <2> QED
    BY <2>1 DEF c
<1>5. EncodeMotors(all)[n + 1] =
        ByteOf(<<all[n \div MotorBytes + 1].number, all[n \div MotorBytes + 1].acceleration,
                 all[n \div MotorBytes + 1].maxSpeed, all[n \div MotorBytes + 1].step>>
                    [((n \div ParamBytes) % 4) + 1], n % ParamBytes)
  BY <1>4 DEF EncodeMotors
<1> QED
  BY <1>1, <1>2, <1>3, <1>5 DEF Word

LEMMA WordArrives ==
    ASSUME NEW all \in Seq(MotorType), NEW i \in 1..Len(all), NEW w \in 0..3
    PROVE  WordAt(EncodeMotors(all), 4 * (i - 1) + w) = Unsigned(Word(all[i], w))
<1> DEFINE data == EncodeMotors(all)
           at == 4 * (i - 1) + w
           v == Word(all[i], w)
<1>1. v \in Int
  BY WordType
<1>2. at \in Nat
  OBVIOUS
<1>3. ASSUME NEW k \in 0..(ParamBytes - 1) PROVE data[at * ParamBytes + (k + 1)] = ByteOf(v, k)
  <2>1. at * ParamBytes + (k + 1) = Address(i - 1, w, k) + 1
    BY <1>2, PlacesType DEF Address
  <2> QED
    BY <2>1, EncodedByte
<1> HIDE DEF data, at, v
<1>4. WordAt(data, at) = Unsigned(v)
  BY <1>1, <1>2, <1>3, WordBack
<1> QED
  BY <1>4 DEF data, at, v

\* What the controller reads of a motor.
Received(m) ==
    Motor(Unsigned(m.number), Unsigned(m.acceleration), Unsigned(m.maxSpeed),
          Signed(Unsigned(m.step)))

(***************************************************************************)
(* The block carries the motors: parseMotorData finds in it as many motors *)
(* as were written, in their order, and in every field the number that was *)
(* written there, as far as a word holds it.                               *)
(***************************************************************************)
THEOREM BlockCarriesMotors ==
    ASSUME NEW all \in Seq(MotorType)
    PROVE  parseMotorData(EncodeMotors(all), Len(all)) = [i \in 1..Len(all) |-> Received(all[i])]
<1> DEFINE data == EncodeMotors(all)
<1>1. ASSUME NEW i \in 1..Len(all)
      PROVE  Motor(WordAt(data, 4 * (i - 1)), WordAt(data, 4 * (i - 1) + 1),
                   WordAt(data, 4 * (i - 1) + 2), Signed(WordAt(data, 4 * (i - 1) + 3)))
                = Received(all[i])
  <2>1. \A w \in 0..3 : WordAt(data, 4 * (i - 1) + w) = Unsigned(Word(all[i], w))
    BY WordArrives
  <2>2. 4 * (i - 1) + 0 = 4 * (i - 1)
    OBVIOUS
  <2>3. /\ Word(all[i], 0) = all[i].number
        /\ Word(all[i], 1) = all[i].acceleration
        /\ Word(all[i], 2) = all[i].maxSpeed
        /\ Word(all[i], 3) = all[i].step
    BY DEF Word
  <2> HIDE DEF data
  <2>4. /\ WordAt(data, 4 * (i - 1)) = Unsigned(all[i].number)
        /\ WordAt(data, 4 * (i - 1) + 1) = Unsigned(all[i].acceleration)
        /\ WordAt(data, 4 * (i - 1) + 2) = Unsigned(all[i].maxSpeed)
        /\ WordAt(data, 4 * (i - 1) + 3) = Unsigned(all[i].step)
    BY <2>1, <2>2, <2>3
  <2> QED
    BY <2>4 DEF Received
<1> HIDE DEF data
<1>2. parseMotorData(data, Len(all)) =
        [i \in 1..Len(all) |->
            Motor(WordAt(data, 4 * (i - 1)), WordAt(data, 4 * (i - 1) + 1),
                  WordAt(data, 4 * (i - 1) + 2), Signed(WordAt(data, 4 * (i - 1) + 3)))]
  BY DEF parseMotorData
<1>3. parseMotorData(data, Len(all)) = [i \in 1..Len(all) |-> Received(all[i])]
  BY <1>1, <1>2
<1> QED
  BY <1>3 DEF data

LEMMA PlaceType ==
    ASSUME NEW count \in Nat, NEW k \in Nat, k < count * MotorBytes
    PROVE  /\ k \div MotorBytes + 1 \in 1..count
           /\ (k \div ParamBytes) % 4 \in 0..3
           /\ k % ParamBytes \in 0..(ParamBytes - 1)
<1> DEFINE d == MotorBytes
           q == k \div d
<1>1. d \in Nat /\ d >= 1
  BY PlacesType DEF MotorBytes
<1>2. q \in Nat /\ k % d \in 0..(d - 1) /\ k = d * q + (k % d)
  <2> HIDE DEF d
  <2> QED
    BY <1>1, Division
<1>3. k < count * d
  OBVIOUS
<1> HIDE DEF d, q
<1>4. q < count
  <2>1. d * q <= k
    BY <1>1, <1>2
  <2>2. d * q < d * count
    BY <1>1, <1>2, <1>3, <2>1
  <2> QED
    BY <1>1, <1>2, <2>2
<1>5. k \div ParamBytes \in Nat /\ k % ParamBytes \in 0..(ParamBytes - 1)
  BY PlacesType, Division
<1> QED
  BY <1>2, <1>4, <1>5 DEF q, d

LEMMA BlockType ==
    ASSUME NEW all \in Seq(MotorType)
    PROVE  /\ EncodeMotors(all) \in Seq(0..255)
           /\ Len(EncodeMotors(all)) = Len(all) * MotorBytes
<1> DEFINE c == Len(all)
           n == c * MotorBytes
<1>1. n \in Nat /\ c \in Nat /\ c = Len(all)
  BY PlacesType DEF MotorBytes
<1>2. \A q \in 1..c : all[q] \in MotorType
  OBVIOUS
<1>3. ASSUME NEW i \in 1..n PROVE EncodeMotors(all)[i] \in 0..255
  <2> DEFINE q == (i - 1) \div MotorBytes + 1
             w == ((i - 1) \div ParamBytes) % 4
             k == (i - 1) % ParamBytes
  <2>1. EncodeMotors(all)[i] = ByteOf(Word(all[q], w), k)
    BY DEF EncodeMotors, Word
  <2>2. i - 1 \in Nat /\ i - 1 < c * MotorBytes
    BY <1>1
  <2> HIDE DEF c
  <2>3. q \in 1..c /\ w \in 0..3 /\ k \in 0..(ParamBytes - 1)
    BY <1>1, <2>2, PlaceType
  <2> HIDE DEF q, w, k
  <2>4. all[q] \in MotorType
    BY <1>2, <2>3
  <2>5. Word(all[q], w) \in Int
    BY <2>3, <2>4, WordType
  <2> QED
    BY <2>1, <2>3, <2>5, ByteOfType
<1>4. EncodeMotors(all) = [i \in 1..n |-> EncodeMotors(all)[i]]
  BY DEF EncodeMotors
<1>6. n = Len(all) * MotorBytes
  OBVIOUS
<1> HIDE DEF n
<1>5. EncodeMotors(all) \in [1..n -> 0..255]
  BY <1>3, <1>4
<1>7. EncodeMotors(all) \in Seq(0..255) /\ Len(EncodeMotors(all)) = n
  BY <1>1, <1>5
<1> QED
  BY <1>6, <1>7

-----------------------------------------------------------------------------
(* The command byte.                                                       *)

LEMMA CommandByteReads ==
    ASSUME NEW mode \in Modes, NEW count \in 0..10
    PROVE  /\ CommandByte(mode, count) \in 0..255
           /\ CommandByte(mode, count) # VersionCommand
           /\ IsMotorCommand(CommandByte(mode, count))
           /\ CommandMode(CommandByte(mode, count)) =
                    (IF mode = "synchronous" THEN SyncCommand ELSE AsyncCommand)
           /\ CommandCount(CommandByte(mode, count)) = count
           /\ validateMotorCommand(CommandByte(mode, count)) <=> count # 0
BY DEF Modes, CommandByte, CommandMode, CommandCount, IsMotorCommand, validateMotorCommand,
       SyncCommand, AsyncCommand, VersionCommand
=============================================================================
